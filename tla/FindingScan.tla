----------------------------- MODULE FindingScan -----------------------------
(* What the sentinel promises about findings, with everything about runs,    *)
(* task rows, transactions, files and crashes left out (DATA_CONTRACT.md     *)
(* section 9).  A finding is named by its fingerprint, and a fingerprint     *)
(* belongs to one scope, the pair (surface, check_class).  A scan confirms   *)
(* scopes one at a time, then settles: only a finding in a scope this very   *)
(* scan confirmed, and did not see again, may stop being open.               *)

CONSTANTS Scopes,   \* the (surface, check_class) pairs
          Prints,   \* the fingerprints
          ScopeOf   \* the scope of each fingerprint

VARIABLES open,     \* fingerprints that have an OPEN row
          seen,     \* fingerprints the current scan has observed
          scanned   \* scopes the current scan has confirmed

scanVars == <<open, seen, scanned>>

ScanInit == open = {} /\ seen = {} /\ scanned = {}

PrintsIn(s) == {p \in Prints : ScopeOf[p] = s}

\* A check reached a verdict on scope s; a scope is confirmed once per scan.
ConfirmScope(s, obs) ==
    /\ s \notin scanned
    /\ open' = open \cup obs
    /\ seen' = seen \cup obs
    /\ scanned' = scanned \cup {s}

\* Auto-resolution: scope-limited, not run-limited.
Settle ==
    /\ open' = {p \in open : ScopeOf[p] \in scanned => p \in seen}
    /\ UNCHANGED <<seen, scanned>>

\* The scan is over, or died: nothing it learnt survives except open rows.
Forget ==
    /\ seen' = {}
    /\ scanned' = {}
    /\ UNCHANGED open

ScanNext ==
    \/ \E s \in Scopes : \E obs \in SUBSET PrintsIn(s) : ConfirmScope(s, obs)
    \/ Settle
    \/ Forget

ScanSpec == ScanInit /\ [][ScanNext]_scanVars
=============================================================================
