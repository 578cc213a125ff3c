--------------------------- MODULE GatePublication ---------------------------
(* The steps behind the official gate's and the kill rehearsal's execute     *)
(* step: finalize, upload, confirm (scripts/run_phase5_gate_finalizer.py,    *)
(* sentinel/phase5/terminal.py, github_evidence.py, and the workflow's       *)
(* conditions).  An uploaded artifact becomes visible to the listing only    *)
(* after a while, a step's outcome need not tell whether its upload took     *)
(* place, and every step can be killed by its own timeout.  GateExecution    *)
(* models how the execute step leaves what is found here.                    *)
EXTENDS GateTerminal, FiniteSets

CONSTANTS
    MaxLag,        \* zero listings a stored artifact may still give
    MarkerLooks,   \* FINALIZE_MAX_ATTEMPTS
    ConfirmLooks   \* MAX_LISTING_ATTEMPTS and REQUIRED_ZERO_OBSERVATIONS

ASSUME PublicationAssumption ==
    /\ MaxLag \in Nat
    /\ MarkerLooks \in Nat \ {0} /\ ConfirmLooks \in Nat \ {0}

VARIABLES
    pc,          \* the step at work
    lane,        \* "official" or "rehearsal"
    attempt,     \* run attempt
    markerStep,  \* outcome of the marker's upload step
    marker,      \* this attempt's marker is stored (GitHub's, not the job's)
    lag,         \* zero listings still to be given
    zeros,       \* zero listings seen by the step at work
    failures,    \* its listings that failed
    left,        \* what the execute step left: nobody reads it again
    candidate,   \* phase5_official_gate.json
    checks,      \* the ancillary checks file is in the publication root
    quarantine,  \* what was moved or copied out of the publication root
    runnerJournal,      \* the runner's journal, as the finalizer reads it
    executeCancelled,   \* the execute step was cancelled
    required,    \* output terminal_required, or "none" when there is none
    upload,      \* outcome of the evidence upload step
    stored,      \* the evidence artifact GitHub holds, or None
    report       \* what the confirm step reported

runnerVars == <<lane, attempt, markerStep, marker, left, runnerJournal, executeCancelled>>
root == <<candidate, checks, quarantine>>
listing == <<lag, zeros, failures>>
publicationVars == <<pc, runnerVars, listing, root, required, upload, stored, report>>

Untrusted == [kind |-> "UNTRUSTED", cause |-> None, writer |-> None]
Link == [kind |-> "LINK", cause |-> None, writer |-> None]
Directory == [kind |-> "DIRECTORY", cause |-> None, writer |-> None]
Foreign == {Untrusted, Link, Directory}
Trusted(c) == c.kind \in {"QUALITY", "INFRASTRUCTURE_INVALID", "UNCLASSIFIED"}

NotStored == [terminal |-> Absent, checks |-> FALSE, exists |-> FALSE]
NoReport == [state |-> "none", reason |-> None, disposition |-> None]
Published == {"TERMINAL_EVIDENCE_PUBLISHED", "INVALID_EVIDENCE_PUBLISHED"}
Journals == {<<Event("STATE", "EXECUTING")>>,
             <<Event("STATE", "EXECUTING"), Event("LATCHED", "SESSION_DEADLINE")>>,
             <<Event("STATE", "EXECUTING"), Event("SIGNAL", None), Event("EXCEPTION", "RUNNER_EXCEPTION")>>,
             <<Event("STATE", "EXECUTING"), Event("WRITE_FAILED", None)>>}

PublicationTypeOK ==
    /\ pc \in {"finalize", "look", "classify", "preserve", "rewrite", "write", "upload",
               "confirm", "entry", "download", "ended"}
    /\ lane \in {"official", "rehearsal"} /\ attempt \in 1..2
    /\ markerStep \in {"success", "failure", "skipped", "none"} /\ marker \in BOOLEAN
    /\ lag \in 0..MaxLag /\ zeros \in 0..MarkerLooks \cup 0..ConfirmLooks /\ failures \in 0..ConfirmLooks
    /\ left \in Candidates \cup Foreign /\ candidate \in Candidates \cup Foreign
    /\ checks \in BOOLEAN /\ quarantine \subseteq {"candidate", "checks"}
    /\ runnerJournal \in Journals \cup {<<>>} /\ executeCancelled \in BOOLEAN
    /\ required \in {"none", "true", "false"}
    /\ upload \in {"none", "success", "failure", "skipped"}
    /\ stored.exists \in BOOLEAN /\ stored.terminal \in Candidates \cup Foreign
    /\ report.state \in Published \cup {"none", "PUBLICATION_UNCONFIRMED", "PUBLICATION_FAILED"}

\* A refused preflight and a failed marker upload leave nothing; otherwise the
\* execute step left any candidate, with or without its checks file.
Ran == lane = "rehearsal" \/ markerStep = "success"
PublicationInit ==
    /\ pc = "finalize"
    /\ lane \in {"official", "rehearsal"}
    /\ attempt \in 1..2
    /\ markerStep \in (IF lane = "rehearsal" THEN {"none"}
                       ELSE IF attempt = 2 THEN {"skipped"} ELSE {"success", "failure", "skipped"})
    /\ marker \in (CASE markerStep = "success" -> {TRUE} [] markerStep = "failure" -> BOOLEAN
                     [] OTHER -> {FALSE})
    /\ lag \in (IF marker /\ markerStep = "failure" THEN 0..MaxLag ELSE {0})
    /\ zeros = 0 /\ failures = 0
    /\ left \in (IF Ran THEN {Absent, Quality, Invalid("SESSION_DEADLINE", "RUNNER")} \cup Foreign
                 ELSE {Absent})
    /\ candidate = left
    /\ checks \in (IF Ran THEN BOOLEAN ELSE {FALSE})
    /\ quarantine = {}
    /\ runnerJournal \in (IF Ran THEN Journals ELSE {<<>>})
    /\ executeCancelled \in (IF Ran THEN BOOLEAN ELSE {FALSE})
    /\ required = "none" /\ upload = "none" /\ stored = NotStored /\ report = NoReport

To(next) == pc' = next
Keep == UNCHANGED <<runnerVars, upload, stored, report>>

----------------------------------------------------------------------------
(* finalize *)

Require(value) == required' = value /\ To("upload")

\* Mutant: one zero listing is enough.
NotConsumed_OneLook(n) == n >= 1

\* rest_marker_visible: "not consumed" takes zero listings only, two at least.
NotConsumed(n) == n >= 2

\* decide_finalization's eligibility gates, and consumption_from.
Eligible ==
    /\ pc = "finalize"
    /\ CASE lane = "rehearsal" \/ (attempt = 1 /\ markerStep = "success") -> To("classify") /\ UNCHANGED required
         [] lane = "official" /\ (attempt # 1 \/ markerStep = "skipped") -> Require("false")
         [] OTHER -> To("look") /\ UNCHANGED required
    /\ UNCHANGED <<listing, root>> /\ Keep

\* One listing of the run's artifacts of this name, counted against its total.
Look ==
    /\ pc = "look"
    /\ \/ To("classify") /\ UNCHANGED <<zeros, lag, required>>        \* the listing failed
       \/ /\ marker /\ lag = 0
          /\ To("classify") /\ UNCHANGED <<zeros, lag, required>>
       \/ /\ ~(marker /\ lag = 0)
          /\ zeros' = zeros + 1
          /\ lag' = IF lag > 0 THEN lag - 1 ELSE 0
          /\ \E slow \in BOOLEAN :
               IF zeros + 1 < MarkerLooks /\ ~slow THEN pc' = pc /\ UNCHANGED required
               ELSE IF NotConsumed(zeros + 1) THEN Require("false")
                    ELSE To("classify") /\ UNCHANGED required
    /\ UNCHANGED <<failures, root>> /\ Keep

\* classify_candidate and decide_terminal_disposition's first split.
Classify ==
    /\ pc = "classify"
    /\ IF candidate = Directory THEN Require("true")
       ELSE UNCHANGED required /\ To(IF Trusted(candidate) THEN "preserve" ELSE "rewrite")
    /\ UNCHANGED <<listing, root>> /\ Keep

\* _quarantine: what has no trusted quality record beside it is moved out, and
\* the bytes of an untrusted candidate are copied out.
MoveChecks ==
    /\ checks' = (checks /\ candidate = Quality)
    /\ quarantine' = quarantine \cup (IF candidate = Untrusted THEN {"candidate"} ELSE {})
                                \cup (IF checks /\ candidate # Quality THEN {"checks"} ELSE {})

Preserve ==
    /\ pc = "preserve"
    /\ MoveChecks /\ Require("true")
    /\ UNCHANGED <<candidate, listing>> /\ Keep

Quarantine ==
    /\ pc = "rewrite"
    /\ MoveChecks /\ To("write")
    /\ UNCHANGED <<candidate, listing, required>> /\ Keep

\* Mutant: the finalizer believes the journal before the record.
Rewritten_Journal(c) ==
    IF LastState(runnerJournal) = "EXECUTING" /\ ~executeCancelled THEN Quality ELSE Unclassified

\* Mutant: a record without a known cause gets no fallback.
Rewritten_NoFallback(c) == Invalid(Objective(runnerJournal), "FINALIZER")

\* decide_terminal_disposition over a candidate that is not trusted.
Rewritten(c) == IF c = Absent THEN Decide(Absent, Summary(runnerJournal), executeCancelled) ELSE Unclassified

\* write_terminal_atomically: the new record replaces the very bytes that were
\* classified, or nothing.  The write may fail, or the step be killed, before
\* or after the rename.
Write ==
    /\ pc = "write"
    /\ \/ candidate' = Rewritten(candidate) /\ Require("true")
       \/ candidate' \in {candidate, Rewritten(candidate)}
          /\ UNCHANGED required /\ To("upload")
    /\ UNCHANGED <<checks, quarantine, listing>> /\ Keep

\* The step fails or is killed before it writes its output: it fails open.
FinalizerFails ==
    /\ pc \in {"finalize", "look", "classify", "preserve", "rewrite"}
    /\ To("upload")
    /\ UNCHANGED <<required, listing, root>> /\ Keep

----------------------------------------------------------------------------
(* upload, and the workflow's conditions *)

\* Mutant: without an output nothing is uploaded.
WantsUpload_Closed == markerStep # "skipped" /\ required = "true"

WantsUpload == markerStep # "skipped" /\ required # "false"

\* The step may report a failure although GitHub has stored the artifact, and
\* what is stored may be damaged.  A directory at the candidate's place is not
\* uploaded as one; the journal always is.
Upload ==
    /\ pc = "upload"
    /\ IF ~WantsUpload
       THEN upload' = "skipped" /\ To("ended") /\ UNCHANGED <<stored, lag>>
       ELSE /\ upload' \in {"success", "failure"}
            /\ \E damaged \in BOOLEAN :
                  stored' \in
                     (LET whole == [terminal |-> CASE candidate \in {Link, Directory} -> Absent
                                                   [] damaged -> Untrusted
                                                   [] OTHER -> candidate,
                                    checks |-> checks, exists |-> TRUE]
                      IN IF upload' = "success" THEN {whole} ELSE {whole, NotStored})
            /\ lag' \in 0..MaxLag
            /\ To("confirm")
    /\ zeros' = 0 /\ failures' = 0
    /\ UNCHANGED <<runnerVars, root, required, report>>

----------------------------------------------------------------------------
(* confirm *)

\* report_confirmation surfaces a disposition only of published evidence.
Report(state, reason, disposition) ==
    /\ report' = [state |-> state, reason |-> reason,
                  disposition |-> IF state \in Published THEN disposition ELSE None]
    /\ To("ended")

\* Mutant: an error counts as an absence.
Absence_ErrorCounts(z, f, slow) ==
    IF upload = "failure" THEN <<"PUBLICATION_FAILED", "POSITIVELY_ABSENT">>
    ELSE <<"PUBLICATION_UNCONFIRMED", "NOT_YET_VISIBLE">>

\* confirm_publication when no listing showed the artifact.
Absence(z, f, slow) ==
    IF f > 0 THEN <<"PUBLICATION_UNCONFIRMED", "REST_UNAVAILABLE">>
    ELSE IF slow \/ z < ConfirmLooks THEN <<"PUBLICATION_UNCONFIRMED", "CONFIRM_BUDGET_EXHAUSTED">>
    ELSE IF upload = "failure" THEN <<"PUBLICATION_FAILED", "POSITIVELY_ABSENT">>
    ELSE <<"PUBLICATION_UNCONFIRMED", "NOT_YET_VISIBLE">>

ListEvidence ==
    /\ pc = "confirm" /\ zeros + failures < ConfirmLooks
    /\ \/ failures' = failures + 1 /\ UNCHANGED <<pc, zeros, lag>>
       \/ /\ stored.exists /\ lag = 0
          /\ To("entry") /\ UNCHANGED <<zeros, failures, lag>>
       \/ /\ ~(stored.exists /\ lag = 0)
          /\ zeros' = zeros + 1
          /\ lag' = IF lag > 0 THEN lag - 1 ELSE 0
          /\ UNCHANGED <<pc, failures>>
    /\ UNCHANGED <<root, required, report>> /\ UNCHANGED <<runnerVars, upload, stored>>

NothingListed ==
    /\ pc = "confirm"
    /\ \E slow \in BOOLEAN :
         /\ slow \/ zeros + failures = ConfirmLooks
         /\ Report(Absence(zeros, failures, slow)[1], Absence(zeros, failures, slow)[2], None)
    /\ UNCHANGED <<runnerVars, listing, root, required, upload, stored>>

\* The listed entry against this run and, when the upload step gave them, its
\* id and digest: damage in the store shows in a digest known to both sides.
Entry ==
    /\ pc = "entry"
    /\ \E digests \in BOOLEAN :
         IF digests /\ stored.terminal = Untrusted /\ candidate # Untrusted
         THEN Report("PUBLICATION_FAILED", "DIGEST_MISMATCH", None)
         ELSE To("download") /\ UNCHANGED report
    /\ UNCHANGED <<runnerVars, listing, root, required, upload, stored>>

\* Mutant: the local file decides what was published.
Verdict_Local(bytes) == candidate

\* verify_terminal_bytes over the downloaded bytes: nothing else decides.
Verdict(bytes) == bytes

Download ==
    /\ pc = "download"
    /\ \/ Report("PUBLICATION_UNCONFIRMED", "DOWNLOAD_UNAVAILABLE", None)
       \/ /\ stored.terminal = Absent
          /\ Report("PUBLICATION_FAILED", "TREE_INVALID", None)
       \/ /\ stored.terminal # Absent /\ ~Trusted(Verdict(stored.terminal))
          /\ Report("PUBLICATION_FAILED", "PUBLISHED_EVIDENCE_UNTRUSTED", None)
       \/ /\ stored.terminal # Absent /\ Trusted(Verdict(stored.terminal))
          /\ Report(IF Verdict(stored.terminal) = Quality THEN "TERMINAL_EVIDENCE_PUBLISHED"
                                                          ELSE "INVALID_EVIDENCE_PUBLISHED",
                    None, Verdict(stored.terminal).kind)
    /\ UNCHANGED <<runnerVars, listing, root, required, upload, stored>>

\* cmd_confirm turns an exception into "unconfirmed"; a killed step says nothing.
ConfirmFails ==
    /\ pc \in {"confirm", "entry", "download"}
    /\ \/ Report("PUBLICATION_UNCONFIRMED", "CONFIRM_EXCEPTION", None)
       \/ To("ended") /\ UNCHANGED report
    /\ UNCHANGED <<runnerVars, listing, root, required, upload, stored>>

----------------------------------------------------------------------------
Finalizer == Eligible \/ Look \/ Classify \/ Preserve \/ Quarantine \/ Write
Confirm == ListEvidence \/ NothingListed \/ Entry \/ Download
PublicationNext == Finalizer \/ FinalizerFails \/ Upload \/ Confirm \/ ConfirmFails

PublicationSpec == PublicationInit /\ [][PublicationNext]_publicationVars

----------------------------------------------------------------------------
(* Properties *)

\* A published state, and the disposition that goes with it, is only ever said
\* of a record GitHub holds and that can be trusted, and it is that record's;
\* a positive absence is only said of an artifact that is not there.
ReportIsTrue ==
    /\ report.state = "TERMINAL_EVIDENCE_PUBLISHED" => stored.terminal = Quality
    /\ report.state = "INVALID_EVIDENCE_PUBLISHED" =>
          Trusted(stored.terminal) /\ stored.terminal # Quality
    /\ report.state = "PUBLICATION_FAILED" => ~Trusted(stored.terminal)
    /\ report.disposition # None => report.disposition = stored.terminal.kind

\* An attempt that consumed the one-shot owes terminal evidence: the upload is
\* skipped only when no marker of this attempt was stored, whatever the marker
\* step reported, the listing showed, or became of the finalizer.
ConsumedIsUploaded == upload = "skipped" => ~marker /\ lane = "official"

\* The finalizer never authors or removes a quality record: what it leaves is
\* the trusted record the runner left, or an invalid one it wrote because there
\* was none, and then the checks file does not stay beside it.
FinalizerIsHonest ==
    /\ Trusted(left) => candidate = left
    /\ candidate = Quality => left = Quality
    /\ required = "true" /\ candidate # Directory => Trusted(candidate) /\ (checks => candidate = Quality)

\* What the runner's disk holds is well-formed and honest.
FinalizerSound == PublicationTypeOK /\ FinalizerIsHonest
=============================================================================
