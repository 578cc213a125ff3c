----------------------------- MODULE FindingRows -----------------------------
(* The findings table (contracts/ledger_schema.sql, sentinel/ledger.py) and  *)
(* the two operations sentinel/lifecycle.py performs on it.  A row keeps the *)
(* columns the lifecycle reads: its fingerprint, the runs that saw it first  *)
(* and last, and the run that resolved it (NoRun while it is OPEN; the       *)
(* schema's CHECKs tie that column to the status).                           *)
EXTENDS Integers, FiniteSets

CONSTANTS Scopes, Prints, ScopeOf, Runs

NoRun == 0

Rows == [fp : Prints, first : Runs, last : Runs, resolved : Runs \cup {NoRun}]

IsOpen(f) == f.resolved = NoRun

OpenPrints(rows) == {f.fp : f \in {g \in rows : IsOpen(g)}}

ScopePrints(s) == {p \in Prints : ScopeOf[p] = s}

NewRow(p, r) == [fp |-> p, first |-> r, last |-> r, resolved |-> NoRun]

\* Mutant: an OPEN row does not stop the insert.
ApplyObserved_AlwaysInsert(rows, r, obs) ==
    {IF IsOpen(f) /\ f.fp \in obs THEN [f EXCEPT !.last = r] ELSE f : f \in rows}
    \cup {NewRow(p, r) : p \in obs}

\* Mutant: a recurrence revives the RESOLVED row.
ApplyObserved_Revive(rows, r, obs) ==
    {IF f.fp \in obs THEN [f EXCEPT !.last = r, !.resolved = NoRun] ELSE f : f \in rows}
    \cup {NewRow(p, r) : p \in obs \ {f.fp : f \in rows}}

\* apply_observed: advance the OPEN row of an observed fingerprint, insert a
\* new row when there is none (a recurrence never revives a RESOLVED row).
ApplyObserved(rows, r, obs) ==
    {IF IsOpen(f) /\ f.fp \in obs THEN [f EXCEPT !.last = r] ELSE f : f \in rows}
    \cup {NewRow(p, r) : p \in obs \ OpenPrints(rows)}

\* Mutant: run-limited instead of scope-limited.
ResolveAbsent_AnyScope(rows, r, scanned, observed) ==
    {IF IsOpen(f) /\ f.fp \notin observed THEN [f EXCEPT !.resolved = r] ELSE f : f \in rows}

\* resolve_absent: every OPEN row of a scanned scope that was not observed.
ResolveAbsent(rows, r, scanned, observed) ==
    {IF IsOpen(f) /\ ScopeOf[f.fp] \in scanned /\ f.fp \notin observed
        THEN [f EXCEPT !.resolved = r] ELSE f : f \in rows}

\* list_findings_for_run, by role.
FirstSeenBy(rows, r) == {f \in rows : f.first = r}
ResolvedBy(rows, r) == {f \in rows : f.resolved = r}
=============================================================================
