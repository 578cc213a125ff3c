----------------------------- MODULE SentinelRun -----------------------------
(* The sentinel process and everything it persists: the SQLite ledger (runs, *)
(* tasks, findings), FINDINGS.md and the cost ledger.  An invocation         *)
(* (sentinel/cli.py) recovers interrupted runs, backfills the outputs of     *)
(* terminal runs, and executes one new run (sentinel/pipeline.py).  A        *)
(* transaction is one action; between two actions the process may die, and   *)
(* a file write may die part-way.  Each invocation is a single local process *)
(* and two of them never overlap.                                            *)
EXTENDS Integers, FiniteSets, Sequences

CONSTANTS
    Scopes, Prints, ScopeOf,
    MaxRuns,        \* bound: runs are numbered 1..MaxRuns in start order
    MaxFaults,      \* bound: crashes and raised exceptions in a behaviour
    RecoverFlags,   \* values of config.recover (FALSE: --no-recover)
    StrictFlags,    \* values of config.fail_run_on_task_failure
    CostTears       \* what an interrupted cost append may leave

ASSUME SentinelAssumption ==
    /\ IsFiniteSet(Scopes)
    /\ IsFiniteSet(Prints)
    /\ ScopeOf \in [Prints -> Scopes]
    /\ MaxRuns \in Nat
    /\ MaxFaults \in Nat
    /\ RecoverFlags \subseteq BOOLEAN
    /\ StrictFlags \subseteq BOOLEAN
    /\ CostTears \subseteq {"bare", "torn"}

Runs == 1..MaxRuns

INSTANCE FindingRows
INSTANCE RunOutputs

VARIABLES
    runs, tasks, findings,   \* the ledger database
    report, costs,           \* FINDINGS.md and the cost ledger
    pc,                      \* where the process is; "idle": no process
    ctx,                     \* why outputs are being written
    cur,                     \* the run in hand
    todo,                    \* reconcile: terminal runs still to look at
    strict,                  \* config.fail_run_on_task_failure
    dead,                    \* dead_letter_count > 0
    done, observed,          \* done_scopes, fingerprints of all_observed
    faults

ledger == <<runs, tasks, findings>>
files == <<report, costs>>
memory == <<cur, todo, strict, dead, done, observed>>
vars == <<ledger, files, pc, ctx, memory, faults>>

TaskStates == {"NONE", "PENDING", "IN_PROGRESS", "FAILED", "DONE", "DEAD_LETTER"}
Terminal == {"DONE", "FAILED", "DEAD_LETTER"}
Pcs == {"idle", "recover", "recover_only", "list", "reconcile", "create",
        "enumerate", "work", "claimed", "close", "report", "cost", "fail"}
Executing == {"enumerate", "work", "claimed", "close"}

RunRecords == [status : Statuses, created : Nat, terminal : Nat, new : Nat, resolved : Nat]
NoRecord == [status |-> "NONE", created |-> 0, terminal |-> 0, new |-> 0, resolved |-> 0]

IsTerminal(r) == runs[r].status \in {"COMPLETED", "FAILED"}

\* Mutant: only the report is looked at.
NeedsOutputs_ReportOnly(r) == ~SectionComplete(report, r)

\* A terminal run without its section or without its cost row.
NeedsOutputs(r) == ~SectionComplete(report, r) \/ ~HasCostRow(costs, r)

TypeOK ==
    /\ runs \in [Runs -> RunRecords]
    /\ tasks \in [Runs -> [Scopes -> TaskStates]]
    /\ findings \subseteq Rows
    /\ report \in Seq(Sections)
    /\ costs \in Seq(Lines)
    /\ pc \in Pcs
    /\ ctx \in {"none", "reconcile", "run", "fail"}
    /\ cur \in Runs \cup {NoRun}
    /\ todo \subseteq Runs
    /\ strict \in BOOLEAN
    /\ dead \in BOOLEAN
    /\ done \subseteq Scopes
    /\ observed \subseteq Prints
    /\ faults \in 0..MaxFaults

Init ==
    /\ runs = [r \in Runs |-> NoRecord]
    /\ tasks = [r \in Runs |-> [s \in Scopes |-> "NONE"]]
    /\ findings = {}
    /\ report = <<>> /\ costs = <<>>
    /\ pc = "idle" /\ ctx = "none" /\ cur = NoRun /\ todo = {}
    /\ strict = FALSE /\ dead = FALSE /\ done = {} /\ observed = {}
    /\ faults = 0

----------------------------------------------------------------------------
\* Ledger helpers.

\* sweep_non_terminal: PENDING and IN_PROGRESS rows go to DEAD_LETTER.
Swept(row) ==
    [s \in Scopes |-> IF row[s] \in {"PENDING", "IN_PROGRESS"} THEN "DEAD_LETTER" ELSE row[s]]

\* compute_run_counts and close_run: counters are taken from committed rows.
Closed(r, status, row) ==
    [runs[r] EXCEPT !.status = status,
                    !.terminal = Cardinality({s \in Scopes : row[s] \in Terminal}),
                    !.new = Cardinality(FirstSeenBy(findings, r)),
                    !.resolved = Cardinality(ResolvedBy(findings, r))]

\* The process ends: whatever it held in memory is gone.
Exit ==
    /\ pc' = "idle" /\ ctx' = "none" /\ cur' = NoRun /\ todo' = {}
    /\ strict' = FALSE /\ dead' = FALSE /\ done' = {} /\ observed' = {}

Fault == faults < MaxFaults /\ faults' = faults + 1

----------------------------------------------------------------------------
\* Start of an invocation: recovery and reconciliation.

StartRun(recover, isStrict) ==
    /\ pc = "idle"
    /\ pc' = IF recover THEN "recover" ELSE "list"
    /\ strict' = isStrict
    /\ UNCHANGED <<ledger, files, ctx, cur, todo, dead, done, observed, faults>>

\* `sentinel recover`: recovery alone, no reconciliation.
StartRecover ==
    /\ pc = "idle"
    /\ pc' = "recover_only"
    /\ UNCHANGED <<ledger, files, ctx, memory, faults>>

\* Mutant: the interrupted run is closed without recomputing its counts.
RecoverOne_NoCounts(r) ==
    /\ pc \in {"recover", "recover_only"}
    /\ runs[r].status = "RUNNING"
    /\ \A q \in Runs : runs[q].status = "RUNNING" => r <= q
    /\ tasks' = [tasks EXCEPT ![r] = Swept(@)]
    /\ runs' = [runs EXCEPT ![r].status = "FAILED", ![r].terminal = runs[r].created]
    /\ UNCHANGED <<findings, files, pc, ctx, memory, faults>>

\* One transaction per RUNNING run, in start order.
RecoverOne(r) ==
    /\ pc \in {"recover", "recover_only"}
    /\ runs[r].status = "RUNNING"
    /\ \A q \in Runs : runs[q].status = "RUNNING" => r <= q
    /\ tasks' = [tasks EXCEPT ![r] = Swept(@)]
    /\ runs' = [runs EXCEPT ![r] = Closed(r, "FAILED", tasks'[r])]
    /\ UNCHANGED <<findings, files, pc, ctx, memory, faults>>

RecoverDone ==
    /\ pc \in {"recover", "recover_only"}
    /\ \A r \in Runs : runs[r].status # "RUNNING"
    /\ IF pc = "recover"
       THEN pc' = "list" /\ UNCHANGED <<ctx, memory>>
       ELSE Exit
    /\ UNCHANGED <<ledger, files, faults>>

\* Mutant: every run row is listed.
ListTerminal_All ==
    /\ pc = "list"
    /\ pc' = "reconcile"
    /\ todo' = {r \in Runs : runs[r].status # "NONE"}
    /\ UNCHANGED <<ledger, files, ctx, cur, strict, dead, done, observed, faults>>

\* Mutant: FAILED runs are forgotten.
ListTerminal_CompletedOnly ==
    /\ pc = "list"
    /\ pc' = "reconcile"
    /\ todo' = {r \in Runs : runs[r].status = "COMPLETED"}
    /\ UNCHANGED <<ledger, files, ctx, cur, strict, dead, done, observed, faults>>

ListTerminal ==
    /\ pc = "list"
    /\ pc' = "reconcile"
    /\ todo' = {r \in Runs : IsTerminal(r)}
    /\ UNCHANGED <<ledger, files, ctx, cur, strict, dead, done, observed, faults>>

\* list_runs(COMPLETED) + list_runs(FAILED), each in start order.
Before(r, q) ==
    IF runs[r].status = runs[q].status THEN r <= q ELSE runs[r].status = "COMPLETED"

Reconcile(r) ==
    /\ pc = "reconcile"
    /\ Decodes(report)
    /\ r \in todo
    /\ \A q \in todo : Before(r, q)
    /\ todo' = todo \ {r}
    /\ IF NeedsOutputs(r)
       THEN pc' = "report" /\ ctx' = "reconcile" /\ cur' = r
       ELSE UNCHANGED <<pc, ctx, cur>>
    /\ UNCHANGED <<ledger, files, strict, dead, done, observed, faults>>

ReconcileDone ==
    /\ pc = "reconcile"
    /\ todo = {}
    /\ pc' = "create"
    /\ UNCHANGED <<ledger, files, ctx, memory, faults>>

----------------------------------------------------------------------------
\* The new run.

CreateRun(r) ==
    /\ pc = "create"
    /\ runs[r].status = "NONE"
    /\ \A q \in Runs : runs[q].status = "NONE" => r <= q
    /\ runs' = [runs EXCEPT ![r].status = "RUNNING"]
    /\ cur' = r
    /\ pc' = "enumerate"
    /\ UNCHANGED <<tasks, findings, files, ctx, todo, strict, dead, done, observed, faults>>

\* --run-id names a run that exists: the insert fails outside the inner try.
CreateConflict ==
    /\ pc = "create"
    /\ \E r \in Runs : runs[r].status # "NONE"
    /\ Exit
    /\ UNCHANGED <<ledger, files, faults>>

\* The surfaces are read, work units built, and every task row inserted.
Enumerate(units) ==
    /\ pc = "enumerate"
    /\ tasks' = [tasks EXCEPT ![cur] = [s \in Scopes |-> IF s \in units THEN "PENDING" ELSE "NONE"]]
    /\ runs' = [runs EXCEPT ![cur].created = Cardinality(units)]
    /\ done' = {} /\ observed' = {} /\ dead' = FALSE
    /\ pc' = "work"
    /\ UNCHANGED <<findings, files, ctx, cur, todo, strict, faults>>

Claim(s) ==
    /\ pc = "work"
    /\ tasks[cur][s] = "PENDING"
    /\ tasks' = [tasks EXCEPT ![cur][s] = "IN_PROGRESS"]
    /\ pc' = "claimed"
    /\ UNCHANGED <<runs, findings, files, ctx, memory, faults>>

\* Mutant: the findings are committed, the task stays IN_PROGRESS.
Confirm_NoTransition(s, obs) ==
    /\ pc = "claimed"
    /\ tasks[cur][s] = "IN_PROGRESS"
    /\ findings' = ApplyObserved(findings, cur, obs)
    /\ done' = done \cup {s}
    /\ observed' = observed \cup obs
    /\ pc' = "work"
    /\ UNCHANGED <<runs, tasks, files, ctx, cur, todo, strict, dead, faults>>

\* The checker's verdict: findings, task and counter in one transaction.
Confirm(s, obs) ==
    /\ pc = "claimed"
    /\ tasks[cur][s] = "IN_PROGRESS"
    /\ findings' = ApplyObserved(findings, cur, obs)
    /\ tasks' = [tasks EXCEPT ![cur][s] = "DONE"]
    /\ runs' = [runs EXCEPT ![cur].terminal = @ + 1]
    /\ done' = done \cup {s}
    /\ observed' = observed \cup obs
    /\ pc' = "work"
    /\ UNCHANGED <<files, ctx, cur, todo, strict, dead, faults>>

\* Inconclusive, or the checker raised: the task is dead-lettered.
DeadLetter(s) ==
    /\ pc = "claimed"
    /\ tasks[cur][s] = "IN_PROGRESS"
    /\ tasks' = [tasks EXCEPT ![cur][s] = "DEAD_LETTER"]
    /\ runs' = [runs EXCEPT ![cur].terminal = @ + 1]
    /\ dead' = TRUE
    /\ pc' = "work"
    /\ UNCHANGED <<findings, files, ctx, cur, todo, strict, done, observed, faults>>

\* Mutant: a dead-lettered scope counts as scanned.
Resolve_EveryTask ==
    /\ pc = "work"
    /\ \A s \in Scopes : tasks[cur][s] # "PENDING"
    /\ findings' = ResolveAbsent(findings, cur, {s \in Scopes : tasks[cur][s] # "NONE"}, observed)
    /\ pc' = "close"
    /\ UNCHANGED <<runs, tasks, files, ctx, memory, faults>>

Resolve ==
    /\ pc = "work"
    /\ \A s \in Scopes : tasks[cur][s] # "PENDING"
    /\ findings' = ResolveAbsent(findings, cur, done, observed)
    /\ pc' = "close"
    /\ UNCHANGED <<runs, tasks, files, ctx, memory, faults>>

\* Mutant: dead letters do not fail the run.
CloseRun_AlwaysGreen ==
    /\ pc = "close"
    /\ runs' = [runs EXCEPT ![cur] = Closed(cur, "COMPLETED", tasks[cur])]
    /\ pc' = "report" /\ ctx' = "run"
    /\ UNCHANGED <<tasks, findings, files, memory, faults>>

\* Mutant: a task state is written as the run's status.
CloseRun_TaskState ==
    /\ pc = "close"
    /\ runs' = [runs EXCEPT ![cur] = Closed(cur, "DONE", tasks[cur])]
    /\ pc' = "report" /\ ctx' = "run"
    /\ UNCHANGED <<tasks, findings, files, memory, faults>>

CloseRun ==
    /\ pc = "close"
    /\ runs' = [runs EXCEPT ![cur] =
                    Closed(cur, IF strict /\ dead THEN "FAILED" ELSE "COMPLETED", tasks[cur])]
    /\ pc' = "report" /\ ctx' = "run"
    /\ UNCHANGED <<tasks, findings, files, memory, faults>>

\* Mutant: the tasks in flight are not swept.
FailRun_NoSweep ==
    /\ pc = "fail"
    /\ runs' = [runs EXCEPT ![cur] = Closed(cur, "FAILED", tasks[cur])]
    /\ pc' = "report" /\ ctx' = "fail"
    /\ UNCHANGED <<tasks, findings, files, memory, faults>>

\* The handler around the run: sweep and close FAILED, whatever the status.
FailRun ==
    /\ pc = "fail"
    /\ tasks' = [tasks EXCEPT ![cur] = Swept(@)]
    /\ runs' = [runs EXCEPT ![cur] = Closed(cur, "FAILED", tasks'[cur])]
    /\ pc' = "report" /\ ctx' = "fail"
    /\ UNCHANGED <<findings, files, memory, faults>>

----------------------------------------------------------------------------
\* _write_run_outputs.

WriteReport ==
    /\ pc = "report"
    /\ Decodes(report)
    /\ report' = AppendSection(report, cur, runs[cur].status)
    /\ pc' = "cost"
    /\ UNCHANGED <<ledger, costs, ctx, memory, faults>>

\* UnicodeDecodeError from read_text: the backfill has no handler, and neither
\* has the handler that writes the outputs of a failed run.
ReportUnreadable ==
    /\ ~Decodes(report)
    /\ \/ pc = "reconcile" /\ todo # {}
       \/ pc = "report"
    /\ IF pc = "report" /\ ctx = "run"
       THEN pc' = "fail" /\ ctx' = "none" /\ UNCHANGED memory
       ELSE Exit
    /\ UNCHANGED <<ledger, files, faults>>

WriteCost ==
    /\ pc = "cost"
    /\ costs' = AppendCost(costs, cur)
    /\ IF ctx = "reconcile"
       THEN /\ pc' = "reconcile" /\ ctx' = "none" /\ cur' = NoRun
            /\ UNCHANGED <<todo, strict, dead, done, observed>>
       ELSE Exit
    /\ UNCHANGED <<ledger, report, faults>>

----------------------------------------------------------------------------
\* Faults.  A transaction that fails is rolled back, so what an exception or
\* a crash leaves behind differs only where a file was being written.

Interrupted ==
    \/ pc \notin {"report", "cost"} /\ UNCHANGED files
    \/ /\ pc = "report"
       /\ report' \in TornReports(report, cur, runs[cur].status)
       /\ UNCHANGED costs
    \/ /\ pc = "cost"
       /\ costs' \in TornCosts(costs, cur, CostTears)
       /\ UNCHANGED report

\* `except Exception` around the run, outputs included.
Raise ==
    /\ \/ pc \in Executing
       \/ pc \in {"report", "cost"} /\ ctx = "run"
    /\ Fault
    /\ Interrupted
    /\ pc' = "fail" /\ ctx' = "none"
    /\ UNCHANGED <<ledger, memory>>

\* The process dies, or an exception escapes execute_run.
Crash ==
    /\ pc # "idle"
    /\ Fault
    /\ Interrupted
    /\ Exit
    /\ UNCHANGED ledger

----------------------------------------------------------------------------
Invocation ==
    \/ \E recover \in RecoverFlags, isStrict \in StrictFlags : StartRun(recover, isStrict)
    \/ \E r \in Runs : RecoverOne(r) \/ Reconcile(r) \/ CreateRun(r)
    \/ RecoverDone \/ ListTerminal \/ ReconcileDone

Run ==
    \/ \E units \in SUBSET Scopes : Enumerate(units)
    \/ \E s \in Scopes : Claim(s) \/ DeadLetter(s)
    \/ \E s \in Scopes : \E obs \in SUBSET ScopePrints(s) : Confirm(s, obs)
    \/ Resolve \/ CloseRun \/ FailRun \/ WriteReport \/ ReportUnreadable \/ WriteCost

Progress == Invocation \/ Run \/ CreateConflict

Next == Progress \/ StartRecover \/ Raise \/ Crash

Spec == Init /\ [][Next]_vars

StartAny == \E recover \in RecoverFlags, isStrict \in StrictFlags : StartRun(recover, isStrict)

\* A started process keeps running.  Nothing says that it is started again.
FairSpec == Spec /\ WF_vars(Progress)

----------------------------------------------------------------------------
\* Properties of the ledger.

\* A finding is RESOLVED only by a run whose own check of that finding's scope
\* reached DONE, and that came after the last run that saw it: no crash, dead
\* letter or unscanned scope ever resolves a finding (resolve_absent).
NoFalseResolve ==
    \A f \in findings : ~IsOpen(f) =>
        /\ tasks[f.resolved][ScopeOf[f.fp]] = "DONE"
        /\ f.last < f.resolved

\* The rows of one fingerprint are successive, never overlapping lifetimes: a
\* new one begins only in a run after the one that resolved the previous.  In
\* particular no two OPEN rows share a fingerprint (the partial unique index).
DisjointLifetimes ==
    \A f, g \in findings : f # g /\ f.fp = g.fp =>
        \/ ~IsOpen(f) /\ f.resolved < g.first
        \/ ~IsOpen(g) /\ g.resolved < f.first

\* A row's last sighting was committed together with the DONE of the task that
\* made it: no finding outlives a rolled-back or dead-lettered check.
SightingsAreDone ==
    \A f \in findings : /\ tasks[f.first][ScopeOf[f.fp]] = "DONE"
                        /\ tasks[f.last][ScopeOf[f.fp]] = "DONE"

\* The counters of a run row agree with its task rows at every commit, and a
\* closed run has no task left PENDING or IN_PROGRESS, however it was closed.
\* Its finding counts are those of the rows it committed, also when it died
\* between resolving and closing and was closed by recovery.
RunAccounting ==
    \A r \in Runs :
        /\ runs[r].created = Cardinality({s \in Scopes : tasks[r][s] # "NONE"})
        /\ runs[r].terminal = Cardinality({s \in Scopes : tasks[r][s] \in Terminal})
        /\ IsTerminal(r) =>
              /\ runs[r].terminal = runs[r].created
              /\ runs[r].new = Cardinality(FirstSeenBy(findings, r))
              /\ runs[r].resolved = Cardinality(ResolvedBy(findings, r))

\* Under the default policy a run that closes green checked everything it
\* created: COMPLETED means every task is DONE (DATA_CONTRACT.md section 8).
GreenMeansChecked ==
    pc \in {"report", "cost"} /\ ctx = "run" /\ strict /\ runs[cur].status = "COMPLETED" =>
        \A s \in Scopes : tasks[cur][s] \in {"NONE", "DONE"}

\* The findings are sound: what lives on through dead letters, crashes and
\* recoveries is backed by finished checks, in successive lifetimes.
FindingsSound == NoFalseResolve /\ SightingsAreDone /\ DisjointLifetimes

\* The rows of runs are sound: their counts are true however the run was closed,
\* and green means checked.
RunsSound == RunAccounting /\ GreenMeansChecked

\* What a committed row records is never lost or rewritten: a row keeps its
\* fingerprint and first run, its last run only moves on, and once RESOLVED it
\* is frozen (the findings_lifecycle_guard and delete triggers never fire).  A
\* complete section of the append-only FINDINGS.md stays where it is.
HistoryKept ==
    [][/\ \A f \in findings : \E g \in findings' :
             IF IsOpen(f) THEN g.fp = f.fp /\ g.first = f.first /\ f.last <= g.last
                          ELSE g = f
       /\ \A i \in DOMAIN report : report[i].form = "whole" =>
             i \in DOMAIN report' /\ report'[i] = report[i]]_vars

----------------------------------------------------------------------------
\* Properties of the outputs.

\* FINDINGS.md and the cost ledger mention a run only once its closing
\* transaction is on disk; a crash can make them lag the ledger, never lead.
OutputsFollowClose ==
    /\ \A i \in DOMAIN report : IsTerminal(report[i].run)
    /\ \A i \in DOMAIN costs : IsTerminal(costs[i].run)

\* However often outputs are retried, repaired and backfilled, a run has at
\* most one section and at most one readable cost row.  An unreadable cost line
\* is always the last one, the only one that repair_trailing_fragment can
\* remove, so the cost ledger never wedges.
OutputsWellFormed ==
    /\ \A i, j \in DOMAIN report : report[i].run = report[j].run => i = j
    /\ \A i, j \in DOMAIN costs :
          Parses(costs[i]) /\ Parses(costs[j]) /\ costs[i].run = costs[j].run => i = j
    /\ \A i \in DOMAIN costs : i < Len(costs) => costs[i].form = "row"

\* Outputs are sound under all flags and whatever was torn.
OutputsSound == OutputsFollowClose /\ OutputsWellFormed

\* While a run executes, every other closed run already has its section and its
\* cost row: the backfill at the start of the invocation was complete.
BackfillComplete ==
    pc \in Executing =>
        \A r \in Runs \ {cur} : IsTerminal(r) => SectionComplete(report, r) /\ HasCostRow(costs, r)

\* An unclosed section is the last thing in the file, which append_run_section
\* takes for granted when it truncates at the marker.
FragmentIsTrailing ==
    \A i \in DOMAIN report : ~report[i].form = "whole" => i = Len(report)

\* The backfill leaves nothing behind it: no closed run without outputs, and no
\* torn section that a later one would be written after.
BackfillSound == BackfillComplete /\ FragmentIsTrailing

\* If the operator goes on invoking `sentinel run`, a run that was started ends
\* up closed, with its section and its cost row, whatever crashes and failed
\* writes happen in between, unless one of these left FINDINGS.md undecodable:
\* then every invocation dies in the backfill, and none repairs the file.
EventuallyOnFile ==
    []<><<StartAny>>_vars =>
        \A r \in Runs : runs[r].status = "RUNNING" ~>
            \/ IsTerminal(r) /\ SectionComplete(report, r) /\ HasCostRow(costs, r)
            \/ ~Decodes(report)

----------------------------------------------------------------------------
\* The ledger, seen through its OPEN rows and the process's memory of the scan,
\* implements the abstract promise.
Scan == INSTANCE FindingScan
            WITH open <- OpenPrints(findings), seen <- observed, scanned <- done

ImplementsScan == Scan!ScanSpec
=============================================================================
