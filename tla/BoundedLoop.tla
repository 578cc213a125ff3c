----------------------------- MODULE BoundedLoop -----------------------------
(* The bounded loop (runner/): up to N iterations, each of them one sentinel *)
(* run, under a cost ceiling and a consecutive-failure breaker.  Every       *)
(* iteration commits an intent before anything executes, so that a loop that *)
(* died is resumed without repeating a run.  The run itself is kept to the   *)
(* commits and writes the loop can observe: its row, its closing, its two    *)
(* outputs.  SentinelRun models the inside of it.                            *)
EXTENDS Integers, FiniteSets, Sequences, Functions

CONSTANTS
    N,               \* max_iterations
    Threshold,       \* failure_threshold
    Budget,          \* loop_budget_eur_micros, in units of spend
    RunCap,          \* per_run_cap_eur_micros
    Overshoot,       \* how far the last call of a run may overrun its allowance
    MaxFaults,       \* bound: crashes, failed writes and exceptions
    CostTears        \* what an interrupted cost append may leave

ASSUME LoopAssumption ==
    /\ N \in 1..10
    /\ Threshold \in Nat \ {0}
    /\ Budget \in Nat \ {0}
    /\ RunCap \in Nat \ {0}
    /\ Overshoot \in Nat
    /\ MaxFaults \in Nat
    /\ CostTears \subseteq {"bare", "torn"}

\* An iteration's index also stands for its planned_run_id, unique and fixed
\* from its intent on.
Iters == 1..N

INSTANCE RunOutputs WITH Runs <- Iters

VARIABLES
    loop,            \* the loop_runs row
    iters,           \* its loop_iterations rows
    run,             \* status of each planned run's own row
    spend,           \* what each run's agent_calls rows charge
    sections, costs, \* runs with a complete section; the cost ledger
    pc, next,        \* where the supervisor is; where it goes after a repair
    allow,           \* allowance of the run in hand
    result,          \* run_status about to be bound
    reason,          \* stop reason about to be persisted
    late,            \* execute_run is already in its exception handler
    faults

tables == <<loop, iters>>
files == <<sections, costs>>
memory == <<next, allow, result, reason, late>>
vars == <<tables, run, spend, files, pc, memory, faults>>

Reasons == {"COMPLETED_ITERATION_CAP", "COST_BREAKER_TRIPPED",
            "CONSECUTIVE_FAILURE_BREAKER_TRIPPED", "LOOP_ABORTED_ERROR"}
RunStatuses == {"COMPLETED", "FAILED"}
MaxSpend == RunCap + Overshoot

LoopRows == [status : {"NONE", "RUNNING", "FINISHED"}, reason : Reasons \cup {"NONE"},
             started : Nat, completed : Nat, streak : Nat, cost : Nat]
IterRows == [state : {"INTENT", "FINALIZED"}, status : RunStatuses \cup {"NONE"},
             after : Nat, cost : Nat]

TypeOK ==
    /\ loop \in LoopRows
    /\ iters \in Seq(IterRows) /\ Len(iters) <= N
    /\ run \in [Iters -> Statuses]
    /\ spend \in [Iters -> 0..MaxSpend]
    /\ sections \subseteq Iters
    /\ costs \in Seq(Lines)
    /\ pc \in {"idle", "supervise", "repair", "running", "section", "cost", "finalize", "finish"}
    /\ next \in {"none", "create", "finalize"}
    /\ allow \in 0..RunCap
    /\ result \in RunStatuses \cup {"NONE"}
    /\ reason \in Reasons \cup {"NONE"}
    /\ late \in BOOLEAN
    /\ faults \in 0..MaxFaults

Init ==
    /\ loop = [status |-> "NONE", reason |-> "NONE", started |-> 0, completed |-> 0,
               streak |-> 0, cost |-> 0]
    /\ iters = <<>>
    /\ run = [i \in Iters |-> "NONE"]
    /\ spend = [i \in Iters |-> 0]
    /\ sections = {} /\ costs = <<>>
    /\ pc = "idle" /\ next = "none" /\ allow = 0 /\ result = "NONE" /\ reason = "NONE"
    /\ late = FALSE
    /\ faults = 0

----------------------------------------------------------------------------
\* State reconstruction and the breakers.

Finalized(rows) == {i \in DOMAIN rows : rows[i].state = "FINALIZED"}

\* Mutant: the failures of the whole loop are counted.
Streak_Total(rows) == Cardinality({i \in Finalized(rows) : rows[i].status # "COMPLETED"})

\* derive_consecutive_failures: finalized rows after the last COMPLETED one.
Streak(rows) ==
    Cardinality({i \in Finalized(rows) :
                     \A j \in Finalized(rows) : j >= i => rows[j].status # "COMPLETED"})

\* durable_accounted_cost: rows of these runs, nothing when a line is unreadable.
Accounted(ids) ==
    IF Readable(costs)
    THEN SumFunctionOnSet([k \in DOMAIN costs |-> spend[costs[k].run]],
                          {k \in DOMAIN costs : costs[k].run \in ids})
    ELSE 0

\* Mutant: the iteration cap is looked at first.
Decision_CapFirst(rows, cost) ==
    IF Cardinality(Finalized(rows)) >= N THEN "COMPLETED_ITERATION_CAP"
    ELSE IF cost >= Budget THEN "COST_BREAKER_TRIPPED"
    ELSE IF Streak(rows) >= Threshold THEN "CONSECUTIVE_FAILURE_BREAKER_TRIPPED"
    ELSE "CONTINUE"

\* Mutant: the breaker trips one failure late.
Decision_LateStreak(rows, cost) ==
    CASE cost > Budget -> "COST_BREAKER_TRIPPED"
      [] cost <= Budget /\ Streak(rows) > Threshold -> "CONSECUTIVE_FAILURE_BREAKER_TRIPPED"
      [] OTHER -> IF Cardinality(Finalized(rows)) >= N THEN "COMPLETED_ITERATION_CAP"
                  ELSE IF cost >= Budget THEN "COST_BREAKER_TRIPPED" ELSE "CONTINUE"

\* evaluate_termination, in its frozen order.
Decision(rows, cost) ==
    IF cost > Budget THEN "COST_BREAKER_TRIPPED"
    ELSE IF Streak(rows) >= Threshold THEN "CONSECUTIVE_FAILURE_BREAKER_TRIPPED"
    ELSE IF Cardinality(Finalized(rows)) >= N THEN "COMPLETED_ITERATION_CAP"
    ELSE IF cost >= Budget THEN "COST_BREAKER_TRIPPED"
    ELSE "CONTINUE"

\* Mutant: the normal allowance is restored.
Allowance_Full(cost) == RunCap

\* Mutant: the per-run cap is forgotten.
Allowance_NoCap(cost) == Budget - cost

\* effective_allowance
Allowance(cost) == IF RunCap <= Budget - cost THEN RunCap ELSE Budget - cost

\* The lowest unfinalized iteration, 0 when there is none.
Pending ==
    LET open == DOMAIN iters \ Finalized(iters)
    IN  IF open = {} THEN 0 ELSE CHOOSE i \in open : \A j \in open : i <= j

IsTerminal(i) == run[i] \in RunStatuses
OutputsComplete(i) == i \in sections /\ HasCostRow(costs, i)

Summary(rows, cost) ==
    [loop EXCEPT !.started = Len(rows), !.completed = Cardinality(Finalized(rows)),
                 !.streak = Streak(rows), !.cost = cost]

Exit ==
    /\ pc' = "idle" /\ next' = "none" /\ allow' = 0 /\ result' = "NONE" /\ reason' = "NONE"
    /\ late' = FALSE

----------------------------------------------------------------------------
\* The supervisor.

\* Mutant: a loop that died is not resumed.
Begin_NoResume ==
    /\ pc = "idle"
    /\ loop.status = "NONE"
    /\ loop' = [loop EXCEPT !.status = "RUNNING"]
    /\ pc' = "supervise"
    /\ UNCHANGED <<iters, run, spend, files, memory, faults>>

\* begin_or_load_loop: created once, resumed while RUNNING, never reopened.
Begin ==
    /\ pc = "idle"
    /\ loop.status # "FINISHED"
    /\ loop' = [loop EXCEPT !.status = "RUNNING"]
    /\ pc' = "supervise"
    /\ UNCHANGED <<iters, run, spend, files, memory, faults>>

Stop ==
    /\ pc = "supervise"
    /\ Pending = 0
    /\ reason' = Decision(iters, Accounted(Finalized(iters)))
    /\ reason' # "CONTINUE"
    /\ pc' = "finish"
    /\ UNCHANGED <<tables, run, spend, files, next, allow, result, late, faults>>

\* The decision to continue, and the durable intent.
OpenIntent ==
    /\ pc = "supervise"
    /\ Pending = 0
    /\ Decision(iters, Accounted(Finalized(iters))) = "CONTINUE"
    /\ iters' = Append(iters, [state |-> "INTENT", status |-> "NONE", after |-> 0, cost |-> 0])
    /\ loop' = [loop EXCEPT !.started = @ + 1]
    /\ allow' = Allowance(Accounted(Finalized(iters)))
    /\ pc' = "repair" /\ next' = "create"
    /\ UNCHANGED <<run, spend, files, result, reason, late, faults>>

\* Case C: the planned run was interrupted; sentinel's own recovery closes it.
AdoptRunning ==
    /\ pc = "supervise"
    /\ Pending # 0 /\ run[Pending] = "RUNNING"
    /\ pc' = "repair" /\ next' = "finalize"
    /\ UNCHANGED <<tables, run, spend, files, allow, result, reason, late, faults>>

\* Case A: no run row; start it now unless the ceiling is reached.
StartPlanned ==
    /\ pc = "supervise"
    /\ Pending # 0 /\ run[Pending] = "NONE"
    /\ LET cost == Accounted(Finalized(iters))
       IN  IF cost >= Budget
           THEN /\ reason' = "COST_BREAKER_TRIPPED" /\ pc' = "finish"
                /\ UNCHANGED <<allow, next>>
           ELSE /\ allow' = Allowance(cost) /\ pc' = "repair" /\ next' = "create"
                /\ UNCHANGED reason
    /\ UNCHANGED <<tables, run, spend, files, result, late, faults>>

\* Mutant: a run that FAILED is executed again.
AdoptTerminal_Retry ==
    /\ pc = "supervise"
    /\ Pending # 0 /\ IsTerminal(Pending)
    /\ IF run[Pending] = "FAILED"
       THEN pc' = "repair" /\ next' = "create" /\ UNCHANGED result
       ELSE pc' = "finalize" /\ result' = run[Pending] /\ UNCHANGED next
    /\ UNCHANGED <<tables, run, spend, files, allow, reason, late, faults>>

\* Mutant: incomplete outputs are not reconciled first.
AdoptTerminal_NoBackfill ==
    /\ pc = "supervise"
    /\ Pending # 0 /\ IsTerminal(Pending)
    /\ result' = run[Pending] /\ pc' = "finalize"
    /\ UNCHANGED <<tables, run, spend, files, allow, next, reason, late, faults>>

\* Cases B and D: adopt the terminal run, after backfilling its outputs.
AdoptTerminal ==
    /\ pc = "supervise"
    /\ Pending # 0 /\ IsTerminal(Pending)
    /\ IF OutputsComplete(Pending)
       THEN pc' = "finalize" /\ result' = run[Pending] /\ UNCHANGED next
       ELSE pc' = "repair" /\ next' = "finalize" /\ UNCHANGED result
    /\ UNCHANGED <<tables, run, spend, files, allow, reason, late, faults>>

----------------------------------------------------------------------------
\* Recovery and backfill, on their own or at the start of execute_run.

Interrupted == {i \in Iters : run[i] = "RUNNING"}

CloseInterrupted ==
    /\ pc = "repair"
    /\ Interrupted # {}
    /\ run' = [i \in Iters |-> IF i \in Interrupted THEN "FAILED" ELSE run[i]]
    /\ UNCHANGED <<tables, spend, files, pc, memory, faults>>

\* A terminal run that lacks an output; COMPLETED runs are visited first.
Owed(i) == IsTerminal(i) /\ ~OutputsComplete(i)
NextOwed(i) ==
    /\ Owed(i)
    /\ \A j \in Iters : Owed(j) =>
           IF run[i] = run[j] THEN i <= j ELSE run[i] = "COMPLETED"

Backfill(i) ==
    /\ pc = "repair"
    /\ Interrupted = {}
    /\ NextOwed(i)
    /\ sections' = sections \cup {i}
    /\ costs' = AppendCost(costs, i)
    /\ UNCHANGED <<tables, run, spend, pc, memory, faults>>

RepairDone ==
    /\ pc = "repair" /\ next = "finalize"
    /\ Interrupted = {}
    /\ \A i \in Iters : ~Owed(i)
    /\ result' = run[Pending]
    /\ pc' = "finalize" /\ next' = "none"
    /\ UNCHANGED <<tables, run, spend, files, allow, reason, late, faults>>

----------------------------------------------------------------------------
\* One run, as far as the loop can see it.

\* The run row is inserted; what the run will have spent by its end is within
\* its allowance, up to the overshoot of a last call.
CreateRun(amount) ==
    /\ pc = "repair" /\ next = "create"
    /\ Interrupted = {}
    /\ \A i \in Iters : ~Owed(i)
    /\ run[Pending] = "NONE"
    /\ amount <= allow + Overshoot
    /\ run' = [run EXCEPT ![Pending] = "RUNNING"]
    /\ spend' = [spend EXCEPT ![Pending] = amount]
    /\ pc' = "running" /\ next' = "none"
    /\ UNCHANGED <<tables, files, allow, result, reason, late, faults>>

CloseRun(status) ==
    /\ pc = "running"
    /\ run' = [run EXCEPT ![Pending] = status]
    /\ pc' = "section"
    /\ UNCHANGED <<tables, spend, files, memory, faults>>

WriteSection ==
    /\ pc = "section"
    /\ sections' = sections \cup {Pending}
    /\ pc' = "cost"
    /\ UNCHANGED <<tables, run, spend, costs, memory, faults>>

\* Mutant: the outcome of the run before its handler is returned.
WriteCost_Stale ==
    /\ pc = "cost"
    /\ costs' = AppendCost(costs, Pending)
    /\ result' = IF late THEN "COMPLETED" ELSE run[Pending]
    /\ pc' = "finalize" /\ late' = FALSE
    /\ UNCHANGED <<tables, run, spend, sections, next, allow, reason, faults>>

WriteCost ==
    /\ pc = "cost"
    /\ costs' = AppendCost(costs, Pending)
    /\ result' = run[Pending]
    /\ pc' = "finalize" /\ late' = FALSE
    /\ UNCHANGED <<tables, run, spend, sections, next, allow, reason, faults>>

----------------------------------------------------------------------------
\* Back in the supervisor.

\* Mutant: the summary is computed before the row is projected FINALIZED.
Finalize_StaleSummary ==
    /\ pc = "finalize"
    /\ iters' = [iters EXCEPT ![Pending] =
                    [state |-> "FINALIZED", status |-> result,
                     after |-> IF result = "COMPLETED" THEN 0 ELSE Streak(iters) + 1,
                     cost |-> Accounted({Pending})]]
    /\ loop' = Summary(iters, Accounted(Finalized(iters)))
    /\ result' = "NONE" /\ allow' = 0
    /\ pc' = "supervise"
    /\ UNCHANGED <<run, spend, files, next, reason, late, faults>>

\* finalize_iteration: the row and the loop summary in one transaction.
Finalize ==
    /\ pc = "finalize"
    /\ LET row == [state |-> "FINALIZED", status |-> result,
                   after |-> IF result = "COMPLETED" THEN 0
                             ELSE Streak(SubSeq(iters, 1, Pending - 1)) + 1,
                   cost |-> Accounted({Pending})]
           projected == [iters EXCEPT ![Pending] = row]
       IN  /\ iters' = projected
           /\ loop' = Summary(projected, Accounted(Finalized(projected)))
    /\ result' = "NONE" /\ allow' = 0
    /\ pc' = "supervise"
    /\ UNCHANGED <<run, spend, files, next, reason, late, faults>>

Finish ==
    /\ pc = "finish"
    /\ loop' = [Summary(iters, Accounted(Finalized(iters)))
                   EXCEPT !.status = "FINISHED", !.reason = reason]
    /\ Exit
    /\ UNCHANGED <<iters, run, spend, files, faults>>

----------------------------------------------------------------------------
\* Faults.

Fault == faults < MaxFaults /\ faults' = faults + 1

\* What a file write may leave when it is cut short.
TornWrite ==
    \/ pc \notin {"cost", "repair"} /\ UNCHANGED files
    \/ /\ pc = "cost"
       /\ costs' \in TornCosts(costs, Pending, CostTears)
       /\ UNCHANGED sections
    \/ /\ pc = "repair"
       /\ \/ UNCHANGED files
          \/ /\ Interrupted = {}
             /\ \E i \in Iters : /\ NextOwed(i)
                                 /\ sections' = sections \cup {i}
                                 /\ costs' \in TornCosts(costs, i, CostTears)

\* An output write of the run fails: its handler closes the run FAILED and
\* writes the outputs again.
OutputFails ==
    /\ pc \in {"section", "cost"} /\ ~late
    /\ Fault
    /\ TornWrite
    /\ run' = [run EXCEPT ![Pending] = "FAILED"]
    /\ late' = TRUE /\ pc' = "section"
    /\ UNCHANGED <<tables, spend, next, allow, result, reason>>

\* An exception reaches run_loop, which fails closed.
Abort ==
    /\ \/ pc \in {"supervise", "repair", "finalize"}
       \/ pc \in {"section", "cost"} /\ late
    /\ Fault
    /\ TornWrite
    /\ reason' = "LOOP_ABORTED_ERROR" /\ pc' = "finish"
    /\ UNCHANGED <<tables, run, spend, next, allow, result, late>>

\* The process dies, or finish_loop itself fails.
Crash ==
    /\ pc # "idle"
    /\ Fault
    /\ TornWrite
    /\ Exit
    /\ UNCHANGED <<tables, run, spend>>

\* While the loop is down, `sentinel recover` may close its interrupted run.
OutsideRecover ==
    /\ pc = "idle"
    /\ Interrupted # {}
    /\ run' = [i \in Iters |-> IF i \in Interrupted THEN "FAILED" ELSE run[i]]
    /\ UNCHANGED <<tables, spend, files, pc, memory, faults>>

----------------------------------------------------------------------------
Supervise == Begin \/ Stop \/ OpenIntent \/ AdoptRunning \/ StartPlanned \/ AdoptTerminal

Execute ==
    \/ CloseInterrupted \/ RepairDone
    \/ \E i \in Iters : Backfill(i)
    \/ \E amount \in 0..MaxSpend : CreateRun(amount)
    \/ \E status \in RunStatuses : CloseRun(status)
    \/ WriteSection \/ WriteCost

Progress == Supervise \/ Execute \/ Finalize \/ Finish

Next == Progress \/ OutputFails \/ Abort \/ Crash \/ OutsideRecover

Spec == Init /\ [][Next]_vars

\* A started supervisor keeps running, and a loop that died is invoked again.
FairSpec == Spec /\ WF_vars(Progress)

----------------------------------------------------------------------------
\* Properties.

\* What the loop's finalized runs really cost.
Spent == SumFunctionOnSet(spend, Finalized(iters))

\* The loop never spends past its ceiling, but for the overshoot of the last
\* call of one run: breakers.py calls it "a real pre-start loop ceiling, not an
\* after-the-fact acceptance metric", through every crash and resume.
CeilingHolds ==
    SumFunctionOnSet(spend, {i \in Iters : run[i] # "NONE"}) <= Budget + Overshoot

\* A run is only ever executed for an intent that has no run row yet: a run
\* that reached the ledger is never repeated because bookkeeping crashed.
NeverRepeated == pc = "repair" /\ next = "create" => run[Pending] = "NONE"

\* Only the newest iteration can be unfinished, and what a finalized one says
\* of its run is, and stays, what the run's own row says.  The loop row agrees
\* with the iteration rows after every commit, and the streak stored with an
\* iteration is the one derived from the rows up to it.
IterationsAgree ==
    /\ \A i \in DOMAIN iters :
          IF iters[i].state = "FINALIZED" THEN iters[i].status = run[i] ELSE i = Len(iters)
    /\ loop.started = Len(iters)
    /\ loop.completed = Cardinality(Finalized(iters))
    /\ loop.streak = Streak(iters)
    /\ \A i \in Finalized(iters) : iters[i].after = Streak(SubSeq(iters, 1, i))

\* No iteration was opened with Threshold failures right behind it.
BreakerHolds ==
    \A i \in DOMAIN iters :
        i > Threshold => \E j \in (i - Threshold)..(i - 1) : iters[j].status = "COMPLETED"

\* A terminal stop reason is the true one: the cap only after N iterations
\* within the ceiling and short of the threshold ("Reaching N cannot hide it"),
\* a breaker only when its own condition holds.
ReasonIsTrue ==
    loop.status = "FINISHED" =>
        CASE loop.reason = "COMPLETED_ITERATION_CAP" ->
                 /\ Cardinality(Finalized(iters)) = N
                 /\ Spent <= Budget /\ Streak(iters) < Threshold
          [] loop.reason = "COST_BREAKER_TRIPPED" -> Spent >= Budget
          [] loop.reason = "CONSECUTIVE_FAILURE_BREAKER_TRIPPED" -> Streak(iters) >= Threshold
          [] loop.reason = "LOOP_ABORTED_ERROR" -> faults > 0
          [] OTHER -> FALSE

\* Whenever the supervisor is about to start a run, every finalized run has its
\* section and a readable cost row on file: no allowance is computed from a
\* partial account, whatever an interrupted write left behind.
AccountComplete ==
    pc = "supervise" /\ (Pending = 0 \/ run[Pending] = "NONE") =>
        \A i \in Finalized(iters) : OutputsComplete(i)

\* The loop's books are sound after any crash and resume: no run is repeated,
\* rows agree with runs, and nothing is decided on a partial account.
BooksSound == TypeOK /\ NeverRepeated /\ IterationsAgree /\ AccountComplete

\* A breaker stops the loop when it must, and a stop reason is the true one.
BreakersSound == BreakerHolds /\ ReasonIsTrue

\* A started loop reaches its terminal stop reason however it is interrupted.
EventuallyFinished == loop.status = "RUNNING" ~> loop.status = "FINISHED"
=============================================================================
