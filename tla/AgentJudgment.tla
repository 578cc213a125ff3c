---------------------------- MODULE AgentJudgment ----------------------------
(* The judged checks of one run (agents/checker): the run's budget, kept in  *)
(* memory by the coordinator, the agent_calls rows in the ledger, the        *)
(* bounded re-execution of a call that hit its own budget ceiling, and the   *)
(* tool through which the model proposes findings.  The model is external:   *)
(* any proposals, any result, any reported cost up to the overshoot of one   *)
(* call.  A run that dies is never resumed; its rows remain.                 *)
EXTENDS Integers, FiniteSets, Sequences, Functions

CONSTANTS
    Tasks,           \* (surface, check_class) pairs judged by the agent
    Keys,            \* findings a model can propose
    Total,           \* run_budget_eur_micros, in units of spend
    CallCap,         \* max_per_call_reserve_eur_micros
    Overshoot,       \* how far one call may exceed its reservation
    MaxAttempts,     \* max_model_attempts_per_task
    MaxTools,        \* MAX_TOOL_CALLS_PER_CHECK
    MaxFaults        \* bound: ledger errors, accounting errors and crashes

ASSUME JudgmentAssumption ==
    /\ IsFiniteSet(Tasks) /\ IsFiniteSet(Keys)
    /\ Total \in Nat \ {0} /\ CallCap \in Nat \ {0}
    /\ Overshoot \in Nat
    /\ MaxAttempts \in {1, 2}
    /\ MaxTools \in Nat \ {0}
    /\ MaxFaults \in Nat

VARIABLES
    calls,               \* agent_calls rows, with their tool-attempt rows
    committed, held,     \* the coordinator's two counters
    faulted,             \* _terminal_accounting_faulted
    verdict, found,      \* what each task's judgment came to
    pc,
    task, attempt,       \* the judgment in hand and its attempt_index + 1
    amount,              \* its reservation
    tries, kept,         \* the tool state of the invocation
    class, charge, estimate,
    reported,            \* the SDK metadata of the invocation
    faults

budget == <<committed, held, faulted>>
results == <<verdict, found>>
tool == <<tries, kept>>
outcome == <<class, charge, estimate, reported>>
vars == <<calls, budget, results, pc, task, attempt, amount, tool, outcome, faults>>

CallStates == {"RESERVED", "COMPLETED", "FAILED", "REJECTED", "EXHAUSTED"}
Classes == {"NONE", "SDK_BUDGET_CEILING", "SDK_RESULT_ERROR_OTHER", "TRANSPORT",
            "NO_RESULT_MESSAGE", "TOOL_BREAKER"}
Results == {"none", "ok", "error", "ceiling"}
MaxCharge == CallCap + Overshoot
Unknown == -1               \* no recoverable final cost
NoTask == "no task"

ASSUME NoTaskAssumption == NoTask \notin Tasks

CallRows == [task : Tasks, state : CallStates, reserved : 0..CallCap, charged : 0..MaxCharge,
             class : Classes, result : Results, proposals : 0..(MaxTools + 1), kept : SUBSET Keys]

TypeOK ==
    /\ calls \in Seq(CallRows)
    /\ committed \in Nat /\ held \in Nat
    /\ faulted \in BOOLEAN
    /\ verdict \in [Tasks -> {"none", "confirmed", "inconclusive"}]
    /\ found \in [Tasks -> SUBSET Keys]
    /\ pc \in {"idle", "auth", "reserve", "insert", "invoke", "terminalize", "advance", "down"}
    /\ task \in Tasks \cup {NoTask}
    /\ attempt \in 0..MaxAttempts
    /\ amount \in 0..CallCap
    /\ tries \in 0..(MaxTools + 1)
    /\ kept \subseteq Keys
    /\ class \in Classes
    /\ charge \in 0..MaxCharge
    /\ estimate \in Unknown..MaxCharge
    /\ reported \in Results
    /\ faults \in 0..MaxFaults

Init ==
    /\ calls = <<>>
    /\ committed = 0 /\ held = 0 /\ faulted = FALSE
    /\ verdict = [t \in Tasks |-> "none"]
    /\ found = [t \in Tasks |-> {}]
    /\ pc = "idle" /\ task = NoTask /\ attempt = 0 /\ amount = 0
    /\ tries = 0 /\ kept = {}
    /\ class = "NONE" /\ charge = 0 /\ estimate = Unknown /\ reported = "none"
    /\ faults = 0

----------------------------------------------------------------------------
\* agents/checker/budget.py and failures.py

Remaining == Total - committed - held

\* Mutant: a call may reserve its full cap whatever remains.
Reservation_Full == CallCap

\* Mutant: a call may reserve everything that remains.
Reservation_NoCap == Remaining

\* What reserve() hands out.
Reservation == IF Remaining <= CallCap THEN Remaining ELSE CallCap

\* Mutant: a budget ceiling is looked at before the tool breaker.
Classify_CeilingFirst(result, raised) ==
    CASE result = "ceiling" -> "SDK_BUDGET_CEILING"
      [] result # "ceiling" /\ tries > MaxTools -> "TOOL_BREAKER"
      [] result = "error" /\ tries <= MaxTools -> "SDK_RESULT_ERROR_OTHER"
      [] OTHER -> IF raised THEN "TRANSPORT" ELSE "NONE"

\* classify_invocation; NONE is a clean completion.  result: what the stream
\* delivered; raised: it ended in an exception.
Classify(result, raised) ==
    IF tries > MaxTools THEN "TOOL_BREAKER"
    ELSE CASE result = "ceiling" -> "SDK_BUDGET_CEILING"
           [] result = "error" -> "SDK_RESULT_ERROR_OTHER"
           [] result \in {"ok", "none"} /\ raised -> "TRANSPORT"
           [] result = "none" /\ ~raised -> "NO_RESULT_MESSAGE"
           [] result = "ok" /\ ~raised -> "NONE"

\* terminal_charge
TerminalCharge(completed, cost) ==
    IF cost = Unknown THEN amount
    ELSE IF completed \/ cost >= amount THEN cost
    ELSE amount

----------------------------------------------------------------------------
\* Rows.

\* The columns a fresh row and an invocation-less terminal row share.
Row(t, state, reserved) ==
    [task |-> t, state |-> state, reserved |-> reserved, charged |-> 0,
     class |-> "NONE", result |-> "none", proposals |-> 0, kept |-> {}]

\* build_agent_cost_row: a row still RESERVED costs its reservation.
RowCharge(i) == IF calls[i].state = "RESERVED" THEN calls[i].reserved ELSE calls[i].charged
CostOf(ids) == SumFunctionOnSet([i \in DOMAIN calls |-> RowCharge(i)], ids)

\* The judgment is over: back in the pipeline.
Leave(answer, keys) ==
    /\ verdict' = [verdict EXCEPT ![task] = answer]
    /\ found' = [found EXCEPT ![task] = keys]
    /\ pc' = "idle" /\ task' = NoTask /\ attempt' = 0 /\ amount' = 0
    /\ tries' = 0 /\ kept' = {}
    /\ class' = "NONE" /\ charge' = 0 /\ estimate' = Unknown /\ reported' = "none"

----------------------------------------------------------------------------
\* One judgment: CagedCheckerStub.judge.

\* A confirmed-absent file needs no model.
JudgeAbsent(t) ==
    /\ pc = "idle" /\ verdict[t] = "none"
    /\ verdict' = [verdict EXCEPT ![t] = "confirmed"]
    /\ UNCHANGED <<calls, budget, found, pc, task, attempt, amount, tool, outcome, faults>>

\* The run-wide latch refuses before anything is reserved or written.
JudgeLatched(t) ==
    /\ pc = "idle" /\ verdict[t] = "none"
    /\ faulted
    /\ verdict' = [verdict EXCEPT ![t] = "inconclusive"]
    /\ UNCHANGED <<calls, budget, found, pc, task, attempt, amount, tool, outcome, faults>>

\* Mutant: the latch is not consulted.
Judge_NoLatch(t) ==
    /\ pc = "idle" /\ verdict[t] = "none"
    /\ task' = t /\ pc' = "auth"
    /\ UNCHANGED <<calls, budget, results, attempt, amount, tool, outcome, faults>>

Judge(t) ==
    /\ pc = "idle" /\ verdict[t] = "none"
    /\ ~faulted
    /\ task' = t /\ pc' = "auth"
    /\ UNCHANGED <<calls, budget, results, attempt, amount, tool, outcome, faults>>

AuthRefused ==
    /\ pc = "auth"
    /\ calls' = Append(calls, Row(task, "REJECTED", 0))
    /\ Leave("inconclusive", {})
    /\ UNCHANGED <<budget, faults>>

AuthOk ==
    /\ pc = "auth"
    /\ attempt' = 1 /\ pc' = "reserve"
    /\ UNCHANGED <<calls, budget, results, task, amount, tool, outcome, faults>>

Exhausted ==
    /\ pc = "reserve"
    /\ Remaining <= 0
    /\ calls' = Append(calls, Row(task, "EXHAUSTED", 0))
    /\ Leave("inconclusive", {})
    /\ UNCHANGED <<budget, faults>>

Reserve ==
    /\ pc = "reserve"
    /\ Remaining > 0
    /\ amount' = Reservation
    /\ held' = held + amount'
    /\ pc' = "insert"
    /\ UNCHANGED <<calls, committed, faulted, results, task, attempt, tool, outcome, faults>>

\* The RESERVED row is durable before the model is invoked; every invocation
\* has a tool state of its own.
InsertReserved ==
    /\ pc = "insert"
    /\ calls' = Append(calls, Row(task, "RESERVED", amount))
    /\ tries' = 0 /\ kept' = {}
    /\ pc' = "invoke"
    /\ UNCHANGED <<budget, results, task, attempt, amount, outcome, faults>>

\* One emit_finding call: counted, refused past the breaker, dropped when
\* invalid or a duplicate.  Calls after the first refused one change nothing.
Propose(k, valid) ==
    /\ pc = "invoke"
    /\ tries <= MaxTools
    /\ tries' = tries + 1
    /\ kept' = IF tries' <= MaxTools /\ valid THEN kept \cup {k} ELSE kept
    /\ UNCHANGED <<calls, budget, results, pc, task, attempt, amount, outcome, faults>>

\* The invocation ends, one way or another, and is classified and priced.
Settle(result, raised, cost) ==
    /\ pc = "invoke"
    /\ result = "none" => cost = Unknown
    /\ cost <= amount + Overshoot
    /\ class' = Classify(result, raised)
    /\ estimate' = cost /\ reported' = result
    /\ charge' = TerminalCharge(class' = "NONE", cost)
    /\ pc' = "terminalize"
    /\ UNCHANGED <<calls, budget, results, task, attempt, amount, tool, faults>>

\* The row and the buffered tool attempts in one transaction.
Terminalize ==
    /\ pc = "terminalize"
    /\ calls' = [calls EXCEPT ![Len(calls)] =
                    [@ EXCEPT !.state = IF class = "NONE" THEN "COMPLETED" ELSE "FAILED",
                              !.charged = charge, !.class = class, !.result = reported,
                              !.proposals = tries, !.kept = kept]]
    /\ pc' = "advance"
    /\ UNCHANGED <<budget, results, task, attempt, amount, tool, outcome, faults>>

\* Mutant: what a failed call had accepted is returned.
Advance_KeepFailed ==
    /\ pc = "advance"
    /\ held' = held - amount
    /\ committed' = committed + charge
    /\ IF class = "SDK_BUDGET_CEILING" /\ attempt < MaxAttempts
       THEN /\ attempt' = attempt + 1 /\ pc' = "reserve" /\ amount' = 0
            /\ class' = "NONE" /\ charge' = 0 /\ estimate' = Unknown /\ reported' = "none"
            /\ UNCHANGED <<results, task, tool>>
       ELSE IF class = "NONE" \/ kept # {} THEN Leave("confirmed", kept)
       ELSE Leave("inconclusive", {})
    /\ UNCHANGED <<calls, faulted, faults>>

\* In-memory accounting follows; then return, re-execute or give up.
Advance ==
    /\ pc = "advance"
    /\ held' = held - amount
    /\ committed' = committed + charge
    /\ IF class = "SDK_BUDGET_CEILING" /\ attempt < MaxAttempts
       THEN /\ attempt' = attempt + 1 /\ pc' = "reserve" /\ amount' = 0
            /\ class' = "NONE" /\ charge' = 0 /\ estimate' = Unknown /\ reported' = "none"
            /\ UNCHANGED <<results, task, tool>>
       ELSE IF class = "NONE" THEN Leave("confirmed", kept)
       ELSE Leave("inconclusive", {})
    /\ UNCHANGED <<calls, faulted, faults>>

----------------------------------------------------------------------------
Fault == faults < MaxFaults /\ faults' = faults + 1

\* A ledger transaction is rolled back and its error leaves judge(): a
\* reservation that was already taken stays held, a row stays RESERVED.
LedgerFails ==
    /\ \/ pc \in {"auth", "insert", "terminalize"}
       \/ pc = "reserve" /\ Remaining <= 0
    /\ Fault
    /\ Leave("inconclusive", {})
    /\ UNCHANGED <<calls, budget>>

\* The coordinator fails after the row is durable: the run-wide latch is set.
AccountingFails ==
    /\ pc = "advance"
    /\ Fault
    /\ faulted' = TRUE
    /\ Leave("inconclusive", {})
    /\ UNCHANGED <<calls, committed, held>>

\* The process dies; the coordinator dies with it, and the run is not resumed.
Crash ==
    /\ pc # "down"
    /\ Fault
    /\ pc' = "down"
    /\ UNCHANGED <<calls, budget, results, task, attempt, amount, tool, outcome>>

Next ==
    \/ \E t \in Tasks : JudgeAbsent(t) \/ JudgeLatched(t) \/ Judge(t)
    \/ AuthRefused \/ AuthOk \/ Exhausted \/ Reserve \/ InsertReserved
    \/ \E k \in Keys, valid \in BOOLEAN : Propose(k, valid)
    \/ \E result \in Results, raised \in BOOLEAN,
         cost \in Unknown..MaxCharge : Settle(result, raised, cost)
    \/ Terminalize \/ Advance
    \/ LedgerFails \/ AccountingFails \/ Crash

Spec == Init /\ [][Next]_vars

----------------------------------------------------------------------------
\* The development gate (scripts/run_phase3_dev_gate.py) adjudicates the run
\* from its rows alone: the failure class is in none of them.

Invoked(i) == calls[i].state \in {"RESERVED", "COMPLETED", "FAILED"}
RowsOf(t) == {i \in DOMAIN calls : calls[i].task = t}

\* Mutant: the tool audit is not read.
ReconstructsCeiling_NoAudit(i) == calls[i].result = "ceiling" /\ calls[i].reserved > 0

\* _reconstruct_budget_ceiling: no tool attempt was refused by the breaker, and
\* the SDK said that the call ended at its budget.
ReconstructsCeiling(i) ==
    /\ calls[i].proposals <= MaxTools
    /\ calls[i].result = "ceiling" /\ calls[i].reserved > 0

\* Mutant: a recovery is two rows too many.
ValidHistory_NoRecovery(t) ==
    \E only \in RowsOf(t) : RowsOf(t) = {only} /\ calls[only].state = "COMPLETED"

\* _evaluate_logical_history: [COMPLETED], or [FAILED at the ceiling, COMPLETED].
ValidHistory(t) ==
    /\ Cardinality(RowsOf(t)) <= 2
    /\ \E last \in RowsOf(t) :
          /\ calls[last].state = "COMPLETED"
          /\ \A i \in RowsOf(t) \ {last} :
                i < last /\ calls[i].state = "FAILED" /\ ReconstructsCeiling(i)

\* evaluate_cost_caps, what is accounted and unclamped.
CostWithinCap == CostOf(DOMAIN calls) <= Total

\* evaluate_execution_validity over one run: it ended without a failed task,
\* every history is valid and some task went to the model.
GateAccepts ==
    /\ pc = "idle" /\ \A t \in Tasks : verdict[t] = "confirmed"
    /\ \A t \in Tasks : RowsOf(t) # {} => ValidHistory(t)
    /\ \E i \in DOMAIN calls : calls[i].reserved > 0
    /\ CostWithinCap

----------------------------------------------------------------------------
\* Properties.

\* A model call starts only while the ledger, read as the run's cost row would
\* read it, leaves part of the run budget: also after rows left RESERVED, after
\* overshoots, and after an accounting error made the memory wrong.  So the
\* accounted cost exceeds the budget by at most the overshoot of the one call
\* that was in flight when the budget ran out (config.py).
BudgetHolds ==
    /\ pc = "invoke" => CostOf(DOMAIN calls \ {Len(calls)}) < Total
    /\ CostOf(DOMAIN calls) <= Total + Overshoot

\* A task is invoked at most MaxAttempts times, and again only behind a call
\* that failed at its own budget ceiling with the tool breaker untouched.
RetryOnlyCeiling ==
    \A t \in Tasks :
        LET invoked == {i \in RowsOf(t) : Invoked(i)}
        IN  /\ Cardinality(invoked) <= MaxAttempts
            /\ \A i, j \in invoked : i < j =>
                   /\ calls[i].state = "FAILED"
                   /\ calls[i].class = "SDK_BUDGET_CEILING"
                   /\ calls[i].proposals <= MaxTools

\* Money is sound: the budget holds over every call, and no call is repeated but
\* for the one reason that allows it.
SpendSound == BudgetHolds /\ RetryOnlyCeiling

\* A verdict with findings is exactly what the task's last call accepted, and
\* that call COMPLETED; a task given up as inconclusive has no COMPLETED call,
\* unless accounting faulted behind it.
VerdictsBacked ==
    \A t \in Tasks :
        /\ verdict[t] = "confirmed" =>
               \/ RowsOf(t) = {} /\ found[t] = {}
               \/ \E i \in RowsOf(t) : /\ \A j \in RowsOf(t) : j <= i
                                       /\ calls[i].state = "COMPLETED"
                                       /\ calls[i].kept = found[t]
        /\ verdict[t] # "confirmed" => found[t] = {}
        /\ verdict[t] = "inconclusive" /\ ~faulted =>
               \A i \in RowsOf(t) : calls[i].state # "COMPLETED"

\* Rows and verdicts are sound in every state of a call.
VerdictsSound == TypeOK /\ VerdictsBacked

\* What the gate reconstructs from a task's rows is what happened: a history is
\* valid exactly if the judgment was answered, or would have been but for an
\* accounting fault behind its last call, and a row it excuses failed at its
\* budget ceiling and nothing else.  So a clean run within its budget passes.
GateReconstructs ==
    /\ \A t \in Tasks \ {task} : RowsOf(t) # {} =>
          /\ verdict[t] = "confirmed" => ValidHistory(t)
          /\ ValidHistory(t) => verdict[t] = "confirmed" \/ faulted
    /\ \A i \in DOMAIN calls : calls[i].state = "FAILED" =>
          (ReconstructsCeiling(i) <=> calls[i].class = "SDK_BUDGET_CEILING")
    /\ pc = "idle" /\ faults = 0 /\ CostWithinCap /\ calls # <<>>
       /\ (\A t \in Tasks : verdict[t] = "confirmed") => GateAccepts
=============================================================================
