---------------------------- MODULE GateExecution ----------------------------
(* The execute step of the official gate, and the finalizer behind it        *)
(* (scripts/run_phase5_official_gate.py, run_phase5_gate_finalizer.py,       *)
(* sentinel/phase5/execution_control.py, agents/checker/envelope_guard.py,   *)
(* process_control.py).  Two threads share one lock: the main thread runs    *)
(* the session, one guarded provider call at a time, and commits a terminal  *)
(* record; the monitor thread trips the latch and, after a grace period,     *)
(* ends the process.  A section under the lock is one action, except the two *)
(* that can be cut in half: a call's check and registration, and the file    *)
(* write inside a commit.  The journal has a lock of its own, the pen: the   *)
(* main thread takes it in one action and has written in another, so that it *)
(* can hang, or be signalled, with the pen in hand.  Time is kept to what    *)
(* the code compares: the session has expired, a call is past its budget or  *)
(* past budget plus grace, the latch is past its grace.                      *)
EXTENDS GateTerminal, FiniteSets

CONSTANTS
    MaxCalls,       \* bound: provider calls of a session
    MaxFaults,      \* bound: exceptions, failed writes, signals, crashes
    Dispositions    \* what a signal does once observed: "raise", "die", "ignore"

ASSUME GateAssumption ==
    /\ MaxCalls \in Nat
    /\ MaxFaults \in Nat
    /\ Dispositions \subseteq {"raise", "die", "ignore"}

VARIABLES
    main, monitor,           \* where each thread is
    lock,                    \* who holds the safety domain's lock between actions
    latch, arbiter,          \* SessionLatch and TerminalArbiter
    expired, grace,          \* session deadline passed; latch past its grace
    calls, bound, age,       \* the call in hand, from its registration on
    requested, escalated,    \* SessionMonitor's flags
    state, claim, crossed,   \* tracked runner state; cause in hand; provider boundary
    journal, broken, pen,    \* the operational journal; its append fault latch; its lock
    signalled, cancelled,    \* a signal was observed; the step was cancelled
    record, code,            \* the terminal file; exit code of the step
    faults

control == <<lock, latch, arbiter>>
time == <<expired, grace, age>>
log == <<journal, broken, pen>>
local == <<state, claim, crossed, calls, bound>>
vars == <<main, monitor, control, time, requested, escalated, local, log,
          signalled, cancelled, record, code, faults>>

Ended == {"dead", "final"}
Stopping == {"stop", "join", "shutdown"} \cup Ended
MainPcs == {"mark", "control", "arm", "session", "starting", "latched_start", "start", "call",
            "latched_call", "reap", "finish", "score", "commit", "established", "replace",
            "written", "failing", "excepted", "build", "invalid", "replace_invalid",
            "invalid_written", "write_failed"} \cup Stopping
MonitorPcs == {"off", "wait", "heartbeat", "watch", "latched_deadline", "check", "overrun",
               "latched_watchdog", "escalate", "notify", "exit", "request", "ended"}
ArbiterStates == {"NONE", "QUALITY_IN_PROGRESS", "QUALITY_COMMITTED", "QUALITY_FAILED",
                  "INVALID_IN_PROGRESS", "INVALID_COMMITTED", "INVALID_FAILED"}
NoCode == 9
Codes == {0, 1, 3, NoCode}

TypeOK ==
    /\ main \in MainPcs
    /\ monitor \in MonitorPcs
    /\ lock \in {"free", "main"}
    /\ latch \in LatchCauses \cup {None}
    /\ arbiter \in ArbiterStates
    /\ expired \in BOOLEAN /\ grace \in BOOLEAN
    /\ calls \in 0..MaxCalls
    /\ bound \in BOOLEAN
    /\ age \in {"fresh", "due", "overdue"}
    /\ requested \in BOOLEAN /\ escalated \in BOOLEAN
    /\ state \in RunnerStates
    /\ claim \in Causes \cup {None}
    /\ crossed \in BOOLEAN
    /\ journal \in Seq(Events)
    /\ broken \in BOOLEAN /\ pen \in {"free", "main"}
    /\ signalled \in BOOLEAN /\ cancelled \in BOOLEAN
    /\ record \in Candidates
    /\ code \in Codes
    /\ faults \in 0..MaxFaults

\* Preflight left a verified PREFLIGHTED journal and the marker is visible.
Init ==
    /\ main = "mark" /\ monitor = "off"
    /\ lock = "free" /\ latch = None /\ arbiter = "NONE"
    /\ expired = FALSE /\ grace = FALSE
    /\ calls = 0 /\ bound = FALSE /\ age = "fresh"
    /\ requested = FALSE /\ escalated = FALSE
    /\ state = "PREFLIGHTED" /\ claim = None /\ crossed = FALSE
    /\ journal = <<Event("STATE", "PREFLIGHTED")>> /\ broken = FALSE /\ pen = "free"
    /\ signalled = FALSE /\ cancelled = FALSE
    /\ record = Absent /\ code = NoCode
    /\ faults = 0

----------------------------------------------------------------------------
\* Helpers.

Fault == faults < MaxFaults /\ faults' = faults + 1

\* A broken journal swallows appends.
Log(kind, what) ==
    /\ journal' = IF broken THEN journal ELSE Append(journal, Event(kind, what))
    /\ UNCHANGED broken

\* _JournalStateTracker.transition: a transition that is not permitted is not
\* journaled, and changes nothing.
Transition(to) ==
    IF Allowed(state, to)
    THEN Log("STATE", to) /\ state' = to
    ELSE UNCHANGED <<journal, broken, state>>

\* Everything but the given thread's own variables.
Signals == <<signalled, cancelled>>
Flags == <<requested, escalated>>

Goto(pc) == main' = pc
Unlocked == lock = "free"

\* Where the main thread's next step is an append to the journal.
Appending == {"mark", "arm", "latched_start", "start", "latched_call", "finish", "score",
              "established", "written", "write_failed", "excepted", "invalid_written"}

\* append takes the journal's lock, waiting for it if need be.
TakeJournal ==
    /\ main \in Appending
    /\ pen = "free"
    /\ pen' = "main"
    /\ UNCHANGED <<main, monitor, control, time, Flags, local, journal, broken, Signals,
                   record, code, faults>>

\* The append of a step of the main thread ends, and gives the lock back.
Appends(pc) == main = pc /\ pen = "main" /\ pen' = "free"

----------------------------------------------------------------------------
\* The main thread: up to the session.

MarkReplacement ==
    /\ Appends("mark")
    /\ Transition("REPLACEMENT_MARKED")
    /\ Goto("control")
    /\ UNCHANGED <<monitor, control, time, Flags, claim, crossed, calls, bound, Signals,
                   record, code, faults>>

\* Latch, registry, clock and arbiter are built and the monitor is started.
StartControl ==
    /\ main = "control"
    /\ monitor' = "wait"
    /\ Goto("arm")
    /\ UNCHANGED <<control, time, Flags, local, log, Signals, record, code, faults>>

CrossBoundary ==
    /\ Appends("arm")
    /\ crossed' = TRUE
    /\ Transition("EXECUTING")
    /\ Goto("session")
    /\ UNCHANGED <<monitor, control, time, Flags, claim, calls, bound, Signals,
                   record, code, faults>>

----------------------------------------------------------------------------
\* The session and deadline_guarded.

\* Mutant: the lock is not kept between the look at latch and clock and the
\* registration.
BeginCall_NoLock ==
    /\ main = "session"
    /\ calls < MaxCalls
    /\ Unlocked /\ latch = None
    /\ IF expired
       THEN latch' = "SESSION_DEADLINE" /\ Goto("latched_start") /\ UNCHANGED bound
       ELSE bound' \in BOOLEAN /\ Goto("starting") /\ UNCHANGED latch
    /\ UNCHANGED <<monitor, lock, arbiter, time, Flags, state, claim, crossed, calls, log,
                   Signals, record, code, faults>>

\* Under the lock, latch and clock are looked at before a provider call: an
\* expired session is latched and the call refused.  A call refused because a
\* cause is latched already changes nothing.  bound: the session's remaining
\* time is the smaller of the two budgets.
BeginCall ==
    /\ main = "session"
    /\ calls < MaxCalls
    /\ Unlocked /\ latch = None
    /\ IF expired
       THEN /\ latch' = "SESSION_DEADLINE"
            /\ Goto("latched_start")
            /\ UNCHANGED <<lock, bound>>
       ELSE /\ lock' = "main"
            /\ bound' \in BOOLEAN
            /\ Goto("starting")
            /\ UNCHANGED latch
    /\ UNCHANGED <<monitor, arbiter, time, Flags, state, claim, crossed, calls, log,
                   Signals, record, code, faults>>

\* Still under the lock, and without another look, the call is registered.
Register ==
    /\ main = "starting"
    /\ lock' = "free"
    /\ calls' = calls + 1
    /\ age' = "fresh"
    /\ Goto("start")
    /\ UNCHANGED <<monitor, latch, arbiter, expired, grace, Flags, state, claim, crossed, bound,
                   log, Signals, record, code, faults>>

LogRefusal ==
    /\ Appends("latched_start")
    /\ Log("LATCHED", "SESSION_DEADLINE")
    /\ Goto("session")
    /\ UNCHANGED <<monitor, control, time, Flags, local, Signals, record, code, faults>>

\* INVOCATION_STARTED is journaled, an event no reader uses, and the provider
\* called.
LogStart ==
    /\ Appends("start")
    /\ Goto("call")
    /\ UNCHANGED <<monitor, control, time, Flags, local, journal, broken, Signals, record,
                   code, faults>>

\* The provider returned or raised: the registry no longer has the call.
CallReturns ==
    /\ main = "call"
    /\ Goto("finish")
    /\ UNCHANGED <<monitor, control, time, Flags, local, log, Signals, record, code, faults>>

\* The guard's own deadline fired: trip, and journal only a trip that won.
CallTimesOut ==
    /\ main = "call"
    /\ age # "fresh"
    /\ claim' = IF bound \/ expired THEN "SESSION_DEADLINE" ELSE "INVOCATION_STALL_DEADLINE"
    /\ IF latch = None
       THEN latch' = claim' /\ Goto("latched_call")
       ELSE Goto("reap") /\ UNCHANGED latch
    /\ UNCHANGED <<monitor, lock, arbiter, time, Flags, state, crossed, calls, bound, log,
                   Signals, record, code, faults>>

LogTimeout ==
    /\ Appends("latched_call")
    /\ Log("LATCHED", claim)
    /\ Goto("reap")
    /\ UNCHANGED <<monitor, control, time, Flags, local, Signals, record, code, faults>>

\* The provider's descendants are terminated; survivors call for escalation.
Reap(survivors) ==
    /\ main = "reap"
    /\ requested' = (requested \/ survivors)
    /\ Goto("finish")
    /\ UNCHANGED <<monitor, control, time, escalated, local, log, Signals, record, code, faults>>

\* INVOCATION_FINISHED is journaled; the harness turns result or exception into
\* a verdict.
LogFinish ==
    /\ Appends("finish")
    /\ Goto("session")
    /\ UNCHANGED <<monitor, control, time, Flags, local, journal, broken, Signals, record,
                   code, faults>>

\* before_task_execute, and the checks after each run, abort a latched session.
AbortSession ==
    /\ main = "session"
    /\ latch # None
    /\ Goto("failing")
    /\ UNCHANGED <<monitor, control, time, Flags, local, log, Signals, record, code, faults>>

FinishSession ==
    /\ main = "session"
    /\ latch = None
    /\ Goto("score")
    /\ UNCHANGED <<monitor, control, time, Flags, local, log, Signals, record, code, faults>>

Score ==
    /\ Appends("score")
    /\ Transition("SCORED_PROVISIONAL")
    /\ Goto("commit")
    /\ UNCHANGED <<monitor, control, time, Flags, claim, crossed, calls, bound, Signals,
                   record, code, faults>>

----------------------------------------------------------------------------
\* TerminalArbiter: the quality record.

\* commit_quality: refused when a cause is latched, or by latching the expiry
\* it finds; a refusal leads to an attempt at an invalid record.
CommitQuality ==
    /\ main = "commit" /\ Unlocked
    /\ IF latch # None
       THEN /\ claim' = latch /\ Goto("invalid")
            /\ UNCHANGED control
       ELSE IF expired
       THEN /\ latch' = "SESSION_DEADLINE" /\ claim' = "SESSION_DEADLINE"
            /\ Goto("established")
            /\ UNCHANGED <<lock, arbiter>>
       ELSE /\ lock' = "main" /\ arbiter' = "QUALITY_IN_PROGRESS"
            /\ Goto("replace")
            /\ UNCHANGED <<latch, claim>>
    /\ UNCHANGED <<monitor, time, Flags, state, crossed, calls, bound, log, Signals, record,
                   code, faults>>

LogEstablished ==
    /\ Appends("established")
    /\ Log("LATCHED", "SESSION_DEADLINE")
    /\ Goto("invalid")
    /\ UNCHANGED <<monitor, control, time, Flags, local, Signals, record, code, faults>>

ReplaceQuality ==
    /\ main = "replace"
    /\ record = Absent
    /\ record' = Quality
    /\ arbiter' = "QUALITY_COMMITTED" /\ lock' = "free"
    /\ Goto("written")
    /\ UNCHANGED <<monitor, latch, time, Flags, local, log, Signals, code, faults>>

\* The write raises: before the replace, or in the directory fsync after it.
ReplaceQualityFails ==
    /\ main = "replace"
    /\ Fault
    /\ record' \in {record, Quality}
    /\ arbiter' = "QUALITY_FAILED" /\ lock' = "free"
    /\ Goto("write_failed")
    /\ UNCHANGED <<monitor, latch, time, Flags, local, log, Signals, code>>

QualityWritten ==
    /\ Appends("written")
    /\ Transition("TERMINAL_EVIDENCE_WRITTEN")
    /\ code' = 0
    /\ Goto("stop")
    /\ UNCHANGED <<monitor, control, time, Flags, claim, crossed, calls, bound, Signals,
                   record, faults>>

\* Mutant: the failed write counts as written.
WriteFailed_Ok ==
    /\ Appends("write_failed")
    /\ Log("WRITE_FAILED", None)
    /\ code' = 0
    /\ Goto("stop")
    /\ UNCHANGED <<monitor, control, time, Flags, local, Signals, record, faults>>

\* Mutant: the failure is swallowed and the next state journaled.
WriteFailed_Continues ==
    /\ Appends("write_failed")
    /\ Transition(IF claim = None THEN "TERMINAL_EVIDENCE_WRITTEN" ELSE "INVALID_EVIDENCE_WRITTEN")
    /\ code' = 3
    /\ Goto("stop")
    /\ UNCHANGED <<monitor, control, time, Flags, claim, crossed, calls, bound, Signals,
                   record, faults>>

WriteFailed ==
    /\ Appends("write_failed")
    /\ Log("WRITE_FAILED", None)
    /\ code' = 3
    /\ Goto("stop")
    /\ UNCHANGED <<monitor, control, time, Flags, local, Signals, record, faults>>

----------------------------------------------------------------------------
\* _handle_execute_failure and the invalid record.

\* An ordinary exception in the execute body (the finally clause of a commit
\* has its own actions, and a provider's exception never gets this far).
Raise ==
    /\ main \in {"mark", "control", "arm", "session", "score", "commit"}
    /\ pen = "free"
    /\ Fault
    /\ Goto("failing")
    /\ UNCHANGED <<monitor, control, time, Flags, local, log, Signals, record, code>>

\* Mutant: the provider boundary is ignored.
FailureCause_PreProvider == IF latch # None THEN latch ELSE "PRE_PROVIDER_FAILURE"

FailureCause ==
    IF latch # None THEN latch
    ELSE IF crossed THEN "RUNNER_EXCEPTION"
    ELSE "PRE_PROVIDER_FAILURE"

\* Mutant: the cause of a failure of the runner's own is not kept.
HandleFailure_NoCause ==
    /\ main = "failing"
    /\ ~signalled
    /\ Goto(IF FailureCause \in RunnerCauses THEN "excepted" ELSE "build")
    /\ UNCHANGED <<monitor, control, time, Flags, local, log, Signals, record, code, faults>>

HandleFailure ==
    /\ main = "failing"
    /\ ~signalled
    /\ claim' = FailureCause
    /\ Goto(IF claim' \in RunnerCauses THEN "excepted" ELSE "build")
    /\ UNCHANGED <<monitor, control, time, Flags, state, crossed, calls, bound, log, Signals,
                   record, code, faults>>

LogException ==
    /\ Appends("excepted")
    /\ Log("EXCEPTION", claim)
    /\ Goto("build")
    /\ UNCHANGED <<monitor, control, time, Flags, local, Signals, record, code, faults>>

\* A signal was observed, or the identity was never derived, or the record
\* cannot be built: no runner terminal evidence.
NoRecord ==
    /\ \/ main = "failing" /\ signalled
       \/ main = "build" /\ (signalled \/ state = "PREFLIGHTED")
    /\ code' = 3
    /\ Goto("stop")
    /\ UNCHANGED <<monitor, control, time, Flags, local, log, Signals, record, faults>>

\* Before the control objects exist the record is written without the arbiter.
BuildRecord ==
    /\ main = "build"
    /\ ~signalled
    /\ Goto(IF monitor = "off" THEN "replace_invalid" ELSE "invalid")
    /\ UNCHANGED <<monitor, control, time, Flags, local, log, Signals, record, code, faults>>

InvalidPermitted ==
    /\ IF claim \in LatchCauses THEN latch = claim ELSE latch = None
    /\ arbiter \in {"NONE", "QUALITY_FAILED"}

\* commit_invalid
CommitInvalid ==
    /\ main = "invalid" /\ Unlocked
    /\ IF InvalidPermitted
       THEN /\ lock' = "main" /\ arbiter' = "INVALID_IN_PROGRESS"
            /\ Goto("replace_invalid")
       ELSE /\ Goto("write_failed")
            /\ UNCHANGED <<lock, arbiter>>
    /\ UNCHANGED <<monitor, latch, time, Flags, local, log, Signals, record, code, faults>>

AfterReplace(outcome) ==
    /\ lock' = "free"
    /\ arbiter' = IF lock = "main" THEN outcome ELSE arbiter

ReplaceInvalid ==
    /\ main = "replace_invalid"
    /\ record = Absent
    /\ record' = Invalid(claim, "RUNNER")
    /\ AfterReplace("INVALID_COMMITTED")
    /\ Goto("invalid_written")
    /\ UNCHANGED <<monitor, latch, time, Flags, local, log, Signals, code, faults>>

ReplaceInvalidFails ==
    /\ main = "replace_invalid"
    /\ Fault
    /\ record' \in {record, Invalid(claim, "RUNNER")}
    /\ AfterReplace("INVALID_FAILED")
    /\ Goto("write_failed")
    /\ UNCHANGED <<monitor, latch, time, Flags, local, log, Signals, code>>

InvalidWritten ==
    /\ Appends("invalid_written")
    /\ Transition("INVALID_EVIDENCE_WRITTEN")
    /\ code' = 1
    /\ Goto("stop")
    /\ UNCHANGED <<monitor, control, time, Flags, claim, crossed, calls, bound, Signals,
                   record, faults>>

----------------------------------------------------------------------------
\* The finally clause: stop the monitor, shut the OIDC session down, exit.

StopMonitor ==
    /\ main = "stop"
    /\ Goto(IF monitor = "off" THEN "shutdown" ELSE "join")
    /\ UNCHANGED <<monitor, control, time, Flags, local, log, Signals, record, code, faults>>

\* The join ends with the thread, or times out after five seconds.  An
\* escalation nobody has served is served here.
Joined ==
    /\ main = "join"
    /\ IF requested /\ ~escalated
       THEN escalated' = TRUE /\ code' = 1 /\ Goto("dead")
       ELSE Goto("shutdown") /\ UNCHANGED <<escalated, code>>
    /\ UNCHANGED <<monitor, control, time, requested, local, log, Signals, record, faults>>

Shutdown ==
    /\ main = "shutdown"
    /\ Goto("dead")
    /\ UNCHANGED <<monitor, control, time, Flags, local, log, Signals, record, code, faults>>

\* An exception in the finally clause replaces the outcome.
ShutdownRaises ==
    /\ main = "shutdown"
    /\ Fault
    /\ code' = IF code = NoCode THEN NoCode ELSE 3
    /\ Goto("dead")
    /\ UNCHANGED <<monitor, control, time, Flags, local, log, Signals, record>>

----------------------------------------------------------------------------
\* SessionMonitor.  A step that reads or writes latch, registry or flags takes
\* the lock.

Alive == main \notin Ended
MonitorAt(pc) == Alive /\ monitor = pc
MonitorGoto(pc) == monitor' = pc

MonitorTick ==
    /\ MonitorAt("wait")
    /\ IF main \in Stopping \ {"stop"}
       THEN MonitorGoto("ended")
       ELSE monitor' \in {"heartbeat", "watch"}
    /\ UNCHANGED <<main, control, time, Flags, local, log, Signals, record, code, faults>>

\* Now and then a tick begins with a heartbeat: like every append of the
\* monitor's, it waits for the journal's lock.
MonitorHeartbeat ==
    /\ MonitorAt("heartbeat") /\ pen = "free"
    /\ MonitorGoto("watch")
    /\ UNCHANGED <<main, control, time, Flags, local, log, Signals, record, code, faults>>

\* Mutant: the latch is tripped without the lock.
MonitorWatch_Unlocked ==
    /\ MonitorAt("watch")
    /\ IF expired /\ latch = None
       THEN latch' = "SESSION_DEADLINE" /\ MonitorGoto("latched_deadline")
       ELSE MonitorGoto("check") /\ UNCHANGED latch
    /\ UNCHANGED <<main, lock, arbiter, time, Flags, local, log, Signals, record, code, faults>>

MonitorWatch ==
    /\ MonitorAt("watch") /\ Unlocked
    /\ IF expired /\ latch = None
       THEN latch' = "SESSION_DEADLINE" /\ MonitorGoto("latched_deadline")
       ELSE MonitorGoto("check") /\ UNCHANGED latch
    /\ UNCHANGED <<main, lock, arbiter, time, Flags, local, log, Signals, record, code, faults>>

MonitorLogs(pc, cause, next) ==
    /\ MonitorAt(pc) /\ pen = "free"
    /\ Log("LATCHED", cause)
    /\ MonitorGoto(next)
    /\ UNCHANGED <<main, control, time, Flags, local, pen, Signals, record, code, faults>>

\* A registered call, not yet finished, is past its budget and the grace.
Overrun == main \in {"start", "call", "latched_call", "reap"} /\ age = "overdue"

\* Mutant: a committed quality record spares the runner.
MonitorCheck_SpareQuality ==
    /\ MonitorAt("check") /\ Unlocked
    /\ MonitorGoto(IF latch = None /\ Overrun THEN "overrun"
                   ELSE IF latch # None /\ grace /\ arbiter # "QUALITY_COMMITTED" THEN "escalate"
                   ELSE "request")
    /\ UNCHANGED <<main, control, time, Flags, local, log, Signals, record, code, faults>>

MonitorCheck ==
    /\ MonitorAt("check") /\ Unlocked
    /\ MonitorGoto(IF latch = None /\ Overrun THEN "overrun"
                   ELSE IF latch # None /\ grace THEN "escalate"
                   ELSE "request")
    /\ UNCHANGED <<main, control, time, Flags, local, log, Signals, record, code, faults>>

\* Mutant: the watchdog replaces a cause that came first.
MonitorOverrun_Replace ==
    /\ MonitorAt("overrun") /\ Unlocked
    /\ latch' = "WATCHDOG" /\ MonitorGoto("latched_watchdog")
    /\ UNCHANGED <<main, lock, arbiter, time, Flags, local, log, Signals, record, code, faults>>

\* WATCHDOG, unless another cause was latched since the check.
MonitorOverrun ==
    /\ MonitorAt("overrun") /\ Unlocked
    /\ IF latch = None
       THEN latch' = "WATCHDOG" /\ MonitorGoto("latched_watchdog")
       ELSE MonitorGoto("escalate") /\ UNCHANGED latch
    /\ UNCHANGED <<main, lock, arbiter, time, Flags, local, log, Signals, record, code, faults>>

MonitorEscalate ==
    /\ MonitorAt("escalate") /\ Unlocked
    /\ escalated' = TRUE
    /\ MonitorGoto(IF escalated THEN "request" ELSE "notify")
    /\ UNCHANGED <<main, control, time, requested, local, log, Signals, record, code, faults>>

\* The escalation is journaled, descendants are terminated, and the callback's
\* argument, the arbiter's state, is read: under one lock and the other.
MonitorNotify ==
    /\ MonitorAt("notify") /\ Unlocked /\ pen = "free"
    /\ MonitorGoto("exit")
    /\ UNCHANGED <<main, control, time, Flags, local, log, Signals, record, code, faults>>

\* The callback: os._exit, whether or not it gets the lock.
MonitorExit ==
    /\ MonitorAt("exit")
    /\ Goto("dead")
    /\ code' = 1
    /\ UNCHANGED <<monitor, control, time, Flags, local, log, Signals, record, faults>>

MonitorRequest ==
    /\ MonitorAt("request") /\ Unlocked
    /\ MonitorGoto(IF requested /\ ~escalated THEN "escalate" ELSE "wait")
    /\ UNCHANGED <<main, control, time, Flags, local, log, Signals, record, code, faults>>

Monitor ==
    \/ MonitorTick \/ MonitorHeartbeat \/ MonitorWatch \/ MonitorCheck \/ MonitorOverrun
    \/ MonitorLogs("latched_deadline", "SESSION_DEADLINE", "check")
    \/ MonitorLogs("latched_watchdog", "WATCHDOG", "escalate")
    \/ MonitorEscalate \/ MonitorNotify \/ MonitorExit \/ MonitorRequest

----------------------------------------------------------------------------
\* Time, signals and faults.

Expire ==
    /\ Alive /\ ~expired
    /\ expired' = TRUE
    /\ UNCHANGED <<main, monitor, control, grace, age, Flags, local, log, Signals, record, code, faults>>

CallAges ==
    /\ main \in {"start", "call"} /\ age # "overdue"
    /\ age' = IF age = "fresh" THEN "due" ELSE "overdue"
    /\ UNCHANGED <<main, monitor, control, expired, grace, Flags, local, log, Signals, record, code, faults>>

GracePasses ==
    /\ Alive /\ latch # None /\ ~grace
    /\ grace' = TRUE
    /\ UNCHANGED <<main, monitor, control, expired, age, Flags, local, log, Signals, record, code, faults>>

\* What dying inside a write leaves: the record is there or it is not.
WriteCutShort ==
    \/ UNCHANGED record
    \/ main = "replace" /\ record = Absent /\ record' = Quality
    \/ main = "replace_invalid" /\ record = Absent /\ record' = Invalid(claim, "RUNNER")

\* The journal's lock is taken: by the main thread, or in a step of the monitor.
AppendInProgress == pen = "main" \/ monitor \notin {"off", "ended"}

\* observe_signal, then the previous disposition.  The event is journaled
\* unless the journal's lock is taken: it is then left to the lock's holder,
\* who will not live to write it if the signal kills the process.
SignalArrives(disposition, byCancel) ==
    /\ Alive
    /\ Fault
    /\ signalled' = TRUE
    /\ cancelled' = (cancelled \/ byCancel)
    /\ \/ Log("SIGNAL", None)
       \/ disposition = "die" /\ AppendInProgress /\ UNCHANGED <<journal, broken>>
    /\ CASE disposition = "die" -> Goto("dead") /\ WriteCutShort /\ UNCHANGED <<control, pen>>
         [] disposition = "raise" ->
                /\ Goto(IF main \in Stopping THEN "dead" ELSE "stop")
                /\ WriteCutShort
                /\ lock' = "free" /\ pen' = "free"
                /\ arbiter' = IF lock = "free" \/ main = "starting" THEN arbiter
                              ELSE IF main = "replace" THEN "QUALITY_FAILED" ELSE "INVALID_FAILED"
                /\ UNCHANGED latch
         [] disposition = "ignore" -> UNCHANGED <<main, control, pen, record>>
    /\ code' = IF disposition = "ignore" THEN code ELSE NoCode
    /\ UNCHANGED <<monitor, time, Flags, local>>

\* The runner is killed outright.
Killed(byCancel) ==
    /\ Alive
    /\ Fault
    /\ cancelled' = (cancelled \/ byCancel)
    /\ WriteCutShort
    /\ Goto("dead") /\ code' = NoCode
    /\ UNCHANGED <<monitor, control, time, Flags, local, log, signalled>>

\* Some append fails, of an event modelled or not: no later one is written.
JournalBreaks ==
    /\ Alive /\ ~broken
    /\ Fault
    /\ broken' = TRUE
    /\ UNCHANGED <<main, monitor, control, time, Flags, local, journal, pen, Signals, record, code>>

----------------------------------------------------------------------------
\* The finalize step, which runs whatever became of the execute step.

Finalize ==
    /\ main = "dead"
    /\ record' = Decide(record, Summary(journal), cancelled)
    /\ Goto("final")
    /\ UNCHANGED <<monitor, control, time, Flags, local, log, Signals, code, faults>>

FinalizeFails ==
    /\ main = "dead"
    /\ Fault
    /\ Goto("final")
    /\ UNCHANGED <<monitor, control, time, Flags, local, log, Signals, record, code>>

----------------------------------------------------------------------------
Session ==
    \/ MarkReplacement \/ StartControl \/ CrossBoundary
    \/ BeginCall \/ Register \/ LogRefusal \/ LogStart
    \/ CallReturns \/ CallTimesOut \/ LogTimeout
    \/ (\E survivors \in BOOLEAN : Reap(survivors)) \/ LogFinish
    \/ AbortSession \/ FinishSession \/ Score

Commit ==
    \/ CommitQuality \/ LogEstablished \/ ReplaceQuality \/ ReplaceQualityFails
    \/ QualityWritten \/ WriteFailed
    \/ Raise \/ HandleFailure \/ LogException \/ NoRecord \/ BuildRecord
    \/ CommitInvalid \/ ReplaceInvalid \/ ReplaceInvalidFails \/ InvalidWritten

Leave == StopMonitor \/ Joined \/ Shutdown \/ ShutdownRaises

Environment ==
    \/ Expire \/ CallAges \/ GracePasses \/ JournalBreaks
    \/ \E d \in Dispositions, byCancel \in BOOLEAN : SignalArrives(d, byCancel)
    \/ \E byCancel \in BOOLEAN : Killed(byCancel)

Next ==
    \/ TakeJournal \/ Session \/ Commit \/ Leave
    \/ Monitor \/ Environment \/ Finalize \/ FinalizeFails

Spec == Init /\ [][Next]_vars

\* The monitor thread is scheduled and its clock runs.
MonitorFairness == WF_vars(Monitor) /\ WF_vars(GracePasses)

\* The main thread may hang anywhere, but with one of the two locks in hand:
\* it returns from a registration, from the file write of a commit and from
\* the write of a journal line, for all of which the monitor waits.
AppendReturns ==
    \/ MarkReplacement \/ CrossBoundary \/ LogRefusal \/ LogStart \/ LogTimeout \/ LogFinish
    \/ Score \/ LogEstablished \/ QualityWritten \/ WriteFailed \/ LogException \/ InvalidWritten
CommitReturns == ReplaceQuality \/ ReplaceQualityFails \/ ReplaceInvalid \/ ReplaceInvalidFails
LocksComeBack == WF_vars(Register \/ CommitReturns) /\ WF_vars(AppendReturns)

WatchedSpec == Spec /\ MonitorFairness
SupervisedSpec == WatchedSpec /\ LocksComeBack

----------------------------------------------------------------------------
\* Properties.

\* The deadline-versus-quality race is settled at the atomic replace, once.  A
\* trusted terminal record stands, whatever runner or finalizer do next; quality
\* is written only while no cause is latched, an invalid record of the runner
\* only for the latched cause, or for one of its own while none is latched
\* (write_terminal_atomically, the arbiter's commits, the decision table).
TerminalStands ==
    [][record' # record =>
          /\ record = Absent
          /\ main # "dead" =>
                CASE record'.kind = "QUALITY" -> latch = None
                  [] record'.cause \in LatchCauses -> latch = record'.cause
                  [] OTHER -> latch = None]_vars

\* The first cause wins: it is never replaced, and nothing else is journaled.
FirstCauseWins ==
    /\ \A i \in At(journal, "LATCHED") : journal[i].what = latch
    /\ Cardinality(At(journal, "LATCHED")) <= 1

\* No provider call is registered once a cause is latched, whoever latches it
\* between a call's look at the latch and its registration (deadline_guarded
\* looks and registers under the one lock a trip takes).  A call registered
\* before the cause was latched may still reach its provider.
NoStartAfterLatch == [][latch # None => calls' = calls]_vars

\* What the journal and the exit code claim is true of the disk: the step
\* succeeds only with a quality record in place.
ClaimsBacked ==
    /\ code = 0 => record = Quality
    /\ LastState(journal) = "TERMINAL_EVIDENCE_WRITTEN" => record = Quality
    /\ LastState(journal) = "INVALID_EVIDENCE_WRITTEN" => record.kind = "INFRASTRUCTURE_INVALID"

\* Claims are sound in every state a run can be in.
ClaimsSound == TypeOK /\ ClaimsBacked

\* The recorded cause is the first and the true one.  PRE_PROVIDER_FAILURE is recorded, by
\* runner or finalizer, only when no provider call was ever started.  A deadline
\* or watchdog cause that the finalizer records is the one that was latched, and
\* it was journaled before any signal; a signal that was journaled or cancelled
\* the step is never turned into a cause of the runner's own.
CauseIsTrue ==
    /\ FirstCauseWins
    /\ record.cause = "PRE_PROVIDER_FAILURE" => calls = 0
    /\ record.writer = "FINALIZER" /\ record.cause \in LatchCauses =>
          /\ record.cause = latch
          /\ \E i \in At(journal, "LATCHED") : \A j \in At(journal, "SIGNAL") : i < j
    /\ record.writer = "FINALIZER" /\ record.cause \in RunnerCauses =>
          At(journal, "SIGNAL") = {} /\ ~cancelled

\* Once the session has expired, a runner that hangs is ended by the monitor,
\* unless it reaches its own end: also after a quality record was committed.
\* Only a runner that hangs with a lock in hand is not (LocksComeBack).
Supervised == expired /\ monitor # "off" ~> main \in Stopping
=============================================================================
