----------------------------- MODULE Gate_proofs -----------------------------
(* Theorems about the gate: GateExecution, for any number of provider calls *)
(* and faults and all dispositions of a signal (what the journal and the exit *)
(* code claim is true, the recorded cause is the first and the true one, and  *)
(* a terminal record stands), and GatePublication, for any bounds on looks    *)
(* and any lag; what rests on the listing being less late than the looks are  *)
(* many says so.                                                              *)
EXTENDS GateExecution, GatePublication, FiniteSetTheorems, TLAPS

----------------------------------------------------------------------------
\* The journal only grows.

\* Of the events of each kind, only those of one have become more, by one that
\* says what was logged.
Grown(kind, what) ==
    /\ \A k : k # kind => At(journal', k) = At(journal, k)
    /\ \A k : \A i \in At(journal, k) : journal'[i] = journal[i]
    /\ \/ At(journal', kind) = At(journal, kind)
       \/ \E n : /\ At(journal', kind) = At(journal, kind) \cup {n}
                 /\ journal'[n].what = what
                 /\ \A k : \A i \in At(journal, k) : i < n

LEMMA LogGrows ==
    ASSUME journal \in Seq(Events), NEW kind, NEW what, Event(kind, what) \in Events, Log(kind, what)
    PROVE  journal' \in Seq(Events) /\ broken' = broken /\ Grown(kind, what)
<1> DEFINE e == Event(kind, what)
<1>0. e.kind = kind /\ e.what = what
    BY DEF Event
<1>1. CASE broken
    <2>1. journal' = journal /\ broken' = broken
        BY <1>1 DEF Log
    <2> QED BY <2>1 DEF Grown
<1>2. CASE ~broken
    <2>1. journal' = Append(journal, e) /\ broken' = broken
        BY <1>2 DEF Log
    <2> HIDE DEF e
    <2>2. PICK n \in Nat : n = Len(journal)
        OBVIOUS
    <2>3. /\ DOMAIN journal = 1..n /\ DOMAIN journal' = 1..(n + 1)
          /\ journal'[n + 1] = e /\ \A i \in 1..n : journal'[i] = journal[i]
          /\ journal' \in Seq(Events)
        BY <2>1, <2>2 DEF e
    <2>4. \A k : \A i \in At(journal, k) : i \in 1..n /\ i < n + 1 /\ journal'[i] = journal[i]
        BY <2>3 DEF At
    <2>5. \A k : k # kind => At(journal', k) = At(journal, k)
        BY <1>0, <2>3 DEF At
    <2>6. At(journal', kind) = At(journal, kind) \cup {n + 1}
        BY <1>0, <2>3 DEF At
    <2> QED BY <1>0, <2>1, <2>3, <2>4, <2>5, <2>6 DEF Grown
<1> QED BY <1>1, <1>2

LEMMA EventTypes ==
    /\ \A s \in RunnerStates : Event("STATE", s) \in Events
    /\ \A c \in LatchCauses : Event("LATCHED", c) \in Events
    /\ \A c \in RunnerCauses : Event("EXCEPTION", c) \in Events
    /\ Event("SIGNAL", None) \in Events /\ Event("WRITE_FAILED", None) \in Events
BY DEF Event, Events

\* What an event of a kind may say.
LEMMA EventFacts ==
    ASSUME journal \in Seq(Events)
    PROVE  /\ \A i \in At(journal, "LATCHED") : journal[i].what \in LatchCauses
           /\ \A i \in At(journal, "EXCEPTION") : journal[i].what \in RunnerCauses
           /\ \A k : \A i \in At(journal, k) : i \in Nat
<1>1. \A k : \A i \in At(journal, k) : i \in Nat /\ journal[i] \in Events /\ journal[i].kind = k
    BY DEF At
<1>2. \A e \in Events : /\ e.kind = "LATCHED" => e.what \in LatchCauses
                        /\ e.kind = "EXCEPTION" => e.what \in RunnerCauses
    BY DEF Events
<1> QED BY <1>1, <1>2

\* A state transition is journaled or changes nothing.
LEMMA TransitionGrows ==
    ASSUME journal \in Seq(Events), NEW to \in RunnerStates, Transition(to), state \in RunnerStates
    PROVE  /\ journal' \in Seq(Events) /\ broken' = broken /\ Grown("STATE", to)
           /\ state' \in RunnerStates
<1>1. CASE Allowed(state, to)
    BY <1>1, LogGrows, EventTypes DEF Transition
<1>2. CASE ~Allowed(state, to)
    BY <1>2 DEF Transition, Grown
<1> QED BY <1>1, <1>2

\* The parts of a terminal record.
LEMMA RecordFacts ==
    /\ Absent \in Candidates /\ Quality \in Candidates /\ Unclassified \in Candidates
    /\ \A c \in Causes, w \in {"RUNNER", "FINALIZER"} :
          /\ Invalid(c, w) \in Candidates
          /\ Invalid(c, w).kind = "INFRASTRUCTURE_INVALID"
          /\ Invalid(c, w).cause = c /\ Invalid(c, w).writer = w
          /\ Invalid(c, w) # Absent /\ Invalid(c, w) # Quality
    /\ Absent.kind = "ABSENT" /\ Absent.cause = None /\ Absent.writer = None
    /\ Quality.kind = "QUALITY" /\ Quality.cause = None /\ Quality.writer = "RUNNER"
    /\ Unclassified.kind = "UNCLASSIFIED" /\ Unclassified.cause = None
    /\ Unclassified.writer = "FINALIZER"
    /\ Absent # Quality
<1>1. \A c \in Causes, w \in {"RUNNER", "FINALIZER"} :
          /\ Invalid(c, w).kind = "INFRASTRUCTURE_INVALID"
          /\ Invalid(c, w).cause = c /\ Invalid(c, w).writer = w
    BY DEF Invalid
<1>2. /\ Absent.kind = "ABSENT" /\ Absent.cause = None /\ Absent.writer = None
      /\ Quality.kind = "QUALITY" /\ Quality.cause = None /\ Quality.writer = "RUNNER"
      /\ Unclassified.kind = "UNCLASSIFIED" /\ Unclassified.cause = None
      /\ Unclassified.writer = "FINALIZER"
    BY DEF Absent, Quality, Unclassified
<1>3. /\ Absent \in Candidates /\ Quality \in Candidates /\ Unclassified \in Candidates
      /\ \A c \in Causes, w \in {"RUNNER", "FINALIZER"} : Invalid(c, w) \in Candidates
    BY DEF Candidates
<1> QED BY <1>1, <1>2, <1>3

LEMMA CauseFacts ==
    /\ LatchCauses \subseteq Causes /\ RunnerCauses \subseteq Causes
    /\ None \notin Causes /\ LatchCauses \cap RunnerCauses = {}
    /\ "SESSION_DEADLINE" \in LatchCauses /\ "INVOCATION_STALL_DEADLINE" \in LatchCauses
    /\ "WATCHDOG" \in LatchCauses
    /\ "PRE_PROVIDER_FAILURE" \in RunnerCauses /\ "RUNNER_EXCEPTION" \in RunnerCauses
BY DEF Causes, LatchCauses, RunnerCauses, None

----------------------------------------------------------------------------
\* Who writes what into the journal.

Kept(kind) ==
    /\ At(journal', kind) = At(journal, kind)
    /\ \A i \in At(journal, kind) : journal'[i] = journal[i]

LogsLatched ==
    \/ LogRefusal \/ LogTimeout \/ LogEstablished
    \/ MonitorLogs("latched_deadline", "SESSION_DEADLINE", "check")
    \/ MonitorLogs("latched_watchdog", "WATCHDOG", "escalate")

LogsState == MarkReplacement \/ CrossBoundary \/ Score \/ QualityWritten \/ InvalidWritten

JournalSound == journal \in Seq(Events) /\ broken \in BOOLEAN /\ state \in RunnerStates

\* A logged kind leaves the others as they are.
LEMMA GrownKeeps ==
    ASSUME NEW kind, NEW what, Grown(kind, what), NEW k, k # kind
    PROVE  Kept(k)
BY DEF Grown, Kept

LEMMA SameLogKeeps == ASSUME UNCHANGED <<journal, broken>> PROVE \A k : Kept(k)
BY DEF Kept

\* Transitions are the only steps that write a STATE event, and LogException
\* the only one that writes an EXCEPTION.
LEMMA JournalStep ==
    ASSUME JournalSound, Next, main = "latched_call" => claim \in LatchCauses,
           main = "excepted" => claim \in RunnerCauses
    PROVE  /\ JournalSound'
           /\ Kept("LATCHED") \/ LogsLatched
           /\ Kept("EXCEPTION") \/ LogException
           /\ Kept("STATE") \/ LogsState
<1> DEFINE Goal == /\ JournalSound'
                   /\ Kept("LATCHED") \/ LogsLatched
                   /\ Kept("EXCEPTION") \/ LogException
                   /\ Kept("STATE") \/ LogsState
<1> SUFFICES Goal
    OBVIOUS
<1>1. ASSUME UNCHANGED <<journal, broken>>, UNCHANGED state PROVE Goal
    BY <1>1, SameLogKeeps DEF JournalSound
<1>2. ASSUME NEW to \in RunnerStates, Transition(to), LogsState PROVE Goal
    BY <1>2, TransitionGrows, GrownKeeps DEF JournalSound
<1>3. ASSUME NEW c \in LatchCauses, Log("LATCHED", c), UNCHANGED state, LogsLatched PROVE Goal
    BY <1>3, LogGrows, EventTypes, GrownKeeps DEF JournalSound
<1>4. ASSUME Log("SIGNAL", None) \/ Log("WRITE_FAILED", None), UNCHANGED state PROVE Goal
    BY <1>4, LogGrows, EventTypes, GrownKeeps DEF JournalSound
<1>5. CASE LogException
    BY <1>5, LogGrows, EventTypes, GrownKeeps DEF JournalSound, LogException, Appends, local
<1>6. CASE LogsState
    BY <1>2, <1>6 DEF LogsState, MarkReplacement, CrossBoundary, Score, QualityWritten,
        InvalidWritten, RunnerStates
<1>7. CASE LogsLatched
    BY <1>3, <1>7, CauseFacts DEF LogsLatched, LogRefusal, LogTimeout, LogEstablished, Appends, MonitorLogs, local
<1> HIDE DEF Goal
<1> USE DEF log, local
<1>8. CASE TakeJournal \/ Session
    BY <1>1, <1>6, <1>7, <1>8 DEF TakeJournal, Session, LogsState, LogsLatched, StartControl, BeginCall,
        Register, LogStart, CallReturns, CallTimesOut, Reap, LogFinish, AbortSession, FinishSession
<1>9. CASE Commit
    BY <1>1, <1>4, <1>5, <1>6, <1>7, <1>9 DEF Commit, LogsState, LogsLatched, CommitQuality, ReplaceQuality,
        ReplaceQualityFails, WriteFailed, Raise, HandleFailure, NoRecord, BuildRecord, CommitInvalid,
        ReplaceInvalid, ReplaceInvalidFails
<1>10. CASE Leave
    BY <1>1, <1>10 DEF Leave, StopMonitor, Joined, Shutdown, ShutdownRaises
<1>11. CASE Monitor
    BY <1>1, <1>7, <1>11 DEF Monitor, LogsLatched, MonitorTick, MonitorHeartbeat, MonitorWatch, MonitorCheck,
        MonitorOverrun, MonitorEscalate, MonitorNotify, MonitorExit, MonitorRequest
<1>12. CASE JournalBreaks
    BY <1>12 DEF JournalBreaks, Goal, JournalSound, Kept
<1>13. CASE Environment
    BY <1>1, <1>4, <1>12, <1>13 DEF Environment, Expire, CallAges, GracePasses, SignalArrives, Killed
<1>14. CASE Finalize \/ FinalizeFails
    BY <1>1, <1>14 DEF Finalize, FinalizeFails
<1> QED BY <1>8, <1>9, <1>10, <1>11, <1>13, <1>14 DEF Next, Goal

----------------------------------------------------------------------------
\* The inductive invariant.

\* Where the main thread is inside the session, before a failure has a cause,
\* and before anything is in the terminal file.
Calling == {"session", "starting", "latched_start", "start", "call", "latched_call", "reap", "finish"}
Committing == {"score", "commit", "established", "replace"}
Early == {"mark", "control", "arm", "failing"} \cup Calling \cup Committing
Unwritten == Early \cup {"excepted", "build", "invalid", "replace_invalid"}

\* Where a thread owes the journal the cause it latched.
MainLogs == {"latched_start", "latched_call", "established"}
MonitorLogsAt == {"latched_deadline", "latched_watchdog"}

\* What is in the file, by where the main thread is.
PlaceInv ==
    /\ main \in Unwritten => record = Absent
    /\ main = "written" => record = Quality
    /\ main = "invalid_written" => record.kind = "INFRASTRUCTURE_INVALID"
    /\ record.writer = "FINALIZER" => main = "final"
    /\ code = 0 => record = Quality

\* The cause in hand, and the provider boundary that decides it.
CauseInv ==
    /\ main \in {"established", "build", "invalid", "replace_invalid"} => claim \in Causes
    /\ main = "excepted" => claim \in RunnerCauses
    /\ main \in Calling \cup Committing => crossed
    /\ ~crossed => calls = 0
    /\ main \in Early => claim \notin RunnerCauses
    /\ claim = "PRE_PROVIDER_FAILURE" => calls = 0
    /\ record.cause = "PRE_PROVIDER_FAILURE" => calls = 0
    /\ monitor = "off" =>
          /\ latch = None /\ claim \notin LatchCauses
          /\ main \notin {"arm", "invalid"} \cup Calling \cup Committing

\* While a call is registered or a record written under the lock, the latch is
\* what it was when the one or the other was let through.
DomainInv ==
    /\ main = "starting" => lock = "main" /\ latch = None /\ calls # MaxCalls
    /\ main = "replace" => lock = "main" /\ latch = None
    /\ main = "replace_invalid" =>
          /\ lock = "main" \/ monitor = "off"
          /\ IF claim \in LatchCauses THEN latch = claim ELSE latch = None

\* A thread that owes the journal a cause is the only one, and holds the cause
\* that is latched.
DebtInv ==
    /\ main \in {"latched_start", "established"} => latch = "SESSION_DEADLINE"
    /\ main = "latched_call" => latch = claim /\ claim \in LatchCauses
    /\ monitor = "latched_deadline" => latch = "SESSION_DEADLINE"
    /\ monitor = "latched_watchdog" => latch = "WATCHDOG"
    /\ main \in MainLogs => monitor \notin MonitorLogsAt

\* One LATCHED event at most, of the latched cause, and none while it is owed.
LatchedInv ==
    /\ main \in MainLogs \/ monitor \in MonitorLogsAt => At(journal, "LATCHED") = {}
    /\ \A i \in At(journal, "LATCHED") :
          journal[i].what = latch /\ \A j \in At(journal, "LATCHED") : i = j

\* One EXCEPTION event at most.
ExceptionInv ==
    /\ main \in Early \cup {"excepted"} => At(journal, "EXCEPTION") = {}
    /\ \A i \in At(journal, "EXCEPTION") :
          /\ journal[i].what = "PRE_PROVIDER_FAILURE" => calls = 0
          /\ \A j \in At(journal, "EXCEPTION") : i = j

\* The last state of the journal is there, and true of the file.
StateInv ==
    /\ LastState(journal) = "TERMINAL_EVIDENCE_WRITTEN" => record = Quality
    /\ LastState(journal) = "INVALID_EVIDENCE_WRITTEN" => record.kind = "INFRASTRUCTURE_INVALID"
    /\ \E i \in At(journal, "STATE") : \A j \in At(journal, "STATE") : j <= i

Scalars ==
    /\ main \in MainPcs
    /\ monitor \in MonitorPcs
    /\ lock \in {"free", "main"}
    /\ latch \in LatchCauses \cup {None}
    /\ arbiter \in ArbiterStates
    /\ expired \in BOOLEAN /\ grace \in BOOLEAN
    /\ calls \in 0..MaxCalls
    /\ bound \in BOOLEAN
    /\ age \in {"fresh", "due", "overdue"}
    /\ requested \in BOOLEAN /\ escalated \in BOOLEAN
    /\ claim \in Causes \cup {None}
    /\ crossed \in BOOLEAN
    /\ pen \in {"free", "main"}
    /\ signalled \in BOOLEAN /\ cancelled \in BOOLEAN
    /\ record \in Candidates
    /\ code \in Codes
    /\ faults \in 0..MaxFaults

LEMMA TypeParts == TypeOK <=> Scalars /\ JournalSound
BY DEF TypeOK, Scalars, JournalSound

ControlInv == PlaceInv /\ CauseInv /\ DomainInv /\ DebtInv

\* The steps of each thread keep the places, the cause and the latch in line.
LEMMA SessionControl == ASSUME Scalars, ControlInv, Session PROVE ControlInv'
<1> USE CauseFacts, RecordFacts DEF ControlInv, PlaceInv, CauseInv, DomainInv, DebtInv, Calling,
        Committing, Early, Unwritten, MainLogs, MonitorLogsAt, Goto, control, time, local, Appends
<1>1. CASE MarkReplacement \/ StartControl \/ CrossBoundary
    BY <1>1 DEF MarkReplacement, StartControl, CrossBoundary
<1>2. CASE BeginCall
    <2>1. calls # MaxCalls
        BY <1>2, GateAssumption DEF BeginCall, Scalars
    <2> QED BY <1>2, <2>1 DEF BeginCall, Scalars
<1>3. CASE Register
    BY <1>3 DEF Register
<1>4. CASE CallTimesOut
    BY <1>4 DEF CallTimesOut, Scalars
<1>5. CASE LogRefusal \/ LogStart \/ CallReturns \/ LogTimeout \/ LogFinish
    BY <1>5 DEF LogRefusal, LogStart, CallReturns, LogTimeout, LogFinish
<1>6. CASE \E survivors \in BOOLEAN : Reap(survivors)
    BY <1>6 DEF Reap
<1>7. CASE AbortSession \/ FinishSession \/ Score
    BY <1>7 DEF AbortSession, FinishSession, Score
<1> QED BY <1>1, <1>2, <1>3, <1>4, <1>5, <1>6, <1>7 DEF Session

LEMMA TakeControl == ASSUME ControlInv, TakeJournal PROVE ControlInv'
BY DEF TakeJournal, ControlInv, PlaceInv, CauseInv, DomainInv, DebtInv, control, time, local

LEMMA CommitControl == ASSUME Scalars, ControlInv, Commit PROVE ControlInv'
<1> USE CauseFacts, RecordFacts DEF ControlInv, PlaceInv, CauseInv, DomainInv, DebtInv, Calling,
        Committing, Early, Unwritten, MainLogs, MonitorLogsAt, Goto, control, time, local, Appends
<1>1. CASE CommitQuality
    BY <1>1 DEF CommitQuality, Scalars
<1>2. CASE LogEstablished
    BY <1>2 DEF LogEstablished
<1>3. CASE ReplaceQuality
    BY <1>3 DEF ReplaceQuality
<1>4. CASE ReplaceQualityFails
    BY <1>4 DEF ReplaceQualityFails
<1>5. CASE QualityWritten \/ WriteFailed \/ Raise
    BY <1>5 DEF QualityWritten, WriteFailed, Raise
<1>6. CASE HandleFailure \/ LogException
    BY <1>6 DEF HandleFailure, LogException, FailureCause, Scalars
<1>7. CASE NoRecord \/ BuildRecord
    BY <1>7 DEF NoRecord, BuildRecord
<1>8. CASE CommitInvalid
    BY <1>8 DEF CommitInvalid, InvalidPermitted
<1>9. CASE ReplaceInvalid
    BY <1>9 DEF ReplaceInvalid, AfterReplace
<1>10. CASE ReplaceInvalidFails
    BY <1>10 DEF ReplaceInvalidFails, AfterReplace
<1>11. CASE InvalidWritten
    BY <1>11 DEF InvalidWritten
<1> QED BY <1>1, <1>2, <1>3, <1>4, <1>5, <1>6, <1>7, <1>8, <1>9, <1>10, <1>11 DEF Commit

LEMMA LeaveControl == ASSUME ControlInv, Leave PROVE ControlInv'
<1> USE CauseFacts, RecordFacts DEF ControlInv, PlaceInv, CauseInv, DomainInv, DebtInv, Calling,
        Committing, Early, Unwritten, MainLogs, MonitorLogsAt, Goto, control, time, local
<1> QED BY DEF Leave, StopMonitor, Joined, Shutdown, ShutdownRaises, NoCode

LEMMA MonitorControl == ASSUME Scalars, ControlInv, Monitor PROVE ControlInv'
<1> USE CauseFacts, RecordFacts DEF ControlInv, PlaceInv, CauseInv, DomainInv, DebtInv, Calling,
        Committing, Early, Unwritten, MainLogs, MonitorLogsAt, Goto, control, time, local
<1> USE DEF MonitorAt, MonitorGoto, Unlocked, Alive, Ended
<1>1. CASE MonitorTick \/ MonitorHeartbeat \/ MonitorCheck \/ MonitorRequest
    BY <1>1 DEF MonitorTick, MonitorHeartbeat, MonitorCheck, MonitorRequest
<1>2. CASE MonitorWatch
    BY <1>2 DEF MonitorWatch
<1>3. CASE MonitorOverrun
    BY <1>3 DEF MonitorOverrun
<1>4. CASE \/ MonitorLogs("latched_deadline", "SESSION_DEADLINE", "check")
           \/ MonitorLogs("latched_watchdog", "WATCHDOG", "escalate")
    BY <1>4 DEF MonitorLogs
<1>5. CASE MonitorEscalate \/ MonitorNotify \/ MonitorExit
    BY <1>5 DEF MonitorEscalate, MonitorNotify, MonitorExit
<1> QED BY <1>1, <1>2, <1>3, <1>4, <1>5 DEF Monitor

LEMMA EnvironmentControl == ASSUME Scalars, ControlInv, Environment PROVE ControlInv'
<1> USE CauseFacts, RecordFacts DEF ControlInv, PlaceInv, CauseInv, DomainInv, DebtInv, Calling,
        Committing, Early, Unwritten, MainLogs, MonitorLogsAt, Goto, control, time, local
<1> USE DEF Alive, Ended, Stopping, NoCode
<1>1. CASE Expire \/ CallAges \/ GracePasses \/ JournalBreaks
    BY <1>1 DEF Expire, CallAges, GracePasses, JournalBreaks
<1>2. ASSUME NEW d \in Dispositions, NEW byCancel \in BOOLEAN, SignalArrives(d, byCancel)
      PROVE  ControlInv'
    <2>1. CASE d = "die"
        BY <1>2, <2>1 DEF SignalArrives, WriteCutShort
    <2>2. CASE d = "raise"
        BY <1>2, <2>2 DEF SignalArrives, WriteCutShort
    <2>3. CASE d = "ignore"
        BY <1>2, <2>3 DEF SignalArrives
    <2> QED BY <2>1, <2>2, <2>3, GateAssumption
<1>3. ASSUME NEW byCancel \in BOOLEAN, Killed(byCancel) PROVE ControlInv'
    BY <1>3 DEF Killed, WriteCutShort
<1> QED BY <1>1, <1>2, <1>3 DEF Environment

----------------------------------------------------------------------------
\* The finalizer's decision.

\* An event that is alone among those looked at is the first of them.
LEMMA FirstOfFew ==
    ASSUME NEW S, \A i \in S : \A j \in S : i = j, S \subseteq Nat
    PROVE  /\ S = {} => FirstOf(journal, S) = None
           /\ \A i \in S : FirstOf(journal, S) = journal[i].what
<1>1. \A i \in S : S = {i} /\ (CHOOSE k \in S : \A j \in S : k <= j) = i
    <2> TAKE i \in S
    <2>1. S = {i} /\ i \in Nat
        OBVIOUS
    <2>2. \E k \in S : \A j \in S : k <= j
        BY <2>1
    <2> QED BY <2>1, <2>2
<1> QED BY <1>1 DEF FirstOf

\* A trusted record is kept; an absent one is replaced by what the journal says.
LEMMA DecideSound ==
    ASSUME JournalSound, LatchedInv, ExceptionInv, record \in Candidates,
           NEW decided, decided = Decide(record, Summary(journal), cancelled)
    PROVE  /\ decided \in Candidates
           /\ record # Absent => decided = record
           /\ record = Absent =>
                \/ decided = Unclassified
                \/ \E c \in LatchCauses :
                      /\ decided = Invalid(c, "FINALIZER") /\ c = latch
                      /\ \E i \in At(journal, "LATCHED") : \A j \in At(journal, "SIGNAL") : i < j
                \/ \E c \in RunnerCauses :
                      /\ decided = Invalid(c, "FINALIZER")
                      /\ c = "PRE_PROVIDER_FAILURE" => calls = 0
                      /\ At(journal, "SIGNAL") = {} /\ ~cancelled
<1> DEFINE before == {i \in At(journal, "LATCHED") : \A j \in At(journal, "SIGNAL") : i < j}
           sum == Summary(journal)
<1>1. /\ sum.objective = FirstOf(journal, before)
      /\ sum.exception = FirstOf(journal, At(journal, "EXCEPTION"))
      /\ sum.signal = (At(journal, "SIGNAL") # {})
    BY DEF Summary, Objective
<1>2. /\ \A i \in At(journal, "LATCHED") : journal[i].what \in LatchCauses /\ i \in Nat
      /\ \A i \in At(journal, "EXCEPTION") : journal[i].what \in RunnerCauses /\ i \in Nat
    BY EventFacts DEF JournalSound
<1>3. sum.objective = None \/ \E i \in before : sum.objective = journal[i].what
    <2>1. (\A i \in before : \A j \in before : i = j) /\ before \subseteq Nat
        BY <1>2 DEF LatchedInv
    <2> HIDE DEF before, sum
    <2> QED BY <1>1, <2>1, FirstOfFew
<1>4. sum.exception = None \/ \E i \in At(journal, "EXCEPTION") : sum.exception = journal[i].what
    <2>1. /\ \A i \in At(journal, "EXCEPTION") : \A j \in At(journal, "EXCEPTION") : i = j
          /\ At(journal, "EXCEPTION") \subseteq Nat
        BY <1>2 DEF ExceptionInv
    <2> HIDE DEF sum
    <2> QED BY <1>1, <2>1, FirstOfFew
<1>5. sum.objective # None =>
         /\ sum.objective \in LatchCauses /\ sum.objective = latch
         /\ \E i \in At(journal, "LATCHED") : \A j \in At(journal, "SIGNAL") : i < j
    <2> HIDE DEF sum
    <2> QED BY <1>2, <1>3 DEF LatchedInv
<1>6. sum.exception # None =>
         /\ sum.exception \in RunnerCauses
         /\ sum.exception = "PRE_PROVIDER_FAILURE" => calls = 0
    <2> HIDE DEF sum
    <2> QED BY <1>2, <1>4 DEF ExceptionInv
<1>7. sum.signal = FALSE => At(journal, "SIGNAL") = {}
    BY <1>1
<1> HIDE DEF before, sum
<1>8. \/ record # Absent /\ decided = record
      \/ record = Absent /\ sum.objective # None /\ decided = Invalid(sum.objective, "FINALIZER")
      \/ record = Absent /\ decided = Unclassified
      \/ record = Absent /\ ~(sum.signal \/ cancelled) /\ sum.exception # None
            /\ decided = Invalid(sum.exception, "FINALIZER")
      \/ record = Absent /\ ~(sum.signal \/ cancelled)
            /\ decided = Invalid("RUNNER_EXCEPTION", "FINALIZER")
    BY DEF Decide, sum
<1>9. \/ sum.signal = TRUE \/ sum.signal = FALSE
    BY <1>1
<1> QED BY <1>5, <1>6, <1>7, <1>8, <1>9, CauseFacts, RecordFacts

\* PRE_PROVIDER_FAILURE is decided only when no provider call was started.
LEMMA DecidedEarly ==
    ASSUME Scalars, JournalSound, LatchedInv, ExceptionInv,
           record.cause = "PRE_PROVIDER_FAILURE" => calls = 0
    PROVE  Decide(record, Summary(journal), cancelled).cause = "PRE_PROVIDER_FAILURE" => calls = 0
<1> DEFINE decided == Decide(record, Summary(journal), cancelled)
<1>1. \/ record # Absent /\ decided = record
      \/ record = Absent /\ decided = Unclassified
      \/ \E c \in LatchCauses : decided = Invalid(c, "FINALIZER")
      \/ \E c \in RunnerCauses : /\ decided = Invalid(c, "FINALIZER")
                                 /\ c = "PRE_PROVIDER_FAILURE" => calls = 0
    BY DecideSound DEF Scalars
<1>2. None # "PRE_PROVIDER_FAILURE" /\ \A c \in LatchCauses : c # "PRE_PROVIDER_FAILURE"
    BY CauseFacts
<1>3. \A c \in LatchCauses \cup RunnerCauses : Invalid(c, "FINALIZER").cause = c
    BY RecordFacts, CauseFacts
<1>4. Unclassified.cause = None
    BY RecordFacts
<1> HIDE DEF decided
<1>5. decided.cause = "PRE_PROVIDER_FAILURE" => calls = 0
    BY <1>1, <1>2, <1>3, <1>4
<1> QED BY <1>5 DEF decided

LEMMA FinalControl ==
    ASSUME Scalars, JournalSound, ControlInv, LatchedInv, ExceptionInv, Finalize \/ FinalizeFails
    PROVE  ControlInv'
<1> USE CauseFacts, RecordFacts DEF ControlInv, PlaceInv, CauseInv, DomainInv, DebtInv, Calling,
        Committing, Early, Unwritten, MainLogs, MonitorLogsAt, Goto, control, time, local
<1>1. CASE FinalizeFails
    BY <1>1 DEF FinalizeFails
<1>2. CASE Finalize
    <2> DEFINE decided == Decide(record, Summary(journal), cancelled)
    <2>1. record' = decided /\ main' = "final"
        BY <1>2 DEF Finalize
    <2>2. decided.cause = "PRE_PROVIDER_FAILURE" => calls = 0
        BY DecidedEarly
    <2>3. record # Absent => decided = record
        BY DecideSound DEF Scalars
    <2> HIDE DEF decided
    <2> QED BY <1>2, <2>1, <2>2, <2>3 DEF Finalize
<1> QED BY <1>1, <1>2

----------------------------------------------------------------------------
\* Types.

LEMMA UpToBound ==
    /\ \A n \in 0..MaxCalls : n # MaxCalls => n + 1 \in 0..MaxCalls
    /\ \A n \in 0..MaxFaults : n < MaxFaults => n + 1 \in 0..MaxFaults
BY GateAssumption

LEMMA FaultCounted == ASSUME faults \in 0..MaxFaults, Fault PROVE faults' \in 0..MaxFaults
BY UpToBound DEF Fault

LEMMA ScalarsKept ==
    ASSUME Scalars, JournalSound, ControlInv, LatchedInv, ExceptionInv, Next PROVE Scalars'
<1> USE CauseFacts, RecordFacts DEF Scalars, MainPcs, MonitorPcs, ArbiterStates, Codes, NoCode,
        Stopping, Ended, Goto, control, time, local, log, Flags, Signals, Appends
<1>1. CASE Session
    <2>1. CASE MarkReplacement \/ StartControl \/ CrossBoundary
        BY <2>1 DEF MarkReplacement, StartControl, CrossBoundary
    <2>2. CASE BeginCall \/ LogFinish
        BY <2>2 DEF BeginCall, LogFinish
    <2>3. CASE CallTimesOut
        BY <2>3 DEF CallTimesOut
    <2>4. CASE LogRefusal \/ LogStart \/ CallReturns \/ LogTimeout
        BY <2>4 DEF LogRefusal, LogStart, CallReturns, LogTimeout
    <2>7. CASE Register
        <3>1. calls # MaxCalls
            BY <2>7 DEF Register, ControlInv, DomainInv
        <3> QED BY <2>7, <3>1, UpToBound DEF Register
    <2>5. ASSUME NEW survivors \in BOOLEAN, Reap(survivors) PROVE Scalars'
        BY <2>5 DEF Reap
    <2>6. CASE AbortSession \/ FinishSession \/ Score
        BY <2>6 DEF AbortSession, FinishSession, Score
    <2> QED BY <1>1, <2>1, <2>2, <2>3, <2>4, <2>5, <2>6, <2>7 DEF Session
<1>2. CASE Commit
    <2>1. CASE CommitQuality
        BY <2>1 DEF CommitQuality
    <2>2. CASE LogEstablished \/ QualityWritten \/ WriteFailed \/ InvalidWritten
        BY <2>2 DEF LogEstablished, QualityWritten, WriteFailed, InvalidWritten
    <2>3. CASE ReplaceQuality
        BY <2>3 DEF ReplaceQuality
    <2>4. CASE ReplaceQualityFails
        BY <2>4, FaultCounted DEF ReplaceQualityFails
    <2>5. CASE Raise
        BY <2>5, FaultCounted DEF Raise
    <2>6. CASE HandleFailure \/ LogException
        BY <2>6 DEF HandleFailure, LogException, FailureCause
    <2>7. CASE NoRecord \/ BuildRecord \/ CommitInvalid
        BY <2>7 DEF NoRecord, BuildRecord, CommitInvalid
    <2>8. main = "replace_invalid" => Invalid(claim, "RUNNER") \in Candidates
        BY DEF ControlInv, CauseInv
    <2>9. CASE ReplaceInvalid
        BY <2>8, <2>9 DEF ReplaceInvalid, AfterReplace
    <2>10. CASE ReplaceInvalidFails
        BY <2>8, <2>10, FaultCounted DEF ReplaceInvalidFails, AfterReplace
    <2> QED BY <1>2, <2>1, <2>2, <2>3, <2>4, <2>5, <2>6, <2>7, <2>9, <2>10 DEF Commit
<1>3. CASE Leave
    BY <1>3, FaultCounted DEF Leave, StopMonitor, Joined, Shutdown, ShutdownRaises
<1>4. CASE Monitor
    <2> USE DEF MonitorAt, MonitorGoto
    <2>1. CASE MonitorTick \/ MonitorHeartbeat \/ MonitorCheck \/ MonitorRequest
        BY <2>1 DEF MonitorTick, MonitorHeartbeat, MonitorCheck, MonitorRequest
    <2>2. CASE MonitorWatch \/ MonitorOverrun
        BY <2>2 DEF MonitorWatch, MonitorOverrun
    <2>3. CASE \/ MonitorLogs("latched_deadline", "SESSION_DEADLINE", "check")
               \/ MonitorLogs("latched_watchdog", "WATCHDOG", "escalate")
        BY <2>3 DEF MonitorLogs
    <2>4. CASE MonitorEscalate \/ MonitorNotify \/ MonitorExit
        BY <2>4 DEF MonitorEscalate, MonitorNotify, MonitorExit
    <2> QED BY <1>4, <2>1, <2>2, <2>3, <2>4 DEF Monitor
<1>5. CASE Environment
    <2>0. WriteCutShort => record' \in Candidates
        BY DEF WriteCutShort, ControlInv, CauseInv
    <2>1. CASE Expire \/ CallAges \/ GracePasses
        BY <2>1 DEF Expire, CallAges, GracePasses
    <2>2. CASE JournalBreaks
        BY <2>2, FaultCounted DEF JournalBreaks
    <2>3. ASSUME NEW d \in Dispositions, NEW byCancel \in BOOLEAN, SignalArrives(d, byCancel)
          PROVE  Scalars'
        <3>1. CASE d = "die"
            BY <2>0, <2>3, <3>1, FaultCounted DEF SignalArrives
        <3>2. CASE d = "raise"
            BY <2>0, <2>3, <3>2, FaultCounted DEF SignalArrives
        <3>3. CASE d = "ignore"
            BY <2>3, <3>3, FaultCounted DEF SignalArrives
        <3> QED BY <3>1, <3>2, <3>3, GateAssumption
    <2>4. ASSUME NEW byCancel \in BOOLEAN, Killed(byCancel) PROVE Scalars'
        BY <2>0, <2>4, FaultCounted DEF Killed
    <2> QED BY <1>5, <2>1, <2>2, <2>3, <2>4 DEF Environment
<1>6. CASE Finalize
    <2>1. Decide(record, Summary(journal), cancelled) \in Candidates
        BY DecideSound
    <2> QED BY <1>6, <2>1 DEF Finalize
<1>7. CASE FinalizeFails
    BY <1>7, FaultCounted DEF FinalizeFails
<1>8. CASE TakeJournal
    BY <1>8 DEF TakeJournal
<1> QED BY <1>1, <1>2, <1>3, <1>4, <1>5, <1>6, <1>7, <1>8 DEF Next

----------------------------------------------------------------------------
\* What one step may change.

\* A latched cause stays, and only a trip of the open latch owes the journal one.
LEMMA TripsOnce ==
    ASSUME Scalars, ControlInv, Next
    PROVE  /\ latch' = latch \/ latch = None
           /\ main' \in MainLogs => main \in MainLogs \/ latch = None
           /\ monitor' \in MonitorLogsAt => monitor \in MonitorLogsAt \/ latch = None
<1> USE DEF Goto, control, time, MainLogs, MonitorLogsAt, Appends
<1>1. CASE Session
    BY <1>1 DEF Session, MarkReplacement, StartControl, CrossBoundary, BeginCall, Register, LogRefusal,
        LogStart, CallReturns, CallTimesOut, LogTimeout, Reap, LogFinish, AbortSession, FinishSession, Score
<1>2. CASE Commit
    BY <1>2 DEF Commit, CommitQuality, LogEstablished, ReplaceQuality, ReplaceQualityFails,
        QualityWritten, WriteFailed, Raise, HandleFailure, LogException, NoRecord, BuildRecord, CommitInvalid,
        ReplaceInvalid, ReplaceInvalidFails, InvalidWritten
<1>3. CASE Leave
    BY <1>3 DEF Leave, StopMonitor, Joined, Shutdown, ShutdownRaises
<1>4. CASE Monitor
    BY <1>4 DEF Monitor, MonitorTick, MonitorHeartbeat, MonitorWatch, MonitorCheck, MonitorOverrun,
        MonitorLogs, MonitorEscalate, MonitorNotify, MonitorExit, MonitorRequest, MonitorAt, MonitorGoto
<1>5. CASE Environment
    BY <1>5, GateAssumption DEF Environment, Expire, CallAges, GracePasses, JournalBreaks,
        SignalArrives, Killed
<1>6. CASE TakeJournal \/ Finalize \/ FinalizeFails
    BY <1>6 DEF TakeJournal, Finalize, FinalizeFails
<1> QED BY <1>1, <1>2, <1>3, <1>4, <1>5, <1>6 DEF Next

\* The runner does not come back from where it has a cause or a record, and
\* calls are registered in one place only, with nothing latched.
LEMMA CallsInSession ==
    ASSUME Scalars, ControlInv, Next
    PROVE  /\ main' \in Early => main \in Early
           /\ main' = "excepted" => main \in Early \cup {"excepted"}
           /\ calls' = calls \/ (main = "starting" /\ latch = None)
<1> USE DEF Goto, control, time, local, Early, Calling, Committing, Appends
<1>1. CASE Session
    BY <1>1 DEF Session, MarkReplacement, StartControl, CrossBoundary, BeginCall, Register, LogRefusal,
        LogStart, CallReturns, CallTimesOut, LogTimeout, Reap, LogFinish, AbortSession, FinishSession, Score,
        ControlInv, DomainInv
<1>2. CASE Commit
    BY <1>2 DEF Commit, CommitQuality, LogEstablished, ReplaceQuality, ReplaceQualityFails,
        QualityWritten, WriteFailed, Raise, HandleFailure, LogException, NoRecord, BuildRecord, CommitInvalid,
        ReplaceInvalid, ReplaceInvalidFails, InvalidWritten
<1>3. CASE Leave
    BY <1>3 DEF Leave, StopMonitor, Joined, Shutdown, ShutdownRaises
<1>4. CASE Monitor
    BY <1>4 DEF Monitor, MonitorTick, MonitorHeartbeat, MonitorWatch, MonitorCheck, MonitorOverrun,
        MonitorLogs, MonitorEscalate, MonitorNotify, MonitorExit, MonitorRequest
<1>5. CASE Environment
    BY <1>5, GateAssumption DEF Environment, Expire, CallAges, GracePasses, JournalBreaks,
        SignalArrives, Killed
<1>6. CASE TakeJournal \/ Finalize \/ FinalizeFails
    BY <1>6 DEF TakeJournal, Finalize, FinalizeFails
<1> QED BY <1>1, <1>2, <1>3, <1>4, <1>5, <1>6 DEF Next

\* The terminal file changes once, from nothing; while the runner lives, to
\* quality with nothing latched, or to an invalid record of the latched cause,
\* or of a cause of its own with nothing latched.
WrittenOnce ==
    record' # record =>
        /\ record = Absent
        /\ main # "dead" =>
              CASE record'.kind = "QUALITY" -> latch = None
                [] record'.cause \in LatchCauses -> latch = record'.cause
                [] OTHER -> latch = None

LEMMA WrittenOnceHolds ==
    ASSUME Scalars, JournalSound, ControlInv, LatchedInv, ExceptionInv, Next PROVE WrittenOnce
<1>1. record = Absent /\ main = "replace" /\ record' = Quality => WrittenOnce
    BY RecordFacts, CauseFacts DEF WrittenOnce, ControlInv, DomainInv
<1>2. record = Absent /\ main = "replace_invalid" /\ record' = Invalid(claim, "RUNNER") => WrittenOnce
    BY RecordFacts, CauseFacts DEF WrittenOnce, ControlInv, CauseInv, DomainInv
<1>3. record' = record => WrittenOnce
    BY DEF WrittenOnce
<1>4. WriteCutShort => WrittenOnce
    BY <1>1, <1>2, <1>3 DEF WriteCutShort
<1>5. CASE Session
    BY <1>3, <1>5 DEF Session, MarkReplacement, StartControl, CrossBoundary, BeginCall, Register, LogRefusal,
        LogStart, CallReturns, CallTimesOut, LogTimeout, Reap, LogFinish, AbortSession, FinishSession, Score
<1>6. CASE Commit
    <2>1. CASE ReplaceQuality
        BY <1>1, <2>1 DEF ReplaceQuality
    <2>2. CASE ReplaceQualityFails
        BY <1>1, <1>3, <2>2 DEF ReplaceQualityFails, ControlInv, PlaceInv, Unwritten, Early, Committing
    <2>3. CASE ReplaceInvalid
        BY <1>2, <2>3 DEF ReplaceInvalid
    <2>4. CASE ReplaceInvalidFails
        BY <1>2, <1>3, <2>4 DEF ReplaceInvalidFails, ControlInv, PlaceInv, Unwritten
    <2> QED BY <1>3, <1>6, <2>1, <2>2, <2>3, <2>4 DEF Commit, CommitQuality, LogEstablished,
            QualityWritten, WriteFailed, Raise, HandleFailure, LogException, NoRecord, BuildRecord, CommitInvalid,
            InvalidWritten
<1>7. CASE Leave
    BY <1>3, <1>7 DEF Leave, StopMonitor, Joined, Shutdown, ShutdownRaises
<1>8. CASE Monitor
    BY <1>3, <1>8 DEF Monitor, MonitorTick, MonitorHeartbeat, MonitorWatch, MonitorCheck, MonitorOverrun,
        MonitorLogs, MonitorEscalate, MonitorNotify, MonitorExit, MonitorRequest
<1>9. CASE Environment
    BY <1>3, <1>4, <1>9, GateAssumption DEF Environment, Expire, CallAges, GracePasses, JournalBreaks,
        SignalArrives, Killed
<1>10. CASE Finalize
    <2>1. record # Absent => record' = record
        BY <1>10, DecideSound DEF Finalize, Scalars
    <2>2. main = "dead"
        BY <1>10 DEF Finalize
    <2> QED BY <2>1, <2>2 DEF WrittenOnce
<1>11. CASE TakeJournal \/ FinalizeFails
    BY <1>3, <1>11 DEF TakeJournal, FinalizeFails
<1> QED BY <1>5, <1>6, <1>7, <1>8, <1>9, <1>10, <1>11 DEF Next

----------------------------------------------------------------------------
\* The journal's part of the invariant.

LEMMA LatchedKept ==
    ASSUME Scalars, JournalSound, ControlInv, LatchedInv, Next PROVE LatchedInv'
<1>1. latch = None => At(journal, "LATCHED") = {}
    BY EventFacts, CauseFacts DEF LatchedInv, JournalSound
<1>2. CASE Kept("LATCHED")
    BY <1>1, <1>2, TripsOnce DEF LatchedInv, Kept
<1>3. CASE LogsLatched
    <2>1. PICK c \in LatchCauses : Log("LATCHED", c) /\ c = latch
        BY <1>3, CauseFacts DEF LogsLatched, LogRefusal, LogTimeout, LogEstablished, Appends, MonitorLogs,
            MonitorAt, ControlInv, DebtInv
    <2>2. latch' = latch /\ main' \notin MainLogs /\ monitor' \notin MonitorLogsAt
        BY <1>3 DEF LogsLatched, LogRefusal, LogTimeout, LogEstablished, Appends, MonitorLogs, MonitorAt,
            MonitorGoto, Goto, control, ControlInv, DebtInv, MainLogs, MonitorLogsAt
    <2>3. At(journal, "LATCHED") = {}
        BY <1>3 DEF LogsLatched, LogRefusal, LogTimeout, LogEstablished, Appends, MonitorLogs, MonitorAt,
            LatchedInv, MainLogs, MonitorLogsAt
    <2>4. Grown("LATCHED", c)
        BY <2>1, LogGrows, EventTypes DEF JournalSound
    <2> QED BY <2>1, <2>2, <2>3, <2>4 DEF Grown, LatchedInv
<1>4. (main = "latched_call" => claim \in LatchCauses) /\ (main = "excepted" => claim \in RunnerCauses)
    BY DEF ControlInv, CauseInv, DebtInv
<1> QED BY <1>2, <1>3, <1>4, JournalStep

LEMMA ExceptionKept ==
    ASSUME Scalars, JournalSound, ControlInv, ExceptionInv, Next PROVE ExceptionInv'
<1>1. CASE Kept("EXCEPTION")
    <2>1. main = "starting" => At(journal, "EXCEPTION") = {}
        BY DEF ExceptionInv, Early, Calling
    <2> QED BY <1>1, <2>1, CallsInSession DEF ExceptionInv, Kept
<1>2. CASE LogException
    <2>1. claim \in RunnerCauses /\ Log("EXCEPTION", claim)
        BY <1>2 DEF LogException, Appends, ControlInv, CauseInv
    <2>2. claim = "PRE_PROVIDER_FAILURE" => calls = 0
        BY DEF ControlInv, CauseInv
    <2>3. At(journal, "EXCEPTION") = {} /\ main' \notin Early \cup {"excepted"} /\ calls' = calls
        BY <1>2 DEF LogException, Appends, local, Goto, ExceptionInv, Early, Calling, Committing
    <2>4. Grown("EXCEPTION", claim)
        BY <2>1, LogGrows, EventTypes DEF JournalSound
    <2> QED BY <2>2, <2>3, <2>4 DEF Grown, ExceptionInv
<1>3. (main = "latched_call" => claim \in LatchCauses) /\ (main = "excepted" => claim \in RunnerCauses)
    BY DEF ControlInv, CauseInv, DebtInv
<1> QED BY <1>1, <1>2, <1>3, JournalStep

HasLast == \E i \in At(journal, "STATE") : \A j \in At(journal, "STATE") : j <= i

LastOf(S) == CHOOSE i \in S : \A j \in S : j <= i

LEMMA LastOfGrown ==
    ASSUME NEW S, NEW n, S \cup {n} \subseteq Nat, \A i \in S : i < n
    PROVE  (\A j \in S \cup {n} : j <= n) /\ LastOf(S \cup {n}) = n
<1> DEFINE T == S \cup {n}
<1>1. n \in T /\ T \subseteq Nat
    OBVIOUS
<1>2. \A j \in T : j <= n
    OBVIOUS
<1>3. \A i \in T : (\A j \in T : j <= i) => i = n
    OBVIOUS
<1> HIDE DEF T
<1>4. LastOf(T) \in T /\ \A j \in T : j <= LastOf(T)
    BY <1>1, <1>2 DEF LastOf
<1> QED BY <1>2, <1>3, <1>4 DEF T

\* The last state is the old one, or the one that was logged.
LEMMA LastStateStep ==
    ASSUME JournalSound, JournalSound', HasLast, NEW to, Kept("STATE") \/ Grown("STATE", to)
    PROVE  /\ HasLast'
           /\ \/ LastState(journal') = LastState(journal)
              \/ Grown("STATE", to) /\ LastState(journal') = to
<1> DEFINE S == At(journal, "STATE")
           T == At(journal', "STATE")
<1>1. LastOf(S) \in S
    BY DEF HasLast, LastOf
<1>2. /\ S # {} => LastState(journal) = journal[LastOf(S)].what
      /\ T # {} => LastState(journal') = journal'[LastOf(T)].what
    BY DEF LastState, LastOf
<1>3. CASE T = S /\ \A i \in S : journal'[i] = journal[i]
    <2>1. HasLast'
        BY <1>3 DEF HasLast
    <2> HIDE DEF S, T
    <2> QED BY <1>1, <1>2, <1>3, <2>1
<1>4. CASE T # S
    <2>1. PICK n : T = S \cup {n} /\ journal'[n].what = to /\ \A i \in S : i < n
        BY <1>4 DEF Kept, Grown
    <2>2. Grown("STATE", to)
        BY <1>4 DEF Kept
    <2>3. T \subseteq Nat
        <3>1. \A i \in DOMAIN journal' : i \in Nat
            BY DEF JournalSound
        <3> QED BY <3>1 DEF At
    <2>4. (\A j \in T : j <= n) /\ LastOf(T) = n /\ n \in T
        <3> HIDE DEF S, T
        <3> QED BY <2>1, <2>3, LastOfGrown
    <2>5. HasLast'
        BY <2>4 DEF HasLast
    <2> HIDE DEF S, T
    <2> QED BY <1>2, <2>1, <2>2, <2>4, <2>5
<1> QED BY <1>3, <1>4 DEF Kept, Grown

LEMMA StateKept ==
    ASSUME Scalars, JournalSound, JournalSound', ControlInv, StateInv, WrittenOnce, Next
    PROVE  StateInv'
<1>1. /\ record = Quality => record' = Quality
      /\ record.kind = "INFRASTRUCTURE_INVALID" => record'.kind = "INFRASTRUCTURE_INVALID"
    BY RecordFacts DEF WrittenOnce
<1>2. HasLast
    BY DEF HasLast, StateInv
<1>3. CASE HasLast' /\ LastState(journal') = LastState(journal)
    BY <1>1, <1>3 DEF StateInv, HasLast
<1>4. ASSUME NEW to \in RunnerStates, Transition(to),
             to = "TERMINAL_EVIDENCE_WRITTEN" => record' = Quality,
             to = "INVALID_EVIDENCE_WRITTEN" => record'.kind = "INFRASTRUCTURE_INVALID"
      PROVE  StateInv'
    <2>1. Grown("STATE", to)
        BY <1>4, TransitionGrows DEF JournalSound
    <2>2. HasLast' /\ (LastState(journal') = LastState(journal) \/ LastState(journal') = to)
        BY <1>2, <2>1, LastStateStep
    <2>3. CASE LastState(journal') = to /\ HasLast'
        BY <1>4, <2>3 DEF StateInv, HasLast
    <2> QED BY <1>3, <2>2, <2>3
<1>5. CASE Kept("STATE")
    BY <1>2, <1>3, <1>5, LastStateStep
<1>6. CASE LogsState
    <2>1. CASE MarkReplacement \/ CrossBoundary \/ Score
        BY <1>4, <2>1 DEF MarkReplacement, CrossBoundary, Score, RunnerStates
    <2>2. CASE QualityWritten
        BY <1>4, <2>2 DEF QualityWritten, Appends, RunnerStates, ControlInv, PlaceInv
    <2>3. CASE InvalidWritten
        BY <1>4, <2>3 DEF InvalidWritten, Appends, RunnerStates, ControlInv, PlaceInv
    <2> QED BY <1>6, <2>1, <2>2, <2>3 DEF LogsState
<1>7. (main = "latched_call" => claim \in LatchCauses) /\ (main = "excepted" => claim \in RunnerCauses)
    BY DEF ControlInv, CauseInv, DebtInv
<1> QED BY <1>5, <1>6, <1>7, JournalStep

----------------------------------------------------------------------------
\* The finalizer's record.

\* A deadline or watchdog cause it records was latched, and journaled before any
\* signal; a cause of the runner's own it records came without one.
FinalInv ==
    /\ record.writer = "FINALIZER" /\ record.cause \in LatchCauses =>
          /\ record.cause = latch
          /\ \E i \in At(journal, "LATCHED") : \A j \in At(journal, "SIGNAL") : i < j
    /\ record.writer = "FINALIZER" /\ record.cause \in RunnerCauses =>
          At(journal, "SIGNAL") = {} /\ ~cancelled

\* The step that finalizes is the last one.
LEMMA FinalIsLast ==
    ASSUME Next PROVE main # "final" /\ (main' = "final" => Finalize \/ FinalizeFails)
<1> USE DEF Goto, control, time, local, Ended, Stopping, Alive, Appends
<1>1. CASE Session
    BY <1>1 DEF Session, MarkReplacement, StartControl, CrossBoundary, BeginCall, Register, LogRefusal,
        LogStart, CallReturns, CallTimesOut, LogTimeout, Reap, LogFinish, AbortSession, FinishSession, Score
<1>2. CASE Commit
    BY <1>2 DEF Commit, CommitQuality, LogEstablished, ReplaceQuality, ReplaceQualityFails,
        QualityWritten, WriteFailed, Raise, HandleFailure, LogException, NoRecord, BuildRecord, CommitInvalid,
        ReplaceInvalid, ReplaceInvalidFails, InvalidWritten
<1>3. CASE Leave
    BY <1>3 DEF Leave, StopMonitor, Joined, Shutdown, ShutdownRaises
<1>4. CASE Monitor
    BY <1>4 DEF Monitor, MonitorTick, MonitorHeartbeat, MonitorWatch, MonitorCheck, MonitorOverrun,
        MonitorLogs, MonitorEscalate, MonitorNotify, MonitorExit, MonitorRequest, MonitorAt
<1>5. CASE Environment
    <2>1. CASE Expire \/ CallAges \/ GracePasses \/ JournalBreaks
        BY <2>1 DEF Expire, CallAges, GracePasses, JournalBreaks
    <2>2. ASSUME NEW d \in Dispositions, NEW byCancel \in BOOLEAN, SignalArrives(d, byCancel)
          PROVE  main # "final" /\ main' # "final"
        BY <2>2, GateAssumption DEF SignalArrives
    <2>3. ASSUME NEW byCancel \in BOOLEAN, Killed(byCancel) PROVE main # "final" /\ main' # "final"
        BY <2>3 DEF Killed
    <2> QED BY <1>5, <2>1, <2>2, <2>3 DEF Environment
<1>6. CASE TakeJournal \/ Finalize \/ FinalizeFails
    BY <1>6 DEF TakeJournal, Appending, Finalize, FinalizeFails
<1> QED BY <1>1, <1>2, <1>3, <1>4, <1>5, <1>6 DEF Next

LEMMA FinalKept ==
    ASSUME Scalars, JournalSound, ControlInv, ControlInv', LatchedInv, ExceptionInv, Next
    PROVE  FinalInv'
<1> SUFFICES ASSUME record'.writer = "FINALIZER" PROVE FinalInv'
    BY DEF FinalInv
<1>1. Finalize \/ FinalizeFails
    BY FinalIsLast DEF ControlInv, PlaceInv
<1>2. record.writer # "FINALIZER"
    BY FinalIsLast DEF ControlInv, PlaceInv
<1>3. Finalize
    BY <1>1, <1>2 DEF FinalizeFails
<1>4. UNCHANGED <<journal, latch, cancelled>> /\ record' = Decide(record, Summary(journal), cancelled)
    BY <1>3 DEF Finalize, log, control, Signals
<1>5. \/ record'.cause = None
      \/ /\ record'.cause \in LatchCauses /\ record'.cause = latch
         /\ \E i \in At(journal, "LATCHED") : \A j \in At(journal, "SIGNAL") : i < j
      \/ record'.cause \in RunnerCauses /\ At(journal, "SIGNAL") = {} /\ ~cancelled
    <2>1. record # Absent => record' = record
        BY <1>4, DecideSound DEF Scalars
    <2>2. record = Absent
        BY <1>2, <2>1
    <2>3. \/ record' = Unclassified
          \/ \E c \in LatchCauses :
                /\ record' = Invalid(c, "FINALIZER") /\ c = latch
                /\ \E i \in At(journal, "LATCHED") : \A j \in At(journal, "SIGNAL") : i < j
          \/ \E c \in RunnerCauses :
                /\ record' = Invalid(c, "FINALIZER")
                /\ At(journal, "SIGNAL") = {} /\ ~cancelled
        BY <1>4, <2>2, DecideSound DEF Scalars
    <2> QED BY <2>3, RecordFacts, CauseFacts
<1> QED BY <1>4, <1>5, CauseFacts DEF FinalInv

----------------------------------------------------------------------------
\* The invariant holds, and what it says.

GateInv ==
    /\ Scalars /\ JournalSound
    /\ ControlInv
    /\ LatchedInv /\ ExceptionInv /\ StateInv
    /\ FinalInv

LEMMA GateInit == Init => GateInv
<1> SUFFICES ASSUME Init PROVE GateInv
    OBVIOUS
<1>0. /\ main = "mark" /\ monitor = "off" /\ lock = "free" /\ latch = None /\ arbiter = "NONE"
      /\ expired = FALSE /\ grace = FALSE /\ calls = 0 /\ bound = FALSE /\ age = "fresh"
      /\ requested = FALSE /\ escalated = FALSE /\ claim = None /\ crossed = FALSE
      /\ signalled = FALSE /\ cancelled = FALSE /\ record = Absent /\ code = NoCode /\ faults = 0
      /\ pen = "free"
    BY DEF Init
<1>1. Scalars
    <2>1. calls \in 0..MaxCalls /\ faults \in 0..MaxFaults
        BY <1>0, GateAssumption
    <2> QED BY <1>0, <2>1, RecordFacts DEF Scalars, MainPcs, MonitorPcs, ArbiterStates, Codes
<1>2. JournalSound
    <2>1. \A e \in Events : <<e>> \in Seq(Events)
        OBVIOUS
    <2>2. state \in RunnerStates /\ broken = FALSE
        BY DEF Init, RunnerStates
    <2>3. journal = <<Event("STATE", "PREFLIGHTED")>> /\ state = "PREFLIGHTED"
        BY DEF Init
    <2> QED BY <2>1, <2>2, <2>3, EventTypes DEF JournalSound
<1>3. ControlInv
    BY <1>0, RecordFacts, CauseFacts DEF ControlInv, PlaceInv, CauseInv, DomainInv, DebtInv, NoCode,
        Calling, Committing, Early, MainLogs, None
<1>4. DOMAIN journal = {1} /\ journal[1].kind = "STATE" /\ journal[1].what = "PREFLIGHTED"
    BY DEF Init, Event
<1>5. /\ At(journal, "STATE") = {1}
      /\ At(journal, "LATCHED") = {} /\ At(journal, "EXCEPTION") = {} /\ At(journal, "SIGNAL") = {}
    BY <1>4 DEF At
<1>6. LatchedInv /\ ExceptionInv
    BY <1>5 DEF LatchedInv, ExceptionInv
<1>7. StateInv
    <2>1. LastState(journal) = journal[LastOf({1})].what
        BY <1>5 DEF LastState, LastOf
    <2>2. LastOf({1}) = 1
        BY DEF LastOf
    <2> QED BY <1>4, <1>5, <2>1, <2>2 DEF StateInv
<1>8. FinalInv
    BY RecordFacts DEF Init, FinalInv, None
<1> QED BY <1>1, <1>2, <1>3, <1>6, <1>7, <1>8 DEF GateInv

LEMMA GateStep == GateInv /\ [Next]_vars => GateInv'
<1> SUFFICES ASSUME GateInv, [Next]_vars PROVE GateInv'
    OBVIOUS
<1>1. CASE Next
    <2> USE <1>1 DEF GateInv
    <2>1. Scalars'
        BY ScalarsKept
    <2>2. JournalSound'
        BY JournalStep DEF ControlInv, CauseInv, DebtInv
    <2>3. ControlInv'
        BY SessionControl, CommitControl, LeaveControl, MonitorControl, EnvironmentControl,
            FinalControl, TakeControl DEF Next
    <2>4. LatchedInv' /\ ExceptionInv'
        BY LatchedKept, ExceptionKept
    <2>5. StateInv'
        BY <2>2, WrittenOnceHolds, StateKept
    <2>6. FinalInv'
        BY <2>3, FinalKept
    <2> QED BY <2>1, <2>2, <2>3, <2>4, <2>5, <2>6
<1>2. CASE UNCHANGED vars
    <2> USE <1>2 DEF vars, control, time, log, local
    <2>1. Scalars' /\ JournalSound'
        BY DEF GateInv, Scalars, JournalSound
    <2>2. ControlInv'
        BY DEF GateInv, ControlInv, PlaceInv, CauseInv, DomainInv, DebtInv
    <2>3. LatchedInv' /\ ExceptionInv' /\ StateInv' /\ FinalInv'
        BY DEF GateInv, LatchedInv, ExceptionInv, StateInv, FinalInv
    <2> QED BY <2>1, <2>2, <2>3 DEF GateInv
<1> QED BY <1>1, <1>2

\* Every state of the execute and finalize steps is one of the invariant.
THEOREM GateSound == Spec => []GateInv
BY GateInit, GateStep, PTL DEF Spec

\* Types hold, and what journal and exit code claim is true of the disk: the
\* step exits with 0, or journals its evidence as written, only with that
\* record in place (commit_quality, commit_invalid, _JournalStateTracker).
THEOREM ClaimsAreSound == Spec => []ClaimsSound
<1>1. GateInv => ClaimsSound
    BY TypeParts DEF GateInv, ControlInv, PlaceInv, StateInv, ClaimsSound, ClaimsBacked
<1> QED BY <1>1, GateSound, PTL

\* The recorded cause is the first and the true one: one cause is latched and
\* journaled at most, PRE_PROVIDER_FAILURE is recorded only when no provider
\* call was started, and the finalizer records a deadline only when it was
\* latched and journaled before any signal, a runner's own failure only when
\* there was no signal (SessionLatch.trip, decide_terminal_disposition).
THEOREM CausesAreTrue == Spec => []CauseIsTrue
<1>1. GateInv => CauseIsTrue
    <2> SUFFICES ASSUME GateInv PROVE CauseIsTrue
        OBVIOUS
    <2>1. At(journal, "LATCHED") = {} \/ \E i : At(journal, "LATCHED") = {i}
        BY DEF GateInv, LatchedInv
    <2>2. Cardinality(At(journal, "LATCHED")) <= 1
        BY <2>1, FS_EmptySet, FS_Singleton
    <2>3. FirstCauseWins
        BY <2>2 DEF GateInv, LatchedInv, FirstCauseWins
    <2>4. record.cause = "PRE_PROVIDER_FAILURE" => calls = 0
        BY DEF GateInv, ControlInv, CauseInv
    <2> QED BY <2>3, <2>4 DEF GateInv, FinalInv, CauseIsTrue
<1> QED BY <1>1, GateSound, PTL

\* A trusted terminal record stands, and the race of deadline against quality is
\* settled at the atomic replace: quality is written only while no cause is
\* latched, an invalid record of the runner only for the latched cause, or for
\* one of its own while none is (TerminalArbiter's commits).
THEOREM RecordStands == Spec => TerminalStands
<1>1. GateInv /\ [Next]_vars =>
        [record' # record =>
             /\ record = Absent
             /\ main # "dead" =>
                   CASE record'.kind = "QUALITY" -> latch = None
                     [] record'.cause \in LatchCauses -> latch = record'.cause
                     [] OTHER -> latch = None]_vars
    BY WrittenOnceHolds DEF GateInv, WrittenOnce
<1> QED BY <1>1, GateSound, PTL DEF Spec, TerminalStands

\* No provider call is registered once a cause is latched: from the look at latch
\* and clock to the registration the lock is kept, and whoever trips the latch
\* waits for it (deadline_guarded, SessionLatch.trip).
THEOREM LatchStopsCalls == Spec => NoStartAfterLatch
<1>1. GateInv /\ [Next]_vars => [latch # None => calls' = calls]_vars
    BY CallsInSession DEF GateInv
<1> QED BY <1>1, GateSound, PTL DEF Spec, NoStartAfterLatch

----------------------------------------------------------------------------
\* What the finalizer writes.

\* A journal's first event of a set of one kind has a cause of that kind.
LEMMA JournalCauses ==
    ASSUME runnerJournal \in Journals \cup {<<>>}
    PROVE  /\ Objective(runnerJournal) \in Causes \cup {None}
           /\ FirstOf(runnerJournal, At(runnerJournal, "EXCEPTION")) \in Causes \cup {None}
<1> DEFINE latched == {i \in At(runnerJournal, "LATCHED") : \A j \in At(runnerJournal, "SIGNAL") : i < j}
<1> USE DEF At, Event, FirstOf, Objective, Causes, LatchCauses, RunnerCauses, None
<1>1. CASE runnerJournal = <<>>
    <2>1. latched = {} /\ At(runnerJournal, "EXCEPTION") = {}
        BY <1>1
    <2> QED BY <2>1
<1>2. CASE runnerJournal = <<Event("STATE", "EXECUTING")>>
    <2>1. latched = {} /\ At(runnerJournal, "EXCEPTION") = {}
        BY <1>2
    <2> QED BY <2>1
<1>3. CASE runnerJournal = <<Event("STATE", "EXECUTING"), Event("LATCHED", "SESSION_DEADLINE")>>
    <2>1. latched = {2} /\ At(runnerJournal, "EXCEPTION") = {}
        BY <1>3
    <2>2. (CHOOSE i \in {2} : \A j \in {2} : i <= j) = 2
        OBVIOUS
    <2> QED BY <1>3, <2>1, <2>2
<1>4. CASE runnerJournal = <<Event("STATE", "EXECUTING"), Event("SIGNAL", None),
                       Event("EXCEPTION", "RUNNER_EXCEPTION")>>
    <2>1. latched = {} /\ At(runnerJournal, "EXCEPTION") = {3}
        BY <1>4
    <2>2. (CHOOSE i \in {3} : \A j \in {3} : i <= j) = 3
        OBVIOUS
    <2> QED BY <1>4, <2>1, <2>2
<1>5. CASE runnerJournal = <<Event("STATE", "EXECUTING"), Event("WRITE_FAILED", None)>>
    <2>1. latched = {} /\ At(runnerJournal, "EXCEPTION") = {}
        BY <1>5
    <2> QED BY <2>1
<1> QED BY <1>1, <1>2, <1>3, <1>4, <1>5 DEF Journals

\* What the finalizer writes is a trusted record, and never a quality record.
LEMMA RewrittenIsInvalid ==
    ASSUME runnerJournal \in Journals \cup {<<>>}, NEW c
    PROVE  /\ Rewritten(c) \in Candidates
           /\ Trusted(Rewritten(c))
           /\ Rewritten(c) # Quality
<1>1. \/ Rewritten(c) = Unclassified
      \/ \E cause \in Causes : Rewritten(c) = Invalid(cause, "FINALIZER")
    BY JournalCauses DEF Rewritten, Decide, Summary, Causes, RunnerCauses
<1>2. Unclassified \in Candidates /\ Trusted(Unclassified) /\ Unclassified # Quality
    BY DEF Candidates, Trusted, Unclassified, Quality
<1>3. ASSUME NEW cause \in Causes
      PROVE  LET r == Invalid(cause, "FINALIZER")
             IN  r \in Candidates /\ Trusted(r) /\ r # Quality
    BY DEF Candidates, Trusted, Invalid, Quality
<1> QED BY <1>1, <1>2, <1>3

----------------------------------------------------------------------------
\* The inductive invariant.

Before == {"finalize", "look", "classify", "preserve", "rewrite", "write"}

\* The finalizer's control: what its places know of the candidate, and that
\* nothing is required, uploaded or reported before its time.
PlaceInOrder ==
    /\ pc \in Before => required = "none"
    /\ pc \in Before \cup {"upload"} => upload = "none"
    /\ pc # "ended" => report = NoReport
    /\ pc = "preserve" => Trusted(candidate)
    /\ pc \in {"rewrite", "write"} => ~Trusted(candidate) /\ candidate # Directory
    /\ pc = "write" => ~checks
    /\ pc = "look" => zeros < MarkerLooks
    /\ pc = "confirm" => zeros + failures <= ConfirmLooks

\* Only the runner's record is ever a quality record, and only an attempt of
\* the official lane can be found not to have consumed the one-shot.
LaneInv ==
    /\ lane = "official" => markerStep # "none" /\ (attempt # 1 => markerStep = "skipped")
    /\ markerStep = "skipped" => ~marker /\ lane = "official"
    /\ pc = "finalize" => zeros = 0
    /\ pc = "look" => lane = "official" /\ markerStep = "failure"

TypeInv == PublicationTypeOK /\ PlaceInOrder /\ LaneInv

PublicationInv == TypeInv /\ FinalizerIsHonest

LEMMA PublicationInvInit == PublicationInit => PublicationInv
<1> SUFFICES ASSUME PublicationInit PROVE PublicationInv
    OBVIOUS
<1>0. /\ marker \in BOOLEAN /\ (markerStep = "skipped" => ~marker)
      /\ lag \in 0..MaxLag
      /\ zeros = 0 /\ failures = 0
    <2>1. CASE markerStep = "success"
        BY <2>1, PublicationAssumption DEF PublicationInit
    <2>2. CASE markerStep = "failure"
        BY <2>2, PublicationAssumption DEF PublicationInit
    <2>3. CASE markerStep \notin {"success", "failure"}
        <3>1. marker \in {FALSE}
            BY <2>3 DEF PublicationInit
        <3>2. lag \in {0} /\ zeros = 0 /\ failures = 0
            BY <2>3 DEF PublicationInit
        <3> QED BY <3>1, <3>2, PublicationAssumption
    <2> QED BY <2>1, <2>2, <2>3
<1>1. PublicationTypeOK
    <2>1. left \in Candidates \cup Foreign
        BY DEF PublicationInit, Candidates, Causes, LatchCauses
    <2>2. /\ markerStep \in {"success", "failure", "skipped", "none"}
          /\ checks \in BOOLEAN /\ executeCancelled \in BOOLEAN /\ runnerJournal \in Journals \cup {<<>>}
        BY DEF PublicationInit
    <2>3. 0 \in 0..MarkerLooks \cup 0..ConfirmLooks /\ 0 \in 0..ConfirmLooks
        BY PublicationAssumption
    <2> QED BY <1>0, <2>1, <2>2, <2>3 DEF PublicationInit, PublicationTypeOK, NotStored, NoReport, Candidates
<1>2. PlaceInOrder
    BY DEF PublicationInit, PlaceInOrder, Before
<1>3. LaneInv
    <2>1. /\ lane = "official" => markerStep # "none" /\ (attempt # 1 => markerStep = "skipped")
          /\ markerStep = "skipped" => lane = "official"
        BY DEF PublicationInit
    <2> QED BY <1>0, <2>1 DEF PublicationInit, LaneInv
<1>4. FinalizerIsHonest
    BY DEF PublicationInit, FinalizerIsHonest
<1> QED BY <1>1, <1>2, <1>3, <1>4 DEF PublicationInv, TypeInv

LEMMA PublicationInvNext == PublicationInv /\ [PublicationNext]_publicationVars => PublicationInv'
<1> SUFFICES ASSUME PublicationInv, [PublicationNext]_publicationVars PROVE PublicationInv'
    OBVIOUS
<1> USE DEF PublicationInv, TypeInv, PublicationTypeOK, PlaceInOrder, LaneInv, FinalizerIsHonest, Before,
            To, Keep, Require, runnerVars, root, listing
<1>1. CASE Eligible
    <2>1. CASE lane = "rehearsal" \/ (attempt = 1 /\ markerStep = "success")
        BY <1>1, <2>1 DEF Eligible
    <2>2. CASE lane = "official" /\ (attempt # 1 \/ markerStep = "skipped")
        BY <1>1, <2>2 DEF Eligible
    <2>3. CASE lane = "official" /\ attempt = 1 /\ markerStep = "failure"
        BY <1>1, <2>3, PublicationAssumption DEF Eligible
    <2> QED BY <2>1, <2>2, <2>3
<1>2. CASE Look
    BY <1>2, PublicationAssumption DEF Look
<1>3. CASE Classify
    BY <1>3 DEF Classify
<1>4. CASE Preserve
    <2>1. quarantine' \subseteq {"candidate", "checks"}
        BY <1>4 DEF Preserve, MoveChecks
    <2>2. checks' \in BOOLEAN /\ (checks' => candidate = Quality)
        BY <1>4 DEF Preserve, MoveChecks
    <2> QED BY <1>4, <2>1, <2>2 DEF Preserve
<1>5. CASE Quarantine
    <2>1. quarantine' \subseteq {"candidate", "checks"}
        BY <1>5 DEF Quarantine, MoveChecks
    <2>2. candidate # Quality
        BY <1>5 DEF Quarantine, Trusted, Quality
    <2>3. checks' = FALSE
        BY <1>5, <2>2 DEF Quarantine, MoveChecks
    <2>4. ~checks' /\ checks' \in BOOLEAN
        BY <2>3
    <2>5. /\ pc' = "write" /\ ~Trusted(candidate) /\ candidate # Directory
          /\ UNCHANGED <<candidate, listing, required, runnerVars, upload, stored, report>>
        BY <1>5 DEF Quarantine
    <2>6. PublicationTypeOK' /\ LaneInv'
        BY <2>1, <2>4, <2>5
    <2>7. PlaceInOrder'
        BY <1>5, <2>4, <2>5 DEF Quarantine
    <2>8. FinalizerIsHonest'
        BY <1>5, <2>5 DEF Quarantine
    <2> QED BY <2>6, <2>7, <2>8
<1>6. CASE Write
    BY <1>6, RewrittenIsInvalid DEF Write
<1>7. CASE FinalizerFails
    BY <1>7 DEF FinalizerFails
<1>8. CASE Upload
    <2>1. stored'.exists \in BOOLEAN /\ stored'.terminal \in Candidates \cup Foreign
        <3>1. CASE ~WantsUpload
            BY <1>8, <3>1 DEF Upload
        <3>2. CASE WantsUpload
            <4>1. PICK damaged \in BOOLEAN :
                     stored' \in {[terminal |-> CASE candidate \in {Link, Directory} -> Absent
                                                [] damaged -> Untrusted
                                                [] OTHER -> candidate,
                                  checks |-> checks, exists |-> TRUE], NotStored}
                BY <1>8, <3>2 DEF Upload
            <4> DEFINE t == CASE candidate \in {Link, Directory} -> Absent
                              [] damaged -> Untrusted
                              [] OTHER -> candidate
            <4>2. t \in Candidates \cup Foreign /\ Absent \in Candidates
                BY DEF Foreign, Candidates
            <4>3. stored' \in {[terminal |-> t, checks |-> checks, exists |-> TRUE],
                               [terminal |-> Absent, checks |-> FALSE, exists |-> FALSE]}
                BY <4>1 DEF NotStored
            <4> HIDE DEF t
            <4>4. CASE stored' = [terminal |-> t, checks |-> checks, exists |-> TRUE]
                BY <4>2, <4>4
            <4>5. CASE stored' = [terminal |-> Absent, checks |-> FALSE, exists |-> FALSE]
                BY <4>2, <4>5
            <4> QED BY <4>3, <4>4, <4>5
        <3> QED BY <3>1, <3>2
    <2>2. /\ upload' \in {"none", "success", "failure", "skipped"}
          /\ pc = "upload" /\ pc' \in {"ended", "confirm"} /\ lag' \in 0..MaxLag
          /\ zeros' = 0 /\ failures' = 0
          /\ UNCHANGED <<runnerVars, root, required, report>>
        BY <1>8 DEF Upload
    <2> QED BY <2>1, <2>2, PublicationAssumption
<1>9. CASE ListEvidence
    BY <1>9, PublicationAssumption DEF ListEvidence
<1>10. CASE NothingListed
    BY <1>10 DEF NothingListed, Report, Absence, Published, Candidates
<1>11. CASE Entry
    BY <1>11 DEF Entry, Report, Published
<1>12. CASE Download
    BY <1>12 DEF Download, Report, Published
<1>13. CASE ConfirmFails
    BY <1>13 DEF ConfirmFails, Report, Published
<1>14. CASE UNCHANGED publicationVars
    BY <1>14 DEF publicationVars
<1> QED
    BY <1>1, <1>2, <1>3, <1>4, <1>5, <1>6, <1>7, <1>8, <1>9, <1>10, <1>11, <1>12, <1>13, <1>14
    DEF PublicationNext, Finalizer, Confirm

\* The finalizer never authors or removes a quality record, whatever it finds,
\* wherever it is killed, and for any number of looks.
THEOREM FinalizerStaysSound == PublicationSpec => []FinalizerSound
<1>1. PublicationInv => FinalizerSound
    BY DEF PublicationInv, TypeInv, FinalizerSound
<1> QED BY PublicationInvInit, PublicationInvNext, <1>1, PTL DEF PublicationSpec

----------------------------------------------------------------------------
\* What is said of the publication.

\* A stored artifact is listed before the confirm step has looked in vain too
\* often; what GitHub does not hold has no terminal record.
ConfirmInv ==
    /\ pc = "confirm" /\ stored.exists => lag + zeros <= MaxLag
    /\ ~stored.exists => stored.terminal = Absent
    /\ ReportIsTrue

LEMMA ConfirmNext ==
    ASSUME MaxLag < ConfirmLooks, PublicationInv, ConfirmInv, [PublicationNext]_publicationVars
    PROVE  ConfirmInv'
<1> USE DEF PublicationInv, TypeInv, PublicationTypeOK, PlaceInOrder, Before, To, Keep, Require, runnerVars, root, listing
<1>1. CASE Finalizer \/ FinalizerFails
    <2>1. /\ pc \in Before /\ pc' \in Before \cup {"upload"}
          /\ UNCHANGED <<stored, report>>
        BY <1>1 DEF Finalizer, FinalizerFails, Eligible, Look, Classify, Preserve, Quarantine, Write
    <2> QED BY <2>1 DEF ConfirmInv, ReportIsTrue
<1>2. CASE Upload
    <2>1. report' = NoReport
        BY <1>2 DEF Upload
    <2>2. ReportIsTrue'
        BY <2>1 DEF ReportIsTrue, NoReport, None
    <2>3. zeros' = 0 /\ (pc' = "confirm" => lag' \in 0..MaxLag)
        BY <1>2 DEF Upload
    <2>4. ~stored'.exists => stored'.terminal = Absent
        BY <1>2 DEF Upload, NotStored, ConfirmInv
    <2> QED BY <2>2, <2>3, <2>4, PublicationAssumption DEF ConfirmInv
<1>3. CASE ListEvidence
    BY <1>3, PublicationAssumption DEF ListEvidence, ConfirmInv, ReportIsTrue
<1>4. CASE NothingListed
    <2>1. /\ pc = "confirm" /\ pc' = "ended" /\ UNCHANGED stored
          /\ report'.disposition = None
          /\ \E slow \in BOOLEAN : /\ slow \/ zeros + failures = ConfirmLooks
                                  /\ report'.state = Absence(zeros, failures, slow)[1]
        BY <1>4 DEF NothingListed, Report
    <2>2. report'.state = "PUBLICATION_FAILED" => zeros = ConfirmLooks
        BY <2>1, PublicationAssumption DEF Absence
    <2>3. report'.state \in {"PUBLICATION_FAILED", "PUBLICATION_UNCONFIRMED"}
        BY <2>1 DEF Absence
    <2>4. report'.state = "PUBLICATION_FAILED" => stored.terminal = Absent
        BY <2>1, <2>2, PublicationAssumption DEF ConfirmInv
    <2>5. ~Trusted(Absent)
        BY DEF Trusted, Absent
    <2> QED BY <2>1, <2>3, <2>4, <2>5 DEF ConfirmInv, ReportIsTrue
<1>5. CASE Entry
    <2>1. pc' \in {"download", "ended"} /\ UNCHANGED stored
        BY <1>5 DEF Entry, Report
    <2>2. \/ report' = NoReport
          \/ /\ stored.terminal = Untrusted
             /\ report' = [state |-> "PUBLICATION_FAILED", reason |-> "DIGEST_MISMATCH", disposition |-> None]
        BY <1>5 DEF Entry, Report, Published
    <2>3. ~Trusted(Untrusted)
        BY DEF Trusted, Untrusted
    <2> QED BY <2>1, <2>2, <2>3 DEF ConfirmInv, ReportIsTrue, NoReport, None
<1>6. CASE Download
    <2>1. pc' = "ended" /\ UNCHANGED stored
        BY <1>6 DEF Download, Report
    <2>2. \/ report'.state = "PUBLICATION_UNCONFIRMED" /\ report'.disposition = None
          \/ /\ report'.state = "PUBLICATION_FAILED" /\ report'.disposition = None
             /\ ~Trusted(stored.terminal)
          \/ /\ Trusted(stored.terminal) /\ report'.disposition = stored.terminal.kind
             /\ report'.state = IF stored.terminal = Quality THEN "TERMINAL_EVIDENCE_PUBLISHED"
                                                           ELSE "INVALID_EVIDENCE_PUBLISHED"
        BY <1>6 DEF Download, Report, Published, Verdict, Trusted, Absent
    <2> QED BY <2>1, <2>2 DEF ConfirmInv, ReportIsTrue
<1>7. CASE ConfirmFails
    <2>1. pc' = "ended" /\ UNCHANGED stored
        BY <1>7 DEF ConfirmFails, Report
    <2>2. \/ report' = NoReport
          \/ report'.state = "PUBLICATION_UNCONFIRMED" /\ report'.disposition = None
        BY <1>7 DEF ConfirmFails, Report, Published
    <2> QED BY <2>1, <2>2 DEF ConfirmInv, ReportIsTrue, NoReport, None
<1>8. CASE UNCHANGED publicationVars
    BY <1>8 DEF publicationVars, ConfirmInv, ReportIsTrue
<1> QED
    BY <1>1, <1>2, <1>3, <1>4, <1>5, <1>6, <1>7, <1>8 DEF PublicationNext, Confirm

\* When the confirm step looks more often than the listing can lag, it only
\* ever reports what GitHub really holds, or really does not hold.
THEOREM ReportStaysTrue ==
    ASSUME MaxLag < ConfirmLooks
    PROVE  PublicationSpec => []ReportIsTrue
<1>1. PublicationInit => ConfirmInv
    BY DEF PublicationInit, ConfirmInv, ReportIsTrue, NotStored, NoReport, None
<1>2. PublicationInv /\ ConfirmInv /\ [PublicationNext]_publicationVars => ConfirmInv'
    BY ConfirmNext
<1>3. ConfirmInv => ReportIsTrue
    BY DEF ConfirmInv
<1> QED BY PublicationInvInit, PublicationInvNext, <1>1, <1>2, <1>3, PTL DEF PublicationSpec

----------------------------------------------------------------------------
\* What is owed.

\* The finalizer finds "not consumed" only of an attempt without a marker: two
\* zero listings are more than a stored marker can give.
ConsumedInv ==
    /\ pc = "finalize" /\ marker => lag <= MaxLag
    /\ pc = "look" /\ marker => lag + zeros <= MaxLag
    /\ required = "false" => ~marker /\ lane = "official"
    /\ ConsumedIsUploaded

LEMMA ConsumedNext ==
    ASSUME MaxLag < 2, PublicationInv, ConsumedInv, [PublicationNext]_publicationVars
    PROVE  ConsumedInv'
<1> USE DEF PublicationInv, TypeInv, PublicationTypeOK, PlaceInOrder, LaneInv, Before, To, Keep, Require,
            runnerVars, root, listing, ConsumedInv, ConsumedIsUploaded
<1>1. CASE Eligible
    <2>1. CASE lane = "rehearsal" \/ (attempt = 1 /\ markerStep = "success")
        BY <1>1, <2>1 DEF Eligible
    <2>2. CASE lane = "official" /\ (attempt # 1 \/ markerStep = "skipped")
        BY <1>1, <2>2 DEF Eligible
    <2>3. CASE lane = "official" /\ attempt = 1 /\ markerStep = "failure"
        BY <1>1, <2>3, PublicationAssumption DEF Eligible
    <2> QED BY <2>1, <2>2, <2>3
<1>2. CASE Look
    BY <1>2, PublicationAssumption DEF Look, NotConsumed
<1>3. CASE Classify \/ Preserve \/ Quarantine \/ Write \/ FinalizerFails
    <2>1. /\ pc' \notin {"finalize", "look"} /\ UNCHANGED <<marker, lane, upload>>
          /\ required' \in {required, "true"}
        BY <1>3 DEF Classify, Preserve, Quarantine, Write, FinalizerFails
    <2> QED BY <2>1
<1>4. CASE Upload
    <2>1. pc' \notin {"finalize", "look"} /\ UNCHANGED <<marker, lane, required>>
        BY <1>4 DEF Upload
    <2>2. upload' = "skipped" => ~WantsUpload
        BY <1>4 DEF Upload
    <2> QED BY <2>1, <2>2 DEF WantsUpload
<1>5. CASE Confirm \/ ConfirmFails
    <2>1. pc' \notin {"finalize", "look"} /\ UNCHANGED <<marker, lane, required, upload>>
        BY <1>5 DEF Confirm, ListEvidence, NothingListed, Entry, Download, ConfirmFails, Report
    <2> QED BY <2>1
<1>6. CASE UNCHANGED publicationVars
    BY <1>6 DEF publicationVars
<1> QED BY <1>1, <1>2, <1>3, <1>4, <1>5, <1>6 DEF PublicationNext, Finalizer

\* A stored marker that shows up by the second listing is never overlooked:
\* an attempt whose evidence was not even uploaded did not consume the one-shot.
THEOREM ConsumedIsAlwaysUploaded ==
    ASSUME MaxLag < 2
    PROVE  PublicationSpec => []ConsumedIsUploaded
<1>1. PublicationInit => ConsumedInv
    <2> SUFFICES ASSUME PublicationInit PROVE ConsumedInv
        OBVIOUS
    <2>1. lag \in 0..MaxLag
        BY PublicationInvInit DEF PublicationInv, TypeInv, PublicationTypeOK
    <2> QED BY <2>1, PublicationAssumption DEF PublicationInit, ConsumedInv, ConsumedIsUploaded
<1>2. PublicationInv /\ ConsumedInv /\ [PublicationNext]_publicationVars => ConsumedInv'
    BY ConsumedNext
<1>3. ConsumedInv => ConsumedIsUploaded
    BY DEF ConsumedInv
<1> QED BY PublicationInvInit, PublicationInvNext, <1>1, <1>2, <1>3, PTL DEF PublicationSpec
==============================================================================
