---------------------------- MODULE GateTerminal ----------------------------
(* What the gate runner and its finalizer agree on: the runner's state       *)
(* vocabulary, the operational journal as the finalizer reads it, and the    *)
(* finalizer's decision table (sentinel/phase5/terminal.py, journal.py).     *)
(*                                                                           *)
(* A journal is the sequence of its events, of those kinds a reader uses.  A *)
(* torn last line changes no verdict (TRAILING_FRAGMENT is as good as OK),   *)
(* and is left out.                                                          *)
EXTENDS Naturals, Sequences

None == "none"

\* The causes that trip the latch, and the two the runner reports itself.
LatchCauses == {"SESSION_DEADLINE", "INVOCATION_STALL_DEADLINE", "WATCHDOG"}
RunnerCauses == {"PRE_PROVIDER_FAILURE", "RUNNER_EXCEPTION"}
Causes == LatchCauses \cup RunnerCauses

RunnerStates == {"PREFLIGHTED", "REPLACEMENT_MARKED", "EXECUTING", "SCORED_PROVISIONAL",
                 "TERMINAL_EVIDENCE_WRITTEN", "INVALID_EVIDENCE_WRITTEN"}

\* ALLOWED_TRANSITIONS, without the publication states, which no journal
\* writer may record.
Allowed(from, to) ==
    CASE to = "REPLACEMENT_MARKED" -> from = "PREFLIGHTED"
      [] to = "EXECUTING" -> from = "REPLACEMENT_MARKED"
      [] to = "SCORED_PROVISIONAL" -> from = "EXECUTING"
      [] to = "TERMINAL_EVIDENCE_WRITTEN" -> from = "SCORED_PROVISIONAL"
      [] to = "INVALID_EVIDENCE_WRITTEN" ->
             from \in {"REPLACEMENT_MARKED", "EXECUTING", "SCORED_PROVISIONAL"}
      [] OTHER -> FALSE

Events == [kind : {"STATE"}, what : RunnerStates]
          \cup [kind : {"LATCHED"}, what : LatchCauses]
          \cup [kind : {"EXCEPTION"}, what : RunnerCauses]
          \cup [kind : {"SIGNAL", "WRITE_FAILED"}, what : {None}]

Event(kind, what) == [kind |-> kind, what |-> what]

At(journal, kind) == {i \in DOMAIN journal : journal[i].kind = kind}

FirstOf(journal, indices) ==
    IF indices = {} THEN None
    ELSE journal[CHOOSE i \in indices : \A j \in indices : i <= j].what

LastState(journal) ==
    LET states == At(journal, "STATE")
    IN  IF states = {} THEN None ELSE journal[CHOOSE i \in states : \A j \in states : j <= i].what

\* Mutant: a cause latched after a signal counts.
Objective_AnyOrder(journal) == FirstOf(journal, At(journal, "LATCHED"))

\* summarize_journal: the objective cause is the first latched one, and only
\* when no signal was journaled before it.
Objective(journal) ==
    FirstOf(journal, {i \in At(journal, "LATCHED") :
                          \A j \in At(journal, "SIGNAL") : i < j})

Summary(journal) ==
    [objective |-> Objective(journal),
     signal |-> At(journal, "SIGNAL") # {},
     exception |-> FirstOf(journal, At(journal, "EXCEPTION")),
     writeFailed |-> At(journal, "WRITE_FAILED") # {}]

----------------------------------------------------------------------------
\* The one terminal record: absent, or what a trusted candidate states.
Absent == [kind |-> "ABSENT", cause |-> None, writer |-> None]
Quality == [kind |-> "QUALITY", cause |-> None, writer |-> "RUNNER"]
Invalid(cause, writer) == [kind |-> "INFRASTRUCTURE_INVALID", cause |-> cause, writer |-> writer]
Unclassified == [kind |-> "UNCLASSIFIED", cause |-> None, writer |-> "FINALIZER"]

Candidates == {Absent, Quality, Unclassified}
              \cup {Invalid(c, w) : c \in Causes, w \in {"RUNNER", "FINALIZER"}}

\* Mutant: the exception row is looked at before the signal row.
Decide_ExceptionFirst(candidate, s, cancelled) ==
    IF candidate # Absent THEN candidate
    ELSE IF s.objective # None THEN Invalid(s.objective, "FINALIZER")
    ELSE IF s.exception # None THEN Invalid(s.exception, "FINALIZER")
    ELSE IF s.signal \/ cancelled THEN Unclassified
    ELSE IF s.writeFailed THEN Invalid("RUNNER_EXCEPTION", "FINALIZER")
    ELSE Unclassified

\* Mutant: a journaled cause outranks the record that is there.
Decide_CauseOverRecord(candidate, s, cancelled) ==
    IF s.objective # None THEN Invalid(s.objective, "FINALIZER")
    ELSE IF candidate # Absent THEN candidate
    ELSE Unclassified

\* decide_terminal_disposition over the candidates a runner can leave: a
\* trusted one is preserved; otherwise the record the finalizer writes.
Decide(candidate, s, cancelled) ==
    IF candidate # Absent THEN candidate
    ELSE IF s.objective # None THEN Invalid(s.objective, "FINALIZER")
    ELSE IF s.signal \/ cancelled THEN Unclassified
    ELSE IF s.exception # None THEN Invalid(s.exception, "FINALIZER")
    ELSE IF s.writeFailed THEN Invalid("RUNNER_EXCEPTION", "FINALIZER")
    ELSE Unclassified
=============================================================================
