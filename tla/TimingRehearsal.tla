--------------------------- MODULE TimingRehearsal ---------------------------
(* The timing rehearsal (scripts/run_phase5_timing_rehearsal.py), its        *)
(* workflow's re-dispatches and re-runs, and the cost row recovered from its *)
(* evidence afterwards (cost-evidence, record_phase5_cost_evidence.py).  A   *)
(* job runs preflight and execute on a machine of its own; the workflow's    *)
(* concurrency group lets one job run at a time.  The main thread admits an  *)
(* invocation only with a healthy refresher and a fresh assertion, the two   *)
(* threads of OidcSession interleaving.  Money is counted in units of half a *)
(* full reservation.                                                         *)
EXTENDS OidcSession, FiniteSetsExt, Functions

CONSTANTS
    MaxJobs,     \* bound: dispatches and re-runs of the workflow
    N,           \* observations of the corpus
    Reserve,     \* MAX_PER_CALL_RESERVE_EUR_MICROS
    Total,       \* TOTAL_EUR_MICROS
    Spends       \* what one invocation may really cost

ASSUME TimingAssumption ==
    /\ MaxJobs \in Nat /\ N \in Nat \ {0}
    /\ Reserve \in Nat \ {0} /\ Total \in Nat
    /\ Spends \subseteq Nat

VARIABLES
    job,        \* jobs so far; the last one is the current one
    runId,      \* the workflow run the current job belongs to
    pc,         \* the main thread of the current job
    ordinal,    \* the corpus item in hand
    committed,  \* RunBudgetCoordinator's committed charge
    row,        \* the newest agent_calls row
    failed,     \* judge() raised for the item in hand
    events,     \* phase5_timing_events.jsonl
    cliSeen,    \* topology_records: some sample identified the CLI
    reason,     \* the STOP reason, or "none"
    artifact,   \* summary or stop record in the evidence directory
    joined,     \* refresher.stop() saw the thread end
    spent,      \* what every contacted ordinal really cost (nobody reads it)
    told,       \* ordinals whose cost the SDK reported (nobody reads it)
    contacts,   \* jobs that reached the provider (nobody reads it)
    cost,       \* outcome of cost-evidence over the preserved evidence
    recorded    \* rows of the committed cost ledger for this run

runVars == <<job, runId>>
money == <<committed, row, failed>>
evidence == <<events, cliSeen, reason, artifact>>
truth == <<spent, told, contacts>>
after == <<cost, recorded>>
vars == <<oidcVars, runVars, pc, ordinal, money, evidence, joined, truth, after>>

Ordinals == 1..N
Unknown == -1
Charges == {Unknown} \cup Nat
NoRow == [of |-> 0, charged |-> Unknown, reserved |-> Unknown, ceiling |-> FALSE]
NoCost == [kind |-> "none", charge |-> 0, class |-> "none"]
NoEvents == [began |-> FALSE, started |-> {}, finished |-> {}, accounted |-> {}, ended |-> "none"]
Over == {"over", "dead", "refused"}
Reasons == {"none", "SDK_BUDGET_CEILING", "UNDER_RESERVATION_REFUSAL", "COST_OVERSHOOT",
            "INFRASTRUCTURE_FAULT", "AUTH_OR_OIDC_FAULT", "TOPOLOGY_ESCAPE",
            "TOPOLOGY_CLI_UNIDENTIFIED", "INCOMPLETE_N", "FEASIBILITY_FAILURE"}

BooksTypeOK ==
    /\ job \in 0..MaxJobs /\ runId \in 0..MaxJobs
    /\ ordinal \in 1..(N + 1)
    /\ committed \in Nat
    /\ row \in [of : 0..N, charged : Charges, reserved : Charges, ceiling : BOOLEAN]
    /\ failed \in BOOLEAN
    /\ events \in [began : BOOLEAN, started : SUBSET Ordinals, finished : SUBSET Ordinals,
                   accounted : SUBSET [ordinal : Ordinals, charged : Charges],
                   ended : {"none", "RUN_FINISHED", "STOP"}]
    /\ events.finished \subseteq events.started
    /\ cliSeen \in BOOLEAN
    /\ reason \in Reasons /\ artifact \in {"none", "summary", "stop", "lost"}
    /\ spent \in [Ordinals -> Charges] /\ told \subseteq Ordinals /\ contacts \subseteq 1..MaxJobs
    /\ cost \in [kind : {"none", "nothing_due", "refused", "row"}, charge : Nat,
                 class : {"none", "PASS", "STOP", "NO_ARTIFACT"}]
    /\ recorded \in [rows : 0..1, asked : 0..2]

PcTypeOK ==
    /\ pc \in {"idle", "preflight", "start", "acquire", "loop", "admit", "judge", "invoke",
               "flight", "finish", "account", "check", "stop", "join", "scrub", "survey", "write",
               "close"} \cup Over
    /\ joined \in BOOLEAN

TypeOK == OidcTypeOK /\ PcTypeOK /\ BooksTypeOK

Init ==
    /\ OidcInit
    /\ job = 0 /\ runId = 0 /\ pc = "idle" /\ ordinal = 1
    /\ committed = 0 /\ row = NoRow /\ failed = FALSE
    /\ events = NoEvents /\ cliSeen = FALSE
    /\ reason = "none" /\ artifact = "none" /\ joined = FALSE
    /\ spent = [o \in Ordinals |-> Unknown] /\ told = {} /\ contacts = {}
    /\ cost = NoCost /\ recorded = [rows |-> 0, asked |-> 0]

To(next) == pc' = next
KeepRun == UNCHANGED <<runVars, joined, after>>
KeepBooks == UNCHANGED <<ordinal, money, evidence, truth>>

----------------------------------------------------------------------------
(* The workflow *)

\* A new dispatch is a new run; a re-run is another attempt of the same run.
\* Either starts on a fresh machine.
Dispatch(rerun) ==
    /\ pc \in {"idle"} \cup Over
    /\ job < MaxJobs
    /\ rerun => runId > 0
    /\ job' = job + 1
    /\ runId' = IF rerun THEN runId ELSE job + 1
    /\ To("preflight")
    /\ file' = Absent /\ siblings' = {} /\ kept' = FALSE /\ lock' = Free /\ stopping' = FALSE /\ thread' = "off" /\ fault' = FALSE
    /\ step' = [t \in Threads |-> "idle"] /\ tries' = [t \in Threads |-> 0]
    /\ held' = [t \in Threads |-> 0]
    /\ joined' = FALSE /\ ordinal' = 1
    /\ committed' = 0 /\ row' = NoRow /\ failed' = FALSE
    /\ UNCHANGED <<minted, exchanged, evidence, truth, after>>

\* bounded_read_retry: transient failures are survived up to the bound.
BoundedRead(failures) == failures < RetryAttempts

\* assert_no_prior_timing_run: any other visible run is a prior run, and so is
\* a listing that could not be read.
PriorRunPresent(readable) == ~readable \/ runId > 1

\* Mutant: a re-run of the same workflow run is let in.
AnyAttempt == TRUE

\* derive_github_context, and cmd_preflight's first check.
FirstAttempt == job = runId

\* cmd_preflight in order; "rest" stands for the checks of the source, the
\* frozen inputs, the exchange rate, the work root and the runtime identity.
Preflight ==
    /\ pc = "preflight"
    /\ \E failures \in 0..RetryAttempts, required \in BOOLEAN, shadowing \in BOOLEAN, rest \in BOOLEAN :
         IF FirstAttempt /\ ~PriorRunPresent(BoundedRead(failures))
         THEN /\ WritePlaceholder
              /\ To(IF WifConfigReady(required, shadowing, Placeholder) /\ rest THEN "start" ELSE "refused")
         ELSE To("refused") /\ UNCHANGED oidcVars
    /\ KeepRun /\ KeepBooks

----------------------------------------------------------------------------
(* cmd_execute: start of the run *)

StopWith(r) ==
    /\ reason' = r
    /\ To("stop")

Record(e) == events' = e

StartRun ==
    /\ pc = "start"
    /\ \/ /\ Record([events EXCEPT !.began = TRUE])
          /\ CallAcquire /\ To("acquire")
          /\ UNCHANGED reason
       \/ /\ StopWith("INFRASTRUCTURE_FAULT")
          /\ UNCHANGED <<events, oidcVars>>
    /\ UNCHANGED <<ordinal, money, cliSeen, artifact, truth>> /\ KeepRun

\* acquire_oidc returns with the first assertion in hand; install_and_start
\* installs it and starts the refresher.
Acquired ==
    /\ pc = "acquire" /\ step["main"] \in {"done", "failed"}
    /\ Returned
    /\ IF step["main"] = "done"
       THEN To("loop") /\ thread' = "running" /\ UNCHANGED reason
       ELSE StopWith("AUTH_OR_OIDC_FAULT") /\ UNCHANGED thread
    /\ UNCHANGED <<file, left, minted, exchanged, lock, tries, held, fault, stopping>>
    /\ UNCHANGED <<ordinal, money, events, cliSeen, artifact, truth>> /\ KeepRun

----------------------------------------------------------------------------
(* cmd_execute: one item of the corpus *)

Remaining == Total - committed

Complete == events.started = Ordinals /\ events.finished = Ordinals

NextItem ==
    /\ pc = "loop"
    /\ IF ordinal > N
       THEN \/ StopWith(IF Complete THEN "FEASIBILITY_FAILURE" ELSE "INCOMPLETE_N")
            \/ Complete /\ To("stop") /\ UNCHANGED reason
       ELSE IF Remaining < Reserve
            THEN StopWith("UNDER_RESERVATION_REFUSAL")
            ELSE To("admit") /\ UNCHANGED reason
    /\ UNCHANGED <<oidcVars, ordinal, money, events, cliSeen, artifact, truth>> /\ KeepRun

\* Mutant: only the first invocation gets an assertion of its own.
AdmitOnce ==
    /\ pc = "admit" /\ step["main"] = "idle"
    /\ IF ordinal = 1 THEN PrepareFreshAssertion /\ To("judge") ELSE To("invoke") /\ UNCHANGED oidcVars
    /\ UNCHANGED <<reason, ordinal, money, events, cliSeen, artifact, truth>> /\ KeepRun

Admit ==
    /\ pc = "admit" /\ step["main"] = "idle"
    /\ IF AssertHealthy
       THEN PrepareFreshAssertion /\ To("judge") /\ UNCHANGED reason
       ELSE StopWith("AUTH_OR_OIDC_FAULT") /\ UNCHANGED oidcVars
    /\ UNCHANGED <<ordinal, money, events, cliSeen, artifact, truth>> /\ KeepRun

Admitted ==
    /\ pc = "judge" /\ step["main"] \in {"done", "failed"}
    /\ Returned
    /\ IF step["main"] = "done" THEN To("invoke") /\ UNCHANGED reason
                                ELSE StopWith("AUTH_OR_OIDC_FAULT")
    /\ UNCHANGED <<file, left, minted, exchanged, lock, tries, held, thread, fault, stopping>>
    /\ UNCHANGED <<ordinal, money, events, cliSeen, artifact, truth>> /\ KeepRun

\* judge() reserves, writes a RESERVED row and calls the seam, which makes
\* the start durable before the CLI process exists.
Invoke ==
    /\ pc = "invoke"
    /\ row' = [of |-> ordinal, charged |-> Unknown, reserved |-> Reserve, ceiling |-> FALSE]
    /\ Record([events EXCEPT !.started = @ \cup {ordinal}])
    /\ To("flight")
    /\ UNCHANGED <<oidcVars, ordinal, committed, failed, cliSeen, reason, artifact, truth>> /\ KeepRun

\* judge() refused before it reserved: no row, no start; the newest row is
\* still the one before.
JudgeRefused ==
    /\ pc = "invoke"
    /\ failed' = TRUE
    /\ To("account")
    /\ UNCHANGED <<oidcVars, ordinal, committed, row, evidence, truth>> /\ KeepRun

\* TopologySampler: one sample that shows the CLI is enough for the run.
Sampled(seen) == cliSeen' = (cliSeen \/ seen)

\* The CLI starts, exchanges the assertion, and is answered or fails.
Contact ==
    /\ pc = "flight"
    /\ Exchange
    /\ \E s \in Spends : spent' = [spent EXCEPT ![ordinal] = s]
    /\ contacts' = contacts \cup {job}
    /\ \E seen \in BOOLEAN : Sampled(seen)
    /\ To("finish")
    /\ UNCHANGED <<ordinal, money, events, reason, artifact, told>> /\ KeepRun

\* The budget stops the call at the SDK, or the call ends some other way;
\* either way its end is durable unless the call itself raised.  A cost the SDK
\* does not report is charged at the reservation, whatever it really was, and
\* that alone does not stop the run.
Finish ==
    /\ pc = "finish"
    /\ \E raised \in BOOLEAN, completed \in BOOLEAN, known \in BOOLEAN, ceiling \in BOOLEAN,
          settled \in BOOLEAN :
         /\ raised => ~completed /\ ~known
         /\ ceiling => ~completed /\ ~raised
         /\ Record(IF raised THEN events ELSE [events EXCEPT !.finished = @ \cup {ordinal}])
         /\ LET charge == CASE completed /\ known -> spent[ordinal]
                            [] ~completed /\ known -> Max({Reserve, spent[ordinal]})
                            [] OTHER -> Reserve
            IN \* _record_terminal writes the row; the write can fail.
               /\ row' = IF settled THEN [row EXCEPT !.charged = charge, !.ceiling = ceiling] ELSE row
               /\ committed' = committed + charge
         /\ failed' = (~completed \/ ~settled)
         /\ told' = IF known THEN told \cup {ordinal} ELSE told
    /\ To("account")
    /\ UNCHANGED <<oidcVars, ordinal, cliSeen, reason, artifact, spent, contacts>> /\ KeepRun

\* The newest row is read back whatever judge() did; token counts of the two
\* records that contradict each other stop the run before it accounts.
Account ==
    /\ pc = "account"
    /\ \/ /\ Record([events EXCEPT !.accounted = @ \cup {[ordinal |-> ordinal, charged |-> row.charged]}])
          /\ To("check") /\ UNCHANGED reason
       \/ /\ row.of = ordinal /\ ordinal \in events.finished
          /\ StopWith("INFRASTRUCTURE_FAULT") /\ UNCHANGED events
    /\ UNCHANGED <<oidcVars, ordinal, money, cliSeen, artifact, truth>> /\ KeepRun

\* Mutant: an overshoot does not stop the run.
CheckNoOvershoot ==
    /\ pc = "check"
    /\ IF row.ceiling THEN StopWith("SDK_BUDGET_CEILING") /\ UNCHANGED ordinal
       ELSE IF failed THEN StopWith("INFRASTRUCTURE_FAULT") /\ UNCHANGED ordinal
            ELSE To("loop") /\ ordinal' = ordinal + 1 /\ UNCHANGED reason
    /\ UNCHANGED <<oidcVars, money, events, cliSeen, artifact, truth>> /\ KeepRun

Check ==
    /\ pc = "check"
    /\ IF row.ceiling THEN StopWith("SDK_BUDGET_CEILING") /\ UNCHANGED ordinal
       ELSE IF row.charged # Unknown /\ row.charged > row.reserved
            THEN StopWith("COST_OVERSHOOT") /\ UNCHANGED ordinal
            ELSE IF failed THEN StopWith("INFRASTRUCTURE_FAULT") /\ UNCHANGED ordinal
                 ELSE To("loop") /\ ordinal' = ordinal + 1 /\ UNCHANGED reason
    /\ UNCHANGED <<oidcVars, money, events, cliSeen, artifact, truth>> /\ KeepRun

----------------------------------------------------------------------------
(* cmd_execute: finally, and the terminal record *)

\* session is set only when acquire_oidc returned.
StopRefresher ==
    /\ pc = "stop"
    /\ SetStop /\ To("join")
    /\ KeepBooks /\ KeepRun

\* Mutant: stop() does not wait for the thread.
JoinNow ==
    /\ pc = "join"
    /\ joined' = TRUE /\ To("scrub")
    /\ UNCHANGED <<oidcVars, runVars, after>> /\ KeepBooks

Join ==
    /\ pc = "join" /\ Joined
    /\ joined' = TRUE /\ To("scrub")
    /\ UNCHANGED <<oidcVars, runVars, after>> /\ KeepBooks

JoinTimedOut ==
    /\ pc = "join" /\ JoinExpired
    /\ To("scrub")
    /\ UNCHANGED oidcVars /\ KeepBooks /\ KeepRun

Scrub ==
    /\ pc = "scrub"
    /\ ScrubTokenFile /\ To("survey")
    /\ KeepBooks /\ KeepRun

\* Mutant: the survey asks only for survivors.
SurveySurvivorsOnly ==
    /\ pc = "survey"
    /\ \E survivors \in BOOLEAN :
         reason' = IF reason = "none" /\ survivors THEN "TOPOLOGY_ESCAPE" ELSE reason
    /\ To("write")
    /\ UNCHANGED <<oidcVars, ordinal, money, events, cliSeen, artifact, truth>> /\ KeepRun

\* The topology rules apply only to a run that has no reason to stop yet.  A
\* sample holds the closure of the root, so no entry of it is an escape.
Survey ==
    /\ pc = "survey"
    /\ \E survivors \in BOOLEAN :
         reason' = IF reason # "none" THEN reason
                   ELSE IF ~cliSeen THEN "TOPOLOGY_CLI_UNIDENTIFIED"
                        ELSE IF survivors THEN "TOPOLOGY_ESCAPE" ELSE "none"
    /\ To("write")
    /\ UNCHANGED <<oidcVars, ordinal, money, events, cliSeen, artifact, truth>> /\ KeepRun

WriteArtifact ==
    /\ pc = "write"
    /\ artifact' = IF reason = "none" THEN "summary" ELSE "stop"
    /\ To("close")
    /\ UNCHANGED <<oidcVars, ordinal, money, events, cliSeen, reason, truth>> /\ KeepRun

CloseRun ==
    /\ pc = "close"
    /\ Record([events EXCEPT !.ended = IF artifact = "summary" THEN "RUN_FINISHED" ELSE "STOP"])
    /\ To("over")
    /\ UNCHANGED <<oidcVars, ordinal, money, cliSeen, reason, artifact, truth>> /\ KeepRun

\* The runner is killed, its process threads with it; or its machine is lost,
\* and with it the evidence.
Killed ==
    /\ pc \notin {"idle", "preflight"} \cup Over
    /\ To("dead")
    /\ \E lost \in BOOLEAN :
         /\ artifact' = IF lost THEN "lost" ELSE artifact
    /\ step' = [t \in Threads |-> "idle"] /\ lock' = Free /\ thread' = "off"
    /\ held' = [t \in Threads |-> 0] /\ tries' = [t \in Threads |-> 0]
    /\ UNCHANGED <<file, left, minted, exchanged, fault, stopping>>
    /\ UNCHANGED <<ordinal, money, events, cliSeen, reason, truth>> /\ KeepRun

----------------------------------------------------------------------------
(* Afterwards: cost-evidence and its recording *)

Accounted == {a.ordinal : a \in events.accounted}
ChargeOf(o) == (CHOOSE a \in events.accounted : a.ordinal = o).charged

\* Mutant: an interrupted invocation is read as never having happened.
FinishedCharge(o) ==
    IF o \in Accounted /\ ChargeOf(o) # Unknown THEN ChargeOf(o)
    ELSE IF o \in events.finished THEN Reserve ELSE 0

\* aggregate_timing_spend: every ordinal whose start is durable is charged
\* what was accounted, or its full reservation.
OrdinalCharge(o) ==
    IF o \in Accounted /\ ChargeOf(o) # Unknown THEN ChargeOf(o) ELSE Reserve
TimingSpend ==
    SumFunctionOnSet([o \in events.started |-> OrdinalCharge(o)], events.started)
Conservative == {o \in events.started : o \notin Accounted \/ ChargeOf(o) = Unknown}
ClassBC == events.started \ Accounted

\* TimingCostEvidenceRecord: the ordinals charged in full must be those of
\* classes B and C.
RecordValid == Conservative = ClassBC

CostEvidence ==
    /\ pc \in Over /\ cost.kind = "none"
    /\ cost' = IF artifact = "lost" \/ ~events.began
               THEN [NoCost EXCEPT !.kind = "refused"]
               ELSE IF events.started = {}
               THEN [NoCost EXCEPT !.kind = "nothing_due"]
               ELSE IF RecordValid
               THEN [kind |-> "row", charge |-> TimingSpend,
                     class |-> CASE artifact = "summary" -> "PASS"
                                 [] artifact = "stop" -> "STOP"
                                 [] OTHER -> "NO_ARTIFACT"]
               ELSE [NoCost EXCEPT !.kind = "refused"]
    /\ UNCHANGED <<oidcVars, runVars, pc, joined, recorded>> /\ KeepBooks

\* record_phase5_cost_evidence refuses a run the ledger already has.
RecordCost ==
    /\ cost.kind = "row" /\ recorded.asked < 2
    /\ recorded' = [rows |-> IF recorded.rows = 0 THEN 1 ELSE recorded.rows, asked |-> recorded.asked + 1]
    /\ UNCHANGED <<oidcVars, runVars, pc, joined, cost>> /\ KeepBooks

----------------------------------------------------------------------------
KeepDriver == UNCHANGED <<runVars, pc, joined, after>> /\ KeepBooks

MainPair == Pair("main") /\ KeepDriver
RefresherStep == pc \notin Over \cup {"idle"} /\ Refresher /\ KeepDriver

Main == \/ MainPair \/ Preflight \/ StartRun \/ Acquired \/ NextItem \/ Admit \/ Admitted
        \/ Invoke \/ JudgeRefused \/ Contact \/ Finish \/ Account \/ Check
        \/ StopRefresher \/ Join \/ JoinTimedOut \/ Scrub \/ Survey \/ WriteArtifact \/ CloseRun

Next ==
    \/ \E rerun \in BOOLEAN : Dispatch(rerun)
    \/ Main \/ RefresherStep \/ Killed
    \/ CostEvidence \/ RecordCost

Spec == Init /\ [][Next]_vars
----------------------------------------------------------------------------
(* Properties *)

\* An assertion that was exchanged is never in the file when a new CLI process
\* is about to read it, whatever the refresher does between the admission and
\* the call, and an invocation is only ever started against an assertion.
FreshAtStart == pc \in {"invoke", "flight"} => file \in Assertions \ exchanged

\* Of all the jobs and re-runs of the workflow, at most one reaches the
\* provider, and a run that reached it before is never followed by another.
OneRehearsal == Cardinality(contacts) <= 1

\* The job is sound whatever was dispatched or run again.
JobSound == TypeOK /\ OneRehearsal

\* Because a full reservation is left before every invocation, what was spent,
\* each call counted up to its reservation, never exceeds the class-B budget;
\* and of the calls whose cost the SDK reports at most one exceeds its
\* reservation, the last one.  Nothing bounds what an unreported call costs
\* beyond its reservation, nor how many of them do.
Actual(o) == IF spent[o] = Unknown THEN 0 ELSE spent[o]
Within(o) == Min({Actual(o), Reserve})
BudgetBounds ==
    /\ SumFunctionOnSet([o \in Ordinals |-> Within(o)], Ordinals) <= Total
    /\ \A o \in told : Actual(o) > Reserve => \A p \in events.started : p <= o

\* A summary says PASS only of a run in which every item of the corpus was
\* started, finished and charged exactly once, at no more than its reservation,
\* the CLI was seen, and nothing stopped it; no run leaves both records.
PassIsEarned ==
    artifact = "summary" =>
       /\ Complete /\ Accounted = Ordinals /\ Cardinality(events.accounted) = N
       /\ \A a \in events.accounted : a.charged \in 0..Reserve
       /\ cliSeen
       /\ reason = "none" /\ events.ended # "STOP"

\* The cost row recovered from the evidence, after a PASS, a STOP or a kill at
\* any point, charges for every call what it really cost up to its reservation,
\* and in full when the SDK reported the cost and the run came to account for
\* it; no contact is called no spend.
Due(o) == IF o \in told \cap Accounted THEN Actual(o) ELSE Within(o)
CostCovers ==
    /\ cost.kind = "row" =>
         cost.charge >= SumFunctionOnSet([o \in events.started |-> Due(o)], events.started)
    /\ cost.kind = "nothing_due" => \A o \in Ordinals : spent[o] = Unknown

\* Money is sound: what the run knows or may assume of its spending is bounded,
\* and the recovered row covers it.
SpendSound == BudgetBounds /\ CostCovers

\* Once the job is through its scrub, an assertion is left in the token file
\* only by a scrub that could neither overwrite nor remove it, or by a tick that
\* outlived the join, and then nothing has exchanged it; and one is left in a
\* sibling only by an installation whose failure the job has noticed.
TokenScrubbed ==
    pc \in {"survey", "write", "close", "over"} =>
       /\ file \in Assertions => kept \/ (~joined /\ file \notin exchanged)
       /\ siblings # {} => fault \/ reason = "AUTH_OR_OIDC_FAULT"
=============================================================================
