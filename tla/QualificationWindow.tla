------------------------- MODULE QualificationWindow -------------------------
(* The five-slot qualification window of the scheduled workflow              *)
(* (sentinel/phase5/orchestrator.py run_scheduled, cadence.py, bundle.py,    *)
(* qualification.py).  There is no server: each invocation reads the state   *)
(* bundles earlier ones uploaded, decides, perhaps pays for a run, and       *)
(* uploads a bundle of its own.  A bundle is identified by the run that      *)
(* published it, the genesis bundle by 0.  Invocations are created, delayed, *)
(* turned away and lost; the workflow's concurrency group runs one at a      *)
(* time, in whatever order they leave its queue.  Money is in small units,   *)
(* slots are numbered days, and rows older than the window age out of the    *)
(* trailing spend.                                                           *)
EXTENDS Integers, FiniteSets, Functions

CONSTANTS
    SlotCount,      \* slots of a window (5 in the code)
    MaxRuns,        \* bound: invocations of the workflow
    Costs,          \* what a live run may cost
    Allowance,      \* SCHEDULED_ORDINARY_ALLOWANCE_EUR_MICROS
    Trigger,        \* CADENCE_TRIGGER_EUR_MICROS
    Ceiling         \* LANE_HARD_CEILING_EUR_MICROS

ASSUME WindowAssumption ==
    /\ SlotCount \in Nat \ {0}
    /\ MaxRuns \in Nat
    /\ Costs \subseteq Nat \ {0}
    /\ Allowance \in Nat /\ Trigger \in Nat /\ Ceiling \in Nat
    /\ SlotCount * Allowance <= Trigger /\ Trigger <= Ceiling

Slots == 1..SlotCount
Runs == 1..MaxRuns
Genesis == 0
Broken == -1
None == "none"

VARIABLES
    day,            \* the daily interval GitHub's clock is in
    base,           \* trailing spend on rows older than the window
    slot,           \* the interval a run was created in; 0: not created
    pc,             \* where a run's job is: "ran" is past S12
    cost,           \* what a run's live Sentinel run has cost; 0: none
    status,         \* its terminal ledger status
    bundle          \* the bundle a run published

qualificationVars == <<day, base, slot, pc, cost, status, bundle>>

NoBundle == [kind |-> "NONE"]

GenesisBundle ==
    [kind |-> "GENESIS", slot |-> 0, pred |-> Genesis, outcome |-> None, rows |-> {}, spend |-> 0,
     index |-> 0, consumed |-> FALSE, reason |-> None, cadence |-> "DAILY", anchor |-> 0]

Outcomes == {"QUALIFYING", "STATE_CHAIN_FAILURE", "FAILED_NONTERMINAL",
             "COST_CADENCE_REFUSAL", "CADENCE_SKIP"}
Reasons == {None, "POST_RUN_COST_TRIGGER", "STATE_CHAIN_FAILURE", "FAILED_NONTERMINAL",
            "COST_CADENCE_REFUSAL"}

Bundles ==
    [kind : {"GENESIS", "SLOT", "REFUSAL"}, slot : 0..SlotCount, pred : 0..MaxRuns,
     outcome : Outcomes \cup {None}, rows : SUBSET Runs, spend : Nat, index : 0..SlotCount,
     consumed : BOOLEAN, reason : Reasons,
     cadence : {"DAILY", "EVERY_2_DAYS", "WEEKLY"}, anchor : 0..SlotCount]

\* Types; and what the models of the bundles demand: a reason only when
\* consumed, a consumed window without one only at the last slot, an anchor
\* exactly with a reduced cadence (Phase5ControlState).
QualificationTypeOK ==
    /\ day \in 0..(SlotCount + 1)
    /\ base \in 0..Trigger
    /\ slot \in [Runs -> 0..SlotCount]
    /\ pc \in [Runs -> {"none", "queued", "ran", "done"}]
    /\ cost \in [Runs -> Nat]
    /\ status \in [Runs -> {None, "COMPLETED", "FAILED"}]
    /\ bundle[Genesis] = GenesisBundle
    /\ \A r \in Runs : bundle[r] = NoBundle \/
          /\ bundle[r] \in Bundles
          /\ bundle[r].reason # None => bundle[r].consumed
          /\ bundle[r].consumed /\ bundle[r].reason = None => bundle[r].index = SlotCount
          /\ bundle[r].cadence = "DAILY" <=> bundle[r].anchor = 0

\* The window was frozen with headroom for its nominal runs.
QualificationInit ==
    /\ day = 0
    /\ base \in {b \in 0..Trigger : b + SlotCount * Allowance <= Trigger}
    /\ slot = [r \in Runs |-> 0]
    /\ pc = [r \in Runs |-> "none"]
    /\ cost = [r \in Runs |-> 0]
    /\ status = [r \in Runs |-> None]
    /\ bundle = [i \in 0..MaxRuns |-> IF i = Genesis THEN GenesisBundle ELSE NoBundle]

----------------------------------------------------------------------------
\* What the published bundles say (S05).

SlotBundles(n) == {r \in Runs : bundle[r].kind = "SLOT" /\ bundle[r].slot = n}
Refusals(i) == {r \in Runs : bundle[r].kind = "REFUSAL" /\ bundle[r].pred = i}

AtSlot(n) == IF n = 0 THEN Genesis ELSE CHOOSE r \in SlotBundles(n) : TRUE

\* _verify_chain_to_genesis: one successor per slot, each naming the one before.
Linked(n) ==
    \A m \in 1..n : /\ Cardinality(SlotBundles(m)) = 1
                    /\ bundle[AtSlot(m)].pred = AtSlot(m - 1)

\* latest_contiguous_authoritative_qualification_state
Frontier ==
    CHOOSE n \in 0..SlotCount : /\ n < SlotCount => SlotBundles(n + 1) = {}
                                /\ \A m \in 1..n : SlotBundles(m) # {}

\* trailing_30d_spend_eur_micros of a carried ledger
Spend(rows) == base + SumFunctionOnSet(cost, rows)

Eligible(state, n) ==
    \/ state.cadence = "DAILY"
    \/ n > state.anchor /\ (n - state.anchor) % (IF state.cadence = "WEEKLY" THEN 7 ELSE 2) = 0

\* evaluate_scheduled_trigger: what is decided for slot n, and what follows.
Decision(state, spend, n) ==
    LET breach == ~state.consumed /\ spend > Trigger
        Refused(outcome, consume, cadence, anchor) ==
            [outcome |-> outcome, consume |-> consume, cadence |-> cadence, anchor |-> anchor]
        Unchanged(outcome, consume) == Refused(outcome, consume, state.cadence, state.anchor)
    IN  CASE ~Eligible(state, n) -> Unchanged("CADENCE_SKIP", FALSE)
          [] Eligible(state, n) /\ (spend + Allowance > Ceiling \/ breach) ->
                 Unchanged("COST_CADENCE_REFUSAL", breach)
          [] Eligible(state, n) /\ spend + Allowance <= Ceiling /\ ~breach ->
                 IF state.cadence # "WEEKLY" /\ spend > Trigger
                 THEN Refused("CADENCE_SKIP", FALSE,
                              IF state.cadence = "DAILY" THEN "EVERY_2_DAYS" ELSE "WEEKLY", n)
                 ELSE Unchanged("PROCEED", FALSE)

Lower(cadence) ==
    CASE cadence = "DAILY" -> {"DAILY", "EVERY_2_DAYS"}
      [] cadence = "EVERY_2_DAYS" -> {"EVERY_2_DAYS", "WEEKLY"}
      [] cadence = "WEEKLY" -> {"WEEKLY"}

\* validate_control_state_transition between two control states of a chain
TransitionValid(p, s) ==
    LET d == Decision(p, s.spend, s.slot)
    IN  /\ s.index = IF s.kind = "SLOT" THEN s.slot ELSE p.index
        /\ s.kind = "SLOT" => s.slot = p.index + 1
        /\ p.consumed => s.consumed /\ s.reason = p.reason
        /\ ~p.consumed /\ s.kind = "REFUSAL" =>
              /\ s.consumed = d.consume
              /\ s.reason = IF d.consume THEN d.outcome ELSE None
        /\ s.cadence \in Lower(p.cadence)
        /\ IF s.cadence # p.cadence
           THEN s.kind = "REFUSAL" /\ d.cadence = s.cadence /\ d.anchor = s.anchor
           ELSE s.anchor = p.anchor
        /\ s.kind = "REFUSAL" => d.outcome = s.outcome /\ d.outcome # "PROCEED"

\* latest_durable_control_state_source: from the frontier through the refusals
\* linked to it, each re-derived and validated.
Follow[i \in 0..MaxRuns] ==
    LET refusals == Refusals(i)
        r == CHOOSE x \in refusals : TRUE
    IN  IF refusals = {} THEN i
        ELSE IF refusals = {r} /\ TransitionValid(bundle[i], bundle[r]) THEN Follow[r] ELSE Broken

Durable == IF Linked(Frontier) THEN Follow[AtSlot(Frontier)] ELSE Broken

----------------------------------------------------------------------------
\* GitHub.

NextDay ==
    /\ day <= SlotCount
    /\ day' = day + 1
    /\ UNCHANGED <<base, slot, pc, cost, status, bundle>>

Age ==
    /\ base > 0
    /\ base' = base - 1
    /\ UNCHANGED <<day, slot, pc, cost, status, bundle>>

\* Mutant: an invocation takes the first slot nobody has published.
Fire_NextSlot(r) ==
    /\ day \in Slots /\ Frontier < SlotCount
    /\ pc[r] = "none" /\ \A q \in Runs : q < r => pc[q] # "none"
    /\ slot' = [slot EXCEPT ![r] = Frontier + 1]
    /\ pc' = [pc EXCEPT ![r] = "queued"]
    /\ UNCHANGED <<day, base, cost, status, bundle>>

\* An invocation is created in interval day.
Fire(r) ==
    /\ day \in Slots
    /\ pc[r] = "none" /\ \A q \in Runs : q < r => pc[q] # "none"
    /\ slot' = [slot EXCEPT ![r] = day]
    /\ pc' = [pc EXCEPT ![r] = "queued"]
    /\ UNCHANGED <<day, base, cost, status, bundle>>

\* Nothing is published: an event, attempt, ref or source that is not the frozen
\* one, another early exit or a failed step, an exception, a lost runner, a
\* failed upload, a cancelled or superseded pending run.
Ends(r) ==
    /\ pc[r] \in {"queued", "ran"}
    /\ pc' = [pc EXCEPT ![r] = "done"]
    /\ status' = [status EXCEPT ![r] = None]
    /\ UNCHANGED <<day, base, slot, cost, bundle>>

----------------------------------------------------------------------------
\* run_scheduled.

\* S01 to S06: the decision is taken on the durable state.
Evaluated(r, outcomes) ==
    /\ pc[r] = "queued" /\ \A q \in Runs : pc[q] # "ran"
    /\ LET i == Durable
           d == bundle[i]
       IN  i # Broken /\ Decision(d, Spend(d.rows), slot[r]).outcome \in outcomes

\* S07 to S12: the run is permitted, paid for and ends, in the ledger it
\* restored.  What it costs and how it ends stays its own until it publishes.
Execute(r) ==
    /\ Evaluated(r, {"PROCEED"})
    /\ pc' = [pc EXCEPT ![r] = "ran"]
    /\ \E price \in Costs : cost' = [cost EXCEPT ![r] = price]
    /\ \E end \in {"COMPLETED", "FAILED"} : status' = [status EXCEPT ![r] = end]
    /\ UNCHANGED <<day, base, slot, bundle>>

\* Mutant: the anchor of a reduced cadence is not moved.
RefusalBundle_KeepAnchor(r, i) ==
    LET d == bundle[i]
        spend == Spend(d.rows)
        decision == Decision(d, spend, slot[r])
    IN  [kind |-> "REFUSAL", slot |-> slot[r], pred |-> i, outcome |-> decision.outcome,
         rows |-> d.rows, spend |-> spend, index |-> d.index,
         consumed |-> d.consumed \/ decision.consume,
         reason |-> IF decision.consume THEN decision.outcome ELSE d.reason,
         cadence |-> decision.cadence, anchor |-> d.anchor]

\* The state a refusal carries (_refusal_control_state).
RefusalBundle(r, i) ==
    LET d == bundle[i]
        spend == Spend(d.rows)
        decision == Decision(d, spend, slot[r])
    IN  [kind |-> "REFUSAL", slot |-> slot[r], pred |-> i, outcome |-> decision.outcome,
         rows |-> d.rows, spend |-> spend, index |-> d.index,
         consumed |-> d.consumed \/ decision.consume,
         reason |-> IF decision.consume THEN decision.outcome ELSE d.reason,
         cadence |-> decision.cadence, anchor |-> decision.anchor]

Refuse(r) ==
    /\ Evaluated(r, {"COST_CADENCE_REFUSAL", "CADENCE_SKIP"})
    /\ pc' = [pc EXCEPT ![r] = "done"]
    /\ bundle' = [bundle EXCEPT ![r] = RefusalBundle(r, Durable)]
    /\ UNCHANGED <<day, base, slot, cost, status>>

\* Mutant: a failed run is not told from a completed one.
Claimed_AnyStatus(r, d) == IF d.consumed THEN "STATE_CHAIN_FAILURE" ELSE "QUALIFYING"

\* derive_pre_successor_outcome, then derive_timing_outcome, on the durable
\* state d: an owned slot is on time.
Claimed(r, d) ==
    IF d.consumed THEN "STATE_CHAIN_FAILURE"
    ELSE IF status[r] # "COMPLETED" THEN "FAILED_NONTERMINAL" ELSE "QUALIFYING"

\* Mutant: the clean shape is tried before the post-run trigger.
Consumption_CleanFirst(outcome, n, p, spend) ==
    CASE outcome # "QUALIFYING" -> [consumed |-> TRUE, reason |-> outcome]
      [] outcome = "QUALIFYING" /\ n = SlotCount -> [consumed |-> TRUE, reason |-> None]
      [] outcome = "QUALIFYING" /\ ~p.consumed /\ spend > Trigger /\ n # SlotCount ->
             [consumed |-> TRUE, reason |-> "POST_RUN_COST_TRIGGER"]
      [] OTHER -> [consumed |-> p.consumed, reason |-> p.reason]

\* Mutant: the post-run trigger is never evaluated.
Consumption_NoPostRun(outcome, n, p, spend) ==
    CASE outcome # "QUALIFYING" -> [consumed |-> TRUE, reason |-> outcome]
      [] outcome = "QUALIFYING" /\ n = SlotCount -> [consumed |-> TRUE, reason |-> None]
      [] OTHER -> [consumed |-> p.consumed, reason |-> p.reason]

\* _slot_successor_control_state: what becomes of the window at slot n, from the
\* state p of the predecessor slot.
Consumption(outcome, n, p, spend) ==
    LET crossed == ~p.consumed /\ spend > Trigger
    IN  CASE outcome # "QUALIFYING" -> [consumed |-> TRUE, reason |-> outcome]
          [] outcome = "QUALIFYING" /\ crossed ->
                 [consumed |-> TRUE, reason |-> "POST_RUN_COST_TRIGGER"]
          [] outcome = "QUALIFYING" /\ ~crossed /\ n = SlotCount ->
                 [consumed |-> TRUE, reason |-> None]
          [] OTHER -> [consumed |-> p.consumed, reason |-> p.reason]

SlotBundle(n, i, outcome, rows, spend) ==
    LET p == bundle[i]
        c == Consumption(outcome, n, p, spend)
    IN  [kind |-> "SLOT", slot |-> n, pred |-> i, outcome |-> outcome,
         rows |-> rows, spend |-> spend, index |-> n,
         consumed |-> c.consumed, reason |-> c.reason,
         cadence |-> p.cadence, anchor |-> p.anchor]

\* The ledger is the durable one, d's, with this run's row; the rest descends
\* from the predecessor slot.
Successor(r, d) ==
    LET rows == d.rows \cup {r}
    IN  SlotBundle(slot[r], AtSlot(slot[r] - 1), Claimed(r, d), rows, Spend(rows))

\* authorized_predecessor raises on a gap or an ambiguity before the slot.
HasPredecessor(r) == Linked(slot[r] - 1)

\* classify_run: the outcome computed without the claim s.outcome, and the
\* binding of s's consumption to it.
Classified(p, s) ==
    IF s.outcome = "QUALIFYING" /\ ~TransitionValid(p, s) THEN "STATE_CHAIN_FAILURE" ELSE s.outcome

BindingHolds(outcome, p, s) ==
    CASE outcome # "QUALIFYING" -> s.consumed /\ s.reason = outcome
      [] outcome = "QUALIFYING" /\ s.spend > Trigger /\ ~p.consumed ->
             s.consumed /\ s.reason = "POST_RUN_COST_TRIGGER"
      [] outcome = "QUALIFYING" /\ (s.spend <= Trigger \/ p.consumed) /\ s.slot = SlotCount ->
             s.consumed /\ s.reason = None
      [] OTHER -> s.consumed = p.consumed

Agrees(p, s) == Classified(p, s) = s.outcome /\ BindingHolds(s.outcome, p, s)

\* S13 to S17 and the upload.
Publish(r) ==
    /\ pc[r] = "ran"
    /\ HasPredecessor(r)
    /\ pc' = [pc EXCEPT ![r] = "done"]
    /\ LET s == Successor(r, bundle[Durable])
       IN  Agrees(bundle[s.pred], s) /\ bundle' = [bundle EXCEPT ![r] = s]
    /\ UNCHANGED <<day, base, slot, cost, status>>

----------------------------------------------------------------------------
QualificationNext ==
    \/ NextDay \/ Age
    \/ \E r \in Runs :
          Fire(r) \/ Execute(r) \/ Refuse(r) \/ Publish(r) \/ Ends(r)

QualificationSpec == QualificationInit /\ [][QualificationNext]_qualificationVars

----------------------------------------------------------------------------
\* Properties.

\* is_clean_five_of_five_completion over everything published.
Clean ==
    LET At(n) == bundle[AtSlot(n)]
    IN  /\ Linked(SlotCount)
        /\ \A n \in Slots : At(n).outcome = "QUALIFYING" /\ TransitionValid(At(n - 1), At(n))
        /\ At(SlotCount).consumed /\ At(SlotCount).reason = None
        /\ At(SlotCount).index = SlotCount

FiredIn(n) == {r \in Runs : slot[r] = n}

\* A clean completion is earned: each slot by a run created in its own interval
\* that completed live, whose cost is in every ledger from there on and never
\* took the spend past the trigger.  If moreover the review finds one invocation
\* per interval, no cost of the window went unaccounted.
CleanIsEarned ==
    Clean =>
        LET At(n) == AtSlot(n)
        IN  /\ \A n \in Slots :
                  /\ slot[At(n)] = n /\ status[At(n)] = "COMPLETED"
                  /\ bundle[At(n)].spend <= Trigger
                  /\ \A m \in n..SlotCount : At(n) \in bundle[At(m)].rows
            /\ (\A n \in Slots : Cardinality(FiredIn(n)) = 1) =>
                  {r \in Runs : cost[r] > 0} \subseteq bundle[At(SlotCount)].rows

\* A slot is lost when its interval is over, its jobs are, and nothing of it
\* was published.
Lost(n) ==
    /\ day > n
    /\ \A r \in FiredIn(n) : pc[r] = "done"
    /\ SlotBundles(n) = {}

Failed ==
    /\ ~Clean
    /\ \/ \E n \in Slots : Lost(n)
       \/ LET i == Durable IN i = Broken \/ bundle[i].consumed

\* A failed window is never repaired: once it is consumed, its chain is broken
\* or a slot is lost, no later or slower invocation makes it clean, or usable,
\* again.
FailureIsFinal == [][Failed => Failed']_qualificationVars

\* The durable state tells the truth about money, and the code that writes
\* state agrees with the code that checks it: an active window never carries a
\* spend past the trigger (a crossing is noted by the run that causes it) nor a
\* reduced cadence; every refusal is re-derived as it was written; and no paid
\* run is thrown away because classifier and builder disagree.
StateIsTrue ==
    /\ LET i == Durable
       IN  i # Broken /\ ~bundle[i].consumed =>
              Spend(bundle[i].rows) <= Trigger /\ bundle[i].cadence = "DAILY"
    /\ \A r \in Runs : bundle[r].kind = "REFUSAL" => TransitionValid(bundle[bundle[r].pred], bundle[r])
    /\ \A r \in Runs : pc[r] = "ran" /\ HasPredecessor(r) =>
          LET s == Successor(r, bundle[Durable]) IN Agrees(bundle[s.pred], s)

\* Every published state is well-formed and true.
StatesSound == QualificationTypeOK /\ StateIsTrue
=============================================================================
