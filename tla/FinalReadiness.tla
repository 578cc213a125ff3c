--------------------------- MODULE FinalReadiness ---------------------------
(* From the readiness source commit R to commit A, which arms the one        *)
(* replacement attempt: the B6-3 record that lets R be made, the probe at R, *)
(* collect-final, authorize with its two retained copies and the one latch   *)
(* line, the push, and confirm-a (sentinel/phase5/readiness.py and           *)
(* final_readiness.py, scripts/run_phase5_readiness.py and                   *)
(* run_phase5_final_readiness.py).  GitHub's server clock ticks between any  *)
(* two steps, other commits reach main, a copy can be lost, a command can    *)
(* fail or be killed anywhere.  Evidence is the times it was read at and the *)
(* components it passes; a SHA-256 is the record it is the digest of.        *)
EXTENDS Naturals, Sequences, FiniteSets, FiniteSetsExt

CONSTANTS
    PrePush,     \* PRE_PUSH_MAX_AGE
    Margin,      \* PUSH_MARGIN
    MaxAttempts, \* MAX_ATTEMPTS
    Deadline,    \* AUTH_HISTORY_DEADLINE
    MaxProbes,   \* bound: probes dispatched at R
    MaxPairs,    \* bound: authorize commands
    MaxTime,     \* bound: the last instant
    None         \* a model value: nothing there

VARIABLES
    now,        \* GitHub's server time
    baseline,   \* statuses of the B6-3 record, or None
    armed,      \* R is made and pushed
    go,         \* when the conditional GO was issued
    ruled,      \* when the runtime's one difference was adjudicated; MaxTime + 1 is never
    differs,    \* the runner's distributions differ from the baseline's
    ci,         \* when CI succeeded on R
    probes,     \* the probe runs at R, oldest first
    readback,   \* the last Console, lifecycle and exchange-rate readback
    draft,      \* the draft file
    step,       \* where authorize stands
    doc,        \* the record authorize works on
    pairs,      \* the retained copies, one pair of paths per authorize
    kept,       \* history: the records that had both copies on disk
    latch,      \* the ATTEMPT_AUTHORIZED line of the working tree, or None
    headLine,   \* the one HEAD carries
    main,       \* the commits on main after R
    confirmed   \* the record confirm-a passed, or None

given == <<go, ruled, differs, ci>>
evidence == <<given, probes, readback>>
tree == <<latch, headLine, main>>
authorizing == <<step, doc, pairs, kept>>
readinessVars == <<now, baseline, armed, evidence, draft, authorizing, tree, confirmed>>

T2MaxAge == PrePush + Margin
Never == MaxTime + 1

\* A representative component of every kind of evidence, its row and the
\* provenance groups it is read from.
Components == {"wif", "rule", "source", "drift", "cap", "lifecycle", "probe", "latch"}
Rows == {{"wif", "rule"}, {"source", "drift", "cap", "lifecycle"}, {"probe"}, {"latch"}}
DeferredComponents == {"rule", "cap"}
Provenance(c) ==
    CASE c \in {"wif", "source", "latch"} -> {"LOCAL", "REST"}
      [] c = "rule" -> {"OWNER", "REST"}
      [] c = "cap" -> {"OWNER", "WEB"}
      [] c = "drift" -> {"RUNNER", "REST"}
      [] c = "lifecycle" -> {"WEB", "RUNNER", "LOCAL"}
      [] c = "probe" -> {"RUNNER"}

Times == 0..MaxTime
Probe == [created : Times, floor : 0..Never, pass : BOOLEAN]
Readback == [opened : Times, closed : Times, web : Times, ok : BOOLEAN]
Draft == [attempt : 1..MaxProbes, created : Times, floor : 0..Never, local : Times, read : Times,
          opened : Times, closed : Times, web : Times, pass : SUBSET Components, at : 0..Never]
Status == {"PASS", "FAIL", "DEFERRED"}

\* Nothing is no record.
ASSUME ReadinessAssumption ==
    /\ PrePush \in Nat /\ Margin \in Nat /\ MaxAttempts \in Nat
    /\ Deadline \in Nat /\ MaxProbes \in Nat /\ MaxPairs \in Nat /\ MaxTime \in Nat \ {0}
    /\ None \notin Draft

ReadinessTypeOK ==
    /\ now \in Times /\ go \in Times /\ ci \in Times /\ ruled \in 0..Never /\ differs \in BOOLEAN
    /\ armed \in BOOLEAN /\ (baseline = None \/ baseline \in [Components -> Status])
    /\ Len(probes) <= MaxProbes /\ \A i \in DOMAIN probes : probes[i] \in Probe
    /\ readback = None \/ readback \in Readback
    /\ draft = None \/ draft \in Draft
    /\ step \in {"idle", "checked", "frozen", "bound", "appended"}
    /\ (step = "idle") = (doc = None) /\ (doc = None \/ doc \in Draft)
    /\ Len(pairs) <= MaxPairs
    /\ \A p \in DOMAIN pairs : \A i \in 1..2 : pairs[p][i] = None \/ pairs[p][i] \in Draft
    /\ kept \subseteq Draft
    /\ \A l \in {latch, headLine, confirmed} : l = None \/ l \in Draft
    /\ \A i \in DOMAIN main : main[i].at \in Times /\ (main[i].line = None \/ main[i].line \in Draft)

ReadinessInit ==
    /\ now = 0 /\ baseline = None /\ armed = FALSE
    \* An early GO with a late CI and the reverse; no difference, one
    \* ruled upon before or after the first probe, one never ruled upon.
    /\ \E d \in {<<0, 1, FALSE, Never>>, <<0, 0, TRUE, 1>>, <<1, 0, TRUE, Never>>} :
          go = d[1] /\ ci = d[2] /\ differs = d[3] /\ ruled = d[4]
    /\ probes = <<>> /\ readback = None
    /\ draft = None
    /\ step = "idle" /\ doc = None /\ pairs = <<>> /\ kept = {}
    /\ latch = None /\ headLine = None /\ main = <<>> /\ confirmed = None

----------------------------------------------------------------------------
(* The B6-3 record *)

\* aggregate: FAIL dominates DEFERRED dominates PASS.
Aggregate(statuses) ==
    IF "FAIL" \in statuses THEN "FAIL" ELSE IF "DEFERRED" \in statuses THEN "DEFERRED" ELSE "PASS"

\* evaluate_arming_eligibility: the exact deferred shape, component by
\* component and row by row.
ArmingEligible(record) ==
    /\ {c \in Components : record[c] = "FAIL"} = {}
    /\ {c \in Components : record[c] = "DEFERRED"} = DeferredComponents
    /\ \A row \in Rows : Aggregate({record[c] : c \in row}) =
                            IF row \cap DeferredComponents = {} THEN "PASS" ELSE "DEFERRED"

\* build_record defers the provider's components and evaluates the others.
BuildBaseline ==
    /\ baseline = None
    /\ UNCHANGED armed
    /\ \E failing \in {{}} \cup {{c} : c \in Components \ DeferredComponents} :
          baseline' = [c \in Components |->
                          IF c \in failing THEN "FAIL"
                          ELSE IF c \in DeferredComponents THEN "DEFERRED" ELSE "PASS"]
    /\ UNCHANGED <<now, evidence, draft, authorizing, tree, confirmed>>

\* R is made and pushed only when the record's rows allow it.
Arm ==
    /\ baseline # None /\ ~armed
    /\ IF ArmingEligible(baseline) THEN armed' = TRUE /\ UNCHANGED baseline
       ELSE baseline' = None /\ UNCHANGED armed
    /\ UNCHANGED <<now, evidence, draft, authorizing, tree, confirmed>>

----------------------------------------------------------------------------
(* Evidence *)

\* Bound: nothing is collected once commit A or another one is on R; no
\* action of collect-final or authorize succeeds on what is collected then.
Gathering == armed /\ headLine = None /\ main = <<>>

Tick ==
    /\ armed /\ confirmed = None /\ now < MaxTime
    /\ now' = now + 1
    /\ UNCHANGED <<baseline, armed, evidence, draft, authorizing, tree, confirmed>>

\* A dispatch of the read probe at R; floor is its first server time.
RunProbe ==
    /\ Gathering /\ step = "idle" /\ Len(probes) < MaxProbes
    /\ \E result \in {<<0, TRUE>>, <<1, TRUE>>, <<0, FALSE>>} :
          probes' = Append(probes, [created |-> now, floor |-> now + result[1], pass |-> result[2]])
    /\ UNCHANGED <<now, baseline, armed, given, readback, draft, authorizing, tree, confirmed>>

\* The owner's bracketed readback of rule and cap, closed as it is written, and
\* the agent's of the model's lifecycle and the exchange rate.
ReadBack ==
    /\ Gathering /\ step = "idle" /\ probes # <<>>
    /\ \E result \in {<<0, 0, TRUE>>, <<1, 1, TRUE>>, <<0, 0, FALSE>>} :
          /\ result[1] <= now
          /\ readback' = [opened |-> now - result[1], closed |-> now,
                          web |-> now - result[2], ok |-> result[3]]
    /\ UNCHANGED <<now, baseline, armed, given, probes, draft, authorizing, tree, confirmed>>

\* Another commit reaches main, ours does not any more.
OtherCommit ==
    /\ armed /\ confirmed = None /\ \A i \in DOMAIN main : main[i].line # None
    /\ main' = Append(main, [line |-> None, at |-> 0])
    /\ UNCHANGED <<now, baseline, armed, evidence, draft, authorizing, latch, headLine, confirmed>>

----------------------------------------------------------------------------
(* collect-final *)

Last(s) == s[Len(s)]

\* Mutant: any probe of the run list will do.
ProbeBound_Any(n) == n >= 1

\* probe_binding and the draft's validator: attempt n has exactly n probes at R.
ProbeBound(n) == n \in 1..MaxAttempts

\* ProbeBinding: the PASS evidence of this run, whose server time is over.
ProbeValid(probe) == probe.pass /\ probe.floor <= now

\* evaluate_runtime_drift and _adjudication_reasons: exactly the differences
\* observed are adjudicated.
DriftAdjudicated == differs <=> ruled # Never

\* evaluate_armed_latch_row: armed, and still nothing authorized.
LatchUnauthorized == latch = None

\* evaluate_replacement_rule, evaluate_cap, evaluate_model_lifecycle.
OwnerReadsPass == readback.ok
LifecyclePasses == readback.ok

\* build_final_draft, over what is there now.
Passing ==
    {c \in Components :
        CASE c = "source" -> headLine = None /\ latch = None /\ main = <<>>
          [] c = "latch" -> LatchUnauthorized
          [] c \in {"rule", "cap"} -> OwnerReadsPass
          [] c = "lifecycle" -> LifecyclePasses
          [] c = "drift" -> DriftAdjudicated
          [] c \in {"probe", "wif"} -> TRUE}

\* t_local is read before anything else is.
Collect ==
    /\ Gathering /\ probes # <<>> /\ readback # None
    /\ ProbeBound(Len(probes)) /\ ci <= now
    /\ ProbeValid(Last(probes))
    /\ \E local \in {t \in Times : t <= now /\ now <= t + 1} :
          draft' = [attempt |-> Len(probes), created |-> Last(probes).created, floor |-> Last(probes).floor,
                    local |-> local, read |-> now, opened |-> readback.opened, closed |-> readback.closed,
                    web |-> readback.web, pass |-> Passing, at |-> Never]
    /\ UNCHANGED <<now, baseline, armed, evidence, authorizing, tree, confirmed>>

----------------------------------------------------------------------------
(* The verdict *)

Stamp(d, group) ==
    CASE group = "RUNNER" -> d.floor
      [] group \in {"REST", "LOCAL"} -> d.local
      [] group = "OWNER" -> d.opened
      [] group = "WEB" -> d.web

\* evidence_stamps: the groups', the components' earliest one, the brackets'.
Stamps(d) ==
    {Stamp(d, g) : g \in {"RUNNER", "REST", "LOCAL", "OWNER", "WEB"}}
    \cup {Min({Stamp(d, g) : g \in Provenance(c)}) : c \in Components}
    \cup {d.opened, d.closed, d.web}

\* anchor_problems, none found.
AnchorsHold(d) ==
    /\ ci <= d.floor
    /\ go < d.created /\ d.created <= d.floor
    /\ ruled # Never => ruled < d.created

\* Mutant: the window has no lower end.
WindowHolds_UpperOnly(d, upper) ==
    /\ \A t \in Stamps(d) : t <= upper
    /\ upper <= d.floor + PrePush /\ d.closed < Deadline

\* window_problems, none found.
WindowHolds(d, upper) ==
    /\ \A t \in Stamps(d) : d.floor <= t /\ t <= upper
    /\ upper <= d.floor + PrePush
    /\ d.closed < Deadline

\* evaluate_final.
Eligible(d, upper) ==
    d.pass = Components /\ AnchorsHold(d) /\ WindowHolds(d, upper) /\ DriftAdjudicated

----------------------------------------------------------------------------
(* authorize *)

Outside == UNCHANGED <<now, baseline, armed, evidence, draft, confirmed>>
\* Mutant: a refusal leaves the record in place.
Refuse_Keeps == step' = "idle" /\ UNCHANGED doc

Refuse == step' = "idle" /\ doc' = None

\* Step 0: the repository is exactly at R, the latch is the committed one, the
\* two paths named this time are new.
Check ==
    /\ step = "idle" /\ draft # None /\ confirmed = None /\ Len(pairs) < MaxPairs
    /\ IF headLine = None /\ main = <<>> /\ latch = None /\ AnchorsHold(draft)
       THEN /\ step' = "checked" /\ doc' = draft
            /\ pairs' = Append(pairs, <<None, None>>)
       ELSE Refuse /\ UNCHANGED pairs
    /\ UNCHANGED kept /\ UNCHANGED tree /\ Outside

\* Steps 1 to 4: the one server time, the verdict, the one construction.
Freeze ==
    /\ step = "checked"
    /\ IF Eligible(doc, now)
       THEN step' = "frozen" /\ doc' = [doc EXCEPT !.at = now]
       ELSE Refuse
    /\ UNCHANGED <<pairs, kept>> /\ UNCHANGED tree /\ Outside

\* Steps 5 and 6, one exclusive and synced write each, then both read back;
\* the second write may fail.
Retain ==
    /\ step = "frozen"
    /\ \/ /\ pairs' = [pairs EXCEPT ![Len(pairs)] = <<doc, doc>>]
          /\ kept' = kept \cup {doc}
          /\ step' = "bound" /\ UNCHANGED doc
       \/ /\ pairs' = [pairs EXCEPT ![Len(pairs)] = <<doc, None>>]
          /\ Refuse /\ UNCHANGED kept
    /\ UNCHANGED tree /\ Outside

\* Mutant: the line is written from the draft of the moment.
LineOf_Draft(d) == draft

LineOf(d) == d

\* Steps 7 and 8: append_attempt_authorized, only onto the unarmed latch.
AppendLine ==
    /\ step = "bound"
    /\ IF latch = None THEN latch' = LineOf(doc) /\ step' = "appended" /\ UNCHANGED doc
       ELSE Refuse /\ UNCHANGED latch
    /\ UNCHANGED <<pairs, kept, headLine, main>> /\ Outside

\* The checks after the append: a failed one restores the latch to R's bytes.
FinishAuthorize ==
    /\ step = "appended" /\ Refuse
    /\ latch' \in {latch, headLine}
    /\ UNCHANGED <<pairs, kept, headLine, main>> /\ Outside

\* A git or network command fails, a write fails or the process is killed:
\* nothing is undone.
Stopped ==
    /\ step # "idle" /\ Refuse
    /\ UNCHANGED <<pairs, kept>> /\ UNCHANGED tree /\ Outside

\* A copy is lost or damaged before confirm-a reads it.
Damage ==
    /\ step = "idle" /\ headLine # None /\ confirmed = None
    /\ \E p \in DOMAIN pairs :
          pairs[p][1] # None /\ pairs' = [pairs EXCEPT ![p][1] = None]
    /\ UNCHANGED <<step, doc, kept>> /\ UNCHANGED tree /\ Outside

----------------------------------------------------------------------------
(* commit A and confirm-a *)

\* The owner commits the latch line, however authorize ended, and pushes it:
\* main takes it only on top of R.
PushA ==
    /\ step = "idle" /\ latch # None /\ headLine = None
    /\ headLine' = latch
    /\ main' = IF main = <<>> THEN <<[line |-> latch, at |-> now]>> ELSE main
    /\ UNCHANGED latch /\ UNCHANGED authorizing /\ Outside

\* The owner takes the line back before it was pushed.
Discard ==
    /\ step = "idle" /\ latch # None /\ headLine = None
    /\ latch' = None
    /\ UNCHANGED <<headLine, main>> /\ UNCHANGED authorizing /\ Outside

\* final_t2_satisfied.
FreshAt(t, at) == t <= at /\ at <= t + T2MaxAge

\* post_push_problems, none found.
PushedInTime(d, at) ==
    /\ d.at <= at /\ at <= d.at + Margin
    /\ FreshAt(d.floor, at)

ConfirmA ==
    /\ confirmed = None /\ headLine # None
    /\ \E p \in DOMAIN pairs :
          /\ pairs[p][1] # None /\ pairs[p][1] = pairs[p][2]
          /\ headLine = pairs[p][1]
          /\ Len(main) = 1 /\ main[1].line = headLine /\ latch = headLine
          /\ Eligible(headLine, headLine.at)
          /\ PushedInTime(headLine, main[1].at)
    /\ confirmed' = headLine
    /\ UNCHANGED <<now, baseline, armed, evidence, draft, authorizing, tree>>

----------------------------------------------------------------------------
World == Tick \/ RunProbe \/ ReadBack \/ OtherCommit \/ Damage
Authorize == Check \/ Freeze \/ Retain \/ AppendLine \/ FinishAuthorize \/ Stopped
ReadinessNext ==
    \/ BuildBaseline \/ Arm \/ World
    \/ Collect \/ Authorize \/ PushA \/ Discard \/ ConfirmA

ReadinessSpec == ReadinessInit /\ [][ReadinessNext]_readinessVars

----------------------------------------------------------------------------
(* Properties *)

Lines == {latch, headLine} \cup {main[i].line : i \in DOMAIN main}

\* Whatever happened to authorize, a line in the working tree, in HEAD or on
\* main is the line of a record that was in two retained copies before it was
\* appended and that every component passes.
LineIsBacked == \A l \in Lines \ {None} : l \in kept /\ l.pass = Components

\* At most MaxAttempts probes at R ever lead to a line, and the owner's GO and
\* rulings were there before the probe they lead from.
AttemptsBounded ==
    \A l \in Lines \ {None} :
        /\ l.attempt <= MaxAttempts
        /\ l.created = probes[l.attempt].created
        /\ go < l.created /\ (differs => ruled < l.created)

\* Every record is well-formed and its attempt accounted for.
AttemptsSound == ReadinessTypeOK /\ AttemptsBounded

\* When confirm-a passes, all that the armed attempt rests on was really read
\* at R, after its CI, at most two hours before commit A was pushed.
ConfirmedIsFresh ==
    confirmed # None =>
        /\ main[1].line = confirmed
        /\ \A t \in {confirmed.floor, confirmed.read, confirmed.opened, confirmed.closed, confirmed.web} :
              ci <= t /\ t <= main[1].at /\ main[1].at <= t + T2MaxAge
=============================================================================
