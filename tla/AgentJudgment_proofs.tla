------------------------- MODULE AgentJudgment_proofs -------------------------
(* Theorems about AgentJudgment: what a run accounts for stays within its    *)
(* budget and one overshoot, a call is repeated for one reason only, and the *)
(* rows say what was answered, for every number of tasks, every budget and   *)
(* every combination of faults.                                              *)
EXTENDS AgentJudgment, FiniteSums, SequenceTheorems

----------------------------------------------------------------------------
\* The inductive invariant.

Busy == {"auth", "reserve", "insert", "invoke", "terminalize", "advance"}
InCall == {"invoke", "terminalize", "advance"}      \* the attempt has its row
Held == {"insert"} \cup InCall                      \* it has its reservation

\* What the coordinator knows of the judgment in hand, by where it is.
HandInv ==
    /\ pc = "idle" => task = NoTask
    /\ pc \in Busy => task \in Tasks /\ ~faulted
    /\ task \in Tasks => verdict[task] = "none"
    /\ pc \in {"idle", "auth"} => attempt = 0
    /\ pc \in Held \cup {"reserve"} => attempt >= 1
    /\ pc \in Held => amount >= 1 /\ amount <= held
    /\ pc \in {"terminalize", "advance"} =>
          /\ class = "SDK_BUDGET_CEILING" <=> tries <= MaxTools /\ reported = "ceiling"
          /\ charge <= amount + Overshoot

\* The row an invocation settles.
Settled == [task |-> task, state |-> IF class = "NONE" THEN "COMPLETED" ELSE "FAILED",
            reserved |-> amount, charged |-> charge, class |-> class, result |-> reported,
            proposals |-> tries, kept |-> kept]

\* The last row is the one of the call in hand.
LastRow ==
    /\ pc \in InCall => calls # <<>>
    /\ pc \in {"invoke", "terminalize"} => calls[Len(calls)] = Row(task, "RESERVED", amount)
    /\ pc = "advance" => calls[Len(calls)] = Settled

\* An invocation was paid for, and a row says whether it hit its own ceiling.
SoundRow(c) ==
    /\ c.state \in {"RESERVED", "COMPLETED", "FAILED"} => c.reserved > 0
    /\ c.state = "FAILED" =>
          (c.class = "SDK_BUDGET_CEILING"
             <=> c.proposals <= MaxTools /\ c.result = "ceiling" /\ c.reserved > 0)

CeilingRow(c) == c.state = "FAILED" /\ c.class = "SDK_BUDGET_CEILING"

RowInv == \A i \in DOMAIN calls : SoundRow(calls[i])

InvokedOf(t) == {i \in RowsOf(t) : Invoked(i)}

\* A task that has rows was judged or is in hand, all of its rows but the last
\* hit their ceiling, and it was invoked once per attempt.
HistoryInv ==
    /\ \A t \in Tasks : t # task /\ verdict[t] = "none" => RowsOf(t) = {}
    /\ \A t \in Tasks : \A i, j \in RowsOf(t) : i < j => CeilingRow(calls[i])
    /\ \A t \in Tasks : Cardinality(InvokedOf(t)) <= MaxAttempts
    /\ pc = "auth" => RowsOf(task) = {}
    /\ pc \in {"reserve", "insert"} =>
          /\ \A i \in RowsOf(task) : CeilingRow(calls[i])
          /\ Cardinality(RowsOf(task)) = attempt - 1
    /\ pc \in InCall => Cardinality(RowsOf(task)) = attempt

\* What the ledger accounts for: every row, and every row before the last.
Spent == CostOf(DOMAIN calls)
SpentBefore == CostOf(DOMAIN calls \ {Len(calls)})

\* The memory never knows less than the ledger, until accounting fails; and a
\* call is covered by what remained when it was reserved.
MoneyInv ==
    /\ Spent <= Total + Overshoot
    /\ pc \in {"idle", "auth", "reserve", "invoke", "terminalize"} /\ ~faulted => Spent <= committed + held
    /\ pc = "insert" => Spent + amount <= committed + held
    /\ pc = "insert" => Spent < Total /\ Spent + amount <= Total
    /\ pc = "advance" => Spent + amount <= committed + held + charge
    /\ pc \in {"invoke", "terminalize"} => SpentBefore < Total /\ Spent <= Total

JudgmentInv == TypeOK /\ HandInv /\ LastRow /\ RowInv /\ HistoryInv /\ MoneyInv /\ VerdictsBacked

----------------------------------------------------------------------------
\* The rows and their sum.

ChargeOf(c) == IF c.state = "RESERVED" THEN c.reserved ELSE c.charged
Charges(rows) == [i \in DOMAIN rows |-> ChargeOf(rows[i])]

LEMMA RowsAreFinite ==
    ASSUME NEW rows \in Seq(CallRows)
    PROVE  /\ Len(rows) \in Nat /\ DOMAIN rows = 1..Len(rows)
           /\ \A S \in SUBSET DOMAIN rows : IsFiniteSet(S) /\ Cardinality(S) \in Nat
           /\ \A i \in DOMAIN rows : rows[i] \in CallRows /\ ChargeOf(rows[i]) \in Nat
           /\ \A S \in SUBSET DOMAIN rows : SumFunctionOnSet(Charges(rows), S) \in Nat
<1>1. Len(rows) \in Nat /\ DOMAIN rows = 1..Len(rows)
    OBVIOUS
<1>2. IsFiniteSet(DOMAIN rows)
    BY <1>1, FS_Interval
<1>3. ASSUME NEW S \in SUBSET DOMAIN rows PROVE IsFiniteSet(S) /\ Cardinality(S) \in Nat
    BY <1>2, FS_Subset, FS_CardinalityType
<1>4. ASSUME NEW i \in DOMAIN rows PROVE rows[i] \in CallRows /\ ChargeOf(rows[i]) \in Nat
    <2>1. rows[i] \in CallRows
        BY <1>1, ElementOfSeq
    <2>2. rows[i].reserved \in 0..CallCap /\ rows[i].charged \in 0..MaxCharge
        BY <2>1 DEF CallRows
    <2>3. rows[i].reserved \in Nat /\ rows[i].charged \in Nat
        BY <2>2
    <2> QED BY <2>1, <2>3 DEF ChargeOf
<1>5. ASSUME NEW S \in SUBSET DOMAIN rows PROVE SumFunctionOnSet(Charges(rows), S) \in Nat
    <2>1. \A i \in S : Charges(rows)[i] \in Nat
        BY <1>4 DEF Charges
    <2> QED BY <1>3, <2>1, SumType
<1> QED BY <1>1, <1>3, <1>4, <1>5

\* A row is added to the sum.
LEMMA AppendAdds ==
    ASSUME NEW rows \in Seq(CallRows), NEW c \in CallRows
    PROVE  LET more == Append(rows, c)
           IN  /\ SumFunctionOnSet(Charges(more), DOMAIN more \ {Len(more)})
                     = SumFunctionOnSet(Charges(rows), DOMAIN rows)
               /\ SumFunctionOnSet(Charges(more), DOMAIN more)
                     = SumFunctionOnSet(Charges(rows), DOMAIN rows) + ChargeOf(c)
<1> DEFINE more == Append(rows, c)
           n == Len(rows)
<1>1. /\ more \in Seq(CallRows) /\ Len(more) = n + 1 /\ DOMAIN more = 1..(n + 1)
      /\ more[n + 1] = c /\ \A i \in 1..n : more[i] = rows[i]
      /\ n \in Nat /\ DOMAIN rows = 1..n
    OBVIOUS
<1> HIDE DEF more, n
<1>2. DOMAIN more \ {Len(more)} = DOMAIN rows /\ DOMAIN more = DOMAIN rows \cup {n + 1}
    BY <1>1
<1>3. IsFiniteSet(DOMAIN rows)
    BY RowsAreFinite
<1>4. \A i \in DOMAIN rows : Charges(more)[i] = Charges(rows)[i]
    BY <1>1 DEF Charges
<1>5. SumFunctionOnSet(Charges(more), DOMAIN rows) = SumFunctionOnSet(Charges(rows), DOMAIN rows)
    BY <1>3, <1>4, SumSame
<1>6. /\ \A i \in DOMAIN rows \cup {n + 1} : Charges(more)[i] \in Int
      /\ n + 1 \notin DOMAIN rows /\ Charges(more)[n + 1] = ChargeOf(c)
    <2>1. \A i \in DOMAIN more : ChargeOf(more[i]) \in Nat
        BY <1>1, RowsAreFinite
    <2> QED BY <1>1, <1>2, <2>1 DEF Charges
<1>7. SumFunctionOnSet(Charges(more), DOMAIN rows \cup {n + 1})
         = SumFunctionOnSet(Charges(more), DOMAIN rows) + ChargeOf(c)
    BY <1>3, <1>6, SumAdd
<1> QED BY <1>2, <1>5, <1>7 DEF more

\* The last row can be taken out of the sum; the others do not depend on it.
LEMMA LastAdds ==
    ASSUME NEW rows \in Seq(CallRows), rows # <<>>
    PROVE  SumFunctionOnSet(Charges(rows), DOMAIN rows)
              = SumFunctionOnSet(Charges(rows), DOMAIN rows \ {Len(rows)}) + ChargeOf(rows[Len(rows)])
<1>1. Len(rows) \in DOMAIN rows
    BY EmptySeq
<1>2. /\ IsFiniteSet(DOMAIN rows) /\ \A i \in DOMAIN rows : Charges(rows)[i] \in Nat
      /\ SumFunctionOnSet(Charges(rows), DOMAIN rows \ {Len(rows)}) \in Nat
    BY RowsAreFinite DEF Charges
<1>3. SumFunctionOnSet(Charges(rows), DOMAIN rows)
         = Charges(rows)[Len(rows)] + SumFunctionOnSet(Charges(rows), DOMAIN rows \ {Len(rows)})
    BY <1>1, <1>2, SumRemove
<1>4. Charges(rows)[Len(rows)] = ChargeOf(rows[Len(rows)]) /\ Charges(rows)[Len(rows)] \in Nat
    BY <1>1, <1>2 DEF Charges
<1> QED BY <1>2, <1>3, <1>4

LEMMA LastIsSettled ==
    ASSUME NEW rows \in Seq(CallRows), rows # <<>>, NEW c \in CallRows
    PROVE  LET new == [rows EXCEPT ![Len(rows)] = c]
           IN  /\ new \in Seq(CallRows) /\ Len(new) = Len(rows) /\ DOMAIN new = DOMAIN rows
               /\ new[Len(rows)] = c /\ \A i \in DOMAIN rows : i # Len(rows) => new[i] = rows[i]
               /\ SumFunctionOnSet(Charges(new), DOMAIN new \ {Len(new)})
                    = SumFunctionOnSet(Charges(rows), DOMAIN rows \ {Len(rows)})
<1> DEFINE new == [rows EXCEPT ![Len(rows)] = c]
<1>1. Len(rows) \in DOMAIN rows
    BY EmptySeq
<1>2. /\ new \in Seq(CallRows) /\ Len(new) = Len(rows) /\ DOMAIN new = DOMAIN rows
      /\ new[Len(rows)] = c /\ \A i \in DOMAIN rows : i # Len(rows) => new[i] = rows[i]
    BY <1>1
<1> HIDE DEF new
<1>3. IsFiniteSet(DOMAIN rows \ {Len(rows)})
    BY RowsAreFinite
<1>4. \A i \in DOMAIN rows \ {Len(rows)} : Charges(new)[i] = Charges(rows)[i]
    BY <1>2 DEF Charges
<1>5. SumFunctionOnSet(Charges(new), DOMAIN rows \ {Len(rows)})
         = SumFunctionOnSet(Charges(rows), DOMAIN rows \ {Len(rows)})
    BY <1>3, <1>4, SumSame
<1> QED BY <1>2, <1>5 DEF new

\* Spent and SpentBefore are these sums.
SpentSums ==
    /\ Spent = SumFunctionOnSet(Charges(calls), DOMAIN calls)
    /\ SpentBefore = SumFunctionOnSet(Charges(calls), DOMAIN calls \ {Len(calls)})

LEMMA SpentIsSum == SpentSums
<1>1. [i \in DOMAIN calls |-> RowCharge(i)] = Charges(calls)
    BY DEF RowCharge, Charges, ChargeOf
<1> QED BY <1>1 DEF SpentSums, Spent, SpentBefore, CostOf

LEMMA SpentIsSumNext == SpentSums'
BY SpentIsSum, PTL

----------------------------------------------------------------------------
\* Types.

\* A fresh row, and the row of a settled invocation, are rows.
LEMMA RowType ==
    /\ \A t \in Tasks, state \in CallStates, reserved \in 0..CallCap :
          Row(t, state, reserved) \in CallRows
    /\ TypeOK /\ task \in Tasks => Settled \in CallRows
<1>1. 0 \in 0..MaxCharge /\ 0 \in 0..(MaxTools + 1)
    BY JudgmentAssumption DEF MaxCharge
<1>2. ASSUME NEW t \in Tasks, NEW state \in CallStates, NEW reserved \in 0..CallCap
      PROVE  Row(t, state, reserved) \in CallRows
    BY <1>1 DEF Row, CallRows, Classes, Results
<1>3. ASSUME TypeOK, task \in Tasks PROVE Settled \in CallRows
    <2>1. (IF class = "NONE" THEN "COMPLETED" ELSE "FAILED") \in CallStates
        BY DEF CallStates
    <2> QED BY <1>3, <2>1 DEF TypeOK, Settled, CallRows
<1> QED BY <1>2, <1>3

\* Settling a reserved row overwrites six of its columns.
Columns(t, state, reserved, charged, cls, res, proposals, keys) ==
    [task |-> t, state |-> state, reserved |-> reserved, charged |-> charged, class |-> cls,
     result |-> res, proposals |-> proposals, kept |-> keys]

\* Terminalize writes it over the row of the call.
LEMMA TerminalRow ==
    ASSUME pc = "terminalize", LastRow, Terminalize
    PROVE  calls' = [calls EXCEPT ![Len(calls)] = Settled]
<1> DEFINE state == IF class = "NONE" THEN "COMPLETED" ELSE "FAILED"
           c == calls[Len(calls)]
<1>1. c = Columns(task, "RESERVED", amount, 0, "NONE", "none", 0, {})
    BY DEF LastRow, Row, Columns
<1>2. calls' = [calls EXCEPT ![Len(calls)] =
                    [c EXCEPT !.state = state, !.charged = charge, !.class = class,
                              !.result = reported, !.proposals = tries, !.kept = kept]]
    BY DEF Terminalize
<1>3. Settled = Columns(task, state, amount, charge, class, reported, tries, kept)
    BY DEF Settled, Columns
<1> HIDE DEF c, state
<1> DEFINE c1 == [c EXCEPT !.state = state]
           c2 == [c1 EXCEPT !.charged = charge]
           c3 == [c2 EXCEPT !.class = class]
           c4 == [c3 EXCEPT !.result = reported]
           c5 == [c4 EXCEPT !.proposals = tries]
           c6 == [c5 EXCEPT !.kept = kept]
<1>4. c1 = Columns(task, state, amount, 0, "NONE", "none", 0, {})
    BY <1>1 DEF Columns
<1> HIDE DEF c1
<1>5. c2 = Columns(task, state, amount, charge, "NONE", "none", 0, {})
    BY <1>4 DEF Columns
<1> HIDE DEF c2
<1>6. c3 = Columns(task, state, amount, charge, class, "none", 0, {})
    BY <1>5 DEF Columns
<1> HIDE DEF c3
<1>7. c4 = Columns(task, state, amount, charge, class, reported, 0, {})
    BY <1>6 DEF Columns
<1> HIDE DEF c4
<1>8. c5 = Columns(task, state, amount, charge, class, reported, tries, {})
    BY <1>7 DEF Columns
<1> HIDE DEF c5
<1>9. c6 = Columns(task, state, amount, charge, class, reported, tries, kept)
    BY <1>8 DEF Columns
<1> HIDE DEF c6
<1>10. c6 = [c EXCEPT !.state = state, !.charged = charge, !.class = class,
                      !.result = reported, !.proposals = tries, !.kept = kept]
    BY DEF c1, c2, c3, c4, c5, c6
<1>11. calls' = [calls EXCEPT ![Len(calls)] = c6]
    BY <1>2, <1>10
<1> QED BY <1>3, <1>9, <1>11

\* What a reservation hands out of a positive remainder.
LEMMA ReservationBounds ==
    ASSUME TypeOK, Remaining > 0
    PROVE  /\ Reservation \in 0..CallCap /\ Reservation >= 1
           /\ Reservation <= Total - committed - held
<1>1. Total \in Nat /\ CallCap \in Nat \ {0} /\ committed \in Nat /\ held \in Nat
    BY JudgmentAssumption DEF TypeOK
<1>2. Remaining = Total - committed - held
    BY DEF Remaining
<1>3. Reservation = IF Remaining <= CallCap THEN Remaining ELSE CallCap
    BY DEF Reservation
<1> QED BY <1>1, <1>2, <1>3

\* What a settled call is charged, and what its class says.
LEMMA SettleBounds ==
    ASSUME TypeOK, HandInv, NEW result \in Results, NEW raised \in BOOLEAN,
           NEW cost \in Unknown..MaxCharge, Settle(result, raised, cost)
    PROVE  /\ class' \in Classes
           /\ class' = "SDK_BUDGET_CEILING" <=> tries <= MaxTools /\ result = "ceiling"
           /\ charge' \in 0..MaxCharge /\ charge' <= amount + Overshoot
<1>1. /\ CallCap \in Nat /\ Overshoot \in Nat /\ amount \in 0..CallCap /\ amount >= 1
      /\ cost \in Int /\ cost >= -1 /\ cost <= CallCap + Overshoot /\ cost <= amount + Overshoot
      /\ tries \in Nat /\ MaxTools \in Nat
    <2>1. MaxTools + 1 \in Nat /\ MaxCharge = CallCap + Overshoot /\ MaxCharge \in Nat
        BY JudgmentAssumption DEF MaxCharge
    <2>2. amount >= 1 /\ cost <= amount + Overshoot
        BY DEF Settle, HandInv, Held, InCall
    <2>3. amount \in 0..CallCap /\ tries \in 0..(MaxTools + 1)
        BY DEF TypeOK
    <2> QED BY <2>1, <2>2, <2>3, JudgmentAssumption DEF Unknown
<1>2. class' = Classify(result, raised) /\ charge' = TerminalCharge(class' = "NONE", cost)
    BY DEF Settle
<1>3. charge' \in {amount, cost} /\ (charge' = cost => cost # -1 \/ cost = amount)
    BY <1>2 DEF TerminalCharge, Unknown
<1>4. charge' \in 0..MaxCharge /\ charge' <= amount + Overshoot
    BY <1>1, <1>3 DEF MaxCharge
<1>5. class' = "SDK_BUDGET_CEILING" <=> tries <= MaxTools /\ result = "ceiling"
    BY <1>1, <1>2 DEF Classify, Results
<1>6. class' \in Classes
    BY <1>2 DEF Classify, Results, Classes
<1> QED BY <1>4, <1>5, <1>6

\* Leaving a judgment changes no type.
LEMMA LeaveTypes ==
    ASSUME TypeOK, NEW answer \in {"confirmed", "inconclusive"}, NEW keys \in SUBSET Keys,
           Leave(answer, keys), calls' \in Seq(CallRows), committed' \in Nat, held' \in Nat,
           faulted' \in BOOLEAN, faults' \in 0..MaxFaults
    PROVE  TypeOK'
<1>1. /\ 0 \in 0..MaxAttempts /\ 0 \in 0..CallCap /\ 0 \in 0..(MaxTools + 1) /\ 0 \in 0..MaxCharge
      /\ Unknown \in Unknown..MaxCharge
    BY JudgmentAssumption DEF MaxCharge, Unknown
<1>2. verdict' \in [Tasks -> {"none", "confirmed", "inconclusive"}] /\ found' \in [Tasks -> SUBSET Keys]
    BY DEF TypeOK, Leave
<1> QED BY <1>1, <1>2 DEF TypeOK, Leave, Classes, Results

LEMMA FaultCounts == TypeOK /\ Fault => faults' \in 0..MaxFaults
BY JudgmentAssumption DEF TypeOK, Fault

LEMMA TypeNext ==
    ASSUME TypeOK, HandInv, LastRow, [Next]_vars
    PROVE  TypeOK'
<1> USE DEF budget, results, tool, outcome
<1>0. 0 \in 0..CallCap
    BY JudgmentAssumption
<1>1. ASSUME NEW t \in Tasks, JudgeAbsent(t) \/ JudgeLatched(t) \/ Judge(t) PROVE TypeOK'
    <2>1. CASE Judge(t)
        BY <2>1 DEF TypeOK, Judge
    <2>2. CASE JudgeAbsent(t) \/ JudgeLatched(t)
        <3>1. verdict' \in [Tasks -> {"none", "confirmed", "inconclusive"}]
            BY <2>2 DEF TypeOK, JudgeAbsent, JudgeLatched
        <3> QED BY <2>2, <3>1 DEF TypeOK, JudgeAbsent, JudgeLatched
    <2> QED BY <1>1, <2>1, <2>2
<1>2. CASE AuthRefused
    <2>1. calls' \in Seq(CallRows)
        <3>1. task \in Tasks
            BY <1>2 DEF AuthRefused, HandInv, Busy
        <3>2. Row(task, "REJECTED", 0) \in CallRows
            BY <1>0, <3>1, RowType DEF CallStates
        <3> QED BY <1>2, <3>2, AppendProperties DEF AuthRefused, TypeOK
    <2> QED BY <1>2, <2>1, LeaveTypes DEF AuthRefused, TypeOK
<1>3. CASE Exhausted
    <2>1. calls' \in Seq(CallRows)
        <3>1. task \in Tasks
            BY <1>3 DEF Exhausted, HandInv, Busy
        <3>2. Row(task, "EXHAUSTED", 0) \in CallRows
            BY <1>0, <3>1, RowType DEF CallStates
        <3> QED BY <1>3, <3>2, AppendProperties DEF Exhausted, TypeOK
    <2> QED BY <1>3, <2>1, LeaveTypes DEF Exhausted, TypeOK
<1>4. CASE AuthOk
    <2>1. 1 \in 0..MaxAttempts
        BY JudgmentAssumption
    <2> QED BY <1>4, <2>1 DEF TypeOK, AuthOk
<1>5. CASE Reserve
    <2>1. amount' \in 0..CallCap /\ held' \in Nat
        BY <1>5, ReservationBounds DEF Reserve, TypeOK
    <2> QED BY <1>5, <2>1 DEF TypeOK, Reserve
<1>6. CASE InsertReserved
    <2>1. calls' \in Seq(CallRows)
        <3>1. task \in Tasks /\ amount \in 0..CallCap
            BY <1>6 DEF InsertReserved, HandInv, Busy, TypeOK
        <3>2. Row(task, "RESERVED", amount) \in CallRows
            BY <3>1, RowType DEF CallStates
        <3> QED BY <1>6, <3>2, AppendProperties DEF InsertReserved, TypeOK
    <2>2. 0 \in 0..(MaxTools + 1)
        BY JudgmentAssumption
    <2> QED BY <1>6, <2>1, <2>2 DEF TypeOK, InsertReserved
<1>7. ASSUME NEW k \in Keys, NEW valid \in BOOLEAN, Propose(k, valid) PROVE TypeOK'
    <2>1. tries' \in 0..(MaxTools + 1) /\ kept' \subseteq Keys
        BY <1>7, JudgmentAssumption DEF TypeOK, Propose
    <2> QED BY <1>7, <2>1 DEF TypeOK, Propose
<1>8. ASSUME NEW result \in Results, NEW raised \in BOOLEAN, NEW cost \in Unknown..MaxCharge,
             Settle(result, raised, cost)
      PROVE  TypeOK'
    <2>1. class' \in Classes /\ charge' \in 0..MaxCharge
        BY <1>8, SettleBounds
    <2> QED BY <1>8, <2>1 DEF TypeOK, Settle
<1>9. CASE Terminalize
    <2>1. calls' \in Seq(CallRows)
        <3>1. task \in Tasks /\ calls # <<>> /\ pc = "terminalize"
            BY <1>9 DEF Terminalize, HandInv, Busy, LastRow, InCall
        <3>2. Settled \in CallRows
            BY <3>1, RowType
        <3> QED BY <1>9, <3>1, <3>2, TerminalRow, LastIsSettled DEF TypeOK
    <2> QED BY <1>9, <2>1 DEF TypeOK, Terminalize
<1>10. CASE Advance
    <2>1. committed' \in Nat /\ held' \in Nat
        <3>1. amount <= held /\ charge \in Nat /\ amount \in Nat
            BY <1>10 DEF Advance, HandInv, Held, InCall, TypeOK
        <3> QED BY <1>10, <3>1 DEF Advance, TypeOK
    <2>2. CASE class = "SDK_BUDGET_CEILING" /\ attempt < MaxAttempts
        <3>1. attempt' \in 0..MaxAttempts
            <4>1. attempt' = attempt + 1 /\ attempt \in 0..MaxAttempts
                BY <1>10, <2>2 DEF Advance, TypeOK
            <4> QED BY <2>2, <4>1, JudgmentAssumption
        <3>2. Unknown \in Unknown..MaxCharge /\ 0 \in 0..MaxCharge
            BY JudgmentAssumption DEF MaxCharge, Unknown
        <3> QED BY <1>0, <1>10, <2>1, <2>2, <3>1, <3>2 DEF Advance, TypeOK, Classes, Results
    <2>3. CASE ~(class = "SDK_BUDGET_CEILING" /\ attempt < MaxAttempts)
        <3>1. \E answer \in {"confirmed", "inconclusive"}, keys \in SUBSET Keys : Leave(answer, keys)
            BY <1>10, <2>3 DEF Advance, TypeOK
        <3> QED BY <1>10, <2>1, <3>1, LeaveTypes DEF Advance, TypeOK
    <2> QED BY <2>2, <2>3
<1>11. CASE LedgerFails
    BY <1>11, LeaveTypes, FaultCounts DEF LedgerFails, TypeOK
<1>12. CASE AccountingFails
    BY <1>12, LeaveTypes, FaultCounts DEF AccountingFails, TypeOK
<1>13. CASE Crash
    BY <1>13, FaultCounts DEF Crash, TypeOK
<1>14. CASE UNCHANGED vars
    BY <1>14 DEF vars, TypeOK
<1> QED
    BY <1>1, <1>2, <1>3, <1>4, <1>5, <1>6, <1>7, <1>8, <1>9, <1>10, <1>11, <1>12, <1>13, <1>14
    DEF Next

----------------------------------------------------------------------------
\* The judgment in hand and its row.

\* The steps that leave the rows alone, and what the others do to them: one
\* more of the task in hand, or the last one settled.
Quiet ==
    \/ \E t \in Tasks : JudgeAbsent(t) \/ JudgeLatched(t) \/ Judge(t)
    \/ AuthOk \/ Reserve
    \/ \E k \in Keys, valid \in BOOLEAN : Propose(k, valid)
    \/ \E result \in Results, raised \in BOOLEAN,
         cost \in Unknown..MaxCharge : Settle(result, raised, cost)
    \/ Advance \/ LedgerFails \/ AccountingFails \/ Crash
    \/ UNCHANGED vars
Kept == UNCHANGED calls
Added(c) == calls' = Append(calls, c) /\ c \in CallRows /\ c.task = task /\ task \in Tasks
Closed ==
    /\ Settled \in CallRows /\ calls # <<>>
    /\ calls' = [calls EXCEPT ![Len(calls)] = Settled]

LEMMA HandNext ==
    ASSUME TypeOK, HandInv, LastRow, [Next]_vars
    PROVE  HandInv'
<1> USE DEF budget, results, tool, outcome, Busy, InCall, Held
<1>1. ASSUME NEW t \in Tasks, JudgeAbsent(t) \/ JudgeLatched(t) PROVE HandInv'
    BY <1>1, NoTaskAssumption DEF HandInv, JudgeAbsent, JudgeLatched, TypeOK
<1>2. ASSUME NEW t \in Tasks, Judge(t) PROVE HandInv'
    BY <1>2 DEF HandInv, Judge
<1>3. ASSUME NEW answer, NEW keys, Leave(answer, keys) PROVE HandInv'
    BY <1>3, NoTaskAssumption DEF Leave, HandInv
<1>4. CASE AuthRefused \/ Exhausted \/ LedgerFails \/ AccountingFails
    BY <1>3, <1>4 DEF AuthRefused, Exhausted, LedgerFails, AccountingFails
<1>5. CASE AuthOk
    BY <1>5 DEF HandInv, AuthOk
<1>6. CASE Reserve
    <2>1. amount' >= 1 /\ amount' <= held'
        BY <1>6, ReservationBounds DEF Reserve, TypeOK
    <2> QED BY <1>6, <2>1 DEF HandInv, Reserve
<1>7. CASE InsertReserved
    BY <1>7 DEF HandInv, InsertReserved
<1>8. ASSUME NEW k \in Keys, NEW valid \in BOOLEAN, Propose(k, valid) PROVE HandInv'
    BY <1>8 DEF HandInv, Propose
<1>9. ASSUME NEW result \in Results, NEW raised \in BOOLEAN, NEW cost \in Unknown..MaxCharge,
             Settle(result, raised, cost)
      PROVE  HandInv'
    <2>1. /\ class' = "SDK_BUDGET_CEILING" <=> tries <= MaxTools /\ result = "ceiling"
          /\ charge' <= amount + Overshoot
        BY <1>9, SettleBounds
    <2> QED BY <1>9, <2>1 DEF HandInv, Settle
<1>10. CASE Terminalize
    BY <1>10 DEF HandInv, Terminalize
<1>11. CASE Advance
    <2>1. CASE class = "SDK_BUDGET_CEILING" /\ attempt < MaxAttempts
        <3>1. attempt' = attempt + 1 /\ attempt \in Nat
            BY <1>11, <2>1 DEF Advance, TypeOK
        <3>2. attempt' >= 1
            BY <3>1
        <3> QED BY <1>11, <2>1, <3>2 DEF HandInv, Advance
    <2>2. CASE ~(class = "SDK_BUDGET_CEILING" /\ attempt < MaxAttempts)
        BY <1>3, <1>11, <2>2 DEF Advance
    <2> QED BY <2>1, <2>2
<1>12. CASE Crash
    BY <1>12 DEF HandInv, Crash
<1>13. CASE UNCHANGED vars
    BY <1>13 DEF HandInv, vars
<1> QED
    BY <1>1, <1>2, <1>4, <1>5, <1>6, <1>7, <1>8, <1>9, <1>10, <1>11, <1>12, <1>13 DEF Next

\* Every step, by what it does to the rows.
LEMMA RowSteps ==
    ASSUME TypeOK, HandInv, LastRow, [Next]_vars
    PROVE  \/ Quiet /\ Kept
           \/ AuthRefused /\ Added(Row(task, "REJECTED", 0))
           \/ Exhausted /\ Added(Row(task, "EXHAUSTED", 0))
           \/ InsertReserved /\ Added(Row(task, "RESERVED", amount))
           \/ Terminalize /\ pc = "terminalize" /\ Closed
<1> USE DEF Busy, InCall
<1>0. 0 \in 0..CallCap
    BY JudgmentAssumption
<1>1. ASSUME NEW state \in CallStates, NEW reserved \in 0..CallCap, pc \in Busy,
             calls' = Append(calls, Row(task, state, reserved))
      PROVE  Added(Row(task, state, reserved))
    BY <1>1, RowType DEF Added, HandInv, Row
<1>2. CASE AuthRefused
    BY <1>0, <1>1, <1>2 DEF AuthRefused, CallStates
<1>3. CASE Exhausted
    BY <1>0, <1>1, <1>3 DEF Exhausted, CallStates
<1>4. CASE InsertReserved
    BY <1>1, <1>4 DEF InsertReserved, CallStates, TypeOK
<1>5. CASE Terminalize
    <2>1. pc = "terminalize"
        BY <1>5 DEF Terminalize
    <2>2. task \in Tasks /\ calls # <<>>
        BY <2>1 DEF HandInv, LastRow
    <2> QED BY <1>5, <2>1, <2>2, RowType, TerminalRow DEF Closed
<1>6. CASE Quiet
    BY <1>6 DEF Quiet, Kept, LedgerFails, AccountingFails, Crash, Advance, AuthOk, Reserve, vars,
                JudgeAbsent, JudgeLatched, Judge, Propose, Settle
<1> QED BY <1>2, <1>3, <1>4, <1>5, <1>6 DEF Next, Quiet

LEMMA LastRowNext ==
    ASSUME TypeOK, HandInv, LastRow, [Next]_vars
    PROVE  LastRow'
<1> USE DEF budget, results, tool, outcome, InCall
<1>1. ASSUME pc' \notin InCall PROVE LastRow'
    BY <1>1 DEF LastRow
<1>2. CASE InsertReserved
    <2>1. calls' = Append(calls, Row(task, "RESERVED", amount)) /\ calls \in Seq(CallRows)
        BY <1>2 DEF InsertReserved, TypeOK
    <2>2. Row(task, "RESERVED", amount) \in CallRows
        BY <1>2, RowType DEF InsertReserved, HandInv, Busy, CallStates, TypeOK
    <2>3. Len(calls') = Len(calls) + 1 /\ calls'[Len(calls) + 1] = Row(task, "RESERVED", amount)
          /\ calls' # <<>>
        BY <2>1, <2>2, AppendProperties
    <2>4. calls'[Len(calls')] = Row(task', "RESERVED", amount')
        BY <1>2, <2>3 DEF InsertReserved, Row
    <2> QED BY <1>2, <2>3, <2>4 DEF InsertReserved, LastRow
<1>3. ASSUME NEW k \in Keys, NEW valid \in BOOLEAN, Propose(k, valid) PROVE LastRow'
    BY <1>3 DEF Propose, LastRow, Row
<1>4. ASSUME NEW result \in Results, NEW raised \in BOOLEAN, NEW cost \in Unknown..MaxCharge,
             Settle(result, raised, cost)
      PROVE  LastRow'
    BY <1>4 DEF Settle, LastRow, Row
<1>5. CASE Terminalize
    <2>1. Closed
        <3>1. pc = "terminalize"
            BY <1>5 DEF Terminalize
        <3>2. task \in Tasks /\ calls # <<>>
            BY <3>1 DEF HandInv, LastRow, Busy
        <3> QED BY <1>5, <3>1, <3>2, RowType, TerminalRow DEF Closed
    <2>2. Len(calls') = Len(calls) /\ calls'[Len(calls)] = Settled /\ calls' # <<>>
        <3>1. Len(calls) # 0
            BY <2>1, EmptySeq DEF TypeOK, Closed
        <3>2. Len(calls') = Len(calls) /\ calls'[Len(calls)] = Settled
            BY <2>1, LastIsSettled DEF TypeOK, Closed
        <3> QED BY <3>1, <3>2
    <2>3. Settled' = Settled
        BY <1>5 DEF Terminalize, Settled
    <2> QED BY <1>5, <2>2, <2>3 DEF Terminalize, LastRow
<1>6. CASE UNCHANGED vars
    BY <1>6 DEF vars, LastRow, Row, Settled
<1>7. CASE AuthRefused \/ Exhausted \/ LedgerFails \/ AccountingFails \/ Crash \/ AuthOk \/ Reserve \/ Advance
    BY <1>1, <1>7
       DEF AuthRefused, Exhausted, LedgerFails, AccountingFails, Crash, AuthOk, Reserve, Advance, Leave
<1>8. ASSUME NEW t \in Tasks, JudgeAbsent(t) \/ JudgeLatched(t) \/ Judge(t) PROVE LastRow'
    BY <1>1, <1>8 DEF JudgeAbsent, JudgeLatched, Judge
<1> QED BY <1>2, <1>3, <1>4, <1>5, <1>6, <1>7, <1>8 DEF Next

\* What an appended row leaves as it was.
LEMMA AddedRows ==
    ASSUME TypeOK, NEW c, Added(c), NEW n, n = Len(calls)
    PROVE  /\ n \in Nat /\ DOMAIN calls = 1..n /\ DOMAIN calls' = 1..(n + 1)
           /\ calls'[n + 1] = c /\ \A i \in 1..n : calls'[i] = calls[i]
           /\ \A t \in Tasks :
                 /\ RowsOf(t)' = IF t = task THEN RowsOf(t) \cup {n + 1} ELSE RowsOf(t)
                 /\ RowsOf(t) \subseteq 1..n /\ IsFiniteSet(RowsOf(t))
                 /\ Cardinality(RowsOf(t)) \in Nat
                 /\ Cardinality(RowsOf(t) \cup {n + 1}) = Cardinality(RowsOf(t)) + 1
<1>1. /\ calls \in Seq(CallRows) /\ c \in CallRows /\ calls' = Append(calls, c)
      /\ c.task = task /\ task \in Tasks
    BY DEF Added, TypeOK
<1>2. /\ n \in Nat /\ DOMAIN calls = 1..n /\ DOMAIN calls' = 1..(n + 1)
      /\ calls'[n + 1] = c /\ \A i \in 1..n : calls'[i] = calls[i]
    BY <1>1
<1>3. ASSUME NEW t \in Tasks
      PROVE  /\ RowsOf(t)' = IF t = task THEN RowsOf(t) \cup {n + 1} ELSE RowsOf(t)
             /\ RowsOf(t) \subseteq 1..n
    <2>1. \A i \in 1..(n + 1) : i \in 1..n \/ i = n + 1
        BY <1>2
    <2>2. n + 1 \in 1..(n + 1) /\ 1..n \subseteq 1..(n + 1)
        BY <1>2
    <2> QED BY <1>1, <1>2, <2>1, <2>2 DEF RowsOf
<1>4. ASSUME NEW t \in Tasks
      PROVE  /\ IsFiniteSet(RowsOf(t)) /\ Cardinality(RowsOf(t)) \in Nat
             /\ Cardinality(RowsOf(t) \cup {n + 1}) = Cardinality(RowsOf(t)) + 1
    <2>1. IsFiniteSet(RowsOf(t)) /\ Cardinality(RowsOf(t)) \in Nat
        BY <1>1, <1>2, <1>3, RowsAreFinite
    <2>2. n + 1 \notin RowsOf(t)
        BY <1>2, <1>3
    <2> QED BY <2>1, <2>2, FS_AddElement
<1> QED BY <1>2, <1>3, <1>4

\* What settling the last row leaves as it was.
LEMMA SettledRows ==
    ASSUME TypeOK, LastRow, pc = "terminalize", Closed, NEW n, n = Len(calls)
    PROVE  /\ n \in Nat /\ DOMAIN calls = 1..n /\ DOMAIN calls' = 1..n /\ n \in 1..n
           /\ calls'[n] = Settled /\ \A i \in 1..n : i # n => calls'[i] = calls[i]
           /\ \A t \in Tasks : /\ RowsOf(t)' = RowsOf(t)
                               /\ InvokedOf(t)' = InvokedOf(t)
                               /\ t # task => n \notin RowsOf(t)
                               /\ RowsOf(t) \subseteq 1..n
<1>1. /\ n \in Nat /\ DOMAIN calls = 1..n /\ DOMAIN calls' = 1..n /\ n \in 1..n
      /\ calls'[n] = Settled /\ \A i \in 1..n : i # n => calls'[i] = calls[i]
    <2>1. n \in 1..n /\ n \in Nat /\ DOMAIN calls = 1..n
        BY EmptySeq DEF TypeOK, Closed
    <2> QED BY <2>1, LastIsSettled DEF TypeOK, Closed
<1>2. /\ calls[n].task = task /\ calls[n].state = "RESERVED"
      /\ Settled.task = task /\ Settled.state \in {"COMPLETED", "FAILED"}
    <2>1. calls[n] = Row(task, "RESERVED", amount)
        BY DEF LastRow
    <2> QED BY <2>1 DEF Row, Settled
<1> QED BY <1>1, <1>2 DEF RowsOf, InvokedOf, Invoked

----------------------------------------------------------------------------
\* Rows, histories and verdicts.

LEMMA RowInvNext ==
    ASSUME TypeOK, HandInv, LastRow, RowInv, [Next]_vars
    PROVE  RowInv'
<1>1. CASE Kept
    BY <1>1 DEF Kept, RowInv
<1>2. ASSUME NEW c, Added(c), SoundRow(c) PROVE RowInv'
    <2>1. PICK n : n = Len(calls)
        OBVIOUS
    <2>2. \A i \in DOMAIN calls' : (i \in DOMAIN calls /\ calls'[i] = calls[i]) \/ calls'[i] = c
        <3>1. /\ n \in Nat /\ DOMAIN calls = 1..n /\ DOMAIN calls' = 1..(n + 1)
              /\ calls'[n + 1] = c /\ \A i \in 1..n : calls'[i] = calls[i]
            BY <1>2, <2>1, AddedRows
        <3> QED BY <3>1
    <2> QED BY <1>2, <2>2 DEF RowInv, SoundRow
<1>3. SoundRow(Row(task, "REJECTED", 0)) /\ SoundRow(Row(task, "EXHAUSTED", 0))
    BY DEF SoundRow, Row
<1>4. CASE InsertReserved /\ Added(Row(task, "RESERVED", amount))
    <2>1. amount > 0
        BY <1>4 DEF InsertReserved, HandInv, Held, TypeOK
    <2>2. SoundRow(Row(task, "RESERVED", amount))
        BY <2>1 DEF SoundRow, Row
    <2> QED BY <1>2, <1>4, <2>2
<1>5. CASE Terminalize /\ pc = "terminalize" /\ Closed
    <2>1. PICK n : n = Len(calls)
        OBVIOUS
    <2>2. \A i \in DOMAIN calls' : (i \in DOMAIN calls /\ calls'[i] = calls[i]) \/ calls'[i] = Settled
        BY <1>5, <2>1, SettledRows
    <2>3. SoundRow(Settled)
        <3>1. amount > 0 /\ (class = "SDK_BUDGET_CEILING" <=> tries <= MaxTools /\ reported = "ceiling")
            BY <1>5 DEF HandInv, Held, InCall, TypeOK
        <3> QED BY <3>1 DEF SoundRow, Settled
    <2> QED BY <2>2, <2>3 DEF RowInv, SoundRow
<1> QED BY <1>1, <1>2, <1>3, <1>4, <1>5, RowSteps

\* The rows of the call in hand: all but the last hit their ceiling.
LEMMA InCallRows ==
    ASSUME TypeOK, HandInv, LastRow, HistoryInv, pc \in InCall
    PROVE  /\ Len(calls) \in RowsOf(task) /\ task \in Tasks
           /\ \A i \in RowsOf(task) : i <= Len(calls)
           /\ \A i \in RowsOf(task) : i # Len(calls) => CeilingRow(calls[i])
<1>1. task \in Tasks
    BY DEF HandInv, Busy, InCall
<1>2. /\ Len(calls) \in DOMAIN calls /\ DOMAIN calls = 1..Len(calls) /\ Len(calls) \in Nat
    BY EmptySeq DEF LastRow, TypeOK
<1>3. calls[Len(calls)].task = task
    BY DEF LastRow, Row, Settled, InCall
<1>4. Len(calls) \in RowsOf(task) /\ \A i \in RowsOf(task) : i \in 1..Len(calls)
    BY <1>2, <1>3 DEF RowsOf
<1>5. \A i \in RowsOf(task) : i # Len(calls) => i < Len(calls)
    BY <1>2, <1>4
<1> QED BY <1>1, <1>2, <1>4, <1>5 DEF HistoryInv

LEMMA HistoryQuiet ==
    ASSUME TypeOK, HandInv, LastRow, HistoryInv, Quiet, Kept
    PROVE  HistoryInv'
<1> USE DEF budget, results, tool, outcome, InCall
<1>1. /\ \A t \in Tasks : RowsOf(t)' = RowsOf(t) /\ InvokedOf(t)' = InvokedOf(t)
      /\ calls' = calls
    BY DEF Kept, RowsOf, InvokedOf, Invoked
<1>2. ASSUME \A t \in Tasks : t # task' /\ verdict'[t] = "none" => t # task /\ verdict[t] = "none",
             pc' \in {"idle", "down"}
      PROVE  HistoryInv'
    BY <1>1, <1>2 DEF HistoryInv
<1>3. ASSUME NEW answer \in {"confirmed", "inconclusive"}, NEW keys, Leave(answer, keys)
      PROVE  HistoryInv'
    <2>1. /\ verdict \in [Tasks -> {"none", "confirmed", "inconclusive"}]
          /\ verdict' = [verdict EXCEPT ![task] = answer] /\ answer # "none"
          /\ pc' = "idle"
        BY <1>3 DEF Leave, TypeOK
    <2> QED BY <1>2, <2>1
<1>4. CASE LedgerFails \/ AccountingFails
    BY <1>3, <1>4 DEF LedgerFails, AccountingFails
<1>5. CASE Crash
    BY <1>2, <1>5 DEF Crash
<1>6. ASSUME NEW t \in Tasks, JudgeAbsent(t) \/ JudgeLatched(t) PROVE HistoryInv'
    <2>1. PICK answer \in {"confirmed", "inconclusive"} : verdict' = [verdict EXCEPT ![t] = answer]
        BY <1>6 DEF JudgeAbsent, JudgeLatched
    <2>2. verdict \in [Tasks -> {"none", "confirmed", "inconclusive"}] /\ task' = task /\ pc' = "idle"
        BY <1>6 DEF TypeOK, JudgeAbsent, JudgeLatched
    <2> QED BY <1>2, <2>1, <2>2
<1>7. ASSUME NEW t \in Tasks, Judge(t) PROVE HistoryInv'
    <2>1. task = NoTask /\ task' = t /\ verdict' = verdict /\ verdict[t] = "none" /\ pc' = "auth"
        BY <1>7 DEF Judge, HandInv
    <2>2. RowsOf(t) = {}
        BY <2>1, NoTaskAssumption DEF HistoryInv
    <2>3. RowsOf(t)' = {} /\ RowsOf(task)' = RowsOf(t)'
        BY <1>1, <2>1, <2>2 DEF RowsOf
    <2>4. \A u \in Tasks : u # task' /\ verdict'[u] = "none" => RowsOf(u)' = {}
        BY <1>1, <2>1, NoTaskAssumption DEF HistoryInv
    <2> QED BY <1>1, <2>1, <2>3, <2>4 DEF HistoryInv
<1>8. CASE AuthOk
    <2>1. RowsOf(task) = {} /\ pc' = "reserve" /\ attempt' = 1 /\ UNCHANGED <<task, verdict>>
        BY <1>8 DEF AuthOk, HistoryInv
    <2>2. RowsOf(task)' = RowsOf(task)
        BY <2>1 DEF RowsOf, Kept
    <2>3. Cardinality(RowsOf(task)') = attempt' - 1
        BY <2>1, <2>2, FS_EmptySet
    <2> QED BY <1>1, <2>1, <2>2, <2>3 DEF HistoryInv
<1>9. ASSUME UNCHANGED <<task, verdict, attempt>>,
             pc = pc' \/ (pc = "reserve" /\ pc' = "insert") \/ (pc \in InCall /\ pc' \in InCall)
      PROVE  HistoryInv'
    <2>1. RowsOf(task)' = RowsOf(task)
        BY <1>9 DEF RowsOf, Kept
    <2> QED BY <1>1, <1>9, <2>1 DEF HistoryInv
<1>10. CASE Reserve
    BY <1>9, <1>10 DEF Reserve
<1>11. ASSUME NEW k \in Keys, NEW valid \in BOOLEAN, Propose(k, valid) PROVE HistoryInv'
    BY <1>9, <1>11 DEF Propose
<1>12. ASSUME NEW result \in Results, NEW raised \in BOOLEAN, NEW cost \in Unknown..MaxCharge,
              Settle(result, raised, cost)
       PROVE  HistoryInv'
    BY <1>9, <1>12 DEF Settle
<1>13. CASE UNCHANGED vars
    BY <1>9, <1>13 DEF vars
<1>14. CASE Advance
    <2>1. CASE class = "SDK_BUDGET_CEILING" /\ attempt < MaxAttempts
        <3>1. /\ attempt' = attempt + 1 /\ pc' = "reserve" /\ UNCHANGED <<task, verdict>>
              /\ pc = "advance" /\ attempt \in Nat
            BY <1>14, <2>1 DEF Advance, TypeOK
        <3>2. RowsOf(task)' = RowsOf(task)
            BY <3>1 DEF RowsOf, Kept
        <3>3. CeilingRow(calls[Len(calls)])
            BY <2>1, <3>1 DEF LastRow, Settled, CeilingRow
        <3>4. \A i \in RowsOf(task) : CeilingRow(calls[i])
            BY <3>1, <3>3, InCallRows
        <3>5. Cardinality(RowsOf(task)) = attempt /\ attempt = attempt' - 1
            BY <3>1 DEF HistoryInv
        <3> QED BY <1>1, <3>1, <3>2, <3>4, <3>5 DEF HistoryInv
    <2>2. CASE ~(class = "SDK_BUDGET_CEILING" /\ attempt < MaxAttempts)
        BY <1>3, <1>14, <2>2 DEF Advance
    <2> QED BY <2>1, <2>2
<1> QED
    BY <1>4, <1>5, <1>6, <1>7, <1>8, <1>10, <1>11, <1>12, <1>13, <1>14 DEF Quiet

\* Before a call has its row, every row of the task hit its ceiling; so a new
\* row can follow.
LEMMA AddedHistory ==
    ASSUME TypeOK, HistoryInv, pc \in {"auth", "reserve", "insert"}, NEW c, Added(c),
           \/ c.state \notin {"RESERVED", "COMPLETED", "FAILED"}
           \/ Cardinality(RowsOf(task)) + 1 <= MaxAttempts
    PROVE  /\ \A t \in Tasks : \A i, j \in RowsOf(t)' : i < j => CeilingRow(calls[i])'
           /\ \A t \in Tasks : Cardinality(InvokedOf(t)') <= MaxAttempts
           /\ \A t \in Tasks : t # task => RowsOf(t)' = RowsOf(t)
<1>1. PICK n : n = Len(calls)
    OBVIOUS
<1>2. /\ n \in Nat /\ calls'[n + 1] = c /\ \A i \in 1..n : calls'[i] = calls[i]
      /\ \A t \in Tasks :
            /\ RowsOf(t)' = IF t = task THEN RowsOf(t) \cup {n + 1} ELSE RowsOf(t)
            /\ RowsOf(t) \subseteq 1..n /\ IsFiniteSet(RowsOf(t))
            /\ Cardinality(RowsOf(t)) \in Nat
            /\ Cardinality(RowsOf(t) \cup {n + 1}) = Cardinality(RowsOf(t)) + 1
    BY <1>1, AddedRows
<1>3. \A i \in RowsOf(task) : CeilingRow(calls[i])
    BY DEF HistoryInv
<1>4. ASSUME NEW t \in Tasks, NEW i \in RowsOf(t)', NEW j \in RowsOf(t)', i < j
      PROVE  CeilingRow(calls[i])'
    <2>0. RowsOf(t)' \subseteq RowsOf(t) \cup {n + 1} /\ RowsOf(t) \subseteq 1..n
        BY <1>2
    <2>1. i \in RowsOf(t) \cup {n + 1} /\ j \in RowsOf(t) \cup {n + 1}
        BY <1>4, <2>0
    <2>1a. i \in 1..(n + 1) /\ j \in 1..(n + 1)
        BY <1>2, <2>0, <2>1
    <2>1b. i # n + 1
        BY <1>2, <1>4, <2>1a
    <2>2. i \in RowsOf(t) /\ i \in 1..n
        BY <2>0, <2>1, <2>1b
    <2>3. CeilingRow(calls[i])
        <3>1. CASE t = task
            BY <1>3, <2>2, <3>1
        <3>2. CASE t # task
            <4>1. j \in RowsOf(t)
                BY <1>2, <3>2
            <4> QED BY <1>4, <2>2, <4>1 DEF HistoryInv
        <3> QED BY <3>1, <3>2
    <2> QED BY <1>2, <2>2, <2>3 DEF CeilingRow
<1>5. ASSUME NEW t \in Tasks PROVE Cardinality(InvokedOf(t)') <= MaxAttempts
    <2>1. \A i \in 1..n : Invoked(i)' <=> Invoked(i)
        BY <1>2 DEF Invoked
    <2>2. Cardinality(InvokedOf(t)) <= MaxAttempts
        BY DEF HistoryInv
    <2>3. CASE t # task
        <3>1. InvokedOf(t)' = InvokedOf(t)
            BY <1>2, <2>1, <2>3 DEF InvokedOf
        <3> QED BY <2>2, <3>1
    <2>4. CASE t = task /\ c.state \notin {"RESERVED", "COMPLETED", "FAILED"}
        <3>1. ~Invoked(n + 1)'
            BY <1>2, <2>4 DEF Invoked
        <3>2. InvokedOf(t)' = InvokedOf(t)
            BY <1>2, <2>1, <2>4, <3>1 DEF InvokedOf
        <3> QED BY <2>2, <3>2
    <2>5. CASE t = task /\ Cardinality(RowsOf(task)) + 1 <= MaxAttempts
        <3>1. InvokedOf(t)' \subseteq RowsOf(t) \cup {n + 1}
            BY <1>2, <2>5 DEF InvokedOf
        <3>2. IsFiniteSet(RowsOf(t) \cup {n + 1})
            BY <1>2, FS_AddElement
        <3>3. /\ Cardinality(InvokedOf(t)') <= Cardinality(RowsOf(t) \cup {n + 1})
              /\ IsFiniteSet(InvokedOf(t)')
            BY <3>1, <3>2, FS_Subset
        <3>4. Cardinality(InvokedOf(t)') \in Nat
            BY <3>3, FS_CardinalityType
        <3> QED BY <1>2, <2>5, <3>3, <3>4, JudgmentAssumption
    <2> QED BY <2>3, <2>4, <2>5
<1> QED BY <1>2, <1>4, <1>5

LEMMA HistoryNext ==
    ASSUME TypeOK, HandInv, LastRow, HistoryInv, [Next]_vars
    PROVE  HistoryInv'
<1>1. CASE Quiet /\ Kept
    BY <1>1, HistoryQuiet
<1>2. ASSUME NEW c, Added(c), c.state \in {"REJECTED", "EXHAUSTED"}, pc \in {"auth", "reserve"},
             Leave("inconclusive", {})
      PROVE  HistoryInv'
    <2>1. /\ \A t \in Tasks : \A i, j \in RowsOf(t)' : i < j => CeilingRow(calls[i])'
          /\ \A t \in Tasks : Cardinality(InvokedOf(t)') <= MaxAttempts
          /\ \A t \in Tasks : t # task => RowsOf(t)' = RowsOf(t)
        BY <1>2, AddedHistory
    <2>2. pc' = "idle" /\ verdict' = [verdict EXCEPT ![task] = "inconclusive"]
        BY <1>2 DEF Leave
    <2>3. \A t \in Tasks : t # task' /\ verdict'[t] = "none" => t # task /\ verdict[t] = "none"
        BY <2>2 DEF TypeOK
    <2>4. \A t \in Tasks : t # task' /\ verdict'[t] = "none" => RowsOf(t)' = {}
        BY <2>1, <2>3 DEF HistoryInv
    <2> QED BY <2>1, <2>2, <2>4 DEF HistoryInv, CeilingRow, InCall
<1>3. CASE AuthRefused /\ Added(Row(task, "REJECTED", 0))
    BY <1>2, <1>3 DEF AuthRefused, Row
<1>4. CASE Exhausted /\ Added(Row(task, "EXHAUSTED", 0))
    BY <1>2, <1>4 DEF Exhausted, Row
<1>5. CASE InsertReserved /\ Added(Row(task, "RESERVED", amount))
    <2>1. /\ pc = "insert" /\ pc' = "invoke" /\ UNCHANGED <<verdict, task, attempt>>
          /\ task \in Tasks /\ attempt \in 0..MaxAttempts
        BY <1>5 DEF InsertReserved, results, TypeOK, Added
    <2>2. Cardinality(RowsOf(task)) = attempt - 1
        BY <2>1 DEF HistoryInv
    <2>3. Cardinality(RowsOf(task)) + 1 <= MaxAttempts
        BY <2>1, <2>2, JudgmentAssumption
    <2>4. /\ \A t \in Tasks : \A i, j \in RowsOf(t)' : i < j => CeilingRow(calls[i])'
          /\ \A t \in Tasks : Cardinality(InvokedOf(t)') <= MaxAttempts
          /\ \A t \in Tasks : t # task => RowsOf(t)' = RowsOf(t)
        BY <1>5, <2>1, <2>3, AddedHistory
    <2>5. Cardinality(RowsOf(task)') = attempt'
        <3>1. PICK n : n = Len(calls)
            OBVIOUS
        <3>2. PICK t \in Tasks : t = task
            BY <2>1
        <3>3. /\ RowsOf(t)' = RowsOf(t) \cup {n + 1}
              /\ Cardinality(RowsOf(t) \cup {n + 1}) = Cardinality(RowsOf(t)) + 1
            BY <1>5, <3>1, <3>2, AddedRows
        <3>4. RowsOf(task)' = RowsOf(t)'
            BY <2>1, <3>2 DEF RowsOf
        <3>5. Cardinality(RowsOf(t)) = attempt - 1 /\ attempt \in Int
            BY <2>1, <2>2, <3>2
        <3> QED BY <2>1, <3>3, <3>4, <3>5
    <2>6. \A t \in Tasks : t # task' /\ verdict'[t] = "none" => RowsOf(t)' = {}
        BY <2>1, <2>4 DEF HistoryInv
    <2> QED BY <2>1, <2>4, <2>5, <2>6 DEF HistoryInv, CeilingRow
<1>6. CASE Terminalize /\ pc = "terminalize" /\ Closed
    <2>1. PICK n : n = Len(calls)
        OBVIOUS
    <2>2. /\ n \in Nat /\ \A i \in 1..n : i # n => calls'[i] = calls[i]
          /\ \A t \in Tasks : /\ RowsOf(t)' = RowsOf(t) /\ InvokedOf(t)' = InvokedOf(t)
                              /\ RowsOf(t) \subseteq 1..n
        BY <1>6, <2>1, SettledRows
    <2>3. pc' = "advance" /\ UNCHANGED <<task, verdict, attempt>>
        BY <1>6 DEF Terminalize, results
    <2>4. ASSUME NEW t \in Tasks, NEW i \in RowsOf(t)', NEW j \in RowsOf(t)', i < j
          PROVE  CeilingRow(calls[i])'
        <3>1. i \in RowsOf(t) /\ j \in RowsOf(t) /\ i \in 1..n /\ i # n
            BY <2>2, <2>4
        <3>2. CeilingRow(calls[i])
            BY <2>4, <3>1 DEF HistoryInv
        <3> QED BY <2>2, <3>1, <3>2 DEF CeilingRow
    <2>5. Cardinality(RowsOf(task)') = attempt'
        <3>1. PICK t \in Tasks : t = task
            BY <1>6 DEF HandInv, Busy
        <3>2. RowsOf(task)' = RowsOf(t)'
            BY <2>3, <3>1 DEF RowsOf
        <3>3. Cardinality(RowsOf(task)) = attempt
            BY <1>6 DEF HistoryInv, InCall
        <3> QED BY <2>2, <2>3, <3>1, <3>2, <3>3
    <2>6. \A t \in Tasks : Cardinality(InvokedOf(t)') <= MaxAttempts
        BY <2>2 DEF HistoryInv
    <2>7. \A t \in Tasks : t # task' /\ verdict'[t] = "none" => RowsOf(t)' = {}
        BY <2>2, <2>3 DEF HistoryInv
    <2> QED BY <2>3, <2>4, <2>5, <2>6, <2>7 DEF HistoryInv, CeilingRow
<1> QED BY <1>1, <1>3, <1>4, <1>5, <1>6, RowSteps

----------------------------------------------------------------------------
\* Verdicts.

\* What VerdictsBacked says of a task.
Backed(t) ==
    /\ verdict[t] = "confirmed" =>
           \/ RowsOf(t) = {} /\ found[t] = {}
           \/ \E i \in RowsOf(t) : /\ \A j \in RowsOf(t) : j <= i
                                   /\ calls[i].state = "COMPLETED"
                                   /\ calls[i].kept = found[t]
    /\ verdict[t] # "confirmed" => found[t] = {}
    /\ verdict[t] = "inconclusive" /\ ~faulted =>
           \A i \in RowsOf(t) : calls[i].state # "COMPLETED"

LEMMA BackedFrame ==
    ASSUME NEW t \in Tasks, Backed(t), RowsOf(t)' = RowsOf(t), UNCHANGED <<verdict[t], found[t]>>,
           faulted => faulted',
           \A i \in RowsOf(t) : calls'[i] = calls[i]
    PROVE  Backed(t)'
BY DEF Backed

\* A task given up, none of whose rows was answered.
LEMMA GivenUp ==
    ASSUME TypeOK, NEW t \in Tasks, t = task, Leave("inconclusive", {}),
           faulted' \/ \A i \in RowsOf(t)' : calls'[i].state # "COMPLETED"
    PROVE  Backed(t)'
<1>1. verdict'[t] = "inconclusive" /\ found'[t] = {}
    BY DEF Leave, TypeOK
<1> QED BY <1>1 DEF Backed

LEMMA OthersLeft ==
    ASSUME TypeOK, NEW answer, NEW keys, Leave(answer, keys), NEW t \in Tasks, t # task
    PROVE  UNCHANGED <<verdict[t], found[t]>>
BY DEF Leave, TypeOK

LEMMA BackedQuiet ==
    ASSUME TypeOK, HandInv, LastRow, HistoryInv, VerdictsBacked, Quiet, Kept, NEW t \in Tasks
    PROVE  Backed(t)'
<1> USE DEF budget, results, tool, outcome, InCall
<1>1. RowsOf(t)' = RowsOf(t) /\ calls' = calls
    BY DEF Kept, RowsOf
<1>2. Backed(t)
    BY DEF VerdictsBacked, Backed
<1>3. ASSUME UNCHANGED <<verdict, found>>, faulted => faulted' PROVE Backed(t)'
    BY <1>1, <1>2, <1>3, BackedFrame
<1>4. ASSUME NEW answer, NEW keys, Leave(answer, keys), t # task, faulted => faulted'
      PROVE  Backed(t)'
    BY <1>1, <1>2, <1>4, BackedFrame, OthersLeft
<1>5. CASE LedgerFails
    <2>1. Leave("inconclusive", {}) /\ faulted' = faulted
        BY <1>5 DEF LedgerFails
    <2>2. CASE t = task
        <3>1. \A i \in RowsOf(t) : calls[i].state # "COMPLETED"
            <4>1. CASE pc \in {"auth", "reserve", "insert"}
                BY <2>2, <4>1 DEF HistoryInv, CeilingRow
            <4>2. CASE pc = "terminalize"
                <5>1. calls[Len(calls)].state = "RESERVED"
                    BY <4>2 DEF LastRow, Row
                <5> QED BY <2>2, <4>2, <5>1, InCallRows DEF CeilingRow
            <4> QED BY <1>5, <4>1, <4>2 DEF LedgerFails
        <3> QED BY <1>1, <2>1, <2>2, <3>1, GivenUp
    <2> QED BY <1>4, <2>1, <2>2
<1>6. CASE AccountingFails
    <2>1. Leave("inconclusive", {}) /\ faulted'
        BY <1>6 DEF AccountingFails
    <2> QED BY <1>4, <2>1, GivenUp
<1>7. CASE Advance
    <2>0. faulted' = faulted /\ pc = "advance"
        BY <1>7 DEF Advance
    <2>1. CASE class = "SDK_BUDGET_CEILING" /\ attempt < MaxAttempts
        BY <1>3, <1>7, <2>0, <2>1 DEF Advance
    <2>2. CASE class = "NONE"
        <3>1. Leave("confirmed", kept)
            BY <1>7, <2>2 DEF Advance
        <3>2. CASE t = task
            <4>1. verdict'[t] = "confirmed" /\ found'[t] = kept
                BY <3>1, <3>2 DEF Leave, TypeOK
            <4>2. calls[Len(calls)].state = "COMPLETED" /\ calls[Len(calls)].kept = kept
                BY <2>0, <2>2 DEF LastRow, Settled
            <4>3. Len(calls) \in RowsOf(t) /\ \A i \in RowsOf(t) : i <= Len(calls)
                BY <2>0, <3>2, InCallRows
            <4> QED BY <1>1, <4>1, <4>2, <4>3 DEF Backed
        <3> QED BY <1>4, <2>0, <3>1, <3>2
    <2>3. CASE class # "NONE" /\ ~(class = "SDK_BUDGET_CEILING" /\ attempt < MaxAttempts)
        <3>1. Leave("inconclusive", {})
            BY <1>7, <2>3 DEF Advance
        <3>2. CASE t = task
            <4>1. calls[Len(calls)].state = "FAILED"
                BY <2>0, <2>3 DEF LastRow, Settled
            <4>2. \A i \in RowsOf(t) : calls[i].state # "COMPLETED"
                BY <2>0, <3>2, <4>1, InCallRows DEF CeilingRow
            <4> QED BY <1>1, <3>1, <3>2, <4>2, GivenUp
        <3> QED BY <1>4, <2>0, <3>1, <3>2
    <2> QED BY <2>1, <2>2, <2>3
<1>8. ASSUME NEW u \in Tasks, JudgeAbsent(u) \/ JudgeLatched(u) PROVE Backed(t)'
    <2>1. /\ UNCHANGED <<found, faulted>> /\ task = NoTask /\ verdict[u] = "none"
          /\ \/ verdict' = [verdict EXCEPT ![u] = "confirmed"]
             \/ verdict' = [verdict EXCEPT ![u] = "inconclusive"] /\ faulted
        BY <1>8 DEF JudgeAbsent, JudgeLatched, HandInv
    <2>2. CASE t = u
        <3>1. RowsOf(t) = {} /\ found[t] = {}
            BY <1>2, <2>1, <2>2, NoTaskAssumption DEF HistoryInv, Backed
        <3> QED BY <1>1, <2>1, <2>2, <3>1 DEF Backed, TypeOK
    <2>3. CASE t # u
        <3>1. verdict'[t] = verdict[t]
            BY <2>1, <2>3 DEF TypeOK
        <3> QED BY <1>1, <1>2, <2>1, <3>1, BackedFrame
    <2> QED BY <2>2, <2>3
<1>9. CASE AuthOk \/ Reserve \/ Crash \/ UNCHANGED vars
    BY <1>3, <1>9 DEF AuthOk, Reserve, Crash, vars
<1>10. ASSUME NEW u \in Tasks, Judge(u) PROVE Backed(t)'
    BY <1>3, <1>10 DEF Judge
<1>11. ASSUME NEW k \in Keys, NEW valid \in BOOLEAN, Propose(k, valid) PROVE Backed(t)'
    BY <1>3, <1>11 DEF Propose
<1>12. ASSUME NEW result \in Results, NEW raised \in BOOLEAN, NEW cost \in Unknown..MaxCharge,
              Settle(result, raised, cost)
       PROVE  Backed(t)'
    BY <1>3, <1>12 DEF Settle
<1> QED BY <1>5, <1>6, <1>7, <1>8, <1>9, <1>10, <1>11, <1>12 DEF Quiet

LEMMA VerdictsNext ==
    ASSUME TypeOK, HandInv, LastRow, HistoryInv, VerdictsBacked, [Next]_vars
    PROVE  VerdictsBacked'
<1> SUFFICES ASSUME NEW t \in Tasks PROVE Backed(t)'
    BY DEF VerdictsBacked, Backed
<1>1. CASE Quiet /\ Kept
    BY <1>1, BackedQuiet
<1>2. Backed(t)
    BY DEF VerdictsBacked, Backed
<1>3. PICK n : n = Len(calls)
    OBVIOUS
<1>4. ASSUME NEW c, Added(c), c.state # "COMPLETED", pc \in {"auth", "reserve", "insert"},
             faulted' = faulted,
             Leave("inconclusive", {}) \/ UNCHANGED <<verdict, found, task>>
      PROVE  Backed(t)'
    <2>1. /\ n \in Nat /\ calls'[n + 1] = c /\ \A i \in 1..n : calls'[i] = calls[i]
          /\ RowsOf(t)' = IF t = task THEN RowsOf(t) \cup {n + 1} ELSE RowsOf(t)
          /\ RowsOf(t) \subseteq 1..n
        BY <1>3, <1>4, AddedRows
    <2>2. CASE t # task
        BY <1>2, <1>4, <2>1, <2>2, BackedFrame, OthersLeft
    <2>3. CASE t = task
        <3>1. \A i \in RowsOf(t) : calls[i].state # "COMPLETED"
            BY <1>4, <2>3 DEF HistoryInv, CeilingRow
        <3>2. \A i \in RowsOf(t)' : calls'[i].state # "COMPLETED"
            BY <1>4, <2>1, <2>3, <3>1
        <3>3. CASE Leave("inconclusive", {})
            BY <2>3, <3>2, <3>3, GivenUp
        <3>4. CASE UNCHANGED <<verdict, found, task>>
            <4>1. verdict[t] = "none"
                BY <2>3 DEF HandInv
            <4>2. found[t] = {}
                BY <1>2, <4>1 DEF Backed
            <4> QED BY <3>4, <4>1, <4>2 DEF Backed
        <3> QED BY <1>4, <3>3, <3>4
    <2> QED BY <2>2, <2>3
<1>5. CASE AuthRefused /\ Added(Row(task, "REJECTED", 0))
    BY <1>4, <1>5 DEF AuthRefused, Row, budget
<1>6. CASE Exhausted /\ Added(Row(task, "EXHAUSTED", 0))
    BY <1>4, <1>6 DEF Exhausted, Row, budget
<1>7. CASE InsertReserved /\ Added(Row(task, "RESERVED", amount))
    BY <1>4, <1>7 DEF InsertReserved, Row, budget, results
<1>8. CASE Terminalize /\ pc = "terminalize" /\ Closed
    <2>1. /\ \A i \in 1..n : i # n => calls'[i] = calls[i]
          /\ RowsOf(t)' = RowsOf(t) /\ RowsOf(t) \subseteq 1..n
          /\ t # task => n \notin RowsOf(t)
        BY <1>3, <1>8, SettledRows
    <2>2. UNCHANGED <<verdict, found, task, faulted>>
        BY <1>8 DEF Terminalize, results, budget
    <2>3. CASE t = task
        <3>1. verdict[t] = "none"
            BY <2>3 DEF HandInv
        <3>2. found[t] = {}
            BY <1>2, <3>1 DEF Backed
        <3> QED BY <2>2, <3>1, <3>2 DEF Backed
    <2>4. CASE t # task
        <3>1. \A i \in RowsOf(t) : calls'[i] = calls[i]
            BY <2>1, <2>4
        <3> QED BY <1>2, <2>1, <2>2, <3>1, BackedFrame
    <2> QED BY <2>3, <2>4
<1> QED BY <1>1, <1>5, <1>6, <1>7, <1>8, RowSteps

----------------------------------------------------------------------------
\* Money.

LEMMA SpentTypes == TypeOK => Spent \in Nat /\ SpentBefore \in Nat
<1> SUFFICES ASSUME TypeOK PROVE Spent \in Nat /\ SpentBefore \in Nat
    OBVIOUS
<1>1. calls \in Seq(CallRows)
    BY DEF TypeOK
<1> QED BY <1>1, RowsAreFinite, SpentIsSum DEF SpentSums

LEMMA MoneyQuiet ==
    ASSUME TypeOK, HandInv, MoneyInv, Quiet, Kept
    PROVE  MoneyInv'
<1> USE DEF budget, results, tool, outcome
<1>1. Spent' = Spent /\ SpentBefore' = SpentBefore
    BY SpentIsSum, SpentIsSumNext DEF SpentSums, Kept
<1>2. /\ Spent \in Nat /\ committed \in Nat /\ held \in Nat /\ amount \in Nat /\ charge \in Nat
      /\ Total \in Nat
    BY SpentTypes, JudgmentAssumption DEF TypeOK
<1>3. ASSUME committed' + held' = committed + held, UNCHANGED <<faulted, amount>>,
             \/ pc' = pc /\ UNCHANGED charge
             \/ pc \in {"idle", "auth", "reserve", "terminalize"} /\ pc' \in {"idle", "auth", "reserve"}
             \/ pc \in {"invoke", "terminalize"} /\ pc' \in {"invoke", "terminalize"}
             \/ pc' = "down"
      PROVE  MoneyInv'
    BY <1>1, <1>3 DEF MoneyInv
<1>4. CASE Crash
    BY <1>3, <1>4 DEF Crash
<1>5. CASE AuthOk \/ UNCHANGED vars
    BY <1>3, <1>5 DEF AuthOk, vars
<1>6. ASSUME NEW t \in Tasks, JudgeAbsent(t) \/ JudgeLatched(t) \/ Judge(t) PROVE MoneyInv'
    BY <1>3, <1>6 DEF JudgeAbsent, JudgeLatched, Judge
<1>7. ASSUME NEW k \in Keys, NEW valid \in BOOLEAN, Propose(k, valid) PROVE MoneyInv'
    BY <1>3, <1>7 DEF Propose
<1>8. ASSUME NEW result \in Results, NEW raised \in BOOLEAN, NEW cost \in Unknown..MaxCharge,
             Settle(result, raised, cost)
      PROVE  MoneyInv'
    BY <1>3, <1>8 DEF Settle
<1>9. CASE LedgerFails
    <2>1. pc' = "idle" /\ UNCHANGED <<committed, held, faulted>>
        BY <1>9 DEF LedgerFails, Leave
    <2>2. CASE ~faulted
        <3>1. Spent <= committed + held
            BY <1>2, <1>9, <2>2 DEF LedgerFails, MoneyInv
        <3> QED BY <1>1, <2>1, <3>1 DEF MoneyInv
    <2>3. CASE faulted
        BY <1>1, <2>1, <2>3 DEF MoneyInv
    <2> QED BY <2>2, <2>3
<1>10. CASE AccountingFails
    <2>1. pc' = "idle" /\ faulted'
        BY <1>10 DEF AccountingFails, Leave
    <2> QED BY <1>1, <2>1 DEF MoneyInv
<1>11. CASE Reserve
    <2>1. pc = "reserve" /\ pc' = "insert" /\ Remaining > 0 /\ held' = held + amount'
          /\ amount' = Reservation /\ committed' = committed
        BY <1>11 DEF Reserve
    <2>2. amount' \in Nat /\ amount' <= Total - committed - held
        BY <2>1, ReservationBounds, JudgmentAssumption DEF Remaining
    <2>3. Total - committed - held > 0
        BY <2>1 DEF Remaining
    <2>4. Spent <= committed + held
        BY <2>1 DEF MoneyInv, HandInv, Busy
    <2>5. /\ Spent + amount' <= committed' + held'
          /\ Spent < Total /\ Spent + amount' <= Total
        BY <1>2, <2>1, <2>2, <2>3, <2>4
    <2> QED BY <1>1, <2>1, <2>5 DEF MoneyInv
<1>12. CASE Advance
    <2>1. /\ pc = "advance" /\ held' = held - amount /\ committed' = committed + charge
          /\ pc' \in {"idle", "reserve"}
        BY <1>12 DEF Advance, Leave
    <2>2. Spent + amount <= committed + held + charge
        BY <2>1 DEF MoneyInv
    <2>3. Spent <= committed' + held'
        BY <1>2, <2>1, <2>2
    <2> QED BY <1>1, <2>1, <2>3 DEF MoneyInv
<1> QED BY <1>4, <1>5, <1>6, <1>7, <1>8, <1>9, <1>10, <1>11, <1>12 DEF Quiet

LEMMA MoneyNext ==
    ASSUME TypeOK, HandInv, LastRow, MoneyInv, [Next]_vars
    PROVE  MoneyInv'
<1>1. CASE Quiet /\ Kept
    BY <1>1, MoneyQuiet
<1>2. /\ Spent \in Nat /\ SpentBefore \in Nat /\ committed \in Nat /\ held \in Nat
      /\ amount \in Nat /\ charge \in Nat /\ Total \in Nat /\ Overshoot \in Nat
    BY SpentTypes, JudgmentAssumption DEF TypeOK
<1>3. ASSUME NEW c, Added(c)
      PROVE  SpentBefore' = Spent /\ Spent' = Spent + ChargeOf(c)
    <2>1. calls' = Append(calls, c) /\ calls \in Seq(CallRows) /\ c \in CallRows
        BY <1>3 DEF Added, TypeOK
    <2> QED BY <2>1, AppendAdds, SpentIsSum, SpentIsSumNext DEF SpentSums
<1>4. ASSUME NEW c, Added(c), ChargeOf(c) = 0, UNCHANGED <<committed, held, faulted>>,
             pc \in {"auth", "reserve"}, pc' = "idle"
      PROVE  MoneyInv'
    <2>1. Spent' = Spent
        BY <1>2, <1>3, <1>4
    <2>2. Spent <= committed + held
        BY <1>4 DEF MoneyInv, HandInv, Busy
    <2> QED BY <1>4, <2>1, <2>2 DEF MoneyInv
<1>5. CASE AuthRefused /\ Added(Row(task, "REJECTED", 0))
    BY <1>4, <1>5 DEF AuthRefused, Row, ChargeOf, Leave, budget
<1>6. CASE Exhausted /\ Added(Row(task, "EXHAUSTED", 0))
    BY <1>4, <1>6 DEF Exhausted, Row, ChargeOf, Leave, budget
<1>7. CASE InsertReserved /\ Added(Row(task, "RESERVED", amount))
    <2>1. ChargeOf(Row(task, "RESERVED", amount)) = amount
        BY DEF Row, ChargeOf
    <2>2. SpentBefore' = Spent /\ Spent' = Spent + amount
        BY <1>3, <1>7, <2>1
    <2>3. pc = "insert" /\ pc' = "invoke" /\ UNCHANGED <<committed, held, faulted>>
        BY <1>7 DEF InsertReserved, budget
    <2>4. Spent + amount <= committed + held /\ Spent < Total /\ Spent + amount <= Total
        BY <2>3 DEF MoneyInv
    <2>5. Spent' <= Total + Overshoot
        BY <1>2, <2>2, <2>4
    <2> QED BY <2>2, <2>3, <2>4, <2>5 DEF MoneyInv
<1>8. CASE Terminalize /\ pc = "terminalize" /\ Closed
    <2>1. Spent = SpentBefore + amount
        <3>1. calls[Len(calls)] = Row(task, "RESERVED", amount)
            BY <1>8 DEF LastRow
        <3>2. ChargeOf(calls[Len(calls)]) = amount
            BY <3>1 DEF ChargeOf, Row
        <3> QED BY <1>8, <3>2, LastAdds, SpentIsSum DEF SpentSums, Closed, TypeOK
    <2>2. Spent' = SpentBefore + charge
        <3>1. ChargeOf(Settled) = charge
            BY DEF ChargeOf, Settled
        <3>0. PICK new : new = [calls EXCEPT ![Len(calls)] = Settled]
            OBVIOUS
        <3>1a. /\ new \in Seq(CallRows) /\ Len(new) = Len(calls) /\ new[Len(calls)] = Settled
               /\ SumFunctionOnSet(Charges(new), DOMAIN new \ {Len(new)})
                     = SumFunctionOnSet(Charges(calls), DOMAIN calls \ {Len(calls)})
            <4>1. calls \in Seq(CallRows) /\ calls # <<>> /\ Settled \in CallRows
                BY <1>8 DEF Closed, TypeOK
            <4> QED BY <3>0, <4>1, LastIsSettled, Zenon
        <3>1b. calls' = new
            BY <1>8, <3>0 DEF Closed
        <3>2. /\ calls' \in Seq(CallRows) /\ Len(calls') = Len(calls)
              /\ calls'[Len(calls')] = Settled
              /\ SumFunctionOnSet(Charges(calls'), DOMAIN calls' \ {Len(calls')})
                    = SumFunctionOnSet(Charges(calls), DOMAIN calls \ {Len(calls)})
            BY <3>1a, <3>1b
        <3>3. calls' # <<>>
            <4>1. Len(calls) # 0
                BY <1>8, EmptySeq DEF Closed, TypeOK
            <4> QED BY <3>2, <4>1
        <3>4. SumFunctionOnSet(Charges(calls'), DOMAIN calls')
                 = SumFunctionOnSet(Charges(calls'), DOMAIN calls' \ {Len(calls')})
                     + ChargeOf(calls'[Len(calls')])
            BY <3>2, <3>3, LastAdds
        <3> QED BY <3>1, <3>2, <3>4, SpentIsSum, SpentIsSumNext DEF SpentSums
    <2>3. pc' = "advance" /\ UNCHANGED <<committed, held, amount, charge>>
        BY <1>8 DEF Terminalize, budget, outcome
    <2>4. /\ Spent <= committed + held /\ SpentBefore < Total /\ Spent <= Total
          /\ charge <= amount + Overshoot
        BY <1>8 DEF MoneyInv, HandInv, Busy
    <2>5. Spent' <= Total + Overshoot /\ Spent' + amount <= committed + held + charge
        BY <1>2, <2>1, <2>2, <2>4
    <2> QED BY <2>3, <2>5 DEF MoneyInv
<1> QED BY <1>1, <1>5, <1>6, <1>7, <1>8, RowSteps

----------------------------------------------------------------------------
\* The theorems.

LEMMA JudgmentInit == Init => JudgmentInv
<1> SUFFICES ASSUME Init PROVE JudgmentInv
    OBVIOUS
<1>1. TypeOK
    <2>1. /\ 0 \in 0..MaxAttempts /\ 0 \in 0..CallCap /\ 0 \in 0..(MaxTools + 1) /\ 0 \in 0..MaxCharge
          /\ Unknown \in Unknown..MaxCharge /\ 0 \in 0..MaxFaults
        BY JudgmentAssumption DEF MaxCharge, Unknown
    <2>2. calls \in Seq(CallRows)
        BY DEF Init
    <2> QED BY <2>1, <2>2 DEF Init, TypeOK, Classes, Results
<1>2. /\ HandInv /\ LastRow /\ RowInv
    BY NoTaskAssumption DEF Init, HandInv, LastRow, RowInv, Busy, Held, InCall
<1>3. /\ calls = <<>> /\ DOMAIN calls = {} /\ \A t \in Tasks : RowsOf(t) = {} /\ InvokedOf(t) = {}
    BY DEF Init, RowsOf, InvokedOf
<1>4. HistoryInv
    <2>0. Cardinality({}) = 0 /\ 0 <= MaxAttempts
        BY FS_EmptySet, JudgmentAssumption
    <2>1. \A t \in Tasks : Cardinality(InvokedOf(t)) <= MaxAttempts
        BY <1>3, <2>0
    <2> QED BY <1>3, <2>1 DEF Init, HistoryInv, InCall
<1>5. MoneyInv
    <2>1. Spent = 0
        BY <1>3, SumEmpty DEF Spent, CostOf
    <2>2. 0 <= Total + Overshoot
        BY JudgmentAssumption
    <2> QED BY <2>1, <2>2 DEF Init, MoneyInv
<1>6. VerdictsBacked
    BY DEF Init, VerdictsBacked
<1> QED BY <1>1, <1>2, <1>4, <1>5, <1>6 DEF JudgmentInv

LEMMA JudgmentNext == JudgmentInv /\ [Next]_vars => JudgmentInv'
<1> SUFFICES ASSUME JudgmentInv, [Next]_vars PROVE JudgmentInv'
    OBVIOUS
<1>1. TypeOK /\ HandInv /\ LastRow /\ RowInv /\ HistoryInv /\ MoneyInv /\ VerdictsBacked
    BY DEF JudgmentInv
<1> QED
    BY <1>1, TypeNext, HandNext, LastRowNext, RowInvNext, HistoryNext, MoneyNext, VerdictsNext
    DEF JudgmentInv

LEMMA JudgmentHolds == Spec => []JudgmentInv
BY JudgmentInit, JudgmentNext, PTL DEF Spec

LEMMA InvSpends == JudgmentInv => SpendSound
<1> SUFFICES ASSUME JudgmentInv PROVE SpendSound
    OBVIOUS
<1>1. BudgetHolds
    BY DEF JudgmentInv, MoneyInv, BudgetHolds, Spent, SpentBefore
<1>2. ASSUME NEW t \in Tasks, NEW i \in InvokedOf(t), NEW j \in InvokedOf(t), i < j
      PROVE  /\ calls[i].state = "FAILED" /\ calls[i].class = "SDK_BUDGET_CEILING"
             /\ calls[i].proposals <= MaxTools
    <2>1. i \in RowsOf(t) /\ j \in RowsOf(t) /\ i \in DOMAIN calls
        BY <1>2 DEF InvokedOf, RowsOf
    <2>2. CeilingRow(calls[i]) /\ SoundRow(calls[i])
        BY <1>2, <2>1 DEF JudgmentInv, HistoryInv, RowInv
    <2> QED BY <2>2 DEF CeilingRow, SoundRow
<1>3. \A t \in Tasks : Cardinality(InvokedOf(t)) <= MaxAttempts
    BY DEF JudgmentInv, HistoryInv
<1>4. RetryOnlyCeiling
    BY <1>2, <1>3 DEF RetryOnlyCeiling, InvokedOf
<1> QED BY <1>1, <1>4 DEF SpendSound

\* A confirmed task with rows has a valid history, and one that was paid for.
LEMMA ConfirmedIsValid ==
    ASSUME JudgmentInv, NEW t \in Tasks, verdict[t] = "confirmed", RowsOf(t) # {}
    PROVE  /\ ValidHistory(t)
           /\ \E i \in DOMAIN calls : calls[i].reserved > 0
<1>1. PICK last \in RowsOf(t) : /\ \A j \in RowsOf(t) : j <= last
                                /\ calls[last].state = "COMPLETED"
    BY DEF JudgmentInv, VerdictsBacked
<1>2. /\ RowsOf(t) \subseteq 1..Len(calls) /\ DOMAIN calls = 1..Len(calls) /\ Len(calls) \in Nat
      /\ IsFiniteSet(RowsOf(t)) /\ Cardinality(RowsOf(t)) \in Nat
    <2>1. RowsOf(t) \subseteq DOMAIN calls
        BY DEF RowsOf
    <2>2. calls \in Seq(CallRows)
        BY DEF JudgmentInv, TypeOK
    <2> QED BY <2>1, <2>2, RowsAreFinite
<1>3. ASSUME NEW i \in RowsOf(t) \ {last}
      PROVE  i < last /\ calls[i].state = "FAILED" /\ ReconstructsCeiling(i)
    <2>1. i < last
        BY <1>1, <1>2
    <2>2. CeilingRow(calls[i]) /\ SoundRow(calls[i])
        BY <1>2, <2>1 DEF JudgmentInv, HistoryInv, RowInv
    <2> QED BY <2>1, <2>2 DEF CeilingRow, SoundRow, ReconstructsCeiling
<1>4. InvokedOf(t) = RowsOf(t)
    BY <1>1, <1>3 DEF InvokedOf, Invoked
<1>5. Cardinality(RowsOf(t)) <= 2
    <2>1. Cardinality(RowsOf(t)) <= MaxAttempts
        BY <1>4 DEF JudgmentInv, HistoryInv
    <2> QED BY <1>2, <2>1, JudgmentAssumption
<1>6. last \in DOMAIN calls /\ calls[last].reserved > 0
    <2>1. SoundRow(calls[last]) /\ last \in DOMAIN calls
        BY <1>2 DEF JudgmentInv, RowInv
    <2> QED BY <1>1, <2>1 DEF SoundRow
<1> QED BY <1>1, <1>3, <1>5, <1>6 DEF ValidHistory

LEMMA InvReconstructs == JudgmentInv => GateReconstructs
<1> SUFFICES ASSUME JudgmentInv PROVE GateReconstructs
    OBVIOUS
<1>1. ASSUME NEW t \in Tasks \ {task}, RowsOf(t) # {}, ValidHistory(t), ~faulted
      PROVE  verdict[t] = "confirmed"
    <2>1. PICK i \in RowsOf(t) : calls[i].state = "COMPLETED"
        BY <1>1 DEF ValidHistory
    <2>2. verdict[t] # "none"
        BY <1>1 DEF JudgmentInv, HistoryInv
    <2>3. verdict[t] # "inconclusive"
        BY <1>1, <2>1 DEF JudgmentInv, VerdictsBacked
    <2>4. verdict[t] \in {"none", "confirmed", "inconclusive"}
        BY DEF JudgmentInv, TypeOK
    <2> QED BY <2>2, <2>3, <2>4
<1>2. \A i \in DOMAIN calls : calls[i].state = "FAILED" =>
          (ReconstructsCeiling(i) <=> calls[i].class = "SDK_BUDGET_CEILING")
    BY DEF JudgmentInv, RowInv, SoundRow, ReconstructsCeiling
<1>3. ASSUME pc = "idle", CostWithinCap, calls # <<>>, \A t \in Tasks : verdict[t] = "confirmed"
      PROVE  GateAccepts
    <2>1. Len(calls) \in DOMAIN calls
        BY <1>3, EmptySeq DEF JudgmentInv, TypeOK
    <2>2. PICK t \in Tasks : t = calls[Len(calls)].task
        <3>1. calls[Len(calls)] \in CallRows
            BY <2>1, RowsAreFinite DEF JudgmentInv, TypeOK
        <3> QED BY <3>1 DEF CallRows
    <2>3. RowsOf(t) # {}
        BY <2>1, <2>2 DEF RowsOf
    <2> QED BY <1>3, <2>3, ConfirmedIsValid DEF GateAccepts
<1> QED BY <1>1, <1>2, <1>3, ConfirmedIsValid DEF GateReconstructs

\* However calls fail, overshoot, time out or are repeated, and whatever the
\* ledger or the accounting does, a model call starts only while the ledger
\* leaves part of the run's budget, the accounted cost exceeds it by at most one
\* overshoot, and a task is invoked again only behind a call that ended at its
\* own ceiling (agents/checker/budget.py and agent.py).
THEOREM SpendIsSound == Spec => []SpendSound
BY JudgmentHolds, InvSpends, PTL

\* A confirmed task's findings are exactly what its last, completed call
\* accepted; a task given up has no completed call unless accounting faulted.
THEOREM VerdictsAreBacked == Spec => []VerdictsSound
<1>1. JudgmentInv => VerdictsSound
    BY DEF JudgmentInv, VerdictsSound
<1> QED BY <1>1, JudgmentHolds, PTL

\* The development gate, which sees rows and no failure class, calls a history
\* valid exactly when the judgment was answered or lost to an accounting fault,
\* and accepts every clean run within budget.
THEOREM GateReadsTheRows == Spec => []GateReconstructs
BY JudgmentHolds, InvReconstructs, PTL
=============================================================================
