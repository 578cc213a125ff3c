-------------------------- MODULE BoundedLoop_proofs --------------------------
(* Theorems about the bounded loop: its books are sound through every crash  *)
(* and resume, a breaker stops it when it must, and it never spends past its *)
(* ceiling.  What is decided on the cost ledger is proved for torn tears     *)
(* only: a line that lost nothing but its newline wedges the account (the    *)
(* run loop_ceiling).                                                        *)
EXTENDS BoundedLoop, FiniteSums, SequenceTheorems

----------------------------------------------------------------------------
\* The inductive invariant.

\* Only the newest iteration can be unfinished, a finalized one says what its
\* run's row says, and no run is ahead of the intents.
RowsInv ==
    /\ \A i \in DOMAIN iters :
          IF iters[i].state = "FINALIZED"
          THEN iters[i].status = run[i] /\ run[i] \in RunStatuses
          ELSE i = Len(iters)
    /\ \A i \in Iters : i > Len(iters) => run[i] = "NONE"

\* The iteration that is open, 0 when there is none.
Open == IF iters # <<>> /\ iters[Len(iters)].state = "INTENT" THEN Len(iters) ELSE 0

\* What the supervisor knows of the planned run, by where it is.
PcInv ==
    /\ pc = "repair" => /\ Open # 0
                        /\ next \in {"create", "finalize"}
                        /\ next = "create" => run[Open] = "NONE"
                        /\ next = "finalize" => run[Open] # "NONE"
    /\ pc = "running" => Open # 0 /\ run[Open] = "RUNNING"
    /\ pc \in {"section", "cost"} => Open # 0 /\ run[Open] \in RunStatuses
    /\ pc = "finalize" => Open # 0 /\ run[Open] \in RunStatuses /\ result = run[Open]

CoreInv == TypeOK /\ RowsInv /\ PcInv

----------------------------------------------------------------------------
\* Facts about rows.

LEMMA OpenIsPending ==
    ASSUME TypeOK, RowsInv
    PROVE  /\ Pending = Open
           /\ Open \in 0..N
           /\ Open # 0 => Open = Len(iters) /\ Open \in Iters /\ iters[Open].state = "INTENT"
           /\ Finalized(iters) = IF Open = 0 THEN 1..Len(iters) ELSE 1..(Len(iters) - 1)
<1>1. N \in Nat /\ Len(iters) \in Nat /\ DOMAIN iters = 1..Len(iters) /\ Len(iters) <= N
    BY LoopAssumption DEF TypeOK
<1>2. \A i \in 1..Len(iters) : iters[i] \in IterRows
    BY <1>1, ElementOfSeq DEF TypeOK
<1>3. \A i \in 1..Len(iters) : i < Len(iters) => iters[i].state = "FINALIZED"
    BY <1>1 DEF RowsInv
<1>4. Len(iters) # 0 <=> iters # <<>>
    BY <1>1, EmptySeq DEF TypeOK
<1>5. CASE Open = 0
    <2>1. Finalized(iters) = 1..Len(iters)
        BY <1>1, <1>2, <1>3, <1>4, <1>5 DEF Open, Finalized, IterRows
    <2> QED BY <1>1, <1>5, <2>1 DEF Pending
<1>6. CASE Open # 0
    <2>1. Open = Len(iters) /\ Open \in 1..N /\ iters[Open].state = "INTENT"
        BY <1>1, <1>4, <1>6 DEF Open
    <2>2. Finalized(iters) = 1..(Len(iters) - 1)
        BY <1>1, <1>2, <1>3, <2>1 DEF Finalized
    <2>3. DOMAIN iters \ Finalized(iters) = {Open}
        BY <1>1, <2>1, <2>2
    <2>4. Pending = Open
        BY <1>6, <2>3 DEF Pending
    <2> QED BY <1>6, <2>1, <2>2, <2>4 DEF Iters
<1> QED BY <1>5, <1>6

LEMMA FinalizedFinite ==
    ASSUME NEW rows \in Seq(IterRows)
    PROVE  /\ IsFiniteSet(Finalized(rows)) /\ Cardinality(Finalized(rows)) \in Nat
           /\ Streak(rows) \in Nat
<1>1. IsFiniteSet(DOMAIN rows)
    <2>1. DOMAIN rows = 1..Len(rows) /\ Len(rows) \in Nat
        OBVIOUS
    <2> QED BY <2>1, FS_Interval
<1>2. IsFiniteSet(Finalized(rows))
    BY <1>1, FS_Subset DEF Finalized
<1>3. \A S : S \subseteq Finalized(rows) => Cardinality(S) \in Nat
    BY <1>2, FS_Subset, FS_CardinalityType
<1>4. Streak(rows) \in Nat
    <2>1. {i \in Finalized(rows) : \A j \in Finalized(rows) :
              j >= i => rows[j].status # "COMPLETED"} \subseteq Finalized(rows)
        OBVIOUS
    <2> QED BY <1>3, <2>1 DEF Streak
<1> QED BY <1>2, <1>3, <1>4

\* The account is a natural number, whatever ids are asked for.
LEMMA AccountType ==
    ASSUME TypeOK, NEW ids
    PROVE  Accounted(ids) \in Nat
<1> DEFINE f == [k \in DOMAIN costs |-> spend[costs[k].run]]
           K == {k \in DOMAIN costs : costs[k].run \in ids}
<1>1. DOMAIN costs = 1..Len(costs) /\ Len(costs) \in Nat
    BY DEF TypeOK
<1>2. \A k \in DOMAIN costs : costs[k] \in Lines
    BY <1>1, ElementOfSeq DEF TypeOK
<1>3. \A k \in DOMAIN costs : f[k] \in Nat
    BY <1>2, LoopAssumption DEF TypeOK, Lines, MaxSpend
<1>4. IsFiniteSet(DOMAIN costs)
    BY <1>1, FS_Interval
<1>5. IsFiniteSet(K)
    BY <1>4, FS_Subset
<1> HIDE DEF f
<1>6. SumFunctionOnSet(f, K) \in Nat
    BY <1>3, <1>5, SumType
<1> QED BY <1>6 DEF Accounted, f

\* The cost ledger stays a sequence of lines, however a write ends.
LEMMA CostType ==
    ASSUME NEW c \in Seq(Lines), NEW r \in Iters
    PROVE  /\ AppendCost(c, r) \in Seq(Lines)
           /\ TornCosts(c, r, CostTears) \subseteq Seq(Lines)
<1>1. RepairTrailing(c) \in Seq(Lines)
    <2>1. c # <<>> => SubSeq(c, 1, Len(c) - 1) \in Seq(Lines)
        BY SubSeqProperties, ElementOfSeq
    <2> QED BY <2>1 DEF RepairTrailing
<1>2. ASSUME NEW d \in Seq(Lines), NEW form \in {"row", "bare", "torn"}
      PROVE  AppendLine(d, r, form) \in Seq(Lines)
    <2> DEFINE f == IF form = "row" THEN "garbled" ELSE "torn"
    <2>1. [run |-> r, form |-> form] \in Lines /\ [run |-> r, form |-> f] \in Lines
        BY DEF Lines, LineForms
    <2>2. CASE d = <<>> \/ HasNewline(d[Len(d)])
        BY <2>1, <2>2 DEF AppendLine
    <2>3. CASE ~(d = <<>> \/ HasNewline(d[Len(d)]))
        BY <2>1, <2>3, ExceptSeq DEF AppendLine
    <2> QED BY <2>2, <2>3
<1>3. CostTears \subseteq {"row", "bare", "torn"}
    BY LoopAssumption
<1> QED BY <1>1, <1>2, <1>3 DEF AppendCost, TornCosts

\* A fault leaves the files typed, and the two outputs of runs only.
LEMMA TornType ==
    ASSUME CoreInv, TornWrite
    PROVE  sections' \subseteq Iters /\ costs' \in Seq(Lines) /\ sections \subseteq sections'
<1>1. sections \subseteq Iters /\ costs \in Seq(Lines)
    BY DEF CoreInv, TypeOK
<1>2. CASE UNCHANGED files
    BY <1>1, <1>2 DEF files
<1>3. CASE pc = "cost" /\ costs' \in TornCosts(costs, Pending, CostTears) /\ UNCHANGED sections
    <2>1. Pending \in Iters
        BY <1>3, OpenIsPending DEF CoreInv, PcInv
    <2> QED BY <1>1, <1>3, <2>1, CostType
<1>4. ASSUME NEW i \in Iters, sections' = sections \cup {i}, costs' \in TornCosts(costs, i, CostTears)
      PROVE  sections' \subseteq Iters /\ costs' \in Seq(Lines) /\ sections \subseteq sections'
    BY <1>1, <1>4, CostType
<1> QED BY <1>2, <1>3, <1>4 DEF TornWrite

----------------------------------------------------------------------------
\* The core of the invariant.

LEMMA CoreInit == Init => CoreInv
<1> SUFFICES ASSUME Init PROVE CoreInv
    OBVIOUS
<1>1. TypeOK
    <2>1. loop \in LoopRows
        BY DEF Init, LoopRows
    <2>2. iters \in Seq(IterRows) /\ Len(iters) <= N /\ costs \in Seq(Lines)
        BY LoopAssumption, EmptySeq DEF Init
    <2>3. run \in [Iters -> Statuses] /\ spend \in [Iters -> 0..MaxSpend]
        BY LoopAssumption DEF Init, Statuses, MaxSpend
    <2>4. allow \in 0..RunCap /\ faults \in 0..MaxFaults
        BY LoopAssumption DEF Init
    <2> QED BY <2>1, <2>2, <2>3, <2>4 DEF Init, TypeOK
<1>2. RowsInv /\ PcInv
    BY DEF Init, RowsInv, PcInv
<1> QED BY <1>1, <1>2 DEF CoreInv

\* Begin_or_load_loop, and the decisions that only move the supervisor.
LEMMA CoreDecide ==
    ASSUME CoreInv, Begin \/ Stop \/ AdoptRunning \/ StartPlanned \/ AdoptTerminal
    PROVE  CoreInv'
<1> USE DEF CoreInv
<1>1. Pending = Open /\ (Open # 0 => Open \in Iters)
    BY OpenIsPending
<1>2. UNCHANGED <<iters, run>>
    BY DEF Begin, Stop, AdoptRunning, StartPlanned, AdoptTerminal, tables
<1>3. Open' = Open /\ RowsInv'
    BY <1>2 DEF Open, RowsInv
<1>4. CASE Begin
    <2>1. TypeOK'
        BY <1>4 DEF Begin, TypeOK, LoopRows, memory, files
    <2>2. PcInv'
        BY <1>4 DEF Begin, PcInv
    <2> QED BY <1>3, <2>1, <2>2
<1>5. CASE Stop
    <2>1. reason' \in Reasons
        BY <1>5 DEF Stop, Decision, Reasons
    <2>2. TypeOK'
        BY <1>5, <2>1 DEF Stop, TypeOK, tables, files
    <2>3. PcInv'
        BY <1>5 DEF Stop, PcInv
    <2> QED BY <1>3, <2>2, <2>3
<1>6. CASE AdoptRunning
    <2>1. TypeOK'
        BY <1>6 DEF AdoptRunning, TypeOK, tables, files
    <2>2. PcInv'
        BY <1>1, <1>2, <1>3, <1>6 DEF AdoptRunning, PcInv
    <2> QED BY <1>3, <2>1, <2>2
<1>7. CASE StartPlanned
    <2>1. /\ reason' \in Reasons \cup {"NONE"}
          /\ allow' \in 0..RunCap /\ next' \in {"none", "create", "finalize"}
          /\ pc' \in {"repair", "finish"} /\ (pc' = "repair" => next' = "create")
        <3>1. Accounted(Finalized(iters)) \in Nat
            BY AccountType
        <3> QED BY <1>7, <3>1, LoopAssumption DEF StartPlanned, Allowance, TypeOK, Reasons
    <2>2. TypeOK'
        BY <1>7, <2>1 DEF StartPlanned, TypeOK, tables, files
    <2>3. PcInv'
        BY <1>1, <1>2, <1>3, <1>7, <2>1 DEF StartPlanned, PcInv
    <2> QED BY <1>3, <2>2, <2>3
<1>8. CASE AdoptTerminal
    <2>1. run[Open] \in RunStatuses /\ Open # 0
        BY <1>1, <1>8 DEF AdoptTerminal, IsTerminal
    <2>2. TypeOK'
        BY <1>1, <1>8, <2>1 DEF AdoptTerminal, TypeOK, tables, files
    <2>3. PcInv'
        BY <1>1, <1>2, <1>3, <1>8, <2>1 DEF AdoptTerminal, PcInv, RunStatuses
    <2> QED BY <1>3, <2>2, <2>3
<1> QED BY <1>4, <1>5, <1>6, <1>7, <1>8

LEMMA CoreOpenIntent ==
    ASSUME CoreInv, OpenIntent
    PROVE  /\ CoreInv'
           /\ Open = 0 /\ Open' = Len(iters) + 1
           /\ Finalized(iters') = Finalized(iters) /\ Len(iters') = Len(iters) + 1
           /\ \A i \in Finalized(iters) : iters'[i] = iters[i]
<1> USE DEF CoreInv
<1> DEFINE row == [state |-> "INTENT", status |-> "NONE", after |-> 0, cost |-> 0]
           n == Len(iters) + 1
<1>1. Pending = Open /\ Open = 0 /\ Finalized(iters) = 1..Len(iters)
    BY OpenIsPending DEF OpenIntent
<1>2. row \in IterRows /\ iters \in Seq(IterRows) /\ Len(iters) \in Nat
    BY DEF IterRows, TypeOK
<1>3. /\ iters' \in Seq(IterRows) /\ Len(iters') = n /\ DOMAIN iters' = 1..n
      /\ iters'[n] = row /\ \A i \in 1..Len(iters) : iters'[i] = iters[i]
    BY <1>2, AppendProperties DEF OpenIntent
<1>4. n <= N
    <2>1. Cardinality(Finalized(iters)) < N
        <3>1. Cardinality(Finalized(iters)) \in Nat
            BY <1>2, FinalizedFinite
        <3> QED BY <3>1, LoopAssumption DEF OpenIntent, Decision
    <2>2. Cardinality(1..Len(iters)) = Len(iters)
        BY <1>2, FS_Interval
    <2> QED BY <1>1, <1>2, <2>1, <2>2, LoopAssumption
<1>5. Open' = n
    BY <1>2, <1>3 DEF Open
<1>6. Finalized(iters') = 1..Len(iters)
    <2>1. \A i \in 1..n : i \in Finalized(iters') <=> i \in 1..Len(iters)
        BY <1>1, <1>2, <1>3 DEF Finalized
    <2> QED BY <1>2, <1>3, <2>1 DEF Finalized
<1>7. TypeOK'
    <2>1. allow' \in 0..RunCap
        <3>1. Accounted(Finalized(iters)) \in Nat
            BY AccountType
        <3>2. Accounted(Finalized(iters)) < Budget
            BY <3>1, LoopAssumption DEF OpenIntent, Decision
        <3> QED BY <3>1, <3>2, LoopAssumption DEF OpenIntent, Allowance
    <2>2. loop' \in LoopRows
        <3>1. loop \in LoopRows /\ loop.started + 1 \in Nat
            BY DEF TypeOK, LoopRows
        <3> QED BY <3>1, Zenon DEF OpenIntent, LoopRows
    <2> QED BY <1>3, <1>4, <2>1, <2>2 DEF OpenIntent, TypeOK, files
<1>8. run[n] = "NONE"
    BY <1>2, <1>4 DEF RowsInv, Iters
<1>9. RowsInv'
    <2>1. \A i \in 1..n : IF iters'[i].state = "FINALIZED"
                          THEN iters'[i].status = run[i] /\ run[i] \in RunStatuses
                          ELSE i = n
        BY <1>1, <1>2, <1>3 DEF RowsInv, Finalized
    <2>2. \A i \in Iters : i > n => run[i] = "NONE"
        BY <1>2 DEF RowsInv, Iters
    <2> QED BY <1>3, <2>1, <2>2 DEF RowsInv, OpenIntent
<1>10. PcInv'
    BY <1>2, <1>5, <1>8 DEF OpenIntent, PcInv
<1> QED BY <1>1, <1>3, <1>5, <1>6, <1>7, <1>9, <1>10

\* Recovery closes runs, and starts none.
LEMMA CoreRecover ==
    ASSUME CoreInv, CloseInterrupted \/ OutsideRecover
    PROVE  /\ CoreInv'
           /\ \A i \in Iters : /\ run'[i] = "NONE" <=> run[i] = "NONE"
                               /\ run[i] \in RunStatuses => run'[i] = run[i]
<1> USE DEF CoreInv
<1>1. run' = [i \in Iters |-> IF run[i] = "RUNNING" THEN "FAILED" ELSE run[i]]
    BY DEF CloseInterrupted, OutsideRecover, Interrupted
<1>2. \A i \in Iters : /\ run'[i] = "NONE" <=> run[i] = "NONE"
                       /\ run[i] \in RunStatuses => run'[i] = run[i]
    BY <1>1 DEF RunStatuses
<1>3. UNCHANGED <<tables, spend, files, pc, memory, faults>>
    BY DEF CloseInterrupted, OutsideRecover
<1>4. run' \in [Iters -> Statuses]
    BY <1>1 DEF TypeOK, Statuses
<1>5. TypeOK'
    BY <1>3, <1>4 DEF TypeOK, tables, files, memory
<1>6. Open' = Open /\ (Open # 0 => Open \in Iters)
    BY <1>3, OpenIsPending DEF Open, tables
<1>7. RowsInv'
    <2>1. \A i \in DOMAIN iters : i \in Iters
        BY LoopAssumption DEF TypeOK, Iters
    <2> QED BY <1>2, <1>3, <2>1 DEF RowsInv, tables
<1>8. PcInv'
    BY <1>2, <1>3, <1>6 DEF PcInv, memory, CloseInterrupted, OutsideRecover
<1> QED BY <1>2, <1>5, <1>7, <1>8

\* The outputs of a run are written of a run that is there.
LEMMA CoreOutputs ==
    ASSUME CoreInv, WriteSection \/ WriteCost \/ RepairDone \/ \E i \in Iters : Backfill(i)
    PROVE  CoreInv'
<1> USE DEF CoreInv
<1>1. Pending = Open /\ (Open # 0 => Open \in Iters)
    BY OpenIsPending
<1>2. UNCHANGED <<tables, run, spend>>
    BY DEF WriteSection, WriteCost, RepairDone, Backfill
<1>3. Open' = Open /\ RowsInv'
    BY <1>2 DEF Open, RowsInv, tables
<1>4. CASE WriteSection
    <2>1. TypeOK'
        BY <1>1, <1>4 DEF WriteSection, PcInv, TypeOK, tables, memory
    <2> QED BY <1>2, <1>3, <1>4, <2>1 DEF WriteSection, PcInv, memory
<1>5. CASE WriteCost
    <2>1. Open \in Iters /\ run[Open] \in RunStatuses /\ costs' \in Seq(Lines)
        BY <1>1, <1>5, CostType DEF WriteCost, PcInv, TypeOK
    <2>2. TypeOK'
        BY <1>1, <1>5, <2>1 DEF WriteCost, TypeOK, tables
    <2> QED BY <1>1, <1>2, <1>3, <1>5, <2>1, <2>2 DEF WriteCost, PcInv
<1>6. CASE RepairDone
    <2>1. Open \in Iters /\ run[Open] \in RunStatuses
        <3>1. Open \in Iters /\ run[Open] # "NONE" /\ run[Open] # "RUNNING"
            BY <1>1, <1>6 DEF RepairDone, PcInv, Interrupted
        <3> QED BY <3>1 DEF TypeOK, Statuses, RunStatuses
    <2>2. TypeOK'
        BY <1>1, <1>6, <2>1 DEF RepairDone, TypeOK, tables, files
    <2> QED BY <1>1, <1>2, <1>3, <1>6, <2>1, <2>2 DEF RepairDone, PcInv
<1>7. ASSUME NEW i \in Iters, Backfill(i)
      PROVE  CoreInv'
    <2>1. costs' \in Seq(Lines)
        BY <1>7, CostType DEF Backfill, TypeOK
    <2>2. TypeOK'
        BY <1>7, <2>1 DEF Backfill, TypeOK, tables, memory
    <2> QED BY <1>2, <1>3, <1>7, <2>2 DEF Backfill, PcInv, memory
<1> QED BY <1>4, <1>5, <1>6, <1>7

LEMMA CoreRun ==
    ASSUME CoreInv,
           \/ \E amount \in 0..MaxSpend : CreateRun(amount)
           \/ \E status \in RunStatuses : CloseRun(status)
    PROVE  CoreInv'
<1> USE DEF CoreInv
<1>1. Pending = Open /\ (Open # 0 => Open \in Iters /\ Open = Len(iters) /\ iters[Open].state = "INTENT")
    BY OpenIsPending
<1>2. ASSUME NEW st \in Statuses \ {"NONE"}, run' = [run EXCEPT ![Open] = st], Open # 0,
             UNCHANGED tables
      PROVE  run' \in [Iters -> Statuses] /\ run'[Open] = st /\ Open' = Open /\ RowsInv'
    <2>1. run' \in [Iters -> Statuses] /\ run'[Open] = st /\ Open' = Open
        BY <1>1, <1>2 DEF TypeOK, Open, tables
    <2>2. \A i \in Iters : i # Open => run'[i] = run[i]
        BY <1>2 DEF TypeOK
    <2>3. \A i \in DOMAIN iters : i \in Iters
        BY LoopAssumption DEF TypeOK, Iters
    <2>4. \A i \in DOMAIN iters : iters[i].state = "FINALIZED" => i # Open
        BY <1>1, <1>2
    <2> QED BY <1>1, <1>2, <2>1, <2>2, <2>3, <2>4 DEF RowsInv, tables
<1>3. ASSUME NEW amount \in 0..MaxSpend, CreateRun(amount)
      PROVE  CoreInv'
    <2>1. Open # 0 /\ run' = [run EXCEPT ![Open] = "RUNNING"] /\ UNCHANGED tables
        BY <1>1, <1>3 DEF CreateRun, PcInv
    <2>2. /\ run' \in [Iters -> Statuses] /\ run'[Open] = "RUNNING" /\ Open' = Open /\ RowsInv'
        BY <1>2, <2>1 DEF Statuses
    <2>3. spend' \in [Iters -> 0..MaxSpend]
        BY <1>3 DEF CreateRun, TypeOK
    <2>4. TypeOK'
        BY <1>3, <2>2, <2>3 DEF CreateRun, TypeOK, tables, files
    <2> QED BY <1>3, <2>1, <2>2, <2>4 DEF CreateRun, PcInv
<1>4. ASSUME NEW st \in RunStatuses, CloseRun(st)
      PROVE  CoreInv'
    <2>1. Open # 0 /\ run' = [run EXCEPT ![Open] = st] /\ UNCHANGED tables
        BY <1>1, <1>4 DEF CloseRun, PcInv
    <2>2. /\ run' \in [Iters -> Statuses] /\ run'[Open] = st /\ Open' = Open /\ RowsInv'
        BY <1>2, <2>1 DEF Statuses, RunStatuses
    <2>3. TypeOK'
        BY <1>4, <2>2 DEF CloseRun, TypeOK, tables, files, memory
    <2> QED BY <1>4, <2>1, <2>2, <2>3 DEF CloseRun, PcInv
<1> QED BY <1>3, <1>4

\* The counters of a summary are numbers.
LEMMA SummaryType ==
    ASSUME TypeOK, NEW rows \in Seq(IterRows), NEW cost \in Nat
    PROVE  /\ Summary(rows, cost) \in LoopRows
           /\ Summary(rows, cost).started = Len(rows)
           /\ Summary(rows, cost).completed = Cardinality(Finalized(rows))
           /\ Summary(rows, cost).streak = Streak(rows)
           /\ Summary(rows, cost).status = loop.status
           /\ Summary(rows, cost).reason = loop.reason
<1>1. Len(rows) \in Nat /\ Cardinality(Finalized(rows)) \in Nat /\ Streak(rows) \in Nat
    BY FinalizedFinite
<1> QED BY <1>1 DEF Summary, TypeOK, LoopRows

LEMMA CoreFinalize ==
    ASSUME CoreInv, Finalize
    PROVE  /\ CoreInv'
           /\ Open \in Iters /\ Open = Len(iters) /\ Open' = 0
           /\ iters'[Open].status = run[Open]
           /\ Len(iters') = Len(iters) /\ Finalized(iters') = Finalized(iters) \cup {Open}
           /\ \A i \in DOMAIN iters : i # Open => iters'[i] = iters[i]
<1> USE DEF CoreInv
<1> DEFINE row == [state |-> "FINALIZED", status |-> result,
                   after |-> IF result = "COMPLETED" THEN 0
                             ELSE Streak(SubSeq(iters, 1, Pending - 1)) + 1,
                   cost |-> Accounted({Pending})]
<1>1. /\ Pending = Open /\ Open \in Iters /\ Open = Len(iters)
      /\ Finalized(iters) = 1..(Len(iters) - 1)
      /\ run[Open] \in RunStatuses /\ result = run[Open]
    BY OpenIsPending DEF Finalize, PcInv
<1>2. iters \in Seq(IterRows) /\ Len(iters) \in Nat /\ Len(iters) # 0
    BY <1>1 DEF TypeOK, Iters
<1>3. SubSeq(iters, 1, Open - 1) \in Seq(IterRows)
    BY <1>1, <1>2, SubSeqProperties, ElementOfSeq
<1>4. row \in IterRows
    <2>1. Streak(SubSeq(iters, 1, Pending - 1)) \in Nat
        BY <1>1, <1>3, FinalizedFinite
    <2>2. Accounted({Pending}) \in Nat
        BY AccountType
    <2> QED BY <1>1, <2>1, <2>2 DEF IterRows
<1>5. iters' = [iters EXCEPT ![Open] = row]
    BY <1>1 DEF Finalize
<1> HIDE DEF row
<1>6. /\ iters' \in Seq(IterRows) /\ Len(iters') = Len(iters) /\ DOMAIN iters' = 1..Len(iters)
      /\ iters'[Open] = row /\ \A i \in 1..Len(iters) : i # Open => iters'[i] = iters[i]
    BY <1>1, <1>2, <1>4, <1>5, ExceptSeq
<1>7. row.state = "FINALIZED" /\ row.status = run[Open]
    BY <1>1 DEF row
<1>8. Finalized(iters') = Finalized(iters) \cup {Open}
    <2>1. \A i \in 1..Len(iters) : i \in Finalized(iters') <=> i \in Finalized(iters) \cup {Open}
        BY <1>1, <1>2, <1>6, <1>7 DEF Finalized
    <2> QED BY <1>1, <1>2, <1>6, <2>1 DEF Finalized
<1>9. Open' = 0
    BY <1>1, <1>6, <1>7 DEF Open
<1>10. UNCHANGED <<run, spend, sections, costs, next, reason, late, faults>>
       /\ pc' = "supervise" /\ result' = "NONE" /\ allow' = 0
    BY DEF Finalize, files
<1>11. TypeOK'
    <2>1. loop' \in LoopRows
        <3>1. loop' = Summary(iters', Accounted(Finalized(iters')))
            BY DEF Finalize
        <3> QED BY <1>6, <3>1, AccountType, SummaryType
    <2>2. 0 \in 0..RunCap
        BY LoopAssumption
    <2> QED BY <1>6, <1>10, <2>1, <2>2 DEF TypeOK
<1>12. RowsInv'
    <2>1. \A i \in 1..Len(iters) : iters'[i].state = "FINALIZED" =>
              iters'[i].status = run[i] /\ run[i] \in RunStatuses
        BY <1>1, <1>2, <1>6, <1>7 DEF RowsInv
    <2>2. \A i \in 1..Len(iters) : iters'[i].state = "FINALIZED"
        BY <1>1, <1>2, <1>6, <1>8 DEF Finalized
    <2>3. \A i \in Iters : i > Len(iters) => run[i] = "NONE"
        BY DEF RowsInv
    <2> QED BY <1>6, <1>10, <2>1, <2>2, <2>3 DEF RowsInv
<1>13. PcInv'
    BY <1>10 DEF PcInv
<1> QED BY <1>1, <1>6, <1>7, <1>8, <1>9, <1>11, <1>12, <1>13

LEMMA CoreFinish ==
    ASSUME CoreInv, Finish
    PROVE  CoreInv'
<1> USE DEF CoreInv
<1>1. loop' \in LoopRows
    <2> DEFINE s == Summary(iters, Accounted(Finalized(iters)))
    <2>1. s \in LoopRows /\ reason \in Reasons \cup {"NONE"}
        BY AccountType, SummaryType DEF TypeOK
    <2>2. loop' = [s EXCEPT !.status = "FINISHED", !.reason = reason]
        BY DEF Finish
    <2> HIDE DEF s
    <2> QED BY <2>1, <2>2 DEF LoopRows
<1>2. TypeOK'
    <2>1. 0 \in 0..RunCap
        BY LoopAssumption
    <2> QED BY <1>1, <2>1 DEF Finish, Exit, TypeOK, files
<1>3. RowsInv' /\ PcInv'
    BY DEF Finish, Exit, RowsInv, PcInv
<1> QED BY <1>2, <1>3

LEMMA CoreFault ==
    ASSUME CoreInv, OutputFails \/ Abort \/ Crash
    PROVE  CoreInv'
<1> USE DEF CoreInv
<1>1. Pending = Open /\ (Open # 0 => Open \in Iters /\ Open = Len(iters) /\ iters[Open].state = "INTENT")
    BY OpenIsPending
<1>2. /\ TornWrite /\ sections' \subseteq Iters /\ costs' \in Seq(Lines)
      /\ faults' \in 0..MaxFaults
    BY TornType, LoopAssumption DEF OutputFails, Abort, Crash, Fault, TypeOK
<1>3. CASE OutputFails
    <2>1. Open # 0 /\ run[Open] \in RunStatuses
        BY <1>3 DEF OutputFails, PcInv
    <2>2. run' \in [Iters -> Statuses] /\ run'[Open] = "FAILED" /\ Open' = Open
        BY <1>1, <1>3, <2>1 DEF OutputFails, TypeOK, Statuses, Open, tables
    <2>3. RowsInv'
        <3>1. \A i \in Iters : i # Open => run'[i] = run[i]
            BY <1>1, <1>3 DEF OutputFails, TypeOK
        <3>2. \A i \in DOMAIN iters : i \in Iters
            BY LoopAssumption DEF TypeOK, Iters
        <3>3. \A i \in DOMAIN iters : iters[i].state = "FINALIZED" => i # Open
            BY <1>1, <2>1
        <3> QED BY <1>1, <1>3, <2>1, <3>1, <3>2, <3>3 DEF OutputFails, RowsInv, tables
    <2>4. TypeOK'
        BY <1>2, <1>3, <2>2 DEF OutputFails, TypeOK, tables
    <2> QED BY <1>3, <2>1, <2>2, <2>3, <2>4 DEF OutputFails, PcInv, RunStatuses
<1>4. CASE Abort
    <2>1. TypeOK'
        BY <1>2, <1>4 DEF Abort, TypeOK, tables, Reasons
    <2> QED BY <1>4, <2>1 DEF Abort, RowsInv, PcInv, tables
<1>5. CASE Crash
    <2>1. TypeOK'
        <3>1. 0 \in 0..RunCap
            BY LoopAssumption
        <3> QED BY <1>2, <1>5, <3>1 DEF Crash, Exit, TypeOK, tables
    <2> QED BY <1>5, <2>1 DEF Crash, Exit, RowsInv, PcInv, tables
<1> QED BY <1>3, <1>4, <1>5

LEMMA CoreNext == CoreInv /\ [Next]_vars => CoreInv'
<1> SUFFICES ASSUME CoreInv, [Next]_vars PROVE CoreInv'
    OBVIOUS
<1>1. CASE UNCHANGED vars
    BY <1>1 DEF vars, tables, files, memory, CoreInv, TypeOK, RowsInv, PcInv, Open
<1> QED
    BY <1>1, CoreDecide, CoreOpenIntent, CoreRecover, CoreOutputs, CoreRun, CoreFinalize,
       CoreFinish, CoreFault
    DEF Next, Progress, Supervise, Execute

----------------------------------------------------------------------------
\* The streak and the rows it is derived from.

\* A streak depends on the finalized rows and their statuses only.
LEMMA StreakSame ==
    ASSUME NEW rows, NEW other, Finalized(rows) = Finalized(other),
           \A i \in Finalized(rows) : rows[i].status = other[i].status
    PROVE  Streak(rows) = Streak(other)
<1>1. {i \in Finalized(rows) : \A j \in Finalized(rows) : j >= i => rows[j].status # "COMPLETED"}
        = {i \in Finalized(other) : \A j \in Finalized(other) : j >= i => other[j].status # "COMPLETED"}
    OBVIOUS
<1> QED BY <1>1 DEF Streak

\* One more finalized row starts the streak again or makes it longer by one.
LEMMA StreakLast ==
    ASSUME NEW rows \in Seq(IterRows), NEW n \in Nat \ {0}, n <= Len(rows),
           \A i \in 1..n : rows[i].state = "FINALIZED"
    PROVE  Streak(SubSeq(rows, 1, n)) =
               IF rows[n].status = "COMPLETED" THEN 0 ELSE Streak(SubSeq(rows, 1, n - 1)) + 1
<1> DEFINE a == SubSeq(rows, 1, n)
           b == SubSeq(rows, 1, n - 1)
           A == {i \in 1..n : \A j \in 1..n : j >= i => rows[j].status # "COMPLETED"}
           B == {i \in 1..(n - 1) : \A j \in 1..(n - 1) : j >= i => rows[j].status # "COMPLETED"}
<1>0. \A i \in 1..n : rows[i] \in IterRows
    BY ElementOfSeq
<1>1. /\ a \in Seq(IterRows) /\ Len(a) = n /\ \A i \in 1..n : a[i] = rows[i]
      /\ b \in Seq(IterRows) /\ Len(b) = n - 1 /\ \A i \in 1..(n - 1) : b[i] = rows[i]
    BY <1>0, SubSeqProperties
<1> HIDE DEF a, b
<1>2. Finalized(a) = 1..n /\ Finalized(b) = 1..(n - 1)
    BY <1>1 DEF Finalized
<1>3. Streak(a) = Cardinality(A) /\ Streak(b) = Cardinality(B)
    <2>1. {i \in Finalized(a) : \A j \in Finalized(a) : j >= i => a[j].status # "COMPLETED"} = A
        BY <1>1, <1>2
    <2>2. {i \in Finalized(b) : \A j \in Finalized(b) : j >= i => b[j].status # "COMPLETED"} = B
        BY <1>1, <1>2
    <2> HIDE DEF A, B
    <2> QED BY <2>1, <2>2 DEF Streak
<1>4. CASE rows[n].status = "COMPLETED"
    <2>1. A = {}
        BY <1>4
    <2> HIDE DEF A
    <2> QED BY <1>3, <1>4, <2>1, FS_EmptySet DEF a, b
<1>5. CASE rows[n].status # "COMPLETED"
    <2>1. A = B \cup {n} /\ n \notin B
        BY <1>5
    <2>2. IsFiniteSet(B)
        <3>1. IsFiniteSet(1..(n - 1))
            BY FS_Interval
        <3>2. B \subseteq 1..(n - 1)
            OBVIOUS
        <3> HIDE DEF B
        <3> QED BY <3>1, <3>2, FS_Subset
    <2> HIDE DEF A, B
    <2>3. Cardinality(A) = Cardinality(B) + 1
        BY <2>1, <2>2, FS_AddElement
    <2> QED BY <1>3, <1>5, <2>3 DEF a, b
<1> QED BY <1>4, <1>5

\* The loop row agrees with the iteration rows, and the streak stored with an
\* iteration is the one of the rows up to it.
BooksInv ==
    /\ loop.started = Len(iters)
    /\ loop.completed = Cardinality(Finalized(iters))
    /\ loop.streak = Streak(iters)
    /\ \A i \in Finalized(iters) : iters[i].after = Streak(SubSeq(iters, 1, i))

\* A whole prefix is itself.
LEMMA WholePrefix ==
    ASSUME NEW rows \in Seq(IterRows)
    PROVE  SubSeq(rows, 1, Len(rows)) = rows
BY SubSeqFull

\* Prefixes of sequences that agree that far are equal.
LEMMA SamePrefix ==
    ASSUME NEW rows \in Seq(IterRows), NEW other \in Seq(IterRows), NEW n \in Nat,
           n <= Len(rows), n <= Len(other), \A i \in 1..n : rows[i] = other[i]
    PROVE  SubSeq(rows, 1, n) = SubSeq(other, 1, n)
<1>1. \A i \in 1..n : rows[i] \in IterRows /\ other[i] \in IterRows
    BY ElementOfSeq
<1> QED BY <1>1, SubSeqProperties, SeqEqual

LEMMA BooksFinalize ==
    ASSUME CoreInv, BooksInv, Finalize
    PROVE  BooksInv'
<1> DEFINE n == Len(iters)
<1>1. /\ Pending = Open /\ Open = n /\ n \in Iters
      /\ Finalized(iters) = 1..(n - 1) /\ result = run[Open]
    BY OpenIsPending DEF CoreInv, PcInv, Finalize
<1>2. /\ iters'[n].status = run[n]
      /\ Len(iters') = n /\ Finalized(iters') = 1..n
      /\ \A i \in 1..(n - 1) : iters'[i] = iters[i]
    <2>1. n \in Nat \ {0} /\ DOMAIN iters = 1..n
        BY <1>1 DEF CoreInv, TypeOK, Iters
    <2>2. /\ iters'[n].status = run[n] /\ Len(iters') = n
          /\ Finalized(iters') = (1..(n - 1)) \cup {n}
          /\ \A i \in 1..n : i # n => iters'[i] = iters[i]
        BY <1>1, <2>1, CoreFinalize
    <2> HIDE DEF n
    <2>3. (1..(n - 1)) \cup {n} = 1..n
        BY <2>1
    <2>4. \A i \in 1..(n - 1) : i \in 1..n /\ i # n
        BY <2>1
    <2>5. Finalized(iters') = 1..n
        BY <2>2, <2>3, Zenon
    <2> QED BY <2>2, <2>4, <2>5
<1>3. iters \in Seq(IterRows) /\ iters' \in Seq(IterRows) /\ n \in Nat \ {0}
    BY <1>1, CoreFinalize DEF CoreInv, TypeOK, Iters
<1>4. loop' = Summary(iters', Accounted(Finalized(iters')))
    BY DEF Finalize
<1>5. loop'.started = n /\ loop'.completed = Cardinality(Finalized(iters')) /\ loop'.streak = Streak(iters')
    <2>1. Accounted(Finalized(iters')) \in Nat
        BY AccountType DEF CoreInv
    <2> QED BY <1>2, <1>3, <1>4, <2>1, SummaryType DEF CoreInv
<1>6. \A i \in 1..n : iters'[i].state = "FINALIZED"
    BY <1>2 DEF Finalized
<1>7. ASSUME NEW i \in 1..(n - 1)
      PROVE  iters'[i].after = Streak(SubSeq(iters', 1, i))
    <2>1. SubSeq(iters', 1, i) = SubSeq(iters, 1, i)
        BY <1>2, <1>3, SamePrefix
    <2> QED BY <1>1, <1>2, <2>1 DEF BooksInv
<1>8. iters'[n].after = Streak(SubSeq(iters', 1, n))
    <2>1. iters'[n].after = IF run[n] = "COMPLETED" THEN 0 ELSE Streak(SubSeq(iters, 1, n - 1)) + 1
        BY <1>1, <1>3 DEF Finalize
    <2>2. SubSeq(iters', 1, n - 1) = SubSeq(iters, 1, n - 1)
        BY <1>2, <1>3, SamePrefix
    <2>3. Streak(SubSeq(iters', 1, n)) =
              IF iters'[n].status = "COMPLETED" THEN 0 ELSE Streak(SubSeq(iters', 1, n - 1)) + 1
        BY <1>2, <1>3, <1>6, StreakLast
    <2> QED BY <1>2, <2>1, <2>2, <2>3
<1>9. \A i \in Finalized(iters') : iters'[i].after = Streak(SubSeq(iters', 1, i))
    BY <1>2, <1>3, <1>7, <1>8
<1> QED BY <1>2, <1>5, <1>9 DEF BooksInv

LEMMA BooksOpenIntent ==
    ASSUME CoreInv, BooksInv, OpenIntent
    PROVE  BooksInv'
<1> DEFINE n == Len(iters)
<1>1. /\ Len(iters') = n + 1 /\ Finalized(iters') = Finalized(iters)
      /\ \A i \in Finalized(iters) : iters'[i] = iters[i]
      /\ iters \in Seq(IterRows) /\ iters' \in Seq(IterRows) /\ n \in Nat
      /\ Finalized(iters) = 1..n
    BY CoreOpenIntent, OpenIsPending DEF CoreInv, TypeOK
<1>2. Streak(iters') = Streak(iters)
    BY <1>1, StreakSame
<1>3. \A i \in Finalized(iters) : SubSeq(iters', 1, i) = SubSeq(iters, 1, i)
    BY <1>1, SamePrefix
<1>4. /\ loop'.started = loop.started + 1
      /\ loop'.completed = loop.completed /\ loop'.streak = loop.streak
    BY DEF OpenIntent, CoreInv, TypeOK, LoopRows
<1> QED BY <1>1, <1>2, <1>3, <1>4 DEF BooksInv

LEMMA BooksNext == CoreInv /\ BooksInv /\ [Next]_vars => BooksInv'
<1> SUFFICES ASSUME CoreInv, BooksInv, [Next]_vars PROVE BooksInv'
    OBVIOUS
<1>1. CASE Begin
    <2>1. UNCHANGED iters /\ loop' = [loop EXCEPT !.status = "RUNNING"]
        BY <1>1 DEF Begin
    <2> QED BY <2>1 DEF BooksInv, CoreInv, TypeOK, LoopRows
<1>2. CASE Finish
    <2> DEFINE s == Summary(iters, Accounted(Finalized(iters)))
    <2>1. /\ s \in LoopRows /\ s.started = Len(iters)
          /\ s.completed = Cardinality(Finalized(iters)) /\ s.streak = Streak(iters)
        BY AccountType, SummaryType DEF CoreInv, TypeOK
    <2>2. loop' = [s EXCEPT !.status = "FINISHED", !.reason = reason] /\ UNCHANGED iters
        BY <1>2 DEF Finish
    <2> HIDE DEF s
    <2> QED BY <2>1, <2>2 DEF BooksInv, LoopRows
<1>3. CASE UNCHANGED tables
    BY <1>3 DEF tables, BooksInv
<1>4. \/ UNCHANGED tables
      \/ Begin \/ OpenIntent \/ Finalize \/ Finish
    BY DEF Next, Progress, Supervise, Execute, Stop, AdoptRunning, StartPlanned, AdoptTerminal,
           CloseInterrupted, RepairDone, Backfill, CreateRun, CloseRun, WriteSection, WriteCost,
           OutputFails, Abort, Crash, OutsideRecover, vars
<1> QED BY <1>1, <1>2, <1>3, <1>4, BooksOpenIntent, BooksFinalize

----------------------------------------------------------------------------
\* The breaker.

LEMMA BreakerNext == CoreInv /\ BreakerHolds /\ [Next]_vars => BreakerHolds'
<1> SUFFICES ASSUME CoreInv, BreakerHolds, [Next]_vars PROVE BreakerHolds'
    OBVIOUS
<1>1. CASE UNCHANGED iters
    BY <1>1 DEF BreakerHolds
<1>2. CASE Finalize
    <2>1. /\ Open \in 1..Len(iters) /\ Open = Len(iters) /\ Len(iters') = Len(iters)
          /\ DOMAIN iters = 1..Len(iters) /\ DOMAIN iters' = 1..Len(iters) /\ Len(iters) \in Nat
          /\ \A i \in 1..Len(iters) : i # Open => iters'[i] = iters[i]
        BY <1>2, CoreFinalize DEF CoreInv, TypeOK, Iters
    <2>2. ASSUME NEW i \in 1..Len(iters), i > Threshold
          PROVE  \E j \in (i - Threshold)..(i - 1) : iters'[j].status = "COMPLETED"
        <3>1. PICK j \in (i - Threshold)..(i - 1) : iters[j].status = "COMPLETED"
            BY <2>1, <2>2 DEF BreakerHolds
        <3>2. j \in 1..Len(iters) /\ j # Open
            BY <2>1, <2>2, <3>1, LoopAssumption
        <3> QED BY <2>1, <3>1, <3>2
    <2> QED BY <2>1, <2>2 DEF BreakerHolds
<1>3. CASE OpenIntent
    <2> DEFINE n == Len(iters)
    <2>1. /\ Finalized(iters) = 1..n /\ n \in Nat /\ Len(iters') = n + 1
          /\ DOMAIN iters = 1..n /\ DOMAIN iters' = 1..(n + 1)
          /\ \A i \in 1..n : iters'[i] = iters[i]
          /\ iters \in Seq(IterRows)
        BY <1>3, CoreOpenIntent, OpenIsPending DEF CoreInv, TypeOK
    <2>2. Streak(iters) < Threshold
        <3>1. Streak(iters) \in Nat
            BY <2>1, FinalizedFinite
        <3> QED BY <1>3, <3>1, LoopAssumption DEF OpenIntent, Decision
    <2>3. ASSUME n + 1 > Threshold,
                 \A j \in (n + 1 - Threshold)..n : iters[j].status # "COMPLETED"
          PROVE  FALSE
        <3> DEFINE A == {i \in 1..n : \A j \in 1..n : j >= i => iters[j].status # "COMPLETED"}
                   B == (n + 1 - Threshold)..n
        <3>1. B \subseteq A
            BY <2>1, <2>3, LoopAssumption
        <3>2. Streak(iters) = Cardinality(A)
            BY <2>1 DEF Streak
        <3>3. Cardinality(B) = Threshold
            <4>1. n + 1 - Threshold \in Int /\ n \in Int /\ n + 1 - Threshold <= n
                BY <2>1, <2>3, LoopAssumption
            <4>2. Cardinality(B) = n - (n + 1 - Threshold) + 1
                BY <4>1, FS_Interval
            <4> QED BY <4>2, <2>1, LoopAssumption
        <3>4. IsFiniteSet(1..n) /\ A \subseteq 1..n
            BY <2>1, FS_Interval
        <3> HIDE DEF A, B
        <3>5. IsFiniteSet(A)
            BY <3>4, FS_Subset
        <3>6. Cardinality(B) <= Cardinality(A)
            BY <3>1, <3>5, FS_Subset
        <3>7. Cardinality(A) \in Nat
            BY <3>5, FS_CardinalityType
        <3> QED BY <2>2, <3>2, <3>3, <3>6, <3>7, LoopAssumption
    <2>4. ASSUME NEW i \in 1..(n + 1), i > Threshold
          PROVE  \E j \in (i - Threshold)..(i - 1) : iters'[j].status = "COMPLETED"
        <3>1. PICK j \in (i - Threshold)..(i - 1) : iters[j].status = "COMPLETED"
            <4>1. CASE i = n + 1
                BY <2>1, <2>3, <2>4, <4>1, LoopAssumption
            <4>2. CASE i # n + 1
                BY <2>1, <2>4, <4>2 DEF BreakerHolds
            <4> QED BY <4>1, <4>2
        <3>2. j \in 1..n
            BY <2>1, <2>4, <3>1, LoopAssumption
        <3> QED BY <2>1, <3>1, <3>2
    <2> QED BY <2>1, <2>4 DEF BreakerHolds
<1>4. UNCHANGED iters \/ OpenIntent \/ Finalize
    BY DEF Next, Progress, Supervise, Execute, Begin, Stop, AdoptRunning, StartPlanned, AdoptTerminal,
           CloseInterrupted, RepairDone, Backfill, CreateRun, CloseRun, WriteSection, WriteCost,
           Finish, OutputFails, Abort, Crash, OutsideRecover, vars, tables
<1> QED BY <1>1, <1>2, <1>3, <1>4

----------------------------------------------------------------------------
\* The cost ledger, when no tear leaves a bare line.

Clean == "bare" \notin CostTears

\* Only the last line can be damaged, and a run has one row.
Sound(c) ==
    /\ \A k \in DOMAIN c : c[k].form = "row" \/ (c[k].form = "torn" /\ k = Len(c))
    /\ \A j, k \in DOMAIN c : c[j].form = "row" /\ c[k].form = "row" /\ c[j].run = c[k].run => j = k

OnFile(c, i) == \E k \in DOMAIN c : c[k].run = i /\ c[k].form = "row"

\* What is on file stays there.
Keeps(new, old) == \A i \in Iters : OnFile(old, i) => OnFile(new, i)

LEMMA HasIsOnFile ==
    ASSUME NEW c, Sound(c), NEW i
    PROVE  HasCostRow(c, i) <=> Readable(c) /\ OnFile(c, i)
<1>1. Readable(c) => \A k \in DOMAIN c : c[k].form = "row"
    BY DEF Sound, Readable, Parses
<1> QED BY <1>1 DEF HasCostRow, OnFile

LEMMA RepairSound ==
    ASSUME NEW c \in Seq(Lines), Sound(c)
    PROVE  LET d == RepairTrailing(c)
           IN  d \in Seq(Lines) /\ Sound(d) /\ Readable(d) /\ Keeps(d, c)
<1> DEFINE d == RepairTrailing(c)
<1>0. PICK n \in Nat : n = Len(c) /\ DOMAIN c = 1..n
    OBVIOUS
<1>1. CASE c = <<>>
    BY <1>1 DEF RepairTrailing, Readable, Keeps
<1>2. CASE c # <<>> /\ Parses(c[Len(c)])
    <2>1. d = c /\ n # 0
        BY <1>0, <1>2, EmptySeq DEF RepairTrailing
    <2>2. Readable(c)
        BY <1>0, <1>2, <2>1 DEF Sound, Readable, Parses
    <2> QED BY <2>1, <2>2 DEF Keeps
<1>3. CASE c # <<>> /\ ~Parses(c[Len(c)])
    <2>1. d = SubSeq(c, 1, n - 1) /\ n # 0
        BY <1>0, <1>3, EmptySeq DEF RepairTrailing
    <2>2. \A k \in 1..(n - 1) : c[k] \in Lines /\ c[k].form = "row"
        BY <1>0, ElementOfSeq DEF Sound
    <2>3. d \in Seq(Lines) /\ Len(d) = n - 1 /\ \A k \in 1..(n - 1) : d[k] = c[k]
        BY <1>0, <2>1, <2>2, SubSeqProperties
    <2> HIDE DEF d
    <2>4. DOMAIN d = 1..(n - 1)
        BY <1>0, <2>1, <2>3
    <2>5. Sound(d) /\ Readable(d)
        BY <1>0, <2>2, <2>3, <2>4 DEF Sound, Readable, Parses
    <2>6. c[n].form # "row"
        BY <1>0, <1>3 DEF Parses
    <2>7. Keeps(d, c)
        BY <1>0, <2>3, <2>4, <2>6 DEF Keeps, OnFile
    <2> QED BY <2>3, <2>5, <2>7 DEF d
<1> QED BY <1>1, <1>2, <1>3

LEMMA AppendLineSound ==
    ASSUME NEW d \in Seq(Lines), Sound(d), Readable(d), NEW r \in Iters, ~HasCostRow(d, r),
           NEW form \in {"row", "torn"}
    PROVE  /\ Sound(AppendLine(d, r, form)) /\ Keeps(AppendLine(d, r, form), d)
           /\ form = "row" => Readable(AppendLine(d, r, form)) /\ OnFile(AppendLine(d, r, form), r)
<1> DEFINE e == AppendLine(d, r, form)
<1>0. PICK n \in Nat : n = Len(d) /\ DOMAIN d = 1..n
    OBVIOUS
<1>1. \A k \in 1..n : d[k].form = "row"
    BY <1>0 DEF Sound, Readable, Parses
<1>2. e = Append(d, [run |-> r, form |-> form])
    BY <1>0, <1>1, EmptySeq DEF AppendLine, HasNewline
<1>3. [run |-> r, form |-> form] \in Lines
    BY DEF Lines, LineForms
<1>4. /\ Len(e) = n + 1 /\ DOMAIN e = 1..(n + 1)
      /\ e[n + 1] = [run |-> r, form |-> form] /\ \A k \in 1..n : e[k] = d[k]
    BY <1>0, <1>2, <1>3, AppendProperties
<1>5. \A k \in 1..n : d[k].run # r
    BY <1>0 DEF HasCostRow
<1> HIDE DEF e
<1>6. Sound(e)
    BY <1>0, <1>1, <1>4, <1>5 DEF Sound
<1>7. Keeps(e, d)
    BY <1>0, <1>4 DEF Keeps, OnFile
<1>8. form = "row" => Readable(e) /\ OnFile(e, r)
    BY <1>0, <1>1, <1>4 DEF Readable, Parses, OnFile
<1> QED BY <1>6, <1>7, <1>8 DEF e

LEMMA CostSound ==
    ASSUME Clean, NEW c \in Seq(Lines), Sound(c), NEW r \in Iters
    PROVE  /\ LET new == AppendCost(c, r)
              IN  Sound(new) /\ Keeps(new, c) /\ Readable(new) /\ OnFile(new, r)
           /\ \A new \in TornCosts(c, r, CostTears) : Sound(new) /\ Keeps(new, c)
<1> DEFINE d == RepairTrailing(c)
<1>1. d \in Seq(Lines) /\ Sound(d) /\ Readable(d) /\ Keeps(d, c)
    BY RepairSound
<1>2. Keeps(c, c) /\ \A e : Keeps(e, d) => Keeps(e, c)
    BY <1>1 DEF Keeps
<1>3. CostTears \subseteq {"torn"}
    BY LoopAssumption DEF Clean
<1>4. HasCostRow(c, r) => Readable(c) /\ OnFile(c, r)
    BY HasIsOnFile
<1>5. HasCostRow(d, r) => OnFile(d, r)
    BY <1>1, HasIsOnFile
<1> HIDE DEF d
<1>6. ASSUME NEW new, new = AppendCost(c, r)
      PROVE  Sound(new) /\ Keeps(new, c) /\ Readable(new) /\ OnFile(new, r)
    <2>1. new = IF HasCostRow(c, r) THEN c
                ELSE IF HasCostRow(d, r) THEN d ELSE AppendLine(d, r, "row")
        BY <1>6 DEF AppendCost, d
    <2> QED BY <1>1, <1>2, <1>4, <1>5, <2>1, AppendLineSound
<1>7. ASSUME NEW new \in TornCosts(c, r, CostTears)
      PROVE  Sound(new) /\ Keeps(new, c)
    <2>1. new \in {c, d} \/ (~HasCostRow(d, r) /\ new = AppendLine(d, r, "torn"))
        BY <1>3, <1>7 DEF TornCosts, d
    <2> QED BY <1>1, <1>2, <2>1, AppendLineSound
<1> QED BY <1>6, <1>7

----------------------------------------------------------------------------
\* The files.

\* Finalized iterations are on file.  The cost ledger is unreadable only while
\* the planned run is closed and waits for its outputs to be written again.
FilesInv ==
    /\ Sound(costs)
    /\ \A i \in Finalized(iters) : i \in sections /\ OnFile(costs, i)
    /\ ~Readable(costs) => Open # 0 /\ run[Open] \in RunStatuses /\ pc # "finalize"
    /\ pc = "cost" => Open \in sections
    /\ pc = "finalize" => Open \in sections /\ OnFile(costs, Open)

\* While the ledger is readable, finalized iterations owe nothing.
LEMMA NothingOwed ==
    ASSUME CoreInv, FilesInv, Readable(costs)
    PROVE  /\ \A i \in Finalized(iters) : OutputsComplete(i)
           /\ \A i \in Iters : Owed(i) => i = Open
<1>1. \A i \in Finalized(iters) : OutputsComplete(i)
    BY HasIsOnFile DEF FilesInv, OutputsComplete
<1>2. ASSUME NEW i \in Iters, IsTerminal(i)
      PROVE  i \in Finalized(iters) \/ i = Open
    <2>1. i <= Len(iters)
        <3>1. i > Len(iters) => run[i] = "NONE"
            BY DEF CoreInv, RowsInv
        <3>2. Len(iters) \in Nat /\ i \in Nat
            BY LoopAssumption DEF CoreInv, TypeOK, Iters
        <3> QED BY <1>2, <3>1, <3>2 DEF IsTerminal, RunStatuses
    <2>2. /\ Finalized(iters) = IF Open = 0 THEN 1..Len(iters) ELSE 1..(Len(iters) - 1)
          /\ Open # 0 => Open = Len(iters)
          /\ Len(iters) \in Nat /\ i \in Nat \ {0}
        BY OpenIsPending, LoopAssumption DEF CoreInv, TypeOK, Iters
    <2> QED BY <2>1, <2>2
<1> QED BY <1>1, <1>2 DEF Owed

LEMMA FilesInit == Init => FilesInv
<1> SUFFICES ASSUME Init PROVE FilesInv
    OBVIOUS
<1>1. costs = <<>> /\ iters = <<>> /\ DOMAIN costs = {} /\ DOMAIN iters = {}
    BY DEF Init
<1> QED BY <1>1 DEF Init, FilesInv, Sound, Finalized, Readable

\* Files that only grow keep what finalized iterations need.
LEMMA FilesGrow ==
    ASSUME CoreInv, FilesInv, Finalized(iters') = Finalized(iters),
           sections \subseteq sections', Keeps(costs', costs)
    PROVE  \A i \in Finalized(iters') : i \in sections' /\ OnFile(costs', i)
<1>1. Finalized(iters) \subseteq Iters
    BY LoopAssumption DEF Finalized, CoreInv, TypeOK, Iters
<1> QED BY <1>1 DEF FilesInv, Keeps

\* Steps that leave the files alone.
LEMMA FilesSame ==
    ASSUME CoreInv, FilesInv, UNCHANGED <<iters, files>>,
           pc' \notin {"cost", "finalize"}, run'[Open] \in RunStatuses \/ run'[Open] = run[Open]
    PROVE  FilesInv'
<1>1. Open' = Open
    BY DEF Open
<1> QED BY <1>1 DEF FilesInv, files, Sound, OnFile, Readable

\* Steps that write a file on behalf of a run that is closed.
LEMMA FilesWritten ==
    ASSUME CoreInv, FilesInv, UNCHANGED iters, sections \subseteq sections',
           Sound(costs'), Keeps(costs', costs), Open # 0, run'[Open] \in RunStatuses,
           pc' \notin {"cost", "finalize"}
    PROVE  FilesInv'
<1>1. Open' = Open /\ Finalized(iters') = Finalized(iters)
    BY DEF Open
<1>2. \A i \in Finalized(iters') : i \in sections' /\ OnFile(costs', i)
    BY <1>1, FilesGrow
<1> QED BY <1>1, <1>2 DEF FilesInv, Sound, OnFile, Readable

LEMMA FilesFault ==
    ASSUME Clean, CoreInv, FilesInv, TornWrite, UNCHANGED iters,
           pc' \notin {"cost", "finalize"}, run'[Open] \in RunStatuses \/ run'[Open] = run[Open]
    PROVE  FilesInv'
<1>1. CASE UNCHANGED files
    BY <1>1, FilesSame
<1>2. Pending = Open /\ (Open # 0 => Open \in Iters) /\ costs \in Seq(Lines) /\ Sound(costs)
    BY OpenIsPending DEF CoreInv, TypeOK, FilesInv
<1>3. CASE pc = "cost" /\ costs' \in TornCosts(costs, Pending, CostTears) /\ UNCHANGED sections
    <2>1. Open \in Iters /\ Open # 0 /\ run[Open] \in RunStatuses
        BY <1>2, <1>3 DEF CoreInv, PcInv
    <2>2. Sound(costs') /\ Keeps(costs', costs)
        BY <1>2, <1>3, <2>1, CostSound
    <2> QED BY <1>3, <2>1, <2>2, FilesWritten
<1>4. ASSUME NEW i \in Iters, pc = "repair", Interrupted = {}, NextOwed(i),
             sections' = sections \cup {i}, costs' \in TornCosts(costs, i, CostTears)
      PROVE  FilesInv'
    <2>1. Sound(costs') /\ Keeps(costs', costs)
        BY <1>2, <1>4, CostSound
    <2>2. Open # 0 /\ run[Open] \in RunStatuses
        <3>1. Open \in Iters /\ Open # 0 /\ run[Open] # "RUNNING" /\ run[Open] \in Statuses
            BY <1>2, <1>4 DEF CoreInv, PcInv, Interrupted, TypeOK
        <3>2. run[Open] # "NONE"
            <4>1. SUFFICES ASSUME run[Open] = "NONE" PROVE FALSE
                OBVIOUS
            <4>2. Readable(costs)
                BY <4>1 DEF FilesInv, RunStatuses
            <4>3. i = Open
                BY <1>4, <4>2, NothingOwed DEF NextOwed
            <4> QED BY <1>4, <4>1, <4>3 DEF NextOwed, Owed, IsTerminal, RunStatuses
        <3> QED BY <3>1, <3>2 DEF Statuses, RunStatuses
    <2> QED BY <1>4, <2>1, <2>2, FilesWritten
<1> QED BY <1>1, <1>3, <1>4 DEF TornWrite

LEMMA FilesNext == Clean /\ CoreInv /\ FilesInv /\ [Next]_vars => FilesInv'
<1> SUFFICES ASSUME Clean, CoreInv, FilesInv, [Next]_vars PROVE FilesInv'
    OBVIOUS
<1>1. /\ Pending = Open /\ costs \in Seq(Lines) /\ Sound(costs)
      /\ Open # 0 => Open \in Iters /\ Open = Len(iters) /\ iters[Open].state = "INTENT"
    BY OpenIsPending DEF CoreInv, TypeOK, FilesInv
<1>2. CASE Begin \/ Stop \/ AdoptRunning \/ StartPlanned \/ Finish
    BY <1>2, FilesSame DEF Begin, Stop, AdoptRunning, StartPlanned, Finish, Exit, tables
<1>3. CASE AdoptTerminal
    <2>1. CASE OutputsComplete(Open)
        <3>1. Readable(costs) /\ OnFile(costs, Open) /\ Open \in sections
            BY <1>1, <2>1, HasIsOnFile DEF OutputsComplete
        <3>2. UNCHANGED <<iters, run, files>> /\ pc' = "finalize" /\ Open' = Open
            BY <1>1, <1>3, <2>1 DEF AdoptTerminal, tables, Open
        <3> QED BY <3>1, <3>2 DEF FilesInv, files, Sound, OnFile, Readable
    <2>2. CASE ~OutputsComplete(Open)
        BY <1>1, <1>3, <2>2, FilesSame DEF AdoptTerminal, tables
    <2> QED BY <2>1, <2>2
<1>4. CASE OpenIntent
    <2>1. Open = 0 /\ Finalized(iters') = Finalized(iters)
        BY <1>4, CoreOpenIntent
    <2>2. UNCHANGED files /\ pc' = "repair" /\ Readable(costs)
        BY <1>4, <2>1 DEF OpenIntent, FilesInv
    <2> QED BY <2>1, <2>2 DEF FilesInv, files, Sound, OnFile, Readable
<1>5. CASE CloseInterrupted \/ OutsideRecover
    <2>1. Open # 0 => (run[Open] \in RunStatuses => run'[Open] = run[Open])
        BY <1>1, <1>5, CoreRecover
    <2>2. UNCHANGED <<iters, files>> /\ pc' \notin {"cost", "finalize"} /\ Open' = Open
        BY <1>5 DEF CloseInterrupted, OutsideRecover, tables, Open
    <2> QED BY <2>1, <2>2 DEF FilesInv, files, Sound, OnFile, Readable
<1>6. ASSUME NEW i \in Iters, Backfill(i)
      PROVE  FilesInv'
    <2>1. Sound(costs') /\ Keeps(costs', costs) /\ Readable(costs')
        BY <1>1, <1>6, CostSound DEF Backfill
    <2>2. UNCHANGED <<iters, run>> /\ pc' = "repair" /\ Open' = Open /\ sections \subseteq sections'
        BY <1>6 DEF Backfill, tables, Open
    <2>3. \A j \in Finalized(iters') : j \in sections' /\ OnFile(costs', j)
        BY <2>1, <2>2, FilesGrow
    <2> QED BY <2>1, <2>2, <2>3 DEF FilesInv, Sound, OnFile, Readable
<1>7. CASE RepairDone
    <2>1. Open \in Iters /\ run[Open] \in RunStatuses
        <3>1. Open \in Iters /\ run[Open] # "NONE" /\ run[Open] # "RUNNING" /\ run[Open] \in Statuses
            BY <1>1, <1>7 DEF RepairDone, CoreInv, PcInv, Interrupted, TypeOK
        <3> QED BY <3>1 DEF Statuses, RunStatuses
    <2>2. OutputsComplete(Open)
        BY <1>7, <2>1 DEF RepairDone, Owed, IsTerminal
    <2>3. Readable(costs) /\ OnFile(costs, Open) /\ Open \in sections
        BY <1>1, <2>2, HasIsOnFile DEF OutputsComplete
    <2>4. UNCHANGED <<iters, run, files>> /\ pc' = "finalize" /\ Open' = Open
        BY <1>7 DEF RepairDone, tables, Open
    <2> QED BY <2>3, <2>4 DEF FilesInv, files, Sound, OnFile, Readable
<1>8. ASSUME \/ \E amount \in 0..MaxSpend : CreateRun(amount)
             \/ \E status \in RunStatuses : CloseRun(status)
      PROVE  FilesInv'
    <2>1. Open # 0 /\ run[Open] \notin RunStatuses
        BY <1>8 DEF CreateRun, CloseRun, CoreInv, PcInv, RunStatuses
    <2>2. Readable(costs)
        BY <2>1 DEF FilesInv
    <2>3. UNCHANGED <<iters, files>> /\ pc' \notin {"cost", "finalize"} /\ Open' = Open
        BY <1>8 DEF CreateRun, CloseRun, tables, Open
    <2> QED BY <2>2, <2>3 DEF FilesInv, files, Sound, OnFile, Readable
<1>9. CASE WriteSection
    <2>1. /\ UNCHANGED <<iters, run, costs>> /\ pc' = "cost" /\ Open' = Open
          /\ sections' = sections \cup {Open}
        BY <1>1, <1>9 DEF WriteSection, tables, Open
    <2> QED BY <2>1 DEF FilesInv, Sound, OnFile, Readable
<1>10. CASE WriteCost
    <2>1. Open \in Iters /\ Open \in sections
        BY <1>1, <1>10 DEF WriteCost, CoreInv, PcInv, FilesInv
    <2>2. Sound(costs') /\ Keeps(costs', costs) /\ Readable(costs') /\ OnFile(costs', Open)
        BY <1>1, <1>10, <2>1, CostSound DEF WriteCost
    <2>3. UNCHANGED <<iters, run, sections>> /\ pc' = "finalize" /\ Open' = Open
        BY <1>10 DEF WriteCost, tables, Open
    <2>4. \A j \in Finalized(iters') : j \in sections' /\ OnFile(costs', j)
        BY <2>2, <2>3, FilesGrow
    <2> QED BY <2>1, <2>2, <2>3, <2>4 DEF FilesInv, Sound, OnFile, Readable
<1>11. CASE Finalize
    <2>1. Finalized(iters') = Finalized(iters) \cup {Open} /\ Open' = 0
        BY <1>11, CoreFinalize
    <2>2. UNCHANGED files /\ pc = "finalize" /\ pc' = "supervise"
        BY <1>11 DEF Finalize
    <2> QED BY <2>1, <2>2 DEF FilesInv, files, Sound, OnFile, Readable
<1>12. CASE OutputFails
    <2>1. Open \in Iters /\ run'[Open] \in RunStatuses
        BY <1>1, <1>12 DEF OutputFails, CoreInv, PcInv, TypeOK, RunStatuses
    <2> QED BY <1>12, <2>1, FilesFault DEF OutputFails, tables
<1>13. CASE Abort \/ Crash
    BY <1>13, FilesFault DEF Abort, Crash, Exit, tables
<1>14. CASE UNCHANGED vars
    BY <1>14 DEF vars, tables, files, FilesInv, Sound, OnFile, Readable, Open
<1> QED
    BY <1>2, <1>3, <1>4, <1>5, <1>6, <1>7, <1>8, <1>9, <1>10, <1>11, <1>12, <1>13, <1>14
    DEF Next, Progress, Supervise, Execute

----------------------------------------------------------------------------
\* The account and what was spent.

LEMMA SpentType ==
    ASSUME CoreInv, NEW S, S \subseteq Iters
    PROVE  /\ IsFiniteSet(S) /\ \A i \in S : spend[i] \in Nat
           /\ SumFunctionOnSet(spend, S) \in Nat
<1>1. IsFiniteSet(Iters)
    BY FS_Interval, LoopAssumption DEF Iters
<1>2. IsFiniteSet(S)
    BY <1>1, FS_Subset
<1>3. \A i \in S : spend[i] \in Nat
    BY LoopAssumption DEF CoreInv, TypeOK, MaxSpend
<1> QED BY <1>2, <1>3, SumType

LEMMA FinalizedIters ==
    ASSUME CoreInv
    PROVE  /\ Finalized(iters) \subseteq Iters /\ IsFiniteSet(Finalized(iters))
           /\ Spent \in Nat
           /\ Cardinality(Finalized(iters)) \in Nat /\ Cardinality(Finalized(iters)) <= N
<1>1. Finalized(iters) \subseteq Iters
    BY LoopAssumption DEF Finalized, CoreInv, TypeOK, Iters
<1>2. IsFiniteSet(Iters) /\ Cardinality(Iters) = N
    <2>1. N \in Nat /\ 1 <= N
        BY LoopAssumption
    <2>2. IsFiniteSet(1..N) /\ Cardinality(1..N) = N - 1 + 1
        BY <2>1, FS_Interval
    <2> QED BY <2>1, <2>2 DEF Iters
<1>3. IsFiniteSet(Finalized(iters)) /\ Cardinality(Finalized(iters)) <= N
    BY <1>1, <1>2, FS_Subset
<1>4. Spent \in Nat
    BY <1>1, SpentType DEF Spent
<1> QED BY <1>1, <1>3, <1>4, FS_CardinalityType

\* A readable account is what the finalized runs cost: every one of them has
\* one row, and no row is counted twice.
LEMMA AccountedIsSpent ==
    ASSUME CoreInv, FilesInv, Readable(costs)
    PROVE  Accounted(Finalized(iters)) = Spent
<1> DEFINE F == Finalized(iters)
           b == [k \in DOMAIN costs |-> costs[k].run]
           f == [k \in DOMAIN costs |-> spend[costs[k].run]]
           K == {k \in DOMAIN costs : costs[k].run \in F}
           g == [k \in K |-> spend[b[k]]]
<1>1. \A k \in DOMAIN costs : costs[k].form = "row"
    BY DEF FilesInv, Sound, Readable, Parses
<1>2. \A j, k \in K : b[j] = b[k] => j = k
    BY <1>1 DEF FilesInv, Sound
<1>3. ImageOf(b, K) = F
    <2>1. \A i \in F : \E k \in K : b[k] = i
        BY DEF FilesInv, OnFile
    <2>2. \A k \in K : b[k] \in F
        OBVIOUS
    <2> HIDE DEF b, K, F
    <2> QED BY <2>1, <2>2 DEF ImageOf
<1>4. IsFiniteSet(K)
    <2>1. costs \in Seq(Lines)
        BY DEF CoreInv, TypeOK
    <2>2. DOMAIN costs = 1..Len(costs) /\ Len(costs) \in Nat
        BY <2>1
    <2>3. IsFiniteSet(DOMAIN costs)
        BY <2>2, FS_Interval
    <2> QED BY <2>3, FS_Subset
<1>5. \A k \in K : spend[b[k]] \in Int
    <2>1. \A k \in K : b[k] \in F
        OBVIOUS
    <2>2. \A i \in F : spend[i] \in Nat
        BY FinalizedIters, SpentType
    <2> QED BY <2>1, <2>2
<1>6. \A k \in K : f[k] = g[k]
    OBVIOUS
<1>7. Accounted(F) = SumFunctionOnSet(f, K)
    BY DEF Accounted
<1> HIDE DEF F, b, f, K
<1>8. SumFunctionOnSet(g, K) = SumFunctionOnSet(spend, ImageOf(b, K))
    BY <1>2, <1>4, <1>5, SumReindex
<1> HIDE DEF g
<1>9. SumFunctionOnSet(f, K) = SumFunctionOnSet(g, K)
    BY <1>4, <1>6, SumSame
<1> QED BY <1>3, <1>7, <1>8, <1>9 DEF Spent, F

----------------------------------------------------------------------------
\* The ceiling.

Started == {i \in Iters : run[i] # "NONE"}

\* The allowance of a run that is about to start fits under the ceiling.
MoneyInv ==
    /\ pc = "repair" /\ next = "create" => Spent + allow <= Budget
    /\ CeilingHolds

\* An allowance is what is left of the budget, at most.
LEMMA AllowanceFits ==
    ASSUME NEW cost \in Nat, cost < Budget
    PROVE  cost + Allowance(cost) <= Budget
BY LoopAssumption DEF Allowance

LEMMA StartedSet ==
    ASSUME CoreInv, Open # 0, run[Open] = "NONE"
    PROVE  Started = Finalized(iters) /\ Open \notin Finalized(iters) /\ Open \in Iters
<1>1. /\ Finalized(iters) = 1..(Len(iters) - 1) /\ Open = Len(iters) /\ Open \in Iters
      /\ Len(iters) \in Nat
    BY OpenIsPending DEF CoreInv, TypeOK
<1>2. ASSUME NEW i \in Iters
      PROVE  run[i] # "NONE" <=> i \in Finalized(iters)
    <2>1. i \in Finalized(iters) => run[i] \in RunStatuses
        BY DEF Finalized, CoreInv, RowsInv
    <2>2. i > Len(iters) => run[i] = "NONE"
        BY DEF CoreInv, RowsInv
    <2>3. i \in Nat \ {0}
        BY LoopAssumption DEF Iters
    <2> QED BY <1>1, <2>1, <2>2, <2>3 DEF RunStatuses
<1>3. Finalized(iters) \subseteq Iters
    BY FinalizedIters
<1> QED BY <1>1, <1>2, <1>3 DEF Started

LEMMA MoneyCreate ==
    ASSUME CoreInv, MoneyInv, NEW amount \in 0..MaxSpend, CreateRun(amount)
    PROVE  MoneyInv'
<1> DEFINE F == Finalized(iters)
<1>1. /\ Pending = Open /\ Open # 0 /\ run[Open] = "NONE" /\ pc' = "running"
      /\ run' = [run EXCEPT ![Open] = "RUNNING"] /\ spend' = [spend EXCEPT ![Open] = amount]
      /\ amount <= allow + Overshoot /\ Spent + allow <= Budget
    BY OpenIsPending DEF CoreInv, PcInv, CreateRun, MoneyInv
<1>2. Started = F /\ Open \notin F /\ Open \in Iters
    BY <1>1, StartedSet
<1>3. /\ IsFiniteSet(F) /\ Spent \in Nat /\ allow \in Nat /\ amount \in Nat /\ F \subseteq Iters
      /\ run \in [Iters -> Statuses] /\ spend \in [Iters -> 0..MaxSpend]
    BY FinalizedIters, LoopAssumption DEF CoreInv, TypeOK, MaxSpend
<1>4. Started' = F \cup {Open} /\ spend'[Open] = amount /\ \A i \in F : spend'[i] = spend[i]
    BY <1>1, <1>2, <1>3 DEF Started
<1>5. \A i \in F : spend[i] \in Nat
    BY <1>3, SpentType
<1>6. Spent = SumFunctionOnSet(spend, F) /\ (CeilingHolds' <=> SumFunctionOnSet(spend', Started') <= Budget + Overshoot)
    BY DEF Spent, CeilingHolds, Started
<1> HIDE DEF F
<1>7. SumFunctionOnSet(spend', F \cup {Open}) = SumFunctionOnSet(spend', F) + amount
    BY <1>2, <1>3, <1>4, <1>5, SumAdd
<1>8. SumFunctionOnSet(spend', F) = SumFunctionOnSet(spend, F)
    BY <1>3, <1>4, SumSame
<1>9. CeilingHolds'
    BY <1>1, <1>3, <1>4, <1>6, <1>7, <1>8, LoopAssumption
<1> QED BY <1>1, <1>9 DEF MoneyInv

\* Where the supervisor takes a decision, the account is complete.
LEMMA DecidedOnSpent ==
    ASSUME CoreInv, FilesInv, Pending = 0 \/ run[Pending] = "NONE"
    PROVE  Readable(costs) /\ Accounted(Finalized(iters)) = Spent /\ Spent \in Nat
<1>1. Pending = Open
    BY OpenIsPending DEF CoreInv
<1>2. Readable(costs)
    BY <1>1 DEF FilesInv, RunStatuses
<1> QED BY <1>2, AccountedIsSpent, FinalizedIters

LEMMA MoneyNext == CoreInv /\ FilesInv /\ MoneyInv /\ [Next]_vars => MoneyInv'
<1> SUFFICES ASSUME CoreInv, FilesInv, MoneyInv, [Next]_vars PROVE MoneyInv'
    OBVIOUS
<1>1. ASSUME NEW amount \in 0..MaxSpend, CreateRun(amount) PROVE MoneyInv'
    BY <1>1, MoneyCreate
<1>2. CASE OpenIntent
    <2>1. Accounted(Finalized(iters)) = Spent /\ Spent \in Nat
        BY <1>2, DecidedOnSpent DEF OpenIntent
    <2>2. Spent < Budget
        BY <1>2, <2>1, LoopAssumption DEF OpenIntent, Decision
    <2>3. allow' = Allowance(Spent) /\ UNCHANGED <<run, spend>>
        BY <1>2, <2>1 DEF OpenIntent
    <2>4. Spent' = Spent
        BY <1>2, <2>3, CoreOpenIntent DEF Spent
    <2>5. Spent' + allow' <= Budget
        BY <2>1, <2>2, <2>3, <2>4, AllowanceFits
    <2> QED BY <2>3, <2>5 DEF MoneyInv, CeilingHolds
<1>3. CASE StartPlanned
    <2>1. Accounted(Finalized(iters)) = Spent /\ Spent \in Nat
        BY <1>3, DecidedOnSpent DEF StartPlanned
    <2>2. UNCHANGED <<run, spend, iters>> /\ Spent' = Spent
        BY <1>3 DEF StartPlanned, Spent, tables
    <2>3. pc' = "repair" => Spent < Budget /\ allow' = Allowance(Spent)
        BY <1>3, <2>1, LoopAssumption DEF StartPlanned
    <2>4. pc' = "repair" => Spent' + allow' <= Budget
        BY <2>1, <2>2, <2>3, AllowanceFits
    <2> QED BY <2>2, <2>4 DEF MoneyInv, CeilingHolds
<1>4. CASE UNCHANGED <<iters, spend, allow>> /\ (pc' = "repair" /\ next' = "create" => pc = "repair" /\ next = "create")
           /\ Started' = Started
    BY <1>4 DEF MoneyInv, Spent, CeilingHolds, Started
<1>5. CASE /\ pc' # "repair" /\ UNCHANGED spend /\ Started' = Started
    BY <1>5 DEF MoneyInv, CeilingHolds, Started
<1>6. CASE UNCHANGED vars
    BY <1>4, <1>6 DEF vars, tables, memory, Started
<1>7. CASE Begin \/ Stop \/ AdoptRunning \/ AdoptTerminal
    BY <1>5, <1>4, <1>7 DEF Begin, Stop, AdoptRunning, AdoptTerminal, Started, tables, memory
<1>8. CASE CloseInterrupted \/ OutsideRecover
    <2>1. Started' = Started
        BY <1>8, CoreRecover DEF Started
    <2> QED BY <1>4, <1>8, <2>1 DEF CloseInterrupted, OutsideRecover, tables, memory
<1>9. CASE RepairDone \/ WriteSection \/ WriteCost \/ (\E i \in Iters : Backfill(i))
    BY <1>4, <1>9 DEF RepairDone, WriteSection, WriteCost, Backfill, Started, tables, memory
<1>10. ASSUME NEW status \in RunStatuses, CloseRun(status) PROVE MoneyInv'
    <2>1. Pending = Open /\ Open \in Iters /\ run[Open] = "RUNNING"
        BY <1>10, OpenIsPending DEF CloseRun, CoreInv, PcInv
    <2>2. Started' = Started
        BY <1>10, <2>1 DEF Started, CloseRun, RunStatuses, CoreInv, TypeOK
    <2> QED BY <1>5, <1>10, <2>2 DEF CloseRun
<1>11. CASE Finalize \/ Finish
    BY <1>5, <1>11 DEF Finalize, Finish, Exit, Started
<1>12. CASE OutputFails
    <2>1. Pending = Open /\ Open \in Iters /\ run[Open] \in RunStatuses
        BY <1>12, OpenIsPending DEF OutputFails, CoreInv, PcInv
    <2>2. Started' = Started
        BY <1>12, <2>1 DEF Started, OutputFails, RunStatuses, CoreInv, TypeOK
    <2> QED BY <1>5, <1>12, <2>2 DEF OutputFails
<1>13. CASE Abort \/ Crash
    BY <1>5, <1>13 DEF Abort, Crash, Exit, Started
<1> QED
    BY <1>1, <1>2, <1>3, <1>6, <1>7, <1>8, <1>9, <1>10, <1>11, <1>12, <1>13
    DEF Next, Progress, Supervise, Execute

----------------------------------------------------------------------------
\* Why a loop stopped.

\* What a stop reason claims of the loop it is, or will be, stored with.
Justified(r) ==
    CASE r = "COMPLETED_ITERATION_CAP" ->
             /\ Cardinality(Finalized(iters)) = N
             /\ Spent <= Budget /\ Streak(iters) < Threshold
      [] r = "COST_BREAKER_TRIPPED" -> Spent >= Budget
      [] r = "CONSECUTIVE_FAILURE_BREAKER_TRIPPED" -> Streak(iters) >= Threshold
      [] r = "LOOP_ABORTED_ERROR" -> faults > 0
      [] OTHER -> FALSE

ReasonInv ==
    /\ pc = "finish" => Justified(reason)
    /\ loop.status = "FINISHED" => pc = "idle" /\ Justified(loop.reason)

\* A stop reason stays true of rows that do not change.
LEMMA JustifiedStays ==
    ASSUME CoreInv, UNCHANGED <<iters, spend>>, faults' \in {faults, faults + 1},
           NEW r, Justified(r)
    PROVE  Justified(r)'
<1>1. Spent' = Spent /\ Finalized(iters') = Finalized(iters) /\ Streak(iters') = Streak(iters)
    BY DEF Spent
<1>2. faults > 0 => faults' > 0
    BY LoopAssumption DEF CoreInv, TypeOK
<1> QED BY <1>1, <1>2 DEF Justified

\* What the supervisor decides is true of what it decided on.
LEMMA DecisionJustified ==
    ASSUME CoreInv, FilesInv, Stop
    PROVE  Justified(reason')
<1>1. reason' = Decision(iters, Spent) /\ reason' # "CONTINUE" /\ Spent \in Nat
    BY DecidedOnSpent DEF Stop
<1>2. Streak(iters) \in Nat /\ Cardinality(Finalized(iters)) \in Nat /\ Cardinality(Finalized(iters)) <= N
    BY FinalizedFinite, FinalizedIters DEF CoreInv, TypeOK
<1>3. CASE Spent > Budget
    BY <1>1, <1>3, LoopAssumption DEF Decision, Justified
<1>4. CASE Spent <= Budget /\ Streak(iters) >= Threshold
    BY <1>1, <1>4, LoopAssumption DEF Decision, Justified
<1>5. CASE Spent <= Budget /\ ~(Streak(iters) >= Threshold) /\ Cardinality(Finalized(iters)) >= N
    <2>1. reason' = "COMPLETED_ITERATION_CAP"
        BY <1>1, <1>5, LoopAssumption DEF Decision
    <2>2. Cardinality(Finalized(iters)) = N /\ Streak(iters) < Threshold
        BY <1>2, <1>5, LoopAssumption
    <2> QED BY <1>5, <2>1, <2>2 DEF Justified
<1>6. CASE Spent <= Budget /\ ~(Streak(iters) >= Threshold) /\ ~(Cardinality(Finalized(iters)) >= N)
    BY <1>1, <1>6, LoopAssumption DEF Decision, Justified
<1> QED BY <1>1, <1>3, <1>4, <1>5, <1>6, LoopAssumption

LEMMA ReasonNext == CoreInv /\ FilesInv /\ ReasonInv /\ [Next]_vars => ReasonInv'
<1> SUFFICES ASSUME CoreInv, FilesInv, ReasonInv, [Next]_vars PROVE ReasonInv'
    OBVIOUS
<1>1. CASE Stop
    <2>1. Justified(reason') /\ UNCHANGED <<tables, spend, faults>> /\ loop.status # "FINISHED"
        BY <1>1, DecisionJustified DEF Stop, ReasonInv
    <2> QED BY <2>1 DEF ReasonInv, Justified, Spent, tables
<1>2. CASE StartPlanned
    <2>1. UNCHANGED <<loop, iters, spend, faults>> /\ loop.status # "FINISHED"
        BY <1>2 DEF StartPlanned, tables, ReasonInv
    <2>2. CASE pc' = "finish"
        <3>1. reason' = "COST_BREAKER_TRIPPED" /\ Spent >= Budget
            BY <1>2, <2>2, DecidedOnSpent DEF StartPlanned
        <3>2. Spent' = Spent
            BY <2>1 DEF Spent
        <3> QED BY <2>1, <3>1, <3>2 DEF ReasonInv, Justified
    <2>3. CASE pc' # "finish"
        BY <2>1, <2>3 DEF ReasonInv
    <2> QED BY <2>2, <2>3
<1>3. CASE Abort
    <2>1. reason' = "LOOP_ABORTED_ERROR" /\ faults' > 0
        BY <1>3, LoopAssumption DEF Abort, Fault, CoreInv, TypeOK
    <2>2. loop' = loop /\ loop.status # "FINISHED"
        BY <1>3 DEF Abort, tables, ReasonInv
    <2> QED BY <2>1, <2>2 DEF ReasonInv, Justified
<1>4. CASE Finish
    <2> DEFINE s == Summary(iters, Accounted(Finalized(iters)))
    <2>1. s \in LoopRows
        BY AccountType, SummaryType DEF CoreInv, TypeOK
    <2>2. /\ loop' = [s EXCEPT !.status = "FINISHED", !.reason = reason]
          /\ UNCHANGED <<iters, spend, faults>> /\ pc' = "idle" /\ pc = "finish"
        BY <1>4 DEF Finish, Exit
    <2> HIDE DEF s
    <2>3. loop'.reason = reason
        BY <2>1, <2>2 DEF LoopRows
    <2>4. ASSUME NEW r, r = reason PROVE Justified(r)'
        BY <2>2, <2>4, JustifiedStays DEF ReasonInv
    <2> QED BY <2>2, <2>3, <2>4 DEF ReasonInv, Justified
<1>5. CASE Crash
    <2>1. loop' = loop /\ loop.status # "FINISHED" /\ pc' = "idle"
        BY <1>5 DEF Crash, Exit, tables, ReasonInv
    <2> QED BY <2>1 DEF ReasonInv
<1>6. CASE Begin
    <2>1. loop'.status = "RUNNING" /\ pc' = "supervise"
        BY <1>6 DEF Begin, CoreInv, TypeOK, LoopRows
    <2> QED BY <2>1 DEF ReasonInv
<1>7. CASE Finalize
    <2>1. iters' \in Seq(IterRows) /\ Accounted(Finalized(iters')) \in Nat
        BY <1>7, CoreFinalize, AccountType DEF CoreInv, TypeOK
    <2>2. loop' = Summary(iters', Accounted(Finalized(iters')))
        BY <1>7 DEF Finalize
    <2>3. loop'.status = loop.status
        BY <2>1, <2>2, SummaryType DEF CoreInv
    <2> QED BY <1>7, <2>3 DEF ReasonInv, Finalize
<1>8. CASE OpenIntent
    <2>1. loop'.status = loop.status /\ pc = "supervise" /\ pc' = "repair"
        BY <1>8 DEF OpenIntent, CoreInv, TypeOK, LoopRows
    <2> QED BY <2>1 DEF ReasonInv
<1>9. CASE OutsideRecover \/ UNCHANGED vars
    <2>1. UNCHANGED <<loop, iters, spend, pc, reason, faults>>
        BY <1>9 DEF OutsideRecover, vars, tables, memory
    <2> QED BY <2>1 DEF ReasonInv, Justified, Spent
<1>10. CASE UNCHANGED loop /\ pc # "idle" /\ pc' # "finish"
    BY <1>10 DEF ReasonInv
<1>11. \/ Begin \/ Stop \/ OpenIntent \/ StartPlanned \/ Finalize \/ Finish \/ Abort \/ Crash
       \/ OutsideRecover \/ UNCHANGED vars
       \/ UNCHANGED loop /\ pc # "idle" /\ pc' # "finish"
    BY DEF Next, Progress, Supervise, Execute, AdoptRunning, AdoptTerminal,
           CloseInterrupted, RepairDone, Backfill, CreateRun, CloseRun, WriteSection, WriteCost,
           OutputFails, tables, memory
<1> QED BY <1>1, <1>2, <1>3, <1>4, <1>5, <1>6, <1>7, <1>8, <1>9, <1>10, <1>11

----------------------------------------------------------------------------
\* The theorems.

LEMMA LoopInit == Init => CoreInv /\ BooksInv /\ BreakerHolds /\ FilesInv /\ MoneyInv /\ ReasonInv
<1> SUFFICES ASSUME Init
             PROVE  CoreInv /\ BooksInv /\ BreakerHolds /\ FilesInv /\ MoneyInv /\ ReasonInv
    OBVIOUS
<1>1. CoreInv /\ FilesInv
    BY CoreInit, FilesInit
<1>2. iters = <<>> /\ Len(iters) = 0 /\ DOMAIN iters = {} /\ Finalized(iters) = {}
    BY DEF Init, Finalized
<1>3. Cardinality(Finalized(iters)) = 0 /\ Streak(iters) = 0
    <2>1. {i \in Finalized(iters) : \A j \in Finalized(iters) :
               j >= i => iters[j].status # "COMPLETED"} = {}
        BY <1>2
    <2> QED BY <1>2, <2>1, FS_EmptySet DEF Streak
<1>4. BooksInv
    BY <1>2, <1>3 DEF Init, BooksInv
<1>5. BreakerHolds
    BY <1>2 DEF BreakerHolds
<1>6. MoneyInv
    <2>1. {i \in Iters : run[i] # "NONE"} = {}
        BY DEF Init
    <2>2. SumFunctionOnSet(spend, {i \in Iters : run[i] # "NONE"}) = 0
        BY <2>1, SumEmpty
    <2>3. 0 <= Budget + Overshoot
        BY LoopAssumption
    <2> QED BY <2>2, <2>3 DEF Init, MoneyInv, CeilingHolds
<1>7. ReasonInv
    BY DEF Init, ReasonInv
<1> QED BY <1>1, <1>4, <1>5, <1>6, <1>7

\* Whatever the faults do, no run is repeated because bookkeeping crashed, and
\* what an iteration row and the loop row say is what the runs' own rows say.
THEOREM RowsAgree == Spec => [](TypeOK /\ NeverRepeated /\ IterationsAgree)
<1>1. CoreInv /\ BooksInv => TypeOK /\ NeverRepeated /\ IterationsAgree
    <2> SUFFICES ASSUME CoreInv, BooksInv PROVE NeverRepeated /\ IterationsAgree
        BY DEF CoreInv
    <2>1. NeverRepeated
        BY OpenIsPending DEF CoreInv, PcInv, NeverRepeated
    <2>2. IterationsAgree
        BY DEF CoreInv, RowsInv, BooksInv, IterationsAgree
    <2> QED BY <2>1, <2>2
<1> QED BY <1>1, LoopInit, CoreNext, BooksNext, PTL DEF Spec

\* Nothing is decided on a partial account: when no tear leaves a bare line,
\* every finalized run is on file whenever a run is about to be started.
THEOREM BooksAreSound == ASSUME Clean PROVE Spec => []BooksSound
<1>1. CoreInv /\ BooksInv /\ FilesInv => BooksSound
    <2> SUFFICES ASSUME CoreInv, BooksInv, FilesInv PROVE BooksSound
        OBVIOUS
    <2>1. NeverRepeated
        BY OpenIsPending DEF CoreInv, PcInv, NeverRepeated
    <2>2. IterationsAgree
        BY DEF CoreInv, RowsInv, BooksInv, IterationsAgree
    <2>3. AccountComplete
        BY DecidedOnSpent, NothingOwed DEF AccountComplete
    <2> QED BY <2>1, <2>2, <2>3 DEF BooksSound, CoreInv
<1>2. CoreInv /\ FilesInv /\ [Next]_vars => FilesInv'
    BY FilesNext
<1> QED BY <1>1, <1>2, LoopInit, CoreNext, BooksNext, PTL DEF Spec

\* No iteration is opened with Threshold failures right behind it, and the
\* stop reason of a finished loop is the true one.
THEOREM BreakersAreSound == ASSUME Clean PROVE Spec => []BreakersSound
<1>1. ReasonInv /\ BreakerHolds => BreakersSound
    BY DEF ReasonInv, Justified, BreakersSound, ReasonIsTrue
<1>2. CoreInv /\ FilesInv /\ [Next]_vars => FilesInv'
    BY FilesNext
<1> QED BY <1>1, <1>2, LoopInit, CoreNext, BreakerNext, ReasonNext, PTL DEF Spec

\* The loop never spends past its ceiling, but for the overshoot of the last
\* call of one run, through every crash and resume.
THEOREM CeilingIsHeld == ASSUME Clean PROVE Spec => []CeilingHolds
<1>1. MoneyInv => CeilingHolds
    BY DEF MoneyInv
<1>2. CoreInv /\ FilesInv /\ [Next]_vars => FilesInv'
    BY FilesNext
<1> QED BY <1>1, <1>2, LoopInit, CoreNext, MoneyNext, PTL DEF Spec

=============================================================================
