-------------------------- MODULE SentinelRun_proofs --------------------------
(* Theorems about SentinelRun, for every set of scopes and fingerprints, any *)
(* number of runs and faults, and all flag settings: its types; its two      *)
(* files never lead the ledger database and never wedge; the findings table  *)
(* is never wrong and the ledger implements FindingScan; the rows of runs    *)
(* are sound, however a run was closed; and nothing of a closed run is lost. *)
EXTENDS SentinelRun, FiniteSetTheorems, NaturalsInduction, SequenceTheorems, TLAPS

----------------------------------------------------------------------------
\* What the operators on rows and files return.

\* The image of a finite set under a function is finite.
LEMMA FiniteImage ==
    ASSUME NEW S, IsFiniteSet(S), NEW F, DOMAIN F = S
    PROVE  IsFiniteSet({F[x] : x \in S})
<1> DEFINE T == {F[x] : x \in S}
           G == [x \in S |-> F[x]]
<1>1. G \in Surjection(S, T)
    BY DEF Surjection
<1> QED BY <1>1, FS_Surjection

\* apply_observed keeps the table a finite set of rows.
LEMMA ApplyObservedType ==
    ASSUME NEW rows \in SUBSET Rows, IsFiniteSet(rows), NEW r \in Runs,
           NEW obs \in SUBSET Prints
    PROVE  /\ ApplyObserved(rows, r, obs) \subseteq Rows
           /\ IsFiniteSet(ApplyObserved(rows, r, obs))
<1> DEFINE F == [f \in rows |-> IF IsOpen(f) /\ f.fp \in obs THEN [f EXCEPT !.last = r] ELSE f]
           fresh == obs \ OpenPrints(rows)
           G == [p \in fresh |-> NewRow(p, r)]
<1>1. ApplyObserved(rows, r, obs) = {F[f] : f \in rows} \cup {G[p] : p \in fresh}
    BY Zenon DEF ApplyObserved
<1>2. ApplyObserved(rows, r, obs) \subseteq Rows
    BY DEF ApplyObserved, NewRow, Rows
<1>3. IsFiniteSet(fresh)
    BY SentinelAssumption, FS_Subset
<1>4. DOMAIN F = rows /\ DOMAIN G = fresh
    OBVIOUS
<1> HIDE DEF F, G, fresh
<1>5. IsFiniteSet({F[f] : f \in rows})
    BY <1>4, FiniteImage
<1>6. IsFiniteSet({G[p] : p \in fresh})
    BY <1>3, <1>4, FiniteImage
<1> QED BY <1>1, <1>2, <1>5, <1>6, FS_Union

\* resolve_absent keeps the table a finite set of rows.
LEMMA ResolveAbsentType ==
    ASSUME NEW rows \in SUBSET Rows, IsFiniteSet(rows), NEW r \in Runs,
           NEW scanned, NEW seen
    PROVE  /\ ResolveAbsent(rows, r, scanned, seen) \subseteq Rows
           /\ IsFiniteSet(ResolveAbsent(rows, r, scanned, seen))
<1> DEFINE F == [f \in rows |-> IF IsOpen(f) /\ ScopeOf[f.fp] \in scanned /\ f.fp \notin seen
                                THEN [f EXCEPT !.resolved = r] ELSE f]
<1>1. ResolveAbsent(rows, r, scanned, seen) = {F[f] : f \in rows}
    BY Zenon DEF ResolveAbsent
<1>2. ResolveAbsent(rows, r, scanned, seen) \subseteq Rows
    BY DEF ResolveAbsent, Rows
<1>3. DOMAIN F = rows
    OBVIOUS
<1> HIDE DEF F
<1>4. IsFiniteSet({F[f] : f \in rows})
    BY <1>3, FiniteImage
<1> QED BY <1>1, <1>2, <1>4

\* A run with sections has a first one.
LEMMA FirstSection ==
    ASSUME NEW rep \in Seq(Sections), NEW r, SectionAt(rep, r) # {}
    PROVE  \E i \in SectionAt(rep, r) : \A j \in SectionAt(rep, r) : i <= j
<1> DEFINE S == SectionAt(rep, r)
<1>1. S \in SUBSET Nat /\ S # {}
    BY DEF SectionAt
<1> HIDE DEF S
<1>2. \E i \in S : \A j \in S : <<j, i>> \notin OpToRel(<, Nat)
    BY <1>1, WFMin, NatLessThanWellFounded
<1>3. \A i, j \in Nat : j < i => <<j, i>> \in OpToRel(<, Nat)
    BY Zenon DEF OpToRel
<1>4. \E i \in S : \A j \in S : ~(j < i)
    BY <1>1, <1>2, <1>3
<1>5. \E i \in S : \A j \in S : i <= j
    BY <1>1, <1>4
<1> QED BY <1>5 DEF S

\* FINDINGS.md stays a sequence of sections, however a write ends.
LEMMA ReportType ==
    ASSUME NEW rep \in Seq(Sections), NEW r \in Runs, NEW st \in Statuses
    PROVE  /\ AppendSection(rep, r, st) \in Seq(Sections)
           /\ TornReports(rep, r, st) \subseteq Seq(Sections)
<1> DEFINE n == (CHOOSE i \in SectionAt(rep, r) : \A j \in SectionAt(rep, r) : i <= j) - 1
<1>1. CutAt(rep, r) \in Seq(Sections)
    <2>1. CASE SectionAt(rep, r) = {}
        BY <2>1 DEF CutAt
    <2>2. CASE SectionAt(rep, r) # {}
        <3>1. SectionAt(rep, r) \subseteq 1..Len(rep)
            BY DEF SectionAt
        <3>2. PICK i \in SectionAt(rep, r) : \A j \in SectionAt(rep, r) : i <= j
            BY <2>2, FirstSection
        <3>3. n \in 0..Len(rep)
            BY <3>1, <3>2
        <3>4. \A k \in 1..n : rep[k] \in Sections
            BY <3>3, ElementOfSeq
        <3> HIDE DEF n
        <3>5. SubSeq(rep, 1, n) \in Seq(Sections)
            BY <3>3, <3>4, SubSeqProperties
        <3> QED BY <2>2, <3>5 DEF CutAt, n
    <2> QED BY <2>1, <2>2
<1>2. \A w \in SectionForms : Section(r, st, w) \in Sections
    BY DEF Section, Sections, SectionForms
<1>3. \A w \in SectionForms : Append(CutAt(rep, r), Section(r, st, w)) \in Seq(Sections)
    BY <1>1, <1>2, AppendProperties
<1> QED BY <1>1, <1>3 DEF AppendSection, TornReports, SectionForms

\* The cost ledger stays a sequence of lines, however a write ends.
LEMMA CostType ==
    ASSUME NEW c \in Seq(Lines), NEW r \in Runs
    PROVE  /\ AppendCost(c, r) \in Seq(Lines)
           /\ TornCosts(c, r, CostTears) \subseteq Seq(Lines)
<1>1. RepairTrailing(c) \in Seq(Lines)
    <2>1. c # <<>> => SubSeq(c, 1, Len(c) - 1) \in Seq(Lines)
        BY SubSeqProperties, ElementOfSeq
    <2> QED BY <2>1 DEF RepairTrailing
<1>2. ASSUME NEW d \in Seq(Lines), NEW form \in {"row", "bare", "torn"}
      PROVE  AppendLine(d, r, form) \in Seq(Lines)
    <2> DEFINE f == IF form = "row" THEN "garbled" ELSE "torn"
    <2>1. [run |-> r, form |-> form] \in Lines /\ [run |-> r, form |-> f] \in Lines
        BY DEF Lines, LineForms
    <2>2. CASE d = <<>> \/ HasNewline(d[Len(d)])
        BY <2>1, <2>2 DEF AppendLine
    <2>3. CASE ~(d = <<>> \/ HasNewline(d[Len(d)]))
        BY <2>1, <2>3, ExceptSeq DEF AppendLine
    <2> QED BY <2>2, <2>3
<1>3. CostTears \subseteq {"row", "bare", "torn"}
    BY SentinelAssumption
<1> QED BY <1>1, <1>2, <1>3 DEF AppendCost, TornCosts

----------------------------------------------------------------------------
\* Type correctness.  The run in hand is a run wherever the code names it, and
\* the findings table is finite, so that its counts are numbers.

HoldsRun == Executing \cup {"fail", "report", "cost"}

TypeInv ==
    /\ TypeOK
    /\ IsFiniteSet(findings)
    /\ pc \in HoldsRun => cur \in Runs

\* The counters close_run writes are numbers.
LEMMA ClosedType ==
    ASSUME TypeInv, NEW r \in Runs, NEW st \in Statuses, NEW row
    PROVE  Closed(r, st, row) \in RunRecords
<1>1. /\ IsFiniteSet({s \in Scopes : row[s] \in Terminal})
      /\ IsFiniteSet(FirstSeenBy(findings, r))
      /\ IsFiniteSet(ResolvedBy(findings, r))
    BY SentinelAssumption, FS_Subset DEF TypeInv, FirstSeenBy, ResolvedBy
<1>2. /\ Cardinality({s \in Scopes : row[s] \in Terminal}) \in Nat
      /\ Cardinality(FirstSeenBy(findings, r)) \in Nat
      /\ Cardinality(ResolvedBy(findings, r)) \in Nat
    BY <1>1, FS_CardinalityType
<1> QED BY <1>2 DEF Closed, RunRecords, TypeInv, TypeOK

\* bump_run_counts on the terminal counter.
LEMMA BumpType ==
    ASSUME runs \in [Runs -> RunRecords], NEW r \in Runs
    PROVE  [runs EXCEPT ![r].terminal = @ + 1] \in [Runs -> RunRecords]
<1>1. runs[r] \in RunRecords /\ runs[r].terminal + 1 \in Nat
    BY DEF RunRecords
<1>2. [runs[r] EXCEPT !.terminal = @ + 1] \in RunRecords
    BY <1>1 DEF RunRecords
<1> QED BY <1>2

\* A sweep maps task rows to task rows.
LEMMA SweptType ==
    ASSUME NEW row \in [Scopes -> TaskStates]
    PROVE  Swept(row) \in [Scopes -> TaskStates]
BY DEF Swept, TaskStates

\* Both files keep their type when a process is interrupted.
LEMMA InterruptedType ==
    ASSUME TypeInv, Interrupted
    PROVE  report' \in Seq(Sections) /\ costs' \in Seq(Lines)
<1>1. CASE pc \notin {"report", "cost"} /\ UNCHANGED files
    BY <1>1 DEF TypeInv, TypeOK, files
<1>2. CASE pc = "report" /\ report' \in TornReports(report, cur, runs[cur].status) /\ UNCHANGED costs
    <2>1. cur \in Runs /\ runs[cur].status \in Statuses /\ report \in Seq(Sections)
        BY <1>2 DEF TypeInv, TypeOK, HoldsRun, RunRecords
    <2>2. report' \in Seq(Sections)
        BY <1>2, <2>1, ReportType
    <2> QED BY <1>2, <2>2 DEF TypeInv, TypeOK
<1>3. CASE pc = "cost" /\ costs' \in TornCosts(costs, cur, CostTears) /\ UNCHANGED report
    <2>1. cur \in Runs /\ costs \in Seq(Lines)
        BY <1>3 DEF TypeInv, TypeOK, HoldsRun
    <2>2. costs' \in Seq(Lines)
        BY <1>3, <2>1, CostType
    <2> QED BY <1>3, <2>2 DEF TypeInv, TypeOK
<1> QED BY <1>1, <1>2, <1>3 DEF Interrupted

LEMMA TypeInit == Init => TypeInv
<1> SUFFICES ASSUME Init PROVE TypeInv
    OBVIOUS
<1>1. IsFiniteSet(findings)
    BY FS_EmptySet DEF Init
<1>2. 0 \in 0..MaxFaults
    BY SentinelAssumption
<1>3. <<>> \in Seq(Sections) /\ <<>> \in Seq(Lines)
    OBVIOUS
<1>4. NoRecord \in RunRecords
    BY DEF NoRecord, RunRecords, Statuses
<1> QED BY <1>1, <1>2, <1>3, <1>4 DEF Init, TypeInv, TypeOK, HoldsRun, Executing, Pcs, TaskStates

LEMMA TypeNext == TypeInv /\ [Next]_vars => TypeInv'
<1> SUFFICES ASSUME TypeInv, [Next]_vars PROVE TypeInv'
    OBVIOUS
<1> USE DEF TypeInv, TypeOK, HoldsRun, Executing, Pcs, NoRun
<1>1. ASSUME NEW rec \in RecoverFlags, NEW st \in StrictFlags, StartRun(rec, st)
      PROVE  TypeInv'
    BY <1>1, SentinelAssumption DEF StartRun, ledger, files
<1>2. CASE StartRecover
    BY <1>2 DEF StartRecover, ledger, files, memory
<1>3. ASSUME NEW r \in Runs, RecoverOne(r)
      PROVE  TypeInv'
    <2>1. tasks' \in [Runs -> [Scopes -> TaskStates]]
        BY <1>3, SweptType DEF RecoverOne
    <2>2. Closed(r, "FAILED", tasks'[r]) \in RunRecords
        BY ClosedType DEF Statuses
    <2>3. runs' \in [Runs -> RunRecords]
        BY <1>3, <2>2 DEF RecoverOne
    <2> QED BY <1>3, <2>1, <2>3 DEF RecoverOne, files, memory
<1>4. CASE RecoverDone
    BY <1>4 DEF RecoverDone, Exit, ledger, files, memory
<1>5. CASE ListTerminal
    BY <1>5 DEF ListTerminal, ledger, files
<1>6. ASSUME NEW r \in Runs, Reconcile(r)
      PROVE  TypeInv'
    BY <1>6 DEF Reconcile, ledger, files
<1>7. CASE ReconcileDone
    BY <1>7 DEF ReconcileDone, ledger, files, memory
<1>8. ASSUME NEW r \in Runs, CreateRun(r)
      PROVE  TypeInv'
    <2>1. runs' \in [Runs -> RunRecords]
        BY <1>8 DEF CreateRun, RunRecords, Statuses
    <2> QED BY <1>8, <2>1 DEF CreateRun, files
<1>9. CASE CreateConflict
    BY <1>9 DEF CreateConflict, Exit, ledger, files
<1>10. ASSUME NEW units \in SUBSET Scopes, Enumerate(units)
       PROVE  TypeInv'
    <2>1. Cardinality(units) \in Nat
        BY SentinelAssumption, FS_Subset, FS_CardinalityType
    <2>2. runs' \in [Runs -> RunRecords]
        BY <1>10, <2>1 DEF Enumerate, RunRecords
    <2>3. tasks' \in [Runs -> [Scopes -> TaskStates]]
        BY <1>10 DEF Enumerate, TaskStates
    <2> QED BY <1>10, <2>2, <2>3 DEF Enumerate, files
<1>11. ASSUME NEW s \in Scopes, Claim(s)
       PROVE  TypeInv'
    <2>1. tasks' \in [Runs -> [Scopes -> TaskStates]]
        BY <1>11 DEF Claim, TaskStates
    <2> QED BY <1>11, <2>1 DEF Claim, files, memory
<1>12. ASSUME NEW s \in Scopes, NEW obs \in SUBSET ScopePrints(s), Confirm(s, obs)
       PROVE  TypeInv'
    <2>1. cur \in Runs /\ obs \in SUBSET Prints
        BY <1>12 DEF Confirm, ScopePrints
    <2>2. findings' \subseteq Rows /\ IsFiniteSet(findings')
        BY <1>12, <2>1, ApplyObservedType DEF Confirm
    <2>3. tasks' \in [Runs -> [Scopes -> TaskStates]]
        BY <1>12 DEF Confirm, TaskStates
    <2>4. runs' \in [Runs -> RunRecords]
        BY <1>12, <2>1, BumpType DEF Confirm
    <2> QED BY <1>12, <2>1, <2>2, <2>3, <2>4 DEF Confirm, files
<1>13. ASSUME NEW s \in Scopes, DeadLetter(s)
       PROVE  TypeInv'
    <2>1. tasks' \in [Runs -> [Scopes -> TaskStates]]
        BY <1>13 DEF DeadLetter, TaskStates
    <2>2. runs' \in [Runs -> RunRecords]
        BY <1>13, BumpType DEF DeadLetter
    <2> QED BY <1>13, <2>1, <2>2 DEF DeadLetter, files
<1>14. CASE Resolve
    <2>1. findings' \subseteq Rows /\ IsFiniteSet(findings')
        BY <1>14, ResolveAbsentType DEF Resolve
    <2> QED BY <1>14, <2>1 DEF Resolve, files, memory
<1>15. CASE CloseRun
    <2>1. Closed(cur, IF strict /\ dead THEN "FAILED" ELSE "COMPLETED", tasks[cur]) \in RunRecords
        BY <1>15, ClosedType DEF CloseRun, Statuses
    <2>2. runs' \in [Runs -> RunRecords]
        BY <1>15, <2>1 DEF CloseRun
    <2> QED BY <1>15, <2>2 DEF CloseRun, files, memory
<1>16. CASE FailRun
    <2>1. tasks' \in [Runs -> [Scopes -> TaskStates]]
        BY <1>16, SweptType DEF FailRun
    <2>2. Closed(cur, "FAILED", tasks'[cur]) \in RunRecords
        BY <1>16, ClosedType DEF FailRun, Statuses
    <2>3. runs' \in [Runs -> RunRecords]
        BY <1>16, <2>2 DEF FailRun
    <2> QED BY <1>16, <2>1, <2>3 DEF FailRun, files, memory
<1>17. CASE WriteReport
    <2>1. cur \in Runs /\ runs[cur].status \in Statuses
        BY <1>17 DEF WriteReport, RunRecords
    <2>2. report' \in Seq(Sections)
        BY <1>17, <2>1, ReportType DEF WriteReport
    <2> QED BY <1>17, <2>1, <2>2 DEF WriteReport, ledger, memory
<1>18. CASE WriteCost
    <2>1. costs' \in Seq(Lines)
        BY <1>18, CostType DEF WriteCost
    <2> QED BY <1>18, <2>1 DEF WriteCost, Exit, ledger
<1>19. CASE Raise
    <2>1. report' \in Seq(Sections) /\ costs' \in Seq(Lines)
        BY <1>19, InterruptedType DEF Raise
    <2>2. faults' \in 0..MaxFaults
        BY <1>19, SentinelAssumption DEF Raise, Fault
    <2> QED BY <1>19, <2>1, <2>2 DEF Raise, ledger, memory
<1>20. CASE Crash
    <2>1. report' \in Seq(Sections) /\ costs' \in Seq(Lines)
        BY <1>20, InterruptedType DEF Crash
    <2>2. faults' \in 0..MaxFaults
        BY <1>20, SentinelAssumption DEF Crash, Fault
    <2> QED BY <1>20, <2>1, <2>2 DEF Crash, Exit, ledger
<1>21. CASE ReportUnreadable
    BY <1>21 DEF ReportUnreadable, Exit, ledger, files, memory
<1>22. CASE UNCHANGED vars
    BY <1>22 DEF vars, ledger, files, memory
<1> QED
    BY <1>1, <1>2, <1>3, <1>4, <1>5, <1>6, <1>7, <1>8, <1>9, <1>10, <1>11, <1>12,
       <1>13, <1>14, <1>15, <1>16, <1>17, <1>18, <1>19, <1>20, <1>21, <1>22
    DEF Next, Progress, Invocation, Run

\* The ledger, the files and the process memory always have their types.
THEOREM TypeCorrect == Spec => []TypeOK
<1>1. TypeInv => TypeOK
    BY DEF TypeInv
<1> QED BY TypeInit, TypeNext, <1>1, PTL DEF Spec

----------------------------------------------------------------------------
\* What the writers of RunOutputs do to a sound file.

OneSection(rep) == \A i, j \in DOMAIN rep : rep[i].run = rep[j].run => i = j

\* What a report consists of comes from old, or is run r's.
From(rep, old, r) ==
    \A i \in DOMAIN rep : rep[i].run = r \/ \E j \in DOMAIN old : rep[i].run = old[j].run

LEMMA CutShape ==
    ASSUME NEW rep \in Seq(Sections), NEW r
    PROVE  \E n \in 0..Len(rep) :
              /\ CutAt(rep, r) \in Seq(Sections) /\ Len(CutAt(rep, r)) = n
              /\ \A k \in 1..n : CutAt(rep, r)[k] = rep[k] /\ rep[k].run # r
              /\ n = Len(rep) \/ (n + 1 \in 1..Len(rep) /\ rep[n + 1].run = r)
<1>1. CASE SectionAt(rep, r) = {}
    BY <1>1 DEF CutAt, SectionAt
<1>2. CASE SectionAt(rep, r) # {}
    <2> DEFINE m == CHOOSE i \in SectionAt(rep, r) : \A j \in SectionAt(rep, r) : i <= j
    <2>1. m \in SectionAt(rep, r) /\ \A j \in SectionAt(rep, r) : m <= j
        BY <1>2, FirstSection
    <2>2. CutAt(rep, r) = SubSeq(rep, 1, m - 1)
        BY <1>2 DEF CutAt
    <2> HIDE DEF m
    <2>3. m \in 1..Len(rep)
        BY <2>1 DEF SectionAt
    <2>4. \A k \in 1..(m - 1) : rep[k] \in Sections /\ rep[k].run # r
        BY <2>1, <2>3, ElementOfSeq DEF SectionAt
    <2>5. /\ SubSeq(rep, 1, m - 1) \in Seq(Sections)
          /\ Len(SubSeq(rep, 1, m - 1)) = m - 1
          /\ \A k \in 1..(m - 1) : SubSeq(rep, 1, m - 1)[k] = rep[k]
        BY <2>3, <2>4, SubSeqProperties
    <2>6. rep[m].run = r /\ m - 1 \in 0..Len(rep) /\ (m - 1) + 1 = m
        BY <2>1, <2>3 DEF SectionAt
    <2> QED BY <2>2, <2>3, <2>4, <2>5, <2>6
<1> QED BY <1>1, <1>2

LEMMA CutSound ==
    ASSUME NEW rep \in Seq(Sections), NEW r, OneSection(rep)
    PROVE  OneSection(CutAt(rep, r)) /\ From(CutAt(rep, r), rep, r)
<1>1. PICK n \in 0..Len(rep) :
              /\ CutAt(rep, r) \in Seq(Sections) /\ Len(CutAt(rep, r)) = n
              /\ \A k \in 1..n : CutAt(rep, r)[k] = rep[k] /\ rep[k].run # r
    BY CutShape
<1>2. DOMAIN CutAt(rep, r) = 1..n /\ 1..n \subseteq DOMAIN rep
    BY <1>1
<1> QED BY <1>1, <1>2 DEF OneSection, From

LEMMA AppendSound ==
    ASSUME NEW rep \in Seq(Sections), NEW r \in Runs, OneSection(rep), NEW st \in Statuses, NEW w \in SectionForms
    PROVE  LET new == Append(CutAt(rep, r), Section(r, st, w))
           IN  OneSection(new) /\ From(new, rep, r)
<1> DEFINE new == Append(CutAt(rep, r), Section(r, st, w))
<1>1. PICK n \in 0..Len(rep) :
              /\ CutAt(rep, r) \in Seq(Sections) /\ Len(CutAt(rep, r)) = n
              /\ \A k \in 1..n : CutAt(rep, r)[k] = rep[k] /\ rep[k].run # r
    BY CutShape
<1>2. Section(r, st, w) \in Sections /\ Section(r, st, w).run = r
    BY DEF Section, Sections, SectionForms
<1>3. Len(new) = n + 1 /\ new[n + 1].run = r /\ \A k \in 1..n : new[k] = rep[k]
    BY <1>1, <1>2, AppendProperties
<1>4. DOMAIN new = 1..(n + 1) /\ 1..n \subseteq DOMAIN rep
    BY <1>1, <1>2, <1>3, AppendProperties
<1> HIDE DEF new
<1>5. \A i \in 1..(n + 1) : i = n + 1 \/ i \in 1..n
    BY <1>1
<1>6. OneSection(new) /\ From(new, rep, r)
    BY <1>1, <1>3, <1>4, <1>5 DEF OneSection, From
<1> QED BY <1>6 DEF new

\* However a section is written or torn, runs keep at most one.
LEMMA ReportSound ==
    ASSUME NEW rep \in Seq(Sections), NEW r \in Runs, OneSection(rep), NEW st \in Statuses,
           NEW new \in {AppendSection(rep, r, st)} \cup TornReports(rep, r, st)
    PROVE  OneSection(new) /\ From(new, rep, r)
<1>1. OneSection(rep) /\ From(rep, rep, r)
    BY DEF From
<1>2. new \in {rep, CutAt(rep, r)} \cup {Append(CutAt(rep, r), Section(r, st, w)) : w \in SectionForms}
    BY DEF AppendSection, TornReports, SectionForms
<1> QED BY <1>1, <1>2, CutSound, AppendSound

LinesSound(c) ==
    /\ \A i, j \in DOMAIN c : Parses(c[i]) /\ Parses(c[j]) /\ c[i].run = c[j].run => i = j
    /\ \A i \in DOMAIN c : i < Len(c) => c[i].form = "row"

\* Only the last line can be unreadable, so its repair leaves a readable file.
LEMMA RepairSound ==
    ASSUME NEW c \in Seq(Lines), LinesSound(c), NEW r
    PROVE  LET d == RepairTrailing(c)
           IN  d \in Seq(Lines) /\ LinesSound(d) /\ Readable(d) /\ From(d, c, r)
<1> DEFINE d == RepairTrailing(c)
<1>0. PICK n \in Nat : n = Len(c) /\ DOMAIN c = 1..n
    OBVIOUS
<1>1. CASE c = <<>>
    BY <1>1 DEF RepairTrailing, LinesSound, Readable, From
<1>2. CASE c # <<>> /\ Parses(c[Len(c)])
    <2>1. \A i \in DOMAIN c : i < Len(c) \/ i = Len(c)
        BY <1>0
    <2>2. Readable(c)
        BY <1>2, <2>1 DEF Readable, Parses, LinesSound
    <2>3. d = c /\ From(c, c, r)
        BY <1>2 DEF RepairTrailing, From
    <2> QED BY <2>2, <2>3
<1>3. CASE c # <<>> /\ ~Parses(c[Len(c)])
    <2>1. n # 0 /\ d = SubSeq(c, 1, n - 1)
        BY <1>0, <1>3 DEF RepairTrailing
    <2>2. \A i \in 1..(n - 1) : c[i] \in Lines /\ c[i].form = "row" /\ i \in DOMAIN c
        BY <1>0, <2>1, ElementOfSeq DEF LinesSound
    <2>3. d \in Seq(Lines) /\ Len(d) = n - 1 /\ \A i \in 1..(n - 1) : d[i] = c[i]
        BY <1>0, <2>1, <2>2, SubSeqProperties
    <2>4. DOMAIN d = 1..(n - 1)
        BY <2>1, <2>3
    <2> HIDE DEF d
    <2>5. LinesSound(d) /\ Readable(d) /\ From(d, c, r)
        BY <2>2, <2>3, <2>4 DEF LinesSound, Readable, Parses, From
    <2> QED BY <2>3, <2>5 DEF d
<1> QED BY <1>1, <1>2, <1>3

LEMMA AppendLineSound ==
    ASSUME NEW d \in Seq(Lines), LinesSound(d), Readable(d), NEW r \in Runs, ~HasCostRow(d, r),
           NEW form \in {"row", "bare", "torn"}
    PROVE  LinesSound(AppendLine(d, r, form)) /\ From(AppendLine(d, r, form), d, r)
<1> DEFINE e == AppendLine(d, r, form)
           f == IF form = "row" THEN "garbled" ELSE "torn"
<1>0. PICK n \in Nat : n = Len(d) /\ DOMAIN d = 1..n
    OBVIOUS
<1>1. \A i \in 1..n : d[i].run # r /\ Parses(d[i])
    BY <1>0 DEF Readable, HasCostRow
<1>2. CASE d = <<>> \/ HasNewline(d[Len(d)])
    <2> DEFINE line == [run |-> r, form |-> form]
    <2>1. e = Append(d, line) /\ line \in Lines /\ line.run = r
        BY <1>2 DEF AppendLine, Lines, LineForms
    <2>2. \A i \in 1..n : d[i].form = "row"
        <3>1. n # 0 => d[n].form = "row"
            BY <1>0, <1>1, <1>2 DEF Parses, HasNewline
        <3>2. \A i \in 1..n : i < n => d[i].form = "row"
            BY <1>0 DEF LinesSound
        <3> QED BY <3>1, <3>2
    <2>3. Len(e) = n + 1 /\ e[n + 1] = line /\ \A i \in 1..n : e[i] = d[i]
        BY <1>0, <2>1, AppendProperties
    <2>4. DOMAIN e = 1..(n + 1)
        BY <2>1, <2>3, AppendProperties
    <2> HIDE DEF e, line
    <2>5. \A i \in 1..(n + 1) : i = n + 1 \/ (i \in 1..n /\ i < n + 1)
        OBVIOUS
    <2>6. From(e, d, r)
        BY <1>0, <2>1, <2>3, <2>4, <2>5 DEF From
    <2>7. \A i, j \in DOMAIN e : Parses(e[i]) /\ Parses(e[j]) /\ e[i].run = e[j].run => i = j
        BY <1>0, <1>1, <2>1, <2>3, <2>4, <2>5 DEF LinesSound
    <2>8. \A i \in DOMAIN e : i < Len(e) => e[i].form = "row"
        BY <2>2, <2>3, <2>4, <2>5
    <2> QED BY <2>6, <2>7, <2>8 DEF e, LinesSound
<1>3. CASE ~(d = <<>> \/ HasNewline(d[Len(d)]))
    <2>1. n # 0 /\ e = [d EXCEPT ![n] = [run |-> r, form |-> f]]
        BY <1>0, <1>3 DEF AppendLine
    <2>2. Len(e) = n /\ DOMAIN e = 1..n
        BY <1>0, <2>1
    <2>3. e[n].run = r /\ ~Parses(e[n]) /\ \A i \in 1..n : i # n => e[i] = d[i]
        BY <1>0, <2>1 DEF Parses
    <2> HIDE DEF e
    <2>4. \A i \in 1..n : i = n \/ (i # n /\ i < n)
        OBVIOUS
    <2>5. From(e, d, r)
        BY <1>0, <2>2, <2>3 DEF From
    <2>6. LinesSound(e)
        BY <1>0, <2>2, <2>3, <2>4 DEF LinesSound
    <2> QED BY <2>5, <2>6 DEF e
<1> QED BY <1>2, <1>3

\* However a cost row is written or torn, runs keep at most one readable row,
\* and only the last line can be damaged.
LEMMA CostSound ==
    ASSUME NEW c \in Seq(Lines), LinesSound(c), NEW r \in Runs,
           NEW new \in {AppendCost(c, r)} \cup TornCosts(c, r, CostTears)
    PROVE  LinesSound(new) /\ From(new, c, r)
<1> DEFINE d == RepairTrailing(c)
<1>1. d \in Seq(Lines) /\ LinesSound(d) /\ Readable(d) /\ From(d, c, r)
    BY RepairSound
<1>2. From(c, c, r)
    BY DEF From
<1>3. \/ new \in {c, d}
      \/ ~HasCostRow(d, r) /\ \E form \in {"row", "bare", "torn"} : new = AppendLine(d, r, form)
    BY SentinelAssumption DEF AppendCost, TornCosts
<1> HIDE DEF d
<1>4. ASSUME NEW e, From(e, d, r)
      PROVE  From(e, c, r)
    BY <1>1, <1>4 DEF From
<1> QED BY <1>1, <1>2, <1>3, <1>4, AppendLineSound

----------------------------------------------------------------------------
\* The inductive invariant.

\* Outputs are written of closed runs only.
HandsInv ==
    /\ pc \in {"report", "cost"} => IsTerminal(cur)
    /\ \A r \in todo : IsTerminal(r)

FilesSound == OneSection(report) /\ LinesSound(costs)

OutputsInv == OutputsFollowClose /\ FilesSound /\ HandsInv

\* A closed run stays closed.
LEMMA TerminalStays ==
    ASSUME TypeInv, [Next]_vars, NEW r \in Runs, IsTerminal(r)
    PROVE  IsTerminal(r)'
<1> USE DEF TypeInv, TypeOK, HoldsRun, Executing, IsTerminal
<1>1. ASSUME NEW q \in Runs, RecoverOne(q)
      PROVE  IsTerminal(r)'
    BY <1>1 DEF RecoverOne
<1>2. ASSUME NEW q \in Runs, CreateRun(q)
      PROVE  IsTerminal(r)'
    BY <1>2 DEF CreateRun, RunRecords
<1>3. ASSUME NEW units \in SUBSET Scopes, Enumerate(units)
      PROVE  IsTerminal(r)'
    BY <1>3 DEF Enumerate, RunRecords
<1>4. ASSUME NEW s \in Scopes, DeadLetter(s)
      PROVE  IsTerminal(r)'
    <2>1. cur \in Runs /\ runs' = [runs EXCEPT ![cur].terminal = @ + 1]
        BY <1>4 DEF DeadLetter
    <2>2. runs'[r].status = runs[r].status
        BY <2>1 DEF RunRecords
    <2> QED BY <2>2
<1>5. CASE CloseRun
    <2>1. /\ cur \in Runs
          /\ \A st \in {"COMPLETED", "FAILED"} : Closed(cur, st, tasks[cur]).status = st
        BY <1>5 DEF CloseRun, Closed, RunRecords
    <2> QED BY <1>5, <2>1 DEF CloseRun
<1>6. CASE FailRun
    <2>1. cur \in Runs /\ Closed(cur, "FAILED", tasks'[cur]).status = "FAILED"
        BY <1>6 DEF FailRun, Closed, RunRecords
    <2> QED BY <1>6, <2>1 DEF FailRun
<1>7. CASE UNCHANGED runs
    BY <1>7
<1>8. ASSUME NEW rec \in RecoverFlags, NEW st \in StrictFlags, StartRun(rec, st)
      PROVE  UNCHANGED runs
    BY <1>8 DEF StartRun, ledger
<1>9. ASSUME NEW q \in Runs, Reconcile(q)
      PROVE  UNCHANGED runs
    BY <1>9 DEF Reconcile, ledger
<1>10. ASSUME NEW s \in Scopes, Claim(s)
       PROVE  UNCHANGED runs
    BY <1>10 DEF Claim
<1>11. CASE \/ StartRecover \/ RecoverDone \/ ListTerminal \/ ReconcileDone \/ CreateConflict
            \/ Resolve \/ WriteReport \/ ReportUnreadable \/ WriteCost \/ Raise \/ Crash
            \/ UNCHANGED vars
    BY <1>11 DEF StartRecover, RecoverDone, ListTerminal, ReconcileDone, CreateConflict,
                 Resolve, WriteReport, ReportUnreadable, WriteCost, Raise, Crash, vars, ledger
<1>12. ASSUME NEW s \in Scopes, NEW obs \in SUBSET ScopePrints(s), Confirm(s, obs)
       PROVE  IsTerminal(r)'
    <2>1. cur \in Runs /\ runs' = [runs EXCEPT ![cur].terminal = @ + 1]
        BY <1>12 DEF Confirm
    <2>2. runs'[r].status = runs[r].status
        BY <2>1 DEF RunRecords
    <2> QED BY <2>2
<1> QED
    BY <1>1, <1>2, <1>3, <1>4, <1>5, <1>6, <1>7, <1>8, <1>9, <1>10, <1>11, <1>12
    DEF Next, Progress, Invocation, Run

\* Files that stay, or that only the run in hand was written to, stay behind
\* the ledger.
LEMMA StillFollows ==
    ASSUME TypeInv, OutputsFollowClose, [Next]_vars, NEW r \in Runs, IsTerminal(r),
           From(report', report, r), From(costs', costs, r)
    PROVE  OutputsFollowClose'
<1> DEFINE After(q) == runs'[q].status \in {"COMPLETED", "FAILED"}
<1>1. \A q \in Runs : IsTerminal(q) => After(q)
    BY TerminalStays DEF IsTerminal
<1>2. \A j \in DOMAIN report : report[j].run \in Runs /\ After(report[j].run)
    <2> TAKE j \in DOMAIN report
    <2>1. report \in Seq(Sections) /\ j \in 1..Len(report)
        BY DEF TypeInv, TypeOK
    <2>2. report[j] \in Sections
        BY <2>1, ElementOfSeq
    <2>3. report[j].run \in Runs
        BY <2>2 DEF Sections
    <2> QED BY <1>1, <2>3 DEF OutputsFollowClose
<1>3. \A j \in DOMAIN costs : costs[j].run \in Runs /\ After(costs[j].run)
    <2> TAKE j \in DOMAIN costs
    <2>1. costs \in Seq(Lines) /\ j \in 1..Len(costs)
        BY DEF TypeInv, TypeOK
    <2>2. costs[j] \in Lines
        BY <2>1, ElementOfSeq
    <2>3. costs[j].run \in Runs
        BY <2>2 DEF Lines
    <2> QED BY <1>1, <2>3 DEF OutputsFollowClose
<1>4. After(r)
    BY <1>1
<1> HIDE DEF After
<1>5. \A i \in DOMAIN report' : After(report'[i].run)
    BY <1>2, <1>4 DEF From
<1>6. \A i \in DOMAIN costs' : After(costs'[i].run)
    BY <1>3, <1>4 DEF From
<1> QED BY <1>5, <1>6 DEF OutputsFollowClose, IsTerminal, After

LEMMA FilesStay ==
    ASSUME TypeInv, OutputsInv, [Next]_vars, UNCHANGED files
    PROVE  OutputsFollowClose' /\ FilesSound'
<1> DEFINE After(q) == runs'[q].status \in {"COMPLETED", "FAILED"}
<1>1. \A q \in Runs : IsTerminal(q) => After(q)
    BY TerminalStays DEF IsTerminal
<1>2. \A j \in DOMAIN report : After(report[j].run)
    <2> TAKE j \in DOMAIN report
    <2>1. report \in Seq(Sections) /\ j \in 1..Len(report)
        BY DEF TypeInv, TypeOK
    <2>2. report[j] \in Sections
        BY <2>1, ElementOfSeq
    <2>3. report[j].run \in Runs
        BY <2>2 DEF Sections
    <2> QED BY <1>1, <2>3 DEF OutputsInv, OutputsFollowClose
<1>3. \A j \in DOMAIN costs : After(costs[j].run)
    <2> TAKE j \in DOMAIN costs
    <2>1. costs \in Seq(Lines) /\ j \in 1..Len(costs)
        BY DEF TypeInv, TypeOK
    <2>2. costs[j] \in Lines
        BY <2>1, ElementOfSeq
    <2>3. costs[j].run \in Runs
        BY <2>2 DEF Lines
    <2> QED BY <1>1, <2>3 DEF OutputsInv, OutputsFollowClose
<1>4. report' = report /\ costs' = costs
    BY DEF files
<1>5. OutputsFollowClose'
    BY <1>2, <1>3, <1>4 DEF OutputsFollowClose, IsTerminal
<1> QED BY <1>4, <1>5 DEF OutputsInv, FilesSound

\* The report is written, or torn.
LEMMA ReportStep ==
    ASSUME TypeInv, OutputsInv, [Next]_vars, pc = "report", UNCHANGED costs,
           \/ report' = AppendSection(report, cur, runs[cur].status)
           \/ report' \in TornReports(report, cur, runs[cur].status)
    PROVE  OutputsFollowClose' /\ FilesSound'
<1>1. cur \in Runs /\ IsTerminal(cur) /\ runs[cur].status \in Statuses /\ report \in Seq(Sections)
    BY DEF TypeInv, TypeOK, HoldsRun, RunRecords, OutputsInv, HandsInv
<1>2. OneSection(report') /\ From(report', report, cur)
    BY <1>1, ReportSound DEF OutputsInv, FilesSound
<1>3. From(costs', costs, cur)
    BY DEF From
<1> QED BY <1>1, <1>2, <1>3, StillFollows DEF OutputsInv, FilesSound

\* The cost row is written, or torn.
LEMMA CostStep ==
    ASSUME TypeInv, OutputsInv, [Next]_vars, pc = "cost", UNCHANGED report,
           costs' = AppendCost(costs, cur) \/ costs' \in TornCosts(costs, cur, CostTears)
    PROVE  OutputsFollowClose' /\ FilesSound'
<1>1. cur \in Runs /\ IsTerminal(cur) /\ costs \in Seq(Lines)
    BY DEF TypeInv, TypeOK, HoldsRun, OutputsInv, HandsInv
<1>2. LinesSound(costs') /\ From(costs', costs, cur)
    BY <1>1, CostSound DEF OutputsInv, FilesSound
<1>3. From(report', report, cur)
    BY DEF From
<1> QED BY <1>1, <1>2, <1>3, StillFollows DEF OutputsInv, FilesSound

\* A step that may die in a write.
LEMMA InterruptedStep ==
    ASSUME TypeInv, OutputsInv, [Next]_vars, Interrupted
    PROVE  OutputsFollowClose' /\ FilesSound'
BY FilesStay, ReportStep, CostStep DEF Interrupted

LEMMA OutputsInit == Init => OutputsInv
BY DEF Init, OutputsInv, OutputsFollowClose, FilesSound, OneSection, LinesSound, HandsInv

LEMMA OutputsNext == TypeInv /\ OutputsInv /\ [Next]_vars => OutputsInv'
<1> SUFFICES ASSUME TypeInv, OutputsInv, [Next]_vars
             PROVE  OutputsFollowClose' /\ FilesSound' /\ HandsInv'
    BY DEF OutputsInv
<1>1. \A r \in Runs : IsTerminal(r) => IsTerminal(r)'
    BY TerminalStays
<1>2. \A r \in todo : r \in Runs /\ IsTerminal(r)'
    BY <1>1 DEF TypeInv, TypeOK, OutputsInv, HandsInv
<1>3. pc \in HoldsRun => cur \in Runs
    BY DEF TypeInv
<1> USE DEF HandsInv, HoldsRun, Executing
<1>4. CASE WriteReport
    <2>1. OutputsFollowClose' /\ FilesSound'
        BY <1>4, ReportStep DEF WriteReport
    <2> QED BY <1>1, <1>2, <1>3, <1>4, <2>1 DEF WriteReport, memory, OutputsInv, IsTerminal
<1>5. CASE WriteCost
    <2>1. OutputsFollowClose' /\ FilesSound'
        BY <1>5, CostStep DEF WriteCost
    <2> QED BY <1>2, <1>5, <2>1 DEF WriteCost, Exit, IsTerminal
<1>6. CASE Raise
    <2>1. OutputsFollowClose' /\ FilesSound'
        BY <1>6, InterruptedStep DEF Raise
    <2> QED BY <1>2, <1>6, <2>1 DEF Raise, memory, IsTerminal
<1>7. CASE Crash
    <2>1. OutputsFollowClose' /\ FilesSound'
        BY <1>7, InterruptedStep DEF Crash
    <2> QED BY <1>7, <2>1 DEF Crash, Exit
<1>8. CASE CloseRun
    <2>1. OutputsFollowClose' /\ FilesSound'
        BY <1>8, FilesStay DEF CloseRun
    <2>2. /\ cur \in Runs
          /\ \A st \in {"COMPLETED", "FAILED"} : Closed(cur, st, tasks[cur]).status = st
        BY <1>3, <1>8 DEF CloseRun, Closed, RunRecords, TypeInv, TypeOK
    <2>3. IsTerminal(cur)'
        BY <1>8, <2>2 DEF CloseRun, IsTerminal, memory, TypeInv, TypeOK
    <2> QED BY <1>2, <1>8, <2>1, <2>3 DEF CloseRun, memory, IsTerminal
<1>9. CASE FailRun
    <2>1. OutputsFollowClose' /\ FilesSound'
        BY <1>9, FilesStay DEF FailRun
    <2>2. cur \in Runs /\ Closed(cur, "FAILED", tasks'[cur]).status = "FAILED"
        BY <1>3, <1>9 DEF FailRun, Closed, RunRecords, TypeInv, TypeOK
    <2>3. IsTerminal(cur)'
        BY <1>9, <2>2 DEF FailRun, IsTerminal, memory, TypeInv, TypeOK
    <2> QED BY <1>2, <1>9, <2>1, <2>3 DEF FailRun, memory, IsTerminal
<1>10. CASE ListTerminal
    <2>1. OutputsFollowClose' /\ FilesSound'
        BY <1>10, FilesStay DEF ListTerminal
    <2> QED BY <1>10, <2>1 DEF ListTerminal, IsTerminal, ledger
<1>11. ASSUME NEW r \in Runs, Reconcile(r)
       PROVE  OutputsFollowClose' /\ FilesSound' /\ HandsInv'
    <2>1. OutputsFollowClose' /\ FilesSound'
        BY <1>11, FilesStay DEF Reconcile
    <2>2. IsTerminal(r)' /\ pc = "reconcile" /\ todo' \subseteq todo
        BY <1>2, <1>11 DEF Reconcile
    <2>3. (pc' = "report" /\ cur' = r) \/ pc' = "reconcile"
        BY <1>11 DEF Reconcile
    <2> QED BY <1>2, <2>1, <2>2, <2>3 DEF IsTerminal
<1>12. CASE /\ UNCHANGED files /\ pc' \notin {"report", "cost"}
            /\ todo' = todo \/ todo' = {}
    <2>1. OutputsFollowClose' /\ FilesSound'
        BY <1>12, FilesStay
    <2> QED BY <1>2, <1>12, <2>1 DEF IsTerminal
<1>13. CASE UNCHANGED vars
    <2>1. OutputsFollowClose' /\ FilesSound'
        BY <1>13, FilesStay DEF vars, files
    <2> QED BY <1>2, <1>13, <2>1 DEF vars, ledger, memory, OutputsInv, IsTerminal
<1>14. ASSUME NEW rec \in RecoverFlags, NEW st \in StrictFlags, StartRun(rec, st)
       PROVE  UNCHANGED files /\ pc' \notin {"report", "cost"} /\ todo' = todo
    BY <1>14 DEF StartRun
<1>15. ASSUME NEW r \in Runs, RecoverOne(r) \/ CreateRun(r)
       PROVE  UNCHANGED files /\ pc' \notin {"report", "cost"} /\ todo' = todo
    BY <1>15 DEF RecoverOne, CreateRun, memory
<1>16. ASSUME NEW units \in SUBSET Scopes, Enumerate(units)
       PROVE  UNCHANGED files /\ pc' \notin {"report", "cost"} /\ todo' = todo
    BY <1>16 DEF Enumerate
<1>17. ASSUME NEW s \in Scopes, \/ Claim(s) \/ DeadLetter(s)
                                \/ \E obs \in SUBSET ScopePrints(s) : Confirm(s, obs)
       PROVE  UNCHANGED files /\ pc' \notin {"report", "cost"} /\ todo' = todo
    BY <1>17 DEF Claim, DeadLetter, Confirm, memory
<1>18. CASE StartRecover \/ RecoverDone \/ ReconcileDone \/ CreateConflict \/ Resolve
    <2>1. UNCHANGED files /\ pc' \notin {"report", "cost"} /\ (todo' = todo \/ todo' = {})
        BY <1>18 DEF StartRecover, RecoverDone, ReconcileDone, CreateConflict, Resolve, Exit, memory
    <2> QED BY <1>12, <2>1
<1>19. CASE ReportUnreadable
    <2>1. CASE Exit
        BY <1>12, <1>19, <2>1 DEF ReportUnreadable, Exit
    <2>2. CASE pc' = "fail" /\ UNCHANGED memory
        BY <1>12, <1>19, <2>2 DEF ReportUnreadable, memory
    <2> QED BY <1>19, <2>1, <2>2 DEF ReportUnreadable
<1> QED
    BY <1>4, <1>5, <1>6, <1>7, <1>8, <1>9, <1>10, <1>11, <1>12, <1>13, <1>14, <1>15,
       <1>16, <1>17, <1>18, <1>19
    DEF Next, Progress, Invocation, Run

\* Neither file speaks of a run before its closing transaction, no run has two
\* sections or two readable rows, and only the last cost line can be damaged:
\* for all flags and whatever is torn.
THEOREM OutputsAreSound == Spec => []OutputsSound
<1>1. Spec => [](TypeInv /\ OutputsInv)
    BY TypeInit, TypeNext, OutputsInit, OutputsNext, PTL DEF Spec
<1>2. OutputsInv => OutputsSound
    BY DEF OutputsInv, FilesSound, OneSection, LinesSound, OutputsSound, OutputsWellFormed
<1> QED BY <1>1, <1>2, PTL

----------------------------------------------------------------------------
\* The inductive invariant.

\* Runs are started in order, and a run that was not started has no tasks.
RunsInOrder ==
    \A r, q \in Runs : q <= r /\ runs[r].status # "NONE" => runs[q].status # "NONE"

NotStarted ==
    \A r \in Runs : runs[r].status = "NONE" => \A s \in Scopes : tasks[r][s] = "NONE"

\* The run in hand was started, and while it executes it is the latest one.
InHand ==
    /\ cur # NoRun => runs[cur].status # "NONE"
    /\ \A r \in todo : runs[r].status # "NONE"
    /\ pc \in Executing => \A r \in Runs : cur < r => runs[r].status = "NONE"

\* Until it resolves, the process's memory of the scan agrees with the ledger.
ScanFacts ==
    /\ pc = "enumerate" => \A s \in Scopes : tasks[cur][s] = "NONE"
    /\ pc \in {"work", "claimed"} =>
         /\ \A s \in done : tasks[cur][s] = "DONE"
         /\ \A f \in findings : (f.last = cur => f.fp \in observed) /\ f.resolved # cur

ControlInv == RunsInOrder /\ NotStarted /\ InHand /\ ScanFacts

RowOrder == \A f \in findings : f.first <= f.last

RowInv == NoFalseResolve /\ SightingsAreDone /\ DisjointLifetimes /\ RowOrder

LedgerInv == TypeInv /\ ControlInv /\ RowInv

----------------------------------------------------------------------------
\* Rows survive every step that leaves the table alone and undoes no DONE.
LEMMA RowsUntouched ==
    ASSUME RowInv, TypeInv, UNCHANGED findings,
           \A r \in Runs, s \in Scopes : tasks[r][s] = "DONE" => tasks'[r][s] = "DONE"
    PROVE  RowInv'
<1>1. \A f \in findings : /\ f.first \in Runs /\ f.last \in Runs /\ ScopeOf[f.fp] \in Scopes
                          /\ ~IsOpen(f) => f.resolved \in Runs
    BY SentinelAssumption DEF TypeInv, TypeOK, Rows, IsOpen
<1>2. NoFalseResolve' /\ SightingsAreDone'
    BY <1>1 DEF RowInv, NoFalseResolve, SightingsAreDone
<1>3. DisjointLifetimes' /\ RowOrder'
    BY DEF RowInv, DisjointLifetimes, RowOrder
<1> QED BY <1>2, <1>3 DEF RowInv

\* A sweep undoes no DONE and creates no task.
LEMMA SweptKeeps ==
    ASSUME NEW row, NEW s \in Scopes
    PROVE  /\ row[s] = "DONE" => Swept(row)[s] = "DONE"
           /\ row[s] = "NONE" => Swept(row)[s] = "NONE"
           /\ Swept(row)[s] = "DONE" => row[s] = "DONE"
BY DEF Swept

\* The record close_run writes carries the status it was given.
LEMMA ClosedStatus ==
    ASSUME TypeInv, NEW r \in Runs, NEW st, NEW row
    PROVE  Closed(r, st, row).status = st
BY DEF Closed, TypeInv, TypeOK, RunRecords

\* A scope an executing process finds DONE belongs to a run no later than its own.
LEMMA DoneNotLater ==
    ASSUME LedgerInv, pc \in Executing, NEW r \in Runs, NEW s \in Scopes, tasks[r][s] = "DONE"
    PROVE  r <= cur
BY DEF LedgerInv, ControlInv, NotStarted, InHand, TypeInv, TypeOK, HoldsRun, Executing, Runs, NoRun

\* The checker's transaction keeps the row invariant.
LEMMA ConfirmRows ==
    ASSUME LedgerInv, NEW s \in Scopes, NEW obs \in SUBSET ScopePrints(s), Confirm(s, obs)
    PROVE  RowInv'
<1> DEFINE Adv(f) == IF IsOpen(f) /\ f.fp \in obs THEN [f EXCEPT !.last = cur] ELSE f
<1>1. /\ cur \in Runs /\ pc \in Executing /\ pc \in {"work", "claimed"} /\ obs \subseteq Prints
      /\ \A p \in obs : ScopeOf[p] = s
    BY DEF Confirm, LedgerInv, TypeInv, HoldsRun, Executing, ScopePrints
<1>2. \A f \in findings :
        /\ f \in Rows /\ f.first \in Runs /\ f.last \in Runs /\ ScopeOf[f.fp] \in Scopes
        /\ ~IsOpen(f) => f.resolved \in Runs
        /\ f.first <= f.last /\ f.last <= cur
        /\ ~IsOpen(f) => f.resolved < cur
    <2> TAKE f \in findings
    <2>1. /\ f \in Rows /\ f.first \in Runs /\ f.last \in Runs /\ ScopeOf[f.fp] \in Scopes
          /\ ~IsOpen(f) => f.resolved \in Runs
        BY SentinelAssumption DEF LedgerInv, TypeInv, TypeOK, Rows, IsOpen
    <2>2. f.first <= f.last /\ f.last <= cur
        BY <1>1, <2>1, DoneNotLater DEF LedgerInv, RowInv, RowOrder, SightingsAreDone
    <2>3. ASSUME ~IsOpen(f) PROVE f.resolved < cur
        <3>1. f.resolved <= cur
            BY <1>1, <2>1, <2>3, DoneNotLater DEF LedgerInv, RowInv, NoFalseResolve
        <3>2. f.resolved # cur
            BY <1>1 DEF LedgerInv, ControlInv, ScanFacts
        <3> QED BY <1>1, <2>1, <2>3, <3>1, <3>2 DEF Runs
    <2> QED BY <2>1, <2>2, <2>3
<1>3. \A r \in Runs, t \in Scopes : tasks[r][t] = "DONE" => tasks'[r][t] = "DONE"
    BY <1>1 DEF Confirm, LedgerInv, TypeInv, TypeOK
<1>4. tasks'[cur][s] = "DONE"
    BY <1>1 DEF Confirm, LedgerInv, TypeInv, TypeOK
<1>5. \A g \in findings' : \/ \E f \in findings : g = Adv(f)
                           \/ \E p \in obs \ OpenPrints(findings) : g = NewRow(p, cur)
    BY DEF Confirm, ApplyObserved
<1>6. \A f \in findings :
        /\ Adv(f).fp = f.fp /\ Adv(f).first = f.first /\ Adv(f).resolved = f.resolved
        /\ IsOpen(Adv(f)) <=> IsOpen(f)
        /\ Adv(f).last = f.last \/ (Adv(f).last = cur /\ IsOpen(f) /\ ScopeOf[f.fp] = s)
    BY <1>1, <1>2 DEF Rows, IsOpen
<1>7. \A p \in Prints : LET n == NewRow(p, cur) IN
        n.fp = p /\ n.first = cur /\ n.last = cur /\ IsOpen(n)
    BY DEF NewRow, IsOpen
<1>8. \A p \in obs \ OpenPrints(findings) : \A f \in findings :
        f.fp = p => ~IsOpen(f) /\ f.resolved < cur
    BY <1>2 DEF OpenPrints
<1> HIDE DEF Adv
<1>9. NoFalseResolve'
    <2> SUFFICES ASSUME NEW g \in findings', ~IsOpen(g)
                 PROVE  tasks'[g.resolved][ScopeOf[g.fp]] = "DONE" /\ g.last < g.resolved
        BY DEF NoFalseResolve
    <2>1. PICK f \in findings : g = Adv(f)
        BY <1>1, <1>5, <1>7
    <2>2. ~IsOpen(f) /\ g.fp = f.fp /\ g.resolved = f.resolved /\ g.last = f.last
        BY <1>6, <2>1
    <2>3. tasks[f.resolved][ScopeOf[f.fp]] = "DONE" /\ f.last < f.resolved
        BY <2>2 DEF LedgerInv, RowInv, NoFalseResolve
    <2> QED BY <1>2, <1>3, <2>2, <2>3
<1>10. SightingsAreDone' /\ RowOrder'
    <2> SUFFICES ASSUME NEW g \in findings'
                 PROVE  /\ tasks'[g.first][ScopeOf[g.fp]] = "DONE"
                        /\ tasks'[g.last][ScopeOf[g.fp]] = "DONE"
                        /\ g.first <= g.last
        BY DEF SightingsAreDone, RowOrder
    <2>1. CASE \E f \in findings : g = Adv(f)
        <3>1. PICK f \in findings : g = Adv(f)
            BY <2>1
        <3>2. tasks'[f.first][ScopeOf[f.fp]] = "DONE" /\ tasks'[f.last][ScopeOf[f.fp]] = "DONE"
            BY <1>2, <1>3 DEF LedgerInv, RowInv, SightingsAreDone
        <3>3. f.first <= cur
            BY <1>1, <1>2 DEF Runs
        <3> QED BY <1>2, <1>4, <1>6, <3>1, <3>2, <3>3
    <2>2. CASE \E p \in obs \ OpenPrints(findings) : g = NewRow(p, cur)
        BY <1>1, <1>4, <1>7, <2>2 DEF Runs
    <2> QED BY <1>5, <2>1, <2>2
<1>11. DisjointLifetimes'
    <2> SUFFICES ASSUME NEW g \in findings', NEW h \in findings', g # h, g.fp = h.fp
                 PROVE  \/ ~IsOpen(g) /\ g.resolved < h.first
                        \/ ~IsOpen(h) /\ h.resolved < g.first
        BY DEF DisjointLifetimes
    <2>1. ASSUME NEW f \in findings, g = Adv(f), NEW e \in findings, h = Adv(e)
          PROVE  \/ ~IsOpen(g) /\ g.resolved < h.first
                 \/ ~IsOpen(h) /\ h.resolved < g.first
        <3>1. f # e /\ f.fp = e.fp
            BY <1>6, <2>1
        <3>2. \/ ~IsOpen(f) /\ f.resolved < e.first
              \/ ~IsOpen(e) /\ e.resolved < f.first
            BY <3>1 DEF LedgerInv, RowInv, DisjointLifetimes
        <3> QED BY <1>6, <2>1, <3>2
    <2>2. ASSUME NEW p \in obs \ OpenPrints(findings), g = NewRow(p, cur),
                 NEW e \in findings, h = Adv(e)
          PROVE  ~IsOpen(h) /\ h.resolved < g.first
        <3>1. e.fp = p
            BY <1>1, <1>6, <1>7, <2>2
        <3> QED BY <1>1, <1>6, <1>7, <1>8, <2>2, <3>1
    <2>3. ASSUME NEW p \in obs \ OpenPrints(findings), h = NewRow(p, cur),
                 NEW e \in findings, g = Adv(e)
          PROVE  ~IsOpen(g) /\ g.resolved < h.first
        <3>1. e.fp = p
            BY <1>1, <1>6, <1>7, <2>3
        <3> QED BY <1>1, <1>6, <1>7, <1>8, <2>3, <3>1
    <2>4. ASSUME NEW p \in obs, g = NewRow(p, cur), NEW q \in obs, h = NewRow(q, cur)
          PROVE  FALSE
        BY <1>1, <1>7, <2>4
    <2> QED BY <1>5, <2>1, <2>2, <2>3, <2>4
<1> QED BY <1>9, <1>10, <1>11 DEF RowInv

\* The resolving transaction keeps the row invariant.
LEMMA ResolveRows ==
    ASSUME LedgerInv, Resolve
    PROVE  RowInv'
<1> DEFINE Hit(f) == IsOpen(f) /\ ScopeOf[f.fp] \in done /\ f.fp \notin observed
           Res(f) == IF Hit(f) THEN [f EXCEPT !.resolved = cur] ELSE f
<1>1. cur \in Runs /\ cur # NoRun /\ pc \in Executing /\ pc \in {"work", "claimed"}
    BY DEF Resolve, LedgerInv, TypeInv, HoldsRun, Executing, NoRun, Runs
<1>2. UNCHANGED tasks
    BY DEF Resolve
<1>3. \A f \in findings :
        /\ f \in Rows /\ f.first \in Runs /\ f.last \in Runs /\ f.fp \in Prints
        /\ Hit(f) => f.last < cur /\ tasks[cur][ScopeOf[f.fp]] = "DONE"
    <2> TAKE f \in findings
    <2>1. f \in Rows /\ f.first \in Runs /\ f.last \in Runs /\ f.fp \in Prints /\ ScopeOf[f.fp] \in Scopes
        BY SentinelAssumption DEF LedgerInv, TypeInv, TypeOK, Rows
    <2>2. f.last <= cur
        BY <1>1, <2>1, DoneNotLater DEF LedgerInv, RowInv, SightingsAreDone
    <2>3. Hit(f) => f.last # cur /\ tasks[cur][ScopeOf[f.fp]] = "DONE"
        BY <1>1 DEF LedgerInv, ControlInv, ScanFacts
    <2> QED BY <1>1, <2>1, <2>2, <2>3 DEF Runs
<1>4. \A g \in findings' : \E f \in findings : g = Res(f)
    BY DEF Resolve, ResolveAbsent
<1>5. \A f \in findings :
        /\ Res(f).fp = f.fp /\ Res(f).first = f.first /\ Res(f).last = f.last
        /\ Hit(f) => Res(f).resolved = cur
        /\ ~Hit(f) => Res(f) = f
    BY <1>3 DEF Rows
<1>6. \A f \in findings : Hit(f) => IsOpen(f)
    OBVIOUS
<1> HIDE DEF Res, Hit
<1>7. NoFalseResolve'
    <2> SUFFICES ASSUME NEW g \in findings', ~IsOpen(g)
                 PROVE  tasks[g.resolved][ScopeOf[g.fp]] = "DONE" /\ g.last < g.resolved
        BY <1>2 DEF NoFalseResolve
    <2>1. PICK f \in findings : g = Res(f)
        BY <1>4
    <2>2. CASE Hit(f)
        BY <1>3, <1>5, <2>1, <2>2
    <2>3. CASE ~Hit(f)
        BY <1>5, <2>1, <2>3 DEF LedgerInv, RowInv, NoFalseResolve
    <2> QED BY <2>2, <2>3
<1>8. SightingsAreDone' /\ RowOrder'
    BY <1>2, <1>4, <1>5 DEF LedgerInv, RowInv, SightingsAreDone, RowOrder
<1>9. DisjointLifetimes'
    <2> SUFFICES ASSUME NEW g \in findings', NEW h \in findings', g # h, g.fp = h.fp
                 PROVE  \/ ~IsOpen(g) /\ g.resolved < h.first
                        \/ ~IsOpen(h) /\ h.resolved < g.first
        BY DEF DisjointLifetimes
    <2>1. PICK f \in findings, e \in findings : g = Res(f) /\ h = Res(e)
        BY <1>4
    <2>2. f # e /\ f.fp = e.fp
        BY <1>5, <2>1
    <2>3. \/ ~IsOpen(f) /\ f.resolved < e.first
          \/ ~IsOpen(e) /\ e.resolved < f.first
        BY <2>2 DEF LedgerInv, RowInv, DisjointLifetimes
    <2>4. /\ ~IsOpen(f) => g = f
          /\ ~IsOpen(e) => h = e
        BY <1>5, <1>6, <2>1
    <2> QED BY <1>5, <2>1, <2>3, <2>4
<1> QED BY <1>7, <1>8, <1>9 DEF RowInv

----------------------------------------------------------------------------
LEMMA LedgerInit == Init => LedgerInv
<1> SUFFICES ASSUME Init PROVE LedgerInv
    OBVIOUS
<1>1. TypeInv
    BY TypeInit
<1>2. ControlInv
    BY DEF Init, ControlInv, RunsInOrder, NotStarted, InHand, ScanFacts, NoRecord, Executing, NoRun
<1>3. RowInv
    BY DEF Init, RowInv, NoFalseResolve, SightingsAreDone, DisjointLifetimes, RowOrder
<1> QED BY <1>1, <1>2, <1>3 DEF LedgerInv

LEMMA LedgerNext == LedgerInv /\ [Next]_vars => LedgerInv'
<1> SUFFICES ASSUME LedgerInv, [Next]_vars PROVE ControlInv' /\ RowInv'
    BY TypeNext DEF LedgerInv
<1>0. TypeInv /\ RowInv
    BY DEF LedgerInv
<1> USE DEF LedgerInv, TypeInv, TypeOK, HoldsRun, Executing, Pcs, NoRun,
            ControlInv, RunsInOrder, NotStarted, InHand, ScanFacts
<1>1. ASSUME NEW rec \in RecoverFlags, NEW st \in StrictFlags, StartRun(rec, st)
      PROVE  ControlInv' /\ RowInv'
    BY <1>0, <1>1, RowsUntouched DEF StartRun, ledger
<1>2. CASE StartRecover
    BY <1>0, <1>2, RowsUntouched DEF StartRecover, ledger, memory
<1>3. ASSUME NEW r \in Runs, RecoverOne(r)
      PROVE  ControlInv' /\ RowInv'
    <2>1. \A q \in Runs, s \in Scopes : /\ tasks[q][s] = "DONE" => tasks'[q][s] = "DONE"
                                        /\ tasks[q][s] = "NONE" => tasks'[q][s] = "NONE"
        BY <1>3, SweptKeeps DEF RecoverOne
    <2>2. \A q \in Runs : runs'[q].status = "NONE" <=> runs[q].status = "NONE"
        BY <1>3, ClosedStatus DEF RecoverOne
    <2>3. RowInv'
        BY <1>0, <1>3, <2>1, RowsUntouched DEF RecoverOne
    <2>4. ControlInv'
        BY <1>3, <2>1, <2>2 DEF RecoverOne, memory
    <2> QED BY <2>3, <2>4
<1>4. CASE RecoverDone
    BY <1>0, <1>4, RowsUntouched DEF RecoverDone, Exit, ledger, memory
<1>5. CASE ListTerminal
    BY <1>0, <1>5, RowsUntouched DEF ListTerminal, ledger, IsTerminal
<1>6. ASSUME NEW r \in Runs, Reconcile(r)
      PROVE  ControlInv' /\ RowInv'
    BY <1>0, <1>6, RowsUntouched DEF Reconcile, ledger
<1>7. CASE ReconcileDone
    BY <1>0, <1>7, RowsUntouched DEF ReconcileDone, ledger, memory
<1>8. ASSUME NEW r \in Runs, CreateRun(r)
      PROVE  ControlInv' /\ RowInv'
    <2>1. RowInv'
        BY <1>0, <1>8, RowsUntouched DEF CreateRun
    <2>2. \A q \in Runs : /\ q # r => runs'[q] = runs[q]
                          /\ runs'[r].status = "RUNNING"
        BY <1>8 DEF CreateRun, RunRecords
    <2>3. \A q \in Runs : r <= q => runs[q].status = "NONE"
        BY <1>8 DEF CreateRun
    <2>4. ControlInv'
        BY <1>8, <2>2, <2>3 DEF CreateRun, Runs
    <2> QED BY <2>1, <2>4
<1>9. CASE CreateConflict
    BY <1>0, <1>9, RowsUntouched DEF CreateConflict, Exit, ledger
<1>10. ASSUME NEW units \in SUBSET Scopes, Enumerate(units)
       PROVE  ControlInv' /\ RowInv'
    <2>1. cur \in Runs /\ \A s \in Scopes : tasks[cur][s] = "NONE"
        BY <1>10 DEF Enumerate
    <2>2. \A q \in Runs, s \in Scopes : /\ tasks[q][s] = "DONE" => tasks'[q][s] = "DONE"
                                        /\ q # cur => tasks'[q][s] = tasks[q][s]
        BY <1>10, <2>1 DEF Enumerate
    <2>3. \A q \in Runs : runs'[q].status = runs[q].status
        BY <1>10 DEF Enumerate, RunRecords
    <2>4. RowInv'
        BY <1>0, <1>10, <2>2, RowsUntouched DEF Enumerate
    <2>5. \A f \in findings : f.last # cur /\ f.resolved # cur
        <3> TAKE f \in findings
        <3>1. ScopeOf[f.fp] \in Scopes
            BY SentinelAssumption DEF Rows
        <3>2. f.last # cur
            BY <1>0, <2>1, <3>1 DEF RowInv, SightingsAreDone
        <3>3. f.resolved # cur
            BY <1>0, <2>1, <3>1 DEF RowInv, NoFalseResolve, IsOpen, Runs
        <3> QED BY <3>2, <3>3
    <2>6. ControlInv'
        <3>1. /\ cur' = cur /\ todo' = todo /\ pc' = "work" /\ pc = "enumerate"
              /\ done' = {} /\ findings' = findings
            BY <1>10 DEF Enumerate
        <3>2. runs[cur].status # "NONE"
            BY <2>1 DEF Runs
        <3>3. RunsInOrder' /\ InHand'
            BY <2>3, <3>1
        <3>4. \A q \in Runs : runs'[q].status = "NONE" => q # cur /\ runs[q].status = "NONE"
            BY <2>3, <3>2
        <3>5. \A q \in Runs : runs'[q].status = "NONE" =>
                  \A s \in Scopes : tasks'[q][s] = "NONE"
            BY <2>2, <3>4
        <3>6. NotStarted'
            BY <3>5 DEF NotStarted
        <3>7. ScanFacts'
            BY <2>5, <3>1
        <3> QED BY <3>3, <3>6, <3>7
    <2> QED BY <2>4, <2>6
<1>11. ASSUME NEW s \in Scopes, Claim(s)
       PROVE  ControlInv' /\ RowInv'
    <2>1. \A q \in Runs, t \in Scopes : /\ tasks[q][t] = "DONE" => tasks'[q][t] = "DONE"
                                        /\ tasks[q][t] = "NONE" => tasks'[q][t] = "NONE"
        BY <1>11 DEF Claim
    <2> QED BY <1>0, <1>11, <2>1, RowsUntouched DEF Claim, memory
<1>12. ASSUME NEW s \in Scopes, NEW obs \in SUBSET ScopePrints(s), Confirm(s, obs)
       PROVE  ControlInv' /\ RowInv'
    <2>1. RowInv'
        BY <1>12, ConfirmRows
    <2>2. cur \in Runs /\ pc = "claimed" /\ pc' = "work" /\ cur' = cur
        BY <1>12 DEF Confirm
    <2>3. \A q \in Runs, t \in Scopes : /\ tasks[q][t] = "DONE" => tasks'[q][t] = "DONE"
                                        /\ tasks[q][t] = "NONE" => tasks'[q][t] = "NONE"
        BY <1>12 DEF Confirm
    <2>4. tasks'[cur][s] = "DONE"
        BY <1>12, <2>2 DEF Confirm
    <2>5. \A q \in Runs : runs'[q].status = runs[q].status
        BY <1>12 DEF Confirm, RunRecords
    <2>6. \A g \in findings' : (g.last = cur => g.fp \in observed') /\ g.resolved # cur
        <3> TAKE g \in findings'
        <3>1. CASE \E f \in findings : g = IF IsOpen(f) /\ f.fp \in obs THEN [f EXCEPT !.last = cur] ELSE f
            <4>1. PICK f \in findings : g = IF IsOpen(f) /\ f.fp \in obs THEN [f EXCEPT !.last = cur] ELSE f
                BY <3>1
            <4>2. f \in Rows /\ (f.last = cur => f.fp \in observed) /\ f.resolved # cur
                BY <2>2
            <4> QED BY <1>12, <4>1, <4>2 DEF Confirm, Rows
        <3>2. CASE \E p \in obs : g = NewRow(p, cur)
            BY <1>12, <2>2, <3>2 DEF Confirm, NewRow, Runs
        <3> QED BY <1>12, <3>1, <3>2 DEF Confirm, ApplyObserved
    <2>7. ControlInv'
        BY <1>12, <2>2, <2>3, <2>4, <2>5, <2>6 DEF Confirm
    <2> QED BY <2>1, <2>7
<1>13. ASSUME NEW s \in Scopes, DeadLetter(s)
       PROVE  ControlInv' /\ RowInv'
    <2>1. \A q \in Runs, t \in Scopes : /\ tasks[q][t] = "DONE" => tasks'[q][t] = "DONE"
                                        /\ tasks[q][t] = "NONE" => tasks'[q][t] = "NONE"
        BY <1>13 DEF DeadLetter
    <2>2. \A q \in Runs : runs'[q].status = runs[q].status
        BY <1>13 DEF DeadLetter, RunRecords
    <2> QED BY <1>0, <1>13, <2>1, <2>2, RowsUntouched DEF DeadLetter
<1>14. CASE Resolve
    <2>1. RowInv'
        BY <1>14, ResolveRows
    <2> QED BY <1>14, <2>1 DEF Resolve, memory
<1>15. CASE CloseRun
    <2>1. \A q \in Runs : runs'[q].status = "NONE" <=> runs[q].status = "NONE"
        <3> DEFINE st == IF strict /\ dead THEN "FAILED" ELSE "COMPLETED"
        <3>1. cur \in Runs /\ runs[cur].status # "NONE"
            BY <1>15 DEF CloseRun, Runs
        <3>2. Closed(cur, st, tasks[cur]).status = st
            BY <1>0, <3>1, ClosedStatus
        <3>3. runs' = [runs EXCEPT ![cur] = Closed(cur, st, tasks[cur])]
            BY <1>15 DEF CloseRun
        <3> QED BY <3>1, <3>2, <3>3
    <2> QED BY <1>0, <1>15, <2>1, RowsUntouched DEF CloseRun, memory
<1>16. CASE FailRun
    <2>1. \A q \in Runs, s \in Scopes : /\ tasks[q][s] = "DONE" => tasks'[q][s] = "DONE"
                                        /\ tasks[q][s] = "NONE" => tasks'[q][s] = "NONE"
        BY <1>16, SweptKeeps DEF FailRun
    <2>2. \A q \in Runs : runs'[q].status = "NONE" <=> runs[q].status = "NONE"
        <3>1. cur \in Runs /\ runs[cur].status # "NONE"
            BY <1>16 DEF FailRun, Runs
        <3>2. Closed(cur, "FAILED", tasks'[cur]).status = "FAILED"
            BY <1>0, <3>1, ClosedStatus
        <3> QED BY <1>16, <3>1, <3>2 DEF FailRun
    <2> QED BY <1>0, <1>16, <2>1, <2>2, RowsUntouched DEF FailRun, memory
<1>17. CASE WriteReport
    BY <1>0, <1>17, RowsUntouched DEF WriteReport, ledger, memory
<1>18. CASE WriteCost
    BY <1>0, <1>18, RowsUntouched DEF WriteCost, Exit, ledger
<1>19. CASE Raise
    BY <1>0, <1>19, RowsUntouched DEF Raise, ledger, memory
<1>20. CASE Crash
    BY <1>0, <1>20, RowsUntouched DEF Crash, Exit, ledger
<1>21. CASE UNCHANGED vars
    BY <1>0, <1>21, RowsUntouched DEF vars, ledger, memory
<1>22. CASE ReportUnreadable
    <2>1. CASE Exit
        BY <1>0, <1>22, <2>1, RowsUntouched DEF ReportUnreadable, Exit, ledger
    <2>2. CASE pc = "report" /\ pc' = "fail" /\ UNCHANGED memory
        BY <1>0, <1>22, <2>2, RowsUntouched DEF ReportUnreadable, memory, ledger
    <2> QED BY <1>22, <2>1, <2>2 DEF ReportUnreadable
<1> QED
    BY <1>1, <1>2, <1>3, <1>4, <1>5, <1>6, <1>7, <1>8, <1>9, <1>10, <1>11, <1>12,
       <1>13, <1>14, <1>15, <1>16, <1>17, <1>18, <1>19, <1>20, <1>21, <1>22
    DEF Next, Progress, Invocation, Run

\* The strengthening is inductive.
THEOREM LedgerInvariant == Spec => []LedgerInv
BY LedgerInit, LedgerNext, PTL DEF Spec

\* No finding is ever resolved by a run that did not itself finish the check
\* of its scope after the last sighting (resolve_absent, recovery, crashes).
THEOREM NeverFalselyResolved == Spec => []NoFalseResolve
<1>1. LedgerInv => NoFalseResolve
    BY DEF LedgerInv, RowInv
<1> QED BY LedgerInvariant, <1>1, PTL

\* Every sighting a row records is backed by a task that reached DONE.
THEOREM SightingsBacked == Spec => []SightingsAreDone
<1>1. LedgerInv => SightingsAreDone
    BY DEF LedgerInv, RowInv
<1> QED BY LedgerInvariant, <1>1, PTL

\* The rows of one fingerprint never overlap: recurrence is a new row, and two
\* OPEN rows of one fingerprint cannot exist.
THEOREM LifetimesDisjoint == Spec => []DisjointLifetimes
<1>1. LedgerInv => DisjointLifetimes
    BY DEF LedgerInv, RowInv
<1> QED BY LedgerInvariant, <1>1, PTL

\* The findings table is sound through any sequence of runs, dead letters,
\* crashes and recoveries: the three results above as one.
THEOREM FindingsAreSound == Spec => []FindingsSound
BY NeverFalselyResolved, SightingsBacked, LifetimesDisjoint, PTL DEF FindingsSound

----------------------------------------------------------------------------
\* Refinement: the ledger implements FindingScan.

\* After apply_observed exactly the observed fingerprints have become open too.
LEMMA ApplyOpens ==
    ASSUME NEW rows \in SUBSET Rows, NEW r \in Runs, NEW obs \in SUBSET Prints
    PROVE  OpenPrints(ApplyObserved(rows, r, obs)) = OpenPrints(rows) \cup obs
<1> DEFINE Adv(f) == IF IsOpen(f) /\ f.fp \in obs THEN [f EXCEPT !.last = r] ELSE f
           after == ApplyObserved(rows, r, obs)
<1>1. \A f \in rows : Adv(f).fp = f.fp /\ (IsOpen(Adv(f)) <=> IsOpen(f)) /\ Adv(f) \in after
    BY DEF Rows, IsOpen, ApplyObserved
<1>2. \A p \in obs \ OpenPrints(rows) :
        NewRow(p, r).fp = p /\ IsOpen(NewRow(p, r)) /\ NewRow(p, r) \in after
    BY DEF NewRow, IsOpen, ApplyObserved
<1>3. \A g \in after : \/ \E f \in rows : g = Adv(f)
                       \/ \E p \in obs \ OpenPrints(rows) : g = NewRow(p, r)
    BY DEF ApplyObserved
<1> HIDE DEF Adv, after
<1>4. OpenPrints(after) \subseteq OpenPrints(rows) \cup obs
    BY <1>1, <1>2, <1>3 DEF OpenPrints
<1>5. OpenPrints(rows) \subseteq OpenPrints(after)
    BY <1>1 DEF OpenPrints
<1>6. obs \subseteq OpenPrints(rows) \cup OpenPrints(after)
    BY <1>2 DEF OpenPrints
<1> QED BY <1>4, <1>5, <1>6 DEF after

\* resolve_absent closes the absent fingerprints of scanned scopes, no others.
LEMMA ResolveCloses ==
    ASSUME NEW rows \in SUBSET Rows, NEW r \in Runs, NEW scanned, NEW seen
    PROVE  OpenPrints(ResolveAbsent(rows, r, scanned, seen))
             = {p \in OpenPrints(rows) : ScopeOf[p] \in scanned => p \in seen}
<1> DEFINE Hit(f) == IsOpen(f) /\ ScopeOf[f.fp] \in scanned /\ f.fp \notin seen
           Res(f) == IF Hit(f) THEN [f EXCEPT !.resolved = r] ELSE f
           after == ResolveAbsent(rows, r, scanned, seen)
<1>1. \A f \in rows : /\ Res(f) \in after /\ Res(f).fp = f.fp
                      /\ IsOpen(Res(f)) <=> IsOpen(f) /\ ~Hit(f)
    BY DEF Rows, IsOpen, ResolveAbsent, NoRun, Runs
<1>2. \A g \in after : \E f \in rows : g = Res(f)
    BY DEF ResolveAbsent
<1>3. \A f \in rows : Hit(f) <=> IsOpen(f) /\ ScopeOf[f.fp] \in scanned /\ f.fp \notin seen
    OBVIOUS
<1> HIDE DEF Hit, Res, after
<1>4. ASSUME NEW p \in OpenPrints(after)
      PROVE  p \in OpenPrints(rows) /\ (ScopeOf[p] \in scanned => p \in seen)
    BY <1>1, <1>2, <1>3, <1>4 DEF OpenPrints
<1>5. ASSUME NEW p \in OpenPrints(rows), ScopeOf[p] \in scanned => p \in seen
      PROVE  p \in OpenPrints(after)
    <2>1. PICK f \in rows : IsOpen(f) /\ f.fp = p
        BY <1>5 DEF OpenPrints
    <2>2. IsOpen(Res(f)) /\ Res(f) \in after /\ Res(f).fp = p
        BY <1>1, <1>3, <1>5, <2>1
    <2> QED BY <2>2 DEF OpenPrints
<1> QED BY <1>4, <1>5 DEF after

LEMMA ScanStart == Init => Scan!ScanInit
BY DEF Init, Scan!ScanInit, OpenPrints

LEMMA ScanStep == LedgerInv /\ [Next]_vars => [Scan!ScanNext]_(Scan!scanVars)
<1> SUFFICES ASSUME LedgerInv, [Next]_vars
             PROVE  Scan!ScanNext \/ UNCHANGED Scan!scanVars
    OBVIOUS
<1> USE DEF Scan!scanVars
<1>a. findings \subseteq Rows
    BY DEF LedgerInv, TypeInv, TypeOK
<1>b. UNCHANGED findings => UNCHANGED OpenPrints(findings)
    OBVIOUS
<1>c. UNCHANGED findings /\ observed' = {} /\ done' = {} => Scan!Forget
    BY <1>b DEF Scan!Forget
<1>d. Scan!Forget => Scan!ScanNext
    BY DEF Scan!ScanNext
<1>1. ASSUME NEW s \in Scopes, NEW obs \in SUBSET ScopePrints(s), Confirm(s, obs)
      PROVE  Scan!ScanNext
    <2>1. cur \in Runs /\ obs \in SUBSET Prints /\ s \notin done
        BY <1>1 DEF Confirm, LedgerInv, TypeInv, HoldsRun, Executing, ControlInv, ScanFacts, ScopePrints
    <2>2. OpenPrints(findings') = OpenPrints(findings) \cup obs
        BY <1>1, <1>a, <2>1, ApplyOpens DEF Confirm
    <2>3. Scan!ConfirmScope(s, obs)
        BY <1>1, <2>1, <2>2 DEF Confirm, Scan!ConfirmScope
    <2>4. obs \in SUBSET Scan!PrintsIn(s)
        BY DEF ScopePrints, Scan!PrintsIn
    <2> QED BY <2>3, <2>4 DEF Scan!ScanNext
<1>2. CASE Resolve
    <2>1. cur \in Runs
        BY <1>2 DEF Resolve, LedgerInv, TypeInv, HoldsRun, Executing
    <2>2. OpenPrints(findings') = {p \in OpenPrints(findings) : ScopeOf[p] \in done => p \in observed}
        BY <1>2, <1>a, <2>1, ResolveCloses DEF Resolve
    <2>3. Scan!Settle
        BY <1>2, <2>2 DEF Resolve, memory, Scan!Settle
    <2> QED BY <2>3 DEF Scan!ScanNext
<1>3. ASSUME NEW rec \in RecoverFlags, NEW st \in StrictFlags, StartRun(rec, st)
      PROVE  UNCHANGED Scan!scanVars
    BY <1>3, <1>b DEF StartRun, ledger
<1>4. ASSUME NEW r \in Runs, RecoverOne(r) \/ Reconcile(r) \/ CreateRun(r)
      PROVE  UNCHANGED Scan!scanVars
    BY <1>4, <1>b DEF RecoverOne, Reconcile, CreateRun, ledger, memory
<1>5. CASE RecoverDone \/ CreateConflict \/ WriteCost \/ Crash
    BY <1>5, <1>b, <1>c, <1>d DEF RecoverDone, CreateConflict, WriteCost, Crash, Exit, ledger, memory
<1>6. CASE StartRecover \/ ListTerminal \/ ReconcileDone \/ CloseRun \/ FailRun \/ WriteReport \/ Raise
    BY <1>6, <1>b DEF StartRecover, ListTerminal, ReconcileDone, CloseRun, FailRun, WriteReport,
                      Raise, ledger, memory
<1>7. ASSUME NEW units \in SUBSET Scopes, Enumerate(units)
      PROVE  Scan!ScanNext
    BY <1>7, <1>c, <1>d DEF Enumerate
<1>8. ASSUME NEW s \in Scopes, Claim(s) \/ DeadLetter(s)
      PROVE  UNCHANGED Scan!scanVars
    BY <1>8, <1>b DEF Claim, DeadLetter, memory
<1>9. CASE ReportUnreadable
    <2>1. CASE Exit
        BY <1>9, <2>1, <1>c, <1>d DEF ReportUnreadable, Exit, ledger
    <2>2. CASE UNCHANGED memory
        BY <1>9, <2>2, <1>b DEF ReportUnreadable, memory, ledger
    <2> QED BY <1>9, <2>1, <2>2 DEF ReportUnreadable
<1>10. CASE UNCHANGED vars
    BY <1>10, <1>b DEF vars, ledger, memory
<1> QED
    BY <1>1, <1>2, <1>3, <1>4, <1>5, <1>6, <1>7, <1>8, <1>9, <1>10
    DEF Next, Progress, Invocation, Run

\* Seen through its OPEN rows, the ledger with its crashes, recoveries and
\* dead letters does nothing that FindingScan does not allow.
THEOREM LedgerImplementsScan == Spec => ImplementsScan
BY LedgerInvariant, ScanStart, ScanStep, PTL DEF Spec, ImplementsScan, Scan!ScanSpec

----------------------------------------------------------------------------
\* The inductive invariant.

CreatedIn(r) == {s \in Scopes : tasks[r][s] # "NONE"}
FinishedIn(r) == {s \in Scopes : tasks[r][s] \in Terminal}

\* What close_run records of the findings table.
Summarized(r) ==
    /\ runs[r].new = Cardinality(FirstSeenBy(findings, r))
    /\ runs[r].resolved = Cardinality(ResolvedBy(findings, r))

Counted(r) ==
    /\ runs[r].created = Cardinality(CreatedIn(r))
    /\ runs[r].terminal = Cardinality(FinishedIn(r))
    /\ IsTerminal(r) => Summarized(r)

\* A closed run has no task in flight.
NothingPending(r) == \A s \in Scopes : tasks[r][s] \notin {"PENDING", "IN_PROGRESS"}

\* Nothing writes the task state FAILED.
NeverFailed(r) == \A s \in Scopes : tasks[r][s] # "FAILED"

BooksInv ==
    \A r \in Runs : Counted(r) /\ NeverFailed(r) /\ (IsTerminal(r) => NothingPending(r))

\* At most one task is in flight, none when the run is about to close, and
\* dead_letter_count remembers every dead letter.
FlightInv ==
    /\ pc \in Executing => runs[cur].status = "RUNNING"
    /\ pc = "work" => \A s \in Scopes : tasks[cur][s] # "IN_PROGRESS"
    /\ pc = "claimed" => \A s, t \in Scopes :
          tasks[cur][s] = "IN_PROGRESS" /\ tasks[cur][t] = "IN_PROGRESS" => s = t
    /\ pc = "close" => NothingPending(cur)
    /\ pc \in {"work", "claimed", "close"} /\ ~dead =>
          \A s \in Scopes : tasks[cur][s] # "DEAD_LETTER"

AccountsInv == BooksInv /\ FlightInv /\ GreenMeansChecked

----------------------------------------------------------------------------
\* Counting.

\* A row is known by its fingerprint and its first run.
LEMMA RowKey ==
    ASSUME LedgerInv, NEW f \in findings, NEW g \in findings, f.fp = g.fp, f.first = g.first
    PROVE  f = g
<1>1. ASSUME NEW e \in findings, ~IsOpen(e)
      PROVE  ~(e.resolved < e.first)
    <2>1. e.first <= e.last /\ e.last < e.resolved
        BY <1>1 DEF LedgerInv, RowInv, RowOrder, NoFalseResolve
    <2>2. e.first \in Int /\ e.last \in Int /\ e.resolved \in Int
        BY <1>1 DEF LedgerInv, TypeInv, TypeOK, Rows, Runs, IsOpen, NoRun
    <2> QED BY <2>1, <2>2
<1> QED BY <1>1 DEF LedgerInv, RowInv, DisjointLifetimes

\* Rewriting rows without touching their fingerprint or first run leaves as
\* many first seen by a run as there were.
LEMMA RewriteCounts ==
    ASSUME LedgerInv, NEW r \in Runs, NEW F, DOMAIN F = findings, NEW after,
           \A f \in findings : F[f].fp = f.fp /\ F[f].first = f.first,
           FirstSeenBy(after, r) = {F[f] : f \in FirstSeenBy(findings, r)}
    PROVE  Cardinality(FirstSeenBy(after, r)) = Cardinality(FirstSeenBy(findings, r))
<1> DEFINE S == FirstSeenBy(findings, r)
           T == FirstSeenBy(after, r)
           G == [f \in S |-> F[f]]
<1>1. S \subseteq findings /\ IsFiniteSet(S)
    BY FS_Subset DEF LedgerInv, TypeInv, FirstSeenBy
<1>2. \A f, g \in S : F[f] = F[g] => f = g
    BY <1>1, RowKey DEF FirstSeenBy
<1>3. T = {F[f] : f \in S}
    OBVIOUS
<1> HIDE DEF S, T
<1>4. G \in Bijection(S, T)
    BY <1>2, <1>3 DEF Bijection, Injection, IsInjective, Surjection
<1>5. ExistsBijection(S, T)
    BY <1>4 DEF ExistsBijection
<1> QED BY <1>1, <1>5, FS_Bijection DEF S, T

\* apply_observed in a later run changes no summary of this one.
LEMMA ApplySummaries ==
    ASSUME LedgerInv, NEW r \in Runs, NEW q \in Runs, r # q, NEW obs \in SUBSET Prints
    PROVE  /\ Cardinality(FirstSeenBy(ApplyObserved(findings, q, obs), r))
                = Cardinality(FirstSeenBy(findings, r))
           /\ ResolvedBy(ApplyObserved(findings, q, obs), r) = ResolvedBy(findings, r)
<1> DEFINE F == [f \in findings |-> IF IsOpen(f) /\ f.fp \in obs THEN [f EXCEPT !.last = q] ELSE f]
           after == ApplyObserved(findings, q, obs)
<1>0. r # NoRun /\ findings \subseteq Rows
    BY DEF LedgerInv, TypeInv, TypeOK, Runs, NoRun
<1>1. \A f \in findings : /\ F[f].fp = f.fp /\ F[f].first = f.first /\ F[f].resolved = f.resolved
                          /\ F[f] # f => IsOpen(f)
    BY <1>0 DEF Rows
<1>2. after = {F[f] : f \in findings} \cup {NewRow(p, q) : p \in obs \ OpenPrints(findings)}
    BY Zenon DEF ApplyObserved
<1>3. \A p \in Prints : NewRow(p, q).first = q /\ NewRow(p, q).resolved = NoRun
    BY DEF NewRow
<1>4. DOMAIN F = findings
    OBVIOUS
<1> HIDE DEF F, after
<1>5. FirstSeenBy(after, r) = {F[f] : f \in FirstSeenBy(findings, r)}
    BY <1>1, <1>2, <1>3 DEF FirstSeenBy
<1>6. ResolvedBy(after, r) = ResolvedBy(findings, r)
    BY <1>0, <1>1, <1>2, <1>3 DEF ResolvedBy, IsOpen
<1>7. \A f \in findings : F[f].fp = f.fp /\ F[f].first = f.first
    BY <1>1
<1>8. Cardinality(FirstSeenBy(after, r)) = Cardinality(FirstSeenBy(findings, r))
    BY <1>4, <1>5, <1>7, RewriteCounts, ZenonT(60)
<1> QED BY <1>6, <1>8 DEF after

\* Nor does resolve_absent.
LEMMA ResolveSummaries ==
    ASSUME LedgerInv, NEW r \in Runs, NEW q \in Runs, r # q, NEW scanned, NEW seen
    PROVE  /\ Cardinality(FirstSeenBy(ResolveAbsent(findings, q, scanned, seen), r))
                = Cardinality(FirstSeenBy(findings, r))
           /\ ResolvedBy(ResolveAbsent(findings, q, scanned, seen), r) = ResolvedBy(findings, r)
<1> DEFINE F == [f \in findings |-> IF IsOpen(f) /\ ScopeOf[f.fp] \in scanned /\ f.fp \notin seen
                                    THEN [f EXCEPT !.resolved = q] ELSE f]
           after == ResolveAbsent(findings, q, scanned, seen)
<1>0. r # NoRun /\ findings \subseteq Rows
    BY DEF LedgerInv, TypeInv, TypeOK, Runs, NoRun
<1>1. \A f \in findings : /\ F[f].fp = f.fp /\ F[f].first = f.first
                          /\ F[f] # f => IsOpen(f) /\ F[f].resolved = q
    BY <1>0 DEF Rows
<1>2. after = {F[f] : f \in findings}
    BY Zenon DEF ResolveAbsent
<1>4. DOMAIN F = findings
    OBVIOUS
<1> HIDE DEF F, after
<1>5. FirstSeenBy(after, r) = {F[f] : f \in FirstSeenBy(findings, r)}
    BY <1>1, <1>2 DEF FirstSeenBy
<1>6. ResolvedBy(after, r) = ResolvedBy(findings, r)
    BY <1>0, <1>1, <1>2 DEF ResolvedBy, IsOpen
<1>7. Cardinality(FirstSeenBy(after, r)) = Cardinality(FirstSeenBy(findings, r))
    BY <1>1, <1>4, <1>5, RewriteCounts
<1> QED BY <1>6, <1>7 DEF after

----------------------------------------------------------------------------
\* Steps that leave a run's books alone.

LEMMA SameBooks ==
    ASSUME NEW r \in Runs, Counted(r), runs'[r] = runs[r],
           CreatedIn(r)' = CreatedIn(r), FinishedIn(r)' = FinishedIn(r),
           IsTerminal(r) => Summarized(r)'
    PROVE  Counted(r)'
BY DEF Counted, IsTerminal

\* While the findings stay, a run's books change only with its own rows.
LEMMA OtherRuns ==
    ASSUME BooksInv, NEW r \in Runs, runs'[r] = runs[r], tasks'[r] = tasks[r], UNCHANGED findings
    PROVE  Counted(r)' /\ NeverFailed(r)' /\ (IsTerminal(r)' => NothingPending(r)')
<1>1. CreatedIn(r)' = CreatedIn(r) /\ FinishedIn(r)' = FinishedIn(r)
    BY DEF CreatedIn, FinishedIn
<1>2. IsTerminal(r) => Summarized(r)'
    BY DEF BooksInv, Counted, Summarized
<1>3. Counted(r)'
    BY <1>1, <1>2, SameBooks DEF BooksInv
<1> QED BY <1>3 DEF BooksInv, NeverFailed, NothingPending, IsTerminal

\* Nothing of the ledger changes.
LEMMA BooksUntouched ==
    ASSUME BooksInv, UNCHANGED ledger
    PROVE  BooksInv'
BY OtherRuns DEF BooksInv, ledger

\* A run is closed on its swept tasks, whoever closes it.
LEMMA ClosedBooks ==
    ASSUME LedgerInv, BooksInv, NEW q \in Runs, NEW st \in {"COMPLETED", "FAILED"},
           NEW row \in [Scopes -> TaskStates],
           \A s \in Scopes : row[s] = Swept(tasks[q])[s],
           tasks' = [tasks EXCEPT ![q] = row],
           runs' = [runs EXCEPT ![q] = Closed(q, st, row)],
           UNCHANGED findings
    PROVE  BooksInv'
<1>1. \A r \in Runs : r # q => runs'[r] = runs[r] /\ tasks'[r] = tasks[r]
    BY DEF LedgerInv, TypeInv, TypeOK
<1>2. tasks'[q] = row /\ runs'[q] = Closed(q, st, row)
    BY DEF LedgerInv, TypeInv, TypeOK
<1>3. /\ Closed(q, st, row).created = runs[q].created
      /\ Closed(q, st, row).terminal = Cardinality({s \in Scopes : row[s] \in Terminal})
      /\ Closed(q, st, row).new = Cardinality(FirstSeenBy(findings, q))
      /\ Closed(q, st, row).resolved = Cardinality(ResolvedBy(findings, q))
    BY DEF Closed, LedgerInv, TypeInv, TypeOK, RunRecords
<1>4. CreatedIn(q)' = CreatedIn(q)
    BY <1>2 DEF CreatedIn, Swept
<1>5. FinishedIn(q)' = {s \in Scopes : row[s] \in Terminal}
    BY <1>2 DEF FinishedIn
<1>6. Counted(q)'
    BY <1>2, <1>3, <1>4, <1>5 DEF Counted, Summarized, BooksInv
<1>7. NeverFailed(q)' /\ NothingPending(q)'
    BY <1>2 DEF NeverFailed, NothingPending, BooksInv, Swept
<1>8. \A r \in Runs \ {q} : Counted(r)' /\ NeverFailed(r)' /\ (IsTerminal(r)' => NothingPending(r)')
    BY <1>1, OtherRuns
<1> QED BY <1>6, <1>7, <1>8 DEF BooksInv

\* One more task of the run in hand is finished, in the state next.
LEMMA FinishedOne ==
    ASSUME LedgerInv, BooksInv, pc = "claimed", runs[cur].status = "RUNNING", UNCHANGED cur,
           NEW s \in Scopes, tasks[cur][s] = "IN_PROGRESS",
           NEW next \in {"DONE", "DEAD_LETTER"},
           tasks' = [tasks EXCEPT ![cur][s] = next],
           runs' = [runs EXCEPT ![cur].terminal = @ + 1],
           \A r \in Runs : IsTerminal(r) => Summarized(r)'
    PROVE  BooksInv'
<1>1. cur \in Runs
    BY DEF LedgerInv, TypeInv, HoldsRun, Executing
<1>2. \A r \in Runs : r # cur => runs'[r] = runs[r] /\ tasks'[r] = tasks[r]
    BY DEF LedgerInv, TypeInv, TypeOK
<1>3. /\ tasks'[cur] = [tasks[cur] EXCEPT ![s] = next]
      /\ runs'[cur].created = runs[cur].created
      /\ runs'[cur].terminal = runs[cur].terminal + 1
      /\ runs'[cur].status = "RUNNING"
    BY <1>1 DEF LedgerInv, TypeInv, TypeOK, RunRecords
<1>4. \A t \in Scopes : tasks'[cur][t] = IF t = s THEN next ELSE tasks[cur][t]
    BY <1>1, <1>3 DEF LedgerInv, TypeInv, TypeOK
<1>5. CreatedIn(cur)' = CreatedIn(cur)
    BY <1>4 DEF CreatedIn
<1>6. FinishedIn(cur)' = FinishedIn(cur) \cup {s} /\ s \notin FinishedIn(cur)
    BY <1>4 DEF FinishedIn, Terminal
<1>7. IsFiniteSet(FinishedIn(cur))
    BY SentinelAssumption, FS_Subset DEF FinishedIn
<1>8. Cardinality(FinishedIn(cur)') = Cardinality(FinishedIn(cur)) + 1
    BY <1>6, <1>7, FS_AddElement
<1>9. Counted(cur)' /\ NeverFailed(cur)' /\ ~IsTerminal(cur)'
    BY <1>1, <1>3, <1>4, <1>5, <1>8 DEF Counted, BooksInv, NeverFailed, IsTerminal
<1>10. ASSUME NEW r \in Runs, r # cur
       PROVE  Counted(r)' /\ NeverFailed(r)' /\ (IsTerminal(r)' => NothingPending(r)')
    <2>1. CreatedIn(r)' = CreatedIn(r) /\ FinishedIn(r)' = FinishedIn(r)
        BY <1>2, <1>10 DEF CreatedIn, FinishedIn
    <2>2. Counted(r)'
        BY <1>2, <1>10, <2>1, SameBooks DEF BooksInv
    <2> QED BY <1>2, <1>10, <2>2 DEF BooksInv, NeverFailed, NothingPending, IsTerminal
<1> QED BY <1>9, <1>10 DEF BooksInv

\* The checker's transaction, which also writes findings.
LEMMA ConfirmBooks ==
    ASSUME LedgerInv, AccountsInv, NEW s \in Scopes, NEW obs \in SUBSET ScopePrints(s), Confirm(s, obs)
    PROVE  BooksInv'
<1>1. /\ pc = "claimed" /\ cur \in Runs /\ runs[cur].status = "RUNNING" /\ obs \in SUBSET Prints
      /\ UNCHANGED cur
    BY DEF Confirm, LedgerInv, TypeInv, HoldsRun, Executing, AccountsInv, FlightInv, ScopePrints
<1>2. ASSUME NEW r \in Runs, IsTerminal(r)
      PROVE  Summarized(r)'
    <2>1. r # cur
        BY <1>1, <1>2 DEF IsTerminal
    <2>2. runs'[r] = runs[r] /\ findings' = ApplyObserved(findings, cur, obs)
        BY <2>1 DEF Confirm, LedgerInv, TypeInv, TypeOK
    <2>3. Summarized(r)
        BY <1>2 DEF AccountsInv, BooksInv, Counted
    <2>4. /\ Cardinality(FirstSeenBy(findings', r)) = Cardinality(FirstSeenBy(findings, r))
          /\ ResolvedBy(findings', r) = ResolvedBy(findings, r)
        BY <1>1, <2>1, <2>2, ApplySummaries
    <2> QED BY <2>2, <2>3, <2>4 DEF Summarized
<1>3. /\ tasks[cur][s] = "IN_PROGRESS"
      /\ tasks' = [tasks EXCEPT ![cur][s] = "DONE"]
      /\ runs' = [runs EXCEPT ![cur].terminal = @ + 1]
    BY DEF Confirm
<1> QED BY <1>1, <1>2, <1>3, FinishedOne DEF AccountsInv

\* The dead letter counts as finished.
LEMMA DeadLetterBooks ==
    ASSUME LedgerInv, AccountsInv, NEW s \in Scopes, DeadLetter(s)
    PROVE  BooksInv'
<1>1. pc = "claimed" /\ cur \in Runs /\ runs[cur].status = "RUNNING" /\ UNCHANGED cur
    BY DEF DeadLetter, LedgerInv, TypeInv, HoldsRun, Executing, AccountsInv, FlightInv
<1>2. ASSUME NEW r \in Runs, IsTerminal(r)
      PROVE  Summarized(r)'
    <2>1. r # cur
        BY <1>1, <1>2 DEF IsTerminal
    <2>2. runs'[r] = runs[r] /\ findings' = findings
        BY <2>1 DEF DeadLetter, LedgerInv, TypeInv, TypeOK
    <2>3. Summarized(r)
        BY <1>2 DEF AccountsInv, BooksInv, Counted
    <2> QED BY <2>2, <2>3 DEF Summarized
<1>3. /\ tasks[cur][s] = "IN_PROGRESS"
      /\ tasks' = [tasks EXCEPT ![cur][s] = "DEAD_LETTER"]
      /\ runs' = [runs EXCEPT ![cur].terminal = @ + 1]
    BY DEF DeadLetter
<1> QED BY <1>1, <1>2, <1>3, FinishedOne DEF AccountsInv

\* The resolving transaction touches no closed run's summary.
LEMMA ResolveBooks ==
    ASSUME LedgerInv, AccountsInv, Resolve
    PROVE  BooksInv'
<1>1. /\ cur \in Runs /\ runs[cur].status = "RUNNING" /\ UNCHANGED <<runs, tasks>>
      /\ findings' = ResolveAbsent(findings, cur, done, observed)
    BY DEF Resolve, LedgerInv, TypeInv, HoldsRun, Executing, AccountsInv, FlightInv
<1>2. ASSUME NEW r \in Runs
      PROVE  Counted(r)' /\ NeverFailed(r)' /\ (IsTerminal(r)' => NothingPending(r)')
    <2>1. CreatedIn(r)' = CreatedIn(r) /\ FinishedIn(r)' = FinishedIn(r)
        BY <1>1 DEF CreatedIn, FinishedIn
    <2>2. ASSUME IsTerminal(r)
          PROVE  Summarized(r)'
        <3>1. r # cur
            BY <1>1, <2>2 DEF IsTerminal
        <3>2. /\ Cardinality(FirstSeenBy(findings', r)) = Cardinality(FirstSeenBy(findings, r))
              /\ ResolvedBy(findings', r) = ResolvedBy(findings, r)
            BY <1>1, <3>1, ResolveSummaries
        <3> QED BY <1>1, <2>2, <3>2 DEF Summarized, AccountsInv, BooksInv, Counted
    <2>3. Counted(r)'
        BY <1>1, <2>1, <2>2, SameBooks DEF AccountsInv, BooksInv
    <2> QED BY <1>1, <2>3 DEF AccountsInv, BooksInv, NeverFailed, NothingPending, IsTerminal
<1> QED BY <1>2 DEF BooksInv

\* All task rows are inserted, none is finished.
LEMMA EnumerateBooks ==
    ASSUME LedgerInv, AccountsInv, NEW units \in SUBSET Scopes, Enumerate(units)
    PROVE  BooksInv'
<1>1. /\ cur \in Runs /\ runs[cur].status = "RUNNING" /\ UNCHANGED <<cur, findings>>
      /\ \A s \in Scopes : tasks[cur][s] = "NONE"
    BY DEF Enumerate, LedgerInv, TypeInv, HoldsRun, Executing, AccountsInv, FlightInv,
           ControlInv, ScanFacts
<1>2. \A r \in Runs : r # cur => runs'[r] = runs[r] /\ tasks'[r] = tasks[r]
    BY DEF Enumerate, LedgerInv, TypeInv, TypeOK
<1>3. /\ \A s \in Scopes : tasks'[cur][s] = IF s \in units THEN "PENDING" ELSE "NONE"
      /\ runs'[cur].created = Cardinality(units)
      /\ runs'[cur].terminal = runs[cur].terminal
      /\ runs'[cur].status = "RUNNING"
    BY <1>1 DEF Enumerate, LedgerInv, TypeInv, TypeOK, RunRecords
<1>4. CreatedIn(cur)' = units
    BY <1>1, <1>3 DEF CreatedIn
<1>5. FinishedIn(cur)' = {} /\ FinishedIn(cur) = {}
    BY <1>1, <1>3 DEF FinishedIn, Terminal
<1>6. Counted(cur)' /\ NeverFailed(cur)' /\ ~IsTerminal(cur)'
    BY <1>1, <1>3, <1>4, <1>5 DEF AccountsInv, BooksInv, Counted, NeverFailed, IsTerminal
<1>7. \A r \in Runs \ {cur} : Counted(r)' /\ NeverFailed(r)' /\ (IsTerminal(r)' => NothingPending(r)')
    BY <1>1, <1>2, OtherRuns DEF AccountsInv
<1> QED BY <1>1, <1>6, <1>7 DEF BooksInv

\* A task is claimed.
LEMMA ClaimBooks ==
    ASSUME LedgerInv, AccountsInv, NEW s \in Scopes, Claim(s)
    PROVE  BooksInv'
<1>1. /\ cur \in Runs /\ runs[cur].status = "RUNNING" /\ UNCHANGED <<cur, runs, findings>>
      /\ tasks[cur][s] = "PENDING"
    BY DEF Claim, LedgerInv, TypeInv, HoldsRun, Executing, AccountsInv, FlightInv, memory
<1>2. \A r \in Runs : r # cur => tasks'[r] = tasks[r]
    BY DEF Claim, LedgerInv, TypeInv, TypeOK
<1>3. \A t \in Scopes : tasks'[cur][t] = IF t = s THEN "IN_PROGRESS" ELSE tasks[cur][t]
    BY <1>1 DEF Claim, LedgerInv, TypeInv, TypeOK
<1>4. CreatedIn(cur)' = CreatedIn(cur) /\ FinishedIn(cur)' = FinishedIn(cur)
    BY <1>1, <1>3 DEF CreatedIn, FinishedIn, Terminal
<1>5. Counted(cur)' /\ NeverFailed(cur)' /\ ~IsTerminal(cur)'
    BY <1>1, <1>3, <1>4 DEF AccountsInv, BooksInv, Counted, NeverFailed, IsTerminal
<1>6. \A r \in Runs \ {cur} : Counted(r)' /\ NeverFailed(r)' /\ (IsTerminal(r)' => NothingPending(r)')
    BY <1>1, <1>2, OtherRuns DEF AccountsInv
<1> QED BY <1>1, <1>5, <1>6 DEF BooksInv

----------------------------------------------------------------------------
LEMMA AccountsInit == Init => AccountsInv
<1> SUFFICES ASSUME Init PROVE AccountsInv
    OBVIOUS
<1>1. \A r \in Runs : CreatedIn(r) = {} /\ FinishedIn(r) = {} /\ runs[r] = NoRecord
    BY DEF Init, CreatedIn, FinishedIn, Terminal
<1>2. BooksInv
    BY <1>1, FS_EmptySet DEF Init, BooksInv, Counted, NeverFailed, IsTerminal, NoRecord
<1> QED BY <1>2 DEF Init, AccountsInv, FlightInv, GreenMeansChecked, Executing

LEMMA AccountsNext == LedgerInv /\ AccountsInv /\ [Next]_vars => AccountsInv'
<1> SUFFICES ASSUME LedgerInv, AccountsInv, [Next]_vars
             PROVE  BooksInv' /\ FlightInv' /\ GreenMeansChecked'
    BY DEF AccountsInv
<1>0. BooksInv
    BY DEF AccountsInv
<1>a. /\ runs \in [Runs -> RunRecords] /\ tasks \in [Runs -> [Scopes -> TaskStates]]
      /\ pc \in HoldsRun => cur \in Runs
    BY DEF LedgerInv, TypeInv, TypeOK
<1> USE DEF AccountsInv, FlightInv, GreenMeansChecked, HoldsRun, Executing
<1>1. ASSUME NEW rec \in RecoverFlags, NEW st \in StrictFlags, StartRun(rec, st)
      PROVE  BooksInv' /\ FlightInv' /\ GreenMeansChecked'
    BY <1>0, <1>1, BooksUntouched DEF StartRun
<1>2. CASE StartRecover
    BY <1>0, <1>2, BooksUntouched DEF StartRecover
<1>3. ASSUME NEW r \in Runs, RecoverOne(r)
      PROVE  BooksInv' /\ FlightInv' /\ GreenMeansChecked'
    <2>1. Swept(tasks[r]) \in [Scopes -> TaskStates]
        BY <1>a, SweptType
    <2>2. /\ tasks' = [tasks EXCEPT ![r] = Swept(tasks[r])]
          /\ runs' = [runs EXCEPT ![r] = Closed(r, "FAILED", Swept(tasks[r]))]
          /\ UNCHANGED findings
        BY <1>3, <1>a DEF RecoverOne
    <2>3. BooksInv'
        BY <1>0, <2>1, <2>2, ClosedBooks
    <2> QED BY <1>3, <2>3 DEF RecoverOne
<1>4. CASE RecoverDone
    BY <1>0, <1>4, BooksUntouched DEF RecoverDone, Exit
<1>5. CASE ListTerminal
    BY <1>0, <1>5, BooksUntouched DEF ListTerminal
<1>6. ASSUME NEW r \in Runs, Reconcile(r)
      PROVE  BooksInv' /\ FlightInv' /\ GreenMeansChecked'
    BY <1>0, <1>6, BooksUntouched DEF Reconcile
<1>7. CASE ReconcileDone
    BY <1>0, <1>7, BooksUntouched DEF ReconcileDone
<1>8. ASSUME NEW r \in Runs, CreateRun(r)
      PROVE  BooksInv' /\ FlightInv' /\ GreenMeansChecked'
    <2>1. \A q \in Runs \ {r} : runs'[q] = runs[q] /\ tasks'[q] = tasks[q]
        BY <1>8, <1>a DEF CreateRun
    <2>2. /\ runs'[r].status = "RUNNING" /\ runs'[r].created = runs[r].created
          /\ runs'[r].terminal = runs[r].terminal
        BY <1>8, <1>a DEF CreateRun, RunRecords
    <2>3. CreatedIn(r)' = CreatedIn(r) /\ FinishedIn(r)' = FinishedIn(r)
        BY <1>8 DEF CreateRun, CreatedIn, FinishedIn
    <2>4. Counted(r)' /\ NeverFailed(r)' /\ ~IsTerminal(r)'
        BY <1>0, <1>8, <2>2, <2>3 DEF CreateRun, BooksInv, Counted, NeverFailed, IsTerminal
    <2>5. \A q \in Runs \ {r} : Counted(q)' /\ NeverFailed(q)' /\ (IsTerminal(q)' => NothingPending(q)')
        BY <1>0, <1>8, <2>1, OtherRuns DEF CreateRun
    <2>6. BooksInv'
        BY <2>4, <2>5 DEF BooksInv
    <2> QED BY <1>8, <2>2, <2>6 DEF CreateRun
<1>9. CASE CreateConflict
    BY <1>0, <1>9, BooksUntouched DEF CreateConflict, Exit
<1>10. ASSUME NEW units \in SUBSET Scopes, Enumerate(units)
       PROVE  BooksInv' /\ FlightInv' /\ GreenMeansChecked'
    <2>1. \A s \in Scopes : tasks'[cur][s] \in {"PENDING", "NONE"}
        BY <1>10, <1>a DEF Enumerate
    <2>2. runs'[cur].status = "RUNNING"
        BY <1>10, <1>a DEF Enumerate, RunRecords
    <2>3. BooksInv'
        BY <1>10, EnumerateBooks
    <2> QED BY <1>10, <2>1, <2>2, <2>3 DEF Enumerate
<1>11. ASSUME NEW s \in Scopes, Claim(s)
       PROVE  BooksInv' /\ FlightInv' /\ GreenMeansChecked'
    <2>1. \A t \in Scopes : tasks'[cur][t] = IF t = s THEN "IN_PROGRESS" ELSE tasks[cur][t]
        BY <1>11, <1>a DEF Claim
    <2>2. BooksInv'
        BY <1>11, ClaimBooks
    <2> QED BY <1>11, <2>1, <2>2 DEF Claim, memory
<1>12. ASSUME NEW s \in Scopes, NEW obs \in SUBSET ScopePrints(s), Confirm(s, obs)
       PROVE  BooksInv' /\ FlightInv' /\ GreenMeansChecked'
    <2>1. \A t \in Scopes : tasks'[cur][t] = IF t = s THEN "DONE" ELSE tasks[cur][t]
        BY <1>12, <1>a DEF Confirm
    <2>2. runs'[cur].status = "RUNNING"
        BY <1>12, <1>a DEF Confirm, RunRecords
    <2>3. BooksInv'
        BY <1>12, ConfirmBooks
    <2> QED BY <1>12, <2>1, <2>2, <2>3 DEF Confirm
<1>13. ASSUME NEW s \in Scopes, DeadLetter(s)
       PROVE  BooksInv' /\ FlightInv' /\ GreenMeansChecked'
    <2>1. \A t \in Scopes : tasks'[cur][t] = IF t = s THEN "DEAD_LETTER" ELSE tasks[cur][t]
        BY <1>13, <1>a DEF DeadLetter
    <2>2. runs'[cur].status = "RUNNING"
        BY <1>13, <1>a DEF DeadLetter, RunRecords
    <2>3. BooksInv'
        BY <1>13, DeadLetterBooks
    <2> QED BY <1>13, <2>1, <2>2, <2>3 DEF DeadLetter
<1>14. CASE Resolve
    <2>1. BooksInv'
        BY <1>14, ResolveBooks
    <2> QED BY <1>14, <2>1 DEF Resolve, NothingPending, memory
<1>15. CASE CloseRun
    <2> DEFINE st == IF strict /\ dead THEN "FAILED" ELSE "COMPLETED"
    <2>1. /\ cur \in Runs /\ pc = "close" /\ NothingPending(cur) /\ tasks[cur] \in [Scopes -> TaskStates]
          /\ NeverFailed(cur)
        BY <1>0, <1>15, <1>a DEF CloseRun, BooksInv
    <2>2. \A s \in Scopes : tasks[cur][s] = Swept(tasks[cur])[s]
        BY <2>1 DEF NothingPending, Swept
    <2>3. /\ tasks' = [tasks EXCEPT ![cur] = tasks[cur]]
          /\ runs' = [runs EXCEPT ![cur] = Closed(cur, st, tasks[cur])]
          /\ UNCHANGED findings
        BY <1>15, <1>a, <2>1 DEF CloseRun
    <2>4. st \in {"COMPLETED", "FAILED"}
        OBVIOUS
    <2>5. Closed(cur, st, tasks[cur]).status = st
        BY <2>1, ClosedStatus DEF LedgerInv
    <2>6. runs'[cur].status = st
        BY <1>a, <2>1, <2>3, <2>5
    <2> HIDE DEF st
    <2>7. BooksInv'
        BY <1>0, <2>1, <2>2, <2>3, <2>4, ClosedBooks
    <2>8. GreenMeansChecked'
        <3>1. st = "COMPLETED" /\ strict => ~dead
            BY DEF st
        <3>2. ~dead => \A s \in Scopes : tasks[cur][s] \in {"NONE", "DONE"}
            BY <2>1 DEF NothingPending, NeverFailed, TaskStates
        <3> QED BY <1>15, <2>6, <3>1, <3>2 DEF CloseRun, memory
    <2> QED BY <1>15, <2>7, <2>8 DEF CloseRun
<1>16. CASE FailRun
    <2>0. cur \in Runs
        BY <1>16, <1>a DEF FailRun
    <2>1. Swept(tasks[cur]) \in [Scopes -> TaskStates]
        BY <1>a, <2>0, SweptType
    <2>2. /\ tasks' = [tasks EXCEPT ![cur] = Swept(tasks[cur])]
          /\ runs' = [runs EXCEPT ![cur] = Closed(cur, "FAILED", Swept(tasks[cur]))]
          /\ UNCHANGED findings
        BY <1>16, <1>a, <2>0 DEF FailRun
    <2>3. BooksInv'
        BY <1>0, <2>0, <2>1, <2>2, ClosedBooks
    <2> QED BY <1>16, <2>3 DEF FailRun
<1>17. CASE WriteReport
    BY <1>0, <1>17, BooksUntouched DEF WriteReport, ledger, memory
<1>18. CASE WriteCost
    BY <1>0, <1>18, BooksUntouched DEF WriteCost, Exit
<1>19. CASE Raise
    BY <1>0, <1>19, BooksUntouched DEF Raise
<1>20. CASE Crash
    BY <1>0, <1>20, BooksUntouched DEF Crash, Exit
<1>21. CASE UNCHANGED vars
    BY <1>0, <1>21, BooksUntouched DEF vars, ledger, memory, NothingPending
<1>22. CASE ReportUnreadable
    <2>1. CASE Exit
        BY <1>0, <1>22, <2>1, BooksUntouched DEF ReportUnreadable, Exit, ledger
    <2>2. CASE pc = "report" /\ pc' = "fail" /\ UNCHANGED memory
        BY <1>0, <1>22, <2>2, BooksUntouched DEF ReportUnreadable, memory, ledger
    <2> QED BY <1>22, <2>1, <2>2 DEF ReportUnreadable
<1> QED
    BY <1>1, <1>2, <1>3, <1>4, <1>5, <1>6, <1>7, <1>8, <1>9, <1>10, <1>11, <1>12,
       <1>13, <1>14, <1>15, <1>16, <1>17, <1>18, <1>19, <1>20, <1>21, <1>22
    DEF Next, Progress, Invocation, Run

\* On a closed run every created task is finished.
LEMMA BooksBalance == LedgerInv /\ AccountsInv => RunsSound
<1> SUFFICES ASSUME LedgerInv, AccountsInv PROVE RunAccounting
    BY DEF AccountsInv, RunsSound
<1>1. ASSUME NEW r \in Runs, IsTerminal(r)
      PROVE  CreatedIn(r) = FinishedIn(r)
    <2>1. \A s \in Scopes : /\ tasks[r][s] \in TaskStates /\ tasks[r][s] # "FAILED"
                            /\ tasks[r][s] \notin {"PENDING", "IN_PROGRESS"}
        BY <1>1 DEF LedgerInv, TypeInv, TypeOK, AccountsInv, BooksInv, NothingPending, NeverFailed
    <2> QED BY <2>1 DEF CreatedIn, FinishedIn, Terminal, TaskStates
<1> QED BY <1>1 DEF AccountsInv, BooksInv, Counted, Summarized, RunAccounting, CreatedIn, FinishedIn

\* The counters of every run row are those of its tasks and findings, whether
\* the run closed itself, failed, or was closed by recovery after a crash, and
\* a green run under the default policy checked everything (compute_run_counts).
THEOREM RunsAreSound == Spec => []RunsSound
<1>1. Spec => []AccountsInv
    BY LedgerInvariant, AccountsInit, AccountsNext, PTL DEF Spec
<1> QED BY <1>1, LedgerInvariant, BooksBalance, PTL

----------------------------------------------------------------------------
\* The backfill, when every invocation recovers first.

Recovers == FALSE \notin RecoverFlags

\* Once recovery is over no run is RUNNING, and the outputs that a run or its
\* handler write are those of the latest run.
PhaseInv ==
    /\ pc \in {"report", "cost"} <=> ctx # "none"
    /\ pc \in {"list", "reconcile", "create"} \/ ctx = "reconcile" =>
           \A r \in Runs : runs[r].status # "RUNNING"
    /\ pc \in HoldsRun /\ ctx # "reconcile" =>
           \A r \in Runs : cur < r => runs[r].status = "NONE"

\* A checker's verdict, or a claim, changes no status.
LEMMA TaskStatus ==
    ASSUME TypeInv, NEW s \in Scopes,
           Claim(s) \/ DeadLetter(s) \/ \E obs \in SUBSET ScopePrints(s) : Confirm(s, obs)
    PROVE  \A r \in Runs : runs'[r].status = runs[r].status
<1> USE DEF TypeInv, TypeOK, RunRecords
<1>1. CASE Claim(s)
    BY <1>1 DEF Claim
<1>2. CASE DeadLetter(s)
    BY <1>2 DEF DeadLetter
<1>3. ASSUME NEW obs \in SUBSET ScopePrints(s), Confirm(s, obs)
      PROVE  \A r \in Runs : runs'[r].status = runs[r].status
    BY <1>3 DEF Confirm
<1> QED BY <1>1, <1>2, <1>3

LEMMA PhaseNext == Recovers /\ LedgerInv /\ PhaseInv /\ [Next]_vars => PhaseInv'
<1> SUFFICES ASSUME Recovers, LedgerInv, PhaseInv, [Next]_vars PROVE PhaseInv'
    OBVIOUS
<1> USE DEF PhaseInv, HoldsRun, Executing, TypeInv, TypeOK, Pcs
<1>0. TypeInv
    BY DEF LedgerInv
<1>1. ASSUME NEW rec \in RecoverFlags, NEW st \in StrictFlags, StartRun(rec, st)
      PROVE  PhaseInv'
    <2>1. rec = TRUE
        BY SentinelAssumption DEF Recovers
    <2> QED BY <1>1, <2>1 DEF StartRun
<1>2. CASE StartRecover
    BY <1>2 DEF StartRecover
<1>3. ASSUME NEW r \in Runs, RecoverOne(r)
      PROVE  PhaseInv'
    BY <1>3 DEF RecoverOne
<1>4. CASE RecoverDone
    BY <1>4 DEF RecoverDone, Exit, ledger
<1>5. CASE ListTerminal
    BY <1>5 DEF ListTerminal, ledger
<1>6. ASSUME NEW r \in Runs, Reconcile(r)
      PROVE  PhaseInv'
    BY <1>6 DEF Reconcile, ledger
<1>7. CASE ReconcileDone
    BY <1>7 DEF ReconcileDone, ledger
<1>8. ASSUME NEW r \in Runs, CreateRun(r)
      PROVE  PhaseInv'
    <2>1. \A q \in Runs : r < q => runs[q].status = "NONE"
        BY <1>8 DEF CreateRun, LedgerInv, ControlInv, RunsInOrder, Runs
    <2>2. \A q \in Runs : r < q => runs'[q].status = "NONE"
        BY <1>0, <1>8, <2>1 DEF CreateRun, Runs
    <2> QED BY <1>8, <2>2 DEF CreateRun
<1>9. CASE CreateConflict
    BY <1>9 DEF CreateConflict, Exit
<1>10. ASSUME \A r \in Runs : runs[r].status = "NONE" => runs'[r].status = "NONE",
              pc' \in HoldsRun, cur' = cur, pc \in HoldsRun, ctx # "reconcile", ctx' # "reconcile",
              pc' \in {"report", "cost"} <=> ctx' # "none"
       PROVE  PhaseInv'
    BY <1>10
<1>11. ASSUME NEW units \in SUBSET Scopes, Enumerate(units)
       PROVE  PhaseInv'
    BY <1>0, <1>10, <1>11 DEF Enumerate, RunRecords
<1>12. ASSUME NEW s \in Scopes, Claim(s) \/ DeadLetter(s) \/ \E obs \in SUBSET ScopePrints(s) : Confirm(s, obs)
       PROVE  PhaseInv'
    <2>1. \A r \in Runs : runs'[r].status = runs[r].status
        BY <1>0, <1>12, TaskStatus
    <2> QED BY <1>10, <1>12, <2>1 DEF Claim, DeadLetter, Confirm, memory
<1>13. CASE Resolve
    BY <1>10, <1>13 DEF Resolve, memory
<1>14. CASE CloseRun \/ FailRun
    <2>1. cur \in Runs /\ runs[cur].status # "NONE"
        BY <1>0, <1>14 DEF CloseRun, FailRun, LedgerInv, ControlInv, InHand, NoRun, Runs
    <2>2. \A r \in Runs : runs[r].status = "NONE" => runs'[r].status = "NONE"
        BY <1>0, <1>14, <2>1 DEF CloseRun, FailRun
    <2> QED BY <1>10, <1>14, <2>2 DEF CloseRun, FailRun, memory
<1>15. CASE WriteReport
    BY <1>15 DEF WriteReport, ledger, memory
<1>16. CASE WriteCost
    BY <1>16 DEF WriteCost, Exit, ledger
<1>17. CASE Raise
    BY <1>17 DEF Raise, ledger, memory
<1>18. CASE Crash
    BY <1>18 DEF Crash, Exit, ledger
<1>19. CASE ReportUnreadable
    BY <1>19 DEF ReportUnreadable, Exit, ledger, memory
<1>20. CASE UNCHANGED vars
    BY <1>20 DEF vars, ledger, memory
<1> QED
    BY <1>1, <1>2, <1>3, <1>4, <1>5, <1>6, <1>7, <1>8, <1>9, <1>11, <1>12, <1>13, <1>14, <1>15,
       <1>16, <1>17, <1>18, <1>19, <1>20
    DEF Next, Progress, Invocation, Run

\* The runs whose outputs the process has yet to see to.
Outstanding ==
    CASE pc = "reconcile" -> todo
      [] pc = "create" -> {}
      [] pc \in Executing -> {cur}
      [] pc \in {"report", "cost"} /\ ctx = "reconcile" -> todo \cup {cur}
      [] OTHER -> Runs

\* Steps that change no status and no file.
Quiet ==
    \/ \E rec \in RecoverFlags, st \in StrictFlags : StartRun(rec, st)
    \/ \E r \in Runs : Reconcile(r)
    \/ \E units \in SUBSET Scopes : Enumerate(units)
    \/ \E s \in Scopes : Claim(s) \/ DeadLetter(s) \/ \E obs \in SUBSET ScopePrints(s) : Confirm(s, obs)
    \/ StartRecover \/ RecoverDone \/ ListTerminal \/ ReconcileDone \/ CreateConflict \/ Resolve
    \/ ReportUnreadable \/ UNCHANGED vars

\* Steps that close a run.
Closing == (\E r \in Runs : RecoverOne(r)) \/ CloseRun \/ FailRun

\* No quiet step takes a run off the list before its outputs are complete.
LEMMA QuietStep ==
    ASSUME TypeInv, PhaseInv, Quiet
    PROVE  /\ UNCHANGED files /\ \A r \in Runs : runs'[r].status = runs[r].status
           /\ pc' = "cost" => pc = "cost" /\ cur' = cur
           /\ \A r \in Runs : r \in Outstanding /\ IsTerminal(r) /\ r \notin Outstanding' => ~NeedsOutputs(r)
<1> USE DEF Outstanding, HoldsRun, Executing, TypeInv, TypeOK, PhaseInv
<1>1. ASSUME NEW rec \in RecoverFlags, NEW st \in StrictFlags, StartRun(rec, st)
      PROVE  UNCHANGED <<runs, report, costs>> /\ pc' # "cost" /\ Outstanding' = Runs
    BY <1>1 DEF StartRun, ledger, files
<1>2. ASSUME NEW r \in Runs, Reconcile(r)
      PROVE  /\ UNCHANGED <<runs, report, costs>> /\ pc' # "cost"
             /\ Outstanding = todo /\ (Outstanding' = todo \/ (Outstanding' = todo \ {r} /\ ~NeedsOutputs(r)))
    <2>1. UNCHANGED <<runs, report, costs>> /\ pc' # "cost" /\ Outstanding = todo
        BY <1>2 DEF Reconcile, ledger, files
    <2>2. CASE NeedsOutputs(r)
        <3>1. pc' = "report" /\ ctx' = "reconcile" /\ cur' = r /\ todo' = todo \ {r} /\ r \in todo
            BY <1>2, <2>2 DEF Reconcile
        <3>2. Outstanding' = (todo \ {r}) \cup {r}
            BY <3>1
        <3> QED BY <2>1, <3>1, <3>2
    <2>3. CASE ~NeedsOutputs(r)
        <3>1. pc' = "reconcile" /\ todo' = todo \ {r}
            BY <1>2, <2>3 DEF Reconcile
        <3> QED BY <2>1, <2>3, <3>1
    <2> QED BY <2>1, <2>2, <2>3
<1>3. ASSUME NEW units \in SUBSET Scopes, Enumerate(units)
      PROVE  /\ UNCHANGED <<report, costs>> /\ pc' # "cost" /\ Outstanding' = Outstanding
             /\ \A r \in Runs : runs'[r].status = runs[r].status
    BY <1>3 DEF Enumerate, files, RunRecords
<1>4. ASSUME NEW s \in Scopes, Claim(s) \/ DeadLetter(s) \/ \E obs \in SUBSET ScopePrints(s) : Confirm(s, obs)
      PROVE  /\ UNCHANGED <<report, costs>> /\ pc' # "cost" /\ Outstanding' = Outstanding
             /\ \A r \in Runs : runs'[r].status = runs[r].status
    <2>1. \A r \in Runs : runs'[r].status = runs[r].status
        BY <1>4, TaskStatus
    <2>2. /\ UNCHANGED <<report, costs, ctx, cur, todo>> /\ pc \in Executing /\ pc' \in Executing
        BY <1>4 DEF Claim, DeadLetter, Confirm, files, memory
    <2> QED BY <2>1, <2>2
<1>5. CASE StartRecover \/ RecoverDone \/ CreateConflict \/ ReportUnreadable
    <2>1. UNCHANGED <<runs, report, costs>> /\ pc' # "cost" /\ Outstanding' = Runs
        BY <1>5 DEF StartRecover, RecoverDone, CreateConflict, ReportUnreadable, Exit, ledger, files
    <2> QED BY <2>1 DEF files
<1>6. CASE ListTerminal
    <2>1. UNCHANGED <<runs, report, costs>> /\ pc' # "cost" /\ Outstanding' = {r \in Runs : IsTerminal(r)}
        BY <1>6 DEF ListTerminal, ledger, files
    <2> QED BY <2>1 DEF files
<1>7. CASE ReconcileDone
    <2>1. UNCHANGED <<runs, report, costs>> /\ pc' # "cost" /\ Outstanding = {}
        BY <1>7 DEF ReconcileDone, ledger, files
    <2> QED BY <2>1 DEF files
<1>8. CASE Resolve
    <2>1. UNCHANGED <<runs, report, costs>> /\ pc' # "cost" /\ Outstanding' = Outstanding
        BY <1>8 DEF Resolve, memory, files
    <2> QED BY <2>1 DEF files
<1>9. CASE UNCHANGED vars
    <2>1. UNCHANGED <<runs, report, costs, pc, ctx, cur, todo>>
        BY <1>9 DEF vars, ledger, files, memory
    <2> QED BY <2>1 DEF files
<1> HIDE DEF Outstanding, HoldsRun, Executing, TypeInv, TypeOK, PhaseInv
<1> QED BY <1>1, <1>2, <1>3, <1>4, <1>5, <1>6, <1>7, <1>8, <1>9 DEF Quiet, files

LEMMA ClosingStep ==
    ASSUME LedgerInv, Closing
    PROVE  /\ UNCHANGED files /\ pc' # "cost" /\ Outstanding' = Runs
           /\ \A r \in Runs : runs'[r].status = "NONE" <=> runs[r].status = "NONE"
<1>0. TypeInv
    BY DEF LedgerInv
<1> USE DEF Outstanding, HoldsRun, Executing, TypeInv, TypeOK
<1>1. ASSUME NEW r \in Runs, RecoverOne(r)
      PROVE  /\ UNCHANGED files /\ pc' # "cost" /\ Outstanding' = Runs
             /\ \A q \in Runs : runs'[q].status = "NONE" <=> runs[q].status = "NONE"
    BY <1>0, <1>1, ClosedStatus DEF RecoverOne
<1>2. CASE CloseRun \/ FailRun
    <2>1. cur \in Runs /\ runs[cur].status # "NONE"
        BY <1>0, <1>2 DEF CloseRun, FailRun, LedgerInv, ControlInv, InHand, NoRun, Runs
    <2>2. PICK st, row : st \in {"COMPLETED", "FAILED"} /\ runs' = [runs EXCEPT ![cur] = Closed(cur, st, row)]
        BY <1>2 DEF CloseRun, FailRun
    <2>3. Closed(cur, st, row).status = st
        BY <1>0, <2>1, ClosedStatus
    <2>4. \A q \in Runs : runs'[q].status = "NONE" <=> runs[q].status = "NONE"
        BY <2>1, <2>2, <2>3
    <2>5. UNCHANGED files /\ pc' = "report" /\ ctx' # "reconcile"
        BY <1>2 DEF CloseRun, FailRun
    <2> QED BY <2>4, <2>5
<1> QED BY <1>1, <1>2 DEF Closing

----------------------------------------------------------------------------
\* FINDINGS.md.

Trailing(rep) == \A i \in DOMAIN rep : rep[i].form # "whole" => i = Len(rep)

\* Whole sections stay where they are.
WholeStay(new, rep) == \A i \in DOMAIN rep : rep[i].form = "whole" => i \in DOMAIN new /\ new[i] = rep[i]

\* A writer that finds no fragment but its own run's cuts nothing else away,
\* and leaves none behind but its own.
LEMMA SectionGrows ==
    ASSUME NEW rep \in Seq(Sections), Trailing(rep), NEW r \in Runs, NEW st \in Statuses,
           ~SectionComplete(rep, r) => \A i \in DOMAIN rep : rep[i].form # "whole" => rep[i].run = r,
           NEW new \in {AppendSection(rep, r, st)} \cup TornReports(rep, r, st)
    PROVE  /\ Trailing(new) /\ WholeStay(new, rep)
           /\ new = AppendSection(rep, r, st) => SectionComplete(new, r)
<1>1. CASE SectionComplete(rep, r)
    BY <1>1 DEF AppendSection, TornReports, WholeStay
<1>2. CASE ~SectionComplete(rep, r)
    <2> DEFINE cut == CutAt(rep, r)
    <2>1. PICK n \in 0..Len(rep) :
              /\ cut \in Seq(Sections) /\ Len(cut) = n
              /\ \A k \in 1..n : cut[k] = rep[k] /\ rep[k].run # r
              /\ n = Len(rep) \/ (n + 1 \in 1..Len(rep) /\ rep[n + 1].run = r)
        BY CutShape
    <2> HIDE DEF cut
    <2>2. /\ DOMAIN rep = 1..Len(rep) /\ DOMAIN cut = 1..n /\ n \in Nat /\ Len(rep) \in Nat
          /\ 1..n \subseteq DOMAIN rep
        BY <2>1
    <2>3. \A k \in 1..n : rep[k].form = "whole" /\ cut[k].form = "whole"
        <3> TAKE k \in 1..n
        <3>0. k \in DOMAIN rep
            BY <2>2
        <3>1. rep[k].run # r /\ cut[k] = rep[k]
            BY <2>1
        <3>2. rep[k].form = "whole"
            <4>0. rep[k] \in Sections
                BY <2>2, <3>0, ElementOfSeq
            <4>1. rep[k].form \in SectionForms
                BY <4>0 DEF Sections
            <4>2. rep[k].form # "whole" => rep[k].run = r
                BY <1>2, <3>0, Zenon
            <4> QED BY <3>1, <4>1, <4>2
        <3> QED BY <3>1, <3>2
    <2>4. \A i \in DOMAIN rep : rep[i].form = "whole" => i \in 1..n
        <3>1. CASE n = Len(rep)
            BY <2>2, <3>1
        <3>2. CASE n + 1 \in 1..Len(rep) /\ rep[n + 1].run = r
            <4>1. rep[n + 1].form # "whole"
                BY <1>2, <2>2, <3>2 DEF SectionComplete, SectionAt
            <4>2. n + 1 = Len(rep)
                BY <2>2, <3>2, <4>1 DEF Trailing
            <4> QED BY <2>2, <4>1, <4>2
        <3> QED BY <2>1, <3>1, <3>2
    <2>5. Trailing(cut) /\ WholeStay(cut, rep)
        BY <2>1, <2>2, <2>3, <2>4 DEF Trailing, WholeStay
    <2>6. ASSUME NEW w \in SectionForms
          PROVE  LET e == Append(cut, Section(r, st, w))
                 IN  /\ Trailing(e) /\ WholeStay(e, rep)
                     /\ w = "whole" => SectionComplete(e, r)
        <3> DEFINE e == Append(cut, Section(r, st, w))
        <3>1. Section(r, st, w) \in Sections /\ Section(r, st, w).run = r /\ Section(r, st, w).form = w
            BY DEF Section, Sections, SectionForms
        <3>2. /\ Len(e) = n + 1 /\ DOMAIN e = 1..(n + 1)
              /\ e[n + 1] = Section(r, st, w) /\ \A k \in 1..n : e[k] = cut[k]
            BY <2>1, <3>1, AppendProperties
        <3> HIDE DEF e
        <3>3. Trailing(e)
            <4>1. \A i \in 1..(n + 1) : i = n + 1 \/ i \in 1..n
                BY <2>2
            <4>2. \A i \in 1..n : e[i].form = "whole"
                BY <2>3, <3>2
            <4> QED BY <3>2, <4>1, <4>2 DEF Trailing
        <3>4. WholeStay(e, rep)
            <4>1. \A i \in 1..n : i \in 1..(n + 1)
                BY <2>2
            <4>2. \A i \in 1..n : e[i] = rep[i]
                BY <2>1, <3>2
            <4>3. \A i \in DOMAIN rep : rep[i].form = "whole" => i \in DOMAIN e /\ e[i] = rep[i]
                BY <2>4, <3>2, <4>1, <4>2, Zenon
            <4> QED BY <4>3 DEF WholeStay
        <3>5. w = "whole" => SectionComplete(e, r)
            <4>1. n + 1 \in DOMAIN e
                BY <2>2, <3>2
            <4> QED BY <3>1, <3>2, <4>1, Zenon DEF SectionComplete, SectionAt
        <3> QED BY <3>3, <3>4, <3>5 DEF e
    <2>7. Trailing(rep) /\ WholeStay(rep, rep)
        BY DEF WholeStay
    <2>8. /\ AppendSection(rep, r, st) = Append(cut, Section(r, st, "whole"))
          /\ TornReports(rep, r, st) = {rep, cut} \cup {Append(cut, Section(r, st, w)) : w \in {"cut", "split"}}
        BY <1>2 DEF AppendSection, TornReports, cut
    <2> QED BY <2>5, <2>6, <2>7, <2>8 DEF SectionForms
<1> QED BY <1>1, <1>2

LEMMA WholeCounts ==
    ASSUME NEW new, NEW rep, WholeStay(new, rep), NEW r, SectionComplete(rep, r)
    PROVE  SectionComplete(new, r)
BY DEF WholeStay, SectionComplete, SectionAt

ReportInv ==
    /\ \A q, r \in Runs : q < r /\ runs[r].status # "NONE" => IsTerminal(q) /\ SectionComplete(report, q)
    /\ FragmentIsTrailing
    /\ pc = "cost" => SectionComplete(report, cur)
    /\ \A r \in Runs \ Outstanding : IsTerminal(r) => SectionComplete(report, r)

\* While a closed run lacks its section, it is the latest, and a fragment its own.
LEMMA OwnFragment ==
    ASSUME TypeInv, OutputsInv, ReportInv, NEW r \in Runs, IsTerminal(r), ~SectionComplete(report, r)
    PROVE  \A i \in DOMAIN report : report[i].form # "whole" => report[i].run = r
<1> TAKE i \in DOMAIN report
<1> HAVE report[i].form # "whole"
<1> DEFINE q == report[i].run
<1>1. q \in Runs /\ IsTerminal(q)
    <2>1. report \in Seq(Sections) /\ i \in 1..Len(report)
        BY DEF TypeInv, TypeOK
    <2>2. report[i] \in Sections
        BY <2>1, ElementOfSeq
    <2> QED BY <2>2 DEF Sections, OutputsInv, OutputsFollowClose
<1>2. ~SectionComplete(report, q)
    BY DEF SectionComplete, SectionAt, OutputsInv, FilesSound, OneSection
<1> HIDE DEF q
<1>3. ~(q < r) /\ ~(r < q)
    BY <1>1, <1>2 DEF ReportInv, IsTerminal
<1>4. q = r
    BY <1>1, <1>3, SentinelAssumption DEF Runs
<1> QED BY <1>4 DEF q

\* The report is written, or torn.
LEMMA SectionStep ==
    ASSUME TypeInv, OutputsInv, ReportInv, pc = "report",
           \/ report' = AppendSection(report, cur, runs[cur].status)
           \/ report' \in TornReports(report, cur, runs[cur].status)
    PROVE  /\ Trailing(report') /\ WholeStay(report', report)
           /\ report' = AppendSection(report, cur, runs[cur].status) => SectionComplete(report', cur)
<1>1. cur \in Runs /\ IsTerminal(cur) /\ runs[cur].status \in Statuses /\ report \in Seq(Sections)
    BY DEF TypeInv, TypeOK, HoldsRun, RunRecords, OutputsInv, HandsInv
<1>2. Trailing(report)
    BY DEF ReportInv, FragmentIsTrailing, Trailing
<1> QED BY <1>1, <1>2, OwnFragment, SectionGrows

\* Where the report changes, whole sections stay.
LEMMA ReportGrows ==
    ASSUME LedgerInv, PhaseInv, OutputsInv, ReportInv, [Next]_vars
    PROVE  Trailing(report') /\ WholeStay(report', report)
<1>0. TypeInv
    BY DEF LedgerInv
<1>1. CASE UNCHANGED report
    BY <1>1 DEF WholeStay, Trailing, ReportInv, FragmentIsTrailing
<1>2. CASE WriteReport
    BY <1>0, <1>2, SectionStep DEF WriteReport
<1>3. CASE Raise \/ Crash
    <2>1. Interrupted
        BY <1>3 DEF Raise, Crash
    <2> QED BY <1>0, <1>1, <2>1, SectionStep DEF Interrupted, files
<1>4. CASE Quiet \/ Closing
    <2>1. UNCHANGED report
        BY <1>0, <1>4, QuietStep, ClosingStep DEF files
    <2> QED BY <1>1, <2>1
<1>5. ASSUME NEW r \in Runs, CreateRun(r) PROVE UNCHANGED report
    BY <1>5 DEF CreateRun, files
<1>6. CASE WriteCost
    BY <1>1, <1>6 DEF WriteCost
<1> QED BY <1>1, <1>2, <1>3, <1>4, <1>5, <1>6
    DEF Next, Progress, Invocation, Run, Quiet, Closing

LEMMA ReportNext ==
    LedgerInv /\ PhaseInv /\ OutputsInv /\ ReportInv /\ [Next]_vars => ReportInv'
<1> SUFFICES ASSUME LedgerInv, PhaseInv, OutputsInv, ReportInv, [Next]_vars PROVE ReportInv'
    OBVIOUS
<1>0. TypeInv
    BY DEF LedgerInv
<1>1. FragmentIsTrailing' /\ \A r \in Runs : SectionComplete(report, r) => SectionComplete(report', r)
    BY ReportGrows, WholeCounts DEF FragmentIsTrailing, Trailing
<1>2. \A r \in Runs : IsTerminal(r) => IsTerminal(r)'
    BY <1>0, TerminalStays
<1>3. ASSUME \A r \in Runs : runs'[r].status = "NONE" <=> runs[r].status = "NONE"
      PROVE  \A q, r \in Runs : q < r /\ runs'[r].status # "NONE" =>
                 IsTerminal(q)' /\ SectionComplete(report', q)
    BY <1>1, <1>2, <1>3 DEF ReportInv
<1>4. CASE Quiet
    <2>1. /\ UNCHANGED report /\ \A r \in Runs : runs'[r].status = runs[r].status
          /\ pc' = "cost" => pc = "cost" /\ cur' = cur
          /\ \A r \in Runs : r \in Outstanding /\ IsTerminal(r) /\ r \notin Outstanding' => ~NeedsOutputs(r)
        BY <1>0, <1>4, QuietStep DEF files
    <2>2. \A r \in Runs \ Outstanding' : IsTerminal(r)' => SectionComplete(report', r)
        BY <1>1, <2>1 DEF ReportInv, IsTerminal, NeedsOutputs
    <2> QED BY <1>1, <1>3, <2>1, <2>2 DEF ReportInv
<1>5. CASE Closing
    BY <1>1, <1>3, <1>5, ClosingStep DEF ReportInv
<1>6. ASSUME NEW r \in Runs, CreateRun(r)
      PROVE  ReportInv'
    <2>1. /\ runs' = [runs EXCEPT ![r].status = "RUNNING"] /\ UNCHANGED report /\ pc = "create"
          /\ pc' = "enumerate" /\ cur' = r /\ Outstanding = {} /\ Outstanding' = {r}
        BY <1>6 DEF CreateRun, Outstanding, files, Executing
    <2>2. \A q \in Runs : q # r => runs'[q] = runs[q]
        BY <1>0, <2>1 DEF TypeInv, TypeOK
    <2>3. \A q \in Runs : r <= q => runs[q].status = "NONE"
        BY <1>6 DEF CreateRun, LedgerInv, ControlInv, RunsInOrder
    <2>4. \A q \in Runs : q < r => IsTerminal(q)
        <3> TAKE q \in Runs
        <3> HAVE q < r
        <3>1. runs[q].status # "NONE"
            BY <1>6 DEF CreateRun, Runs
        <3>2. runs[q].status # "RUNNING" /\ runs[q].status \in Statuses
            BY <1>0, <2>1 DEF PhaseInv, TypeInv, TypeOK, RunRecords
        <3> QED BY <3>1, <3>2 DEF Statuses, IsTerminal
    <2>5. \A q \in Runs : IsTerminal(q) => SectionComplete(report, q)
        BY <2>1 DEF ReportInv
    <2>6. \A p, q \in Runs : p < q /\ runs'[q].status # "NONE" => p < r
        BY <2>2, <2>3 DEF Runs
    <2>7. \A p, q \in Runs : p < q /\ runs'[q].status # "NONE" => IsTerminal(p)' /\ SectionComplete(report', p)
        BY <1>1, <1>2, <2>4, <2>5, <2>6
    <2>8. \A q \in Runs \ Outstanding' : IsTerminal(q)' => SectionComplete(report', q)
        BY <2>1, <2>2, <2>5 DEF IsTerminal
    <2> QED BY <1>1, <2>1, <2>7, <2>8 DEF ReportInv
<1>7. CASE WriteReport
    <2>1. /\ UNCHANGED <<runs, cur>> /\ SectionComplete(report', cur) /\ Outstanding' = Outstanding
        BY <1>0, <1>7, SectionStep DEF WriteReport, ledger, memory, Outstanding, Executing
    <2> QED BY <1>1, <1>3, <2>1 DEF ReportInv, IsTerminal
<1>8. CASE WriteCost
    <2>1. UNCHANGED <<runs, report>> /\ pc' # "cost"
        BY <1>8 DEF WriteCost, ledger, Exit
    <2>2. \A r \in Runs \ Outstanding' : r = cur \/ r \notin Outstanding
        BY <1>8 DEF WriteCost, Exit, Outstanding, Executing
    <2>3. SectionComplete(report, cur)
        BY <1>8 DEF WriteCost, ReportInv
    <2> QED BY <1>1, <1>3, <2>1, <2>2, <2>3 DEF ReportInv, IsTerminal
<1>9. CASE Raise \/ Crash
    <2>1. UNCHANGED runs /\ pc' # "cost" /\ Outstanding' = Runs
        BY <1>9 DEF Raise, Crash, Exit, ledger, Outstanding, Executing
    <2> QED BY <1>1, <1>3, <2>1 DEF ReportInv
<1> QED BY <1>4, <1>5, <1>6, <1>7, <1>8, <1>9 DEF Next, Progress, Invocation, Run, Quiet, Closing

----------------------------------------------------------------------------
\* The cost ledger, when no tear leaves a bare line.

Clean == "bare" \notin CostTears

RowsOrTorn(c) == \A i \in DOMAIN c : c[i].form \in {"row", "torn"}

LEMMA RepairKeeps ==
    ASSUME NEW c \in Seq(Lines), LinesSound(c), RowsOrTorn(c)
    PROVE  LET d == RepairTrailing(c)
           IN  (\A i \in DOMAIN d : d[i].form = "row") /\ (Readable(c) => d = c)
<1> DEFINE d == RepairTrailing(c)
<1>1. d \in Seq(Lines) /\ Readable(d)
    BY RepairSound
<1>2. CASE c = <<>>
    BY <1>2 DEF RepairTrailing
<1>3. CASE c # <<>> /\ Parses(c[Len(c)])
    <2>1. d = c
        BY <1>3 DEF RepairTrailing
    <2> QED BY <1>1, <2>1 DEF Readable, Parses, RowsOrTorn
<1>4. CASE c # <<>> /\ ~Parses(c[Len(c)])
    <2>1. PICK n \in Nat \ {0} : n = Len(c) /\ DOMAIN c = 1..n
        BY <1>4
    <2>2. d = SubSeq(c, 1, n - 1) /\ ~Readable(c)
        BY <1>4, <2>1 DEF RepairTrailing, Readable
    <2>3. \A i \in 1..(n - 1) : c[i] \in Lines /\ c[i].form = "row"
        BY <2>1, ElementOfSeq DEF LinesSound
    <2>4. Len(d) = n - 1 /\ \A i \in 1..(n - 1) : d[i] = c[i]
        BY <2>1, <2>2, <2>3, SubSeqProperties
    <2> HIDE DEF d
    <2>5. DOMAIN d = 1..(n - 1)
        BY <1>1, <2>1, <2>4
    <2> QED BY <2>2, <2>3, <2>4, <2>5 DEF d
<1> QED BY <1>2, <1>3, <1>4

LEMMA CostKeeps ==
    ASSUME Clean, NEW c \in Seq(Lines), LinesSound(c), RowsOrTorn(c), NEW r \in Runs
    PROVE  /\ \A new \in {AppendCost(c, r)} \cup TornCosts(c, r, CostTears) : RowsOrTorn(new)
           /\ HasCostRow(AppendCost(c, r), r)
           /\ \A q \in Runs : HasCostRow(c, q) => HasCostRow(AppendCost(c, r), q)
<1> DEFINE d == RepairTrailing(c)
<1>1. d \in Seq(Lines) /\ Readable(d)
    BY RepairSound
<1>2. (\A i \in DOMAIN d : d[i].form = "row") /\ (Readable(c) => d = c)
    BY RepairKeeps
<1>3. CostTears \subseteq {"torn"}
    BY SentinelAssumption DEF Clean
<1>4. /\ AppendCost(c, r) \in {c, d, AppendLine(d, r, "row")}
      /\ TornCosts(c, r, CostTears) \subseteq {c, d, AppendLine(d, r, "torn")}
    BY <1>3 DEF AppendCost, TornCosts
<1>5. AppendCost(c, r) = IF HasCostRow(c, r) THEN c
                         ELSE IF HasCostRow(d, r) THEN d ELSE AppendLine(d, r, "row")
    BY DEF AppendCost
<1> HIDE DEF d
<1>6. RowsOrTorn(d) /\ \A q \in Runs : HasCostRow(c, q) => HasCostRow(d, q)
    BY <1>1, <1>2 DEF RowsOrTorn, HasCostRow
<1>7. ASSUME NEW form \in {"row", "torn"}
      PROVE  /\ RowsOrTorn(AppendLine(d, r, form))
             /\ form = "row" => /\ HasCostRow(AppendLine(d, r, form), r)
                               /\ \A q \in Runs : HasCostRow(d, q) => HasCostRow(AppendLine(d, r, form), q)
    <2> DEFINE e == AppendLine(d, r, form)
               line == [run |-> r, form |-> form]
    <2>1. PICK n \in Nat : n = Len(d) /\ DOMAIN d = 1..n
        BY <1>1
    <2>2. e = Append(d, line)
        BY <1>1, <1>2, <2>1, EmptySeq DEF AppendLine, HasNewline
    <2>3. line \in Lines
        BY DEF Lines, LineForms
    <2>4. Len(e) = n + 1 /\ DOMAIN e = 1..(n + 1) /\ e[n + 1] = line /\ \A i \in 1..n : e[i] = d[i]
        BY <1>1, <2>1, <2>2, <2>3, AppendProperties
    <2>5. \A i \in 1..(n + 1) : i = n + 1 \/ i \in 1..n
        OBVIOUS
    <2>6. \A i \in 1..n : i \in 1..(n + 1) /\ d[i].form = "row"
        BY <1>2, <2>1
    <2>7. line.run = r /\ line.form = form /\ n + 1 \in 1..(n + 1)
        BY <2>1
    <2> HIDE DEF e, line
    <2>8. RowsOrTorn(e)
        BY <2>4, <2>5, <2>6, <2>7 DEF RowsOrTorn
    <2>9. form = "row" => Readable(e)
        BY <2>4, <2>5, <2>6, <2>7 DEF Readable, Parses
    <2>10. \E i \in DOMAIN e : e[i].run = r
        BY <2>4, <2>7
    <2>11. \A q \in Runs : HasCostRow(d, q) => \E i \in DOMAIN e : e[i].run = q
        BY <2>1, <2>4, <2>6 DEF HasCostRow
    <2> QED BY <2>8, <2>9, <2>10, <2>11 DEF HasCostRow, e
<1> QED BY <1>4, <1>5, <1>6, <1>7

CostInv ==
    /\ RowsOrTorn(costs)
    /\ \A r \in Runs \ Outstanding : IsTerminal(r) => HasCostRow(costs, r)

\* The cost row is written, or torn.
LEMMA CostRowStep ==
    ASSUME Clean, TypeInv, OutputsInv, CostInv, pc = "cost"
    PROVE  /\ costs' = AppendCost(costs, cur) \/ costs' \in TornCosts(costs, cur, CostTears) => RowsOrTorn(costs')
           /\ costs' = AppendCost(costs, cur) =>
                  /\ HasCostRow(costs', cur)
                  /\ \A q \in Runs : HasCostRow(costs, q) => HasCostRow(costs', q)
<1>1. cur \in Runs /\ costs \in Seq(Lines) /\ LinesSound(costs) /\ RowsOrTorn(costs)
    BY DEF TypeInv, TypeOK, HoldsRun, OutputsInv, FilesSound, CostInv
<1> QED BY <1>1, CostKeeps

LEMMA CostNext ==
    Clean /\ LedgerInv /\ PhaseInv /\ OutputsInv /\ CostInv /\ [Next]_vars => CostInv'
<1> SUFFICES ASSUME Clean, LedgerInv, PhaseInv, OutputsInv, CostInv, [Next]_vars PROVE CostInv'
    OBVIOUS
<1>0. TypeInv
    BY DEF LedgerInv
<1>1. CASE Quiet
    <2>1. /\ UNCHANGED costs /\ \A r \in Runs : runs'[r].status = runs[r].status
          /\ \A r \in Runs : r \in Outstanding /\ IsTerminal(r) /\ r \notin Outstanding' => ~NeedsOutputs(r)
        BY <1>0, <1>1, QuietStep DEF files
    <2> QED BY <2>1 DEF CostInv, IsTerminal, NeedsOutputs, RowsOrTorn
<1>2. CASE Closing
    <2>1. UNCHANGED costs /\ Outstanding' = Runs
        BY <1>2, ClosingStep DEF files
    <2> QED BY <2>1 DEF CostInv, RowsOrTorn
<1>3. ASSUME NEW r \in Runs, CreateRun(r)
      PROVE  CostInv'
    <2>1. /\ runs' = [runs EXCEPT ![r].status = "RUNNING"] /\ UNCHANGED costs
          /\ Outstanding = {} /\ Outstanding' = {r}
        BY <1>3 DEF CreateRun, Outstanding, files, Executing
    <2>2. \A q \in Runs : q # r => runs'[q] = runs[q]
        BY <1>0, <2>1 DEF TypeInv, TypeOK
    <2> QED BY <2>1, <2>2 DEF CostInv, IsTerminal, RowsOrTorn
<1>4. CASE WriteReport
    <2>1. UNCHANGED <<runs, costs>> /\ Outstanding' = Outstanding
        BY <1>4 DEF WriteReport, ledger, memory, Outstanding, Executing
    <2> QED BY <2>1 DEF CostInv, IsTerminal, RowsOrTorn
<1>5. CASE WriteCost
    <2>1. UNCHANGED runs /\ pc = "cost" /\ costs' = AppendCost(costs, cur)
        BY <1>5 DEF WriteCost, ledger
    <2>2. \A r \in Runs \ Outstanding' : r = cur \/ r \notin Outstanding
        BY <1>5 DEF WriteCost, Exit, Outstanding, Executing
    <2>3. /\ RowsOrTorn(costs') /\ HasCostRow(costs', cur)
          /\ \A q \in Runs : HasCostRow(costs, q) => HasCostRow(costs', q)
        BY <1>0, <2>1, CostRowStep
    <2> QED BY <2>1, <2>2, <2>3 DEF CostInv, IsTerminal
<1>6. CASE Raise \/ Crash
    <2>1. Outstanding' = Runs /\ Interrupted
        BY <1>6 DEF Raise, Crash, Exit, ledger, Outstanding, Executing
    <2>2. RowsOrTorn(costs')
        BY <1>0, <2>1, CostRowStep DEF Interrupted, CostInv, files
    <2> QED BY <2>1, <2>2 DEF CostInv
<1> QED BY <1>1, <1>2, <1>3, <1>4, <1>5, <1>6 DEF Next, Progress, Invocation, Run, Quiet, Closing

----------------------------------------------------------------------------
LEMMA BackfillInit == Init => PhaseInv /\ ReportInv /\ CostInv
<1> SUFFICES ASSUME Init PROVE PhaseInv /\ ReportInv /\ CostInv
    OBVIOUS
<1>1. PhaseInv
    BY DEF Init, PhaseInv, HoldsRun, Executing
<1>2. Outstanding = Runs
    BY DEF Init, Outstanding, Executing
<1>3. ReportInv /\ CostInv
    BY <1>2 DEF Init, NoRecord, ReportInv, CostInv, FragmentIsTrailing, RowsOrTorn
<1> QED BY <1>1, <1>3

\* While a run executes, every other closed run is on file, and a torn section
\* is the last thing in FINDINGS.md: whatever crashes and torn writes came
\* before, as long as every invocation recovers first and no tear leaves a line
\* that lost only its newline.
THEOREM BackfillIsSound ==
    ASSUME Recovers, Clean
    PROVE  Spec => []BackfillSound
<1>1. ReportInv /\ CostInv => BackfillSound
    BY DEF ReportInv, CostInv, Outstanding, Executing, BackfillSound, BackfillComplete
<1>2. LedgerInv /\ PhaseInv /\ [Next]_vars => PhaseInv'
    BY PhaseNext
<1>3. LedgerInv /\ PhaseInv /\ OutputsInv /\ CostInv /\ [Next]_vars => CostInv'
    BY CostNext
<1>4. LedgerInv /\ OutputsInv /\ [Next]_vars => OutputsInv'
    BY OutputsNext DEF LedgerInv
<1> QED BY <1>1, <1>2, <1>3, <1>4, LedgerInit, LedgerNext, OutputsInit, BackfillInit, ReportNext,
           PTL DEF Spec

----------------------------------------------------------------------------
\* History.

\* A row of the table survives as the row it is, or as a later state of it.
Survives(f, rows) ==
    \E g \in rows : IF IsOpen(f) THEN g.fp = f.fp /\ g.first = f.first /\ f.last <= g.last
                                  ELSE g = f

LEMMA RowsSurvive ==
    ASSUME LedgerInv, [Next]_vars, NEW f \in findings
    PROVE  Survives(f, findings')
<1>0. f \in Rows /\ f.last \in Int
    BY SentinelAssumption DEF LedgerInv, TypeInv, TypeOK, Rows, Runs
<1>1. CASE UNCHANGED findings
    BY <1>0, <1>1 DEF Survives
<1>2. ASSUME NEW s \in Scopes, NEW obs \in SUBSET ScopePrints(s), Confirm(s, obs)
      PROVE  Survives(f, findings')
    <2> DEFINE g == IF IsOpen(f) /\ f.fp \in obs THEN [f EXCEPT !.last = cur] ELSE f
    <2>1. g \in findings'
        BY <1>2 DEF Confirm, ApplyObserved
    <2>2. f.last <= cur
        <3>1. tasks[f.last][ScopeOf[f.fp]] = "DONE" /\ f.last \in Runs /\ ScopeOf[f.fp] \in Scopes
            BY <1>0, SentinelAssumption DEF LedgerInv, RowInv, SightingsAreDone, Rows
        <3> QED BY <1>2, <3>1, DoneNotLater DEF Confirm, Executing
    <2>3. IF IsOpen(f) THEN g.fp = f.fp /\ g.first = f.first /\ f.last <= g.last ELSE g = f
        BY <1>0, <2>2 DEF Rows
    <2> HIDE DEF g
    <2> QED BY <2>1, <2>3 DEF Survives
<1>3. CASE Resolve
    <2> DEFINE g == IF IsOpen(f) /\ ScopeOf[f.fp] \in done /\ f.fp \notin observed
                    THEN [f EXCEPT !.resolved = cur] ELSE f
    <2>1. g \in findings'
        BY <1>3 DEF Resolve, ResolveAbsent
    <2>2. IF IsOpen(f) THEN g.fp = f.fp /\ g.first = f.first /\ f.last <= g.last ELSE g = f
        BY <1>0 DEF Rows
    <2> HIDE DEF g
    <2> QED BY <2>1, <2>2 DEF Survives
<1>4. \/ UNCHANGED findings \/ Resolve
      \/ \E s \in Scopes : \E obs \in SUBSET ScopePrints(s) : Confirm(s, obs)
    BY DEF Next, Progress, Invocation, Run, StartRun, RecoverOne, Reconcile, CreateRun, RecoverDone,
           ListTerminal, ReconcileDone, Enumerate, Claim, DeadLetter, CloseRun, FailRun, WriteReport,
           ReportUnreadable, WriteCost, CreateConflict, StartRecover, Raise, Crash, vars, ledger
<1> QED BY <1>1, <1>2, <1>3, <1>4

\* No step of any process, and no crash or torn write, loses or rewrites what
\* was committed: rows only move on and are frozen once RESOLVED, and a whole
\* section stays where it is, as long as every invocation recovers first.
THEOREM HistoryIsKept ==
    ASSUME Recovers
    PROVE  Spec => HistoryKept
<1>1. LedgerInv /\ PhaseInv /\ OutputsInv /\ ReportInv /\ [Next]_vars =>
          [/\ \A f \in findings : \E g \in findings' :
                  IF IsOpen(f) THEN g.fp = f.fp /\ g.first = f.first /\ f.last <= g.last
                               ELSE g = f
           /\ \A i \in DOMAIN report : report[i].form = "whole" =>
                  i \in DOMAIN report' /\ report'[i] = report[i]]_vars
    BY RowsSurvive, ReportGrows DEF Survives, WholeStay
<1>2. LedgerInv /\ PhaseInv /\ [Next]_vars => PhaseInv'
    BY PhaseNext
<1>3. LedgerInv /\ OutputsInv /\ [Next]_vars => OutputsInv'
    BY OutputsNext DEF LedgerInv
<1> QED BY <1>1, <1>2, <1>3, LedgerInit, LedgerNext, OutputsInit, BackfillInit, ReportNext,
           PTL DEF Spec, HistoryKept

=============================================================================
