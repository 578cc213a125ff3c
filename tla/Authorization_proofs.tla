-------------------------- MODULE Authorization_proofs --------------------------
(* Theorems about the one replacement authorization: that it is used once     *)
(* (ReplacementAdmission, for any number of runs and attempts, any floor and  *)
(* any set of commits) and that the commit it is made by rests on retained    *)
(* and fresh evidence (FinalReadiness, for any ages and any numbers of probes *)
(* and of authorize commands).                                                *)
EXTENDS ReplacementAdmission, FinalReadiness, SequenceTheorems, TLAPS

\* What an attempt is made of.
LEMMA AttemptParts ==
    /\ \A x \in Attempts : x[1] \in Runs /\ x[2] \in 1..MaxRunAttempts /\ x = <<x[1], x[2]>>
    /\ \A r \in Runs, a \in 1..MaxRunAttempts :
          <<r, a>> \in Attempts /\ <<r, a>>[1] = r /\ <<r, a>>[2] = a
    /\ \A r \in Runs : First(r) \in Attempts /\ First(r) = <<r, 1>>
BY AdmissionAssumption DEF Attempts, First

----------------------------------------------------------------------------
\* The jobs' control.

\* An attempt that was not dispatched does nothing; one that began to upload
\* the marker is past that point for good.
ControlInv ==
    /\ \A x \in Attempts : latest[x[1]] < x[2] => pc[x] = "none"
    /\ \A x \in consumed : pc[x] \in {"marker", "execute", "provider", "done"}

TypeInv == TypeOK /\ ControlInv

\* What a step of a job does to the job: it had begun, it is not undone.
LEMMA JobStep ==
    ASSUME TypeInv, NEW x \in Attempts, Job(x)
    PROVE  /\ UNCHANGED platform
           /\ pc[x] \notin {"none", "done"}
           /\ pc'[x] \in Pcs \ {"none", "queued"}
           /\ pc' = [pc EXCEPT ![x] = pc'[x]]
           /\ late' \subseteq late \cup {x}
           /\ \/ consumed' = consumed
              \/ consumed' = consumed \cup {x} /\ pc[x] = "admitted" /\ pc'[x] = "marker"
           /\ pc[x] \in {"marker", "execute", "provider"} =>
                 pc'[x] \in {"marker", "execute", "provider", "done"}
           /\ \/ proven' = proven
              \/ /\ proven' = proven \cup {x}
                 /\ pc'[x] = "done"
                 /\ pc[x] \notin {"marker", "execute", "provider"}
                 /\ consumed' = consumed
           /\ visible' \subseteq visible \cup {x[1]}
<1> USE DEF TypeInv, TypeOK, Pcs, Inside
<1>1. CASE StartJob(x) BY <1>1 DEF StartJob, platform
<1>2. CASE Discover(x) BY <1>2 DEF Discover, platform
<1>3. CASE ListRuns(x) BY <1>3 DEF ListRuns, platform
<1>4. CASE Decide(x) BY <1>4 DEF Decide, platform
<1>5. CASE PreflightFails(x) BY <1>5 DEF PreflightFails, Finish, platform
<1>6. CASE StartMarker(x) BY <1>6 DEF StartMarker, platform
<1>7. CASE MarkerUploaded(x) BY <1>7 DEF MarkerUploaded, platform
<1>8. CASE MarkerFails(x) BY <1>8 DEF MarkerFails, Finish, platform
<1>9. CASE StartProvider(x) BY <1>9 DEF StartProvider, platform
<1>10. CASE ExecuteEnds(x) BY <1>10 DEF ExecuteEnds, Finish, platform
<1>11. CASE Interrupted(x) BY <1>11 DEF Interrupted, Finish, platform
<1> QED
    BY <1>1, <1>2, <1>3, <1>4, <1>5, <1>6, <1>7, <1>8, <1>9, <1>10, <1>11 DEF Job

\* The listing a job holds is made of attempt numbers.
LEMMA SeenType ==
    ASSUME TypeInv, NEW x \in Attempts, Job(x)
    PROVE  seen' \in [Attempts -> [Runs -> 0..MaxRunAttempts]]
<1> USE DEF TypeInv, TypeOK
<1>1. Nothing \in [Runs -> 0..MaxRunAttempts]
    BY AdmissionAssumption DEF Nothing
<1>2. \/ seen' = seen
      \/ seen' = [seen EXCEPT ![x] = latest]
      \/ seen' = [seen EXCEPT ![x] = Nothing]
    BY DEF Job, StartJob, Discover, ListRuns, Decide, PreflightFails, StartMarker, MarkerUploaded,
           MarkerFails, StartProvider, ExecuteEnds, Interrupted, Finish
<1> QED BY <1>1, <1>2

\* What the platform does to the jobs: it only queues an attempt of its own.
LEMMA PlatformStep ==
    ASSUME TypeInv, Platform
    PROVE  /\ UNCHANGED <<late, seen, proven, consumed>>
           /\ visible' \subseteq visible
           /\ head' \in Sources /\ closed' \in BOOLEAN
           /\ source' \in [Runs -> Sources]
           /\ deleted' \subseteq Runs
           /\ \/ UNCHANGED <<latest, pc>>
              \/ \E r \in Runs :
                    /\ latest[r] < MaxRunAttempts
                    /\ latest' = [latest EXCEPT ![r] = @ + 1]
                    /\ pc' = [pc EXCEPT ![<<r, latest[r] + 1>>] = "queued"]
<1> USE DEF TypeInv, TypeOK
<1>1. ASSUME NEW r \in Runs, Dispatch(r)
      PROVE  /\ latest[r] < MaxRunAttempts
             /\ latest' = [latest EXCEPT ![r] = @ + 1]
             /\ pc' = [pc EXCEPT ![<<r, latest[r] + 1>>] = "queued"]
    BY <1>1, AdmissionAssumption DEF Dispatch, First
<1>2. CASE \E r \in Runs : Dispatch(r)
    <2>1. PICK r \in Runs : Dispatch(r)
        BY <1>2
    <2>2. source' \in [Runs -> Sources] /\ UNCHANGED <<head, closed, deleted, late, seen, proven, consumed, visible>>
        BY <2>1 DEF Dispatch
    <2> QED BY <1>1, <2>1, <2>2
<1>3. CASE \E r \in Runs : Rerun(r) BY <1>3 DEF Rerun
<1>4. CASE \E r \in Runs : Delete(r) \/ Expire(r)
    BY <1>4 DEF Delete, Expire, platform
<1>5. CASE (\E s \in Sources : Push(s)) \/ Close BY <1>5 DEF Push, Close
<1> QED BY <1>2, <1>3, <1>4, <1>5 DEF Platform

\* TypeOK with ControlInv is inductive.
LEMMA TypeInductive == Spec => []TypeInv
<1>1. Init => TypeInv
    <2> SUFFICES ASSUME Init PROVE TypeInv
        OBVIOUS
    <2>1. latest \in [Runs -> 0..MaxRunAttempts]
        BY AdmissionAssumption DEF Init
    <2>2. Nothing \in [Runs -> 0..MaxRunAttempts]
        BY AdmissionAssumption DEF Nothing
    <2>3. pc \in [Attempts -> Pcs]
        BY DEF Init, Pcs
    <2>4. TypeOK
        BY <2>1, <2>2, <2>3 DEF Init, TypeOK
    <2>5. ASSUME NEW x \in Attempts, latest[x[1]] < x[2] PROVE pc[x] = "none"
        <3>1. x[1] \in Runs /\ x[2] \in Nat
            BY AttemptParts
        <3>2. latest[x[1]] = IF x[1] <= Floor THEN 1 ELSE 0
            BY <3>1 DEF Init
        <3>3. pc[x] = IF x[1] <= Floor /\ x[2] = 1 THEN "done" ELSE "none"
            BY DEF Init
        <3> QED BY <2>5, <3>1, <3>2, <3>3
    <2>6. ControlInv
        BY <2>5 DEF Init, ControlInv
    <2> QED BY <2>4, <2>6 DEF TypeInv
<1>2. TypeInv /\ [Next]_vars => TypeInv'
    <2> SUFFICES ASSUME TypeInv, [Next]_vars PROVE TypeInv'
        OBVIOUS
    <2>1. CASE Platform
        <3>1. CASE UNCHANGED <<latest, pc>>
            BY <2>1, <3>1, PlatformStep DEF TypeInv, TypeOK, ControlInv
        <3>2. CASE ~UNCHANGED <<latest, pc>>
            <4>1. PICK r \in Runs :
                     /\ latest[r] < MaxRunAttempts
                     /\ latest' = [latest EXCEPT ![r] = @ + 1]
                     /\ pc' = [pc EXCEPT ![<<r, latest[r] + 1>>] = "queued"]
                BY <2>1, <3>2, PlatformStep
            <4> DEFINE y == <<r, latest[r] + 1>>
            <4>2. latest[r] \in Nat /\ latest[r] + 1 \in 1..MaxRunAttempts
                BY <4>1, AdmissionAssumption DEF TypeInv, TypeOK
            <4>3. y \in Attempts /\ y[1] = r /\ y[2] = latest[r] + 1
                BY <4>2, AttemptParts
            <4>4. pc[y] = "none"
                BY <4>2, <4>3 DEF TypeInv, ControlInv
            <4>5. y \notin consumed /\ y \notin proven
                BY <4>4 DEF TypeInv, TypeOK, ControlInv
            <4> HIDE DEF y
            <4>6. pc' = [pc EXCEPT ![y] = "queued"]
                BY <4>1 DEF y
            <4>7. TypeOK'
                <5>1. /\ UNCHANGED <<late, seen, proven, consumed>>
                      /\ visible' \subseteq visible
                      /\ head' \in Sources /\ closed' \in BOOLEAN
                      /\ source' \in [Runs -> Sources]
                      /\ deleted' \subseteq Runs
                    BY <2>1, PlatformStep
                <5>2. latest' \in [Runs -> 0..MaxRunAttempts]
                    BY <4>1, <4>2, AdmissionAssumption DEF TypeInv, TypeOK
                <5>3. pc' \in [Attempts -> Pcs]
                    BY <4>3, <4>6 DEF TypeInv, TypeOK, Pcs
                <5>4. proven' \subseteq {z \in Attempts : pc'[z] = "done" /\ z \notin consumed'}
                    BY <4>5, <4>6, <5>1 DEF TypeInv, TypeOK
                <5> QED BY <5>1, <5>2, <5>3, <5>4 DEF TypeInv, TypeOK
            <4>8. ASSUME NEW z \in Attempts, latest'[z[1]] < z[2] PROVE pc'[z] = "none"
                <5>1. z[1] \in Runs /\ z[2] \in Nat
                    BY AttemptParts
                <5>2. latest[z[1]] <= latest'[z[1]]
                    BY <4>1, <4>2, <5>1 DEF TypeInv, TypeOK
                <5>3. z # y
                    BY <4>1, <4>2, <4>3, <4>8 DEF TypeInv, TypeOK
                <5>4. latest[z[1]] \in Nat /\ latest'[z[1]] \in Nat
                    BY <4>1, <4>2, <5>1 DEF TypeInv, TypeOK
                <5> QED BY <4>6, <4>8, <5>1, <5>2, <5>3, <5>4 DEF TypeInv, TypeOK, ControlInv
            <4>9. ControlInv'
                BY <2>1, <4>5, <4>6, <4>8, PlatformStep DEF TypeInv, TypeOK, ControlInv
            <4> QED BY <4>7, <4>9 DEF TypeInv
        <3> QED BY <3>1, <3>2
    <2>2. CASE \E x \in Attempts : Job(x)
        <3>1. PICK x \in Attempts : Job(x)
            BY <2>2
        <3>2. x[1] \in Runs
            BY AttemptParts
        <3>3. x \notin proven
            BY <3>1, JobStep DEF TypeInv, TypeOK
        <3>4. TypeOK'
            BY <3>1, <3>2, <3>3, JobStep, SeenType DEF TypeInv, TypeOK, ControlInv, platform
        <3>5. /\ latest' = latest
              /\ pc[x] # "none" /\ pc' = [pc EXCEPT ![x] = pc'[x]]
            BY <3>1, JobStep DEF platform
        <3>6. \A z \in Attempts : latest'[z[1]] < z[2] => pc'[z] = "none"
            BY <3>5 DEF TypeInv, TypeOK, ControlInv
        <3>7. \A z \in consumed' : pc'[z] \in {"marker", "execute", "provider", "done"}
            <4>1. x \in consumed' => pc'[x] \in {"marker", "execute", "provider", "done"}
                BY <3>1, JobStep DEF TypeInv, TypeOK, ControlInv
            <4>2. consumed' \subseteq consumed \cup {x}
                BY <3>1, JobStep
            <4> QED BY <3>5, <4>1, <4>2 DEF TypeInv, TypeOK, ControlInv
        <3>8. ControlInv'
            BY <3>6, <3>7 DEF ControlInv
        <3> QED BY <3>4, <3>8 DEF TypeInv
    <2>3. CASE UNCHANGED vars
        BY <2>3 DEF TypeInv, TypeOK, ControlInv, vars, platform
    <2> QED BY <2>1, <2>2, <2>3 DEF Next
<1> QED BY <1>1, <1>2, PTL DEF Spec

\* The type invariant of ReplacementAdmission, with the truth of what GitHub
\* reports of a failed job.
THEOREM AdmissionTypes == Spec => []TypeOK
BY TypeInductive, PTL DEF TypeInv

----------------------------------------------------------------------------
\* One admission.

\* A listing that let a preflight go on has every earlier run in it.
ListedInv ==
    \A x \in Attempts : pc[x] = "listed" => \A n \in Earlier(x[1]) : seen[x][n] >= 1

\* Whoever holds the authorization is the first attempt of a run above the
\* floor, and the first attempt of every run between is over and never held
\* it: so no two attempts can both be the holder.
HolderInv ==
    \A x \in Attempts : Holds(x) =>
        /\ x = First(x[1])
        /\ x[1] \in Runs /\ Floor < x[1]
        /\ \A n \in Earlier(x[1]) : pc[First(n)] = "done" /\ First(n) \notin consumed

AdmissionInv == ListedInv /\ HolderInv

\* The holder is unique whenever HolderInv holds.
LEMMA HolderUnique == ASSUME TypeInv, HolderInv PROVE OneAdmission
<1> SUFFICES ASSUME NEW x \in Attempts, NEW y \in Attempts, Holds(x), Holds(y), x # y
             PROVE  FALSE
    BY DEF OneAdmission
<1>1. ASSUME NEW u \in Attempts, NEW v \in Attempts, Holds(u), Holds(v), u[1] < v[1]
      PROVE  FALSE
    <2>1. u[1] \in Earlier(v[1]) /\ u = First(u[1])
        BY <1>1 DEF HolderInv, Earlier
    <2>2. pc[u] = "done" /\ u \notin consumed
        BY <1>1, <2>1 DEF HolderInv
    <2> QED BY <1>1, <2>2 DEF Holds, Inside
<1>2. x[1] \in Int /\ y[1] \in Int /\ x = First(x[1]) /\ y = First(y[1])
    BY DEF HolderInv, Runs
<1>3. x[1] # y[1]
    BY <1>2
<1> QED BY <1>1, <1>2, <1>3

\* A job becomes a holder only by a decision, and then every earlier run is
\* accounted for.
LEMMA NewHolder ==
    ASSUME TypeInv, AdmissionInv, NEW x \in Attempts, Job(x), Holds(x)', ~Holds(x)
    PROVE  /\ Decide(x)
           /\ x = First(x[1]) /\ x[1] \in Runs /\ Floor < x[1]
           /\ \A n \in Earlier(x[1]) : pc[First(n)] = "done" /\ First(n) \notin consumed
<1> USE DEF TypeInv, TypeOK
<1>1. Decide(x)
    <2>1. pc[x] \notin Inside /\ x \notin consumed /\ (pc'[x] \in Inside \/ x \in consumed')
        BY DEF Holds
    <2> QED BY <2>1 DEF Inside, Job, StartJob, Discover, ListRuns, PreflightFails, StartMarker,
               MarkerUploaded, MarkerFails, StartProvider, ExecuteEnds, Interrupted, Finish
<1>2. x = First(x[1]) /\ x[1] \in Runs /\ Floor < x[1]
    BY <1>1, AttemptParts, AdmissionAssumption DEF Decide, First, Runs
<1>3. ASSUME NEW n \in Earlier(x[1]) PROVE pc[First(n)] = "done" /\ First(n) \notin consumed
    <2>1. n \in Runs /\ seen[x][n] >= 1
        BY <1>1, <1>3 DEF Decide, AdmissionInv, ListedInv, Earlier
    <2>2. seen[x][n] \in Nat
        BY <2>1, AdmissionAssumption
    <2>3. 1 \in 1..seen[x][n]
        BY <2>1, <2>2
    <2>4. <<n, 1>> \in proven
        BY <1>1, <1>3, <2>3 DEF Decide
    <2> QED BY <2>4 DEF First
<1> QED BY <1>1, <1>2, <1>3

\* Both parts are kept by every step.
LEMMA AdmissionStep ==
    ASSUME TypeInv, AdmissionInv, [Next]_vars
    PROVE  AdmissionInv'
<1>1. CASE Platform
    <2>1. UNCHANGED <<seen, consumed>>
        BY <1>1, PlatformStep
    <2>2. \A z \in Attempts : pc'[z] = pc[z] \/ (pc[z] = "none" /\ pc'[z] = "queued")
        <3>1. CASE UNCHANGED pc
            BY <3>1
        <3>2. CASE ~UNCHANGED pc
            <4>1. PICK r \in Runs :
                     /\ latest[r] < MaxRunAttempts
                     /\ pc' = [pc EXCEPT ![<<r, latest[r] + 1>>] = "queued"]
                BY <1>1, <3>2, PlatformStep
            <4> DEFINE y == <<r, latest[r] + 1>>
            <4>2. latest[r] \in Nat /\ latest[r] + 1 \in 1..MaxRunAttempts
                BY <4>1, AdmissionAssumption DEF TypeInv, TypeOK
            <4>3. y \in Attempts /\ y[1] = r /\ y[2] = latest[r] + 1
                BY <4>2, AttemptParts
            <4>4. pc[y] = "none"
                BY <4>2, <4>3 DEF TypeInv, ControlInv
            <4> HIDE DEF y
            <4>5. pc' = [pc EXCEPT ![y] = "queued"]
                BY <4>1 DEF y
            <4> QED BY <4>3, <4>4, <4>5 DEF TypeInv, TypeOK
        <3> QED BY <3>1, <3>2
    <2>3. ListedInv'
        BY <2>1, <2>2 DEF AdmissionInv, ListedInv
    <2>4. \A z \in Attempts : Holds(z)' => Holds(z)
        BY <2>1, <2>2 DEF Holds, Inside
    <2>5. \A r \in Runs : pc[First(r)] = "done" => pc'[First(r)] = "done"
        BY <2>2, AttemptParts
    <2>6. HolderInv'
        BY <2>1, <2>4, <2>5 DEF AdmissionInv, HolderInv, Earlier
    <2> QED BY <2>3, <2>6 DEF AdmissionInv
<1>2. CASE \E x \in Attempts : Job(x)
    <2>1. PICK x \in Attempts : Job(x)
        BY <1>2
    <2>2. /\ pc[x] # "done" /\ pc' = [pc EXCEPT ![x] = pc'[x]]
          /\ consumed' \subseteq consumed \cup {x} /\ consumed \subseteq consumed'
        BY <2>1, JobStep
    <2>3. ListedInv'
        <3>1. \A z \in Attempts \ {x} : seen'[z] = seen[z]
            BY <2>1 DEF TypeInv, TypeOK, Job, StartJob, Discover, ListRuns, Decide, PreflightFails,
               StartMarker, MarkerUploaded, MarkerFails, StartProvider, ExecuteEnds, Interrupted, Finish
        <3>2. ASSUME pc'[x] = "listed" PROVE \A n \in Earlier(x[1]) : seen'[x][n] >= 1
            <4>1. ListRuns(x)
                BY <2>1, <2>2, <3>2
                DEF TypeInv, TypeOK, Job, StartJob, Discover, Decide, PreflightFails, StartMarker,
                    MarkerUploaded, MarkerFails, StartProvider, ExecuteEnds, Interrupted, Finish
            <4>2. seen'[x] = latest
                BY <4>1 DEF ListRuns, TypeInv, TypeOK
            <4>3. \A n \in Earlier(x[1]) : latest[n] \in Nat /\ latest[n] > 0
                <5>1. \A n \in Earlier(x[1]) : n \in Runs /\ latest[n] > 0
                    BY <4>1 DEF ListRuns, Over, Earlier
                <5> QED BY <5>1, AdmissionAssumption DEF TypeInv, TypeOK
            <4> QED BY <4>2, <4>3
        <3> QED BY <2>2, <3>1, <3>2 DEF TypeInv, TypeOK, AdmissionInv, ListedInv
    <2>4. \A n \in Runs : pc[First(n)] = "done" /\ First(n) \notin consumed =>
                             pc'[First(n)] = "done" /\ First(n) \notin consumed'
        BY <2>2, AttemptParts DEF TypeInv, TypeOK
    <2>5. \A z \in Attempts \ {x} : Holds(z)' => Holds(z)
        BY <2>2 DEF TypeInv, TypeOK, Holds, Inside
    <2>6. Holds(x)' =>
             /\ x = First(x[1]) /\ x[1] \in Runs /\ Floor < x[1]
             /\ \A n \in Earlier(x[1]) : pc[First(n)] = "done" /\ First(n) \notin consumed
        BY <2>1, NewHolder DEF AdmissionInv, HolderInv
    <2>7. HolderInv'
        BY <2>4, <2>5, <2>6 DEF AdmissionInv, HolderInv, Earlier
    <2> QED BY <2>3, <2>7 DEF AdmissionInv
<1>3. CASE UNCHANGED vars
    BY <1>3 DEF vars, AdmissionInv, ListedInv, HolderInv, Holds
<1> QED BY <1>1, <1>2, <1>3 DEF Next

\* The authorization is used at most once (latch.py, latch_verdict), whatever
\* GitHub forgets and however the jobs interleave.
THEOREM AtMostOneAdmission == Spec => []OneAdmission
<1>1. Init => AdmissionInv
    BY DEF Init, AdmissionInv, ListedInv, HolderInv, Holds, Inside
<1>2. TypeInv /\ AdmissionInv /\ [Next]_vars => AdmissionInv'
    BY AdmissionStep
<1>3. TypeInv /\ AdmissionInv => OneAdmission
    BY HolderUnique DEF AdmissionInv
<1> QED BY <1>1, <1>2, <1>3, TypeInductive, PTL DEF Spec

\* Nobody is admitted once GitHub's clock has reached the close.
THEOREM ClosedIsClosed == Spec => NoneAfterClose
<1>1. TypeInv /\ AdmissionInv /\ [Next]_vars
        => [closed => \A x \in Attempts : Holds(x)' => Holds(x)]_vars
    <2> SUFFICES ASSUME TypeInv, AdmissionInv, [Next]_vars, closed,
                        NEW y \in Attempts, Holds(y)', ~Holds(y)
                 PROVE  FALSE
        OBVIOUS
    <2>1. CASE \E x \in Attempts : Job(x)
        <3>1. PICK x \in Attempts : Job(x)
            BY <2>1
        <3>2. x = y
            <4>1. pc' = [pc EXCEPT ![x] = pc'[x]] /\ consumed' \subseteq consumed \cup {x}
                BY <3>1, JobStep
            <4> QED BY <4>1 DEF TypeInv, TypeOK, Holds, Inside
        <3>3. Decide(y)
            BY <3>1, <3>2, NewHolder
        <3> QED BY <3>3 DEF Decide
    <2>2. CASE Platform
        <3>1. consumed' = consumed /\ pc'[y] \in {pc[y], "queued"}
            <4>1. CASE UNCHANGED pc
                BY <2>2, <4>1, PlatformStep
            <4>2. CASE ~UNCHANGED pc
                <5>1. PICK z : pc' = [pc EXCEPT ![z] = "queued"]
                    BY <2>2, <4>2, PlatformStep
                <5> QED BY <2>2, <5>1, PlatformStep DEF TypeInv, TypeOK
            <4> QED BY <4>1, <4>2
        <3> QED BY <3>1 DEF Holds, Inside
    <2>3. CASE UNCHANGED vars
        BY <2>3 DEF vars, Holds
    <2> QED BY <2>1, <2>2, <2>3 DEF Next
<1>2. Init => AdmissionInv
    BY DEF Init, AdmissionInv, ListedInv, HolderInv, Holds, Inside
<1>3. TypeInv /\ AdmissionInv /\ [Next]_vars => AdmissionInv'
    BY AdmissionStep
<1> QED BY <1>1, <1>2, <1>3, TypeInductive, PTL DEF Spec, NoneAfterClose

----------------------------------------------------------------------------
(* From the readiness source to commit A.                                    *)

\* What a record says of its probe and of the order it was read in.
Accounted(d) ==
    /\ d.attempt \in DOMAIN probes /\ d.attempt <= MaxAttempts
    /\ d.created = probes[d.attempt].created
    /\ d.local <= d.read /\ d.read <= now

\* A record that passed the verdict at its one server time, with the part of its
\* window that freshness rests on.
Passed(d) ==
    /\ d.pass = Components /\ AnchorsHold(d) /\ DriftAdjudicated
    /\ \A t \in {d.local, d.opened, d.closed, d.web} : d.floor <= t /\ t <= d.at
    /\ d.read <= d.at /\ d.at <= d.floor + PrePush

\* The types, by what a step changes.
Copies == (Draft \cup {None}) \X (Draft \cup {None})
Commits == [line : Draft \cup {None}, at : Times]

\* Everything that is no sequence.
FlatInv ==
    /\ now \in Times /\ go \in Times /\ ci \in Times /\ ruled \in 0..Never /\ differs \in BOOLEAN
    /\ armed \in BOOLEAN /\ (baseline = None \/ baseline \in [Components -> Status])
    /\ readback = None \/ readback \in Readback
    /\ draft \in Draft \cup {None}
    /\ step \in {"idle", "checked", "frozen", "bound", "appended"}
    /\ (step = "idle") = (doc = None) /\ doc \in Draft \cup {None}
    /\ kept \subseteq Draft
    /\ {latch, headLine, confirmed} \subseteq Draft \cup {None}

SeqInv ==
    /\ probes \in Seq(Probe) /\ Len(probes) <= MaxProbes
    /\ pairs \in Seq(Copies) /\ Len(pairs) <= MaxPairs
    /\ main \in Seq(Commits)

\* A line comes from a record that was kept, and what is confirmed is the line
\* that HEAD carries, pushed in time.
RecordInv ==
    /\ draft # None => Accounted(draft)
    /\ doc # None => Accounted(doc)
    /\ step \in {"frozen", "bound", "appended"} => Passed(doc)
    /\ step \in {"bound", "appended"} => doc \in kept
    /\ \A d \in kept : Accounted(d) /\ Passed(d)
    /\ \A l \in Lines \ {None} : l \in kept
    /\ confirmed # None =>
          /\ confirmed = headLine /\ main # <<>> /\ main[1].line = confirmed
          /\ PushedInTime(confirmed, main[1].at)

\* They amount to ReadinessTypeOK.
LEMMA TypesFollow == FlatInv /\ SeqInv => ReadinessTypeOK
<1> SUFFICES ASSUME FlatInv, SeqInv PROVE ReadinessTypeOK
    OBVIOUS
<1>1. \A i \in DOMAIN probes : probes[i] \in Probe
    BY DEF SeqInv
<1>2. \A p \in DOMAIN pairs : \A i \in 1..2 : pairs[p][i] = None \/ pairs[p][i] \in Draft
    <2>1. \A c \in Copies : \A i \in {1, 2} : c[i] \in Draft \cup {None}
        BY DEF Copies
    <2>2. \A p \in DOMAIN pairs : pairs[p] \in Copies
        BY DEF SeqInv
    <2>3. 1..2 = {1, 2}
        OBVIOUS
    <2> QED BY <2>1, <2>2, <2>3
<1>3. \A i \in DOMAIN main : main[i].at \in Times /\ (main[i].line = None \/ main[i].line \in Draft)
    <2>1. \A c \in Commits : c.at \in Times /\ c.line \in Draft \cup {None}
        BY DEF Commits
    <2>2. \A i \in DOMAIN main : main[i] \in Commits
        BY DEF SeqInv
    <2> QED BY <2>1, <2>2
<1> QED BY <1>1, <1>2, <1>3 DEF ReadinessTypeOK, FlatInv, SeqInv

\* The type of a field of a record.
LEMMA DraftFields ==
    ASSUME NEW d \in Draft
    PROVE  /\ d.attempt \in 1..MaxProbes /\ d.created \in Times /\ d.floor \in 0..Never
           /\ d.local \in Times /\ d.read \in Times /\ d.opened \in Times /\ d.closed \in Times
           /\ d.web \in Times /\ d.pass \in SUBSET Components /\ d.at \in 0..Never
BY DEF Draft

\* The same of a probe.
LEMMA ProbeFields ==
    ASSUME NEW q \in Probe PROVE q.created \in Times /\ q.floor \in 0..Never /\ q.pass \in BOOLEAN
BY DEF Probe

\* Numbers.
LEMMA Clock ==
    /\ \A t \in Times : t \in Nat /\ t \in 0..Never /\ t <= MaxTime
    /\ \A t \in Times : t < MaxTime => t + 1 \in Times
    /\ \A t \in Times : t + 1 \in 0..Never
    /\ \A t \in Times : 1 <= t => t - 1 \in Times
    /\ \A t \in 0..Never : t \in Nat
    /\ 0 \in Times /\ 1..MaxProbes \subseteq Nat /\ Never \in 0..Never
BY ReadinessAssumption DEF Times, Never

\* What Append does to a sequence over S.
LEMMA AppendGrows ==
    ASSUME NEW S, NEW s \in Seq(S), NEW e \in S
    PROVE  /\ Append(s, e) \in Seq(S) /\ Len(Append(s, e)) = Len(s) + 1
           /\ DOMAIN s \subseteq DOMAIN Append(s, e) /\ \A i \in DOMAIN s : Append(s, e)[i] = s[i]
           /\ Len(Append(s, e)) \in DOMAIN Append(s, e) /\ Append(s, e)[Len(s) + 1] = e
OBVIOUS

\* An element of a sequence is replaced by another of S.
LEMMA ReplaceInSeq ==
    ASSUME NEW S, NEW s \in Seq(S), NEW i, NEW e \in S
    PROVE  [s EXCEPT ![i] = e] \in Seq(S) /\ Len([s EXCEPT ![i] = e]) = Len(s)
<1>1. CASE i \in 1..Len(s)
    BY <1>1, ExceptSeq
<1>2. CASE i \notin 1..Len(s)
    <2>1. DOMAIN s = 1..Len(s) /\ s = [j \in DOMAIN s |-> s[j]]
        OBVIOUS
    <2>2. [s EXCEPT ![i] = e] = s
        BY <1>2, <2>1
    <2> QED BY <2>2
<1> QED BY <1>1, <1>2

\* A record with its one server time.
LEMMA Stamped ==
    ASSUME NEW d \in Draft, NEW t \in Times
    PROVE  LET e == [d EXCEPT !.at = t]
           IN  /\ e \in Draft /\ e.at = t /\ e.attempt = d.attempt /\ e.created = d.created
               /\ e.floor = d.floor /\ e.local = d.local /\ e.read = d.read /\ e.opened = d.opened
               /\ e.closed = d.closed /\ e.web = d.web /\ e.pass = d.pass
BY Clock DEF Draft

\* Only components pass.
LEMMA Passings == Passing \subseteq Components
BY DEF Passing

\* Every step keeps the types.
LEMMA FlatNext == ASSUME FlatInv, SeqInv, ReadinessNext PROVE FlatInv'
<1> USE DEF readinessVars, given, evidence, tree, authorizing, Outside, Refuse
<1>1. CASE BuildBaseline \/ Arm
    <2>1. CASE BuildBaseline
        BY <2>1 DEF BuildBaseline, FlatInv, Status
    <2>2. CASE Arm
        BY <2>2 DEF Arm, FlatInv
    <2> QED BY <1>1, <2>1, <2>2
<1>2. CASE Tick
    BY <1>2, Clock DEF Tick, FlatInv
<1>3. CASE RunProbe \/ OtherCommit \/ Damage
    BY <1>3 DEF RunProbe, OtherCommit, Damage, FlatInv
<1>4. CASE ReadBack
    <2>1. readback' \in Readback
        <3>1. PICK a \in {0, 1}, b \in {0, 1}, ok \in BOOLEAN :
                  a <= now /\ b <= now
                  /\ readback' = [opened |-> now - a, closed |-> now, web |-> now - b, ok |-> ok]
            <4>1. PICK result \in {<<0, 0, TRUE>>, <<1, 1, TRUE>>, <<0, 0, FALSE>>} :
                      /\ result[1] <= now
                      /\ readback' = [opened |-> now - result[1], closed |-> now,
                                      web |-> now - result[2], ok |-> result[3]]
                BY <1>4 DEF ReadBack
            <4>2. result[1] \in {0, 1} /\ result[2] = result[1] /\ result[3] \in BOOLEAN
                <5>1. result = <<0, 0, TRUE>> \/ result = <<1, 1, TRUE>> \/ result = <<0, 0, FALSE>>
                    OBVIOUS
                <5>2. /\ <<0, 0, TRUE>>[1] = 0 /\ <<1, 1, TRUE>>[1] = 1 /\ <<0, 0, FALSE>>[1] = 0
                      /\ <<0, 0, TRUE>>[2] = 0 /\ <<1, 1, TRUE>>[2] = 1 /\ <<0, 0, FALSE>>[2] = 0
                      /\ <<0, 0, TRUE>>[3] = TRUE /\ <<1, 1, TRUE>>[3] = TRUE /\ <<0, 0, FALSE>>[3] = FALSE
                    OBVIOUS
                <5> QED BY <5>1, <5>2, Zenon
            <4> QED BY <4>1, <4>2
        <3>2. now - a \in Times /\ now - b \in Times /\ now \in Times
            BY <3>1, Clock DEF FlatInv
        <3> QED BY <3>1, <3>2 DEF Readback
    <2> QED BY <1>4, <2>1 DEF ReadBack, FlatInv
<1>5. CASE Collect
    <2>1. draft' \in Draft
        <3>1. Len(probes) \in 1..MaxProbes /\ Last(probes) \in Probe
            BY <1>5, ReadinessAssumption, ElementOfSeq DEF Collect, SeqInv, Last
        <3>2. readback.opened \in Times /\ readback.closed \in Times /\ readback.web \in Times
            BY <1>5 DEF Collect, FlatInv, Readback
        <3> QED BY <1>5, <3>1, <3>2, ProbeFields, Clock, Passings DEF Collect, FlatInv, Draft
    <2> QED BY <1>5, <2>1 DEF Collect, FlatInv
<1>6. CASE Check
    BY <1>6, ReadinessAssumption DEF Check, FlatInv
<1>7. CASE Freeze
    BY <1>7, Stamped, Clock, ReadinessAssumption DEF Freeze, FlatInv
<1>8. CASE Retain
    BY <1>8 DEF Retain, FlatInv
<1>9. CASE AppendLine
    BY <1>9 DEF AppendLine, LineOf, FlatInv
<1>10. CASE FinishAuthorize \/ Stopped
    BY <1>10 DEF FinishAuthorize, Stopped, FlatInv
<1>11. CASE PushA \/ Discard
    BY <1>11 DEF PushA, Discard, FlatInv
<1>12. CASE ConfirmA
    BY <1>12 DEF ConfirmA, FlatInv
<1> QED BY <1>1, <1>2, <1>3, <1>4, <1>5, <1>6, <1>7, <1>8, <1>9, <1>10, <1>11, <1>12
        DEF ReadinessNext, World, Authorize

LEMMA SeqNext == ASSUME FlatInv, SeqInv, ReadinessNext PROVE SeqInv'
<1> USE DEF readinessVars, given, evidence, tree, authorizing, Outside, Refuse
<1>1. CASE UNCHANGED <<probes, pairs, main>>
    BY <1>1 DEF SeqInv
<1>2. CASE RunProbe
    <2>1. PICK q : probes' = Append(probes, q) /\ q \in Probe
        <3>1. PICK result \in {<<0, TRUE>>, <<1, TRUE>>, <<0, FALSE>>} :
                  probes' = Append(probes, [created |-> now, floor |-> now + result[1], pass |-> result[2]])
            BY <1>2 DEF RunProbe
        <3>2. result[1] \in {0, 1} /\ result[2] \in BOOLEAN
            <4>1. result = <<0, TRUE>> \/ result = <<1, TRUE>> \/ result = <<0, FALSE>>
                OBVIOUS
            <4>2. /\ <<0, TRUE>>[1] = 0 /\ <<1, TRUE>>[1] = 1 /\ <<0, FALSE>>[1] = 0
                  /\ <<0, TRUE>>[2] = TRUE /\ <<1, TRUE>>[2] = TRUE /\ <<0, FALSE>>[2] = FALSE
                OBVIOUS
            <4> QED BY <4>1, <4>2, Zenon
        <3>3. now + result[1] \in 0..Never /\ now \in Times
            BY <3>2, Clock DEF FlatInv
        <3> QED BY <3>1, <3>2, <3>3 DEF Probe
    <2> QED BY <1>2, <2>1, AppendGrows, ReadinessAssumption DEF RunProbe, SeqInv
<1>3. CASE OtherCommit
    <2>1. [line |-> None, at |-> 0] \in Commits
        BY Clock DEF Commits
    <2> QED BY <1>3, <2>1, AppendGrows DEF OtherCommit, SeqInv
<1>4. CASE Damage
    <2>1. PICK p \in DOMAIN pairs : pairs' = [pairs EXCEPT ![p] = [pairs[p] EXCEPT ![1] = None]]
        BY <1>4 DEF Damage
    <2>2. \A c \in Copies : [c EXCEPT ![1] = None] \in Copies
        BY DEF Copies
    <2>3. [pairs[p] EXCEPT ![1] = None] \in Copies
        <3>1. p \in 1..Len(pairs) /\ pairs \in Seq(Copies)
            BY <2>1 DEF SeqInv
        <3>2. pairs[p] \in Copies
            BY <3>1, ElementOfSeq
        <3> QED BY <2>2, <3>2
    <2>4. pairs' \in Seq(Copies) /\ Len(pairs') = Len(pairs)
        BY <2>1, <2>3, ReplaceInSeq DEF SeqInv
    <2> QED BY <1>4, <2>4 DEF Damage, SeqInv
<1>5. CASE Check
    <2>1. <<None, None>> \in Copies
        BY DEF Copies
    <2>2. UNCHANGED pairs \/ (pairs' = Append(pairs, <<None, None>>) /\ Len(pairs) < MaxPairs)
        BY <1>5 DEF Check
    <2>3. pairs \in Seq(Copies) /\ Len(pairs) \in Nat /\ Len(pairs) <= MaxPairs /\ MaxPairs \in Nat
        BY ReadinessAssumption DEF SeqInv
    <2>4. Append(pairs, <<None, None>>) \in Seq(Copies) /\ Len(Append(pairs, <<None, None>>)) = Len(pairs) + 1
        BY <2>1, <2>3, AppendGrows
    <2>5. pairs' \in Seq(Copies) /\ Len(pairs') <= MaxPairs
        <3>1. CASE UNCHANGED pairs
            BY <2>3, <3>1
        <3>2. CASE pairs' = Append(pairs, <<None, None>>) /\ Len(pairs) < MaxPairs
            <4>1. pairs' \in Seq(Copies) /\ Len(pairs') = Len(pairs) + 1
                BY <2>4, <3>2, Zenon
            <4> QED BY <2>3, <3>2, <4>1
        <3> QED BY <2>2, <3>1, <3>2
    <2> QED BY <1>5, <2>5 DEF Check, SeqInv
<1>6. CASE Retain
    <2>1. <<doc, doc>> \in Copies /\ <<doc, None>> \in Copies
        BY DEF Copies, FlatInv
    <2>2. \E c \in Copies : pairs' = [pairs EXCEPT ![Len(pairs)] = c]
        BY <1>6, <2>1 DEF Retain
    <2>3. pairs' \in Seq(Copies) /\ Len(pairs') = Len(pairs)
        BY <2>2, ReplaceInSeq DEF SeqInv
    <2> QED BY <1>6, <2>3 DEF Retain, SeqInv
<1>7. CASE PushA
    <2>1. [line |-> latch, at |-> now] \in Commits
        BY DEF Commits, FlatInv
    <2>2. <<[line |-> latch, at |-> now]>> \in Seq(Commits)
        BY <2>1
    <2> QED BY <1>7, <2>2 DEF PushA, SeqInv
<1> QED BY <1>1, <1>2, <1>3, <1>4, <1>5, <1>6, <1>7 DEF ReadinessNext, World, Authorize, BuildBaseline, Arm, Tick,
        ReadBack, Collect, Freeze, AppendLine, FinishAuthorize, Stopped, Discard, ConfirmA

\* What is given stays, and with it what passed the verdict.
LEMMA GivenStay == ASSUME ReadinessNext PROVE UNCHANGED given
BY DEF readinessVars, given, evidence, tree, authorizing, Outside, Refuse, ReadinessNext, World, Authorize, BuildBaseline,
       Arm, Tick, RunProbe, OtherCommit, Damage, ReadBack, Collect, Check, Freeze, Retain, AppendLine,
       FinishAuthorize, Stopped, PushA, Discard, ConfirmA

LEMMA PassedStays == ASSUME UNCHANGED given, NEW d, Passed(d) PROVE Passed(d)'
BY DEF given, Passed, AnchorsHold, DriftAdjudicated

\* Probes are only added, and time only goes on.
LEMMA AccountedStays ==
    ASSUME FlatInv, SeqInv, ReadinessNext, NEW d \in Draft, Accounted(d) PROVE Accounted(d)'
<1>1. now' = now \/ now' = now + 1
    BY DEF readinessVars, given, evidence, tree, authorizing, Outside, Refuse, ReadinessNext, World, Authorize, BuildBaseline,
       Arm, Tick, RunProbe, OtherCommit, Damage, ReadBack, Collect, Check, Freeze, Retain, AppendLine,
       FinishAuthorize, Stopped, PushA, Discard, ConfirmA
<1>2. DOMAIN probes \subseteq DOMAIN probes' /\ \A i \in DOMAIN probes : probes'[i] = probes[i]
    <2>1. CASE UNCHANGED probes
        BY <2>1
    <2>2. CASE RunProbe
        <3>1. PICK q : probes' = Append(probes, q)
            BY <2>2 DEF RunProbe
        <3> QED BY <3>1 DEF SeqInv
    <2> QED BY <2>1, <2>2 DEF readinessVars, given, evidence, tree, authorizing, Outside, Refuse, ReadinessNext, World,
            Authorize, BuildBaseline, Arm, Tick, OtherCommit, Damage, ReadBack, Collect, Check, Freeze,
            Retain, AppendLine, FinishAuthorize, Stopped, PushA, Discard, ConfirmA
<1>3. d.read <= now => d.read <= now'
    <2>1. d.read \in Nat /\ now \in Nat
        BY DraftFields, Clock DEF FlatInv
    <2> QED BY <1>1, <2>1
<1> QED BY <1>2, <1>3 DEF Accounted

\* The verdict at one server time.
LEMMA VerdictPasses ==
    ASSUME FlatInv, NEW d \in Draft, Accounted(d), Eligible(d, now)
    PROVE  Passed([d EXCEPT !.at = now])
<1> DEFINE e == [d EXCEPT !.at = now]
<1>1. {d.floor, d.local, d.opened, d.closed, d.web} \subseteq Stamps(d)
    <2>1. Stamp(d, "RUNNER") = d.floor /\ Stamp(d, "REST") = d.local
        BY DEF Stamp
    <2> QED BY <2>1 DEF Stamps
<1>2. /\ d.pass = Components /\ AnchorsHold(d) /\ DriftAdjudicated
      /\ \A t \in {d.local, d.opened, d.closed, d.web} : d.floor <= t /\ t <= now
      /\ now <= d.floor + PrePush /\ d.read <= now
    BY <1>1 DEF Eligible, WindowHolds, Accounted
<1>3. /\ e.at = now /\ e.created = d.created /\ e.floor = d.floor /\ e.local = d.local /\ e.read = d.read
      /\ e.opened = d.opened /\ e.closed = d.closed /\ e.web = d.web /\ e.pass = d.pass
    BY Stamped DEF FlatInv
<1> HIDE DEF e
<1> QED BY <1>2, <1>3 DEF Passed, AnchorsHold, e

\* Every step keeps the records' history.
LEMMA RecordNext == ASSUME FlatInv, SeqInv, RecordInv, ReadinessNext PROVE RecordInv'
<1> USE DEF readinessVars, given, evidence, tree, authorizing, Outside, Refuse
<1>0. \A d \in Draft : (Accounted(d) => Accounted(d)') /\ (Passed(d) => Passed(d)')
    BY AccountedStays, PassedStays, GivenStay
<1>1. CASE BuildBaseline \/ Arm \/ Tick \/ RunProbe \/ ReadBack \/ Damage
    <2>1. UNCHANGED <<draft, step, doc, kept, latch, headLine, main, confirmed>>
        BY <1>1 DEF BuildBaseline, Arm, Tick, RunProbe, ReadBack, Damage
    <2> QED BY <1>0, <2>1 DEF RecordInv, FlatInv, Lines, PushedInTime, FreshAt
\* What stays when a step leaves the lines and the confirmed record alone.
<1>2. ASSUME UNCHANGED <<kept, tree, confirmed>>
      PROVE  /\ \A d \in kept' : Accounted(d)' /\ Passed(d)'
             /\ \A l \in Lines' \ {None} : l \in kept'
             /\ confirmed' # None =>
                   /\ confirmed' = headLine' /\ main' # <<>> /\ main'[1].line = confirmed'
                   /\ PushedInTime(confirmed', main'[1].at)
    BY <1>0, <1>2 DEF RecordInv, FlatInv, Lines
<1>3. CASE Collect
    <2>1. /\ draft'.attempt = Len(probes) /\ draft'.created = Last(probes).created
          /\ draft'.local <= now /\ draft'.read = now
        BY <1>3 DEF Collect
    <2>2. Accounted(draft)'
        <3>1. Len(probes) \in DOMAIN probes /\ Len(probes) <= MaxAttempts
            BY <1>3 DEF Collect, ProbeBound, SeqInv
        <3>2. UNCHANGED <<probes, now>>
            BY <1>3 DEF Collect
        <3>3. now <= now
            BY Clock DEF FlatInv
        <3> QED BY <2>1, <3>1, <3>2, <3>3 DEF Accounted, Last
    <2>3. UNCHANGED <<step, doc, kept, tree, confirmed>>
        BY <1>3 DEF Collect
    <2> QED BY <1>0, <1>2, <2>2, <2>3 DEF RecordInv, FlatInv
<1>4. CASE Check \/ Stopped
    <2>1. /\ UNCHANGED <<draft, kept, tree, confirmed>>
          /\ (step' = "idle" /\ doc' = None) \/ (step' = "checked" /\ doc' = draft /\ draft # None)
        BY <1>4 DEF Check, Stopped
    <2> QED BY <1>0, <1>2, <2>1 DEF RecordInv, FlatInv
<1>5. CASE Freeze
    <2>1. UNCHANGED <<draft, kept, tree, confirmed, now, probes>>
        BY <1>5 DEF Freeze
    <2>2. CASE step' = "idle" /\ doc' = None
        BY <1>0, <1>2, <2>1, <2>2 DEF RecordInv, FlatInv
    <2>3. CASE Eligible(doc, now) /\ step' = "frozen" /\ doc' = [doc EXCEPT !.at = now]
        <3>1. doc \in Draft /\ Accounted(doc) /\ now \in Times
            BY <1>5 DEF Freeze, RecordInv, FlatInv
        <3>2. Passed(doc')
            BY <2>3, <3>1, VerdictPasses
        <3>3. Passed(doc)'
            BY <2>1, <3>2, GivenStay DEF given, Passed, AnchorsHold, DriftAdjudicated
        <3>4. Accounted(doc)'
            BY <2>1, <2>3, <3>1, Stamped DEF Accounted
        <3> QED BY <1>0, <1>2, <2>1, <2>3, <3>3, <3>4 DEF RecordInv, FlatInv
    <2> QED BY <1>5, <2>2, <2>3 DEF Freeze
<1>6. CASE Retain
    <2>1. /\ UNCHANGED <<draft, tree, confirmed>> /\ step = "frozen"
          /\ \/ kept' = kept \cup {doc} /\ step' = "bound" /\ UNCHANGED doc
             \/ UNCHANGED kept /\ step' = "idle" /\ doc' = None
        BY <1>6 DEF Retain
    <2>2. doc \in Draft /\ Accounted(doc) /\ Passed(doc)
        BY <2>1 DEF RecordInv, FlatInv
    <2> QED BY <1>0, <2>1, <2>2 DEF RecordInv, FlatInv, Lines
<1>7. CASE AppendLine
    <2>1. /\ UNCHANGED <<draft, kept, headLine, main, confirmed>> /\ step = "bound"
          /\ \/ latch' = doc /\ step' = "appended" /\ UNCHANGED doc
             \/ UNCHANGED latch /\ step' = "idle" /\ doc' = None
        BY <1>7 DEF AppendLine, LineOf
    <2>2. doc \in kept
        BY <2>1 DEF RecordInv
    <2> QED BY <1>0, <2>1, <2>2 DEF RecordInv, FlatInv, Lines
<1>8. CASE FinishAuthorize
    <2>1. /\ UNCHANGED <<draft, kept, headLine, main, confirmed>>
          /\ latch' \in {latch, headLine} /\ step' = "idle" /\ doc' = None
        BY <1>8 DEF FinishAuthorize
    <2> QED BY <1>0, <2>1 DEF RecordInv, FlatInv, Lines
<1>9. CASE OtherCommit
    <2>1. UNCHANGED <<draft, step, doc, kept, latch, headLine, confirmed>> /\ confirmed = None
        BY <1>9 DEF OtherCommit
    <2>2. \A i \in DOMAIN main' : main'[i].line = None \/ (i \in DOMAIN main /\ main'[i] = main[i])
        <3> DEFINE c == [line |-> None, at |-> 0]
        <3>1. main' = Append(main, c) /\ main \in Seq(Commits)
            BY <1>9 DEF OtherCommit, SeqInv
        <3>2. c.line = None
            OBVIOUS
        <3> HIDE DEF c
        <3>3. \A i \in DOMAIN main' : main'[i] = c \/ (i \in DOMAIN main /\ main'[i] = main[i])
            BY <3>1
        <3> QED BY <3>2, <3>3
    <2>3. Lines' \subseteq Lines \cup {None}
        BY <2>1, <2>2 DEF Lines
    <2> QED BY <1>0, <2>1, <2>3 DEF RecordInv, FlatInv
<1>10. CASE PushA
    <2>1. UNCHANGED <<draft, step, doc, kept, latch, confirmed>> /\ headLine' = latch /\ headLine = None
        BY <1>10 DEF PushA
    <2>2. confirmed = None
        BY <2>1 DEF RecordInv
    <2>3. main' = main \/ main' = <<[line |-> latch, at |-> now]>>
        BY <1>10 DEF PushA
    <2>4. {main'[i].line : i \in DOMAIN main'} \subseteq {main[i].line : i \in DOMAIN main} \cup {latch}
        <3>1. CASE main' = <<[line |-> latch, at |-> now]>>
            <4>1. DOMAIN main' = {1} /\ main'[1].line = latch
                BY <3>1
            <4> QED BY <4>1
        <3> QED BY <2>3, <3>1
    <2>5. Lines' \subseteq Lines
        BY <2>1, <2>4 DEF Lines
    <2> QED BY <1>0, <2>1, <2>2, <2>5 DEF RecordInv, FlatInv
<1>11. CASE Discard
    <2>1. /\ UNCHANGED <<draft, step, doc, kept, headLine, main, confirmed>>
          /\ latch' = None
        BY <1>11 DEF Discard
    <2>2. Lines' \subseteq Lines \cup {None}
        BY <2>1 DEF Lines
    <2> QED BY <1>0, <2>1, <2>2 DEF RecordInv, FlatInv
<1>12. CASE ConfirmA
    <2>1. /\ UNCHANGED <<draft, step, doc, kept, latch, headLine, main>>
          /\ confirmed' = headLine /\ Len(main) = 1 /\ main[1].line = headLine
          /\ PushedInTime(headLine, main[1].at)
        BY <1>12 DEF ConfirmA
    <2>2. main # <<>>
        BY <2>1
    <2> QED BY <1>0, <2>1, <2>2 DEF RecordInv, FlatInv, Lines
<1> QED BY <1>1, <1>3, <1>4, <1>5, <1>6, <1>7, <1>8, <1>9, <1>10, <1>11, <1>12 DEF ReadinessNext, World, Authorize

\* The three parts together, from the first state on.
ReadinessInv == FlatInv /\ SeqInv /\ RecordInv

LEMMA ReadinessHolds == ReadinessSpec => []ReadinessInv
<1>1. ReadinessInit => ReadinessInv
    <2> SUFFICES ASSUME ReadinessInit PROVE ReadinessInv
        OBVIOUS
    <2>1. /\ now = 0 /\ baseline = None /\ armed = FALSE /\ probes = <<>> /\ readback = None /\ draft = None
          /\ step = "idle" /\ doc = None /\ pairs = <<>> /\ kept = {}
          /\ latch = None /\ headLine = None /\ main = <<>> /\ confirmed = None
        BY DEF ReadinessInit
    <2>2. go \in {0, 1} /\ ci \in {0, 1} /\ differs \in BOOLEAN /\ ruled \in {1, Never}
        <3>1. PICK d \in {<<0, 1, FALSE, Never>>, <<0, 0, TRUE, 1>>, <<1, 0, TRUE, Never>>} :
                  go = d[1] /\ ci = d[2] /\ differs = d[3] /\ ruled = d[4]
            BY DEF ReadinessInit
        <3>2. d = <<0, 1, FALSE, Never>> \/ d = <<0, 0, TRUE, 1>> \/ d = <<1, 0, TRUE, Never>>
            BY <3>1
        <3>3. /\ <<0, 1, FALSE, Never>>[1] = 0 /\ <<0, 0, TRUE, 1>>[1] = 0
              /\ <<1, 0, TRUE, Never>>[1] = 1
              /\ <<0, 1, FALSE, Never>>[2] = 1 /\ <<0, 0, TRUE, 1>>[2] = 0
              /\ <<1, 0, TRUE, Never>>[2] = 0
              /\ <<0, 1, FALSE, Never>>[3] = FALSE /\ <<0, 0, TRUE, 1>>[3] = TRUE
              /\ <<1, 0, TRUE, Never>>[3] = TRUE
              /\ <<0, 1, FALSE, Never>>[4] = Never /\ <<0, 0, TRUE, 1>>[4] = 1
              /\ <<1, 0, TRUE, Never>>[4] = Never
            OBVIOUS
        <3> QED BY <3>1, <3>2, <3>3, Zenon
    <2>3. {0, 1} \subseteq Times /\ 1 \in 0..Never /\ Never \in 0..Never
        BY ReadinessAssumption DEF Times, Never
    <2>4. FlatInv
        BY <2>1, <2>2, <2>3 DEF FlatInv
    <2>5. SeqInv
        BY <2>1, ReadinessAssumption DEF SeqInv
    <2>6. RecordInv
        BY <2>1 DEF RecordInv, Lines
    <2> QED BY <2>4, <2>5, <2>6 DEF ReadinessInv
<1>2. ReadinessInv /\ [ReadinessNext]_readinessVars => ReadinessInv'
    <2> SUFFICES ASSUME ReadinessInv, [ReadinessNext]_readinessVars PROVE ReadinessInv'
        OBVIOUS
    <2>1. CASE ReadinessNext
        BY <2>1, FlatNext, SeqNext, RecordNext DEF ReadinessInv
    <2>2. CASE UNCHANGED readinessVars
        BY <2>2 DEF readinessVars, given, evidence, tree, authorizing, ReadinessInv, FlatInv, SeqInv, RecordInv, Accounted,
            Passed, AnchorsHold, DriftAdjudicated, Lines, PushedInTime, FreshAt
    <2> QED BY <2>1, <2>2
<1> QED BY <1>1, <1>2, PTL DEF ReadinessSpec

\* cmd_collect_final and cmd_authorize: every record is well-formed, and a line
\* leads from one of the first MaxAttempts probes at R, dispatched after the
\* owner's GO and ruling (probe_binding, anchor_problems).
THEOREM AttemptsAreSound == ReadinessSpec => []AttemptsSound
<1>1. ReadinessInv => AttemptsSound
    <2> SUFFICES ASSUME ReadinessInv PROVE AttemptsSound
        OBVIOUS
    <2>1. ReadinessTypeOK
        BY TypesFollow DEF ReadinessInv
    <2>2. \A l \in Lines \ {None} : Accounted(l) /\ Passed(l)
        BY DEF ReadinessInv, RecordInv
    <2>3. AttemptsBounded
        BY <2>2 DEF AttemptsBounded, Accounted, Passed, AnchorsHold, DriftAdjudicated
    <2> QED BY <2>1, <2>3 DEF AttemptsSound
<1> QED BY <1>1, ReadinessHolds, PTL

\* write_retained before append_attempt_authorized: wherever authorize is
\* stopped and however it is run again, a line in the working tree, in HEAD or on
\* main is that of a record that was retained twice and that every component
\* passes.
THEOREM LinesAreBacked == ReadinessSpec => []LineIsBacked
<1>1. ReadinessInv => LineIsBacked
    BY DEF ReadinessInv, RecordInv, LineIsBacked, Passed
<1> QED BY <1>1, ReadinessHolds, PTL

\* post_push_problems: what confirm-a passes rests on evidence that was read after
\* R's CI and at most PRE_PUSH_MAX_AGE + PUSH_MARGIN before main moved.
THEOREM ConfirmedOnFreshEvidence == ReadinessSpec => []ConfirmedIsFresh
<1>1. ReadinessInv => ConfirmedIsFresh
    <2> SUFFICES ASSUME ReadinessInv, confirmed # None PROVE ConfirmedIsFresh
        BY DEF ConfirmedIsFresh
    <2> DEFINE d == confirmed  at == main[1].at
    <2>1. d \in Draft /\ d = headLine /\ main # <<>> /\ main[1].line = d /\ PushedInTime(d, at)
        BY DEF ReadinessInv, RecordInv, FlatInv
    <2>2. d \in kept
        BY <2>1 DEF ReadinessInv, RecordInv, Lines
    <2>3. Accounted(d) /\ Passed(d)
        BY <2>2 DEF ReadinessInv, RecordInv
    <2>4. at \in Times /\ ci \in Times
        <3>1. main[1] \in Commits
            BY <2>1 DEF ReadinessInv, SeqInv
        <3> QED BY <3>1 DEF Commits, ReadinessInv, FlatInv
    <2>5. /\ ci \in Nat /\ at \in Nat /\ d.floor \in Nat /\ d.local \in Nat /\ d.read \in Nat
          /\ d.opened \in Nat /\ d.closed \in Nat /\ d.web \in Nat /\ d.at \in Nat
          /\ PrePush \in Nat /\ Margin \in Nat
        BY <2>1, <2>4, Clock, DraftFields, ReadinessAssumption
    <2>6. /\ ci <= d.floor /\ d.floor <= d.local /\ d.local <= d.read /\ d.read <= d.at
          /\ d.floor <= d.opened /\ d.opened <= d.at /\ d.floor <= d.closed /\ d.closed <= d.at
          /\ d.floor <= d.web /\ d.web <= d.at
          /\ d.at <= at /\ at <= d.floor + T2MaxAge
        BY <2>1, <2>3 DEF Accounted, Passed, AnchorsHold, PushedInTime, FreshAt
    <2> HIDE DEF d, at
    <2>7. \A t \in {d.floor, d.read, d.opened, d.closed, d.web} : t \in Nat /\ d.floor <= t /\ t <= d.at
        BY <2>5, <2>6
    <2>8. \A t \in {d.floor, d.read, d.opened, d.closed, d.web} : ci <= t /\ t <= at /\ at <= t + T2MaxAge
        <3> SUFFICES ASSUME NEW t \in {d.floor, d.read, d.opened, d.closed, d.web}
                     PROVE  ci <= t /\ t <= at /\ at <= t + T2MaxAge
            OBVIOUS
        <3>1. t \in Nat /\ d.floor <= t /\ t <= d.at /\ T2MaxAge \in Nat
            BY <2>5, <2>7 DEF T2MaxAge
        <3> QED BY <2>5, <2>6, <3>1
    <2> QED BY <2>1, <2>8 DEF ConfirmedIsFresh, d, at
<1> QED BY <1>1, ReadinessHolds, PTL

=============================================================================
