------------------------- MODULE ReplacementAdmission -------------------------
(* Who may consume the one authorized replacement attempt of the official    *)
(* gate (sentinel/phase5/latch.py, scripts/_phase5_common.py, the preflight  *)
(* step of scripts/run_phase5_official_gate.py and its workflow).  Runs of   *)
(* the workflow are dispatched, re-run, deleted and executed concurrently;   *)
(* each preflight decides on its own, from what GitHub reports of the other  *)
(* runs.  The workflow's concurrency group is left out: the decision must    *)
(* not depend on it.  A read that fails refuses, so refusal is always        *)
(* possible (PreflightFails) and only what admits is spelled out.            *)
EXTENDS Integers

CONSTANTS
    MaxRuns,        \* bound: run numbers of the workflow are 1..MaxRuns
    MaxRunAttempts,    \* bound: run_attempt of a run
    Floor,          \* prior_official_gate_run_number of the authorization
    Sources,        \* commits main may point at
    Authorized      \* commit A: the one that appends ATTEMPT_AUTHORIZED

ASSUME AdmissionAssumption ==
    /\ MaxRuns \in Nat
    /\ MaxRunAttempts \in Nat \ {0}
    /\ Floor \in 0..MaxRuns
    /\ Authorized \in Sources

Runs == 1..MaxRuns
Attempts == Runs \X (1..MaxRunAttempts)
First(n) == <<n, 1>>
Nothing == [n \in Runs |-> 0]
Earlier(r) == {n \in Runs : Floor < n /\ n < r}

VARIABLES
    head,           \* main on GitHub
    closed,         \* GitHub's clock has reached window_closes_at_utc
    source,         \* the commit a run was dispatched at
    latest,         \* run_attempt of a run; 0: not dispatched yet
    deleted,        \* runs no longer listed
    pc,             \* where an attempt's job is
    late,           \* attempts whose job started after the close
    seen,           \* the run_attempts an attempt's listing reported
    proven,         \* jobs reported as failed with both later steps skipped
    consumed,       \* attempts that began to upload the one-shot marker
    visible         \* runs whose marker artifact can be discovered

platform == <<head, closed, source, latest, deleted>>
vars == <<platform, pc, late, seen, proven, consumed, visible>>

Inside == {"admitted", "marker", "execute", "provider"}
Pcs == {"none", "queued", "preflight", "discovered", "listed", "done"} \cup Inside

\* Types; and what GitHub reports of a job is true: one proven to have failed
\* before the marker is over and never began to upload it.
TypeOK ==
    /\ head \in Sources
    /\ closed \in BOOLEAN
    /\ source \in [Runs -> Sources]
    /\ latest \in [Runs -> 0..MaxRunAttempts]
    /\ deleted \subseteq Runs
    /\ pc \in [Attempts -> Pcs]
    /\ late \subseteq Attempts
    /\ seen \in [Attempts -> [Runs -> 0..MaxRunAttempts]]
    /\ consumed \subseteq Attempts
    /\ proven \subseteq {x \in Attempts : pc[x] = "done" /\ x \notin consumed}
    /\ visible \subseteq Runs

\* Runs up to the floor are over before the authorization is pushed.
Init ==
    /\ head \in Sources
    /\ closed = FALSE
    /\ source = [r \in Runs |-> head]
    /\ latest = [r \in Runs |-> IF r <= Floor THEN 1 ELSE 0]
    /\ deleted = {}
    /\ pc = [x \in Attempts |-> IF x[1] <= Floor /\ x[2] = 1 THEN "done" ELSE "none"]
    /\ late = {}
    /\ seen = [x \in Attempts |-> Nothing]
    /\ proven = {}
    /\ consumed = {}
    /\ visible = {}

----------------------------------------------------------------------------
\* The platform: what operators and GitHub do.

Over(r) == latest[r] > 0 /\ pc[<<r, latest[r]>>] = "done"

\* workflow_dispatch on main; run numbers are handed out in order.
Dispatch(r) ==
    /\ latest[r] = 0
    /\ \A n \in Runs : n < r => latest[n] > 0
    /\ source' = [source EXCEPT ![r] = head]
    /\ latest' = [latest EXCEPT ![r] = 1]
    /\ pc' = [pc EXCEPT ![First(r)] = "queued"]
    /\ UNCHANGED <<head, closed, deleted, late, seen, proven, consumed, visible>>

\* A re-run keeps number and commit and raises run_attempt.
Rerun(r) ==
    /\ Over(r)
    /\ r \notin deleted
    /\ latest[r] < MaxRunAttempts
    /\ latest' = [latest EXCEPT ![r] = @ + 1]
    /\ pc' = [pc EXCEPT ![<<r, latest[r] + 1>>] = "queued"]
    /\ UNCHANGED <<head, closed, source, deleted, late, seen, proven, consumed, visible>>

Delete(r) ==
    /\ Over(r)
    /\ deleted' = deleted \cup {r}
    /\ visible' = visible \ {r}
    /\ UNCHANGED <<head, closed, source, latest, pc, late, seen, proven, consumed>>

Expire(r) ==
    /\ visible' = visible \ {r}
    /\ UNCHANGED <<platform, pc, late, seen, proven, consumed>>

Push(s) ==
    /\ head' = s
    /\ UNCHANGED <<closed, source, latest, deleted, pc, late, seen, proven, consumed, visible>>

Close ==
    /\ closed' = TRUE
    /\ UNCHANGED <<head, source, latest, deleted, pc, late, seen, proven, consumed, visible>>

----------------------------------------------------------------------------
\* One job: preflight, marker upload, execute.

StartJob(x) ==
    /\ pc[x] = "queued"
    /\ pc' = [pc EXCEPT ![x] = "preflight"]
    /\ late' = IF closed THEN late \cup {x} ELSE late
    /\ UNCHANGED <<platform, seen, proven, consumed, visible>>

\* The source is main's head, and no marker of this purpose is discovered.
Discover(x) ==
    /\ pc[x] = "preflight"
    /\ head = source[x[1]]
    /\ visible = {}
    /\ pc' = [pc EXCEPT ![x] = "discovered"]
    /\ UNCHANGED <<platform, late, seen, proven, consumed, visible>>

\* Mutant: a missing or unfinished run is passed over.
ListRuns_Lenient(x) ==
    /\ pc[x] = "discovered"
    /\ source[x[1]] = Authorized
    /\ x[1] \notin deleted
    /\ pc' = [pc EXCEPT ![x] = "listed"]
    /\ seen' = [seen EXCEPT ![x] = [n \in Runs |-> IF Over(n) /\ n \notin deleted THEN latest[n] ELSE 0]]
    /\ UNCHANGED <<platform, late, proven, consumed, visible>>

\* The latch is armed at this commit; every run number from the floor up to
\* this run is listed, and the earlier ones are completed.
ListRuns(x) ==
    /\ pc[x] = "discovered"
    /\ source[x[1]] = Authorized
    /\ x[1] \notin deleted
    /\ \A n \in Earlier(x[1]) : Over(n) /\ n \notin deleted
    /\ pc' = [pc EXCEPT ![x] = "listed"]
    /\ seen' = [seen EXCEPT ![x] = latest]
    /\ UNCHANGED <<platform, late, proven, consumed, visible>>

\* Mutant: only the latest attempt of an earlier run is looked at.
Decide_LatestAttempt(x) ==
    /\ pc[x] = "listed"
    /\ ~closed /\ x \notin late
    /\ x[2] = 1
    /\ x[1] > Floor
    /\ \A n \in Earlier(x[1]) : n \notin deleted /\ <<n, seen[x][n]>> \in proven
    /\ pc' = [pc EXCEPT ![x] = "admitted"]
    /\ seen' = [seen EXCEPT ![x] = Nothing]
    /\ UNCHANGED <<platform, late, proven, consumed, visible>>

\* Mutant: the close is compared with the job's start only.
Decide_StartClock(x) ==
    /\ pc[x] = "listed"
    /\ x \notin late
    /\ x[2] = 1
    /\ x[1] > Floor
    /\ \A n \in Earlier(x[1]) :
          n \notin deleted /\ \A a \in 1..seen[x][n] : <<n, a>> \in proven
    /\ pc' = [pc EXCEPT ![x] = "admitted"]
    /\ seen' = [seen EXCEPT ![x] = Nothing]
    /\ UNCHANGED <<platform, late, proven, consumed, visible>>

\* latch_verdict: the jobs of every attempt the listing reported are read, the
\* server's time last.
Decide(x) ==
    /\ pc[x] = "listed"
    /\ ~closed /\ x \notin late
    /\ x[2] = 1
    /\ x[1] > Floor
    /\ \A n \in Earlier(x[1]) :
          n \notin deleted /\ \A a \in 1..seen[x][n] : <<n, a>> \in proven
    /\ pc' = [pc EXCEPT ![x] = "admitted"]
    /\ seen' = [seen EXCEPT ![x] = Nothing]
    /\ UNCHANGED <<platform, late, proven, consumed, visible>>

\* A job is over; what GitHub then reports of it: failed, with marker upload
\* and execute completed as skipped (_attempt_proven_pre_marker), or not.
Finish(x, preMarker) ==
    /\ pc' = [pc EXCEPT ![x] = "done"]
    /\ seen' = [seen EXCEPT ![x] = Nothing]
    /\ late' = late \ {x}
    /\ proven' = IF preMarker THEN proven \cup {x} ELSE proven
    /\ UNCHANGED <<platform, consumed>>

\* Any check refuses or any read fails: also after the decision.
PreflightFails(x) ==
    /\ pc[x] \in {"preflight", "discovered", "listed", "admitted"}
    /\ Finish(x, TRUE)
    /\ UNCHANGED visible

StartMarker(x) ==
    /\ pc[x] = "admitted"
    /\ pc' = [pc EXCEPT ![x] = "marker"]
    /\ consumed' = consumed \cup {x}
    /\ UNCHANGED <<platform, late, seen, proven, visible>>

MarkerUploaded(x) ==
    /\ pc[x] = "marker"
    /\ pc' = [pc EXCEPT ![x] = "execute"]
    /\ visible' = visible \cup ({x[1]} \ deleted)
    /\ UNCHANGED <<platform, late, seen, proven, consumed>>

\* Mutant: the failed upload is reported as skipped.
MarkerFails_Skipped(x) ==
    /\ pc[x] = "marker"
    /\ Finish(x, TRUE)
    /\ visible' \in {visible, visible \cup ({x[1]} \ deleted)}

\* The upload step fails; its artifact may have been stored all the same.
MarkerFails(x) ==
    /\ pc[x] = "marker"
    /\ Finish(x, FALSE)
    /\ visible' \in {visible, visible \cup ({x[1]} \ deleted)}

\* execute: source and marker are checked again before anything is paid for.
StartProvider(x) ==
    /\ pc[x] = "execute"
    /\ head = source[x[1]]
    /\ x[1] \in visible
    /\ pc' = [pc EXCEPT ![x] = "provider"]
    /\ UNCHANGED <<platform, late, seen, proven, consumed, visible>>

ExecuteEnds(x) ==
    /\ pc[x] \in {"execute", "provider"}
    /\ Finish(x, FALSE)
    /\ UNCHANGED visible

\* Cancelled, timed out, or the runner was lost: a step that had begun is not
\* reported as skipped, one that had not may be, or may go unreported.
Interrupted(x) ==
    /\ pc[x] \notin {"none", "done"}
    /\ \E preMarker \in BOOLEAN :
          /\ preMarker => pc[x] \notin {"marker", "execute", "provider"}
          /\ Finish(x, preMarker)
    /\ UNCHANGED visible

----------------------------------------------------------------------------
Platform ==
    \/ \E r \in Runs : Dispatch(r) \/ Rerun(r) \/ Delete(r) \/ Expire(r)
    \/ \E s \in Sources : Push(s)
    \/ Close

Job(x) ==
    \/ StartJob(x) \/ Discover(x) \/ ListRuns(x) \/ Decide(x) \/ PreflightFails(x)
    \/ StartMarker(x) \/ MarkerUploaded(x) \/ MarkerFails(x)
    \/ StartProvider(x) \/ ExecuteEnds(x) \/ Interrupted(x)

Next == Platform \/ \E x \in Attempts : Job(x)

Spec == Init /\ [][Next]_vars

----------------------------------------------------------------------------
\* Properties.

Holds(x) == pc[x] \in Inside \/ x \in consumed

\* The authorization is used once: over all runs, re-runs, deletions and
\* crashes, at most one attempt is past the decision or ever began to upload a
\* marker, even when its artifacts are gone and nothing serializes the jobs.
OneAdmission == \A x, y \in Attempts : Holds(x) /\ Holds(y) => x = y

\* Once GitHub's clock has reached the close, nobody else is admitted, however
\* long before that their job started or listed the runs.
NoneAfterClose == [][closed => \A x \in Attempts : Holds(x)' => Holds(x)]_vars
=============================================================================
