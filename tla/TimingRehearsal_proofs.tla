------------------------ MODULE TimingRehearsal_proofs ------------------------
(* Theorems about TimingRehearsal and its OidcSession, for every value of     *)
(* their constants.  The first part follows the two threads and the assertion *)
(* they share; the second follows the books of the one rehearsal, item by     *)
(* item, to what its evidence says and what it has cost.                      *)
EXTENDS TimingRehearsal, FiniteSums

----------------------------------------------------------------------------
(* The two threads *)

InPair(t) == step[t] \in {"fetch", "install"}

\* The lock belongs to whoever is between a fetch and its installation; only
\* the first acquisition, before there is a second thread, goes without it.
PairInv ==
    /\ \A t \in Threads : step[t] = "fetch" => tries[t] < RetryAttempts
    /\ \A t \in Threads : InPair(t) => lock = t \/ (t = "main" /\ thread = "off")
    /\ lock # Free => InPair(lock)
    /\ thread # "running" => step["refresher"] = "idle"

\* What is about to be installed is newer than what is on file, and nothing
\* has exchanged it.
HeldInv ==
    /\ file <= minted
    /\ \A t \in Threads : step[t] = "install" => held[t] \in (1..minted) \ exchanged /\ held[t] # file

\* What the main thread's place says of the two threads.
ThreadInv ==
    /\ pc = "acquire" => step["main"] \in {"fetch", "install", "done", "failed"}
    /\ pc = "judge" => step["main"] \in {"wanting", "fetch", "install", "done", "failed"}
    /\ pc \notin {"acquire", "judge"} => step["main"] = "idle"
    /\ pc \in {"idle", "preflight", "start", "acquire"} => thread = "off"
    /\ joined => thread # "running" /\ pc \in {"scrub", "survey", "write", "close"} \cup Over

\* The file's half of TokenScrubbed.
FileScrubbed ==
    pc \in {"survey", "write", "close", "over"} =>
       (file \in Assertions => kept \/ (~joined /\ file \notin exchanged))

\* From the end of an admission to the CLI's start the file is fresh.
FreshInv ==
    /\ (pc = "judge" /\ step["main"] = "done") => file \in Assertions \ exchanged
    /\ FreshAtStart
    /\ FileScrubbed

OidcInv == OidcTypeOK /\ PcTypeOK /\ PairInv /\ HeldInv /\ ThreadInv /\ FreshInv

LEMMA OidcStarts == Init => OidcInv
<1> SUFFICES ASSUME Init PROVE OidcInv
    OBVIOUS
<1>1. /\ file = Absent /\ minted = 0 /\ exchanged = {} /\ lock = Free
      /\ \A t \in Threads : step[t] = "idle" /\ tries[t] = 0 /\ held[t] = 0
      /\ thread = "off" /\ pc = "idle" /\ joined = FALSE
    BY DEF Init, OidcInit
<1>2. OidcTypeOK
    <2>1. 0 \in 0..MaxMint /\ 0 \in 0..RetryAttempts
        BY OidcAssumption
    <2>2. /\ step = [t \in Threads |-> "idle"] /\ fault = FALSE /\ stopping = FALSE
          /\ siblings = {} /\ kept = FALSE
          /\ tries = [t \in Threads |-> 0] /\ held = [t \in Threads |-> 0]
        BY DEF Init, OidcInit
    <2> QED BY <1>1, <2>1, <2>2 DEF OidcTypeOK
<1>3. PcTypeOK
    BY <1>1 DEF PcTypeOK, Over
<1>4. PairInv
    BY <1>1 DEF PairInv, InPair, Threads
<1>5. HeldInv
    BY <1>1 DEF HeldInv, Absent
<1>6. ThreadInv /\ FreshInv
    BY <1>1 DEF ThreadInv, FreshInv, FreshAtStart, FileScrubbed, Threads, Absent, Assertions
<1> QED BY <1>2, <1>3, <1>4, <1>5, <1>6 DEF OidcInv

\* Two threads are never in their pairs at once.
LEMMA OneInPair ==
    ASSUME OidcInv, NEW t \in Threads, NEW u \in Threads, InPair(t), InPair(u)
    PROVE  t = u
BY DEF OidcInv, PairInv, ThreadInv, InPair, Threads

\* Who may be in a pair, and when.
LEMMA PairPlaces ==
    ASSUME OidcInv, NEW t \in Threads, step[t] # "idle"
    PROVE  /\ t = "main" => pc \in {"acquire", "judge"}
           /\ t = "refresher" => thread = "running" /\ ~joined
           /\ t = "main" /\ step[t] = "wanting" => pc = "judge"
BY DEF OidcInv, PairInv, ThreadInv, Threads

\* The end of a pair keeps the lock, whatever its outcome.
LEMMA SettleKeepsPair ==
    ASSUME OidcInv, NEW t \in Threads, NEW outcome \in {"done", "failed"}, InPair(t), Settle(t, outcome),
           \A u \in Threads : u # t => tries'[u] = tries[u],
           thread' = thread
    PROVE  /\ lock' \in Threads \cup {Free}
           /\ step' \in [Threads -> {"idle", "wanting", "fetch", "install", "done", "failed"}]
           /\ held' \in [Threads -> 0..MaxMint] /\ fault' \in BOOLEAN
           /\ step'[t] = (IF t = "refresher" THEN "idle" ELSE outcome)
           /\ \A u \in Threads : u # t => step'[u] = step[u] /\ held'[u] = held[u]
           /\ PairInv'
<1>1. /\ lock' = (IF lock = t THEN Free ELSE lock)
      /\ step' = [step EXCEPT ![t] = IF t = "refresher" THEN "idle" ELSE outcome]
      /\ held' = [held EXCEPT ![t] = 0]
      /\ fault' = (fault \/ (t = "refresher" /\ outcome = "failed"))
    BY DEF Settle
<1>2. OidcTypeOK
    BY DEF OidcInv
<1>3. /\ lock' \in Threads \cup {Free} /\ fault' \in BOOLEAN
      /\ step' \in [Threads -> {"idle", "wanting", "fetch", "install", "done", "failed"}]
      /\ held' \in [Threads -> 0..MaxMint]
    BY <1>1, <1>2, OidcAssumption DEF OidcTypeOK
<1>4. /\ step'[t] = (IF t = "refresher" THEN "idle" ELSE outcome)
      /\ \A u \in Threads : u # t => step'[u] = step[u] /\ held'[u] = held[u]
    BY <1>1, <1>2 DEF OidcTypeOK
<1>5. \A u \in Threads : u # t => ~InPair(u)
    BY OneInPair
<1>6. PairInv'
    BY <1>1, <1>4, <1>5 DEF PairInv, InPair, OidcInv, Threads, Free
<1> QED BY <1>3, <1>4, <1>6

\* A step of a fetch-then-install pair, of either thread.
LEMMA PairKeeps ==
    ASSUME OidcInv, NEW t \in Threads, Pair(t), pc' = pc, joined' = joined,
           t = "refresher" => pc \notin Over \cup {"idle"}
    PROVE  OidcInv'
<1> USE DEF OidcInv
<1>a. PcTypeOK'
    BY DEF PcTypeOK
<1>b. OidcTypeOK
    OBVIOUS
<1>1. CASE TakeLock(t)
    <2>1. /\ step[t] = "wanting" /\ lock = Free /\ lock' = t
          /\ step' = [step EXCEPT ![t] = "fetch"] /\ tries' = [tries EXCEPT ![t] = 0]
          /\ UNCHANGED <<held, file, siblings, kept, minted, exchanged, thread, fault, stopping>>
        BY <1>1 DEF TakeLock, StartFetch, left
    <2>2. /\ step'[t] = "fetch" /\ tries'[t] = 0
          /\ \A u \in Threads : u # t => step'[u] = step[u] /\ tries'[u] = tries[u]
        BY <1>b, <2>1 DEF OidcTypeOK
    <2>3. OidcTypeOK'
        BY <1>b, <2>1, OidcAssumption DEF OidcTypeOK
    <2>4. \A u \in Threads : u # t => ~InPair(u)
        BY <2>1 DEF PairInv, ThreadInv, InPair, Threads, Free
    <2>5. PairInv'
        <3>1. t = "refresher" => thread = "running"
            BY <2>1, PairPlaces
        <3> QED BY <2>1, <2>2, <2>4, <3>1, OidcAssumption DEF PairInv, InPair, Threads
    <2>6. HeldInv'
        BY <2>1, <2>2 DEF HeldInv
    <2>7. ThreadInv'
        BY <2>1, <2>2, PairPlaces DEF ThreadInv, Threads
    <2>8. FreshInv'
        BY <2>1, <2>2 DEF FreshInv, FreshAtStart, FileScrubbed, Threads
    <2> QED BY <1>a, <2>3, <2>5, <2>6, <2>7, <2>8
<1>2. CASE Fetched(t)
    <2>1. /\ step[t] = "fetch" /\ minted < MaxMint /\ minted' = minted + 1
          /\ held' = [held EXCEPT ![t] = minted + 1]
          /\ step' = [step EXCEPT ![t] = "install"]
          /\ UNCHANGED <<file, siblings, kept, exchanged, lock, tries, thread, fault, stopping>>
        BY <1>2 DEF Fetched, left
    <2>2. /\ step'[t] = "install" /\ held'[t] = minted + 1
          /\ \A u \in Threads : u # t => step'[u] = step[u] /\ held'[u] = held[u]
        BY <1>b, <2>1 DEF OidcTypeOK
    <2>3. OidcTypeOK'
        BY <1>b, <2>1, OidcAssumption DEF OidcTypeOK
    <2>5. PairInv'
        BY <2>1, <2>2 DEF PairInv, InPair, Threads
    <2>6. HeldInv'
        <3>1. minted \in Nat /\ exchanged \subseteq 1..minted /\ file \in Int
            BY <1>b, OidcAssumption DEF OidcTypeOK, Assertions, Absent, Placeholder
        <3>2. minted + 1 \in 1..(minted + 1) /\ minted + 1 \notin exchanged /\ minted + 1 # file
            BY <3>1 DEF HeldInv
        <3>3. file <= minted + 1 /\ 1..minted \subseteq 1..(minted + 1)
            BY <3>1 DEF HeldInv
        <3> QED BY <2>1, <2>2, <3>2, <3>3 DEF HeldInv
    <2>7. ThreadInv'
        BY <2>1, <2>2, PairPlaces DEF ThreadInv, Threads
    <2>8. FreshInv'
        BY <2>1, <2>2 DEF FreshInv, FreshAtStart, FileScrubbed, Threads
    <2> QED BY <1>a, <2>3, <2>5, <2>6, <2>7, <2>8
<1>3. CASE FetchFailed(t)
    <2>1. /\ step[t] = "fetch" /\ tries' = [tries EXCEPT ![t] = @ + 1]
          /\ UNCHANGED <<file, siblings, kept, minted, exchanged, thread, stopping>>
        BY <1>3 DEF FetchFailed, left
    <2>2. tries[t] \in 0..RetryAttempts /\ tries[t] < RetryAttempts
        BY <1>b, <2>1 DEF OidcTypeOK, PairInv
    <2>3. tries' \in [Threads -> 0..RetryAttempts] /\ tries'[t] = tries[t] + 1
          /\ \A u \in Threads : u # t => tries'[u] = tries[u]
        <3>1. tries[t] + 1 \in 0..RetryAttempts
            BY <2>2, OidcAssumption
        <3> QED BY <1>b, <2>1, <3>1 DEF OidcTypeOK
    <2>4. CASE tries[t] + 1 < RetryAttempts /\ UNCHANGED <<lock, step, held, fault>>
        <3>1. OidcTypeOK'
            BY <1>b, <2>1, <2>3, <2>4 DEF OidcTypeOK
        <3>2. PairInv'
            BY <2>1, <2>3, <2>4 DEF PairInv, InPair
        <3>3. HeldInv' /\ ThreadInv' /\ FreshInv'
            BY <2>1, <2>4 DEF HeldInv, ThreadInv, FreshInv, FreshAtStart, FileScrubbed
        <3> QED BY <1>a, <3>1, <3>2, <3>3
    <2>5. CASE Settle(t, "failed")
        <3>0. InPair(t)
            BY <2>1 DEF InPair
        <3>1. /\ lock' \in Threads \cup {Free}
              /\ step' \in [Threads -> {"idle", "wanting", "fetch", "install", "done", "failed"}]
              /\ held' \in [Threads -> 0..MaxMint] /\ fault' \in BOOLEAN
              /\ step'[t] = (IF t = "refresher" THEN "idle" ELSE "failed")
              /\ \A u \in Threads : u # t => step'[u] = step[u] /\ held'[u] = held[u]
              /\ PairInv'
            BY <2>1, <2>3, <2>5, <3>0, SettleKeepsPair
        <3>2. OidcTypeOK'
            BY <1>b, <2>1, <2>3, <3>1 DEF OidcTypeOK
        <3>3. HeldInv'
            BY <2>1, <3>1 DEF HeldInv
        <3>4. ThreadInv'
            BY <2>1, <3>1, PairPlaces DEF ThreadInv, Threads
        <3>5. FreshInv'
            BY <2>1, <3>1 DEF FreshInv, FreshAtStart, FileScrubbed, Threads
        <3> QED BY <1>a, <3>1, <3>2, <3>3, <3>4, <3>5
    <2> QED BY <1>3, <2>4, <2>5 DEF FetchFailed
<1>4. CASE Install(t) \/ InstallFailed(t)
    <2>1. /\ step[t] = "install" /\ file' \in {file, held[t]}
          /\ UNCHANGED <<kept, minted, exchanged, tries, thread, stopping>>
          /\ siblings' \in {siblings, siblings \cup {held[t]}}
        BY <1>4 DEF Install, InstallFailed, left
    <2>2. PICK outcome \in {"done", "failed"} :
             Settle(t, outcome) /\ (outcome = "done" => file' = held[t])
        BY <1>4 DEF Install, InstallFailed
    <2>3. InPair(t)
        BY <2>1 DEF InPair
    <2>4. /\ lock' \in Threads \cup {Free}
          /\ step' \in [Threads -> {"idle", "wanting", "fetch", "install", "done", "failed"}]
          /\ held' \in [Threads -> 0..MaxMint] /\ fault' \in BOOLEAN
          /\ step'[t] = (IF t = "refresher" THEN "idle" ELSE outcome)
          /\ \A u \in Threads : u # t => step'[u] = step[u] /\ held'[u] = held[u]
          /\ PairInv'
        BY <2>1, <2>2, <2>3, SettleKeepsPair
    <2>5. /\ held[t] \in Assertions /\ held[t] \notin exchanged /\ held[t] <= minted
        BY <1>b, <2>1, OidcAssumption DEF HeldInv, OidcTypeOK, Assertions
    <2>6. OidcTypeOK'
        BY <1>b, <2>1, <2>4, <2>5 DEF OidcTypeOK
    <2>7. HeldInv'
        <3>1. \A u \in Threads : step'[u] # "install"
            BY <2>1, <2>2, <2>4, OneInPair DEF InPair
        <3> QED BY <2>1, <2>5, <3>1 DEF HeldInv
    <2>8. ThreadInv'
        BY <2>1, <2>4, PairPlaces DEF ThreadInv, Threads
    <2>9. FreshInv'
        <3>1. file' # file => file' \in Assertions \ exchanged
            BY <2>1, <2>5
        <3>2. FileScrubbed'
            BY <2>1, <3>1, PairPlaces DEF FreshInv, FileScrubbed, Threads
        <3>3. FreshAtStart'
            BY <2>1, <3>1 DEF FreshInv, FreshAtStart
        <3>4. (pc = "judge" /\ step["main"] = "done" => file \in Assertions \ exchanged)'
            BY <2>1, <2>2, <2>4, <2>5, <3>1 DEF FreshInv, Threads
        <3> QED BY <3>2, <3>3, <3>4 DEF FreshInv
    <2> QED BY <1>a, <2>4, <2>6, <2>7, <2>8, <2>9
<1> QED BY <1>1, <1>2, <1>3, <1>4 DEF Pair

\* The machine starts afresh, or its processes die: no thread works any more.
LEMMA NobodyWorks ==
    ASSUME OidcInv, lock' = Free, thread' = "off",
           step' = [t \in Threads |-> "idle"], tries' = [t \in Threads |-> 0],
           held' = [t \in Threads |-> 0],
           file' \in {file, Absent}, minted' = minted, exchanged' = exchanged,
           siblings' \in {siblings, {}}, kept' \in BOOLEAN,
           fault' \in BOOLEAN, stopping' \in BOOLEAN,
           pc' \in {"preflight", "dead"}, joined' \in {joined, FALSE},
           pc' = "preflight" => joined' = FALSE
    PROVE  OidcInv'
<1> USE DEF OidcInv
<1>1. \A t \in Threads : step'[t] = "idle" /\ tries'[t] = 0 /\ held'[t] = 0
    OBVIOUS
<1>2. 0 \in 0..MaxMint /\ 0 \in 0..RetryAttempts
    BY OidcAssumption
<1>3. OidcTypeOK'
    BY <1>2 DEF OidcTypeOK
<1>4. PcTypeOK'
    BY DEF PcTypeOK, Over
<1>5. PairInv' /\ HeldInv'
    <2>1. minted \in Nat
        BY OidcAssumption DEF OidcTypeOK
    <2> QED BY <1>1, <2>1 DEF PairInv, HeldInv, InPair, Threads, Absent
<1>6. ThreadInv' /\ FreshInv'
    BY <1>1 DEF ThreadInv, FreshInv, FreshAtStart, FileScrubbed, Threads, Over
<1> QED BY <1>3, <1>4, <1>5, <1>6

\* Steps that leave the threads and the file alone: the pair's part stays.
LEMMA QuietKeeps ==
    ASSUME OidcInv, UNCHANGED <<file, siblings, kept, minted, exchanged, lock, step, tries, held>>,
           thread' = thread \/ (thread = "running" /\ thread' = "ended" /\ step["refresher"] = "idle"),
           fault' \in BOOLEAN, stopping' \in BOOLEAN
    PROVE  OidcTypeOK' /\ PairInv' /\ HeldInv'
<1> USE DEF OidcInv
<1>1. OidcTypeOK'
    BY DEF OidcTypeOK
<1>2. HeldInv'
    BY DEF HeldInv
<1>3. PairInv'
    BY DEF PairInv, InPair
<1> QED BY <1>1, <1>2, <1>3

\* Steps of the main thread that do not touch the threads.
LEMMA MainMovesOn ==
    ASSUME OidcInv, UNCHANGED oidcVars, joined' = joined,
           \/ pc' = pc
           \/ /\ pc \in {"start", "acquire", "loop", "admit", "invoke", "finish", "account", "check"}
              /\ pc' \in {"stop", "loop", "admit", "finish", "account", "check"}
              /\ step["main"] = "idle"
           \/ pc = "invoke" /\ pc' = "flight"
           \/ pc = "preflight" /\ pc' = "refused"
           \/ pc \in {"stop", "join"} /\ pc' \in {"join"}
           \/ pc = "survey" /\ pc' = "write"
           \/ pc = "write" /\ pc' = "close"
           \/ pc = "close" /\ pc' = "over"
    PROVE  OidcInv'
<1> USE DEF OidcInv
<1>1. UNCHANGED <<file, siblings, kept, minted, exchanged, lock, step, tries, held, thread, fault, stopping>>
    BY DEF oidcVars, left
<1>2. OidcTypeOK' /\ PairInv' /\ HeldInv'
    BY <1>1, QuietKeeps DEF OidcTypeOK
<1>3. PcTypeOK'
    BY DEF PcTypeOK, Over
<1>4. ThreadInv'
    BY <1>1 DEF ThreadInv, Over
<1>5. FreshInv'
    BY <1>1 DEF FreshInv, FreshAtStart, FileScrubbed, ThreadInv
<1> QED BY <1>2, <1>3, <1>4, <1>5

LEMMA OidcSteps == OidcInv /\ [Next]_vars => OidcInv'
<1> SUFFICES ASSUME OidcInv, [Next]_vars PROVE OidcInv'
    OBVIOUS
<1>q. ASSUME NEW t \in Threads, Pair(t), UNCHANGED <<pc, joined>>, t = "refresher" => pc \notin Over \cup {"idle"}
      PROVE OidcInv'
    BY <1>q, PairKeeps
<1>0. CASE UNCHANGED vars
    BY <1>0, MainMovesOn DEF vars
<1>1. ASSUME NEW rerun \in BOOLEAN, Dispatch(rerun)
      PROVE  OidcInv'
    <2>1. fault' \in BOOLEAN /\ stopping' \in BOOLEAN /\ pc' = "preflight" /\ joined' = FALSE
        BY <1>1 DEF Dispatch, To
    <2>2. /\ lock' = Free /\ thread' = "off" /\ file' = Absent
          /\ step' = [t \in Threads |-> "idle"] /\ tries' = [t \in Threads |-> 0]
          /\ held' = [t \in Threads |-> 0] /\ minted' = minted /\ exchanged' = exchanged
          /\ siblings' = {} /\ kept' = FALSE
        BY <1>1 DEF Dispatch
    <2> QED BY <2>1, <2>2, NobodyWorks
<1>2. CASE Killed
    <2>1. fault' \in BOOLEAN /\ stopping' \in BOOLEAN /\ pc' = "dead" /\ joined' = joined
        BY <1>2 DEF Killed, To, KeepRun, OidcInv, OidcTypeOK
    <2>2. /\ lock' = Free /\ thread' = "off" /\ file' = file
          /\ step' = [t \in Threads |-> "idle"] /\ tries' = [t \in Threads |-> 0]
          /\ held' = [t \in Threads |-> 0] /\ minted' = minted /\ exchanged' = exchanged
          /\ siblings' = siblings /\ kept' = kept /\ kept \in BOOLEAN
        BY <1>2 DEF Killed, left, OidcInv, OidcTypeOK
    <2> QED BY <2>1, <2>2, NobodyWorks
<1>3. CASE CostEvidence \/ RecordCost
    BY <1>3, MainMovesOn DEF CostEvidence, RecordCost
<1>4. CASE MainPair
    BY <1>4, <1>q DEF MainPair, KeepDriver, Threads
<1>5. CASE RefresherStep
    <2>1. UNCHANGED <<pc, joined>> /\ pc \notin Over \cup {"idle"} /\ Refresher
        BY <1>5 DEF RefresherStep, KeepDriver
    <2>2. CASE Pair("refresher")
        BY <2>1, <2>2, <1>q DEF Threads
    <2>3. CASE Tick
        <3>1. /\ thread = "running" /\ step["refresher"] = "idle"
              /\ step' = [step EXCEPT !["refresher"] = "wanting"]
              /\ UNCHANGED <<file, siblings, kept, minted, exchanged, lock, tries, held, thread, fault, stopping>>
            BY <2>3 DEF Tick, left
        <3>2. step'["refresher"] = "wanting" /\ step'["main"] = step["main"]
            BY <3>1 DEF OidcInv, OidcTypeOK, Threads
        <3>3. OidcTypeOK'
            BY <3>1 DEF OidcInv, OidcTypeOK
        <3>4. PairInv' /\ HeldInv'
            BY <3>1, <3>2 DEF OidcInv, PairInv, HeldInv, InPair, Threads
        <3>5. ThreadInv' /\ FreshInv' /\ PcTypeOK'
            BY <2>1, <3>1, <3>2 DEF OidcInv, ThreadInv, FreshInv, FreshAtStart, FileScrubbed, PcTypeOK
        <3> QED BY <3>3, <3>4, <3>5 DEF OidcInv
    <2>4. CASE RefresherEnds
        <3>1. /\ thread = "running" /\ thread' = "ended" /\ step["refresher"] = "idle"
              /\ UNCHANGED <<file, siblings, kept, minted, exchanged, lock, step, tries, held, fault, stopping>>
            BY <2>4 DEF RefresherEnds, pairVars, left
        <3>2. OidcTypeOK' /\ PairInv' /\ HeldInv'
            BY <3>1, QuietKeeps DEF OidcInv, OidcTypeOK
        <3>3. ThreadInv' /\ FreshInv' /\ PcTypeOK'
            BY <2>1, <3>1 DEF OidcInv, ThreadInv, FreshInv, FreshAtStart, FileScrubbed, PcTypeOK
        <3> QED BY <3>2, <3>3 DEF OidcInv
    <2> QED BY <2>1, <2>2, <2>3, <2>4 DEF Refresher
<1>6. CASE Preflight
    <2>1. pc = "preflight" /\ joined' = joined /\ pc' \in {"start", "refused"}
          /\ ((UNCHANGED oidcVars /\ pc' = "refused") \/ WritePlaceholder)
        BY <1>6 DEF Preflight, To, KeepRun
    <2>2. CASE WritePlaceholder
        <3>1. /\ file' = Placeholder
              /\ UNCHANGED <<siblings, kept, minted, exchanged, lock, step, tries, held, thread, fault, stopping>>
            BY <2>2 DEF WritePlaceholder, pairVars, left
        <3>2. \A t \in Threads : step[t] = "idle"
            BY <2>1 DEF OidcInv, PairInv, ThreadInv, Threads
        <3>3. OidcTypeOK' /\ PcTypeOK'
            BY <2>1, <3>1 DEF OidcInv, OidcTypeOK, PcTypeOK, Over
        <3>4. PairInv' /\ HeldInv'
            <4>1. minted \in Nat
                BY OidcAssumption DEF OidcInv, OidcTypeOK
            <4> QED BY <3>1, <3>2, <4>1 DEF OidcInv, PairInv, HeldInv, InPair, Placeholder
        <3>5. ThreadInv' /\ FreshInv'
            BY <2>1, <3>1, <3>2 DEF OidcInv, ThreadInv, FreshInv, FreshAtStart, FileScrubbed, Threads, Over
        <3> QED BY <3>3, <3>4, <3>5 DEF OidcInv
    <2> QED BY <2>1, <2>2, MainMovesOn
<1>7. CASE StartRun
    <2>1. pc = "start" /\ joined' = joined
          /\ ((CallAcquire /\ pc' = "acquire") \/ (UNCHANGED oidcVars /\ pc' = "stop"))
        BY <1>7 DEF StartRun, StopWith, To, KeepRun
    <2>2. CASE CallAcquire /\ pc' = "acquire"
        <3>1. /\ step' = [step EXCEPT !["main"] = "fetch"] /\ tries' = [tries EXCEPT !["main"] = 0]
              /\ UNCHANGED <<lock, held, file, siblings, kept, minted, exchanged, thread, fault, stopping>>
            BY <2>2 DEF CallAcquire, StartFetch, left
        <3>2. step'["main"] = "fetch" /\ tries'["main"] = 0 /\ step'["refresher"] = "idle"
              /\ thread = "off" /\ lock = Free
            BY <2>1, <3>1 DEF OidcInv, OidcTypeOK, PairInv, ThreadInv, InPair, Threads
        <3>3. OidcTypeOK' /\ PcTypeOK'
            <4>1. 0 \in 0..RetryAttempts
                BY OidcAssumption
            <4> QED BY <2>1, <2>2, <3>1, <4>1 DEF OidcInv, OidcTypeOK, PcTypeOK
        <3>4. PairInv' /\ HeldInv'
            BY <3>1, <3>2, OidcAssumption DEF OidcInv, PairInv, HeldInv, InPair, Threads
        <3>5. ThreadInv' /\ FreshInv'
            BY <2>1, <2>2, <3>1, <3>2 DEF OidcInv, ThreadInv, FreshInv, FreshAtStart, FileScrubbed, Over
        <3> QED BY <3>3, <3>4, <3>5 DEF OidcInv
    <2>3. CASE UNCHANGED oidcVars /\ pc' = "stop"
        <3>1. step["main"] = "idle"
            BY <2>1 DEF OidcInv, ThreadInv
        <3> QED BY <2>1, <2>3, <3>1, MainMovesOn
    <2> QED BY <2>1, <2>2, <2>3
<1>8. CASE Acquired \/ Admitted
    <2>1. /\ pc \in {"acquire", "judge"} /\ joined' = joined
          /\ step["main"] \in {"done", "failed"}
          /\ step' = [step EXCEPT !["main"] = "idle"]
          /\ UNCHANGED <<file, siblings, kept, minted, exchanged, lock, tries, held, fault, stopping>>
        BY <1>8 DEF Acquired, Admitted, Returned, KeepRun, left
    <2>2. /\ thread' \in {thread, "running"} /\ pc' \in {"loop", "stop", "invoke"}
          /\ thread' # thread => pc = "acquire"
          /\ pc' = "invoke" => pc = "judge" /\ step["main"] = "done"
        BY <1>8 DEF Acquired, Admitted, To, StopWith
    <2>3. step'["main"] = "idle" /\ step'["refresher"] = step["refresher"]
        BY <2>1 DEF OidcInv, OidcTypeOK, Threads
    <2>4. OidcTypeOK' /\ PcTypeOK'
        BY <2>1, <2>2 DEF OidcInv, OidcTypeOK, PcTypeOK
    <2>5. PairInv' /\ HeldInv'
        BY <2>1, <2>2, <2>3 DEF OidcInv, PairInv, HeldInv, ThreadInv, InPair, Threads
    <2>6. ThreadInv'
        BY <2>1, <2>2, <2>3 DEF OidcInv, ThreadInv, Over
    <2>7. FreshInv'
        BY <2>1, <2>2 DEF OidcInv, FreshInv, FreshAtStart, FileScrubbed
    <2> QED BY <2>4, <2>5, <2>6, <2>7 DEF OidcInv
<1>9. CASE Admit
    <2>1. pc = "admit" /\ joined' = joined /\ step["main"] = "idle"
          /\ ((PrepareFreshAssertion /\ pc' = "judge") \/ (UNCHANGED oidcVars /\ pc' = "stop"))
        BY <1>9 DEF Admit, StopWith, To, KeepRun
    <2>2. CASE PrepareFreshAssertion /\ pc' = "judge"
        <3>1. /\ step' = [step EXCEPT !["main"] = "wanting"]
              /\ UNCHANGED <<file, siblings, kept, minted, exchanged, lock, tries, held, thread, fault, stopping>>
            BY <2>2 DEF PrepareFreshAssertion, left
        <3>2. step'["main"] = "wanting" /\ step'["refresher"] = step["refresher"]
            BY <3>1 DEF OidcInv, OidcTypeOK, Threads
        <3>3. OidcTypeOK' /\ PcTypeOK'
            BY <2>1, <2>2, <3>1 DEF OidcInv, OidcTypeOK, PcTypeOK
        <3>4. PairInv' /\ HeldInv'
            BY <2>1, <3>1, <3>2 DEF OidcInv, PairInv, HeldInv, InPair, Threads
        <3>5. ThreadInv' /\ FreshInv'
            BY <2>1, <2>2, <3>1, <3>2 DEF OidcInv, ThreadInv, FreshInv, FreshAtStart, FileScrubbed, Over
        <3> QED BY <3>3, <3>4, <3>5 DEF OidcInv
    <2> QED BY <2>1, <2>2, MainMovesOn
<1>10. CASE Contact
    <2>1. /\ pc = "flight" /\ pc' = "finish" /\ joined' = joined
          /\ exchanged' = exchanged \cup ({file} \cap Assertions)
          /\ UNCHANGED <<file, siblings, kept, minted, lock, step, tries, held, thread, fault, stopping>>
        BY <1>10 DEF Contact, Exchange, To, KeepRun, pairVars, left
    <2>2. OidcTypeOK' /\ PcTypeOK'
        <3>1. exchanged' \subseteq 1..minted
            <4>1. minted \in 0..MaxMint /\ exchanged \subseteq 1..minted
                BY DEF OidcInv, OidcTypeOK
            <4>2. file \in Assertions => file \in 1..minted
                BY <4>1, OidcAssumption DEF OidcInv, HeldInv, Assertions
            <4> QED BY <2>1, <4>1, <4>2
        <3> QED BY <2>1, <3>1 DEF OidcInv, OidcTypeOK, PcTypeOK
    <2>3. PairInv' /\ HeldInv'
        BY <2>1 DEF OidcInv, PairInv, HeldInv, InPair
    <2>4. ThreadInv' /\ FreshInv'
        BY <2>1 DEF OidcInv, ThreadInv, FreshInv, FreshAtStart, FileScrubbed, Over
    <2> QED BY <2>2, <2>3, <2>4 DEF OidcInv
<1>11. CASE StopRefresher
    <2>1. /\ pc = "stop" /\ pc' = "join" /\ joined' = joined /\ stopping' = TRUE
          /\ UNCHANGED <<file, siblings, kept, minted, exchanged, lock, step, tries, held, thread, fault>>
        BY <1>11 DEF StopRefresher, SetStop, To, KeepRun, pairVars, left
    <2>2. OidcTypeOK' /\ PairInv' /\ HeldInv'
        BY <2>1, QuietKeeps DEF OidcInv, OidcTypeOK
    <2>3. PcTypeOK' /\ ThreadInv' /\ FreshInv'
        BY <2>1 DEF OidcInv, PcTypeOK, ThreadInv, FreshInv, FreshAtStart, FileScrubbed, Over
    <2> QED BY <2>2, <2>3 DEF OidcInv
<1>12. CASE Join \/ JoinTimedOut
    <2>1. /\ pc = "join" /\ pc' = "scrub" /\ joined' \in BOOLEAN
          /\ joined' => thread # "running" \/ joined
          /\ UNCHANGED <<file, siblings, kept, minted, exchanged, lock, step, tries, held, thread, fault, stopping>>
        <3>1. pc = "join" /\ pc' = "scrub" /\ UNCHANGED oidcVars
            BY <1>12 DEF Join, JoinTimedOut, To
        <3>2. (joined' = TRUE /\ thread # "running") \/ joined' = joined
            BY <1>12 DEF Join, JoinTimedOut, Joined, KeepRun
        <3>3. joined \in BOOLEAN
            BY DEF OidcInv, PcTypeOK
        <3>4. UNCHANGED <<file, siblings, kept, minted, exchanged, lock, step, tries, held, thread, fault, stopping>>
            BY <3>1 DEF oidcVars, left
        <3>5. joined' \in BOOLEAN
            BY <3>2, <3>3
        <3>6. joined' => thread # "running" \/ joined
            BY <3>2
        <3> QED BY <3>1, <3>4, <3>5, <3>6
    <2>2. OidcTypeOK' /\ PairInv' /\ HeldInv'
        BY <2>1, QuietKeeps DEF OidcInv, OidcTypeOK
    <2>3. PcTypeOK' /\ ThreadInv' /\ FreshInv'
        BY <2>1 DEF OidcInv, PcTypeOK, ThreadInv, FreshInv, FreshAtStart, FileScrubbed, Over
    <2> QED BY <2>2, <2>3 DEF OidcInv
<1>13. CASE Scrub
    <2>1. /\ pc = "scrub" /\ pc' = "survey" /\ joined' = joined
          /\ file' \in {Absent, Placeholder, file} /\ kept' \in BOOLEAN
          /\ file' = file /\ file # Absent => kept' = TRUE \/ file = Placeholder
          /\ UNCHANGED <<siblings, minted, exchanged, lock, step, tries, held, thread, fault, stopping>>
        BY <1>13 DEF Scrub, ScrubTokenFile, To, KeepRun, pairVars
    <2>2. OidcTypeOK' /\ PcTypeOK'
        BY <2>1 DEF OidcInv, OidcTypeOK, PcTypeOK
    <2>3. PairInv' /\ HeldInv'
        <3>1. minted \in Nat
            BY OidcAssumption DEF OidcInv, OidcTypeOK
        <3> QED BY <2>1, <3>1 DEF OidcInv, PairInv, HeldInv, InPair, Absent, Placeholder
    <2>4. ThreadInv' /\ FreshInv'
        BY <2>1 DEF OidcInv, ThreadInv, FreshInv, FreshAtStart, FileScrubbed, Over, Absent, Placeholder, Assertions
    <2> QED BY <2>2, <2>3, <2>4 DEF OidcInv
<1>14. CASE NextItem \/ Invoke \/ JudgeRefused \/ Finish \/ Account \/ Check
    <2>1. /\ pc \in {"loop", "invoke", "finish", "account", "check"}
          /\ UNCHANGED oidcVars /\ joined' = joined
          /\ pc' \in {"stop", "admit", "account", "check", "loop"} \/ (pc = "invoke" /\ pc' = "flight")
        BY <1>14 DEF NextItem, Invoke, JudgeRefused, Finish, Account, Check, StopWith, To, KeepRun
    <2>2. step["main"] = "idle"
        BY <2>1 DEF OidcInv, ThreadInv
    <2> QED BY <2>1, <2>2, MainMovesOn
<1>15. CASE Survey \/ WriteArtifact \/ CloseRun
    BY <1>15, MainMovesOn DEF Survey, WriteArtifact, CloseRun, To, KeepRun
<1> QED BY <1>0, <1>1, <1>2, <1>3, <1>4, <1>5, <1>6, <1>7, <1>8, <1>9, <1>10, <1>11, <1>12, <1>13,
           <1>14, <1>15 DEF Next, Main

LEMMA OidcAlways == Spec => []OidcInv
<1>1. Init => OidcInv
    BY OidcStarts
<1>2. OidcInv /\ [Next]_vars => OidcInv'
    BY OidcSteps
<1> QED BY <1>1, <1>2, PTL DEF Spec

\* Whatever the two threads do between an admission and the CLI's start, and
\* however often requests fail, the assertion on file was never exchanged.
THEOREM FreshWhenStarted == Spec => []FreshAtStart
<1>1. OidcInv => FreshAtStart
    BY DEF OidcInv, FreshInv
<1> QED BY <1>1, OidcAlways, PTL

\* An assertion left in a sibling is one whose installation failed, and the
\* thread it failed in has told the job.
Ending == {"stop", "join", "scrub", "survey", "write", "close", "over"}

Noticed ==
    \/ fault
    \/ pc \in {"acquire", "judge"} /\ step["main"] = "failed"
    \/ pc \in Ending /\ reason = "AUTH_OR_OIDC_FAULT"

SiblingInv == pc # "dead" /\ siblings # {} => Noticed

LEMMA SiblingSteps == OidcInv /\ SiblingInv /\ [Next]_vars => SiblingInv'
<1> SUFFICES ASSUME OidcInv, SiblingInv, [Next]_vars, pc' # "dead", siblings' # {}
             PROVE  Noticed'
    BY DEF SiblingInv
<1>q. ASSUME NEW t \in Threads, Pair(t), UNCHANGED <<pc, reason>>
      PROVE  Noticed'
    <2>1. InPair(t) \/ step[t] = "wanting"
        BY <1>q DEF Pair, TakeLock, Fetched, FetchFailed, Install, InstallFailed, InPair
    <2>2. /\ fault => fault'
          /\ t = "refresher" => step'["main"] = step["main"]
        BY <1>q DEF Pair, TakeLock, StartFetch, Fetched, FetchFailed, Install, InstallFailed, Settle,
                    OidcInv, OidcTypeOK, Threads
    <2>3. Noticed => Noticed'
        BY <1>q, <2>1, <2>2 DEF Noticed, InPair, Threads
    <2>4. CASE siblings' = siblings
        BY <1>q, <2>3, <2>4 DEF SiblingInv
    <2>5. CASE siblings' # siblings
        <3>1. InstallFailed(t)
            BY <1>q, <2>5 DEF Pair, TakeLock, StartFetch, Fetched, FetchFailed, Install, left
        <3>2. t = "refresher" => fault'
            BY <3>1 DEF InstallFailed, Settle
        <3>3. t = "main" => step'["main"] = "failed" /\ pc \in {"acquire", "judge"}
            <4>1. step' = [step EXCEPT ![t] = IF t = "refresher" THEN "idle" ELSE "failed"]
                BY <3>1 DEF InstallFailed, Settle
            <4>2. step[t] = "install"
                BY <3>1 DEF InstallFailed
            <4>3. t = "main" => pc \in {"acquire", "judge"}
                BY <4>2, PairPlaces
            <4> QED BY <4>1, <4>3 DEF OidcInv, OidcTypeOK
        <3> QED BY <1>q, <3>2, <3>3 DEF Noticed, Threads
    <2> QED BY <2>4, <2>5
<1>m. step["main"] = "failed" => pc \in {"acquire", "judge"}
    BY DEF OidcInv, ThreadInv
<1>0. CASE UNCHANGED vars
    BY <1>0 DEF vars, oidcVars, left, evidence, SiblingInv, Noticed
<1>1. CASE \E rerun \in BOOLEAN : Dispatch(rerun)
    BY <1>1 DEF Dispatch
<1>2. CASE Killed
    BY <1>2 DEF Killed, To
<1>3. CASE CostEvidence \/ RecordCost
    BY <1>3 DEF CostEvidence, RecordCost, KeepBooks, oidcVars, left, evidence, SiblingInv, Noticed
<1>4. CASE MainPair
    <2>1. Pair("main") /\ UNCHANGED <<pc, reason>>
        BY <1>4 DEF MainPair, KeepDriver, KeepBooks, evidence
    <2> QED BY <2>1, <1>q DEF Threads
<1>5. CASE RefresherStep
    <2>1. Refresher /\ UNCHANGED <<pc, reason>>
        BY <1>5 DEF RefresherStep, KeepDriver, KeepBooks, evidence
    <2>2. CASE Pair("refresher")
        BY <2>1, <2>2, <1>q DEF Threads
    <2>3. CASE Tick
        <3>1. siblings' = siblings /\ fault' = fault /\ step'["main"] = step["main"]
            BY <2>3 DEF Tick, left, OidcInv, OidcTypeOK, Threads
        <3> QED BY <2>1, <3>1 DEF SiblingInv, Noticed
    <2>4. CASE RefresherEnds
        <3>1. siblings' = siblings /\ fault' = fault /\ step' = step
            BY <2>4 DEF RefresherEnds, left, pairVars
        <3> QED BY <2>1, <3>1 DEF SiblingInv, Noticed
    <2> QED BY <2>1, <2>2, <2>3, <2>4 DEF Refresher
<1>6. CASE Acquired \/ Admitted
    <2>1. /\ pc \in {"acquire", "judge"} /\ siblings' = siblings /\ fault' = fault
          /\ step["main"] = "failed" => pc' = "stop" /\ reason' = "AUTH_OR_OIDC_FAULT"
        BY <1>6 DEF Acquired, Admitted, StopWith, To, left
    <2> QED BY <2>1 DEF SiblingInv, Noticed, Ending
<1>7. CASE Preflight \/ StartRun \/ NextItem \/ Admit \/ Invoke \/ JudgeRefused \/ Contact \/ Finish
           \/ Account \/ Check
    <2>1. pc \in {"preflight", "start", "loop", "admit", "invoke", "flight", "finish", "account", "check"}
        BY <1>7 DEF Preflight, StartRun, NextItem, Admit, Invoke, JudgeRefused, Contact, Finish, Account, Check
    <2>2. siblings' = siblings /\ fault' = fault
        BY <1>7 DEF Preflight, WritePlaceholder, StartRun, CallAcquire, NextItem, Admit, PrepareFreshAssertion,
                    Invoke, JudgeRefused, Contact, Exchange, Finish, Account, Check, oidcVars, left
    <2> QED BY <2>1, <2>2 DEF SiblingInv, Noticed, Ending
<1>8. CASE StopRefresher \/ Join \/ JoinTimedOut \/ Scrub \/ Survey \/ WriteArtifact \/ CloseRun
    <2>1. /\ pc \in {"stop", "join", "scrub", "survey", "write", "close"}
          /\ pc' \in Ending /\ siblings' = siblings /\ fault' = fault
        BY <1>8 DEF StopRefresher, SetStop, Join, JoinTimedOut, Scrub, ScrubTokenFile, Survey, WriteArtifact,
                    CloseRun, To, oidcVars, left, Ending
    <2>2. reason = "AUTH_OR_OIDC_FAULT" => reason' = reason
        BY <1>8 DEF StopRefresher, Join, JoinTimedOut, Scrub, Survey, WriteArtifact, CloseRun, KeepBooks, evidence
    <2> QED BY <2>1, <2>2 DEF SiblingInv, Noticed
<1> QED BY <1>0, <1>1, <1>2, <1>3, <1>4, <1>5, <1>6, <1>7, <1>8 DEF Next, Main

\* The scrub removes the token or says nothing of having failed to: one is on
\* file afterwards only when both of its attempts failed, or a tick outlived the
\* bounded join, and then nothing has exchanged it; and the job knows of every
\* assertion it leaves in a sibling.
THEOREM TokenStaysScrubbed == Spec => []TokenScrubbed
<1>1. Init => SiblingInv
    BY DEF Init, OidcInit, SiblingInv
<1>2. OidcInv /\ SiblingInv => TokenScrubbed
    <2> SUFFICES ASSUME OidcInv, SiblingInv PROVE TokenScrubbed
        OBVIOUS
    <2>1. FileScrubbed
        BY DEF OidcInv, FreshInv
    <2>2. pc \in {"survey", "write", "close", "over"} /\ siblings # {} => fault \/ reason = "AUTH_OR_OIDC_FAULT"
        BY DEF SiblingInv, Noticed
    <2> QED BY <2>1, <2>2 DEF FileScrubbed, TokenScrubbed
<1> QED BY <1>1, <1>2, SiblingSteps, OidcAlways, PTL DEF Spec
----------------------------------------------------------------------------
(* The one rehearsal *)

Tail == {"stop", "join", "scrub", "survey", "write", "close"}
Corpus == {"loop", "admit", "judge", "invoke", "flight", "finish", "account", "check"}
Active == {"start", "acquire"} \cup Corpus \cup Tail

\* The first job and what comes before it: the only one that works.
First == job <= 1 /\ pc \notin Over

RunInv ==
    /\ pc = "idle" <=> job = 0
    /\ pc = "idle" => ordinal = 1 /\ committed = 0
    /\ pc \in Active => job = 1
    /\ contacts \subseteq {1}

Untouched(o) ==
    /\ o \notin events.started /\ o \notin events.finished /\ o \notin Accounted
    /\ spent[o] = Unknown /\ o \notin told

\* What is known of the item in hand and of those behind it.
ItemInv ==
    First =>
       /\ \A o \in Ordinals : o > ordinal /\ pc \notin Tail => Untouched(o)
       /\ pc \notin {"flight", "finish", "account", "check"} \cup Tail =>
             \A o \in Ordinals : o >= ordinal => Untouched(o)
       /\ pc \in Corpus \ {"loop"} => ordinal <= N
       /\ pc \in {"flight", "finish"} =>
             /\ ordinal \in events.started \ Accounted /\ ordinal \notin told
             /\ row = [of |-> ordinal, charged |-> Unknown, reserved |-> Reserve, ceiling |-> FALSE]
       /\ pc = "flight" => spent[ordinal] = Unknown
       /\ pc = "finish" => spent[ordinal] \in Nat
       /\ pc = "account" => ordinal \notin Accounted

\* A known charge covers what the invocation cost up to its reservation, and
\* in full when the SDK reported the cost.
Covered(charged, o) ==
    charged = Unknown \/ (charged >= Within(o) /\ (o \in told => charged >= Actual(o)))

AccountInv ==
    /\ \A a, b \in events.accounted : a.ordinal = b.ordinal => a = b
    /\ \A o \in Ordinals : spent[o] # Unknown => o \in events.started
    /\ \A a \in events.accounted : a.ordinal \in events.started => Covered(a.charged, a.ordinal)
    /\ pc = "account" /\ ordinal \in events.started => Covered(row.charged, ordinal)

\* The first n items are accounted for, once each, within their reservations.
AllGood(n) ==
    /\ Accounted = 1..n /\ IsFiniteSet(events.accounted) /\ Cardinality(events.accounted) = n
    /\ \A a \in events.accounted : a.charged \in 0..Reserve

LastGood == row.charged \in Nat /\ row.charged <= row.reserved

PassInv ==
    /\ First /\ pc \notin {"check"} \cup Tail => AllGood(ordinal - 1)
    /\ First /\ pc \in {"account", "check"} /\ ~failed => row.charged \in Nat /\ row.reserved = Reserve
    /\ First /\ pc = "check" /\ ~failed /\ LastGood => AllGood(ordinal)
    /\ pc \in Tail /\ reason = "none" => Complete /\ AllGood(N)
    /\ pc \in {"write", "close"} /\ reason = "none" => cliSeen
    /\ First => events.ended = "none"
    /\ First /\ pc # "close" => artifact = "none"
    /\ PassIsEarned /\ (artifact = "summary" => AllGood(N))

\* What the invocations cost within their reservations.
Used == SumFunctionOnSet([o \in Ordinals |-> Within(o)], Ordinals)

MoneyInv ==
    /\ Used <= Total
    /\ First /\ pc \notin Tail => Used <= committed + (IF pc = "finish" THEN Within(ordinal) ELSE 0)
    /\ pc \in {"admit", "judge", "invoke", "flight", "finish"} => committed + Reserve <= Total

\* A reported overshoot ends the run.
Overshot(o) == o \in told /\ Actual(o) > Reserve

OvershootInv ==
    /\ \A o \in Ordinals : Overshot(o) => \A p \in events.started : p <= o
    /\ First /\ pc \notin {"account", "check"} \cup Tail => \A o \in Ordinals : ~Overshot(o)
    /\ pc \in {"account", "check"} /\ ~failed /\ LastGood => \A o \in Ordinals : ~Overshot(o)

\* A cost is recovered when the one rehearsal is over, and of what its events say.
CostInv ==
    /\ First => cost.kind = "none"
    /\ cost.kind = "row" => RecordValid /\ cost.charge = TimingSpend
    /\ cost.kind = "nothing_due" => events.started = {}

BooksInv ==
    /\ BooksTypeOK
    /\ RunInv /\ ItemInv /\ AccountInv /\ PassInv /\ MoneyInv /\ OvershootInv /\ CostInv

----------------------------------------------------------------------------
(* The steps, as the books see them *)

\* Places the run passes with nothing but a reason in hand.
Passes ==
    \/ pc' = pc /\ reason' = reason
    \/ pc = "preflight" /\ pc' = "refused" /\ reason' = reason
    \/ pc = "preflight" /\ pc' = "start" /\ reason' = reason /\ job = runId /\ runId <= 1
    \/ pc = "acquire" /\ pc' = "loop" /\ reason' = reason
    \/ pc = "loop" /\ pc' = "admit" /\ reason' = reason /\ ordinal <= N /\ committed + Reserve <= Total
    \/ pc = "admit" /\ pc' = "judge" /\ reason' = reason
    \/ pc = "judge" /\ pc' = "invoke" /\ reason' = reason
    \/ pc \in {"start", "acquire"} \cup Corpus /\ pc' = "stop" /\ reason' \in Reasons \ {"none"}
    \/ pc = "loop" /\ pc' = "stop" /\ reason' = reason /\ ordinal > N /\ Complete
    \/ pc = "stop" /\ pc' = "join" /\ reason' = reason
    \/ pc = "join" /\ pc' = "scrub" /\ reason' = reason
    \/ pc = "scrub" /\ pc' = "survey" /\ reason' = reason
    \/ pc = "survey" /\ pc' = "write" /\ reason' \in Reasons
          /\ (reason' = "none" => reason = "none" /\ cliSeen)

SameBooks == UNCHANGED <<runVars, ordinal, committed, row, failed, events, cliSeen, artifact, spent, told, contacts, cost>>
Walk == SameBooks /\ recorded' \in [rows : 0..1, asked : 0..2] /\ Passes

\* The rest of a step that keeps all but what it names.
Steady == UNCHANGED <<runVars, cost, recorded>>

Begin ==
    /\ pc = "start" /\ pc' = "acquire" /\ events' = [events EXCEPT !.began = TRUE]
    /\ Steady /\ UNCHANGED <<ordinal, committed, row, failed, cliSeen, reason, artifact, spent, told, contacts>>
Enter ==
    /\ pc = "account" /\ pc' = "check"
    /\ events' = [events EXCEPT !.accounted = @ \cup {[ordinal |-> ordinal, charged |-> row.charged]}]
    /\ Steady /\ UNCHANGED <<ordinal, committed, row, failed, cliSeen, reason, artifact, spent, told, contacts>>
Continue ==
    /\ pc = "check" /\ pc' = "loop" /\ ordinal' = ordinal + 1
    /\ ~failed /\ (row.charged = Unknown \/ ~(row.charged > row.reserved))
    /\ Steady /\ UNCHANGED <<committed, row, failed, events, cliSeen, reason, artifact, spent, told, contacts>>

LEMMA StepKinds ==
    ASSUME BooksTypeOK, [Next]_vars
    PROVE  \/ Walk \/ Begin \/ Invoke \/ JudgeRefused \/ Contact \/ Finish \/ Enter \/ Continue
           \/ WriteArtifact \/ CloseRun \/ Killed \/ CostEvidence \/ \E rerun \in BOOLEAN : Dispatch(rerun)
<1> USE DEF Walk, SameBooks, Passes
<1>r. recorded \in [rows : 0..1, asked : 0..2]
    BY DEF BooksTypeOK
<1>n. committed \in Nat /\ ordinal \in 1..(N + 1) /\ N \in Nat /\ Reserve \in Nat /\ Total \in Nat
    BY TimingAssumption DEF BooksTypeOK
<1>1. CASE UNCHANGED vars
    BY <1>1, <1>r DEF vars, runVars, money, evidence, truth, after
<1>2. CASE MainPair \/ RefresherStep
    BY <1>2, <1>r DEF MainPair, RefresherStep, KeepDriver, KeepBooks, runVars, money, evidence, truth, after
<1>3. CASE RecordCost
    <2>1. SameBooks /\ pc' = pc /\ reason' = reason
        BY <1>3 DEF RecordCost, KeepBooks, runVars, money, evidence, truth
    <2>2. recorded.asked \in 0..1 /\ recorded.rows \in 0..1
          /\ recorded' = [rows |-> IF recorded.rows = 0 THEN 1 ELSE recorded.rows, asked |-> recorded.asked + 1]
        BY <1>3, <1>r DEF RecordCost
    <2>3. recorded' \in [rows : 0..1, asked : 0..2]
        BY <2>2
    <2> QED BY <2>1, <2>3
<1>4. CASE Preflight
    <2>1. SameBooks /\ recorded' = recorded /\ reason' = reason /\ pc = "preflight"
        BY <1>4 DEF Preflight, KeepRun, KeepBooks, runVars, money, evidence, truth, after
    <2>2. pc' = "refused" \/ (pc' = "start" /\ job = runId /\ ~(runId > 1))
        BY <1>4 DEF Preflight, To, FirstAttempt, PriorRunPresent
    <2>3. runId \in Nat
        BY TimingAssumption DEF BooksTypeOK
    <2> QED BY <1>r, <2>1, <2>2, <2>3
<1>5. CASE StartRun
    BY <1>5, <1>r DEF StartRun, Begin, Steady, StopWith, Record, To, KeepRun, runVars, money, truth, after, Reasons
<1>6. CASE Acquired \/ Admit \/ Admitted
    BY <1>6, <1>r DEF Acquired, Admit, Admitted, StopWith, To, KeepRun, runVars, money, truth, after,
                      Reasons, Corpus
<1>7. CASE NextItem
    <2>1. SameBooks /\ recorded' = recorded /\ pc = "loop"
        BY <1>7 DEF NextItem, KeepRun, runVars, money, truth, after
    <2>2. \/ pc' = "stop" /\ reason' \in Reasons \ {"none"}
          \/ pc' = "stop" /\ reason' = reason /\ ordinal > N /\ Complete
          \/ pc' = "admit" /\ reason' = reason /\ ~(ordinal > N) /\ ~(Remaining < Reserve)
        BY <1>7 DEF NextItem, StopWith, To, Reasons
    <2>3. ~(ordinal > N) => ordinal <= N
        BY <1>n
    <2>4. ~(Remaining < Reserve) => committed + Reserve <= Total
        BY <1>n DEF Remaining
    <2> QED BY <1>r, <2>1, <2>2, <2>3, <2>4 DEF Corpus
<1>8. CASE Account
    BY <1>8, <1>r DEF Account, Enter, Steady, StopWith, Record, To, KeepRun, runVars, money, truth, after,
                      Reasons, Corpus
<1>9. CASE Check
    <2>1. /\ pc = "check" /\ Steady
          /\ UNCHANGED <<runVars, committed, row, failed, events, cliSeen, artifact, spent, told, contacts>>
        BY <1>9 DEF Check, KeepRun, runVars, money, truth, after, Steady
    <2>2. \/ pc' = "stop" /\ reason' \in Reasons \ {"none"} /\ ordinal' = ordinal
          \/ /\ pc' = "loop" /\ ordinal' = ordinal + 1 /\ reason' = reason /\ ~failed
             /\ (row.charged = Unknown \/ ~(row.charged > row.reserved))
        BY <1>9 DEF Check, StopWith, To, Reasons
    <2> QED BY <1>r, <2>1, <2>2 DEF Steady, Continue, Corpus, runVars
<1>10. CASE StopRefresher \/ Join \/ JoinTimedOut \/ Scrub
    BY <1>10, <1>r DEF StopRefresher, Join, JoinTimedOut, Scrub, To, KeepRun, KeepBooks, runVars, money,
                       evidence, truth, after
<1>11. CASE Survey
    BY <1>11, <1>r DEF Survey, To, KeepRun, runVars, money, truth, after, Reasons, BooksTypeOK
<1> QED BY <1>1, <1>2, <1>3, <1>4, <1>5, <1>6, <1>7, <1>8, <1>9, <1>10, <1>11 DEF Next, Main

\* The item in hand is one of the corpus.
LEMMA InHand ==
    ASSUME BooksTypeOK, RunInv, ItemInv, pc \in Corpus \ {"loop"}
    PROVE  ordinal \in Ordinals /\ First /\ job = 1 /\ ordinal <= N
<1>1. First /\ job = 1
    BY DEF RunInv, First, Active, Corpus, Over
<1>2. ordinal <= N
    BY <1>1 DEF ItemInv
<1> QED BY <1>1, <1>2, TimingAssumption DEF BooksTypeOK, Ordinals

\* The larger and the smaller of two amounts.
LEMMA LargerOf == \A a, b \in Nat : Max({a, b}) \in Nat /\ Max({a, b}) >= a /\ Max({a, b}) >= b
<1> TAKE a, b \in Nat
<1> DEFINE S == {a, b}
<1>1. \E x \in S : \A y \in S : x >= y
    <2>1. CASE a >= b
        BY <2>1
    <2>2. CASE b >= a
        BY <2>2
    <2> QED BY <2>1, <2>2
<1>2. Max(S) \in S /\ \A y \in S : Max(S) >= y
    BY <1>1 DEF Max
<1> QED BY <1>2

LEMMA SmallerOf == \A a, b \in Nat : Min({a, b}) = IF a <= b THEN a ELSE b
<1> TAKE a, b \in Nat
<1> DEFINE S == {a, b}
<1>1. \E x \in S : \A y \in S : x =< y
    <2>1. CASE a <= b
        BY <2>1
    <2>2. CASE b <= a
        BY <2>2
    <2> QED BY <2>1, <2>2
<1>2. Min(S) \in S /\ \A y \in S : Min(S) =< y
    BY <1>1 DEF Min
<1> QED BY <1>2

\* What a call cost, and what of it counts against the budget.
Parts(o) ==
    /\ Actual(o) \in Nat
    /\ spent[o] = Unknown => Actual(o) = 0
    /\ spent[o] # Unknown => Actual(o) = spent[o]
    /\ Within(o) = IF Actual(o) <= Reserve THEN Actual(o) ELSE Reserve
    /\ Within(o) \in 0..Reserve

LEMMA PartsOf ==
    ASSUME NEW o \in Ordinals
    PROVE  /\ BooksTypeOK => Parts(o)
           /\ BooksTypeOK' => Parts(o)'
<1>r. Reserve \in Nat
    BY TimingAssumption
<1>1. ASSUME BooksTypeOK PROVE Parts(o)
    <2>1. spent[o] \in Charges
        BY <1>1 DEF BooksTypeOK
    <2>2. /\ Actual(o) \in Nat /\ (spent[o] = Unknown => Actual(o) = 0)
          /\ spent[o] # Unknown => Actual(o) = spent[o]
        BY <2>1 DEF Charges, Actual
    <2>3. Within(o) = IF Actual(o) <= Reserve THEN Actual(o) ELSE Reserve
        BY <1>r, <2>2, SmallerOf DEF Within
    <2>4. Within(o) \in 0..Reserve
        BY <1>r, <2>2, <2>3
    <2> QED BY <2>2, <2>3, <2>4 DEF Parts
<1>2. ASSUME BooksTypeOK' PROVE Parts(o)'
    <2>1. spent'[o] \in Charges
        BY <1>2 DEF BooksTypeOK
    <2>2. /\ Actual(o)' \in Nat /\ (spent'[o] = Unknown => Actual(o)' = 0)
          /\ spent'[o] # Unknown => Actual(o)' = spent'[o]
        BY <2>1 DEF Charges, Actual
    <2>3. Within(o)' = IF Actual(o)' <= Reserve THEN Actual(o)' ELSE Reserve
        BY <1>r, <2>2, SmallerOf DEF Within
    <2>4. Within(o)' \in 0..Reserve
        BY <1>r, <2>2, <2>3
    <2> QED BY <2>2, <2>3, <2>4 DEF Parts
<1> QED BY <1>1, <1>2

\* What the end of a call does: its charge covers what the call cost up to its
\* reservation, and in full when the SDK reported the cost.
Ended(charge) ==
    /\ pc' = "account" /\ committed' = committed + charge
    /\ Within(ordinal) <= charge
    /\ told' \in {told, told \cup {ordinal}}
    /\ ordinal \in told' => Actual(ordinal) <= charge
    /\ row' \in {row} \cup {[row EXCEPT !.charged = charge, !.ceiling = ceiling] : ceiling \in BOOLEAN}
    /\ failed' \in BOOLEAN
    /\ ~failed' => row'.charged = charge /\ row'.reserved = row.reserved
    /\ events' \in {events, [events EXCEPT !.finished = @ \cup {ordinal}]}
    /\ Steady /\ UNCHANGED <<ordinal, cliSeen, reason, artifact, spent, contacts>>

LEMMA FinishFacts ==
    ASSUME BooksTypeOK, RunInv, ItemInv, Finish
    PROVE  \E charge \in Nat : Ended(charge)
<1>1. /\ pc = "finish" /\ ordinal \in Ordinals /\ spent[ordinal] \in Nat /\ ordinal \notin told
      /\ Parts(ordinal)
    <2>1. pc = "finish"
        BY DEF Finish
    <2>2. ordinal \in Ordinals /\ First
        BY <2>1, InHand DEF Corpus
    <2> QED BY <2>1, <2>2, PartsOf DEF ItemInv
<1>2. PICK cost0 \in Nat : cost0 = spent[ordinal]
    BY <1>1
<1>3. PICK raised \in BOOLEAN, completed \in BOOLEAN, known \in BOOLEAN, ceiling \in BOOLEAN, settled \in BOOLEAN :
         /\ raised => ~completed /\ ~known
         /\ ceiling => ~completed /\ ~raised
         /\ Record(IF raised THEN events ELSE [events EXCEPT !.finished = @ \cup {ordinal}])
         /\ LET charge == CASE completed /\ known -> spent[ordinal]
                            [] ~completed /\ known -> Max({Reserve, spent[ordinal]})
                            [] OTHER -> Reserve
            IN /\ row' = IF settled THEN [row EXCEPT !.charged = charge, !.ceiling = ceiling] ELSE row
               /\ committed' = committed + charge
         /\ failed' = (~completed \/ ~settled)
         /\ told' = IF known THEN told \cup {ordinal} ELSE told
    BY DEF Finish
<1> DEFINE charge == CASE completed /\ known -> spent[ordinal]
                       [] ~completed /\ known -> Max({Reserve, spent[ordinal]})
                       [] OTHER -> Reserve
<1>4. Reserve \in Nat
    BY TimingAssumption
<1>5. Actual(ordinal) = cost0 /\ Within(ordinal) = IF cost0 <= Reserve THEN cost0 ELSE Reserve
    BY <1>1, <1>2 DEF Parts, Unknown
<1>6. /\ charge \in Nat
      /\ known => charge >= cost0
      /\ ~known => charge = Reserve
    <2>1. CASE completed /\ known
        BY <1>2, <2>1
    <2>2. CASE ~completed /\ known
        <3>1. charge = Max({Reserve, cost0})
            BY <1>2, <2>2
        <3> HIDE DEF charge
        <3> QED BY <1>2, <1>4, <2>2, <3>1, LargerOf
    <2>3. CASE ~known
        <3>1. charge = Reserve
            BY <2>3
        <3> HIDE DEF charge
        <3> QED BY <1>4, <2>3, <3>1
    <2> QED BY <2>1, <2>2, <2>3
<1>8. row' = (IF settled THEN [row EXCEPT !.charged = charge, !.ceiling = ceiling] ELSE row)
      /\ committed' = committed + charge
    BY <1>3
<1> HIDE DEF charge
<1>7. Within(ordinal) <= charge
    <2>1. CASE known
        BY <1>2, <1>4, <1>5, <1>6, <2>1
    <2>2. CASE ~known
        BY <1>2, <1>4, <1>5, <1>6, <2>2
    <2> QED BY <2>1, <2>2
<1>9. row' \in {row} \cup {[row EXCEPT !.charged = charge, !.ceiling = c] : c \in BOOLEAN}
    BY <1>8
<1>10. ~failed' => row'.charged = charge /\ row'.reserved = row.reserved
    <2> SUFFICES ASSUME ~failed' PROVE row'.charged = charge /\ row'.reserved = row.reserved
        OBVIOUS
    <2>1. settled
        BY <1>3
    <2> QED BY <1>8, <2>1 DEF BooksTypeOK
<1>11. events' \in {events, [events EXCEPT !.finished = @ \cup {ordinal}]} /\ failed' \in BOOLEAN
    BY <1>3 DEF Record
<1>12. pc' = "account" /\ Steady /\ UNCHANGED <<ordinal, cliSeen, reason, artifact, spent, contacts>>
    BY DEF Finish, To, KeepRun, Steady, runVars, after
<1>13. told' \in {told, told \cup {ordinal}} /\ (ordinal \in told' => Actual(ordinal) <= charge)
    <2>1. told' = IF known THEN told \cup {ordinal} ELSE told
        BY <1>3
    <2>2. known => Actual(ordinal) <= charge
        BY <1>2, <1>5, <1>6
    <2> QED BY <1>1, <2>1, <2>2
<1>14. Ended(charge)
    BY <1>7, <1>8, <1>9, <1>10, <1>11, <1>12, <1>13 DEF Ended
<1> QED BY <1>6, <1>14

\* What the start of a call does to the books.
LEMMA ContactFacts ==
    ASSUME Contact
    PROVE  /\ pc = "flight" /\ pc' = "finish" /\ contacts' = contacts \cup {job} /\ cliSeen' \in BOOLEAN
           /\ \E s \in Nat : spent' = [spent EXCEPT ![ordinal] = s]
           /\ Steady /\ UNCHANGED <<ordinal, committed, row, failed, events, reason, artifact, told>>
BY TimingAssumption DEF Contact, Sampled, To, KeepRun, money, Steady, runVars, after

\* Every step keeps the books well-formed, and the first part of what is known
\* of them.
LEMMA TypesKept ==
    ASSUME BooksTypeOK, RunInv, ItemInv, [Next]_vars
    PROVE  BooksTypeOK'
<1>m. MaxJobs \in Nat /\ N \in Nat \ {0} /\ Reserve \in Nat /\ 1 \in 1..(N + 1)
    BY TimingAssumption
<1>0. CASE Walk \/ Begin
    BY <1>0 DEF Walk, Begin, Steady, SameBooks, Passes, runVars, BooksTypeOK
<1>1. CASE Invoke
    <2>1. ordinal \in Ordinals
        BY <1>1, InHand DEF Invoke, Corpus
    <2>2. row' = [of |-> ordinal, charged |-> Unknown, reserved |-> Reserve, ceiling |-> FALSE]
          /\ events' = [events EXCEPT !.started = @ \cup {ordinal}]
          /\ UNCHANGED <<job, runId, ordinal, committed, failed, cliSeen, reason, artifact, spent, told, contacts, cost, recorded>>
        BY <1>1 DEF Invoke, Record, To, KeepRun, runVars, truth, after
    <2>3. row' \in [of : 0..N, charged : Charges, reserved : Charges, ceiling : BOOLEAN]
        BY <1>m, <2>1, <2>2 DEF Charges, Ordinals
    <2>4. events' \in [began : BOOLEAN, started : SUBSET Ordinals, finished : SUBSET Ordinals,
                       accounted : SUBSET [ordinal : Ordinals, charged : Charges],
                       ended : {"none", "RUN_FINISHED", "STOP"}]
          /\ events'.finished \subseteq events'.started
        BY <2>1, <2>2 DEF BooksTypeOK
    <2> QED BY <2>2, <2>3, <2>4 DEF BooksTypeOK
<1>2. CASE JudgeRefused
    <2>1. failed' = TRUE
          /\ UNCHANGED <<job, runId, ordinal, committed, row, events, cliSeen, reason, artifact, spent, told, contacts, cost, recorded>>
        BY <1>2 DEF JudgeRefused, To, KeepRun, runVars, evidence, truth, after
    <2> QED BY <2>1 DEF BooksTypeOK
<1>3. CASE Contact
    <2>1. ordinal \in Ordinals /\ job = 1
        BY <1>3, InHand DEF Contact, Corpus
    <2>2. PICK s \in Nat : spent' = [spent EXCEPT ![ordinal] = s]
        BY <1>3, ContactFacts
    <2>3. spent' \in [Ordinals -> Charges]
        BY <2>2 DEF BooksTypeOK, Charges
    <2>4. contacts' \subseteq 1..MaxJobs
        <3>1. contacts' = contacts \cup {1} /\ contacts \subseteq 1..MaxJobs
            BY <1>3, <2>1, ContactFacts DEF BooksTypeOK
        <3>2. 1 \in 1..MaxJobs
            BY <1>m, <2>1 DEF BooksTypeOK
        <3> QED BY <3>1, <3>2
    <2>5. cliSeen' \in BOOLEAN
          /\ UNCHANGED <<job, runId, ordinal, committed, row, failed, events, reason, artifact, told, cost, recorded>>
        BY <1>3, ContactFacts DEF Steady, runVars
    <2> QED BY <2>3, <2>4, <2>5 DEF BooksTypeOK
<1>4. CASE Finish
    <2>0. ordinal \in Ordinals /\ ordinal \in events.started
        <3>1. pc = "finish"
            BY <1>4 DEF Finish
        <3> QED BY <3>1, InHand DEF Corpus, ItemInv
    <2>2. PICK charge \in Nat : Ended(charge)
        BY <1>4, FinishFacts
    <2>3. committed' \in Nat
        <3>1. committed' = committed + charge /\ committed \in Nat
            BY <2>2 DEF Ended, BooksTypeOK
        <3> QED BY <3>1
    <2>4. spent' \in [Ordinals -> Charges] /\ told' \subseteq Ordinals
        BY <2>0, <2>2 DEF Ended, BooksTypeOK
    <2>5. row' \in [of : 0..N, charged : Charges, reserved : Charges, ceiling : BOOLEAN]
        <3>1. row' \in {row} \cup {[row EXCEPT !.charged = charge, !.ceiling = ceiling] : ceiling \in BOOLEAN}
            BY <2>2 DEF Ended
        <3>2. row \in [of : 0..N, charged : Charges, reserved : Charges, ceiling : BOOLEAN] /\ charge \in Charges
            BY DEF BooksTypeOK, Charges
        <3> QED BY <3>1, <3>2
    <2>6. events' \in [began : BOOLEAN, started : SUBSET Ordinals, finished : SUBSET Ordinals,
                       accounted : SUBSET [ordinal : Ordinals, charged : Charges],
                       ended : {"none", "RUN_FINISHED", "STOP"}]
          /\ events'.finished \subseteq events'.started
        <3>1. events' \in {events, [events EXCEPT !.finished = @ \cup {ordinal}]}
            BY <2>2 DEF Ended
        <3> QED BY <2>0, <3>1 DEF BooksTypeOK
    <2>7. failed' \in BOOLEAN /\ UNCHANGED <<job, runId, ordinal, cliSeen, reason, artifact, contacts, cost, recorded>>
        BY <2>2 DEF Ended, Steady, runVars
    <2> QED BY <2>3, <2>4, <2>5, <2>6, <2>7 DEF BooksTypeOK
<1>5. CASE Enter
    <2>1. ordinal \in Ordinals
        BY <1>5, InHand DEF Enter, Corpus
    <2>2. [ordinal |-> ordinal, charged |-> row.charged] \in [ordinal : Ordinals, charged : Charges]
        BY <2>1 DEF BooksTypeOK
    <2>3. events' \in [began : BOOLEAN, started : SUBSET Ordinals, finished : SUBSET Ordinals,
                       accounted : SUBSET [ordinal : Ordinals, charged : Charges],
                       ended : {"none", "RUN_FINISHED", "STOP"}]
          /\ events'.finished \subseteq events'.started
        BY <1>5, <2>2 DEF Enter, BooksTypeOK
    <2>4. UNCHANGED <<job, runId, ordinal, committed, row, failed, cliSeen, reason, artifact, spent, told, contacts, cost, recorded>>
        BY <1>5 DEF Enter, Steady, runVars
    <2> QED BY <2>3, <2>4 DEF BooksTypeOK
<1>6. CASE Continue
    <2>1. ordinal \in Ordinals
        BY <1>6, InHand DEF Continue, Corpus
    <2>2. ordinal' \in 1..(N + 1)
        BY <1>m, <1>6, <2>1 DEF Continue, Ordinals
    <2>3. UNCHANGED <<job, runId, committed, row, failed, events, cliSeen, reason, artifact, spent, told, contacts, cost, recorded>>
        BY <1>6 DEF Continue, Steady, runVars
    <2> QED BY <2>2, <2>3 DEF BooksTypeOK
<1>7. CASE WriteArtifact
    <2>1. artifact' \in {"summary", "stop"}
          /\ UNCHANGED <<job, runId, ordinal, committed, row, failed, events, cliSeen, reason, spent, told, contacts, cost, recorded>>
        BY <1>7 DEF WriteArtifact, To, KeepRun, runVars, money, truth, after
    <2> QED BY <2>1 DEF BooksTypeOK
<1>8. CASE CloseRun
    <2>1. events' = [events EXCEPT !.ended = IF artifact = "summary" THEN "RUN_FINISHED" ELSE "STOP"]
          /\ UNCHANGED <<job, runId, ordinal, committed, row, failed, cliSeen, reason, artifact, spent, told, contacts, cost, recorded>>
        BY <1>8 DEF CloseRun, Record, To, KeepRun, runVars, money, truth, after
    <2>2. events' \in [began : BOOLEAN, started : SUBSET Ordinals, finished : SUBSET Ordinals,
                       accounted : SUBSET [ordinal : Ordinals, charged : Charges],
                       ended : {"none", "RUN_FINISHED", "STOP"}]
          /\ events'.finished \subseteq events'.started
        BY <2>1 DEF BooksTypeOK
    <2> QED BY <2>1, <2>2 DEF BooksTypeOK
<1>9. CASE Killed
    <2>1. artifact' \in {artifact, "lost"}
          /\ UNCHANGED <<job, runId, ordinal, committed, row, failed, events, cliSeen, reason, spent, told, contacts, cost, recorded>>
        BY <1>9 DEF Killed, To, KeepRun, runVars, money, truth, after
    <2> QED BY <2>1 DEF BooksTypeOK
<1>10. CASE CostEvidence
    <2>1. UNCHANGED <<job, runId, ordinal, committed, row, failed, events, cliSeen, reason, artifact, spent, told, contacts, recorded>>
        BY <1>10 DEF CostEvidence, KeepBooks, runVars, money, evidence, truth
    <2>2. TimingSpend \in Nat
        <3>1. IsFiniteSet(events.started)
            <4>1. IsFiniteSet(Ordinals)
                BY <1>m, FS_Interval DEF Ordinals
            <4> QED BY <4>1, FS_Subset DEF BooksTypeOK
        <3>2. \A o \in events.started : OrdinalCharge(o) \in Nat
            <4> TAKE o \in events.started
            <4>1. CASE o \in Accounted /\ ChargeOf(o) # Unknown
                <5>1. \E a \in events.accounted : a.ordinal = o
                    BY <4>1 DEF Accounted
                <5>2. (CHOOSE a \in events.accounted : a.ordinal = o) \in events.accounted
                    BY <5>1
                <5>3. ChargeOf(o) \in Charges
                    BY <5>2 DEF ChargeOf, BooksTypeOK
                <5> QED BY <4>1, <5>3 DEF OrdinalCharge, Charges, Unknown
            <4> QED BY <1>m, <4>1 DEF OrdinalCharge
        <3> DEFINE f == [o \in events.started |-> OrdinalCharge(o)]
        <3>3. \A o \in events.started : f[o] \in Nat
            BY <3>2
        <3>4. TimingSpend = SumFunctionOnSet(f, events.started)
            BY DEF TimingSpend
        <3> HIDE DEF f
        <3> QED BY <3>1, <3>3, <3>4, SumType
    <2>3. cost' \in {[NoCost EXCEPT !.kind = "refused"], [NoCost EXCEPT !.kind = "nothing_due"]}
                    \cup {[kind |-> "row", charge |-> TimingSpend, class |-> c] : c \in {"PASS", "STOP", "NO_ARTIFACT"}}
        BY <1>10 DEF CostEvidence
    <2>4. cost' \in [kind : {"none", "nothing_due", "refused", "row"}, charge : Nat,
                     class : {"none", "PASS", "STOP", "NO_ARTIFACT"}]
        BY <2>2, <2>3 DEF NoCost
    <2> QED BY <2>1, <2>4 DEF BooksTypeOK
<1>11. ASSUME NEW rerun \in BOOLEAN, Dispatch(rerun)
       PROVE  BooksTypeOK'
    <2>1. job' = job + 1 /\ runId' \in {runId, job + 1} /\ job < MaxJobs
          /\ ordinal' = 1 /\ committed' = 0 /\ row' = NoRow /\ failed' = FALSE
          /\ UNCHANGED <<events, cliSeen, reason, artifact, spent, told, contacts, cost, recorded>>
        BY <1>11 DEF Dispatch, evidence, truth, after
    <2>2. job' \in 0..MaxJobs /\ runId' \in 0..MaxJobs /\ ordinal' \in 1..(N + 1)
        BY <1>m, <2>1 DEF BooksTypeOK
    <2>3. row' \in [of : 0..N, charged : Charges, reserved : Charges, ceiling : BOOLEAN]
        BY <1>m, <2>1 DEF NoRow, Charges
    <2> QED BY <2>1, <2>2, <2>3 DEF BooksTypeOK
<1> QED BY <1>0, <1>1, <1>2, <1>3, <1>4, <1>5, <1>6, <1>7, <1>8, <1>9, <1>10, <1>11, StepKinds

\* What each kind of step does to the job, its place and its item.
LEMMA PlaceFacts ==
    ASSUME [Next]_vars, BooksTypeOK
    PROVE  /\ Invoke => pc = "invoke" /\ pc' = "flight" /\ Steady
              /\ UNCHANGED <<ordinal, committed, failed, cliSeen, reason, artifact, spent, told, contacts>>
              /\ row' = [of |-> ordinal, charged |-> Unknown, reserved |-> Reserve, ceiling |-> FALSE]
              /\ events' = [events EXCEPT !.started = @ \cup {ordinal}]
           /\ JudgeRefused => pc = "invoke" /\ pc' = "account" /\ failed' = TRUE /\ Steady
              /\ UNCHANGED <<ordinal, committed, row, events, cliSeen, reason, artifact, spent, told, contacts>>
           /\ WriteArtifact => pc = "write" /\ pc' = "close" /\ Steady
              /\ artifact' = (IF reason = "none" THEN "summary" ELSE "stop")
              /\ UNCHANGED <<ordinal, committed, row, failed, events, cliSeen, reason, spent, told, contacts>>
           /\ CloseRun => pc = "close" /\ pc' = "over" /\ Steady
              /\ events' = [events EXCEPT !.ended = IF artifact = "summary" THEN "RUN_FINISHED" ELSE "STOP"]
              /\ UNCHANGED <<ordinal, committed, row, failed, cliSeen, reason, artifact, spent, told, contacts>>
           /\ Killed => pc' = "dead" /\ artifact' \in {artifact, "lost"} /\ Steady
              /\ UNCHANGED <<ordinal, committed, row, failed, events, cliSeen, reason, spent, told, contacts>>
           /\ CostEvidence => pc \in Over /\ pc' = pc
              /\ UNCHANGED <<runVars, ordinal, committed, row, failed, events, cliSeen, reason, artifact, spent, told, contacts>>
           /\ (\E rerun \in BOOLEAN : Dispatch(rerun)) =>
              /\ pc \in {"idle"} \cup Over /\ pc' = "preflight" /\ job' = job + 1
              /\ ordinal' = 1 /\ committed' = 0 /\ row' = NoRow /\ failed' = FALSE
              /\ UNCHANGED <<events, cliSeen, reason, artifact, spent, told, contacts, cost>>
<1> USE DEF To, Steady, KeepRun, KeepBooks, runVars, money, evidence, truth, after, Record
<1>1. Invoke => pc = "invoke" /\ pc' = "flight" /\ Steady
              /\ UNCHANGED <<ordinal, committed, failed, cliSeen, reason, artifact, spent, told, contacts>>
              /\ row' = [of |-> ordinal, charged |-> Unknown, reserved |-> Reserve, ceiling |-> FALSE]
              /\ events' = [events EXCEPT !.started = @ \cup {ordinal}]
    BY DEF Invoke
<1>2. JudgeRefused => pc = "invoke" /\ pc' = "account" /\ failed' = TRUE /\ Steady
              /\ UNCHANGED <<ordinal, committed, row, events, cliSeen, reason, artifact, spent, told, contacts>>
    BY DEF JudgeRefused
<1>3. WriteArtifact => pc = "write" /\ pc' = "close" /\ Steady
              /\ artifact' = (IF reason = "none" THEN "summary" ELSE "stop")
              /\ UNCHANGED <<ordinal, committed, row, failed, events, cliSeen, reason, spent, told, contacts>>
    BY DEF WriteArtifact
<1>4. CloseRun => pc = "close" /\ pc' = "over" /\ Steady
              /\ events' = [events EXCEPT !.ended = IF artifact = "summary" THEN "RUN_FINISHED" ELSE "STOP"]
              /\ UNCHANGED <<ordinal, committed, row, failed, cliSeen, reason, artifact, spent, told, contacts>>
    BY DEF CloseRun
<1>5. Killed => pc' = "dead" /\ artifact' \in {artifact, "lost"} /\ Steady
              /\ UNCHANGED <<ordinal, committed, row, failed, events, cliSeen, reason, spent, told, contacts>>
    BY DEF Killed
<1>6. CostEvidence => pc \in Over /\ pc' = pc
              /\ UNCHANGED <<runVars, ordinal, committed, row, failed, events, cliSeen, reason, artifact, spent, told, contacts>>
    BY DEF CostEvidence
<1>7. (\E rerun \in BOOLEAN : Dispatch(rerun)) =>
              /\ pc \in {"idle"} \cup Over /\ pc' = "preflight" /\ job' = job + 1
              /\ ordinal' = 1 /\ committed' = 0 /\ row' = NoRow /\ failed' = FALSE
              /\ UNCHANGED <<events, cliSeen, reason, artifact, spent, told, contacts, cost>>
    BY DEF Dispatch
<1> QED BY <1>1, <1>2, <1>3, <1>4, <1>5, <1>6, <1>7

LEMMA RunKept ==
    ASSUME BooksTypeOK, RunInv, ItemInv, [Next]_vars
    PROVE  RunInv'
<1>j. job \in Nat
    BY TimingAssumption DEF BooksTypeOK
<1>0. CASE Walk \/ Begin \/ Enter
    <2>1. UNCHANGED <<job, ordinal, committed, contacts>>
        BY <1>0 DEF Walk, SameBooks, Begin, Enter, Steady, runVars
    <2>2. /\ pc' = "idle" <=> pc = "idle"
          /\ pc' \in Active => pc \in Active \/ (pc = "preflight" /\ job = runId /\ runId <= 1)
        BY <1>0 DEF Walk, Passes, Begin, Enter, Active, Corpus, Tail
    <2>3. pc = "preflight" /\ job = runId /\ runId <= 1 => job = 1
        BY <1>j DEF RunInv
    <2> QED BY <2>1, <2>2, <2>3 DEF RunInv
<1>1. CASE Invoke \/ JudgeRefused \/ WriteArtifact \/ CloseRun
    <2>1. UNCHANGED <<job, contacts>> /\ pc \in Active /\ pc' # "idle"
        BY <1>1, PlaceFacts DEF Steady, runVars, Active, Corpus, Tail
    <2> QED BY <2>1 DEF RunInv, Active, Corpus, Tail
<1>2. CASE Killed \/ CostEvidence
    <2>1. UNCHANGED <<job, contacts>> /\ pc \notin {"idle"} /\ pc' \in Over
        BY <1>2, PlaceFacts DEF Steady, runVars, Over, Killed
    <2> QED BY <2>1 DEF RunInv, Over, Active, Corpus, Tail
<1>3. CASE Contact
    <2>1. UNCHANGED job /\ job = 1 /\ contacts' = contacts \cup {1} /\ pc = "flight" /\ pc' = "finish"
        BY <1>3, InHand, ContactFacts DEF Steady, runVars, Corpus
    <2> QED BY <2>1 DEF RunInv, Active, Corpus
<1>4. CASE Finish \/ Continue
    <2>1. UNCHANGED <<job, contacts>> /\ pc \in {"finish", "check"} /\ pc' \in {"account", "loop"}
        BY <1>4 DEF Finish, Continue, To, KeepRun, Steady, runVars, truth
    <2> QED BY <2>1 DEF RunInv, Active, Corpus
<1>5. CASE \E rerun \in BOOLEAN : Dispatch(rerun)
    <2>1. job' = job + 1 /\ pc' = "preflight" /\ contacts' = contacts
        BY <1>5, PlaceFacts
    <2>2. job' # 0
        BY <1>j, <2>1
    <2> QED BY <2>1, <2>2 DEF RunInv, Active, Corpus, Tail
<1> QED BY <1>0, <1>1, <1>2, <1>3, <1>4, <1>5, StepKinds

\* Nothing is known of an item that has not been started.
LEMMA NextUntouched ==
    ASSUME BooksTypeOK, ItemInv, First, pc = "invoke", ordinal \in Ordinals
    PROVE  Untouched(ordinal) /\ \A o \in Ordinals : o > ordinal => Untouched(o)
<1>1. \A o \in Ordinals : o >= ordinal => Untouched(o)
    BY DEF ItemInv, Tail
<1>2. \A o \in Ordinals : (o > ordinal => o >= ordinal) /\ ordinal >= ordinal
    BY DEF Ordinals
<1> QED BY <1>1, <1>2

LEMMA AccountedAdds ==
    ASSUME events'.accounted = events.accounted \cup {[ordinal |-> ordinal, charged |-> row.charged]}
    PROVE  Accounted' = Accounted \cup {ordinal}
<1> DEFINE a == [ordinal |-> ordinal, charged |-> row.charged]
<1>1. a.ordinal = ordinal
    OBVIOUS
<1> HIDE DEF a
<1>2. {b.ordinal : b \in events.accounted \cup {a}} = {b.ordinal : b \in events.accounted} \cup {ordinal}
    BY <1>1
<1>3. events'.accounted = events.accounted \cup {a}
    BY DEF a
<1> QED BY <1>2, <1>3 DEF Accounted

LEMMA ItemKept ==
    ASSUME BooksTypeOK, RunInv, ItemInv, [Next]_vars
    PROVE  ItemInv'
<1>j. job \in Nat /\ N \in Nat /\ ordinal \in Nat
    BY TimingAssumption DEF BooksTypeOK
<1>o. Ordinals \in SUBSET Nat
    BY DEF Ordinals
<1>0. CASE Walk
    <2>1. UNCHANGED <<job, ordinal, row, events, spent, told>>
        BY <1>0 DEF Walk, SameBooks, runVars
    <2>2. Accounted' = Accounted /\ \A o \in Ordinals : Untouched(o)' <=> Untouched(o)
        BY <2>1 DEF Accounted, Untouched
    <2>3. First' => First
        BY <1>0, <2>1 DEF Walk, Passes, First, Over, Corpus
    <2>4. SUFFICES ASSUME First', First PROVE ItemInv'
        BY <2>3 DEF ItemInv
    <2>5. pc' \in Corpus \ {"loop"} => ordinal <= N
        BY <1>0, <2>4 DEF Walk, Passes, ItemInv, Corpus
    <2>6. \/ pc' = pc
          \/ pc' \notin Tail \cup {"flight", "finish", "account", "check"}
             /\ pc \notin Tail \cup {"flight", "finish", "account", "check"}
          \/ pc' \in Tail
        BY <1>0, <2>4 DEF Walk, Passes, Tail, Corpus, First, Over
    <2> QED BY <2>1, <2>2, <2>4, <2>5, <2>6 DEF ItemInv, Tail, Corpus
<1>1. CASE Begin
    <2>1. UNCHANGED <<job, ordinal, row, spent, told>> /\ pc = "start" /\ pc' = "acquire"
          /\ events'.started = events.started /\ events'.finished = events.finished
          /\ events'.accounted = events.accounted
        BY <1>1 DEF Begin, Steady, runVars, BooksTypeOK
    <2>2. \A o \in Ordinals : Untouched(o)' <=> Untouched(o)
        BY <2>1 DEF Accounted, Untouched
    <2> QED BY <2>1, <2>2 DEF ItemInv, First, Over, Tail, Corpus
<1>2. CASE Invoke
    <2>0. pc = "invoke" /\ ordinal \in Ordinals /\ First
        BY <1>2, InHand, PlaceFacts DEF Corpus
    <2>1. /\ UNCHANGED <<job, ordinal, spent, told>> /\ pc' = "flight"
          /\ row' = [of |-> ordinal, charged |-> Unknown, reserved |-> Reserve, ceiling |-> FALSE]
          /\ events'.started = events.started \cup {ordinal} /\ events'.finished = events.finished
          /\ events'.accounted = events.accounted
        BY <1>2, PlaceFacts DEF Steady, runVars, BooksTypeOK
    <2>2. Untouched(ordinal) /\ \A o \in Ordinals : o > ordinal => Untouched(o)
        BY <2>0, NextUntouched
    <2>3. \A o \in Ordinals : o > ordinal => Untouched(o)'
        BY <1>j, <1>o, <2>1, <2>2 DEF Untouched, Accounted
    <2>4. ordinal \notin Accounted' /\ ordinal \notin told /\ spent[ordinal] = Unknown /\ ordinal <= N
        BY <2>0, <2>1, <2>2 DEF Untouched, Accounted, ItemInv, Corpus
    <2> QED BY <2>1, <2>3, <2>4 DEF ItemInv, Corpus, Tail
<1>3. CASE JudgeRefused
    <2>0. pc = "invoke" /\ ordinal \in Ordinals /\ First /\ ordinal <= N
        BY <1>3, InHand, PlaceFacts DEF Corpus
    <2>1. UNCHANGED <<job, ordinal, events, spent, told>> /\ pc' = "account"
        BY <1>3, PlaceFacts DEF Steady, runVars
    <2>2. Untouched(ordinal) /\ \A o \in Ordinals : o > ordinal => Untouched(o)
        BY <2>0, NextUntouched
    <2>3. Accounted' = Accounted /\ \A o \in Ordinals : Untouched(o)' <=> Untouched(o)
        BY <2>1 DEF Untouched, Accounted
    <2> QED BY <2>0, <2>1, <2>2, <2>3 DEF ItemInv, Untouched, Corpus, Tail
<1>4. CASE Contact
    <2>0. pc = "flight" /\ ordinal \in Ordinals /\ First /\ ordinal <= N
        BY <1>4, InHand, ContactFacts DEF Corpus
    <2>1. UNCHANGED <<job, ordinal, row, events, told>> /\ pc' = "finish"
        BY <1>4, ContactFacts DEF Steady, runVars
    <2>2. PICK s \in Nat : spent' = [spent EXCEPT ![ordinal] = s]
        BY <1>4, ContactFacts
    <2>3. spent'[ordinal] \in Nat /\ \A o \in Ordinals : o # ordinal => spent'[o] = spent[o]
        BY <2>0, <2>2 DEF BooksTypeOK
    <2>4. Accounted' = Accounted /\ \A o \in Ordinals : o > ordinal => Untouched(o)'
        BY <1>j, <1>o, <2>0, <2>1, <2>3 DEF Untouched, Accounted, ItemInv, Tail
    <2> QED BY <2>0, <2>1, <2>3, <2>4 DEF ItemInv, Corpus, Tail
<1>5. CASE Finish
    <2>0. pc = "finish" /\ ordinal \in Ordinals /\ First /\ ordinal <= N
        <3>1. pc = "finish"
            BY <1>5 DEF Finish
        <3> QED BY <3>1, InHand DEF Corpus
    <2>2. PICK charge \in Nat : Ended(charge)
        BY <1>5, FinishFacts
    <2>3. /\ UNCHANGED <<job, ordinal, spent>> /\ pc' = "account"
          /\ events'.started = events.started /\ events'.finished \subseteq events.finished \cup {ordinal}
          /\ events'.accounted = events.accounted
          /\ told' \subseteq told \cup {ordinal}
        BY <2>2 DEF Ended, Steady, runVars, BooksTypeOK
    <2>5. Accounted' = Accounted /\ \A o \in Ordinals : o > ordinal => Untouched(o)'
        BY <1>j, <1>o, <2>0, <2>3 DEF Untouched, Accounted, ItemInv, Tail
    <2> QED BY <2>0, <2>3, <2>5 DEF ItemInv, Corpus, Tail
<1>6. CASE Enter
    <2>0. pc = "account" /\ ordinal \in Ordinals /\ First /\ ordinal <= N
        BY <1>6, InHand DEF Enter, Corpus
    <2>1. /\ UNCHANGED <<job, ordinal, spent, told>> /\ pc' = "check"
          /\ events'.started = events.started /\ events'.finished = events.finished
          /\ events'.accounted = events.accounted \cup {[ordinal |-> ordinal, charged |-> row.charged]}
        BY <1>6 DEF Enter, Steady, runVars, BooksTypeOK
    <2>2. Accounted' = Accounted \cup {ordinal}
        BY <2>1, AccountedAdds
    <2>3. \A o \in Ordinals : o > ordinal => Untouched(o)'
        BY <1>j, <1>o, <2>0, <2>1, <2>2 DEF Untouched, ItemInv, Tail
    <2> QED BY <2>0, <2>1, <2>3 DEF ItemInv, Corpus, Tail
<1>7. CASE Continue
    <2>0. pc = "check" /\ ordinal \in Ordinals /\ First /\ ordinal <= N
        BY <1>7, InHand DEF Continue, Corpus
    <2>1. UNCHANGED <<job, row, events, spent, told>> /\ pc' = "loop" /\ ordinal' = ordinal + 1
        BY <1>7 DEF Continue, Steady, runVars
    <2>2. \A o \in Ordinals : o > ordinal => Untouched(o)'
        BY <2>0, <2>1 DEF Untouched, Accounted, ItemInv, Tail
    <2>3. \A o \in Ordinals : o >= ordinal' => o > ordinal
        BY <1>j, <1>o, <2>1
    <2>4. \A o \in Ordinals : o > ordinal' => o > ordinal
        BY <1>j, <1>o, <2>1
    <2> QED BY <2>1, <2>2, <2>3, <2>4 DEF ItemInv, Corpus, Tail
<1>8. CASE WriteArtifact
    <2>1. pc' = "close" /\ pc = "write"
        BY <1>8, PlaceFacts
    <2> QED BY <2>1 DEF ItemInv, Corpus, Tail
<1>9. CASE CloseRun \/ Killed \/ CostEvidence
    <2>1. pc' \in Over
        BY <1>9, PlaceFacts DEF Over
    <2> QED BY <2>1 DEF ItemInv, First
<1>10. CASE \E rerun \in BOOLEAN : Dispatch(rerun)
    <2>1. job' = job + 1 /\ pc' = "preflight" /\ ordinal' = 1 /\ UNCHANGED <<events, spent, told>>
        BY <1>10, PlaceFacts
    <2>2. SUFFICES ASSUME First' PROVE ItemInv'
        BY DEF ItemInv
    <2>3. job = 0
        BY <1>j, <2>1, <2>2 DEF First
    <2>4. pc = "idle" /\ First /\ ordinal = 1
        BY <2>3 DEF RunInv, First, Over
    <2>5. \A o \in Ordinals : o >= 1
        BY DEF Ordinals
    <2>6. \A o \in Ordinals : Untouched(o)
        BY <2>4, <2>5 DEF ItemInv, Tail
    <2>7. \A o \in Ordinals : Untouched(o)'
        BY <2>1, <2>6 DEF Untouched, Accounted
    <2> QED BY <2>1, <2>7 DEF ItemInv, Corpus, Tail
<1> QED BY <1>0, <1>1, <1>2, <1>3, <1>4, <1>5, <1>6, <1>7, <1>8, <1>9, <1>10, StepKinds

\* The end of a call, in full.
LEMMA FinishInFull ==
    ASSUME BooksTypeOK, RunInv, ItemInv, Finish
    PROVE  /\ pc = "finish" /\ pc' = "account" /\ ordinal \in Ordinals /\ First /\ ordinal <= N
           /\ UNCHANGED <<job, ordinal, cliSeen, reason, artifact, spent, contacts, cost, recorded>>
           /\ told' \subseteq told \cup {ordinal}
           /\ events'.started = events.started /\ events'.finished \subseteq events.finished \cup {ordinal}
           /\ events'.accounted = events.accounted /\ events'.ended = events.ended
           /\ ordinal \in events.started \ Accounted
<1>1. pc = "finish"
    BY DEF Finish
<1>2. ordinal \in Ordinals /\ First /\ ordinal <= N
    BY <1>1, InHand DEF Corpus
<1>3. PICK charge \in Nat : Ended(charge)
    BY FinishFacts
<1>4. /\ UNCHANGED <<job, ordinal, cliSeen, reason, artifact, spent, contacts, cost, recorded>> /\ pc' = "account"
      /\ told' \subseteq told \cup {ordinal}
      /\ events'.started = events.started /\ events'.finished \subseteq events.finished \cup {ordinal}
      /\ events'.accounted = events.accounted /\ events'.ended = events.ended
    BY <1>3 DEF Ended, Steady, runVars, BooksTypeOK
<1> QED BY <1>1, <1>2, <1>4 DEF ItemInv

LEMMA AccountKept ==
    ASSUME BooksTypeOK, RunInv, ItemInv, AccountInv, [Next]_vars
    PROVE  AccountInv'
<1>t. /\ \A a \in events.accounted : a.ordinal \in Ordinals /\ a.ordinal \in Accounted
      /\ events.started \subseteq Ordinals
    BY DEF BooksTypeOK, Accounted
<1>0. CASE Walk \/ Begin \/ Continue \/ WriteArtifact \/ CloseRun \/ Killed \/ CostEvidence
           \/ \E rerun \in BOOLEAN : Dispatch(rerun)
    <2>1. UNCHANGED <<spent, told>> /\ events'.started = events.started /\ events'.accounted = events.accounted
        BY <1>0, PlaceFacts DEF Walk, SameBooks, Begin, Continue, BooksTypeOK
    <2>2. pc' = "account" => pc = "account" /\ UNCHANGED <<row, ordinal>>
        BY <1>0, PlaceFacts DEF Walk, SameBooks, Passes, Begin, Continue, Over
    <2> QED BY <2>1, <2>2 DEF AccountInv, Covered, Within, Actual
<1>1. CASE Invoke
    <2>0. pc = "invoke" /\ ordinal \in Ordinals /\ First
        BY <1>1, InHand, PlaceFacts DEF Corpus
    <2>1. /\ UNCHANGED <<ordinal, spent, told>> /\ pc' = "flight"
          /\ events'.started = events.started \cup {ordinal} /\ events'.accounted = events.accounted
        BY <1>1, PlaceFacts DEF BooksTypeOK
    <2>2. ordinal \notin Accounted
        BY <2>0, NextUntouched DEF Untouched
    <2> QED BY <1>t, <2>1, <2>2 DEF AccountInv, Covered, Within, Actual
<1>2. CASE JudgeRefused
    <2>0. pc = "invoke" /\ ordinal \in Ordinals /\ First
        BY <1>2, InHand, PlaceFacts DEF Corpus
    <2>1. UNCHANGED <<ordinal, spent, told, events>> /\ pc' = "account"
        BY <1>2, PlaceFacts
    <2>2. ordinal \notin events.started
        BY <2>0, NextUntouched DEF Untouched
    <2> QED BY <2>1, <2>2 DEF AccountInv, Covered, Within, Actual
<1>3. CASE Contact
    <2>0. pc = "flight" /\ ordinal \in Ordinals /\ First /\ ordinal \in events.started \ Accounted
        BY <1>3, InHand, ContactFacts DEF Corpus, ItemInv
    <2>1. UNCHANGED <<ordinal, events, told>> /\ pc' = "finish"
        BY <1>3, ContactFacts
    <2>2. PICK s \in Nat : spent' = [spent EXCEPT ![ordinal] = s]
        BY <1>3, ContactFacts
    <2>3. \A o \in Ordinals : o # ordinal => spent'[o] = spent[o]
        BY <2>0, <2>2 DEF BooksTypeOK
    <2>4. \A a \in events.accounted : spent'[a.ordinal] = spent[a.ordinal]
        BY <1>t, <2>0, <2>3
    <2> QED BY <2>0, <2>1, <2>3, <2>4 DEF AccountInv, Covered, Within, Actual
<1>4. CASE Finish
    <2>0. /\ pc' = "account" /\ ordinal \in Ordinals /\ ordinal' = ordinal /\ spent' = spent
          /\ events'.started = events.started /\ events'.accounted = events.accounted
          /\ ordinal \in events.started \ Accounted /\ told' \subseteq told \cup {ordinal}
        BY <1>4, FinishInFull
    <2>1. \A a \in events.accounted : a.ordinal \in told' => a.ordinal \in told
        BY <1>t, <2>0
    <2>2. Covered(row.charged, ordinal)'
        <3>1. PICK charge \in Nat : Ended(charge)
            BY <1>4, FinishFacts
        <3>3. row.charged = Unknown
            BY <1>4, FinishInFull DEF ItemInv
        <3>4. row'.charged = Unknown \/ row'.charged = charge
            <4>1. row' \in {row} \cup {[row EXCEPT !.charged = charge, !.ceiling = ceiling] : ceiling \in BOOLEAN}
                BY <3>1 DEF Ended
            <4>2. row \in [of : 0..N, charged : Charges, reserved : Charges, ceiling : BOOLEAN]
                BY DEF BooksTypeOK
            <4> QED BY <3>3, <4>1, <4>2
        <3>5. PICK w \in Nat, a \in Nat : w = Within(ordinal) /\ a = Actual(ordinal)
            BY <2>0, PartsOf DEF Parts
        <3>6. w <= charge /\ (ordinal \in told' => a <= charge)
            BY <3>1, <3>5 DEF Ended
        <3>7. Within(ordinal)' = w /\ Actual(ordinal)' = a
            BY <2>0, <3>5 DEF Within, Actual
        <3>8. charge >= Within(ordinal)' /\ (ordinal' \in told' => charge >= Actual(ordinal)')
            BY <2>0, <3>5, <3>6, <3>7
        <3> QED BY <2>0, <3>4, <3>8 DEF Covered
    <2> QED BY <2>0, <2>1, <2>2 DEF AccountInv, Covered, Within, Actual
<1>5. CASE Enter
    <2>0. pc = "account" /\ ordinal \in Ordinals /\ First /\ ordinal \notin Accounted
        BY <1>5, InHand DEF Enter, Corpus, ItemInv
    <2>1. /\ UNCHANGED <<ordinal, spent, told>> /\ pc' = "check"
          /\ events'.started = events.started
          /\ events'.accounted = events.accounted \cup {[ordinal |-> ordinal, charged |-> row.charged]}
        BY <1>5 DEF Enter, BooksTypeOK
    <2> DEFINE e == [ordinal |-> ordinal, charged |-> row.charged]
    <2>2. e.ordinal = ordinal /\ e.charged = row.charged /\ events'.accounted = events.accounted \cup {e}
        BY <2>1
    <2> HIDE DEF e
    <2>3. \A a \in events.accounted : a.ordinal # e.ordinal
        BY <1>t, <2>0, <2>2
    <2>4. \A a, b \in events'.accounted : a.ordinal = b.ordinal => a = b
        BY <2>2, <2>3 DEF AccountInv
    <2>5. \A a \in events'.accounted : a.ordinal \in events.started => Covered(a.charged, a.ordinal)
        BY <2>0, <2>2 DEF AccountInv
    <2>6. \A a \in events'.accounted : a.ordinal \in events'.started => Covered(a.charged, a.ordinal)'
        BY <2>1, <2>5 DEF Covered, Within, Actual
    <2> QED BY <2>1, <2>4, <2>6 DEF AccountInv
<1> QED BY <1>0, <1>1, <1>2, <1>3, <1>4, <1>5, StepKinds

LEMMA CostKept ==
    ASSUME BooksTypeOK, RunInv, ItemInv, CostInv, [Next]_vars
    PROVE  CostInv'
<1>j. job \in Nat
    BY TimingAssumption DEF BooksTypeOK
<1>1. CASE CostEvidence
    <2>1. UNCHANGED <<job, events>> /\ pc' \in Over
        BY <1>1, PlaceFacts DEF runVars
    <2>2. /\ cost'.kind = "row" => RecordValid /\ cost'.charge = TimingSpend
          /\ cost'.kind = "nothing_due" => events.started = {}
        BY <1>1 DEF CostEvidence, NoCost
    <2>3. (cost.kind = "row" => RecordValid /\ cost.charge = TimingSpend)'
        BY <2>1, <2>2 DEF RecordValid, TimingSpend, Conservative, ClassBC, Accounted, ChargeOf, OrdinalCharge
    <2> QED BY <2>1, <2>2, <2>3 DEF CostInv, First
<1>2. CASE Walk \/ Killed \/ WriteArtifact \/ Continue \/ JudgeRefused \/ Contact
           \/ \E rerun \in BOOLEAN : Dispatch(rerun)
    <2>1. UNCHANGED <<cost, events>>
        BY <1>2, PlaceFacts, ContactFacts DEF Walk, SameBooks, Continue, Steady
    <2>2. First' => First
        <3>1. CASE \E rerun \in BOOLEAN : Dispatch(rerun)
            <4>1. job' = job + 1
                BY <3>1, PlaceFacts
            <4>2. First' => job = 0
                BY <1>j, <4>1 DEF First
            <4> QED BY <4>2 DEF RunInv, First, Over
        <3>2. CASE ~ \E rerun \in BOOLEAN : Dispatch(rerun)
            <4>1. job' = job
                BY <1>2, <3>2, PlaceFacts, ContactFacts DEF Walk, SameBooks, Continue, Steady, runVars
            <4>2. pc \in Over => pc' \in Over
                BY <1>2, <3>2, PlaceFacts, ContactFacts
                   DEF Walk, Passes, Continue, Over, Corpus
            <4> QED BY <4>1, <4>2 DEF First
        <3> QED BY <3>1, <3>2
    <2> QED BY <2>1, <2>2 DEF CostInv, RecordValid, TimingSpend, Conservative, ClassBC, Accounted, ChargeOf,
                           OrdinalCharge
<1>3. CASE Begin \/ Invoke \/ Finish \/ Enter \/ CloseRun
    <2>1. cost' = cost /\ pc \in {"start", "invoke", "finish", "account", "close"}
        BY <1>3, PlaceFacts DEF Begin, Enter, Steady, Finish, KeepRun, after
    <2>2. First
        BY <2>1 DEF RunInv, First, Active, Corpus, Tail, Over
    <2> QED BY <2>1, <2>2 DEF CostInv
<1> QED BY <1>1, <1>2, <1>3, StepKinds

\* Nothing but the first job's work is ever under way.
LEMMA FirstStays ==
    ASSUME BooksTypeOK, RunInv, [Next]_vars, First'
    PROVE  First
<1>j. job \in Nat
    BY TimingAssumption DEF BooksTypeOK
<1>1. CASE \E rerun \in BOOLEAN : Dispatch(rerun)
    <2>1. job' = job + 1
        BY <1>1, PlaceFacts
    <2>2. job = 0
        BY <1>j, <2>1 DEF First
    <2> QED BY <2>2 DEF RunInv, First, Over
<1>2. CASE Walk \/ Continue \/ Killed \/ CostEvidence
    <2>1. job' = job /\ (pc \in Over => pc' \in Over)
        BY <1>2, PlaceFacts DEF Walk, SameBooks, Passes, Continue, Steady, runVars, Over, Corpus
    <2> QED BY <2>1 DEF First
<1>3. CASE Begin \/ Invoke \/ JudgeRefused \/ Contact \/ Finish \/ Enter \/ WriteArtifact \/ CloseRun
    <2>1. pc \in Active
        BY <1>3, PlaceFacts, ContactFacts DEF Begin, Enter, Finish, Active, Corpus, Tail
    <2> QED BY <2>1 DEF RunInv, First, Active, Corpus, Tail, Over
<1> QED BY <1>1, <1>2, <1>3, StepKinds

LEMMA WorkIsFirst ==
    ASSUME RunInv, pc \in Active
    PROVE  First
BY DEF RunInv, First, Active, Corpus, Tail, Over

LEMMA PassKept ==
    ASSUME BooksTypeOK, RunInv, ItemInv, PassInv, [Next]_vars
    PROVE  PassInv'
<1>n. N \in Nat /\ ordinal \in Nat /\ (ordinal > N => ordinal - 1 = N) /\ ordinal + 1 - 1 = ordinal
    BY TimingAssumption DEF BooksTypeOK
<1>0. CASE Walk
    <2>1. UNCHANGED <<job, ordinal, row, failed, events, cliSeen, artifact>>
        BY <1>0 DEF Walk, SameBooks, runVars
    <2>2. LastGood' = LastGood /\ Complete' = Complete /\ \A n : AllGood(n)' <=> AllGood(n)
        BY <2>1 DEF LastGood, Complete, AllGood, Accounted
    <2>3. AllGood(ordinal - 1)' <=> AllGood(ordinal - 1)
        BY <2>1 DEF AllGood, Accounted
    <2>4. AllGood(ordinal)' <=> AllGood(ordinal)
        BY <2>1 DEF AllGood, Accounted
    <2>5. /\ pc' \notin {"check"} \cup Tail /\ pc' \notin Over => pc \notin {"check"} \cup Tail
          /\ pc' \in {"account", "check", "close"} => pc' = pc /\ reason' = reason
          /\ pc' \in Tail /\ reason' = "none" =>
                reason = "none" /\ (pc \in Tail \/ (pc = "loop" /\ ordinal > N /\ Complete))
          /\ pc' = "write" /\ reason' = "none" => reason = "none" /\ (pc = "write" \/ cliSeen)
          /\ reason' # reason => pc \in Active \ {"close"}
          /\ pc = "close" => pc' = "close"
        BY <1>0 DEF Walk, Passes, Tail, Active, Corpus, Over
    <2>6. (First /\ pc \notin {"check"} \cup Tail => AllGood(ordinal - 1))'
        BY <2>3, <2>5, FirstStays DEF PassInv, First
    <2>7. (First /\ pc \in {"account", "check"} /\ ~failed => row.charged \in Nat /\ row.reserved = Reserve)'
        BY <2>1, <2>5, FirstStays DEF PassInv
    <2>8. (First /\ pc = "check" /\ ~failed /\ LastGood => AllGood(ordinal))'
        BY <2>1, <2>2, <2>4, <2>5, FirstStays DEF PassInv
    <2>9. (pc \in Tail /\ reason = "none" => Complete /\ AllGood(N))'
        <3> SUFFICES ASSUME (pc \in Tail /\ reason = "none")' PROVE (Complete /\ AllGood(N))'
            OBVIOUS
        <3>1. CASE pc \in Tail
            BY <2>2, <2>5, <3>1 DEF PassInv
        <3>2. CASE pc = "loop" /\ ordinal > N /\ Complete
            <4>1. First
                BY <3>2, WorkIsFirst DEF Active, Corpus
            <4>2. AllGood(ordinal - 1)
                BY <3>2, <4>1 DEF PassInv, Tail
            <4> QED BY <1>n, <2>2, <3>2, <4>2
        <3> QED BY <2>5, <3>1, <3>2
    <2>10. (pc \in {"write", "close"} /\ reason = "none" => cliSeen)'
        BY <2>1, <2>5 DEF PassInv
    <2>11. (First => events.ended = "none")' /\ (First /\ pc # "close" => artifact = "none")'
        BY <2>1, <2>5, FirstStays DEF PassInv
    <2>12. (PassIsEarned /\ (artifact = "summary" => AllGood(N)))'
        <3>1. artifact = "summary" => reason' = reason
            BY <2>5, WorkIsFirst DEF PassInv
        <3> QED BY <2>1, <2>2, <3>1 DEF PassInv, PassIsEarned, Accounted
    <2> QED BY <2>6, <2>7, <2>8, <2>9, <2>10, <2>11, <2>12 DEF PassInv
<1>1. CASE Begin \/ Invoke \/ JudgeRefused \/ Contact \/ Finish
    <2>1. /\ pc \in {"start", "invoke", "flight", "finish"} /\ pc' \in {"acquire", "flight", "account", "finish"}
          /\ UNCHANGED <<ordinal, reason, artifact>>
          /\ events'.accounted = events.accounted /\ events'.ended = events.ended
        <3>1. CASE Begin
            BY <3>1 DEF Begin, BooksTypeOK
        <3>2. CASE Invoke
            BY <3>2, PlaceFacts DEF BooksTypeOK
        <3>3. CASE JudgeRefused
            BY <3>3, PlaceFacts
        <3>4. CASE Contact
            BY <3>4, ContactFacts
        <3>5. CASE Finish
            BY <3>5, FinishInFull
        <3> QED BY <1>1, <3>1, <3>2, <3>3, <3>4, <3>5
    <2>2. First /\ artifact = "none" /\ AllGood(ordinal - 1)
        BY <2>1, WorkIsFirst DEF PassInv, Active, Corpus, Tail
    <2>3. AllGood(ordinal - 1)'
        BY <2>1, <2>2 DEF AllGood, Accounted
    <2>4. pc' = "account" /\ ~failed' => row'.charged \in Nat /\ row'.reserved = Reserve
        <3>1. CASE JudgeRefused
            BY <3>1, PlaceFacts
        <3>2. CASE Finish
            <4>2. PICK charge \in Nat : Ended(charge)
                BY <3>2, FinishFacts
            <4>3. row.reserved = Reserve
                BY <3>2, FinishInFull DEF ItemInv
            <4>4. ~failed' => row'.charged = charge /\ row'.reserved = row.reserved
                BY <4>2 DEF Ended
            <4> QED BY <4>3, <4>4
        <3>3. CASE pc' # "account"
            BY <3>3
        <3> QED BY <1>1, <3>1, <3>2, <3>3, ContactFacts, PlaceFacts DEF Begin
    <2> QED BY <2>1, <2>2, <2>3, <2>4 DEF PassInv, PassIsEarned, Tail
<1>2. CASE Enter
    <2>1. /\ pc = "account" /\ pc' = "check" /\ UNCHANGED <<ordinal, row, failed, reason, artifact>>
          /\ events'.accounted = events.accounted \cup {[ordinal |-> ordinal, charged |-> row.charged]}
          /\ events'.ended = events.ended
        BY <1>2 DEF Enter, BooksTypeOK
    <2>2. First /\ artifact = "none" /\ AllGood(ordinal - 1) /\ ordinal \notin Accounted
        BY <2>1, WorkIsFirst DEF PassInv, ItemInv, Active, Corpus, Tail
    <2>3. ASSUME ~failed, LastGood PROVE AllGood(ordinal)'
        <3> DEFINE e == [ordinal |-> ordinal, charged |-> row.charged]
        <3>1. e.ordinal = ordinal /\ e.charged = row.charged /\ events'.accounted = events.accounted \cup {e}
            BY <2>1
        <3> HIDE DEF e
        <3>2. Accounted' = 1..ordinal
            <4>1. Accounted' = Accounted \cup {ordinal}
                BY <2>1, AccountedAdds
            <4>2. ordinal \in Nat \ {0}
                BY DEF BooksTypeOK
            <4>3. (1..(ordinal - 1)) \cup {ordinal} = 1..ordinal
                BY <4>2
            <4> QED BY <2>2, <4>1, <4>3 DEF AllGood
        <3>3. e \notin events.accounted
            BY <2>2, <3>1 DEF Accounted
        <3>4. IsFiniteSet(events'.accounted) /\ Cardinality(events'.accounted) = ordinal
            <4>1. /\ IsFiniteSet(events.accounted \cup {e})
                  /\ Cardinality(events.accounted \cup {e}) = Cardinality(events.accounted) + 1
                BY <2>2, <3>3, FS_AddElement DEF AllGood
            <4>2. Cardinality(events.accounted) = ordinal - 1
                BY <2>2 DEF AllGood
            <4>3. ordinal - 1 + 1 = ordinal
                BY <1>n
            <4> QED BY <3>1, <4>1, <4>2, <4>3
        <3>5. row.charged \in 0..Reserve
            <4>1. row.charged \in Nat /\ row.reserved = Reserve /\ row.charged <= row.reserved
                BY <2>1, <2>2, <2>3 DEF PassInv, LastGood
            <4> QED BY <4>1, TimingAssumption
        <3>6. \A a \in events'.accounted : a.charged \in 0..Reserve
            BY <2>2, <3>1, <3>5 DEF AllGood
        <3> QED BY <2>1, <3>2, <3>4, <3>6 DEF AllGood
    <2>4. (First /\ pc = "check" /\ ~failed /\ LastGood => AllGood(ordinal))'
        BY <2>1, <2>3 DEF LastGood
    <2>5. (First /\ pc \in {"account", "check"} /\ ~failed => row.charged \in Nat /\ row.reserved = Reserve)'
        BY <2>1, <2>2 DEF PassInv
    <2> QED BY <2>1, <2>2, <2>4, <2>5 DEF PassInv, PassIsEarned, Tail
<1>3. CASE Continue
    <2>1. /\ pc = "check" /\ pc' = "loop" /\ ordinal' = ordinal + 1 /\ UNCHANGED <<events, reason, artifact>>
          /\ ~failed /\ (row.charged = Unknown \/ ~(row.charged > row.reserved))
        BY <1>3 DEF Continue
    <2>2. First /\ artifact = "none" /\ row.charged \in Nat /\ row.reserved = Reserve
        BY <2>1, WorkIsFirst DEF PassInv, Active, Corpus, Tail
    <2>3. row.charged <= row.reserved
        <3>1. \A x \in Nat : (x = -1 \/ ~(x > Reserve)) => x <= Reserve
            BY TimingAssumption
        <3> QED BY <2>1, <2>2, <3>1 DEF Unknown
    <2>4. AllGood(ordinal)
        BY <2>1, <2>2, <2>3 DEF PassInv, LastGood
    <2>5. AllGood(ordinal - 1)'
        BY <1>n, <2>1, <2>4 DEF AllGood, Accounted
    <2> QED BY <2>1, <2>2, <2>5 DEF PassInv, PassIsEarned, Tail
<1>4. CASE WriteArtifact
    <2>1. /\ pc = "write" /\ pc' = "close" /\ artifact' = (IF reason = "none" THEN "summary" ELSE "stop")
          /\ UNCHANGED <<events, reason, cliSeen>>
        BY <1>4, PlaceFacts
    <2>2. events.ended = "none" /\ (reason = "none" => Complete /\ AllGood(N) /\ cliSeen)
        BY <2>1, WorkIsFirst DEF PassInv, Active, Tail
    <2>3. (Complete' <=> Complete) /\ (AllGood(N)' <=> AllGood(N)) /\ Accounted' = Accounted
        BY <2>1 DEF Complete, AllGood, Accounted
    <2>4. artifact' = "summary" => reason' = "none"
        BY <2>1
    <2> QED BY <2>1, <2>2, <2>3, <2>4 DEF PassInv, PassIsEarned, Tail, AllGood, Ordinals
<1>5. CASE CloseRun
    <2>1. /\ pc' = "over" /\ UNCHANGED <<reason, cliSeen, artifact>>
          /\ events'.started = events.started /\ events'.finished = events.finished
          /\ events'.accounted = events.accounted
          /\ artifact = "summary" => events'.ended = "RUN_FINISHED"
        BY <1>5, PlaceFacts DEF BooksTypeOK
    <2>2. (Complete' <=> Complete) /\ (AllGood(N)' <=> AllGood(N)) /\ Accounted' = Accounted
        BY <2>1 DEF Complete, AllGood, Accounted
    <2> QED BY <2>1, <2>2 DEF PassInv, PassIsEarned, First, Over, Tail
<1>6. CASE Killed \/ CostEvidence
    <2>1. pc' \in Over /\ UNCHANGED <<reason, cliSeen, events>> /\ artifact' \in {artifact, "lost"}
        BY <1>6, PlaceFacts DEF Over
    <2>2. (Complete' <=> Complete) /\ (AllGood(N)' <=> AllGood(N)) /\ Accounted' = Accounted
        BY <2>1 DEF Complete, AllGood, Accounted
    <2> QED BY <2>1, <2>2 DEF PassInv, PassIsEarned, First, Over, Tail
<1>7. CASE \E rerun \in BOOLEAN : Dispatch(rerun)
    <2>1. pc' = "preflight" /\ UNCHANGED <<reason, cliSeen, events, artifact>> /\ ordinal' = 1
          /\ pc \in {"idle"} \cup Over
        BY <1>7, PlaceFacts
    <2>2. (Complete' <=> Complete) /\ (AllGood(N)' <=> AllGood(N)) /\ Accounted' = Accounted
        BY <2>1 DEF Complete, AllGood, Accounted
    <2>3. First' => First /\ pc = "idle" /\ ordinal = 1
        BY <2>1, FirstStays DEF First, RunInv
    <2>4. First' => AllGood(ordinal - 1)'
        BY <2>1, <2>3 DEF PassInv, Tail, AllGood, Accounted
    <2> QED BY <2>1, <2>2, <2>3, <2>4 DEF PassInv, PassIsEarned, Tail
<1> QED BY <1>0, <1>1, <1>2, <1>3, <1>4, <1>5, <1>6, <1>7, StepKinds

LEMMA CorpusFinite == IsFiniteSet(Ordinals)
BY FS_Interval, TimingAssumption DEF Ordinals

LEMMA UsedType == BooksTypeOK => Used \in Nat
<1> SUFFICES ASSUME BooksTypeOK PROVE Used \in Nat
    OBVIOUS
<1> DEFINE f == [o \in Ordinals |-> Within(o)]
<1>1. \A o \in Ordinals : f[o] \in Nat
    BY PartsOf DEF Parts
<1> HIDE DEF f
<1>2. SumFunctionOnSet(f, Ordinals) \in Nat
    BY <1>1, SumType, CorpusFinite
<1> QED BY <1>2 DEF Used, f

\* One call's cost is all that changes of what is used.
LEMMA UsedUpdate ==
    ASSUME BooksTypeOK, BooksTypeOK', NEW e \in Ordinals,
           \A o \in Ordinals : o # e => spent'[o] = spent[o]
    PROVE  Used' = Used - Within(e) + Within(e)'
<1> DEFINE f == [o \in Ordinals |-> Within(o)]
           g == [o \in Ordinals |-> Within(o)']
<1>1. \A o \in Ordinals : f[o] \in Int /\ g[o] \in Int
    BY PartsOf DEF Parts
<1>2. \A o \in Ordinals \ {e} : g[o] = f[o]
    BY DEF Within, Actual
<1>3. f[e] = Within(e) /\ g[e] = Within(e)'
    OBVIOUS
<1>4. Used = SumFunctionOnSet(f, Ordinals) /\ Used' = SumFunctionOnSet(g, Ordinals)
    BY DEF Used
<1> HIDE DEF f, g
<1>5. SumFunctionOnSet(g, Ordinals) = SumFunctionOnSet(f, Ordinals) - f[e] + g[e]
    BY <1>1, <1>2, SumUpdate, CorpusFinite
<1> QED BY <1>3, <1>4, <1>5

LEMMA MoneyKept ==
    ASSUME BooksTypeOK, BooksTypeOK', RunInv, ItemInv, MoneyInv, [Next]_vars
    PROVE  MoneyInv'
<1>n. /\ committed \in Nat /\ Used \in Nat /\ Total \in Nat /\ Reserve \in Nat
      /\ Within(ordinal) \in Nat \/ ordinal \notin Ordinals
    BY TimingAssumption, UsedType, PartsOf DEF BooksTypeOK, Parts
<1>0. CASE Walk \/ Begin \/ Invoke \/ JudgeRefused \/ Enter \/ Continue \/ WriteArtifact \/ CloseRun \/ Killed
           \/ CostEvidence
    <2>1. UNCHANGED <<spent, committed>>
        BY <1>0, PlaceFacts DEF Walk, SameBooks, Begin, Enter, Continue
    <2>2. Used' = Used
        BY <2>1 DEF Used, Within, Actual
    <2>3. /\ pc' = "finish" => pc = "finish" /\ ordinal' = ordinal
          /\ pc = "finish" => pc' \in {"finish", "dead"} \cup Tail
          /\ pc \in Tail => pc' \in Tail \cup Over
          /\ pc' \in {"admit", "judge", "invoke", "flight", "finish"} =>
                pc \in {"admit", "judge", "invoke", "flight", "finish"} \/ committed + Reserve <= Total
        BY <1>0, PlaceFacts DEF Walk, SameBooks, Passes, Begin, Enter, Continue, Tail, Over
    <2>4. (First /\ pc \notin Tail =>
             Used <= committed + (IF pc = "finish" THEN Within(ordinal) ELSE 0))'
        <3> SUFFICES ASSUME First', pc' \notin Tail
                     PROVE  Used <= committed + (IF pc' = "finish" THEN Within(ordinal)' ELSE 0)
            BY <2>1, <2>2
        <3>1. First /\ pc \notin Tail /\ (pc' = "finish" <=> pc = "finish")
            BY <2>3, FirstStays DEF First, Over
        <3>2. pc' = "finish" => Within(ordinal)' = Within(ordinal)
            BY <2>1, <2>3 DEF Within, Actual
        <3> QED BY <3>1, <3>2 DEF MoneyInv
    <2>5. (pc \in {"admit", "judge", "invoke", "flight", "finish"} => committed + Reserve <= Total)'
        BY <2>1, <2>3 DEF MoneyInv
    <2> QED BY <2>2, <2>4, <2>5 DEF MoneyInv
<1>1. CASE Contact
    <2>1. /\ pc = "flight" /\ pc' = "finish" /\ UNCHANGED <<ordinal, committed>>
          /\ ordinal \in Ordinals /\ First /\ spent[ordinal] = Unknown
        BY <1>1, ContactFacts, InHand DEF ItemInv, Corpus
    <2>2. PICK e \in Ordinals : e = ordinal
        BY <2>1
    <2>3. PICK s \in Nat : spent' = [spent EXCEPT ![e] = s]
        BY <1>1, <2>2, ContactFacts
    <2>4. \A o \in Ordinals : o # e => spent'[o] = spent[o]
        BY <2>3 DEF BooksTypeOK
    <2>5. Used' = Used - Within(e) + Within(e)'
        BY <2>4, UsedUpdate
    <2>6. Within(e) = 0 /\ Within(e)' \in 0..Reserve
        BY <2>1, <2>2, PartsOf DEF Parts
    <2>7. Used <= committed /\ committed + Reserve <= Total
        BY <1>n, <2>1 DEF MoneyInv, Tail
    <2>8. PICK w \in 0..Reserve : w = Within(e)'
        BY <2>6
    <2>9. Used' <= committed + w /\ Used' <= Total
        BY <1>n, <2>5, <2>6, <2>7, <2>8
    <2>10. Within(ordinal)' = w
        BY <2>1, <2>2, <2>8
    <2> QED BY <2>1, <2>7, <2>9, <2>10 DEF MoneyInv
<1>2. CASE Finish
    <2>1. /\ pc = "finish" /\ pc' = "account" /\ First /\ ordinal \in Ordinals /\ spent' = spent
        BY <1>2, FinishInFull
    <2>2. PICK charge \in Nat : Ended(charge)
        BY <1>2, FinishFacts
    <2>3. PICK w \in Nat : w = Within(ordinal)
        BY <2>1, PartsOf DEF Parts
    <2>4. w <= charge /\ committed' = committed + charge
        BY <2>2, <2>3 DEF Ended
    <2>5. Used' = Used
        BY <2>1 DEF Used, Within, Actual
    <2>6. Used <= committed + w /\ Used <= Total
        BY <2>1, <2>3 DEF MoneyInv, Tail
    <2>7. Used' <= committed' + 0
        BY <1>n, <2>3, <2>4, <2>5, <2>6
    <2> QED BY <2>1, <2>5, <2>6, <2>7 DEF MoneyInv
<1>3. CASE \E rerun \in BOOLEAN : Dispatch(rerun)
    <2>1. pc' = "preflight" /\ UNCHANGED <<spent, told>> /\ committed' = 0 /\ job' = job + 1
        BY <1>3, PlaceFacts
    <2>2. Used' = Used
        BY <2>1 DEF Used, Within, Actual
    <2>3. First' => Used <= 0
        <3> SUFFICES ASSUME First' PROVE Used <= 0
            OBVIOUS
        <3>1. First /\ job = 0
            BY <2>1, FirstStays, TimingAssumption DEF First, BooksTypeOK
        <3>2. pc = "idle" /\ committed = 0
            BY <3>1 DEF RunInv
        <3> QED BY <1>n, <3>1, <3>2 DEF MoneyInv, Tail
    <2>4. First' => Used' <= committed' + 0
        BY <2>1, <2>2, <2>3
    <2> QED BY <2>1, <2>2, <2>4 DEF MoneyInv
<1> QED BY <1>0, <1>1, <1>2, <1>3, StepKinds

LEMMA OvershootKept ==
    ASSUME BooksTypeOK, BooksTypeOK', RunInv, ItemInv, PassInv, OvershootInv, [Next]_vars
    PROVE  OvershootInv'
<1>0. CASE Walk \/ Begin \/ JudgeRefused \/ Enter \/ Continue \/ WriteArtifact \/ CloseRun \/ Killed
           \/ CostEvidence \/ \E rerun \in BOOLEAN : Dispatch(rerun)
    <2>1. UNCHANGED <<spent, told>> /\ events'.started = events.started
        BY <1>0, PlaceFacts DEF Walk, SameBooks, Begin, Enter, Continue, BooksTypeOK
    <2>2. \A o \in Ordinals : Overshot(o)' <=> Overshot(o)
        BY <2>1 DEF Actual, Overshot
    <2>3. /\ pc \in Tail => pc' \in Tail \cup Over
          /\ pc = "account" => pc' \in {"account", "check", "dead"} \cup Tail
          /\ pc = "check" => pc' \in {"check", "loop", "dead"} \cup Tail
          /\ pc' \in {"account", "check"} => pc \in {"account", "check"} \/ failed' = TRUE
        BY <1>0, PlaceFacts DEF Walk, SameBooks, Passes, Begin, Enter, Continue, Tail, Over
    <2>4. /\ pc \in {"account", "check"} /\ pc' \in {"account", "check"} => LastGood' = LastGood /\ failed' = failed
          /\ pc = "check" /\ pc' = "loop" => ~failed /\ (row.charged = Unknown \/ ~(row.charged > row.reserved))
        BY <1>0, PlaceFacts DEF Walk, SameBooks, Passes, Begin, Enter, Continue, Tail, Over, LastGood
    <2>5. (First /\ pc \notin {"account", "check"} \cup Tail => \A o \in Ordinals : ~Overshot(o))'
        <3> SUFFICES ASSUME First', pc' \notin {"account", "check"} \cup Tail
                     PROVE  \A o \in Ordinals : ~Overshot(o)
            BY <2>2
        <3>1. First
            BY FirstStays
        <3>2. CASE pc = "check"
            <4>1. pc' = "loop"
                BY <2>3, <3>2 DEF First, Over
            <4>2. ~failed /\ row.charged \in Nat /\ row.reserved = Reserve
                BY <2>4, <3>1, <3>2, <4>1 DEF PassInv
            <4>3. row.charged # Unknown
                BY <4>2 DEF Unknown
            <4>4. row.charged <= row.reserved
                BY <2>4, <3>2, <4>1, <4>2, <4>3, TimingAssumption
            <4> QED BY <3>2, <4>2, <4>4 DEF OvershootInv, LastGood
        <3>3. CASE pc # "check"
            <4>1. pc \notin {"account", "check"} \cup Tail
                BY <2>3, <3>3 DEF First, Over
            <4> QED BY <3>1, <4>1 DEF OvershootInv
        <3> QED BY <3>2, <3>3
    <2>6. (pc \in {"account", "check"} /\ ~failed /\ LastGood => \A o \in Ordinals : ~Overshot(o))'
        <3> SUFFICES ASSUME pc' \in {"account", "check"}, ~failed', LastGood'
                     PROVE  \A o \in Ordinals : ~Overshot(o)
            BY <2>2
        <3>1. pc \in {"account", "check"}
            BY <2>3
        <3>2. ~failed /\ LastGood
            <4>1. LastGood' = LastGood /\ failed' = failed
                BY <2>4, <3>1
            <4>2. ~failed
                BY <4>1
            <4>3. LastGood
                BY <4>1
            <4> QED BY <4>2, <4>3
        <3> QED BY <3>1, <3>2 DEF OvershootInv
    <2>7. (\A o \in Ordinals : Overshot(o) => \A p \in events.started : p <= o)'
        BY <2>1, <2>2 DEF OvershootInv
    <2> QED BY <2>5, <2>6, <2>7 DEF OvershootInv
<1>1. CASE Invoke
    <2>1. /\ pc = "invoke" /\ pc' = "flight" /\ UNCHANGED <<spent, told>>
        BY <1>1, PlaceFacts
    <2>2. \A o \in Ordinals : ~Overshot(o)
        BY <2>1, WorkIsFirst DEF OvershootInv, Active, Corpus, Tail
    <2>3. \A o \in Ordinals : ~Overshot(o)'
        BY <2>1, <2>2 DEF Overshot, Actual
    <2> QED BY <2>1, <2>3 DEF OvershootInv
<1>2. CASE Contact
    <2>1. /\ pc = "flight" /\ pc' = "finish" /\ ordinal' = ordinal /\ told' = told
          /\ ordinal \in Ordinals /\ First
        BY <1>2, ContactFacts, InHand DEF Corpus
    <2>2. \A o \in Ordinals : ~Overshot(o)
        BY <2>1 DEF OvershootInv, Tail
    <2>3. PICK s \in Nat : spent' = [spent EXCEPT ![ordinal] = s]
        BY <1>2, ContactFacts
    <2>4. \A o \in Ordinals : o # ordinal => spent'[o] = spent[o]
        BY <2>1, <2>3 DEF BooksTypeOK
    <2>5. ordinal \notin told
        BY <2>1 DEF ItemInv
    <2>6. \A o \in Ordinals : ~Overshot(o)'
        BY <2>1, <2>2, <2>4, <2>5 DEF Overshot, Actual
    <2> QED BY <2>1, <2>6 DEF OvershootInv
<1>3. CASE Finish
    <2>1. /\ pc = "finish" /\ pc' = "account" /\ First /\ ordinal \in Ordinals
          /\ spent' = spent /\ events'.started = events.started /\ told' \subseteq told \cup {ordinal}
        BY <1>3, FinishInFull
    <2>2. \A o \in Ordinals : ~Overshot(o)
        BY <2>1 DEF OvershootInv, Tail
    <2>3. \A o \in Ordinals : Overshot(o)' => o = ordinal
        BY <2>1, <2>2 DEF Overshot, Actual
    <2>4. \A p \in events.started : p <= ordinal
        <3>1. \A p \in Ordinals : p > ordinal => p \notin events.started
            BY <2>1 DEF ItemInv, Untouched, Tail
        <3>2. \A p \in events.started : p \in Ordinals /\ p \in Nat /\ ordinal \in Nat
            BY <2>1 DEF BooksTypeOK, Ordinals
        <3>3. \A p \in events.started : ~(p > ordinal)
            BY <3>1, <3>2
        <3> QED BY <3>2, <3>3
    <2>5. (\A o \in Ordinals : Overshot(o) => \A p \in events.started : p <= o)'
        BY <2>1, <2>3, <2>4
    <2>6. ASSUME ~failed', LastGood' PROVE \A o \in Ordinals : ~Overshot(o)'
        <3>1. PICK charge \in Nat : Ended(charge)
            BY <1>3, FinishFacts
        <3>2. row.reserved = Reserve
            BY <2>1 DEF ItemInv
        <3>3. row'.charged = charge /\ row'.reserved = Reserve
            BY <2>6, <3>1, <3>2 DEF Ended
        <3>4. charge <= Reserve
            BY <2>6, <3>3 DEF LastGood
        <3>5. PICK a \in Nat : a = Actual(ordinal)
            BY <2>1, PartsOf DEF Parts
        <3>6. ordinal \in told' => a <= charge
            BY <3>1, <3>5 DEF Ended
        <3>8. ordinal \in told' => ~(a > Reserve)
            BY <3>4, <3>5, <3>6, TimingAssumption
        <3>7. ASSUME NEW o \in Ordinals, Overshot(o)' PROVE FALSE
            <4>1. o = ordinal
                BY <2>3, <3>7
            <4>2. o \in told' /\ Actual(o)' > Reserve
                BY <3>7 DEF Overshot
            <4>3. Actual(o)' = a
                BY <2>1, <3>5, <4>1 DEF Actual
            <4> QED BY <3>8, <4>1, <4>2, <4>3
        <3> QED BY <3>7
    <2> QED BY <2>1, <2>5, <2>6 DEF OvershootInv, Tail
<1> QED BY <1>0, <1>1, <1>2, <1>3, StepKinds

----------------------------------------------------------------------------
(* The books, always *)

LEMMA BooksStarts == Init => BooksInv
<1> SUFFICES ASSUME Init PROVE BooksInv
    OBVIOUS
<1> USE DEF Init
<1>n. N \in Nat \ {0} /\ MaxJobs \in Nat /\ Total \in Nat /\ Reserve \in Nat
    BY TimingAssumption
<1>1. BooksTypeOK
    <2>1. job \in 0..MaxJobs /\ runId \in 0..MaxJobs /\ ordinal \in 1..(N + 1) /\ committed \in Nat
        BY <1>n
    <2>2. row \in [of : 0..N, charged : Charges, reserved : Charges, ceiling : BOOLEAN]
        BY <1>n DEF NoRow, Charges
    <2>3. /\ events \in [began : BOOLEAN, started : SUBSET Ordinals, finished : SUBSET Ordinals,
                         accounted : SUBSET [ordinal : Ordinals, charged : Charges],
                         ended : {"none", "RUN_FINISHED", "STOP"}]
          /\ events.finished \subseteq events.started
        BY DEF NoEvents
    <2>4. spent \in [Ordinals -> Charges] /\ told \subseteq Ordinals /\ contacts \subseteq 1..MaxJobs
        BY DEF Charges
    <2>5. /\ cost \in [kind : {"none", "nothing_due", "refused", "row"}, charge : Nat,
                       class : {"none", "PASS", "STOP", "NO_ARTIFACT"}]
          /\ recorded \in [rows : 0..1, asked : 0..2]
        BY DEF NoCost
    <2> QED BY <2>1, <2>2, <2>3, <2>4, <2>5 DEF BooksTypeOK, Reasons
<1>2. RunInv
    BY DEF RunInv, Active, Corpus, Tail
<1>3. /\ events.started = {} /\ events.finished = {} /\ events.accounted = {} /\ events.ended = "none"
      /\ cost.kind = "none" /\ Accounted = {} /\ told = {} /\ \A o \in Ordinals : spent[o] = Unknown
    BY DEF NoEvents, NoCost, Accounted
<1>4. ItemInv
    BY <1>3 DEF ItemInv, Untouched, Corpus, Tail
<1>5. AccountInv
    BY <1>3 DEF AccountInv
<1>6. PassInv
    <2>1. AllGood(ordinal - 1)
        BY <1>3, FS_EmptySet DEF AllGood
    <2> QED BY <1>3, <2>1 DEF PassInv, PassIsEarned, Tail
<1>7. \A o \in Ordinals : Within(o) = 0
    BY <1>1, <1>3, <1>n, PartsOf DEF Parts
<1>8. MoneyInv
    <2> DEFINE f == [o \in Ordinals |-> Within(o)]
    <2>1. \A o \in Ordinals : f[o] = 0
        BY <1>7
    <2>2. Used = SumFunctionOnSet(f, Ordinals)
        BY DEF Used
    <2> HIDE DEF f
    <2>3. Used = 0
        BY <2>1, <2>2, SumZero, CorpusFinite
    <2> QED BY <1>n, <2>3 DEF MoneyInv
<1>9. OvershootInv
    BY <1>3 DEF OvershootInv, Overshot
<1>10. CostInv
    BY <1>3 DEF CostInv
<1> QED BY <1>1, <1>2, <1>4, <1>5, <1>6, <1>8, <1>9, <1>10 DEF BooksInv

LEMMA BooksSteps == BooksInv /\ [Next]_vars => BooksInv'
<1> SUFFICES ASSUME BooksInv, [Next]_vars PROVE BooksInv'
    OBVIOUS
<1> USE DEF BooksInv
<1>1. BooksTypeOK'
    BY TypesKept
<1>2. RunInv' /\ ItemInv'
    BY RunKept, ItemKept
<1>3. AccountInv' /\ PassInv'
    BY AccountKept, PassKept
<1>4. MoneyInv'
    BY <1>1, MoneyKept
<1>5. OvershootInv'
    BY <1>1, OvershootKept
<1>6. CostInv'
    BY CostKept
<1> QED BY <1>1, <1>2, <1>3, <1>4, <1>5, <1>6

LEMMA BooksAlways == Spec => []BooksInv
<1> QED BY BooksStarts, BooksSteps, PTL DEF Spec

\* The state of the job and of its two threads is well-formed, and of all the
\* dispatches and re-runs at most the first reaches the provider: a re-run is
\* not a first attempt, and a later dispatch sees a prior run.
THEOREM JobIsSound == Spec => []JobSound
<1>1. OidcInv /\ BooksInv => JobSound
    <2> SUFFICES ASSUME OidcInv, BooksInv PROVE JobSound
        OBVIOUS
    <2>1. contacts \subseteq {1}
        BY DEF BooksInv, RunInv
    <2>2. Cardinality(contacts) <= 1
        <3>1. contacts = {} \/ contacts = {1}
            BY <2>1
        <3>2. Cardinality({}) = 0 /\ Cardinality({1}) = 1
            BY FS_EmptySet, FS_Singleton
        <3> QED BY <3>1, <3>2
    <2> QED BY <2>2 DEF JobSound, TypeOK, OneRehearsal, OidcInv, BooksInv
<1> QED BY <1>1, OidcAlways, BooksAlways, PTL

\* A summary is only ever written of a complete run: it reaches its end with
\* no reason to stop only when every item was started, finished and charged
\* once within its reservation and the CLI was seen.
THEOREM PassStaysEarned == Spec => []PassIsEarned
<1>1. BooksInv => PassIsEarned
    BY DEF BooksInv, PassInv
<1> QED BY <1>1, BooksAlways, PTL

LEMMA BudgetHolds == ASSUME BooksInv PROVE BudgetBounds
<1>1. SumFunctionOnSet([o \in Ordinals |-> Within(o)], Ordinals) <= Total
    BY DEF BooksInv, MoneyInv, Used
<1>2. \A o \in told : Actual(o) > Reserve => \A p \in events.started : p <= o
    BY DEF BooksInv, BooksTypeOK, OvershootInv, Overshot
<1> QED BY <1>1, <1>2 DEF BudgetBounds

\* What a recovered row charges for an invocation is at least what is due.
LEMMA ChargedEnough ==
    ASSUME BooksInv, RecordValid, NEW o \in events.started
    PROVE  OrdinalCharge(o) \in Nat /\ Due(o) \in Nat /\ Due(o) <= OrdinalCharge(o)
<1>1. o \in Ordinals /\ Parts(o) /\ Reserve \in Nat
    BY PartsOf, TimingAssumption DEF BooksInv, BooksTypeOK
<1>2. PICK w \in Nat, v \in Nat : w = Within(o) /\ v = Actual(o) /\ w <= Reserve
    BY <1>1 DEF Parts
<1>3. CASE o \in Accounted
    <2>1. ChargeOf(o) # Unknown
        BY <1>3 DEF RecordValid, Conservative, ClassBC
    <2>2. PICK a \in events.accounted : a.ordinal = o
        BY <1>3 DEF Accounted
    <2>3. \A b \in events.accounted : b.ordinal = o => b = a
        BY <2>2 DEF BooksInv, AccountInv
    <2>4. (CHOOSE b \in events.accounted : b.ordinal = o) = a
        BY <2>2, <2>3
    <2>5. ChargeOf(o) = a.charged /\ Covered(a.charged, o) /\ a.charged \in Charges
        BY <2>2, <2>4 DEF ChargeOf, BooksInv, AccountInv, BooksTypeOK
    <2>6. ChargeOf(o) \in Nat /\ ChargeOf(o) >= w /\ (o \in told => ChargeOf(o) >= v)
        BY <1>2, <2>1, <2>5 DEF Covered, Charges
    <2>7. Due(o) = (IF o \in told THEN v ELSE w) /\ OrdinalCharge(o) = ChargeOf(o)
        BY <1>2, <1>3, <2>1 DEF Due, OrdinalCharge
    <2> QED BY <1>2, <2>6, <2>7
<1>4. CASE o \notin Accounted
    <2>1. OrdinalCharge(o) = Reserve /\ Due(o) = w
        BY <1>2, <1>4 DEF Due, OrdinalCharge
    <2> QED BY <1>1, <1>2, <2>1
<1> QED BY <1>3, <1>4

LEMMA CostHolds == ASSUME BooksInv PROVE CostCovers
<1>1. ASSUME cost.kind = "row"
      PROVE  cost.charge >= SumFunctionOnSet([o \in events.started |-> Due(o)], events.started)
    <2>1. RecordValid /\ cost.charge = TimingSpend
        BY <1>1 DEF BooksInv, CostInv
    <2> DEFINE S == events.started
               d == [o \in S |-> Due(o)]
               c == [o \in S |-> OrdinalCharge(o)]
    <2>2. \A o \in S : d[o] \in Int /\ c[o] \in Int /\ d[o] <= c[o]
        BY <2>1, ChargedEnough
    <2>3. TimingSpend = SumFunctionOnSet(c, S)
        BY DEF TimingSpend
    <2>4. IsFiniteSet(S)
        BY CorpusFinite, FS_Subset DEF BooksInv, BooksTypeOK
    <2> HIDE DEF S, d, c
    <2>5. SumFunctionOnSet(d, S) <= SumFunctionOnSet(c, S)
        BY <2>2, <2>4, SumAtMost
    <2>6. SumFunctionOnSet(d, S) \in Int /\ SumFunctionOnSet(c, S) \in Int
        BY <2>2, <2>4, SumType
    <2>7. cost.charge >= SumFunctionOnSet(d, S)
        BY <2>1, <2>3, <2>5, <2>6
    <2> QED BY <2>7 DEF d, S
<1>2. ASSUME cost.kind = "nothing_due"
      PROVE  \A o \in Ordinals : spent[o] = Unknown
    BY <1>2 DEF BooksInv, CostInv, AccountInv
<1> QED BY <1>1, <1>2 DEF CostCovers

\* What was spent, each call up to its reservation, stays within the budget; a
\* call the SDK reports above its reservation is the last; and a row recovered
\* after the run, however it ended, covers what was spent up to the reservations
\* and, where reported and accounted for, in full.
THEOREM SpendStaysSound == Spec => []SpendSound
<1>1. BooksInv => SpendSound
    BY BudgetHolds, CostHolds DEF SpendSound
<1> QED BY <1>1, BooksAlways, PTL
=============================================================================
