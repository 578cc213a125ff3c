----------------------------- MODULE OidcSession -----------------------------
(* The provider identity of one job (agents/checker/oidc.py): GitHub mints   *)
(* an assertion on every successful request; the main thread and the token   *)
(* refresher, a daemon thread, each fetch one and install it in the file the *)
(* provider's CLI reads, the pair under one lock.  Every CLI process         *)
(* exchanges what the file holds when it starts, and the provider refuses an *)
(* assertion it has seen.  Assertions are numbered as they are minted.       *)
EXTENDS Naturals, Integers, FiniteSets

CONSTANTS
    MaxMint,        \* bound: assertions GitHub mints
    RetryAttempts   \* requests one acquisition may make

ASSUME OidcAssumption == MaxMint \in Nat /\ RetryAttempts \in Nat \ {0}

VARIABLES
    file,        \* what ANTHROPIC_IDENTITY_TOKEN_FILE holds
    siblings,    \* assertions in temporary siblings that were never moved
    kept,        \* the scrub could neither overwrite nor remove the file
    minted,      \* assertions minted so far
    exchanged,   \* assertions some CLI process has exchanged
    lock,        \* install_lock
    step,        \* per thread: where its fetch-then-install pair is
    tries,       \* per thread: requests that failed in this acquisition
    held,        \* per thread: the assertion fetched and not yet installed
    thread,      \* the refresher's daemon thread
    fault,       \* TokenFileRefresher._fault
    stopping     \* TokenFileRefresher._stop_event

left == <<siblings, kept>>
oidcVars == <<file, left, minted, exchanged, lock, step, tries, held, thread, fault, stopping>>
pairVars == <<lock, step, tries, held>>

Threads == {"main", "refresher"}
Absent == -1
Placeholder == 0    \* a file with no assertion in it
Assertions == 1..MaxMint
Free == "free"

OidcTypeOK ==
    /\ file \in {Absent, Placeholder} \cup Assertions
    /\ siblings \subseteq Assertions /\ kept \in BOOLEAN
    /\ minted \in 0..MaxMint
    /\ exchanged \subseteq 1..minted
    /\ lock \in Threads \cup {Free}
    /\ step \in [Threads -> {"idle", "wanting", "fetch", "install", "done", "failed"}]
    /\ tries \in [Threads -> 0..RetryAttempts]
    /\ held \in [Threads -> 0..MaxMint]
    /\ thread \in {"off", "running", "ended"}
    /\ fault \in BOOLEAN /\ stopping \in BOOLEAN

OidcInit ==
    /\ file = Absent /\ siblings = {} /\ kept = FALSE
    /\ minted = 0 /\ exchanged = {}
    /\ lock = Free
    /\ step = [t \in Threads |-> "idle"]
    /\ tries = [t \in Threads |-> 0]
    /\ held = [t \in Threads |-> 0]
    /\ thread = "off" /\ fault = FALSE /\ stopping = FALSE

----------------------------------------------------------------------------
(* One fetch-then-install pair *)

\* The end of a pair: the lock goes, and a refresher that failed latches it.
Settle(t, outcome) ==
    /\ lock' = IF lock = t THEN Free ELSE lock
    /\ step' = [step EXCEPT ![t] = IF t = "refresher" THEN "idle" ELSE outcome]
    /\ held' = [held EXCEPT ![t] = 0]
    /\ fault' = (fault \/ (t = "refresher" /\ outcome = "failed"))

\* acquire_oidc runs before any other thread exists and takes no lock.
StartFetch(t, locked) ==
    /\ locked => lock = Free
    /\ lock' = IF locked THEN t ELSE lock
    /\ step' = [step EXCEPT ![t] = "fetch"]
    /\ tries' = [tries EXCEPT ![t] = 0]
    /\ UNCHANGED held

TakeLock(t) ==
    /\ step[t] = "wanting"
    /\ StartFetch(t, TRUE)
    /\ UNCHANGED <<file, left, minted, exchanged, thread, fault, stopping>>

Fetched(t) ==
    /\ step[t] = "fetch" /\ minted < MaxMint
    /\ minted' = minted + 1
    /\ held' = [held EXCEPT ![t] = minted + 1]
    /\ step' = [step EXCEPT ![t] = "install"]
    /\ UNCHANGED <<file, left, exchanged, lock, tries, thread, fault, stopping>>

\* Mutant: a transient failure is retried without a bound.
FetchFailedForever(t) ==
    /\ step[t] = "fetch"
    /\ tries' = [tries EXCEPT ![t] = @ + 1]
    /\ UNCHANGED <<lock, step, held, fault, file, left, minted, exchanged, thread, stopping>>

\* Only a transient failure is retried, and only up to the bound.
FetchFailed(t) ==
    /\ step[t] = "fetch"
    /\ tries' = [tries EXCEPT ![t] = @ + 1]
    /\ \E transient \in BOOLEAN :
         IF transient /\ tries[t] + 1 < RetryAttempts
         THEN UNCHANGED <<lock, step, held, fault>>
         ELSE Settle(t, "failed")
    /\ UNCHANGED <<file, left, minted, exchanged, thread, stopping>>

\* install_identity_token_file: a sibling, then os.replace; the file is also
\* created when it is no longer there.
Install(t) ==
    /\ step[t] = "install"
    /\ file' = held[t]
    /\ Settle(t, "done")
    /\ UNCHANGED <<left, minted, exchanged, tries, thread, stopping>>

\* The sibling could not be written, or written but not moved: nothing is
\* installed, and nobody removes a sibling.
InstallFailed(t) ==
    /\ step[t] = "install"
    /\ siblings' \in {siblings, siblings \cup {held[t]}}
    /\ Settle(t, "failed")
    /\ UNCHANGED <<file, kept, minted, exchanged, tries, thread, stopping>>

Pair(t) == TakeLock(t) \/ Fetched(t) \/ FetchFailed(t) \/ Install(t) \/ InstallFailed(t)

----------------------------------------------------------------------------
(* The refresher's thread *)

Tick ==
    /\ thread = "running" /\ ~stopping /\ step["refresher"] = "idle"
    /\ step' = [step EXCEPT !["refresher"] = "wanting"]
    /\ UNCHANGED <<file, left, minted, exchanged, lock, tries, held, thread, fault, stopping>>

RefresherEnds ==
    /\ thread = "running" /\ stopping /\ step["refresher"] = "idle"
    /\ thread' = "ended"
    /\ UNCHANGED <<file, left, minted, exchanged, pairVars, fault, stopping>>

Refresher == Pair("refresher") \/ Tick \/ RefresherEnds

----------------------------------------------------------------------------
(* What the main thread calls; each returns through step["main"] *)

CallAcquire ==
    /\ StartFetch("main", FALSE)
    /\ UNCHANGED <<file, left, minted, exchanged, thread, fault, stopping>>

PrepareFreshAssertion ==
    /\ step' = [step EXCEPT !["main"] = "wanting"]
    /\ UNCHANGED <<file, left, minted, exchanged, lock, tries, held, thread, fault, stopping>>

Returned == step' = [step EXCEPT !["main"] = "idle"]

AssertHealthy == ~fault

StartRefresher == thread' = "running"

\* A CLI process starts and exchanges what the file holds.
Exchange ==
    /\ exchanged' = exchanged \cup ({file} \cap Assertions)
    /\ UNCHANGED <<file, left, minted, pairVars, thread, fault, stopping>>

SetStop ==
    /\ stopping' = TRUE
    /\ UNCHANGED <<file, left, minted, exchanged, pairVars, thread, fault>>

\* join(timeout=5): a tick can take longer than that.
Joined == thread # "running"
JoinExpired == thread = "running" /\ step["refresher"] # "idle"

\* Mutant: the scrub only removes the file, and does not overwrite it first.
ScrubTokenFile_UnlinkOnly ==
    /\ \E unlinked \in BOOLEAN :
         file' = IF file = Absent \/ unlinked THEN Absent ELSE file
    /\ kept' = FALSE
    /\ UNCHANGED <<siblings, minted, exchanged, pairVars, thread, fault, stopping>>

\* The file is overwritten with zeros, then removed; either can fail, and no
\* failure is reported.
ScrubTokenFile ==
    /\ \E zeroed \in BOOLEAN, unlinked \in BOOLEAN :
         /\ file' = IF file = Absent \/ unlinked THEN Absent ELSE IF zeroed THEN Placeholder ELSE file
         /\ kept' = (file # Absent /\ ~zeroed /\ ~unlinked)
    /\ UNCHANGED <<siblings, minted, exchanged, pairVars, thread, fault, stopping>>

\* assert_wif_config_ready: every required variable, no variable that could
\* shadow the federation, and a regular token file.
WifConfigReady(required, shadowing, tokenFile) ==
    required /\ ~shadowing /\ tokenFile # Absent

\* write_placeholder_token_file refuses a file that exists.
WritePlaceholder ==
    /\ file = Absent
    /\ file' = Placeholder
    /\ UNCHANGED <<left, minted, exchanged, pairVars, thread, fault, stopping>>

=============================================================================
