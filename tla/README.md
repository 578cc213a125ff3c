# TLA+ verification of ai-portfolio-sentinel

The sentinel watches a portfolio of repositories: each run enumerates work
units, one per (surface, check class) scope, runs a deterministic or judged
check on each, and keeps the findings in a SQLite ledger.  Around it sit a
bounded loop (phase 4) and a scheduled, paid qualification window (phase 5).
This directory holds TLA+ models of that code, TLC configurations that check
them on small instances, and TLAPS proofs.

Everything is translated from the Python and SQL sources; ADRs and
`contracts/DATA_CONTRACT.md` are quoted only as statements to be checked.

## 1. Inventory

Paths are relative to the repository root.

### 1.1 The run pipeline, its ledger and its outputs

| component | state | operations | interacts with |
|---|---|---|---|
| pipeline (`sentinel/pipeline.py`, `cli.py`, `states.py`) | the run in hand; `done_scopes`, `all_observed`, `dead_letter_count` in memory | recover, reconcile, create run, enumerate, claim / confirm / dead-letter a task, resolve, close, write outputs | ledger, lifecycle, outputs, checks |
| ledger (`sentinel/ledger.py`, `contracts/ledger_schema.sql`) | tables `runs`, `tasks`, `findings`, `agent_calls`, `loop_runs`, `loop_iterations` | one transaction per `unit_of_work`; triggers guard transitions and deletes | every component that persists |
| finding lifecycle (`sentinel/lifecycle.py`) | none of its own | `apply_observed`, `resolve_absent`, `compute_run_counts` | ledger |
| run outputs (`sentinel/report.py`, `sentinel/costs.py`, `telemetry/cost_ledger.py`) | `FINDINGS.md`, the JSONL cost ledger | append a section between markers; append a row; repair what an interrupted write left | pipeline |

Hard here: the process may die between any two transactions and inside either
file write; a retry must neither lose nor repeat an output; a scope that was
not checked must never resolve a finding.

### 1.2 The judged checks

| component | state | operations | hard behaviours |
|---|---|---|---|
| checker harness (`agents/checker/harness.py`, `failures.py`, `tools.py`) | one judgment in hand | acquire evidence, reserve, call, validate, retry, finalize | a deadline races a late answer; a retry after an ambiguous failure spends again |
| agent budget (`agents/checker/budget.py`, `sentinel/ledger.py`, `costs.py`) | `agent_calls` rows `RESERVED → COMPLETED / FAILED / REJECTED / EXHAUSTED` | reserve before the call, finalize after, charge the reservation if it never settled | crash between reserve and finalize; cap boundary |
| deadline guard (`agents/checker/envelope_guard.py`) | the deadline, the cancel flag | bound a call by the envelope | late result after the deadline |
| process control (`agents/checker/process_control.py`) | the child process tree, pipes, reader threads | start, read, terminate, escalate, reap | a child that outlives its parent |
| OIDC session (`agents/checker/oidc.py`, `auth.py`) | the token file, a refresher thread, its fault latch, `install_lock` | fetch with retry, install, refresh, join, scrub | two producers of one file whose content may be used once; a refresh in flight while the token is being scrubbed |
| development gate (`scripts/run_phase3_dev_gate.py`) | none of its own: reads `agent_calls` and task rows back | adjudicate histories, reconstruct budget ceilings and reservations | it must conclude from rows what happened in a process that is gone |

### 1.3 The bounded loop (phase 4)

`runner/loop.py`, `breakers.py`, `state.py`, `sentinel_adapter.py`,
`iteration_log.py`.  State: a `loop_runs` row, its `loop_iterations` rows and
the intent (`planned_run_id`) written before an iteration executes.
Operations: begin or load, reconcile an interrupted iteration, evaluate the
breakers, record the intent, execute one sentinel run, finalize, finish.
Hard: a crash between the intent and the run, between the run and the
finalization; accounted cost read from a file whose last line may be torn.

### 1.4 The scheduled qualification window (phase 5)

| component | state | operations | hard behaviours |
|---|---|---|---|
| execution control (`sentinel/phase5/execution_control.py`) | the latch cause, the terminal verdict, registered invocations | trip, commit quality, commit invalid, register / unregister | monitor thread and main thread race for the verdict |
| gate runner (`scripts/run_phase5_official_gate.py`, `sentinel/phase5/journal.py`, `preflight.py`) | the operational journal, the terminal file | journal a state, write the terminal atomically | the runner dies, hangs or is signalled at any point |
| finalizer and confirmation (`scripts/run_phase5_gate_finalizer.py`, `sentinel/phase5/terminal.py`, `github_evidence.py`) | the publication root, the quarantine, the evidence artifact | look for the marker, classify, quarantine, rewrite, list, download, report | GitHub shows an artifact late, or not at all; a step's outcome is wrong; the finalizer itself is cut short |
| timing rehearsal (`scripts/run_phase5_timing_rehearsal.py`, `record_phase5_cost_evidence.py`) | the event stream, the summary or stop record, the committed cost row | preflight, measured invocations against a refresher, STOP rules, cost recovery | a second dispatch; a job killed between an invocation and its accounting |
| readiness and authorization (`sentinel/phase5/readiness.py`, `final_readiness.py`, `scripts/run_phase5_readiness.py`, `run_phase5_final_readiness.py`) | the baseline, the draft, two retained copies of the record, the latch line | probe, read back, collect, authorize, push, confirm | evidence ages while it is gathered, frozen and pushed; authorize stops half way |
| one-shot, latch, admission (`oneshot.py`, `latch.py`, `replacement.py`, `scripts/_phase5_common.py`) | the attempt history, the latch line | discover markers, list runs, admit an attempt | two preflights at once; a re-run; a deleted run |
| receipts and window control (`receipts.py`, `scripts/establish_phase5_*_receipts.py`, `run_phase5_window_freeze.py`) | the receipt registry, the committed cost ledger, genesis bundles | append a receipt, append a cost row, freeze or supersede a window | scripts side by side, torn writes, evidence that expires, redundant dispatches |
| cadence and orchestrator (`cadence.py`, `orchestrator.py`, `bundle.py`, `qualification.py`) | control state per slot, chained through artifacts | resolve a slot, evaluate a trigger, run, classify, publish successor state | missed slots, stale predecessor state, consumed windows |

How they follow one another: the paid phases (timing rehearsal, original and
replacement gate) end in evidence; the readiness chain arms the replacement and
the admission lets exactly one attempt of it through; gate runner and finalizer
turn that attempt into evidence; receipts and cost rows bring the evidence into
the repository; a freeze reads those and publishes the genesis of a window; the
orchestrator's invocations continue from there.

### 1.5 The rest

Deterministic and judged checks (`checks/`), surface inventory and HTTP
(`sentinel/inventory`, `sentinel/net`), logging, scheduling, identifiers and
configuration, contract schemas, the evals, the git hooks, the gate driver of
phase 4 and the frozen phase check: see section 9.

## 2. What makes each component correct

* **Ledger and lifecycle**: a finding is resolved only by a later run that
  finished checking its scope; lifetimes of a fingerprint do not overlap;
  every sighting is backed by a finished task; counters agree with rows.
* **Outputs**: at most one section and one readable row per run; nothing about
  a run before it is closed; what an interrupted write left, the next invocation
  restores, unless the report was torn inside a character; complete sections
  are never lost.
* **Agent budget**: what was charged is never less than what was spent, and
  never more than the cap; the development gate reads from the rows what
  happened, neither excusing nor inventing a failure.
* **Loop**: an intent is executed at most once; an iteration never starts past
  a tripped breaker; every loop ends with a reason that matches its rows.
* **OIDC and timing**: an assertion is exchanged at most once and the one on
  file is fresh when a CLI process starts; the rehearsal reaches the provider in
  one job only; PASS is earned; what is known of the spend, or may be assumed
  of it, is bounded and covered by the recovered cost row; a token stays behind
  only where the scrub, the join or an installation failed.
* **Gate**: at most one verdict; quality is never committed, and no provider
  call registered, after an operational cause; the finalizer never contradicts
  a journal and never writes a quality record.
* **Publication**: what is reported as published is what GitHub holds; an attempt
  that consumed the one-shot requires its evidence to be uploaded, as long as
  GitHub's listings are late by less than two looks.
* **Readiness**: a latch line comes from a record that was retained and whose
  every component passed; what is confirmed at commit A rests on fresh evidence.
* **Admission**: the one authorized attempt is used once, whatever is re-run,
  deleted or raced.
* **Window control**: the registry is the recorded history in order; a window is
  frozen on the rows that were paid; windows never fork.
* **Window**: a clean completion is earned slot by slot; a failed window is never
  repaired; the state every bundle carries is true of its ledger.

## 3. Plan

The order follows the weight of the behaviour: what every run does first, then
what drives runs, then what admits and judges the expensive ones.

| step | modules | composition | state |
|---|---|---|---|
| 1 | `FindingScan` (abstract), `FindingRows`, `RunOutputs`, `SentinelRun` | `SentinelRun` instantiates the operators of `FindingRows` and `RunOutputs` over its own variables and implements `FindingScan` | done, proved |
| 2 | `BoundedLoop` | uses `RunOutputs` for the two files; keeps of a run what the loop can observe | done, proved |
| 3 | `AgentJudgment` | the judged tasks of one run and the development gate over its rows; its cost is `spend` in `BoundedLoop` | done, proved |
| 4 | `GateTerminal`, `GateExecution` | `GateExecution` extends the vocabulary, the journal and the decision table of `GateTerminal` | done, proved |
| 5 | `ReplacementAdmission` | stands before `GateExecution`: who may start it | done, proved |
| 6 | `QualificationWindow` | the chain of invocations, each a `SentinelRun` with a cost and an ending | done, proved |
| 7 | `GatePublication` | finalizer, upload and confirmation on the candidates and journals `GateExecution` leaves, with the decision table of `GateTerminal` | done, proved |
| 8 | `OidcSession`, `TimingRehearsal` | `TimingRehearsal` extends the two threads of `OidcSession` with the main thread's program | done, proved |
| 9 | `FinalReadiness` | writes the authorization `ReplacementAdmission` starts from | done, proved |
| 10 | `WindowControl` | from the evidence of the paid phases to the genesis of `QualificationWindow` | done, proved |

`terminate_descendants` was planned as a module of its own and stays one step of
`GateExecution`: what it leaves to check is the operating system's process
table, which the code only polls.

"Proved" is said of the safety properties of a step: every invariant and every
action property the passing runs check is a theorem.  Liveness is never proved
(section 7).

## 4. Modules and code

In every module an action is one transaction, one file write, one section under
a lock, or one stretch of code nobody else can see the middle of; a comment
above it names the function.  Constants named `Max...` are bounds of a run,
never of the code, unless the comment at their declaration names the code's
constant.  Definitions that begin with "Mutant:" in their comment are wrong on
purpose: they are alternatives to the definition that follows, kept to show
that a property can fail.

**`FindingScan`** is the promise of `DATA_CONTRACT.md` section 9, without runs,
rows or crashes: scopes are confirmed one at a time, then the scan settles, and
only a finding in a scope this scan confirmed and did not see may leave `open`.

**`FindingRows`** is the `findings` table and `lifecycle.py`: `ApplyObserved`,
`ResolveAbsent`, `FirstSeenBy` and `ResolvedBy` (the counts).

**`RunOutputs`** holds the two files as their readers tell them apart: sections
that are whole, cut short, or `split`, cut short inside a character of several
bytes, so that the file no longer decodes; cost lines that are complete, complete
without newline (`bare`), torn, or torn with a newline behind (`garbled`).
`AppendSection`, `RepairTrailing` and `AppendCost` are the writers;
`TornReports` and `TornCosts` are what an interrupted writer leaves.

**`SentinelRun`** is one invocation after the other.  `pc` is the place in
`cli.py` / `pipeline.py`; `runs`, `tasks`, `findings` the tables, `report` and
`costs` the files, `cur`, `todo`, `strict`, `dead`, `done`, `observed` the
process's memory, wiped by `Exit`.  `StartRun` / `StartRecover` parse the
command; `RecoverOne` closes an interrupted run; `ListTerminal` / `Reconcile`
backfill outputs in run order; `CreateRun` / `CreateConflict`, `Enumerate`,
`Claim`, `Confirm`, `DeadLetter`, `Resolve`, `CloseRun`, `WriteReport`,
`WriteCost` and `FailRun` are `execute_run`; `Raise` is an exception, which the
handler turns into `FailRun`; `ReportUnreadable` is the reading of a report that
does not decode, which nothing catches in the backfill; `Crash` is the death of
the process, part-way through a write if it was writing (`Interrupted`).

**`BoundedLoop`** is `runner/loop.py`: `Begin` (or resume), `Decision` in the
frozen order of `breakers.py`, `OpenIntent`, the recovery cases
(`AdoptRunning`, `StartPlanned`, `AdoptTerminal`, `CloseInterrupted`), the
repair of outputs, the run kept to its commits, `Finalize`, `Finish`; and
`OutputFails`, `Abort`, `Crash`, `OutsideRecover` for what goes wrong or is done
from outside.

**`AgentJudgment`** is `harness.judge` with `budget.py` and the tool of
`tools.py`: `Judge...` dispatches, `Exhausted` / `Reserve` / `InsertReserved` go
up to the call, `Propose` is the model calling the tool, `Settle` the result and
its classification, `Terminalize` the row's final state, `Advance` the budget
and the decision to execute again.  `ValidHistory`, `ReconstructsCeiling`,
`CostWithinCap` and `GateAccepts` are the development gate's adjudication,
which sees the rows and nothing else.

**`GateTerminal`** is the vocabulary the gate's runner and finalizer share:
`Allowed` (state transitions), `Summary` of a journal, `Decide`.

**`GateExecution`** is the execute step with its two threads.  `main` and
`monitor` are their places, `lock` the holder of the domain lock, `pen` whether the
main thread holds the journal's, `latch`, `arbiter`, `calls`, `journal`, `record`
(the terminal file), `code` the rest.  A journal append of the main thread is two
steps, `TakeJournal` and the step that writes and gives the lock back
(`Appends`); the monitor's appends, of its heartbeat as of a cause, wait for the
lock.  Main thread: `BeginCall` looks at latch and clock, `Register` registers the
call, both under the domain lock; `LogStart`, `CallReturns` / `CallTimesOut`,
`LogFinish` (`envelope_guard.py`), `Score`, `CommitQuality`, `ReplaceQuality...`
(`execution_control.py`), `HandleFailure`, `LogException`, `BuildRecord`,
`CommitInvalid` (the runner's handler), `Leave`.  Monitor: `MonitorHeartbeat` to
`MonitorExit` (`process_control.py`).  `Finalize` is the finalizer's decision on
what survived.

**`ReplacementAdmission`** is the one-attempt authorization: `Discover` and
`ListRuns` are a preflight's reads, `Decide` is `latch.admit_attempt`, the rest
the workflow's steps and what GitHub and its users do meanwhile (dispatch,
re-run, deletion, expiry, a push, the close).

**`QualificationWindow`** is `run_scheduled` over the artifacts of earlier
invocations: `Frontier`, `Linked` and `Durable` read the chain as `bundle.py`
does, `Decision` is `evaluate_scheduled_trigger`, `RefusalBundle`, `Claimed`,
`Consumption` and `Successor` build the state `orchestrator.py` writes,
`Classified`, `BindingHolds` and `TransitionValid` are how `qualification.py` and
`bundle.py` check it again, independently.  `Fire`, `Execute`, `Refuse`,
`Publish` and `Ends` are an invocation; `Clean` is the completion proof.

**`GatePublication`** is the three steps behind the execute step, in the official
and in the rehearsal lane.  `Eligible` is the finalizer's first question, was
the one-shot consumed; `Look` its listings for the marker, up to
`FINALIZE_MAX_ATTEMPTS`; `Classify`, `Preserve`, `Quarantine` and `Write` what it
does with the candidate in the publication root; `FinalizerFails` its death or
timeout at any of these.  `Upload` is the workflow's upload step, whose outcome
and effect can disagree.  `ListEvidence`, `NothingListed`, `Entry` and
`Download` are the confirmation's counted listings and the comparison of bytes;
`ConfirmFails` ends it early.  Where `GateExecution` ends in a `Finalize` that is
one step, this module takes every candidate and journal it can end with.

**`OidcSession`** numbers the assertions GitHub mints.  `Pair(t)` is one
fetch-then-install of thread `t`: `StartFetch`, `TakeLock`, `Fetched`,
`FetchFailed`, `Install`, `InstallFailed`, under `install_lock` where the code
holds it; `Tick` and `RefresherEnds` the daemon thread; `SetStop`, `Joined`,
`JoinExpired` its bounded join; `Exchange` a CLI process that starts;
`ScrubTokenFile` the end, whose overwriting and removal can each fail without a
word.  `siblings` are the temporary files failed installations left, `kept` says
that a scrub achieved nothing.

**`TimingRehearsal`** is the main thread over it, one job after the other.
`Dispatch` and `Preflight` with its order of refusals; `StartRun`, `Acquired`;
the measured loop `NextItem`, `Admit`, `Admitted`, `Invoke`, `JudgeRefused`,
`Contact`, `Finish`, `Account`, `Check`; the shutdown `StopRefresher`, `Join`,
`JoinTimedOut`, `Scrub`, `Survey`; `WriteArtifact`, `CloseRun`; `Killed` at any
of these.  `CostEvidence` and `RecordCost` are the recovery of the spend from the
preserved event stream, in another job.  `spent` is what a call really cost, `told`
the calls whose cost the SDK reported; the code never sees the former where it
is not told.

**`FinalReadiness`** runs from the readiness source R to commit A: `BuildBaseline`
and `Arm` make R; `RunProbe`, `ReadBack` and `OtherCommit` are what happens at it
while `Tick` moves GitHub's clock; `Collect` makes a draft; `Check`, `Freeze`,
`Retain`, `AppendLine`, `FinishAuthorize` are authorize, and `Stopped` its end anywhere;
`Damage` loses a retained copy; `PushA` and `Discard` are the owner's;
`ConfirmA` is confirm-a.  A hash is the record it is the digest of.  Names that
`ReplacementAdmission` has too carry the module's (`ReadinessInit`,
`ReadinessSpec`), so that one module can be about both.

**`WindowControl`** has three groups of actions.  `Scripts`: `EstablishHistorical`,
`EstablishReplacement`, `RecordCost` begin, `AppendRow`, `LoadRegistry` and
`WriteReceipt` work, `Stops` and `DiesInWrite` end them.  `Platform`: commits and
discards of the working tree, replacement runs, expiry of evidence and of
bundles.  `Workflow`: `Dispatch`, `Rerun`, `Freeze` (the discovery of windows,
the history, the provider phases and the headroom, then the bundle), `Upload`,
`EndsWithout`.

`MCSentinelRun` and `MCAgentJudgment` add the constants and symmetry sets for
TLC.  The `_proofs` modules are described in section 7.

## 5. Runs

| run | what it shows | bounds and why they are enough |
|---|---|---|
| `ledger` | types; `FindingsSound`: no false resolution, sightings backed by finished tasks, disjoint lifetimes; `RunsSound`: counters and what green means; `OutputsSound`: outputs behind the ledger and well formed; `ImplementsScan`: the refinement of `FindingScan` | two scopes with a fingerprint each, two runs, one fault, all flags and tears: one run to leave something behind and one to find it, one scope to finish while the other fails (172 thousand states) |
| `outputs` | `BackfillSound`, `HistoryKept`, and `EventuallyOnFile`: the backfill leaves no run and no torn section behind, nothing recorded is rewritten, every run ends on file or its report can no longer be decoded | three runs and three faults over one scope: a finding appears, resolves and recurs; two outputs of different runs can be torn at once, also inside a character, and their repair interrupted (100 thousand states) |
| `loop` | `CeilingHolds`, `BooksSound` (intents, rows, accounted cost), `BreakersSound`, `EventuallyFinished` | N = 4, threshold 3, ceiling 3, runs up to 2 with an overshoot of 1: ceiling, threshold and N can be met in any order and together; two faults interrupt a recovery |
| `loop_ceiling` | the finding below | one fault, no overshoot |
| `judgment` | `SpendSound`: the run's budget through retries, overshoots, ledger and accounting faults; `GateReconstructs`; `VerdictsSound` | three tasks on a budget of three with calls of two: the last reservation is smaller than the cap, and one task is left over; symmetry in the tasks (280 thousand states) |
| `gate_race` | `ClaimsSound`, `CauseIsTrue`, `TerminalStands`; `NoStartAfterLatch`: whoever latches a cause between a call's look at the latch and its registration, the call is not registered; `Supervised`: a runner that hangs is ended, unless it hangs with a lock in hand | one provider call, two faults of any kind in both threads: the second fault hits the handling of the first; signals raise or kill, a signal inherited as ignored changes nothing and is outside the bounds (1.28 million states) |
| `admission` | types, `OneAdmission`, `NoneAfterClose` | three runs of two attempts, floor 1, two sources: one run of the past, two that compete, each with a re-run (658 thousand states) |
| `window` | `CleanIsEarned`, `FailureIsFinal`, `StatesSound` | three slots and four invocations, costs 1 and 4 on a trigger of 4 and a ceiling of 6: first, middle and last slot, one invocation to spare for a duplicate or a delay; every decision of the cadence but the weekly ones, which three slots cannot reach and the theorems cover, and the trigger is met, crossed and left behind (470 thousand states) |
| `timing` | `JobSound` (types, one rehearsal reaches the provider), `FreshAtStart`; `SpendSound`: each call counted up to its reservation, the spend fits the budget, a reported overshoot is the last call's, and the recovered row covers what is due; `PassIsEarned`; `TokenScrubbed`: what must have failed for a token to stay | two jobs, so that a second dispatch or a re-run follows; three observations on a budget of 5 with reservations of 2 and spends of 1 or 3: the third reservation may not fit, and a call may overshoot; four assertions and two requests per acquisition: both threads mint and retry (3.3 million states) |
| `publication` | `FinalizerSound`, `ReportIsTrue`, `ConsumedIsUploaded` | both lanes and every candidate; an artifact one listing late, against three looks of each kind: late, in time and failed listings in every order (231 thousand states) |
| `readiness` | `AttemptsSound`, `LineIsBacked`, `ConfirmedIsFresh` | four instants, windows of one: evidence can be in time, at the limit and too old at each of authorize, push and confirm; two probes, two authorize commands; one attempt where the code allows two, so that an attempt past the bound is one probe away (2.7 million states) |
| `control` | `FilesSound`, `FrozenIsBacked`, `OneTip` | two shells, symmetric: what interleaves is two writers of a file; two freezes, one to supersede or repeat the other; four commits take both scripts' files to main in any order; one torn write (1.5 million states) |

Deadlock is checked in `ledger` and `outputs`, where an invocation can always
follow; the other systems come to an end, and their configurations say so.

Every property of a passing run has mutants in `PROJECT.json`: plausible bugs
in one definition, each of which makes TLC refute the property.

### Findings

`loop_ceiling`: a cost row that lost only its newline makes the cost ledger
unreadable once the next row is glued to it, and
`sentinel_adapter.durable_accounted_cost` then reads zero: the loop starts a
run past its ceiling.  `BackfillComplete` of `SentinelRun` fails for the same
reason when bare lines are allowed; its run allows torn ones only.

Seen while modelling, without a run of their own:

* Output errors after the COMPLETED close turn a run FAILED
  (`pipeline.py:425`), and the section that was already appended keeps saying
  COMPLETED.
* A report write torn inside a character leaves a file that `read_text` cannot
  decode, and the `UnicodeDecodeError` is caught by nobody in the backfill: every
  later `sentinel run` dies there until somebody edits the file.  The docstring
  of `sentinel/report.py` calls the append "safe to call after a crash left a
  trailing, incomplete section", and `pipeline.py:143` says of the backfill that
  it repairs a crash "after TX-close but before the output writes".
  `EventuallyOnFile` names the exception, so that the rest of it can be checked.
* With `--no-recover` and two faults an older run's section can be appended behind
  a newer torn one, and the repair of the latter cuts the former away:
  `sentinel/report.py:145` calls an unmatched opening marker "necessarily a
  trailing incomplete fragment".  `FragmentIsTrailing`, the second half of
  `BackfillSound`, is therefore checked with recovery on, the default.
* The watchdog's escalation asks for the domain lock before it reaches the wait
  that is bounded (`run_phase5_official_gate.py:168`), so a commit hung in its
  write keeps the runner alive.  So does a journal append that hangs in its write
  or fsync: it holds the journal's lock, and the monitor's own append waits for
  that lock (`journal.py:441`) before it gets to escalate.
  `process_control.py:352` says that what is committed decides "never whether a
  stuck runner is terminated".  `Supervised` holds because `SupervisedSpec` assumes
  that such writes return.
* A signal that is queued while the journal's lock is held, and lost when the
  runner is killed before it is written, lets the finalizer record
  INFRASTRUCTURE_FAILURE, though `terminal.py` calls a run with any observed
  signal unclassified.
* The first slot after a consumed window records STATE_CHAIN_FAILURE over the
  reason of the consumption: the window stays failed, the reason is rewritten.
* A paid run whose predecessor slot is missing finds out only after it was paid
  for, and leaves no cost row: the next spend is read too low, as ADR-0011 says
  of a run lost with its runner.
* A call of the timing rehearsal whose cost the SDK does not report is charged
  at its reservation and the run goes on (`failures.py:189`), so several such
  calls can each have cost more, and nothing bounds by how much: `SpendSound`
  speaks of what a call cost up to its reservation, and of reported costs.
* `scrub_identity_token_file` swallows the errors of both its steps, and an
  installation that fails can leave its temporary sibling, which nobody removes:
  an assertion nothing has exchanged, or one that was, can stay on the runner's
  disk.  `TokenScrubbed` says exactly when.
* An ordinal of the timing rehearsal that was accounted with a null charge makes
  `TimingCostEvidenceRecord` refuse the record cost-evidence builds, and the
  spend stays unrecorded (`SpendSound` speaks of recorded rows).
* `cmd_authorize` restores the latch when a check after the append raises
  `LatchError` or `ValueError`; a failing `git` raises neither and leaves the
  line in the working tree, though the docstring says it restores.
* `evaluate_pre_dispatch_drift` and `pre_dispatch_required_facts` are used by no
  script.
* `run_phase5_window_freeze.main` catches `Phase5ScriptError` only: a tip whose
  chain is broken ends the freeze with a traceback, and such a window cannot be
  superseded before its genesis expires.
* A superseding window starts from the committed cost ledger; what the slots of
  the superseded one cost is in its headroom only if it was recorded by hand, as
  `STATE.md` says under "SPEND DISCLOSURE".

## 6. Fairness

* `SentinelRun`: `WF(Progress)`, a started process goes on.  That somebody
  invokes `sentinel run` again is nothing the code brings about: the operator does
  it by hand (`RUNBOOK.md:117`), so `EventuallyOnFile` has it as its hypothesis.
  Faults are bounded, and never fair.
* `BoundedLoop`: `WF(Progress)`: the operator invokes the loop until it reports
  a stop reason, which resumes it under its id, bounds and history kept (`state.py`).
* `GateExecution`: `WF(Monitor)` and `WF(GracePasses)`, the monitor is a thread
  that polls and its clock runs; and `LocksComeBack`: the main thread returns
  from what it does with a lock in hand, a registration, a commit's file write
  and its journal appends.  Nothing else is assumed of it: it may hang anywhere
  else.  Without either half of `LocksComeBack` TLC refutes `Supervised`.
* All other modules: none.  They promise nothing that must happen.

## 7. Proofs

All theorems are checked by `tlapm` with its SMT, Zenon and LS4 backends, for
all values of the constants that meet the `ASSUME` of the module.

**`SentinelRun_proofs`**, from `SentinelAssumption` (finite sets of scopes and
fingerprints, a fingerprint has one scope).  The invariant is built in layers,
each used by the next.

* Types, `TypeCorrect`.  `TypeOK` is not inductive: `TypeInv` adds that a process
  that holds a run (`HoldsRun`) has one in `cur`, and that the findings are
  finite, so that the counts a close writes are numbers.
* Files, `OutputsAreSound`, for all flags and all tears.  `HandsInv` says that
  outputs are only ever written of closed runs, and a closed run stays closed
  (`TerminalStays`), so no file leads the ledger.  The lemmas on the writers say
  what each makes of a sound file: `CutShape`, a report is cut at a section and
  keeps a prefix; `RepairSound`, repair leaves only readable lines;
  `AppendLineSound`, an appended row is the only one that can be damaged.
* Control, `ControlInv`: runs are started in order (`RunsInOrder`), a run that was
  not started has no task (`NotStarted`), the run in hand is the newest (`InHand`),
  and the process's memory tells the truth about the tasks of its run
  (`ScanFacts`).  Without `ScanFacts` the step `Resolve`, which trusts memory,
  could resolve anything; without order the lifetimes of rows could not be
  compared.
* Rows, `NeverFalselyResolved`, `SightingsBacked` and `LifetimesDisjoint`, together
  `FindingsAreSound`: `RowInv` is these three and `RowOrder`, a row's first
  sighting is not after its last.
* Refinement, `LedgerImplementsScan`: a `Confirm` is a `ConfirmScope` because the
  task in hand was not confirmed before and adds to the OPEN fingerprints
  exactly what it observed, and `Resolve` is a `Settle`.  What clears the
  process's memory is a `Forget`, everything else a stutter.
* Accounts, `RunsAreSound`.  `RunAccounting` alone is not inductive.  `BooksInv`
  adds that a run's task rows never hold FAILED, a terminal state that
  `dead_letter_count` would not remember, and that a closed run has nothing
  pending; `FlightInv` that at most one task is in flight, none when the run is
  about to close, and that `dead_letter_count` remembers every dead letter.  The
  counts a close took must stay true while later runs rewrite the rows they were
  taken from: a row is known by its fingerprint and its first run (`RowKey`), so
  rewriting is a bijection that keeps both counts (`RewriteCounts`).
* Backfill, `BackfillIsSound` and `HistoryIsKept`, on the hypotheses the run
  `outputs` is checked with: every invocation recovers first (`Recovers`; section 5
  says what happens otherwise), and for the backfill no tear leaves a line that
  lost only its newline (`Clean`, refuted without it).  `PhaseInv`: once recovery
  is over no run is RUNNING.  `ReportInv` and `CostInv` say what is on file of the
  runs that are not outstanding; a section is missing of the latest closed run
  only, so a fragment is that run's own (`OwnFragment`) and its repair cuts nothing
  else away.

**`FiniteSums`**: the sum of a function over a finite set, which the models take
from the community modules, is a number, grows by what an element adds, and is
the same for functions that agree; sums add up, are monotone, and change by as
much as one value does.  The proofs argue from a smallest
counterexample, since induction over sets is out of reach.

**`BoundedLoop_proofs`**, from `LoopAssumption`: `RowsAgree` for any tears;
`BooksAreSound`, `BreakersAreSound` and `CeilingIsHeld` when no tear leaves a line
that lost only its newline (`Clean`), without which the run `loop_ceiling` refutes
the last.  `CoreInv`: only the newest iteration can be open, no run is ahead of
the intents, and each place of the supervisor says what it knows of the planned
run (`PcInv`).  `BooksInv`: the loop row's counters and the streak stored with an
iteration are those of the rows.  `FilesInv`: finalized iterations are on file,
and the cost ledger is unreadable only while the planned run waits for its
outputs, so whatever is decided is decided on everything spent
(`DecidedOnSpent`).  `MoneyInv`: the allowance of a run about to start fits under
the ceiling.  `ReasonInv`: a stop reason is true of the rows it was decided on,
and these do not change any more.

**`AgentJudgment_proofs`**, from the module's assumptions: `SpendIsSound`,
`VerdictsAreBacked`, `GateReadsTheRows`.  `JudgmentInv` relates three accounts of
one judgment: what the coordinator's memory holds (`HandInv`, `LastRow`), the
rows (`RowInv`, `HistoryInv`: all rows of a task but the last hit their ceiling,
and it was invoked once per attempt), and the money (`MoneyInv`: until accounting
fails the memory never knows less than the ledger, and a call is covered by what
remained when it was reserved).

**`Gate_proofs`** is about the execute step and the steps behind it.  From
`GateAssumption`: `ClaimsAreSound`,
`CausesAreTrue`, `RecordStands`, `LatchStopsCalls`, for any number of calls and
faults and all dispositions of a signal.  `GateInv` has a part for each thing the
two threads share.  `PlaceInv`: what is in the terminal file, by where the main
thread is.  `CauseInv`: the cause in hand, and that no call was started before the
provider boundary was crossed.  `DomainInv`: while a record is written under the
lock, or a call is between look and registration, the latch is what it was when
the step was let through; that is why `LatchStopsCalls` holds although the look
is over when the call is registered.  `DebtInv` and
`LatchedInv`: latching and journaling are separate steps, so a thread that has
latched a cause owes the journal one; there is one debtor at most, it holds the
latched cause, and nothing is journaled until it pays.  `ExceptionInv` and
`StateInv` say the same of the other events.  With one LATCHED and one EXCEPTION
event at most, the first of them is the one there is, and the finalizer's
decision follows from the journal (`DecideSound`).

**`Authorization_proofs`** is about the one authorization, and how it comes about.
From `AdmissionAssumption`: `AdmissionTypes`, `AtMostOneAdmission`,
`ClosedIsClosed`.  `AdmissionInv` says why nobody else can
be admitted: `HolderInv`, whoever holds the authorization is the first attempt
of a run above the floor, and the first attempt of every run between is over and
never consumed it; `ListedInv`, a listing that let a preflight go on has every
earlier run in it.  The later of two holders would have seen the earlier over and
without it.  The control part of `TypeInv` adds that an attempt that was not
dispatched does nothing, and that one that began to upload the marker is past
that point for good.

From `ReadinessAssumption` (`None` is no record): `AttemptsAreSound`,
`LinesAreBacked` and `ConfirmedOnFreshEvidence`, for any ages, any deadline and any
numbers of probes and of authorize commands.  `LineIsBacked` says nothing of what
authorize has in hand or retained before it appends, so `RecordInv` follows a record
from the draft on: it is `Accounted` as soon as it is collected, since probes are
only added and time only goes on; `Passed` once it is frozen, at its own one server
time, which no later step changes; kept before it is a line.  A line that HEAD
carries is never taken back, so what confirm-a passed stays what it passed.
Freshness is then arithmetic: CI was before the probe, the probe before every
reading, the readings before the freeze, and from the probe to the push there are
at most the two ages.

From `PublicationAssumption`: `FinalizerStaysSound`
for any lag and any numbers of looks, by `PublicationInv`: the control part says
what each place knows of the candidate (a trusted one is preserved, an untrusted
one rewritten) and that nothing is required, uploaded or reported before its
time; the lane part says that only an official attempt whose marker step failed
is ever looked up.  The decision table is opened once, in `RewrittenIsInvalid`:
whatever the journal, the finalizer writes a trusted record that is no quality
record.  `ReportStaysTrue` assumes `MaxLag < ConfirmLooks`, since as many empty
listings as are asked for is all the code knows of absence, and
`ConsumedIsAlwaysUploaded` assumes `MaxLag < 2`, since two empty listings are
enough for the finalizer to conclude that no marker was stored.  Their
invariants `ConfirmInv` and `ConsumedInv` count: what is stored and not yet seen
still has lag left for every empty listing that was given.

**`Window_proofs`** is about the qualification windows: how one comes to be frozen,
and what becomes of it.  From `ControlAssumption` (finitely many shells):
`WindowsNeverFork`, `FilesAreSound` and `FrozenOnPaidMoney`, for any number of
shells, freezes, commits and torn writes.  `OneTip` is not inductive:
what a freeze will publish must continue what is published.  `Line` is the
published bundles with the built one at the end, and `ChainInv` says that its
live part is a chain: each bundle supersedes the one before it and none the
identity of a later one.  `TipIsLast`: the tip of such a chain is its last bundle,
so a freeze that refuses an ambiguous discovery and supersedes its one tip
extends the chain (`FreezeChains`); expiry takes bundles from the front and a
lost upload the built one (`ChainShortens`).  A re-run keeps the inputs of its
run, so no identity appears again after its predecessor expired.

The files need no lock, for two reasons `FilesInv` makes precise.  Every receipt
is the event that follows as many as its writer had loaded (`Written`), so what
the readers accept, lines that name their predecessors, is the history in order.
And the recorded copies of a cost row and the shells still to append one are
together never more than the shells (`Pending`), since a script begins only while
the row is missing.  Rows precede the receipts that vouch for them, so a complete history
means that every row was recorded (`HistoryIsPaid`), and a frozen window is
`Backed`.

From `WindowAssumption` (the allowances of a window fit under the trigger, the
trigger under the ceiling, a live run costs something): `StatesAreTrue`,
`CleanCompletionIsEarned` and `FailuresAreFinal`, for any number of slots and
invocations.  `QualificationInv` has four parts.  `JobInv`: a slot is the interval
its run was created in, one run at a time is past S12, and the chain it began from
is still sound.  `BundleInv`: what a published bundle says of its predecessor and its
run still holds, and its ledger spends no more than it states.  `RowsInv`: the
durable ledger has the row of every slot, and once a slot consumed the window the
durable state says so; the decision is taken on that state and the successor built
on the predecessor slot's, and this is what keeps the two from disagreeing.
`LinkInv`: slots are published in order and every state has one refusal at most.
It also says that following refusals ends, which makes the recursive `Follow` a
function (`RecursionExists`): each state has a height, and its refusal a lower one.
`DecisionSays`, `RefusalSound` and `SlotSound` open the decision table, the two
builders and their checkers once: what is written is what is accepted, and a window
is only ever consumed by it.  `PublishSlots` and `RefuseSlots` say what a bundle does to
the chain, which is all `FailuresAreFinal` needs: a slot's bundle either moves the
frontier or makes its slot ambiguous and so breaks the chain, for good.
`CleanCompletionIsEarned` goes backwards: a reason to consume a window is carried to
the last slot, which has none, so no slot before it consumed the window, and none
spent past the trigger.

**`TimingRehearsal_proofs`** has two inductive invariants.  From `OidcAssumption`,
for any number of assertions and retries and every interleaving of the main thread
with the refresher: `FreshWhenStarted` and `TokenStaysScrubbed`, by `OidcInv`.
`PairInv`: whoever is between a fetch and its installation holds the lock, but
for the first acquisition, which precedes the second thread.  `HeldInv`: what is
about to be installed is newer than what is on file and nothing has exchanged
it, so an installation never makes the file stale; only a start exchanges.
`SiblingInv`: of an assertion left in a sibling the thread that failed has told
the job, by the fault it latched or by the reason the job stops with.
`ThreadInv`: what the main thread's place says of the two threads, above all that
nobody but the refresher is in a pair during a call, and that a join that
succeeded leaves no thread.

From `OidcAssumption` and `TimingAssumption`, for any number of jobs and items, any
budget and anything an invocation may cost: `JobIsSound`, `PassStaysEarned` and
`SpendStaysSound`, by `BooksInv`.  `RunInv`: only job 1 gets past the preflight,
since a re-run is not a first attempt of its run and a later dispatch sees a
prior one; everything else is about that job (`First`) or about what it left.
`ItemInv`: of the items
behind the one in hand nothing is known, so a row, a charge or a start is never
another item's.  `AccountInv`: an item is accounted for once, and what it was
charged covers what it cost up to its reservation, and in full when the cost was
reported.  `PassInv` counts: at the top of the loop the first
`ordinal - 1` items are accounted for, each within its reservation, so a loop
that ends has all of them.  `MoneyInv`: what the calls cost within their
reservations is committed before the next reservation, which must fit.
`OvershootInv`: a reported overshoot is charged in full or the item has failed,
and either ends the run, so nothing is started after it.
`CostInv`: a recovered row is the sum of the charges, each of which covers what is
due (`ChargedEnough`), and `FiniteSums` does the rest.

Only model-checked: liveness (`EventuallyOnFile`, `EventuallyFinished`,
`Supervised`), which is out of the prover's reach.

## 8. Abstractions

* `SentinelRun`: timestamps are the order of runs; what a check observes is any
  set of fingerprints of its scope; `findings_still_open` is left out;
  invocations do not overlap, which `DATA_CONTRACT.md` section 8 demands and no
  lock enforces.
* `BoundedLoop`: one loop; `planned_run_id` is the iteration's number; what a run
  spends is chosen when it is created; money is in small units; the report is
  the set of runs with a complete section, its fragments being `SentinelRun`'s
  matter, and taken as decodable: reading one that is not raises, which the
  loop turns into its error state as `Abort` does.
* `AgentJudgment`: evidence matching and the model are arbitrary; the currency
  conversion is left out.
* `GateExecution`: time is what the code compares; a torn last journal line is
  left out, since no reader tells it from a whole journal; untrusted candidates
  of the finalizer are left out; heartbeats and invocation events take the
  journal's lock and leave nothing a reader looks for, and the appends of
  events no action stands for belong to the steps around them; a journal append
  that fails is `JournalBreaks`; a signal is observed, kills, or is inherited as
  ignored, and one that finds the journal's lock taken is journaled at once or,
  when it kills, never; the monitor's handling of a fault of its own
  (`process_control.py:442`) and an exception while the quality record is put
  together are left out; a call refused for a latched cause leaves no trace; the
  marker is taken as consumed.  The run's shutdown
  after the monitor has stopped is supervised by nobody, in the model as in the
  code.
* `ReplacementAdmission`: the concurrency group is left out on purpose, the
  decision must not need it; identity checks of a commit are "the source is the
  authorized one"; the receipts registry is constant at that commit; the second,
  artifact-based guard of the gate evidence is left out, so that what is shown
  rests on the first alone; any failed read refuses; GitHub is assumed never to
  report a begun step as skipped.
* `QualificationWindow`: one window from its genesis; a run that is not of the
  frozen event, ref or source ends before it reads the chain; the pipeline
  returns a terminal status and a cost row or the invocation ends; a bundle is
  its identity, and appears whole or not at all; slots are owned intervals, so
  no owned run is late; clocks do not go back; jobs are serialized by the
  workflow's concurrency group, in any order.
* `GatePublication`: a record is its kind, cause and writer; a damaged candidate
  is any foreign thing; a listing fails, gives nothing or gives what is stored,
  and a stored artifact is late by at most `MaxLag` listings; what is downloaded
  is what is stored, or it is damaged.  The confirmation's refusals of a listing
  with two candidates or with an artifact of another identity
  (`run_phase5_gate_finalizer.py:496`) are left out, and a digest differs only where the
  terminal does: each would be one more way to report a failure.
* `OidcSession`, `TimingRehearsal`: an assertion is its number and does not expire
  by age, the refresh being what keeps it fresh; a CLI process exchanges what the
  file holds when it starts; a killed runner scrubs nothing, and its machine is
  not used again; the corpus is N items that do not differ; elapsed
  times, the preregistration and the topology samples' contents are left out
  (`sample_topology` is whether the CLI was identified).
* `FinalReadiness`: one R, one baseline; the clock is GitHub's, local and web
  times are readings of it; a hash is what it is of; gathering stops once commit
  A or another commit is on main behind R.  The commands that only look
  (pre-dispatch, verify-final, write-set, dry-run) are left out.
* `WindowControl`: shells do nothing while a freeze is queued or built, and both
  files are committed together when no script works; a freeze is dispatched at a
  commit with the whole history and a clean tree; an uploaded genesis is visible
  at once; the concurrency group serializes freezes; a run whose genesis expired
  cannot be re-run.  `FilesSound` rests on two defences, the hash chain and the
  duplicate check, of which either would do for two shells.  The timing probe's
  own run, migration evidence and slot dates are left out.

## 9. Not modelled

* Deterministic and judged checks, prompts, evidence text, exchange rate,
  identifiers, configuration, logs, iteration-log rendering: pure functions or
  text, without protocol state; every verdict and every set of observations is
  taken as possible.
* Surface inventory and HTTP: input; `SentinelRun` lets every run see any part
  of its surfaces.
* Contract schemas and evals, and those evidence records no module names:
  validation of single values.
* Phase 4 gate driver and rehearsals, frozen phase check, git hooks: test
  drivers around the components above, and one-time or commit-time comparisons.
* Workflows: the environment of the modules that need one.
* Of the modelled components: two overlapping invocations on one ledger and a
  clock that goes backwards (section 8); what `terminate_descendants` does to
  each process; the fields of records and the bytes of bundles; corpus
  preparation and report of the development gate; the readiness commands that
  only look.
