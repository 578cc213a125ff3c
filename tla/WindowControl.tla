---------------------------- MODULE WindowControl ----------------------------
(* From the paid phases to a frozen qualification window.  An operator keeps *)
(* two append-only files in the repository: the registry of durable receipts *)
(* (sentinel/phase5/receipts.py) and the committed cost ledger, written by   *)
(* three local scripts (scripts/establish_phase5_historical_receipts.py,     *)
(* establish_phase5_replacement_receipts.py, record_phase5_cost_evidence.py) *)
(* that may be stopped, cut short in a write, repeated or run side by side.  *)
(* What is committed is what the window-control workflow reads when it       *)
(* freezes a window (scripts/run_phase5_window_freeze.py); freezes are       *)
(* dispatched, queued by the workflow's concurrency group, re-run and lost,  *)
(* and artifacts expire.  A receipt's hash of its predecessor is the number  *)
(* of receipts its writer had loaded.                                        *)
EXTENDS Integers, Sequences, FiniteSets, SequencesExt

CONSTANTS
    Procs,          \* shells an operator may run a script in at a time
    MaxFreezes,     \* bound: runs of the window-control workflow
    MaxCommits,     \* bound: commits of main
    MaxTears,       \* bound: writes cut short
    Room            \* spend rows a window may be frozen with (headroom)

ASSUME ControlAssumption ==
    /\ IsFiniteSet(Procs)
    /\ MaxFreezes \in Nat /\ MaxCommits \in Nat \ {0}
    /\ MaxTears \in Nat /\ Room \in Nat

Freezes == 1..MaxFreezes
NoId == 0
Phases == {"PROBE", "GATE"}

\* The cost rows the evidence of a paid phase carries.
RowsOf == [p \in Phases |-> IF p = "PROBE" THEN <<"probe">> ELSE <<"gate_1", "gate_2">>]
Rows == UNION {Range(RowsOf[p]) : p \in Phases}

\* Semantic events: receipt class and purpose, each of one run and attempt.
Historical ==
    <<<<"MARKER", "P5C_PROBE">>, <<"PROBE_EVIDENCE", "P5C_PROBE">>,
      <<"MARKER", "P5D_ORIGINAL">>, <<"DISPOSITION", "P5D_ORIGINAL">>>>
Replacement == <<<<"MARKER", "P5D_REPLACEMENT">>, <<"GATE_EVIDENCE", "P5D_REPLACEMENT">>>>
History == Historical \o Replacement

\* Phase5Receipt._validate: what a receipt of a purpose may say.  The original
\* run never acquires gate evidence.
Valid(fact) ==
    \/ fact[1] = "MARKER"
    \/ fact = <<"PROBE_EVIDENCE", "P5C_PROBE">>
    \/ fact = <<"GATE_EVIDENCE", "P5D_REPLACEMENT">>
    \/ fact[1] = "DISPOSITION" /\ fact[2] # "P5C_PROBE"

VARIABLES
    tree,           \* the two files in the operator's working tree
    head,           \* the two files of main
    commit,         \* the commit main is at
    work,           \* what a script still has to append, per shell
    retained,       \* phases whose evidence artifact is still retained
    green,          \* the replacement ran and published a GREEN record
    freeze,         \* runs of the workflow
    built,          \* the genesis bundle built and not yet uploaded
    published,      \* genesis bundles in the order of their upload
    gone,           \* how many of them have expired
    tears           \* writes cut short so far

files == <<tree, work, tears>>
repo == <<head, commit>>
evidence == <<retained, green>>
windows == <<freeze, built, published, gone>>
vars == <<files, repo, evidence, windows>>

ShellSymmetry == Permutations(Procs)

Idle == [rows |-> <<>>, facts |-> <<>>, base |-> -1]
NoWindow == [id |-> NoId]

\* What the file of a commit or tree may hold: "bare" is a row that lost its
\* newline, "torn" a line no reader parses.
Files ==
    [receipts : Seq([fact : Range(History), prev : 0..(2 * Len(History))]),
     torn : BOOLEAN, rows : [Rows -> 0..(2 * Cardinality(Procs))],
     tail : {"whole", "bare", "torn"}]

\* A genesis bundle: its window, and the ledger and evidence it was frozen on.
Windows ==
    [id : Freezes, source : 1..MaxCommits, supersedes : Freezes \cup {NoId},
     rows : [Rows -> 0..(2 * Cardinality(Procs))], verified : SUBSET Phases,
     state : {"intact", "consumed", "broken"}]

\* Types; and no row is ever recorded more often than scripts can race.
TypeOK ==
    /\ {tree, head} \subseteq Files
    /\ \A f \in {tree, head}, r \in Rows : f.rows[r] <= Cardinality(Procs)
    /\ commit \in 1..MaxCommits
    /\ \A p \in Procs : /\ work[p].rows \in Seq(Rows) /\ work[p].facts \in Seq(Range(History))
                        /\ work[p].base \in -1..(2 * Len(History))
    /\ retained \subseteq Phases /\ green \in BOOLEAN
    /\ \A f \in Freezes :
          freeze[f] \in [pc : {"none", "queued", "built", "done"}, source : 0..MaxCommits,
                         supersedes : Freezes \cup {NoId}]
    /\ built \in Windows \cup {NoWindow}
    /\ published \in Seq(Windows)
    /\ gone \in 0..Len(published)
    /\ tears \in 0..MaxTears

\* The paid probe has run and published its evidence; nothing is recorded.
Init ==
    /\ tree = [receipts |-> <<>>, torn |-> FALSE, rows |-> [r \in Rows |-> 0], tail |-> "whole"]
    /\ head = tree
    /\ commit = 1
    /\ work = [p \in Procs |-> Idle]
    /\ retained = {"PROBE"}
    /\ green = FALSE
    /\ freeze = [f \in Freezes |-> [pc |-> "none", source |-> 0, supersedes |-> NoId]]
    /\ built = NoWindow
    /\ published = <<>>
    /\ gone = 0
    /\ tears = 0

----------------------------------------------------------------------------
\* Reading the two files.

Established(f) == {f.receipts[i].fact : i \in DOMAIN f.receipts}
Absent(f) == f.receipts = <<>> /\ ~f.torn

\* Mutant: every line is validated on its own.
Readable_EachLine(f) ==
    /\ ~f.torn /\ f.receipts # <<>>
    /\ \A i \in DOMAIN f.receipts : Valid(f.receipts[i].fact)

\* load_registry: whole valid lines, each naming the one before, no event twice.
Readable(f) ==
    /\ ~f.torn /\ f.receipts # <<>>
    /\ \A i \in DOMAIN f.receipts : Valid(f.receipts[i].fact) /\ f.receipts[i].prev = i - 1
    /\ Cardinality(Established(f)) = Len(f.receipts)

\* read_cost_rows
LedgerReadable(f) == f.tail # "torn"
Recorded(f, p) == \A r \in Range(RowsOf[p]) : f.rows[r] = 1
Unrecorded(f, p) == \A r \in Range(RowsOf[p]) : f.rows[r] = 0

----------------------------------------------------------------------------
\* The scripts.  A shell is free to run one while no freeze is queued or built
\* (a bound: a freeze reads committed files only).  Each verifies everything first (and is given the hash of the
\* facts a reviewed dry run printed), then appends; what refuses leaves it idle.

Free(p) == work[p] = Idle /\ \A f \in Freezes : freeze[f].pc \in {"none", "done"}

Begin(p, rows, facts) ==
    /\ work' = [work EXCEPT ![p] = [rows |-> rows, facts |-> facts, base |-> -1]]
    /\ UNCHANGED <<tree, tears, repo, evidence, windows>>

\* verify_all_sources: evidence still retained, its rows recorded exactly once.
HistoricalVerified ==
    "PROBE" \in retained /\ LedgerReadable(tree) /\ Recorded(tree, "PROBE")

\* establish_phase5_historical_receipts: initial establishment only.
EstablishHistorical(p) ==
    /\ Free(p)
    /\ Absent(tree)
    /\ HistoricalVerified
    /\ Begin(p, <<>>, Historical)

\* verify_replacement_sources
ReplacementVerified == green /\ "GATE" \in retained

\* establish_phase5_replacement_receipts: exactly the four historical receipts;
\* its rows are all recorded already or none is.
EstablishReplacement(p) ==
    /\ Free(p)
    /\ ReplacementVerified
    /\ Readable(tree) /\ Established(tree) = Range(Historical)
    /\ LedgerReadable(tree)
    /\ \/ Recorded(tree, "GATE") /\ Begin(p, <<>>, Replacement)
       \/ Unrecorded(tree, "GATE") /\ Begin(p, RowsOf["GATE"], Replacement)

\* Mutant: rows already in the ledger are not looked for.
RecordCost_Always(p, phase) ==
    /\ Free(p)
    /\ phase \in retained
    /\ LedgerReadable(tree)
    /\ Begin(p, RowsOf[phase], <<>>)

\* record_phase5_cost_evidence: refuses a run id that is already recorded.
RecordCost(p, phase) ==
    /\ Free(p)
    /\ phase \in retained
    /\ LedgerReadable(tree) /\ Unrecorded(tree, phase)
    /\ Begin(p, RowsOf[phase], <<>>)

\* append_cost_row: behind a bare row, both become one unreadable line.
AppendRow(p) ==
    /\ work[p].rows # <<>>
    /\ tree' = IF tree.tail = "whole"
               THEN [tree EXCEPT !.rows[Head(work[p].rows)] = @ + 1]
               ELSE [tree EXCEPT !.tail = "torn"]
    /\ work' = [work EXCEPT ![p].rows = Tail(@)]
    /\ UNCHANGED <<tears, repo, evidence, windows>>

\* Mutant: the receipts are appended before the rows.
LoadRegistry_ReceiptsFirst(p) ==
    /\ work[p].facts # <<>> /\ work[p].base = -1
    /\ Readable(tree) \/ (Absent(tree) /\ work[p].facts = Historical)
    /\ Head(work[p].facts) \notin Established(tree)
    /\ work' = [work EXCEPT ![p].base = Len(tree.receipts)]
    /\ UNCHANGED <<tree, tears, repo, evidence, windows>>

\* append_receipt up to its open: the whole registry is loaded (it may be
\* absent for the first historical receipt only) and the event is new.
LoadRegistry(p) ==
    /\ work[p].rows = <<>> /\ work[p].facts # <<>> /\ work[p].base = -1
    /\ Readable(tree) \/ (Absent(tree) /\ work[p].facts = Historical)
    /\ Head(work[p].facts) \notin Established(tree)
    /\ work' = [work EXCEPT ![p].base = Len(tree.receipts)]
    /\ UNCHANGED <<tree, tears, repo, evidence, windows>>

Appended(p) == Append(tree.receipts, [fact |-> Head(work[p].facts), prev |-> work[p].base])

\* append_receipt: the line is written and the registry reloaded.
WriteReceipt(p) ==
    /\ work[p].base # -1
    /\ tree' = [tree EXCEPT !.receipts = Appended(p)]
    /\ work' = [work EXCEPT ![p] =
                  IF Readable(tree') /\ Len(tree'.receipts) = work[p].base + 1
                  THEN [work[p] EXCEPT !.facts = Tail(@), !.base = -1] ELSE Idle]
    /\ UNCHANGED <<tears, repo, evidence, windows>>

\* A check or a read fails, or the shell is closed, between two writes.
Stops(p) ==
    /\ work[p] # Idle
    /\ work' = [work EXCEPT ![p] = Idle]
    /\ UNCHANGED <<tree, tears, repo, evidence, windows>>

\* The process dies in a write.
DiesInWrite(p) ==
    /\ tears < MaxTears
    /\ tears' = tears + 1
    /\ work' = [work EXCEPT ![p] = Idle]
    /\ \/ /\ work[p].rows # <<>>
          /\ \/ tree' = [tree EXCEPT !.tail = "torn"]
             \/ /\ tree.tail = "whole"
                /\ tree' = [tree EXCEPT !.tail = "bare", !.rows[Head(work[p].rows)] = @ + 1]
       \/ work[p].base # -1 /\ tree' = [tree EXCEPT !.torn = TRUE]
    /\ UNCHANGED <<repo, evidence, windows>>

----------------------------------------------------------------------------
\* The operator's repository and GitHub.

AllIdle == \A p \in Procs : work[p] = Idle

\* Both files are committed together, in whatever state they are.
Commit ==
    /\ commit < MaxCommits
    /\ AllIdle
    /\ commit' = commit + 1
    /\ head' = tree
    /\ UNCHANGED <<files, evidence, windows>>

Discard ==
    /\ AllIdle
    /\ tree' = head
    /\ UNCHANGED <<work, tears, repo, evidence, windows>>

\* replacement_history_verdict: the original run is consumed and disposed of
\* without quality evidence, and nothing of the replacement is recorded.
HistoryPermits(f) ==
    /\ Readable(f)
    /\ {<<"MARKER", "P5D_ORIGINAL">>, <<"DISPOSITION", "P5D_ORIGINAL">>} \subseteq Established(f)
    /\ <<"GATE_EVIDENCE", "P5D_ORIGINAL">> \notin Established(f)
    /\ Established(f) \cap Range(Replacement) = {}

\* The one replacement (ReplacementAdmission) runs at main and publishes.
ReplacementRuns ==
    /\ ~green
    /\ HistoryPermits(head)
    /\ green' = TRUE
    /\ retained' = retained \cup {"GATE"}
    /\ UNCHANGED <<files, repo, windows>>

ArtifactExpires(phase) ==
    /\ phase \in retained
    /\ retained' = retained \ {phase}
    /\ UNCHANGED <<files, repo, green, windows>>

\* A genesis bundle is kept as long as any other: they expire in upload order.
GenesisExpires ==
    /\ gone < Len(published)
    /\ gone' = gone + 1
    /\ UNCHANGED <<files, repo, evidence, freeze, built, published>>

----------------------------------------------------------------------------
\* The freeze.

\* discover_active_window
Discovered == {published[i] : i \in (gone + 1)..Len(published)}
Tips == {w \in Discovered : \A v \in Discovered : v.supersedes # w.id}

\* select_active_window raises ActiveWindowAmbiguous.  A cycle cannot arise: a
\* window names one discovered before it.
Ambiguous ==
    \/ \E w \in Discovered :
          w.supersedes # NoId /\ \A v \in Discovered : v.id # w.supersedes
    \/ \E w, v \in Discovered : w # v /\ (w.id = v.id \/ (w.supersedes = v.supersedes /\ w.supersedes # NoId))
    \/ Cardinality(Tips) > 1

\* What the slots' runs make of the window they select, at their own commit.
WindowEnds(state) ==
    /\ ~Ambiguous
    /\ \E i \in (gone + 1)..Len(published) :
          /\ published[i] \in Tips
          /\ published[i].source = commit /\ published[i].state = "intact"
          /\ published' = [published EXCEPT ![i].state = state]
    /\ UNCHANGED <<files, repo, evidence, freeze, built, gone>>

\* Mutant: the freeze looks for a tip of its own commit, as scheduled runs do.
Selected_OwnSource(source) == {w \in Tips : w.source = source}

\* select_active_window with require_expected_source=False
Selected(source) == Tips

\* _validate: the window names the tip, whatever became of it, or none is
\* there.  latest_durable_control_state_source raises on a broken chain.
MayFollow(supersedes, source) ==
    /\ ~Ambiguous
    /\ \A w \in Selected(source) : w.state # "broken" /\ supersedes = w.id
    /\ Selected(source) = {} => supersedes = NoId

\* Mutant: the rows of retained evidence are not looked up in the ledger.
ProviderPhases_NoLedger(f) == Readable(f) /\ Established(f) = Range(History)

\* _verify_provider_phase_prerequisites: the durable receipts prove probe,
\* original and replacement; evidence still retained must have each of its rows
\* in the committed ledger exactly once.
ProviderPhases(f) ==
    /\ Readable(f) /\ Established(f) = Range(History)
    /\ LedgerReadable(f)
    /\ \A phase \in retained : Recorded(f, phase)

\* trailing_30d_spend_eur_micros of the committed ledger, one unit a row
Headroom(f) == FoldSet(LAMBDA r, n : n + f.rows[r], 0, Rows) <= Room

\* The genesis bundle and its window record.
GenesisOf(f, source, supersedes) ==
    [id |-> f, source |-> source, supersedes |-> supersedes, rows |-> head.rows,
     verified |-> retained, state |-> "intact"]

\* Bound: what cannot succeed is not dispatched (every attempt at a commit
\* without the whole history is refused), and the tree is clean.
Dispatch(f, supersedes) ==
    /\ freeze[f].pc = "none" /\ \A g \in Freezes : g < f => freeze[g].pc # "none"
    /\ AllIdle /\ tree = head /\ Established(head) = Range(History)
    /\ freeze' = [freeze EXCEPT ![f] = [pc |-> "queued", source |-> commit, supersedes |-> supersedes]]
    /\ UNCHANGED <<files, repo, evidence, built, published, gone>>

\* A re-run keeps run id, commit and inputs; it is possible for thirty days, a
\* genesis bundle is kept for ninety.
Rerun(f) ==
    /\ freeze[f].pc = "done" /\ AllIdle /\ tree = head
    /\ \A i \in 1..gone : published[i].id # f
    /\ freeze' = [freeze EXCEPT ![f].pc = "queued"]
    /\ UNCHANGED <<files, repo, evidence, built, published, gone>>

\* main: every check of the script passes and the bundle is built.
Freeze(f) ==
    /\ freeze[f].pc = "queued" /\ built = NoWindow
    /\ freeze[f].source = commit
    /\ MayFollow(freeze[f].supersedes, commit)
    /\ ProviderPhases(head)
    /\ LedgerReadable(head) /\ Headroom(head)
    /\ built' = GenesisOf(f, commit, freeze[f].supersedes)
    /\ freeze' = [freeze EXCEPT ![f].pc = "built"]
    /\ UNCHANGED <<files, repo, evidence, published, gone>>

\* The upload step; the job may still be reported as failed.
Upload(f) ==
    /\ freeze[f].pc = "built"
    /\ published' = Append(published, built)
    /\ built' = NoWindow
    /\ freeze' = [freeze EXCEPT ![f].pc = "done"]
    /\ UNCHANGED <<files, repo, evidence, gone>>

\* The freeze refuses, fails, is cancelled or loses its runner before the upload.
EndsWithout(f) ==
    /\ freeze[f].pc \in {"queued", "built"}
    /\ built' = IF freeze[f].pc = "built" THEN NoWindow ELSE built
    /\ freeze' = [freeze EXCEPT ![f].pc = "done"]
    /\ UNCHANGED <<files, repo, evidence, published, gone>>

----------------------------------------------------------------------------
Scripts ==
    \E p \in Procs :
       \/ EstablishHistorical(p) \/ EstablishReplacement(p)
       \/ \E phase \in Phases : RecordCost(p, phase)
       \/ AppendRow(p) \/ LoadRegistry(p) \/ WriteReceipt(p) \/ Stops(p) \/ DiesInWrite(p)

Platform ==
    \/ Commit \/ Discard \/ ReplacementRuns \/ GenesisExpires
    \/ \E phase \in Phases : ArtifactExpires(phase)
    \/ \E state \in {"consumed", "broken"} : WindowEnds(state)

Workflow ==
    \E f \in Freezes :
       \/ \E s \in Freezes \cup {NoId} : Dispatch(f, s)
       \/ Rerun(f) \/ Freeze(f) \/ Upload(f) \/ EndsWithout(f)

Next == Scripts \/ Platform \/ Workflow

Spec == Init /\ [][Next]_vars

----------------------------------------------------------------------------
\* Properties.

\* However scripts are interrupted, repeated or run side by side, a registry
\* that reads is the recorded history up to some event: each once, in order
\* (append_receipt's load, duplicate check and hash chain).
HistoryIsOrdered ==
    \A f \in {tree, head} :
       Readable(f) =>
          \A i \in DOMAIN f.receipts : i <= Len(History) /\ f.receipts[i].fact = History[i]

\* Both files are sound: what reads is the history, and rows are never recorded
\* more often than scripts can race.
FilesSound == TypeOK /\ HistoryIsOrdered

\* A window is frozen on the money that was really paid: every row of probe and
\* replacement is in its ledger, also when their evidence had expired by then
\* and only the receipts vouched for them, and exactly once while it had not
\* (the scripts' order of rows and receipts, seam 3 of the freeze).
FrozenIsBacked ==
    \A i \in DOMAIN published :
       LET w == published[i]
       IN  /\ \A r \in Rows : w.rows[r] >= 1
           /\ \A phase \in w.verified, r \in Rows : r \in Range(RowsOf[phase]) => w.rows[r] = 1

\* Over dispatches, re-runs, new commits, lost uploads and expiry, the windows
\* never fork: at most one is not superseded, and none is superseded twice or
\* published twice (the freeze's second-window protection).
OneTip ==
    /\ Cardinality(Tips) <= 1
    /\ \A i, j \in (gone + 1)..Len(published) :
          i # j => /\ published[i].id # published[j].id
                   /\ published[i].supersedes = published[j].supersedes => published[i].supersedes = NoId
=============================================================================
