------------------------------ MODULE Window_proofs ------------------------------
(* Theorems about the qualification windows.  WindowControl, for any number  *)
(* of shells, freezes, commits and torn writes: the windows never fork, a    *)
(* registry that reads is the history in order, and a window is frozen on    *)
(* paid money.  QualificationWindow, for any number of slots, invocations,   *)
(* costs and thresholds: the published states are true, a clean completion   *)
(* is earned and a failed window stays failed.                               *)
EXTENDS WindowControl, QualificationWindow, FiniteSums, FiniteSetTheorems, TLAPS

----------------------------------------------------------------------------
\* Genesis bundles in the order they are built: what is built and not yet
\* uploaded will be the next.
Line == IF built = NoWindow THEN published ELSE Append(published, built)

\* A bundle says of its window what its run was dispatched with.
Bundle(w) ==
    /\ w = [id |-> w.id, source |-> w.source, supersedes |-> w.supersedes, rows |-> w.rows,
            verified |-> w.verified, state |-> w.state]
    /\ w.id \in Freezes
    /\ freeze[w.id].pc # "none"
    /\ freeze[w.id].supersedes = w.supersedes

\* At most one freeze has a bundle in hand.
OneBuilder ==
    /\ \A f \in Freezes : freeze[f].pc = "built" => built # NoWindow
    /\ \A f, g \in Freezes : freeze[f].pc = "built" /\ freeze[g].pc = "built" => f = g

\* The types the chain rests on.
WindowTypes ==
    /\ \E S : published \in Seq(S)
    /\ gone \in 0..Len(published)
    /\ freeze \in [Freezes -> [pc : {"none", "queued", "built", "done"},
                               source : Nat, supersedes : Freezes \cup {NoId}]]
    /\ commit \in Nat
    /\ \A i \in DOMAIN published : Bundle(published[i])
    /\ built # NoWindow => Bundle(built)
    /\ OneBuilder

\* The bundles that have not expired supersede one another in order, and none
\* has the identity that itself or an earlier one supersedes.
Live == (gone + 1)..Len(Line)
ChainInv ==
    /\ \A i \in Live : i + 1 \in Live => Line[i + 1].supersedes = Line[i].id
    /\ \A i, j \in Live : i # j => Line[i].id # Line[j].id
    /\ \A i, j \in Live : i <= j => Line[j].id # Line[i].supersedes

WindowInv == WindowTypes /\ ChainInv

\* What Line is made of.
LineFacts ==
    /\ Len(published) \in Nat /\ DOMAIN published = 1..Len(published)
    /\ built = NoWindow => Line = published
    /\ built # NoWindow => /\ Len(Line) = Len(published) + 1
                           /\ Line[Len(published) + 1] = built
    /\ \A i \in 1..Len(published) : Line[i] = published[i]
    /\ Len(Line) \in Nat /\ Len(published) <= Len(Line)
    /\ \A i \in 1..Len(Line) : Bundle(Line[i])
    /\ \E S : Line \in Seq(S)

LEMMA LineParts == WindowTypes => LineFacts
<1> SUFFICES ASSUME WindowTypes PROVE LineFacts
    OBVIOUS
<1>1. PICK S : published \in Seq(S)
    BY DEF WindowTypes
<1>2. /\ Len(published) \in Nat /\ DOMAIN published = 1..Len(published)
    BY <1>1
<1>2a. PICK n \in Nat : n = Len(published)
    BY <1>2
<1>3. CASE built = NoWindow
    BY <1>1, <1>2, <1>3 DEF Line, WindowTypes, LineFacts
<1>4. CASE built # NoWindow
    <2>1. published \in Seq(S \cup {built}) /\ built \in S \cup {built}
        BY <1>1
    <2>2. /\ Line = Append(published, built)
          /\ Line \in Seq(S \cup {built})
          /\ Len(Line) = Len(published) + 1
          /\ Line[Len(published) + 1] = built
          /\ \A i \in 1..Len(published) : Line[i] = published[i]
        BY <1>4, <2>1 DEF Line
    <2>3. ASSUME NEW i \in 1..Len(Line) PROVE Bundle(Line[i])
        <3>1. CASE i = n + 1
            BY <1>2a, <1>4, <2>2, <3>1 DEF WindowTypes
        <3>2. CASE i \in 1..n
            BY <1>2, <1>2a, <2>2, <3>2 DEF WindowTypes
        <3>3. i \in 1..(n + 1)
            BY <1>2a, <2>2
        <3> QED BY <3>1, <3>2, <3>3
    <2>4. Len(Line) \in Nat /\ Len(published) <= Len(Line)
        <3>1. Len(Line) = n + 1
            BY <1>2a, <2>2
        <3> QED BY <1>2a, <3>1
    <2> QED BY <1>2, <1>4, <2>2, <2>3, <2>4 DEF LineFacts
<1> QED BY <1>3, <1>4

LEMMA NextLineParts == WindowTypes' => LineFacts'
BY LineParts, PTL

----------------------------------------------------------------------------
\* A freeze continues the chain.

\* The tip of a chain that is not ambiguous is its last bundle, and what the
\* first one superseded is long gone.
LEMMA TipIsLast ==
    ASSUME WindowInv, built = NoWindow, gone < Len(published), ~Ambiguous
    PROVE  /\ published[Len(published)] \in Tips
           /\ published[gone + 1].supersedes = NoId
<1> DEFINE n == Len(published)
<1>1. /\ n \in Nat /\ gone \in 0..n /\ Line = published /\ Live = (gone + 1)..n
      /\ DOMAIN published = 1..n
      /\ \A i \in Live : published[i].id \in Freezes
    BY LineParts DEF WindowInv, WindowTypes, Live, Bundle, LineFacts
<1>2. /\ \A i \in Live : i + 1 \in Live => published[i + 1].supersedes = published[i].id
      /\ \A i, j \in Live : i # j => published[i].id # published[j].id
      /\ \A i, j \in Live : i <= j => published[j].id # published[i].supersedes
    BY <1>1 DEF WindowInv, ChainInv
<1>3. \A v : v \in Discovered <=> \E i \in Live : v = published[i]
    BY <1>1 DEF Discovered
<1>4. gone + 1 \in Live /\ n \in Live
    BY <1>1
<1>5. published[gone + 1].supersedes = NoId
    <2>1. ASSUME published[gone + 1].supersedes # NoId PROVE FALSE
        <3>1. PICK v \in Discovered : v.id = published[gone + 1].supersedes
            BY <1>3, <1>4, <2>1 DEF Ambiguous
        <3>2. PICK k \in Live : v = published[k]
            BY <1>3, <3>1
        <3>3. gone + 1 <= k
            BY <1>1
        <3> QED BY <1>2, <1>4, <3>1, <3>2, <3>3
    <2> QED BY <2>1
<1>6. ASSUME NEW k \in Live PROVE published[k].supersedes # published[n].id
    <2>1. CASE k = gone + 1
        BY <1>1, <1>4, <1>5, <2>1 DEF Freezes, NoId
    <2>2. CASE k # gone + 1
        <3>1. k - 1 \in Live /\ (k - 1) + 1 = k /\ k - 1 # n
            BY <1>1, <2>2
        <3> QED BY <1>2, <1>4, <3>1
    <2> QED BY <2>1, <2>2
<1>7. published[n] \in Tips
    BY <1>3, <1>4, <1>6 DEF Tips
<1> QED BY <1>5, <1>7

\* The new bundle goes to the end of the chain.
LEMMA FreezeChains ==
    ASSUME WindowInv, NEW f \in Freezes, Freeze(f)
    PROVE  WindowInv'
<1> DEFINE w == GenesisOf(f, commit, freeze[f].supersedes)
<1>0. PICK n \in Nat : n = Len(published)
    BY LineParts DEF WindowInv, LineFacts
<1>1. /\ built = NoWindow /\ freeze[f].pc = "queued" /\ built' = w
      /\ freeze' = [freeze EXCEPT ![f].pc = "built"]
      /\ MayFollow(freeze[f].supersedes, commit)
      /\ UNCHANGED <<published, gone, commit>>
    BY DEF Freeze, repo
<1>2. /\ gone \in 0..n /\ Line = published /\ Live = (gone + 1)..n
      /\ DOMAIN published = 1..n
    BY <1>0, <1>1, LineParts DEF WindowInv, WindowTypes, Live, LineFacts
<1>2a. gone \in Nat /\ gone <= n
    BY <1>2
<1>3. w.id = f /\ w.supersedes = freeze[f].supersedes /\ w # NoWindow
    BY DEF GenesisOf, NoWindow, Freezes, NoId
<1>4. \A g \in Freezes : /\ freeze'[g].supersedes = freeze[g].supersedes
                         /\ g # f => freeze'[g].pc = freeze[g].pc
                         /\ freeze'[g].pc # "none" <=> freeze[g].pc # "none"
      /\ freeze'[f].pc = "built"
    BY <1>1 DEF WindowInv, WindowTypes
<1>5. WindowTypes'
    <2>1. \A i \in DOMAIN published' : Bundle(published[i])'
        BY <1>1, <1>4 DEF WindowInv, WindowTypes, Bundle
    <2>2. Bundle(built)'
        BY <1>1, <1>3, <1>4 DEF Bundle, GenesisOf
    <2>3. OneBuilder'
        BY <1>1, <1>3, <1>4 DEF WindowInv, WindowTypes, OneBuilder
    <2>4. freeze' \in [Freezes -> [pc : {"none", "queued", "built", "done"},
                                   source : Nat, supersedes : Freezes \cup {NoId}]]
        BY <1>1 DEF WindowInv, WindowTypes
    <2> QED BY <1>1, <2>1, <2>2, <2>3, <2>4 DEF WindowInv, WindowTypes
<1>6. /\ Live' = (gone + 1)..(n + 1)
      /\ Line'[n + 1] = w
      /\ \A i \in Live : Line'[i] = published[i]
    <2>1. /\ Len(Line') = n + 1 /\ Line'[n + 1] = w
          /\ \A i \in 1..n : Line'[i] = published[i]
        BY <1>0, <1>1, <1>3, <1>5, NextLineParts DEF LineFacts
    <2> QED BY <1>1, <1>2, <2>1 DEF Live
<1>7. ChainInv'
    <2>1. CASE gone = n
        <3>1. w.supersedes = NoId
            <4>1. Discovered = {}
                BY <1>2, <2>1 DEF Discovered
            <4>2. Selected(commit) = {}
                BY <4>1 DEF Selected, Tips
            <4> QED BY <1>1, <1>3, <4>2 DEF MayFollow
        <3>2. Live' = {n + 1}
            BY <1>2, <1>6, <2>1
        <3> QED BY <1>2, <1>3, <1>6, <3>1, <3>2 DEF ChainInv, Freezes, NoId
    <2>2. CASE gone < n
        <3>1. published[n] \in Tips /\ published[gone + 1].supersedes = NoId
            BY <1>0, <1>1, <2>2, TipIsLast DEF MayFollow
        <3>2. w.supersedes = published[n].id
            BY <1>1, <1>3, <3>1 DEF MayFollow, Selected
        <3>3. /\ \A i \in Live : i + 1 \in Live => published[i + 1].supersedes = published[i].id
              /\ \A i, j \in Live : i # j => published[i].id # published[j].id
              /\ \A i, j \in Live : i <= j => published[j].id # published[i].supersedes
            BY <1>2 DEF WindowInv, ChainInv
        <3>4. \A i \in Live : /\ published[i].id \in Freezes
                              /\ published[i].supersedes = freeze[published[i].id].supersedes
            BY <1>2 DEF WindowInv, WindowTypes, Bundle
        <3>5. n \in Live /\ gone + 1 \in Live
            BY <1>2, <2>2
        <3>6. ASSUME NEW i \in Live
              PROVE  /\ published[i].supersedes # published[n].id
                     /\ published[i].id # f
            <4>1. published[i].supersedes # published[n].id
                <5>1. CASE i = gone + 1
                    BY <3>1, <3>4, <3>5, <5>1 DEF Freezes, NoId
                <5>2. CASE i # gone + 1
                    <6>1. i - 1 \in Live /\ (i - 1) + 1 = i /\ i - 1 # n
                        BY <1>2, <5>2
                    <6> QED BY <3>3, <3>5, <6>1
                <5> QED BY <5>1, <5>2
            <4> QED BY <1>3, <3>2, <3>4, <4>1
        <3>7. ASSUME NEW i \in Live PROVE published[i].supersedes # f
            <4>1. CASE i = gone + 1
                BY <3>1, <4>1 DEF Freezes, NoId
            <4>2. CASE i # gone + 1
                <5>1. i - 1 \in Live /\ (i - 1) + 1 = i
                    BY <1>2, <4>2
                <5> QED BY <3>3, <3>6, <5>1
            <4> QED BY <4>1, <4>2
        <3>8. \A i \in Live' : i \in Live \/ i = n + 1
            BY <1>2, <1>6
        <3>9. \A i \in Live' : i + 1 \in Live' => Line'[i + 1].supersedes = Line'[i].id
            <4>1. TAKE i \in Live'
            <4>2. HAVE i + 1 \in Live'
            <4>3. i \in (gone + 1)..(n + 1) /\ i + 1 \in (gone + 1)..(n + 1)
                BY <1>6, <4>2
            <4>4. i \in (gone + 1)..n /\ (i + 1 \in (gone + 1)..n \/ i = n)
                BY <1>2a, <4>3
            <4>5. i \in Live /\ (i + 1 \in Live \/ i = n)
                BY <1>2, <4>4
            <4> QED BY <1>6, <3>2, <3>3, <4>5
        <3>10. \A i, j \in Live' : i # j => Line'[i].id # Line'[j].id
            BY <1>2, <1>3, <1>6, <3>3, <3>6, <3>8
        <3>11. \A i, j \in Live' : i <= j => Line'[j].id # Line'[i].supersedes
            <4>1. f # w.supersedes
                BY <3>2, <3>5, <3>6
            <4> QED BY <1>2, <1>3, <1>6, <3>3, <3>7, <3>8, <4>1
        <3> QED BY <3>9, <3>10, <3>11 DEF ChainInv
    <2>3. gone = n \/ gone < n
        BY <1>2a
    <2> QED BY <2>1, <2>2, <2>3
<1> QED BY <1>5, <1>7 DEF WindowInv

----------------------------------------------------------------------------
\* The invariant.

LEMMA WindowInit == Init => WindowInv
<1> SUFFICES ASSUME Init PROVE WindowInv
    OBVIOUS
<1>1. published = <<>> /\ published \in Seq({}) /\ Len(published) = 0 /\ DOMAIN published = {}
    BY DEF Init
<1>2. built = NoWindow /\ gone = 0 /\ commit = 1
    BY DEF Init
<1>3. \A f \in Freezes : freeze[f].pc = "none"
    BY DEF Init
<1>4. freeze \in [Freezes -> [pc : {"none", "queued", "built", "done"},
                              source : Nat, supersedes : Freezes \cup {NoId}]]
    BY DEF Init
<1>5. WindowTypes
    BY <1>1, <1>2, <1>3, <1>4 DEF WindowTypes, OneBuilder
<1>6. Live = {}
    BY <1>1, <1>2 DEF Live, Line
<1> QED BY <1>5, <1>6 DEF WindowInv, ChainInv

\* Bundles expire and are lost from the end, and what is left stays as it is.
Shortens ==
    /\ gone <= gone' /\ Len(Line') <= Len(Line)
    /\ \A i \in 1..Len(Line') : /\ Line'[i].id = Line[i].id
                                /\ Line'[i].supersedes = Line[i].supersedes

LEMMA ChainShortens ==
    ASSUME WindowInv, WindowTypes', Shortens
    PROVE  WindowInv'
<1>1. gone \in Nat /\ gone' \in Nat /\ Len(Line) \in Nat /\ Len(Line') \in Nat
    <2>1. gone \in Nat /\ Len(Line) \in Nat
        BY LineParts DEF WindowInv, WindowTypes, LineFacts
    <2>2. gone' \in Nat /\ Len(Line') \in Nat
        BY NextLineParts DEF WindowTypes, LineFacts
    <2> QED BY <2>1, <2>2
<1>2. \A i \in Live' : /\ i \in Live
                       /\ Line'[i].id = Line[i].id /\ Line'[i].supersedes = Line[i].supersedes
    <2>1. TAKE i \in Live'
    <2>2. i \in (gone' + 1)..Len(Line')
        BY DEF Live
    <2>3. PICK g, h, n, m \in Nat : g = gone /\ h = gone' /\ n = Len(Line) /\ m = Len(Line')
        BY <1>1
    <2>4. g <= h /\ m <= n
        BY <2>3 DEF Shortens
    <2>5. i \in (h + 1)..m
        BY <2>2, <2>3
    <2>6. i \in (g + 1)..n /\ i \in 1..m
        BY <2>4, <2>5
    <2> QED BY <2>3, <2>6 DEF Live, Shortens
<1>3. ChainInv'
    <2>1. \A i \in Live' : i + 1 \in Live' => Line'[i + 1].supersedes = Line'[i].id
        BY <1>2 DEF WindowInv, ChainInv
    <2>2. \A i, j \in Live' : i # j => Line'[i].id # Line'[j].id
        BY <1>2 DEF WindowInv, ChainInv
    <2>3. \A i, j \in Live' : i <= j => Line'[j].id # Line'[i].supersedes
        BY <1>2 DEF WindowInv, ChainInv
    <2> QED BY <2>1, <2>2, <2>3 DEF ChainInv
<1> QED BY <1>3 DEF WindowInv

LEMMA WindowNext == WindowInv /\ [Next]_vars => WindowInv'
<1> SUFFICES ASSUME WindowInv, [Next]_vars PROVE WindowInv'
    OBVIOUS
<1>a. WindowTypes
    BY DEF WindowInv
<1>1. ASSUME UNCHANGED windows, commit' \in Nat PROVE WindowInv'
    BY <1>1, <1>a DEF windows, WindowInv, WindowTypes, ChainInv, OneBuilder, Bundle, Live, Line
<1>2. CASE Scripts
    <2>1. UNCHANGED windows /\ UNCHANGED commit
        BY <1>2 DEF Scripts, EstablishHistorical, EstablishReplacement, RecordCost, Begin, AppendRow,
                    LoadRegistry, WriteReceipt, Stops, DiesInWrite, repo
    <2> QED BY <1>1, <1>a, <2>1 DEF WindowTypes
<1>3. CASE Commit \/ Discard \/ ReplacementRuns \/ (\E phase \in Phases : ArtifactExpires(phase))
    <2>1. UNCHANGED windows /\ commit' \in {commit, commit + 1}
        BY <1>3 DEF Commit, Discard, ReplacementRuns, ArtifactExpires, repo
    <2> QED BY <1>1, <1>a, <2>1 DEF WindowTypes
<1>4. CASE GenesisExpires
    <2>1. /\ UNCHANGED <<commit, freeze, built, published>>
          /\ gone < Len(published) /\ gone' = gone + 1
        BY <1>4 DEF GenesisExpires, repo
    <2>2. WindowTypes'
        BY <1>a, <2>1, LineParts DEF WindowTypes, OneBuilder, Bundle, LineFacts
    <2>3. Line' = Line /\ gone <= gone' /\ Len(Line) \in Nat
        BY <1>a, <2>1, LineParts DEF Line, WindowTypes, LineFacts
    <2> QED BY <2>2, <2>3, ChainShortens DEF Shortens
<1>5. ASSUME NEW state \in {"consumed", "broken"}, WindowEnds(state)
      PROVE  WindowInv'
    <2>1. PICK i \in (gone + 1)..Len(published) :
              published' = [published EXCEPT ![i].state = state]
        BY <1>5 DEF WindowEnds
    <2>2. UNCHANGED <<commit, freeze, built, gone>>
        BY <1>5 DEF WindowEnds, repo
    <2>3. i \in DOMAIN published /\ DOMAIN published = 1..Len(published) /\ Len(published) \in Nat
        BY <1>a, <2>1, LineParts DEF WindowTypes, LineFacts
    <2>4. PICK S : published \in Seq(S)
        BY <1>a DEF WindowTypes
    <2> DEFINE v == [published[i] EXCEPT !.state = state]
    <2>5. published' = [published EXCEPT ![i] = v]
        BY <2>1
    <2>6. /\ published' \in Seq(S \cup {v}) /\ Len(published') = Len(published)
          /\ \A j \in DOMAIN published : published'[j] = IF j = i THEN v ELSE published[j]
        BY <2>3, <2>4, <2>5
    <2>7. /\ v.id = published[i].id /\ v.supersedes = published[i].supersedes
          /\ v = [id |-> v.id, source |-> v.source, supersedes |-> v.supersedes, rows |-> v.rows,
                  verified |-> v.verified, state |-> v.state]
        BY <1>a, <2>3 DEF WindowTypes, Bundle
    <2>8. \A j \in DOMAIN published' : Bundle(published[j])'
        <3>1. TAKE j \in DOMAIN published'
        <3>2. j \in DOMAIN published
            BY <2>3, <2>6
        <3>3. published'[j] = v \/ published'[j] = published[j]
            BY <2>6, <3>2
        <3>4. Bundle(published[i]) /\ Bundle(published[j])
            BY <1>a, <2>3, <3>2 DEF WindowTypes
        <3>5. Bundle(v)
            BY <2>7, <3>4 DEF Bundle
        <3> HIDE DEF v
        <3>6. Bundle(published'[j])
            BY <3>3, <3>4, <3>5
        <3> QED BY <2>2, <3>6 DEF Bundle
    <2>9. WindowTypes'
        BY <1>a, <2>2, <2>6, <2>8 DEF WindowTypes, OneBuilder, Bundle
    <2>10. /\ Len(Line') = Len(Line)
           /\ \A j \in 1..Len(Line') : /\ Line'[j].id = Line[j].id
                                       /\ Line'[j].supersedes = Line[j].supersedes
        <3>1. /\ built = NoWindow => Line = published
              /\ built # NoWindow => /\ Len(Line) = Len(published) + 1
                                     /\ Line[Len(published) + 1] = built
              /\ \A j \in 1..Len(published) : Line[j] = published[j]
            BY <1>a, LineParts DEF LineFacts
        <3>2. /\ built' = NoWindow => Line' = published'
              /\ built' # NoWindow => /\ Len(Line') = Len(published') + 1
                                     /\ Line'[Len(published') + 1] = built'
              /\ \A j \in 1..Len(published') : Line'[j] = published'[j]
            BY <2>9, NextLineParts DEF LineFacts
        <3>3. PICK n \in Nat : n = Len(published)
            BY <2>3
        <3>4. \A j \in 1..n : /\ Line'[j].id = Line[j].id
                              /\ Line'[j].supersedes = Line[j].supersedes
            <4>1. TAKE j \in 1..n
            <4>2. Line[j] = published[j] /\ Line'[j] = published'[j]
                BY <2>6, <3>1, <3>2, <3>3
            <4>3. published'[j] = published[j] \/ (j = i /\ published'[j] = v)
                BY <2>3, <2>6, <3>3
            <4> QED BY <2>7, <4>2, <4>3
        <3>5. CASE built = NoWindow
            <4>1. Len(Line') = n /\ Len(Line) = n
                BY <2>2, <2>6, <3>1, <3>2, <3>3, <3>5
            <4> QED BY <3>4, <4>1
        <3>6. CASE built # NoWindow
            <4>1. Len(Line') = n + 1 /\ Len(Line) = n + 1 /\ Line'[n + 1] = Line[n + 1]
                BY <2>2, <2>6, <3>1, <3>2, <3>3, <3>6
            <4>2. \A j \in 1..(n + 1) : j \in 1..n \/ j = n + 1
                OBVIOUS
            <4> QED BY <3>4, <4>1, <4>2
        <3> QED BY <3>5, <3>6
    <2> QED BY <1>a, <2>2, <2>9, <2>10, LineParts, ChainShortens DEF Shortens, WindowTypes, LineFacts
<1>6. ASSUME NEW f \in Freezes, NEW s \in Freezes \cup {NoId}, Dispatch(f, s)
      PROVE  WindowInv'
    <2>1. /\ freeze[f].pc = "none"
          /\ freeze' = [freeze EXCEPT ![f] = [pc |-> "queued", source |-> commit, supersedes |-> s]]
          /\ UNCHANGED <<commit, built, published, gone>>
        BY <1>6 DEF Dispatch, repo
    <2>2. \A w : Bundle(w) => Bundle(w)'
        BY <1>a, <2>1 DEF WindowTypes, Bundle
    <2>3. OneBuilder'
        BY <1>a, <2>1 DEF WindowTypes, OneBuilder
    <2>4. WindowTypes'
        BY <1>a, <2>1, <2>2, <2>3 DEF WindowTypes, Bundle
    <2> QED BY <1>a, <2>1, <2>4, LineParts, ChainShortens DEF Shortens, Line, WindowTypes, LineFacts
<1>7. ASSUME NEW f \in Freezes, Rerun(f)
      PROVE  WindowInv'
    <2>1. /\ freeze[f].pc = "done"
          /\ freeze' = [freeze EXCEPT ![f].pc = "queued"]
          /\ UNCHANGED <<commit, built, published, gone>>
        BY <1>7 DEF Rerun, repo
    <2>2. OneBuilder'
        BY <1>a, <2>1 DEF WindowTypes, OneBuilder
    <2>2a. \A w : Bundle(w) => Bundle(w)'
        BY <1>a, <2>1 DEF WindowTypes, Bundle
    <2>3. WindowTypes'
        BY <1>a, <2>1, <2>2, <2>2a DEF WindowTypes
    <2> QED BY <1>a, <2>1, <2>3, LineParts, ChainShortens DEF Shortens, Line, WindowTypes, LineFacts
<1>8. ASSUME NEW f \in Freezes, Upload(f)
      PROVE  WindowInv'
    <2>1. /\ freeze[f].pc = "built"
          /\ freeze' = [freeze EXCEPT ![f].pc = "done"]
          /\ built' = NoWindow /\ published' = Append(published, built)
          /\ UNCHANGED <<commit, gone>>
        BY <1>8 DEF Upload, repo
    <2>2. built # NoWindow /\ published' = Line /\ Line' = Line
        BY <1>a, <2>1 DEF WindowTypes, OneBuilder, Line
    <2>3. OneBuilder'
        BY <1>a, <2>1 DEF WindowTypes, OneBuilder
    <2>4. /\ \E S : published' \in Seq(S)
          /\ gone \in 0..Len(published')
          /\ \A i \in DOMAIN published' : Bundle(published'[i])
        BY <1>a, <2>2, LineParts DEF WindowTypes, LineFacts
    <2>5. \A i \in DOMAIN published' : Bundle(published[i])'
        BY <1>a, <2>1, <2>4 DEF WindowTypes, Bundle
    <2>6. WindowTypes'
        BY <1>a, <2>1, <2>3, <2>4, <2>5 DEF WindowTypes
    <2> QED BY <1>a, <2>1, <2>2, <2>6, LineParts, ChainShortens DEF Shortens, WindowTypes, LineFacts
<1>9. ASSUME NEW f \in Freezes, EndsWithout(f)
      PROVE  WindowInv'
    <2>1. /\ freeze[f].pc \in {"queued", "built"}
          /\ freeze' = [freeze EXCEPT ![f].pc = "done"]
          /\ built' = IF freeze[f].pc = "built" THEN NoWindow ELSE built
          /\ UNCHANGED <<commit, gone, published>>
        BY <1>9 DEF EndsWithout, repo
    <2>2. OneBuilder'
        BY <1>a, <2>1 DEF WindowTypes, OneBuilder
    <2>3. WindowTypes'
        BY <1>a, <2>1, <2>2 DEF WindowTypes, Bundle
    <2>4. Line' = Line \/ Line' = published
        BY <2>1 DEF Line
    <2> QED BY <1>a, <2>1, <2>3, <2>4, LineParts, ChainShortens DEF Shortens, WindowTypes, LineFacts
<1>10. CASE UNCHANGED vars
    BY <1>1, <1>10, <1>a DEF vars, windows, repo, WindowTypes
<1> QED
    BY <1>2, <1>3, <1>4, <1>5, <1>6, <1>7, <1>8, <1>9, <1>10, FreezeChains
    DEF Next, Platform, Workflow

\* A chain has one tip, and no window of it is superseded or published twice.
LEMMA ChainHasOneTip == WindowInv => OneTip
<1> SUFFICES ASSUME WindowInv PROVE OneTip
    OBVIOUS
<1> DEFINE n == Len(published)
<1>1. /\ n \in Nat /\ gone \in 0..n /\ n <= Len(Line) /\ Len(Line) \in Nat
      /\ DOMAIN published = 1..n
      /\ \A i \in 1..n : Line[i] = published[i]
      /\ \A i \in 1..n : published[i].id \in Freezes
    BY LineParts DEF WindowInv, WindowTypes, Bundle, LineFacts
<1> DEFINE here == (gone + 1)..n
<1>2. /\ \A i \in here : i + 1 \in here => published[i + 1].supersedes = published[i].id
      /\ \A i, j \in here : i # j => published[i].id # published[j].id
      /\ \A i, j \in here : i <= j => published[j].id # published[i].supersedes
    <2>1. \A i \in here : i \in Live /\ Line[i] = published[i]
        BY <1>1 DEF Live
    <2> QED BY <2>1 DEF WindowInv, ChainInv
<1>3. \A i, j \in here : i < j => published[i].supersedes # published[j].supersedes
    <2>1. TAKE i, j \in here
    <2>2. HAVE i < j
    <2>3. j - 1 \in here /\ (j - 1) + 1 = j /\ i <= j - 1
        BY <1>1, <2>2
    <2>4. published[j].supersedes = published[j - 1].id
        BY <1>2, <2>3
    <2> QED BY <1>2, <2>3, <2>4
<1>4. Tips \subseteq {published[n]}
    <2>1. SUFFICES ASSUME NEW w \in Tips PROVE w = published[n]
        OBVIOUS
    <2>2. PICK i \in here : w = published[i]
        BY DEF Tips, Discovered
    <2>3. i + 1 \notin here
        <3>1. ASSUME i + 1 \in here PROVE FALSE
            <4>1. published[i + 1] \in Discovered
                BY <3>1 DEF Discovered
            <4> QED BY <1>2, <2>2, <3>1, <4>1 DEF Tips
        <3> QED BY <3>1
    <2> QED BY <1>1, <2>2, <2>3
<1>5. Cardinality(Tips) <= 1
    <2>1. IsFiniteSet({published[n]}) /\ Cardinality({published[n]}) = 1
        BY FS_Singleton
    <2> QED BY <1>4, <2>1, FS_Subset
<1> QED BY <1>1, <1>2, <1>3, <1>5 DEF OneTip

\* Over any number of dispatches, re-runs, commits, lost uploads and expiries
\* the windows never fork.
THEOREM WindowsNeverFork == Spec => []OneTip
BY WindowInit, WindowNext, ChainHasOneTip, PTL DEF Spec

----------------------------------------------------------------------------
\* The two files and the scripts that write them.

\* What is left to append from an event on, and what a script may still have
\* to append to the ledger.
Rest ==
    <<Historical, <<History[2], History[3], History[4]>>, <<History[3], History[4]>>,
      <<History[4]>>, Replacement, <<History[6]>>>>
RowPlans == {<<>>, <<"probe">>, <<"gate_1", "gate_2">>, <<"gate_2">>}
GateRows == {"gate_1", "gate_2"}

\* Every line is the event that follows as many as its writer had loaded, and
\* rows are in the ledger before the receipts that vouch for them, unless the
\* ledger cannot be read.
Written(f) ==
    /\ \A i \in DOMAIN f.receipts : /\ f.receipts[i].prev \in 0..5
                                    /\ f.receipts[i].fact = History[f.receipts[i].prev + 1]
    /\ f.receipts # <<>> => f.rows["probe"] >= 1
    /\ (\E i \in DOMAIN f.receipts : f.receipts[i].prev >= 4) =>
          f.tail = "torn" \/ \A r \in GateRows : f.rows[r] >= 1

\* A shell about to append event j: as many lines are there already, however
\* others raced it, and it knows how many when it has loaded.
At(p, j) ==
    /\ work[p].facts = Rest[j]
    /\ Len(tree.receipts) >= j - 1
    /\ work[p].base \in {-1, j - 1}
    /\ tree.rows["probe"] >= 1
    /\ j >= 5 => \/ tree.tail = "torn"
                 \/ \A r \in GateRows : tree.rows[r] >= 1 \/ r \in Range(work[p].rows)

Planned(p) ==
    /\ work[p].base # -1 => work[p].rows = <<>> /\ work[p].facts # <<>>
    /\ work[p].facts # <<>> => \E j \in 1..6 : At(p, j)

\* The shells that still have a row to append: with what is recorded they are
\* never more than there are shells.
Pending(r) == {p \in Procs : r \in Range(work[p].rows)}

WorkTypes ==
    work \in [Procs -> [rows : RowPlans, facts : {<<>>} \cup Range(Rest), base : -1..5]]

FilesInv ==
    /\ {tree, head} \subseteq Files
    /\ Written(tree) /\ Written(head)
    /\ WorkTypes
    /\ \A p \in Procs : Planned(p)
    /\ \A r \in Rows : /\ tree.rows[r] + Cardinality(Pending(r)) <= Cardinality(Procs)
                       /\ head.rows[r] <= Cardinality(Procs)

----------------------------------------------------------------------------
\* Facts about the events and the rows.

LEMMA Events ==
    /\ Len(History) = 6 /\ DOMAIN History = 1..6
    /\ History[1] = <<"MARKER", "P5C_PROBE">> /\ History[2] = <<"PROBE_EVIDENCE", "P5C_PROBE">>
    /\ History[3] = <<"MARKER", "P5D_ORIGINAL">> /\ History[4] = <<"DISPOSITION", "P5D_ORIGINAL">>
    /\ History[5] = <<"MARKER", "P5D_REPLACEMENT">>
    /\ History[6] = <<"GATE_EVIDENCE", "P5D_REPLACEMENT">>
    /\ \A j \in 1..6 : History[j] \in Range(History)
<1>1. /\ Len(History) = 6 /\ DOMAIN History = 1..6
      /\ History[1] = <<"MARKER", "P5C_PROBE">> /\ History[2] = <<"PROBE_EVIDENCE", "P5C_PROBE">>
      /\ History[3] = <<"MARKER", "P5D_ORIGINAL">> /\ History[4] = <<"DISPOSITION", "P5D_ORIGINAL">>
      /\ History[5] = <<"MARKER", "P5D_REPLACEMENT">>
      /\ History[6] = <<"GATE_EVIDENCE", "P5D_REPLACEMENT">>
    BY DEF History, Historical, Replacement
<1> QED BY <1>1 DEF Range

LEMMA EventsDiffer == \A i, j \in 1..6 : History[i] = History[j] => i = j
<1>1. \A i \in 1..6 : i \in {1, 2, 3, 4, 5, 6}
    OBVIOUS
<1> QED BY <1>1, Events

LEMMA RestFacts ==
    /\ \A j \in 1..6 : /\ Rest[j] # <<>> /\ Head(Rest[j]) = History[j]
                       /\ Rest[j] \in Range(Rest)
                       /\ Rest[j] = Historical => j = 1
                       /\ Tail(Rest[j]) = IF j \in {4, 6} THEN <<>> ELSE Rest[j + 1]
    /\ Rest[1] = Historical /\ Rest[5] = Replacement
<1>1. Rest[1] = Historical /\ Rest[5] = Replacement
    BY DEF Rest
<1>2. /\ Rest[2] = <<History[2], History[3], History[4]>> /\ Rest[3] = <<History[3], History[4]>>
      /\ Rest[4] = <<History[4]>> /\ Rest[6] = <<History[6]>>
      /\ Rest[1] = <<History[1], History[2], History[3], History[4]>>
      /\ Rest[5] = <<History[5], History[6]>>
    BY Events DEF Rest, Historical, Replacement
<1>2a. \A a, b, c, d :
         /\ Head(<<a, b, c, d>>) = a /\ Tail(<<a, b, c, d>>) = <<b, c, d>>
         /\ Head(<<a, b, c>>) = a /\ Tail(<<a, b, c>>) = <<b, c>>
         /\ Head(<<a, b>>) = a /\ Tail(<<a, b>>) = <<b>>
         /\ Head(<<a>>) = a /\ Tail(<<a>>) = <<>>
         /\ <<a, b, c, d>> # <<>> /\ <<a, b, c>> # <<>> /\ <<a, b>> # <<>> /\ <<a>> # <<>>
    OBVIOUS
<1>3. \A j \in 1..6 : j \in {1, 2, 3, 4, 5, 6}
    OBVIOUS
<1>4. \A j \in 1..6 : Rest[j] # <<>> /\ Head(Rest[j]) = History[j]
    BY <1>2, <1>2a, <1>3
<1>5. \A j \in 1..6 : Tail(Rest[j]) = IF j \in {4, 6} THEN <<>> ELSE Rest[j + 1]
    <2>1. /\ Tail(Rest[1]) = Rest[2] /\ Tail(Rest[2]) = Rest[3] /\ Tail(Rest[3]) = Rest[4]
          /\ Tail(Rest[4]) = <<>> /\ Tail(Rest[5]) = Rest[6] /\ Tail(Rest[6]) = <<>>
        BY <1>2, <1>2a
    <2>2. 1 + 1 = 2 /\ 2 + 1 = 3 /\ 3 + 1 = 4 /\ 5 + 1 = 6
        OBVIOUS
    <2> QED BY <1>3, <2>1, <2>2
<1>6. \A j \in 1..6 : Rest[j] \in Range(Rest)
    <2>1. DOMAIN Rest = 1..6
        BY DEF Rest
    <2> QED BY <2>1 DEF Range
<1>7. \A j \in 1..6 : Rest[j] = Historical => j = 1
    BY <1>1, <1>4, EventsDiffer
<1> QED BY <1>1, <1>4, <1>5, <1>6, <1>7

LEMMA PlanFacts ==
    /\ Rows = {"probe", "gate_1", "gate_2"}
    /\ Range(RowsOf["PROBE"]) = {"probe"} /\ Range(RowsOf["GATE"]) = GateRows
    /\ Range(<<>>) = {}
    /\ \A plan \in RowPlans : Range(plan) \subseteq Rows
    /\ \A plan \in RowPlans \ {<<>>} :
          /\ Head(plan) \in Rows /\ Tail(plan) \in RowPlans
          /\ Head(plan) \in Range(plan) /\ Range(Tail(plan)) = Range(plan) \ {Head(plan)}
<1>1. Range(<<"probe">>) = {"probe"} /\ Range(<<"gate_1", "gate_2">>) = GateRows /\ Range(<<"gate_2">>) = {"gate_2"}
    BY DEF Range, GateRows
<1>2. RowsOf["PROBE"] = <<"probe">> /\ RowsOf["GATE"] = <<"gate_1", "gate_2">>
    BY DEF RowsOf, Phases
<1>3. Rows = {"probe", "gate_1", "gate_2"}
    BY <1>1, <1>2 DEF Rows, Phases, GateRows
<1>4. Range(<<>>) = {}
    BY DEF Range
<1>5. \A plan \in RowPlans : Range(plan) \subseteq Rows
    BY <1>1, <1>3, <1>4 DEF RowPlans, GateRows
<1>6. Tail(<<"probe">>) = <<>> /\ Tail(<<"gate_2">>) = <<>> /\ Tail(<<"gate_1", "gate_2">>) = <<"gate_2">>
    OBVIOUS
<1>7. Head(<<"probe">>) = "probe" /\ Head(<<"gate_2">>) = "gate_2" /\ Head(<<"gate_1", "gate_2">>) = "gate_1"
    OBVIOUS
<1>8. ASSUME NEW plan \in RowPlans \ {<<>>}
      PROVE  /\ Head(plan) \in Rows /\ Tail(plan) \in RowPlans
             /\ Head(plan) \in Range(plan) /\ Range(Tail(plan)) = Range(plan) \ {Head(plan)}
    <2>1. plan \in {<<"probe">>, <<"gate_1", "gate_2">>, <<"gate_2">>}
        BY <1>8 DEF RowPlans
    <2> QED BY <1>1, <1>3, <1>4, <1>6, <1>7, <2>1 DEF RowPlans, GateRows
<1> QED BY <1>1, <1>2, <1>3, <1>4, <1>5, <1>8

\* What a file holds.
LEMMA FileTypes ==
    ASSUME NEW f \in Files
    PROVE  /\ f.receipts \in Seq([fact : Range(History), prev : 0..(2 * Len(History))])
           /\ DOMAIN f.receipts = 1..Len(f.receipts) /\ Len(f.receipts) \in Nat
           /\ f.torn \in BOOLEAN /\ f.tail \in {"whole", "bare", "torn"}
           /\ f.rows \in [Rows -> 0..(2 * Cardinality(Procs))]
           /\ \A r \in Rows : f.rows[r] \in Nat
           /\ f = [receipts |-> f.receipts, torn |-> f.torn, rows |-> f.rows, tail |-> f.tail]
<1>1. /\ f.receipts \in Seq([fact : Range(History), prev : 0..(2 * Len(History))])
      /\ f.torn \in BOOLEAN /\ f.tail \in {"whole", "bare", "torn"}
      /\ f.rows \in [Rows -> 0..(2 * Cardinality(Procs))]
      /\ f = [receipts |-> f.receipts, torn |-> f.torn, rows |-> f.rows, tail |-> f.tail]
    BY DEF Files
<1>2. \A n \in 0..(2 * Cardinality(Procs)) : n \in Nat
    OBVIOUS
<1> QED BY <1>1, <1>2

LEMMA UpToSix ==
    /\ \A n \in Nat : n <= 6 => n \in 0..6
    /\ \A n \in 0..6 : \A i \in 1..n : i \in 1..6 /\ i <= 6
OBVIOUS

\* A registry that reads is the history up to some event.
LEMMA ReadableIsHistory ==
    ASSUME NEW f \in Files, Written(f), Readable(f)
    PROVE  /\ Len(f.receipts) \in 0..6
           /\ \A i \in DOMAIN f.receipts : f.receipts[i].prev = i - 1 /\ f.receipts[i].fact = History[i]
           /\ \A e : e \in Established(f) <=> \E i \in 1..Len(f.receipts) : e = History[i]
<1>1. DOMAIN f.receipts = 1..Len(f.receipts) /\ Len(f.receipts) \in Nat
    BY FileTypes
<1>2. ASSUME NEW i \in DOMAIN f.receipts
      PROVE  i <= 6 /\ f.receipts[i].prev = i - 1 /\ f.receipts[i].fact = History[i]
    <2>1. f.receipts[i].prev = i - 1 /\ i \in Nat
        BY <1>1 DEF Readable
    <2>2. i - 1 \in 0..5 /\ f.receipts[i].fact = History[(i - 1) + 1]
        BY <2>1 DEF Written
    <2>3. (i - 1) + 1 = i
        BY <2>1
    <2> QED BY <2>1, <2>2, <2>3
<1>3. Len(f.receipts) <= 6
    <2>1. PICK n \in Nat : n = Len(f.receipts) /\ DOMAIN f.receipts = 1..n
        BY <1>1
    <2>2. n # 0 => n \in 1..n
        BY <2>1
    <2>3. n # 0 => n <= 6
        BY <1>2, <2>1, <2>2
    <2> QED BY <2>1, <2>3
<1>4. \A e : e \in Established(f) <=> \E i \in DOMAIN f.receipts : e = f.receipts[i].fact
    BY DEF Established
<1>5. \A e : e \in Established(f) <=> \E i \in 1..Len(f.receipts) : e = History[i]
    BY <1>1, <1>2, <1>4
<1>6. Len(f.receipts) \in 0..6
    BY <1>1, <1>3, UpToSix
<1> QED BY <1>2, <1>5, <1>6

\* A shell that loads the registry finds exactly what precedes its event.
LEMMA LoadsInOrder ==
    ASSUME FilesInv, NEW p \in Procs, LoadRegistry(p)
    PROVE  \E j \in 1..6 : At(p, j) /\ Len(tree.receipts) = j - 1
<1>1. PICK j \in 1..6 : At(p, j)
    BY DEF LoadRegistry, FilesInv, Planned
<1>2. /\ work[p].facts = Rest[j] /\ Head(work[p].facts) = History[j]
      /\ Len(tree.receipts) >= j - 1 /\ Len(tree.receipts) \in Nat
    BY <1>1, RestFacts, FileTypes DEF At, FilesInv
<1>3. CASE Readable(tree)
    <2>1. \A i \in 1..Len(tree.receipts) : History[j] # History[i]
        BY <1>2, <1>3, ReadableIsHistory DEF LoadRegistry, FilesInv
    <2>2. ~(j <= Len(tree.receipts))
        BY <1>2, <2>1
    <2> QED BY <1>1, <1>2, <2>2
<1>4. CASE Absent(tree) /\ work[p].facts = Historical
    <2>1. j = 1
        BY <1>2, <1>4, RestFacts
    <2>2. Len(tree.receipts) = 0
        BY <1>4 DEF Absent
    <2> QED BY <1>1, <2>1, <2>2
<1> QED BY <1>3, <1>4 DEF LoadRegistry

----------------------------------------------------------------------------
\* Steps of the scripts.

\* The files grow while scripts run.
Grew ==
    /\ Len(tree.receipts) <= Len(tree'.receipts)
    /\ \A r \in Rows : tree.rows[r] <= tree'.rows[r]
    /\ tree.tail = "torn" => tree'.tail = "torn"

LEMMA PlannedStays ==
    ASSUME FilesInv, tree' \in Files, Grew, NEW q \in Procs, work'[q] = work[q]
    PROVE  Planned(q)'
<1>1. CASE work[q].facts = <<>>
    BY <1>1 DEF FilesInv, Planned
<1>2. CASE work[q].facts # <<>>
    <2>1. PICK j \in 1..6 : At(q, j)
        BY <1>2 DEF FilesInv, Planned
    <2>2. /\ \A r \in Rows : tree.rows[r] \in Nat /\ tree'.rows[r] \in Nat
          /\ Len(tree.receipts) \in Nat /\ Len(tree'.receipts) \in Nat
        BY FileTypes DEF FilesInv
    <2>3. "probe" \in Rows /\ \A r \in GateRows : r \in Rows
        BY PlanFacts DEF GateRows
    <2>4. Len(tree'.receipts) >= j - 1 /\ tree'.rows["probe"] >= 1
        BY <2>1, <2>2, <2>3 DEF At, Grew
    <2>5. j >= 5 => \/ tree'.tail = "torn"
                    \/ \A r \in GateRows : tree'.rows[r] >= 1 \/ r \in Range(work[q].rows)
        BY <2>1, <2>2, <2>3 DEF At, Grew
    <2>6. At(q, j)'
        BY <2>1, <2>4, <2>5 DEF At
    <2> QED BY <2>6 DEF FilesInv, Planned
<1> QED BY <1>1, <1>2

LEMMA PendingShrinks ==
    ASSUME WorkTypes, NEW r, \A q \in Procs : r \in Range(work'[q].rows) => r \in Range(work[q].rows)
    PROVE  /\ Cardinality(Pending(r)') <= Cardinality(Pending(r))
           /\ Cardinality(Pending(r)) \in Nat /\ Cardinality(Pending(r)') \in Nat
           /\ Cardinality(Procs) \in Nat
<1>1. Pending(r)' \subseteq Pending(r) /\ Pending(r) \subseteq Procs
    BY DEF Pending
<1>2. IsFiniteSet(Procs)
    BY ControlAssumption
<1>3. IsFiniteSet(Pending(r)) /\ IsFiniteSet(Pending(r)')
    BY <1>1, <1>2, FS_Subset
<1> QED BY <1>1, <1>2, <1>3, FS_Subset, FS_CardinalityType

\* A script starts: nothing it will record is recorded.
LEMMA BeginKeeps ==
    ASSUME FilesInv, NEW p \in Procs, NEW plan \in RowPlans, NEW facts \in {<<>>} \cup Range(Rest),
           Begin(p, plan, facts), work[p] = Idle, \A r \in Range(plan) : tree.rows[r] = 0,
           facts # <<>> => \E j \in 1..6 :
               /\ facts = Rest[j] /\ Len(tree.receipts) >= j - 1 /\ tree.rows["probe"] >= 1
               /\ j >= 5 => \A r \in GateRows : tree.rows[r] >= 1 \/ r \in Range(plan)
    PROVE  FilesInv'
<1>1. /\ UNCHANGED <<tree, head>>
      /\ work' = [work EXCEPT ![p] = [rows |-> plan, facts |-> facts, base |-> -1]]
    BY DEF Begin, repo
<1>2. WorkTypes' /\ work'[p] = [rows |-> plan, facts |-> facts, base |-> -1]
      /\ \A q \in Procs : q # p => work'[q] = work[q]
    BY <1>1 DEF FilesInv, WorkTypes
<1>3. \A q \in Procs : Planned(q)'
    <2>1. Planned(p)'
        <3>1. CASE facts = <<>>
            BY <1>2, <3>1 DEF Planned
        <3>2. CASE facts # <<>>
            <4>1. PICK j \in 1..6 :
                     /\ facts = Rest[j] /\ Len(tree.receipts) >= j - 1 /\ tree.rows["probe"] >= 1
                     /\ j >= 5 => \A r \in GateRows : tree.rows[r] >= 1 \/ r \in Range(plan)
                BY <3>2
            <4>2. At(p, j)'
                BY <1>1, <1>2, <4>1 DEF At
            <4> QED BY <1>2, <4>2 DEF Planned
        <3> QED BY <3>1, <3>2
    <2>2. Grew
        BY <1>1, FileTypes DEF Grew, FilesInv
    <2> QED BY <1>1, <1>2, <2>1, <2>2, PlannedStays DEF FilesInv
<1>4. \A r \in Rows : /\ tree'.rows[r] + Cardinality(Pending(r)') <= Cardinality(Procs)
                      /\ head'.rows[r] <= Cardinality(Procs)
    <2>1. TAKE r \in Rows
    <2>2. tree.rows[r] + Cardinality(Pending(r)) <= Cardinality(Procs) /\ tree.rows[r] \in Nat
        BY FileTypes DEF FilesInv
    <2>3. CASE r \in Range(plan)
        <3>1. IsFiniteSet(Procs) /\ Pending(r)' \subseteq Procs
            BY ControlAssumption DEF Pending
        <3>2. Cardinality(Pending(r)') <= Cardinality(Procs) /\ IsFiniteSet(Pending(r)')
            BY <3>1, FS_Subset
        <3>3. Cardinality(Pending(r)') \in Nat
            BY <3>2, FS_CardinalityType
        <3> QED BY <1>1, <2>3, <3>2, <3>3 DEF FilesInv
    <2>4. CASE r \notin Range(plan)
        <3>1. \A q \in Procs : r \in Range(work'[q].rows) => r \in Range(work[q].rows)
            BY <1>2, <2>4
        <3> QED BY <1>1, <2>2, <3>1, PendingShrinks DEF FilesInv
    <2> QED BY <2>3, <2>4
<1> QED BY <1>1, <1>2, <1>3, <1>4 DEF FilesInv, Written

\* What a script may begin with satisfies it.
LEMMA BeginScripts ==
    ASSUME FilesInv, NEW p \in Procs,
           \/ EstablishHistorical(p) \/ EstablishReplacement(p)
           \/ \E phase \in Phases : RecordCost(p, phase)
    PROVE  FilesInv'
<1>1. <<>> \in RowPlans /\ RowsOf["GATE"] \in RowPlans /\ RowsOf["PROBE"] \in RowPlans
    BY DEF RowPlans, RowsOf, Phases
<1>2. "PROBE" \in Phases /\ "GATE" \in Phases
    BY DEF Phases
<1>3. Len(tree.receipts) \in Nat
    BY FileTypes DEF FilesInv
<1>4. CASE EstablishHistorical(p)
    <2>1. Begin(p, <<>>, Historical) /\ work[p] = Idle /\ tree.rows["probe"] >= 1
        <3>1. tree.rows["probe"] = 1
            BY <1>4, PlanFacts DEF EstablishHistorical, HistoricalVerified, Recorded
        <3> QED BY <1>4, <3>1 DEF EstablishHistorical, Free
    <2>2. /\ Historical = Rest[1] /\ Len(tree.receipts) >= 1 - 1 /\ 1 \in 1..6 /\ ~(1 >= 5)
          /\ Historical \in Range(Rest)
        BY <1>3, RestFacts
    <2> QED BY <1>1, <2>1, <2>2, BeginKeeps, PlanFacts
<1>5. CASE EstablishReplacement(p)
    <2>1. Readable(tree) /\ Established(tree) = Range(Historical) /\ work[p] = Idle
        BY <1>5 DEF EstablishReplacement, Free
    <2>2. Len(tree.receipts) >= 4
        <3>1. History[4] \in Established(tree)
            <4>1. History[4] = Historical[4] /\ 4 \in DOMAIN Historical
                BY Events DEF Historical
            <4> QED BY <2>1, <4>1 DEF Range
        <3>2. PICK i \in 1..Len(tree.receipts) : History[4] = History[i]
            BY <2>1, <3>1, ReadableIsHistory DEF FilesInv
        <3>3. i \in 1..6
            <4>1. Len(tree.receipts) \in 0..6
                BY <2>1, ReadableIsHistory DEF FilesInv
            <4> QED BY <3>2, <4>1, UpToSix
        <3>4. i = 4
            BY <3>2, <3>3, EventsDiffer
        <3> QED BY <1>3, <3>2, <3>4
    <2>3. tree.rows["probe"] >= 1
        <3>1. tree.receipts # <<>>
            BY <2>2
        <3> QED BY <3>1 DEF FilesInv, Written
    <2>4. /\ Replacement = Rest[5] /\ Len(tree.receipts) >= 5 - 1 /\ 5 \in 1..6
          /\ Replacement \in Range(Rest)
        BY <1>3, <2>2, RestFacts
    <2>5. CASE Recorded(tree, "GATE") /\ Begin(p, <<>>, Replacement)
        <3>1. \A r \in GateRows : tree.rows[r] >= 1
            BY <2>5, PlanFacts DEF Recorded
        <3> QED BY <1>1, <2>1, <2>3, <2>4, <2>5, <3>1, BeginKeeps, PlanFacts
    <2>6. CASE Unrecorded(tree, "GATE") /\ Begin(p, RowsOf["GATE"], Replacement)
        <3>1. /\ \A r \in GateRows : r \in Range(RowsOf["GATE"])
              /\ \A r \in Range(RowsOf["GATE"]) : tree.rows[r] = 0
            BY <2>6, PlanFacts DEF Unrecorded
        <3> QED BY <1>1, <2>1, <2>3, <2>4, <2>6, <3>1, BeginKeeps
    <2> QED BY <1>5, <2>5, <2>6 DEF EstablishReplacement
<1>6. ASSUME NEW phase \in Phases, RecordCost(p, phase) PROVE FilesInv'
    <2>1. /\ Begin(p, RowsOf[phase], <<>>) /\ work[p] = Idle
          /\ \A r \in Range(RowsOf[phase]) : tree.rows[r] = 0
          /\ RowsOf[phase] \in RowPlans
        BY <1>1, <1>6 DEF RecordCost, Free, Unrecorded, Phases
    <2> QED BY <2>1, BeginKeeps
<1> QED BY <1>4, <1>5, <1>6

LEMMA IdleFacts ==
    /\ Idle \in [rows : RowPlans, facts : {<<>>} \cup Range(Rest), base : -1..5]
    /\ Idle.rows = <<>> /\ Idle.facts = <<>> /\ Idle.base = -1
BY DEF Idle, RowPlans

\* A shell stops, whatever it had done to the files.
LEMMA IdleKeeps ==
    ASSUME FilesInv, NEW p \in Procs, work' = [work EXCEPT ![p] = Idle], head' = head,
           tree' \in Files, Written(tree)', Grew,
           \A r \in Rows : tree'.rows[r] = tree.rows[r]
               \/ (tree'.rows[r] = tree.rows[r] + 1 /\ r \in Range(work[p].rows))
    PROVE  FilesInv'
<1>1. WorkTypes' /\ work'[p] = Idle /\ \A q \in Procs : q # p => work'[q] = work[q]
    BY IdleFacts DEF FilesInv, WorkTypes
<1>2. \A q \in Procs : Planned(q)'
    <2>1. Planned(p)'
        BY <1>1, IdleFacts DEF Planned
    <2> QED BY <1>1, <2>1, PlannedStays
<1>3. ASSUME NEW r \in Rows
      PROVE  tree'.rows[r] + Cardinality(Pending(r)') <= Cardinality(Procs)
    <2>0. Range(Idle.rows) = {}
        BY IdleFacts, PlanFacts
    <2>1. \A q \in Procs : r \in Range(work'[q].rows) => r \in Range(work[q].rows)
        BY <1>1, <2>0
    <2>2. /\ Cardinality(Pending(r)') <= Cardinality(Pending(r))
          /\ Cardinality(Pending(r)) \in Nat /\ Cardinality(Pending(r)') \in Nat
          /\ Cardinality(Procs) \in Nat
        BY <2>1, PendingShrinks DEF FilesInv
    <2>3. tree.rows[r] + Cardinality(Pending(r)) <= Cardinality(Procs) /\ tree.rows[r] \in Nat
        BY FileTypes DEF FilesInv
    <2>4. CASE tree'.rows[r] = tree.rows[r]
        BY <2>2, <2>3, <2>4
    <2>5. CASE tree'.rows[r] = tree.rows[r] + 1 /\ r \in Range(work[p].rows)
        <3>1. Pending(r)' \subseteq Pending(r) \ {p} /\ p \in Pending(r)
            BY <1>1, <2>0, <2>5 DEF Pending
        <3>2. IsFiniteSet(Pending(r))
            BY ControlAssumption, FS_Subset DEF Pending
        <3>3. Cardinality(Pending(r) \ {p}) = Cardinality(Pending(r)) - 1 /\ IsFiniteSet(Pending(r) \ {p})
            BY <3>1, <3>2, FS_RemoveElement
        <3>4. Cardinality(Pending(r)') <= Cardinality(Pending(r)) - 1
            BY <3>1, <3>3, FS_Subset
        <3> QED BY <2>2, <2>3, <2>5, <3>4
    <2> QED BY <2>4, <2>5
<1> QED BY <1>1, <1>2, <1>3 DEF FilesInv, Written

\* Recording a row on a ledger that is whole.
Bumped(h, tail) == tree' = [tree EXCEPT !.tail = tail, !.rows[h] = @ + 1]

LEMMA RowRecorded ==
    ASSUME FilesInv, NEW h \in Rows, NEW tail \in {"whole", "bare"},
           tree.rows[h] + 1 <= Cardinality(Procs), tree.tail = "whole",
           Bumped(h, tail)
    PROVE  /\ tree' \in Files /\ Written(tree)' /\ Grew
           /\ tree'.receipts = tree.receipts /\ tree'.tail = tail
           /\ \A r \in Rows : tree'.rows[r] = IF r = h THEN tree.rows[r] + 1 ELSE tree.rows[r]
<1>1. /\ tree = [receipts |-> tree.receipts, torn |-> tree.torn, rows |-> tree.rows, tail |-> tree.tail]
      /\ tree.rows \in [Rows -> 0..(2 * Cardinality(Procs))] /\ \A r \in Rows : tree.rows[r] \in Nat
      /\ Len(tree.receipts) \in Nat
    BY FileTypes DEF FilesInv
<1> DEFINE rows == [tree.rows EXCEPT ![h] = tree.rows[h] + 1]
<1>2. tree' = [receipts |-> tree.receipts, torn |-> tree.torn, rows |-> rows, tail |-> tail]
    <2>1. tree' = [tree EXCEPT !.tail = tail, !.rows = rows]
        BY DEF Bumped
    <2> HIDE DEF rows
    <2> QED BY <1>1, <2>1
<1>3. rows \in [Rows -> 0..(2 * Cardinality(Procs))]
    <2>1. Cardinality(Procs) \in Nat
        BY ControlAssumption, FS_CardinalityType
    <2>2. tree.rows[h] + 1 \in 0..(2 * Cardinality(Procs))
        BY <1>1, <2>1
    <2> QED BY <1>1, <2>2
<1>4. \A r \in Rows : rows[r] = IF r = h THEN tree.rows[r] + 1 ELSE tree.rows[r]
    BY <1>1
<1> HIDE DEF rows
<1>5. /\ tree'.receipts = tree.receipts /\ tree'.tail = tail /\ tree'.rows = rows /\ tree'.torn = tree.torn
      /\ \A r \in Rows : tree.rows[r] <= rows[r]
    BY <1>1, <1>2, <1>4
<1>6. tree' \in Files
    BY <1>2, <1>3 DEF FilesInv, Files
<1>7. Written(tree)'
    <2>1. "probe" \in Rows /\ \A r \in GateRows : r \in Rows
        BY PlanFacts DEF GateRows
    <2>2. \A r \in Rows : tree.rows[r] \in Nat /\ rows[r] \in Nat /\ tree.rows[r] <= rows[r]
        BY <1>1, <1>4
    <2>3. tree.rows["probe"] >= 1 => rows["probe"] >= 1
        BY <2>1, <2>2
    <2>4. \A r \in GateRows : tree.rows[r] >= 1 => rows[r] >= 1
        BY <2>1, <2>2
    <2> QED BY <1>5, <2>3, <2>4 DEF FilesInv, Written
<1>8. Grew
    BY <1>1, <1>5 DEF Grew
<1> QED BY <1>4, <1>5, <1>6, <1>7, <1>8

\* A ledger or a registry that no reader parses any more.
LEMMA FileTorn ==
    ASSUME FilesInv, tree' = [tree EXCEPT !.tail = "torn"] \/ tree' = [tree EXCEPT !.torn = TRUE]
    PROVE  /\ tree' \in Files /\ Written(tree)' /\ Grew
           /\ tree'.receipts = tree.receipts /\ tree'.rows = tree.rows
<1>1. /\ tree = [receipts |-> tree.receipts, torn |-> tree.torn, rows |-> tree.rows, tail |-> tree.tail]
      /\ \A r \in Rows : tree.rows[r] \in Nat
      /\ Len(tree.receipts) \in Nat
    BY FileTypes DEF FilesInv
<1>2. /\ tree'.receipts = tree.receipts /\ tree'.rows = tree.rows
      /\ tree'.tail \in {tree.tail, "torn"}
      /\ tree' \in Files
    BY <1>1 DEF FilesInv, Files
<1>3. Written(tree)'
    BY <1>2 DEF FilesInv, Written
<1> QED BY <1>1, <1>2, <1>3 DEF Grew

LEMMA AppendRowKeeps ==
    ASSUME FilesInv, NEW p \in Procs, AppendRow(p)
    PROVE  FilesInv'
<1> DEFINE plan == work[p].rows
           h == Head(plan)
<1>1. /\ plan \in RowPlans /\ plan # <<>> /\ h \in Rows /\ Tail(plan) \in RowPlans
      /\ h \in Range(plan) /\ Range(Tail(plan)) = Range(plan) \ {h}
    <2>1. plan \in RowPlans /\ plan # <<>>
        BY DEF AppendRow, FilesInv, WorkTypes
    <2> QED BY <2>1, PlanFacts
<1>2. /\ work' = [work EXCEPT ![p] = [work[p] EXCEPT !.rows = Tail(plan)]] /\ head' = head
      /\ work[p] \in [rows : RowPlans, facts : {<<>>} \cup Range(Rest), base : -1..5]
    BY DEF AppendRow, repo, FilesInv, WorkTypes
<1>3. /\ work'[p].rows = Tail(plan) /\ work'[p].facts = work[p].facts /\ work'[p].base = work[p].base
      /\ \A q \in Procs : q # p => work'[q] = work[q]
      /\ WorkTypes'
    BY <1>1, <1>2 DEF FilesInv, WorkTypes
<1>4. \A r \in Rows : /\ tree.rows[r] \in Nat
                      /\ tree.rows[r] + Cardinality(Pending(r)) <= Cardinality(Procs)
    BY FileTypes DEF FilesInv
<1>5. ASSUME NEW r \in Rows
      PROVE  /\ Cardinality(Pending(r)') <= Cardinality(Pending(r))
             /\ r = h => Cardinality(Pending(r)') <= Cardinality(Pending(r)) - 1
             /\ Cardinality(Pending(r)) \in Nat /\ Cardinality(Pending(r)') \in Nat
             /\ Cardinality(Procs) \in Nat
    <2>1. \A q \in Procs : r \in Range(work'[q].rows) => r \in Range(work[q].rows)
        BY <1>1, <1>3
    <2>2. /\ Cardinality(Pending(r)') <= Cardinality(Pending(r))
          /\ Cardinality(Pending(r)) \in Nat /\ Cardinality(Pending(r)') \in Nat
          /\ Cardinality(Procs) \in Nat
        BY <2>1, PendingShrinks DEF FilesInv
    <2>3. CASE r = h
        <3>1. Pending(r)' \subseteq Pending(r) \ {p} /\ p \in Pending(r)
            BY <1>1, <1>3, <2>1, <2>3 DEF Pending
        <3>2. IsFiniteSet(Pending(r))
            BY ControlAssumption, FS_Subset DEF Pending
        <3>3. Cardinality(Pending(r) \ {p}) = Cardinality(Pending(r)) - 1 /\ IsFiniteSet(Pending(r) \ {p})
            BY <3>1, <3>2, FS_RemoveElement
        <3> QED BY <2>2, <3>1, <3>3, FS_Subset
    <2> QED BY <2>2, <2>3
<1>6. /\ tree' \in Files /\ Written(tree)' /\ Grew /\ tree'.receipts = tree.receipts
      /\ tree'.tail = "torn"
         \/ (\A r \in Rows : tree'.rows[r] = IF r = h THEN tree.rows[r] + 1 ELSE tree.rows[r])
      /\ \A r \in Rows : tree'.rows[r] = tree.rows[r] \/ (r = h /\ tree'.rows[r] = tree.rows[r] + 1)
    <2>1. CASE tree.tail = "whole"
        <3>1. Bumped(h, "whole")
            <4>1. tree' = [tree EXCEPT !.rows[h] = @ + 1]
                BY <2>1 DEF AppendRow
            <4>2. tree = [tree EXCEPT !.tail = "whole"]
                BY <2>1, FileTypes DEF FilesInv
            <4> QED BY <4>1, <4>2 DEF Bumped
        <3>2. tree.rows[h] + 1 <= Cardinality(Procs)
            <4>1. Cardinality(Pending(h)) >= 1
                BY <1>1, <1>5
            <4> QED BY <1>1, <1>4, <1>5, <4>1
        <3> QED BY <1>1, <2>1, <3>1, <3>2, RowRecorded
    <2>2. CASE tree.tail # "whole"
        <3>1. tree' = [tree EXCEPT !.tail = "torn"]
            BY <2>2 DEF AppendRow
        <3>2. tree'.tail = "torn"
            BY <3>1, FileTypes DEF FilesInv
        <3> QED BY <3>1, <3>2, FileTorn
    <2> QED BY <2>1, <2>2
<1>7. \A q \in Procs : Planned(q)'
    <2>1. ASSUME NEW q \in Procs, q # p PROVE Planned(q)'
        BY <1>3, <1>6, <2>1, PlannedStays
    <2>2. Planned(p)'
        <3>1. work[p].base = -1
            BY <1>1 DEF FilesInv, Planned
        <3>2. CASE work[p].facts = <<>>
            BY <1>3, <3>1, <3>2 DEF Planned
        <3>3. CASE work[p].facts # <<>>
            <4>1. PICK j \in 1..6 : At(p, j)
                BY <3>3 DEF FilesInv, Planned
            <4>2. "probe" \in Rows /\ \A r \in GateRows : r \in Rows
                BY PlanFacts DEF GateRows
            <4>3. /\ Len(tree'.receipts) >= j - 1 /\ tree'.rows["probe"] >= 1
                  /\ \A r \in GateRows : tree.rows[r] >= 1 => tree'.rows[r] >= 1
                BY <1>4, <1>6, <4>1, <4>2 DEF At
            <4>4. ASSUME j >= 5, tree'.tail # "torn", NEW r \in GateRows, r \notin Range(work'[p].rows)
                  PROVE  tree'.rows[r] >= 1
                <5>1. tree.tail # "torn"
                    BY <1>6, <4>4 DEF Grew
                <5>2. tree.rows[r] >= 1 \/ r \in Range(plan)
                    BY <4>1, <4>4, <5>1 DEF At
                <5>3. CASE tree.rows[r] >= 1
                    BY <4>3, <5>3
                <5>4. CASE r \in Range(plan)
                    <6>1. r = h
                        BY <1>1, <1>3, <4>4, <5>4
                    <6>2. tree'.rows[r] = tree.rows[r] + 1
                        BY <1>6, <4>2, <4>4, <6>1
                    <6> QED BY <1>4, <4>2, <6>2
                <5> QED BY <5>2, <5>3, <5>4
            <4>5. At(p, j)'
                BY <1>3, <4>1, <4>3, <4>4 DEF At
            <4> QED BY <1>3, <3>1, <4>5 DEF Planned
        <3> QED BY <3>2, <3>3
    <2> QED BY <2>1, <2>2
<1>8. ASSUME NEW r \in Rows
      PROVE  tree'.rows[r] + Cardinality(Pending(r)') <= Cardinality(Procs)
    <2>1. CASE tree'.rows[r] = tree.rows[r]
        BY <1>4, <1>5, <2>1
    <2>2. CASE r = h /\ tree'.rows[r] = tree.rows[r] + 1
        BY <1>4, <1>5, <2>2
    <2> QED BY <1>6, <2>1, <2>2
<1> QED BY <1>2, <1>3, <1>6, <1>7, <1>8 DEF FilesInv, Written

\* A shell loads the registry: it knows how many lines it saw.
LEMMA LoadKeeps ==
    ASSUME FilesInv, NEW p \in Procs, LoadRegistry(p)
    PROVE  FilesInv'
<1>1. PICK j \in 1..6 : At(p, j) /\ Len(tree.receipts) = j - 1
    BY LoadsInOrder
<1>2. /\ work' = [work EXCEPT ![p].base = Len(tree.receipts)] /\ UNCHANGED <<tree, head>>
      /\ work[p].rows = <<>> /\ work[p].facts # <<>>
      /\ work[p] \in [rows : RowPlans, facts : {<<>>} \cup Range(Rest), base : -1..5]
      /\ j - 1 \in -1..5
    BY <1>1 DEF LoadRegistry, repo, FilesInv, WorkTypes
<1>3. /\ work'[p].rows = work[p].rows /\ work'[p].facts = work[p].facts /\ work'[p].base = j - 1
      /\ \A q \in Procs : q # p => work'[q] = work[q]
      /\ WorkTypes'
    BY <1>1, <1>2 DEF FilesInv, WorkTypes
<1>4. \A q \in Procs : Planned(q)'
    <2>1. Grew
        BY <1>2, FileTypes DEF Grew, FilesInv
    <2>2. At(p, j)'
        BY <1>1, <1>2, <1>3 DEF At
    <2>3. Planned(p)'
        BY <1>2, <1>3, <2>2 DEF Planned
    <2> QED BY <1>2, <1>3, <2>1, <2>3, PlannedStays DEF FilesInv
<1>5. \A r \in Rows : Pending(r)' = Pending(r)
    BY <1>3 DEF Pending
<1> QED BY <1>2, <1>3, <1>4, <1>5 DEF FilesInv, Written

\* The line it writes is the event that follows what it saw.
LEMMA WriteKeeps ==
    ASSUME FilesInv, NEW p \in Procs, WriteReceipt(p)
    PROVE  FilesInv'
<1> DEFINE line == [fact |-> Head(work[p].facts), prev |-> work[p].base]
           n == Len(tree.receipts)
<1>1. work[p].rows = <<>> /\ work[p].facts # <<>> /\ work[p].base # -1
    BY DEF WriteReceipt, FilesInv, Planned
<1>2. PICK j \in 1..6 : At(p, j)
    BY <1>1 DEF FilesInv, Planned
<1>3. line.fact = History[j] /\ line.prev = j - 1 /\ work[p].base = j - 1
    BY <1>1, <1>2, RestFacts DEF At
<1>4. /\ tree' = [tree EXCEPT !.receipts = Append(tree.receipts, line)] /\ head' = head
      /\ work' = [work EXCEPT ![p] =
                    IF Readable(tree') /\ Len(tree'.receipts) = work[p].base + 1
                    THEN [work[p] EXCEPT !.facts = Tail(work[p].facts), !.base = -1] ELSE Idle]
    BY DEF WriteReceipt, Appended, repo
<1>5. line \in [fact : Range(History), prev : 0..(2 * Len(History))]
    <2>1. 2 * Len(History) = 12 /\ j - 1 \in 0..12
        BY Events
    <2>2. Head(work[p].facts) \in Range(History) /\ work[p].base \in 0..12
        BY <1>3, <2>1, Events
    <2> QED BY <2>1, <2>2
<1>6. /\ tree'.receipts = Append(tree.receipts, line) /\ tree'.rows = tree.rows /\ tree'.tail = tree.tail
      /\ tree'.receipts \in Seq([fact : Range(History), prev : 0..(2 * Len(History))])
      /\ tree' \in Files
    <2>1. Append(tree.receipts, line) \in Seq([fact : Range(History), prev : 0..(2 * Len(History))])
        <3>1. tree.receipts \in Seq([fact : Range(History), prev : 0..(2 * Len(History))])
            BY FileTypes DEF FilesInv
        <3>2. \A S : \A s \in Seq(S), e \in S : Append(s, e) \in Seq(S)
            OBVIOUS
        <3> HIDE DEF line
        <3> QED BY <1>5, <3>1, <3>2
    <2> HIDE DEF line
    <2> QED BY <1>4, <2>1, FileTypes DEF FilesInv, Files
<1>7. /\ n \in Nat /\ DOMAIN tree.receipts = 1..n
      /\ Len(tree'.receipts) = n + 1 /\ DOMAIN tree'.receipts = 1..(n + 1)
      /\ tree'.receipts[n + 1] = line /\ \A i \in 1..n : tree'.receipts[i] = tree.receipts[i]
    BY <1>5, <1>6, FileTypes DEF FilesInv
<1> HIDE DEF line, n
<1>8. Grew
    BY <1>6, <1>7, FileTypes DEF Grew, FilesInv, n
<1>9. Written(tree)'
    <2>1. ASSUME NEW i \in DOMAIN tree'.receipts
          PROVE  /\ tree'.receipts[i].prev \in 0..5
                 /\ tree'.receipts[i].fact = History[tree'.receipts[i].prev + 1]
                 /\ tree'.receipts[i].prev >= 4 =>
                       tree'.tail = "torn" \/ \A r \in GateRows : tree'.rows[r] >= 1
        <3>1. CASE i = n + 1
            <4>1. tree'.receipts[i] = line /\ j - 1 \in 0..5 /\ (j - 1) + 1 = j
                BY <1>7, <3>1
            <4>2. j >= 5 => tree.tail = "torn" \/ \A r \in GateRows : tree.rows[r] >= 1
                BY <1>1, <1>2, PlanFacts DEF At
            <4>3. j - 1 >= 4 => j >= 5
                OBVIOUS
            <4> QED BY <1>3, <1>6, <4>1, <4>2, <4>3
        <3>2. CASE i \in 1..n
            BY <1>6, <1>7, <3>2 DEF FilesInv, Written
        <3> QED BY <1>7, <2>1, <3>1, <3>2
    <2>2. tree'.rows["probe"] >= 1
        BY <1>2, <1>6 DEF At
    <2> QED BY <2>1, <2>2 DEF Written
<1>10. CASE ~(Readable(tree') /\ Len(tree'.receipts) = work[p].base + 1)
    <2>1. work' = [work EXCEPT ![p] = Idle]
        BY <1>4, <1>10
    <2> QED BY <1>4, <1>6, <1>8, <1>9, <2>1, IdleKeeps
<1>11. CASE Readable(tree') /\ Len(tree'.receipts) = work[p].base + 1
    <2>1. work' = [work EXCEPT ![p] = [work[p] EXCEPT !.facts = Tail(work[p].facts), !.base = -1]]
        BY <1>4, <1>11
    <2>2. Tail(work[p].facts) = IF j \in {4, 6} THEN <<>> ELSE Rest[j + 1]
        BY <1>2, RestFacts DEF At
    <2>3. Tail(work[p].facts) \in {<<>>} \cup Range(Rest)
        <3>1. j \notin {4, 6} => j + 1 \in 1..6
            OBVIOUS
        <3> QED BY <2>2, <3>1, RestFacts
    <2>4. work[p] \in [rows : RowPlans, facts : {<<>>} \cup Range(Rest), base : -1..5]
        BY DEF FilesInv, WorkTypes
    <2>5. /\ work'[p].rows = work[p].rows /\ work'[p].facts = Tail(work[p].facts) /\ work'[p].base = -1
          /\ \A q \in Procs : q # p => work'[q] = work[q]
          /\ WorkTypes'
        <3> DEFINE left == Tail(work[p].facts)
                   next == [work[p] EXCEPT !.facts = left, !.base = -1]
        <3>1. next = [rows |-> work[p].rows, facts |-> left, base |-> -1]
            <4> DEFINE first == [work[p] EXCEPT !.facts = left]
            <4>1. work[p] = [rows |-> work[p].rows, facts |-> work[p].facts, base |-> work[p].base]
                BY <2>4
            <4>2. first = [rows |-> work[p].rows, facts |-> left, base |-> work[p].base]
                <5> HIDE DEF left
                <5> QED BY <4>1
            <4>3. next = [first EXCEPT !.base = -1]
                OBVIOUS
            <4> HIDE DEF left, first, next
            <4> QED BY <4>2, <4>3
        <3>2. next \in [rows : RowPlans, facts : {<<>>} \cup Range(Rest), base : -1..5]
            <4>1. left \in {<<>>} \cup Range(Rest) /\ -1 \in -1..5 /\ work[p].rows \in RowPlans
                BY <2>3, <2>4
            <4> HIDE DEF left, next
            <4> QED BY <3>1, <4>1
        <3>3. next.rows = work[p].rows /\ next.facts = left /\ next.base = -1
            <4> HIDE DEF left, next
            <4> QED BY <3>1
        <3>4. work' = [work EXCEPT ![p] = next]
            BY <2>1
        <3>5. work'[p] = next /\ WorkTypes' /\ \A q \in Procs : q # p => work'[q] = work[q]
            <4> HIDE DEF left, next
            <4> QED BY <3>2, <3>4 DEF FilesInv, WorkTypes
        <3> QED BY <3>3, <3>5
    <2>6. Planned(p)'
        <3>1. CASE j \in {4, 6}
            BY <2>2, <2>5, <3>1 DEF Planned
        <3>2. CASE j \notin {4, 6}
            <4>1. /\ j + 1 \in 1..6 /\ Len(tree'.receipts) >= (j + 1) - 1
                  /\ j + 1 >= 5 => j >= 5
                BY <1>3, <1>11, <3>2
            <4>2. At(p, j + 1)'
                BY <1>2, <1>6, <2>2, <2>5, <3>2, <4>1 DEF At
            <4> QED BY <2>5, <4>1, <4>2 DEF Planned
        <3> QED BY <3>1, <3>2
    <2>7. \A q \in Procs : Planned(q)'
        BY <1>6, <1>8, <2>5, <2>6, PlannedStays
    <2>8. \A r \in Rows : Pending(r)' = Pending(r)
        BY <2>5 DEF Pending
    <2> QED BY <1>4, <1>6, <1>9, <2>5, <2>7, <2>8 DEF FilesInv, Written
<1> QED BY <1>10, <1>11

\* A shell that has a row to append has room for it.
LEMMA RoomForRow ==
    ASSUME FilesInv, NEW p \in Procs, work[p].rows # <<>>
    PROVE  /\ Head(work[p].rows) \in Rows /\ Head(work[p].rows) \in Range(work[p].rows)
           /\ tree.rows[Head(work[p].rows)] + 1 <= Cardinality(Procs)
<1> DEFINE h == Head(work[p].rows)
<1>1. h \in Rows /\ h \in Range(work[p].rows)
    BY PlanFacts DEF FilesInv, WorkTypes
<1>2. {p} \subseteq Pending(h) /\ IsFiniteSet(Pending(h))
    BY <1>1, ControlAssumption, FS_Subset DEF Pending
<1>3. Cardinality(Pending(h)) >= 1 /\ Cardinality(Pending(h)) \in Nat /\ Cardinality(Procs) \in Nat
    <2>1. Cardinality({p}) = 1 /\ Cardinality({p}) <= Cardinality(Pending(h))
        BY <1>2, FS_Subset, FS_Singleton
    <2>2. Cardinality(Pending(h)) \in Nat /\ Cardinality(Procs) \in Nat
        BY <1>2, FS_CardinalityType, ControlAssumption
    <2> HIDE DEF h
    <2> QED BY <2>1, <2>2
<1>4. tree.rows[h] \in Nat /\ tree.rows[h] + Cardinality(Pending(h)) <= Cardinality(Procs)
    BY <1>1, FileTypes DEF FilesInv
<1> HIDE DEF h
<1>5. tree.rows[h] + 1 <= Cardinality(Procs)
    BY <1>3, <1>4
<1> QED BY <1>1, <1>5 DEF h

LEMMA DiesInWriteKeeps ==
    ASSUME FilesInv, NEW p \in Procs, DiesInWrite(p)
    PROVE  FilesInv'
<1>1. work' = [work EXCEPT ![p] = Idle] /\ head' = head
    BY DEF DiesInWrite, repo
<1>2. CASE tree' = [tree EXCEPT !.tail = "torn"] \/ tree' = [tree EXCEPT !.torn = TRUE]
    BY <1>1, <1>2, FileTorn, IdleKeeps
<1>3. CASE /\ work[p].rows # <<>> /\ tree.tail = "whole"
           /\ tree' = [tree EXCEPT !.tail = "bare", !.rows[Head(work[p].rows)] = @ + 1]
    <2>1. Bumped(Head(work[p].rows), "bare")
        BY <1>3 DEF Bumped
    <2> QED BY <1>1, <1>3, <2>1, RoomForRow, RowRecorded, IdleKeeps
<1> QED BY <1>2, <1>3 DEF DiesInWrite

LEMMA StopsKeeps ==
    ASSUME FilesInv, NEW p \in Procs, Stops(p)
    PROVE  FilesInv'
<1>1. work' = [work EXCEPT ![p] = Idle] /\ UNCHANGED <<tree, head>>
    BY DEF Stops, repo
<1>2. tree' \in Files /\ Written(tree)' /\ Grew
    BY <1>1, FileTypes DEF FilesInv, Written, Grew
<1> QED BY <1>1, <1>2, IdleKeeps

LEMMA FilesUnchanged == FilesInv /\ UNCHANGED <<tree, head, work>> => FilesInv'
BY DEF FilesInv, Written, WorkTypes, Planned, At, Pending

\* No shell has anything to append.
LEMMA NothingPending ==
    ASSUME \A p \in Procs : work[p] = Idle, NEW r
    PROVE  Cardinality(Pending(r)) = 0
<1>1. Pending(r) = {}
    BY IdleFacts, PlanFacts DEF Pending
<1> QED BY <1>1, FS_EmptySet

LEMMA FilesInit == Init => FilesInv
<1> SUFFICES ASSUME Init PROVE FilesInv
    OBVIOUS
<1>1. /\ tree = [receipts |-> <<>>, torn |-> FALSE, rows |-> [r \in Rows |-> 0], tail |-> "whole"]
      /\ head = tree /\ work = [p \in Procs |-> Idle]
    BY DEF Init
<1>2. Cardinality(Procs) \in Nat
    BY ControlAssumption, FS_CardinalityType
<1>3. [r \in Rows |-> 0] \in [Rows -> 0..(2 * Cardinality(Procs))]
    BY <1>2
<1>4. tree \in Files
    BY <1>1, <1>3 DEF Files
<1>5. tree.receipts = <<>> /\ DOMAIN tree.receipts = {} /\ \A r \in Rows : tree.rows[r] = 0
    BY <1>1
<1>6. Written(tree)
    BY <1>5 DEF Written
<1>7. WorkTypes /\ \A p \in Procs : work[p] = Idle
    BY <1>1, IdleFacts DEF WorkTypes
<1>8. \A p \in Procs : Planned(p)
    BY <1>7, IdleFacts DEF Planned
<1>9. \A r \in Rows : tree.rows[r] + Cardinality(Pending(r)) <= Cardinality(Procs)
    BY <1>2, <1>5, <1>7, NothingPending
<1> QED BY <1>1, <1>2, <1>4, <1>5, <1>6, <1>7, <1>8, <1>9 DEF FilesInv

LEMMA FilesNext == FilesInv /\ [Next]_vars => FilesInv'
<1> SUFFICES ASSUME FilesInv, [Next]_vars PROVE FilesInv'
    OBVIOUS
<1>1. CASE Scripts
    <2>1. PICK p \in Procs :
             \/ EstablishHistorical(p) \/ EstablishReplacement(p)
             \/ \E phase \in Phases : RecordCost(p, phase)
             \/ AppendRow(p) \/ LoadRegistry(p) \/ WriteReceipt(p) \/ Stops(p) \/ DiesInWrite(p)
        BY <1>1 DEF Scripts
    <2> QED BY <2>1, BeginScripts, AppendRowKeeps, LoadKeeps, WriteKeeps, StopsKeeps, DiesInWriteKeeps
<1>2. CASE Commit
    <2>1. head' = tree /\ UNCHANGED <<tree, work>>
        BY <1>2 DEF Commit, files
    <2>2. ASSUME NEW r \in Rows PROVE tree.rows[r] <= Cardinality(Procs)
        <3>1. Cardinality(Pending(r)) \in Nat /\ Cardinality(Procs) \in Nat
            BY PendingShrinks, ControlAssumption, FS_Subset, FS_CardinalityType DEF Pending
        <3>2. tree.rows[r] \in Nat /\ tree.rows[r] + Cardinality(Pending(r)) <= Cardinality(Procs)
            BY FileTypes DEF FilesInv
        <3> QED BY <3>1, <3>2
    <2> QED BY <2>1, <2>2 DEF FilesInv, Written, WorkTypes, Planned, At, Pending
<1>3. CASE Discard
    <2>1. tree' = head /\ UNCHANGED <<head, work>> /\ \A p \in Procs : work'[p] = Idle
        BY <1>3 DEF Discard, repo, AllIdle
    <2>2. \A p \in Procs : Planned(p)'
        BY <2>1, IdleFacts DEF Planned
    <2>3. ASSUME NEW r \in Rows
          PROVE  tree'.rows[r] + Cardinality(Pending(r)') <= Cardinality(Procs)
        <3>1. Cardinality(Pending(r)') = 0
            <4>1. Pending(r)' = {}
                BY <2>1, IdleFacts, PlanFacts DEF Pending
            <4> QED BY <4>1, FS_EmptySet
        <3>2. head.rows[r] \in Nat /\ head.rows[r] <= Cardinality(Procs)
            BY FileTypes DEF FilesInv
        <3> QED BY <2>1, <3>1, <3>2
    <2> QED BY <2>1, <2>2, <2>3 DEF FilesInv, Written, WorkTypes
<1>4. CASE ReplacementRuns \/ GenesisExpires \/ (\E phase \in Phases : ArtifactExpires(phase))
           \/ (\E state \in {"consumed", "broken"} : WindowEnds(state))
    BY <1>4, FilesUnchanged DEF ReplacementRuns, GenesisExpires, ArtifactExpires, WindowEnds, files, repo
<1>5. CASE Workflow
    BY <1>5, FilesUnchanged DEF Workflow, Dispatch, Rerun, Freeze, Upload, EndsWithout, files, repo
<1>6. CASE UNCHANGED vars
    BY <1>6, FilesUnchanged DEF vars, files, repo
<1> QED BY <1>1, <1>2, <1>3, <1>4, <1>5, <1>6 DEF Next, Platform

----------------------------------------------------------------------------
\* The platform and the freeze.

\* A window of the right shape, frozen on a ledger that has every row of the
\* paid phases, exactly once each row of a phase whose evidence it looked at.
Backed(w) ==
    /\ w \in Windows
    /\ \A r \in Rows : w.rows[r] >= 1
    /\ \A phase \in w.verified, r \in Rows : r \in Range(RowsOf[phase]) => w.rows[r] = 1

PlatformInv ==
    /\ commit \in 1..MaxCommits
    /\ retained \subseteq Phases /\ green \in BOOLEAN
    /\ tears \in 0..MaxTears
    /\ freeze \in [Freezes -> [pc : {"none", "queued", "built", "done"}, source : 0..MaxCommits,
                               supersedes : Freezes \cup {NoId}]]
    /\ built # NoWindow => Backed(built)
    /\ \A i \in DOMAIN published : Backed(published[i])

ControlInv == WindowInv /\ FilesInv /\ PlatformInv

\* Receipts of the whole history and a ledger that reads: every row was paid
\* for and recorded, also those no evidence is left of.
LEMMA HistoryIsPaid ==
    ASSUME NEW f \in Files, Written(f), ProviderPhases(f)
    PROVE  \A r \in Rows : f.rows[r] >= 1
<1>1. Readable(f) /\ Established(f) = Range(History) /\ f.tail # "torn"
    BY DEF ProviderPhases, LedgerReadable
<1>2. f.rows["probe"] >= 1
    BY <1>1 DEF Readable, Written
<1>3. PICK i \in DOMAIN f.receipts : f.receipts[i].fact = History[6]
    <2>1. History[6] \in Established(f)
        BY <1>1, Events, UpToSix
    <2> QED BY <2>1 DEF Established
<1>4. f.receipts[i].prev >= 4
    <2>1. f.receipts[i].prev \in 0..5 /\ History[6] = History[f.receipts[i].prev + 1]
        BY <1>3 DEF Written
    <2>2. ASSUME NEW n \in 0..5, History[6] = History[n + 1] PROVE n >= 4
        <3>1. n + 1 \in 1..6 /\ 6 \in 1..6
            OBVIOUS
        <3>2. n + 1 = 6
            BY <2>2, <3>1, EventsDiffer
        <3> QED BY <3>2
    <2> QED BY <2>1, <2>2
<1>5. \A r \in GateRows : f.rows[r] >= 1
    BY <1>1, <1>4 DEF Written
<1> QED BY <1>2, <1>5, PlanFacts DEF GateRows

LEMMA GenesisIsBacked ==
    ASSUME ControlInv, NEW f \in Freezes, Freeze(f)
    PROVE  Backed(built') /\ freeze' = [freeze EXCEPT ![f].pc = "built"]
<1>1. /\ ProviderPhases(head)
      /\ built' = [id |-> f, source |-> commit, supersedes |-> freeze[f].supersedes,
                   rows |-> head.rows, verified |-> retained, state |-> "intact"]
      /\ freeze' = [freeze EXCEPT ![f].pc = "built"]
    BY DEF Freeze, GenesisOf
<1>2. \A r \in Rows : head.rows[r] >= 1
    BY <1>1, HistoryIsPaid DEF ControlInv, FilesInv
<1>3. \A phase \in retained, r \in Rows : r \in Range(RowsOf[phase]) => head.rows[r] = 1
    BY <1>1 DEF ProviderPhases, Recorded
<1>4. built' \in Windows
    <2>1. head.rows \in [Rows -> 0..(2 * Cardinality(Procs))]
        BY FileTypes DEF ControlInv, FilesInv
    <2>2. freeze[f].supersedes \in Freezes \cup {NoId} /\ commit \in 1..MaxCommits /\ retained \subseteq Phases
        BY DEF ControlInv, PlatformInv
    <2> QED BY <1>1, <2>1, <2>2 DEF Windows
<1>5. built'.rows = head.rows /\ built'.verified = retained
    BY <1>1
<1> QED BY <1>1, <1>2, <1>3, <1>4, <1>5 DEF Backed

\* What becomes of a window says nothing of its ledger.
LEMMA EndedIsBacked ==
    ASSUME NEW w, Backed(w), NEW state \in {"consumed", "broken"}
    PROVE  Backed([w EXCEPT !.state = state])
<1> DEFINE v == [w EXCEPT !.state = state]
<1>1. /\ w \in Windows
      /\ w = [id |-> w.id, source |-> w.source, supersedes |-> w.supersedes, rows |-> w.rows,
              verified |-> w.verified, state |-> w.state]
    BY DEF Backed, Windows
<1>2. v = [id |-> w.id, source |-> w.source, supersedes |-> w.supersedes, rows |-> w.rows,
           verified |-> w.verified, state |-> state]
    BY <1>1
<1>3. v.rows = w.rows /\ v.verified = w.verified
    BY <1>2
<1>4. v \in Windows
    BY <1>1, <1>2 DEF Windows
<1> HIDE DEF v
<1>5. Backed(v)
    BY <1>3, <1>4 DEF Backed
<1> QED BY <1>5 DEF v

LEMMA PlatformInit == Init => PlatformInv
<1> SUFFICES ASSUME Init PROVE PlatformInv
    OBVIOUS
<1>1. commit \in 1..MaxCommits /\ tears \in 0..MaxTears
    BY ControlAssumption DEF Init
<1>2. retained \subseteq Phases /\ green \in BOOLEAN
    BY DEF Init, Phases
<1>3. 0 \in 0..MaxCommits
    BY ControlAssumption
<1>4. freeze \in [Freezes -> [pc : {"none", "queued", "built", "done"}, source : 0..MaxCommits,
                              supersedes : Freezes \cup {NoId}]]
    BY <1>3 DEF Init
<1>5. built = NoWindow /\ DOMAIN published = {}
    BY DEF Init
<1> QED BY <1>1, <1>2, <1>4, <1>5 DEF PlatformInv

LEMMA PlatformNext == ControlInv /\ [Next]_vars => PlatformInv'
<1> SUFFICES ASSUME ControlInv, [Next]_vars PROVE PlatformInv'
    OBVIOUS
<1> USE DEF ControlInv
<1>1. ASSUME UNCHANGED windows, commit' \in 1..MaxCommits, retained' \subseteq Phases,
             green' \in BOOLEAN, tears' \in 0..MaxTears
      PROVE  PlatformInv'
    BY <1>1 DEF PlatformInv, windows, Backed
<1>2. CASE Scripts
    <2>1. UNCHANGED <<repo, evidence, windows>> /\ (tears' = tears \/ (tears < MaxTears /\ tears' = tears + 1))
        BY <1>2 DEF Scripts, EstablishHistorical, EstablishReplacement, RecordCost, Begin, AppendRow,
                    LoadRegistry, WriteReceipt, Stops, DiesInWrite
    <2>2. tears' \in 0..MaxTears
        BY <2>1, ControlAssumption DEF PlatformInv
    <2> QED BY <1>1, <2>1, <2>2 DEF PlatformInv, repo, evidence
<1>3. CASE Commit
    <2>1. commit' \in 1..MaxCommits
        BY <1>3, ControlAssumption DEF Commit, PlatformInv
    <2> QED BY <1>1, <1>3, <2>1 DEF Commit, PlatformInv, files, evidence
<1>4. CASE Discard
    BY <1>1, <1>4 DEF Discard, PlatformInv, repo, evidence
<1>5. CASE ReplacementRuns
    BY <1>1, <1>5 DEF ReplacementRuns, PlatformInv, repo, files, Phases
<1>6. CASE \E phase \in Phases : ArtifactExpires(phase)
    BY <1>1, <1>6 DEF ArtifactExpires, PlatformInv, repo, files
<1>7. CASE GenesisExpires
    BY <1>7 DEF GenesisExpires, PlatformInv, repo, files, evidence, Backed
<1>8. ASSUME NEW state \in {"consumed", "broken"}, WindowEnds(state) PROVE PlatformInv'
    <2>1. PICK i \in (gone + 1)..Len(published) :
              published' = [published EXCEPT ![i].state = state]
        BY <1>8 DEF WindowEnds
    <2>2. \A j \in DOMAIN published' : j \in DOMAIN published /\ Backed(published'[j])
        <3>1. DOMAIN published' = DOMAIN published
            BY <2>1
        <3>2. ASSUME NEW j \in DOMAIN published PROVE Backed(published'[j])
            <4>1. published'[j] = IF j = i THEN [published[j] EXCEPT !.state = state] ELSE published[j]
                BY <2>1
            <4>2. Backed(published[j])
                BY DEF PlatformInv
            <4>3. Backed([published[j] EXCEPT !.state = state])
                BY <4>2, EndedIsBacked
            <4> QED BY <4>1, <4>2, <4>3
        <3> QED BY <3>1, <3>2
    <2>3. \A j \in DOMAIN published' : Backed(published[j])'
        BY <2>2 DEF Backed
    <2> QED BY <1>8, <2>3 DEF WindowEnds, PlatformInv, repo, files, evidence, Backed
<1>9. ASSUME NEW f \in Freezes, NEW s \in Freezes \cup {NoId}, Dispatch(f, s) PROVE PlatformInv'
    <2>1. /\ freeze' = [freeze EXCEPT ![f] = [pc |-> "queued", source |-> commit, supersedes |-> s]]
          /\ UNCHANGED <<files, repo, evidence, built, published, gone>>
        BY <1>9 DEF Dispatch
    <2>2. commit \in 0..MaxCommits
        BY ControlAssumption DEF PlatformInv
    <2> QED BY <2>1, <2>2 DEF PlatformInv, repo, files, evidence, Backed
<1>10. ASSUME NEW f \in Freezes, NEW next \in {"queued", "built", "done"},
              freeze' = [freeze EXCEPT ![f].pc = next], UNCHANGED <<files, repo, evidence>>,
              built' # NoWindow => Backed(built)',
              \A i \in DOMAIN published' : Backed(published[i])'
       PROVE  PlatformInv'
    BY <1>10 DEF PlatformInv, repo, files, evidence
<1>11. ASSUME NEW f \in Freezes, Rerun(f) PROVE PlatformInv'
    BY <1>10, <1>11 DEF Rerun, PlatformInv, Backed
<1>12. ASSUME NEW f \in Freezes, Freeze(f) PROVE PlatformInv'
    <2>1. freeze' = [freeze EXCEPT ![f].pc = "built"] /\ Backed(built)'
        BY <1>12, GenesisIsBacked DEF Backed
    <2> QED BY <1>10, <1>12, <2>1 DEF Freeze, PlatformInv, Backed
<1>13. ASSUME NEW f \in Freezes, Upload(f) PROVE PlatformInv'
    <2>1. /\ published' = Append(published, built) /\ built' = NoWindow
          /\ freeze' = [freeze EXCEPT ![f].pc = "done"] /\ freeze[f].pc = "built"
          /\ UNCHANGED <<files, repo, evidence>>
        BY <1>13 DEF Upload
    <2>2. Backed(built)
        BY <2>1 DEF PlatformInv, WindowInv, WindowTypes, OneBuilder
    <2>3. PICK S : published \in Seq(S)
        BY DEF WindowInv, WindowTypes
    <2>4. \A i \in DOMAIN published' : published'[i] = built \/ (i \in DOMAIN published /\ published'[i] = published[i])
        <3>1. published \in Seq(S \cup {built})
            BY <2>3
        <3> QED BY <2>1, <3>1
    <2>5. \A i \in DOMAIN published' : Backed(published[i])'
        BY <2>2, <2>4 DEF PlatformInv, Backed
    <2> QED BY <1>10, <2>1, <2>5
<1>14. ASSUME NEW f \in Freezes, EndsWithout(f) PROVE PlatformInv'
    <2>1. built' # NoWindow => Backed(built)'
        BY <1>14 DEF EndsWithout, PlatformInv, Backed
    <2> QED BY <1>10, <1>14, <2>1 DEF EndsWithout, PlatformInv, Backed
<1>15. CASE UNCHANGED vars
    BY <1>1, <1>15 DEF vars, PlatformInv, repo, files, evidence
<1> QED
    BY <1>2, <1>3, <1>4, <1>5, <1>6, <1>7, <1>8, <1>9, <1>11, <1>12, <1>13, <1>14, <1>15
    DEF Next, Platform, Workflow

LEMMA ControlIsInvariant == Spec => []ControlInv
<1>1. Init => ControlInv
    BY WindowInit, FilesInit, PlatformInit DEF ControlInv
<1>2. ControlInv /\ [Next]_vars => ControlInv'
    BY WindowNext, FilesNext, PlatformNext DEF ControlInv
<1> QED BY <1>1, <1>2, PTL DEF Spec

LEMMA ControlTypes == ControlInv => TypeOK
<1> SUFFICES ASSUME ControlInv PROVE TypeOK
    OBVIOUS
<1> USE DEF ControlInv
<1>1. \A f \in {tree, head}, r \in Rows : f.rows[r] <= Cardinality(Procs)
    <2>1. ASSUME NEW r \in Rows PROVE tree.rows[r] <= Cardinality(Procs)
        <3>1. Cardinality(Pending(r)) \in Nat /\ Cardinality(Procs) \in Nat
            BY ControlAssumption, FS_Subset, FS_CardinalityType DEF Pending
        <3>2. tree.rows[r] \in Nat /\ tree.rows[r] + Cardinality(Pending(r)) <= Cardinality(Procs)
            BY FileTypes DEF FilesInv
        <3> QED BY <3>1, <3>2
    <2> QED BY <2>1 DEF FilesInv
<1>2. ASSUME NEW p \in Procs
      PROVE  /\ work[p].rows \in Seq(Rows) /\ work[p].facts \in Seq(Range(History))
             /\ work[p].base \in -1..(2 * Len(History))
    <2>1. work[p].rows \in RowPlans /\ work[p].facts \in {<<>>} \cup Range(Rest) /\ work[p].base \in -1..5
        BY DEF FilesInv, WorkTypes
    <2>2. \A plan \in RowPlans : plan \in Seq(Rows)
        <3>1. <<>> \in Seq(Rows)
            OBVIOUS
        <3>2. /\ <<"probe">> \in Seq(Rows) /\ <<"gate_2">> \in Seq(Rows)
              /\ <<"gate_1", "gate_2">> \in Seq(Rows)
            BY PlanFacts
        <3> QED BY <3>1, <3>2 DEF RowPlans
    <2>3. \A facts \in {<<>>} \cup Range(Rest) : facts \in Seq(Range(History))
        <3>1. /\ Rest[2] = <<History[2], History[3], History[4]>> /\ Rest[3] = <<History[3], History[4]>>
              /\ Rest[4] = <<History[4]>> /\ Rest[6] = <<History[6]>>
              /\ Rest[1] = <<History[1], History[2], History[3], History[4]>>
              /\ Rest[5] = <<History[5], History[6]>>
            BY Events DEF Rest, Historical, Replacement
        <3>2. \A S : \A a, b, c, d \in S :
                /\ <<>> \in Seq(S) /\ <<a>> \in Seq(S) /\ <<a, b>> \in Seq(S)
                /\ <<a, b, c>> \in Seq(S) /\ <<a, b, c, d>> \in Seq(S)
            OBVIOUS
        <3>3. DOMAIN Rest = {1, 2, 3, 4, 5, 6}
            BY DEF Rest
        <3>4. \A j \in {1, 2, 3, 4, 5, 6} : History[j] \in Range(History)
            BY Events
        <3>5. \A facts \in Range(Rest) : \E j \in {1, 2, 3, 4, 5, 6} : facts = Rest[j]
            BY <3>3 DEF Range
        <3>6. \A j \in {1, 2, 3, 4, 5, 6} : Rest[j] \in Seq(Range(History))
            <4> DEFINE E == Range(History)
            <4>1. /\ History[1] \in E /\ History[2] \in E /\ History[3] \in E
                  /\ History[4] \in E /\ History[5] \in E /\ History[6] \in E
                BY <3>4
            <4> HIDE DEF E
            <4>2. Rest[1] \in Seq(E) /\ Rest[2] \in Seq(E) /\ Rest[3] \in Seq(E)
                BY <3>1, <3>2, <4>1
            <4>3. Rest[4] \in Seq(E) /\ Rest[5] \in Seq(E) /\ Rest[6] \in Seq(E)
                BY <3>1, <3>2, <4>1
            <4> QED BY <4>2, <4>3 DEF E
        <3>7. <<>> \in Seq(Range(History))
            OBVIOUS
        <3> QED BY <3>5, <3>6, <3>7
    <2>4. 2 * Len(History) = 12 /\ \A n \in -1..5 : n \in -1..12
        BY Events
    <2> QED BY <2>1, <2>2, <2>3, <2>4
<1>3. published \in Seq(Windows) /\ built \in Windows \cup {NoWindow}
    <2>1. PICK S : published \in Seq(S)
        BY DEF WindowInv, WindowTypes
    <2>2. \A i \in DOMAIN published : published[i] \in Windows
        BY DEF PlatformInv, Backed
    <2>3. published \in Seq(Windows)
        BY <2>1, <2>2
    <2> QED BY <2>3 DEF PlatformInv, Backed
<1> QED BY <1>1, <1>2, <1>3 DEF TypeOK, FilesInv, PlatformInv, WindowInv, WindowTypes

\* Whatever interrupts, repeats or races the scripts, a registry that reads is
\* the recorded history up to some event, each event once and in order, and a
\* row is never recorded more often than there are shells.
THEOREM FilesAreSound == Spec => []FilesSound
<1>1. ControlInv => FilesSound
    <2> SUFFICES ASSUME ControlInv PROVE FilesSound
        OBVIOUS
    <2>1. ASSUME NEW f \in {tree, head}, Readable(f), NEW i \in DOMAIN f.receipts
          PROVE  i <= Len(History) /\ f.receipts[i].fact = History[i]
        <3>1. f \in Files /\ Written(f)
            BY DEF ControlInv, FilesInv
        <3>2. f.receipts[i].fact = History[i] /\ Len(f.receipts) \in 0..6
            BY <2>1, <3>1, ReadableIsHistory
        <3>3. i \in 1..Len(f.receipts)
            BY <3>1, FileTypes
        <3>4. i <= 6
            BY <3>2, <3>3, UpToSix
        <3> QED BY <3>2, <3>4, Events
    <2> QED BY <2>1, ControlTypes DEF FilesSound, HistoryIsOrdered
<1> QED BY <1>1, ControlIsInvariant, PTL

\* Every window ever published was frozen on a ledger that holds each row of
\* the probe and of the replacement, also when only the receipts vouched for
\* them, and exactly once where the evidence was still there to be looked up.
THEOREM FrozenOnPaidMoney == Spec => []FrozenIsBacked
<1>1. ControlInv => FrozenIsBacked
    BY DEF ControlInv, PlatformInv, Backed, FrozenIsBacked
<1> QED BY <1>1, ControlIsInvariant, PTL

----------------------------------------------------------------------------
(* One window from its genesis (QualificationWindow).                        *)

\* A function defined along heights that fall exists.
Descends(D, E, nx, h) == \A i \in D : i \notin E => nx[i] \in D /\ h[nx[i]] < h[i]
Recurs(f, D, E, v, nx) == f = [i \in D |-> IF i \in E THEN v[i] ELSE f[nx[i]]]

LEMMA RecursionExists ==
    ASSUME NEW D, NEW E, NEW v, NEW nx, NEW M \in Nat, NEW h \in [D -> 0..M], Descends(D, E, nx, h)
    PROVE  \E f : Recurs(f, D, E, v, nx)
<1> USE DEF Descends
<1> DEFINE Good(f, n) == \A i \in D : h[i] < n => f[i] = IF i \in E THEN v[i] ELSE f[nx[i]]
           Bad == {n \in Nat : ~ \E f : Good(f, n)}
<1>1. Bad = {}
    <2> SUFFICES ASSUME Bad # {} PROVE FALSE
        OBVIOUS
    <2>1. PICK n \in Bad : \A m \in Bad : n <= m
        <3>1. Bad \in SUBSET Nat
            OBVIOUS
        <3> HIDE DEF Bad
        <3> QED BY <3>1, LeastNatural
    <2>2. n # 0
        <3>1. Good(v, 0)
            OBVIOUS
        <3> QED BY <3>1
    <2>3. n - 1 \in Nat /\ n - 1 \notin Bad
        BY <2>1, <2>2
    <2>4. PICK f : Good(f, n - 1)
        BY <2>3
    <2> DEFINE g == [i \in D |-> IF i \in E THEN v[i] ELSE f[nx[i]]]
    <2>5. Good(g, n)
        <3> SUFFICES ASSUME NEW i \in D, h[i] < n, i \notin E PROVE f[nx[i]] = g[nx[i]]
            OBVIOUS
        <3>1. h[nx[i]] < n - 1 /\ nx[i] \in D
            OBVIOUS
        <3>2. f[nx[i]] = IF nx[i] \in E THEN v[nx[i]] ELSE f[nx[nx[i]]]
            BY <2>4, <3>1
        <3> QED BY <3>1, <3>2
    <2> QED BY <2>1, <2>5
<1>2. PICK f : Good(f, M + 1)
    BY <1>1
<1> DEFINE g == [i \in D |-> f[i]]
<1>3. \A i \in D : f[i] = IF i \in E THEN v[i] ELSE f[nx[i]]
    BY <1>2
<1>4. \A i \in D : g[i] = IF i \in E THEN v[i] ELSE g[nx[i]]
    BY <1>3
<1> HIDE DEF g
<1>5. g = [i \in D |-> IF i \in E THEN v[i] ELSE g[nx[i]]]
    <2>1. g = [i \in D |-> g[i]]
        BY DEF g
    <2> QED BY <1>4, <2>1
<1> QED BY <1>5 DEF Recurs

Published(i) == bundle[i].kind # "NONE"

\* Jobs and what they own: a slot is the interval its run was created in, only a
\* job that is over has published, one job at a time is past S12, and it began
\* from a sound chain.
JobInv ==
    /\ QualificationTypeOK /\ bundle = [i \in 0..MaxRuns |-> bundle[i]]
    /\ \A r \in Runs :
          /\ bundle[r].kind \in {"NONE", "SLOT", "REFUSAL"}
          /\ pc[r] = "none" <=> slot[r] = 0
          /\ Published(r) => pc[r] = "done"
          /\ cost[r] > 0 => slot[r] # 0
          /\ pc[r] = "ran" => Durable # Broken
          /\ \A q \in Runs : pc[q] = "ran" /\ pc[r] = "ran" => q = r

\* What a bundle says was true when it was published, and still is.
BundleSound(r) ==
    LET s == bundle[r]
    IN  /\ s.rows \subseteq {q \in Runs : pc[q] = "done"}
        /\ Spend(s.rows) <= s.spend
        /\ ~s.consumed => s.spend <= Trigger /\ s.cadence = "DAILY"
        /\ Published(s.pred)
        /\ s.kind = "SLOT" =>
              /\ s.slot = slot[r] /\ s.index = s.slot
              /\ s.outcome = "QUALIFYING" => status[r] = "COMPLETED"
              /\ Agrees(bundle[s.pred], s)
        /\ s.kind = "REFUSAL" => TransitionValid(bundle[s.pred], s)

BundleInv == \A r \in Runs : Published(r) => BundleSound(r)

\* Slots are published in order, and a refusal is linked to a state that had
\* none.  Refusals form chains: heights that fall from a state to its refusal.
Falls(h) == \A r \in Runs : bundle[r].kind = "REFUSAL" => h[r] < h[bundle[r].pred]

LinkInv ==
    /\ \A r, q \in Runs : bundle[r].kind = "REFUSAL" /\ bundle[q].kind = "REFUSAL"
                          /\ bundle[r].pred = bundle[q].pred => r = q
    /\ \A n \in Slots : SlotBundles(n) # {} => \A m \in 1..n : SlotBundles(m) # {}
    /\ \E M \in Nat : \E h \in [0..MaxRuns -> 0..M] : Falls(h)

\* The ledger of a linked slot holds its predecessors' rows, the durable one all
\* of them, and once a slot consumed the window the durable state says so.
RowsInv ==
    /\ Durable # Broken =>
          \A k \in 1..Frontier : /\ AtSlot(k) \in bundle[Durable].rows
                                 /\ bundle[AtSlot(k)].consumed => bundle[Durable].consumed
    /\ \A n \in Slots : Linked(n) => \A k \in 1..n : AtSlot(k) \in bundle[AtSlot(n)].rows

QualificationInv == JobInv /\ BundleInv /\ LinkInv /\ RowsInv

----------------------------------------------------------------------------
\* What the published bundles say, whatever is published.

\* The frontier is the last slot of the contiguous ones.
LEMMA FrontierOnly ==
    \A n \in 0..SlotCount :
        (n < SlotCount => SlotBundles(n + 1) = {}) /\ (\A m \in 1..n : SlotBundles(m) # {}) => Frontier = n
<1> DEFINE F(n) == (n < SlotCount => SlotBundles(n + 1) = {}) /\ \A m \in 1..n : SlotBundles(m) # {}
<1>1. ASSUME NEW a \in 0..SlotCount, NEW b \in 0..SlotCount, F(a), F(b), a < b PROVE FALSE
    <2>1. a < SlotCount /\ a + 1 \in 1..b
        BY <1>1, WindowAssumption
    <2> QED BY <1>1, <2>1
<1>2. \A a, b \in 0..SlotCount : F(a) /\ F(b) => a = b
    <2> SUFFICES ASSUME NEW a \in 0..SlotCount, NEW b \in 0..SlotCount, F(a), F(b), a # b PROVE FALSE
        OBVIOUS
    <2>1. a < b \/ b < a
        BY WindowAssumption
    <2> HIDE DEF F
    <2> QED BY <1>1, <2>1
<1>3. Frontier = CHOOSE n \in 0..SlotCount : F(n)
    BY DEF Frontier
<1> HIDE DEF F
<1>4. \A n \in 0..SlotCount : F(n) => Frontier = n
    BY <1>2, <1>3
<1> QED BY <1>4 DEF F

LEMMA FrontierSays ==
    /\ Frontier \in 0..SlotCount
    /\ Frontier < SlotCount => SlotBundles(Frontier + 1) = {}
    /\ \A m \in 1..Frontier : SlotBundles(m) # {}
<1> DEFINE C == {n \in Nat : n = SlotCount \/ SlotBundles(n + 1) = {}}
<1>1. PICK n \in C : \A m \in C : n <= m
    <2>1. C \in SUBSET Nat /\ C # {}
        BY WindowAssumption
    <2> HIDE DEF C
    <2> QED BY <2>1, LeastNatural
<1>2. n \in 0..SlotCount
    BY <1>1, WindowAssumption
<1>3. ASSUME NEW m \in 1..n PROVE SlotBundles(m) # {}
    <2>1. m - 1 \in Nat /\ ~(n <= m - 1) /\ (m - 1) + 1 = m
        BY <1>2
    <2>2. m - 1 \notin C
        BY <1>1, <2>1
    <2> QED BY <2>1, <2>2
<1>4. n < SlotCount => SlotBundles(n + 1) = {}
    BY <1>1, <1>2, WindowAssumption
<1>5. Frontier = n
    BY <1>2, <1>3, <1>4, FrontierOnly
<1> QED BY <1>2, <1>3, <1>4, <1>5

LEMMA Candidates ==
    /\ \A n \in Slots : SlotBundles(n) # {} => AtSlot(n) \in SlotBundles(n)
    /\ AtSlot(0) = Genesis
    /\ \A n \in Slots : n # 0 /\ n - 1 \in 0..SlotCount /\ (n - 1 = 0 \/ n - 1 \in Slots)
<1>1. \A n \in Slots : n # 0 /\ n - 1 \in 0..SlotCount /\ (n - 1 = 0 \/ n - 1 \in Slots)
    BY WindowAssumption DEF Slots
<1>2. \A n \in Slots : AtSlot(n) = CHOOSE r \in SlotBundles(n) : TRUE
    BY <1>1 DEF AtSlot
<1>3. \A n \in Slots : SlotBundles(n) # {} => AtSlot(n) \in SlotBundles(n)
    BY <1>2
<1>4. AtSlot(0) = Genesis
    BY DEF AtSlot
<1> QED BY <1>1, <1>3, <1>4

LEMMA LinkedSays ==
    \A n \in 0..SlotCount :
        Linked(n) <=> \A m \in 1..n : /\ SlotBundles(m) = {AtSlot(m)}
                                      /\ bundle[AtSlot(m)].pred = AtSlot(m - 1)
<1>1. \A n : IsFiniteSet(SlotBundles(n))
    <2>1. IsFiniteSet(Runs)
        BY FS_Interval, WindowAssumption DEF Runs
    <2>2. \A n : SlotBundles(n) \subseteq Runs
        BY DEF SlotBundles
    <2> QED BY <2>1, <2>2, FS_Subset
<1>2. ASSUME NEW n \in 0..SlotCount, NEW m \in 1..n
      PROVE  Cardinality(SlotBundles(m)) = 1 <=> SlotBundles(m) = {AtSlot(m)}
    <2>1. m \in Slots
        BY WindowAssumption DEF Slots
    <2>2. ASSUME Cardinality(SlotBundles(m)) = 1 PROVE SlotBundles(m) = {AtSlot(m)}
        <3>1. PICK x : SlotBundles(m) = {x}
            BY <1>1, <2>2, FS_Singleton
        <3> QED BY <2>1, <3>1, Candidates
    <2> QED BY <2>2, FS_Singleton
<1> QED BY <1>2 DEF Linked

\* The recursion over the refusals is over falling heights, and every refusal
\* is re-derived, so following them is a matter of steps.
FollowsOn ==
    \A i \in 0..MaxRuns : /\ Refusals(i) = {} => Follow[i] = i
                          /\ \A r \in Refusals(i) : Refusals(i) = {r} /\ Follow[i] = Follow[r]

LEMMA FollowSteps == JobInv /\ BundleInv /\ LinkInv => FollowsOn
<1> SUFFICES ASSUME JobInv, BundleInv, LinkInv
             PROVE  \A i \in 0..MaxRuns :
                        /\ Refusals(i) = {} => Follow[i] = i
                        /\ \A r \in Refusals(i) : Refusals(i) = {r} /\ Follow[i] = Follow[r]
    BY DEF FollowsOn
<1> DEFINE D == 0..MaxRuns
           R(i) == CHOOSE x \in Refusals(i) : TRUE
           Goes(i) == Refusals(i) = {R(i)} /\ TransitionValid(bundle[i], bundle[R(i)])
           E == {i \in D : Refusals(i) = {} \/ ~Goes(i)}
           v == [i \in D |-> IF Refusals(i) = {} THEN i ELSE Broken]
           nx == [i \in D |-> R(i)]
<1>0. PICK M \in Nat : \E h \in [D -> 0..M] : Falls(h)
    BY DEF LinkInv
<1>1. PICK h \in [D -> 0..M] : Falls(h)
    BY <1>0
<1>2. ASSUME NEW i \in D, NEW r \in Refusals(i)
      PROVE  /\ Refusals(i) = {r} /\ R(i) = r /\ r \in D /\ h[r] < h[i]
             /\ TransitionValid(bundle[i], bundle[r])
    <2>1. r \in Runs /\ bundle[r].kind = "REFUSAL" /\ bundle[r].pred = i
        BY DEF Refusals
    <2>2. Refusals(i) = {r}
        BY <2>1 DEF Refusals, LinkInv
    <2>3. BundleSound(r)
        BY <2>1 DEF BundleInv, Published
    <2>4. r \in D
        BY <2>1, WindowAssumption DEF Runs
    <2> QED BY <1>1, <2>1, <2>2, <2>3, <2>4 DEF Falls, BundleSound
<1>3. \A i \in D : i \notin E => nx[i] \in D /\ h[nx[i]] < h[i]
    BY <1>2
<1>4. \E f : f = [i \in D |-> IF i \in E THEN v[i] ELSE f[nx[i]]]
    <2>1. Descends(D, E, nx, h)
        BY <1>3 DEF Descends
    <2> HIDE DEF D, E, v, nx
    <2>2. \E f : Recurs(f, D, E, v, nx)
        BY <1>0, <1>1, <2>1, RecursionExists
    <2> QED BY <2>2 DEF Recurs
<1>5. \A f, i : i \in D => (IF i \in E THEN v[i] ELSE f[nx[i]]) =
                   (IF Refusals(i) = {} THEN i ELSE IF Goes(i) THEN f[R(i)] ELSE Broken)
    OBVIOUS
<1>6. Follow = CHOOSE f : f = [i \in D |-> IF Refusals(i) = {} THEN i
                                           ELSE IF Goes(i) THEN f[R(i)] ELSE Broken]
    BY DEF Follow
<1>7. \A f : [i \in D |-> IF i \in E THEN v[i] ELSE f[nx[i]]] =
             [i \in D |-> IF Refusals(i) = {} THEN i ELSE IF Goes(i) THEN f[R(i)] ELSE Broken]
    <2> HIDE DEF D, E, v, nx, R, Goes
    <2> QED BY <1>5
<1>8. Follow = [i \in D |-> IF Refusals(i) = {} THEN i ELSE IF Goes(i) THEN Follow[R(i)] ELSE Broken]
    <2> HIDE DEF D, E, v, nx, R, Goes
    <2>1. \E f : f = [i \in D |-> IF Refusals(i) = {} THEN i ELSE IF Goes(i) THEN f[R(i)] ELSE Broken]
        BY <1>4, <1>7
    <2> QED BY <1>6, <2>1
<1>9. \A i \in D : Follow[i] = IF Refusals(i) = {} THEN i ELSE IF Goes(i) THEN Follow[R(i)] ELSE Broken
    <2> HIDE DEF D, E, v, nx, R, Goes
    <2> QED BY <1>8
<1> QED BY <1>2, <1>9

\* From a published state the refusals lead to a published one without any.
LEMMA FollowEnds ==
    JobInv /\ BundleInv /\ LinkInv =>
        \A i \in 0..MaxRuns : Published(i) =>
            Follow[i] \in 0..MaxRuns /\ Published(Follow[i]) /\ Refusals(Follow[i]) = {}
<1> SUFFICES ASSUME JobInv, BundleInv, LinkInv
             PROVE  \A i \in 0..MaxRuns : Published(i) =>
                        Follow[i] \in 0..MaxRuns /\ Published(Follow[i]) /\ Refusals(Follow[i]) = {}
    OBVIOUS
<1> DEFINE D == 0..MaxRuns
           Arrives(i) == Follow[i] \in D /\ Published(Follow[i]) /\ Refusals(Follow[i]) = {}
           C == {i \in D : Published(i) /\ ~Arrives(i)}
<1>0. PICK M \in Nat : \E h \in [D -> 0..M] : Falls(h)
    BY DEF LinkInv
<1>1. PICK h \in [D -> 0..M] : Falls(h)
    BY <1>0
<1> SUFFICES ASSUME C # {} PROVE FALSE
    OBVIOUS
<1>2. PICK i \in C : \A j \in C : h[i] <= h[j]
    <2>0. \A j \in C : h[j] \in Nat
        BY <1>0, <1>1
    <2>1. {h[j] : j \in C} \in SUBSET Nat /\ {h[j] : j \in C} # {}
        BY <2>0
    <2>2. PICK n \in {h[j] : j \in C} : \A m \in {h[j] : j \in C} : n <= m
        <3> HIDE DEF C
        <3> QED BY <2>1, LeastNatural
    <2> HIDE DEF C
    <2> QED BY <2>2
<1>3. PICK r : r \in Refusals(i)
    BY <1>2, FollowSteps DEF FollowsOn
<1>4. r \in Runs /\ bundle[r].kind = "REFUSAL" /\ bundle[r].pred = i
    BY <1>3 DEF Refusals
<1>5. r \in D /\ Published(r) /\ h[r] < h[i] /\ Follow[i] = Follow[r]
    BY <1>1, <1>2, <1>3, <1>4, FollowSteps, WindowAssumption DEF Falls, Runs, Published, FollowsOn
<1>6. r \in C
    BY <1>2, <1>5
<1>7. h[i] <= h[r]
    BY <1>2, <1>6
<1>8. h[i] \in Nat /\ h[r] \in Nat
    BY <1>0, <1>1, <1>2, <1>5
<1> QED BY <1>5, <1>7, <1>8

\* The durable state.
LEMMA DurableIs ==
    JobInv /\ BundleInv /\ LinkInv =>
        /\ Linked(Frontier) => /\ Durable = Follow[AtSlot(Frontier)] /\ Durable # Broken
                               /\ Durable \in 0..MaxRuns /\ Published(Durable) /\ Refusals(Durable) = {}
                               /\ AtSlot(Frontier) \in 0..MaxRuns /\ Published(AtSlot(Frontier))
        /\ ~Linked(Frontier) => Durable = Broken
<1> SUFFICES ASSUME JobInv, BundleInv, LinkInv, Linked(Frontier)
             PROVE  /\ Durable = Follow[AtSlot(Frontier)] /\ Durable # Broken
                    /\ Durable \in 0..MaxRuns /\ Published(Durable) /\ Refusals(Durable) = {}
                    /\ AtSlot(Frontier) \in 0..MaxRuns /\ Published(AtSlot(Frontier))
    BY DEF Durable
<1>1. AtSlot(Frontier) \in 0..MaxRuns /\ Published(AtSlot(Frontier))
    <2>1. CASE Frontier = 0
        BY <2>1, Candidates, WindowAssumption DEF JobInv, QualificationTypeOK, Published, Genesis, GenesisBundle
    <2>2. CASE Frontier # 0
        <3>1. AtSlot(Frontier) \in SlotBundles(Frontier)
            BY <2>2, FrontierSays, Candidates, WindowAssumption DEF Slots
        <3> QED BY <3>1, WindowAssumption DEF SlotBundles, Runs, Published
    <2> QED BY <2>1, <2>2
<1>2. \A i \in 0..MaxRuns : i # Broken
    BY WindowAssumption DEF Broken
<1> QED BY <1>1, <1>2, FollowEnds DEF Durable

----------------------------------------------------------------------------
\* Control states.

Cadences == {"DAILY", "EVERY_2_DAYS", "WEEKLY"}
DoneRuns == {q \in Runs : pc[q] = "done"}

\* What holds of every published control state, the genesis one included.
StateOK(s) ==
    /\ s.consumed \in BOOLEAN /\ s.cadence \in Cadences /\ s.anchor \in 0..SlotCount
    /\ s.cadence = "DAILY" <=> s.anchor = 0
    /\ s.reason \in Reasons /\ s.index \in 0..SlotCount /\ s.rows \subseteq DoneRuns
    /\ s.reason # None => s.consumed
    /\ s.consumed /\ s.reason = None => s.index = SlotCount
    /\ ~s.consumed => s.cadence = "DAILY" /\ Spend(s.rows) <= Trigger

LEMMA SpendIsNat == QualificationTypeOK => \A S \in SUBSET Runs : Spend(S) \in Nat
<1> SUFFICES ASSUME QualificationTypeOK, NEW S \in SUBSET Runs PROVE Spend(S) \in Nat
    OBVIOUS
<1>1. IsFiniteSet(Runs)
    BY FS_Interval, WindowAssumption DEF Runs
<1>2. IsFiniteSet(S)
    BY <1>1, FS_Subset
<1>3. \A x \in S : cost[x] \in Nat
    BY DEF QualificationTypeOK
<1>4. SumFunctionOnSet(cost, S) \in Nat
    BY <1>2, <1>3, SumType
<1>5. base \in Nat
    BY WindowAssumption DEF QualificationTypeOK
<1> QED BY <1>4, <1>5 DEF Spend

LEMMA StatesOK == JobInv /\ BundleInv => \A i \in 0..MaxRuns : Published(i) => StateOK(bundle[i])
<1> SUFFICES ASSUME JobInv, BundleInv, NEW i \in 0..MaxRuns, Published(i) PROVE StateOK(bundle[i])
    OBVIOUS
<1>1. CASE i = 0
    <2>1. bundle[i] = GenesisBundle
        BY <1>1 DEF JobInv, QualificationTypeOK, Genesis
    <2>2. Spend({}) <= Trigger
        <3>1. SumFunctionOnSet(cost, {}) = 0
            BY SumEmpty
        <3> QED BY <3>1, WindowAssumption DEF Spend, JobInv, QualificationTypeOK
    <2>3. GenesisBundle.rows = {} /\ GenesisBundle.consumed = FALSE
        BY DEF GenesisBundle
    <2>4. /\ GenesisBundle.cadence = "DAILY" /\ GenesisBundle.anchor = 0
          /\ GenesisBundle.reason = None /\ GenesisBundle.index = 0 /\ 0 \in 0..SlotCount
        BY WindowAssumption DEF GenesisBundle
    <2> QED BY <2>1, <2>2, <2>3, <2>4 DEF StateOK, Cadences, Reasons
<1>2. CASE i # 0
    <2>1. i \in Runs
        BY <1>2, WindowAssumption DEF Runs
    <2>2. bundle[i] # NoBundle
        BY DEF Published, NoBundle
    <2>3. bundle[i] \in Bundles
        BY <2>1, <2>2 DEF JobInv, QualificationTypeOK
    <2>4. /\ bundle[i].consumed \in BOOLEAN /\ bundle[i].cadence \in Cadences
          /\ bundle[i].anchor \in 0..SlotCount /\ bundle[i].reason \in Reasons
          /\ bundle[i].index \in 0..SlotCount /\ bundle[i].spend \in Nat /\ bundle[i].rows \in SUBSET Runs
        BY <2>3 DEF Bundles, Cadences
    <2>5. /\ bundle[i].reason # None => bundle[i].consumed
          /\ bundle[i].consumed /\ bundle[i].reason = None => bundle[i].index = SlotCount
          /\ bundle[i].cadence = "DAILY" <=> bundle[i].anchor = 0
        BY <2>1, <2>2 DEF JobInv, QualificationTypeOK
    <2>6. BundleSound(i)
        BY <2>1 DEF BundleInv
    <2>7. ~bundle[i].consumed => Spend(bundle[i].rows) <= Trigger
        <3>1. Spend(bundle[i].rows) \in Nat /\ Trigger \in Nat
            BY <2>4, SpendIsNat, WindowAssumption DEF JobInv
        <3> QED BY <2>4, <2>6, <3>1 DEF BundleSound
    <2> QED BY <2>4, <2>5, <2>6, <2>7 DEF StateOK, BundleSound, DoneRuns
<1> QED BY <1>1, <1>2

\* What evaluate_scheduled_trigger decides on a control state s: a window is
\* consumed by a refusal alone, and an active one keeps its daily cadence.
DecisionOK(s, spend, d) ==
    /\ d.outcome \in {"CADENCE_SKIP", "COST_CADENCE_REFUSAL", "PROCEED"}
    /\ d.consume \in BOOLEAN /\ d.cadence \in Lower(s.cadence) /\ d.cadence \in Cadences
    /\ d.anchor \in 0..SlotCount /\ (d.cadence = "DAILY" <=> d.anchor = 0)
    /\ d.consume => ~s.consumed /\ d.outcome = "COST_CADENCE_REFUSAL"
    /\ ~s.consumed /\ d.outcome # "PROCEED" /\ ~d.consume => ~(spend > Trigger)
    /\ ~s.consumed => d.cadence = "DAILY"
    /\ d.cadence = s.cadence => d.anchor = s.anchor

LEMMA DecisionSays ==
    ASSUME NEW s, s.consumed \in BOOLEAN, s.cadence \in Cadences, s.anchor \in 0..SlotCount,
           s.cadence = "DAILY" <=> s.anchor = 0, ~s.consumed => s.cadence = "DAILY",
           NEW spend \in Nat, NEW n \in Slots
    PROVE  DecisionOK(s, spend, Decision(s, spend, n))
<1> DEFINE d == Decision(s, spend, n)
           breach == ~s.consumed /\ spend > Trigger
           over == spend + Allowance > Ceiling
           low == IF s.cadence = "DAILY" THEN "EVERY_2_DAYS" ELSE "WEEKLY"
           Ref(o, c, e, a) == [outcome |-> o, consume |-> c, cadence |-> e, anchor |-> a]
<1>1. (spend + Allowance <= Ceiling) <=> ~over
    BY WindowAssumption
<1>2. d = CASE ~Eligible(s, n) -> Ref("CADENCE_SKIP", FALSE, s.cadence, s.anchor)
            [] Eligible(s, n) /\ (over \/ breach) ->
                   Ref("COST_CADENCE_REFUSAL", breach, s.cadence, s.anchor)
            [] Eligible(s, n) /\ spend + Allowance <= Ceiling /\ ~breach ->
                   IF s.cadence # "WEEKLY" /\ spend > Trigger
                   THEN Ref("CADENCE_SKIP", FALSE, low, n)
                   ELSE Ref("PROCEED", FALSE, s.cadence, s.anchor)
    BY DEF Decision
<1>3. n \in 0..SlotCount /\ n # 0
    BY WindowAssumption DEF Slots
<1>4. ~s.consumed => Eligible(s, n)
    BY DEF Eligible
<1>5. \/ d = Ref("CADENCE_SKIP", FALSE, s.cadence, s.anchor) /\ s.consumed
      \/ d = Ref("COST_CADENCE_REFUSAL", breach, s.cadence, s.anchor)
      \/ d = Ref("CADENCE_SKIP", FALSE, low, n) /\ s.cadence # "WEEKLY" /\ s.consumed
      \/ d = Ref("PROCEED", FALSE, s.cadence, s.anchor)
    <2> DEFINE el == Eligible(s, n)  ok == spend + Allowance <= Ceiling
    <2>1. breach => ~s.consumed
        OBVIOUS
    <2>2. ~breach /\ spend > Trigger => s.consumed
        OBVIOUS
    <2> HIDE DEF d, over, Ref, low, breach, el, ok
    <2>3. CASE ~el
        <3>1. d = Ref("CADENCE_SKIP", FALSE, s.cadence, s.anchor)
            BY <1>2, <2>3 DEF el
        <3> QED BY <1>4, <2>3, <3>1 DEF el
    <2>4. CASE el /\ (over \/ breach)
        BY <1>1, <1>2, <2>4 DEF el
    <2>5. CASE el /\ ~over /\ ~breach
        <3>1. d = IF s.cadence # "WEEKLY" /\ spend > Trigger
                  THEN Ref("CADENCE_SKIP", FALSE, low, n)
                  ELSE Ref("PROCEED", FALSE, s.cadence, s.anchor)
            BY <1>1, <1>2, <2>5 DEF el
        <3> QED BY <2>2, <2>5, <3>1
    <2> QED BY <2>3, <2>4, <2>5
<1>6. /\ s.cadence \in Lower(s.cadence) /\ low \in Cadences
      /\ s.cadence # "WEEKLY" => low \in Lower(s.cadence) /\ low # s.cadence /\ low # "DAILY"
    BY DEF Lower, Cadences
<1>7. \A o, c, e, a : /\ Ref(o, c, e, a).outcome = o /\ Ref(o, c, e, a).consume = c
                      /\ Ref(o, c, e, a).cadence = e /\ Ref(o, c, e, a).anchor = a
    OBVIOUS
<1>8. breach \in BOOLEAN /\ (breach => ~s.consumed) /\ (~s.consumed /\ ~breach => ~(spend > Trigger))
    OBVIOUS
<1>9. DecisionOK(s, spend, d)
    <2> HIDE DEF d, breach, over, low, Ref
    <2>1. CASE d = Ref("CADENCE_SKIP", FALSE, s.cadence, s.anchor) /\ s.consumed
        <3>1. d.outcome = "CADENCE_SKIP" /\ ~d.consume /\ d.cadence = s.cadence /\ d.anchor = s.anchor
            BY <2>1 DEF Ref
        <3>2. d.consume \in BOOLEAN
            BY <2>1 DEF Ref
        <3> QED BY <1>6, <2>1, <3>1, <3>2 DEF DecisionOK
    <2>2. CASE d = Ref("COST_CADENCE_REFUSAL", breach, s.cadence, s.anchor)
        BY <1>6, <1>7, <1>8, <2>2 DEF DecisionOK
    <2>3. CASE d = Ref("CADENCE_SKIP", FALSE, low, n) /\ s.cadence # "WEEKLY" /\ s.consumed
        <3>1. d.outcome = "CADENCE_SKIP" /\ ~d.consume /\ d.cadence = low /\ d.anchor = n
            BY <2>3 DEF Ref
        <3>2. d.consume \in BOOLEAN
            BY <2>3 DEF Ref
        <3> QED BY <1>3, <1>6, <2>3, <3>1, <3>2 DEF DecisionOK
    <2>4. CASE d = Ref("PROCEED", FALSE, s.cadence, s.anchor)
        <3>1. d.outcome = "PROCEED" /\ ~d.consume /\ d.cadence = s.cadence /\ d.anchor = s.anchor
            BY <2>4 DEF Ref
        <3>2. d.consume \in BOOLEAN
            BY <2>4 DEF Ref
        <3> QED BY <1>6, <2>4, <3>1, <3>2 DEF DecisionOK
    <2> QED BY <1>5, <2>1, <2>2, <2>3, <2>4
<1> QED BY <1>9

\* _refusal_control_state writes what reconstruct_refusal_decision accepts.
LEMMA RefusalSound ==
    ASSUME JobInv, BundleInv, NEW r \in Runs, slot[r] \in Slots, NEW i \in 0..MaxRuns, Published(i),
           Decision(bundle[i], Spend(bundle[i].rows), slot[r]).outcome # "PROCEED"
    PROVE  LET s == RefusalBundle(r, i)
           IN  /\ s \in Bundles /\ s.kind = "REFUSAL" /\ s.pred = i
               /\ s.rows = bundle[i].rows /\ s.spend = Spend(bundle[i].rows)
               /\ s.reason # None => s.consumed
               /\ s.consumed /\ s.reason = None => s.index = SlotCount
               /\ s.cadence = "DAILY" <=> s.anchor = 0
               /\ ~s.consumed => s.spend <= Trigger /\ s.cadence = "DAILY"
               /\ bundle[i].consumed => s.consumed
               /\ TransitionValid(bundle[i], s)
<1> DEFINE d == bundle[i]
           spend == Spend(d.rows)
           n == slot[r]
           dec == Decision(d, spend, n)
           s == RefusalBundle(r, i)
<1>1. StateOK(d)
    BY StatesOK
<1>2. d.rows \in SUBSET Runs /\ spend \in Nat /\ n \in Slots /\ Trigger \in Nat
    BY <1>1, SpendIsNat, WindowAssumption DEF StateOK, DoneRuns, JobInv
<1>3. DecisionOK(d, spend, dec)
    <2> HIDE DEF d, spend, n
    <2> QED BY <1>1, <1>2, DecisionSays DEF StateOK
<1>4. /\ s.kind = "REFUSAL" /\ s.slot = n /\ s.pred = i /\ s.outcome = dec.outcome /\ s.rows = d.rows
      /\ s.spend = spend /\ s.index = d.index /\ s.consumed = (d.consumed \/ dec.consume)
      /\ s.reason = (IF dec.consume THEN dec.outcome ELSE d.reason)
      /\ s.cadence = dec.cadence /\ s.anchor = dec.anchor
    BY DEF RefusalBundle
<1>5. s \in Bundles
    <2>1. s = [kind |-> "REFUSAL", slot |-> n, pred |-> i, outcome |-> dec.outcome, rows |-> d.rows,
               spend |-> spend, index |-> d.index, consumed |-> d.consumed \/ dec.consume,
               reason |-> IF dec.consume THEN dec.outcome ELSE d.reason,
               cadence |-> dec.cadence, anchor |-> dec.anchor]
        BY DEF RefusalBundle
    <2>2. dec.outcome \in Outcomes \cup {None}
        BY <1>3 DEF DecisionOK, Outcomes
    <2>3. (IF dec.consume THEN dec.outcome ELSE d.reason) \in Reasons
        BY <1>1, <1>3 DEF DecisionOK, StateOK, Reasons
    <2>4. n \in 0..SlotCount
        BY <1>2, WindowAssumption DEF Slots
    <2>5. (d.consumed \/ dec.consume) \in BOOLEAN /\ d.index \in 0..SlotCount /\ i \in 0..MaxRuns
        BY <1>1 DEF StateOK
    <2>6. dec.cadence \in {"DAILY", "EVERY_2_DAYS", "WEEKLY"} /\ dec.anchor \in 0..SlotCount
        BY <1>3 DEF DecisionOK, Cadences
    <2> HIDE DEF d, spend, n, dec, s
    <2> QED BY <1>2, <2>1, <2>2, <2>3, <2>4, <2>5, <2>6 DEF Bundles
<1>6. dec.outcome # "PROCEED" /\ dec.consume \in BOOLEAN /\ dec.outcome # None
    BY <1>3 DEF DecisionOK, None
<1>7. ~s.consumed => s.spend <= Trigger /\ s.cadence = "DAILY"
    <2>1. ~s.consumed => ~(spend > Trigger) /\ s.cadence = "DAILY"
        <3> HIDE DEF d, spend, n, dec, s
        <3> QED BY <1>3, <1>4, <1>6 DEF DecisionOK
    <2>2. spend > Trigger \/ spend <= Trigger
        BY <1>2
    <2> QED BY <1>4, <2>1, <2>2
<1>8. TransitionValid(d, s)
    <2>1. Decision(d, s.spend, s.slot) = dec
        BY <1>4
    <2> HIDE DEF d, spend, n, dec, s
    <2> QED BY <1>1, <1>3, <1>4, <1>6, <2>1 DEF TransitionValid, DecisionOK, StateOK
<1>9. /\ s.reason # None => s.consumed
      /\ s.consumed /\ s.reason = None => s.index = SlotCount
      /\ s.cadence = "DAILY" <=> s.anchor = 0
      /\ d.consumed => s.consumed
    <2> HIDE DEF d, spend, n, dec, s
    <2> QED BY <1>1, <1>3, <1>4, <1>6 DEF StateOK, DecisionOK
<1> QED BY <1>4, <1>5, <1>7, <1>8, <1>9

\* _slot_successor_control_state writes what classify_run accepts.
LEMMA SlotSound ==
    ASSUME JobInv, BundleInv, NEW r \in Runs, pc[r] = "ran",
           NEW i \in 0..MaxRuns, Published(i), bundle[i].index = slot[r] - 1,
           NEW j \in 0..MaxRuns, Published(j), bundle[i].consumed => bundle[j].consumed
    PROVE  LET rows == bundle[j].rows \cup {r}
               s == SlotBundle(slot[r], i, Claimed(r, bundle[j]), rows, Spend(rows))
           IN  /\ s \in Bundles /\ s.kind = "SLOT" /\ s.pred = i
               /\ s.slot = slot[r] /\ s.index = slot[r] /\ s.rows = rows /\ s.spend = Spend(rows)
               /\ s.reason # None => s.consumed
               /\ s.consumed /\ s.reason = None => s.index = SlotCount
               /\ s.cadence = "DAILY" <=> s.anchor = 0
               /\ ~s.consumed => s.spend <= Trigger /\ s.cadence = "DAILY"
               /\ s.outcome = "QUALIFYING" => status[r] = "COMPLETED"
               /\ bundle[j].consumed => s.consumed /\ s.outcome # "QUALIFYING"
               /\ Agrees(bundle[i], s)
<1> DEFINE p == bundle[i]
           d == bundle[j]
           n == slot[r]
           rows == d.rows \cup {r}
           spend == Spend(rows)
           out == Claimed(r, d)
           con == Consumption(out, n, p, spend)
           s == SlotBundle(n, i, out, rows, spend)
<1>1. StateOK(p) /\ StateOK(d)
    BY StatesOK
<1>2. rows \in SUBSET Runs /\ spend \in Nat /\ Trigger \in Nat /\ SlotCount \in Nat
    BY <1>1, SpendIsNat, WindowAssumption DEF StateOK, DoneRuns, JobInv
<1>3. n \in Slots /\ n \in 1..SlotCount /\ n \in 0..SlotCount /\ n # 0
    <2>1. slot[r] \in 0..SlotCount /\ slot[r] # 0
        BY DEF JobInv, QualificationTypeOK
    <2> QED BY <2>1, WindowAssumption DEF Slots
<1>4. /\ out \in {"STATE_CHAIN_FAILURE", "FAILED_NONTERMINAL", "QUALIFYING"}
      /\ out = "QUALIFYING" => ~d.consumed /\ status[r] = "COMPLETED"
    BY DEF Claimed
<1>5. /\ s.kind = "SLOT" /\ s.slot = n /\ s.pred = i /\ s.outcome = out /\ s.rows = rows
      /\ s.spend = spend /\ s.index = n /\ s.consumed = con.consumed
      /\ s.reason = con.reason /\ s.cadence = p.cadence /\ s.anchor = p.anchor
    BY DEF SlotBundle
\* An active predecessor, or none of this is a qualifying slot.
<1>6. /\ p.consumed \in BOOLEAN /\ p.reason \in Reasons /\ (~p.consumed => p.reason = None)
      /\ out = "QUALIFYING" => ~p.consumed
    BY <1>1, <1>4 DEF StateOK
<1> DEFINE more == spend > Trigger
<1>7. /\ (spend <= Trigger) <=> ~more
      /\ more \in BOOLEAN
    BY <1>2
<1>8. /\ out # "QUALIFYING" => con.consumed /\ con.reason = out
      /\ out = "QUALIFYING" /\ more => con.consumed /\ con.reason = "POST_RUN_COST_TRIGGER"
      /\ out = "QUALIFYING" /\ ~more /\ n = SlotCount => con.consumed /\ con.reason = None
      /\ out = "QUALIFYING" /\ ~more /\ n # SlotCount => ~con.consumed /\ con.reason = None
      /\ con.consumed \in BOOLEAN
    <2>1. CASE out # "QUALIFYING"
        BY <2>1 DEF Consumption
    <2>2. CASE out = "QUALIFYING" /\ more
        BY <1>6, <2>2 DEF Consumption
    <2>3. CASE out = "QUALIFYING" /\ ~more /\ n = SlotCount
        BY <1>6, <2>3 DEF Consumption
    <2>4. CASE out = "QUALIFYING" /\ ~more /\ n # SlotCount
        BY <1>6, <2>4 DEF Consumption
    <2> QED BY <2>1, <2>2, <2>3, <2>4
<1>9. s \in Bundles
    <2>1. s = [kind |-> "SLOT", slot |-> n, pred |-> i, outcome |-> out, rows |-> rows,
               spend |-> spend, index |-> n, consumed |-> con.consumed, reason |-> con.reason,
               cadence |-> p.cadence, anchor |-> p.anchor]
        BY DEF SlotBundle
    <2>2. out \in Outcomes \cup {None}
        BY <1>4 DEF Outcomes
    <2>3. con.reason \in Reasons
        BY <1>4, <1>7, <1>8 DEF Reasons
    <2>4. p.cadence \in {"DAILY", "EVERY_2_DAYS", "WEEKLY"} /\ p.anchor \in 0..SlotCount
        BY <1>1 DEF StateOK, Cadences
    <2> HIDE DEF p, d, n, rows, spend, out, con, s
    <2> QED BY <1>2, <1>3, <1>8, <2>1, <2>2, <2>3, <2>4 DEF Bundles
<1>10. /\ s.reason # None => s.consumed
       /\ s.consumed /\ s.reason = None => s.index = SlotCount
       /\ s.cadence = "DAILY" <=> s.anchor = 0
       /\ ~s.consumed => s.spend <= Trigger /\ s.cadence = "DAILY"
       /\ d.consumed => s.consumed /\ s.outcome # "QUALIFYING"
    <2>1. out # None /\ "POST_RUN_COST_TRIGGER" # None
        BY <1>4 DEF None
    <2>2. ~s.consumed => ~more /\ out = "QUALIFYING"
        BY <1>5, <1>7, <1>8
    <2> HIDE DEF p, d, n, rows, spend, out, con, s, more
    <2>3. (s.reason # None => s.consumed) /\ (d.consumed => s.consumed /\ s.outcome # "QUALIFYING")
        BY <1>4, <1>5, <1>7, <1>8
    <2>4. s.consumed /\ s.reason = None => s.index = SlotCount
        BY <1>4, <1>5, <1>7, <1>8, <2>1
    <2>5. s.cadence = "DAILY" <=> s.anchor = 0
        BY <1>1, <1>5 DEF StateOK
    <2>6. ~s.consumed => s.spend <= Trigger
        BY <1>5, <1>7, <2>2
    <2>7. ~s.consumed => s.cadence = "DAILY"
        BY <1>1, <1>5, <1>6, <2>2 DEF StateOK
    <2> QED BY <2>3, <2>4, <2>5, <2>6, <2>7
<1>11. Agrees(p, s)
    <2>1. out = "QUALIFYING" => TransitionValid(p, s)
        <3>1. p.cadence \in Lower(p.cadence)
            BY <1>1 DEF StateOK, Cadences, Lower
        <3>2. n = p.index + 1
            <4>1. p.index \in Nat /\ n \in Nat /\ p.index = n - 1
                BY <1>1, <1>2, <1>3 DEF StateOK
            <4> HIDE DEF p, n
            <4> QED BY <4>1
        <3> HIDE DEF p, d, n, rows, spend, out, con, s
        <3> QED BY <1>5, <1>6, <3>1, <3>2 DEF TransitionValid
    <2>2. Classified(p, s) = s.outcome
        BY <1>5, <2>1 DEF Classified
    <2>3. BindingHolds(s.outcome, p, s)
        <3> HIDE DEF p, d, n, rows, spend, out, con, s
        <3>1. CASE out # "QUALIFYING"
            BY <1>5, <1>8, <3>1 DEF BindingHolds
        <3>2. CASE out = "QUALIFYING" /\ more
            BY <1>5, <1>6, <1>7, <1>8, <3>2 DEF BindingHolds
        <3>3. CASE out = "QUALIFYING" /\ ~more /\ n = SlotCount
            BY <1>5, <1>6, <1>7, <1>8, <3>3 DEF BindingHolds
        <3>4. CASE out = "QUALIFYING" /\ ~more /\ n # SlotCount
            BY <1>5, <1>6, <1>7, <1>8, <3>4 DEF BindingHolds
        <3> QED BY <3>1, <3>2, <3>3, <3>4
    <2> QED BY <2>2, <2>3 DEF Agrees
<1> QED BY <1>4, <1>5, <1>9, <1>10, <1>11

----------------------------------------------------------------------------
\* Steps.

\* Every step but Refuse and Publish leaves what is published alone, and with it
\* the slots, the links and the durable state.
LEMMA QuietSteps ==
    ASSUME bundle' = bundle
    PROVE  /\ Durable' = Durable /\ Frontier' = Frontier
           /\ \A n : SlotBundles(n)' = SlotBundles(n) /\ AtSlot(n)' = AtSlot(n) /\ Linked(n)' = Linked(n)
           /\ \A i : Published(i)' = Published(i)
<1>1. Durable' = Durable /\ Frontier' = Frontier
    BY DEF Durable, Follow, Frontier, Linked, SlotBundles, AtSlot, Refusals, TransitionValid, Decision, Eligible, Lower
<1>2. \A n : SlotBundles(n)' = SlotBundles(n)
    BY DEF SlotBundles
<1>3. \A n : AtSlot(n)' = AtSlot(n)
    BY DEF AtSlot, SlotBundles
<1>4. \A n : Linked(n)' = Linked(n)
    BY <1>2, <1>3 DEF Linked
<1> QED BY <1>1, <1>2, <1>3, <1>4 DEF Published

\* What is over stays as it is, and rows only age.
OverStays ==
    /\ base' \in Nat /\ base' <= base
    /\ \A q \in Runs : pc[q] = "done" => /\ pc'[q] = "done" /\ cost'[q] = cost[q]
                                         /\ status'[q] = status[q] /\ slot'[q] = slot[q]

LEMMA Over == ASSUME JobInv, QualificationNext PROVE OverStays
<1>1. base \in Nat /\ base <= base
    BY WindowAssumption DEF JobInv, QualificationTypeOK
<1> USE DEF JobInv, QualificationTypeOK, OverStays
<1>2. CASE NextDay
    BY <1>1, <1>2 DEF NextDay
<1>3. CASE Age
    BY <1>1, <1>3 DEF Age
<1>4. ASSUME NEW r \in Runs, Fire(r) PROVE OverStays
    BY <1>1, <1>4 DEF Fire
<1>5. ASSUME NEW r \in Runs, Execute(r) PROVE OverStays
    BY <1>1, <1>5 DEF Execute, Evaluated
<1>6. ASSUME NEW r \in Runs, Refuse(r) PROVE OverStays
    BY <1>1, <1>6 DEF Refuse, Evaluated
<1>7. ASSUME NEW r \in Runs, Publish(r) PROVE OverStays
    BY <1>1, <1>7 DEF Publish
<1>8. ASSUME NEW r \in Runs, Ends(r) PROVE OverStays
    BY <1>1, <1>8 DEF Ends
<1> QED BY <1>2, <1>3, <1>4, <1>5, <1>6, <1>7, <1>8 DEF QualificationNext

\* A slot before which nothing is missing is not past the frontier.
LEMMA FrontierReaches ==
    \A n \in 0..SlotCount : Linked(n) => n <= Frontier
<1> SUFFICES ASSUME NEW n \in 0..SlotCount, Linked(n), ~(n <= Frontier) PROVE FALSE
    OBVIOUS
<1>1. Frontier < SlotCount /\ Frontier + 1 \in 1..n
    BY FrontierSays, WindowAssumption
<1>2. SlotBundles(Frontier + 1) = {AtSlot(Frontier + 1)}
    BY <1>1, LinkedSays
<1> QED BY <1>1, <1>2, FrontierSays

\* What the run that is past S12 builds upon.
LEMMA PendingIs ==
    ASSUME QualificationInv, NEW r \in Runs, pc[r] = "ran", HasPredecessor(r)
    PROVE  /\ slot[r] \in Slots /\ slot[r] - 1 \in 0..SlotCount /\ slot[r] - 1 <= Frontier
           /\ Linked(slot[r] - 1) /\ Linked(Frontier)
           /\ AtSlot(slot[r] - 1) \in 0..MaxRuns /\ Published(AtSlot(slot[r] - 1))
           /\ bundle[AtSlot(slot[r] - 1)].index = slot[r] - 1
           /\ Durable \in 0..MaxRuns /\ Published(Durable) /\ Refusals(Durable) = {} /\ Durable # Broken
           /\ bundle[AtSlot(slot[r] - 1)].consumed => bundle[Durable].consumed
<1> DEFINE n == slot[r]
           m == n - 1
           i == AtSlot(m)
<1>0. JobInv /\ BundleInv /\ LinkInv
    BY DEF QualificationInv
<1>1. n \in Slots /\ m \in 0..SlotCount
    <2>1. n \in 0..SlotCount /\ n # 0
        BY <1>0 DEF JobInv, QualificationTypeOK
    <2> QED BY <2>1, WindowAssumption DEF Slots
<1>2. Linked(m)
    BY DEF HasPredecessor
<1>3. m <= Frontier
    BY <1>1, <1>2, FrontierReaches
<1>4. Durable # Broken
    BY <1>0 DEF JobInv
<1>5. /\ Linked(Frontier) /\ Durable \in 0..MaxRuns /\ Published(Durable) /\ Refusals(Durable) = {}
    BY <1>0, <1>4, DurableIs
<1>6. /\ i \in 0..MaxRuns /\ Published(i) /\ bundle[i].index = m
      /\ bundle[i].consumed => m # 0
    <2>1. CASE m = 0
        <3>1. i = 0 /\ bundle[i] = GenesisBundle
            BY <1>0, <2>1, Candidates DEF Genesis, JobInv, QualificationTypeOK
        <3>2. GenesisBundle.kind = "GENESIS" /\ GenesisBundle.index = 0 /\ GenesisBundle.consumed = FALSE
            BY DEF GenesisBundle
        <3> QED BY <2>1, <3>1, <3>2, WindowAssumption DEF Published
    <2>2. CASE m # 0
        <3>1. m \in 1..m /\ m \in Slots
            BY <1>1, <2>2, WindowAssumption DEF Slots
        <3>2. i \in SlotBundles(m)
            BY <1>1, <1>2, <3>1, LinkedSays
        <3>3. i \in Runs /\ bundle[i].kind = "SLOT" /\ bundle[i].slot = m
            BY <3>2 DEF SlotBundles
        <3>4. Published(i) /\ BundleSound(i)
            BY <1>0, <3>3 DEF Published, BundleInv
        <3>5. bundle[i].index = m
            BY <3>3, <3>4 DEF BundleSound
        <3>6. i \in 0..MaxRuns
            BY <3>3, WindowAssumption DEF Runs
        <3> QED BY <2>2, <3>4, <3>5, <3>6
    <2> QED BY <2>1, <2>2
<1>7. bundle[i].consumed => bundle[Durable].consumed
    <2> SUFFICES ASSUME bundle[i].consumed PROVE bundle[Durable].consumed
        OBVIOUS
    <2>1. m \in 1..Frontier
        <3>1. m # 0
            BY <1>6
        <3>2. Frontier \in 0..SlotCount
            BY FrontierSays
        <3> HIDE DEF m
        <3> QED BY <1>1, <1>3, <3>1, <3>2, WindowAssumption
    <2> QED BY <1>4, <2>1 DEF QualificationInv, RowsInv
<1> QED BY <1>1, <1>2, <1>3, <1>4, <1>5, <1>6, <1>7


\* What a run that publishes s leaves, and what its bundle is worth.
Adds(r, s) ==
    /\ pc' = [pc EXCEPT ![r] = "done"] /\ UNCHANGED <<day, base, slot, cost, status>>
    /\ bundle' = [bundle EXCEPT ![r] = s]

Worth(r, s) ==
    /\ pc[r] \in {"queued", "ran"} /\ slot[r] \in Slots /\ ~Published(r)
    /\ \A q \in Runs : pc[q] = "ran" => q = r
    /\ s \in Bundles /\ s.kind \in {"SLOT", "REFUSAL"}
    /\ s.reason # None => s.consumed
    /\ s.consumed /\ s.reason = None => s.index = SlotCount
    /\ s.cadence = "DAILY" <=> s.anchor = 0
    /\ ~s.consumed => s.spend <= Trigger /\ s.cadence = "DAILY"
    /\ s.rows \in SUBSET Runs /\ s.rows \subseteq DoneRuns \cup {r} /\ s.spend = Spend(s.rows)
    /\ s.pred \in 0..MaxRuns /\ Published(s.pred)
    /\ s.kind = "SLOT" =>
          /\ s.slot = slot[r] /\ s.index = slot[r]
          /\ s.outcome = "QUALIFYING" => status[r] = "COMPLETED"
          /\ Agrees(bundle[s.pred], s)
    /\ s.kind = "REFUSAL" => TransitionValid(bundle[s.pred], s)
    /\ bundle[Durable].consumed => s.consumed
    /\ Linked(Frontier) /\ Durable # Broken /\ Durable \in 0..MaxRuns /\ Published(Durable)
    /\ Refusals(Durable) = {}

LEMMA PublishAdds ==
    ASSUME QualificationInv, NEW r \in Runs, Publish(r)
    PROVE  LET s == Successor(r, bundle[Durable])
           IN  /\ Adds(r, s) /\ Worth(r, s) /\ HasPredecessor(r)
               /\ s.kind = "SLOT" /\ s.pred = AtSlot(slot[r] - 1) /\ slot[r] - 1 <= Frontier
               /\ s.rows = bundle[Durable].rows \cup {r}
               /\ bundle[Durable].consumed => s.outcome # "QUALIFYING"
<1> DEFINE s == Successor(r, bundle[Durable])
           i == AtSlot(slot[r] - 1)
           j == Durable
           rows == bundle[j].rows \cup {r}
<1>0. JobInv /\ BundleInv /\ LinkInv
    BY DEF QualificationInv
<1>1. pc[r] = "ran" /\ HasPredecessor(r)
    BY DEF Publish
<1>2. Adds(r, s)
    BY DEF Publish, Adds
<1>3. ~Published(r) /\ \A q \in Runs : pc[q] = "ran" => q = r
    BY <1>0, <1>1 DEF JobInv
<1>4. /\ slot[r] \in Slots /\ Linked(Frontier) /\ slot[r] - 1 <= Frontier
      /\ i \in 0..MaxRuns /\ Published(i) /\ bundle[i].index = slot[r] - 1
      /\ j \in 0..MaxRuns /\ Published(j) /\ Refusals(j) = {} /\ j # Broken
      /\ bundle[i].consumed => bundle[j].consumed
    BY <1>1, PendingIs
<1>5. s = SlotBundle(slot[r], i, Claimed(r, bundle[j]), rows, Spend(rows))
    BY DEF Successor
<1>6. /\ s \in Bundles /\ s.kind = "SLOT" /\ s.pred = i
      /\ s.slot = slot[r] /\ s.index = slot[r] /\ s.rows = rows /\ s.spend = Spend(rows)
      /\ s.reason # None => s.consumed
      /\ s.consumed /\ s.reason = None => s.index = SlotCount
      /\ s.cadence = "DAILY" <=> s.anchor = 0
      /\ ~s.consumed => s.spend <= Trigger /\ s.cadence = "DAILY"
      /\ s.outcome = "QUALIFYING" => status[r] = "COMPLETED"
      /\ bundle[j].consumed => s.consumed /\ s.outcome # "QUALIFYING"
      /\ Agrees(bundle[i], s)
    <2> HIDE DEF s, i, j
    <2> QED BY <1>0, <1>1, <1>4, <1>5, SlotSound
<1>7. rows \in SUBSET Runs /\ rows \subseteq DoneRuns \cup {r}
    <2>1. StateOK(bundle[j])
        BY <1>0, <1>4, StatesOK
    <2> QED BY <2>1 DEF StateOK, DoneRuns
<1>8. Worth(r, s)
    <2> HIDE DEF s, i, rows
    <2> QED BY <1>1, <1>3, <1>4, <1>6, <1>7 DEF Worth
<1> QED BY <1>1, <1>2, <1>4, <1>6, <1>8

LEMMA RefuseAdds ==
    ASSUME QualificationInv, NEW r \in Runs, Refuse(r)
    PROVE  LET s == RefusalBundle(r, Durable)
           IN  /\ Adds(r, s) /\ Worth(r, s) /\ \A q \in Runs : pc[q] # "ran"
               /\ s.kind = "REFUSAL" /\ s.pred = Durable /\ s.rows = bundle[Durable].rows
<1> DEFINE s == RefusalBundle(r, Durable)
           j == Durable
<1>0. JobInv /\ BundleInv /\ LinkInv
    BY DEF QualificationInv
<1>1. pc[r] = "queued" /\ j # Broken /\ \A q \in Runs : pc[q] # "ran"
    BY DEF Refuse, Evaluated
<1>2. Decision(bundle[j], Spend(bundle[j].rows), slot[r]).outcome # "PROCEED"
    BY DEF Refuse, Evaluated
<1>3. Adds(r, s)
    BY DEF Refuse, Adds
<1>4. slot[r] \in Slots
    <2>1. slot[r] \in 0..SlotCount /\ slot[r] # 0
        BY <1>0, <1>1 DEF JobInv, QualificationTypeOK
    <2> QED BY <2>1, WindowAssumption DEF Slots
<1>5. ~Published(r)
    BY <1>0, <1>1 DEF JobInv
<1>6. Linked(Frontier) /\ j \in 0..MaxRuns /\ Published(j) /\ Refusals(j) = {}
    BY <1>0, <1>1, DurableIs
<1>7. /\ s \in Bundles /\ s.kind = "REFUSAL" /\ s.pred = j
      /\ s.rows = bundle[j].rows /\ s.spend = Spend(bundle[j].rows)
      /\ s.reason # None => s.consumed
      /\ s.consumed /\ s.reason = None => s.index = SlotCount
      /\ s.cadence = "DAILY" <=> s.anchor = 0
      /\ ~s.consumed => s.spend <= Trigger /\ s.cadence = "DAILY"
      /\ bundle[j].consumed => s.consumed
      /\ TransitionValid(bundle[j], s)
    BY <1>0, <1>2, <1>4, <1>6, RefusalSound
<1>8. s.rows \in SUBSET Runs /\ s.rows \subseteq DoneRuns \cup {r}
    <2>1. StateOK(bundle[j])
        BY <1>0, <1>6, StatesOK
    <2> QED BY <1>7, <2>1 DEF StateOK, DoneRuns
<1>9. Worth(r, s)
    <2> HIDE DEF s
    <2> QED BY <1>1, <1>4, <1>5, <1>6, <1>7, <1>8 DEF Worth
<1> QED BY <1>1, <1>3, <1>7, <1>9

\* The steps that publish nothing.
Quiet == UNCHANGED bundle /\ (NextDay \/ Age \/ \E r \in Runs : Fire(r) \/ Execute(r) \/ Ends(r))

LEMMA Steps ==
    QualificationInv /\ QualificationNext =>
        Quiet \/ \E r \in Runs : Publish(r) \/ Refuse(r)
BY DEF QualificationNext, Quiet, NextDay, Age, Fire, Execute, Evaluated, Ends

LEMMA JobAdds ==
    ASSUME JobInv, NEW r \in Runs, NEW s, Adds(r, s), Worth(r, s)
    PROVE  JobInv'
<1>1. r # 0 /\ r \in 0..MaxRuns
    BY WindowAssumption DEF Runs
<1>2. bundle'[r] = s /\ \A i \in 0..MaxRuns : i # r => bundle'[i] = bundle[i]
    BY <1>1 DEF Adds, JobInv
<1>3. pc' \in [Runs -> {"none", "queued", "ran", "done"}]
    BY DEF Adds, JobInv, QualificationTypeOK
<1>4. QualificationTypeOK'
    <2>1. bundle'[Genesis] = GenesisBundle
        BY <1>1, <1>2, WindowAssumption DEF Genesis, JobInv, QualificationTypeOK
    <2>2. \A q \in Runs : bundle'[q] = NoBundle \/
              /\ bundle'[q] \in Bundles
              /\ bundle'[q].reason # None => bundle'[q].consumed
              /\ bundle'[q].consumed /\ bundle'[q].reason = None => bundle'[q].index = SlotCount
              /\ bundle'[q].cadence = "DAILY" <=> bundle'[q].anchor = 0
        <3> SUFFICES ASSUME NEW q \in Runs
                     PROVE  bundle'[q] = NoBundle \/
              /\ bundle'[q] \in Bundles
              /\ bundle'[q].reason # None => bundle'[q].consumed
              /\ bundle'[q].consumed /\ bundle'[q].reason = None => bundle'[q].index = SlotCount
              /\ bundle'[q].cadence = "DAILY" <=> bundle'[q].anchor = 0
            OBVIOUS
        <3>1. CASE q = r
            BY <1>2, <3>1 DEF Worth
        <3>2. CASE q # r
            <4>1. bundle'[q] = bundle[q]
                BY <1>2, <3>2, WindowAssumption DEF Runs
            <4> QED BY <4>1 DEF JobInv, QualificationTypeOK
        <3> QED BY <3>1, <3>2
    <2> QED BY <1>3, <2>1, <2>2 DEF Adds, JobInv, QualificationTypeOK
<1>5. bundle' = [i \in 0..MaxRuns |-> bundle'[i]]
    BY <1>1 DEF Adds, JobInv
<1>6. ASSUME NEW q \in Runs
      PROVE  /\ bundle'[q].kind \in {"NONE", "SLOT", "REFUSAL"}
             /\ pc'[q] = "none" <=> slot'[q] = 0
             /\ Published(q)' => pc'[q] = "done"
             /\ cost'[q] > 0 => slot'[q] # 0
             /\ pc'[q] # "ran"
    <2>1. CASE q = r
        <3>1. pc'[r] = "done" /\ slot'[r] = slot[r] /\ slot[r] # 0
            BY WindowAssumption DEF Adds, Worth, JobInv, QualificationTypeOK, Slots
        <3> QED BY <1>2, <2>1, <3>1 DEF Worth
    <2>2. CASE q # r
        <3>1. bundle'[q] = bundle[q] /\ pc'[q] = pc[q] /\ slot'[q] = slot[q] /\ cost'[q] = cost[q]
            BY <1>2, <2>2, WindowAssumption DEF Runs, Adds, JobInv, QualificationTypeOK
        <3>2. pc[q] # "ran"
            BY <2>2 DEF Worth
        <3> QED BY <3>1, <3>2 DEF JobInv, Published
    <2> QED BY <2>1, <2>2
<1> QED BY <1>4, <1>5, <1>6 DEF JobInv

LEMMA JobQuiet == JobInv /\ Quiet => JobInv'
<1> SUFFICES ASSUME JobInv, Quiet PROVE JobInv'
    OBVIOUS
<1>1. Durable' = Durable /\ \A i : Published(i)' = Published(i)
    BY QuietSteps DEF Quiet
<1> DEFINE J(q) == /\ bundle[q].kind \in {"NONE", "SLOT", "REFUSAL"}
                   /\ pc[q] = "none" <=> slot[q] = 0
                   /\ Published(q) => pc[q] = "done"
                   /\ cost[q] > 0 => slot[q] # 0
                   /\ pc[q] = "ran" => Durable # Broken
                   /\ \A p \in Runs : pc[p] = "ran" /\ pc[q] = "ran" => p = q
<1>2. QualificationTypeOK /\ \A q \in Runs : J(q)
    BY DEF JobInv
<1> USE DEF Quiet
<1>3. CASE NextDay
    <2>1. QualificationTypeOK'
        BY <1>2, <1>3, WindowAssumption DEF QualificationTypeOK, NextDay
    <2> QED BY <1>1, <1>3, <2>1 DEF JobInv, NextDay
<1>4. CASE Age
    <2>1. QualificationTypeOK'
        BY <1>2, <1>4, WindowAssumption DEF QualificationTypeOK, Age
    <2> QED BY <1>1, <1>4, <2>1 DEF JobInv, Age
<1>5. ASSUME NEW r \in Runs, Fire(r) PROVE JobInv'
    <2>1. QualificationTypeOK'
        BY <1>2, <1>5, WindowAssumption DEF QualificationTypeOK, Fire, Slots
    <2>2. \A q \in Runs : J(q)'
        <3> SUFFICES ASSUME NEW q \in Runs PROVE J(q)'
            OBVIOUS
        <3>1. \A p \in Runs : p # r => pc'[p] = pc[p] /\ slot'[p] = slot[p]
            BY <1>2, <1>5 DEF QualificationTypeOK, Fire
        <3>2. pc'[r] = "queued" /\ slot'[r] = day /\ day # 0 /\ cost' = cost /\ bundle' = bundle /\ pc[r] = "none"
            BY <1>2, <1>5, WindowAssumption DEF QualificationTypeOK, Fire, Slots
        <3>3. J(q)
            BY <1>2
        <3> QED BY <1>1, <3>1, <3>2, <3>3
    <2> QED BY <1>5, <2>1, <2>2 DEF JobInv, Fire
<1>6. ASSUME NEW r \in Runs, Execute(r) PROVE JobInv'
    <2>1. QualificationTypeOK'
        BY <1>2, <1>6, WindowAssumption DEF QualificationTypeOK, Execute, Evaluated
    <2>2. \A q \in Runs : J(q)'
        <3> SUFFICES ASSUME NEW q \in Runs PROVE J(q)'
            OBVIOUS
        <3>1. \A p \in Runs : p # r => pc'[p] = pc[p] /\ pc[p] # "ran" /\ cost'[p] = cost[p]
            BY <1>2, <1>6 DEF QualificationTypeOK, Execute, Evaluated
        <3>2. pc'[r] = "ran" /\ slot' = slot /\ bundle' = bundle /\ pc[r] = "queued" /\ Durable # Broken
            BY <1>2, <1>6 DEF QualificationTypeOK, Execute, Evaluated
        <3>3. J(q) /\ J(r)
            BY <1>2
        <3> QED BY <1>1, <3>1, <3>2, <3>3
    <2> QED BY <1>6, <2>1, <2>2 DEF JobInv, Execute
<1>7. ASSUME NEW r \in Runs, Ends(r) PROVE JobInv'
    <2>1. QualificationTypeOK'
        BY <1>2, <1>7 DEF QualificationTypeOK, Ends
    <2>2. \A q \in Runs : J(q)'
        <3> SUFFICES ASSUME NEW q \in Runs PROVE J(q)'
            OBVIOUS
        <3>1. \A p \in Runs : p # r => pc'[p] = pc[p]
            BY <1>2, <1>7 DEF QualificationTypeOK, Ends
        <3>2. pc'[r] = "done" /\ slot' = slot /\ cost' = cost /\ bundle' = bundle /\ pc[r] # "none"
            BY <1>2, <1>7 DEF QualificationTypeOK, Ends
        <3>3. J(q) /\ J(r)
            BY <1>2
        <3> QED BY <1>1, <3>1, <3>2, <3>3
    <2> QED BY <1>7, <2>1, <2>2 DEF JobInv, Ends
<1> QED BY <1>3, <1>4, <1>5, <1>6, <1>7

LEMMA JobNext == QualificationInv /\ QualificationNext => JobInv'
<1> SUFFICES ASSUME QualificationInv, QualificationNext PROVE JobInv'
    OBVIOUS
<1>1. JobInv
    BY DEF QualificationInv
<1>2. CASE Quiet
    BY <1>1, <1>2, JobQuiet
<1>3. ASSUME NEW r \in Runs, Publish(r) PROVE JobInv'
    BY <1>1, <1>3, PublishAdds, JobAdds
<1>4. ASSUME NEW r \in Runs, Refuse(r) PROVE JobInv'
    BY <1>1, <1>4, RefuseAdds, JobAdds
<1> QED BY <1>2, <1>3, <1>4, Steps

\* A published bundle stays sound.
LEMMA BundleStays ==
    ASSUME JobInv, BundleInv, OverStays, NEW r \in Runs, Published(r),
           bundle'[r] = bundle[r], bundle'[bundle[r].pred] = bundle[bundle[r].pred]
    PROVE  BundleSound(r)'
<1> DEFINE s == bundle[r]
<1>1. BundleSound(r)
    BY DEF BundleInv
<1>2. pc[r] = "done" /\ pc'[r] = "done" /\ slot'[r] = slot[r] /\ status'[r] = status[r]
    BY DEF JobInv, OverStays
<1>3. s.rows \in SUBSET Runs /\ s.spend \in Nat
    <2>1. bundle[r] # NoBundle
        BY DEF Published, NoBundle
    <2>2. bundle[r] \in Bundles
        BY <2>1 DEF JobInv, QualificationTypeOK
    <2> QED BY <2>2 DEF Bundles
<1>4. Spend(s.rows)' <= s.spend
    <2> DEFINE S == s.rows
    <2>1. \A q \in S : cost'[q] = cost[q]
        BY <1>1, <1>3 DEF BundleSound, OverStays
    <2>2. base' \in Nat /\ base' <= base /\ base \in Nat
        BY WindowAssumption DEF OverStays, JobInv, QualificationTypeOK
    <2>3. IsFiniteSet(S)
        <3>1. IsFiniteSet(Runs)
            BY FS_Interval, WindowAssumption DEF Runs
        <3> QED BY <1>3, <3>1, FS_Subset
    <2>4. SumFunctionOnSet(cost', S) = SumFunctionOnSet(cost, S)
        <3> HIDE DEF S
        <3> QED BY <2>1, <2>3, SumSame
    <2>5. SumFunctionOnSet(cost, S) \in Nat
        <3>1. \A x \in S : cost[x] \in Nat
            BY <1>3 DEF JobInv, QualificationTypeOK
        <3> HIDE DEF S
        <3> QED BY <2>3, <3>1, SumType
    <2>6. base + SumFunctionOnSet(cost, S) <= s.spend
        BY <1>1 DEF BundleSound, Spend
    <2>7. base' + SumFunctionOnSet(cost', S) <= s.spend
        <3> HIDE DEF S, s
        <3> QED BY <1>3, <2>2, <2>4, <2>5, <2>6
    <2>8. S' = S
        OBVIOUS
    <2> QED BY <2>7, <2>8 DEF Spend
<1>5. s.rows \subseteq {q \in Runs : pc'[q] = "done"}
    BY <1>1 DEF BundleSound, OverStays
<1>6. Published(s.pred)'
    BY <1>1 DEF BundleSound, Published
<1> QED BY <1>1, <1>2, <1>4, <1>5, <1>6 DEF BundleSound
LEMMA BundleAdds ==
    ASSUME QualificationInv, OverStays, NEW r \in Runs, NEW s, Adds(r, s), Worth(r, s)
    PROVE  BundleInv'
<1>0. JobInv /\ BundleInv
    BY DEF QualificationInv
<1>1. bundle'[r] = s /\ \A i \in 0..MaxRuns : i # r => bundle'[i] = bundle[i]
    BY <1>0, WindowAssumption DEF Adds, JobInv, Runs
<1>2. \A q \in Runs : Published(q) => bundle[q].pred \in 0..MaxRuns /\ bundle[q].pred # r
    <2> SUFFICES ASSUME NEW q \in Runs, Published(q)
                 PROVE  bundle[q].pred \in 0..MaxRuns /\ bundle[q].pred # r
        OBVIOUS
    <2>1. bundle[q] # NoBundle
        BY DEF Published, NoBundle
    <2>2. bundle[q] \in Bundles
        BY <1>0, <2>1 DEF JobInv, QualificationTypeOK
    <2>3. bundle[q].pred \in 0..MaxRuns
        BY <2>2 DEF Bundles
    <2>4. Published(bundle[q].pred)
        BY <1>0 DEF BundleInv, BundleSound
    <2> QED BY <2>3, <2>4 DEF Worth
<1>3. ASSUME NEW q \in Runs, q # r, Published(q)' PROVE BundleSound(q)'
    <2>1. bundle'[q] = bundle[q]
        BY <1>1, <1>3, WindowAssumption DEF Runs
    <2>2. Published(q)
        BY <1>3, <2>1 DEF Published
    <2>3. bundle'[bundle[q].pred] = bundle[bundle[q].pred]
        BY <1>1, <1>2, <2>2
    <2> QED BY <1>0, <2>1, <2>2, <2>3, BundleStays
<1>4. BundleSound(r)'
    <2>1. s.pred # r /\ bundle'[s.pred] = bundle[s.pred] /\ Published(s.pred)'
        BY <1>1 DEF Worth, Published
    <2>2. s.rows \subseteq {q \in Runs : pc'[q] = "done"}
        <3>1. pc'[r] = "done" /\ \A q \in DoneRuns : pc'[q] = "done"
            BY <1>0 DEF Adds, DoneRuns, JobInv, QualificationTypeOK
        <3> QED BY <3>1 DEF Worth
    <2>3. Spend(s.rows)' <= s.spend
        <3>1. s.spend \in Nat
            BY DEF Worth, Bundles
        <3>2. base + SumFunctionOnSet(cost, s.rows) = s.spend
            BY DEF Worth, Spend
        <3>4. base' + SumFunctionOnSet(cost', s.rows) = s.spend
            BY <3>2 DEF Adds
        <3>5. base' + SumFunctionOnSet(cost', s.rows) <= s.spend
            BY <3>1, <3>4
        <3>6. base' + SumFunctionOnSet(cost', bundle'[r].rows) <= bundle'[r].spend
            BY <1>1, <3>5
        <3> QED BY <3>6, <1>1 DEF Spend
    <2>4. slot' = slot /\ status' = status
        BY DEF Adds
    <2> QED BY <1>1, <2>1, <2>2, <2>3, <2>4 DEF Worth, BundleSound, Spend
<1> QED BY <1>3, <1>4 DEF BundleInv

LEMMA BundleNext == QualificationInv /\ QualificationNext => BundleInv'
<1> SUFFICES ASSUME QualificationInv, QualificationNext PROVE BundleInv'
    OBVIOUS
<1>1. JobInv /\ BundleInv
    BY DEF QualificationInv
<1>2. OverStays
    BY <1>1, Over
<1>3. CASE Quiet
    <2> SUFFICES ASSUME NEW q \in Runs, Published(q)' PROVE BundleSound(q)'
        BY DEF BundleInv
    <2>1. bundle' = bundle /\ Published(q)
        BY <1>3 DEF Quiet, Published
    <2> QED BY <1>1, <1>2, <2>1, BundleStays
<1>4. ASSUME NEW r \in Runs, Publish(r) PROVE BundleInv'
    BY <1>2, <1>4, PublishAdds, BundleAdds
<1>5. ASSUME NEW r \in Runs, Refuse(r) PROVE BundleInv'
    BY <1>2, <1>5, RefuseAdds, BundleAdds
<1> QED BY <1>3, <1>4, <1>5, Steps
\* What a new bundle changes of the slots and the refusals.
LEMMA AfterAdds ==
    ASSUME QualificationInv, NEW r \in Runs, NEW s, Adds(r, s), Worth(r, s)
    PROVE  /\ bundle'[r] = s /\ \A i \in 0..MaxRuns : i # r => bundle'[i] = bundle[i]
           /\ \A n : SlotBundles(n)' = IF s.kind = "SLOT" /\ s.slot = n THEN SlotBundles(n) \cup {r}
                                       ELSE SlotBundles(n)
           /\ \A n : r \notin SlotBundles(n)
           /\ \A i : Refusals(i)' = IF s.kind = "REFUSAL" /\ s.pred = i THEN Refusals(i) \cup {r}
                                    ELSE Refusals(i)
           /\ Refusals(r) = {} /\ s.pred # r
<1>0. JobInv /\ BundleInv
    BY DEF QualificationInv
<1>1. bundle'[r] = s /\ \A i \in 0..MaxRuns : i # r => bundle'[i] = bundle[i]
    BY <1>0, WindowAssumption DEF Adds, JobInv, Runs
<1>2. \A q \in Runs : q # r => bundle'[q] = bundle[q]
    BY <1>1, WindowAssumption DEF Runs
<1>3. bundle[r].kind = "NONE"
    BY DEF Worth, Published
<1>4. Refusals(r) = {}
    <2> SUFFICES ASSUME NEW q \in Refusals(r) PROVE FALSE
        OBVIOUS
    <2>1. q \in Runs /\ Published(q) /\ bundle[q].pred = r
        BY DEF Refusals, Published
    <2> QED BY <1>0, <1>3, <2>1 DEF BundleInv, BundleSound, Published
<1>5. s.pred # r
    BY <1>3 DEF Worth, Published
<1>6. \A n : r \notin SlotBundles(n)
    BY <1>3 DEF SlotBundles
<1>7. \A n : SlotBundles(n)' = IF s.kind = "SLOT" /\ s.slot = n THEN SlotBundles(n) \cup {r}
                               ELSE SlotBundles(n)
    BY <1>1, <1>2, <1>3 DEF SlotBundles
<1>8. \A i : Refusals(i)' = IF s.kind = "REFUSAL" /\ s.pred = i THEN Refusals(i) \cup {r}
                            ELSE Refusals(i)
    BY <1>1, <1>2, <1>3 DEF Refusals
<1> QED BY <1>1, <1>4, <1>5, <1>6, <1>7, <1>8

\* A refusal ends the chain of the durable state.
LEMMA LinkRefuse == ASSUME QualificationInv, NEW r \in Runs, Refuse(r) PROVE LinkInv'
<1> DEFINE s == RefusalBundle(r, Durable)
<1>1. Adds(r, s) /\ Worth(r, s) /\ s.kind = "REFUSAL" /\ s.pred = Durable
    BY RefuseAdds
<1>2. /\ bundle'[r] = s /\ \A i \in 0..MaxRuns : i # r => bundle'[i] = bundle[i]
      /\ \A n : SlotBundles(n)' = SlotBundles(n)
      /\ s.pred # r /\ Refusals(r) = {}
    <2> HIDE DEF s
    <2> QED BY <1>1, AfterAdds
<1>3. \A q \in Runs : q # r => bundle'[q] = bundle[q]
    BY <1>2, WindowAssumption DEF Runs
<1>4. Refusals(Durable) = {} /\ Durable \in 0..MaxRuns
    BY <1>1 DEF Worth
<1>5. LinkInv
    BY DEF QualificationInv
<1> HIDE DEF s
<1>6. ASSUME NEW p \in Runs, NEW q \in Runs, bundle'[p].kind = "REFUSAL", bundle'[q].kind = "REFUSAL",
             bundle'[p].pred = bundle'[q].pred
      PROVE  p = q
    <2>1. \A x \in Runs : x # r /\ bundle'[x].kind = "REFUSAL" => bundle'[x].pred # Durable
        BY <1>3, <1>4 DEF Refusals
    <2>2. CASE p # r /\ q # r
        BY <1>3, <1>5, <1>6, <2>2 DEF LinkInv
    <2> QED BY <1>1, <1>2, <1>6, <2>1, <2>2
<1>7. \A n \in Slots : SlotBundles(n)' # {} => \A m \in 1..n : SlotBundles(m)' # {}
    BY <1>2, <1>5 DEF LinkInv
<1>8. PICK M \in Nat : \E h \in [0..MaxRuns -> 0..M] : Falls(h)
    BY <1>5 DEF LinkInv
<1>9. PICK h \in [0..MaxRuns -> 0..M] : Falls(h)
    BY <1>8
<1> DEFINE g == [i \in 0..MaxRuns |-> IF i = r THEN 0 ELSE h[i] + 1]
<1>10. g \in [0..MaxRuns -> 0..(M + 1)]
    BY <1>8
<1>11. ASSUME NEW q \in Runs, bundle'[q].kind = "REFUSAL" PROVE g[q] < g[bundle'[q].pred]
    <2>1. q \in 0..MaxRuns /\ r \in 0..MaxRuns
        BY WindowAssumption DEF Runs
    <2>2. CASE q = r
        <3>1. bundle'[q].pred = Durable /\ Durable # r
            BY <1>1, <1>2, <2>2
        <3>2. h[Durable] \in Nat
            BY <1>4, <1>8
        <3> QED BY <1>4, <2>1, <2>2, <3>1, <3>2
    <2>3. CASE q # r
        <3>1. bundle'[q] = bundle[q] /\ bundle[q].kind = "REFUSAL" /\ bundle[q].pred # r
            BY <1>2, <1>3, <1>11, <2>3 DEF Refusals
        <3>2. h[q] < h[bundle[q].pred]
            BY <1>9, <3>1 DEF Falls
        <3>3. bundle[q].pred \in 0..MaxRuns
            <4>1. bundle[q] # NoBundle
                BY <3>1 DEF NoBundle
            <4>2. bundle[q] \in Bundles
                BY <4>1 DEF QualificationInv, JobInv, QualificationTypeOK
            <4> QED BY <4>2 DEF Bundles
        <3>4. h[q] \in Nat /\ h[bundle[q].pred] \in Nat
            BY <1>8, <2>1, <3>3
        <3>5. g[q] = h[q] + 1 /\ g[bundle[q].pred] = h[bundle[q].pred] + 1
            BY <2>1, <2>3, <3>1, <3>3
        <3> HIDE DEF g
        <3> QED BY <3>1, <3>2, <3>4, <3>5
    <2> QED BY <2>2, <2>3
<1>12. (\E K \in Nat : \E f \in [0..MaxRuns -> 0..K] : Falls(f))'
    <2>1. M + 1 \in Nat
        BY <1>8
    <2>2. \A f : (\A q \in Runs : bundle'[q].kind = "REFUSAL" => f[q] < f[bundle'[q].pred]) <=> Falls(f)'
        BY DEF Falls
    <2> HIDE DEF g
    <2>3. Falls(g)'
        BY <1>11, <2>2
    <2> QED BY <1>10, <2>1, <2>3
<1> QED BY <1>6, <1>7, <1>12 DEF LinkInv

\* A slot is published after the ones before it.
LEMMA LinkPublish == ASSUME QualificationInv, NEW r \in Runs, Publish(r) PROVE LinkInv'
<1> DEFINE s == Successor(r, bundle[Durable])
<1>1. Adds(r, s) /\ Worth(r, s) /\ s.kind = "SLOT" /\ HasPredecessor(r)
    BY PublishAdds
<1>2. /\ bundle'[r] = s /\ \A i \in 0..MaxRuns : i # r => bundle'[i] = bundle[i]
      /\ \A n : SlotBundles(n)' = IF s.slot = n THEN SlotBundles(n) \cup {r} ELSE SlotBundles(n)
    <2> HIDE DEF s
    <2> QED BY <1>1, AfterAdds
<1>3. \A q \in Runs : q # r => bundle'[q] = bundle[q]
    BY <1>2, WindowAssumption DEF Runs
<1>4. LinkInv
    BY DEF QualificationInv
<1>5. s.slot = slot[r] /\ slot[r] \in Slots /\ Linked(slot[r] - 1)
    BY <1>1 DEF Worth, HasPredecessor
<1> HIDE DEF s
<1>6. \A q \in Runs : bundle'[q].kind = "REFUSAL" => bundle'[q] = bundle[q]
    BY <1>1, <1>2, <1>3
<1>7. \A p, q \in Runs : bundle'[p].kind = "REFUSAL" /\ bundle'[q].kind = "REFUSAL"
                         /\ bundle'[p].pred = bundle'[q].pred => p = q
    BY <1>4, <1>6 DEF LinkInv
<1>8. ASSUME NEW n \in Slots, SlotBundles(n)' # {}, NEW m \in 1..n PROVE SlotBundles(m)' # {}
    <2>1. CASE SlotBundles(n) # {}
        BY <1>2, <1>4, <2>1 DEF LinkInv
    <2>2. CASE SlotBundles(n) = {}
        <3>1. n = s.slot
            BY <1>2, <1>8, <2>2
        <3>2. CASE m = n
            BY <1>8, <3>2
        <3>3. CASE m # n
            <4>1. m \in 1..(n - 1) /\ n - 1 \in 0..SlotCount
                BY <3>3, WindowAssumption DEF Slots
            <4>2. SlotBundles(m) = {AtSlot(m)}
                BY <1>5, <3>1, <4>1, LinkedSays
            <4> QED BY <1>2, <4>2
        <3> QED BY <3>2, <3>3
    <2> QED BY <2>1, <2>2
<1>9. (\E K \in Nat : \E f \in [0..MaxRuns -> 0..K] : Falls(f))'
    <2>1. \A f : Falls(f) => Falls(f)'
        BY <1>6 DEF Falls
    <2> QED BY <1>4, <2>1 DEF LinkInv
<1> QED BY <1>7, <1>8, <1>9 DEF LinkInv

LEMMA LinkNext == QualificationInv /\ QualificationNext => LinkInv'
<1> SUFFICES ASSUME QualificationInv, Quiet PROVE LinkInv'
    BY Steps, LinkRefuse, LinkPublish
<1>1. LinkInv /\ bundle' = bundle
    BY DEF QualificationInv, Quiet
<1>2. \A f : Falls(f)' <=> Falls(f)
    BY <1>1 DEF Falls
<1>3. \A n : SlotBundles(n)' = SlotBundles(n)
    BY <1>1, QuietSteps
<1> QED BY <1>1, <1>2, <1>3 DEF LinkInv
\* Following the refusals, after one more, ends at that one.
LEMMA RefuseFollow ==
    ASSUME QualificationInv, JobInv', BundleInv', LinkInv', NEW r \in Runs, Refuse(r)
    PROVE  \A i \in 0..MaxRuns : Follow[i] = Durable => Follow'[i] = r
<1> DEFINE D == 0..MaxRuns
           s == RefusalBundle(r, Durable)
<1>0. JobInv /\ BundleInv /\ LinkInv
    BY DEF QualificationInv
<1>1. Adds(r, s) /\ Worth(r, s) /\ s.kind = "REFUSAL" /\ s.pred = Durable
    BY RefuseAdds
<1> PICK d \in D : d = Durable
    BY <1>1 DEF Worth
<1>2. /\ \A i : Refusals(i)' = IF i = d THEN Refusals(i) \cup {r} ELSE Refusals(i)
      /\ Refusals(r) = {} /\ d # r
    <2> HIDE DEF s
    <2> QED BY <1>1, AfterAdds
<1>3. d \in D /\ Refusals(d) = {} /\ r \in D
    BY <1>1, WindowAssumption DEF Worth, Runs
<1> DEFINE C == {i \in D : Follow[i] = d /\ Follow'[i] # r}
<1>4. \A i \in D : /\ Refusals(i)' = {} => Follow'[i] = i
                   /\ \A q \in Refusals(i)' : Refusals(i)' = {q} /\ Follow'[i] = Follow'[q]
    <2>1. (JobInv /\ BundleInv /\ LinkInv => FollowsOn)'
        BY FollowSteps, PTL
    <2> QED BY <2>1 DEF FollowsOn
<1>5. PICK M \in Nat : \E h \in [D -> 0..M] : Falls(h)
    BY <1>0 DEF LinkInv
<1>6. PICK h \in [D -> 0..M] : Falls(h)
    BY <1>5
<1> SUFFICES ASSUME C # {} PROVE FALSE
    OBVIOUS
<1>7. PICK i \in C : \A j \in C : h[i] <= h[j]
    <2>0. \A j \in C : h[j] \in Nat
        BY <1>5, <1>6
    <2>1. {h[j] : j \in C} \in SUBSET Nat /\ {h[j] : j \in C} # {}
        BY <2>0
    <2>2. PICK n \in {h[j] : j \in C} : \A m \in {h[j] : j \in C} : n <= m
        <3> HIDE DEF C
        <3> QED BY <2>1, LeastNatural
    <2> HIDE DEF C
    <2> QED BY <2>2
<1>8. i \in D /\ Follow[i] = d /\ Follow'[i] # r
    BY <1>7
<1> HIDE DEF s
<1>9. CASE i = d
    <2>1. Refusals(d)' = {r} /\ Refusals(r)' = {}
        <3>1. Refusals(d)' = Refusals(d) \cup {r} /\ Refusals(r)' = Refusals(r)
            BY <1>2
        <3> QED BY <1>2, <1>3, <3>1
    <2> QED BY <1>3, <1>4, <1>8, <1>9, <2>1
<1>10. CASE i # d
    <2>1. PICK q : q \in Refusals(i)
        BY <1>0, <1>8, <1>10, FollowSteps DEF FollowsOn
    <2>2. q \in Runs /\ bundle[q].kind = "REFUSAL" /\ bundle[q].pred = i
        BY <2>1 DEF Refusals
    <2>3. q \in D /\ h[q] < h[i] /\ Follow[q] = d
        <3>1. q \in D
            BY <2>2, WindowAssumption DEF Runs
        <3>2. Follow[q] = d
            BY <1>0, <1>8, <2>1, FollowSteps DEF FollowsOn
        <3> QED BY <1>6, <2>2, <3>1, <3>2 DEF Falls
    <2>4. Follow'[q] = Follow'[i]
        BY <1>2, <1>4, <1>8, <1>10, <2>1
    <2>5. h[i] <= h[q]
        BY <1>7, <1>8, <2>3, <2>4
    <2>6. h[i] \in Nat /\ h[q] \in Nat
        BY <1>5, <1>8, <2>3
    <2> QED BY <2>3, <2>5, <2>6
<1> QED BY <1>9, <1>10

\* What a refusal changes.
LEMMA RefuseSlots ==
    ASSUME QualificationInv, JobInv', BundleInv', LinkInv', NEW r \in Runs, Refuse(r)
    PROVE  /\ Durable' = r /\ Frontier' = Frontier /\ Linked(Frontier)
           /\ \A n : SlotBundles(n)' = SlotBundles(n) /\ AtSlot(n)' = AtSlot(n)
           /\ \A n \in 0..SlotCount : Linked(n)' <=> Linked(n)
           /\ \A n \in Slots : SlotBundles(n) # {} => bundle'[AtSlot(n)] = bundle[AtSlot(n)]
           /\ bundle'[r].rows = bundle[Durable].rows
           /\ bundle[Durable].consumed => bundle'[r].consumed
<1> DEFINE s == RefusalBundle(r, Durable)
<1>0. JobInv /\ BundleInv /\ LinkInv
    BY DEF QualificationInv
<1>1. Adds(r, s) /\ Worth(r, s) /\ s.kind = "REFUSAL" /\ s.rows = bundle[Durable].rows
    BY RefuseAdds
<1>2. /\ bundle'[r] = s /\ \A i \in 0..MaxRuns : i # r => bundle'[i] = bundle[i]
      /\ \A n : SlotBundles(n)' = SlotBundles(n)
      /\ \A n : r \notin SlotBundles(n)
    <2> HIDE DEF s
    <2> QED BY <1>1, AfterAdds
<1>3. \A n : AtSlot(n)' = AtSlot(n)
    <2>1. ASSUME NEW n PROVE AtSlot(n)' = AtSlot(n)
        <3>1. SlotBundles(n)' = SlotBundles(n)
            BY <1>2
        <3>2. AtSlot(n)' = IF n = 0 THEN Genesis ELSE CHOOSE q : q \in SlotBundles(n)' /\ TRUE
            BY DEF AtSlot
        <3>3. AtSlot(n) = IF n = 0 THEN Genesis ELSE CHOOSE q : q \in SlotBundles(n) /\ TRUE
            BY DEF AtSlot
        <3> QED BY <3>1, <3>2, <3>3
    <2> QED BY <2>1
<1>4. \A n \in Slots : SlotBundles(n) # {} => bundle'[AtSlot(n)] = bundle[AtSlot(n)]
    <2> SUFFICES ASSUME NEW n \in Slots, SlotBundles(n) # {}
                 PROVE  bundle'[AtSlot(n)] = bundle[AtSlot(n)]
        OBVIOUS
    <2>1. AtSlot(n) \in SlotBundles(n)
        BY Candidates
    <2>2. AtSlot(n) \in Runs /\ AtSlot(n) # r
        BY <1>2, <2>1 DEF SlotBundles
    <2>3. AtSlot(n) \in 0..MaxRuns
        BY <2>2, WindowAssumption DEF Runs
    <2> QED BY <1>2, <2>2, <2>3
<1>5. \A n \in 0..SlotCount :
          Linked(n)' <=> \A m \in 1..n : /\ SlotBundles(m)' = {AtSlot(m)'}
                                         /\ bundle'[AtSlot(m)'].pred = AtSlot(m - 1)'
    <2>1. (\A n \in 0..SlotCount :
               Linked(n) <=> \A m \in 1..n : /\ SlotBundles(m) = {AtSlot(m)}
                                             /\ bundle[AtSlot(m)].pred = AtSlot(m - 1))'
        BY LinkedSays, PTL
    <2> QED BY <2>1
<1>6. \A n \in 0..SlotCount : Linked(n)' <=> Linked(n)
    <2> SUFFICES ASSUME NEW n \in 0..SlotCount PROVE Linked(n)' <=> Linked(n)
        OBVIOUS
    <2>1. ASSUME NEW m \in 1..n
          PROVE  (SlotBundles(m)' = {AtSlot(m)'} /\ bundle'[AtSlot(m)'].pred = AtSlot(m - 1)')
                 <=> (SlotBundles(m) = {AtSlot(m)} /\ bundle[AtSlot(m)].pred = AtSlot(m - 1))
        <3>1. m \in Slots
            BY WindowAssumption DEF Slots
        <3> QED BY <1>2, <1>3, <1>4, <3>1
    <2> QED BY <1>5, <2>1, LinkedSays
<1>7. Frontier' = Frontier
    BY <1>2 DEF Frontier
<1>8. Linked(Frontier) /\ Frontier \in 0..SlotCount
    BY <1>1, FrontierSays DEF Worth
<1>9. Durable' = r
    <2>1. Durable = Follow[AtSlot(Frontier)] /\ AtSlot(Frontier) \in 0..MaxRuns
        BY <1>0, <1>8, DurableIs
    <2>2. Follow'[AtSlot(Frontier)] = r
        BY <2>1, RefuseFollow
    <2>3. Linked(Frontier)' /\ AtSlot(Frontier)' = AtSlot(Frontier)
        BY <1>3, <1>6, <1>7, <1>8
    <2> QED BY <1>7, <2>2, <2>3 DEF Durable
<1>10. bundle[Durable].consumed => bundle'[r].consumed
    BY <1>1, <1>2 DEF Worth
<1> QED BY <1>1, <1>2, <1>3, <1>4, <1>6, <1>7, <1>8, <1>9, <1>10
\* What a slot's bundle changes: it moves the frontier, or makes its slot
\* ambiguous.
LEMMA PublishSlots ==
    ASSUME QualificationInv, JobInv', BundleInv', LinkInv', NEW r \in Runs, Publish(r),
           NEW t \in Slots, t = slot[r]
    PROVE  /\ Linked(t - 1) /\ Linked(Frontier)
           /\ \A m : m # t => SlotBundles(m)' = SlotBundles(m) /\ AtSlot(m)' = AtSlot(m)
           /\ \A m \in 0..SlotCount : m < t => (Linked(m)' <=> Linked(m))
           /\ \A m \in Slots : SlotBundles(m) # {} => bundle'[AtSlot(m)] = bundle[AtSlot(m)]
           /\ \/ /\ Frontier = t - 1 /\ Frontier' = t /\ AtSlot(t)' = r /\ Durable' = r
                 /\ SlotBundles(t) = {} /\ \A m \in 0..SlotCount : Linked(m)' => m <= t
              \/ /\ t <= Frontier /\ Frontier' = Frontier /\ Durable' = Broken
                 /\ SlotBundles(t) # {} /\ \A m \in 0..SlotCount : Linked(m)' => m < t
<1> DEFINE s == Successor(r, bundle[Durable])
<1>0. JobInv /\ BundleInv /\ LinkInv
    BY DEF QualificationInv
<1>1. /\ Adds(r, s) /\ Worth(r, s) /\ s.kind = "SLOT" /\ HasPredecessor(r)
      /\ s.pred = AtSlot(slot[r] - 1) /\ slot[r] - 1 <= Frontier
    BY PublishAdds
<1>2. s.slot = t /\ t \in 0..SlotCount /\ t - 1 \in 0..SlotCount /\ t # 0 /\ t \in Nat
    BY <1>1, WindowAssumption DEF Worth, Slots
<1>3. /\ bundle'[r] = s /\ \A i \in 0..MaxRuns : i # r => bundle'[i] = bundle[i]
      /\ \A m : SlotBundles(m)' = IF m = t THEN SlotBundles(m) \cup {r} ELSE SlotBundles(m)
      /\ \A m : r \notin SlotBundles(m)
      /\ \A i : Refusals(i)' = Refusals(i)
      /\ Refusals(r) = {}
    <2> HIDE DEF s
    <2> QED BY <1>1, <1>2, AfterAdds
<1>4. Linked(t - 1) /\ Linked(Frontier) /\ t - 1 <= Frontier /\ s.pred = AtSlot(t - 1)
    BY <1>1 DEF HasPredecessor, Worth
<1> HIDE DEF s
<1>5. \A m : m # t => AtSlot(m)' = AtSlot(m)
    <2> SUFFICES ASSUME NEW m, m # t PROVE AtSlot(m)' = AtSlot(m)
        OBVIOUS
    <2>1. SlotBundles(m)' = SlotBundles(m)
        BY <1>3
    <2>2. AtSlot(m)' = IF m = 0 THEN Genesis ELSE CHOOSE q : q \in SlotBundles(m)' /\ TRUE
        BY DEF AtSlot
    <2>3. AtSlot(m) = IF m = 0 THEN Genesis ELSE CHOOSE q : q \in SlotBundles(m) /\ TRUE
        BY DEF AtSlot
    <2> QED BY <2>1, <2>2, <2>3
<1>6. \A m \in Slots : SlotBundles(m) # {} => bundle'[AtSlot(m)] = bundle[AtSlot(m)]
    <2> SUFFICES ASSUME NEW m \in Slots, SlotBundles(m) # {}
                 PROVE  bundle'[AtSlot(m)] = bundle[AtSlot(m)]
        OBVIOUS
    <2>1. AtSlot(m) \in SlotBundles(m)
        BY Candidates
    <2>2. AtSlot(m) \in Runs /\ AtSlot(m) # r
        BY <1>3, <2>1 DEF SlotBundles
    <2>3. AtSlot(m) \in 0..MaxRuns
        BY <2>2, WindowAssumption DEF Runs
    <2> QED BY <1>3, <2>2, <2>3
<1>7. \A m \in 0..SlotCount :
          Linked(m)' <=> \A k \in 1..m : /\ SlotBundles(k)' = {AtSlot(k)'}
                                         /\ bundle'[AtSlot(k)'].pred = AtSlot(k - 1)'
    <2>1. (\A n \in 0..SlotCount :
               Linked(n) <=> \A m \in 1..n : /\ SlotBundles(m) = {AtSlot(m)}
                                             /\ bundle[AtSlot(m)].pred = AtSlot(m - 1))'
        BY LinkedSays, PTL
    <2> QED BY <2>1
<1>8. \A m \in 0..SlotCount : m < t => (Linked(m)' <=> Linked(m))
    <2> SUFFICES ASSUME NEW m \in 0..SlotCount, m < t PROVE Linked(m)' <=> Linked(m)
        OBVIOUS
    <2>1. ASSUME NEW k \in 1..m
          PROVE  (SlotBundles(k)' = {AtSlot(k)'} /\ bundle'[AtSlot(k)'].pred = AtSlot(k - 1)')
                 <=> (SlotBundles(k) = {AtSlot(k)} /\ bundle[AtSlot(k)].pred = AtSlot(k - 1))
        <3>1. k \in Slots /\ k # t /\ k - 1 # t
            BY <1>2, WindowAssumption DEF Slots
        <3> QED BY <1>3, <1>5, <1>6, <3>1
    <2> QED BY <1>7, <2>1, LinkedSays
<1>9. Frontier \in 0..SlotCount /\ t \in 1..t
    BY <1>2, FrontierSays
<1>10. /\ \A k \in 0..SlotCount :
              /\ k < SlotCount => SlotBundles(k + 1)' = {}
              /\ \A m \in 1..k : SlotBundles(m)' # {}
              => Frontier' = k
    <2>1. (\A n \in 0..SlotCount :
               (n < SlotCount => SlotBundles(n + 1) = {}) /\ (\A m \in 1..n : SlotBundles(m) # {})
               => Frontier = n)'
        BY FrontierOnly, PTL
    <2> QED BY <2>1
<1>11. CASE SlotBundles(t) = {}
    <2>1. Frontier = t - 1
        <3>1. ~(t \in 1..Frontier)
            BY <1>11, FrontierSays
        <3> QED BY <1>2, <1>4, <1>9, <3>1
    <2>2. SlotBundles(t)' = {r} /\ \A m : m # t => SlotBundles(m)' = SlotBundles(m)
        BY <1>3, <1>11
    <2>3. AtSlot(t)' = r
        <3>1. AtSlot(t)' = CHOOSE q : q \in SlotBundles(t)' /\ TRUE
            BY <1>2 DEF AtSlot
        <3> QED BY <2>2, <3>1
    <2>4. t < SlotCount => SlotBundles(t + 1) = {}
        <3> SUFFICES ASSUME t < SlotCount, SlotBundles(t + 1) # {} PROVE FALSE
            OBVIOUS
        <3>1. t + 1 \in Slots /\ t \in 1..(t + 1)
            BY <1>2, WindowAssumption DEF Slots
        <3> QED BY <1>0, <1>11, <3>1 DEF LinkInv
    <2>5. \A m \in 1..t : SlotBundles(m)' # {}
        <3> SUFFICES ASSUME NEW m \in 1..t, m # t PROVE SlotBundles(m)' # {}
            BY <2>2
        <3>1. m \in 1..Frontier
            BY <1>2, <2>1
        <3> QED BY <2>2, <3>1, FrontierSays
    <2>6. t < SlotCount => SlotBundles(t + 1)' = {}
        <3>1. t + 1 # t
            BY <1>2
        <3> QED BY <2>2, <2>4, <3>1
    <2>7. Frontier' = t
        BY <1>2, <1>10, <2>5, <2>6
    <2>8. Linked(t)'
        <3>1. ASSUME NEW k \in 1..t
              PROVE  SlotBundles(k)' = {AtSlot(k)'} /\ bundle'[AtSlot(k)'].pred = AtSlot(k - 1)'
            <4>1. CASE k = t
                <5>1. t - 1 # t
                    BY <1>2
                <5>2. AtSlot(t - 1)' = AtSlot(t - 1)
                    BY <1>5, <5>1
                <5> QED BY <1>3, <1>4, <2>2, <2>3, <4>1, <5>2
            <4>2. CASE k # t
                <5>1. k \in 1..(t - 1) /\ t - 1 < t
                    BY <1>2, <4>2
                <5>2. Linked(t - 1)'
                    BY <1>2, <1>4, <1>8, <5>1
                <5> QED BY <1>2, <1>7, <5>1, <5>2
            <4> QED BY <4>1, <4>2
        <3> QED BY <1>2, <1>7, <3>1
    <2>9. Follow'[r] = r
        <3>1. (JobInv /\ BundleInv /\ LinkInv => FollowsOn)'
            BY FollowSteps, PTL
        <3>2. r \in 0..MaxRuns
            BY WindowAssumption DEF Runs
        <3>3. Refusals(r)' = {}
            BY <1>3
        <3> QED BY <3>1, <3>2, <3>3 DEF FollowsOn
    <2>10. Durable' = r
        BY <2>3, <2>7, <2>8, <2>9 DEF Durable
    <2>11. ASSUME NEW m \in 0..SlotCount, Linked(m)', ~(m <= t) PROVE FALSE
        <3>1. t + 1 \in 1..m /\ t < SlotCount
            BY <1>2, <2>11, WindowAssumption
        <3>2. SlotBundles(t + 1)' = {AtSlot(t + 1)'}
            BY <1>7, <2>11, <3>1
        <3> QED BY <2>6, <3>1, <3>2
    <2> QED BY <1>3, <1>4, <1>5, <1>6, <1>8, <1>11, <2>1, <2>3, <2>7, <2>10, <2>11
<1>12. CASE SlotBundles(t) # {}
    <2>1. t <= Frontier
        <3> SUFFICES ASSUME ~(t <= Frontier) PROVE FALSE
            OBVIOUS
        <3>1. Frontier + 1 = t /\ Frontier < SlotCount
            BY <1>2, <1>4, <1>9, WindowAssumption
        <3> QED BY <1>12, <3>1, FrontierSays
    <2>2. \A m : SlotBundles(m)' = {} <=> SlotBundles(m) = {}
        BY <1>3, <1>12
    <2>3. Frontier' = Frontier
        <3>1. PICK f \in 0..SlotCount : f = Frontier
            BY <1>9
        <3>2. (f < SlotCount => SlotBundles(f + 1)' = {}) /\ \A m \in 1..f : SlotBundles(m)' # {}
            BY <2>2, <3>1, FrontierSays
        <3>3. Frontier' = f
            BY <1>10, <3>2
        <3> QED BY <3>1, <3>3
    <2>4. ASSUME NEW m \in 0..SlotCount, Linked(m)', ~(m < t) PROVE FALSE
        <3>1. t \in 1..m
            BY <1>2, <2>4
        <3>2. SlotBundles(t)' = {AtSlot(t)'}
            BY <1>7, <2>4, <3>1
        <3>3. SlotBundles(t)' = SlotBundles(t) \cup {r} /\ r \notin SlotBundles(t)
            BY <1>3
        <3> QED BY <1>12, <3>2, <3>3
    <2>5. Durable' = Broken
        <3>1. PICK f \in 0..SlotCount : f = Frontier
            BY <1>9
        <3>2. ~(Linked(f)')
            BY <1>2, <2>1, <2>4, <3>1
        <3> QED BY <2>3, <3>1, <3>2 DEF Durable
    <2> QED BY <1>3, <1>4, <1>5, <1>6, <1>8, <1>12, <2>1, <2>3, <2>4, <2>5
<1> QED BY <1>11, <1>12
LEMMA RowsQuiet == RowsInv /\ Quiet => RowsInv'
<1> SUFFICES ASSUME RowsInv, Quiet PROVE RowsInv'
    OBVIOUS
<1>1. bundle' = bundle /\ Durable' = Durable /\ Frontier' = Frontier
    BY QuietSteps DEF Quiet
<1>2. \A n : AtSlot(n)' = AtSlot(n) /\ Linked(n)' = Linked(n)
    BY <1>1, QuietSteps
<1> QED BY <1>1, <1>2 DEF RowsInv

LEMMA RowsRefuse ==
    ASSUME QualificationInv, JobInv', BundleInv', LinkInv', NEW r \in Runs, Refuse(r)
    PROVE  RowsInv'
<1>0. RowsInv
    BY DEF QualificationInv
<1>1. Durable # Broken
    BY RefuseAdds DEF Worth
<1>2. /\ Durable' = r /\ Frontier' = Frontier
      /\ \A n : SlotBundles(n)' = SlotBundles(n) /\ AtSlot(n)' = AtSlot(n)
      /\ \A n \in 0..SlotCount : Linked(n)' <=> Linked(n)
      /\ \A n \in Slots : SlotBundles(n) # {} => bundle'[AtSlot(n)] = bundle[AtSlot(n)]
      /\ bundle'[r].rows = bundle[Durable].rows
      /\ bundle[Durable].consumed => bundle'[r].consumed
    BY RefuseSlots
<1>3. ASSUME NEW k \in 1..Frontier
      PROVE  AtSlot(k)' \in bundle'[r].rows /\ (bundle'[AtSlot(k)'].consumed => bundle'[r].consumed)
    <2>1. k \in Slots /\ SlotBundles(k) # {}
        BY FrontierSays, WindowAssumption DEF Slots
    <2>2. AtSlot(k)' = AtSlot(k) /\ bundle'[AtSlot(k)] = bundle[AtSlot(k)]
        BY <1>2, <2>1
    <2>3. AtSlot(k) \in bundle[Durable].rows /\ (bundle[AtSlot(k)].consumed => bundle[Durable].consumed)
        BY <1>0, <1>1 DEF RowsInv
    <2> QED BY <1>2, <2>2, <2>3
<1>4. ASSUME NEW n \in Slots, Linked(n)', NEW k \in 1..n
      PROVE  AtSlot(k)' \in bundle'[AtSlot(n)'].rows
    <2>1. n \in 0..SlotCount /\ n \in 1..n
        BY WindowAssumption DEF Slots
    <2>2. Linked(n) /\ SlotBundles(n) # {}
        BY <1>2, <1>4, <2>1, LinkedSays
    <2>3. AtSlot(k)' = AtSlot(k) /\ AtSlot(n)' = AtSlot(n) /\ bundle'[AtSlot(n)] = bundle[AtSlot(n)]
        BY <1>2, <2>2
    <2> QED BY <1>0, <2>2, <2>3 DEF RowsInv
<1> QED BY <1>2, <1>3, <1>4 DEF RowsInv

LEMMA RowsPublish ==
    ASSUME QualificationInv, JobInv', BundleInv', LinkInv', NEW r \in Runs, Publish(r)
    PROVE  RowsInv'
<1> DEFINE s == Successor(r, bundle[Durable])
<1>0. RowsInv /\ JobInv
    BY DEF QualificationInv
<1>1. Adds(r, s) /\ Worth(r, s) /\ s.kind = "SLOT" /\ s.rows = bundle[Durable].rows \cup {r}
    BY PublishAdds
<1>2. bundle'[r] = s
    <2> HIDE DEF s
    <2> QED BY <1>1, AfterAdds
<1>3. Durable # Broken /\ (bundle[Durable].consumed => s.consumed)
    BY <1>1 DEF Worth
<1> PICK n \in Slots : n = slot[r]
    BY <1>1 DEF Worth
<1> HIDE DEF s
<1>4. /\ Linked(n - 1)
      /\ \A m : m # n => AtSlot(m)' = AtSlot(m) /\ SlotBundles(m)' = SlotBundles(m)
      /\ \A m \in 0..SlotCount : m < n => (Linked(m)' <=> Linked(m))
      /\ \A m \in Slots : SlotBundles(m) # {} => bundle'[AtSlot(m)] = bundle[AtSlot(m)]
      /\ \/ /\ Frontier = n - 1 /\ Frontier' = n /\ AtSlot(n)' = r /\ Durable' = r
            /\ \A m \in 0..SlotCount : Linked(m)' => m <= n
         \/ Durable' = Broken /\ \A m \in 0..SlotCount : Linked(m)' => m < n
    BY PublishSlots
<1>5. n \in Nat /\ n \in 1..SlotCount
    BY WindowAssumption DEF Slots
<1>6. ASSUME Durable' # Broken, NEW k \in 1..n
      PROVE  AtSlot(k)' \in bundle'[r].rows /\ (bundle'[AtSlot(k)'].consumed => bundle'[r].consumed)
    <2>1. CASE k = n
        BY <1>1, <1>2, <1>4, <1>6, <2>1
    <2>2. CASE k # n
        <3>1. k \in 1..Frontier
            BY <1>4, <1>5, <1>6, <2>2
        <3>2. k \in Slots /\ SlotBundles(k) # {}
            BY <3>1, FrontierSays, WindowAssumption DEF Slots
        <3>3. AtSlot(k)' = AtSlot(k) /\ bundle'[AtSlot(k)] = bundle[AtSlot(k)]
            BY <1>4, <2>2, <3>2
        <3>4. AtSlot(k) \in bundle[Durable].rows /\ (bundle[AtSlot(k)].consumed => bundle[Durable].consumed)
            BY <1>0, <1>3, <3>1 DEF RowsInv
        <3> QED BY <1>1, <1>2, <1>3, <3>3, <3>4
    <2> QED BY <2>1, <2>2
<1>7. ASSUME NEW m \in Slots, Linked(m)', NEW k \in 1..m
      PROVE  AtSlot(k)' \in bundle'[AtSlot(m)'].rows
    <2>1. m \in 0..SlotCount /\ m \in 1..m
        BY WindowAssumption DEF Slots
    <2>2. CASE m < n
        <3>1. Linked(m) /\ SlotBundles(m) # {} /\ k # n /\ m # n
            BY <1>4, <1>5, <1>7, <2>1, <2>2, LinkedSays
        <3>2. AtSlot(k)' = AtSlot(k) /\ AtSlot(m)' = AtSlot(m) /\ bundle'[AtSlot(m)] = bundle[AtSlot(m)]
            BY <1>4, <3>1
        <3> QED BY <1>0, <3>1, <3>2 DEF RowsInv
    <2>3. CASE ~(m < n)
        <3>1. AtSlot(n)' = r /\ Durable' = r /\ m = n
            BY <1>4, <1>5, <1>7, <2>1, <2>3
        <3>2. r # Broken
            BY WindowAssumption DEF Runs, Broken
        <3> QED BY <1>6, <3>1, <3>2
    <2> QED BY <2>2, <2>3
<1>8. Durable' # Broken => Frontier' = n /\ Durable' = r
    BY <1>4
<1> QED BY <1>6, <1>7, <1>8 DEF RowsInv

LEMMA QualificationStarts == QualificationInit => QualificationInv
<1> SUFFICES ASSUME QualificationInit PROVE QualificationInv
    OBVIOUS
<1> USE DEF QualificationInit
<1>1. /\ bundle[0] = GenesisBundle
      /\ \A r \in Runs : bundle[r] = NoBundle
    BY WindowAssumption DEF Runs, Genesis
<1>2. \A r \in Runs : bundle[r].kind = "NONE"
    BY <1>1 DEF NoBundle
<1>3. QualificationTypeOK
    <2>1. base \in 0..Trigger /\ 0 \in 0..SlotCount /\ day \in 0..(SlotCount + 1)
        BY WindowAssumption
    <2> QED BY <1>1, <2>1 DEF QualificationTypeOK, Genesis
<1>4. JobInv
    <2>1. \A r \in Runs : slot[r] = 0 /\ pc[r] = "none" /\ cost[r] = 0
        OBVIOUS
    <2>2. bundle = [i \in 0..MaxRuns |-> bundle[i]]
        OBVIOUS
    <2>3. \A r \in Runs :
              /\ bundle[r].kind \in {"NONE", "SLOT", "REFUSAL"}
              /\ pc[r] = "none" <=> slot[r] = 0
              /\ ~Published(r) /\ ~(cost[r] > 0) /\ pc[r] # "ran"
        <3> HIDE DEF QualificationInit
        <3> QED BY <1>2, <2>1 DEF Published
    <2> HIDE DEF QualificationInit
    <2> QED BY <1>3, <2>2, <2>3 DEF JobInv
<1>5. BundleInv
    BY <1>2 DEF BundleInv, Published
<1>6. \A n : SlotBundles(n) = {}
    BY <1>2 DEF SlotBundles
<1>7. LinkInv
    <2>1. \E M \in Nat : \E h \in [0..MaxRuns -> 0..M] : Falls(h)
        <3> DEFINE g == [i \in 0..MaxRuns |-> 0]
        <3> HIDE DEF QualificationInit
        <3>1. g \in [0..MaxRuns -> 0..0]
            OBVIOUS
        <3>2. Falls(g)
            BY <1>2 DEF Falls
        <3> HIDE DEF g
        <3> QED BY <3>1, <3>2
    <2> QED BY <1>2, <1>6, <2>1 DEF LinkInv
<1>8. RowsInv
    <2>1. \A k \in 1..Frontier : FALSE
        BY <1>6, FrontierSays
    <2>2. ASSUME NEW n \in Slots, Linked(n) PROVE FALSE
        <3>1. n \in 0..SlotCount /\ 1 \in 1..n
            BY WindowAssumption DEF Slots
        <3>2. SlotBundles(1) = {AtSlot(1)}
            BY <2>2, <3>1, LinkedSays
        <3> QED BY <1>6, <3>2
    <2> QED BY <2>1, <2>2 DEF RowsInv
<1> QED BY <1>4, <1>5, <1>7, <1>8 DEF QualificationInv

LEMMA QualificationKeeps == QualificationInv /\ QualificationNext => QualificationInv'
<1> SUFFICES ASSUME QualificationInv, QualificationNext PROVE QualificationInv'
    OBVIOUS
<1>1. JobInv' /\ BundleInv' /\ LinkInv'
    BY JobNext, BundleNext, LinkNext
<1>2. RowsInv'
    BY <1>1, Steps, RowsQuiet, RowsRefuse, RowsPublish DEF QualificationInv
<1> QED BY <1>1, <1>2 DEF QualificationInv

LEMMA QualificationStutter == QualificationInv /\ UNCHANGED qualificationVars => QualificationInv'
<1> SUFFICES ASSUME QualificationInv, UNCHANGED qualificationVars PROVE QualificationInv'
    OBVIOUS
<1>1. UNCHANGED <<day, base, slot, pc, cost, status, bundle>>
    BY DEF qualificationVars
<1>2. Durable' = Durable /\ \A i : Published(i)' = Published(i)
    BY <1>1, QuietSteps
<1>3. JobInv'
    BY <1>1, <1>2 DEF QualificationInv, JobInv, QualificationTypeOK
<1>4. BundleInv'
    <2>1. \A r : BundleSound(r)' <=> BundleSound(r)
        BY <1>1, <1>2 DEF BundleSound, Spend
    <2> QED BY <1>2, <2>1 DEF QualificationInv, BundleInv
<1>5. LinkInv'
    <2>1. \A f : Falls(f)' <=> Falls(f)
        BY <1>1 DEF Falls
    <2>2. \A n : SlotBundles(n)' = SlotBundles(n)
        BY <1>1 DEF SlotBundles
    <2> QED BY <1>1, <2>1, <2>2 DEF QualificationInv, LinkInv
<1>6. RowsInv'
    <2>1. Frontier' = Frontier
        BY <1>1, QuietSteps
    <2>2. \A n : AtSlot(n)' = AtSlot(n) /\ Linked(n)' = Linked(n)
        BY <1>1, QuietSteps
    <2> QED BY <1>1, <1>2, <2>1, <2>2 DEF QualificationInv, RowsInv
<1> QED BY <1>3, <1>4, <1>5, <1>6 DEF QualificationInv

\* The invariant holds of every behaviour of run_scheduled's invocations.
THEOREM QualificationHolds == QualificationSpec => []QualificationInv
<1>1. QualificationInv /\ [QualificationNext]_qualificationVars => QualificationInv'
    BY QualificationKeeps, QualificationStutter
<1> QED BY <1>1, QualificationStarts, PTL DEF QualificationSpec
\* Every published state is well formed and true: an active window carries a
\* spend within the trigger and its daily cadence, every refusal is re-derived
\* as it was written, and classify_run accepts what the builder of the run that
\* is past S12 writes.
THEOREM StatesAreTrue == QualificationSpec => []StatesSound
<1>1. ASSUME QualificationInv PROVE StatesSound
    <2>0. JobInv /\ BundleInv /\ LinkInv
        BY <1>1 DEF QualificationInv
    <2>1. Durable # Broken /\ ~bundle[Durable].consumed =>
              Spend(bundle[Durable].rows) <= Trigger /\ bundle[Durable].cadence = "DAILY"
        <3> SUFFICES ASSUME Durable # Broken, ~bundle[Durable].consumed
                     PROVE  Spend(bundle[Durable].rows) <= Trigger /\ bundle[Durable].cadence = "DAILY"
            OBVIOUS
        <3>1. Durable \in 0..MaxRuns /\ Published(Durable)
            BY <2>0, DurableIs
        <3>2. StateOK(bundle[Durable])
            BY <2>0, <3>1, StatesOK
        <3> QED BY <3>2 DEF StateOK
    <2>2. \A r \in Runs : bundle[r].kind = "REFUSAL" => TransitionValid(bundle[bundle[r].pred], bundle[r])
        BY <2>0 DEF BundleInv, BundleSound, Published
    <2>3. ASSUME NEW r \in Runs, pc[r] = "ran", HasPredecessor(r)
          PROVE  LET s == Successor(r, bundle[Durable]) IN Agrees(bundle[s.pred], s)
        <3> DEFINE i == AtSlot(slot[r] - 1)
                   j == Durable
                   rows == bundle[j].rows \cup {r}
                   s == Successor(r, bundle[j])
        <3>1. /\ i \in 0..MaxRuns /\ Published(i) /\ bundle[i].index = slot[r] - 1
              /\ j \in 0..MaxRuns /\ Published(j)
              /\ bundle[i].consumed => bundle[j].consumed
            BY <1>1, <2>3, PendingIs
        <3>2. s = SlotBundle(slot[r], i, Claimed(r, bundle[j]), rows, Spend(rows))
            BY DEF Successor
        <3>3. s.pred = i /\ Agrees(bundle[i], s)
            <4> HIDE DEF s, i, j
            <4> QED BY <2>0, <2>3, <3>1, <3>2, SlotSound
        <3> QED BY <3>3
    <2> QED BY <2>0, <2>1, <2>2, <2>3 DEF StatesSound, StateIsTrue, JobInv
<1> QED BY <1>1, QualificationHolds, PTL

\* The slots of a clean completion, one by one.
LEMMA CleanSays ==
    ASSUME QualificationInv, Clean
    PROVE  \A n \in Slots :
              LET s == bundle[AtSlot(n)]
              IN  /\ AtSlot(n) \in Runs /\ SlotBundles(n) = {AtSlot(n)} /\ Linked(n)
                  /\ s.kind = "SLOT" /\ s.slot = n /\ s.index = n /\ s.pred = AtSlot(n - 1)
                  /\ s.outcome = "QUALIFYING" /\ s.reason = None
                  /\ slot[AtSlot(n)] = n /\ status[AtSlot(n)] = "COMPLETED"
                  /\ s.spend \in Nat /\ BindingHolds("QUALIFYING", bundle[AtSlot(n - 1)], s)
                  /\ s.consumed => n = SlotCount
<1>0. JobInv /\ BundleInv /\ LinkInv
    BY DEF QualificationInv
<1>1. Linked(SlotCount) /\ SlotCount \in 0..SlotCount
    BY WindowAssumption DEF Clean
<1>2. ASSUME NEW n \in Slots
      PROVE  /\ AtSlot(n) \in Runs /\ SlotBundles(n) = {AtSlot(n)} /\ Linked(n)
             /\ bundle[AtSlot(n)].kind = "SLOT" /\ bundle[AtSlot(n)].slot = n
             /\ bundle[AtSlot(n)].pred = AtSlot(n - 1)
    <2>1. n \in 1..SlotCount /\ n \in 0..SlotCount
        BY WindowAssumption DEF Slots
    <2>2. SlotBundles(n) = {AtSlot(n)} /\ bundle[AtSlot(n)].pred = AtSlot(n - 1)
        BY <1>1, <2>1, LinkedSays
    <2>3. Linked(n)
        BY <1>1, <2>1 DEF Linked
    <2> QED BY <2>2, <2>3 DEF SlotBundles
<1>3. ASSUME NEW n \in Slots
      PROVE  LET s == bundle[AtSlot(n)]
             IN  /\ s.index = n /\ s.outcome = "QUALIFYING"
                 /\ slot[AtSlot(n)] = n /\ status[AtSlot(n)] = "COMPLETED"
                 /\ BindingHolds("QUALIFYING", bundle[AtSlot(n - 1)], s)
                 /\ TransitionValid(bundle[AtSlot(n - 1)], s)
    <2>1. BundleSound(AtSlot(n))
        BY <1>0, <1>2 DEF BundleInv, Published
    <2>2. bundle[AtSlot(n)].outcome = "QUALIFYING" /\ TransitionValid(bundle[AtSlot(n - 1)], bundle[AtSlot(n)])
        BY DEF Clean
    <2> QED BY <1>2, <2>1, <2>2 DEF BundleSound, Agrees
<1>4. ASSUME NEW n \in Slots
      PROVE  LET s == bundle[AtSlot(n)]
             IN  /\ s.spend \in Nat
                 /\ s.reason # None => s.consumed
                 /\ s.consumed /\ s.reason = None => s.index = SlotCount
    <2>1. bundle[AtSlot(n)] # NoBundle
        BY <1>2 DEF NoBundle
    <2>2. bundle[AtSlot(n)] \in Bundles
        BY <1>0, <1>2, <2>1 DEF JobInv, QualificationTypeOK
    <2>3. bundle[AtSlot(n)].spend \in Nat
        BY <2>2 DEF Bundles
    <2> QED BY <1>0, <1>2, <2>1, <2>3 DEF JobInv, QualificationTypeOK
\* A reason is carried to the last slot, which has none.
<1>5. \A n \in Slots : bundle[AtSlot(n)].reason = None
    <2> DEFINE C == {k \in Nat : SlotCount - k \in Slots /\ bundle[AtSlot(SlotCount - k)].reason # None}
    <2>1. C = {}
        <3> SUFFICES ASSUME C # {} PROVE FALSE
            OBVIOUS
        <3>1. PICK k \in C : \A j \in C : k <= j
            <4>1. C \in SUBSET Nat
                OBVIOUS
            <4> HIDE DEF C
            <4> QED BY <4>1, LeastNatural
        <3> DEFINE n == SlotCount - k
        <3>2. n \in Slots /\ bundle[AtSlot(n)].reason # None
            BY <3>1
        <3>3. k # 0
            BY <3>2, WindowAssumption DEF Clean
        <3>4. k - 1 \in Nat /\ k - 1 \notin C /\ SlotCount - (k - 1) = n + 1
            BY <3>1, <3>3, WindowAssumption
        <3>5. n + 1 \in Slots /\ (n + 1) - 1 = n
            BY <3>1, <3>2, <3>3, WindowAssumption DEF Slots
        <3>6. bundle[AtSlot(n + 1)].reason = None
            BY <3>4, <3>5
        <3>7. TransitionValid(bundle[AtSlot(n)], bundle[AtSlot(n + 1)])
            BY <1>3, <3>5
        <3> QED BY <1>4, <3>2, <3>6, <3>7 DEF TransitionValid
    <2>2. \A n \in Slots : SlotCount - n \in Nat /\ SlotCount - (SlotCount - n) = n
        BY WindowAssumption DEF Slots
    <2> QED BY <2>1, <2>2
<1> QED BY <1>2, <1>3, <1>4, <1>5

\* A clean completion is earned: a run of each interval that completed, whose
\* cost every later ledger of the window carries, and no spend past the trigger.
THEOREM CleanCompletionIsEarned == QualificationSpec => []CleanIsEarned
<1>1. ASSUME QualificationInv PROVE CleanIsEarned
    <2> SUFFICES ASSUME Clean
                 PROVE  /\ \A n \in Slots :
                               /\ slot[AtSlot(n)] = n /\ status[AtSlot(n)] = "COMPLETED"
                               /\ bundle[AtSlot(n)].spend <= Trigger
                               /\ \A m \in n..SlotCount : AtSlot(n) \in bundle[AtSlot(m)].rows
                        /\ (\A n \in Slots : Cardinality(FiredIn(n)) = 1) =>
                               {r \in Runs : cost[r] > 0} \subseteq bundle[AtSlot(SlotCount)].rows
        BY DEF CleanIsEarned
    <2>0. JobInv /\ RowsInv
        BY <1>1 DEF QualificationInv
    <2>1. \A n \in Slots :
              LET s == bundle[AtSlot(n)]
              IN  /\ AtSlot(n) \in Runs /\ SlotBundles(n) = {AtSlot(n)} /\ Linked(n)
                  /\ s.kind = "SLOT" /\ s.slot = n /\ s.index = n /\ s.pred = AtSlot(n - 1)
                  /\ s.outcome = "QUALIFYING" /\ s.reason = None
                  /\ slot[AtSlot(n)] = n /\ status[AtSlot(n)] = "COMPLETED"
                  /\ s.spend \in Nat /\ BindingHolds("QUALIFYING", bundle[AtSlot(n - 1)], s)
                  /\ s.consumed => n = SlotCount
        BY <1>1, CleanSays
    <2>2. ASSUME NEW n \in Slots, bundle[AtSlot(n)].spend > Trigger PROVE FALSE
        <3>1. ~bundle[AtSlot(n - 1)].consumed
            <4>1. CASE n = 1
                <5>1. AtSlot(n - 1) = 0 /\ bundle[0] = GenesisBundle
                    BY <2>0, <4>1, Candidates DEF Genesis, JobInv, QualificationTypeOK
                <5> QED BY <5>1 DEF GenesisBundle
            <4>2. CASE n # 1
                <5>1. n - 1 \in Slots /\ n - 1 # SlotCount
                    BY <4>2, WindowAssumption DEF Slots
                <5> QED BY <2>1, <5>1
            <4> QED BY <4>1, <4>2
        <3>2. bundle[AtSlot(n)].reason = "POST_RUN_COST_TRIGGER"
            <4> DEFINE p == bundle[AtSlot(n - 1)]
                       s == bundle[AtSlot(n)]
                       more == s.spend > Trigger
                       less == s.spend <= Trigger
            <4>1. BindingHolds("QUALIFYING", p, s)
                BY <2>1
            <4>2. more /\ ~less /\ ~p.consumed
                BY <2>1, <2>2, <3>1, WindowAssumption
            <4>3. (CASE "QUALIFYING" # "QUALIFYING" -> s.consumed /\ s.reason = "QUALIFYING"
                    [] "QUALIFYING" = "QUALIFYING" /\ more /\ ~p.consumed ->
                           s.consumed /\ s.reason = "POST_RUN_COST_TRIGGER"
                    [] "QUALIFYING" = "QUALIFYING" /\ (less \/ p.consumed) /\ s.slot = SlotCount ->
                           s.consumed /\ s.reason = None
                    [] OTHER -> s.consumed = p.consumed)
                BY <4>1 DEF BindingHolds
            <4> HIDE DEF more, less, p, s
            <4>4. s.reason = "POST_RUN_COST_TRIGGER"
                BY <4>2, <4>3
            <4> QED BY <4>4 DEF s
        <3>3. bundle[AtSlot(n)].reason = None
            BY <2>1
        <3> QED BY <3>2, <3>3 DEF None
    <2>3. \A n \in Slots : bundle[AtSlot(n)].spend <= Trigger
        BY <2>1, <2>2, WindowAssumption
    <2>4. ASSUME NEW n \in Slots, NEW m \in n..SlotCount PROVE AtSlot(n) \in bundle[AtSlot(m)].rows
        <3>1. m \in Slots /\ n \in 1..m
            BY WindowAssumption DEF Slots
        <3> QED BY <2>0, <2>1, <3>1 DEF RowsInv
    <2>5. ASSUME \A n \in Slots : Cardinality(FiredIn(n)) = 1, NEW r \in Runs, cost[r] > 0
          PROVE  r \in bundle[AtSlot(SlotCount)].rows
        <3> DEFINE n == slot[r]
        <3>1. n \in Slots
            <4>1. slot[r] \in 0..SlotCount /\ slot[r] # 0
                BY <2>0, <2>5 DEF JobInv, QualificationTypeOK
            <4> QED BY <4>1, WindowAssumption DEF Slots
        <3>2. IsFiniteSet(FiredIn(n))
            <4>1. IsFiniteSet(Runs)
                BY FS_Interval, WindowAssumption DEF Runs
            <4>2. FiredIn(n) \subseteq Runs
                BY DEF FiredIn
            <4> QED BY <4>1, <4>2, FS_Subset
        <3>3. PICK x : FiredIn(n) = {x}
            BY <2>5, <3>1, <3>2, FS_Singleton
        <3>4. r = AtSlot(n)
            BY <2>1, <3>1, <3>3 DEF FiredIn
        <3>5. SlotCount \in n..SlotCount
            BY <3>1, WindowAssumption DEF Slots
        <3> HIDE DEF n
        <3> QED BY <2>4, <3>1, <3>4, <3>5
    <2> QED BY <2>1, <2>3, <2>4, <2>5
<1> QED BY <1>1, QualificationHolds, PTL
\* What is lost stays lost, a consumed durable state is followed by consumed ones
\* and a broken chain by none.
Spoilt == (\E n \in Slots : Lost(n)) \/ Durable = Broken \/ bundle[Durable].consumed

LEMMA LostStays ==
    ASSUME JobInv, QualificationNext, NEW n \in Slots, Lost(n), SlotBundles(n)' = {} PROVE Lost(n)'
<1>1. day' \in Nat /\ day' >= day /\ day \in Nat /\ n \in Nat
    <2>1. day \in Nat /\ n \in Nat
        BY WindowAssumption DEF JobInv, QualificationTypeOK, Slots
    <2> QED BY <2>1 DEF QualificationNext, NextDay, Age, Fire, Execute, Refuse, Publish, Ends, Evaluated
<1>2. day' > n
    BY <1>1 DEF Lost
<1>3. ASSUME NEW q \in Runs, slot'[q] = n PROVE pc'[q] = "done"
    <2>1. CASE slot[q] = n
        <3>1. pc[q] = "done"
            BY <2>1 DEF Lost, FiredIn
        <3> QED BY <3>1, Over DEF OverStays
    <2>2. CASE slot[q] # n
        <3>1. PICK r \in Runs : Fire(r)
            BY <1>3, <2>2 DEF QualificationNext, NextDay, Age, Execute, Refuse, Publish, Ends, Evaluated
        <3>2. slot' = [slot EXCEPT ![r] = day]
            BY <3>1 DEF Fire
        <3>3. slot'[q] = day \/ slot'[q] = slot[q]
            BY <3>2 DEF JobInv, QualificationTypeOK
        <3>4. day # n
            BY <1>1 DEF Lost
        <3> QED BY <1>3, <2>2, <3>3, <3>4
    <2> QED BY <2>1, <2>2
<1> QED BY <1>2, <1>3 DEF Lost, FiredIn

AllQualify ==
    \A n \in Slots : SlotBundles(n) # {} /\ Linked(n) /\ bundle[AtSlot(n)].outcome = "QUALIFYING"

LEMMA CleanNeeds == Clean => AllQualify
<1> SUFFICES ASSUME Clean, NEW n \in Slots
             PROVE  SlotBundles(n) # {} /\ Linked(n) /\ bundle[AtSlot(n)].outcome = "QUALIFYING"
    BY DEF AllQualify
<1>1. n \in 1..SlotCount /\ n \in 0..SlotCount /\ SlotCount \in 0..SlotCount
    BY WindowAssumption DEF Slots
<1> QED BY <1>1, LinkedSays DEF Clean, Linked

\* A failed window is never repaired: once it is consumed, its chain is broken
\* or a slot is lost, no step makes it clean, or usable, again.
THEOREM FailuresAreFinal == QualificationSpec => FailureIsFinal
<1>1. ASSUME QualificationInv, QualificationInv', QualificationNext, Failed PROVE Failed'
    <2>0. JobInv /\ JobInv' /\ BundleInv' /\ LinkInv'
        BY <1>1 DEF QualificationInv
    <2>1. ~Clean /\ Spoilt
        BY <1>1 DEF Failed, Spoilt
    <2>2. ASSUME ~Clean', Spoilt' PROVE Failed'
        BY <2>2 DEF Failed, Spoilt
    <2>3. \A n \in Slots : Lost(n) => SlotBundles(n) = {}
        BY DEF Lost
    <2>4. CASE Quiet
        <3>1. bundle' = bundle /\ Durable' = Durable
            BY <2>4, QuietSteps DEF Quiet
        <3>2. \A n : SlotBundles(n)' = SlotBundles(n) /\ AtSlot(n)' = AtSlot(n) /\ Linked(n)' = Linked(n)
            BY <3>1, QuietSteps
        <3>3. ~Clean'
            BY <2>1, <3>1, <3>2 DEF Clean
        <3>4. \A n \in Slots : Lost(n) => Lost(n)'
            BY <1>1, <2>0, <2>3, <3>2, LostStays
        <3> QED BY <2>1, <2>2, <3>1, <3>3, <3>4 DEF Spoilt
    <2>5. ASSUME NEW r \in Runs, Refuse(r) PROVE Failed'
        <3>1. /\ Durable' = r
              /\ \A n : SlotBundles(n)' = SlotBundles(n) /\ AtSlot(n)' = AtSlot(n)
              /\ \A n \in 0..SlotCount : Linked(n)' <=> Linked(n)
              /\ \A n \in Slots : SlotBundles(n) # {} => bundle'[AtSlot(n)] = bundle[AtSlot(n)]
              /\ bundle[Durable].consumed => bundle'[r].consumed
            BY <1>1, <2>0, <2>5, RefuseSlots
        <3>2. Durable # Broken
            BY <1>1, <2>5, RefuseAdds DEF Worth
        <3>3. \A n \in Slots : Lost(n) => Lost(n)'
            BY <1>1, <2>0, <2>3, <3>1, LostStays
        <3>4. ~Clean'
            <4> SUFFICES ASSUME Clean' PROVE Clean
                BY <2>1
            <4>1. Linked(SlotCount)' /\ SlotCount \in 0..SlotCount
                BY WindowAssumption DEF Clean
            <4>2. Linked(SlotCount)
                BY <3>1, <4>1
            <4>3. \A n \in Slots : SlotBundles(n) # {}
                BY <4>1, <4>2, LinkedSays DEF Slots
            <4>4. \A n \in Slots : AtSlot(n)' = AtSlot(n) /\ bundle'[AtSlot(n)] = bundle[AtSlot(n)]
                BY <3>1, <4>3
            <4>5. AtSlot(0)' = AtSlot(0) /\ AtSlot(0) = 0 /\ bundle'[0] = bundle[0]
                BY <2>0, Candidates, <3>1 DEF JobInv, QualificationTypeOK, Genesis
            <4>6. \A n \in Slots : AtSlot(n - 1)' = AtSlot(n - 1) /\ bundle'[AtSlot(n - 1)] = bundle[AtSlot(n - 1)]
                <5> SUFFICES ASSUME NEW n \in Slots
                             PROVE  AtSlot(n - 1)' = AtSlot(n - 1) /\ bundle'[AtSlot(n - 1)] = bundle[AtSlot(n - 1)]
                    OBVIOUS
                <5>1. n - 1 = 0 \/ n - 1 \in Slots
                    BY Candidates
                <5> QED BY <4>4, <4>5, <5>1
            <4>7. SlotCount \in Slots
                BY WindowAssumption DEF Slots
            <4>8. \A n \in Slots : /\ bundle[AtSlot(n)].outcome = "QUALIFYING"
                                   /\ TransitionValid(bundle[AtSlot(n - 1)], bundle[AtSlot(n)])
                BY <4>4, <4>6 DEF Clean
            <4>9. /\ bundle[AtSlot(SlotCount)].consumed /\ bundle[AtSlot(SlotCount)].reason = None
                  /\ bundle[AtSlot(SlotCount)].index = SlotCount
                BY <4>4, <4>7 DEF Clean
            <4> QED BY <4>2, <4>8, <4>9 DEF Clean
        <3> QED BY <2>1, <2>2, <3>1, <3>2, <3>3, <3>4 DEF Spoilt
    <2>6. ASSUME NEW r \in Runs, Publish(r) PROVE Failed'
        <3> DEFINE s == Successor(r, bundle[Durable])
        <3>1. /\ Adds(r, s) /\ Worth(r, s)
              /\ bundle[Durable].consumed => s.outcome # "QUALIFYING"
            BY <1>1, <2>6, PublishAdds
        <3>2. bundle'[r] = s
            <4> HIDE DEF s
            <4> QED BY <1>1, <3>1, AfterAdds
        <3>3. Durable # Broken /\ (bundle[Durable].consumed => s.consumed) /\ pc[r] # "done"
            BY <3>1 DEF Worth
        <3> PICK n \in Slots : n = slot[r]
            BY <3>1 DEF Worth
        <3> HIDE DEF s
        <3>4. /\ \A m : m # n => SlotBundles(m)' = SlotBundles(m)
              /\ \/ AtSlot(n)' = r /\ Durable' = r
                 \/ Durable' = Broken /\ \A m \in 0..SlotCount : Linked(m)' => m < n
            BY <1>1, <2>0, <2>6, PublishSlots
        <3>5. Clean' => \A k \in Slots : /\ SlotBundles(k)' # {} /\ Linked(k)'
                                         /\ bundle'[AtSlot(k)'].outcome = "QUALIFYING"
            <4>1. (Clean => AllQualify)'
                BY CleanNeeds, PTL
            <4> QED BY <4>1 DEF AllQualify
        <3>6. ~(n < n) /\ n \in 0..SlotCount
            BY WindowAssumption DEF Slots
        <3>7. ASSUME NEW m \in Slots, Lost(m) PROVE Lost(m)' /\ ~Clean'
            <4>1. m # n
                BY <3>3, <3>7 DEF Lost, FiredIn
            <4>2. SlotBundles(m)' = {}
                BY <2>3, <3>4, <3>7, <4>1
            <4> QED BY <1>1, <2>0, <3>5, <3>7, <4>2, LostStays
        <3>8. ASSUME bundle[Durable].consumed PROVE ~Clean' /\ (Durable' = Broken \/ bundle'[Durable'].consumed)
            <4>1. CASE AtSlot(n)' = r /\ Durable' = r
                BY <3>1, <3>2, <3>3, <3>5, <3>8, <4>1
            <4>2. CASE Durable' = Broken /\ \A m \in 0..SlotCount : Linked(m)' => m < n
                BY <3>5, <3>6, <4>2
            <4> QED BY <3>4, <4>1, <4>2
        <3> QED BY <2>1, <2>2, <3>3, <3>7, <3>8 DEF Spoilt
    <2> QED BY <1>1, <2>4, <2>5, <2>6, Steps
<1>2. ASSUME UNCHANGED qualificationVars, Failed PROVE Failed'
    <2>1. UNCHANGED <<day, base, slot, pc, cost, status, bundle>>
        BY <1>2 DEF qualificationVars
    <2>2. Durable' = Durable
        BY <2>1, QuietSteps
    <2>3. \A n : SlotBundles(n)' = SlotBundles(n) /\ AtSlot(n)' = AtSlot(n) /\ Linked(n)' = Linked(n)
        BY <2>1, QuietSteps
    <2>4. Clean' <=> Clean
        BY <2>1, <2>3 DEF Clean
    <2>5. \A n : Lost(n)' <=> Lost(n)
        BY <2>1, <2>3 DEF Lost, FiredIn
    <2> QED BY <1>2, <2>1, <2>2, <2>4, <2>5 DEF Failed
<1>3. QualificationInv /\ QualificationInv' /\ [QualificationNext]_qualificationVars => (Failed => Failed')
    BY <1>1, <1>2
<1> QED BY <1>3, QualificationHolds, PTL DEF QualificationSpec, FailureIsFinal
=============================================================================
