--------------------------- MODULE ReturnMachine_proofs ---------------------------
(***************************************************************************)
(* What becomes of a tray on its way into the plan, for all trays, shelf   *)
(* maps and topics.  The loops of the planner are functions by recursion;  *)
(* what they compute follows by induction, in the form that a set of       *)
(* numbers with 0 and the successor of each member is Nat.                 *)
(***************************************************************************)
EXTENDS ReturnMachine, WellFoundedInduction, TLAPS
-------------------------------------------------------------------------------
(* Induction *)

LEMMA LeastMember ==
  ASSUME NEW A \in SUBSET Nat, A # {}
  PROVE  \E m \in A : \A k \in A : m <= k
  <1> DEFINE R == OpToRel(<, Nat)
  <1>1. IsWellFoundedOn(R, Nat)
    BY NatLessThanWellFounded
  <1>2. PICK m \in A : \A k \in A : ~(<<k, m>> \in R)
    <2> HIDE DEF R
    <2> QED BY <1>1, WFMin
  <1>3. ASSUME NEW k \in A PROVE m <= k
    <2>1. <<k, m>> \notin R
      BY <1>2
    <2>2. k < m => <<k, m>> \in R
      BY DEF OpToRel
    <2>3. k \in Nat /\ m \in Nat
      OBVIOUS
    <2> HIDE DEF R
    <2> QED BY <2>1, <2>2, <2>3
  <1> QED BY <1>3

LEMMA InductiveSet ==
  ASSUME NEW A \in SUBSET Nat, 0 \in A, \A n \in A : n + 1 \in A
  PROVE  A = Nat
  <1> SUFFICES ASSUME Nat \ A # {} PROVE FALSE
    OBVIOUS
  <1>1. PICK m \in Nat \ A : \A k \in Nat \ A : m <= k
    BY LeastMember
  <1>2. m # 0 /\ m - 1 \in Nat
    BY <1>1
  <1>3. m - 1 \in A
    BY <1>1, <1>2
  <1>4. (m - 1) + 1 \in A
    BY <1>3
  <1> QED BY <1>1, <1>4
-------------------------------------------------------------------------------
(* The loop of get_shelf_for_classification *)

\* The function of the loop: the best entry after each turn.
IsLoop(best, entries, code, n) ==
  best = [i \in 0 .. n |->
            IF i = 0 THEN 0
            ELSE IF Better(entries, code, i, best[i - 1]) THEN i ELSE best[i - 1]]

LEMMA LoopExists ==
  ASSUME NEW entries, NEW code, NEW n \in Nat
  PROVE  \E best : IsLoop(best, entries, code, n)
  <1> DEFINE A == {k \in Nat : \E best : IsLoop(best, entries, code, k)}
  <1>1. 0 \in A
    <2>1. IsLoop([i \in 0 .. 0 |-> 0], entries, code, 0)
      BY DEF IsLoop
    <2> QED BY <2>1
  <1>2. ASSUME NEW k \in A PROVE k + 1 \in A
    <2>1. PICK best : IsLoop(best, entries, code, k)
      OBVIOUS
    <2> DEFINE Newest == IF Better(entries, code, k + 1, best[k]) THEN k + 1 ELSE best[k]
               longer == [i \in 0 .. k + 1 |-> IF i = k + 1 THEN Newest ELSE best[i]]
    <2>2. ASSUME NEW i \in 0 .. k + 1
          PROVE  longer[i] = IF i = 0 THEN 0
                             ELSE IF Better(entries, code, i, longer[i - 1])
                                  THEN i ELSE longer[i - 1]
      <3>1. CASE i = k + 1
        BY <3>1
      <3>2. CASE i \in 0 .. k
        <4>1. best[i] = IF i = 0 THEN 0
                        ELSE IF Better(entries, code, i, best[i - 1]) THEN i ELSE best[i - 1]
          BY <2>1, <3>2 DEF IsLoop
        <4>2. longer[i] = best[i] /\ (i # 0 => longer[i - 1] = best[i - 1])
          BY <3>2
        <4> QED BY <4>1, <4>2
      <3> QED BY <3>1, <3>2
    <2>3. IsLoop(longer, entries, code, k + 1)
      <3>1. longer = [i \in 0 .. k + 1 |-> longer[i]]
        OBVIOUS
      <3> HIDE DEF longer
      <3> QED BY <2>2, <3>1 DEF IsLoop
    <2> QED BY <2>3
  <1>3. A = Nat
    <2>1. A \in SUBSET Nat
      OBVIOUS
    <2> HIDE DEF A
    <2> QED BY <1>1, <1>2, <2>1, InductiveSet
  <1> QED BY <1>3

LEMMA BestMatchLoop ==
  ASSUME NEW entries, NEW code, Len(entries) \in Nat
  PROVE  \E best : /\ IsLoop(best, entries, code, Len(entries))
                   /\ BestMatch(entries, code) = best[Len(entries)]
  <1> DEFINE N == Len(entries)
             loop == CHOOSE best : best = [i \in 0 .. N |->
                       IF i = 0 THEN 0
                       ELSE IF Better(entries, code, i, best[i - 1]) THEN i ELSE best[i - 1]]
  <1>1. \E best : IsLoop(best, entries, code, N)
    BY LoopExists
  <1>2. IsLoop(loop, entries, code, N)
    <2>1. loop = CHOOSE best : IsLoop(best, entries, code, N)
      BY DEF IsLoop
    <2> HIDE DEF loop
    <2> QED BY <1>1, <2>1
  <1>3. BestMatch(entries, code) = loop[N]
    BY DEF BestMatch
  <1> QED BY <1>2, <1>3


\* Among the first k entries, b is the first of those with the longest prefix
\* of the code; 0 if there is none.
IsFirstLongest(b, entries, code, k) ==
  /\ b \in 0 .. k
  /\ b = 0 => \A i \in 1 .. k : ~Match(entries[i], code)
  /\ b # 0 => /\ Match(entries[b], code)
              /\ \A i \in 1 .. k : Match(entries[i], code) =>
                   \/ Len(entries[i].prefix) < Len(entries[b].prefix)
                   \/ Len(entries[i].prefix) = Len(entries[b].prefix) /\ b <= i

\* One more turn of the loop.
LEMMA LongestTurn ==
  ASSUME NEW entries \in Seq(Entry), NEW code, NEW k \in Nat, k + 1 <= Len(entries),
         NEW b, IsFirstLongest(b, entries, code, k)
  PROVE  IsFirstLongest(IF Better(entries, code, k + 1, b) THEN k + 1 ELSE b,
                        entries, code, k + 1)
  <1>1. \A i \in 1 .. k + 1 : Len(entries[i].prefix) \in Nat
    BY DEF Entry, Text
  <1>2. b \in 0 .. k
    BY DEF IsFirstLongest
  <1>3. \A i \in 1 .. k + 1 : i = k + 1 \/ i \in 1 .. k
    OBVIOUS
  <1>4. CASE Better(entries, code, k + 1, b)
    <2>1. \A i \in 1 .. k : Match(entries[i], code) =>
            Len(entries[i].prefix) < Len(entries[k + 1].prefix)
      BY <1>1, <1>2, <1>4 DEF IsFirstLongest, Better
    <2>2. Match(entries[k + 1], code)
      BY <1>4 DEF Better
    <2> QED BY <1>1, <1>3, <1>4, <2>1, <2>2 DEF IsFirstLongest
  <1>5. CASE ~Better(entries, code, k + 1, b)
    <2>1. CASE b = 0
      BY <1>3, <1>5, <2>1 DEF IsFirstLongest, Better
    <2>2. CASE b # 0
      <3>1. Match(entries[k + 1], code) =>
              \/ Len(entries[k + 1].prefix) < Len(entries[b].prefix)
              \/ Len(entries[k + 1].prefix) = Len(entries[b].prefix) /\ b <= k + 1
        BY <1>1, <1>2, <1>5, <2>2 DEF Better
      <3> QED BY <1>2, <1>3, <1>5, <2>2, <3>1 DEF IsFirstLongest
    <2> QED BY <2>1, <2>2
  <1> QED BY <1>4, <1>5

\* The loop over the prefixes finds, in every shelf map and for every code, the
\* first of the longest prefixes, and nothing only if no prefix matches.
THEOREM LoopFindsFirstLongest ==
  ASSUME NEW entries \in Seq(Entry), NEW code
  PROVE  IsFirstLongest(BestMatch(entries, code), entries, code, Len(entries))
  <1> DEFINE N == Len(entries)
  <1>1. PICK best : /\ IsLoop(best, entries, code, N)
                    /\ BestMatch(entries, code) = best[N]
    BY BestMatchLoop
  <1> DEFINE A == {k \in Nat : k <= N => IsFirstLongest(best[k], entries, code, k)}
  <1>2. 0 \in A
    <2>1. best[0] = 0
      BY <1>1 DEF IsLoop
    <2> QED BY <2>1 DEF IsFirstLongest
  <1>3. ASSUME NEW k \in A PROVE k + 1 \in A
    <2> SUFFICES ASSUME k + 1 <= N PROVE IsFirstLongest(best[k + 1], entries, code, k + 1)
      OBVIOUS
    <2>1. k \in Nat /\ N \in Nat
      OBVIOUS
    <2>2. IsFirstLongest(best[k], entries, code, k)
      BY <2>1
    <2>3. best[k + 1] = IF Better(entries, code, k + 1, best[k]) THEN k + 1 ELSE best[k]
      BY <1>1, <2>1 DEF IsLoop
    <2> QED BY <2>1, <2>2, <2>3, LongestTurn
  <1>4. A = Nat
    <2>1. A \in SUBSET Nat
      OBVIOUS
    <2> HIDE DEF A
    <2> QED BY <1>2, <1>3, <2>1, InductiveSet
  <1>5. N \in Nat
    OBVIOUS
  <1> QED BY <1>1, <1>4, <1>5
-------------------------------------------------------------------------------
(* The shelves of the file, one after the other *)

IsFlattening(flat, seqs, n) ==
  flat = [i \in 1 .. n |-> IF i = 1 THEN seqs[i] ELSE flat[i - 1] \o seqs[i]]

LEMMA FlatteningExists ==
  ASSUME NEW seqs, NEW n \in Nat
  PROVE  \E flat : IsFlattening(flat, seqs, n)
  <1> DEFINE A == {k \in Nat : \E flat : IsFlattening(flat, seqs, k)}
  <1>1. 0 \in A
    <2>1. IsFlattening([i \in 1 .. 0 |-> 0], seqs, 0)
      BY DEF IsFlattening
    <2> QED BY <2>1
  <1>2. ASSUME NEW k \in A PROVE k + 1 \in A
    <2>1. PICK flat : IsFlattening(flat, seqs, k)
      OBVIOUS
    <2> DEFINE Newest == IF k = 0 THEN seqs[k + 1] ELSE flat[k] \o seqs[k + 1]
               longer == [i \in 1 .. k + 1 |-> IF i = k + 1 THEN Newest ELSE flat[i]]
    <2>2. ASSUME NEW i \in 1 .. k + 1
          PROVE  longer[i] = IF i = 1 THEN seqs[i] ELSE longer[i - 1] \o seqs[i]
      <3>1. CASE i = k + 1
        BY <3>1
      <3>2. CASE i \in 1 .. k
        <4>1. flat[i] = IF i = 1 THEN seqs[i] ELSE flat[i - 1] \o seqs[i]
          BY <2>1, <3>2 DEF IsFlattening
        <4>2. longer[i] = flat[i] /\ (i # 1 => longer[i - 1] = flat[i - 1])
          BY <3>2
        <4> QED BY <4>1, <4>2
      <3> QED BY <3>1, <3>2
    <2>3. IsFlattening(longer, seqs, k + 1)
      <3>1. longer = [i \in 1 .. k + 1 |-> longer[i]]
        OBVIOUS
      <3> HIDE DEF longer
      <3> QED BY <2>2, <3>1 DEF IsFlattening
    <2> QED BY <2>3
  <1>3. A = Nat
    <2>1. A \in SUBSET Nat
      OBVIOUS
    <2> HIDE DEF A
    <2> QED BY <1>1, <1>2, <2>1, InductiveSet
  <1> QED BY <1>3

LEMMA FlattenSeqFlattens ==
  ASSUME NEW seqs, Len(seqs) \in Nat \ {0}
  PROVE  \E flat : /\ IsFlattening(flat, seqs, Len(seqs))
                   /\ FlattenSeq(seqs) = flat[Len(seqs)]
  <1> DEFINE N == Len(seqs)
             whole == CHOOSE flat : flat = [i \in 1 .. N |->
                        IF i = 1 THEN seqs[i] ELSE flat[i - 1] \o seqs[i]]
  <1>1. \E flat : IsFlattening(flat, seqs, N)
    BY FlatteningExists
  <1>2. IsFlattening(whole, seqs, N)
    <2>1. whole = CHOOSE flat : IsFlattening(flat, seqs, N)
      BY DEF IsFlattening
    <2> HIDE DEF whole
    <2> QED BY <1>1, <2>1
  <1>3. FlattenSeq(seqs) = whole[N]
    BY DEF FlattenSeq
  <1> QED BY <1>2, <1>3

\* The members of the first k sequences, and of S.
HasMembers(flat, seqs, k, S) ==
  /\ flat \in Seq(S)
  /\ \A i \in 1 .. k : \A j \in DOMAIN seqs[i] :
       \E p \in DOMAIN flat : flat[p] = seqs[i][j]

LEMMA ConcatMembers ==
  ASSUME NEW S, NEW s \in Seq(S), NEW u \in Seq(S), NEW w, w = s \o u
  PROVE  /\ w \in Seq(S)
         /\ \A p \in DOMAIN s : p \in DOMAIN w /\ w[p] = s[p]
         /\ \A p \in DOMAIN u : Len(s) + p \in DOMAIN w /\ w[Len(s) + p] = u[p]
  OBVIOUS

LEMMA FlatteningTurn ==
  ASSUME NEW S, NEW seqs, NEW k \in Nat, NEW s, HasMembers(s, seqs, k, S),
         NEW u \in Seq(S), u = seqs[k + 1], NEW w, w = s \o u
  PROVE  HasMembers(w, seqs, k + 1, S)
  <1>1. s \in Seq(S)
    BY DEF HasMembers
  <1>2. /\ w \in Seq(S)
        /\ \A p \in DOMAIN s : p \in DOMAIN w /\ w[p] = s[p]
        /\ \A p \in DOMAIN u : Len(s) + p \in DOMAIN w /\ w[Len(s) + p] = u[p]
    BY <1>1, ConcatMembers
  <1>3. \A i \in 1 .. k + 1 : i = k + 1 \/ i \in 1 .. k
    OBVIOUS
  <1>4. ASSUME NEW i \in 1 .. k + 1, NEW j \in DOMAIN seqs[i]
        PROVE  \E p \in DOMAIN w : w[p] = seqs[i][j]
    <2>1. CASE i = k + 1
      BY <1>2, <2>1, Zenon
    <2>2. CASE i \in 1 .. k
      <3>1. PICK p \in DOMAIN s : s[p] = seqs[i][j]
        BY <2>2, Zenon DEF HasMembers
      <3> QED BY <1>2, <3>1, Zenon
    <2> QED BY <1>3, <2>1, <2>2, Zenon
  <1> QED BY <1>2, <1>4, Zenon DEF HasMembers

\* Nothing is added to the members and none is lost.
LEMMA FlattenSeqMembers ==
  ASSUME NEW S, NEW seqs \in Seq(Seq(S)), seqs # <<>>
  PROVE  /\ FlattenSeq(seqs) \in Seq(S)
         /\ \A i \in DOMAIN seqs : \A j \in DOMAIN seqs[i] :
              \E p \in DOMAIN FlattenSeq(seqs) : FlattenSeq(seqs)[p] = seqs[i][j]
  <1> DEFINE N == Len(seqs)
  <1>1. N \in Nat \ {0} /\ DOMAIN seqs = 1 .. N
    OBVIOUS
  <1>2. PICK flat : IsFlattening(flat, seqs, N) /\ FlattenSeq(seqs) = flat[N]
    BY <1>1, FlattenSeqFlattens
  <1>3. \A i \in 1 .. N : seqs[i] \in Seq(S)
    BY <1>1
  <1> DEFINE A == {k \in Nat : k \in 1 .. N => HasMembers(flat[k], seqs, k, S)}
  <1>4. ASSUME NEW k \in A PROVE k + 1 \in A
    <2> SUFFICES ASSUME k + 1 \in 1 .. N PROVE HasMembers(flat[k + 1], seqs, k + 1, S)
      OBVIOUS
    <2>1. CASE k = 0
      <3>1. flat[1] = seqs[1]
        BY <1>1, <1>2 DEF IsFlattening
      <3> QED BY <1>3, <2>1, <3>1 DEF HasMembers
    <2>2. CASE k # 0
      <3>1. k \in 1 .. N /\ HasMembers(flat[k], seqs, k, S)
        BY <1>1, <2>2
      <3>2. flat[k + 1] = flat[k] \o seqs[k + 1]
        <4>1. k \in Nat /\ k + 1 # 1 /\ (k + 1) - 1 = k
          BY <2>2
        <4> HIDE DEF A
        <4> QED BY <1>2, <4>1 DEF IsFlattening
      <3>3. seqs[k + 1] \in Seq(S)
        BY <1>3
      <3>4. k \in Nat
        OBVIOUS
      <3> HIDE DEF A
      <3> QED BY <3>1, <3>2, <3>3, <3>4, FlatteningTurn
    <2> QED BY <2>1, <2>2
  <1>5. 0 \in A
    OBVIOUS
  <1>6. A = Nat
    <2>1. A \in SUBSET Nat
      OBVIOUS
    <2> HIDE DEF A
    <2> QED BY <1>4, <1>5, <2>1, InductiveSet
  <1>7. HasMembers(flat[N], seqs, N, S)
    BY <1>1, <1>6
  <1> QED BY <1>1, <1>2, <1>7 DEF HasMembers

\* A function on 1 .. n is a sequence of what it holds.
LEMMA FunctionIsSequence ==
  ASSUME NEW S, NEW n \in Nat, NEW f, DOMAIN f = 1 .. n,
         f = [i \in DOMAIN f |-> f[i]], \A i \in 1 .. n : f[i] \in S
  PROVE  f \in Seq(S) /\ Len(f) = n
  <1>1. f \in [1 .. n -> S]
    BY Zenon
  <1> QED BY <1>1

OfFile(file) ==
  {e \in Entry : \E i \in DOMAIN file.shelves : \E k \in DOMAIN file.shelves[i].prefixes :
     e = [prefix |-> file.shelves[i].prefixes[k], shelf |-> file.shelves[i].id]}

\* The loaded map has every prefix of an accepted file with its shelf, and no
\* others; none of them is blank.
THEOREM MapIsTheFile ==
  ASSUME NEW file \in ShelfMapFiles, ValidShelfMap(file)
  PROVE  LET entries == LoadedMap(file).entries
         IN  /\ entries \in Seq(OfFile(file))
             /\ \A e \in OfFile(file) : \E p \in DOMAIN entries : entries[p] = e
             /\ \A p \in DOMAIN entries : ~IsBlank(entries[p].prefix)
  <1> DEFINE shelves == file.shelves
             Pair(i, k) == [prefix |-> shelves[i].prefixes[k], shelf |-> shelves[i].id]
             seqs == [i \in DOMAIN shelves |-> [k \in DOMAIN shelves[i].prefixes |-> Pair(i, k)]]
             entries == LoadedMap(file).entries
  <1>1. shelves \in Seq(Shelf) /\ shelves # <<>>
    BY ReturnMachineAssumption DEF ReturnMachineAssumption, ValidShelfMap
  <1>2. ASSUME NEW i \in DOMAIN shelves
        PROVE  /\ shelves[i] \in Shelf
               /\ shelves[i].prefixes \in Seq(Text)
               /\ seqs[i] \in Seq(OfFile(file))
               /\ DOMAIN seqs[i] = DOMAIN shelves[i].prefixes
    <2>1. shelves[i] \in Shelf
      <3> HIDE DEF shelves
      <3> QED BY <1>1
    <2>2. shelves[i].prefixes \in Seq(Text)
      <3> HIDE DEF shelves
      <3> QED BY <2>1 DEF Shelf
    <2>3. \A k \in DOMAIN shelves[i].prefixes : Pair(i, k) \in OfFile(file)
      <3>1. ASSUME NEW k \in DOMAIN shelves[i].prefixes PROVE Pair(i, k) \in Entry
        <4> HIDE DEF shelves
        <4> QED BY <2>1, <2>2 DEF Entry, Shelf
      <3> QED BY <3>1 DEF OfFile
    <2>4. /\ DOMAIN seqs[i] = DOMAIN shelves[i].prefixes
          /\ seqs[i] = [k \in DOMAIN seqs[i] |-> seqs[i][k]]
          /\ \A k \in DOMAIN shelves[i].prefixes : seqs[i][k] = Pair(i, k)
      <3> HIDE DEF Pair, shelves
      <3> QED OBVIOUS
    <2>5. seqs[i] \in Seq(OfFile(file))
      <3> DEFINE f == seqs[i]
                 n == Len(shelves[i].prefixes)
      <3>1. n \in Nat /\ DOMAIN f = 1 .. n
        <4> HIDE DEF shelves, seqs
        <4> QED BY <2>2, <2>4
      <3>2. \A k \in 1 .. n : f[k] \in OfFile(file)
        <4> HIDE DEF shelves, seqs, Pair, n
        <4> QED BY <2>3, <2>4, <3>1, Zenon
      <3>3. f = [k \in DOMAIN f |-> f[k]]
        BY <2>4, Zenon
      <3> HIDE DEF f, n
      <3>4. f \in Seq(OfFile(file))
        BY <3>1, <3>2, <3>3, FunctionIsSequence
      <3> QED BY <3>4 DEF f
    <2> QED BY <2>1, <2>2, <2>4, <2>5
  <1>3. seqs \in Seq(Seq(OfFile(file))) /\ seqs # <<>>
    <2> DEFINE n == Len(shelves)
    <2>1. n \in Nat \ {0} /\ DOMAIN shelves = 1 .. n
      <3> HIDE DEF shelves
      <3> QED BY <1>1
    <2>2. DOMAIN seqs = DOMAIN shelves /\ seqs = [i \in DOMAIN seqs |-> seqs[i]]
      <3> HIDE DEF Pair, shelves
      <3> QED OBVIOUS
    <2> HIDE DEF seqs, n, shelves
    <2>3. seqs \in Seq(Seq(OfFile(file))) /\ Len(seqs) = n
      BY <1>2, <2>1, <2>2, FunctionIsSequence
    <2> QED BY <2>1, <2>3
  <1>4. entries = FlattenSeq(seqs)
    BY DEF LoadedMap
  <1>5. /\ entries \in Seq(OfFile(file))
        /\ \A i \in DOMAIN seqs : \A j \in DOMAIN seqs[i] :
             \E p \in DOMAIN entries : entries[p] = seqs[i][j]
    <2> HIDE DEF seqs, entries
    <2> QED BY <1>3, <1>4, FlattenSeqMembers
  <1>6. ASSUME NEW e \in OfFile(file)
        PROVE  \E p \in DOMAIN entries : entries[p] = e
    <2>1. PICK i \in DOMAIN shelves : \E k \in DOMAIN shelves[i].prefixes : e = Pair(i, k)
      BY DEF OfFile
    <2>2. PICK k \in DOMAIN shelves[i].prefixes : e = Pair(i, k)
      BY <2>1
    <2>3. i \in DOMAIN seqs /\ k \in DOMAIN seqs[i] /\ seqs[i][k] = e
      BY <2>2
    <2> HIDE DEF entries, seqs
    <2> QED BY <1>5, <2>3, Zenon
  <1>7. ASSUME NEW e \in OfFile(file) PROVE ~IsBlank(e.prefix)
    <2>1. PICK i \in DOMAIN shelves : \E k \in DOMAIN shelves[i].prefixes : e = Pair(i, k)
      BY DEF OfFile
    <2>2. ValidPrefixes(shelves[i].prefixes)
      BY DEF ValidShelfMap, Range
    <2> QED BY <2>1, <2>2 DEF ValidPrefixes
  <1>8. \A p \in DOMAIN entries : entries[p] \in OfFile(file)
    <2> HIDE DEF entries
    <2> QED BY <1>5
  <1> QED BY <1>5, <1>6, <1>7, <1>8
-------------------------------------------------------------------------------
(* The invariant *)

\* What is on the topic was accepted by the return machine and has one of the
\* job identifiers used so far; so has what was planned.
Messages(n) ==
  {TrayJob(t, JobIds[i]) : t \in {a \in Trays : Acceptable(a)}, i \in 1 .. n}
TopicAgrees == topic \in Seq(Messages(issued))
OutcomeAgrees == \/ taken = NoPlan /\ outcome = NoPlan
                 \/ taken \in Messages(issued) /\ outcome = CreatePlan(taken, map)
IInv == TypeOK /\ TopicAgrees /\ OutcomeAgrees

LEMMA InitIInv == Init => IInv
  <1> SUFFICES ASSUME Init PROVE IInv
    OBVIOUS
  <1>1. topic = <<>> /\ Len(<<>>) = 0 /\ Range(<<>>) = {}
    BY DEF Init, Range
  <1>2. 0 <= TopicDepth /\ 0 \in 0 .. Len(JobIds)
    BY ReturnMachineAssumption DEF ReturnMachineAssumption
  <1>3. TypeOK
    BY <1>1, <1>2 DEF Init, TypeOK
  <1>4. TopicAgrees
    BY <1>1 DEF TopicAgrees
  <1> QED BY <1>3, <1>4 DEF IInv, Init, OutcomeAgrees

\* More identifiers used, more messages.
LEMMA MessagesGrow ==
  ASSUME NEW n \in Nat
  PROVE  Messages(n) \subseteq Messages(n + 1)
  <1>1. 1 .. n \subseteq 1 .. n + 1
    OBVIOUS
  <1> QED BY <1>1 DEF Messages

LEMMA RangeOfMessages ==
  ASSUME NEW n \in Nat, NEW s \in Seq(Messages(n))
  PROVE  Range(s) \subseteq {TrayJob(t, JobIds[i]) : t \in Trays, i \in 1 .. n}
  <1>1. \A i \in DOMAIN s : s[i] \in Messages(n)
    OBVIOUS
  <1> QED BY <1>1 DEF Messages, Range

LEMMA SeqGrows ==
  ASSUME NEW S, NEW T, S \subseteq T, NEW s \in Seq(S)
  PROVE  s \in Seq(T)
  OBVIOUS

\* A full queue gives up its oldest message.
LEMMA BoundedAppend ==
  ASSUME NEW S, NEW s \in Seq(S), NEW m \in S, NEW D \in Nat \ {0}, Len(s) <= D,
         NEW q, q = IF Len(Append(s, m)) > D THEN Tail(Append(s, m)) ELSE Append(s, m)
  PROVE  q \in Seq(S) /\ Len(q) <= D
  <1>1. Append(s, m) \in Seq(S) /\ Len(Append(s, m)) = Len(s) + 1
    OBVIOUS
  <1>2. CASE Len(Append(s, m)) > D
    <2>1. Tail(Append(s, m)) \in Seq(S) /\ Len(Tail(Append(s, m))) = Len(s)
      BY <1>1
    <2> QED BY <1>2, <2>1
  <1>3. CASE ~(Len(Append(s, m)) > D)
    BY <1>1, <1>3
  <1> QED BY <1>2, <1>3

\* Publishing keeps the part of the invariant that is about the topic.
PublishedOK == /\ issued \in 0 .. Len(JobIds)
               /\ Len(topic) <= TopicDepth
               /\ TopicAgrees

LEMMA PublishPublishes ==
  ASSUME PublishedOK, tray \in Trays, Acceptable(tray), Publish(tray)
  PROVE  PublishedOK' /\ Messages(issued) \subseteq Messages(issued')
  <1> DEFINE m == TrayJob(tray, JobIds[issued + 1])
  <1>1. /\ issued \in Nat /\ issued + 1 \in 1 .. Len(JobIds)
        /\ issued + 1 \in 1 .. issued + 1 /\ issued' = issued + 1
    BY ReturnMachineAssumption DEF ReturnMachineAssumption, PublishedOK, Publish
  <1>2. Messages(issued) \subseteq Messages(issued')
    BY <1>1, MessagesGrow
  <1>3. m \in Messages(issued')
    BY <1>1 DEF Messages
  <1>4. topic \in Seq(Messages(issued'))
    BY <1>2, SeqGrows DEF PublishedOK, TopicAgrees
  <1>5. topic' \in Seq(Messages(issued')) /\ Len(topic') <= TopicDepth
    <2>1. topic' = IF Len(Append(topic, m)) > TopicDepth
                   THEN Tail(Append(topic, m)) ELSE Append(topic, m)
      BY DEF Publish
    <2>2. TopicDepth \in Nat \ {0} /\ Len(topic) <= TopicDepth
      BY ReturnMachineAssumption DEF ReturnMachineAssumption, PublishedOK
    <2> HIDE DEF m
    <2> QED BY <1>3, <1>4, <2>1, <2>2, BoundedAppend
  <1>6. TopicAgrees'
    BY <1>5 DEF TopicAgrees, Messages
  <1> QED BY <1>1, <1>2, <1>5, <1>6 DEF PublishedOK

LEMMA NextIInv ==
  ASSUME IInv, [Next]_vars
  PROVE  IInv'
  <1>1. /\ PublishedOK /\ issued \in Nat /\ Len(JobIds) \in Nat
        /\ tray \in Trays /\ timer \in BOOLEAN /\ map \in ShelfMaps
        /\ reply \in {"none", "published", "refused"}
    BY ReturnMachineAssumption DEF ReturnMachineAssumption, IInv, TypeOK, PublishedOK
  <1> DEFINE Kept == PublishedOK' /\ Messages(issued) \subseteq Messages(issued')
  <1>2. ASSUME UNCHANGED <<issued, topic>> PROVE Kept
    BY <1>1, <1>2 DEF PublishedOK, TopicAgrees, Messages
  <1>3. ASSUME Kept, UNCHANGED <<map, taken, outcome>> PROVE OutcomeAgrees'
    <2>1. CASE taken = NoPlan
      BY <1>3, <2>1 DEF IInv, OutcomeAgrees
    <2>2. CASE taken \in Messages(issued) /\ outcome = CreatePlan(taken, map)
      <3>1. taken' \in Messages(issued') /\ outcome' = CreatePlan(taken', map')
        BY <1>3, <2>2
      <3> QED BY <3>1 DEF OutcomeAgrees, Messages
    <2> QED BY <2>1, <2>2 DEF IInv, OutcomeAgrees
  <1>4. ASSUME PublishedOK', OutcomeAgrees', tray' \in Trays, timer' \in BOOLEAN,
               map' \in ShelfMaps, reply' \in {"none", "published", "refused"}
        PROVE  IInv'
    <2>1. issued' \in Nat /\ topic' \in Seq(Messages(issued'))
      BY <1>1, <1>4 DEF PublishedOK, TopicAgrees, Messages
    <2>2. Range(topic') \subseteq
            {TrayJob(t, JobIds[i]) : t \in Trays, i \in 1 .. issued'}
      BY <2>1, RangeOfMessages
    <2>3. TypeOK'
      BY <1>4, <2>2 DEF TypeOK, PublishedOK, ShelfMaps
    <2> QED BY <1>4, <2>3 DEF IInv, PublishedOK
  <1>5. CASE SetParameters
    BY <1>1, <1>2, <1>3, <1>4, <1>5 DEF SetParameters
  <1>6. CASE PublishRequest
    <2>1. Kept
      BY <1>1, <1>2, <1>6, PublishPublishes DEF PublishRequest
    <2> QED BY <1>1, <1>3, <1>4, <1>6, <2>1 DEF PublishRequest
  <1>7. CASE TimerFires
    <2>1. Kept
      BY <1>1, <1>2, <1>7, PublishPublishes DEF TimerFires
    <2> QED BY <1>1, <1>3, <1>4, <1>7, <2>1 DEF TimerFires
  <1>8. CASE Plan
    <2>1. topic \in Seq(Messages(issued)) /\ topic # <<>>
      BY <1>1, <1>8 DEF PublishedOK, TopicAgrees, Plan
    <2>2. /\ Head(topic) \in Messages(issued)
          /\ Tail(topic) \in Seq(Messages(issued)) /\ Len(Tail(topic)) <= Len(topic)
          /\ Len(topic) \in Nat /\ Len(Tail(topic)) \in Nat
      BY <2>1
    <2>3. PublishedOK'
      <3>1. issued' = issued /\ topic' = Tail(topic)
        BY <1>8 DEF Plan
      <3>2. Len(topic') <= TopicDepth
        BY <1>1, <2>2, <3>1, ReturnMachineAssumption DEF ReturnMachineAssumption, PublishedOK
      <3>3. topic' \in Seq(Messages(issued'))
        BY <2>2, <3>1
      <3> QED BY <1>1, <3>1, <3>2, <3>3 DEF PublishedOK, TopicAgrees, Messages
    <2>4. OutcomeAgrees'
      <3>1. taken' \in Messages(issued') /\ outcome' = CreatePlan(taken', map')
        BY <1>8, <2>2 DEF Plan
      <3> QED BY <3>1 DEF OutcomeAgrees, Messages
    <2> QED BY <1>1, <1>4, <1>8, <2>3, <2>4 DEF Plan
  <1>9. CASE UNCHANGED vars
    BY <1>1, <1>2, <1>3, <1>4, <1>9 DEF vars
  <1> QED BY <1>5, <1>6, <1>7, <1>8, <1>9 DEF Next

\* Parameters, topic and the last plan agree in every state.
THEOREM ReturnMachineInvariant == Spec => []IInv
  BY InitIInv, NextIInv, PTL DEF Spec

\* The parameters, the queue and the identifiers stay within their bounds.
THEOREM ReturnMachineTypes == Spec => []TypeOK
  BY ReturnMachineInvariant, PTL DEF IInv
-------------------------------------------------------------------------------
(* What the invariant says of the plan *)

LEMMA MapEntries ==
  ASSUME map \in ShelfMaps
  PROVE  /\ map.entries \in Seq(Entry)
         /\ \A p \in DOMAIN map.entries : ~IsBlank(map.entries[p].prefix)
  <1>1. PICK file \in ShelfMapFiles : ValidShelfMap(file) /\ map = LoadedMap(file)
    BY DEF ShelfMaps
  <1> DEFINE entries == LoadedMap(file).entries
  <1>2. /\ entries \in Seq(OfFile(file))
        /\ \A p \in DOMAIN entries : ~IsBlank(entries[p].prefix)
    BY <1>1, MapIsTheFile
  <1>3. OfFile(file) \subseteq Entry
    BY DEF OfFile
  <1> HIDE DEF entries
  <1>4. entries \in Seq(Entry)
    BY <1>2, <1>3, SeqGrows
  <1> QED BY <1>1, <1>2, <1>4 DEF entries

\* The loop and the definition of the longest match agree.
LEMMA LoopIsLongestFirst ==
  ASSUME map.entries \in Seq(Entry), NEW code
  PROVE  /\ Candidates(code) = {} <=> BestMatch(map.entries, code) = 0
         /\ Candidates(code) # {} =>
              /\ BestMatch(map.entries, code) \in DOMAIN map.entries
              /\ LongestFirst(code) = BestMatch(map.entries, code)
  <1> DEFINE entries == map.entries
             N == Len(entries)
             b == BestMatch(entries, code)
             Longest(i) == \A k \in Candidates(code) :
                \/ Len(entries[i].prefix) > Len(entries[k].prefix)
                \/ Len(entries[i].prefix) = Len(entries[k].prefix) /\ i <= k
  <1>1. /\ N \in Nat /\ DOMAIN entries = 1 .. N
        /\ \A i \in 1 .. N : Len(entries[i].prefix) \in Nat
    <2>1. \A i \in 1 .. N : entries[i] \in Entry
      OBVIOUS
    <2>2. \A i \in 1 .. N : Len(entries[i].prefix) \in Nat
      BY <2>1 DEF Entry, Text
    <2> QED BY <2>2
  <1>2. IsFirstLongest(b, entries, code, N)
    BY LoopFindsFirstLongest
  <1> HIDE DEF b, N
  <1>3. \A i : i \in Candidates(code) <=> i \in 1 .. N /\ Match(entries[i], code)
    BY <1>1 DEF Candidates
  <1>4. Candidates(code) = {} <=> b = 0
    BY <1>1, <1>2, <1>3 DEF IsFirstLongest
  <1>5. ASSUME Candidates(code) # {}
        PROVE  b \in Candidates(code) /\ Longest(b)
    <2>1. b # 0 /\ b \in 1 .. N
      BY <1>1, <1>2, <1>4, <1>5 DEF IsFirstLongest
    <2>2. b \in Candidates(code)
      BY <1>2, <1>3, <2>1 DEF IsFirstLongest
    <2>3. ASSUME NEW k \in Candidates(code)
          PROVE  \/ Len(entries[b].prefix) > Len(entries[k].prefix)
                 \/ Len(entries[b].prefix) = Len(entries[k].prefix) /\ b <= k
      <3>1. k \in 1 .. N /\ Match(entries[k], code)
        BY <1>3
      <3> QED BY <1>1, <1>2, <2>1, <3>1 DEF IsFirstLongest
    <2> QED BY <2>2, <2>3
  <1>6. ASSUME Candidates(code) # {}, NEW i \in Candidates(code), Longest(i)
        PROVE  i = b
    <2>1. i \in 1 .. N /\ b \in 1 .. N /\ b \in Candidates(code)
      BY <1>3, <1>5, <1>6
    <2>2. \/ Len(entries[i].prefix) > Len(entries[b].prefix)
          \/ Len(entries[i].prefix) = Len(entries[b].prefix) /\ i <= b
      BY <1>6, <2>1
    <2>3. \/ Len(entries[b].prefix) > Len(entries[i].prefix)
          \/ Len(entries[b].prefix) = Len(entries[i].prefix) /\ b <= i
      BY <1>5, <1>6
    <2> QED BY <1>1, <2>1, <2>2, <2>3
  <1>7. ASSUME Candidates(code) # {} PROVE LongestFirst(code) = b
    <2>1. LongestFirst(code) = CHOOSE i \in Candidates(code) : Longest(i)
      BY DEF LongestFirst
    <2> HIDE DEF Longest
    <2> QED BY <1>5, <1>6, <1>7, <2>1
  <1>8. Candidates(code) # {} => b \in DOMAIN entries
    BY <1>3, <1>5, <1>1
  <1> QED BY <1>4, <1>7, <1>8 DEF b

\* What the checks of the return machine leave to the planner.
LEMMA AcceptedMessage ==
  ASSUME NEW n \in 0 .. Len(JobIds), NEW m \in Messages(n)
  PROVE  /\ Strip(m.jobId) \in Text \ {Blank} /\ Strip(m.trayId) # Blank
         /\ m.bookIds \in Seq(Raw) /\ m.codes \in Seq(Raw)
         /\ DOMAIN m.codes = DOMAIN m.bookIds
         /\ DOMAIN m.bookIds = 1 .. Len(m.bookIds) /\ Len(m.bookIds) \in Nat \ {0}
         /\ Distinct(m.bookIds)
         /\ Identifiers(m.bookIds) /\ Identifiers(m.rfidTags) /\ Identifiers(m.codes)
         /\ m.bookIds # <<>>
         /\ Len(m.bookIds) = Len(m.rfidTags) /\ Len(m.bookIds) = Len(m.codes)
  <1>1. PICK t \in Trays, i \in 1 .. n : Acceptable(t) /\ m = TrayJob(t, JobIds[i])
    BY DEF Messages
  <1>2. t \in TrayContents
    BY ReturnMachineAssumption DEF ReturnMachineAssumption
  <1>3. JobIds[i] \in Text \ {Blank}
    <2>1. JobIds \in Seq(Text \ {Blank}) /\ i \in 1 .. Len(JobIds)
      BY ReturnMachineAssumption DEF ReturnMachineAssumption
    <2> QED BY <2>1
  <1>4. /\ t.trayId \in Raw /\ t.bookIds \in Seq(Raw) /\ t.codes \in Seq(Raw)
    BY <1>2 DEF TrayContents
  <1>5. /\ m.bookIds = t.bookIds /\ m.rfidTags = t.rfidTags /\ m.codes = t.codes
        /\ m.jobId.text = JobIds[i] /\ m.trayId.text = t.trayId.text
    BY <1>1, <1>4 DEF TrayJob, Raw
  <1>6. ValidTrayData(t) /\ t.trayId.text # Blank
    BY <1>1 DEF Acceptable, Strip
  <1>7. /\ DOMAIN t.bookIds = 1 .. Len(t.bookIds) /\ DOMAIN t.codes = 1 .. Len(t.codes)
        /\ Len(t.bookIds) \in Nat
        /\ t.bookIds # <<>> => Len(t.bookIds) # 0
    BY <1>4
  <1> QED BY <1>3, <1>4, <1>5, <1>6, <1>7 DEF ValidTrayData, Strip

\* The tasks create_plan makes when it makes any.
PlanOf(m) == [job   |-> Strip(m.jobId),
              tasks |-> [i \in 1 .. Len(m.bookIds) |->
                           [book  |-> Strip(m.bookIds[i]),
                            shelf |-> ShelfFor(map.entries, Strip(m.codes[i]))]]]

LEMMA TasksAreTyped ==
  ASSUME NEW m, m.bookIds \in Seq(Raw), m.codes \in Seq(Raw), Len(m.bookIds) = Len(m.codes),
         map.entries \in Seq(Entry),
         \A i \in DOMAIN m.codes : CanPlan(map.entries, Strip(m.codes[i]))
  PROVE  PlanOf(m).tasks \in Seq([book : Text, shelf : STRING \ {NoId}])
  <1> DEFINE T == [book : Text, shelf : STRING \ {NoId}]
             Task(i) == [book |-> Strip(m.bookIds[i]),
                         shelf |-> ShelfFor(map.entries, Strip(m.codes[i]))]
             N == Len(m.bookIds)
             tasks == [i \in 1 .. N |-> Task(i)]
  <1>1. N \in Nat /\ DOMAIN m.bookIds = 1 .. N /\ DOMAIN m.codes = 1 .. N
    OBVIOUS
  <1>2. ASSUME NEW i \in 1 .. N PROVE Task(i) \in T
    <2>1. m.bookIds[i] \in Raw
      BY <1>1
    <2>2. Strip(m.bookIds[i]) \in Text
      BY <2>1 DEF Strip, Raw
    <2> DEFINE code == Strip(m.codes[i])
    <2>3. BestMatch(map.entries, code) # 0
      BY <1>1 DEF CanPlan, HasShelf
    <2>4. BestMatch(map.entries, code) \in DOMAIN map.entries
      BY <2>3, LoopIsLongestFirst
    <2>5. map.entries[BestMatch(map.entries, code)] \in Entry
      BY <2>4
    <2>6. ShelfFor(map.entries, code) \in STRING \cup {NoId}
      BY <2>5 DEF ShelfFor, Entry
    <2>7. ShelfFor(map.entries, code) # NoId
      BY <1>1 DEF CanPlan
    <2> QED BY <2>2, <2>6, <2>7
  <1>3. tasks \in Seq(T)
    <2>1. DOMAIN tasks = 1 .. N /\ tasks = [i \in DOMAIN tasks |-> tasks[i]]
      OBVIOUS
    <2>2. \A i \in 1 .. N : tasks[i] \in T
      BY <1>2
    <2> HIDE DEF tasks, T
    <2> QED BY <1>1, <2>1, <2>2, FunctionIsSequence
  <1>4. PlanOf(m).tasks = tasks
    BY DEF PlanOf
  <1> QED BY <1>3, <1>4

LEMMA PlanIsPlanned ==
  ASSUME NEW n \in 0 .. Len(JobIds), NEW m \in Messages(n), map.entries \in Seq(Entry),
         \A i \in DOMAIN m.codes : CanPlan(map.entries, Strip(m.codes[i]))
  PROVE  PlanOf(m) \in Planned
  <1>1. /\ Strip(m.jobId) \in Text /\ m.bookIds \in Seq(Raw) /\ m.codes \in Seq(Raw)
        /\ Len(m.bookIds) = Len(m.codes)
    BY AcceptedMessage
  <1> DEFINE tasks == PlanOf(m).tasks
             Named == [book : Text, shelf : STRING \ {NoId}]
             AnyTask == [book : Text, shelf : STRING \cup {NoId}]
  <1>2. tasks \in Seq(Named)
    BY <1>1, TasksAreTyped
  <1>3. Named \subseteq AnyTask
    OBVIOUS
  <1>4. PlanOf(m) = [job |-> Strip(m.jobId), tasks |-> tasks]
    BY DEF PlanOf
  <1>5. tasks \in Seq(AnyTask)
    <2> HIDE DEF tasks, Named, AnyTask
    <2> QED BY <1>2, <1>3, SeqGrows
  <1> HIDE DEF tasks
  <1> QED BY <1>1, <1>4, <1>5 DEF Planned

\* A message has been planned, or there is a reason to refuse it.
LEMMA Outcomes ==
  ASSUME IInv, taken # NoPlan \/ outcome # NoPlan
  PROVE  /\ taken \in Messages(issued) /\ issued \in 0 .. Len(JobIds)
         /\ outcome = CreatePlan(taken, map)
         /\ map \in ShelfMaps
         /\ outcome # NoPlan => /\ outcome = PlanOf(taken)
                                /\ WellFormed(taken)
                                /\ \A i \in DOMAIN taken.codes :
                                     CanPlan(map.entries, Strip(taken.codes[i]))
         /\ outcome = NoPlan => \/ ~WellFormed(taken) \/ ~Located(map)
                                \/ \E i \in DOMAIN taken.codes :
                                     ~CanPlan(map.entries, Strip(taken.codes[i]))
  <1>1. /\ taken \in Messages(issued) /\ issued \in 0 .. Len(JobIds)
        /\ outcome = CreatePlan(taken, map)
        /\ map \in ShelfMaps
    BY DEF IInv, TypeOK, OutcomeAgrees
  <1> DEFINE Refused == \/ ~WellFormed(taken)
                        \/ ~Located(map)
                        \/ \E i \in DOMAIN taken.codes :
                             ~CanPlan(map.entries, Strip(taken.codes[i]))
  <1>2. outcome = IF Refused THEN NoPlan ELSE PlanOf(taken)
    BY <1>1 DEF CreatePlan, PlanOf
  <1>3. ~Refused => PlanOf(taken) \in Planned
    <2>1. map.entries \in Seq(Entry)
      BY <1>1, MapEntries
    <2> QED BY <1>1, <2>1, PlanIsPlanned
  <1>4. NoPlan \notin Planned
    BY ReturnMachineAssumption DEF ReturnMachineAssumption
  <1> QED BY <1>1, <1>2, <1>3, <1>4

LEMMA LongestPrefixFollows == IInv => LongestPrefixWins
  <1> SUFFICES ASSUME IInv, outcome # NoPlan, NEW i \in DOMAIN taken.codes
               PROVE  LET best == map.entries[LongestFirst(Strip(taken.codes[i]))]
                      IN outcome.tasks[i].shelf = best.shelf /\ ~IsBlank(best.prefix)
    BY DEF LongestPrefixWins
  <1> DEFINE code == Strip(taken.codes[i])
             b == BestMatch(map.entries, code)
  <1>1. /\ taken \in Messages(issued) /\ issued \in 0 .. Len(JobIds) /\ map \in ShelfMaps
        /\ outcome = PlanOf(taken) /\ CanPlan(map.entries, code)
    BY Outcomes
  <1>2. DOMAIN taken.codes = 1 .. Len(taken.bookIds)
    BY <1>1, AcceptedMessage
  <1>3. outcome.tasks[i].shelf = map.entries[b].shelf
    BY <1>1, <1>2 DEF PlanOf, ShelfFor
  <1>4. /\ map.entries \in Seq(Entry)
        /\ \A p \in DOMAIN map.entries : ~IsBlank(map.entries[p].prefix)
    BY <1>1, MapEntries
  <1>5. b # 0
    BY <1>1 DEF CanPlan, HasShelf
  <1>6. b \in DOMAIN map.entries /\ LongestFirst(code) = b
    BY <1>4, <1>5, LoopIsLongestFirst
  <1> QED BY <1>3, <1>4, <1>6

\* Each book goes to the shelf of the first of the longest prefixes of its
\* code, whatever the map and the tray, and that prefix is not blank.
THEOREM LongestPrefixAlwaysWins == Spec => []LongestPrefixWins
  BY ReturnMachineInvariant, LongestPrefixFollows, PTL

LEMMA CoversTrayFollows == IInv => PlanCoversTray
  <1> SUFFICES ASSUME IInv, outcome # NoPlan PROVE PlanCoversTray
    BY DEF PlanCoversTray
  <1> DEFINE N == Len(taken.bookIds)
  <1>1. /\ taken \in Messages(issued) /\ issued \in 0 .. Len(JobIds)
        /\ outcome = PlanOf(taken) /\ WellFormed(taken)
    BY Outcomes
  <1>2. DOMAIN taken.bookIds = 1 .. N /\ N \in Nat \ {0}
    BY <1>1, AcceptedMessage
  <1>3. /\ outcome.tasks = [i \in 1 .. N |-> outcome.tasks[i]]
        /\ \A i \in 1 .. N : outcome.tasks[i].book = Strip(taken.bookIds[i])
    BY <1>1 DEF PlanOf
  <1>4. DOMAIN outcome.tasks = 1 .. N /\ Len(outcome.tasks) = N /\ outcome.tasks # <<>>
    BY <1>2, <1>3
  <1>5. \A i, k \in 1 .. N : Strip(taken.bookIds[i]) = Strip(taken.bookIds[k]) => i = k
    BY <1>1, <1>2 DEF WellFormed, StripAll, Distinct
  <1> DEFINE tasks == outcome.tasks
  <1>6. \A i \in DOMAIN tasks : tasks[i].book = Strip(taken.bookIds[i])
    BY <1>3, <1>4
  <1>7. \A i, k \in DOMAIN tasks : tasks[i].book = tasks[k].book => i = k
    <2> HIDE DEF tasks
    <2> QED BY <1>4, <1>5, <1>6 DEF tasks
  <1> HIDE DEF N
  <1> QED BY <1>4, <1>6, <1>7, Zenon DEF PlanCoversTray, N

\* A plan has one task for each book of the tray, in the order of the tray, and
\* no book twice: all that the task manager takes for granted.
THEOREM PlanAlwaysCoversTray == Spec => []PlanCoversTray
  BY ReturnMachineInvariant, CoversTrayFollows, PTL

LEMMA RefusalFollows == IInv => RefusedForAReason
  <1> SUFFICES ASSUME IInv, taken # NoPlan, outcome = NoPlan PROVE RefusedForAReason
    BY DEF RefusedForAReason
  <1>1. /\ taken \in Messages(issued) /\ issued \in 0 .. Len(JobIds) /\ map \in ShelfMaps
        /\ \/ ~WellFormed(taken) \/ ~Located(map)
           \/ \E i \in DOMAIN taken.codes :
                ~CanPlan(map.entries, Strip(taken.codes[i]))
    BY Outcomes
  <1>2. CASE ~WellFormed(taken)
    <2>1. ~Distinct(StripAll(taken.bookIds)) /\ Distinct(taken.bookIds)
      BY <1>1, <1>2, AcceptedMessage DEF WellFormed
    <2>2. PICK i, k \in DOMAIN taken.bookIds :
            Strip(taken.bookIds[i]) = Strip(taken.bookIds[k]) /\ i # k
      BY <2>1 DEF Distinct, StripAll
    <2>3. taken.bookIds[i] # taken.bookIds[k]
      BY <2>1, <2>2 DEF Distinct
    <2> QED BY <2>2, <2>3 DEF RefusedForAReason
  <1>3. CASE ~Located(map)
    BY <1>3 DEF Located, RefusedForAReason
  <1>4. ASSUME NEW i \in DOMAIN taken.codes, ~CanPlan(map.entries, Strip(taken.codes[i]))
        PROVE  RefusedForAReason
    <2> DEFINE code == Strip(taken.codes[i])
    <2>1. map.entries \in Seq(Entry)
      BY <1>1, MapEntries
    <2>2. Candidates(code) = {} \/ map.entries[LongestFirst(code)].shelf = NoId
      BY <1>4, <2>1, LoopIsLongestFirst DEF CanPlan, HasShelf, ShelfFor
    <2> QED BY <2>2 DEF RefusedForAReason
  <1> QED BY <1>1, <1>2, <1>3, <1>4

\* The planner refuses a tray of the return machine for one of the listed
\* reasons only: the checks of the two sides differ in nothing else.
THEOREM AlwaysRefusedForAReason == Spec => []RefusedForAReason
  BY ReturnMachineInvariant, RefusalFollows, PTL
-------------------------------------------------------------------------------
(* What the task manager is given *)

\* TaskManager knows of the planner by four constants.  Here they are with this
\* planner, for any message the topic may carry, whoever published it, and what
\* TaskManagerAssumption wants of them.
TrayJobMessage == [jobId : Raw, trayId : Raw, bookIds : Seq(Raw), rfidTags : Seq(Raw),
                   codes : Seq(Raw)]
Plannable == {m \in TrayJobMessage : CreatePlan(m, map) # NoPlan}
JobIdOf == [m \in TrayJobMessage |->
              IF Strip(m.jobId) = Blank THEN NoPlan ELSE Strip(m.jobId)]
TasksOf == [m \in Plannable |-> CreatePlan(m, map).tasks]

ServesTaskManager ==
  LET Job == Text \ {Blank}
      Task == [book : Text \ {Blank}, shelf : STRING \ {NoId}]
  IN  /\ JobIdOf \in [TrayJobMessage -> Job \cup {NoPlan}]
      /\ \A m \in Plannable : JobIdOf[m] \in Job /\ CreatePlan(m, map).job = JobIdOf[m]
      /\ TasksOf \in [Plannable -> Seq(Task) \ {<<>>}]
      /\ \A m \in Plannable : \A i, k \in DOMAIN TasksOf[m] :
           TasksOf[m][i].book = TasksOf[m][k].book => i = k

LEMMA PlannableMessage ==
  ASSUME map.entries \in Seq(Entry), NEW m \in Plannable
  PROVE  /\ WellFormed(m) /\ CreatePlan(m, map) = PlanOf(m)
         /\ PlanOf(m).tasks \in Seq([book : Text \ {Blank}, shelf : STRING \ {NoId}]) \ {<<>>}
         /\ \A i, k \in DOMAIN PlanOf(m).tasks :
              PlanOf(m).tasks[i].book = PlanOf(m).tasks[k].book => i = k
  <1> DEFINE N == Len(m.bookIds)
             tasks == PlanOf(m).tasks
  <1>1. /\ m.bookIds \in Seq(Raw) /\ m.codes \in Seq(Raw)
        /\ WellFormed(m) /\ CreatePlan(m, map) = PlanOf(m)
        /\ \A i \in DOMAIN m.codes : CanPlan(map.entries, Strip(m.codes[i]))
    <2>1. m \in TrayJobMessage /\ CreatePlan(m, map) # NoPlan
      BY DEF Plannable
    <2>2. m.bookIds \in Seq(Raw) /\ m.codes \in Seq(Raw)
      BY <2>1 DEF TrayJobMessage
    <2> QED BY <2>1, <2>2 DEF CreatePlan, PlanOf
  <1>2. N = Len(m.codes) /\ m.bookIds # <<>> /\ Identifiers(m.bookIds)
        /\ Distinct(StripAll(m.bookIds))
    BY <1>1 DEF WellFormed
  <1>3. N \in Nat \ {0} /\ DOMAIN m.bookIds = 1 .. N
    BY <1>1, <1>2
  <1>4. tasks \in Seq([book : Text, shelf : STRING \ {NoId}])
    BY <1>1, <1>2, TasksAreTyped
  <1>5. /\ tasks = [i \in 1 .. N |-> tasks[i]]
        /\ \A i \in 1 .. N : tasks[i].book = Strip(m.bookIds[i])
    BY DEF PlanOf
  <1>6. DOMAIN tasks = 1 .. N /\ tasks # <<>>
    BY <1>3, <1>5
  <1>7. \A i \in 1 .. N : tasks[i].book # Blank
    BY <1>2, <1>3, <1>5 DEF Identifiers
  <1> HIDE DEF tasks, N
  <1>8. tasks \in Seq([book : Text \ {Blank}, shelf : STRING \ {NoId}])
    <2>1. ASSUME NEW i \in 1 .. N
          PROVE  tasks[i] \in [book : Text \ {Blank}, shelf : STRING \ {NoId}]
      <3> DEFINE T == [book : Text, shelf : STRING \ {NoId}]
      <3>1. tasks \in Seq(T) /\ i \in DOMAIN tasks
        BY <1>4, <1>6
      <3>2. tasks[i] \in T
        <4> HIDE DEF T
        <4> QED BY <3>1
      <3> QED BY <1>7, <3>2
    <2>2. N \in Nat /\ tasks = [i \in DOMAIN tasks |-> tasks[i]]
      BY <1>3, <1>5, <1>6
    <2> QED BY <1>6, <2>1, <2>2, FunctionIsSequence
  <1>9. \A i, k \in DOMAIN tasks : tasks[i].book = tasks[k].book => i = k
    <2>1. \A i, k \in 1 .. N : Strip(m.bookIds[i]) = Strip(m.bookIds[k]) => i = k
      BY <1>2, <1>3 DEF Distinct, StripAll
    <2> QED BY <1>5, <1>6, <2>1
  <1> QED BY <1>1, <1>6, <1>8, <1>9 DEF tasks

LEMMA PlansServe == IInv => ServesTaskManager
  <1> SUFFICES ASSUME IInv PROVE ServesTaskManager
    OBVIOUS
  <1> DEFINE Task == [book : Text \ {Blank}, shelf : STRING \ {NoId}]
  <1>1. map.entries \in Seq(Entry)
    BY MapEntries DEF IInv, TypeOK
  <1>2. ASSUME NEW m \in TrayJobMessage PROVE Strip(m.jobId) \in Text
    BY DEF TrayJobMessage, Strip, Raw
  <1>3. JobIdOf \in [TrayJobMessage -> (Text \ {Blank}) \cup {NoPlan}]
    BY <1>2 DEF JobIdOf
  <1>4. ASSUME NEW m \in Plannable
        PROVE  /\ JobIdOf[m] \in Text \ {Blank} /\ CreatePlan(m, map).job = JobIdOf[m]
               /\ TasksOf[m] = PlanOf(m).tasks
    <2>1. m \in TrayJobMessage /\ WellFormed(m) /\ CreatePlan(m, map) = PlanOf(m)
      BY <1>1, PlannableMessage DEF Plannable
    <2>2. JobIdOf[m] = Strip(m.jobId) /\ Strip(m.jobId) \in Text \ {Blank}
      BY <1>2, <2>1 DEF JobIdOf, WellFormed
    <2> QED BY <2>1, <2>2 DEF TasksOf, PlanOf
  <1>5. TasksOf \in [Plannable -> Seq(Task) \ {<<>>}]
    <2>1. \A m \in Plannable : TasksOf[m] \in Seq(Task) \ {<<>>}
      <3> HIDE DEF Task
      <3> QED BY <1>1, <1>4, PlannableMessage DEF Task
    <2>2. TasksOf = [m \in Plannable |-> TasksOf[m]]
      BY DEF TasksOf
    <2> HIDE DEF Task
    <2> QED BY <2>1, <2>2
  <1>6. ASSUME NEW m \in Plannable, NEW i \in DOMAIN TasksOf[m], NEW k \in DOMAIN TasksOf[m],
               TasksOf[m][i].book = TasksOf[m][k].book
        PROVE  i = k
    <2> DEFINE tasks == PlanOf(m).tasks
    <2>1. TasksOf[m] = tasks
      BY <1>4
    <2>2. \A j, l \in DOMAIN tasks : tasks[j].book = tasks[l].book => j = l
      BY <1>1, PlannableMessage
    <2> HIDE DEF tasks
    <2> QED BY <1>6, <2>1, <2>2
  <1> QED BY <1>3, <1>4, <1>5, <1>6 DEF ServesTaskManager

\* What is proved of the task manager is proved of it with this planner: for every
\* shelf map it accepts and any message, plans have a job identifier, at least
\* one task, no book twice, and a shelf for each (job_planner.py).
THEOREM PlannerServesTaskManager == Spec => []ServesTaskManager
  BY ReturnMachineInvariant, PlansServe, PTL
===============================================================================
