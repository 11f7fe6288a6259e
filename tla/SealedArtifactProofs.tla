------------------------ MODULE SealedArtifactProofs ------------------------
(***************************************************************************)
(* For any number of programs, of any of the commands, and a log of any    *)
(* length: the reviews of the file name reviews that the file has, and the *)
(* receipts of the service stay true of its log.                           *)
(***************************************************************************)
EXTENDS SealedArtifact, SequenceTheorems, FiniteSetTheorems, WellFoundedInduction,
        TLAPS

-----------------------------------------------------------------------------
(* Reviews.                                                                *)

\* A payload whose reviews name only reviews that it has.
Closed(f) ==
    /\ "ledger" \in DOMAIN f
    /\ \A r \in f.ledger : r.prev # None => r.prev \in Ids(f.ledger)

\* The invariant: also what the programs hold is closed.
AllClosed ==
    /\ Closed(file)
    /\ DOMAIN seen = Program /\ \A p \in Program : Closed(seen[p])
    /\ DOMAIN copy = Program /\ \A p \in Program : Closed(copy[p])

LEMMA NoFileClosed == \A governed : Closed(Sealed(governed))
  BY DEF Closed, Sealed

\* The new review follows one of those read at the start, so the records are
\* closed, and what the payload holds besides follows something in the payload.
LEMMA RecordsClosed ==
  ASSUME NEW old, Closed(old), NEW payload, Closed(payload), NEW id,
         NEW previous \in Latest(old.ledger), NEW last,
         NEW records, records = old.ledger \cup {[id |-> id, prev |-> previous]}
  PROVE  Closed(Reviewed(payload, records, last))
<1> DEFINE kept == {r \in payload.ledger : r.id \notin Ids(records)}
           all  == records \cup kept
           new  == Reviewed(payload, records, last)
<1>1. "ledger" \in DOMAIN new /\ new.ledger = all
  BY DEF Closed, Reviewed
<1>2. \A i \in Ids(payload.ledger) : i \in Ids(all)
  BY DEF Ids
<1>3. \A i \in Ids(old.ledger) : i \in Ids(all)
  BY DEF Ids
<1>4. previous # None => previous \in Ids(all)
  <2>1. previous \in {None} \cup Ids(old.ledger)
    BY DEF Latest, Ids, Tails
  <2> QED BY <2>1, <1>3
<1>5. ASSUME NEW r \in all, r.prev # None PROVE r.prev \in Ids(all)
  <2>1. CASE r \in old.ledger
    BY <2>1, <1>5, <1>3 DEF Closed
  <2>2. CASE r = [id |-> id, prev |-> previous]
    BY <2>2, <1>5, <1>4
  <2>3. CASE r \in kept
    BY <2>3, <1>5, <1>2 DEF Closed
  <2> QED BY <2>1, <2>2, <2>3
<1> HIDE DEF new, all
<1>6. Closed(new)
  BY <1>1, <1>5 DEF Closed
<1> QED BY <1>6 DEF new

LEMMA ClosedInit == Init => AllClosed
  BY NoFileClosed DEF Init, AllClosed, NoFile

LEMMA ClosedEnd ==
  ASSUME AllClosed, Closed(file'), NEW p \in Program, NEW place, End(p, place)
  PROVE  AllClosed'
  BY NoFileClosed DEF AllClosed, End, Go, NoFile

LEMMA ClosedStep == AllClosed /\ [Next]_vars => AllClosed'
<1> SUFFICES ASSUME AllClosed, [Next]_vars PROVE AllClosed'
  OBVIOUS
<1>1. ASSUME NEW p \in Program, NEW command \in Command, Load(p, command)
      PROVE  AllClosed'
  BY <1>1 DEF AllClosed, Load
<1>2. ASSUME NEW p \in Program,
             Send(p) \/ Retry(p) \/ RegisterLocally(p) \/ \E m \in replies : Accept(p, m)
      PROVE  AllClosed'
  BY <1>2 DEF AllClosed, Send, Retry, RegisterLocally, Accept
<1>3. ASSUME NEW p \in Program, Copy(p)
      PROVE  AllClosed'
  BY <1>3 DEF AllClosed, Copy
<1>4. ASSUME NEW p \in Program, Fail(p) \/ Die(p)
      PROVE  AllClosed'
  BY <1>4, ClosedEnd DEF Fail, Die, AllClosed
<1>5. ASSUME NEW p \in Program, AddReview(p)
      PROVE  AllClosed'
  <2> PICK previous \in Latest(seen[p].ledger) :
        LET records == seen[p].ledger \cup {[id |-> p, prev |-> previous]}
        IN \E last \in Latest(records) : Replace(p, Reviewed(copy[p], records, last))
    BY <1>5 DEF AddReview
  <2> DEFINE records == seen[p].ledger \cup {[id |-> p, prev |-> previous]}
  <2> PICK last \in Latest(records) : Replace(p, Reviewed(copy[p], records, last))
    OBVIOUS
  <2>1. Closed(seen[p]) /\ Closed(copy[p])
    BY DEF AllClosed
  <2>2. Closed(Reviewed(copy[p], records, last))
    BY <2>1, RecordsClosed
  <2> QED BY <2>2, ClosedEnd DEF Replace
<1>6. ASSUME NEW p \in Program, Embed(p)
      PROVE  AllClosed'
  <2>1. Closed(copy[p])
    BY DEF AllClosed
  <2>2. Closed(file')
    BY <1>6, <2>1 DEF Embed, Replace, Closed
  <2> QED BY <1>6, <2>2, ClosedEnd DEF Embed, Replace
<1>7. ASSUME NEW p \in Program, Refresh(p)
      PROVE  AllClosed'
  <2>1. Closed(copy[p])
    BY DEF AllClosed
  <2>2. Closed(file')
    BY <1>7, <2>1 DEF Refresh, Replace, Closed
  <2> QED BY <1>7, <2>2, ClosedEnd DEF Refresh, Replace
<1>8. CASE (\E m \in net : Serve(m)) \/ Others \/ UNCHANGED vars
  BY <1>8 DEF AllClosed, Serve, Others, vars
<1> QED BY <1>1, <1>2, <1>3, <1>4, <1>5, <1>6, <1>7, <1>8 DEF Next, Step

\* A review in the file names one that is in the file, or none, whichever programs
\* work on the file at the same time, overwrite each other's work or die.
THEOREM AncestorsStay == Spec => []ReviewsHaveAncestors
<1>1. AllClosed => ReviewsHaveAncestors
  BY DEF AllClosed, Closed, ReviewsHaveAncestors
<1> QED BY <1>1, ClosedInit, ClosedStep, PTL DEF Spec

-----------------------------------------------------------------------------
(* Induction: a set of natural numbers that has zero and, with each number *)
(* that it has, the next one, has them all.                                *)

Less == {p \in Nat \X Nat : p[1] < p[2]}

LEMMA LessWellFounded == IsWellFoundedOn(Less, Nat)
  BY NatLessThanWellFounded DEF OpToRel, Less

LEMMA Least ==
  ASSUME NEW T, T \subseteq Nat, T # {}
  PROVE  \E i \in T : \A j \in T : i <= j
<1>1. PICK i \in T : \A j \in T : ~(<<j, i>> \in Less)
  BY LessWellFounded, WFMin, Zenon
<1>2. ASSUME NEW j \in T PROVE i <= j
  <2>1. i \in Nat /\ j \in Nat
    OBVIOUS
  <2>2. <<j, i>> \in Less <=> j < i
    BY <2>1 DEF Less
  <2> QED BY <1>1, <2>1, <2>2
<1> QED BY <1>2

LEMMA Induction ==
  ASSUME NEW T, 0 \in T, \A n \in Nat : n \in T => n + 1 \in T
  PROVE  \A n \in Nat : n \in T
<1> SUFFICES ASSUME Nat \ T # {} PROVE FALSE
  OBVIOUS
<1>1. PICK i \in Nat \ T : \A j \in Nat \ T : i <= j
  BY Least
<1>2. i \in Nat /\ i # 0 /\ i - 1 \in Nat /\ ~(i <= i - 1) /\ (i - 1) + 1 = i
  OBVIOUS
<1>3. i - 1 \in T
  BY <1>1, <1>2
<1> QED BY <1>2, <1>3

-----------------------------------------------------------------------------
(* The hash tree.  The three recursive functions are what their equations say. *)

LEMMA LevelsAre ==
  ASSUME NEW leaves, Len(leaves) \in Nat
  PROVE  Levels(leaves) = [k \in 0 .. Len(leaves) |->
            IF k = 0 THEN leaves ELSE Above(Levels(leaves)[k - 1])]
<1> DEFINE Exists(m) ==
        \E g : g = [k \in 0 .. m |-> IF k = 0 THEN leaves ELSE Above(g[k - 1])]
           T == {m \in Nat : Exists(m)}
<1>1. 0 \in T
  <2> DEFINE g == [k \in 0 .. 0 |-> leaves]
  <2>1. g = [k \in 0 .. 0 |-> IF k = 0 THEN leaves ELSE Above(g[k - 1])]
    OBVIOUS
  <2> HIDE DEF g
  <2>2. Exists(0)
    BY <2>1
  <2> QED BY <2>2
<1>2. ASSUME NEW m \in Nat, m \in T PROVE m + 1 \in T
  <2>1. PICK g : g = [k \in 0 .. m |-> IF k = 0 THEN leaves ELSE Above(g[k - 1])]
    BY <1>2
  <2> DEFINE h == [k \in 0 .. m + 1 |-> IF k = m + 1 THEN Above(g[m]) ELSE g[k]]
  <2>2. ASSUME NEW k \in 0 .. m + 1
        PROVE  h[k] = IF k = 0 THEN leaves ELSE Above(h[k - 1])
    <3>1. CASE k = m + 1
      <4>1. k - 1 = m /\ h[m] = g[m] /\ k # 0
        BY <3>1
      <4> QED BY <3>1, <4>1
    <3>2. CASE k # m + 1
      <4>1. k \in 0 .. m /\ h[k] = g[k]
        BY <3>2
      <4>2. k # 0 => k - 1 \in 0 .. m /\ h[k - 1] = g[k - 1]
        BY <4>1
      <4>3. g[k] = IF k = 0 THEN leaves ELSE Above(g[k - 1])
        BY <2>1, <4>1
      <4> HIDE DEF h
      <4> QED BY <4>1, <4>2, <4>3
    <3> QED BY <3>1, <3>2
  <2>3. h = [k \in 0 .. m + 1 |-> h[k]]
    OBVIOUS
  <2> HIDE DEF h
  <2>4. h = [k \in 0 .. m + 1 |-> IF k = 0 THEN leaves ELSE Above(h[k - 1])]
    BY <2>2, <2>3
  <2>5. Exists(m + 1)
    BY <2>4
  <2> QED BY <2>5
<1> HIDE DEF T
<1>3. \A m \in Nat : m \in T
  BY <1>1, <1>2, Induction
<1>4. Exists(Len(leaves))
  BY <1>3 DEF T
<1> QED BY <1>4 DEF Levels

\* The places along the path to the root, likewise.
LEMMA PlacesAre ==
  ASSUME NEW leaves, NEW index, Len(leaves) \in Nat
  PROVE  Places(leaves, index) = [k \in 0 .. Len(leaves) |->
            IF k = 0 THEN index ELSE Places(leaves, index)[k - 1] \div 2]
<1> DEFINE Exists(m) ==
        \E g : g = [k \in 0 .. m |-> IF k = 0 THEN index ELSE g[k - 1] \div 2]
           T == {m \in Nat : Exists(m)}
<1>1. 0 \in T
  <2> DEFINE g == [k \in 0 .. 0 |-> index]
  <2>1. g = [k \in 0 .. 0 |-> IF k = 0 THEN index ELSE g[k - 1] \div 2]
    OBVIOUS
  <2> HIDE DEF g
  <2>2. Exists(0)
    BY <2>1
  <2> QED BY <2>2
<1>2. ASSUME NEW m \in Nat, m \in T PROVE m + 1 \in T
  <2>1. PICK g : g = [k \in 0 .. m |-> IF k = 0 THEN index ELSE g[k - 1] \div 2]
    BY <1>2
  <2> DEFINE h == [k \in 0 .. m + 1 |-> IF k = m + 1 THEN g[m] \div 2 ELSE g[k]]
  <2>2. ASSUME NEW k \in 0 .. m + 1
        PROVE  h[k] = IF k = 0 THEN index ELSE h[k - 1] \div 2
    <3>1. CASE k = m + 1
      <4>1. k - 1 = m /\ h[m] = g[m] /\ k # 0
        BY <3>1
      <4> QED BY <3>1, <4>1
    <3>2. CASE k # m + 1
      <4>1. k \in 0 .. m /\ h[k] = g[k]
        BY <3>2
      <4>2. k # 0 => k - 1 \in 0 .. m /\ h[k - 1] = g[k - 1]
        BY <4>1
      <4>3. g[k] = IF k = 0 THEN index ELSE g[k - 1] \div 2
        BY <2>1, <4>1
      <4> HIDE DEF h
      <4> QED BY <4>1, <4>2, <4>3
    <3> QED BY <3>1, <3>2
  <2>3. h = [k \in 0 .. m + 1 |-> h[k]]
    OBVIOUS
  <2> HIDE DEF h
  <2>4. h = [k \in 0 .. m + 1 |-> IF k = 0 THEN index ELSE h[k - 1] \div 2]
    BY <2>2, <2>3
  <2>5. Exists(m + 1)
    BY <2>4
  <2> QED BY <2>5
<1> HIDE DEF T
<1>3. \A m \in Nat : m \in T
  BY <1>1, <1>2, Induction
<1>4. Exists(Len(leaves))
  BY <1>3 DEF T
<1> QED BY <1>4 DEF Places

\* The hashes along a path, likewise.
LEMMA HashesAre ==
  ASSUME NEW leaf, NEW path, Len(path) \in Nat
  PROVE  Hashes(leaf, path) = [k \in 0 .. Len(path) |->
            IF k = 0 THEN leaf ELSE Up(path[k], Hashes(leaf, path)[k - 1])]
<1> DEFINE Exists(m) ==
        \E g : g = [k \in 0 .. m |-> IF k = 0 THEN leaf ELSE Up(path[k], g[k - 1])]
           T == {m \in Nat : Exists(m)}
<1>1. 0 \in T
  <2> DEFINE g == [k \in 0 .. 0 |-> leaf]
  <2>1. g = [k \in 0 .. 0 |-> IF k = 0 THEN leaf ELSE Up(path[k], g[k - 1])]
    OBVIOUS
  <2> HIDE DEF g
  <2>2. Exists(0)
    BY <2>1
  <2> QED BY <2>2
<1>2. ASSUME NEW m \in Nat, m \in T PROVE m + 1 \in T
  <2>1. PICK g : g = [k \in 0 .. m |-> IF k = 0 THEN leaf ELSE Up(path[k], g[k - 1])]
    BY <1>2
  <2> DEFINE h == [k \in 0 .. m + 1 |-> IF k = m + 1 THEN Up(path[m + 1], g[m]) ELSE g[k]]
  <2>2. ASSUME NEW k \in 0 .. m + 1
        PROVE  h[k] = IF k = 0 THEN leaf ELSE Up(path[k], h[k - 1])
    <3>1. CASE k = m + 1
      <4>1. k - 1 = m /\ h[m] = g[m] /\ k # 0
        BY <3>1
      <4> QED BY <3>1, <4>1
    <3>2. CASE k # m + 1
      <4>1. k \in 0 .. m /\ h[k] = g[k]
        BY <3>2
      <4>2. k # 0 => k - 1 \in 0 .. m /\ h[k - 1] = g[k - 1]
        BY <4>1
      <4>3. g[k] = IF k = 0 THEN leaf ELSE Up(path[k], g[k - 1])
        BY <2>1, <4>1
      <4> HIDE DEF h
      <4> QED BY <4>1, <4>2, <4>3
    <3> QED BY <3>1, <3>2
  <2>3. h = [k \in 0 .. m + 1 |-> h[k]]
    OBVIOUS
  <2> HIDE DEF h
  <2>4. h = [k \in 0 .. m + 1 |-> IF k = 0 THEN leaf ELSE Up(path[k], h[k - 1])]
    BY <2>2, <2>3
  <2>5. Exists(m + 1)
    BY <2>4
  <2> QED BY <2>5
<1> HIDE DEF T
<1>3. \A m \in Nat : m \in T
  BY <1>1, <1>2, Induction
<1>4. Exists(Len(path))
  BY <1>3 DEF T
<1> QED BY <1>4 DEF Hashes

IsSequence(s) == \E S : s \in Seq(S)

\* A function on 1 .. n is a sequence of that length.
LEMMA Listed ==
  ASSUME NEW n \in Nat, NEW f, f = [k \in 1 .. n |-> f[k]]
  PROVE  IsSequence(f) /\ Len(f) = n
<1>1. f \in [1 .. n -> {f[k] : k \in 1 .. n}]
  OBVIOUS
<1>2. f \in Seq({f[k] : k \in 1 .. n})
  BY <1>1, IsASeq
<1>3. DOMAIN f = 1 .. n
  OBVIOUS
<1> QED BY <1>2, <1>3, LenProperties DEF IsSequence

\* A level above has half as many hashes, rounded up, each of one or two below.
LEMMA AboveHalves ==
  ASSUME NEW level, IsSequence(level), Len(level) > 1
  PROVE  /\ IsSequence(Above(level)) /\ Len(Above(level)) = (Len(level) + 1) \div 2
         /\ \A i \in 1 .. (Len(level) + 1) \div 2 : Above(level)[i] =
                Node(level[2 * i - 1],
                     IF 2 * i <= Len(level) THEN level[2 * i] ELSE level[2 * i - 1])
<1> DEFINE n == (Len(level) + 1) \div 2
           f == [i \in 1 .. n |->
                    Node(level[2 * i - 1],
                         IF 2 * i <= Len(level) THEN level[2 * i] ELSE level[2 * i - 1])]
<1>1. Len(level) \in Nat
  BY LenProperties DEF IsSequence
<1>2. n \in Nat /\ ~(Len(level) <= 1)
  BY <1>1
<1>3. Above(level) = f
  BY <1>2 DEF Above
<1>4. f = [i \in 1 .. n |-> f[i]]
  OBVIOUS
<1> HIDE DEF f
<1>5. IsSequence(f) /\ Len(f) = n
  BY <1>2, <1>4, Listed
<1> QED BY <1>3, <1>5 DEF f

LEMMA Half == \A m \in Nat : m > 1 => /\ (m + 1) \div 2 \in Nat \ {0}
                                     /\ (m + 1) \div 2 < m
  OBVIOUS

\* The levels of a tree with leaves: sequences that shrink to a single hash.
LEMMA LevelsShrink ==
  ASSUME NEW leaves, IsSequence(leaves), Len(leaves) > 0
  PROVE  \A k \in 0 .. Len(leaves) :
            LET level == Levels(leaves)[k]
            IN /\ IsSequence(level) /\ Len(level) \in Nat \ {0}
               /\ Len(level) = 1 \/ Len(level) + k <= Len(leaves)
<1> DEFINE n == Len(leaves)
           L == Levels(leaves)
           Size(k) == Len(L[k])
           Good(k) == /\ IsSequence(L[k]) /\ Size(k) \in Nat \ {0}
                      /\ Size(k) = 1 \/ Size(k) + k <= n
           T == {k \in Nat : k \in 0 .. n => Good(k)}
<1>1. n \in Nat /\ n > 0
  BY LenProperties DEF IsSequence
<1>2. L = [k \in 0 .. n |-> IF k = 0 THEN leaves ELSE Above(L[k - 1])]
  BY <1>1, LevelsAre
<1>3. L[0] = leaves /\ \A k \in Nat : k + 1 \in 0 .. n => L[k + 1] = Above(L[k])
  BY <1>1, <1>2
<1>4. Good(0)
  BY <1>1, <1>3
<1>5. ASSUME NEW k \in Nat, k + 1 \in 0 .. n, Good(k) PROVE Good(k + 1)
  <2>1. L[k + 1] = Above(L[k])
    BY <1>3, <1>5
  <2>2. CASE Size(k) = 1
    <3>1. L[k + 1] = L[k]
      BY <2>1, <2>2 DEF Above
    <3>2. Size(k + 1) = 1 /\ IsSequence(L[k + 1])
      BY <1>5, <2>2, <3>1
    <3> QED BY <3>2
  <2>3. CASE Size(k) > 1
    <3>1. IsSequence(L[k + 1]) /\ Size(k + 1) = (Size(k) + 1) \div 2
      BY <1>5, <2>1, <2>3, AboveHalves
    <3> HIDE DEF Size, n
    <3>2. Size(k) \in Nat /\ Size(k) + k <= n
      BY <1>5, <2>3
    <3>3. Size(k + 1) \in Nat \ {0} /\ Size(k + 1) < Size(k)
      BY <2>3, <3>1, <3>2, Half
    <3>4. Size(k + 1) + (k + 1) <= n
      BY <1>1, <3>2, <3>3
    <3> QED BY <3>1, <3>3, <3>4
  <2> HIDE DEF Size
  <2>4. Size(k) = 1 \/ Size(k) > 1
    BY <1>5
  <2> QED BY <2>2, <2>3, <2>4
<1> HIDE DEF Good
<1>6. 0 \in T
  BY <1>4
<1>7. ASSUME NEW k \in Nat, k \in T PROVE k + 1 \in T
  <2> HIDE DEF n
  <2> SUFFICES ASSUME k + 1 \in 0 .. n PROVE Good(k + 1)
    OBVIOUS
  <2>1. k \in 0 .. n
    BY <1>1
  <2> QED BY <1>5, <1>7, <2>1
<1> HIDE DEF T
<1>8. \A k \in Nat : k \in T
  BY <1>6, <1>7, Induction
<1>9. \A k \in 0 .. n : Good(k)
  BY <1>1, <1>8 DEF T
<1> QED BY <1>9 DEF Good

\* The height is the number of the first level that has a single hash: the root.
LEMMA HeightIsFirst ==
  ASSUME NEW leaves, IsSequence(leaves), Len(leaves) > 0
  PROVE  /\ Height(leaves) \in 0 .. Len(leaves)
         /\ \A k \in 0 .. Len(leaves) :
                /\ k < Height(leaves) => Len(Levels(leaves)[k]) > 1
                /\ k >= Height(leaves) => /\ Len(Levels(leaves)[k]) = 1
                                          /\ Levels(leaves)[k][1] = Root(leaves)
<1> DEFINE n == Len(leaves)
           L == Levels(leaves)
           Size(k) == Len(L[k])
           Tall == {k \in 0 .. n : Size(k) > 1}
<1>1. n \in Nat /\ leaves # <<>>
  BY LenProperties DEF IsSequence
<1>2. L = [k \in 0 .. n |-> IF k = 0 THEN leaves ELSE Above(L[k - 1])]
  BY <1>1, LevelsAre
<1>3. \A k \in 0 .. n : Size(k) \in Nat \ {0} /\ (Size(k) = 1 \/ Size(k) + k <= n)
  BY LevelsShrink
<1>4. Height(leaves) = Cardinality(Tall) /\ Root(leaves) = L[n][1]
  BY <1>1 DEF Height, Root
<1>5. ASSUME NEW k \in 0 .. n - 1, Size(k) = 1 PROVE L[k + 1] = L[k]
  <2>1. L[k + 1] = Above(L[k])
    BY <1>1, <1>2
  <2> QED BY <1>5, <2>1 DEF Above
<1> HIDE DEF Size, L, n
<1>6. Size(n) = 1
  BY <1>1, <1>3
<1>7. PICK h \in 0 .. n : Size(h) = 1 /\ \A k \in 0 .. h - 1 : Size(k) > 1
  <2> DEFINE Low == {k \in 0 .. n : Size(k) = 1}
  <2>1. Low \subseteq Nat /\ n \in Low
    BY <1>1, <1>6
  <2>2. PICK h \in Low : \A k \in Low : h <= k
    BY <2>1, Least
  <2>3. ASSUME NEW k \in 0 .. h - 1 PROVE Size(k) > 1
    <3>1. k \in 0 .. n /\ ~(h <= k)
      BY <1>1
    <3>2. Size(k) # 1
      BY <2>2, <3>1
    <3> QED BY <1>3, <3>1, <3>2
  <2> QED BY <2>2, <2>3
<1>8. ASSUME NEW k \in h .. n PROVE L[k] = L[h]
  <2> DEFINE T == {j \in Nat : h + j \in 0 .. n => L[h + j] = L[h]}
  <2>1. 0 \in T
    BY <1>1
  <2>2. ASSUME NEW j \in Nat, j \in T PROVE j + 1 \in T
    <3> SUFFICES ASSUME h + (j + 1) \in 0 .. n PROVE L[h + (j + 1)] = L[h]
      OBVIOUS
    <3>1. h + j \in 0 .. n - 1 /\ (h + j) + 1 = h + (j + 1)
      BY <1>1
    <3>2. L[h + j] = L[h]
      BY <1>1, <2>2, <3>1
    <3>3. Size(h + j) = 1
      BY <1>7, <3>2 DEF Size
    <3>4. L[(h + j) + 1] = L[h + j]
      BY <1>5, <3>1, <3>3
    <3> QED BY <3>1, <3>2, <3>4
  <2> HIDE DEF T
  <2>3. \A j \in Nat : j \in T
    BY <2>1, <2>2, Induction
  <2>4. k - h \in Nat /\ h + (k - h) = k /\ k \in 0 .. n
    BY <1>1
  <2>5. h + (k - h) \in 0 .. n => L[h + (k - h)] = L[h]
    BY <2>3, <2>4 DEF T
  <2> QED BY <2>4, <2>5
<1>9. ASSUME NEW k \in 0 .. n
      PROVE  /\ k < h => Size(k) > 1
             /\ k >= h => Size(k) = 1 /\ L[k][1] = Root(leaves)
  <2>1. k < h => k \in 0 .. h - 1
    BY <1>1
  <2>2. k >= h => k \in h .. n /\ n \in h .. n
    BY <1>1
  <2>3. k >= h => L[k] = L[h] /\ L[n] = L[h]
    BY <1>8, <2>2
  <2> QED BY <1>4, <1>7, <2>1, <2>3 DEF Size
<1>10. Tall = 0 .. h - 1
  <2>1. \A k \in 0 .. n : Size(k) > 1 <=> k < h
    BY <1>1, <1>9
  <2> QED BY <1>1, <2>1
<1>11. Cardinality(0 .. h - 1) = h
  <2>1. 0 \in Int /\ h - 1 \in Int
    BY <1>1
  <2>2. Cardinality(0 .. h - 1) = IF 0 > h - 1 THEN 0 ELSE (h - 1) - 0 + 1
    BY <2>1, FS_Interval
  <2> QED BY <1>1, <2>2
<1>12. Height(leaves) = h
  BY <1>4, <1>10, <1>11
<1> QED BY <1>9, <1>12 DEF L, n, Size

LEMMA Halves ==
  \A i, m \in Nat : i < m /\ m > 1 =>
        /\ i \div 2 \in Nat /\ i \div 2 < (m + 1) \div 2
        /\ i % 2 = 1 => i + 1 <= m /\ 2 * (i \div 2 + 1) = i + 1
        /\ i % 2 # 1 => 2 * (i \div 2 + 1) = i + 2
  OBVIOUS

\* One step up: the hash above a place is made of the one at the place and the
\* sibling in the path.
LEMMA OneUp ==
  ASSUME NEW level, IsSequence(level), Len(level) \in Nat, Len(level) > 1,
         NEW i \in Nat, i < Len(level)
  PROVE  LET step == IF i % 2 = 1 THEN [hash |-> level[i], left |-> TRUE]
                     ELSE [hash |-> IF i + 2 <= Len(level) THEN level[i + 2] ELSE level[i + 1],
                           left |-> FALSE]
         IN /\ i \div 2 \in Nat /\ i \div 2 < Len(Above(level))
            /\ Above(level)[i \div 2 + 1] = Up(step, level[i + 1])
<1> DEFINE m == Len(level)
           j == i \div 2 + 1
<1>1. m \in Nat /\ m > 1 /\ i < m
  OBVIOUS
<1> HIDE DEF m
<1>2. /\ i \div 2 \in Nat /\ i \div 2 < (m + 1) \div 2
      /\ i % 2 = 1 => i + 1 <= m /\ 2 * j = i + 1
      /\ i % 2 # 1 => 2 * j = i + 2
  BY <1>1, Halves
<1>3. (m + 1) \div 2 \in Nat
  BY <1>1
<1>4. j \in 1 .. (m + 1) \div 2
  BY <1>2, <1>3
<1> HIDE DEF j
<1>5. Len(Above(level)) = (m + 1) \div 2
      /\ Above(level)[j] = Node(level[2 * j - 1],
                                IF 2 * j <= m THEN level[2 * j] ELSE level[2 * j - 1])
  BY <1>4, AboveHalves DEF m
<1>6. CASE i % 2 = 1
  <2>1. 2 * j - 1 = i /\ 2 * j = i + 1 /\ 2 * j <= m
    BY <1>2, <1>6
  <2> QED BY <1>2, <1>5, <1>6, <2>1 DEF Up, j, m
<1>7. CASE i % 2 # 1
  <2>1. 2 * j - 1 = i + 1 /\ 2 * j = i + 2
    BY <1>2, <1>7
  <2> QED BY <1>2, <1>5, <1>7, <2>1 DEF Up, j, m
<1> QED BY <1>6, <1>7

\* The audit path of every leaf of every tree leads to its root.
THEOREM PathLeads ==
  ASSUME NEW leaves, IsSequence(leaves), Len(leaves) \in Nat,
         NEW index \in 0 .. Len(leaves) - 1
  PROVE  Leads(leaves[index + 1], AuditPath(leaves, index), Root(leaves))
<1> DEFINE n == Len(leaves)
           L == Levels(leaves)
           P == Places(leaves, index)
           Size(k) == Len(L[k])
           top == Height(leaves)
           path == AuditPath(leaves, index)
           h == Hashes(leaves[index + 1], path)
           Right(k) == P[k] \in Nat /\ P[k] < Size(k) /\ h[k] = L[k][P[k] + 1]
           step(level, i) ==
               IF i % 2 = 1 THEN [hash |-> level[i], left |-> TRUE]
               ELSE [hash |-> IF i + 2 <= Len(level) THEN level[i + 2] ELSE level[i + 1],
                     left |-> FALSE]
           T == {k \in Nat : k <= top => Right(k)}
<1>1. n \in Nat /\ n > 0
  OBVIOUS
<1>2. /\ top \in 0 .. n
      /\ \A k \in 0 .. n : /\ k < top => Size(k) > 1
                           /\ k >= top => Size(k) = 1 /\ L[k][1] = Root(leaves)
  BY <1>1, HeightIsFirst
<1>3. \A k \in 0 .. n : IsSequence(L[k]) /\ Size(k) \in Nat
  BY <1>1, LevelsShrink
<1>4. path = [k \in 1 .. top |-> step(L[k - 1], P[k - 1])]
  BY DEF AuditPath
<1>5. Len(path) = top
  <2>1. top \in Nat
    BY <1>1, <1>2
  <2>2. path = [k \in 1 .. top |-> path[k]]
    BY <1>4
  <2> HIDE DEF path, top
  <2> QED BY <2>1, <2>2, Listed
<1>6. h = [k \in 0 .. top |-> IF k = 0 THEN leaves[index + 1] ELSE Up(path[k], h[k - 1])]
  <2>1. Len(path) \in Nat
    BY <1>1, <1>2, <1>5
  <2> HIDE DEF path, top
  <2>2. h = [k \in 0 .. Len(path) |->
                IF k = 0 THEN leaves[index + 1] ELSE Up(path[k], h[k - 1])]
    BY <2>1, HashesAre
  <2> QED BY <1>5, <2>2
<1>7. L = [k \in 0 .. n |-> IF k = 0 THEN leaves ELSE Above(L[k - 1])]
  BY <1>1, LevelsAre
<1>8. P = [k \in 0 .. n |-> IF k = 0 THEN index ELSE P[k - 1] \div 2]
  BY <1>1, PlacesAre
<1> HIDE DEF n, L, P, top, path, h
<1>9. Right(0)
  <2>1. L[0] = leaves /\ P[0] = index /\ h[0] = leaves[index + 1]
    BY <1>1, <1>2, <1>6, <1>7, <1>8
  <2>2. index \in Nat /\ index < n
    BY <1>1 DEF n
  <2> QED BY <2>1, <2>2 DEF n
<1>10. ASSUME NEW k \in Nat, k + 1 <= top, Right(k) PROVE Right(k + 1)
  <2>1. k \in 0 .. n /\ k + 1 \in 0 .. n /\ k + 1 \in 1 .. top /\ k < top
    BY <1>1, <1>2, <1>10
  <2>2. /\ L[k + 1] = Above(L[k]) /\ P[k + 1] = P[k] \div 2
        /\ path[k + 1] = step(L[k], P[k])
        /\ h[k + 1] = Up(path[k + 1], h[k])
    <3>1. (k + 1) - 1 = k /\ k + 1 # 0 /\ k + 1 \in 0 .. top
      BY <1>1, <1>2, <2>1
    <3> HIDE DEF step
    <3> QED BY <1>4, <1>6, <1>7, <1>8, <2>1, <3>1
  <2>3. IsSequence(L[k]) /\ Size(k) \in Nat /\ Size(k) > 1
    BY <1>2, <1>3, <2>1
  <2>4. /\ P[k] \div 2 \in Nat /\ P[k] \div 2 < Len(Above(L[k]))
        /\ Above(L[k])[P[k] \div 2 + 1] = Up(step(L[k], P[k]), L[k][P[k] + 1])
    BY <1>10, <2>3, OneUp
  <2> HIDE DEF step
  <2> QED BY <1>10, <2>2, <2>4
<1> HIDE DEF Right
<1>11. \A k \in Nat : k \in T
  <2>1. 0 \in T
    BY <1>9
  <2>2. ASSUME NEW k \in Nat, k \in T PROVE k + 1 \in T
    BY <1>1, <1>2, <1>10, <2>2
  <2> HIDE DEF T
  <2> QED BY <2>1, <2>2, Induction
<1>12. Right(top)
  BY <1>1, <1>2, <1>11
<1>13. P[top] = 0 /\ h[top] = L[top][1] /\ L[top][1] = Root(leaves)
  <2>1. Size(top) = 1 /\ L[top][1] = Root(leaves)
    BY <1>1, <1>2
  <2>2. P[top] \in Nat /\ P[top] < 1 /\ h[top] = L[top][P[top] + 1]
    BY <1>12, <2>1 DEF Right
  <2>3. P[top] = 0 /\ P[top] + 1 = 1
    BY <2>2
  <2> QED BY <2>1, <2>2, <2>3
<1> QED BY <1>5, <1>13 DEF Leads, h, path

LEMMA TermsDiffer ==
  \A a, b, c, d : /\ Leaf(a, b) # Node(c, d) /\ Leaf(a, b) # Empty /\ Node(a, b) # Empty
                  /\ Leaf(a, b) = Leaf(c, d) => a = c /\ b = d
                  /\ Node(a, b) = Node(c, d) => a = c /\ b = d
  BY DEF Leaf, Node, Empty

\* One step down: what was combined to make a hash of a level is below it.
LEMMA OneDown ==
  ASSUME NEW level, IsSequence(level), Len(level) \in Nat, Len(level) > 1,
         NEW j \in 1 .. Len(Above(level)), NEW step, NEW hash,
         Up(step, hash) = Above(level)[j]
  PROVE  \E i \in 1 .. Len(level) : level[i] = hash
<1> DEFINE m == Len(level)
           left == level[2 * j - 1]
           right == IF 2 * j <= m THEN level[2 * j] ELSE level[2 * j - 1]
<1>1. Len(Above(level)) = (m + 1) \div 2 /\ Above(level)[j] = Node(left, right)
  BY AboveHalves
<1>2. hash = left \/ hash = right
  BY <1>1, TermsDiffer DEF Up
<1>3. 2 * j - 1 \in 1 .. m /\ (2 * j <= m => 2 * j \in 1 .. m)
  <2> HIDE DEF m
  <2> m \in Nat /\ m > 1 /\ j \in 1 .. (m + 1) \div 2
    BY <1>1 DEF m
  <2> QED OBVIOUS
<1> QED BY <1>2, <1>3

\* A path that leads from a leaf to the root of a tree starts at a leaf of the tree.
THEOREM OnlyLeavesLead ==
  ASSUME NEW leaves, IsSequence(leaves), Len(leaves) \in Nat, Len(leaves) > 0,
         \A i \in 1 .. Len(leaves) : \E index, entry : leaves[i] = Leaf(index, entry),
         NEW index, NEW entry, NEW path, Len(path) \in Nat,
         Leads(Leaf(index, entry), path, Root(leaves))
  PROVE  \E i \in 1 .. Len(leaves) : leaves[i] = Leaf(index, entry)
<1> DEFINE n == Len(leaves)
           L == Levels(leaves)
           Size(k) == Len(L[k])
           top == Height(leaves)
           m == Len(path)
           leaf == Leaf(index, entry)
           h == Hashes(leaf, path)
           Has(k, hash) == \E i \in 1 .. Size(k) : L[k][i] = hash
           T == {d \in Nat : d <= m /\ d <= top => Has(top - d, h[m - d])}
<1>1. n \in Nat /\ n > 0 /\ m \in Nat
  OBVIOUS
<1>2. /\ top \in 0 .. n
      /\ \A k \in 0 .. n : /\ k < top => Size(k) > 1
                           /\ k >= top => Size(k) = 1 /\ L[k][1] = Root(leaves)
  BY <1>1, HeightIsFirst
<1>3. \A k \in 0 .. n : IsSequence(L[k]) /\ Size(k) \in Nat
  BY <1>1, LevelsShrink
<1>4. h = [k \in 0 .. m |-> IF k = 0 THEN leaf ELSE Up(path[k], h[k - 1])]
  BY <1>1, HashesAre
<1>5. L = [k \in 0 .. n |-> IF k = 0 THEN leaves ELSE Above(L[k - 1])]
  BY <1>1, LevelsAre
<1>6. h[m] = Root(leaves)
  BY DEF Leads
<1> HIDE DEF n, L, top, m, h, leaf
<1>7. \A k \in Nat : k < top => k \in 0 .. n /\ L[k + 1] = Above(L[k]) /\ Size(k) > 1
  BY <1>1, <1>2, <1>5
<1>8. h[0] = leaf /\ \A k \in Nat : k < m => h[k + 1] = Up(path[k + 1], h[k])
  BY <1>1, <1>4
<1>9. 0 \in T
  <2>1. Size(top) = 1 /\ L[top][1] = Root(leaves)
    BY <1>1, <1>2
  <2>2. top - 0 = top /\ m - 0 = m
    BY <1>1, <1>2
  <2>3. Has(top, h[m])
    BY <1>6, <2>1
  <2> QED BY <2>2, <2>3
<1>10. ASSUME NEW d \in Nat, d \in T PROVE d + 1 \in T
  <2> SUFFICES ASSUME d + 1 <= m, d + 1 <= top
               PROVE  Has(top - (d + 1), h[m - (d + 1)])
    OBVIOUS
  <2> DEFINE k == top - (d + 1)
             j == m - (d + 1)
  <2>1. /\ k \in Nat /\ k < top /\ k + 1 = top - d
        /\ j \in Nat /\ j < m /\ j + 1 = m - d /\ d <= m /\ d <= top
    BY <1>1, <1>2
  <2>2. Has(k + 1, h[j + 1])
    BY <1>10, <2>1
  <2> HIDE DEF k, j
  <2>3. PICK i \in 1 .. Size(k + 1) : L[k + 1][i] = h[j + 1]
    BY <2>2
  <2>4. /\ L[k + 1] = Above(L[k]) /\ Size(k) > 1 /\ k \in 0 .. n
        /\ h[j + 1] = Up(path[j + 1], h[j])
    BY <1>7, <1>8, <2>1
  <2>5. IsSequence(L[k]) /\ Size(k) \in Nat
    BY <1>3, <2>4
  <2>6. Has(k, h[j])
    BY <2>3, <2>4, <2>5, OneDown
  <2> QED BY <2>6 DEF k, j
<1> HIDE DEF T
<1>11. \A d \in Nat : d \in T
  BY <1>9, <1>10, Induction
\* The path is as long as the tree is high: a leaf is not the hash of two others.
<1>12. ASSUME m < top PROVE FALSE
  <2>1. m \in T /\ m <= m /\ m <= top /\ m - m = 0
    BY <1>1, <1>2, <1>11, <1>12
  <2>2. Has(top - m, leaf)
    BY <1>8, <2>1 DEF T
  <2> DEFINE k == top - m - 1
  <2>3. k \in Nat /\ k < top /\ k + 1 = top - m
    BY <1>1, <1>2, <1>12
  <2> HIDE DEF k
  <2>4. PICK i \in 1 .. Size(k + 1) : L[k + 1][i] = leaf
    BY <2>2, <2>3
  <2>5. L[k + 1] = Above(L[k]) /\ Size(k) > 1 /\ IsSequence(L[k])
    BY <1>3, <1>7, <2>3
  <2>6. PICK a, b : L[k + 1][i] = Node(a, b)
    BY <2>5, AboveHalves
  <2>7. Leaf(index, entry) = Node(a, b)
    BY <2>4, <2>6 DEF leaf
  <2> QED BY <2>7, TermsDiffer
<1>13. ASSUME m > top PROVE FALSE
  <2>1. top \in T /\ top <= m /\ top <= top /\ top - top = 0
    BY <1>1, <1>2, <1>11, <1>13
  <2>2. Has(0, h[m - top])
    BY <2>1 DEF T
  <2> DEFINE k == m - top - 1
  <2>3. k \in Nat /\ k < m /\ k + 1 = m - top
    BY <1>1, <1>2, <1>13
  <2> HIDE DEF k
  <2>4. h[k + 1] = Up(path[k + 1], h[k])
    BY <1>8, <2>3
  <2>5. L[0] = leaves /\ Size(0) = n
    BY <1>1, <1>5 DEF n
  <2>6. \E i \in 1 .. n : leaves[i] = h[k + 1]
    BY <2>2, <2>3, <2>5
  <2> QED BY <2>4, <2>6, TermsDiffer DEF Up, n
<1>14. CASE m = top
  <2>1. top \in T /\ top <= m /\ top <= top /\ top - top = 0 /\ m - top = 0
    BY <1>1, <1>2, <1>11, <1>14
  <2>2. Has(0, leaf)
    BY <1>8, <2>1 DEF T
  <2>3. L[0] = leaves /\ Size(0) = n
    BY <1>1, <1>5 DEF n
  <2> QED BY <2>2, <2>3 DEF n, leaf
<1> QED BY <1>1, <1>2, <1>12, <1>13, <1>14

-----------------------------------------------------------------------------
(* The log.                                                                *)

\* The log is a sequence, and its receipts hold.
LogHolds == IsSequence(rows) /\ ReceiptsHold

LEMMA LeavesOfRows ==
  ASSUME NEW t, IsSequence(t)
  PROVE  IsSequence(Leaves(t)) /\ Len(Leaves(t)) = Len(t) /\ Len(t) \in Nat
<1>1. Len(t) \in Nat
  BY LenProperties DEF IsSequence
<1>2. Leaves(t) = [i \in 1 .. Len(t) |-> Leaves(t)[i]]
  BY DEF Leaves
<1> QED BY <1>1, <1>2, Listed

\* The leaves of a longer table begin with those of the table.
LEMMA LeavesOfAppend ==
  ASSUME NEW t, IsSequence(t), NEW row
  PROVE  Leaves(Append(t, row)) = Append(Leaves(t), Leaf(row.index, row.stmt))
<1> PICK S : t \in Seq(S)
  BY DEF IsSequence
<1> PICK T : Leaves(t) \in Seq(T)
  BY LeavesOfRows DEF IsSequence
<1> DEFINE more == Append(t, row)
           n    == Len(t)
           last == Leaf(row.index, row.stmt)
           right == Append(Leaves(t), last)
<1>1. n \in Nat /\ Len(Leaves(t)) = n /\ t \in Seq(S \cup {row}) /\ Leaves(t) \in Seq(T \cup {last})
  BY LeavesOfRows
<1>2. more \in Seq(S \cup {row}) /\ Len(more) = n + 1
      /\ (\A i \in 1 .. n : more[i] = t[i]) /\ more[n + 1] = row
  BY <1>1, AppendProperties
<1>3. Leaves(more) = [i \in 1 .. n + 1 |-> Leaf(more[i].index, more[i].stmt)]
  BY <1>2 DEF Leaves
<1>4. right \in Seq(T \cup {last}) /\ Len(right) = n + 1
      /\ (\A i \in 1 .. n : right[i] = Leaves(t)[i]) /\ right[n + 1] = last
  BY <1>1, AppendProperties
<1>5. right = [i \in 1 .. n + 1 |-> right[i]]
  BY <1>4, LenProperties
<1>6. \A i \in 1 .. n + 1 : right[i] = Leaf(more[i].index, more[i].stmt)
  <2> SUFFICES ASSUME NEW i \in 1 .. n + 1
               PROVE  right[i] = Leaf(more[i].index, more[i].stmt)
    OBVIOUS
  <2>1. CASE i = n + 1
    BY <2>1, <1>2, <1>4
  <2>2. CASE i \in 1 .. n
    <3>1. right[i] = Leaf(t[i].index, t[i].stmt)
      BY <2>2, <1>4 DEF Leaves
    <3> QED BY <3>1, <2>2, <1>2
  <2>3. i = n + 1 \/ i \in 1 .. n
    BY <1>1
  <2> HIDE DEF right, more, n
  <2> QED BY <2>1, <2>2, <2>3
<1> QED BY <1>3, <1>5, <1>6

LEMMA PrefixOfAppend ==
  ASSUME NEW t, IsSequence(t), NEW row, NEW n \in 0 .. Len(t)
  PROVE  SubSeq(Append(t, row), 1, n) = SubSeq(t, 1, n)
<1> PICK S : t \in Seq(S)
  BY DEF IsSequence
<1>1. t \in Seq(S \cup {row}) /\ Len(t) \in Nat
  BY LenProperties
<1>2. <<row>> \in Seq(S \cup {row})
  OBVIOUS
<1>3. Append(t, row) = t \o <<row>>
  BY <1>1, AppendIsConcat
<1>4. CASE n \in 1 .. Len(t)
  <2>1. 1 \in 1 .. Len(t)
    BY <1>1, <1>4
  <2> QED BY <2>1, <1>1, <1>2, <1>3, <1>4, SubSeqOfConcat1
<1>5. CASE n = 0
  BY <1>5, SubSeqEmpty
<1> QED BY <1>1, <1>4, <1>5

\* Storing a statement adds a row with its receipt, and changes no other.
LEMMA StoreAppends ==
  ASSUME IsSequence(rows), NEW stmt, Store(stmt, rows)
  PROVE  /\ IsSequence(rows)'
         /\ \A i \in 1 .. Len(rows) : i \in 1 .. Len(rows') /\ rows'[i] = rows[i]
         /\ \E i \in 1 .. Len(rows') : rows'[i].receipt = Receipt(stmt)
         /\ \A i \in 1 .. Len(rows') :
                \/ i \in 1 .. Len(rows)
                \/ rows'[i].receipt = Receipt(stmt) /\ rows'[i].index = i - 1
<1> PICK S : rows \in Seq(S)
  BY DEF IsSequence
<1> DEFINE row == [stmt |-> stmt, index |-> Len(rows), receipt |-> Receipt(stmt)]
           n   == Len(rows)
<1>1. n \in Nat /\ rows \in Seq(S \cup {row}) /\ rows' = Append(rows, row)
  BY LenProperties DEF Store
<1>2. rows' \in Seq(S \cup {row}) /\ Len(rows') = n + 1
      /\ (\A i \in 1 .. n : rows'[i] = rows[i]) /\ rows'[n + 1] = row
  BY <1>1, AppendProperties
<1>3. /\ n + 1 \in 1 .. Len(rows') /\ n = (n + 1) - 1
      /\ rows'[n + 1].receipt = Receipt(stmt) /\ rows'[n + 1].index = n
  BY <1>1, <1>2
<1>4. /\ \A i \in 1 .. n : i \in 1 .. n + 1
      /\ \A i \in 1 .. n + 1 : i \in 1 .. n \/ i = n + 1
  BY <1>1
<1> HIDE DEF n, row
<1>5. IsSequence(rows)'
  BY <1>2 DEF IsSequence
<1> QED BY <1>1, <1>2, <1>3, <1>4, <1>5 DEF n

LEMMA LogStore ==
  ASSUME LogHolds, NEW stmt, Store(stmt, rows)
  PROVE  LogHolds'
<1> PICK S : rows \in Seq(S)
  BY DEF LogHolds, IsSequence
<1> DEFINE row == [stmt |-> stmt, index |-> Len(rows), receipt |-> Receipt(stmt)]
           n   == Len(rows)
<1>1. n \in Nat /\ IsSequence(rows) /\ rows \in Seq(S \cup {row}) /\ rows' = Append(rows, row)
  BY LenProperties DEF IsSequence, Store
<1>2. rows' \in Seq(S \cup {row}) /\ Len(rows') = n + 1
      /\ (\A i \in 1 .. n : rows'[i] = rows[i]) /\ rows'[n + 1] = row
  BY <1>1, AppendProperties
<1>3. Leaves(rows') = Append(Leaves(rows), Leaf(n, stmt))
  <2>1. row.index = n /\ row.stmt = stmt
    OBVIOUS
  <2> QED BY <1>1, <2>1, LeavesOfAppend
<1>4. IsSequence(rows)'
  BY <1>2 DEF IsSequence
<1>5. Len(Leaves(rows')) = n + 1
  BY <1>2, <1>4, LeavesOfRows
<1>6. SubSeq(rows', 1, n + 1) = rows'
  BY <1>1, <1>2, SubSeqFull
<1>7. row.receipt.size = n + 1 /\ row.receipt.index = n /\ row.receipt.stmt = stmt
      /\ row.receipt.root = Root(Leaves(rows'))
  BY <1>3, <1>5 DEF Receipt
\* The heads: the new one is the root of the whole log, the others are roots of
\* beginnings that have not changed.
<1>10. ASSUME NEW h \in heads'
       PROVE  h.size \in 0 .. n + 1 /\ h.root = Root(Leaves(SubSeq(rows', 1, h.size)))
  <2>1. CASE h = SignedHead(row.receipt)
    <3>1. h.size = n + 1 /\ h.root = Root(Leaves(rows'))
      BY <2>1, <1>7 DEF SignedHead
    <3>2. SubSeq(rows', 1, h.size) = rows'
      BY <3>1, <1>6
    <3>3. h.root = Root(Leaves(SubSeq(rows', 1, h.size)))
      BY <3>1, <3>2
    <3> HIDE DEF n
    <3>4. h.size \in 0 .. n + 1
      BY <3>1, <1>1
    <3> QED BY <3>3, <3>4
  <2>2. CASE h \in heads
    <3>1. h.size \in 0 .. n /\ h.root = Root(Leaves(SubSeq(rows, 1, h.size)))
      BY <2>2 DEF LogHolds, ReceiptsHold
    <3>2. SubSeq(rows', 1, h.size) = SubSeq(rows, 1, h.size)
      BY <3>1, <1>1, PrefixOfAppend
    <3>3. h.root = Root(Leaves(SubSeq(rows', 1, h.size)))
      BY <3>1, <3>2
    <3> HIDE DEF n
    <3>4. h.size \in 0 .. n + 1
      BY <3>1, <1>1
    <3> QED BY <3>3, <3>4
  <2>3. row.receipt = Receipt(stmt)
    OBVIOUS
  <2> QED BY <2>1, <2>2, <2>3 DEF Store
<1> SUFFICES ASSUME NEW i \in 1 .. n + 1
             PROVE  /\ rows'[i].receipt.size \in 1 .. n + 1
                    /\ rows'[i].receipt.index = rows'[i].receipt.size - 1
                    /\ rows'[rows'[i].receipt.size].stmt = rows'[i].receipt.stmt
                    /\ rows'[i].receipt.root
                        = Root(Leaves(SubSeq(rows', 1, rows'[i].receipt.size)))
  BY <1>2, <1>4, <1>10 DEF LogHolds, ReceiptsHold, Leaves
<1>8. CASE i = n + 1
  <2>1. rows'[i] = row
    BY <1>2, <1>8
  <2>2. rows'[row.receipt.size].stmt = stmt
    BY <1>2, <1>7
  <2> DEFINE r == row.receipt
  <2>3. r.size \in 1 .. n + 1 /\ r.index = r.size - 1
    BY <1>1, <1>7
  <2>4. rows'[r.size].stmt = r.stmt
    BY <2>2, <1>7
  <2>5. r.root = Root(Leaves(SubSeq(rows', 1, r.size)))
    BY <1>6, <1>7
  <2>6. rows'[i].receipt = r
    BY <2>1
  <2> HIDE DEF r, n
  <2> QED BY <2>3, <2>4, <2>5, <2>6
<1>9. CASE i \in 1 .. n
  <2> DEFINE r == rows[i].receipt
  <2>1. rows'[i].receipt = r
    BY <1>2, <1>9
  <2>2. r.size \in 1 .. n /\ r.index = r.size - 1 /\ rows[r.size].stmt = r.stmt
        /\ r.root = Root(Leaves(SubSeq(rows, 1, r.size)))
    BY <1>9 DEF LogHolds, ReceiptsHold
  <2>3. SubSeq(rows', 1, r.size) = SubSeq(rows, 1, r.size)
    BY <2>2, <1>1, PrefixOfAppend
  <2>4. rows'[r.size].stmt = r.stmt
    BY <2>2, <1>2
  <2>5. r.size \in 1 .. n + 1
    BY <2>2, <1>1
  <2> HIDE DEF r, n
  <2> QED BY <2>1, <2>2, <2>3, <2>4, <2>5
<1> QED BY <1>1, <1>8, <1>9

\* A head signed on request is the root of the whole log.
LEMMA LogTreeHead ==
  ASSUME LogHolds, TreeHead
  PROVE  LogHolds'
<1> PICK S : rows \in Seq(S)
  BY DEF LogHolds, IsSequence
<1>1. Len(rows) \in Nat /\ SubSeq(rows, 1, Len(rows)) = rows
  BY LenProperties, SubSeqFull
<1>2. rows' = rows /\ heads' = heads \cup {[size |-> Len(rows), root |-> Root(Leaves(rows))]}
  BY DEF TreeHead
<1>3. ASSUME NEW h \in heads'
      PROVE  h.size \in 0 .. Len(rows) /\ h.root = Root(Leaves(SubSeq(rows, 1, h.size)))
  <2>1. CASE h \in heads
    BY <2>1 DEF LogHolds, ReceiptsHold
  <2>2. CASE h = [size |-> Len(rows), root |-> Root(Leaves(rows))]
    <3>1. h.size = Len(rows) /\ h.root = Root(Leaves(rows))
      BY <2>2
    <3>2. h.root = Root(Leaves(SubSeq(rows, 1, h.size)))
      BY <3>1, <1>1
    <3> QED BY <3>1, <3>2, <1>1
  <2> QED BY <2>1, <2>2, <1>2
<1> QED BY <1>2, <1>3 DEF LogHolds, ReceiptsHold, Leaves, IsSequence

LEMMA LogChanges ==
  [Next]_vars => (\E stmt : Store(stmt, rows)) \/ TreeHead \/ UNCHANGED logVars
  BY DEF Next, Step, vars, logVars, Load, Send, Retry, Fail, RegisterLocally, Copy,
         AddReview, Embed, Refresh, Replace, Die, Accept, Serve, Others, Register, Refuse

LEMMA LogStep == LogHolds /\ [Next]_vars => LogHolds'
<1> SUFFICES ASSUME LogHolds, [Next]_vars PROVE LogHolds'
  OBVIOUS
<1>1. (\E stmt : Store(stmt, rows)) \/ TreeHead \/ UNCHANGED logVars
  BY LogChanges
<1>2. CASE UNCHANGED logVars
  BY <1>2 DEF LogHolds, ReceiptsHold, Leaves, logVars
<1> QED BY <1>1, <1>2, LogStore, LogTreeHead

LEMMA LogInitHolds == Init => LogHolds
<1> SUFFICES ASSUME rows = <<>>, heads = {[size |-> 0, root |-> Empty]}
             PROVE  LogHolds
  BY DEF Init, LogInit
<1>1. rows \in Seq({}) /\ Len(rows) = 0
  OBVIOUS
<1>2. SubSeq(rows, 1, 0) = rows
  BY <1>1, SubSeqFull
<1>3. Leaves(rows) = <<>>
  <2>1. IsSequence(rows)
    BY <1>1 DEF IsSequence
  <2>2. IsSequence(Leaves(rows)) /\ Len(Leaves(rows)) = Len(rows)
    BY <2>1, LeavesOfRows
  <2> QED BY <2>2, <1>1, EmptySeq DEF IsSequence
<1>4. Root(Leaves(SubSeq(rows, 1, 0))) = Empty
  BY <1>2, <1>3 DEF Root
<1>5. ASSUME NEW h \in heads
      PROVE  h.size \in 0 .. Len(rows) /\ h.root = Root(Leaves(SubSeq(rows, 1, h.size)))
  <2>1. h.size = 0 /\ h.root = Empty
    OBVIOUS
  <2> QED BY <2>1, <1>1, <1>4
<1> QED BY <1>1, <1>5 DEF LogHolds, IsSequence, ReceiptsHold

\* The receipts stay true of the log however long it grows: a receipt's root is that
\* of a beginning of the log which ends in its statement, and so is every head's.
THEOREM ReceiptsStay == Spec => []ReceiptsHold
<1>1. LogHolds => ReceiptsHold
  BY DEF LogHolds
<1> QED BY <1>1, LogInitHolds, LogStep, PTL DEF Spec

\* The receipt of a new entry proves it.
LEMMA ReceiptProves ==
  ASSUME IsSequence(rows), NEW stmt
  PROVE  Proves(Receipt(stmt))
<1> DEFINE index == Len(rows)
           last == Leaf(index, stmt)
           leaves == Append(Leaves(rows), last)
<1> PICK T : Leaves(rows) \in Seq(T)
  BY LeavesOfRows DEF IsSequence
<1>1. index \in Nat /\ Len(Leaves(rows)) = index /\ Leaves(rows) \in Seq(T \cup {last})
  BY LeavesOfRows
<1>2. leaves \in Seq(T \cup {last}) /\ Len(leaves) = index + 1 /\ leaves[index + 1] = last
  BY <1>1, AppendProperties
<1>3. IsSequence(leaves) /\ index \in 0 .. Len(leaves) - 1 /\ Len(leaves) \in Nat
  BY <1>1, <1>2 DEF IsSequence
<1> HIDE DEF index, leaves, last
<1>4. Leads(leaves[index + 1], AuditPath(leaves, index), Root(leaves))
  BY <1>3, PathLeads
<1> QED BY <1>2, <1>4 DEF Proves, Receipt, index, leaves, last

\* Who has a receipt can show that the statement is in the log, whatever the number
\* of entries was when it was given: it is an invariant for a log of any length.
THEOREM ReceiptsAlwaysProve == Spec => []ReceiptsProve
<1>1. Init => IsSequence(rows) /\ ReceiptsProve
  <2>1. \A t : t = <<>> => t \in Seq({}) /\ 1 .. Len(t) = {}
    OBVIOUS
  <2> QED BY <2>1 DEF Init, LogInit, IsSequence, ReceiptsProve
<1>2. ASSUME IsSequence(rows), ReceiptsProve, [Next]_vars
      PROVE  (IsSequence(rows) /\ ReceiptsProve)'
  <2>1. (\E stmt : Store(stmt, rows)) \/ rows' = rows
    BY <1>2, LogChanges DEF TreeHead, logVars
  <2>2. CASE rows' = rows
    BY <1>2, <2>2 DEF IsSequence, ReceiptsProve
  <2>3. ASSUME NEW stmt, Store(stmt, rows) PROVE (IsSequence(rows) /\ ReceiptsProve)'
    BY <1>2, <2>3, StoreAppends, ReceiptProves DEF ReceiptsProve
  <2> QED BY <2>1, <2>2, <2>3
<1> QED BY <1>1, <1>2, PTL DEF Spec

\* Rows are numbered from zero.
Numbered == IsSequence(rows) /\ \A i \in 1 .. Len(rows) : rows[i].index = i - 1

\* Only what is in the log can be shown to be in it: if the path of a receipt, from
\* wherever it comes, leads to the root of a head that the log has signed, its
\* statement is the entry at the place it says, among those the head stands for.
OnlyLoggedIsProved ==
    \A h \in heads : \A receipt :
        (Len(receipt.path) \in Nat /\ receipt.root = h.root /\ Proves(receipt)) =>
            \E i \in 1 .. h.size : rows[i].stmt = receipt.stmt /\ receipt.index = i - 1

LEMMA NothingLeadsToEmpty ==
  ASSUME NEW index, NEW entry, NEW path, Len(path) \in Nat
  PROVE  ~Leads(Leaf(index, entry), path, Empty)
<1> DEFINE leaf == Leaf(index, entry)
           m == Len(path)
           h == Hashes(leaf, path)
<1>1. m \in Nat /\ h = [k \in 0 .. m |-> IF k = 0 THEN leaf ELSE Up(path[k], h[k - 1])]
  BY HashesAre
<1> HIDE DEF h, m, leaf
<1>2. h[m] = leaf \/ h[m] = Up(path[m], h[m - 1])
  BY <1>1
<1>3. h[m] # Empty
  BY <1>2, TermsDiffer DEF Up, leaf
<1> QED BY <1>3 DEF Leads, h, m, leaf

LEMMA HeadsProveRows ==
  ASSUME LogHolds, Numbered
  PROVE  OnlyLoggedIsProved
<1> SUFFICES ASSUME NEW h \in heads, NEW receipt, Len(receipt.path) \in Nat,
                    receipt.root = h.root, Proves(receipt)
             PROVE  \E i \in 1 .. h.size :
                        rows[i].stmt = receipt.stmt /\ receipt.index = i - 1
  BY DEF OnlyLoggedIsProved
<1> DEFINE n == h.size
           part == SubSeq(rows, 1, n)
           leaves == Leaves(part)
<1> PICK S : rows \in Seq(S)
  BY DEF LogHolds, IsSequence
<1>1. n \in 0 .. Len(rows) /\ Len(rows) \in Nat /\ h.root = Root(leaves)
  BY LenProperties DEF LogHolds, ReceiptsHold
<1>2. part \in Seq(S) /\ Len(part) = n /\ \A i \in 1 .. n : part[i] = rows[i]
  <2>1. 1 \in 1 .. Len(rows) + 1 /\ n \in Int
    BY <1>1
  <2> HIDE DEF n
  <2>2. \A i \in 1 .. n : i \in 1 .. Len(rows)
    BY <1>1
  <2> QED BY <1>1, <2>1, <2>2
<1>3. /\ IsSequence(leaves) /\ Len(leaves) = n
      /\ \A i \in 1 .. n : leaves[i] = Leaf(rows[i].index, rows[i].stmt)
  <2>1. IsSequence(part)
    BY <1>2 DEF IsSequence
  <2>2. IsSequence(leaves) /\ Len(leaves) = n
    BY <1>2, <2>1, LeavesOfRows
  <2> HIDE DEF part, n
  <2>3. \A i \in 1 .. n : leaves[i] = Leaf(rows[i].index, rows[i].stmt)
    BY <1>2 DEF Leaves
  <2> QED BY <2>2, <2>3
<1> HIDE DEF leaves, part, n
<1>4. n # 0
  <2>1. n = 0 => leaves = <<>>
    BY <1>3, EmptySeq DEF IsSequence
  <2>2. n = 0 => h.root = Empty
    BY <1>1, <2>1 DEF Root
  <2> QED BY <2>2, NothingLeadsToEmpty DEF Proves
<1>5. n \in Nat /\ n > 0
  BY <1>1, <1>4
<1>6. PICK i \in 1 .. n : leaves[i] = Leaf(receipt.index, receipt.stmt)
  BY <1>1, <1>3, <1>5, OnlyLeavesLead DEF Proves
<1>7. rows[i].index = receipt.index /\ rows[i].stmt = receipt.stmt
  BY <1>3, <1>6, TermsDiffer
<1>8. rows[i].index = i - 1
  BY <1>1, <1>5 DEF Numbered
<1> QED BY <1>7, <1>8 DEF n

\* What the service has signed proves nothing but what the service has stored,
\* however large the log is, up to collisions of the hash.
THEOREM OnlyTheLoggedIsProved == Spec => []OnlyLoggedIsProved
<1>1. Init => Numbered
  <2>1. \A t : t = <<>> => t \in Seq({}) /\ 1 .. Len(t) = {}
    OBVIOUS
  <2> QED BY <2>1 DEF Init, LogInit, IsSequence, Numbered
<1>2. ASSUME Numbered, [Next]_vars PROVE Numbered'
  <2>1. (\E stmt : Store(stmt, rows)) \/ rows' = rows
    BY <1>2, LogChanges DEF TreeHead, logVars
  <2>2. CASE rows' = rows
    BY <1>2, <2>2 DEF IsSequence, Numbered
  <2>3. ASSUME NEW stmt, Store(stmt, rows) PROVE Numbered'
    BY <1>2, <2>3, StoreAppends DEF Numbered
  <2> QED BY <2>1, <2>2, <2>3
<1> QED BY <1>1, <1>2, LogInitHolds, LogStep, HeadsProveRows, PTL DEF Spec

-----------------------------------------------------------------------------
(* The receipts that the file and the programs hold.                       *)

Logged(receipt) == \E i \in 1 .. Len(rows) : rows[i].receipt = receipt

\* No receipt, one that the local service signed, or one from the log.
Vouched(receipt) == receipt = None \/ receipt.by = "local" \/ Logged(receipt)

Fields == {"body", "governed", "scitt", "receipt", "ledger", "latest"}

\* The invariant: where a receipt of the service is, it is in the log; a program
\* may have read it from the file, have it from an answer, or be about to get it.
AllVouched ==
    /\ IsSequence(rows)
    /\ Fields \subseteq DOMAIN file /\ Vouched(file.receipt)
    /\ DOMAIN seen = Program /\ \A p \in Program : Fields \subseteq DOMAIN seen[p]
    /\ DOMAIN copy = Program
    /\ \A p \in Program : Fields \subseteq DOMAIN copy[p] /\ Vouched(copy[p].receipt)
    /\ DOMAIN got = Program /\ \A p \in Program : Vouched(got[p])
    /\ \A m \in replies : Vouched(m.receipt)

LEMMA NoFileVouched ==
  \A governed : /\ DOMAIN Sealed(governed) = Fields
                /\ Sealed(governed).receipt = None
  BY DEF Sealed, Fields

\* The log only grows at its end, so what is in it stays in it.
LEMMA LoggedStays ==
  ASSUME IsSequence(rows), [Next]_vars
  PROVE  /\ IsSequence(rows)'
         /\ \A receipt : Logged(receipt) => Logged(receipt)'
<1>1. (\E stmt : Store(stmt, rows)) \/ TreeHead \/ UNCHANGED logVars
  BY LogChanges
<1>2. CASE rows' = rows
  BY <1>2 DEF IsSequence, Logged
<1>3. ASSUME NEW stmt, Store(stmt, rows)
      PROVE  IsSequence(rows)' /\ \A receipt : Logged(receipt) => Logged(receipt)'
  BY <1>3, StoreAppends DEF Logged
<1> QED BY <1>1, <1>2, <1>3 DEF TreeHead, logVars

LEMMA VouchedEnd ==
  ASSUME AllVouched, [Next]_vars, NEW p \in Program, NEW place, End(p, place),
         Fields \subseteq DOMAIN file', Vouched(file.receipt)'
  PROVE  AllVouched'
<1>1. IsSequence(rows)' /\ \A receipt : Vouched(receipt) => Vouched(receipt)'
  BY LoggedStays DEF Vouched, AllVouched
<1>2. DOMAIN NoFile = Fields /\ NoFile.receipt = None /\ Vouched(None)'
  BY NoFileVouched DEF NoFile, Vouched
<1>3. ASSUME NEW q \in Program
      PROVE  /\ Fields \subseteq DOMAIN seen'[q]
             /\ Fields \subseteq DOMAIN copy'[q] /\ Vouched(copy[q].receipt)'
             /\ Vouched(got[q])'
  BY <1>1, <1>2 DEF AllVouched, End
<1>4. \A m \in replies' : Vouched(m.receipt)'
  BY <1>1 DEF AllVouched, End
<1>5. DOMAIN seen' = Program /\ DOMAIN copy' = Program /\ DOMAIN got' = Program
  BY DEF AllVouched, End
<1> QED BY <1>1, <1>3, <1>4, <1>5 DEF AllVouched

LEMMA VouchedStep == AllVouched /\ [Next]_vars => AllVouched'
<1> SUFFICES ASSUME AllVouched, [Next]_vars PROVE AllVouched'
  OBVIOUS
<1>0. IsSequence(rows)' /\ \A receipt : Vouched(receipt) => Vouched(receipt)'
  BY LoggedStays DEF Vouched, AllVouched
<1>1. ASSUME NEW p \in Program, NEW command \in Command, Load(p, command)
      PROVE  AllVouched'
  BY <1>0, <1>1 DEF AllVouched, Load, wires
<1>2. ASSUME NEW p \in Program, Send(p) \/ Retry(p)
      PROVE  AllVouched'
  BY <1>0, <1>2 DEF AllVouched, Send, Retry
<1>3. ASSUME NEW p \in Program, RegisterLocally(p)
      PROVE  AllVouched'
  <2>1. \A q \in Program : Vouched(got[q])'
    BY <1>0, <1>3 DEF AllVouched, RegisterLocally, LocalReceipt, Vouched
  <2> QED BY <1>0, <1>3, <2>1 DEF AllVouched, RegisterLocally, wires
<1>4. ASSUME NEW p \in Program, Copy(p)
      PROVE  AllVouched'
  <2>1. ASSUME NEW q \in Program
        PROVE  Fields \subseteq DOMAIN copy'[q] /\ Vouched(copy[q].receipt)'
    BY <1>0, <1>4 DEF AllVouched, Copy
  <2> QED BY <1>0, <1>4, <2>1 DEF AllVouched, Copy, wires
<1>5. ASSUME NEW p \in Program, NEW m \in replies, Accept(p, m)
      PROVE  AllVouched'
  BY <1>0, <1>5 DEF AllVouched, Accept
<1>6. ASSUME NEW p \in Program, Fail(p) \/ Die(p)
      PROVE  AllVouched'
  BY <1>0, <1>6, VouchedEnd DEF Fail, Die, AllVouched
<1>7. ASSUME NEW p \in Program, NEW new, Replace(p, new),
             Fields \subseteq DOMAIN new, Vouched(new.receipt)
      PROVE  AllVouched'
  BY <1>0, <1>7, VouchedEnd DEF Replace
<1>8. ASSUME NEW p \in Program, AddReview(p)
      PROVE  AllVouched'
  <2> PICK records, last : Replace(p, Reviewed(copy[p], records, last))
    BY <1>8 DEF AddReview
  <2>1. /\ Fields \subseteq DOMAIN Reviewed(copy[p], records, last)
        /\ Vouched(Reviewed(copy[p], records, last).receipt)
    BY DEF AllVouched, Reviewed, Fields
  <2> QED BY <1>7, <2>1
\* The receipt that is embedded is the one of the answer, or a local one.
<1>9. ASSUME NEW p \in Program, Embed(p)
      PROVE  AllVouched'
  <2> DEFINE scitt == IF kind[p] = "local" THEN "local" ELSE "remote"
             new == [copy[p] EXCEPT !.body = seen[p].body, !.governed = TRUE,
                                    !.scitt = scitt, !.receipt = got[p]]
  <2>1. Fields \subseteq DOMAIN new /\ Vouched(new.receipt)
    BY DEF AllVouched, Fields
  <2>2. Replace(p, new)
    BY <1>9 DEF Embed
  <2> QED BY <1>7, <2>1, <2>2
<1>10. ASSUME NEW p \in Program, Refresh(p)
       PROVE  AllVouched'
  <2> DEFINE body == 1 + Cardinality({q \in Program : kind[q] = "refresh" /\ pc[q] = "done"})
             new == [copy[p] EXCEPT !.body = body, !.governed = seen[p].governed,
                                    !.scitt = seen[p].scitt]
  <2>1. Fields \subseteq DOMAIN new /\ Vouched(new.receipt)
    BY DEF AllVouched, Fields
  <2>2. Replace(p, new)
    BY <1>10 DEF Refresh
  <2> QED BY <1>7, <2>1, <2>2
\* The service only sends a receipt that it has stored.
<1>11. ASSUME NEW m \in net, Serve(m)
       PROVE  AllVouched'
  <2>1. ASSUME NEW a \in replies'
        PROVE  Vouched(a.receipt)'
    <3>1. CASE a \in replies
      BY <1>0, <3>1 DEF AllVouched
    <3>2. CASE Register(m.stmt) /\ a.receipt = Receipt(m.stmt)
      BY <3>2, StoreAppends DEF Register, AllVouched, Vouched, Logged
    <3>3. CASE a.receipt = None
      BY <3>3 DEF Vouched
    <3> QED BY <1>11, <3>1, <3>2, <3>3 DEF Serve
  <2> QED BY <1>0, <1>11, <2>1 DEF AllVouched, Serve
<1>12. CASE Others \/ UNCHANGED vars
  BY <1>0, <1>12 DEF AllVouched, Others, vars, wires
<1> QED BY <1>1, <1>2, <1>3, <1>4, <1>5, <1>6, <1>8, <1>9, <1>10, <1>11, <1>12
        DEF Next, Step

LEMMA VouchedInit == Init => AllVouched
<1> SUFFICES ASSUME Init PROVE AllVouched
  OBVIOUS
<1>1. rows \in Seq({})
  BY DEF Init, LogInit
<1>2. Fields \subseteq DOMAIN file /\ Vouched(file.receipt)
  BY NoFileVouched DEF Init, Vouched
<1> QED BY <1>1, <1>2, NoFileVouched DEF Init, AllVouched, IsSequence, NoFile, Vouched

\* A file that passes the transparency check of the service is in the service's log,
\* whatever was retried, answered late, refreshed or overwritten before.
THEOREM TransparentStays == Spec => []TransparentIsLogged
<1>1. AllVouched => TransparentIsLogged
  BY DEF AllVouched, Vouched, Logged, Transparent, TransparentIsLogged
<1> QED BY <1>1, VouchedInit, VouchedStep, PTL DEF Spec

-----------------------------------------------------------------------------
(* Reviews that were added alone.                                          *)

Writers == {p \in Program : pc[p] = "rewrite"}

\* Who is at work without being noted is at work alone.
Noticed == \A p \in AtWork \ mixed : AtWork = {p}

\* What the programs are, as far as their being at work depends on it.
Placed ==
    /\ DOMAIN pc = Program /\ DOMAIN kind = Program /\ tries \in [Program -> Nat]
    /\ \A p \in Program :
        pc[p] \in {"waiting", "registered", "receipted"} => kind[p] # "review"

\* The invariant: such a review is in the file, and in every payload that is
\* about to become the file.
LoneInAll ==
    /\ Placed /\ Noticed
    /\ LoneReviewIsKept
    /\ \A p \in Writers : lone \subseteq Ids(copy[p].ledger)

LEMMA NoticedStarts ==
  ASSUME Noticed, NEW p \in Program, StartsWork(p), AtWork' = AtWork \cup {p}
  PROVE  Noticed'
  BY DEF Noticed, StartsWork

LEMMA NoticedLeaves ==
  ASSUME Noticed, AtWork' \subseteq AtWork, mixed' = mixed
  PROVE  Noticed'
  BY DEF Noticed

\* How each action changes who is at work.
LEMMA WorkEnds ==
  ASSUME Placed, NEW p \in Program, NEW place, End(p, place), UNCHANGED <<kind, tries>>,
         place \in {"done", "failed", "dead"}
  PROVE  AtWork' = AtWork \ {p} /\ Writers' = Writers \ {p} /\ Placed'
<1>1. pc' = [pc EXCEPT ![p] = place] /\ kind' = kind /\ tries' = tries
  BY DEF End, Go
<1>2. Placed'
  BY <1>1 DEF Placed
<1> QED BY <1>1, <1>2 DEF Placed, AtWork, Writers

LEMMA WorkStep ==
  ASSUME Placed, NEW p \in Program,
         \/ \E command \in Command : Load(p, command)
         \/ Send(p) \/ Retry(p) \/ RegisterLocally(p) \/ \E m \in replies : Accept(p, m)
  PROVE  /\ Placed' /\ Writers' = Writers /\ lone' = lone
         /\ \/ AtWork' \subseteq AtWork /\ mixed' = mixed
            \/ AtWork' = AtWork \cup {p} /\ StartsWork(p)
<1>1. ASSUME NEW command \in Command, Load(p, command)
      PROVE  /\ Placed' /\ Writers' = Writers /\ lone' = lone
             /\ \/ AtWork' \subseteq AtWork /\ mixed' = mixed
                \/ AtWork' = AtWork \cup {p} /\ StartsWork(p)
  <2>1. Placed' /\ Writers' = Writers /\ lone' = lone
    BY <1>1 DEF Load, Go, Placed, Writers, wires
  <2>2. CASE command = "review"
    BY <1>1, <2>1, <2>2 DEF Load, Go, Placed, AtWork
  <2>3. CASE command # "review"
    BY <1>1, <2>1, <2>3 DEF Load, Go, Placed, AtWork
  <2> QED BY <2>1, <2>2, <2>3
<1>2. CASE Send(p)
  <2>1. kind[p] # "review"
    BY <1>2 DEF Send, Attempts, Placed
  <2> QED BY <1>2, <2>1 DEF Send, Go, Placed, Writers, AtWork, history
<1>3. CASE Retry(p)
  BY <1>3 DEF Retry, Go, Placed, Writers, AtWork, history
<1>4. CASE RegisterLocally(p)
  BY <1>4 DEF RegisterLocally, Go, Placed, Writers, AtWork, wires, history
<1>5. ASSUME NEW m \in replies, Accept(p, m)
      PROVE  Placed' /\ Writers' = Writers /\ lone' = lone
             /\ AtWork' \subseteq AtWork /\ mixed' = mixed
  BY <1>5 DEF Accept, Go, Placed, Writers, AtWork, history
<1> QED BY <1>1, <1>2, <1>3, <1>4, <1>5

LEMMA WorkCopy ==
  ASSUME Placed, NEW p \in Program, Copy(p)
  PROVE  Placed' /\ Writers' = Writers \cup {p} /\ AtWork' = AtWork \cup {p}
<1>1. pc' = [pc EXCEPT ![p] = "rewrite"] /\ kind' = kind /\ tries' = tries
  BY DEF Copy, Go, wires
<1> QED BY <1>1 DEF Placed, AtWork, Writers

\* A program that puts its file in place keeps the reviews of its payload.
LEMMA LoneReplace ==
  ASSUME LoneInAll, NEW p \in Program, NEW new, Replace(p, new),
         Ids(copy[p].ledger) \subseteq Ids(new.ledger),
         DOMAIN copy = Program,
         lone' = lone \/ (p \notin mixed /\ p \in Ids(new.ledger) /\ lone' = lone \cup {p})
  PROVE  LoneInAll'
<1>1. AtWork' = AtWork \ {p} /\ Writers' = Writers \ {p} /\ Placed' /\ mixed' = mixed
  BY WorkEnds DEF Replace, LoneInAll
<1>2. Noticed'
  BY <1>1, NoticedLeaves DEF LoneInAll
<1>3. p \in Writers /\ p \in AtWork /\ Writers \subseteq AtWork /\ file' = new
  BY DEF Replace, Writers, AtWork
<1>4. LoneReviewIsKept'
  BY <1>3 DEF LoneInAll, LoneReviewIsKept
<1>5. ASSUME NEW q \in Writers'
      PROVE  lone' \subseteq Ids(copy'[q].ledger)
  <2>1. q \in Writers /\ q # p /\ copy'[q] = copy[q]
    BY <1>1, <1>5 DEF Replace, End
  <2>2. lone' = lone
    BY <2>1, <1>3 DEF LoneInAll, Noticed
  <2> QED BY <2>1, <2>2 DEF LoneInAll
<1> QED BY <1>1, <1>2, <1>4, <1>5 DEF LoneInAll

LEMMA LoneStep == LoneInAll /\ AllClosed /\ [Next]_vars => LoneInAll'
<1> SUFFICES ASSUME LoneInAll, AllClosed, [Next]_vars PROVE LoneInAll'
  OBVIOUS
<1>1. ASSUME NEW p \in Program,
             \/ \E command \in Command : Load(p, command)
             \/ Send(p) \/ Retry(p) \/ RegisterLocally(p) \/ \E m \in replies : Accept(p, m)
      PROVE  LoneInAll'
  <2>1. /\ Placed' /\ Writers' = Writers /\ lone' = lone
        /\ \/ AtWork' \subseteq AtWork /\ mixed' = mixed
           \/ AtWork' = AtWork \cup {p} /\ StartsWork(p)
    BY <1>1, WorkStep DEF LoneInAll
  <2>2. Noticed'
    BY <2>1, NoticedStarts, NoticedLeaves DEF LoneInAll
  <2>3. file' = file /\ copy' = copy
    BY <1>1 DEF Load, Send, Retry, RegisterLocally, Accept
  <2> QED BY <2>1, <2>2, <2>3 DEF LoneInAll, LoneReviewIsKept
<1>2. ASSUME NEW p \in Program, Copy(p)
      PROVE  LoneInAll'
  <2>1. Placed' /\ Writers' = Writers \cup {p} /\ AtWork' = AtWork \cup {p}
    BY <1>2, WorkCopy DEF LoneInAll
  <2>2. Noticed'
    BY <1>2, <2>1, NoticedStarts DEF Copy, LoneInAll
  <2>3. file' = file /\ copy' = [copy EXCEPT ![p] = file] /\ lone' = lone
    BY <1>2 DEF Copy
  <2>4. ASSUME NEW q \in Writers' PROVE lone \subseteq Ids(copy'[q].ledger)
    BY <2>1, <2>3, <2>4 DEF LoneInAll, LoneReviewIsKept, AllClosed, Writers
  <2> QED BY <2>1, <2>2, <2>3, <2>4 DEF LoneInAll, LoneReviewIsKept
<1>3. ASSUME NEW p \in Program, Fail(p) \/ Die(p)
      PROVE  LoneInAll'
  <2>1. AtWork' = AtWork \ {p} /\ Writers' = Writers \ {p} /\ Placed'
    BY <1>3, WorkEnds DEF Fail, Die, LoneInAll
  <2>2. mixed' = mixed /\ lone' = lone /\ file' = file
    BY <1>3 DEF Fail, Die, history
  <2>3. Noticed'
    BY <2>1, <2>2, NoticedLeaves DEF LoneInAll
  <2>4. ASSUME NEW q \in Writers' PROVE lone \subseteq Ids(copy'[q].ledger)
    <3>1. q \in Writers /\ q # p
      BY <2>1, <2>4
    <3>2. copy'[q] = copy[q]
      BY <1>3, <3>1 DEF Fail, Die, End, AllClosed, Writers
    <3> QED BY <3>1, <3>2 DEF LoneInAll
  <2> QED BY <2>1, <2>2, <2>3, <2>4 DEF LoneInAll, LoneReviewIsKept
<1>4. ASSUME NEW p \in Program, AddReview(p)
      PROVE  LoneInAll'
  <2> PICK previous \in Latest(seen[p].ledger) :
        LET records == seen[p].ledger \cup {[id |-> p, prev |-> previous]}
        IN \E last \in Latest(records) : Replace(p, Reviewed(copy[p], records, last))
    BY <1>4 DEF AddReview
  <2> DEFINE records == seen[p].ledger \cup {[id |-> p, prev |-> previous]}
  <2> PICK last \in Latest(records) : Replace(p, Reviewed(copy[p], records, last))
    OBVIOUS
  <2> DEFINE new == Reviewed(copy[p], records, last)
  <2>1. new.ledger = records \cup {r \in copy[p].ledger : r.id \notin Ids(records)}
    BY DEF AllClosed, Closed, Reviewed
  <2>2. Ids(copy[p].ledger) \subseteq Ids(new.ledger)
    BY <2>1 DEF Ids
  <2> HIDE DEF new
  <2>3. p \in Ids(new.ledger)
    <3>1. [id |-> p, prev |-> previous] \in new.ledger
      BY <2>1
    <3> QED BY <3>1 DEF Ids
  <2> USE DEF new
  <2>4. lone' = lone \/ (p \notin mixed /\ lone' = lone \cup {p})
    BY <1>4 DEF AddReview
  <2> QED BY <2>2, <2>3, <2>4, LoneReplace DEF AllClosed
<1>5. ASSUME NEW p \in Program, Embed(p) \/ Refresh(p)
      PROVE  LoneInAll'
  <2>1. \E new : Replace(p, new) /\ new.ledger = copy[p].ledger /\ lone' = lone
    BY <1>5 DEF Embed, Refresh, AllClosed, Closed
  <2> QED BY <2>1, LoneReplace DEF AllClosed
<1>6. CASE (\E m \in net : Serve(m)) \/ Others \/ UNCHANGED vars
  <2>1. UNCHANGED <<file, kind, pc, seen, copy, got, tries, mixed, lone>>
    BY <1>6 DEF Serve, Others, vars, wires, history
  <2> QED BY <2>1 DEF LoneInAll, LoneReviewIsKept, Placed, Noticed, Writers, AtWork
<1> QED BY <1>1, <1>2, <1>3, <1>4, <1>5, <1>6 DEF Next, Step

LEMMA LoneInit == Init => LoneInAll
<1> SUFFICES ASSUME Init PROVE LoneInAll
  OBVIOUS
<1>1. AtWork = {} /\ Writers = {} /\ lone = {}
  BY DEF Init, AtWork, Writers
<1>2. Placed
  BY DEF Init, Placed
<1> QED BY <1>1, <1>2 DEF LoneInAll, LoneReviewIsKept, Noticed

\* A review that was added while no other program was at work is never lost,
\* whatever programs rewrite the file afterwards, together or not, and where they die.
THEOREM LoneReviewStays == Spec => []LoneReviewIsKept
<1>1. LoneInAll => LoneReviewIsKept
  BY DEF LoneInAll
<1> QED BY <1>1, LoneInit, LoneStep, ClosedInit, ClosedStep, PTL DEF Spec

-----------------------------------------------------------------------------
(* The chain of reviews, while the programs do not overlap.                *)

\* The reviews are one chain from a first one to the last.
Chain(records, last) ==
    /\ \A q, r \in records : q.id = r.id => q = r
    /\ \A r \in records : r.id \in Program
    /\ records # {} =>
        /\ \E root \in records : {r \in records : r.prev = None} = {root}
        /\ Ids(Tails(records)) = {last}

\* The invariant: what a program at work has read is what the file still holds,
\* and the reviews in the file are of programs that are done.
Serial ==
    /\ Chain(file.ledger, file.latest)
    /\ \A r \in file.ledger : pc[r.id] = "done"
    /\ \A p \in AtWork : kind[p] = "review" => seen[p].ledger = file.ledger
    /\ \A p \in Writers :
        copy[p].ledger = file.ledger /\ copy[p].latest = file.latest

SerialUnlessMixed == mixed = {} => Serial

\* One chain has one record that no other follows.
LEMMA ChainHasOneTail ==
  ASSUME NEW records, NEW last, Chain(records, last), records # {}
  PROVE  /\ \E t \in records : Tails(records) = {t} /\ t.id = last
         /\ Latest(records) = {last}
<1>1. Ids(Tails(records)) = {last}
  BY DEF Chain
<1>2. PICK t \in Tails(records) : t.id = last
  BY <1>1 DEF Ids
<1>3. \A u \in Tails(records) : u.id = last
  BY <1>1 DEF Ids
<1>4. t \in records /\ Tails(records) = {t}
  BY <1>2, <1>3 DEF Chain, Tails
<1>5. Cardinality(Tails(records)) = 1
  BY <1>4, FS_Singleton
<1> QED BY <1>1, <1>2, <1>4, <1>5 DEF Latest

LEMMA ChainFrom ==
  ASSUME NEW records, NEW last,
         \A q, r \in records : q.id = r.id => q = r,
         \A r \in records : r.id \in Program,
         \E root \in records : {r \in records : r.prev = None} = {root},
         Ids(Tails(records)) = {last}
  PROVE  Chain(records, last)
  BY DEF Chain

\* A new record that follows the last one becomes the last one.
LEMMA ChainGrows ==
  ASSUME NEW old, NEW last, Chain(old, last),
         \A r \in old : r.prev # None => r.prev \in Ids(old),
         NEW p \in Program, p \notin Ids(old), NEW previous \in Latest(old),
         NEW new, new = old \cup {[id |-> p, prev |-> previous]}
  PROVE  Chain(new, p) /\ Latest(new) = {p}
<1> DEFINE added == [id |-> p, prev |-> previous]
<1>1. None \notin Program /\ p # None
  BY ArtifactAssumption
<1>2. \A q, r \in new : q.id = r.id => q = r
  BY DEF Chain, Ids
<1>3. \A r \in new : r.id \in Program
  BY DEF Chain
<1>4. \A r \in old : r.prev # p /\ r.id # p
  BY <1>1 DEF Ids
<1>0. Ids({added}) = {p}
  BY DEF Ids
<1>5. ASSUME old = {} PROVE Chain(new, p)
  <2>1. previous = None
    BY <1>5 DEF Latest
  <2>2. new = {added}
    BY <1>5
  <2>3. {r \in new : r.prev = None} = {added}
    BY <2>1, <2>2
  <2>4. Tails(new) = {added}
    BY <1>1, <2>1, <2>2 DEF Tails
  <2>5. Ids(Tails(new)) = {p}
    BY <2>4, <1>0
  <2>6. \E root \in new : {r \in new : r.prev = None} = {root}
    BY <2>2, <2>3
  <2> QED BY <1>2, <1>3, <2>5, <2>6, ChainFrom
<1>6. ASSUME old # {} PROVE Chain(new, p)
  <2>1. PICK t \in old : Tails(old) = {t} /\ t.id = last
    BY <1>6, ChainHasOneTail
  <2>2. previous = last
    BY <1>6, ChainHasOneTail
  <2>3. last \in Program /\ last # None /\ last # p
    BY <1>1, <2>1, <1>4 DEF Chain
  <2>4. PICK root \in old : {r \in old : r.prev = None} = {root}
    BY <1>6 DEF Chain
  <2>5. {r \in new : r.prev = None} = {root}
    BY <2>2, <2>3, <2>4
  <2>6. \A r \in old : r \notin Tails(new)
    <3> SUFFICES ASSUME NEW r \in old, r \in Tails(new) PROVE FALSE
      OBVIOUS
    <3>1. r \in Tails(old)
      BY DEF Tails
    <3>2. added \in new /\ added.prev = r.id
      BY <3>1, <2>1, <2>2
    <3> QED BY <3>2 DEF Tails
  <2>7. added \in Tails(new)
    BY <1>4, <2>2, <2>3 DEF Tails
  <2>8. Tails(new) = {added}
    BY <2>6, <2>7 DEF Tails
  <2>9. Ids(Tails(new)) = {p}
    BY <2>8, <1>0
  <2>10. \E first \in new : {r \in new : r.prev = None} = {first}
    BY <2>5
  <2> QED BY <1>2, <1>3, <2>9, <2>10, ChainFrom
<1>7. Chain(new, p)
  BY <1>5, <1>6
<1> QED BY <1>7, ChainHasOneTail

\* Whoever is at work is the only one, as long as nobody was noted.
LEMMA AloneAtWork ==
  ASSUME LoneInAll, mixed = {}, NEW p \in AtWork
  PROVE  AtWork = {p} /\ Writers \subseteq {p}
  BY DEF LoneInAll, Noticed, AtWork, Writers

LEMMA SerialReplace ==
  ASSUME LoneInAll, Serial, mixed = {}, NEW p \in Program, NEW new, Replace(p, new),
         Chain(new.ledger, new.latest),
         \A r \in new.ledger : r.id = p \/ pc[r.id] = "done"
  PROVE  Serial'
<1>1. AtWork' = AtWork \ {p} /\ Writers' = Writers \ {p}
  BY WorkEnds DEF Replace, LoneInAll
<1>2. p \in AtWork
  BY DEF Replace, AtWork
<1>3. AtWork' = {} /\ Writers' = {}
  BY <1>1, <1>2, AloneAtWork
<1>4. file' = new /\ pc' = [pc EXCEPT ![p] = "done"]
  BY DEF Replace, End, Go
<1>5. Chain(file.ledger, file.latest)'
  BY <1>4 DEF Chain
<1>6. \A r \in file'.ledger : pc'[r.id] = "done"
  BY <1>4, <1>5 DEF Chain, LoneInAll, Placed
<1> QED BY <1>3, <1>5, <1>6 DEF Serial

LEMMA SerialStep ==
  ASSUME SerialUnlessMixed, LoneInAll, AllClosed, AllVouched, [Next]_vars
  PROVE  SerialUnlessMixed'
<1> SUFFICES ASSUME mixed' = {} PROVE Serial'
  BY DEF SerialUnlessMixed
<1>0. mixed \subseteq mixed'
  BY DEF Next, Step, vars, wires, history, Load, Send, Retry, Fail, RegisterLocally, Copy,
         AddReview, Embed, Refresh, Replace, Die, Accept, Serve, Others, StartsWork
<1> mixed = {} /\ Serial
  BY <1>0 DEF SerialUnlessMixed
\* Loading and copying take what the file holds.
<1>1. ASSUME NEW p \in Program, NEW command \in Command, Load(p, command)
      PROVE  Serial'
  <2>1. /\ file' = file /\ copy' = copy /\ seen' = [seen EXCEPT ![p] = file]
        /\ pc[p] = "start" /\ pc' = [pc EXCEPT ![p] = "loaded"]
    BY <1>1 DEF Load, Go
  <2>2. Writers' = Writers /\ AtWork' \subseteq AtWork \cup {p}
    BY <1>1, WorkStep DEF LoneInAll
  <2>3. \A r \in file.ledger : pc'[r.id] = "done"
    BY <2>1 DEF Serial, Chain, LoneInAll, Placed
  <2>4. ASSUME NEW q \in AtWork', kind'[q] = "review"
        PROVE  seen'[q].ledger = file.ledger
    <3>1. CASE q = p
      BY <2>1, <3>1 DEF AllClosed
    <3>2. CASE q # p
      BY <1>1, <2>1, <2>2, <2>4, <3>2 DEF AllClosed, Serial, Load, LoneInAll, Placed
    <3> QED BY <3>1, <3>2
  <2> QED BY <2>1, <2>2, <2>3, <2>4 DEF Serial, Chain
<1>2. ASSUME NEW p \in Program, Copy(p)
      PROVE  Serial'
  <2>1. /\ file' = file /\ seen' = seen /\ kind' = kind
        /\ copy' = [copy EXCEPT ![p] = file] /\ pc' = [pc EXCEPT ![p] = "rewrite"]
    BY <1>2 DEF Copy, Go
  <2>2. Writers' = Writers \cup {p} /\ AtWork' = AtWork \cup {p}
    BY <1>2, WorkCopy DEF LoneInAll
  <2>3. \A r \in file.ledger : pc'[r.id] = "done"
    <3>1. pc[p] # "done"
      BY <1>2 DEF Copy
    <3> QED BY <2>1, <3>1 DEF Serial, Chain, LoneInAll, Placed
  <2>4. kind[p] = "review" => p \in AtWork
    BY <1>2 DEF Copy, AtWork, LoneInAll, Placed
  <2>5. \A q \in Writers' :
            copy'[q].ledger = file.ledger /\ copy'[q].latest = file.latest
    BY <2>1, <2>2 DEF Serial, AllClosed, Writers
  <2> QED BY <2>1, <2>2, <2>3, <2>4, <2>5 DEF Serial, Chain
<1>3. ASSUME NEW p \in Program, Send(p) \/ Retry(p) \/ RegisterLocally(p)
                                  \/ \E m \in replies : Accept(p, m)
      PROVE  Serial'
  <2>1. Writers' = Writers /\ (AtWork' \subseteq AtWork \/ AtWork' = AtWork \cup {p})
    BY <1>3, WorkStep DEF LoneInAll
  <2>2. UNCHANGED <<file, kind, seen, copy>>
    BY <1>3 DEF Send, Retry, RegisterLocally, Accept
  <2>3. pc[p] # "done" /\ \E place : pc' = [pc EXCEPT ![p] = place]
    BY <1>3 DEF Send, Retry, RegisterLocally, Accept, Go
  <2>4. \A r \in file.ledger : pc'[r.id] = "done"
    BY <2>3 DEF Serial, Chain, LoneInAll, Placed
  <2>5. kind[p] = "review" => p \notin AtWork' \/ p \in AtWork
    BY <1>3 DEF Send, Retry, RegisterLocally, Accept, Go, AtWork, LoneInAll, Placed
  <2> QED BY <2>1, <2>2, <2>4, <2>5 DEF Serial, Chain
<1>4. ASSUME NEW p \in Program, Fail(p) \/ Die(p)
      PROVE  Serial'
  <2>1. AtWork' = AtWork \ {p} /\ Writers' = Writers \ {p}
    BY <1>4, WorkEnds DEF Fail, Die, LoneInAll
  <2>2. file' = file /\ kind' = kind
    BY <1>4 DEF Fail, Die
  <2>3. \A q \in Program \ {p} : seen'[q] = seen[q] /\ copy'[q] = copy[q]
    BY <1>4 DEF Fail, Die, End, AllClosed
  <2>4. pc[p] # "done" /\ \E place : pc' = [pc EXCEPT ![p] = place]
    BY <1>4 DEF Fail, Die, End, Go
  <2>5. \A r \in file.ledger : pc'[r.id] = "done"
    BY <2>4 DEF Serial, Chain, LoneInAll, Placed
  <2>6. AtWork \subseteq Program /\ Writers \subseteq Program
    BY DEF AtWork, Writers
  <2> QED BY <2>1, <2>2, <2>3, <2>5, <2>6 DEF Serial, Chain
\* The new review follows the last one, for nobody has added another meanwhile.
<1>5. ASSUME NEW p \in Program, AddReview(p)
      PROVE  Serial'
  <2> PICK previous \in Latest(seen[p].ledger) :
        LET records == seen[p].ledger \cup {[id |-> p, prev |-> previous]}
        IN \E last \in Latest(records) : Replace(p, Reviewed(copy[p], records, last))
    BY <1>5 DEF AddReview
  <2> DEFINE records == seen[p].ledger \cup {[id |-> p, prev |-> previous]}
  <2> PICK last \in Latest(records) : Replace(p, Reviewed(copy[p], records, last))
    OBVIOUS
  <2> DEFINE new == Reviewed(copy[p], records, last)
  <2>1. pc[p] = "rewrite" /\ kind[p] = "review"
    BY <1>5 DEF AddReview, Replace
  <2>2. p \in AtWork /\ p \in Writers
    BY <2>1 DEF AtWork, Writers
  <2>3. seen[p].ledger = file.ledger /\ copy[p].ledger = file.ledger
    BY <2>1, <2>2 DEF Serial
  <2>4. \A r \in file.ledger : r.prev # None => r.prev \in Ids(file.ledger)
    BY DEF AllClosed, Closed
  <2>5. p \notin Ids(file.ledger)
    BY <2>1 DEF Serial, Ids
  <2>6. Chain(records, p) /\ Latest(records) = {p}
    BY <2>3, <2>4, <2>5, ChainGrows DEF Serial
  <2>7. new.ledger = records /\ new.latest = p
    <3>1. new.ledger = records \cup {r \in copy[p].ledger : r.id \notin Ids(records)}
      BY DEF AllClosed, Closed, Reviewed
    <3>2. new.latest = last
      BY DEF AllVouched, Fields, Reviewed
    <3>3. {r \in copy[p].ledger : r.id \notin Ids(records)} = {}
      BY <2>3 DEF Ids
    <3> QED BY <3>1, <3>2, <3>3, <2>6
  <2>8. \A r \in records : r.id = p \/ pc[r.id] = "done"
    BY <2>3 DEF Serial
  <2> HIDE DEF new, records
  <2>9. Replace(p, new)
    BY DEF new, records
  <2> QED BY <2>6, <2>7, <2>8, <2>9, SerialReplace
<1>6. ASSUME NEW p \in Program, Embed(p) \/ Refresh(p)
      PROVE  Serial'
  <2>1. PICK new : Replace(p, new) /\ new.ledger = copy[p].ledger /\ new.latest = copy[p].latest
    <3>1. Fields \subseteq DOMAIN copy[p]
      BY DEF AllVouched
    <3>2. CASE Embed(p)
      <4> DEFINE scitt == IF kind[p] = "local" THEN "local" ELSE "remote"
                 new == [copy[p] EXCEPT !.body = seen[p].body, !.governed = TRUE,
                                        !.scitt = scitt, !.receipt = got[p]]
      <4>1. new.ledger = copy[p].ledger /\ new.latest = copy[p].latest
        BY <3>1 DEF Fields
      <4>2. Replace(p, new)
        BY <3>2 DEF Embed
      <4> HIDE DEF new
      <4> QED BY <4>1, <4>2
    <3>3. CASE Refresh(p)
      <4> DEFINE done == {q \in Program : kind[q] = "refresh" /\ pc[q] = "done"}
                 new == [copy[p] EXCEPT !.body = 1 + Cardinality(done),
                                        !.governed = seen[p].governed,
                                        !.scitt = seen[p].scitt]
      <4>1. new.ledger = copy[p].ledger /\ new.latest = copy[p].latest
        BY <3>1 DEF Fields
      <4>2. Replace(p, new)
        BY <3>3 DEF Refresh
      <4> HIDE DEF new
      <4> QED BY <4>1, <4>2
    <3> QED BY <1>6, <3>2, <3>3
  <2>2. p \in Writers
    BY <2>1 DEF Replace, Writers
  <2>3. new.ledger = file.ledger /\ new.latest = file.latest
    BY <2>1, <2>2 DEF Serial
  <2> QED BY <2>1, <2>3, SerialReplace DEF Serial
<1>7. CASE (\E m \in net : Serve(m)) \/ Others \/ UNCHANGED vars
  <2>1. UNCHANGED <<file, kind, pc, seen, copy>>
    BY <1>7 DEF Serve, Others, vars
  <2> QED BY <2>1 DEF Serial, Chain, Writers, AtWork
<1> QED BY <1>1, <1>2, <1>3, <1>4, <1>5, <1>6, <1>7 DEF Next, Step

LEMMA SerialInit == Init => SerialUnlessMixed
<1> SUFFICES ASSUME Init PROVE Serial
  BY DEF SerialUnlessMixed
<1>1. AtWork = {} /\ Writers = {} /\ file.ledger = {}
  BY DEF Init, AtWork, Writers, Sealed
<1> QED BY <1>1 DEF Serial, Chain

\* While the programs that rewrite the file do not overlap, the reviews form one
\* chain, from one that follows none to the one that the file calls the latest;
\* programs may die, and those that wait for the service do not count as rewriting.
THEOREM SerialChainStays == Spec => []SerialChainIsValid
<1>1. SerialUnlessMixed => SerialChainIsValid
  <2> SUFFICES ASSUME Chain(file.ledger, file.latest), file.ledger # {}
               PROVE  ChainValid
    BY DEF SerialUnlessMixed, Serial, SerialChainIsValid, ChainValid
  <2>1. PICK root : {r \in file.ledger : r.prev = None} = {root}
    BY DEF Chain
  <2>2. Cardinality({r \in file.ledger : r.prev = None}) = 1
    BY <2>1, FS_Singleton
  <2> QED BY <2>2 DEF Chain, ChainValid
<1> QED BY <1>1, SerialInit, SerialStep, LoneInit, LoneStep, ClosedInit, ClosedStep,
           VouchedInit, VouchedStep, PTL DEF Spec

=============================================================================
