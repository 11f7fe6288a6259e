------------------------- MODULE ShareServiceProofs -------------------------
(***************************************************************************)
(* Theorems about ShareService: a link works until it is marked as         *)
(* deleted, and a client stores no more than its quota within any 30 days, *)
(* for any shares, clients, sizes, spans and bounds.                       *)
(*                                                                         *)
(* LinkServesCase is not inductive.  LInv adds what it rests on: the row   *)
(* that is about to be inserted has its whole object and no row yet, and   *)
(* the objects about to be deleted are those of rows marked already.       *)
(*                                                                         *)
(* The quota is about a sum over a set.  QInv adds that an upload in hand  *)
(* still has room beside the rows of the last 30 days; the sum of sizes is *)
(* the number of elements of a set of bytes, so the library's facts about  *)
(* finite sets apply to it.                                                *)
(***************************************************************************)
EXTENDS ShareService, FiniteSetTheorems, WellFoundedInduction, TLAPS

Uploading == at \in {"put", "write", "insert"}

\* The rows and the record in hand have their types.
RowsTyped ==
    /\ DOMAIN rows \subseteq Share
    /\ \A s \in DOMAIN rows : rows[s] \in Row

RecordTyped ==
    /\ now \in Nat
    /\ at = "inspect" => /\ upload.client \in Client /\ upload.size \in Size
                         /\ upload.days \in Lifetime
    /\ Uploading => upload.share \in Share /\ upload.row \in Row

\* The id of the upload in hand is a new one, and its object is whole when its
\* row is inserted.
UploadInHand ==
    /\ Uploading => upload.share \notin DOMAIN rows
    /\ at = "insert" => objects[upload.share] = "whole"

\* What is about to be deleted is marked.
MarkedFirst == \A s \in todo : ~Live(s)

LInv ==
    /\ RowsTyped /\ RecordTyped
    /\ objects \in [Share -> {"none", "part", "whole"}]
    /\ UploadInHand
    /\ MarkedFirst
    /\ LinkServesCase

\* Initially there is no link.
LEMMA InitLInv == Init => LInv
BY DEF Init, LInv, RowsTyped, RecordTyped, NoUpload, UploadInHand, Uploading,
       MarkedFirst, LinkServesCase, Live

\* Marking rows keeps their type, and leaves none that is due.
LEMMA MarkedRows ==
    ASSUME RowsTyped
    PROVE  /\ DOMAIN Marked = DOMAIN rows
           /\ \A s \in DOMAIN rows : /\ Marked[s] \in Row
                                     /\ s \in Due => Marked[s].deleted
                                     /\ s \notin Due => Marked[s] = rows[s]
<1>1. DOMAIN Marked = DOMAIN rows
    BY DEF Marked
<1>2. ASSUME NEW s \in DOMAIN rows
      PROVE  /\ Marked[s] \in Row
             /\ s \in Due => Marked[s].deleted
             /\ s \notin Due => Marked[s] = rows[s]
    <2>1. rows[s] \in Row
        BY DEF RowsTyped
    <2>2. CASE s \in Due
        <3>1. Marked[s] = [rows[s] EXCEPT !.deleted = TRUE]
            BY <2>2 DEF Marked
        <3> QED
            BY <2>1, <2>2, <3>1 DEF Row
    <2>3. CASE s \notin Due
        BY <2>1, <2>3 DEF Marked
    <2> QED
        BY <2>2, <2>3
<1> QED
    BY <1>1, <1>2

USE DEF Uploading
\* Every step keeps the invariant.
LEMMA NextLInv == LInv /\ [Next]_vars => LInv'
<1> SUFFICES ASSUME LInv, [Next]_vars PROVE LInv'
    OBVIOUS
<1> USE DEF LInv, RowsTyped, RecordTyped, UploadInHand, MarkedFirst, LinkServesCase, Live
<1>1. ASSUME NEW c \in Client, NEW n \in Size, NEW d \in Lifetime, BeginUpload(c, n, d)
      PROVE LInv'
    BY <1>1 DEF BeginUpload, Idle
<1>2. ASSUME NEW c \in Client, RefuseUpload(c) PROVE LInv'
    BY <1>2 DEF RefuseUpload, Idle
<1>3. ASSUME NEW s \in Share, Accept(s) PROVE LInv'
    <2>1. upload'.row = [client |-> upload.client, size |-> upload.size,
                         created |-> now, expires |-> now + upload.days,
                         deleted |-> FALSE]
        BY <1>3 DEF Accept
    <2>2. upload.client \in Client /\ upload.size \in Size /\ upload.days \in Nat
        BY <1>3, ShareAssumption DEF Accept
    <2>3. now + upload.days \in Nat
        BY <2>2
    <2>4. upload'.row \in Row
        BY <2>1, <2>2, <2>3 DEF Row
    <2> QED
        BY <1>3, <2>4 DEF Accept
<1>4. ASSUME NEW s \in Share, ExpireLink(s) PROVE LInv'
    BY <1>4, MarkedRows DEF ExpireLink, Idle, Due
<1>5. ASSUME NEW s \in Share, PruneObject(s) PROVE LInv'
    BY <1>5 DEF PruneObject, Works, Fails
<1>6. CASE Reject
    BY <1>6 DEF Reject, Done
<1>7. CASE OpenObject
    BY <1>7 DEF OpenObject
<1>8. CASE WriteObject
    BY <1>8 DEF WriteObject, Works, Fails, Done
<1>9. CASE InsertRow
    BY <1>9 DEF InsertRow, Inserted, Works, Fails, Done
<1>10. CASE DeleteObject
    BY <1>10 DEF DeleteObject, Works, Fails, Done
<1>11. CASE Boot
    BY <1>11 DEF Boot
<1>12. CASE BeginPrune
    BY <1>12, MarkedRows DEF BeginPrune, Due
<1>13. CASE EndPrune
    BY <1>13 DEF EndPrune, Done
<1>14. CASE Crash
    BY <1>14 DEF Crash, Done
<1>15. CASE Tick
    BY <1>15 DEF Tick
<1>16. CASE UNCHANGED vars
    BY <1>16 DEF vars
<1> QED
    BY <1>1, <1>2, <1>3, <1>4, <1>5, <1>6, <1>7, <1>8, <1>9, <1>10, <1>11, <1>12,
       <1>13, <1>14, <1>15, <1>16 DEF Next

\* A link that was made works until it is marked as deleted: the row is
\* inserted after its object is written, and marked before it is removed.
THEOREM LinksWork == Spec => []LinkServesCase
<1>1. LInv => LinkServesCase
    BY DEF LInv
<1> QED
    BY <1>1, InitLInv, NextLInv, PTL DEF Spec

-----------------------------------------------------------------------------
(* Sums.  The sum of the sizes that q gives to a finite set of shares is   *)
(* the number of their bytes, in whatever order they are added up.         *)

SumOf(q, S) == MapThenSumSet(LAMBDA s : q[s].size, S)

Bytes(q, S) == {p \in S \X Nat : p[2] \in 1 .. q[p[1]].size}

Sized(q, S) == \A s \in S : q[s].size \in Nat

\* Among the subsets of a finite set that have a property one is minimal.
LEMMA Smallest ==
    ASSUME NEW S, IsFiniteSet(S), NEW C, C \subseteq SUBSET S, C # {}
    PROVE  \E T \in C : \A U \in C : U \subseteq T => U = T
<1>1. IsWellFoundedOn(StrictSubsetOrdering(S), SUBSET S)
    BY FS_StrictSubsetOrderingWellFounded, FS_FiniteSubsetsOfFinite
<1>2. PICK T \in C : \A U \in C : ~(<<U, T>> \in StrictSubsetOrdering(S))
    BY <1>1, WFMin, Zenon
<1> QED
    BY <1>2 DEF StrictSubsetOrdering

\* One share has as many bytes as its size.
LEMMA BytesOfOne ==
    ASSUME NEW q, NEW x, q[x].size \in Nat
    PROVE  IsFiniteSet(Bytes(q, {x})) /\ Cardinality(Bytes(q, {x})) = q[x].size
<1> DEFINE n == q[x].size
           f == [i \in 1 .. n |-> <<x, i>>]
<1>1. IsFiniteSet(1 .. n) /\ Cardinality(1 .. n) = n
  <2>1. n \in Nat
      OBVIOUS
  <2> HIDE DEF n
  <2>2. IsFiniteSet(1 .. n) /\ Cardinality(1 .. n) = IF 1 > n THEN 0 ELSE n - 1 + 1
      BY <2>1, FS_Interval
  <2> QED
      BY <2>1, <2>2
<1>2. f \in Bijection(1 .. n, Bytes(q, {x}))
    BY DEF Bijection, Injection, IsInjective, Surjection, Bytes
<1>3. ExistsBijection(1 .. n, Bytes(q, {x}))
    BY <1>2 DEF ExistsBijection
<1> QED
    BY <1>1, <1>3, FS_Bijection

\* Bytes of distinct shares are distinct.
LEMMA BytesOfMore ==
    ASSUME NEW q, NEW S, NEW x, x \notin S, q[x].size \in Nat, NEW T, T = S \cup {x},
           IsFiniteSet(Bytes(q, S))
    PROVE  /\ IsFiniteSet(Bytes(q, T))
           /\ Cardinality(Bytes(q, T)) = q[x].size + Cardinality(Bytes(q, S))
<1>1. /\ Bytes(q, T) = Bytes(q, S) \cup Bytes(q, {x})
      /\ Bytes(q, S) \cap Bytes(q, {x}) = {}
    BY DEF Bytes
<1>2. IsFiniteSet(Bytes(q, {x})) /\ Cardinality(Bytes(q, {x})) = q[x].size
    BY BytesOfOne
<1>3. /\ Cardinality({}) = 0 /\ Cardinality(Bytes(q, S)) \in Nat
    BY FS_EmptySet, FS_CardinalityType
<1>4. /\ IsFiniteSet(Bytes(q, T))
      /\ Cardinality(Bytes(q, T)) = Cardinality(Bytes(q, S)) + q[x].size - 0
  <2>1. ASSUME NEW A, NEW B, IsFiniteSet(A), IsFiniteSet(B), A \cap B = {}
        PROVE  /\ IsFiniteSet(A \cup B)
               /\ Cardinality(A \cup B) = Cardinality(A) + Cardinality(B) - 0
    <3>1. /\ IsFiniteSet(A \cup B)
          /\ Cardinality(A \cup B) = Cardinality(A) + Cardinality(B) - Cardinality(A \cap B)
        BY <2>1, FS_Union
    <3> QED
        BY <1>3, <2>1, <3>1
  <2>2. /\ IsFiniteSet(Bytes(q, S) \cup Bytes(q, {x}))
        /\ Cardinality(Bytes(q, S) \cup Bytes(q, {x}))
              = Cardinality(Bytes(q, S)) + Cardinality(Bytes(q, {x})) - 0
      BY <1>1, <1>2, <2>1
  <2> QED
      BY <1>1, <1>2, <2>2
<1> QED
    BY <1>3, <1>4

LEMMA BytesFinite ==
    ASSUME NEW q, NEW S, IsFiniteSet(S), Sized(q, S)
    PROVE  IsFiniteSet(Bytes(q, S))
<1> DEFINE C == {T \in SUBSET S : ~IsFiniteSet(Bytes(q, T))}
<1> SUFFICES ASSUME C # {} PROVE FALSE
    OBVIOUS
<1>5. C \subseteq SUBSET S
    OBVIOUS
<1> HIDE DEF C
<1>1. PICK T \in C : \A U \in C : U \subseteq T => U = T
    BY <1>5, Smallest
<1>6. T \in SUBSET S /\ ~IsFiniteSet(Bytes(q, T))
    BY DEF C
<1>2. T # {}
  <2>1. Bytes(q, {}) = {}
      BY DEF Bytes
  <2> QED
      BY <1>6, <2>1, FS_EmptySet
<1>3. PICK x \in T : TRUE
    BY <1>2
<1> DEFINE U == T \ {x}
<1>4. IsFiniteSet(Bytes(q, U)) /\ q[x].size \in Nat /\ x \notin U /\ T = U \cup {x}
    BY <1>1, <1>6 DEF C, Sized
<1> HIDE DEF U
<1> QED
    BY <1>4, <1>6, BytesOfMore

\* The sum is the number of bytes.
LEMMA SumIsBytes ==
    ASSUME NEW q, NEW S, IsFiniteSet(S), Sized(q, S)
    PROVE  SumOf(q, S) = Cardinality(Bytes(q, S))
<1> DEFINE Sum(f) == f = [s \in SUBSET S |-> IF s = {} THEN 0
                            ELSE LET x == CHOOSE x \in s : TRUE IN q[x].size + f[s \ {x}]]
           h == [s \in SUBSET S |-> Cardinality(Bytes(q, s))]
<1>1. \A s \in SUBSET S : IsFiniteSet(Bytes(q, s))
    BY FS_Subset, BytesFinite DEF Sized
<1>2. Sum(h)
  <2>1. ASSUME NEW s \in SUBSET S, s # {}
        PROVE  LET x == CHOOSE x \in s : TRUE IN h[s] = q[x].size + h[s \ {x}]
    <3> DEFINE x == CHOOSE x \in s : TRUE
    <3>1. x \in s /\ s \ {x} \in SUBSET S
        BY <2>1
    <3> HIDE DEF x
    <3> DEFINE u == s \ {x}
    <3>4. q[x].size \in Nat /\ IsFiniteSet(Bytes(q, u)) /\ x \notin u /\ s = u \cup {x}
        BY <1>1, <3>1 DEF Sized
    <3>5. h[u] = Cardinality(Bytes(q, u)) /\ h[s] = Cardinality(Bytes(q, s))
        BY <3>1
    <3> HIDE DEF u, h
    <3>2. /\ IsFiniteSet(Bytes(q, s))
          /\ Cardinality(Bytes(q, s)) = q[x].size + Cardinality(Bytes(q, u))
        BY <3>4, BytesOfMore
    <3>3. h[s] = q[x].size + h[s \ {x}]
        BY <3>2, <3>5 DEF u
    <3> QED
        BY <3>3 DEF x
  <2>2. h[{}] = 0
    <3>1. Bytes(q, {}) = {}
        BY DEF Bytes
    <3> QED
        BY <3>1, FS_EmptySet
  <2>3. h = [s \in SUBSET S |-> h[s]]
      OBVIOUS
  <2> HIDE DEF h
  <2>4. h = [s \in SUBSET S |-> IF s = {} THEN 0
                ELSE LET x == CHOOSE x \in s : TRUE IN q[x].size + h[s \ {x}]]
      BY <2>1, <2>2, <2>3
  <2> QED
      BY <2>4
<1> DEFINE g == CHOOSE f : Sum(f)
<1>3. Sum(g)
    BY <1>2
<1>4. SumOf(q, S) = g[S]
    BY DEF SumOf, MapThenSumSet, MapThenFoldSet
<1> DEFINE C == {s \in SUBSET S : g[s] # h[s]}
<1> HIDE DEF g, h
<1>5. C = {}
  <2> SUFFICES ASSUME C # {} PROVE FALSE
      OBVIOUS
  <2>6. C \subseteq SUBSET S
      OBVIOUS
  <2>7. \A s \in SUBSET S : s \in C <=> g[s] # h[s]
      OBVIOUS
  <2> HIDE DEF C
  <2>1. PICK s \in C : \A u \in C : u \subseteq s => u = s
      BY <2>6, Smallest
  <2> DEFINE x == CHOOSE x \in s : TRUE
  <2>2. s # {}
      BY <1>2, <1>3, <2>6, <2>7
  <2>3. x \in s /\ s \ {x} \in SUBSET S /\ s \in SUBSET S
      BY <2>2, <2>6
  <2> HIDE DEF x
  <2>4. g[s \ {x}] = h[s \ {x}]
      BY <2>1, <2>3, <2>7
  <2>5. g[s] = q[x].size + g[s \ {x}] /\ h[s] = q[x].size + h[s \ {x}]
      BY <1>2, <1>3, <2>2, <2>3 DEF x
  <2> QED
      BY <2>3, <2>4, <2>5, <2>7
<1>6. g[S] = h[S]
    BY <1>5
<1> QED
    BY <1>4, <1>6 DEF h

\* What follows for sums: they depend on the sizes only, grow with the set,
\* and grow by the size of a new share.
LEMMA SumSame ==
    ASSUME NEW q, NEW r, NEW S, IsFiniteSet(S), Sized(q, S),
           \A s \in S : r[s].size = q[s].size
    PROVE  SumOf(r, S) = SumOf(q, S)
<1>1. Bytes(r, S) = Bytes(q, S) /\ Sized(r, S)
    BY DEF Bytes, Sized
<1> QED
    BY <1>1, SumIsBytes

LEMMA SumGrows ==
    ASSUME NEW q, NEW S, IsFiniteSet(S), Sized(q, S), NEW T, T \subseteq S
    PROVE  SumOf(q, T) <= SumOf(q, S)
<1>1. IsFiniteSet(T) /\ Sized(q, T)
    BY FS_Subset DEF Sized
<1>2. Bytes(q, T) \subseteq Bytes(q, S) /\ IsFiniteSet(Bytes(q, S))
    BY BytesFinite DEF Bytes
<1>3. Cardinality(Bytes(q, T)) <= Cardinality(Bytes(q, S))
    BY <1>2, FS_Subset
<1> QED
    BY <1>1, <1>3, SumIsBytes

LEMMA SumAdds ==
    ASSUME NEW q, NEW S, IsFiniteSet(S), NEW x, x \notin S, Sized(q, S \cup {x})
    PROVE  SumOf(q, S \cup {x}) = q[x].size + SumOf(q, S)
<1>1. IsFiniteSet(S \cup {x}) /\ Sized(q, S) /\ q[x].size \in Nat
    BY FS_AddElement DEF Sized
<1>2. IsFiniteSet(Bytes(q, S))
    BY <1>1, BytesFinite
<1>3. Cardinality(Bytes(q, S \cup {x})) = q[x].size + Cardinality(Bytes(q, S))
  <2> DEFINE R == S \cup {x}
  <2>1. R = S \cup {x}
      OBVIOUS
  <2> HIDE DEF R
  <2>2. /\ IsFiniteSet(Bytes(q, R))
        /\ Cardinality(Bytes(q, R)) = q[x].size + Cardinality(Bytes(q, S))
      BY <1>1, <1>2, <2>1, BytesOfMore
  <2> QED
      BY <2>2 DEF R
<1> QED
    BY <1>1, <1>3, SumIsBytes

LEMMA SumIsNat ==
    ASSUME NEW q, NEW S, IsFiniteSet(S), Sized(q, S)
    PROVE  SumOf(q, S) \in Nat /\ (S = {} => SumOf(q, S) = 0)
<1>1. IsFiniteSet(Bytes(q, S)) /\ (S = {} => Bytes(q, S) = {})
    BY BytesFinite DEF Bytes
<1> QED
    BY <1>1, SumIsBytes, FS_CardinalityType, FS_EmptySet

-----------------------------------------------------------------------------
(* The quota.                                                              *)

\* The rows of r's client that count against an upload accepted when r was.
Beside(r) ==
    {s \in DOMAIN rows : rows[s].client = r.client /\ rows[s].created + QuotaSpan >= r.created}

Window(c, t) ==
    {s \in DOMAIN rows : rows[s].client = c /\ rows[s].created \in t .. t + QuotaSpan}

RowsSofar == IsFiniteSet(DOMAIN rows) /\ \A s \in DOMAIN rows : rows[s].created <= now

\* The room that was found for the upload in hand is still there: time only
\* frees some, and nothing else is stored meanwhile.
RoomInHand ==
    /\ at = "inspect" => SumOf(rows, Counted(upload.client)) + upload.size <= Quota
    /\ Uploading => /\ upload.row.created <= now
                    /\ SumOf(rows, Beside(upload.row)) + upload.row.size <= Quota

WithinQuota == \A c \in Client, t \in 0 .. now : SumOf(rows, Window(c, t)) <= Quota

QInv == RowsSofar /\ RoomInHand /\ WithinQuota

LEMMA QuotaSums ==
    /\ \A c : Used(c) = SumOf(rows, Counted(c))
    /\ WithinQuota => QuotaHolds
<1>1. \A c : Used(c) = SumOf(rows, Counted(c))
    BY Zenon DEF Used, SumOf
<1>2. ASSUME WithinQuota PROVE QuotaHolds
    BY <1>2, Zenon DEF WithinQuota, QuotaHolds, SumOf, Window
<1> QED
    BY <1>1, <1>2

LEMMA Spans == QuotaSpan \in Nat /\ Quota \in Nat /\ Size \subseteq Nat
BY ShareAssumption

\* A row's time and size are numbers.
LEMMA RowFields ==
    ASSUME LInv
    PROVE  /\ now \in Nat
           /\ \A s \in DOMAIN rows : rows[s].size \in Nat /\ rows[s].created \in Nat
           /\ Uploading => upload.row.size \in Nat /\ upload.row.created \in Nat
BY Spans DEF LInv, RowsTyped, RecordTyped, Row

\* A part of the rows has a sum.
LEMMA SumOfRows ==
    ASSUME LInv, RowsSofar, NEW S, S \subseteq DOMAIN rows
    PROVE  /\ IsFiniteSet(S) /\ Sized(rows, S) /\ SumOf(rows, S) \in Nat
           /\ \A T : T \subseteq S => SumOf(rows, T) <= SumOf(rows, S)
<1>1. IsFiniteSet(S) /\ Sized(rows, S)
    BY RowFields, FS_Subset DEF RowsSofar, Sized
<1> QED
    BY <1>1, SumIsNat, SumGrows

LEMMA InitQInv == Init => QInv
<1> SUFFICES ASSUME Init PROVE QInv
    OBVIOUS
<1>1. DOMAIN rows = {} /\ IsFiniteSet({})
    BY FS_EmptySet DEF Init
<1>2. ASSUME NEW c \in Client, NEW t \in 0 .. now PROVE SumOf(rows, Window(c, t)) <= Quota
  <2>1. Window(c, t) = {} /\ Sized(rows, {})
      BY <1>1 DEF Window, Sized
  <2>2. SumOf(rows, {}) = 0
      BY <1>1, <2>1, SumIsNat
  <2> QED
      BY <2>1, <2>2, Spans
<1> QED
    BY <1>1, <1>2 DEF Init, QInv, RowsSofar, RoomInHand, WithinQuota

\* Steps that insert no row and take no time: the rows keep client, size and
\* time.
LEMMA RowsStay ==
    ASSUME LInv, QInv, DOMAIN rows' = DOMAIN rows, now' = now,
           \A s \in DOMAIN rows : /\ rows'[s].client = rows[s].client
                                  /\ rows'[s].size = rows[s].size
                                  /\ rows'[s].created = rows[s].created
    PROVE  /\ RowsSofar' /\ WithinQuota'
           /\ \A c : Counted(c)' = Counted(c) /\ SumOf(rows', Counted(c)) = SumOf(rows, Counted(c))
           /\ \A r : Beside(r)' = Beside(r) /\ SumOf(rows', Beside(r)) = SumOf(rows, Beside(r))
<1>1. RowsSofar'
    BY DEF QInv, RowsSofar
<1>2. \A S : S \subseteq DOMAIN rows => SumOf(rows', S) = SumOf(rows, S)
  <2> SUFFICES ASSUME NEW S, S \subseteq DOMAIN rows PROVE SumOf(rows', S) = SumOf(rows, S)
      OBVIOUS
  <2>1. IsFiniteSet(S) /\ Sized(rows, S)
      BY SumOfRows DEF QInv
  <2> QED
      BY <2>1, SumSame
<1>3. \A c, t : Window(c, t)' = Window(c, t) /\ Window(c, t) \subseteq DOMAIN rows
    BY DEF Window
<1>4. WithinQuota'
    BY <1>2, <1>3 DEF QInv, WithinQuota
<1>5. \A c : Counted(c)' = Counted(c) /\ Counted(c) \subseteq DOMAIN rows
    BY DEF Counted
<1>6. \A r : Beside(r)' = Beside(r) /\ Beside(r) \subseteq DOMAIN rows
    BY DEF Beside
<1> QED
    BY <1>1, <1>2, <1>4, <1>5, <1>6

\* The clock: less counts against an upload, and no row lies in a later window.
LEMMA TimePasses ==
    ASSUME LInv, QInv, Tick
    PROVE  QInv'
<1>1. /\ now \in Nat /\ now' = now + 1
      /\ UNCHANGED <<rows, at, upload>>
    BY DEF Tick, LInv, RecordTyped
<1>2. RowsSofar'
    BY <1>1, RowFields DEF QInv, RowsSofar
<1>3. ASSUME NEW c PROVE SumOf(rows, Counted(c)') <= SumOf(rows, Counted(c))
  <2>1. Counted(c)' \subseteq Counted(c)
      BY <1>1, RowFields, Spans DEF Counted
  <2>2. Counted(c) \subseteq DOMAIN rows
      BY DEF Counted
  <2> QED
      BY <2>1, <2>2, SumOfRows DEF QInv
<1>4. ASSUME NEW c PROVE SumOf(rows, Counted(c)) \in Nat /\ SumOf(rows, Counted(c)') \in Nat
  <2>1. Counted(c) \subseteq DOMAIN rows /\ Counted(c)' \subseteq DOMAIN rows
      BY <1>1 DEF Counted
  <2> QED
      BY <2>1, SumOfRows DEF QInv
<1>5. ASSUME at = "inspect", NEW c, c = upload.client
      PROVE  SumOf(rows, Counted(c)') + upload.size <= Quota
  <2> DEFINE a == SumOf(rows, Counted(c)')
             b == SumOf(rows, Counted(c))
             n == upload.size
  <2>1. a \in Nat /\ b \in Nat /\ a <= b
      BY <1>3, <1>4
  <2>2. n \in Nat /\ b + n <= Quota
      BY <1>5, Spans DEF LInv, RecordTyped, QInv, RoomInHand
  <2> HIDE DEF a, b, n
  <2>3. a + n <= Quota
      BY <2>1, <2>2, Spans
  <2> QED
      BY <2>3 DEF a, n
<1>6. Uploading => /\ upload.row.created <= now'
                   /\ SumOf(rows, Beside(upload.row)) + upload.row.size <= Quota
    BY <1>1, RowFields DEF QInv, RoomInHand
<1>7. RoomInHand'
    BY <1>1, <1>5, <1>6 DEF RoomInHand, Beside, Counted
<1>8. ASSUME NEW c \in Client, NEW t \in 0 .. now' PROVE SumOf(rows, Window(c, t)) <= Quota
  <2>1. CASE t \in 0 .. now
      BY <2>1 DEF QInv, WithinQuota
  <2>2. CASE t = now + 1
    <3>1. Window(c, t) = {}
        BY <1>1, <2>2, RowFields DEF Window, QInv, RowsSofar
    <3>2. SumOf(rows, {}) = 0
        BY FS_EmptySet, SumIsNat DEF Sized
    <3> QED
        BY <3>1, <3>2, Spans
  <2> QED
      BY <1>1, <2>1, <2>2
<1>9. WithinQuota'
    BY <1>1, <1>8 DEF WithinQuota, Window
<1> QED
    BY <1>2, <1>7, <1>9 DEF QInv

\* The new row: a window that it falls into holds, beside it, only rows that
\* were counted against it.
LEMMA RowComes ==
    ASSUME LInv, QInv, at = "insert", rows' = Inserted, now' = now, at' = "idle"
    PROVE  QInv'
<1> DEFINE x == upload.share
           r == upload.row
           B == Beside(r)
<1>1. /\ x \notin DOMAIN rows /\ r.size \in Nat /\ r.created \in Nat /\ now \in Nat
      /\ r.created <= now /\ SumOf(rows, B) + r.size <= Quota
    BY RowFields DEF LInv, UploadInHand, QInv, RoomInHand
<1>2. /\ DOMAIN rows' = DOMAIN rows \cup {x} /\ rows'[x] = r
      /\ \A s \in DOMAIN rows : rows'[s] = rows[s]
    BY <1>1 DEF Inserted
<1>3. B \subseteq DOMAIN rows
    BY DEF Beside
<1> HIDE DEF x, r, B
<1>4. RowsSofar'
    BY <1>1, <1>2, FS_AddElement DEF QInv, RowsSofar
<1>5. RoomInHand'
    BY DEF RoomInHand
<1>6. \A S : S \subseteq DOMAIN rows => SumOf(rows', S) = SumOf(rows, S)
  <2> SUFFICES ASSUME NEW S, S \subseteq DOMAIN rows PROVE SumOf(rows', S) = SumOf(rows, S)
      OBVIOUS
  <2>1. IsFiniteSet(S) /\ Sized(rows, S)
      BY SumOfRows DEF QInv
  <2> QED
      BY <1>2, <2>1, SumSame
<1>7. IsFiniteSet(B) /\ IsFiniteSet(B \cup {x}) /\ Sized(rows', B \cup {x}) /\ x \notin B
  <2>1. IsFiniteSet(B) /\ Sized(rows, B)
      BY <1>3, SumOfRows DEF QInv
  <2> QED
      BY <1>1, <1>2, <1>3, <2>1, FS_AddElement DEF Sized
<1>8. SumOf(rows', B \cup {x}) <= Quota
  <2>1. SumOf(rows', B \cup {x}) = rows'[x].size + SumOf(rows', B)
      BY <1>7, SumAdds
  <2>2. SumOf(rows, B) \in Nat
      BY <1>3, SumOfRows DEF QInv
  <2> QED
      BY <1>1, <1>2, <1>3, <1>6, <2>1, <2>2
<1>9. ASSUME NEW c \in Client, NEW t \in 0 .. now
      PROVE  SumOf(rows', Window(c, t)') <= Quota
  <2>1. CASE x \notin Window(c, t)'
    <3>1. Window(c, t)' = Window(c, t) /\ Window(c, t) \subseteq DOMAIN rows
        BY <1>2, <2>1 DEF Window
    <3> QED
        BY <1>6, <3>1 DEF QInv, WithinQuota
  <2>2. CASE x \in Window(c, t)'
    <3>1. r.client = c /\ r.created \in t .. t + QuotaSpan
        BY <1>2, <2>2 DEF Window
    <3>2. Window(c, t)' \subseteq B \cup {x}
      <4> SUFFICES ASSUME NEW s \in Window(c, t)', s # x PROVE s \in B
          OBVIOUS
      <4>1. s \in DOMAIN rows /\ rows[s].client = c /\ rows[s].created \in t .. t + QuotaSpan
          BY <1>2 DEF Window
      <4>2. rows[s].created \in Nat
          BY <4>1, RowFields
      <4>3. rows[s].created + QuotaSpan >= r.created
          BY <1>1, <3>1, <4>1, <4>2, Spans
      <4> QED
          BY <3>1, <4>1, <4>3 DEF B, Beside
    <3>3. SumOf(rows', Window(c, t)') <= SumOf(rows', B \cup {x})
        BY <1>7, <3>2, SumGrows
    <3>4. /\ SumOf(rows', B \cup {x}) \in Nat
          /\ SumOf(rows', Window(c, t)') \in Nat
      <4>1. IsFiniteSet(Window(c, t)') /\ Sized(rows', Window(c, t)')
          BY <1>7, <3>2, FS_Subset DEF Sized
      <4> QED
          BY <1>7, <4>1, SumIsNat
    <3> QED
        BY <1>8, <3>3, <3>4, Spans
  <2> QED
      BY <2>1, <2>2
<1>10. WithinQuota'
    BY <1>9 DEF WithinQuota
<1> QED
    BY <1>4, <1>5, <1>10 DEF QInv

LEMMA NextQInv == LInv /\ QInv /\ [Next]_vars => QInv'
<1> SUFFICES ASSUME LInv, QInv, [Next]_vars PROVE QInv'
    OBVIOUS
<1>0. ASSUME DOMAIN rows' = DOMAIN rows, now' = now,
             \A s \in DOMAIN rows : /\ rows'[s].client = rows[s].client
                                    /\ rows'[s].size = rows[s].size
                                    /\ rows'[s].created = rows[s].created,
             at' \in {"inspect", "put", "write", "insert"} => RoomInHand'
      PROVE  QInv'
    BY <1>0, RowsStay DEF QInv, RoomInHand
<1>m. /\ DOMAIN Marked = DOMAIN rows
      /\ \A s \in DOMAIN rows : /\ Marked[s].client = rows[s].client
                                /\ Marked[s].size = rows[s].size
                                /\ Marked[s].created = rows[s].created
  <2>1. ASSUME NEW s \in DOMAIN rows
        PROVE  /\ Marked[s].client = rows[s].client
               /\ Marked[s].size = rows[s].size
               /\ Marked[s].created = rows[s].created
    <3>1. rows[s] \in Row
        BY DEF LInv, RowsTyped
    <3> QED
        BY <3>1 DEF Marked, Row
  <2> QED
      BY <2>1 DEF Marked
<1>1. ASSUME NEW c \in Client, NEW n \in Size, NEW d \in Lifetime, BeginUpload(c, n, d)
      PROVE QInv'
  <2>1. /\ rows' = rows /\ now' = now /\ at' = "inspect"
        /\ upload'.client = c /\ upload'.size = n
        /\ SumOf(rows, Counted(c)) + n <= Quota
      BY <1>1, QuotaSums DEF BeginUpload
  <2>2. Counted(c)' = Counted(c)
      BY <2>1 DEF Counted
  <2>3. RoomInHand'
      BY <2>1, <2>2 DEF RoomInHand
  <2> QED
      BY <1>0, <2>1, <2>3
<1>2. ASSUME NEW c \in Client, RefuseUpload(c) PROVE QInv'
    BY <1>0, <1>2 DEF RefuseUpload, Idle
<1>3. ASSUME NEW s \in Share, Accept(s) PROVE QInv'
  <2>1. /\ rows' = rows /\ now' = now /\ at' = "put" /\ at = "inspect"
        /\ upload'.row.client = upload.client /\ upload'.row.size = upload.size
        /\ upload'.row.created = now
      BY <1>3 DEF Accept
  <2>2. ASSUME NEW r, r = upload'.row PROVE Beside(r)' = Counted(upload.client)
      BY <2>1, <2>2 DEF Beside, Counted
  <2>3. now <= now
      BY DEF LInv, RecordTyped
  <2>5. PICK r : r = upload'.row
      OBVIOUS
  <2>6. SumOf(rows, Beside(r)') + upload.size <= Quota
      BY <2>1, <2>2, <2>5 DEF RoomInHand, QInv
  <2>4. RoomInHand'
      BY <2>1, <2>3, <2>5, <2>6 DEF RoomInHand, Beside
  <2> QED
      BY <1>0, <2>1, <2>4
<1>4. ASSUME NEW s \in Share, ExpireLink(s) PROVE QInv'
    BY <1>0, <1>4, <1>m DEF ExpireLink
<1>5. ASSUME NEW s \in Share, PruneObject(s) PROVE QInv'
    BY <1>0, <1>5 DEF PruneObject
<1>6. CASE Reject
    BY <1>0, <1>6 DEF Reject, Done
<1>7. CASE OpenObject \/ WriteObject
  <2>1. /\ rows' = rows /\ now' = now
        /\ \/ at' = "idle"
           \/ Uploading /\ Uploading' /\ at' # "inspect" /\ upload' = upload
      BY <1>7 DEF OpenObject, WriteObject, Done
  <2>2. CASE at' = "idle"
      BY <1>0, <2>1, <2>2
  <2>3. CASE Uploading /\ Uploading' /\ at' # "inspect" /\ upload' = upload
    <3>1. RoomInHand'
        BY <2>1, <2>3 DEF RoomInHand, QInv, Beside
    <3> QED
        BY <1>0, <2>1, <3>1
  <2> QED
      BY <2>1, <2>2, <2>3
<1>8. CASE InsertRow
  <2>1. at = "insert" /\ at' = "idle" /\ now' = now /\ (rows' = Inserted \/ rows' = rows)
      BY <1>8 DEF InsertRow, Done
  <2>2. CASE rows' = Inserted
      BY <2>1, <2>2, RowComes
  <2>3. CASE rows' = rows
      BY <1>0, <2>1, <2>3
  <2> QED
      BY <2>1, <2>2, <2>3
<1>9. CASE DeleteObject
    BY <1>0, <1>9 DEF DeleteObject, Done
<1>10. CASE Boot \/ UNCHANGED vars
  <2>1. rows' = rows /\ now' = now /\ at' = at /\ upload' = upload
      BY <1>10 DEF Boot, vars
  <2>2. RoomInHand'
      BY <2>1 DEF RoomInHand, QInv, Beside, Counted
  <2> QED
      BY <1>0, <2>1, <2>2
<1>11. CASE BeginPrune
    BY <1>0, <1>11, <1>m DEF BeginPrune
<1>12. CASE EndPrune
    BY <1>0, <1>12 DEF EndPrune, Done
<1>13. CASE Crash
    BY <1>0, <1>13 DEF Crash, Done
<1>14. CASE Tick
    BY <1>14, TimePasses
<1> QED
    BY <1>1, <1>2, <1>3, <1>4, <1>5, <1>6, <1>7, <1>8, <1>9, <1>10, <1>11, <1>12,
       <1>13, <1>14 DEF Next

\* What a client has stored within any 30 days stays within its quota, for any
\* number of shares, sizes and spans: the quota is checked over the 30 days that
\* end with the check, and a row falls into no later window together with one
\* that was not counted then.
THEOREM QuotaIsKept == Spec => []QuotaHolds
<1>1. QInv => QuotaHolds
    BY QuotaSums DEF QInv
<1> QED
    BY <1>1, InitLInv, NextLInv, InitQInv, NextQInv, PTL DEF Spec
=============================================================================
