-------------------------- MODULE FormalSplitsProofs --------------------------
(***************************************************************************)
(* Proofs about FormalSplits, for every source of rows, every shuffle and  *)
(* every size of the drawn sets.                                           *)
(***************************************************************************)
EXTENDS FormalSplits, FiniteSetTheorems, WellFoundedInduction, TLAPS

USE SizeAssumption, SourceAssumption

Held(name) == RowsOf(file[name].rows)

LEMMA RowsOfStripped ==
  ASSUME NEW rows \in SUBSET Row
  PROVE  /\ Stripped(rows) \in SUBSET Identity
         /\ RowsOf(Stripped(rows)) = rows
<1>1. \A r \in rows : StrippedIdentity(r) \in Stripped(rows)
  BY DEF Stripped
<1>2. \A r \in rows : StrippedIdentity(r) \in Identity /\ StrippedIdentity(r).row = r
  BY DEF StrippedIdentity, Identity
<1>3. \A i \in Stripped(rows) : i \in Identity /\ i.row \in rows
  BY <1>2 DEF Stripped
<1>4. \A r \in rows : r \in RowsOf(Stripped(rows))
  BY <1>1, <1>2 DEF RowsOf
<1>5. RowsOf(Stripped(rows)) \subseteq rows
  BY <1>3 DEF RowsOf
<1>6. QED
  BY <1>3, <1>4, <1>5

LEMMA RowsOfRaw ==
  ASSUME NEW rows \in SUBSET Row
  PROVE  /\ Raw(rows) \in SUBSET Identity
         /\ RowsOf(Raw(rows)) = rows
<1>1. \A r \in rows : RawIdentity(r) \in Raw(rows)
  BY DEF Raw
<1>2. \A r \in rows : RawIdentity(r) \in Identity /\ RawIdentity(r).row = r
  BY DEF RawIdentity, Identity
<1>3. \A i \in Raw(rows) : i \in Identity /\ i.row \in rows
  BY <1>2 DEF Raw
<1>4. \A r \in rows : r \in RowsOf(Raw(rows))
  BY <1>1, <1>2 DEF RowsOf
<1>5. RowsOf(Raw(rows)) \subseteq rows
  BY <1>3 DEF RowsOf
<1>6. QED
  BY <1>3, <1>4, <1>5

\* A killed write leaves no other rows than it was writing.
LEMMA PrefixHoldsNoMore ==
  ASSUME NEW ids \in SUBSET Identity, NEW rank, NEW left \in Prefixes(ids, rank)
  PROVE  left \in File /\ RowsOf(left.rows) \subseteq RowsOf(ids)
<1>1. PICK n \in 0 .. NumRows + 1, b \in BOOLEAN :
        left = [present |-> TRUE, rows |-> {i \in ids : rank[i.row] < n}, broken |-> b]
  BY DEF Prefixes
<1>2. left.rows \subseteq ids /\ left \in File
  BY <1>1 DEF File
<1>3. QED
  BY <1>2 DEF RowsOf

LEMMA RowsFinite ==
  ASSUME NEW rows \in SUBSET Row
  PROVE  IsFiniteSet(rows) /\ Cardinality(rows) \in Nat
<1>1. IsFiniteSet(Row)
  BY FS_Interval DEF Row
<1>2. QED
  BY <1>1, FS_Subset, FS_CardinalityType

LEMMA SameSizeSubset ==
  ASSUME NEW S \in SUBSET Row, NEW T \in SUBSET S, Cardinality(S) <= Cardinality(T)
  PROVE  S = T
<1>1. IsFiniteSet(S) /\ Cardinality(S) \in Nat /\ Cardinality(T) \in Nat
  BY RowsFinite
<1>2. Cardinality(T) <= Cardinality(S) /\ (Cardinality(S) = Cardinality(T) => S = T)
  BY <1>1, FS_Subset
<1>3. QED
  BY <1>1, <1>2

LEMMA KeysFinite ==
  ASSUME NEW a \in SUBSET Row, NEW b \in SUBSET Row
  PROVE  Cardinality(Keys(a) \cap Keys(b)) \in Nat
<1> DEFINE f == [r \in a |-> Key(r)]
<1>1. f \in Surjection(a, Keys(a))
  BY DEF Surjection, Keys
<1>2. IsFiniteSet(a)
  BY RowsFinite
<1>3. IsFiniteSet(Keys(a))
  BY <1>1, <1>2, FS_Surjection
<1>4. IsFiniteSet(Keys(a) \cap Keys(b))
  BY <1>3, FS_Intersection
<1>5. QED
  BY <1>4, FS_CardinalityType

LEMMA SharedType ==
  ASSUME NEW a \in SUBSET Row, NEW b \in SUBSET Row, NEW c \in SUBSET Row
  PROVE  Shared(a, b, c) \in Nat
  BY KeysFinite DEF Shared

\* The place of a row in the round robin is a natural number.
LEMMA RankType ==
  ASSUME NEW pool \in SUBSET Row, NEW order
  PROVE  RankIn(order, pool) \in [Row -> Nat]
<1>1. \A r \in Row : Earlier(order, pool, r) \in SUBSET Row
  BY DEF Earlier
<1>2. \A r \in Row : Cardinality(Earlier(order, pool, r)) \in Nat
  BY <1>1, RowsFinite
<1>3. QED
  BY <1>2 DEF RankIn
-----------------------------------------------------------------------------
(***************************************************************************)
(* The draw.  A shuffle numbers the rows of a pool without repetition, and *)
(* the round robin turns that into the places 0, 1, 2, ... of the pool.    *)
(***************************************************************************)
Numbers(order, pool) ==
  /\ order \in [pool -> Nat]
  /\ \A r, s \in pool : order[r] = order[s] => r = s

\* Of two rows of a database the one shuffled further back comes in a later round.
LEMMA RoundGrows ==
  ASSUME NEW pool \in SUBSET Row, NEW order, Numbers(order, pool),
         NEW r \in pool, NEW s \in pool, DbOf[r] = DbOf[s], order[r] < order[s]
  PROVE  RoundOf(order, pool, r) < RoundOf(order, pool, s)
<1> DEFINE A == {t \in pool : DbOf[t] = DbOf[r] /\ order[t] < order[r]}
           B == {t \in pool : DbOf[t] = DbOf[s] /\ order[t] < order[s]}
<1>1. A \in SUBSET B /\ r \in B /\ r \notin A /\ B \in SUBSET Row
  BY DEF Numbers
<1>2. IsFiniteSet(B) /\ Cardinality(B) \in Nat /\ Cardinality(A) \in Nat
  BY <1>1, RowsFinite
<1> HIDE DEF A, B
<1>3. Cardinality(A) <= Cardinality(B) /\ Cardinality(A) # Cardinality(B)
  BY <1>1, <1>2, FS_Subset
<1>4. Cardinality(A) < Cardinality(B)
  BY <1>2, <1>3
<1>5. QED
  BY <1>4 DEF RoundOf, A, B

LEMMA RoundType ==
  ASSUME NEW pool \in SUBSET Row, NEW order, NEW r
  PROVE  RoundOf(order, pool, r) \in Nat
<1>1. {t \in pool : DbOf[t] = DbOf[r] /\ order[t] < order[r]} \in SUBSET Row
  OBVIOUS
<1>2. QED
  BY <1>1, RowsFinite DEF RoundOf

\* Two rows of a pool are never drawn at the same moment.
LEMMA OneIsEarlier ==
  ASSUME NEW pool \in SUBSET Row, NEW order, Numbers(order, pool),
         NEW r \in pool, NEW s \in pool, r # s
  PROVE  r \in Earlier(order, pool, s) \/ s \in Earlier(order, pool, r)
<1>1. RoundOf(order, pool, r) \in Nat /\ RoundOf(order, pool, s) \in Nat
  BY RoundType
<1>2. DbOf[r] \in Nat /\ DbOf[s] \in Nat /\ order[r] \in Nat /\ order[s] \in Nat
  BY DEF Numbers
<1>3. order[r] < order[s] \/ order[s] < order[r]
  BY <1>2 DEF Numbers
<1>4. DbOf[r] = DbOf[s] => RoundOf(order, pool, r) # RoundOf(order, pool, s)
  BY <1>1, <1>3, RoundGrows
<1>5. QED
  BY <1>1, <1>2, <1>4 DEF Earlier

LEMMA RankGrows ==
  ASSUME NEW pool \in SUBSET Row, NEW order, Numbers(order, pool),
         NEW s \in pool, NEW r \in Earlier(order, pool, s)
  PROVE  RankIn(order, pool)[r] < RankIn(order, pool)[s]
<1> DEFINE A == Earlier(order, pool, r)
           B == Earlier(order, pool, s)
<1>1. \A t \in pool : RoundOf(order, pool, t) \in Nat /\ DbOf[t] \in Nat
  BY RoundType
<1>2. A \in SUBSET B /\ r \notin A /\ r \in pool /\ B \in SUBSET Row
  BY <1>1 DEF Earlier
<1>3. IsFiniteSet(B) /\ Cardinality(B) \in Nat /\ Cardinality(A) \in Nat
  BY <1>2, RowsFinite
<1> HIDE DEF A, B
<1>4. Cardinality(A) <= Cardinality(B) /\ Cardinality(A) # Cardinality(B)
  BY <1>2, <1>3, FS_Subset DEF B
<1>5. RankIn(order, pool)[r] = Cardinality(A) /\ RankIn(order, pool)[s] = Cardinality(B)
  BY <1>2 DEF RankIn, A, B
<1>6. QED
  BY <1>3, <1>4, <1>5

\* The places of a pool are 0, 1, ..., one for each row.
LEMMA RankIsPlace ==
  ASSUME NEW pool \in SUBSET Row, NEW order, Numbers(order, pool)
  PROVE  LET rank == RankIn(order, pool)
             top  == Cardinality(pool) - 1 IN
         /\ \A r \in pool : rank[r] \in 0 .. top
         /\ \A r, s \in pool : rank[r] = rank[s] => r = s
         /\ \A k \in 0 .. top : \E r \in pool : rank[r] = k
<1> DEFINE rank == RankIn(order, pool)
           top  == Cardinality(pool) - 1
           f == [r \in pool |-> rank[r]]
<1>1. IsFiniteSet(pool) /\ Cardinality(pool) \in Nat
  BY RowsFinite
<1>2. \A r \in pool : rank[r] \in 0 .. top
  <2> SUFFICES ASSUME NEW r \in pool PROVE rank[r] \in 0 .. top
    OBVIOUS
  <2>1. RoundOf(order, pool, r) \in Nat /\ DbOf[r] \in Nat
    BY RoundType
  <2>2. Earlier(order, pool, r) \in SUBSET pool /\ r \notin Earlier(order, pool, r)
    BY <2>1 DEF Earlier
  <2>3. Cardinality(Earlier(order, pool, r)) \in Nat
    BY <2>2, RowsFinite
  <2>4. /\ Cardinality(Earlier(order, pool, r)) <= Cardinality(pool)
        /\ Cardinality(Earlier(order, pool, r)) # Cardinality(pool)
    BY <1>1, <2>2, FS_Subset
  <2>5. rank[r] = Cardinality(Earlier(order, pool, r))
    BY DEF RankIn
  <2> HIDE DEF rank
  <2>6. QED
    BY <1>1, <2>3, <2>4, <2>5
<1>3. \A r, s \in pool : rank[r] = rank[s] => r = s
  <2> SUFFICES ASSUME NEW r \in pool, NEW s \in pool, r # s PROVE rank[r] # rank[s]
    OBVIOUS
  <2>1. rank[r] < rank[s] \/ rank[s] < rank[r]
    BY OneIsEarlier, RankGrows
  <2>2. rank[r] \in Int /\ rank[s] \in Int
    BY <1>2
  <2> HIDE DEF rank
  <2>3. QED
    BY <2>1, <2>2
<1> HIDE DEF rank
<1>4. f \in Injection(pool, 0 .. top)
  BY <1>2, <1>3 DEF Injection, IsInjective
<1>5. IsFiniteSet(0 .. top) /\ Cardinality(0 .. top) = Cardinality(pool)
  <2>1. 0 \in Int /\ top \in Int /\ (0 > top <=> Cardinality(pool) = 0)
    BY <1>1
  <2>2. Cardinality(0 .. top) = IF 0 > top THEN 0 ELSE top - 0 + 1
    BY <2>1, FS_Interval
  <2>3. QED
    BY <1>1, <2>1, <2>2, FS_Interval
<1>6. f \in Surjection(pool, 0 .. top)
  BY <1>4, <1>5, FS_Injection
<1>7. \A k \in 0 .. top : \E r \in pool : rank[r] = k
  BY <1>6 DEF Surjection
<1>8. QED
  BY <1>2, <1>3, <1>7 DEF rank

\* A draw takes as many rows as it is asked for, when the pool has that many.
LEMMA DrawHasSize ==
  ASSUME NEW pool \in SUBSET Row, NEW order, Numbers(order, pool),
         NEW n \in Nat, n <= Cardinality(pool)
  PROVE  Cardinality(First(RankIn(order, pool), pool, n)) = n
<1> DEFINE rank == RankIn(order, pool)
           won  == First(rank, pool, n)
           f    == [r \in won |-> rank[r]]
<1>1. /\ \A r \in pool : rank[r] \in 0 .. Cardinality(pool) - 1
      /\ \A r, s \in pool : rank[r] = rank[s] => r = s
      /\ \A k \in 0 .. Cardinality(pool) - 1 : \E r \in pool : rank[r] = k
  BY RankIsPlace
<1> HIDE DEF rank
<1>2. Cardinality(pool) \in Nat
  BY RowsFinite
<1>3. won \in SUBSET pool /\ \A r \in pool : r \in won <=> rank[r] < n
  BY DEF First
<1>4. IsFiniteSet(won)
  BY <1>3, RowsFinite
<1> HIDE DEF won
<1>5. f \in [won -> 0 .. n - 1]
  BY <1>1, <1>2, <1>3
<1>6. \A r, s \in won : f[r] = f[s] => r = s
  BY <1>1, <1>3
<1>7. \A k \in 0 .. n - 1 : \E r \in won : f[r] = k
  <2> SUFFICES ASSUME NEW k \in 0 .. n - 1 PROVE \E r \in won : f[r] = k
    OBVIOUS
  <2>1. k \in 0 .. Cardinality(pool) - 1 /\ k < n
    BY <1>2
  <2>2. PICK r \in pool : rank[r] = k
    BY <1>1, <2>1
  <2>3. QED
    BY <1>3, <2>1, <2>2
<1>8. f \in Injection(won, 0 .. n - 1) /\ f \in Surjection(won, 0 .. n - 1)
  BY <1>5, <1>6, <1>7 DEF Injection, IsInjective, Surjection
<1>9. Cardinality(0 .. n - 1) = n
  <2>1. Cardinality(0 .. n - 1) = IF 0 > n - 1 THEN 0 ELSE n - 1 - 0 + 1
    BY FS_Interval
  <2>2. QED
    BY <2>1
<1>10. Cardinality(0 .. n - 1) = Cardinality(won)
  BY <1>4, <1>8, FS_Surjection
<1>11. QED
  BY <1>9, <1>10 DEF won, rank

\* Of the rows left over there is one that was shuffled before the others.
LEMMA FirstInOrder ==
  ASSUME NEW pool \in SUBSET Row, NEW order, Numbers(order, pool),
         NEW rows \in SUBSET pool, rows # {}
  PROVE  \E t \in rows : \A u \in rows : order[t] <= order[u]
<1> DEFINE T == {order[u] : u \in rows}
<1>1. T \in SUBSET Nat /\ T # {}
  BY DEF Numbers
<1> HIDE DEF T
<1>2. PICK k \in T : \A m \in T : ~(<<m, k>> \in OpToRel(<, Nat))
  BY <1>1, NatLessThanWellFounded, WFMin
<1>3. \A m \in T : ~(m < k)
  BY <1>1, <1>2 DEF OpToRel
<1>4. \A m \in T : k <= m
  BY <1>1, <1>3
<1>5. QED
  BY <1>4 DEF T

\* Whatever is drawn, no database is more than one row ahead of one with rows left.
LEMMA DrawIsEven ==
  ASSUME NEW pool \in SUBSET Row, NEW order, Numbers(order, pool), NEW n \in Nat
  PROVE  LET won == First(RankIn(order, pool), pool, n) IN Even(won, pool \ won)
<1> DEFINE rank == RankIn(order, pool)
           won  == First(rank, pool, n)
           round(t) == RoundOf(order, pool, t)
<1>1. won \in SUBSET pool
  BY DEF First
<1>2. \A r \in won, s \in pool \ won : r \in Earlier(order, pool, s)
  <2> SUFFICES ASSUME NEW r \in won, NEW s \in pool \ won, r \notin Earlier(order, pool, s)
               PROVE FALSE
    OBVIOUS
  <2>1. s \in Earlier(order, pool, r) /\ r \in pool
    BY <1>1, OneIsEarlier
  <2>2. rank[s] < rank[r]
    BY <2>1, RankGrows
  <2>3. rank[r] < n /\ ~(rank[s] < n)
    BY DEF First
  <2>4. rank[r] \in Nat /\ rank[s] \in Nat
    BY <2>1, RankType
  <2> HIDE DEF rank
  <2>5. QED
    BY <2>2, <2>3, <2>4
<1>3. \A t \in pool : round(t) \in Nat
  BY RoundType
<1> HIDE DEF won
<1> SUFFICES ASSUME NEW r \in won, NEW s \in pool \ won
             PROVE  OfDatabase(won, r) <= OfDatabase(won, s) + 1
  BY DEF Even, won
<1> DEFINE left == {t \in pool \ won : DbOf[t] = DbOf[s]}
<1>4. PICK s1 \in left : \A u \in left : order[s1] <= order[u]
  <2>1. left \in SUBSET pool /\ s \in left
    OBVIOUS
  <2>2. QED
    BY <2>1, FirstInOrder
<1>5. s1 \in pool /\ s1 \notin won /\ DbOf[s1] = DbOf[s] /\ round(s1) \in Nat
  BY <1>3, <1>4
\* The rows of its database before the first one left are all drawn.
<1>6. round(s1) <= OfDatabase(won, s)
  <2> DEFINE A == {t \in pool : DbOf[t] = DbOf[s1] /\ order[t] < order[s1]}
             B == {t \in won : DbOf[t] = DbOf[s]}
  <2>1. A \in SUBSET B
    <3> SUFFICES ASSUME NEW t \in A PROVE t \in B
      OBVIOUS
    <3>1. order[t] \in Nat /\ order[s1] \in Nat
      BY <1>5 DEF Numbers
    <3>2. t \notin left
      BY <1>4, <3>1
    <3>3. QED
      BY <1>5, <3>2
  <2>2. IsFiniteSet(B)
    BY <1>1, RowsFinite
  <2>3. Cardinality(A) <= Cardinality(B)
    BY <2>1, <2>2, FS_Subset
  <2>4. QED
    BY <2>3 DEF RoundOf, OfDatabase
\* The drawn rows of the other database come in different rounds, none after its own.
<1>7. OfDatabase(won, r) <= round(s1) + 1
  <2> DEFINE C == {t \in won : DbOf[t] = DbOf[r]}
             f == [t \in C |-> round(t)]
  <2>1. \A t \in C : round(t) \in 0 .. round(s1)
    <3> SUFFICES ASSUME NEW t \in C PROVE round(t) \in 0 .. round(s1)
      OBVIOUS
    <3>1. t \in Earlier(order, pool, s1)
      BY <1>2, <1>5
    <3>2. round(t) <= round(s1)
      BY <1>1, <1>3, <1>5, <3>1 DEF Earlier
    <3> HIDE DEF round
    <3>3. QED
      BY <1>1, <1>3, <1>5, <3>2
  <2>2. \A t, u \in C : round(t) = round(u) => t = u
    <3> SUFFICES ASSUME NEW t \in C, NEW u \in C, t # u PROVE round(t) # round(u)
      OBVIOUS
    <3>1. t \in pool /\ u \in pool /\ DbOf[t] = DbOf[u]
      BY <1>1
    <3>2. order[t] < order[u] \/ order[u] < order[t]
      BY <3>1 DEF Numbers
    <3>3. round(t) < round(u) \/ round(u) < round(t)
      BY <3>1, <3>2, RoundGrows
    <3>4. round(t) \in Nat /\ round(u) \in Nat
      BY <1>3, <3>1
    <3> HIDE DEF round
    <3>5. QED
      BY <3>3, <3>4
  <2> HIDE DEF round, C
  <2>3. f \in Injection(C, 0 .. round(s1))
    BY <2>1, <2>2 DEF Injection, IsInjective
  <2>4. IsFiniteSet(0 .. round(s1)) /\ Cardinality(0 .. round(s1)) = round(s1) + 1
    <3>1. Cardinality(0 .. round(s1)) = IF 0 > round(s1) THEN 0 ELSE round(s1) - 0 + 1
      BY <1>5, FS_Interval
    <3>2. QED
      BY <1>5, <3>1, FS_Interval
  <2>5. Cardinality(C) <= round(s1) + 1
    BY <2>3, <2>4, FS_Injection
  <2>6. QED
    BY <2>5 DEF OfDatabase, C
<1>8. OfDatabase(won, r) \in Nat /\ OfDatabase(won, s) \in Nat
  <2>1. \A t : {u \in won : DbOf[u] = DbOf[t]} \in SUBSET Row
    BY <1>1
  <2>2. QED
    BY <2>1, RowsFinite DEF OfDatabase
<1> HIDE DEF round
<1>9. QED
  BY <1>5, <1>6, <1>7, <1>8

\* A draw as large as the number of databases takes a row from each of them.
LEMMA EveryDatabaseDrawn ==
  ASSUME NEW pool \in SUBSET Row, NEW order, Numbers(order, pool), NEW n \in Nat,
         Cardinality({DbOf[r] : r \in pool}) <= n, NEW s \in pool
  PROVE  OfDatabase(First(RankIn(order, pool), pool, n), s) > 0
<1> DEFINE rank == RankIn(order, pool)
           won  == First(rank, pool, n)
           dbs  == {DbOf[r] : r \in pool}
           own  == {r \in pool : DbOf[r] = DbOf[s]}
<1>1. PICK t \in own : \A u \in own : order[t] <= order[u]
  <2>1. own \in SUBSET pool /\ s \in own
    OBVIOUS
  <2>2. QED
    BY <2>1, FirstInOrder
<1>2. t \in pool /\ DbOf[t] = DbOf[s]
  BY <1>1
<1>3. RoundOf(order, pool, t) = 0
  <2>1. {u \in pool : DbOf[u] = DbOf[t] /\ order[u] < order[t]} = {}
    BY <1>1, <1>2 DEF Numbers
  <2>2. QED
    BY <2>1, FS_EmptySet DEF RoundOf
<1> DEFINE before == Earlier(order, pool, t)
           others == dbs \ {DbOf[t]}
           f == [u \in before |-> DbOf[u]]
<1>4. \A u \in before : u \in pool /\ RoundOf(order, pool, u) = 0 /\ DbOf[u] < DbOf[t]
  <2>1. \A u \in pool : RoundOf(order, pool, u) \in Nat
    BY RoundType
  <2>2. QED
    BY <1>3, <2>1 DEF Earlier
<1>5. \A u \in before : DbOf[u] \in others
  BY <1>2, <1>4
<1>6. \A u, v \in before : DbOf[u] = DbOf[v] => u = v
  <2> SUFFICES ASSUME NEW u \in before, NEW v \in before, DbOf[u] = DbOf[v], u # v
               PROVE FALSE
    OBVIOUS
  <2>1. order[u] < order[v] \/ order[v] < order[u]
    BY <1>4 DEF Numbers
  <2>2. RoundOf(order, pool, u) < RoundOf(order, pool, v)
          \/ RoundOf(order, pool, v) < RoundOf(order, pool, u)
    BY <1>4, <2>1, RoundGrows
  <2>3. QED
    BY <1>4, <2>2
<1>7. IsFiniteSet(dbs)
  <2> DEFINE g == [r \in pool |-> DbOf[r]]
  <2>1. g \in Surjection(pool, dbs)
    BY DEF Surjection
  <2>2. QED
    BY <2>1, RowsFinite, FS_Surjection
<1>8. DbOf[t] \in dbs
  BY <1>2
<1>9. /\ IsFiniteSet(others) /\ Cardinality(others) = Cardinality(dbs) - 1
      /\ Cardinality(dbs) \in Nat
  <2> HIDE DEF dbs
  <2>1. QED
    BY <1>7, <1>8, FS_RemoveElement, FS_CardinalityType
<1>10. f \in Injection(before, others)
  <2> HIDE DEF before, others
  <2>1. QED
    BY <1>5, <1>6 DEF Injection, IsInjective
<1>11. Cardinality(before) <= Cardinality(others) /\ IsFiniteSet(before)
  <2> HIDE DEF before, others
  <2>1. QED
    BY <1>9, <1>10, FS_Injection
<1>12. rank[t] = Cardinality(before) /\ Cardinality(before) \in Nat
  BY <1>2, <1>11, FS_CardinalityType DEF RankIn
<1>13. rank[t] < n
  <2> HIDE DEF rank, before, others
  <2>1. Cardinality(dbs) <= n
    OBVIOUS
  <2> HIDE DEF dbs
  <2>2. QED
    BY <1>9, <1>11, <1>12, <2>1
<1>14. t \in {r \in won : DbOf[r] = DbOf[s]}
  BY <1>2, <1>13 DEF First
<1>15. {r \in won : DbOf[r] = DbOf[s]} \in SUBSET Row
  BY DEF First
<1>16. Cardinality({r \in won : DbOf[r] = DbOf[s]}) # 0
  BY <1>14, <1>15, RowsFinite, FS_EmptySet
<1>17. Cardinality({r \in won : DbOf[r] = DbOf[s]}) \in Nat
  BY <1>15, RowsFinite
<1>18. QED
  BY <1>16, <1>17 DEF OfDatabase
-----------------------------------------------------------------------------
\* The files, the drawn sets and the lock, whoever wrote them.
FileInv ==
  /\ Held("validation_tuning") \subseteq selection.tuning
  /\ Held("formal_validation") \subseteq selection.formal
  /\ lock.state = "whole" =>
       /\ lock.tuning \in SUBSET Row /\ lock.formal \in SUBSET Row
       /\ Cardinality(lock.tuning) = TuningSize /\ Cardinality(lock.formal) = FormalSize
       /\ lock.tuning \cap lock.formal = {}
       /\ lock.train = Row \ (lock.tuning \cup lock.formal)
       /\ ~redrawn =>
            /\ lock.tuning = selection.tuning /\ lock.formal = selection.formal
            /\ Held("engineering_validation") \subseteq lock.tuning
            /\ Held("formal_train") \subseteq lock.train

AfterTrain  == {"manifests", "databases", "report", "lock"}
AfterFormal == {"train"} \cup AfterTrain
AfterTuning == {"formal"} \cup AfterFormal
AfterEngineering == {"tuning"} \cup AfterTuning

\* What the running program has decided and written so far.
PlanInv ==
  /\ pc = "drawn_tuning" => plan.tuning = selection.tuning
  /\ pc = "drawn_formal" => plan.formal = selection.formal
  /\ pc \in GateAt =>
       /\ plan.tuning \subseteq selection.tuning /\ plan.formal \subseteq selection.formal
       /\ Cardinality(plan.tuning) = TuningSize /\ Cardinality(plan.formal) = FormalSize
       /\ plan.tuning \cap plan.formal = {}
       /\ plan.train = Row \ (plan.tuning \cup plan.formal)
  /\ pc \in AfterEngineering => Held("engineering_validation") = plan.tuning
  /\ pc \in AfterTuning => Held("validation_tuning") = plan.tuning
  /\ pc \in AfterFormal => Held("formal_validation") = plan.formal
  /\ pc \in AfterTrain  => Held("formal_train") = plan.train
  /\ pc = "lock" =>
       report = [state |-> "whole", shared |-> Shared(plan.train, plan.tuning, plan.formal)]

SplitsInv == TypeOK /\ FileInv /\ PlanInv /\ SharedQuestionsReported

LEMMA InitInv == Init => SplitsInv
<1> SUFFICES ASSUME Init PROVE SplitsInv
  OBVIOUS
<1>1. TypeOK
  <2>1. file \in [Name -> File] /\ report \in Report /\ lock \in Lock
    BY DEF Init, File, Absent, Report, Lock, Nothing
  <2>2. FileOrder \in [Row -> Nat]
    BY DEF FileOrder, Row
  <2>3. NoPlan \in Plan
    BY <2>2 DEF Plan, NoPlan
  <2>4. NoTraining \in Trained /\ selection \in Selection
    BY DEF Init, Trained, NoTraining, Selection
  <2>5. pc \in At /\ outcome \in Outcome /\ commands \in 0 .. MaxCommands
    BY DEF Init, At, Outcome
  <2>6. redrawn \in BOOLEAN /\ plan \in Plan /\ trained \in Trained
    BY <2>3, <2>4 DEF Init
  <2>7. QED
    BY <2>1, <2>4, <2>5, <2>6 DEF TypeOK
<1>2. \A name \in Name : Held(name) = {}
  BY DEF Init, Held, Absent, RowsOf
<1>3. FileInv
  BY <1>2 DEF Init, FileInv, Nothing, Name
<1>4. PlanInv /\ SharedQuestionsReported
  BY DEF Init, PlanInv, SharedQuestionsReported, GateAt, AfterTrain, AfterFormal,
         AfterTuning, AfterEngineering
<1>5. QED
  BY <1>1, <1>3, <1>4 DEF SplitsInv

\* A program that is killed or gives up keeps the invariant if the files do.
LEMMA StopKeepsInv ==
  ASSUME SplitsInv, FileInv', file' \in [Name -> File], report' \in Report, lock' \in Lock,
         pc' = "idle", plan' = NoPlan, outcome' \in Outcome \ {"published"},
         UNCHANGED <<selection, redrawn, trained, commands>>
  PROVE  SplitsInv'
<1>1. TypeOK'
  BY DEF SplitsInv, TypeOK, At, NoPlan, Plan, FileOrder, Row
<1>2. PlanInv'
  BY DEF PlanInv, GateAt, AfterTrain, AfterFormal, AfterTuning, AfterEngineering
<1>3. SharedQuestionsReported'
  BY DEF SharedQuestionsReported
<1>4. QED
  BY <1>1, <1>2, <1>3 DEF SplitsInv

\* So does one that leaves the files as they were.
LEMMA QuietKeepsInv ==
  ASSUME SplitsInv, UNCHANGED <<file, report, lock, plan, selection, redrawn>>,
         pc = "idle", pc' = "idle", commands' \in 0 .. MaxCommands, trained' \in Trained,
         outcome' \in Outcome \ {"published"}
  PROVE  SplitsInv'
<1>1. TypeOK'
  BY DEF SplitsInv, TypeOK, At
<1>2. FileInv'
  BY DEF SplitsInv, FileInv, Held
<1>3. PlanInv'
  BY DEF PlanInv, GateAt, AfterTrain, AfterFormal, AfterTuning, AfterEngineering
<1>4. SharedQuestionsReported'
  BY DEF SharedQuestionsReported
<1>5. QED
  BY <1>1, <1>2, <1>3, <1>4 DEF SplitsInv

LEMMA RefusesKeepsInv ==
  ASSUME SplitsInv, NEW cond, Refuses(cond)
  PROVE  SplitsInv'
<1>1. commands' \in 0 .. MaxCommands
  BY DEF Refuses, AtOnce, SplitsInv, TypeOK
<1>2. trained' \in Trained
  BY DEF Refuses, NoTraining, Trained
<1>3. QED
  BY <1>1, <1>2, QuietKeepsInv DEF Refuses, AtOnce, drawn, Outcome
-----------------------------------------------------------------------------
\* The splitter and the readiness script.
LEMMA SplitKeepsInv == ASSUME SplitsInv, Split PROVE SplitsInv'
<1>1. PICK seed \in Seed, size \in ValidationSize :
        LET rank == RankIn(Shuffle(seed, Prepared), Prepared)
            tuning == First(rank, Prepared, size) IN
        /\ Starts("core")
        /\ plan' = [tuning |-> tuning, formal |-> {}, train |-> Prepared \ tuning, rank |-> rank]
        /\ UNCHANGED <<file, report, lock, drawn>>
  BY DEF Split
<1> DEFINE rank == RankIn(Shuffle(seed, Prepared), Prepared)
           tuning == First(rank, Prepared, size)
<1>2. rank \in [Row -> Nat] /\ tuning \in SUBSET Row
  <2>1. Prepared \in SUBSET Row
    BY DEF Prepared
  <2>2. QED
    BY <2>1, RankType DEF First
<1>3. plan' \in Plan
  <2>1. plan' = [tuning |-> tuning, formal |-> {}, train |-> Prepared \ tuning, rank |-> rank]
    BY <1>1
  <2> HIDE DEF rank, tuning
  <2>2. Prepared \ tuning \in SUBSET Row
    BY DEF Prepared
  <2>3. QED
    BY <1>2, <2>1, <2>2 DEF Plan
<1>4. pc' = "core" /\ commands' \in 0 .. MaxCommands /\ trained' \in Trained /\ outcome' = "none"
  BY <1>1 DEF Starts, SplitsInv, TypeOK, NoTraining, Trained
<1>5. TypeOK'
  BY <1>1, <1>3, <1>4 DEF SplitsInv, TypeOK, At, Outcome, drawn
<1>6. FileInv'
  BY <1>1 DEF SplitsInv, FileInv, Held, drawn
<1>7. PlanInv' /\ SharedQuestionsReported'
  BY <1>4 DEF PlanInv, SharedQuestionsReported, GateAt, AfterTrain, AfterFormal,
              AfterTuning, AfterEngineering
<1>8. QED
  BY <1>5, <1>6, <1>7 DEF SplitsInv

LEMMA WriteCoreKeepsInv == ASSUME SplitsInv, WriteCore PROVE SplitsInv'
<1>1. /\ pc' = "drawn_tuning" /\ plan \in Plan
      /\ selection' = [selection EXCEPT !.tuning = plan.tuning]
      /\ redrawn' = (redrawn \/ selection' # selection)
      /\ file' = [file EXCEPT !["train_core"] = Whole(Stripped(plan.train)),
                              !["validation_tuning"] = Whole({})]
      /\ UNCHANGED <<report, lock, plan, trained, commands, outcome>>
  BY DEF WriteCore, Draws, SplitsInv, TypeOK
<1>2. plan.tuning \in SUBSET Row /\ plan.train \in SUBSET Row
  BY <1>1 DEF Plan
<1>3. Whole(Stripped(plan.train)) \in File /\ Whole({}) \in File
  BY <1>2, RowsOfStripped DEF Whole, File
<1>4. file' \in [Name -> File]
  BY <1>1, <1>3 DEF SplitsInv, TypeOK
<1>5. selection' \in Selection /\ selection'.tuning = plan.tuning
        /\ selection'.formal = selection.formal
  BY <1>1, <1>2 DEF SplitsInv, TypeOK, Selection
<1>6. redrawn' \in BOOLEAN
  BY <1>1 DEF SplitsInv, TypeOK
<1>7. TypeOK'
  BY <1>1, <1>4, <1>5, <1>6 DEF SplitsInv, TypeOK, At
<1>8. /\ Held("validation_tuning")' = {}
      /\ Held("formal_validation")' = Held("formal_validation")
      /\ Held("engineering_validation")' = Held("engineering_validation")
      /\ Held("formal_train")' = Held("formal_train")
  BY <1>1 DEF SplitsInv, TypeOK, Held, RowsOf, Whole, Name
<1>9. FileInv'
  BY <1>1, <1>5, <1>8 DEF SplitsInv, FileInv
<1>10. PlanInv'
  BY <1>1, <1>5 DEF PlanInv, GateAt, AfterTrain, AfterFormal, AfterTuning, AfterEngineering
<1>11. SharedQuestionsReported'
  BY <1>1 DEF SharedQuestionsReported
<1>12. QED
  BY <1>7, <1>9, <1>10, <1>11 DEF SplitsInv

LEMMA WriteDrawnTuningKeepsInv == ASSUME SplitsInv, WriteDrawnTuning PROVE SplitsInv'
<1>1. /\ pc = "drawn_tuning" /\ pc' = "idle" /\ plan' = NoPlan /\ outcome' = "split"
      /\ file' = [file EXCEPT !["validation_tuning"] = Whole(Stripped(plan.tuning))]
      /\ plan \in Plan
      /\ UNCHANGED <<report, lock, selection, redrawn, trained, commands>>
  BY DEF WriteDrawnTuning, Ends, Write, drawn, SplitsInv, TypeOK
<1>2. plan.tuning \in SUBSET Row /\ plan.tuning = selection.tuning
  BY <1>1 DEF Plan, SplitsInv, PlanInv
<1>3. Stripped(plan.tuning) \in SUBSET Identity /\ RowsOf(Stripped(plan.tuning)) = plan.tuning
  BY <1>2, RowsOfStripped
<1>4. file' \in [Name -> File]
  BY <1>1, <1>3 DEF SplitsInv, TypeOK, Whole, File
<1>5. /\ Held("validation_tuning")' = plan.tuning
      /\ Held("formal_validation")' = Held("formal_validation")
      /\ Held("engineering_validation")' = Held("engineering_validation")
      /\ Held("formal_train")' = Held("formal_train")
  BY <1>1, <1>3 DEF SplitsInv, TypeOK, Held, Whole, Name
<1>6. FileInv'
  BY <1>1, <1>2, <1>5 DEF SplitsInv, FileInv
<1>7. QED
  BY <1>1, <1>4, <1>6, StopKeepsInv DEF SplitsInv, TypeOK, Outcome

LEMMA ReadinessKeepsInv == ASSUME SplitsInv, Readiness PROVE SplitsInv'
<1> DEFINE pool == {r \in Row : Key(r) \notin Keys(RowsOf(file["validation_tuning"].rows))}
           rank == RankIn(Shuffle(FormalSeed, pool), pool)
           formal == First(rank, pool, FormalDraw(pool))
           train == {r \in pool : Key(r) \notin Keys(formal)}
<1>1. /\ Starts("drawn_formal")
      /\ plan' = [tuning |-> {}, formal |-> formal, train |-> train, rank |-> rank]
      /\ Write("formal_validation", {})
      /\ Draws([selection EXCEPT !.formal = formal])
      /\ UNCHANGED <<report, lock>>
  BY DEF Readiness
<1>2. rank \in [Row -> Nat]
  <2>1. pool \in SUBSET Row
    OBVIOUS
  <2> HIDE DEF pool
  <2>2. QED
    BY <2>1, RankType
<1>3. formal \in SUBSET Row /\ train \in SUBSET Row
  BY DEF First
<1> HIDE DEF pool, rank, formal, train
<1>4. plan' \in Plan /\ plan'.formal = formal
  BY <1>1, <1>2, <1>3 DEF Plan
<1>5. selection' \in Selection /\ selection'.formal = formal /\ selection'.tuning = selection.tuning
  BY <1>1, <1>3 DEF Draws, SplitsInv, TypeOK, Selection
<1>6. redrawn' = (redrawn \/ selection' # selection)
  BY <1>1 DEF Draws
<1>7. redrawn' \in BOOLEAN
  BY <1>6 DEF SplitsInv, TypeOK
<1>8. pc' = "drawn_formal" /\ commands' \in 0 .. MaxCommands /\ trained' \in Trained
        /\ outcome' = "none"
  BY <1>1 DEF Starts, SplitsInv, TypeOK, NoTraining, Trained
<1>9. Whole({}) \in File /\ RowsOf(Whole({}).rows) = {}
  BY DEF Whole, File, RowsOf
<1>10. /\ file' \in [Name -> File]
       /\ Held("formal_validation")' = {}
       /\ Held("validation_tuning")' = Held("validation_tuning")
       /\ Held("engineering_validation")' = Held("engineering_validation")
       /\ Held("formal_train")' = Held("formal_train")
  BY <1>1, <1>9 DEF Write, SplitsInv, TypeOK, Held, Name
<1>11. TypeOK'
  BY <1>1, <1>4, <1>5, <1>7, <1>8, <1>10 DEF SplitsInv, TypeOK, At, Outcome
<1>12. FileInv'
  BY <1>1, <1>5, <1>6, <1>10 DEF SplitsInv, FileInv
<1>13. PlanInv' /\ SharedQuestionsReported'
  BY <1>4, <1>5, <1>8 DEF PlanInv, SharedQuestionsReported, GateAt, AfterTrain, AfterFormal,
                          AfterTuning, AfterEngineering
<1>14. QED
  BY <1>11, <1>12, <1>13 DEF SplitsInv

LEMMA WriteDrawnFormalKeepsInv == ASSUME SplitsInv, WriteDrawnFormal PROVE SplitsInv'
<1>1. /\ pc = "drawn_formal" /\ pc' = "idle" /\ plan' = NoPlan /\ outcome' = "ready"
      /\ file' = [file EXCEPT !["formal_validation"] = Whole(Raw(plan.formal))]
      /\ plan \in Plan
      /\ UNCHANGED <<report, lock, selection, redrawn, trained, commands>>
  BY DEF WriteDrawnFormal, Ends, Write, drawn, SplitsInv, TypeOK
<1>2. plan.formal \in SUBSET Row /\ plan.formal = selection.formal
  BY <1>1 DEF Plan, SplitsInv, PlanInv
<1>3. Raw(plan.formal) \in SUBSET Identity /\ RowsOf(Raw(plan.formal)) = plan.formal
  BY <1>2, RowsOfRaw
<1>4. file' \in [Name -> File]
  BY <1>1, <1>3 DEF SplitsInv, TypeOK, Whole, File
<1>5. /\ Held("formal_validation")' = plan.formal
      /\ Held("validation_tuning")' = Held("validation_tuning")
      /\ Held("engineering_validation")' = Held("engineering_validation")
      /\ Held("formal_train")' = Held("formal_train")
  BY <1>1, <1>3 DEF SplitsInv, TypeOK, Held, Whole, Name
<1>6. FileInv'
  BY <1>1, <1>2, <1>5 DEF SplitsInv, FileInv
<1>7. QED
  BY <1>1, <1>4, <1>6, StopKeepsInv DEF SplitsInv, TypeOK, Outcome
-----------------------------------------------------------------------------
\* The gate: what it accepts is what was drawn.
LEMMA GateKeepsInv == ASSUME SplitsInv, Gate PROVE SplitsInv'
<1>1. /\ Starts("engineering") /\ GateAccepts
      /\ plan' = [tuning |-> RoleTuning, formal |-> RoleFormal, train |-> RoleTrain,
                  rank |-> FileOrder]
      /\ UNCHANGED <<file, report, lock, selection, redrawn>>
  BY DEF Gate, drawn
<1>2. RoleTuning \in SUBSET Row /\ RoleFormal \in SUBSET Row /\ RoleTrain \in SUBSET Row
  BY DEF RoleTuning, RoleFormal, RoleTrain
<1>3. FileOrder \in [Row -> Nat]
  BY DEF FileOrder, Row
<1>4. /\ plan' \in Plan
      /\ plan'.tuning = RoleTuning /\ plan'.formal = RoleFormal /\ plan'.train = RoleTrain
  BY <1>1, <1>2, <1>3 DEF Plan
<1>5. \A r \in Row : RawIdentity(r).row = r
  BY DEF RawIdentity
<1>6. RoleTuning \subseteq selection.tuning
  BY <1>5 DEF RoleTuning, SplitsInv, FileInv, Held, RowsOf
<1>7. RoleFormal \subseteq selection.formal
  BY <1>5 DEF RoleFormal, SplitsInv, FileInv, Held, RowsOf
<1>8. pc' = "engineering" /\ commands' \in 0 .. MaxCommands /\ trained' \in Trained
        /\ outcome' = "none"
  BY <1>1 DEF Starts, SplitsInv, TypeOK, NoTraining, Trained
<1>9. TypeOK'
  BY <1>1, <1>4, <1>8 DEF SplitsInv, TypeOK, At, GateAt, Outcome
<1>10. FileInv'
  BY <1>1 DEF SplitsInv, FileInv, Held
<1>11. RoleTuning \cap RoleFormal = {} /\ RoleTrain = Row \ (RoleTuning \cup RoleFormal)
  BY DEF RoleFormal, RoleTrain
<1>12. PlanInv'
  BY <1>1, <1>4, <1>6, <1>7, <1>8, <1>11 DEF PlanInv, GateAccepts, GateAt, AfterTrain,
     AfterFormal, AfterTuning, AfterEngineering
<1>13. SharedQuestionsReported'
  BY <1>8 DEF SharedQuestionsReported
<1>14. QED
  BY <1>9, <1>10, <1>12, <1>13 DEF SplitsInv

\* What all four writes of the gate have in common.
LEMMA GateWritesType ==
  ASSUME SplitsInv, NEW at \in GateAt, NEW name \in Name, NEW rows \in SUBSET Row,
         NEW next \in GateAt, GateWrites(at, name, rows, next)
  PROVE  /\ TypeOK' /\ SharedQuestionsReported'
         /\ pc = at /\ pc' = next
         /\ Held(name)' = rows
         /\ \A other \in Name \ {name} : Held(other)' = Held(other)
         /\ UNCHANGED <<report, lock, plan, selection, redrawn>>
<1>1. /\ pc = at /\ pc' = next
      /\ file' = [file EXCEPT ![name] = Whole(Stripped(rows))]
      /\ UNCHANGED <<report, lock, plan, selection, redrawn, trained, commands, outcome>>
  BY DEF GateWrites, Write, drawn
<1>2. Stripped(rows) \in SUBSET Identity /\ RowsOf(Stripped(rows)) = rows
  BY RowsOfStripped
<1>3. Whole(Stripped(rows)) \in File
  BY <1>2 DEF Whole, File
<1>4. file' \in [Name -> File]
  BY <1>1, <1>3 DEF SplitsInv, TypeOK
<1>5. TypeOK'
  BY <1>1, <1>4 DEF SplitsInv, TypeOK, At
<1>6. Held(name)' = rows /\ \A other \in Name \ {name} : Held(other)' = Held(other)
  BY <1>1, <1>2 DEF SplitsInv, TypeOK, Held, Whole
<1>7. SharedQuestionsReported'
  BY <1>1 DEF SharedQuestionsReported, GateAt
<1>8. QED
  BY <1>1, <1>5, <1>6, <1>7

LEMMA PlannedRows ==
  ASSUME SplitsInv
  PROVE  plan.tuning \in SUBSET Row /\ plan.formal \in SUBSET Row /\ plan.train \in SUBSET Row
  BY DEF SplitsInv, TypeOK, Plan

\* While the gate runs and the lock is of the rows drawn, its plan is that of the lock.
LEMMA PlanIsLocked ==
  ASSUME SplitsInv, pc \in GateAt, lock.state = "whole", ~redrawn
  PROVE  plan.tuning = lock.tuning /\ plan.formal = lock.formal /\ plan.train = lock.train
<1>1. /\ plan.tuning \subseteq lock.tuning /\ plan.formal \subseteq lock.formal
      /\ lock.tuning \in SUBSET Row /\ lock.formal \in SUBSET Row
      /\ Cardinality(plan.tuning) = Cardinality(lock.tuning)
      /\ Cardinality(plan.formal) = Cardinality(lock.formal)
      /\ plan.train = Row \ (plan.tuning \cup plan.formal)
      /\ lock.train = Row \ (lock.tuning \cup lock.formal)
  BY DEF SplitsInv, FileInv, PlanInv
<1>2. Cardinality(lock.tuning) \in Nat /\ Cardinality(lock.formal) \in Nat
  BY <1>1, RowsFinite
<1>3. plan.tuning = lock.tuning
  BY <1>1, <1>2, SameSizeSubset
<1>4. plan.formal = lock.formal
  BY <1>1, <1>2, SameSizeSubset
<1>5. QED
  BY <1>1, <1>3, <1>4

LEMMA GateWritesKeepInv ==
  ASSUME SplitsInv,
         WriteEngineering \/ WriteTuning \/ WriteFormal \/ WriteFormalTrain
  PROVE  SplitsInv'
<1> USE PlannedRows
<1>1. CASE WriteEngineering
  <2>1. GateWrites("engineering", "engineering_validation", plan.tuning, "tuning")
    BY <1>1 DEF WriteEngineering
  <2>2. /\ TypeOK' /\ SharedQuestionsReported' /\ pc = "engineering" /\ pc' = "tuning"
        /\ Held("engineering_validation")' = plan.tuning
        /\ \A other \in Name \ {"engineering_validation"} : Held(other)' = Held(other)
        /\ UNCHANGED <<report, lock, plan, selection, redrawn>>
    BY <2>1, GateWritesType, "engineering" \in GateAt, "tuning" \in GateAt,
       "engineering_validation" \in Name DEF GateAt, Name
  <2>3. FileInv'
    BY <2>2, PlanIsLocked DEF SplitsInv, FileInv, Name, GateAt
  <2>4. PlanInv'
    BY <2>2 DEF SplitsInv, PlanInv, GateAt, AfterTrain, AfterFormal, AfterTuning,
                AfterEngineering
  <2>5. QED
    BY <2>2, <2>3, <2>4 DEF SplitsInv
<1>2. CASE WriteTuning
  <2>1. GateWrites("tuning", "validation_tuning", plan.tuning, "formal")
    BY <1>2 DEF WriteTuning
  <2>2. /\ TypeOK' /\ SharedQuestionsReported' /\ pc = "tuning" /\ pc' = "formal"
        /\ Held("validation_tuning")' = plan.tuning
        /\ \A other \in Name \ {"validation_tuning"} : Held(other)' = Held(other)
        /\ UNCHANGED <<report, lock, plan, selection, redrawn>>
    BY <2>1, GateWritesType DEF GateAt, Name
  <2>3. FileInv'
    BY <2>2 DEF SplitsInv, FileInv, PlanInv, Name, GateAt
  <2>4. PlanInv'
    BY <2>2 DEF SplitsInv, PlanInv, GateAt, AfterTrain, AfterFormal, AfterTuning,
                AfterEngineering, Name
  <2>5. QED
    BY <2>2, <2>3, <2>4 DEF SplitsInv
<1>3. CASE WriteFormal
  <2>1. GateWrites("formal", "formal_validation", plan.formal, "train")
    BY <1>3 DEF WriteFormal
  <2>2. /\ TypeOK' /\ SharedQuestionsReported' /\ pc = "formal" /\ pc' = "train"
        /\ Held("formal_validation")' = plan.formal
        /\ \A other \in Name \ {"formal_validation"} : Held(other)' = Held(other)
        /\ UNCHANGED <<report, lock, plan, selection, redrawn>>
    BY <2>1, GateWritesType DEF GateAt, Name
  <2>3. FileInv'
    BY <2>2 DEF SplitsInv, FileInv, PlanInv, Name, GateAt
  <2>4. PlanInv'
    BY <2>2 DEF SplitsInv, PlanInv, GateAt, AfterTrain, AfterFormal, AfterTuning,
                AfterEngineering, Name
  <2>5. QED
    BY <2>2, <2>3, <2>4 DEF SplitsInv
<1>4. CASE WriteFormalTrain
  <2>1. GateWrites("train", "formal_train", plan.train, "manifests")
    BY <1>4 DEF WriteFormalTrain
  <2>2. /\ TypeOK' /\ SharedQuestionsReported' /\ pc = "train" /\ pc' = "manifests"
        /\ Held("formal_train")' = plan.train
        /\ \A other \in Name \ {"formal_train"} : Held(other)' = Held(other)
        /\ UNCHANGED <<report, lock, plan, selection, redrawn>>
    BY <2>1, GateWritesType DEF GateAt, Name
  <2>3. FileInv'
    BY <2>2, PlanIsLocked DEF SplitsInv, FileInv, Name, GateAt
  <2>4. PlanInv'
    BY <2>2 DEF SplitsInv, PlanInv, GateAt, AfterTrain, AfterFormal, AfterTuning,
                AfterEngineering, Name
  <2>5. QED
    BY <2>2, <2>3, <2>4 DEF SplitsInv
<1>5. QED
  BY <1>1, <1>2, <1>3, <1>4

LEMMA WriteManifestsKeepsInv == ASSUME SplitsInv, WriteManifests PROVE SplitsInv'
<1>1. /\ pc = "manifests" /\ pc' = "databases"
      /\ UNCHANGED <<file, report, lock, plan, selection, redrawn, trained, commands, outcome>>
  BY DEF WriteManifests, drawn
<1>2. TypeOK'
  BY <1>1 DEF SplitsInv, TypeOK, At, GateAt
<1>3. FileInv'
  BY <1>1 DEF SplitsInv, FileInv, Held
<1>4. PlanInv' /\ SharedQuestionsReported'
  BY <1>1 DEF SplitsInv, PlanInv, SharedQuestionsReported, GateAt, AfterTrain, AfterFormal,
              AfterTuning, AfterEngineering, Held
<1>5. QED
  BY <1>2, <1>3, <1>4 DEF SplitsInv

LEMMA CheckDatabasesKeepsInv == ASSUME SplitsInv, CheckDatabases PROVE SplitsInv'
<1>1. pc = "databases" /\ UNCHANGED <<file, report, lock, selection, redrawn, trained, commands>>
  BY DEF CheckDatabases, drawn
<1>2. FileInv'
  BY <1>1 DEF SplitsInv, FileInv, Held
<1>3. CASE pc' = "report" /\ UNCHANGED <<plan, outcome>>
  <2>1. TypeOK'
    BY <1>1, <1>3 DEF SplitsInv, TypeOK, At, GateAt
  <2>2. PlanInv' /\ SharedQuestionsReported'
    BY <1>1, <1>3 DEF SplitsInv, PlanInv, SharedQuestionsReported, GateAt, AfterTrain,
       AfterFormal, AfterTuning, AfterEngineering, Held
  <2>3. QED
    BY <1>2, <2>1, <2>2 DEF SplitsInv
<1>4. CASE Ends("databases")
  BY <1>1, <1>2, <1>4, StopKeepsInv DEF Ends, Outcome, SplitsInv, TypeOK
<1>5. QED
  BY <1>3, <1>4 DEF CheckDatabases

LEMMA WriteReportKeepsInv == ASSUME SplitsInv, WriteReport PROVE SplitsInv'
<1>1. /\ pc = "report" /\ pc' = "lock"
      /\ report' = [state |-> "whole", shared |-> Shared(plan.train, plan.tuning, plan.formal)]
      /\ UNCHANGED <<file, lock, plan, selection, redrawn, trained, commands, outcome>>
  BY DEF WriteReport, drawn
<1>2. Shared(plan.train, plan.tuning, plan.formal) \in Nat
  BY PlannedRows, SharedType
<1>3. report' \in Report
  BY <1>1, <1>2 DEF Report
<1>4. TypeOK'
  BY <1>1, <1>3 DEF SplitsInv, TypeOK, At, GateAt
<1>5. FileInv'
  BY <1>1 DEF SplitsInv, FileInv, Held
<1>6. Shared(plan.train, plan.tuning, plan.formal)' = Shared(plan.train, plan.tuning, plan.formal)
  BY <1>1 DEF Shared
<1>7. PlanInv'
  BY <1>1, <1>6 DEF SplitsInv, PlanInv, GateAt, AfterTrain, AfterFormal, AfterTuning,
              AfterEngineering, Held
<1>8. SharedQuestionsReported'
  BY <1>1 DEF SharedQuestionsReported
<1>9. QED
  BY <1>4, <1>5, <1>7, <1>8 DEF SplitsInv

LEMMA WriteLockKeepsInv == ASSUME SplitsInv, WriteLock PROVE SplitsInv'
<1>1. /\ pc = "lock" /\ pc' = "idle" /\ outcome' = "published" /\ plan' = NoPlan
      /\ lock' = [state |-> "whole", tuning |-> plan.tuning, formal |-> plan.formal,
                  train |-> plan.train]
      /\ redrawn' = (plan.tuning # selection.tuning \/ plan.formal # selection.formal)
      /\ UNCHANGED <<file, report, selection, trained, commands>>
  BY DEF WriteLock, Ends
<1>2. lock' \in Lock /\ redrawn' \in BOOLEAN
  BY <1>1, PlannedRows DEF Lock
<1>3. NoPlan \in Plan
  BY DEF NoPlan, Plan, FileOrder, Row
<1>4. TypeOK'
  BY <1>1, <1>2, <1>3 DEF SplitsInv, TypeOK, At, Outcome
<1>5. /\ Held("engineering_validation") = plan.tuning /\ Held("validation_tuning") = plan.tuning
      /\ Held("formal_validation") = plan.formal /\ Held("formal_train") = plan.train
      /\ report.shared = Shared(plan.train, plan.tuning, plan.formal)
  BY <1>1 DEF SplitsInv, PlanInv, AfterTrain, AfterFormal, AfterTuning, AfterEngineering
<1>6. /\ plan.tuning \subseteq selection.tuning /\ plan.formal \subseteq selection.formal
      /\ Cardinality(plan.tuning) = TuningSize /\ Cardinality(plan.formal) = FormalSize
      /\ plan.tuning \cap plan.formal = {}
      /\ plan.train = Row \ (plan.tuning \cup plan.formal)
  BY <1>1 DEF SplitsInv, PlanInv, GateAt
<1>7. FileInv'
  <2>1. \A name : Held(name)' = Held(name)
    BY <1>1 DEF Held
  <2>2. lock'.tuning = plan.tuning /\ lock'.formal = plan.formal /\ lock'.train = plan.train
    BY <1>1
  <2>3. QED
    BY <1>1, <1>5, <1>6, <2>1, <2>2, PlannedRows DEF FileInv, SplitsInv
<1>8. SharedQuestionsReported'
  BY <1>1, <1>5 DEF SharedQuestionsReported, Shared, Held
<1>9. PlanInv'
  BY <1>1 DEF PlanInv, GateAt, AfterTrain, AfterFormal, AfterTuning, AfterEngineering
<1>10. QED
  BY <1>4, <1>7, <1>8, <1>9 DEF SplitsInv
-----------------------------------------------------------------------------
\* A killed write: the file it was in holds no row it was not to hold, unless it is
\* as it was.
LEMMA KilledWrite ==
  ASSUME SplitsInv, Kill, file' # file, NEW name \in Name, NEW ids \in SUBSET Identity,
         pc \in DOMAIN Open, Open[pc].name = name, Open[pc].ids = ids
  PROVE  /\ file' \in [Name -> File]
         /\ Held(name)' \subseteq RowsOf(ids)
         /\ \A other \in Name \ {name} : Held(other)' = Held(other)
<1>1. PICK left \in Prefixes(ids, Open[pc].rank) : file' = [file EXCEPT ![name] = left]
  <2>1. file \in [Name -> File]
    BY DEF SplitsInv, TypeOK
  <2>2. [file EXCEPT ![name] = file[name]] = file
    BY <2>1
  <2>3. PICK left \in Prefixes(ids, Open[pc].rank) \cup {file[name]} :
          file' = [file EXCEPT ![name] = left]
    BY DEF Kill
  <2>4. left # file[name]
    BY <2>2, <2>3
  <2>5. QED
    BY <2>3, <2>4
<1>2. left \in File /\ RowsOf(left.rows) \subseteq RowsOf(ids)
  BY <1>1, PrefixHoldsNoMore
<1>3. QED
  BY <1>1, <1>2 DEF SplitsInv, TypeOK, Held

LEMMA KillKeepsInv == ASSUME SplitsInv, Kill PROVE SplitsInv'
<1>1. /\ pc # "idle" /\ pc' = "idle" /\ outcome' = "killed" /\ plan' = NoPlan
      /\ UNCHANGED <<selection, redrawn, trained, commands>>
  BY DEF Kill, Ends, drawn
<1>2. report' \in Report /\ (pc # "report" => report' = report)
  BY DEF Kill, SplitsInv, TypeOK, Report
<1>3. lock' \in Lock /\ (lock'.state = "whole" => lock' = lock)
  BY DEF Kill, SplitsInv, TypeOK, Lock, Torn
<1>4. /\ plan.tuning \in SUBSET Row /\ plan.formal \in SUBSET Row /\ plan.train \in SUBSET Row
      /\ Stripped(plan.tuning) \in SUBSET Identity /\ RowsOf(Stripped(plan.tuning)) = plan.tuning
      /\ Stripped(plan.formal) \in SUBSET Identity /\ RowsOf(Stripped(plan.formal)) = plan.formal
      /\ Stripped(plan.train) \in SUBSET Identity /\ RowsOf(Stripped(plan.train)) = plan.train
      /\ Raw(plan.formal) \in SUBSET Identity /\ RowsOf(Raw(plan.formal)) = plan.formal
  BY PlannedRows, RowsOfStripped, RowsOfRaw
<1>5. file' \in [Name -> File] /\ FileInv'
  <2>8. CASE file' = file
    <3>1. \A name : Held(name)' = Held(name)
      BY <2>8 DEF Held
    <3>2. QED
      BY <1>1, <1>3, <2>8, <3>1 DEF SplitsInv, FileInv, TypeOK
  <2> SUFFICES ASSUME file' # file PROVE file' \in [Name -> File] /\ FileInv'
    BY <2>8
  <2>1. CASE pc = "core"
    <3>1. pc \in DOMAIN Open /\ Open[pc].name = "train_core" /\ Open[pc].ids = Stripped(plan.train)
      BY <2>1 DEF Open
    <3>2. /\ file' \in [Name -> File]
          /\ \A other \in Name \ {"train_core"} : Held(other)' = Held(other)
      BY <1>4, <3>1, KilledWrite DEF Name
    <3>3. QED
      BY <1>1, <1>3, <3>2 DEF SplitsInv, FileInv, Name
  <2>2. CASE pc = "drawn_tuning"
    <3>1. pc \in DOMAIN Open /\ Open[pc].name = "validation_tuning"
            /\ Open[pc].ids = Stripped(plan.tuning)
      BY <2>2 DEF Open
    <3>2. /\ file' \in [Name -> File] /\ Held("validation_tuning")' \subseteq plan.tuning
          /\ \A other \in Name \ {"validation_tuning"} : Held(other)' = Held(other)
      BY <1>4, <3>1, KilledWrite DEF Name
    <3>3. QED
      BY <1>1, <1>3, <2>2, <3>2 DEF SplitsInv, FileInv, PlanInv, Name
  <2>3. CASE pc = "drawn_formal"
    <3>1. pc \in DOMAIN Open /\ Open[pc].name = "formal_validation"
            /\ Open[pc].ids = Raw(plan.formal)
      BY <2>3 DEF Open
    <3>2. /\ file' \in [Name -> File] /\ Held("formal_validation")' \subseteq plan.formal
          /\ \A other \in Name \ {"formal_validation"} : Held(other)' = Held(other)
      BY <1>4, <3>1, KilledWrite DEF Name
    <3>3. QED
      BY <1>1, <1>3, <2>3, <3>2 DEF SplitsInv, FileInv, PlanInv, Name
  <2>4. CASE pc = "engineering"
    <3>1. pc \in DOMAIN Open /\ Open[pc].name = "engineering_validation"
            /\ Open[pc].ids = Stripped(plan.tuning)
      BY <2>4 DEF Open
    <3>2. /\ file' \in [Name -> File] /\ Held("engineering_validation")' \subseteq plan.tuning
          /\ \A other \in Name \ {"engineering_validation"} : Held(other)' = Held(other)
      BY <1>4, <3>1, KilledWrite DEF Name
    <3>3. pc \in GateAt
      BY <2>4 DEF GateAt
    <3>4. QED
      BY <1>1, <1>3, <3>2, <3>3, PlanIsLocked DEF SplitsInv, FileInv, Name
  <2>5. CASE pc = "tuning"
    <3>1. pc \in DOMAIN Open /\ Open[pc].name = "validation_tuning"
            /\ Open[pc].ids = Stripped(plan.tuning)
      BY <2>5 DEF Open
    <3>2. /\ file' \in [Name -> File] /\ Held("validation_tuning")' \subseteq plan.tuning
          /\ \A other \in Name \ {"validation_tuning"} : Held(other)' = Held(other)
      BY <1>4, <3>1, KilledWrite DEF Name
    <3>3. pc \in GateAt
      BY <2>5 DEF GateAt
    <3>4. QED
      BY <1>1, <1>3, <3>2, <3>3 DEF SplitsInv, FileInv, PlanInv, Name
  <2>6. CASE pc = "formal"
    <3>1. pc \in DOMAIN Open /\ Open[pc].name = "formal_validation"
            /\ Open[pc].ids = Stripped(plan.formal)
      BY <2>6 DEF Open
    <3>2. /\ file' \in [Name -> File] /\ Held("formal_validation")' \subseteq plan.formal
          /\ \A other \in Name \ {"formal_validation"} : Held(other)' = Held(other)
      BY <1>4, <3>1, KilledWrite DEF Name
    <3>3. pc \in GateAt
      BY <2>6 DEF GateAt
    <3>4. QED
      BY <1>1, <1>3, <3>2, <3>3 DEF SplitsInv, FileInv, PlanInv, Name
  <2>7. CASE pc = "train"
    <3>1. pc \in DOMAIN Open /\ Open[pc].name = "formal_train"
            /\ Open[pc].ids = Stripped(plan.train)
      BY <2>7 DEF Open
    <3>2. /\ file' \in [Name -> File] /\ Held("formal_train")' \subseteq plan.train
          /\ \A other \in Name \ {"formal_train"} : Held(other)' = Held(other)
      BY <1>4, <3>1, KilledWrite DEF Name
    <3>3. pc \in GateAt
      BY <2>7 DEF GateAt
    <3>4. QED
      BY <1>1, <1>3, <3>2, <3>3, PlanIsLocked DEF SplitsInv, FileInv, Name
  <2>9. pc \in DOMAIN Open
    BY DEF Kill
  <2>10. QED
    BY <2>1, <2>2, <2>3, <2>4, <2>5, <2>6, <2>7, <2>9 DEF Open
<1>6. QED
  BY <1>1, <1>2, <1>3, <1>5, StopKeepsInv DEF Outcome

LEMMA TrainKeepsInv == ASSUME SplitsInv, NEW name \in Name, Train(name) PROVE SplitsInv'
<1>1. /\ AtOnce("trained")
      /\ trained' = [source |-> name,
                     seen |-> RowsOf(file[name].rows) \cap
                                RowsOf(file["formal_validation"].rows
                                         \cup file["validation_tuning"].rows)]
  BY DEF Train
<1>2. RowsOf(file[name].rows) \subseteq Row
  BY DEF SplitsInv, TypeOK, File, RowsOf, Identity
<1>3. trained' \in Trained
  BY <1>1, <1>2 DEF Trained
<1>4. commands' \in 0 .. MaxCommands
  BY <1>1 DEF AtOnce, SplitsInv, TypeOK
<1>5. QED
  BY <1>1, <1>3, <1>4, QuietKeepsInv DEF AtOnce, drawn, Outcome

LEMMA NextKeepsInv == SplitsInv /\ [Next]_vars => SplitsInv'
<1> SUFFICES ASSUME SplitsInv, [Next]_vars PROVE SplitsInv'
  OBVIOUS
<1>1. CASE SplitRefused \/ ReadinessRefused \/ GateRefused \/ DatabaseUnread \/ TrainRefused
  BY <1>1, RefusesKeepsInv DEF SplitRefused, ReadinessRefused, GateRefused,
        DatabaseUnread, TrainRefused
<1>2. CASE Split
  BY <1>2, SplitKeepsInv
<1>3. CASE WriteCore
  BY <1>3, WriteCoreKeepsInv
<1>4. CASE WriteDrawnTuning
  BY <1>4, WriteDrawnTuningKeepsInv
<1>5. CASE Readiness
  BY <1>5, ReadinessKeepsInv
<1>6. CASE WriteDrawnFormal
  BY <1>6, WriteDrawnFormalKeepsInv
<1>7. CASE Gate
  BY <1>7, GateKeepsInv
<1>8. CASE WriteEngineering \/ WriteTuning \/ WriteFormal \/ WriteFormalTrain
  BY <1>8, GateWritesKeepInv
<1>9. CASE WriteManifests
  BY <1>9, WriteManifestsKeepsInv
<1>10. CASE CheckDatabases
  BY <1>10, CheckDatabasesKeepsInv
<1>11. CASE WriteReport
  BY <1>11, WriteReportKeepsInv
<1>12. CASE WriteLock
  BY <1>12, WriteLockKeepsInv
<1>13. CASE Kill
  BY <1>13, KillKeepsInv
<1>14. CASE \E name \in Name : Train(name)
  BY <1>14, TrainKeepsInv
<1>15. CASE UNCHANGED vars
  <2>1. UNCHANGED <<file, report, lock, pc, plan, selection, redrawn, trained, commands, outcome>>
    BY <1>15 DEF vars, drawn
  <2>2. TypeOK' /\ SharedQuestionsReported'
    BY <2>1 DEF SplitsInv, TypeOK, SharedQuestionsReported
  <2>3. FileInv' /\ PlanInv'
    BY <2>1 DEF SplitsInv, FileInv, PlanInv, Held, Shared
  <2>4. QED
    BY <2>2, <2>3 DEF SplitsInv
<1>16. QED
  BY <1>1, <1>2, <1>3, <1>4, <1>5, <1>6, <1>7, <1>8, <1>9, <1>10, <1>11, <1>12, <1>13,
     <1>14, <1>15 DEF Next

\* The inductive invariant of the splits holds of every behaviour.
THEOREM InvInductive == Spec => []SplitsInv
  BY InitInv, NextKeepsInv, PTL DEF Spec

\* Every variable keeps its type.
THEOREM TypeCorrect == Spec => []TypeOK
<1>1. SplitsInv => TypeOK
  BY DEF SplitsInv
<1>2. QED
  BY <1>1, InvInductive, PTL

\* A gate run that gets as far as writing works from the rows last drawn.
THEOREM SelectionKept == Spec => []GateKeepsSelection
<1>1. SplitsInv => GateKeepsSelection
  <2> SUFFICES ASSUME SplitsInv, pc \in GateAt PROVE GateKeepsSelection
    BY DEF GateKeepsSelection
  <2>1. /\ plan.tuning \subseteq selection.tuning /\ plan.formal \subseteq selection.formal
        /\ selection.tuning \in SUBSET Row /\ selection.formal \in SUBSET Row
        /\ Cardinality(plan.tuning) = TuningSize /\ Cardinality(plan.formal) = FormalSize
    BY DEF SplitsInv, PlanInv, TypeOK, Selection
  <2>2. Cardinality(selection.tuning) <= TuningSize => plan.tuning = selection.tuning
    BY <2>1, SameSizeSubset
  <2>3. Cardinality(selection.formal) <= FormalSize => plan.formal = selection.formal
    BY <2>1, SameSizeSubset
  <2>4. QED
    BY <2>2, <2>3 DEF GateKeepsSelection
<1>2. QED
  BY <1>1, InvInductive, PTL

\* What the training command before has read: nothing is kept of it while another
\* program runs, and what came from formal_train.jsonl held no validation row.
TrainedInv ==
  /\ pc # "idle" => trained = NoTraining
  /\ lock.state = "whole" /\ ~redrawn =>
       (trained.source = "formal_train" => trained.seen = {})

LEMMA TrainKeepsTrained == ASSUME SplitsInv, NEW name \in Name, Train(name) PROVE TrainedInv'
<1>1. /\ pc' = "idle" /\ UNCHANGED <<file, lock, selection, redrawn>>
      /\ trained'.source = name
      /\ trained'.seen = Held(name) \cap
                           RowsOf(file["formal_validation"].rows
                                    \cup file["validation_tuning"].rows)
  BY DEF Train, AtOnce, drawn, Held
<1>2. RowsOf(file["formal_validation"].rows \cup file["validation_tuning"].rows)
        = Held("formal_validation") \cup Held("validation_tuning")
  BY DEF RowsOf, Held
<1>3. ASSUME lock.state = "whole", ~redrawn, name = "formal_train"
      PROVE  trained'.seen = {}
  <2>1. /\ Held("formal_train") \subseteq Row \ (lock.tuning \cup lock.formal)
        /\ Held("formal_validation") \subseteq lock.formal
        /\ Held("validation_tuning") \subseteq lock.tuning
    BY <1>3 DEF SplitsInv, FileInv
  <2>2. QED
    BY <1>1, <1>2, <1>3, <2>1
<1>4. QED
  BY <1>1, <1>3 DEF TrainedInv

\* Every other step forgets the training, or leaves as it was one that was forgotten.
LEMMA NextKeepsTrained == SplitsInv /\ TrainedInv /\ [Next]_vars => TrainedInv'
<1> SUFFICES ASSUME SplitsInv, TrainedInv, [Next]_vars PROVE TrainedInv'
  OBVIOUS
<1>1. CASE trained' = NoTraining
  BY <1>1 DEF TrainedInv, NoTraining
<1>2. CASE pc # "idle" /\ UNCHANGED trained
  BY <1>1, <1>2 DEF TrainedInv
<1>3. CASE SplitRefused \/ ReadinessRefused \/ GateRefused \/ DatabaseUnread \/ TrainRefused
  BY <1>1, <1>3 DEF SplitRefused, ReadinessRefused, GateRefused,
        DatabaseUnread, TrainRefused, Refuses
<1>4. CASE Split \/ Readiness \/ Gate
  BY <1>1, <1>4 DEF Split, Readiness, Gate, Starts
<1>5. CASE WriteCore \/ WriteDrawnTuning \/ WriteDrawnFormal
  BY <1>2, <1>5 DEF WriteCore, WriteDrawnTuning, WriteDrawnFormal
<1>6. CASE WriteEngineering \/ WriteTuning \/ WriteFormal \/ WriteFormalTrain
  BY <1>2, <1>6 DEF WriteEngineering, WriteTuning, WriteFormal, WriteFormalTrain, GateWrites
<1>7. CASE WriteManifests \/ CheckDatabases \/ WriteReport \/ WriteLock \/ Kill
  BY <1>2, <1>7 DEF WriteManifests, CheckDatabases, WriteReport, WriteLock, Kill
<1>8. CASE \E name \in Name : Train(name)
  BY <1>8, TrainKeepsTrained
<1>9. CASE UNCHANGED vars
  BY <1>9 DEF vars, drawn, TrainedInv
<1>10. QED
  BY <1>3, <1>4, <1>5, <1>6, <1>7, <1>8, <1>9 DEF Next

\* A lock pins a partition, and until other rows are drawn no file contradicts it and
\* training on formal_train.jsonl meets no validation row.
THEOREM SplitsStayLocked == Spec => []LockedSplits
<1>1. Init => TrainedInv
  BY DEF Init, TrainedInv, NoTraining
<1>2. SplitsInv /\ TrainedInv => LockedSplits
  BY DEF SplitsInv, FileInv, TrainedInv, LockedSplits, Held
<1>3. QED
  <2>1. SplitsInv /\ TrainedInv /\ [Next]_vars => TrainedInv'
    BY NextKeepsTrained
  <2>2. QED
    BY <1>1, <1>2, <2>1, InvInductive, PTL DEF Spec

\* The report published with the splits counts every question two of them share.
THEOREM SharingReported == Spec => []SharedQuestionsReported
<1>1. SplitsInv => SharedQuestionsReported
  BY DEF SplitsInv
<1>2. QED
  BY <1>1, InvInductive, PTL
-----------------------------------------------------------------------------
\* Every seed shuffles a pool so that no two of its rows share a place.
LEMMA ShuffleNumbers ==
  ASSUME NEW seed \in Seed \cup {FormalSeed}, NEW pool \in SUBSET Row
  PROVE  Numbers(Shuffle(seed, pool), pool)
  BY ShuffleAssumption DEF Numbers

LEMMA SplitDraws == Split => DrawIsStratified'
<1> SUFFICES ASSUME Split PROVE DrawIsStratified'
  OBVIOUS
<1>1. PICK seed \in Seed, size \in ValidationSize :
        LET rank == RankIn(Shuffle(seed, Prepared), Prepared)
            tuning == First(rank, Prepared, size) IN
        /\ Starts("core")
        /\ Cardinality(Prepared) > size
        /\ plan' = [tuning |-> tuning, formal |-> {}, train |-> Prepared \ tuning, rank |-> rank]
  BY DEF Split
<1> DEFINE order == Shuffle(seed, Prepared)
           tuning == First(RankIn(order, Prepared), Prepared, size)
<1>2. Prepared \in SUBSET Row /\ Cardinality(Prepared) \in Nat
  <2>1. Prepared \in SUBSET Row
    BY DEF Prepared
  <2>2. QED
    BY <2>1, RowsFinite
<1>3. Numbers(order, Prepared)
  BY <1>2, ShuffleNumbers
<1>4. pc' = "core" /\ plan'.tuning = tuning /\ plan'.train = Prepared \ tuning
  BY <1>1 DEF Starts
<1> HIDE DEF order
<1>5. size \in Nat /\ size <= Cardinality(Prepared)
  BY <1>1, <1>2
<1>6. Cardinality(tuning) = size
  BY <1>2, <1>3, <1>5, DrawHasSize
<1>7. Even(tuning, Prepared \ tuning)
  BY <1>2, <1>3, <1>5, DrawIsEven
<1> HIDE DEF tuning
<1>8. QED
  BY <1>4, <1>6, <1>7 DEF DrawIsStratified, Even, OfDatabase

LEMMA ReadinessDraws == Readiness => DrawIsStratified'
<1> SUFFICES ASSUME Readiness PROVE DrawIsStratified'
  OBVIOUS
<1> DEFINE pool == {r \in Row : Key(r) \notin Keys(RowsOf(file["validation_tuning"].rows))}
           order == Shuffle(FormalSeed, pool)
           rank == RankIn(order, pool)
           n == FormalDraw(pool)
           formal == First(rank, pool, n)
           train == {r \in pool : Key(r) \notin Keys(formal)}
<1>1. pc' = "drawn_formal" /\ plan'.formal = formal /\ plan'.train = train
  BY DEF Readiness, Starts
<1>2. pool \in SUBSET Row
  OBVIOUS
<1>3. Numbers(order, pool)
  BY <1>2, ShuffleNumbers
<1>4. train \in SUBSET (pool \ formal)
  BY DEF Keys
<1> HIDE DEF pool, order
<1>5. /\ n \in Nat /\ FormalSize <= n
      /\ Cardinality({DbOf[r] : r \in pool}) <= n
  <2> DEFINE dbs == {DbOf[r] : r \in pool}
             g == [r \in pool |-> DbOf[r]]
  <2>1. g \in Surjection(pool, dbs)
    BY DEF Surjection
  <2>2. IsFiniteSet(dbs)
    BY <1>2, <2>1, RowsFinite, FS_Surjection
  <2>3. Cardinality(dbs) \in Nat
    BY <2>2, FS_CardinalityType
  <2>4. QED
    BY <2>3 DEF FormalDraw
<1> HIDE DEF n
<1>6. Even(formal, pool \ formal)
  BY <1>2, <1>3, <1>5, DrawIsEven
<1>7. \A s \in pool : OfDatabase(formal, s) > 0
  BY <1>2, <1>3, <1>5, EveryDatabaseDrawn
<1>8. train # {} => Cardinality(formal) >= FormalSize
  <2> SUFFICES ASSUME NEW s \in train PROVE Cardinality(formal) >= FormalSize
    OBVIOUS
  <2>1. s \in pool /\ s \notin formal
    BY <1>4
  <2>2. ~(rank[s] < n)
    BY <2>1 DEF First
  <2>3. rank[s] \in 0 .. Cardinality(pool) - 1 /\ Cardinality(pool) \in Nat
    BY <1>2, <1>3, <2>1, RankIsPlace, RowsFinite
  <2>4. n <= Cardinality(pool)
    <3> HIDE DEF rank
    <3>1. QED
      BY <1>5, <2>2, <2>3
  <2>5. Cardinality(formal) = n
    BY <1>2, <1>3, <1>5, <2>4, DrawHasSize
  <2>6. QED
    BY <1>5, <2>5
<1> HIDE DEF formal
<1>9. Even(formal, train) /\ \A s \in train : OfDatabase(formal, s) > 0
  BY <1>4, <1>6, <1>7 DEF Even
<1> HIDE DEF train
<1>10. QED
  BY <1>1, <1>8, <1>9 DEF DrawIsStratified, Even, OfDatabase

\* The draws are representative: the engineering set has the size asked for, and in
\* neither draw is a database more than a row ahead of one that has rows left; for
\* every source, every shuffle and every size (splitter.py 41-61,
\* build_formal_readiness.py 99-124).
THEOREM DrawsAreStratified == Spec => []DrawIsStratified
<1>1. Init => DrawIsStratified
  BY DEF Init, DrawIsStratified
<1>2. DrawIsStratified /\ [Next]_vars => DrawIsStratified'
  <2> SUFFICES ASSUME DrawIsStratified, [Next]_vars PROVE DrawIsStratified'
    OBVIOUS
  <2>1. CASE Split
    BY <2>1, SplitDraws
  <2>2. CASE Readiness
    BY <2>2, ReadinessDraws
  <2>3. CASE UNCHANGED <<pc, plan>>
    <3>1. \A rows, r : OfDatabase(rows, r)' = OfDatabase(rows, r)
      BY DEF OfDatabase
    <3>2. QED
      BY <2>3 DEF DrawIsStratified, Even, OfDatabase
  <2>4. CASE WriteCore
    <3>1. pc = "core" /\ pc' = "drawn_tuning" /\ plan' = plan
      BY <2>4 DEF WriteCore
    <3>2. QED
      BY <3>1 DEF DrawIsStratified, Even, OfDatabase
  <2>5. CASE pc' \notin {"core", "drawn_tuning", "drawn_formal"}
    BY <2>5 DEF DrawIsStratified
  <2>6. QED
    <3>1. CASE SplitRefused \/ ReadinessRefused \/ GateRefused \/ DatabaseUnread \/ TrainRefused
      BY <2>3, <3>1 DEF SplitRefused, ReadinessRefused, GateRefused,
        DatabaseUnread, TrainRefused, Refuses,
                        AtOnce
    <3>2. CASE \E name \in Name : Train(name)
      BY <2>3, <3>2 DEF Train, AtOnce
    <3>3. CASE UNCHANGED vars
      BY <2>3, <3>3 DEF vars
    <3>4. CASE WriteDrawnTuning \/ WriteDrawnFormal \/ Kill \/ WriteLock
      BY <2>5, <3>4 DEF WriteDrawnTuning, WriteDrawnFormal, Kill, WriteLock, Ends
    <3>5. CASE Gate \/ WriteManifests \/ CheckDatabases \/ WriteReport
      BY <2>5, <3>5 DEF Gate, Starts, WriteManifests, CheckDatabases, Ends, WriteReport
    <3>6. CASE WriteEngineering \/ WriteTuning \/ WriteFormal \/ WriteFormalTrain
      BY <2>5, <3>6 DEF WriteEngineering, WriteTuning, WriteFormal, WriteFormalTrain,
                        GateWrites
    <3>7. QED
      BY <2>1, <2>2, <2>4, <3>1, <3>2, <3>3, <3>4, <3>5, <3>6 DEF Next
<1>3. QED
  BY <1>1, <1>2, PTL DEF Spec
=============================================================================
