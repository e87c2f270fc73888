--------------------------- MODULE Listing_proofs ---------------------------
(***************************************************************************)
(* Listing in both modes, proved for every table, every page size, cursor  *)
(* columns with and without ties, and any writes between the pages.        *)
(*                                                                         *)
(* The argument for keyset mode: every row listed so far has a key at or below the cursor, *)
(* and every stable row at or below the cursor that has a uri and a key of *)
(* its own has been listed.  A page starts right after the cursor, so it   *)
(* repeats nothing; it holds every remaining row below its last key, so it *)
(* skips at most rows that share that key.  A page that ends the listing   *)
(* is short, because a full one has a row with a uri (FewWithoutUri), and  *)
(* a short page holds all that remains.                                    *)
(*                                                                         *)
(* For offset mode: as long as nothing before the offset changed, the rows *)
(* of rank below the offset are the ones that earlier pages were made of.  *)
(* That a page of n rows moves the offset past just these rows is a matter *)
(* of counting: ranks are an injection of the table into its size.         *)
(***************************************************************************)
EXTENDS Listing, FiniteSetTheorems, TLAPS

Behind ==
    \A r \in Rows :
        /\ listed[r] \in {0, 1}
        /\ ~ended /\ listed[r] = 1 => cursor # None /\ Key[r] <= cursor

NothingSkipped ==
    \A r \in stable \cap WithUri : KeyUnshared(r) =>
        /\ ended => listed[r] = 1
        /\ cursor # None /\ Key[r] <= cursor => listed[r] = 1

KeysetInv == /\ TypeOK
             /\ stable \subseteq table
             /\ mode = "keyset" => Behind /\ NothingSkipped

(* A page that does not end the listing continues from the key of one of   *)
(* its rows, at or above those of all its listed rows.                     *)
LEMMA KeysetCursor ==
    ASSUME mode = "keyset", NEW rows \in SUBSET Rows, NEW next \in NextCursor(rows), next # None
    PROVE  \E r \in Listable(rows) :
              next = Key[r] /\ \A q \in Listable(rows) : Key[q] <= Key[r]
<1>1. Cardinality(rows) \in Nat /\ PageSize \in Nat
  BY ListingAssumption, FS_Subset, FS_CardinalityType
<1>2. next \in LastKey(Listable(rows))
  BY <1>1 DEF NextCursor
<1>. QED
  BY <1>2 DEF LastKey

(* A page that ends the listing has fewer rows than page_size.             *)
LEMMA KeysetEnd ==
    ASSUME mode = "keyset", FewWithoutUri, NEW rows \in SUBSET Rows, None \in NextCursor(rows)
    PROVE  Cardinality(rows) < PageSize
<1>1. Cardinality(rows) \in Nat /\ PageSize \in Nat
  BY ListingAssumption, FS_Subset, FS_CardinalityType
<1>2. ASSUME Cardinality(rows) >= PageSize, Listable(rows) = {} PROVE FALSE
  <2>1. rows \subseteq Rows \ WithUri /\ IsFiniteSet(Rows \ WithUri)
    BY <1>2, ListingAssumption, FS_Subset DEF Listable
  <2>2. Cardinality(rows) <= Cardinality(Rows \ WithUri) /\ Cardinality(Rows \ WithUri) \in Nat
    BY <2>1, FS_Subset, FS_CardinalityType
  <2>. QED
    BY <1>1, <1>2, <2>2 DEF FewWithoutUri
<1>3. ASSUME Cardinality(rows) >= PageSize, Listable(rows) # {} PROVE FALSE
  <2>1. None \in LastKey(Listable(rows))
    BY <1>1, <1>3 DEF NextCursor
  <2>2. PICK r \in Listable(rows) : None = Key[r]
    BY <2>1 DEF LastKey
  <2>. QED
    BY <2>2, ListingAssumption DEF Listable
<1>. QED
  BY <1>1, <1>2, <1>3

(* A page keeps every variable in its type.                                *)
LEMMA PageTyped ==
    ASSUME TypeOK, stable \subseteq table, ListPage
    PROVE  /\ TypeOK' /\ stable' \subseteq table'
           /\ mode' = mode
<1>. USE ListingAssumption DEF TypeOK
<1>1. PICK rows \in SUBSET Remaining : \E next \in NextCursor(rows) :
         /\ cursor' = next
         /\ ended' = (next = None)
         /\ listed' = [r \in Rows |-> IF r \in Listable(rows) THEN listed[r] + 1 ELSE listed[r]]
  BY DEF ListPage
<1>2. rows \subseteq Rows /\ Cardinality(rows) \in Nat /\ PageSize \in Nat
  BY FS_Subset, FS_CardinalityType DEF Remaining
<1>3. Offset \in Nat
  BY DEF Offset
<1>4. NextCursor(rows) \subseteq Nat \cup {None}
  <2>1. LastKey(Listable(rows)) \subseteq Nat
    BY <1>2 DEF LastKey, Listable
  <2>2. CASE Cardinality(rows) < PageSize
    BY <1>2, <2>2 DEF NextCursor
  <2>3. CASE Cardinality(rows) >= PageSize /\ mode = "offset"
    BY <1>2, <1>3, <2>3 DEF NextCursor
  <2>4. CASE Cardinality(rows) >= PageSize /\ mode = "keyset"
    BY <1>2, <2>1, <2>4 DEF NextCursor
  <2>. QED
    BY <1>2, <2>2, <2>3, <2>4
<1>5. listed' \in [Rows -> Nat]
  BY <1>1
<1>. QED
  BY <1>1, <1>4, <1>5 DEF ListPage

(* A page keeps the invariant.                                             *)
LEMMA PageStep ==
    ASSUME FewWithoutUri, KeysetInv, ListPage
    PROVE  KeysetInv'
<1>. USE ListingAssumption DEF KeysetInv, TypeOK
<1>. SUFFICES ASSUME mode = "keyset" PROVE (Behind /\ NothingSkipped)'
  BY PageTyped
<1>1. PICK rows \in SUBSET Remaining : \E next \in NextCursor(rows) :
         /\ Result(rows)
         /\ cursor' = next
         /\ ended' = (next = None)
         /\ listed' = [r \in Rows |-> IF r \in Listable(rows) THEN listed[r] + 1 ELSE listed[r]]
  BY DEF ListPage
<1>2. /\ ~ended /\ cursor' \in NextCursor(rows) /\ Result(rows) /\ ended' = (cursor' = None)
      /\ UNCHANGED <<mode, table, stable, shifted>>
  BY <1>1 DEF ListPage
<1>3. Remaining = {r \in table : cursor = None \/ Key[r] > cursor} /\ rows \in SUBSET Rows
  BY DEF Remaining
<1>4. \A r \in Listable(rows) : listed[r] = 0
  BY <1>2, <1>3 DEF Listable, Behind
<1>5. /\ \A r \in Listable(rows) : listed'[r] = 1
      /\ \A r \in Rows \ Listable(rows) : listed'[r] = listed[r]
      /\ listed' \in [Rows -> Nat]
      /\ \A r \in Rows : listed'[r] \in {0, 1}
  BY <1>1, <1>3, <1>4 DEF Behind, Listable
<1>6. CASE cursor' = None
  <2>1. rows = Remaining
    BY <1>2, <1>3, <1>6, KeysetEnd DEF Result
  <2>2. \A r \in stable \cap WithUri : KeyUnshared(r) => listed'[r] = 1
    BY <1>3, <1>5, <2>1 DEF NothingSkipped, Listable
  <2>. QED
    BY <1>2, <1>5, <1>6, <2>2 DEF Behind, NothingSkipped
<1>7. CASE cursor' # None
  <2>1. PICK last \in Listable(rows) :
          cursor' = Key[last] /\ \A q \in Listable(rows) : Key[q] <= Key[last]
    BY <1>2, <1>3, <1>7, KeysetCursor
  <2>2. cursor' \in Nat /\ last \in rows /\ (cursor # None => cursor < cursor')
    BY <1>3, <2>1 DEF Listable
  <2>3. ASSUME NEW r \in Rows, listed'[r] = 1 PROVE Key[r] <= cursor'
    BY <1>2, <1>5, <2>1, <2>2, <2>3 DEF Behind
  <2>4. ASSUME NEW r \in stable \cap WithUri, KeyUnshared(r), Key[r] <= cursor'
        PROVE  listed'[r] = 1
    <3>1. CASE r \in rows
      BY <1>5, <2>4, <3>1 DEF Listable
    <3>2. CASE r \notin Remaining
      BY <1>3, <1>5, <2>4, <3>2 DEF NothingSkipped, Listable
    <3>3. CASE r \in Remaining \ rows
      <4>1. Key[last] <= Key[r]
        BY <1>2, <2>2, <3>3 DEF Result, SortKey
      <4>2. Key[last] = Key[r] /\ last \in Rows /\ r \in Rows
        BY <1>3, <2>1, <2>2, <2>4, <4>1
      <4>. QED
        BY <2>2, <2>4, <3>3, <4>2 DEF KeyUnshared
    <3>. QED
      BY <3>1, <3>2, <3>3
  <2>. QED
    BY <1>2, <1>5, <1>7, <2>2, <2>3, <2>4 DEF Behind, NothingSkipped
<1>. QED
  BY <1>6, <1>7

(* So does every other step.                                               *)
LEMMA KeysetStep ==
    ASSUME FewWithoutUri
    PROVE  KeysetInv /\ [Next]_vars => KeysetInv'
<1>. SUFFICES ASSUME KeysetInv, [Next]_vars PROVE KeysetInv'
  OBVIOUS
<1>. USE DEF KeysetInv, TypeOK, Behind, NothingSkipped, Shift
<1>1. CASE ListPage
  BY <1>1, PageStep
<1>2. ASSUME NEW r \in Rows, Insert(r) PROVE KeysetInv'
  BY <1>2 DEF Insert
<1>3. ASSUME NEW r \in Rows, Delete(r) PROVE KeysetInv'
  BY <1>3 DEF Delete
<1>4. CASE UNCHANGED vars
  BY <1>4 DEF vars
<1>. QED
  BY <1>1, <1>2, <1>3, <1>4 DEF Next

(* The invariant holds throughout a keyset listing.                        *)
LEMMA KeysetInvariance ==
    ASSUME FewWithoutUri
    PROVE  Spec => []KeysetInv
<1>1. Init => KeysetInv
  <2>. SUFFICES ASSUME Init PROVE KeysetInv
    OBVIOUS
  <2>1. TypeOK /\ stable \subseteq table
    BY DEF Init, TypeOK
  <2>2. \A r \in Rows : listed[r] = 0
    BY DEF Init
  <2>3. cursor = None /\ ended = FALSE
    BY DEF Init
  <2>. QED
    BY <2>1, <2>2, <2>3 DEF KeysetInv, Behind, NothingSkipped
<1>2. KeysetInv /\ [Next]_vars => KeysetInv'
  BY KeysetStep
<1>. QED
  BY <1>1, <1>2, PTL DEF Spec

(* A keyset listing misses no row that was there all along and has a uri   *)
(* and a key of its own, provided rows without a uri cannot fill a page    *)
(* (without that, ListingSparse.cfg shows it may).                         *)
THEOREM KeysetComplete ==
    ASSUME FewWithoutUri
    PROVE  Spec => []StableListed
<1>1. KeysetInv => StableListed
  BY DEF KeysetInv, NothingSkipped, StableListed
<1>. QED
  BY <1>1, KeysetInvariance, PTL

(* And it lists no row twice.                                              *)
THEOREM KeysetNoDuplicate ==
    ASSUME FewWithoutUri
    PROVE  Spec => []ListedOnce
<1>1. KeysetInv => ListedOnce
  BY DEF KeysetInv, Behind, ListedOnce
<1>. QED
  BY <1>1, KeysetInvariance, PTL

-----------------------------------------------------------------------------
(* Offset mode.                                                            *)

Below(r) == {q \in table : Place[q] < Place[r]}

(* The rows that the offset skips.                                         *)
Passed == {r \in table : Rank(r) < Offset}

AllPassedListed ==
    /\ \A r \in Rows : listed[r] \in {0, 1}
    /\ ~ended =>
         /\ \A r \in Rows : listed[r] = 1 => r \in Passed
         /\ \A r \in stable \cap WithUri \cap Passed : listed[r] = 1
    /\ ended => \A r \in stable \cap WithUri : listed[r] = 1

OffsetInv == /\ TypeOK
             /\ stable \subseteq table
             /\ mode = "offset" /\ ~shifted => AllPassedListed

(* The rank of a row counts the rows before it, and orders the rows as     *)
(* their places do.                                                        *)
LEMMA RankOrders ==
    ASSUME table \subseteq Rows
    PROVE  /\ IsFiniteSet(table)
           /\ \A r \in Rows : /\ IsFiniteSet(Below(r)) /\ Rank(r) \in Nat
                              /\ Rank(r) = Cardinality(Below(r))
           /\ \A r, q \in Rows : Place[r] <= Place[q] => Rank(r) <= Rank(q)
           /\ \A r \in table, q \in Rows : Place[r] < Place[q] => Rank(r) < Rank(q)
<1>. USE ListingAssumption
<1>1. IsFiniteSet(table)
  BY FS_Subset
<1>2. \A r \in Rows : /\ IsFiniteSet(Below(r)) /\ Cardinality(Below(r)) \in Nat
                     /\ Rank(r) = Cardinality(Below(r))
  BY <1>1, FS_Subset, FS_CardinalityType DEF Below, Rank
<1>3. ASSUME NEW r \in Rows, NEW q \in Rows, Place[r] <= Place[q]
      PROVE  Rank(r) <= Rank(q)
  <2>1. Below(r) \subseteq Below(q)
    BY <1>3 DEF Below
  <2>. QED
    BY <1>2, <2>1, FS_Subset
<1>4. ASSUME NEW r \in table, NEW q \in Rows, Place[r] < Place[q]
      PROVE  Rank(r) < Rank(q)
  <2>1. Below(r) \subseteq Below(q) /\ r \in Below(q) /\ r \notin Below(r)
    BY <1>4 DEF Below
  <2>2. /\ Cardinality(Below(r)) <= Cardinality(Below(q))
        /\ Cardinality(Below(r)) # Cardinality(Below(q))
    BY <1>2, <2>1, FS_Subset
  <2>. QED
    BY <1>2, <2>2
<1>. QED
  BY <1>1, <1>2, <1>3, <1>4

(* The ranks of the rows are 0, 1, ... without a gap.                      *)
LEMMA RanksAreDense ==
    ASSUME table \subseteq Rows, NEW n \in Nat, n < Cardinality(table)
    PROVE  \E r \in table : Rank(r) = n
<1> DEFINE size == Cardinality(table)
           ranks == [r \in table |-> Rank(r)]
<1>1. IsFiniteSet(table) /\ size \in Nat
  BY RankOrders, FS_CardinalityType
<1>2. ASSUME NEW r \in table PROVE Rank(r) \in 0..(size - 1)
  <2>1. Below(r) \subseteq table /\ r \notin Below(r)
    BY ListingAssumption DEF Below
  <2>2. Cardinality(Below(r)) <= size /\ Cardinality(Below(r)) # size
    BY <1>1, <2>1, FS_Subset
  <2>. QED
    BY <1>1, <2>2, RankOrders
<1>3. ranks \in Injection(table, 0..(size - 1))
  <2>1. ASSUME NEW r \in table, NEW q \in table, Rank(r) = Rank(q) PROVE r = q
    BY <2>1, RankOrders, ListingAssumption
  <2>. QED
    BY <1>2, <2>1 DEF Injection, IsInjective
<1>4. IsFiniteSet(0..(size - 1)) /\ Cardinality(0..(size - 1)) = size
  <2>. HIDE DEF size
  <2>1. 0 \in Int /\ size - 1 \in Int
    BY <1>1
  <2>2. /\ IsFiniteSet(0..(size - 1))
        /\ Cardinality(0..(size - 1)) = IF 0 > size - 1 THEN 0 ELSE (size - 1) - 0 + 1
    BY <2>1, FS_Interval
  <2>. QED
    BY <1>1, <2>2
<1>5. ranks \in Surjection(table, 0..(size - 1))
  BY <1>3, <1>4, FS_Injection
<1>6. n \in 0..(size - 1)
  BY <1>1
<1>. QED
  BY <1>5, <1>6 DEF Surjection

(* Of a set of rows without a gap, the ranks are those below its size.     *)
LEMMA InitialRanks ==
    ASSUME table \subseteq Rows, NEW D \in SUBSET table,
           \A r \in D, q \in table : Place[q] <= Place[r] => q \in D
    PROVE  /\ IsFiniteSet(D) /\ Cardinality(D) \in Nat
           /\ \A r \in table : r \in D <=> Rank(r) < Cardinality(D)
<1>1. IsFiniteSet(D) /\ Cardinality(D) \in Nat
  BY RankOrders, FS_Subset, FS_CardinalityType
<1>2. ASSUME NEW r \in D PROVE Rank(r) < Cardinality(D)
  <2>1. Below(r) \subseteq D /\ r \notin Below(r)
    BY ListingAssumption DEF Below
  <2>2. Cardinality(Below(r)) <= Cardinality(D) /\ Cardinality(Below(r)) # Cardinality(D)
    BY <1>1, <2>1, FS_Subset
  <2>. QED
    BY <1>1, <2>2, RankOrders
<1>3. ASSUME NEW r \in table, r \notin D PROVE Cardinality(D) <= Rank(r)
  <2>1. D \subseteq Below(r)
    BY <1>3, ListingAssumption DEF Below
  <2>2. Cardinality(D) <= Cardinality(Below(r))
    BY <2>1, RankOrders, FS_Subset
  <2>. QED
    BY <2>2, RankOrders
<1>4. \A r \in table : Rank(r) \in Nat
  BY RankOrders
<1>. QED
  BY <1>1, <1>2, <1>3, <1>4

(* The next cursor of a page in offset mode.                               *)
LEMMA OffsetCursor ==
    ASSUME TypeOK, mode = "offset", NEW rows \in SUBSET Rows, NEW next \in NextCursor(rows)
    PROVE  /\ next = None => Cardinality(rows) < PageSize
           /\ next # None => next = Offset + Cardinality(rows) /\ Cardinality(rows) >= PageSize
<1>1. Cardinality(rows) \in Nat /\ PageSize \in Nat
  BY ListingAssumption, FS_Subset, FS_CardinalityType
<1>2. CASE Cardinality(rows) < PageSize
  BY <1>1, <1>2 DEF NextCursor
<1>3. CASE Cardinality(rows) >= PageSize
  <2>1. next \in {Offset + Cardinality(rows)}
    BY <1>1, <1>3 DEF NextCursor
  <2>2. Offset \in Nat
    BY DEF Offset, TypeOK
  <2>3. next = Offset + Cardinality(rows) /\ next # None
    BY <1>1, <2>1, <2>2, ListingAssumption
  <2>. QED
    BY <1>3, <2>3
<1>. QED
  BY <1>1, <1>2, <1>3

(* As long as rows remain, the offset skips exactly as many as it says.    *)
LEMMA OffsetCounts ==
    ASSUME table \subseteq Rows, Offset \in Nat, Passed # table
    PROVE  Cardinality(Passed) = Offset
<1> DEFINE ranks == [r \in Passed |-> Rank(r)]
           skipped == Offset
<1>1. /\ IsFiniteSet(Passed) /\ Cardinality(Passed) \in Nat
      /\ \A r \in table : r \in Passed <=> Rank(r) < Cardinality(Passed)
  <2>1. Passed \in SUBSET table
    BY DEF Passed
  <2>2. ASSUME NEW r \in Passed, NEW q \in table, Place[q] <= Place[r] PROVE q \in Passed
    <3>1. Rank(q) <= Rank(r) /\ Rank(q) \in Nat /\ Rank(r) \in Nat /\ Rank(r) < Offset
      BY <2>2, RankOrders DEF Passed
    <3>. QED
      BY <3>1 DEF Passed
  <2>. QED
    BY <2>1, <2>2, InitialRanks
<1>2. Cardinality(Passed) <= skipped
  <2>1. ranks \in Injection(Passed, 0..(skipped - 1))
    <3>1. ASSUME NEW r \in Passed PROVE Rank(r) \in 0..(skipped - 1)
      BY RankOrders DEF Passed
    <3>2. ASSUME NEW r \in Passed, NEW q \in Passed, Rank(r) = Rank(q) PROVE r = q
      BY <3>2, RankOrders, ListingAssumption DEF Passed
    <3>. QED
      BY <3>1, <3>2 DEF Injection, IsInjective
  <2>. HIDE DEF ranks
  <2>2. /\ IsFiniteSet(0..(skipped - 1))
        /\ Cardinality(0..(skipped - 1)) = IF 0 > skipped - 1 THEN 0 ELSE (skipped - 1) - 0 + 1
    <3>1. 0 \in Int /\ skipped - 1 \in Int
      OBVIOUS
    <3>. HIDE DEF skipped
    <3>. QED
      BY <3>1, FS_Interval
  <2>3. Cardinality(Passed) <= Cardinality(0..(skipped - 1))
    BY <2>1, <2>2, FS_Injection
  <2>. QED
    BY <2>2, <2>3
<1>3. Cardinality(Passed) < Cardinality(table)
  <2>1. /\ Passed \subseteq table /\ IsFiniteSet(table)
        /\ Cardinality(table) \in Nat
    BY RankOrders, FS_CardinalityType DEF Passed
  <2>2. /\ Cardinality(Passed) <= Cardinality(table)
        /\ Cardinality(Passed) # Cardinality(table)
    BY <2>1, FS_Subset
  <2>. QED
    BY <1>1, <2>1, <2>2
<1>4. PICK r \in table : Rank(r) = Cardinality(Passed)
  BY <1>1, <1>3, RanksAreDense
<1>5. r \notin Passed
  BY <1>1, <1>4
<1>6. Offset <= Cardinality(Passed)
  BY <1>1, <1>4, <1>5 DEF Passed
<1>. QED
  BY <1>1, <1>2, <1>6

(* A page that does not end the listing moves the offset past its rows and *)
(* no others.                                                              *)
LEMMA PageMovesOffset ==
    ASSUME TypeOK, mode = "offset", UNCHANGED table,
           NEW rows \in SUBSET Remaining, Result(rows),
           cursor' = Offset + Cardinality(rows), Cardinality(rows) >= PageSize
    PROVE  Passed' = Passed \cup rows
<1>. USE ListingAssumption DEF TypeOK
<1>1. Offset \in Nat /\ table \subseteq Rows
  BY DEF Offset
<1>2. Remaining = table \ Passed
  <2>1. \A r \in table : Rank(r) \in Nat
    BY RankOrders
  <2>. QED
    BY <1>1, <2>1 DEF Remaining, Passed, Offset
<1>3. /\ IsFiniteSet(rows) /\ Cardinality(rows) \in Nat /\ IsFiniteSet(Passed)
      /\ rows # {}
  <2>1. IsFiniteSet(rows) /\ IsFiniteSet(Passed) /\ Cardinality(rows) \in Nat
    BY <1>1, <1>2, RankOrders, FS_Subset, FS_CardinalityType DEF Passed
  <2>2. rows # {}
    BY <2>1, FS_EmptySet
  <2>. QED
    BY <2>1, <2>2
<1>4. Cardinality(Passed) = Offset
  BY <1>1, <1>2, <1>3, OffsetCounts
<1> DEFINE D == Passed \cup rows
<1>5. Cardinality(D) = Offset + Cardinality(rows)
  <2>1. Passed \cap rows = {}
    BY <1>2
  <2>2. Cardinality(Passed \cap rows) = 0
    BY <2>1, FS_EmptySet
  <2>3. Cardinality(D) = Cardinality(Passed) + Cardinality(rows) - Cardinality(Passed \cap rows)
    BY <1>3, FS_Union
  <2>. QED
    BY <1>1, <1>3, <1>4, <2>2, <2>3
<1>6. ASSUME NEW r \in D, NEW q \in table, Place[q] <= Place[r] PROVE q \in D
  <2>1. CASE r \in Passed
    <3>1. Rank(q) <= Rank(r) /\ Rank(q) \in Nat /\ Rank(r) \in Nat /\ Rank(r) < Offset
      BY <1>1, <1>6, <2>1, RankOrders DEF Passed
    <3>. QED
      BY <1>1, <3>1 DEF Passed
  <2>2. CASE r \in rows /\ q \in Remaining \ rows
    <3>1. Place[r] <= Place[q]
      BY <2>2 DEF Result, SortKey
    <3>2. r = q
      BY <1>1, <1>2, <1>6, <2>2, <3>1
    <3>. QED
      BY <2>2, <3>2
  <2>. QED
    BY <1>2, <2>1, <2>2
<1>7. D \in SUBSET table
  BY <1>2 DEF Passed
<1>8. \A r \in table : r \in D <=> Rank(r) < Cardinality(D)
  BY <1>1, <1>6, <1>7, InitialRanks
<1>9. Offset' = Offset + Cardinality(rows)
  BY <1>1, <1>3 DEF Offset
<1>10. Passed' = {r \in table : Rank(r) < Offset + Cardinality(rows)}
  BY <1>9 DEF Passed, Rank
<1>11. Passed' = {r \in table : Rank(r) < Cardinality(D)}
  BY <1>5, <1>10
<1>. HIDE DEF D
<1>12. Passed' = D
  BY <1>7, <1>8, <1>11
<1>. QED
  BY <1>12 DEF D

(* A page keeps the invariant.                                             *)
LEMMA OffsetPageStep ==
    ASSUME OffsetInv, ListPage
    PROVE  OffsetInv'
<1>. USE ListingAssumption DEF OffsetInv, TypeOK
<1>. SUFFICES ASSUME mode = "offset", ~shifted PROVE AllPassedListed'
  BY PageTyped DEF ListPage
<1>1. PICK rows \in SUBSET Remaining : \E next \in NextCursor(rows) :
         /\ Result(rows)
         /\ cursor' = next
         /\ ended' = (next = None)
         /\ listed' = [r \in Rows |-> IF r \in Listable(rows) THEN listed[r] + 1 ELSE listed[r]]
  BY DEF ListPage
<1>2. /\ ~ended /\ cursor' \in NextCursor(rows) /\ Result(rows) /\ ended' = (cursor' = None)
      /\ UNCHANGED <<mode, table, stable, shifted>>
  BY <1>1 DEF ListPage
<1>3. Offset \in Nat /\ rows \in SUBSET Rows
  BY DEF Offset, Remaining
<1>4. Remaining = table \ Passed
  <2>1. \A r \in table : Rank(r) \in Nat
    BY RankOrders
  <2>. QED
    BY <1>3, <2>1 DEF Remaining, Passed, Offset
<1>5. /\ \A r \in Listable(rows) : listed'[r] = 1
      /\ \A r \in Rows \ Listable(rows) : listed'[r] = listed[r]
      /\ \A r \in Rows : listed'[r] \in {0, 1}
  <2>1. \A r \in Listable(rows) : listed[r] = 0
    BY <1>2, <1>3, <1>4 DEF Listable, AllPassedListed
  <2>. QED
    BY <1>1, <1>3, <2>1 DEF AllPassedListed, Listable
<1>6. CASE cursor' = None
  <2>1. rows = Remaining
    <3>1. Cardinality(rows) < PageSize /\ Cardinality(rows) \in Nat
      BY <1>2, <1>3, <1>6, OffsetCursor, FS_Subset, FS_CardinalityType
    <3>. QED
      BY <1>2, <3>1 DEF Result
  <2>2. \A r \in stable \cap WithUri : listed'[r] = 1
    BY <1>2, <1>4, <1>5, <2>1 DEF AllPassedListed, Listable
  <2>. QED
    BY <1>2, <1>5, <1>6, <2>2 DEF AllPassedListed
<1>7. CASE cursor' # None
  <2>1. Passed' = Passed \cup rows
    BY <1>2, <1>3, <1>7, OffsetCursor, PageMovesOffset
  <2>2. ASSUME NEW r \in Rows, listed'[r] = 1 PROVE r \in Passed'
    BY <1>2, <1>5, <2>1, <2>2 DEF AllPassedListed, Listable
  <2>3. ASSUME NEW r \in stable \cap WithUri, r \in Passed' PROVE listed'[r] = 1
    BY <1>2, <1>5, <2>1, <2>3 DEF AllPassedListed, Listable
  <2>. QED
    BY <1>2, <1>5, <1>7, <2>2, <2>3 DEF AllPassedListed
<1>. QED
  BY <1>6, <1>7

(* Inserting or deleting a row that the offset does not skip leaves the    *)
(* rows that it does skip as they are.                                     *)
LEMMA WriteBehindOffset ==
    ASSUME TypeOK, mode = "offset", ~shifted', UNCHANGED cursor,
           NEW r \in Rows, Shift(r), table' = table \cup {r} \/ table' = table \ {r}
    PROVE  Passed' \ {r} = Passed \ {r} /\ r \notin Passed /\ ~shifted
<1>. USE ListingAssumption DEF TypeOK
<1>1. /\ Offset \in Nat /\ Offset' = Offset /\ ~shifted /\ table \subseteq Rows
      /\ table' \subseteq Rows
  BY DEF Offset, Shift
<1>2. Offset <= Rank(r)
  <2>1. Rank(r) \in Nat
    BY <1>1, RankOrders
  <2>2. cursor # None => ~(Rank(r) < cursor)
    BY <1>1 DEF Shift
  <2>. QED
    BY <2>1, <2>2 DEF Offset
<1> DEFINE AfterBelow(q) == {p \in table' : Place[p] < Place[q]}
<1>3. ASSUME NEW q \in table \ {r}
      PROVE  /\ Place[q] < Place[r] => Rank(q)' = Rank(q)
             /\ Place[r] < Place[q] => Offset <= Rank(q) /\ Offset <= Rank(q)'
             /\ Rank(q) \in Nat /\ Rank(q)' \in Nat
             /\ Place[q] < Place[r] \/ Place[r] < Place[q]
  <2>1. Rank(q) \in Nat /\ Rank(r) \in Nat /\ Rank(q)' = Cardinality(AfterBelow(q))
    <3>1. Rank(q) \in Nat /\ Rank(r) \in Nat
      BY <1>1, RankOrders
    <3>2. Rank(q)' = Cardinality(AfterBelow(q))
      BY DEF Rank
    <3>. QED
      BY <3>1, <3>2
  <2>2. IsFiniteSet(AfterBelow(q)) /\ Cardinality(AfterBelow(q)) \in Nat
    BY <1>1, FS_Subset, FS_CardinalityType
  <2>3. ASSUME Place[q] < Place[r] PROVE Rank(q)' = Rank(q)
    <3>1. AfterBelow(q) = {p \in table : Place[p] < Place[q]}
      BY <1>1, <2>3
    <3>. QED
      BY <2>1, <3>1 DEF Rank
  <2>4. ASSUME Place[r] < Place[q] PROVE Offset <= Rank(q) /\ Offset <= Rank(q)'
    <3>1. Rank(r) <= Rank(q)
      BY <1>1, <2>4, RankOrders
    <3>2. Below(r) \subseteq AfterBelow(q)
      BY <1>1, <2>4 DEF Below
    <3>3. Cardinality(Below(r)) <= Cardinality(AfterBelow(q))
      BY <2>2, <3>2, FS_Subset
    <3>4. Cardinality(Below(r)) = Rank(r)
      BY <1>1, RankOrders
    <3>. QED
      BY <1>1, <1>2, <2>1, <2>2, <3>1, <3>3, <3>4
  <2>5. Place[q] < Place[r] \/ Place[r] < Place[q]
    BY <1>1
  <2>. QED
    BY <2>1, <2>2, <2>3, <2>4, <2>5
<1>4. \A q \in table \ {r} : Rank(q) < Offset <=> Rank(q)' < Offset
  BY <1>1, <1>3
<1>5. Passed' \ {r} = {q \in table \ {r} : Rank(q)' < Offset}
  BY <1>1 DEF Passed
<1>6. Passed \ {r} = {q \in table \ {r} : Rank(q) < Offset}
  BY DEF Passed
<1>7. r \notin Passed
  <2>1. Rank(r) \in Nat
    BY <1>1, RankOrders
  <2>. QED
    BY <1>1, <1>2, <2>1 DEF Passed
<1>. QED
  BY <1>1, <1>4, <1>5, <1>6, <1>7

(* Every step keeps the invariant.                                         *)
LEMMA OffsetStep ==
    OffsetInv /\ [Next]_vars => OffsetInv'
<1>. SUFFICES ASSUME OffsetInv, [Next]_vars PROVE OffsetInv'
  OBVIOUS
<1>. USE DEF OffsetInv
<1>1. CASE ListPage
  BY <1>1, OffsetPageStep
<1>2. ASSUME NEW r \in Rows, Insert(r) PROVE OffsetInv'
  <2>1. TypeOK' /\ (stable \subseteq table)'
    BY <1>2 DEF Insert, Shift, TypeOK
  <2>2. ASSUME mode' = "offset", ~shifted' PROVE AllPassedListed'
    <3>1. /\ Passed' \ {r} = Passed \ {r} /\ ~shifted /\ r \notin Passed
          /\ UNCHANGED <<mode, ended, listed, stable>>
      BY <1>2, <2>2, WriteBehindOffset DEF Insert
    <3>. QED
      BY <1>2, <2>2, <3>1 DEF AllPassedListed, Insert
  <2>. QED
    BY <2>1, <2>2
<1>3. ASSUME NEW r \in Rows, Delete(r) PROVE OffsetInv'
  <2>1. TypeOK' /\ (stable \subseteq table)'
    BY <1>3 DEF Delete, Shift, TypeOK
  <2>2. ASSUME mode' = "offset", ~shifted' PROVE AllPassedListed'
    <3>1. /\ Passed' \ {r} = Passed \ {r} /\ ~shifted /\ r \notin Passed
          /\ UNCHANGED <<mode, ended, listed>> /\ stable' = stable \ {r}
      BY <1>3, <2>2, WriteBehindOffset DEF Delete
    <3>. QED
      BY <1>3, <2>2, <3>1 DEF AllPassedListed, Delete
  <2>. QED
    BY <2>1, <2>2
<1>4. CASE UNCHANGED vars
  BY <1>4 DEF vars, TypeOK, AllPassedListed, Passed, Offset, Rank
<1>. QED
  BY <1>1, <1>2, <1>3, <1>4 DEF Next

(* In offset mode a listing is exact, rows without a uri notwithstanding,  *)
(* as long as no row that the offset skips is inserted or deleted.         *)
THEOREM OffsetIsExact == Spec => []OffsetExact
<1>1. Init => OffsetInv
  <2>. SUFFICES ASSUME Init PROVE OffsetInv
    OBVIOUS
  <2>1. TypeOK /\ stable \subseteq table /\ Offset = 0
    BY DEF Init, TypeOK, Offset
  <2>2. Passed = {}
    BY <2>1, RankOrders DEF TypeOK, Passed
  <2>. QED
    BY <2>1, <2>2 DEF Init, OffsetInv, AllPassedListed
<1>2. OffsetInv => OffsetExact
  BY DEF OffsetInv, AllPassedListed, OffsetExact
<1>. QED
  BY <1>1, <1>2, OffsetStep, PTL DEF Spec
=============================================================================
