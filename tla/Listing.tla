------------------------------ MODULE Listing ------------------------------
(***************************************************************************)
(* Enumerating a binding's resources page by page: list_resources (lib.rs) *)
(* binds the caller's cursor into the operator's list_query, and           *)
(* rows_to_resource_page (surface.rs) turns the rows into a page and the   *)
(* cursor of the next one.  Writers change the table between two pages:    *)
(* no transaction spans a listing.                                         *)
(*                                                                         *)
(* The statement is the operator's, of the shape ListQueryMode documents:  *)
(*   keyset   WHERE key > cursor ORDER BY key LIMIT page_size              *)
(*   offset   ORDER BY place LIMIT page_size OFFSET cursor                 *)
(* with a cursor column that the statement projects and that need not be   *)
(* unique (an updated_at): rows that share a key come in any order.  The   *)
(* first page of a keyset listing is asked for with a NULL, which the      *)
(* statement takes for a lower bound of every key.                         *)
(* Rows that have no uri are in the result but not in the page.  A call    *)
(* that fails leaves the client with the cursor it had, so retrying is the *)
(* call itself.                                                            *)
(***************************************************************************)
EXTENDS Naturals, FiniteSets

CONSTANTS
    Rows,       \* every row the table may ever hold
    Key,        \* the value of the cursor column of each row
    WithUri,    \* the rows whose uri column holds a string
    Place,      \* where the ORDER BY of an offset statement puts each row
    PageSize,   \* list_query.page_size
    Modes,      \* the pagination modes looked at: "keyset", "offset"
    None

ASSUME ListingAssumption ==
    /\ IsFiniteSet(Rows)
    /\ Key \in [Rows -> Nat]
    /\ Place \in [Rows -> Nat]
    /\ \A r, q \in Rows : Place[r] = Place[q] => r = q
    /\ WithUri \subseteq Rows
    /\ PageSize \in 1..1000
    /\ Modes \subseteq {"keyset", "offset"}
    /\ None \notin Nat

VARIABLES
    mode,       \* list_query.mode of the binding
    table,      \* the rows of the table now
    cursor,     \* the cursor the client will send (None: the first page)
    ended,      \* whether a page without next_cursor ended the listing
    listed,     \* how often each row was in a page
    stable,     \* the rows present from the start of the listing until now
    shifted     \* whether the rows an offset skips over have changed

vars == <<mode, table, cursor, ended, listed, stable, shifted>>

TypeOK ==
    /\ mode \in Modes
    /\ table \subseteq Rows
    /\ cursor \in Nat \cup {None}
    /\ ended \in BOOLEAN
    /\ listed \in [Rows -> Nat]
    /\ stable \subseteq Rows
    /\ shifted \in BOOLEAN

Init ==
    /\ mode \in Modes
    /\ table \in SUBSET Rows
    /\ stable = table
    /\ cursor = None
    /\ ended = FALSE
    /\ listed = [r \in Rows |-> 0]
    /\ shifted = FALSE

-----------------------------------------------------------------------------
(* The statement.                                                          *)

Rank(r) == Cardinality({q \in table : Place[q] < Place[r]})

SortKey == IF mode = "keyset" THEN Key ELSE Place

Remaining == IF cursor = None THEN table
             ELSE IF mode = "keyset" THEN {r \in table : Key[r] > cursor}
             ELSE {r \in table : Rank(r) >= cursor}

(* The rows are the first page_size of those that remain; run_query's cap  *)
(* is the same number.                                                     *)
Result(rows) ==
    /\ \A r \in rows, q \in Remaining \ rows : SortKey[r] <= SortKey[q]
    /\ Cardinality(rows) <= PageSize
    /\ rows # Remaining => Cardinality(rows) = PageSize

-----------------------------------------------------------------------------
(* rows_to_resource_page.                                                  *)

Offset == IF cursor = None THEN 0 ELSE cursor

Listable(rows) == rows \cap WithUri

LastKey(rows) == {Key[r] : r \in {r \in rows : \A q \in rows : Key[q] <= Key[r]}}

FirstKey(rows) == {Key[r] : r \in {r \in rows : \A q \in rows : Key[q] >= Key[r]}}

(* Faulty variants: a full page is taken for the last one; the cursor is   *)
(* that of the first row of the page; the offset counts only the rows that *)
(* made it into the page; a short page does not end the listing.           *)
BugEndsOnFull(rows) == {None}

BugCursorOfFirst(rows) ==
    IF Cardinality(rows) < PageSize \/ Listable(rows) = {} THEN {None}
    ELSE FirstKey(Listable(rows))

BugOffsetOfListed(rows) ==
    IF Cardinality(rows) < PageSize THEN {None}
    ELSE {Offset + Cardinality(Listable(rows))}

BugNeverShort(rows) == {Offset + Cardinality(rows)}

(* The next cursor, as a one-element set.  A page shorter than page_size   *)
(* has none.  In keyset mode it is the cursor column of the last row that  *)
(* has a uri, and a full page without such a row has none either.          *)
NextCursor(rows) ==
    CASE Cardinality(rows) < PageSize -> {None}
      [] Cardinality(rows) >= PageSize /\ mode = "offset" ->
            {Offset + Cardinality(rows)}
      [] Cardinality(rows) >= PageSize /\ mode = "keyset" ->
            IF Listable(rows) = {} THEN {None} ELSE LastKey(Listable(rows))

ListPage ==
    /\ ~ended
    /\ \E rows \in SUBSET Remaining : \E next \in NextCursor(rows) :
         /\ Result(rows)
         /\ cursor' = next
         /\ ended' = (next = None)
         /\ listed' = [r \in Rows |->
                         IF r \in Listable(rows) THEN listed[r] + 1 ELSE listed[r]]
    /\ UNCHANGED <<mode, table, stable, shifted>>

-----------------------------------------------------------------------------
(* The writers.                                                            *)

Shift(r) == shifted' = (shifted \/ (mode = "offset" /\ cursor # None /\ Rank(r) < cursor))

Insert(r) ==
    /\ r \notin table
    /\ table' = table \cup {r}
    /\ Shift(r)
    /\ UNCHANGED <<mode, cursor, ended, listed, stable>>

Delete(r) ==
    /\ r \in table
    /\ table' = table \ {r}
    /\ stable' = stable \ {r}
    /\ Shift(r)
    /\ UNCHANGED <<mode, cursor, ended, listed>>

Next == ListPage \/ \E r \in Rows : Insert(r) \/ Delete(r)

Spec == Init /\ [][Next]_vars

(* The client asks for the next page until there is none.                  *)
FairSpec == Spec /\ WF_vars(ListPage)

-----------------------------------------------------------------------------
(* Whether no other row has the key of r.                                  *)
KeyUnshared(r) == \A q \in Rows : Key[q] = Key[r] => q = r

(* A keyset listing that has ended has listed every row with a uri that    *)
(* was there all along, whatever was inserted and deleted between its      *)
(* pages, provided no other row shares its key: of rows that do, those     *)
(* behind a page boundary are skipped, and no others.                      *)
StableListed ==
    mode = "keyset" /\ ended =>
        \A r \in stable \cap WithUri : KeyUnshared(r) => listed[r] > 0

(* No row is listed twice, not even one deleted and inserted again between *)
(* two pages, or one that shares its key.                                  *)
ListedOnce == mode = "keyset" => \A r \in Rows : listed[r] <= 1

(* In offset mode every row with a uri that was there all along is listed, *)
(* and none twice, as long as nobody inserts or deletes a row before the   *)
(* current offset.                                                         *)
OffsetExact ==
    mode = "offset" /\ ~shifted =>
        /\ \A r \in Rows : listed[r] <= 1
        /\ ended => \A r \in stable \cap WithUri : listed[r] > 0

(* Every listing ends, even while rows keep being inserted and deleted,    *)
(* since the cursor or the offset only advances and the rows that may ever *)
(* be inserted, Rows, are finitely many.                                   *)
ListingEnds == <>ended

(* Fewer rows without a uri than fill a page: what keyset mode needs, so   *)
(* that a full page always yields a cursor.                                *)
FewWithoutUri == Cardinality(Rows \ WithUri) < PageSize
=============================================================================
