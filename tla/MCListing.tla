----------------------------- MODULE MCListing -----------------------------
(* Instances of Listing for TLC: the rows are numbered, an offset          *)
(* statement sorts by that number, and two rows share a cursor column.     *)
EXTENDS Listing

MCRows == 1..6
MCKey == <<1, 2, 3, 3, 4, 5>>
MCPlace == [r \in MCRows |-> r]
MCOneBare == MCRows \ {2}          \* one row without a uri
MCTwoBare == MCRows \ {2, 3}       \* two in a row
=============================================================================
