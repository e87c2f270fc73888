---------------------------- MODULE Watch_proofs ----------------------------
(***************************************************************************)
(* A watch notifies at most once per write, and misses no change that its  *)
(* baseline has taken up, whatever the range of the scalar.                *)
(*                                                                         *)
(* The argument for the count (Counted): every write since the watch       *)
(* started pays for one change on its way to the subscriber: a change the  *)
(* watch has not sampled yet (Unseen: what the next comparison leaves as   *)
(* the baseline differs from the scalar last written), one it has sampled  *)
(* and not compared (Pending), or a notification sent.  A tick moves a     *)
(* change from the first to the second to the third and makes none.        *)
(*                                                                         *)
(* The argument for what is missed, of a monotone query (Ordered): the     *)
(* baseline never exceeds the scalar last written and stays at or below a  *)
(* sample until the two are compared.  A subscriber whose first read       *)
(* followed the baseline and that is behind it, or that found no scalar    *)
(* while the baseline is now the last one written, has a notification      *)
(* waiting (Behind); both are needed for NothingMissed, as an emptied      *)
(* table hides how far behind the reader is until the next write.          *)
(***************************************************************************)
EXTENDS Watch, TLAPS

Current == Scalar = NoScalar \/ Scalar = last

Sampled == phase = "sampled" /\ cursor # NoScalar
Effective == IF Sampled THEN cursor ELSE baseline
Pending == IF Sampled /\ baseline # Unset /\ cursor # baseline THEN 1 ELSE 0
Unseen == IF Effective # Unset /\ Effective # last THEN 1 ELSE 0

Counted ==
    /\ emitted + Pending + Unseen <= written
    /\ phase = "off" => baseline = Unset /\ emitted = 0 /\ written = 0

Ordered ==
    monotone => /\ baseline <= last
                /\ phase = "sampled" =>
                      cursor <= last /\ (cursor = NoScalar \/ cursor >= baseline)

Behind ==
    monotone =>
        /\ view <= last
        /\ view # Unset /\ baseline = Unset => early
        /\ ~early /\ view \notin {Unset, NoScalar} /\ view < baseline => notified
        /\ ~early /\ view = NoScalar /\ Scalar # NoScalar /\ baseline = last => notified

NotifiedSet == notified => baseline # Unset

IInv == TypeOK /\ Current /\ Counted /\ Ordered

ReaderInv == IInv /\ NotifiedSet /\ Behind

(* What cursor_from_outcome makes of the results there can be.             *)
LEMMA CursorOfResult ==
    /\ \A v \in 0..MaxValue : CursorFromOutcome(Result(v)) = v
    /\ \A rows \in NoResult : CursorFromOutcome(rows) = NoScalar
    /\ \A rows \in Outcomes : CursorFromOutcome(rows) \in NoScalar..MaxValue
<1>. USE WatchAssumption DEF NoScalar, Null, Result
<1>1. \A v \in 0..MaxValue : CursorFromOutcome(Result(v)) = v
  BY DEF CursorFromOutcome
<1>2. \A rows \in NoResult : CursorFromOutcome(rows) = NoScalar
  BY DEF CursorFromOutcome, NoResult
<1>. QED
  BY <1>1, <1>2 DEF Outcomes

LEMMA InitInv == Init => IInv
<1>. SUFFICES ASSUME Init PROVE IInv
  OBVIOUS
<1>1. /\ monotone \in BOOLEAN /\ cancelled \in BOOLEAN
      /\ notified \in BOOLEAN /\ early \in BOOLEAN
  BY Zenon DEF Init
<1>2. source \in Outcomes
  BY WatchAssumption DEF Init, Outcomes
<1>3. Current
  <2>1. CASE source \in NoResult
    BY <2>1, CursorOfResult DEF Current, Scalar
  <2>2. CASE source \notin NoResult
    BY <2>2, CursorOfResult, WatchAssumption DEF Init, Current, Scalar
  <2>. QED
    BY <2>1, <2>2
<1>4. TypeOK
  BY <1>1, <1>2, WatchAssumption DEF Init, TypeOK, NoScalar, Unset
<1>5. Counted /\ Ordered
  BY <1>4, WatchAssumption DEF Init, TypeOK, Counted, Ordered, Pending, Unseen, Effective, Sampled,
     NoScalar, Unset
<1>. QED
  BY <1>3, <1>4, <1>5 DEF IInv

(* The steps of the watch leave the data and its scalar alone.             *)
LEMMA WorldUnchanged == UNCHANGED world => Scalar' = Scalar
BY DEF world, Scalar

LEMMA NextInv == IInv /\ [Next]_vars => IInv'
<1>. SUFFICES ASSUME IInv, [Next]_vars PROVE IInv'
  OBVIOUS
<1>0. Scalar \in NoScalar..MaxValue
  BY CursorOfResult DEF IInv, TypeOK, Scalar
<1>. USE <1>0, WatchAssumption DEF IInv, TypeOK, Current, Counted, Ordered, Pending, Unseen,
     Effective, Sampled, NoScalar, Unset, spec, world, reader, plugin
<1>1. ASSUME NEW query \in Queries, Watch(query) PROVE IInv'
  BY <1>1, WorldUnchanged DEF Watch
<1>2. CASE StartTick
  BY <1>2, WorldUnchanged DEF StartTick
<1>3. CASE Sample
  <2>1. cursor' \in {NoScalar, Scalar}
    BY <1>3, CursorOfResult DEF Sample, Scalar, NoResult
  <2>. QED
    BY <1>3, <2>1, WorldUnchanged DEF Sample
<1>4. CASE FailTick
  BY <1>4, WorldUnchanged DEF FailTick
<1>5. CASE Compare
  BY <1>5, WorldUnchanged DEF Compare
<1>6. CASE Cancel
  BY <1>6, WorldUnchanged DEF Cancel
<1>7. CASE Write
  <2>1. PICK v \in 0..MaxValue : (monotone => v > last) /\ source' = Result(v) /\ last' = v
    BY <1>7 DEF Write
  <2>2. Scalar' = v /\ source' \in Outcomes
    BY <2>1, CursorOfResult DEF Scalar, Outcomes
  <2>. QED
    BY <1>7, <2>1, <2>2 DEF Write
<1>8. CASE Empty
  <2>1. Scalar' = NoScalar /\ source' \in Outcomes
    BY <1>8, CursorOfResult DEF Empty, Scalar, Outcomes
  <2>. QED
    BY <1>8, <2>1 DEF Empty
<1>9. CASE FirstRead
  BY <1>9, WorldUnchanged DEF FirstRead
<1>10. CASE Reread
  <2>1. notified' \in BOOLEAN
    BY <1>10, Zenon DEF Reread
  <2>. QED
    BY <1>10, <2>1, WorldUnchanged DEF Reread
<1>11. CASE UNCHANGED vars
  BY <1>11, WorldUnchanged DEF vars
<1>. QED
  BY <1>1, <1>2, <1>3, <1>4, <1>5, <1>6, <1>7, <1>8, <1>9, <1>10, <1>11 DEF Next, Tick

THEOREM Inductive == Spec => []IInv
BY InitInv, NextInv, PTL DEF Spec

(* Every variable keeps its type; in particular a tick that finds no       *)
(* scalar never becomes the baseline.                                      *)
THEOREM TypeCorrect == Spec => []TypeOK
<1>1. IInv => TypeOK
  BY DEF IInv
<1>. QED
  BY <1>1, Inductive, PTL

(* No more notifications than writes since the watch started, whatever     *)
(* ticks fail or find no scalar (the closure of watch).                    *)
THEOREM NotifiesWritesOnly == Spec => []NotifiedOncePerWrite
<1>1. IInv => NotifiedOncePerWrite
  BY DEF IInv, TypeOK, Counted, Pending, Unseen, NotifiedOncePerWrite
<1>. QED
  BY <1>1, Inductive, PTL

(* The reader's part is kept by every step, given what the baseline keeps. *)
LEMMA InitBehind == Init => NotifiedSet /\ Behind
<1>. SUFFICES ASSUME Init PROVE NotifiedSet /\ Behind
  OBVIOUS
<1>1. ~notified /\ view = Unset /\ baseline = Unset /\ last \in NoScalar..MaxValue
  BY InitInv, Zenon DEF Init, IInv, TypeOK
<1>. QED
  BY <1>1, WatchAssumption DEF NotifiedSet, Behind, NoScalar, Unset

LEMMA NextNotified == IInv /\ NotifiedSet /\ [Next]_vars => NotifiedSet'
<1>. SUFFICES ASSUME IInv, NotifiedSet, [Next]_vars, notified' PROVE baseline' # Unset
  BY DEF NotifiedSet
<1>1. CASE Compare
  <2>1. baseline # Unset
    BY <1>1, Zenon DEF Compare, NotifiedSet
  <2>. QED
    BY <1>1, <2>1 DEF Compare, IInv, TypeOK, NoScalar, Unset
<1>2. CASE ~Compare
  <2>1. UNCHANGED <<notified, baseline>> \/ (notified' = FALSE)
    BY <1>2 DEF Next, Tick, Watch, StartTick, Sample, FailTick, Cancel,
       Write, Empty, FirstRead, Reread, vars, plugin
  <2>. QED
    BY <2>1 DEF NotifiedSet
<1>. QED
  BY <1>1, <1>2

LEMMA NextBehind == ReaderInv /\ [Next]_vars => Behind'
<1>. SUFFICES ASSUME ReaderInv, [Next]_vars PROVE Behind'
  OBVIOUS
<1>0. Scalar \in NoScalar..MaxValue
  BY CursorOfResult DEF ReaderInv, IInv, TypeOK, Scalar
<1>. USE <1>0, WatchAssumption DEF ReaderInv, IInv, TypeOK, Current, Ordered, Behind,
     NoScalar, Unset, spec, world, reader, plugin
<1>1. ASSUME NEW query \in Queries, Watch(query) PROVE Behind'
  BY <1>1, WorldUnchanged DEF Watch
<1>2. CASE StartTick
  BY <1>2, WorldUnchanged DEF StartTick
<1>3. CASE Sample
  BY <1>3, WorldUnchanged DEF Sample
<1>4. CASE FailTick
  BY <1>4, WorldUnchanged DEF FailTick
<1>5. CASE Compare
  <2>1. /\ notified => notified'
        /\ baseline # Unset /\ baseline' # baseline => notified'
    BY <1>5, Zenon DEF Compare
  <2>2. UNCHANGED <<monotone, last, view, early, Scalar>>
    BY <1>5, WorldUnchanged DEF Compare
  <2>3. baseline' = baseline \/ baseline' \in 0..MaxValue
    BY <1>5 DEF Compare
  <2>4. CASE baseline' = baseline
    BY <2>1, <2>2, <2>4
  <2>5. CASE baseline' # baseline /\ baseline = Unset
    BY <2>2, <2>3, <2>5
  <2>6. CASE baseline' # baseline /\ baseline # Unset
    <3>1. notified'
      BY <2>1, <2>6, Zenon
    <3>. QED
      BY <2>2, <2>3, <2>6, <3>1
  <2>. QED
    BY <2>4, <2>5, <2>6, Zenon
<1>6. CASE Cancel
  BY <1>6, WorldUnchanged DEF Cancel
<1>7. CASE Write
  <2>1. PICK v \in 0..MaxValue : (monotone => v > last) /\ source' = Result(v) /\ last' = v
    BY <1>7 DEF Write
  <2>2. Scalar' = v
    BY <2>1, CursorOfResult DEF Scalar
  <2>. QED
    BY <1>7, <2>1, <2>2 DEF Write
<1>8. CASE Empty
  <2>1. Scalar' = NoScalar
    BY <1>8, CursorOfResult DEF Empty, Scalar
  <2>. QED
    BY <1>8, <2>1 DEF Empty
<1>9. CASE FirstRead
  <2>1. ~early' => baseline # Unset
    BY <1>9, Zenon DEF FirstRead
  <2>. QED
    BY <1>9, <2>1, WorldUnchanged DEF FirstRead
<1>10. CASE Reread
  <2>1. ~notified' /\ baseline # Unset
    BY <1>10, Zenon DEF Reread, NotifiedSet
  <2>. QED
    BY <1>10, <2>1, WorldUnchanged DEF Reread
<1>11. CASE UNCHANGED vars
  BY <1>11, WorldUnchanged DEF vars
<1>. QED
  BY <1>1, <1>2, <1>3, <1>4, <1>5, <1>6, <1>7, <1>8, <1>9, <1>10, <1>11 DEF Next, Tick

(* When the baseline shows what the table holds, a subscriber of a         *)
(* monotone query that read something else has a notification waiting (the *)
(* closure of watch).                                                      *)
THEOREM MissesNothing == Spec => []NothingMissed
<1>1. Init => ReaderInv
  BY InitInv, InitBehind DEF ReaderInv
<1>2. ReaderInv /\ [Next]_vars => ReaderInv'
  BY NextInv, NextNotified, NextBehind DEF ReaderInv
<1>3. ReaderInv => NothingMissed
  BY WatchAssumption DEF ReaderInv, IInv, TypeOK, Current, Ordered, Behind, NothingMissed,
     NoScalar, Unset
<1>. QED
  BY <1>1, <1>2, <1>3, PTL DEF Spec
=============================================================================
