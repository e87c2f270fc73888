------------------------------- MODULE Watch -------------------------------
(***************************************************************************)
(* duckdb_poll (watch.rs): a subscriber learns of changes to a resource by *)
(* the polling of a scalar high-water query.  Each tick, on the watcher's  *)
(* own thread, opens a connection to the database, samples the scalar and  *)
(* compares it with the one last seen.  The loop, the baseline and the     *)
(* stop signal are the SDK's (spawn_polling_watch), modelled from the      *)
(* README and from what the poll closure is written against.               *)
(*                                                                         *)
(* A notification carries no value: the subscriber reads the resource when *)
(* it gets one.  Writers change what the query returns.  Under a monotone  *)
(* query (a sequence, max() of an append-only table) a value written is    *)
(* above all earlier ones; count(star), or max() where rows are deleted,   *)
(* may fall.  Either may lose its scalar: zero rows, or a row with NULL.   *)
(* A tick takes any time: nothing in the closure looks at timeout_ms.      *)
(***************************************************************************)
EXTENDS Integers, Sequences

CONSTANTS
    MaxValue,   \* bound on the scalar
    MaxWrites   \* bound on the writes while the watch is on

ASSUME WatchAssumption == MaxValue \in Nat /\ MaxWrites \in Nat

NoScalar == -1      \* None: no cursor
Unset == -2         \* no baseline recorded, nothing read yet
Null == -3          \* SQL NULL

(* The result of the tracking query, as far as the cap of one row lets it  *)
(* be read: rows of cells.  The query selects one column, so that the key  *)
(* order of the row's map does not matter.                                 *)
Result(cell) == << <<cell>> >>
NoResult == {<< >>, Result(Null)}
Outcomes == NoResult \cup {Result(v) : v \in 0..MaxValue}

Databases == {"file", "memory"}
Queries == {"blank", "read", "write"}

VARIABLES
    database,   \* of the watch spec
    monotone,   \* the tracking query never falls
    phase,      \* "off", "waiting" for the next tick, "polling", "sampled"
    cancelled,  \* the stop signal
    source,     \* what the query returns on the subscribed database now
    last,       \* the scalar last written
    cursor,     \* what this tick sampled
    baseline,   \* the cursor last seen
    notified,   \* a notification the subscriber has not acted on yet
    view,       \* what the subscriber read last
    early,      \* its first read came before the baseline
    written,    \* history: writes since the watch started
    emitted     \* history: notifications sent

vars == <<database, monotone, phase, cancelled, source, last, cursor, baseline,
          notified, view, early, written, emitted>>

TypeOK ==
    /\ database \in Databases
    /\ phase \in {"off", "waiting", "polling", "sampled"}
    /\ source \in Outcomes
    /\ last \in NoScalar..MaxValue
    /\ cursor \in NoScalar..MaxValue
    /\ baseline \in {Unset} \cup 0..MaxValue
    /\ view \in Unset..MaxValue
    /\ written \in 0..MaxWrites /\ emitted \in Nat
    /\ monotone \in BOOLEAN /\ cancelled \in BOOLEAN
    /\ notified \in BOOLEAN /\ early \in BOOLEAN

Init ==
    /\ database \in Databases /\ monotone \in BOOLEAN
    /\ phase = "off"
    /\ source \in NoResult \cup {Result(0)}
    /\ last = IF source = Result(0) THEN 0 ELSE NoScalar
    /\ cursor = NoScalar /\ baseline = Unset /\ view = Unset
    /\ cancelled = FALSE /\ notified = FALSE /\ early = FALSE
    /\ written = 0 /\ emitted = 0

spec == <<database, monotone>>
world == <<source, last, written>>
reader == <<view, early>>

-----------------------------------------------------------------------------
(* Faulty variant: the check for ":memory:" is missing.                    *)
BugWatch(query) ==
    /\ phase = "off"
    /\ query = "read"
    /\ phase' = "waiting"
    /\ UNCHANGED <<spec, cancelled, cursor, baseline, notified, emitted, world, reader>>

(* A watch starts on a file database with a query that passes the guard;   *)
(* any other spec is refused and nothing starts.                           *)
Watch(query) ==
    /\ phase = "off"
    /\ database # "memory"
    /\ query = "read"
    /\ phase' = "waiting"
    /\ UNCHANGED <<spec, cancelled, cursor, baseline, notified, emitted, world, reader>>

StartTick ==
    /\ phase = "waiting" /\ ~cancelled
    /\ phase' = "polling"
    /\ UNCHANGED <<spec, cancelled, cursor, baseline, notified, emitted, world, reader>>

(* Faulty variant: a NULL scalar is rendered like any other value.         *)
BugCursorFromOutcome(rows) ==
    IF rows = << >> \/ rows[1] = << >> THEN NoScalar
    ELSE IF rows[1][1] = Null THEN MaxValue
    ELSE rows[1][1]

(* cursor_from_outcome: the first cell of the first row; None, and no      *)
(* signal this tick, without a row, without a column, and for NULL.        *)
CursorFromOutcome(rows) ==
    IF rows = << >> \/ rows[1] = << >> \/ rows[1][1] = Null
    THEN NoScalar ELSE rows[1][1]

(* The tracking query; a ":memory:" connection is a fresh, empty engine.   *)
Sample ==
    /\ phase = "polling"
    /\ phase' = "sampled"
    /\ cursor' = CursorFromOutcome(IF database = "memory" THEN << >> ELSE source)
    /\ UNCHANGED <<spec, cancelled, baseline, notified, emitted, world, reader>>

(* Faulty variant: an error ends the watch.                                *)
BugFailTick ==
    /\ phase = "polling"
    /\ phase' = "off"
    /\ UNCHANGED <<spec, cancelled, cursor, baseline, notified, emitted, world, reader>>

(* Faulty variant: an error forgets the baseline.                          *)
BugFailTickForgets ==
    /\ phase = "polling"
    /\ phase' = "waiting"
    /\ baseline' = Unset
    /\ UNCHANGED <<spec, cancelled, cursor, notified, emitted, world, reader>>

(* The open or the query fails: logged, and retried on the next tick.      *)
FailTick ==
    /\ phase = "polling"
    /\ phase' = "waiting"
    /\ UNCHANGED <<spec, cancelled, cursor, baseline, notified, emitted, world, reader>>

(* Faulty variant: a tick without a scalar replaces the baseline too.      *)
BugCompare ==
    /\ phase = "sampled"
    /\ phase' = "waiting"
    /\ LET changed == baseline # Unset /\ cursor # baseline
       IN  /\ baseline' = cursor
           /\ notified' = (notified \/ changed)
           /\ emitted' = IF changed THEN emitted + 1 ELSE emitted
    /\ cursor' = NoScalar
    /\ UNCHANGED <<spec, cancelled, world, reader>>

(* The first scalar is the baseline; a different one becomes the baseline  *)
(* and is notified.  A tick without a scalar changes neither.              *)
Compare ==
    /\ phase = "sampled"
    /\ phase' = "waiting"
    /\ LET changed == cursor # NoScalar /\ baseline # Unset /\ cursor # baseline
       IN  /\ baseline' = IF cursor = NoScalar THEN baseline ELSE cursor
           /\ notified' = (notified \/ changed)
           /\ emitted' = IF changed THEN emitted + 1 ELSE emitted
    /\ cursor' = NoScalar
    /\ UNCHANGED <<spec, cancelled, world, reader>>

Cancel ==
    /\ phase # "off" /\ ~cancelled
    /\ cancelled' = TRUE
    /\ UNCHANGED <<spec, phase, cursor, baseline, notified, emitted, world, reader>>

-----------------------------------------------------------------------------
plugin == <<spec, phase, cancelled, cursor, baseline, emitted>>

(* The scalar of the subscribed database, if it has one.                   *)
Scalar == CursorFromOutcome(source)

Write ==
    /\ written < MaxWrites
    /\ \E v \in 0..MaxValue :
          /\ v # Scalar
          /\ monotone => v > last
          /\ source' = Result(v) /\ last' = v
    /\ written' = IF phase = "off" THEN 0 ELSE written + 1
    /\ UNCHANGED <<plugin, notified, reader>>

Empty ==
    /\ Scalar # NoScalar
    /\ source' \in NoResult
    /\ UNCHANGED <<last, written, plugin, notified, reader>>

(* The subscriber reads once on its own account, then on notifications.    *)
FirstRead ==
    /\ phase # "off" /\ view = Unset
    /\ view' = Scalar
    /\ early' = (baseline = Unset)
    /\ UNCHANGED <<plugin, notified, world>>

Reread ==
    /\ notified
    /\ notified' = FALSE
    /\ view' = Scalar
    /\ UNCHANGED <<plugin, early, world>>

Tick == StartTick \/ Sample \/ FailTick \/ Compare

Next == \/ \E query \in Queries : Watch(query)
        \/ Tick \/ Cancel
        \/ Write \/ Empty \/ FirstRead \/ Reread

Spec == Init /\ [][Next]_vars

(* The watcher's thread runs, its statements end and its failures are      *)
(* transient: a tick that is tried again and again succeeds.               *)
FairSpec == /\ Spec
            /\ WF_vars(Tick) /\ SF_vars(Sample)
            /\ WF_vars(FirstRead) /\ WF_vars(Reread)

-----------------------------------------------------------------------------
(* A subscriber is notified at most once for every write since the watch   *)
(* started: never on a quiet database, however often ticks fail, find zero *)
(* rows or a NULL, or find the scalar again after either (watch's closure  *)
(* with cursor_from_outcome).  A scalar that falls counts as a change.     *)
NotifiedOncePerWrite == emitted <= written

(* A change that the baseline has taken up is not lost: when the baseline  *)
(* shows what the table holds, a subscriber that read something else has a *)
(* notification waiting (the closure of watch samples the table, the       *)
(* subscriber reads it again, and the loop compares the sample, in any     *)
(* order; ticks fail in between).  Not claimed for a first read before the *)
(* baseline, nor for a query that may fall back to the value of the        *)
(* baseline.                                                               *)
NothingMissed ==
    monotone /\ ~early /\ baseline = Scalar /\ view \notin {Unset, Scalar} => notified

(* Once the data of a monotone query settles on a scalar, the subscriber   *)
(* of a watch that is not cancelled has read it, unless its first read     *)
(* came before the baseline: a change between the two is never notified.   *)
Watching == phase # "off" /\ ~cancelled

SubscriberCatchesUp ==
    \A v \in 0..MaxValue :
        (<>[](monotone /\ Scalar = v /\ ~early /\ view # Unset /\ ~cancelled))
            => <>[](view = v)

(* Nothing is ever watched that cannot change, and a watch goes on until   *)
(* it is cancelled: its baseline reaches whatever scalar the data settles  *)
(* on, however many ticks fail (is_memory_or_empty, the closure's Err).    *)
BaselineFollows ==
    \A v \in 0..MaxValue :
        (<>[](Scalar = v) /\ <>Watching /\ []~cancelled) => <>[](baseline = v)
=============================================================================
