---------------------------- MODULE CallBudget ----------------------------
(***************************************************************************)
(* QueryRunner with a clock: how long a caller waits.  run_query arms one  *)
(* timer of statement_timeout_ms around pool.get and, once a connection is *)
(* lent, a second one of the same length around the statement's job; a     *)
(* ":memory:" call arms only the second.                                   *)
(*                                                                         *)
(* The clock advances in ticks.  A timer that is due fires before the next *)
(* tick: the delay between a deadline and the poll that sees it is taken   *)
(* to be shorter than a tick.  Every other step takes any time at all.     *)
(***************************************************************************)
EXTENDS QueryRunner

CONSTANTS
    StatementTimeout,   \* query.statement_timeout_ms, in ticks
    MaxNow              \* bound on the clock, for TLC

ASSUME BudgetAssumption == StatementTimeout \in Nat \ {0} /\ MaxNow \in Nat

VARIABLES
    now,        \* the clock
    started,    \* when each call was submitted
    deadline,   \* when its armed timer is due
    decided     \* when its outcome was decided

clockVars == <<now, started, deadline, decided>>
timedVars == <<vars, clockVars>>

Phase(p) == CASE p \in {"waiting", "acquired", "opening"} -> "acquire"
              [] p = "running" -> "statement"
              [] OTHER -> "off"

Armed(c) == Phase(pc[c]) # "off"

ClockTypeOK ==
    /\ now \in Nat
    /\ started \in [Calls -> Nat]
    /\ deadline \in [Calls -> Nat]
    /\ decided \in [Calls -> Nat]

TimedInit ==
    /\ Init
    /\ now = 0
    /\ started = [c \in Calls |-> 0]
    /\ deadline = [c \in Calls |-> 0]
    /\ decided = [c \in Calls |-> 0]

(* Faulty variant: every state of the call's task arms its own timer, so   *)
(* that waiting for a permit and opening are not under one timer.          *)
BugArm(c) ==
    deadline' = IF pc'[c] # pc[c] /\ Phase(pc'[c]) # "off"
                  THEN [deadline EXCEPT ![c] = now + StatementTimeout]
                  ELSE deadline

(* A timer is armed when a call enters a phase.                            *)
Arm(c) ==
    deadline' = IF Phase(pc'[c]) \notin {Phase(pc[c]), "off"}
                  THEN [deadline EXCEPT ![c] = now + StatementTimeout]
                  ELSE deadline

Stamp(c) ==
    /\ Arm(c)
    /\ started' = IF pc[c] = "idle" /\ pc'[c] # "idle"
                    THEN [started EXCEPT ![c] = now] ELSE started
    /\ decided' = IF outcome'[c] # outcome[c]
                    THEN [decided EXCEPT ![c] = now] ELSE decided
    /\ UNCHANGED now

Tick ==
    /\ now < MaxNow
    /\ \A c \in Calls : Armed(c) => now < deadline[c]
    /\ now' = now + 1
    /\ UNCHANGED <<vars, started, deadline, decided>>

Expire(c) == now >= deadline[c] /\ Timer(c) /\ Stamp(c)

Step(c) == (Submit(c) \/ Task(c)) /\ Stamp(c)

(* The blocking threads and the environment, which no timer bounds.        *)
Work(c) == /\ Start(c) \/ StatementEnds(c) \/ Apply(c) \/ FinishAudit(c)
           /\ UNCHANGED clockVars

TimedNext == \/ \E c \in Calls : Step(c) \/ Expire(c) \/ Work(c)
             \/ \E k \in Conns : Die(k) /\ UNCHANGED clockVars
             \/ Tick

TimedSpec == TimedInit /\ [][TimedNext]_timedVars

-----------------------------------------------------------------------------
Decided(c) == outcome[c] # "none"

(* A call never waits longer than its armed timers allow: an outcome is    *)
(* decided within two timeouts for a file database and within one for      *)
(* ":memory:", whatever the pool, the opens and the statements do.         *)
Patience(c) == IF c \in FileCalls THEN 2 * StatementTimeout ELSE StatementTimeout

DecidedInTime ==
    \A c \in Calls : Decided(c) => decided[c] - started[c] <= Patience(c)

(* What the configuration documents: statement_timeout_ms is the ceiling   *)
(* on the whole of open, statement and read.                               *)
WithinStatementTimeout ==
    \A c \in Calls : Decided(c) => decided[c] - started[c] <= StatementTimeout
=============================================================================
