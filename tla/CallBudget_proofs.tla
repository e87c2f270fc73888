------------------------- MODULE CallBudget_proofs -------------------------
(***************************************************************************)
(* The clocked system is a QueryRunner, so everything proved of that one   *)
(* holds of it; and no caller waits longer than its armed timers allow,    *)
(* for every timeout and every bound of the clock.                         *)
(*                                                                         *)
(* The argument for the bound: while a timer is armed the clock has not    *)
(* passed its deadline, and the deadline is at most the phase's budget     *)
(* after the call was submitted: one timeout while it acquires, Patience   *)
(* while its statement runs.                                               *)
(***************************************************************************)
EXTENDS CallBudget, QueryRunner_proofs

OnTime ==
    \A c \in Calls :
        /\ started[c] <= now
        /\ Armed(c) => now <= deadline[c]
        /\ Phase(pc[c]) = "acquire" => deadline[c] <= started[c] + StatementTimeout
        /\ pc[c] = "running" => deadline[c] <= started[c] + Patience(c)
        /\ Decided(c) => decided[c] <= started[c] + Patience(c)

(* Every step of the clocked system is a step of QueryRunner or leaves its *)
(* variables alone.                                                        *)
LEMMA TimedStep == [TimedNext]_timedVars => [Next]_vars
BY DEF TimedNext, timedVars, Next, Step, Expire, Work, Tick, vars, pool, jobs

(* The clock only delays the system: it implements QueryRunner's Spec.     *)
THEOREM TimedImplements == TimedSpec => Spec
BY TimedStep, PTL DEF TimedSpec, TimedInit, Spec

(* The phase of a call's task.                                             *)
LEMMA Phases ==
    /\ \A p \in {"waiting", "acquired", "opening"} : Phase(p) = "acquire"
    /\ Phase("running") = "statement"
    /\ \A p \in {"idle", "auditing", "done"} : Phase(p) = "off"
BY DEF Phase

(* Typing of the clock, and the constants.                                 *)
LEMMA Budgets == /\ StatementTimeout \in Nat
                 /\ \A c \in Calls : Patience(c) \in Nat /\ StatementTimeout <= Patience(c)
BY BudgetAssumption DEF Patience

LEMMA StampTypes ==
    ASSUME TypeOK, TypeOK', ClockTypeOK, NEW c \in Calls, Stamp(c)
    PROVE  ClockTypeOK'
BY Budgets DEF Stamp, Arm, ClockTypeOK

(* What a step of a call's task leaves of the other calls.                 *)
LEMMA OthersUntouched ==
    ASSUME TypeOK, NEW c \in Calls, Submit(c) \/ Task(c) \/ Timer(c), NEW d \in Calls, d # c
    PROVE  pc'[d] = pc[d] /\ outcome'[d] = outcome[d]
BY DEF TypeOK, Submit, Task, Timer, RefuseParams, SubmitFile, SubmitMemory, Acquire, TakeIdle,
       Evict, CreateConn, OpenJoined, OpenFailed, QueryJoined, AuditJoined, AcquireTimeout,
       QueryTimeout, Decide, Lend

(* How a call's task may move: from where to where, and when its outcome   *)
(* is decided.                                                             *)
Advance(c) ==
    \/ pc'[c] = pc[c] /\ outcome'[c] = outcome[c]
    \/ pc[c] = "idle" /\ pc'[c] = "waiting" /\ outcome'[c] = outcome[c]
    \/ pc[c] = "idle" /\ pc'[c] = "running" /\ outcome'[c] = outcome[c]
    \/ /\ pc[c] \in {"waiting", "acquired"} /\ pc'[c] \in {"acquired", "opening"}
       /\ outcome'[c] = outcome[c]
    \/ /\ pc[c] \in {"acquired", "opening"} /\ pc'[c] = "running"
       /\ c \in FileCalls /\ outcome'[c] = outcome[c]
    \/ /\ pc[c] \in {"idle", "opening", "waiting", "running"}
       /\ pc'[c] \in {"auditing", "done"} /\ outcome'[c] # "none"
    \/ pc[c] = "auditing" /\ pc'[c] = "done" /\ outcome'[c] = outcome[c]

LEMMA TaskAdvances ==
    ASSUME TypeOK, Shape, NEW c \in Calls, Submit(c) \/ Task(c) \/ Timer(c)
    PROVE  Advance(c)
<1>. USE DEF TypeOK, Shape, Advance, FileCalls, PC, Outcome
<1>1. CASE Submit(c)
  BY <1>1 DEF Submit, RefuseParams, SubmitFile, SubmitMemory, Decide
<1>2. CASE Task(c)
  BY <1>2 DEF Task, Acquire, TakeIdle, Evict, CreateConn, OpenJoined, OpenFailed,
              QueryJoined, AuditJoined, Decide, Lend
<1>3. CASE Timer(c)
  BY <1>3 DEF Timer, AcquireTimeout, QueryTimeout, Decide
<1>. QED
  BY <1>1, <1>2, <1>3

(* A step of a call's task keeps every caller on time.                     *)
LEMMA StampOnTime ==
    ASSUME TypeOK, Shape, Verdict, ClockTypeOK, OnTime, ClockTypeOK',
           NEW c \in Calls, Submit(c) \/ Task(c) \/ Timer(c), Stamp(c)
    PROVE  OnTime'
<1>. SUFFICES ASSUME NEW d \in Calls
              PROVE  /\ started'[d] <= now'
                     /\ Armed(d)' => now' <= deadline'[d]
                     /\ Phase(pc'[d]) = "acquire"
                          => deadline'[d] <= started'[d] + StatementTimeout
                     /\ pc'[d] = "running" => deadline'[d] <= started'[d] + Patience(d)
                     /\ Decided(d)' => decided'[d] <= started'[d] + Patience(d)
  BY DEF OnTime
<1>. USE Budgets, Phases DEF OnTime, ClockTypeOK, Armed, Decided
<1>1. CASE d # c
  <2>1. pc'[d] = pc[d] /\ outcome'[d] = outcome[d]
    BY <1>1, OthersUntouched
  <2>2. started'[d] = started[d] /\ deadline'[d] = deadline[d] /\ decided'[d] = decided[d]
    BY <1>1 DEF Stamp, Arm
  <2>. QED
    BY <2>1, <2>2 DEF Stamp
<1>2. CASE d = c
  <2>1. Advance(c) /\ now' = now
    BY TaskAdvances DEF Stamp
  <2>2. /\ started'[c] = IF pc[c] = "idle" /\ pc'[c] # "idle" THEN now ELSE started[c]
        /\ decided'[c] = IF outcome'[c] # outcome[c] THEN now ELSE decided[c]
        /\ deadline'[c] = IF Phase(pc'[c]) \notin {Phase(pc[c]), "off"}
                            THEN now + StatementTimeout ELSE deadline[c]
    BY DEF Stamp, Arm
  <2>3. pc[c] \in PC /\ (outcome[c] = "none" <=> pc[c] \notin {"auditing", "done"})
    BY DEF TypeOK, Verdict
  <2>4. c \in FileCalls => Patience(c) = StatementTimeout + StatementTimeout
    BY BudgetAssumption DEF Patience
  <2>5. CASE pc'[c] = pc[c] /\ outcome'[c] = outcome[c]
    BY <1>2, <2>1, <2>2, <2>3, <2>5
  <2>6. CASE pc[c] = "idle" /\ pc'[c] \in {"waiting", "running"} /\ outcome'[c] = outcome[c]
    BY <1>2, <2>1, <2>2, <2>3, <2>6
  <2>7. CASE /\ pc[c] \in {"waiting", "acquired"} /\ pc'[c] \in {"acquired", "opening"}
             /\ outcome'[c] = outcome[c]
    BY <1>2, <2>1, <2>2, <2>3, <2>7
  <2>8. CASE /\ pc[c] \in {"acquired", "opening"} /\ pc'[c] = "running"
             /\ c \in FileCalls /\ outcome'[c] = outcome[c]
    BY <1>2, <2>1, <2>2, <2>3, <2>4, <2>8
  <2>9. CASE /\ pc[c] \in {"idle", "opening", "waiting", "running"}
             /\ pc'[c] \in {"auditing", "done"} /\ outcome'[c] # "none"
    BY <1>2, <2>1, <2>2, <2>3, <2>9
  <2>10. CASE pc[c] = "auditing" /\ pc'[c] = "done" /\ outcome'[c] = outcome[c]
    BY <1>2, <2>1, <2>2, <2>3, <2>10
  <2>. QED
    BY <2>1, <2>5, <2>6, <2>7, <2>8, <2>9, <2>10 DEF Advance
<1>. QED
  BY <1>1, <1>2

(* The steps of the blocking threads and of the environment move neither a *)
(* call's task nor the clock; the clock only moves when no timer is due.   *)
LEMMA IdleOnTime ==
    ASSUME TypeOK, ClockTypeOK, OnTime,
           \/ \E c \in Calls : Work(c)
           \/ \E k \in Conns : Die(k) /\ UNCHANGED clockVars
           \/ Tick
           \/ UNCHANGED timedVars
    PROVE  OnTime' /\ ClockTypeOK'
<1>1. pc' = pc /\ outcome' = outcome
  BY DEF Work, Start, StatementEnds, StartOpen, StartQuery, StartAudit, FinishOpen, FailOpen,
         FinishQuery, FailQuery, Apply, FinishAudit, Die, Tick, timedVars, vars
<1>2. CASE UNCHANGED clockVars
  BY <1>1, <1>2 DEF clockVars, OnTime, ClockTypeOK, Armed, Decided
<1>3. CASE Tick
  BY <1>1, <1>3, Budgets DEF Tick, OnTime, ClockTypeOK, Armed, Decided
<1>. QED
  BY <1>2, <1>3 DEF Work, timedVars

ClockInv == ClockTypeOK /\ OnTime

(* Every step of the clocked system keeps every caller on time.            *)
LEMMA ClockStep == IInv /\ IInv' /\ ClockInv /\ [TimedNext]_timedVars => ClockInv'
<1>. SUFFICES ASSUME IInv, IInv', ClockInv, [TimedNext]_timedVars PROVE ClockInv'
  OBVIOUS
<1>. USE DEF IInv, ClockInv
<1>1. ASSUME NEW c \in Calls, Step(c) \/ Expire(c) PROVE ClockInv'
  <2>1. (Submit(c) \/ Task(c) \/ Timer(c)) /\ Stamp(c)
    BY <1>1 DEF Step, Expire
  <2>2. ClockTypeOK'
    BY <2>1, StampTypes
  <2>. QED
    BY <2>1, <2>2, StampOnTime
<1>2. CASE \/ \E c \in Calls : Work(c)
           \/ \E k \in Conns : Die(k) /\ UNCHANGED clockVars
           \/ Tick
           \/ UNCHANGED timedVars
  BY <1>2, IdleOnTime
<1>. QED
  BY <1>1, <1>2 DEF TimedNext

(* Every outcome is decided within two timeouts for a file database and    *)
(* within one for ":memory:", for every timeout and any number of calls.   *)
THEOREM CallersAreAnsweredInTime == TimedSpec => []DecidedInTime
<1>1. TimedInit => ClockInv
  BY Budgets, Phases DEF TimedInit, Init, ClockInv, ClockTypeOK, OnTime, Armed, Decided
<1>2. ClockInv => DecidedInTime
  BY Budgets DEF ClockInv, ClockTypeOK, OnTime, DecidedInTime
<1>3. TimedSpec => []IInv
  BY TimedImplements, Invariance, PTL
<1>. QED
  BY <1>1, <1>2, <1>3, ClockStep, PTL DEF TimedSpec
=============================================================================
