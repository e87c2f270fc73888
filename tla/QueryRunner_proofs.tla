------------------------ MODULE QueryRunner_proofs ------------------------
(***************************************************************************)
(* The safety properties of QueryRunner, proved for every set of calls,    *)
(* every pool size and every number of blocking threads.                   *)
(*                                                                         *)
(* The argument: Shape ties a call's jobs and its connection to where its  *)
(* task is; with it TypeOK is inductive.  OneOwner and OpenIffOwned are    *)
(* inductive together on top of Shape; then PermitsConserved counts the    *)
(* permit holders, and PoolBounded follows because a connection is only    *)
(* created under a permit while no connection is idle.                     *)
(***************************************************************************)
EXTENDS QueryRunner, FiniteSetTheorems, TLAPS

(* Where a connection is owned outside the pool's idle queue.              *)
Owns(c) == \/ pc[c] = "opening" /\ openJob[c] = "ok"
           \/ c \in FileCalls /\ QueryPending(c)

Shape ==
    \A c \in Calls :
        /\ pc[c] \in {"idle", "waiting", "acquired"} => openJob[c] = "none"
        /\ pc[c] \in {"idle", "waiting", "acquired", "opening"} => queryJob[c] = "none"
        /\ pc[c] = "opening" => openJob[c] # "none"
        /\ pc[c] = "running" => queryJob[c] # "none"
        /\ c \in MemoryCalls => pc[c] \notin {"waiting", "acquired", "opening"}
        /\ held[c] # None <=> Owns(c)

(* The outcome decided for a call against what its jobs have done.         *)
Verdict ==
    \A c \in Calls :
        /\ outcome[c] = "none" <=> pc[c] \notin {"auditing", "done"}
        /\ outcome[c] = "ok" => applied[c]
        /\ outcome[c] = "rejected" => queryJob[c] = "none"
        /\ queryJob[c] = "ok" => applied[c]
        /\ queryJob[c] = "none" => ~applied[c]
        /\ outcome[c] = "none" => auditJob[c] = "none"
        /\ pc[c] = "auditing" => /\ Audited(c, outcome[c])
                                 /\ auditJob[c] \in {"queued", "running", "ok"}
        /\ pc[c] = "done" =>
             (IF Audited(c, outcome[c]) THEN auditJob[c] = "ok" ELSE auditJob[c] = "none")

IInv == /\ TypeOK
        /\ Shape
        /\ Verdict
        /\ OneOwner
        /\ OpenIffOwned
        /\ PermitsConserved
        /\ PoolBounded

-----------------------------------------------------------------------------
(* Every step keeps the variables in their types and each call's jobs and  *)
(* connection consistent with where its task is.                           *)
LEMMA ShapeStep ==
    ASSUME TypeOK, Shape, [Next]_vars
    PROVE  TypeOK' /\ Shape'
<1>. USE CallsAssumption, PoolAssumption
     DEF TypeOK, Shape, Owns, QueryPending, FileCalls, pool, jobs, PC, JobState, Outcome
<1>1. ASSUME NEW c \in Calls, RefuseParams(c) PROVE TypeOK' /\ Shape'
  BY <1>1 DEF RefuseParams, Decide
<1>2. ASSUME NEW c \in Calls, SubmitFile(c) PROVE TypeOK' /\ Shape'
  BY <1>2 DEF SubmitFile
<1>3. ASSUME NEW c \in Calls, SubmitMemory(c) PROVE TypeOK' /\ Shape'
  BY <1>3 DEF SubmitMemory
<1>4. ASSUME NEW c \in Calls, Acquire(c) PROVE TypeOK' /\ Shape'
  BY <1>4 DEF Acquire
<1>5. ASSUME NEW c \in Calls, CreateConn(c) PROVE TypeOK' /\ Shape'
  BY <1>5 DEF CreateConn
<1>6. ASSUME NEW c \in Calls, OpenJoined(c) PROVE TypeOK' /\ Shape'
  BY <1>6 DEF OpenJoined, Lend
<1>7. ASSUME NEW c \in Calls, OpenFailed(c) PROVE TypeOK' /\ Shape'
  BY <1>7 DEF OpenFailed, Decide
<1>8. ASSUME NEW c \in Calls, QueryJoined(c) PROVE TypeOK' /\ Shape'
  BY <1>8 DEF QueryJoined, Decide
<1>9. ASSUME NEW c \in Calls, AuditJoined(c) PROVE TypeOK' /\ Shape'
  BY <1>9 DEF AuditJoined
<1>10. ASSUME NEW c \in Calls, AcquireTimeout(c) PROVE TypeOK' /\ Shape'
  BY <1>10 DEF AcquireTimeout, Decide, DropOpened
<1>11. ASSUME NEW c \in Calls, QueryTimeout(c) PROVE TypeOK' /\ Shape'
  BY <1>11 DEF QueryTimeout, Decide
<1>12. ASSUME NEW c \in Calls, StartOpen(c) PROVE TypeOK' /\ Shape'
  BY <1>12 DEF StartOpen
<1>13. ASSUME NEW c \in Calls, StartQuery(c) PROVE TypeOK' /\ Shape'
  BY <1>13 DEF StartQuery
<1>14. ASSUME NEW c \in Calls, StartAudit(c) PROVE TypeOK' /\ Shape'
  BY <1>14 DEF StartAudit
<1>15. ASSUME NEW c \in Calls, FinishOpen(c) PROVE TypeOK' /\ Shape'
  BY <1>15 DEF FinishOpen
<1>16. ASSUME NEW c \in Calls, FailOpen(c) PROVE TypeOK' /\ Shape'
  BY <1>16 DEF FailOpen
<1>17. ASSUME NEW c \in Calls, FinishQuery(c) PROVE TypeOK' /\ Shape'
  BY <1>17 DEF FinishQuery, ReturnConn
<1>18. ASSUME NEW c \in Calls, FailQuery(c) PROVE TypeOK' /\ Shape'
  BY <1>18 DEF FailQuery, ReturnConn
<1>19. ASSUME NEW c \in Calls, Apply(c) PROVE TypeOK' /\ Shape'
  BY <1>19 DEF Apply
<1>20. ASSUME NEW c \in Calls, FinishAudit(c) PROVE TypeOK' /\ Shape'
  BY <1>20 DEF FinishAudit
<1>21. ASSUME NEW c \in Calls, NEW k \in Conns, TakeIdle(c, k) PROVE TypeOK' /\ Shape'
  BY <1>21 DEF TakeIdle, Lend
<1>22. ASSUME NEW c \in Calls, NEW k \in Conns, Evict(c, k) PROVE TypeOK' /\ Shape'
  BY <1>22 DEF Evict
<1>23. ASSUME NEW k \in Conns, Die(k) PROVE TypeOK' /\ Shape'
  BY <1>23 DEF Die
<1>24. CASE UNCHANGED vars
  BY <1>24 DEF vars
<1>. QED
  BY <1>1, <1>2, <1>3, <1>4, <1>5, <1>6, <1>7, <1>8, <1>9, <1>10, <1>11, <1>12,
     <1>13, <1>14, <1>15, <1>16, <1>17, <1>18, <1>19, <1>20, <1>21, <1>22, <1>23, <1>24
  DEF Next, Submit, Task, Timer, Start, StatementEnds

(* A decided outcome stays in line with what the call's statement did and  *)
(* with its audit event.                                                   *)
LEMMA VerdictStep ==
    ASSUME TypeOK, Shape, Verdict, [Next]_vars
    PROVE  Verdict'
<1>. USE DEF TypeOK, Shape, Verdict, Owns, QueryPending, FileCalls, Audited,
             pool, jobs, PC, JobState, Outcome
<1>1. ASSUME NEW c \in Calls, RefuseParams(c) PROVE Verdict'
  BY <1>1 DEF RefuseParams, Decide
<1>2. ASSUME NEW c \in Calls, SubmitFile(c) PROVE Verdict'
  BY <1>2 DEF SubmitFile
<1>3. ASSUME NEW c \in Calls, SubmitMemory(c) PROVE Verdict'
  BY <1>3 DEF SubmitMemory
<1>4. ASSUME NEW c \in Calls, Acquire(c) PROVE Verdict'
  BY <1>4 DEF Acquire
<1>5. ASSUME NEW c \in Calls, CreateConn(c) PROVE Verdict'
  BY <1>5 DEF CreateConn
<1>6. ASSUME NEW c \in Calls, OpenJoined(c) PROVE Verdict'
  BY <1>6 DEF OpenJoined, Lend
<1>7. ASSUME NEW c \in Calls, OpenFailed(c) PROVE Verdict'
  BY <1>7 DEF OpenFailed, Decide
<1>8. ASSUME NEW c \in Calls, QueryJoined(c) PROVE Verdict'
  BY <1>8 DEF QueryJoined, Decide
<1>9. ASSUME NEW c \in Calls, AuditJoined(c) PROVE Verdict'
  BY <1>9 DEF AuditJoined
<1>10. ASSUME NEW c \in Calls, AcquireTimeout(c) PROVE Verdict'
  BY <1>10 DEF AcquireTimeout, Decide, DropOpened
<1>11. ASSUME NEW c \in Calls, QueryTimeout(c) PROVE Verdict'
  BY <1>11 DEF QueryTimeout, Decide
<1>12. ASSUME NEW c \in Calls, StartOpen(c) PROVE Verdict'
  BY <1>12 DEF StartOpen
<1>13. ASSUME NEW c \in Calls, StartQuery(c) PROVE Verdict'
  BY <1>13 DEF StartQuery
<1>14. ASSUME NEW c \in Calls, StartAudit(c) PROVE Verdict'
  BY <1>14 DEF StartAudit
<1>15. ASSUME NEW c \in Calls, FinishOpen(c) PROVE Verdict'
  BY <1>15 DEF FinishOpen
<1>16. ASSUME NEW c \in Calls, FailOpen(c) PROVE Verdict'
  BY <1>16 DEF FailOpen
<1>17. ASSUME NEW c \in Calls, FinishQuery(c) PROVE Verdict'
  BY <1>17 DEF FinishQuery, ReturnConn
<1>18. ASSUME NEW c \in Calls, FailQuery(c) PROVE Verdict'
  BY <1>18 DEF FailQuery, ReturnConn
<1>19. ASSUME NEW c \in Calls, Apply(c) PROVE Verdict'
  BY <1>19 DEF Apply
<1>20. ASSUME NEW c \in Calls, FinishAudit(c) PROVE Verdict'
  BY <1>20 DEF FinishAudit
<1>21. ASSUME NEW c \in Calls, NEW k \in Conns, TakeIdle(c, k) PROVE Verdict'
  BY <1>21 DEF TakeIdle, Lend
<1>22. ASSUME NEW c \in Calls, NEW k \in Conns, Evict(c, k) PROVE Verdict'
  BY <1>22 DEF Evict
<1>23. ASSUME NEW k \in Conns, Die(k) PROVE Verdict'
  BY <1>23 DEF Die
<1>24. CASE UNCHANGED vars
  BY <1>24 DEF vars
<1>. QED
  BY <1>1, <1>2, <1>3, <1>4, <1>5, <1>6, <1>7, <1>8, <1>9, <1>10, <1>11, <1>12,
     <1>13, <1>14, <1>15, <1>16, <1>17, <1>18, <1>19, <1>20, <1>21, <1>22, <1>23, <1>24
  DEF Next, Submit, Task, Timer, Start, StatementEnds

(* No step gives a connection a second owner, or closes or leaks one that  *)
(* is owned.                                                               *)
LEMMA OwnerStep ==
    ASSUME TypeOK, Shape, OneOwner, OpenIffOwned, [Next]_vars
    PROVE  OneOwner' /\ OpenIffOwned'
<1>. USE CallsAssumption, PoolAssumption
     DEF TypeOK, Shape, OneOwner, OpenIffOwned, Owns, QueryPending, FileCalls, pool, jobs,
         PC, JobState
<1>1. ASSUME NEW c \in Calls, RefuseParams(c) PROVE OneOwner' /\ OpenIffOwned'
  BY <1>1 DEF RefuseParams, Decide
<1>2. ASSUME NEW c \in Calls, SubmitFile(c) PROVE OneOwner' /\ OpenIffOwned'
  BY <1>2 DEF SubmitFile
<1>3. ASSUME NEW c \in Calls, SubmitMemory(c) PROVE OneOwner' /\ OpenIffOwned'
  BY <1>3 DEF SubmitMemory
<1>4. ASSUME NEW c \in Calls, Acquire(c) PROVE OneOwner' /\ OpenIffOwned'
  BY <1>4 DEF Acquire
<1>5. ASSUME NEW c \in Calls, CreateConn(c) PROVE OneOwner' /\ OpenIffOwned'
  BY <1>5 DEF CreateConn
<1>6. ASSUME NEW c \in Calls, OpenJoined(c) PROVE OneOwner' /\ OpenIffOwned'
  BY <1>6 DEF OpenJoined, Lend
<1>7. ASSUME NEW c \in Calls, OpenFailed(c) PROVE OneOwner' /\ OpenIffOwned'
  BY <1>7 DEF OpenFailed, Decide
<1>8. ASSUME NEW c \in Calls, QueryJoined(c) PROVE OneOwner' /\ OpenIffOwned'
  BY <1>8 DEF QueryJoined, Decide
<1>9. ASSUME NEW c \in Calls, AuditJoined(c) PROVE OneOwner' /\ OpenIffOwned'
  BY <1>9 DEF AuditJoined
<1>10. ASSUME NEW c \in Calls, AcquireTimeout(c) PROVE OneOwner' /\ OpenIffOwned'
  BY <1>10 DEF AcquireTimeout, Decide, DropOpened
<1>11. ASSUME NEW c \in Calls, QueryTimeout(c) PROVE OneOwner' /\ OpenIffOwned'
  BY <1>11 DEF QueryTimeout, Decide
<1>12. ASSUME NEW c \in Calls, StartOpen(c) PROVE OneOwner' /\ OpenIffOwned'
  BY <1>12 DEF StartOpen
<1>13. ASSUME NEW c \in Calls, StartQuery(c) PROVE OneOwner' /\ OpenIffOwned'
  BY <1>13 DEF StartQuery
<1>14. ASSUME NEW c \in Calls, StartAudit(c) PROVE OneOwner' /\ OpenIffOwned'
  BY <1>14 DEF StartAudit
<1>15. ASSUME NEW c \in Calls, FinishOpen(c) PROVE OneOwner' /\ OpenIffOwned'
  BY <1>15 DEF FinishOpen
<1>16. ASSUME NEW c \in Calls, FailOpen(c) PROVE OneOwner' /\ OpenIffOwned'
  BY <1>16 DEF FailOpen
<1>17. ASSUME NEW c \in Calls, FinishQuery(c) PROVE OneOwner' /\ OpenIffOwned'
  BY <1>17 DEF FinishQuery, ReturnConn
<1>18. ASSUME NEW c \in Calls, FailQuery(c) PROVE OneOwner' /\ OpenIffOwned'
  BY <1>18 DEF FailQuery, ReturnConn
<1>19. ASSUME NEW c \in Calls, Apply(c) PROVE OneOwner' /\ OpenIffOwned'
  BY <1>19 DEF Apply
<1>20. ASSUME NEW c \in Calls, FinishAudit(c) PROVE OneOwner' /\ OpenIffOwned'
  BY <1>20 DEF FinishAudit
<1>21. ASSUME NEW c \in Calls, NEW k \in Conns, TakeIdle(c, k) PROVE OneOwner' /\ OpenIffOwned'
  BY <1>21 DEF TakeIdle, Lend
<1>22. ASSUME NEW c \in Calls, NEW k \in Conns, Evict(c, k) PROVE OneOwner' /\ OpenIffOwned'
  BY <1>22 DEF Evict
<1>23. ASSUME NEW k \in Conns, Die(k) PROVE OneOwner' /\ OpenIffOwned'
  BY <1>23 DEF Die
<1>24. CASE UNCHANGED vars
  BY <1>24 DEF vars
<1>. QED
  BY <1>1, <1>2, <1>3, <1>4, <1>5, <1>6, <1>7, <1>8, <1>9, <1>10, <1>11, <1>12,
     <1>13, <1>14, <1>15, <1>16, <1>17, <1>18, <1>19, <1>20, <1>21, <1>22, <1>23, <1>24
  DEF Next, Submit, Task, Timer, Start, StatementEnds

-----------------------------------------------------------------------------
(* Counting permits.                                                       *)

(* Every set of calls or of connections is finite and has a size.          *)
LEMMA FiniteSubsets ==
    /\ \A S \in SUBSET Calls : IsFiniteSet(S) /\ Cardinality(S) \in Nat
    /\ \A S \in SUBSET Conns : IsFiniteSet(S) /\ Cardinality(S) \in Nat
BY CallsAssumption, PoolAssumption, FS_Subset, FS_CardinalityType

(* How one step moves permits between the semaphore and the calls.         *)
PermitKept == Holders' = Holders /\ permits' = permits
PermitTaken(c) == c \notin Holders /\ Holders' = Holders \cup {c} /\ permits' = permits - 1
                  /\ permits > 0
PermitReturned(c) == c \in Holders /\ Holders' = Holders \ {c} /\ permits' = permits + 1

PermitMoves == PermitKept \/ \E c \in Calls : PermitTaken(c) \/ PermitReturned(c)

(* Every step is one of these moves.                                        *)
LEMMA PermitMovesStep ==
    ASSUME TypeOK, Shape, [Next]_vars
    PROVE  PermitMoves
<1>. USE DEF TypeOK, Shape, Holders, Holds, Owns, QueryPending, FileCalls, pool, jobs,
             PC, JobState, PermitMoves
<1>1. ASSUME NEW c \in Calls, RefuseParams(c) PROVE PermitMoves
  BY <1>1 DEF RefuseParams, Decide, PermitKept
<1>2. ASSUME NEW c \in Calls, SubmitFile(c) PROVE PermitMoves
  BY <1>2 DEF SubmitFile, PermitKept
<1>3. ASSUME NEW c \in Calls, SubmitMemory(c) PROVE PermitMoves
  BY <1>3 DEF SubmitMemory, PermitKept
<1>4. ASSUME NEW c \in Calls, Acquire(c) PROVE PermitMoves
  <2>1. PermitTaken(c)
    BY <1>4 DEF Acquire, PermitTaken
  <2>. QED
    BY <2>1
<1>5. ASSUME NEW c \in Calls, CreateConn(c) PROVE PermitMoves
  BY <1>5 DEF CreateConn, PermitKept
<1>6. ASSUME NEW c \in Calls, OpenJoined(c) PROVE PermitMoves
  BY <1>6 DEF OpenJoined, Lend, PermitKept
<1>7. ASSUME NEW c \in Calls, OpenFailed(c) PROVE PermitMoves
  <2>1. PermitReturned(c)
    BY <1>7 DEF OpenFailed, Decide, PermitReturned
  <2>. QED
    BY <2>1
<1>8. ASSUME NEW c \in Calls, QueryJoined(c) PROVE PermitMoves
  BY <1>8 DEF QueryJoined, Decide, PermitKept
<1>9. ASSUME NEW c \in Calls, AuditJoined(c) PROVE PermitMoves
  BY <1>9 DEF AuditJoined, PermitKept
<1>10. ASSUME NEW c \in Calls, AcquireTimeout(c) PROVE PermitMoves
  <2>1. CASE pc[c] = "waiting"
    BY <1>10, <2>1 DEF AcquireTimeout, Decide, PermitKept
  <2>2. CASE pc[c] = "opening"
    <3>1. PermitReturned(c)
      BY <1>10, <2>2 DEF AcquireTimeout, Decide, PermitReturned
    <3>. QED
      BY <3>1
  <2>. QED
    BY <1>10, <2>1, <2>2 DEF AcquireTimeout
<1>11. ASSUME NEW c \in Calls, QueryTimeout(c) PROVE PermitMoves
  BY <1>11 DEF QueryTimeout, Decide, PermitKept
<1>12. ASSUME NEW c \in Calls, StartOpen(c) PROVE PermitMoves
  BY <1>12 DEF StartOpen, PermitKept
<1>13. ASSUME NEW c \in Calls, StartQuery(c) PROVE PermitMoves
  BY <1>13 DEF StartQuery, PermitKept
<1>14. ASSUME NEW c \in Calls, StartAudit(c) PROVE PermitMoves
  BY <1>14 DEF StartAudit, PermitKept
<1>15. ASSUME NEW c \in Calls, FinishOpen(c) PROVE PermitMoves
  BY <1>15 DEF FinishOpen, PermitKept
<1>16. ASSUME NEW c \in Calls, FailOpen(c) PROVE PermitMoves
  BY <1>16 DEF FailOpen, PermitKept
<1>17. ASSUME NEW c \in Calls, FinishQuery(c) PROVE PermitMoves
  <2>1. CASE c \in MemoryCalls
    BY <1>17, <2>1 DEF FinishQuery, ReturnConn, PermitKept
  <2>2. CASE c \in FileCalls
    <3>1. PermitReturned(c)
      BY <1>17, <2>2 DEF FinishQuery, ReturnConn, PermitReturned
    <3>. QED
      BY <3>1
  <2>. QED
    BY <2>1, <2>2
<1>18. ASSUME NEW c \in Calls, FailQuery(c) PROVE PermitMoves
  <2>1. CASE c \in MemoryCalls
    BY <1>18, <2>1 DEF FailQuery, ReturnConn, PermitKept
  <2>2. CASE c \in FileCalls
    <3>1. PermitReturned(c)
      BY <1>18, <2>2 DEF FailQuery, ReturnConn, PermitReturned
    <3>. QED
      BY <3>1
  <2>. QED
    BY <2>1, <2>2
<1>19. ASSUME NEW c \in Calls, Apply(c) PROVE PermitMoves
  BY <1>19 DEF Apply, PermitKept
<1>20. ASSUME NEW c \in Calls, FinishAudit(c) PROVE PermitMoves
  BY <1>20 DEF FinishAudit, PermitKept
<1>21. ASSUME NEW c \in Calls, NEW k \in Conns, TakeIdle(c, k) PROVE PermitMoves
  BY <1>21 DEF TakeIdle, Lend, PermitKept
<1>22. ASSUME NEW c \in Calls, NEW k \in Conns, Evict(c, k) PROVE PermitMoves
  BY <1>22 DEF Evict, PermitKept
<1>23. ASSUME NEW k \in Conns, Die(k) PROVE PermitMoves
  BY <1>23 DEF Die, PermitKept
<1>24. CASE UNCHANGED vars
  BY <1>24 DEF vars, PermitKept
<1>. QED
  BY <1>1, <1>2, <1>3, <1>4, <1>5, <1>6, <1>7, <1>8, <1>9, <1>10, <1>11, <1>12,
     <1>13, <1>14, <1>15, <1>16, <1>17, <1>18, <1>19, <1>20, <1>21, <1>22, <1>23, <1>24
  DEF Next, Submit, Task, Timer, Start, StatementEnds

(* None of the moves changes the number of permits.                        *)
LEMMA PermitStep ==
    ASSUME TypeOK, PermitMoves, PermitsConserved
    PROVE  PermitsConserved'
<1>. USE PoolAssumption DEF PermitsConserved
<1>1. IsFiniteSet(Holders) /\ Cardinality(Holders) \in Nat
  BY FiniteSubsets DEF Holders
<1>2. CASE PermitKept
  BY <1>2 DEF PermitKept
<1>3. ASSUME NEW c \in Calls, PermitTaken(c) PROVE PermitsConserved'
  <2>1. Cardinality(Holders') = Cardinality(Holders) + 1
    BY <1>1, <1>3, FS_AddElement DEF PermitTaken
  <2>. QED
    BY <1>1, <1>3, <2>1 DEF PermitTaken, TypeOK
<1>4. ASSUME NEW c \in Calls, PermitReturned(c) PROVE PermitsConserved'
  <2>1. Cardinality(Holders') = Cardinality(Holders) - 1
    BY <1>1, <1>4, FS_RemoveElement DEF PermitReturned
  <2>. QED
    BY <1>1, <1>4, <2>1 DEF PermitReturned, TypeOK
<1>. QED
  BY <1>2, <1>3, <1>4 DEF PermitMoves

-----------------------------------------------------------------------------
(* Counting connections.                                                   *)

(* How one step moves connections between the idle queue and the calls.    *)
Kept == idle' \subseteq idle /\ Borrowers' \subseteq Borrowers
Lent(c, k) == k \in idle /\ idle' = idle \ {k} /\ Borrowers' = Borrowers \cup {c}
GivenBack(c, k) == c \in Borrowers /\ idle' = idle \cup {k} /\ Borrowers' = Borrowers \ {c}
Created == idle' = {} /\ Borrowers' \subseteq Holders'

ConnMoves == \/ Kept
             \/ Created
             \/ \E c \in Calls, k \in Conns : Lent(c, k) \/ GivenBack(c, k)

(* Every step is one of these moves.                                       *)
LEMMA ConnMovesStep ==
    ASSUME TypeOK, Shape, [Next]_vars
    PROVE  ConnMoves
<1>. USE DEF TypeOK, Shape, Borrowers, Borrows, Holds, Owns, QueryPending, FileCalls,
             pool, jobs, PC, JobState, ConnMoves
<1>1. ASSUME NEW c \in Calls, RefuseParams(c) PROVE ConnMoves
  BY <1>1 DEF RefuseParams, Decide, Kept
<1>2. ASSUME NEW c \in Calls, SubmitFile(c) PROVE ConnMoves
  BY <1>2 DEF SubmitFile, Kept
<1>3. ASSUME NEW c \in Calls, SubmitMemory(c) PROVE ConnMoves
  BY <1>3 DEF SubmitMemory, Kept
<1>4. ASSUME NEW c \in Calls, Acquire(c) PROVE ConnMoves
  BY <1>4 DEF Acquire, Kept
<1>5. ASSUME NEW c \in Calls, CreateConn(c) PROVE ConnMoves
  BY <1>5 DEF CreateConn, Created, Holders
<1>6. ASSUME NEW c \in Calls, OpenJoined(c) PROVE ConnMoves
  BY <1>6 DEF OpenJoined, Lend, Kept
<1>7. ASSUME NEW c \in Calls, OpenFailed(c) PROVE ConnMoves
  BY <1>7 DEF OpenFailed, Decide, Kept
<1>8. ASSUME NEW c \in Calls, QueryJoined(c) PROVE ConnMoves
  BY <1>8 DEF QueryJoined, Decide, Kept
<1>9. ASSUME NEW c \in Calls, AuditJoined(c) PROVE ConnMoves
  BY <1>9 DEF AuditJoined, Kept
<1>10. ASSUME NEW c \in Calls, AcquireTimeout(c) PROVE ConnMoves
  BY <1>10 DEF AcquireTimeout, Decide, DropOpened, Kept
<1>11. ASSUME NEW c \in Calls, QueryTimeout(c) PROVE ConnMoves
  BY <1>11 DEF QueryTimeout, Decide, Kept
<1>12. ASSUME NEW c \in Calls, StartOpen(c) PROVE ConnMoves
  BY <1>12 DEF StartOpen, Kept
<1>13. ASSUME NEW c \in Calls, StartQuery(c) PROVE ConnMoves
  BY <1>13 DEF StartQuery, Kept
<1>14. ASSUME NEW c \in Calls, StartAudit(c) PROVE ConnMoves
  BY <1>14 DEF StartAudit, Kept
<1>15. ASSUME NEW c \in Calls, FinishOpen(c) PROVE ConnMoves
  BY <1>15 DEF FinishOpen, Kept
<1>16. ASSUME NEW c \in Calls, FailOpen(c) PROVE ConnMoves
  BY <1>16 DEF FailOpen, Kept
<1>17. ASSUME NEW c \in Calls, FinishQuery(c) PROVE ConnMoves
  <2>1. CASE c \in MemoryCalls
    BY <1>17, <2>1 DEF FinishQuery, ReturnConn, Kept
  <2>2. CASE c \in FileCalls
    <3>1. GivenBack(c, held[c]) /\ held[c] \in Conns
      BY <1>17, <2>2, PoolAssumption DEF FinishQuery, ReturnConn, GivenBack
    <3>. QED
      BY <3>1 DEF GivenBack
  <2>. QED
    BY <2>1, <2>2
<1>18. ASSUME NEW c \in Calls, FailQuery(c) PROVE ConnMoves
  <2>1. CASE c \in MemoryCalls
    BY <1>18, <2>1 DEF FailQuery, ReturnConn, Kept
  <2>2. CASE c \in FileCalls
    <3>1. GivenBack(c, held[c]) /\ held[c] \in Conns
      BY <1>18, <2>2, PoolAssumption DEF FailQuery, ReturnConn, GivenBack
    <3>. QED
      BY <3>1 DEF GivenBack
  <2>. QED
    BY <2>1, <2>2
<1>19. ASSUME NEW c \in Calls, Apply(c) PROVE ConnMoves
  BY <1>19 DEF Apply, Kept
<1>20. ASSUME NEW c \in Calls, FinishAudit(c) PROVE ConnMoves
  BY <1>20 DEF FinishAudit, Kept
<1>21. ASSUME NEW c \in Calls, NEW k \in Conns, TakeIdle(c, k) PROVE ConnMoves
  <2>1. Lent(c, k)
    BY <1>21 DEF TakeIdle, Lend, Lent
  <2>. QED
    BY <2>1
<1>22. ASSUME NEW c \in Calls, NEW k \in Conns, Evict(c, k) PROVE ConnMoves
  BY <1>22 DEF Evict, Kept
<1>23. ASSUME NEW k \in Conns, Die(k) PROVE ConnMoves
  BY <1>23 DEF Die, Kept
<1>24. CASE UNCHANGED vars
  BY <1>24 DEF vars, Kept
<1>. QED
  BY <1>1, <1>2, <1>3, <1>4, <1>5, <1>6, <1>7, <1>8, <1>9, <1>10, <1>11, <1>12,
     <1>13, <1>14, <1>15, <1>16, <1>17, <1>18, <1>19, <1>20, <1>21, <1>22, <1>23, <1>24
  DEF Next, Submit, Task, Timer, Start, StatementEnds

(* None of the moves takes the pool over its size.                         *)
LEMMA PoolStep ==
    ASSUME TypeOK, ConnMoves, PoolBounded, TypeOK', PermitsConserved'
    PROVE  PoolBounded'
<1>. USE PoolAssumption DEF PoolBounded
<1>1. /\ IsFiniteSet(idle) /\ Cardinality(idle) \in Nat
      /\ IsFiniteSet(Borrowers) /\ Cardinality(Borrowers) \in Nat
      /\ IsFiniteSet(Holders') /\ Cardinality(Holders') \in Nat
      /\ Cardinality(idle') \in Nat /\ Cardinality(Borrowers') \in Nat
  BY FiniteSubsets DEF Borrowers, Holders, TypeOK
<1>2. CASE Kept
  <2>1. Cardinality(idle') <= Cardinality(idle)
    BY <1>1, <1>2, FS_Subset DEF Kept
  <2>2. Cardinality(Borrowers') <= Cardinality(Borrowers)
    BY <1>1, <1>2, FS_Subset DEF Kept
  <2>. QED
    BY <1>1, <2>1, <2>2
<1>3. CASE Created
  <2>1. Cardinality(idle') = 0
    BY <1>3, FS_EmptySet DEF Created
  <2>2. Cardinality(Borrowers') <= Cardinality(Holders')
    BY <1>1, <1>3, FS_Subset DEF Created
  <2>3. Cardinality(Holders') <= MaxSize
    BY <1>1 DEF PermitsConserved, TypeOK
  <2>. QED
    BY <1>1, <2>1, <2>2, <2>3
<1>4. ASSUME NEW c \in Calls, NEW k \in Conns, Lent(c, k) PROVE PoolBounded'
  <2>1. Cardinality(idle') = Cardinality(idle) - 1
    BY <1>1, <1>4, FS_RemoveElement DEF Lent
  <2>2. Cardinality(Borrowers') \in {Cardinality(Borrowers), Cardinality(Borrowers) + 1}
    BY <1>1, <1>4, FS_AddElement DEF Lent
  <2>. QED
    BY <1>1, <2>1, <2>2
<1>5. ASSUME NEW c \in Calls, NEW k \in Conns, GivenBack(c, k) PROVE PoolBounded'
  <2>1. Cardinality(idle') \in {Cardinality(idle), Cardinality(idle) + 1}
    BY <1>1, <1>5, FS_AddElement DEF GivenBack
  <2>2. Cardinality(Borrowers') = Cardinality(Borrowers) - 1
    BY <1>1, <1>5, FS_RemoveElement DEF GivenBack
  <2>. QED
    BY <1>1, <2>1, <2>2
<1>. QED
  BY <1>2, <1>3, <1>4, <1>5 DEF ConnMoves

-----------------------------------------------------------------------------
(* The inductive invariant.                                                *)

(* It holds at the start: every permit free, nothing open, no job.         *)
LEMMA InitIInv == Init => IInv
<1>. SUFFICES ASSUME Init PROVE IInv
  OBVIOUS
<1>. USE PoolAssumption DEF Init
<1>1. TypeOK
  BY DEF TypeOK, PC, JobState, Outcome
<1>2. Shape /\ Verdict /\ OneOwner /\ OpenIffOwned
  BY DEF Shape, Verdict, OneOwner, OpenIffOwned, Owns, QueryPending, Audited
<1>3. Holders = {} /\ Borrowers = {}
  BY DEF Holders, Borrowers, Borrows, Holds, QueryPending
<1>4. PermitsConserved /\ PoolBounded
  BY <1>3, FS_EmptySet DEF PermitsConserved, PoolBounded
<1>. QED
  BY <1>1, <1>2, <1>4 DEF IInv

(* Every step keeps it.                                                    *)
LEMMA NextIInv == IInv /\ [Next]_vars => IInv'
<1>. SUFFICES ASSUME IInv, [Next]_vars PROVE IInv'
  OBVIOUS
<1>. USE DEF IInv
<1>1. TypeOK' /\ Shape'
  BY ShapeStep
<1>2. Verdict'
  BY VerdictStep
<1>3. OneOwner' /\ OpenIffOwned'
  BY OwnerStep
<1>4. PermitsConserved'
  BY PermitMovesStep, PermitStep
<1>5. PoolBounded'
  BY <1>1, <1>4, ConnMovesStep, PoolStep
<1>. QED
  BY <1>1, <1>2, <1>3, <1>4, <1>5

(* The inductive invariant is an invariant of the specification.           *)
LEMMA Invariance == Spec => []IInv
BY InitIInv, NextIInv, PTL DEF Spec

(* Type correctness.                                                       *)
THEOREM TypeCorrect == Spec => []TypeOK
<1>1. IInv => TypeOK
  BY DEF IInv
<1>. QED
  BY <1>1, Invariance, PTL

(* No permit is ever lost or minted, for any number of calls and any pool  *)
(* size, however calls time out, fail or panic.                            *)
THEOREM PermitsAreConserved == Spec => []PermitsConserved
<1>1. IInv => PermitsConserved
  BY DEF IInv
<1>. QED
  BY <1>1, Invariance, PTL

(* A connection is never shared: not by two calls, and not between an      *)
(* abandoned statement and the idle queue.                                 *)
THEOREM ConnectionsHaveOneOwner == Spec => []OneOwner
<1>1. IInv => OneOwner
  BY DEF IInv
<1>. QED
  BY <1>1, Invariance, PTL

(* No connection leaks and none is closed under its owner: whatever call   *)
(* gave up, and whenever the job that opened or used it ends.              *)
THEOREM OpenExactlyWhileOwned == Spec => []OpenIffOwned
<1>1. IInv => OpenIffOwned
  BY DEF IInv
<1>. QED
  BY <1>1, Invariance, PTL

(* The pool never owns more connections than pool_max_size.                *)
THEOREM PoolIsBounded == Spec => []PoolBounded
<1>1. IInv => PoolBounded
  BY DEF IInv
<1>. QED
  BY <1>1, Invariance, PTL

(* Abandoned or not, the statements of a file database keep at most        *)
(* pool_max_size blocking threads: each of them still holds a permit.      *)
THEOREM ThreadsAreBounded == Spec => []StatementThreadsBounded
<1>1. IInv => StatementThreadsBounded
  <2>. SUFFICES ASSUME IInv PROVE StatementThreadsBounded
    OBVIOUS
  <2>1. Running(queryJob) \cap FileCalls \subseteq Holders
    BY DEF Running, Holders, Holds, QueryPending
  <2>2. IsFiniteSet(Holders) /\ Cardinality(Holders) \in Nat
    BY FiniteSubsets DEF Holders
  <2>3. /\ Cardinality(Running(queryJob) \cap FileCalls) \in Nat
        /\ Cardinality(Running(queryJob) \cap FileCalls) <= Cardinality(Holders)
    BY <2>1, <2>2, FS_Subset, FS_CardinalityType
  <2>4. Cardinality(Holders) <= MaxSize
    BY <2>2, PoolAssumption DEF IInv, TypeOK, PermitsConserved
  <2>. QED
    BY <2>2, <2>3, <2>4, PoolAssumption DEF StatementThreadsBounded
<1>. QED
  BY <1>1, Invariance, PTL

(* A failed execute is audited before its caller is answered, and a        *)
(* successful one is not audited.                                          *)
THEOREM FailuresAreAudited == Spec => []FailureAudited
<1>1. IInv => FailureAudited
  BY DEF IInv, Verdict, FailureAudited
<1>. QED
  BY <1>1, Invariance, PTL

(* What a task waits for: its own jobs, or a free permit.                  *)
LEMMA OthersGoOn ==
    ASSUME IInv, NEW c \in Calls, pc[c] \in {"acquired", "opening", "running", "auditing"}
    PROVE  Ready(c) \/ Pending(c)
<1>1. CASE pc[c] = "acquired"
  <2>1. \A k \in idle : link[k] # "closed"
    BY DEF IInv, OpenIffOwned, TypeOK
  <2>2. Ready(c)
    BY <1>1, <2>1 DEF Ready
  <2>. QED
    BY <2>2
<1>2. CASE pc[c] = "opening"
  <2>1. openJob[c] \in {"queued", "running", "ok", "err"}
    BY <1>2 DEF IInv, TypeOK, JobState, Shape
  <2>. QED
    BY <1>2, <2>1 DEF Ready, Pending
<1>3. CASE pc[c] = "running"
  <2>1. queryJob[c] \in {"queued", "running", "ok", "err"}
    BY <1>3 DEF IInv, TypeOK, JobState, Shape
  <2>. QED
    BY <1>3, <2>1 DEF Ready, Pending
<1>4. CASE pc[c] = "auditing"
  <2>1. auditJob[c] \in {"queued", "running", "ok"}
    BY <1>4 DEF IInv, Verdict
  <2>. QED
    BY <1>4, <2>1 DEF Ready, Pending
<1>. QED
  BY <1>1, <1>2, <1>3, <1>4

(* No call waits in vain, and none needs its timer not to: when no permit  *)
(* is free pool_max_size calls hold one, and what a holder waits for is a  *)
(* job of its own.                                                         *)
THEOREM WaitsHaveAnEnd == Spec => []NoWaitInVain
<1>1. IInv => NoWaitInVain
  <2>. SUFFICES ASSUME IInv, NEW c \in Calls, pc[c] = "waiting", permits = 0
                PROVE  \E d \in Calls : Holds(d) /\ (Ready(d) \/ Pending(d))
    <3>1. ASSUME NEW c \in Calls, pc[c] = "waiting", permits # 0, IInv PROVE Ready(c)
      BY <3>1 DEF IInv, TypeOK, Ready
    <3>2. ASSUME NEW c \in Calls, IInv
          PROVE  pc[c] \in {"idle", "waiting", "acquired", "opening", "running", "auditing", "done"}
      BY <3>2 DEF IInv, TypeOK, PC
    <3>. QED
      BY <3>1, <3>2, OthersGoOn DEF NoWaitInVain
  <2>1. Cardinality(Holders) = MaxSize
    BY FiniteSubsets, PoolAssumption DEF IInv, PermitsConserved, Holders
  <2>2. PICK d \in Calls : Holds(d)
    BY <2>1, FS_EmptySet, PoolAssumption DEF Holders
  <2>3. CASE QueryPending(d)
    BY <2>2, <2>3 DEF QueryPending, Pending
  <2>4. CASE pc[d] \in {"acquired", "opening"}
    BY <2>2, <2>4, OthersGoOn
  <2>. QED
    BY <2>2, <2>3, <2>4 DEF Holds
<1>. QED
  BY <1>1, Invariance, PTL

-----------------------------------------------------------------------------
(* Refinement of CallService.                                              *)

(* Initially nobody has been told anything and nothing was executed.       *)
LEMMA PromiseInit == Init => Promise!Init
BY DEF Init, Promise!Init, Told

(* What a step may tell: nothing new, or one call its decided outcome.     *)
Silent == (\A c \in Calls : Told(c)' = Told(c)) /\ applied' = applied
Tells(c) == /\ Told(c) = "pending"
            /\ Told(c)' \in {"ok", "rejected", "failed"}
            /\ Told(c)' = "ok" => applied[c]
            /\ Told(c)' = "rejected" => ~applied[c]
            /\ \A d \in Calls \ {c} : Told(d)' = Told(d)
            /\ applied' = applied
Executes(c) == /\ Told(c) \in {"pending", "failed"}
               /\ ~applied[c]
               /\ \A d \in Calls : Told(d)' = Told(d)
               /\ applied' = [applied EXCEPT ![c] = TRUE]

Visible == Silent \/ \E c \in Calls : Tells(c) \/ Executes(c)

(* Every step is silent, answers one call, or executes one statement.      *)
LEMMA VisibleStep ==
    ASSUME TypeOK, Shape, Verdict, [Next]_vars
    PROVE  Visible
<1>. USE DEF TypeOK, Shape, Verdict, Owns, QueryPending, FileCalls, Audited, pool, jobs,
             PC, JobState, Outcome, Told, Visible
<1>1. ASSUME NEW c \in Calls, RefuseParams(c) PROVE Visible
  BY <1>1 DEF RefuseParams, Decide, Silent, Tells
<1>2. ASSUME NEW c \in Calls, SubmitFile(c) PROVE Visible
  BY <1>2 DEF SubmitFile, Silent
<1>3. ASSUME NEW c \in Calls, SubmitMemory(c) PROVE Visible
  BY <1>3 DEF SubmitMemory, Silent
<1>4. ASSUME NEW c \in Calls, Acquire(c) PROVE Visible
  BY <1>4 DEF Acquire, Silent
<1>5. ASSUME NEW c \in Calls, CreateConn(c) PROVE Visible
  BY <1>5 DEF CreateConn, Silent
<1>6. ASSUME NEW c \in Calls, OpenJoined(c) PROVE Visible
  BY <1>6 DEF OpenJoined, Lend, Silent
<1>7. ASSUME NEW c \in Calls, OpenFailed(c) PROVE Visible
  BY <1>7 DEF OpenFailed, Decide, Silent, Tells
<1>8. ASSUME NEW c \in Calls, QueryJoined(c) PROVE Visible
  BY <1>8 DEF QueryJoined, Decide, Silent, Tells
<1>9. ASSUME NEW c \in Calls, AuditJoined(c) PROVE Visible
  BY <1>9 DEF AuditJoined, Tells
<1>10. ASSUME NEW c \in Calls, AcquireTimeout(c) PROVE Visible
  BY <1>10 DEF AcquireTimeout, Decide, Silent, Tells
<1>11. ASSUME NEW c \in Calls, QueryTimeout(c) PROVE Visible
  BY <1>11 DEF QueryTimeout, Decide, Silent, Tells
<1>12. ASSUME NEW c \in Calls, StartOpen(c) PROVE Visible
  BY <1>12 DEF StartOpen, Silent
<1>13. ASSUME NEW c \in Calls, StartQuery(c) PROVE Visible
  BY <1>13 DEF StartQuery, Silent
<1>14. ASSUME NEW c \in Calls, StartAudit(c) PROVE Visible
  BY <1>14 DEF StartAudit, Silent
<1>15. ASSUME NEW c \in Calls, FinishOpen(c) PROVE Visible
  BY <1>15 DEF FinishOpen, Silent
<1>16. ASSUME NEW c \in Calls, FailOpen(c) PROVE Visible
  BY <1>16 DEF FailOpen, Silent
<1>17. ASSUME NEW c \in Calls, FinishQuery(c) PROVE Visible
  BY <1>17 DEF FinishQuery, ReturnConn, Silent
<1>18. ASSUME NEW c \in Calls, FailQuery(c) PROVE Visible
  BY <1>18 DEF FailQuery, ReturnConn, Silent
<1>19. ASSUME NEW c \in Calls, Apply(c) PROVE Visible
  BY <1>19 DEF Apply, Executes
<1>20. ASSUME NEW c \in Calls, FinishAudit(c) PROVE Visible
  BY <1>20 DEF FinishAudit, Silent
<1>21. ASSUME NEW c \in Calls, NEW k \in Conns, TakeIdle(c, k) PROVE Visible
  BY <1>21 DEF TakeIdle, Lend, Silent
<1>22. ASSUME NEW c \in Calls, NEW k \in Conns, Evict(c, k) PROVE Visible
  BY <1>22 DEF Evict, Silent
<1>23. ASSUME NEW k \in Conns, Die(k) PROVE Visible
  BY <1>23 DEF Die, Silent
<1>24. CASE UNCHANGED vars
  BY <1>24 DEF vars, Silent
<1>. QED
  BY <1>1, <1>2, <1>3, <1>4, <1>5, <1>6, <1>7, <1>8, <1>9, <1>10, <1>11, <1>12,
     <1>13, <1>14, <1>15, <1>16, <1>17, <1>18, <1>19, <1>20, <1>21, <1>22, <1>23, <1>24
  DEF Next, Submit, Task, Timer, Start, StatementEnds

(* Each of these is a step of CallService or leaves its variables alone.   *)
LEMMA PromiseStep == Visible => [Promise!Next]_Promise!vars
<1>. SUFFICES ASSUME Visible PROVE [Promise!Next]_Promise!vars
  OBVIOUS
<1>. DEFINE st == [c \in Calls |-> Told(c)]
<1>1. CASE Silent
  <2>1. st' = st
    BY <1>1 DEF Silent
  <2>. QED
    BY <1>1, <2>1 DEF Silent, Promise!vars
<1>2. ASSUME NEW c \in Calls, Tells(c) PROVE Promise!Next
  <2>1. st' = [st EXCEPT ![c] = Told(c)']
    BY <1>2 DEF Tells
  <2>2. Promise!Answer(c, Told(c)')
    BY <1>2, <2>1 DEF Tells, Promise!Answer
  <2>. QED
    BY <1>2, <2>2 DEF Tells, Promise!Next
<1>3. ASSUME NEW c \in Calls, Executes(c) PROVE Promise!Next
  <2>1. st' = st
    BY <1>3 DEF Executes
  <2>2. Promise!Apply(c)
    BY <1>3, <2>1 DEF Executes, Promise!Apply
  <2>. QED
    BY <2>2 DEF Promise!Next
<1>. QED
  BY <1>1, <1>2, <1>3 DEF Visible

(* The runtime implements the promise: a call answered "ok" was executed,  *)
(* one answered "rejected" never is, no answer is revised.                 *)
THEOREM Refinement == Spec => Implements
<1>1. IInv /\ [Next]_vars => [Promise!Next]_Promise!vars
  BY VisibleStep, PromiseStep DEF IInv
<1>. QED
  BY <1>1, PromiseInit, Invariance, PTL DEF Spec, Implements, Promise!Spec
=============================================================================
