---------------------------- MODULE QueryRunner ----------------------------
(***************************************************************************)
(* How one binding runs its statements: run_query and execute (lib.rs),    *)
(* the connection pool of a file database (DuckDbManager in duckdb.rs      *)
(* under deadpool), and tokio's bounded pool of blocking threads.          *)
(*                                                                         *)
(* A call to a file database acquires a pool permit under a timer, pops an *)
(* idle connection that passes its ping or opens a new one on a blocking   *)
(* thread, hands the connection to a blocking job that runs the statement, *)
(* and waits for that job under a second timer.  A call to ":memory:"      *)
(* opens a private engine inside the job and uses no pool.  A timer that   *)
(* fires abandons the job: a queued or running job is never cancelled.     *)
(*                                                                         *)
(* Timers are untimed here: one may fire whenever the call is waiting      *)
(* (module CallBudget has the clock).  The queue of the blocking pool is a *)
(* set: any queued job may be the next to start, which includes tokio's    *)
(* first-in-first-out order.                                               *)
(***************************************************************************)
EXTENDS Naturals, FiniteSets

CONSTANTS
    Calls,          \* the calls made to one binding
    MemoryCalls,    \* those whose profile has no pool (database ":memory:")
    ExecuteCalls,   \* those made through execute, which audits failures;
                    \* list_resources and complete_template_variable do not
    Conns,          \* the connections the pool may have open
    MaxSize,        \* pool_max_size of the profile
    Threads,        \* size of the blocking-thread pool
    None

ASSUME CallsAssumption ==
    /\ IsFiniteSet(Calls)
    /\ MemoryCalls \subseteq Calls
    /\ ExecuteCalls \subseteq Calls

ASSUME PoolAssumption ==
    /\ IsFiniteSet(Conns)
    /\ None \notin Conns
    /\ MaxSize \in Nat \ {0}
    /\ Cardinality(Conns) >= MaxSize
    /\ Threads \in Nat \ {0}

FileCalls == Calls \ MemoryCalls

VARIABLES
    pc,         \* where the async task of each call is
    permits,    \* free permits of the pool's semaphore
    idle,       \* connections in the pool's idle queue
    held,       \* the connection owned by a call, or by its abandoned job
    link,       \* state of each connection: "closed", "live" or "dead"
    openJob,    \* the blocking job that opens a connection for a call
    queryJob,   \* the blocking job that runs a call's statement
    auditJob,   \* the blocking job that hands a call's audit event to the host
    outcome,    \* the result decided for each call
    applied     \* whether the engine has executed the call's statement

pool == <<permits, idle, held, link>>
jobs == <<openJob, queryJob, auditJob>>
vars == <<pc, pool, jobs, outcome, applied>>

PC == {"idle", "waiting", "acquired", "opening", "running", "auditing", "done"}
JobState == {"none", "queued", "running", "ok", "err"}
Outcome == {"none", "ok", "rejected", "failed"}

TypeOK ==
    /\ pc \in [Calls -> PC]
    /\ permits \in Nat
    /\ idle \subseteq Conns
    /\ held \in [Calls -> Conns \cup {None}]
    /\ link \in [Conns -> {"closed", "live", "dead"}]
    /\ openJob \in [Calls -> JobState]
    /\ queryJob \in [Calls -> JobState]
    /\ auditJob \in [Calls -> JobState]
    /\ outcome \in [Calls -> Outcome]
    /\ applied \in [Calls -> BOOLEAN]

Init ==
    /\ pc = [c \in Calls |-> "idle"]
    /\ permits = MaxSize
    /\ idle = {}
    /\ held = [c \in Calls |-> None]
    /\ link = [k \in Conns |-> "closed"]
    /\ openJob = [c \in Calls |-> "none"]
    /\ queryJob = [c \in Calls |-> "none"]
    /\ auditJob = [c \in Calls |-> "none"]
    /\ outcome = [c \in Calls |-> "none"]
    /\ applied = [c \in Calls |-> FALSE]

-----------------------------------------------------------------------------
(* What a call does once its result is known.                              *)

(* Only a failed execute is audited, and the event is handed to the host   *)
(* on a blocking thread that the call awaits without a timer.              *)
Audited(c, o) == c \in ExecuteCalls /\ o # "ok"

Decide(c, o) ==
    /\ outcome' = [outcome EXCEPT ![c] = o]
    /\ IF Audited(c, o)
         THEN /\ pc' = [pc EXCEPT ![c] = "auditing"]
              /\ auditJob' = [auditJob EXCEPT ![c] = "queued"]
         ELSE /\ pc' = [pc EXCEPT ![c] = "done"]
              /\ UNCHANGED auditJob

AuditJoined(c) ==
    /\ pc[c] = "auditing"
    /\ auditJob[c] = "ok"
    /\ pc' = [pc EXCEPT ![c] = "done"]
    /\ UNCHANGED <<pool, jobs, outcome, applied>>

-----------------------------------------------------------------------------
(* The call's async task.                                                  *)

(* A payload that is not JSON, or an argument that cannot be bound, ends   *)
(* the call before run_query.                                              *)
RefuseParams(c) ==
    /\ pc[c] = "idle"
    /\ Decide(c, "rejected")
    /\ UNCHANGED <<pool, openJob, queryJob, applied>>

SubmitFile(c) ==
    /\ c \in FileCalls
    /\ pc[c] = "idle"
    /\ pc' = [pc EXCEPT ![c] = "waiting"]
    /\ UNCHANGED <<pool, jobs, outcome, applied>>

SubmitMemory(c) ==
    /\ c \in MemoryCalls
    /\ pc[c] = "idle"
    /\ pc' = [pc EXCEPT ![c] = "running"]
    /\ queryJob' = [queryJob EXCEPT ![c] = "queued"]
    /\ UNCHANGED <<pool, openJob, auditJob, outcome, applied>>

(* Faulty variant: a permit is taken without waiting for a free one.       *)
BugAcquireUnchecked(c) ==
    /\ pc[c] = "waiting"
    /\ permits' = permits - 1
    /\ pc' = [pc EXCEPT ![c] = "acquired"]
    /\ UNCHANGED <<idle, held, link, jobs, outcome, applied>>

Acquire(c) ==
    /\ pc[c] = "waiting"
    /\ permits > 0
    /\ permits' = permits - 1
    /\ pc' = [pc EXCEPT ![c] = "acquired"]
    /\ UNCHANGED <<idle, held, link, jobs, outcome, applied>>

(* The pool lends k, and run_query moves it into the statement's job.      *)
Lend(c, k) ==
    /\ held' = [held EXCEPT ![c] = k]
    /\ pc' = [pc EXCEPT ![c] = "running"]
    /\ queryJob' = [queryJob EXCEPT ![c] = "queued"]

TakeIdle(c, k) ==
    /\ pc[c] = "acquired"
    /\ k \in idle
    /\ link[k] = "live"                 \* recycle: SELECT 1 succeeds
    /\ idle' = idle \ {k}
    /\ Lend(c, k)
    /\ UNCHANGED <<permits, link, openJob, auditJob, outcome, applied>>

(* A connection that fails its ping is closed, and the loop of pool.get    *)
(* tries the next one under the same permit.                               *)
Evict(c, k) ==
    /\ pc[c] = "acquired"
    /\ k \in idle
    /\ link[k] = "dead"
    /\ idle' = idle \ {k}
    /\ link' = [link EXCEPT ![k] = "closed"]
    /\ UNCHANGED <<pc, permits, held, jobs, outcome, applied>>

(* Faulty variant: a new connection is opened although one is idle.        *)
BugCreateEager(c) ==
    /\ pc[c] = "acquired"
    /\ pc' = [pc EXCEPT ![c] = "opening"]
    /\ openJob' = [openJob EXCEPT ![c] = "queued"]
    /\ UNCHANGED <<pool, queryJob, auditJob, outcome, applied>>

CreateConn(c) ==
    /\ pc[c] = "acquired"
    /\ idle = {}
    /\ pc' = [pc EXCEPT ![c] = "opening"]
    /\ openJob' = [openJob EXCEPT ![c] = "queued"]
    /\ UNCHANGED <<pool, queryJob, auditJob, outcome, applied>>

OpenJoined(c) ==
    /\ pc[c] = "opening"
    /\ openJob[c] = "ok"
    /\ Lend(c, held[c])
    /\ UNCHANGED <<permits, idle, link, openJob, auditJob, outcome, applied>>

OpenFailed(c) ==
    /\ pc[c] = "opening"
    /\ openJob[c] = "err"
    /\ permits' = permits + 1
    /\ Decide(c, "rejected")
    /\ UNCHANGED <<idle, held, link, openJob, queryJob, applied>>

(* Faulty variant: the handle is forgotten, the connection stays open.     *)
BugForgetOpened(c) == held' = [held EXCEPT ![c] = None] /\ UNCHANGED link

(* Dropping the join handle of an open that has already finished closes    *)
(* the connection it carries.                                              *)
DropOpened(c) ==
    IF held[c] = None
      THEN UNCHANGED <<held, link>>
      ELSE /\ held' = [held EXCEPT ![c] = None]
           /\ link' = [link EXCEPT ![held[c]] = "closed"]

(* Faulty variant: the permit is not given back.                           *)
BugTimeoutKeepsPermit(c) ==
    /\ pc[c] \in {"waiting", "opening"}
    /\ DropOpened(c)
    /\ Decide(c, "rejected")
    /\ UNCHANGED <<permits, idle, openJob, queryJob, applied>>

(* The acquire timer fires while the call waits for a permit or for its     *)
(* open (between acquiring and popping pool.get does not yield); dropping  *)
(* the future gives the permit back.                                       *)
AcquireTimeout(c) ==
    /\ pc[c] \in {"waiting", "opening"}
    /\ permits' = IF pc[c] = "waiting" THEN permits ELSE permits + 1
    /\ DropOpened(c)
    /\ Decide(c, "rejected")
    /\ UNCHANGED <<idle, openJob, queryJob, applied>>

(* The statement's job has ended.  Rows that come without an error can     *)
(* still fail to shape: a resource read whose binding yields no URI is     *)
(* answered as an error although its statement ran.                        *)
QueryJoined(c) ==
    /\ pc[c] = "running"
    /\ \/ queryJob[c] = "ok" /\ Decide(c, "ok")
       \/ queryJob[c] = "ok" /\ c \in ExecuteCalls /\ Decide(c, "failed")
       \/ queryJob[c] = "err" /\ Decide(c, "failed")
    /\ UNCHANGED <<pool, openJob, queryJob, applied>>

(* Faulty variants of the statement timeout: the connection and its permit *)
(* go back to the pool under the running statement; the permit alone does; *)
(* the failure is not audited; the caller is told the statement never ran; *)
(* the timer waits for the job it should abandon.                          *)
BugTimeoutReturnsConn(c) ==
    /\ pc[c] = "running"
    /\ Decide(c, "failed")
    /\ idle' = idle \cup ({held[c]} \ {None})
    /\ permits' = permits + Cardinality({held[c]} \ {None})
    /\ UNCHANGED <<held, link, openJob, queryJob, applied>>

BugTimeoutFreesPermit(c) ==
    /\ pc[c] = "running"
    /\ Decide(c, "failed")
    /\ permits' = permits + Cardinality({held[c]} \ {None})
    /\ UNCHANGED <<idle, held, link, openJob, queryJob, applied>>

BugTimeoutUnaudited(c) ==
    /\ pc[c] = "running"
    /\ outcome' = [outcome EXCEPT ![c] = "failed"]
    /\ pc' = [pc EXCEPT ![c] = "done"]
    /\ UNCHANGED <<pool, jobs, applied>>

BugTimeoutRejects(c) ==
    /\ pc[c] = "running"
    /\ Decide(c, "rejected")
    /\ UNCHANGED <<pool, openJob, queryJob, applied>>

BugTimeoutJoins(c) ==
    /\ pc[c] = "running"
    /\ queryJob[c] \in {"ok", "err"}
    /\ Decide(c, "failed")
    /\ UNCHANGED <<pool, openJob, queryJob, applied>>

(* The join handle is dropped: the job stays queued or running, and with   *)
(* it the connection and the permit.                                       *)
QueryTimeout(c) ==
    /\ pc[c] = "running"
    /\ Decide(c, "failed")
    /\ UNCHANGED <<pool, openJob, queryJob, applied>>

-----------------------------------------------------------------------------
(* The blocking threads.                                                   *)

Running(job) == {c \in Calls : job[c] = "running"}

FreeThread == Cardinality(Running(openJob)) + Cardinality(Running(queryJob))
                + Cardinality(Running(auditJob)) < Threads

StartOpen(c) ==
    /\ openJob[c] = "queued" /\ FreeThread
    /\ openJob' = [openJob EXCEPT ![c] = "running"]
    /\ UNCHANGED <<pc, pool, queryJob, auditJob, outcome, applied>>

StartQuery(c) ==
    /\ queryJob[c] = "queued" /\ FreeThread
    /\ queryJob' = [queryJob EXCEPT ![c] = "running"]
    /\ UNCHANGED <<pc, pool, openJob, auditJob, outcome, applied>>

StartAudit(c) ==
    /\ auditJob[c] = "queued" /\ FreeThread
    /\ auditJob' = [auditJob EXCEPT ![c] = "running"]
    /\ UNCHANGED <<pc, pool, openJob, queryJob, outcome, applied>>

(* open_connection returned a connection; if its call has timed out, the   *)
(* detached task's output is dropped, which closes it.                     *)
FinishOpen(c) ==
    /\ openJob[c] = "running"
    /\ openJob' = [openJob EXCEPT ![c] = "ok"]
    /\ IF pc[c] = "opening"
         THEN \E k \in Conns :
                /\ link[k] = "closed"
                /\ link' = [link EXCEPT ![k] = "live"]
                /\ held' = [held EXCEPT ![c] = k]
         ELSE UNCHANGED <<held, link>>
    /\ UNCHANGED <<pc, permits, idle, queryJob, auditJob, outcome, applied>>

(* The open, an init_sql statement or an ATTACH failed, or the worker      *)
(* panicked: whatever was opened is dropped on the way out.                *)
FailOpen(c) ==
    /\ openJob[c] = "running"
    /\ openJob' = [openJob EXCEPT ![c] = "err"]
    /\ UNCHANGED <<pc, pool, queryJob, auditJob, outcome, applied>>

(* The engine executes the statement; its rows have yet to be read.        *)
Apply(c) ==
    /\ queryJob[c] = "running"
    /\ ~applied[c]
    /\ applied' = [applied EXCEPT ![c] = TRUE]
    /\ UNCHANGED <<pc, pool, jobs, outcome>>

(* Faulty variant: the object is detached from the pool, its permit lost.  *)
BugDetachConn(c) ==
    IF c \in MemoryCalls
      THEN UNCHANGED pool
      ELSE /\ held' = [held EXCEPT ![c] = None]
           /\ link' = [link EXCEPT ![held[c]] = "closed"]
           /\ UNCHANGED <<permits, idle>>

(* The job's closure ends, normally or by a panic, and drops the pooled    *)
(* object: the connection goes back to the idle queue and the permit to    *)
(* the semaphore.                                                          *)
ReturnConn(c) ==
    IF c \in MemoryCalls
      THEN UNCHANGED pool
      ELSE /\ idle' = idle \cup {held[c]}
           /\ held' = [held EXCEPT ![c] = None]
           /\ permits' = permits + 1
           /\ UNCHANGED link

FinishQuery(c) ==
    /\ queryJob[c] = "running"
    /\ applied[c]
    /\ queryJob' = [queryJob EXCEPT ![c] = "ok"]
    /\ ReturnConn(c)
    /\ UNCHANGED <<pc, openJob, auditJob, outcome, applied>>

(* Prepare, bind, execution or a row failed, the per-call open of a        *)
(* ":memory:" engine failed, or the worker panicked; the statement may or  *)
(* may not have been executed by then.                                     *)
FailQuery(c) ==
    /\ queryJob[c] = "running"
    /\ queryJob' = [queryJob EXCEPT ![c] = "err"]
    /\ ReturnConn(c)
    /\ UNCHANGED <<pc, openJob, auditJob, outcome, applied>>

(* The host took the event, refused it, or the worker panicked: the result *)
(* is ignored.                                                             *)
FinishAudit(c) ==
    /\ auditJob[c] = "running"
    /\ auditJob' = [auditJob EXCEPT ![c] = "ok"]
    /\ UNCHANGED <<pc, pool, openJob, queryJob, outcome, applied>>

-----------------------------------------------------------------------------
(* The environment: an open connection becomes unusable (an invalidated    *)
(* database, an extension that lost its remote source).                    *)
Die(k) ==
    /\ link[k] = "live"
    /\ link' = [link EXCEPT ![k] = "dead"]
    /\ UNCHANGED <<pc, permits, idle, held, jobs, outcome, applied>>

Task(c) == \/ Acquire(c)
           \/ \E k \in Conns : TakeIdle(c, k) \/ Evict(c, k)
           \/ CreateConn(c) \/ OpenJoined(c) \/ OpenFailed(c)
           \/ QueryJoined(c) \/ AuditJoined(c)

Timer(c) == AcquireTimeout(c) \/ QueryTimeout(c)

Start(c) == StartOpen(c) \/ StartQuery(c) \/ StartAudit(c)

StatementEnds(c) == FinishOpen(c) \/ FailOpen(c) \/ FinishQuery(c) \/ FailQuery(c)

Submit(c) == RefuseParams(c) \/ SubmitFile(c) \/ SubmitMemory(c)

Next == \/ \E c \in Calls : \/ Submit(c) \/ Task(c) \/ Timer(c) \/ Start(c)
                            \/ StatementEnds(c) \/ Apply(c) \/ FinishAudit(c)
        \/ \E k \in Conns : Die(k)

Spec == Init /\ [][Next]_vars

(* The runtime polls every ready task and fires every timer, starts queued *)
(* jobs as threads free up, and the host answers the audit call.           *)
RuntimeFairness ==
    \A c \in Calls : /\ WF_vars(Task(c))
                     /\ WF_vars(Timer(c))
                     /\ WF_vars(StartOpen(c))
                     /\ WF_vars(StartQuery(c))
                     /\ WF_vars(StartAudit(c))
                     /\ WF_vars(FinishAudit(c))

OpensEnd == \A c \in Calls : WF_vars(FinishOpen(c) \/ FailOpen(c))

(* Opens end but a statement may run for ever: nothing interrupts it.      *)
FairSpec == Spec /\ RuntimeFairness /\ OpensEnd

-----------------------------------------------------------------------------
(* Which calls hold a permit, and which have a connection out of the pool. *)

QueryPending(c) == queryJob[c] \in {"queued", "running"}

Holds(c) == /\ c \in FileCalls
            /\ pc[c] \in {"acquired", "opening"} \/ QueryPending(c)

Holders == {c \in Calls : Holds(c)}

(* Calls that have popped a connection or are opening one.                 *)
Borrows(c) == Holds(c) /\ pc[c] # "acquired"

Borrowers == {c \in Calls : Borrows(c)}

(* No permit is lost or minted: the free permits and the calls that own    *)
(* one (an abandoned statement still does) always add up to pool_max_size. *)
PermitsConserved == permits + Cardinality(Holders) = MaxSize

(* A connection has at most one owner.  In particular the connection of a  *)
(* statement that outlived its call's timeout is neither lent to another   *)
(* call nor idle while that statement is still queued or running.          *)
OneOwner ==
    \A c \in Calls : held[c] # None =>
        /\ held[c] \notin idle
        /\ \A d \in Calls : held[d] = held[c] => d = c
        /\ QueryPending(c) \/ (pc[c] = "opening" /\ openJob[c] = "ok")

(* A connection is open exactly as long as the pool or a call owns it: an  *)
(* open that finishes after its call gave up leaks nothing, and no closed  *)
(* connection is lent or kept idle.                                        *)
OpenIffOwned ==
    \A k \in Conns : link[k] # "closed" <=> k \in idle \/ \E c \in Calls : held[c] = k

(* The pool never owns more connections than pool_max_size, those being    *)
(* opened for a call that still waits for them included.                   *)
PoolBounded == Cardinality(idle) + Cardinality(Borrowers) <= MaxSize

(* The statements of a file database, abandoned ones included, never keep  *)
(* more than pool_max_size blocking threads: however many calls time out,  *)
(* the threads beyond that are left to opens, audits and other bindings.   *)
StatementThreadsBounded == Cardinality(Running(queryJob) \cap FileCalls) <= MaxSize

(* What a call or its jobs can do without any timer: its task can go on,   *)
(* or a job of its own is queued or running.                               *)
Ready(c) ==
    \/ pc[c] = "waiting" /\ permits > 0
    \/ pc[c] = "acquired" /\ (idle = {} \/ \E k \in idle : link[k] # "closed")
    \/ pc[c] = "opening" /\ openJob[c] \in {"ok", "err"}
    \/ pc[c] = "running" /\ queryJob[c] \in {"ok", "err"}
    \/ pc[c] = "auditing" /\ auditJob[c] = "ok"

Pending(c) == \E job \in {openJob, queryJob, auditJob} : job[c] \in {"queued", "running"}

(* No call waits in vain, even were there no timers: one that is neither   *)
(* answered nor able to go on waits for a job of its own, or for a permit  *)
(* whose holder can go on or has a job, an abandoned statement being one.  *)
(* (permits, join handles and the awaits of run_query and execute.)        *)
NoWaitInVain ==
    \A c \in Calls : pc[c] \notin {"idle", "done"} =>
        \/ Ready(c) \/ Pending(c)
        \/ pc[c] = "waiting" /\ \E d \in Calls : Holds(d) /\ (Ready(d) \/ Pending(d))

(* A failed execute has handed exactly one audit event to the host by the  *)
(* time its caller is answered, and a successful one none.                 *)
FailureAudited ==
    \A c \in Calls : pc[c] = "done" =>
        (auditJob[c] = "ok" <=> Audited(c, outcome[c])) /\ auditJob[c] \in {"none", "ok"}

(* The detailed system implements what CallService promises: "ok" only     *)
(* after the statement was executed, "rejected" only if it never will be,  *)
(* one answer per call, one execution per statement.                       *)
Told(c) == IF pc[c] = "done" THEN outcome[c] ELSE "pending"

Promise == INSTANCE CallService
             WITH status <- [c \in Calls |-> Told(c)], applied <- applied

Implements == Promise!Spec

(* Every call that was submitted is answered.                              *)
EveryCallAnswered == \A c \in Calls : pc[c] # "idle" ~> pc[c] = "done"

(* Every call is answered as long as the statements that never end do not  *)
(* hold every blocking thread: a statement that was abandoned keeps its    *)
(* permit, but no other call has to wait for either to end.                *)
AnsweredWhileThreadsLast ==
    <>[](Cardinality(Running(queryJob)) < Threads) => EveryCallAnswered

(* Once statements end, every permit is back, however calls fail, time out *)
(* or panic and whatever they abandoned.                                   *)
PermitsRecovered == <>[](Running(queryJob) = {}) => <>[](permits = MaxSize)
=============================================================================
