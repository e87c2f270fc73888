------------------------------ MODULE Profiles ------------------------------
(***************************************************************************)
(* The registry of binding profiles: what register_profile accepts, which  *)
(* of a profile's statements a call runs, and what becomes of a profile's  *)
(* connections when the gateway registers the binding again (a reload, a   *)
(* rotated secret) while calls are in flight.  A call works on the clone   *)
(* of the profile it took when it began; a registration with a file        *)
(* database brings a pool of its own, which lives as long as the registry  *)
(* or some call's clone holds it.                                          *)
(*                                                                         *)
(* Statements are told apart by what registration looks at: not configured *)
(* ("absent"), white space ("blank"), passing enforce_read_only ("read")   *)
(* or not ("write").  A refused registration, and a call on a binding that *)
(* is not registered, change nothing: both are stutters.                   *)
(***************************************************************************)
EXTENDS Integers, FiniteSets, Sequences

CONSTANTS
    Names,              \* backend names
    Calls,              \* calls that may be in flight at once
    Specs,              \* the specs the gateway may register
    PoolSize,           \* pool_max_size
    MaxRegistrations    \* bound on accepted registrations

Operations == {"query", "list_tables", "list_columns", "read_file"}
Surfaces == {"tool", "resource", "prompt"}
Kinds == {"execute", "list", "complete"}
Texts == {"absent", "blank", "read", "write"}

SpecShape ==
    [database    : {"blank", "memory", "file"},
     readOnly    : BOOLEAN,
     external    : BOOLEAN,                         \* allow_external_access
     operation   : Operations,
     statement   : Texts,
     readQuery   : Texts,
     listQuery   : Texts,                           \* list_query.sql
     completion  : Texts,                           \* variable_completions
     surface     : Surfaces,
     uri         : {"absent", "blank", "set"},
     tableFilter : BOOLEAN,                         \* table or table_arg
     readFile    : {"absent", "invalid", "valid"},
     predicate   : Texts,                           \* read_file.predicate
     wellFormed  : BOOLEAN]     \* bounds > 0, aliases, identifiers, secrets
                                \* as references, params compile, one "?"

ASSUME ProfilesAssumption ==
    /\ Specs \subseteq SpecShape
    /\ PoolSize \in Nat \ {0}
    /\ MaxRegistrations \in Nat
    /\ Names # {} /\ IsFiniteSet(Calls)

Generations == 1..MaxRegistrations

VARIABLES
    reg,        \* the accepted registrations; a generation is an index of it
    profile,    \* the generation registered under each name, 0 if none
    pc,         \* what each call's task does
    kind,       \* which entry point was called
    asked,      \* the name it was called with
    held,       \* the generation its clone keeps alive, 0 if it has none
    job,        \* the generation whose connection its statement uses, 0: none
    ran,        \* the statement that job runs
    idle        \* idle connections of each generation's pool

vars == <<reg, profile, pc, kind, asked, held, job, ran, idle>>

-----------------------------------------------------------------------------
(* What register_profile accepts.                                          *)

Given(text) == text \notin {"absent", "blank"}

(* enforce_read_only, applied when the profile is read_only.               *)
Guarded(s, text) == s.readOnly => text = "read"

OperationOk(s) ==
    CASE s.operation = "query" -> Given(s.statement) \/ Given(s.readQuery)
      [] s.operation = "list_columns" -> s.tableFilter
      [] s.operation = "list_tables" -> TRUE
      [] s.operation = "read_file" ->
            s.readFile = "valid" /\ s.predicate # "blank" /\ s.external

StatementOk(s) == s.operation = "query" /\ Given(s.statement)
                      => Guarded(s, s.statement)

UriOk(s) == s.uri # "absent" => s.surface = "resource" /\ s.uri = "set"

ReadQueryOk(s) ==
    s.readQuery # "absent" => /\ Given(s.readQuery)
                              /\ s.surface = "resource"
                              /\ Guarded(s, s.readQuery)

ListQueryOk(s) ==
    s.listQuery # "absent" => Given(s.listQuery) /\ Guarded(s, s.listQuery)

(* Faulty variant: completion statements are not held to the guard.        *)
BugCompletionsOk(s) == s.completion # "absent" => Given(s.completion)

CompletionsOk(s) ==
    s.completion # "absent" => Given(s.completion) /\ Guarded(s, s.completion)

Accepts(s) ==
    /\ s.database # "blank"
    /\ s.wellFormed
    /\ OperationOk(s) /\ StatementOk(s)
    /\ UriOk(s) /\ ReadQueryOk(s)
    /\ ListQueryOk(s) /\ CompletionsOk(s)

-----------------------------------------------------------------------------
(* The statement an execute call runs.  "built" is a SELECT that the       *)
(* plugin composes itself; into that of read_file it splices the           *)
(* operator's predicate as it is, which decides what the statement is.     *)
Executed(s) ==
    IF s.operation = "read_file" /\ s.predicate # "absent" THEN s.predicate
    ELSE IF s.operation # "query" THEN "built"
    ELSE IF s.surface = "resource" /\ s.readQuery # "absent" THEN s.readQuery
    ELSE s.statement

TextFor(s, k) == CASE k = "execute" -> Executed(s)
                   [] k = "list" -> s.listQuery
                   [] k = "complete" -> s.completion

Pooled(g) == reg[g].spec.database = "file"

(* A pool lives while the registry or the clone of a call refers to it.    *)
Alive(g) == (\E n \in Names : profile[n] = g) \/ (\E c \in Calls : held[c] = g)

InUse(g) == Cardinality({c \in Calls : job[c] = g})

(* A pool's idle connections are closed with it.                           *)
Reap == idle' = [g \in Generations |-> IF Alive(g)' THEN idle[g] ELSE 0]

TypeOK ==
    /\ reg \in Seq([name : Names, spec : Specs])
    /\ Len(reg) <= MaxRegistrations
    /\ profile \in [Names -> 0..Len(reg)]
    /\ pc \in [Calls -> {"idle", "begun", "running"}]
    /\ kind \in [Calls -> Kinds]
    /\ asked \in [Calls -> Names]
    /\ held \in [Calls -> 0..Len(reg)]
    /\ job \in [Calls -> 0..Len(reg)]
    /\ ran \in [Calls -> Texts \cup {"built"}]
    /\ idle \in [Generations -> Nat]

Init ==
    /\ reg = <<>>
    /\ profile = [n \in Names |-> 0]
    /\ pc = [c \in Calls |-> "idle"]
    /\ kind = [c \in Calls |-> "execute"]
    /\ asked = [c \in Calls |-> CHOOSE n \in Names : TRUE]
    /\ held = [c \in Calls |-> 0]
    /\ job = [c \in Calls |-> 0]
    /\ ran = [c \in Calls |-> "absent"]
    /\ idle = [g \in Generations |-> 0]

Register(n, s) ==
    /\ Len(reg) < MaxRegistrations
    /\ Accepts(s)
    /\ reg' = Append(reg, [name |-> n, spec |-> s])
    /\ profile' = [profile EXCEPT ![n] = Len(reg) + 1]
    /\ UNCHANGED <<pc, kind, asked, held, job, ran>>
    /\ Reap

(* An entry point clones the profile.  Listing and completion answer with  *)
(* nothing at once when theirs is not configured; execute has no such test *)
(* and relies on what was registered.                                      *)
Begin(c, n, k) ==
    /\ pc[c] = "idle" /\ job[c] = 0
    /\ profile[n] # 0
    /\ k # "execute" => TextFor(reg[profile[n]].spec, k) # "absent"
    /\ pc' = [pc EXCEPT ![c] = "begun"]
    /\ kind' = [kind EXCEPT ![c] = k]
    /\ asked' = [asked EXCEPT ![c] = n]
    /\ held' = [held EXCEPT ![c] = profile[n]]
    /\ UNCHANGED <<reg, profile, job, ran, idle>>

(* Faulty variant: the pool is looked up again when the statement starts.  *)
BugRun(c) ==
    LET g == profile[asked[c]] IN
    /\ pc[c] = "begun"
    /\ Pooled(g) => InUse(g) < PoolSize
    /\ idle' = IF idle[g] > 0 THEN [idle EXCEPT ![g] = @ - 1] ELSE idle
    /\ job' = [job EXCEPT ![c] = g]
    /\ ran' = [ran EXCEPT ![c] = TextFor(reg[held[c]].spec, kind[c])]
    /\ pc' = [pc EXCEPT ![c] = "running"]
    /\ UNCHANGED <<reg, profile, kind, asked, held>>

(* Faulty variant: a connection is taken from the pool even if none is     *)
(* idle.                                                                   *)
BugRunUnchecked(c) ==
    LET g == held[c] IN
    /\ pc[c] = "begun"
    /\ Pooled(g) => InUse(g) < PoolSize
    /\ idle' = [idle EXCEPT ![g] = @ - 1]
    /\ job' = [job EXCEPT ![c] = g]
    /\ ran' = [ran EXCEPT ![c] = TextFor(reg[g].spec, kind[c])]
    /\ pc' = [pc EXCEPT ![c] = "running"]
    /\ UNCHANGED <<reg, profile, kind, asked, held>>

(* A connection, reused or opened, and the statement, both of the clone.   *)
Run(c) ==
    LET g == held[c] IN
    /\ pc[c] = "begun"
    /\ Pooled(g) => InUse(g) < PoolSize
    /\ idle' = IF idle[g] > 0 THEN [idle EXCEPT ![g] = @ - 1] ELSE idle
    /\ job' = [job EXCEPT ![c] = g]
    /\ ran' = [ran EXCEPT ![c] = TextFor(reg[g].spec, kind[c])]
    /\ pc' = [pc EXCEPT ![c] = "running"]
    /\ UNCHANGED <<reg, profile, kind, asked, held>>

(* Faulty variant: the pool is not closed by the last call that held it.   *)
BugAnswer(c) ==
    /\ pc[c] # "idle"
    /\ pc' = [pc EXCEPT ![c] = "idle"]
    /\ held' = [held EXCEPT ![c] = 0]
    /\ UNCHANGED <<reg, profile, kind, asked, job, ran, idle>>

(* The call returns and drops its clone: refused before its statement ran, *)
(* at the end of the statement, or on a timeout that leaves it running.    *)
Answer(c) ==
    /\ pc[c] # "idle"
    /\ pc' = [pc EXCEPT ![c] = "idle"]
    /\ held' = [held EXCEPT ![c] = 0]
    /\ UNCHANGED <<reg, profile, kind, asked, job, ran>>
    /\ Reap

(* Faulty variant: the connection goes back to a pool that may be gone.    *)
BugEndJob(c) ==
    /\ job[c] # 0
    /\ job' = [job EXCEPT ![c] = 0]
    /\ idle' = IF Pooled(job[c]) THEN [idle EXCEPT ![job[c]] = @ + 1] ELSE idle
    /\ UNCHANGED <<reg, profile, pc, kind, asked, held, ran>>

(* The job drops its connection: back to the pool if there still is one,   *)
(* closed otherwise.                                                       *)
EndJob(c) ==
    /\ job[c] # 0
    /\ job' = [job EXCEPT ![c] = 0]
    /\ idle' = IF Pooled(job[c]) /\ Alive(job[c])
                 THEN [idle EXCEPT ![job[c]] = @ + 1] ELSE idle
    /\ UNCHANGED <<reg, profile, pc, kind, asked, held, ran>>

Next == \/ \E n \in Names, s \in Specs : Register(n, s)
        \/ \E c \in Calls, n \in Names, k \in Kinds : Begin(c, n, k)
        \/ \E c \in Calls : Run(c) \/ Answer(c) \/ EndJob(c)

Spec == Init /\ [][Next]_vars

(* Both timeouts of run_query end every call; statements end.              *)
FairSpec == Spec /\ \A c \in Calls : WF_vars(Answer(c)) /\ WF_vars(EndJob(c))

-----------------------------------------------------------------------------
(* A statement runs on a connection opened for its own registration, and   *)
(* that registration is of the binding the caller named: re-registering    *)
(* while the call is in flight never pairs an old statement with a new     *)
(* database or the reverse (the clone taken in execute, list_resources and *)
(* complete_template_variable).                                            *)
RunsOwnProfile ==
    \A c \in Calls : job[c] # 0 => /\ reg[job[c]].name = asked[c]
                                   /\ ran[c] = TextFor(reg[job[c]].spec, kind[c])

(* Whatever entry point a caller uses, what runs is neither empty nor      *)
(* blank and, on a read-only profile, passed the read-only guard at        *)
(* registration (register_profile's checks together cover what execute,    *)
(* list_resources and complete_template_variable select).  The predicate   *)
(* of read_file is excepted: registration never holds it to the guard.     *)
PredicateRuns(c) == kind[c] = "execute" /\ reg[job[c]].spec.operation = "read_file"

RunsGuarded ==
    \A c \in Calls : job[c] # 0 =>
        /\ ran[c] \in {"read", "write", "built"}
        /\ reg[job[c]].spec.readOnly /\ ~PredicateRuns(c) => ran[c] # "write"

(* No connection stays idle in a pool that nobody can reach any more, for  *)
(* example after a timed-out statement ended past a re-registration.       *)
IdleReachable == \A g \in Generations : idle[g] > 0 => Alive(g)

(* A superseded registration's connections are all closed in the end.      *)
Superseded(g) == g <= Len(reg) /\ \A n \in Names : profile[n] # g
Closed(g) == idle[g] = 0 /\ InUse(g) = 0
SupersededClosed == \A g \in Generations : Superseded(g) ~> Closed(g)
=============================================================================
