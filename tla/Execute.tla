------------------------------ MODULE Execute ------------------------------
(***************************************************************************)
(* One binding and the calls made of it, from the request to the answer:   *)
(* what execute and complete_template_variable (lib.rs) run, on which      *)
(* connection (open_connection), how the rows are read (run_query_on_conn) *)
(* and what becomes of them.                                               *)
(*                                                                         *)
(* A file database has a pool of one connection, so that calls queue; a    *)
(* call that gave up leaves its statement running on that connection.      *)
(* QueryRunner has the interleavings of many calls and connections, and    *)
(* leaves out what a call asks and gets.                                   *)
(***************************************************************************)
EXTENDS Answers, FiniteSets

CONSTANTS
    Bindings,   \* the profiles that may be registered
    Requests,   \* entry point, payload and arguments of a call
    Texts       \* the messages of failures, as sets of markers

ASSUME TextsAssumption == Texts \subseteq SUBSET Markers

IsSelect(sql) == sql.select \in Seq(STRING) /\ sql.where \in Seq(STRING)

ASSUME BindingsAssumption ==
    \A b \in Bindings :
        /\ b.read_only \in BOOLEAN /\ b.external \in BOOLEAN
        /\ b.init_sql \in Seq(STRING) /\ b.attach \in Seq(STRING)
        /\ b.operation \in {"query", "read_file", "list_tables", "list_columns"}
        /\ b.surface \in {"tool", "resource", "prompt"}
        /\ b.max_rows \in Nat /\ b.max_results \in Nat
        /\ b.operation = "query" => IsSelect(QueryText(b))
        /\ b.operation = "read_file" => IsSelect(BuildReadFile(b.read_file))
        /\ b.completion # None => IsSelect(b.completion)
        /\ DOMAIN b.filters = DOMAIN FilterColumn
        /\ \A f \in DOMAIN b.filters : b.filters[f].pinned \in Strings \cup {None}
        /\ b.params \in Seq([name : STRING, form : {"dot", "optional", "index"}])

(* An argument that is a string is one of the strings there are.           *)
ASSUME RequestsAssumption ==
    \A request \in Requests : \A name \in DOMAIN request.arguments :
        IsString(request.arguments[name]) => request.arguments[name] \in Strings

ErrorKinds == {"profile_not_found", "invalid_spec", "transport", "transport_error",
               "duckdb_error"}

ASSUME NoneAssumption ==
    /\ None \notin [kind : ErrorKinds, retryable : BOOLEAN]
    /\ \A b \in Bindings, request \in Requests :
         ~ParamsRefused(b, request.arguments) => StatementFor(b, request.arguments) # None

VARIABLES
    binding,    \* the registered profile
    keyOrder,   \* the order of a JSON object: "inserted" or "byName"
    phase,      \* how far the call is
    call,       \* the call's request
    pooled,     \* the idle connection of the pool, or None
    orphan,     \* the connection of a statement whose call gave up, or None
    conn,       \* the connection of the call, or None
    todo,       \* the call's statement and binds
    count,      \* how many rows have been read
    kept,       \* the rows that have been kept, as JSON
    outcome,    \* how the statement ended
    audits,     \* the audit actions of the call
    answer      \* the answer to the call

vars == <<binding, keyOrder, phase, call, pooled, orphan, conn, todo, count,
          kept, outcome, audits, answer>>

(* register_profile: a database by this very name has no pool.             *)
InMemory == binding.database = ":memory:"

(* is_memory_or_empty: the names whose connections are each an empty engine*)
(* of their own; the second stands for the forms with config flags.        *)
OpensInMemory(database) == database \in {":memory:", ":memory:?..."}

(* What open_connection does, in its order: the flags, init_sql, ATTACH.   *)
OpenSteps(b) ==
    <<[step |-> "open", readOnly |-> b.read_only /\ b.database # ":memory:",
       external |-> b.external]>>
        \o [i \in DOMAIN b.init_sql |-> [step |-> "init", sql |-> b.init_sql[i]]]
        \o [i \in DOMAIN b.attach |-> [step |-> "attach", alias |-> b.attach[i]]]

Fresh == [done |-> << >>, ran |-> FALSE]

Prefixes(s) == {SubSeq(s, 1, n) : n \in 0..Len(s)}

Connections == [done : Prefixes(OpenSteps(binding)), ran : BOOLEAN]

MaxRows == IF call.entry = "complete" THEN binding.max_results ELSE binding.max_rows

Result == ResultRows(todo.sql, todo.binds)

ReadRow(i) ==
    RowToJson(Result[i], ResultColumns(todo.sql), NullTyped(todo.sql))

Init ==
    /\ binding \in Bindings
    /\ keyOrder \in {"inserted", "byName"}
    /\ phase = "idle"
    /\ pooled = None
    /\ orphan = None
    /\ conn = None
    /\ call = None
    /\ todo = None
    /\ count = 0
    /\ kept = << >>
    /\ outcome = None
    /\ audits = << >>
    /\ answer = None

-----------------------------------------------------------------------------
(* The call.                                                               *)

Answered(what, label) ==
    /\ phase' = "answered"
    /\ answer' = what
    /\ audits' = AuditEvents(label)

Begin(request) ==
    /\ phase = "idle"
    /\ call' = request

(* What a call leaves alone when it is answered without a statement.       *)
NothingRun ==
    UNCHANGED <<binding, keyOrder, pooled, orphan, conn, todo, count, kept, outcome>>

(* The binding is not registered: no audit action has that label.          *)
CallUnknown(request) ==
    /\ Begin(request)
    /\ request.payload = "other binding"
    /\ Answered(Refusal("profile_not_found"),
                IF request.entry = "execute" THEN "profile_not_found" ELSE "none")
    /\ NothingRun

CallMalformed(request) ==
    /\ Begin(request)
    /\ request.entry = "execute" /\ request.payload = "not JSON"
    /\ Answered(Refusal("invalid_spec"), "invalid_spec")
    /\ NothingRun

(* finish_error: a parameter could not be evaluated or bound.              *)
CallRefused(request) ==
    /\ Begin(request)
    /\ request.entry = "execute" /\ request.payload = "JSON"
    /\ ParamsRefused(binding, request.arguments)
    /\ \E message \in Texts : Answered(ErrorEnvelope(message), "invalid_spec")
    /\ NothingRun

Submit(what) ==
    /\ todo' = what
    /\ conn' = IF InMemory THEN Fresh ELSE None
    /\ phase' = IF InMemory THEN "opening" ELSE "acquiring"
    /\ UNCHANGED <<binding, keyOrder, pooled, orphan, count, kept, outcome, audits, answer>>

CallExecute(request) ==
    /\ Begin(request)
    /\ request.entry = "execute" /\ request.payload = "JSON"
    /\ ~ParamsRefused(binding, request.arguments)
    /\ Submit(StatementFor(binding, request.arguments))

(* complete_template_variable, with a query for the variable and without.  *)
CallComplete(request) ==
    /\ Begin(request)
    /\ request.entry = "complete" /\ request.payload = "JSON"
    /\ binding.completion # None
    /\ Submit([sql |-> binding.completion, binds |-> <<request.arguments.prefix>>])

CallUnconfigured(request) ==
    /\ Begin(request)
    /\ request.entry = "complete" /\ request.payload = "JSON"
    /\ binding.completion = None
    /\ Answered(Candidates(<< >>), "none")
    /\ NothingRun

-----------------------------------------------------------------------------
(* The connection.                                                         *)

(* What the rest of the call leaves alone while the statement is not read. *)
NotRead == UNCHANGED <<binding, keyOrder, call, todo, count, kept, audits, answer>>

Ends(how) ==
    /\ outcome' = how
    /\ phase' = "ended"

FailsWith(message, timer) ==
    Ends([ok |-> FALSE, message |-> message, timer |-> timer])

(* The pool's idle connection passes its ping, or is closed.               *)
Lend ==
    /\ phase = "acquiring" /\ pooled # None
    /\ conn' = pooled
    /\ pooled' = None
    /\ phase' = "ready"
    /\ NotRead /\ UNCHANGED <<orphan, outcome>>

Evict ==
    /\ phase = "acquiring" /\ pooled # None
    /\ pooled' = None
    /\ NotRead /\ UNCHANGED <<phase, orphan, conn, outcome>>

OpenPooled ==
    /\ phase = "acquiring" /\ pooled = None /\ orphan = None
    /\ conn' = Fresh
    /\ phase' = "opening"
    /\ NotRead /\ UNCHANGED <<pooled, orphan, outcome>>

OpenStep ==
    /\ phase = "opening"
    /\ Len(conn.done) < Len(OpenSteps(binding))
    /\ conn' = [conn EXCEPT !.done = Append(@, OpenSteps(binding)[Len(@) + 1])]
    /\ NotRead /\ UNCHANGED <<phase, pooled, orphan, outcome>>

Opened ==
    /\ phase = "opening"
    /\ Len(conn.done) = Len(OpenSteps(binding))
    /\ phase' = "ready"
    /\ NotRead /\ UNCHANGED <<pooled, orphan, conn, outcome>>

(* Faulty variant: a connection that could not be set up goes to the pool. *)
BugOpenFails ==
    /\ phase = "opening"
    /\ Len(conn.done) < Len(OpenSteps(binding))
    /\ \E message \in Texts : FailsWith(message, FALSE)
    /\ pooled' = IF InMemory THEN None ELSE conn
    /\ conn' = None
    /\ NotRead /\ UNCHANGED orphan

OpenFails ==
    /\ phase = "opening"
    /\ Len(conn.done) < Len(OpenSteps(binding))
    /\ \E message \in Texts : FailsWith(message, FALSE)
    /\ conn' = None
    /\ NotRead /\ UNCHANGED <<pooled, orphan>>

(* The timer of the acquisition, the open included, for a file database.   *)
AcquireTimeout ==
    /\ phase \in {"acquiring", "opening"} /\ ~InMemory
    /\ FailsWith(TimedOut, TRUE)
    /\ conn' = None
    /\ NotRead /\ UNCHANGED <<pooled, orphan>>

(* The timer of the statement, which for :memory: includes the open.  The  *)
(* job runs on; that of a file database holds the connection.              *)
StatementTimeout ==
    /\ phase \in (IF InMemory THEN {"opening"} ELSE {}) \cup {"ready", "reading"}
    /\ FailsWith(TimedOut, TRUE)
    /\ orphan' = IF InMemory THEN orphan ELSE [conn EXCEPT !.ran = TRUE]
    /\ conn' = None
    /\ NotRead /\ UNCHANGED pooled

OrphanEnds ==
    /\ orphan # None
    /\ pooled' = orphan
    /\ orphan' = None
    /\ NotRead /\ UNCHANGED <<phase, conn, outcome>>

-----------------------------------------------------------------------------
(* The statement.                                                          *)

Start ==
    /\ phase = "ready"
    /\ Executable(todo.sql, todo.binds)
    /\ conn' = [conn EXCEPT !.ran = TRUE]
    /\ phase' = "reading"
    /\ NotRead /\ UNCHANGED <<pooled, orphan, outcome>>

(* Where a job's connection goes when the job ends.                        *)
Release ==
    /\ pooled' = IF InMemory THEN None ELSE [conn EXCEPT !.ran = TRUE]
    /\ conn' = None
    /\ UNCHANGED orphan

(* Prepare, query or a row fails.                                          *)
StatementFails ==
    /\ phase \in {"ready", "reading"}
    /\ \E message \in Texts : FailsWith(message, FALSE)
    /\ Release
    /\ NotRead

(* Faulty variant: the row after the cap is kept as well.                  *)
BugReadNext ==
    /\ phase = "reading" /\ count < Len(Result)
    /\ count' = count + 1
    /\ kept' = IF Len(kept) > MaxRows THEN kept ELSE Append(kept, ReadRow(count + 1))
    /\ UNCHANGED <<binding, keyOrder, phase, call, pooled, orphan, conn, todo,
                   outcome, audits, answer>>

ReadNext ==
    /\ phase = "reading" /\ count < Len(Result)
    /\ count' = count + 1
    /\ kept' = IF Len(kept) >= MaxRows THEN kept ELSE Append(kept, ReadRow(count + 1))
    /\ UNCHANGED <<binding, keyOrder, phase, call, pooled, orphan, conn, todo,
                   outcome, audits, answer>>

(* Faulty variant: reading stops at the cap.                               *)
BugReadEnds ==
    /\ phase = "reading" /\ (count = Len(Result) \/ Len(kept) = MaxRows)
    /\ Ends([ok |-> TRUE, rows |-> kept, count |-> count, truncated |-> count > Len(kept)])
    /\ Release
    /\ NotRead

ReadEnds ==
    /\ phase = "reading" /\ count = Len(Result)
    /\ Ends([ok |-> TRUE, rows |-> kept, count |-> count, truncated |-> count > Len(kept)])
    /\ Release
    /\ NotRead

-----------------------------------------------------------------------------
(* The answer.                                                             *)

AnswerExecute ==
    /\ phase = "ended" /\ call.entry = "execute"
    /\ LET shaped == IF outcome.ok THEN Shaped(binding, call.arguments, outcome)
                     ELSE FailureShaped(outcome.message)
       IN  Answered(shaped.answer, shaped.label)
    /\ UNCHANGED <<binding, keyOrder, call, pooled, orphan, conn, todo, count, kept, outcome>>

(* The statement's failure is a transport error of the call, not audited.  *)
AnswerComplete ==
    /\ phase = "ended" /\ call.entry = "complete"
    /\ Answered(IF outcome.ok
                THEN Candidates(CompletionValues(outcome.rows,
                                                 FirstColumn(ResultColumns(todo.sql), keyOrder),
                                                 MaxRows))
                ELSE Refusal("transport"), "none")
    /\ UNCHANGED <<binding, keyOrder, call, pooled, orphan, conn, todo, count, kept, outcome>>

NextCall ==
    /\ phase = "answered"
    /\ phase' = "idle"
    /\ call' = None /\ todo' = None /\ outcome' = None /\ answer' = None
    /\ count' = 0 /\ kept' = << >> /\ audits' = << >>
    /\ UNCHANGED <<binding, keyOrder, pooled, orphan, conn>>

Call(request) ==
    \/ CallUnknown(request)
    \/ CallMalformed(request)
    \/ CallRefused(request)
    \/ CallExecute(request)
    \/ CallComplete(request)
    \/ CallUnconfigured(request)

Next ==
    \/ \E request \in Requests : Call(request)
    \/ Lend \/ Evict \/ OpenPooled \/ OpenStep \/ Opened \/ OpenFails
    \/ AcquireTimeout \/ StatementTimeout \/ OrphanEnds
    \/ Start \/ StatementFails \/ ReadNext \/ ReadEnds
    \/ AnswerExecute \/ AnswerComplete
    \/ NextCall

Spec == Init /\ [][Next]_vars

-----------------------------------------------------------------------------
(* Every variable has its type; no more than max_rows rows are held.       *)
TypeOK ==
    /\ binding \in Bindings
    /\ keyOrder \in {"inserted", "byName"}
    /\ phase \in {"idle", "acquiring", "opening", "ready", "reading", "ended", "answered"}
    /\ call \in Requests \cup {None}
    /\ pooled \in Connections \cup {None}
    /\ orphan \in Connections \cup {None}
    /\ conn \in Connections \cup {None}
    /\ count \in Nat
    /\ phase = "reading" => Len(kept) <= MaxRows
    /\ Len(kept) <= count
    /\ Len(audits) <= 1

(* A statement is only run on a connection opened with the flags of the    *)
(* binding, on which every statement of init_sql and then every ATTACH was *)
(* run, once: neither the failure of one of them nor a timeout on the way  *)
(* leaves a connection that a later call could be lent.                    *)
ConfiguredBeforeUse ==
    phase \in {"ready", "reading"} =>
        /\ Len(conn.done) = 1 + Len(binding.init_sql) + Len(binding.attach)
        /\ conn.done[1] = [step |-> "open", external |-> binding.external,
                           readOnly |-> binding.read_only /\ binding.database # ":memory:"]
        /\ \A i \in DOMAIN binding.init_sql :
             conn.done[1 + i] = [step |-> "init", sql |-> binding.init_sql[i]]
        /\ \A i \in DOMAIN binding.attach :
             conn.done[1 + Len(binding.init_sql) + i] =
                 [step |-> "attach", alias |-> binding.attach[i]]

(* No call on a database in memory is lent an engine on which a statement  *)
(* of another call ran.                                                    *)
MemoryIsFresh ==
    OpensInMemory(binding.database) /\ phase = "ready" => ~conn.ran

Succeeded(entry) ==
    phase = "answered" /\ call.entry = entry /\ todo # None /\ answer.error = None

(* An answer holds the first max_rows rows of the result, no others and    *)
(* none twice; the envelope has the exact number of rows of the result and *)
(* says so when some were left out.  An error comes without rows.          *)
WholeAnswer ==
    /\ Succeeded("execute") =>
         LET held == IF Len(Result) <= binding.max_rows THEN Len(Result) ELSE binding.max_rows
         IN  /\ answer.rows = [i \in 1..held |-> ReadRow(i)]
             /\ answer.shape = "envelope" =>
                  /\ answer.count = Len(Result)
                  /\ answer.truncated <=> Len(Result) > binding.max_rows
    /\ phase = "answered" /\ answer.error # None => "rows" \notin DOMAIN answer

(* Which audit events may go with the answer to a call of execute: none    *)
(* with rows, nor for a binding that does not exist; a failed request with *)
(* the other refusals before a statement was submitted, whatever they say  *)
(* of a retry; after that a failed request with an error worth a retry, a  *)
(* rejected query with one that is not, and a timeout with either, since   *)
(* an engine's text may hold "timeout" next to a word of a refusal.        *)
AuditEventsFor(error) ==
    IF error = None THEN {<< >>}
    ELSE IF error.kind = "profile_not_found" THEN {<< >>}
    ELSE IF todo = None THEN {<<"request_failed">>}
    ELSE {<<"request_timeout">>,
          IF error.retryable THEN <<"request_failed">> ELSE <<"query_rejected">>}

(* Caller and audit log agree on how a call of execute went: no error is   *)
(* shown that the log does not have, none logged that was not shown, and   *)
(* the log never has a rejected query where the caller is told to retry.   *)
AuditMatchesAnswer ==
    phase = "answered" /\ call.entry = "execute" =>
        audits \in AuditEventsFor(answer.error)

(* A call that one of the plugin's timers ended is reported to the caller  *)
(* as worth retrying and to the audit log as a timeout.                    *)
TimeoutsReported ==
    phase = "answered" /\ call.entry = "execute" /\ todo # None =>
        outcome.ok \/ ~outcome.timer \/
            (answer.error.retryable /\ audits = <<"request_timeout">>)

(* What the operator pins a column of the catalog to, and what the caller  *)
(* asks for in it: a value or none, the empty string being none.           *)
Pinned(f) == {binding.filters[f].pinned} \ {None, Word("")}

Given(f) ==
    LET filter == binding.filters[f]
    IN  IF Supplied(filter, call.arguments)
        THEN {call.arguments[filter.arg]} \ {None, Word("")} ELSE {}

(* The entries of a view that have the values wanted of each column; there *)
(* is no type of table to filter columns by.                               *)
InScope(view, wanted) ==
    {r \in DOMAIN view.rows :
        \A f \in DOMAIN FilterColumn : \A value \in wanted[f] :
            \/ f = "table_type" /\ binding.operation = "list_columns"
            \/ view.rows[r][ColumnAt(view, FilterColumn[f])] = value}

ShowsEntriesOf(entries, view) ==
    \A i \in DOMAIN answer.rows : \E r \in entries :
        \A name \in DOMAIN answer.rows[i] :
            answer.rows[i][name] = ValueToJson(view.rows[r][ColumnAt(view, name)])

(* A catalog answer counts the entries that have both the operator's and   *)
(* the caller's values, and shows no others, unless a caller gave another  *)
(* value for a pinned column.                                              *)
CatalogExact ==
    /\ Succeeded("execute") /\ IsCatalog(binding)
    /\ \A f \in DOMAIN FilterColumn :
          Supplied(binding.filters[f], call.arguments) => Pinned(f) \subseteq Given(f)
    =>  LET view == Relations[todo.sql.from]
            entries == InScope(view, [f \in DOMAIN FilterColumn |-> Pinned(f) \cup Given(f)])
        IN  /\ outcome.count = Cardinality(entries)
            /\ ShowsEntriesOf(entries, view)

(* A caller can only narrow the catalog: its answers hold entries that     *)
(* have every value the operator pinned, whatever its arguments.           *)
CallerOnlyNarrows ==
    Succeeded("execute") /\ IsCatalog(binding) =>
        LET view == Relations[todo.sql.from]
        IN  ShowsEntriesOf(InScope(view, [f \in DOMAIN FilterColumn |-> Pinned(f)]), view)

(* The rows of a catalog answer have the columns that the output schema    *)
(* types, all of them and no others.                                       *)
RowsAsAdvertised ==
    Succeeded("execute") /\ IsCatalog(binding) =>
        \A i \in DOMAIN answer.rows : DOMAIN answer.rows[i] = AdvertisedColumns(binding)

(* What a call runs depends on no argument that the input schema does not  *)
(* advertise, as long as parameters name theirs with a dot.                *)
AdvertisedSuffices ==
    /\ todo # None /\ call.entry = "execute"
    /\ \A i \in DOMAIN binding.params : binding.params[i].form # "index"
    =>  LET names == DOMAIN call.arguments \cap AdvertisedArguments(binding)
        IN  todo = StatementFor(binding, [n \in names |-> call.arguments[n]])

(* An integer key that a row of an answer showed, given back as the        *)
(* argument of a statement that looks a key up, finds the rows that have   *)
(* it and no others, however large it is.                                  *)
LooksUpId ==
    /\ ~IsCatalog(binding) /\ todo.sql.where = <<"id">>
    /\ \A i \in DOMAIN binding.params : binding.params[i].name = "id"

IdsRoundTrip ==
    Succeeded("execute") /\ LooksUpId /\ "id" \in DOMAIN call.arguments =>
        LET relation == Relations[todo.sql.from]
            Key(r) == relation.rows[r][ColumnAt(relation, "id")]
            named == {r \in DOMAIN relation.rows : ValueToJson(Key(r)) = call.arguments.id}
        IN  /\ \A r \in DOMAIN relation.rows : Key(r) \in [int : Int] \cup {Null}
            /\ named # {} /\ call.arguments.id # Null
            =>  /\ outcome.count = Cardinality(named)
                /\ \A i \in DOMAIN answer.rows :
                      "id" \in DOMAIN answer.rows[i] => answer.rows[i].id = call.arguments.id

(* The candidates of a completion are the strings in the first column of   *)
(* the first max_results rows, if JSON objects keep the order of their     *)
(* columns or there is only one.                                           *)
CandidatesAreFirstColumn ==
    /\ Succeeded("complete")
    /\ keyOrder = "inserted" \/ Len(ResultColumns(todo.sql)) = 1
    => LET offered == IF Len(Result) <= binding.max_results THEN Len(Result)
                      ELSE binding.max_results
           cells == [i \in 1..offered |-> ReadRow(i)[ResultColumns(todo.sql)[1]]]
       IN  answer.rows = OnlyStrings(cells)
=============================================================================
