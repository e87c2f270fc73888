------------------------------ MODULE Answers ------------------------------
(***************************************************************************)
(* What the caller and the audit log are told: the class of an error       *)
(* (envelope.rs), the outcome label and its audit action (lib.rs), and the *)
(* body of an answer on each surface (surface.rs).                         *)
(*                                                                         *)
(* A message is the set of the markers that occur in its text: "refused"   *)
(* for any of the words of a parser, binder, catalog, permission or        *)
(* conversion error, "transient" for any of those of an I/O, lock or       *)
(* connection failure, "timeout" for "timeout" and "timed out".            *)
(***************************************************************************)
EXTENDS Statements

CONSTANT NameOrder    \* the pairs of column names in alphabetical order

Markers == {"refused", "transient", "timeout"}

(* The texts that the plugin writes itself.  What it puts in front of the  *)
(* engine's texts holds no marker, but for "external access" in front of a *)
(* failure to set that option.                                             *)
TimedOut == {"timeout"}
WithoutUri == {}

-----------------------------------------------------------------------------
(* classify_error: whether the caller is told to retry.                    *)
Retryable(message) ==
    "refused" \notin message /\ message \cap {"transient", "timeout"} # {}

ErrorKind(message) ==
    IF Retryable(message) THEN "transport_error" ELSE "duckdb_error"

(* duckdb_downstream_error.                                                *)
DownstreamError(message) ==
    [kind |-> ErrorKind(message), retryable |-> Retryable(message)]

(* The outcome label of a failed statement.                                *)
(* Faulty variant: the kind of the error is looked at first.               *)
BugFailureLabel(message) ==
    IF Retryable(message) THEN "transport_error"
    ELSE IF "timeout" \in message THEN "timeout" ELSE "duckdb_error"

FailureLabel(message) ==
    IF "timeout" \in message THEN "timeout"
    ELSE IF Retryable(message) THEN "transport_error" ELSE "duckdb_error"

(* audit_action_for_outcome, emit_host_observability: the audit events of  *)
(* a label, one or none.                                                   *)
AuditEvents(label) ==
    CASE label = "timeout"         -> <<"request_timeout">>
      [] label = "transport_error" -> <<"request_failed">>
      [] label = "duckdb_error"    -> <<"query_rejected">>
      [] label = "invalid_spec"    -> <<"request_failed">>
      [] OTHER                     -> << >>

-----------------------------------------------------------------------------
(* An answer: its shape, and what the shape holds.                         *)

(* A BackendError.                                                         *)
Refusal(kind) == [shape |-> "refusal", error |-> [kind |-> kind, retryable |-> FALSE]]

(* build_result_envelope, with an error and with rows.                     *)
ErrorEnvelope(message) ==
    [shape |-> "envelope", error |-> DownstreamError(message)]

Envelope(outcome) ==
    [shape |-> "envelope", error |-> None, rows |-> outcome.rows,
     count |-> outcome.count, truncated |-> outcome.truncated]

ResourceContents(uri, rows) ==
    [shape |-> "contents", error |-> None, uri |-> uri, rows |-> rows]

PromptMessages(rows) == [shape |-> "messages", error |-> None, rows |-> rows]

(* resolve_resource_uri: the binding's, else the caller's, unless blank.   *)
Usable(uri) == uri # None /\ uri # Word("")

ResolveResourceUri(pinned, arguments) ==
    CASE Usable(pinned) -> pinned
      [] ~Usable(pinned) /\ "uri" \in DOMAIN arguments ->
            IF IsString(arguments.uri) /\ Usable(arguments.uri) THEN arguments.uri ELSE None
      [] OTHER -> None

(* execute: the answer to a statement that succeeded, and its label.       *)
(* Faulty variant: a resource without a uri is answered as it should be    *)
(* but labelled like any statement that succeeded.                         *)
BugShaped(binding, arguments, outcome) ==
    LET uri == ResolveResourceUri(binding.uri, arguments)
    IN  CASE binding.surface = "tool"   -> [answer |-> Envelope(outcome), label |-> "ok"]
          [] binding.surface = "prompt" -> [answer |-> PromptMessages(outcome.rows), label |-> "ok"]
          [] binding.surface = "resource" ->
                [answer |-> IF uri = None THEN ErrorEnvelope(WithoutUri)
                            ELSE ResourceContents(uri, outcome.rows),
                 label |-> "ok"]

Shaped(binding, arguments, outcome) ==
    LET uri == ResolveResourceUri(binding.uri, arguments)
    IN  CASE binding.surface = "tool"   -> [answer |-> Envelope(outcome), label |-> "ok"]
          [] binding.surface = "prompt" -> [answer |-> PromptMessages(outcome.rows), label |-> "ok"]
          [] binding.surface = "resource" ->
                IF uri = None
                THEN [answer |-> ErrorEnvelope(WithoutUri), label |-> "duckdb_error"]
                ELSE [answer |-> ResourceContents(uri, outcome.rows), label |-> "ok"]

(* ... and to one that failed.                                             *)
FailureShaped(message) ==
    [answer |-> ErrorEnvelope(message), label |-> FailureLabel(message)]

-----------------------------------------------------------------------------
(* complete_template_variable: the candidates.  The first column is the    *)
(* first key of the first row's JSON object, whose order is that of the    *)
(* insertions or of the names, as serde_json was built.                    *)
FirstColumn(columns, keyOrder) ==
    CHOOSE c \in {columns[i] : i \in DOMAIN columns} :
        \/ keyOrder = "inserted" /\ c = columns[1]
        \/ /\ keyOrder = "byName"
           /\ \A i \in DOMAIN columns : c = columns[i] \/ <<c, columns[i]>> \in NameOrder

OnlyStrings(cells) == SelectSeq(cells, IsString)

(* rows_to_completion_values: the strings among the cells of that column.  *)
(* Faulty variant: other cells are offered too.                            *)
BugCompletionValues(rows, column, max) ==
    [i \in 1..(IF Len(rows) <= max THEN Len(rows) ELSE max) |-> rows[i][column]]

CompletionValues(rows, column, max) ==
    LET cells == [i \in 1..(IF Len(rows) <= max THEN Len(rows) ELSE max) |-> rows[i][column]]
    IN  OnlyStrings(cells)

Candidates(values) == [shape |-> "candidates", error |-> None, rows |-> values]
=============================================================================
