----------------------------- MODULE MCProfiles -----------------------------
(* The specs that are registered: around a plain one, the combinations of  *)
(* the fields that registration and statement selection look at together.  *)
EXTENDS Profiles

Plain == [database |-> "file", readOnly |-> TRUE, external |-> FALSE,
          operation |-> "query", statement |-> "read", readQuery |-> "absent",
          listQuery |-> "absent", completion |-> "absent", surface |-> "tool",
          uri |-> "absent", tableFilter |-> FALSE, readFile |-> "absent",
          predicate |-> "absent",
          wellFormed |-> TRUE]

(* The statement and the read_query, on and off the resource surface.      *)
StatementSpecs ==
    {[Plain EXCEPT !.readOnly = r, !.statement = st, !.readQuery = q, !.surface = sf] :
        r \in BOOLEAN, st \in {"absent", "write"}, q \in {"absent", "blank", "read", "write"},
        sf \in {"tool", "resource"}}

(* The other two entry points.                                             *)
EntrySpecs ==
    {[Plain EXCEPT !.readOnly = r, !.listQuery = l, !.completion = v] :
        r \in BOOLEAN, l \in {"absent", "write"}, v \in {"blank", "read", "write"}}

(* The operations that build their own statement.                          *)
BuiltSpecs ==
    {[Plain EXCEPT !.operation = o, !.statement = "write", !.readQuery = q,
                   !.surface = "resource", !.tableFilter = t, !.external = t,
                   !.readFile = f] :
        o \in {"list_columns", "read_file"}, q \in {"absent", "read"},
        t \in BOOLEAN, f \in {"absent", "valid"}}

(* A file read with its predicate, on a read-only profile or not.          *)
PredicateSpecs ==
    {[Plain EXCEPT !.operation = "read_file", !.external = TRUE, !.readFile = "valid",
                   !.predicate = p, !.readOnly = r] :
        p \in {"blank", "read", "write"}, r \in BOOLEAN}

MCSpecs ==
    StatementSpecs \cup EntrySpecs \cup BuiltSpecs \cup PredicateSpecs
    \cup {Plain, [Plain EXCEPT !.database = "memory"],
          [Plain EXCEPT !.uri = "set"], [Plain EXCEPT !.wellFormed = FALSE]}
=============================================================================
