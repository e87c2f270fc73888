----------------------------- MODULE MCExecute -----------------------------
(***************************************************************************)
(* An instance of Execute for TLC.  i64 is -8..7 and u64 is 0..15; doubles *)
(* are exact up to 4 and multiples of 4 beyond, so that 12 and 13 share    *)
(* one, as neighbours above 2^63 do.                                       *)
EXTENDS Execute, TLC

MCNameOrder == {<<"id", "name">>, <<"id", "note">>, <<"name", "note">>}

(* A table with keys on both sides of i64's limit, a text column with a    *)
(* NULL and a rendered value, and a column typed NULL.                     *)
Items ==
    [columns |-> <<"name", "id", "note">>, nullTyped |-> <<FALSE, FALSE, TRUE>>,
     rows |-> << <<Word("a"), Number(7), Null>>, <<Null, Number(12), Null>>,
                 <<Opaque("b"), Number(13), Null>>, <<Digits(3), Number(13), Null>> >>]

(* A base entry of each view, and for each filter one that differs in it.  *)
Entry(catalog, schema, table, type) ==
    <<Word(catalog), Word(schema), Word(table), Word(type), Word("NO")>>

Tables ==
    [columns |-> <<"table_catalog", "table_schema", "table_name", "table_type",
                   "is_insertable_into">>,
     nullTyped |-> [i \in 1..5 |-> FALSE],
     rows |-> <<Entry("db", "main", "t", "VIEW"), Entry("x", "main", "t", "VIEW"),
                Entry("db", "x", "t", "VIEW"), Entry("db", "main", "x", "VIEW"),
                Entry("db", "main", "t", "x")>>]

Field(catalog, schema, table, position) ==
    <<Word(catalog), Word(schema), Word(table), Word("c"), Word("INT"), Word("YES"),
      Number(position)>>

TableColumns ==
    [columns |-> <<"table_catalog", "table_schema", "table_name", "column_name",
                   "data_type", "is_nullable", "ordinal_position">>,
     nullTyped |-> [i \in 1..7 |-> FALSE],
     rows |-> <<Field("db", "main", "t", 1), Field("db", "main", "t", 2),
                Field("x", "main", "t", 1), Field("db", "x", "t", 1),
                Field("db", "main", "x", 1)>>]

MCRelations == [items |-> Items] @@ ("information_schema.tables" :> Tables)
                                 @@ ("information_schema.columns" :> TableColumns)

-----------------------------------------------------------------------------
Unfiltered == [pinned |-> None, arg |-> None]
NoFilters == [f \in {"catalog", "schema", "table", "table_type"} |-> Unfiltered]

(* The binding that the others are variants of.                            *)
Lookup ==
    [database |-> "file", read_only |-> TRUE, external |-> FALSE,
     init_sql |-> << >>, attach |-> << >>,
     operation |-> "query", surface |-> "tool", uri |-> None,
     statement |-> Select(<<"id", "name">>, "items", <<"id">>), read_query |-> None,
     read_file |-> None, filters |-> NoFilters,
     params |-> <<[name |-> "id", form |-> "dot"]>>,
     completion |-> None, max_rows |-> 1, max_results |-> 2]

Everything == Select(<<"id", "note", "name">>, "items", << >>)

(* Setup: two statements and an ATTACH, on a file and in memory; the       *)
(* result is longer than the cap.  A database in memory by another name    *)
(* than :memory: cannot be opened read-only.                               *)
Setups ==
    {[Lookup EXCEPT !.database = database, !.init_sql = <<"s1", "s2">>, !.attach = <<"a">>,
                    !.external = TRUE, !.statement = Everything, !.params = << >>,
                    !.surface = surface, !.max_rows = 2,
                    !.read_only = database # ":memory:?..."] :
        database \in {"file", ":memory:", ":memory:?..."}, surface \in {"tool", "prompt"}}

(* Resources, with a uri of their own and without; and the read of one.    *)
Resources ==
    {[Lookup EXCEPT !.surface = "resource", !.uri = uri, !.read_query = read, !.max_rows = 3,
                    !.params = <<[name |-> "id", form |-> form]>>] :
        uri \in {None, Word(""), Word("u")},
        read \in {None, Select(<<"id", "id">>, "items", <<"id">>)},
        form \in {"optional", "index"}}

Files ==
    {[Lookup EXCEPT !.operation = "read_file", !.max_rows = 4,
                    !.read_file = [path |-> "items", columns |-> columns, predicate |-> <<"id">>]] :
        columns \in {<< >>, <<"id">>}}

(* Two of the four filters of a catalog binding at a time, each pinned,    *)
(* read from an argument, or both.                                         *)
Ways(f) == {[pinned |-> Word(IF f = "catalog" THEN "db" ELSE IF f = "schema" THEN "main"
                             ELSE IF f = "table" THEN "t" ELSE "VIEW"), arg |-> None],
            [pinned |-> None, arg |-> f], [pinned |-> Word("x"), arg |-> f]}

Catalogs ==
    {[Lookup EXCEPT !.operation = operation, !.max_rows = 3, !.database = ":memory:",
                    !.filters = [NoFilters EXCEPT ![f] = w, ![g] = v]] :
        operation \in {"list_tables", "list_columns"},
        <<f, w, g, v>> \in
            UNION {{<<f, w, g, v>> : w \in Ways(f), v \in Ways(g)} :
                      <<f, g>> \in {<<"catalog", "table">>, <<"schema", "table_type">>,
                                    <<"table", "schema">>}}}

Completions ==
    {[Lookup EXCEPT !.completion = Select(columns, "items", <<"id">>), !.max_results = max] :
        columns \in {<<"name">>, <<"id">>, <<"name", "id">>, <<"name", "note">>},
        max \in {1, 2}}

MCBindings == {Lookup} \cup Setups \cup Resources \cup Files \cup Catalogs \cup Completions

-----------------------------------------------------------------------------
(* The ids that rows of the table show, and what a client may make up.     *)
Ids == {ValueToJson(Items.rows[r][2]) : r \in 1..4} \cup {Number(12), Null, List("l")}

MCArguments ==
    {<< >>}
        \cup {[id |-> i] : i \in Ids}
        \cup {[id |-> Number(7), uri |-> u] : u \in {Word(""), Word("v"), Null}}
        \cup {[catalog |-> v] : v \in {Word("db"), Word("")}}
        \cup {[schema |-> Word("main"), table |-> Word("t")], [table |-> Number(1)],
              [table |-> Word("t")], [table_type |-> Word("VIEW"), schema |-> Word("x")]}

MCRequests ==
    [entry : {"execute"}, payload : {"JSON"}, arguments : MCArguments]
        \cup {[entry |-> "complete", payload |-> "JSON", arguments |-> [prefix |-> p]] :
                 p \in {Word("a"), Digits(7), Digits(12), Digits(13)}}
        \cup {[entry |-> e, payload |-> "other binding", arguments |-> << >>] :
                 e \in {"execute", "complete"}}
        \cup {[entry |-> "execute", payload |-> "not JSON", arguments |-> << >>]}

MCTexts == SUBSET Markers
=============================================================================
