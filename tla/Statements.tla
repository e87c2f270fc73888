----------------------------- MODULE Statements -----------------------------
(***************************************************************************)
(* Which statement a call runs, with which binds: the operator's own, the  *)
(* information_schema statements that duckdb.rs builds from the filters of *)
(* the binding and the call, and the read_file statement; and what the     *)
(* input and output schemas advertise of them.                             *)
(*                                                                         *)
(* A statement is a record: the relation it selects from, the columns it   *)
(* selects (none: all of them), and the column each placeholder of its     *)
(* WHERE clause is compared with, in the order of the placeholders.  The   *)
(* rows of a relation are in the order that ORDER BY asks for.  What       *)
(* DuckDB makes of a statement is external.                                *)
(***************************************************************************)
EXTENDS Conversions, FiniteSets

CONSTANTS
    Relations,  \* by name: columns, which of them are typed NULL, rows
    None

(* A relation has columns, and its rows are cells of these columns, null   *)
(* in those without a type.                                                *)
ASSUME RelationsAssumption ==
    \A name \in DOMAIN Relations :
        LET relation == Relations[name]
        IN  /\ relation.columns \in Seq(STRING) /\ relation.columns # << >>
            /\ Len(relation.rows) \in Nat /\ DOMAIN relation.rows = 1..Len(relation.rows)
            /\ \A c \in DOMAIN relation.columns, r \in DOMAIN relation.rows :
                  relation.nullTyped[c] => relation.rows[r][c] = Null

(* The columns that the views of the catalog are filtered by are text.     *)
FilterColumn == [catalog |-> "table_catalog", schema |-> "table_schema",
                 table |-> "table_name", table_type |-> "table_type"]

Views == {"information_schema.tables", "information_schema.columns"}

ASSUME CatalogAssumption ==
    \A name \in Views \cap DOMAIN Relations :
        LET view == Relations[name]
        IN  \A c \in DOMAIN view.columns, r \in DOMAIN view.rows, f \in DOMAIN FilterColumn :
                view.columns[c] = FilterColumn[f] => view.rows[r][c] \in Strings \cup {Null}

Select(columns, relation, where) ==
    [from |-> relation, select |-> columns, where |-> where]

-----------------------------------------------------------------------------
(* The filters of a catalog binding: for each column of the view a pinned  *)
(* value and the name of an argument, each of which may be None.           *)

(* resolve_one: the caller's string, else the operator's value.            *)
Supplied(filter, arguments) ==
    /\ filter.arg # None
    /\ filter.arg \in DOMAIN arguments
    /\ IsString(arguments[filter.arg])

ResolveOne(filter, arguments) ==
    IF Supplied(filter, arguments) THEN arguments[filter.arg] ELSE filter.pinned

ResolveCatalogFilters(filters, arguments) ==
    [f \in DOMAIN filters |-> ResolveOne(filters[f], arguments)]

(* push_eq_filter: one condition and its bind, unless absent or empty.     *)
PushEqFilter(column, value) ==
    IF value = None \/ value = Word("") THEN << >>
    ELSE <<[column |-> column, bind |-> value]>>

Columns(pushed) == [i \in DOMAIN pushed |-> pushed[i].column]
Binds(pushed) == [i \in DOMAIN pushed |-> pushed[i].bind]

(* Faulty variant: the binds of schema and table are exchanged.            *)
BugScopeFilters(resolved) ==
    PushEqFilter("table_catalog", resolved.catalog)
        \o PushEqFilter("table_schema", resolved.table)
        \o PushEqFilter("table_name", resolved.schema)

ScopeFilters(resolved) ==
    PushEqFilter("table_catalog", resolved.catalog)
        \o PushEqFilter("table_schema", resolved.schema)
        \o PushEqFilter("table_name", resolved.table)

BuildListTables(resolved) ==
    LET pushed == ScopeFilters(resolved)
                      \o PushEqFilter("table_type", resolved.table_type)
    IN  [sql |-> Select(<<"table_catalog", "table_schema", "table_name", "table_type">>,
                        "information_schema.tables", Columns(pushed)),
         binds |-> Binds(pushed)]

(* Faulty variant: the columns of tables are selected from the other view. *)
BugBuildListColumns(resolved) ==
    LET pushed == ScopeFilters(resolved)
    IN  [sql |-> Select(<<"table_schema", "table_name", "column_name", "data_type">>,
                        "information_schema.columns", Columns(pushed)),
         binds |-> Binds(pushed)]

BuildListColumns(resolved) ==
    LET pushed == ScopeFilters(resolved)
    IN  [sql |-> Select(<<"table_name", "column_name", "data_type", "is_nullable",
                          "ordinal_position">>,
                        "information_schema.columns", Columns(pushed)),
         binds |-> Binds(pushed)]

(* build_read_file_sql, over the configured path.                          *)
BuildReadFile(file) == Select(file.columns, file.path, file.predicate)

-----------------------------------------------------------------------------
(* execute: the statement of the operation and its binds.  read_query is   *)
(* the read of a resource, where there is one.                             *)
QueryText(binding) ==
    IF binding.surface = "resource" /\ binding.read_query # None
    THEN binding.read_query ELSE binding.statement

IsCatalog(binding) == binding.operation \in {"list_tables", "list_columns"}

ParamsRefused(binding, arguments) ==
    ~IsCatalog(binding) /\ ParamsFail(binding.params, arguments)

StatementFor(binding, arguments) ==
    LET resolved == ResolveCatalogFilters(binding.filters, arguments)
        bound == EvalParamBinds(binding.params, arguments)
    IN  CASE binding.operation = "list_tables"  -> BuildListTables(resolved)
          [] binding.operation = "list_columns" -> BuildListColumns(resolved)
          [] binding.operation = "read_file"    ->
                [sql |-> BuildReadFile(binding.read_file), binds |-> bound]
          [] binding.operation = "query"        ->
                [sql |-> QueryText(binding), binds |-> bound]

-----------------------------------------------------------------------------
(* input_schema: the argument names of the filters, or those the sources   *)
(* of the parameters mention as `arguments.<name>`.                        *)

(* Faulty variant: the argument for the type of table is left out.         *)
BugArgumentNames(filters) ==
    {filters[f].arg : f \in {"catalog", "schema", "table"}} \ {None}

ArgumentNames(filters) == {filters[f].arg : f \in DOMAIN filters} \ {None}

ReferencedByParams(params) ==
    {params[i].name : i \in {i \in DOMAIN params : params[i].form # "index"}}

AdvertisedArguments(binding) ==
    IF IsCatalog(binding) THEN ArgumentNames(binding.filters)
    ELSE ReferencedByParams(binding.params)

(* output_schema: the columns a row is typed with, none for an operation   *)
(* whose rows may have any shape.                                          *)
AdvertisedColumns(binding) ==
    CASE binding.operation = "list_tables" ->
            {"table_catalog", "table_schema", "table_name", "table_type"}
      [] binding.operation = "list_columns" ->
            {"table_name", "column_name", "data_type", "is_nullable", "ordinal_position"}
      [] OTHER -> {}

-----------------------------------------------------------------------------
(* DuckDB: the result of a statement.                                      *)

ColumnAt(relation, name) ==
    CHOOSE i \in DOMAIN relation.columns : relation.columns[i] = name

ResultColumns(sql) ==
    IF sql.select = << >> THEN Relations[sql.from].columns ELSE sql.select

NullTyped(sql) ==
    LET relation == Relations[sql.from]
    IN  [i \in DOMAIN ResultColumns(sql) |->
            relation.nullTyped[ColumnAt(relation, ResultColumns(sql)[i])]]

Compared(sql, i) == ColumnAt(Relations[sql.from], sql.where[i])

(* Whether it can be executed: the relation and the columns it names are   *)
(* there, and there are as many binds as placeholders, each of a type that *)
(* casts.                                                                  *)
Executable(sql, binds) ==
    /\ sql.from \in DOMAIN Relations
    /\ LET relation == Relations[sql.from]
           names == {relation.columns[c] : c \in DOMAIN relation.columns}
       IN  /\ \A i \in DOMAIN sql.select : sql.select[i] \in names
           /\ \A i \in DOMAIN sql.where : sql.where[i] \in names
           /\ Len(binds) = Len(sql.where)
           /\ \A i \in DOMAIN binds, r \in DOMAIN relation.rows :
                 Castable(relation.rows[r][Compared(sql, i)], binds[i])

(* Where the rows are that it selects, and the k-th of them.               *)
Selected(sql, binds) ==
    LET relation == Relations[sql.from]
    IN  {r \in DOMAIN relation.rows :
            \A i \in DOMAIN binds : Equals(relation.rows[r][Compared(sql, i)], binds[i])}

Nth(S, k) == CHOOSE r \in S : Cardinality({q \in S : q <= r}) = k

ResultRows(sql, binds) ==
    LET relation == Relations[sql.from]
        selected == Selected(sql, binds)
    IN  [k \in 1..Cardinality(selected) |->
            [i \in DOMAIN ResultColumns(sql) |->
                relation.rows[Nth(selected, k)][ColumnAt(relation, ResultColumns(sql)[i])]]]
=============================================================================
