------------------------- MODULE ExecuteData_proofs -------------------------
(***************************************************************************)
(* Theorems about what the answers of Execute hold: the entries of the     *)
(* catalog that were asked for, under the columns that are advertised; the *)
(* rows that a key names; the candidates of a completion.  They combine    *)
(* the invariant of the rows (Execute_proofs) with the lemmas about        *)
(* statements (Statements_proofs), and need no invariant of their own.     *)
(***************************************************************************)
EXTENDS Execute_proofs

-----------------------------------------------------------------------------
(* The select list of a statement; that of a catalog statement is the      *)
(* advertised columns.                                                     *)
LEMMA StatementSelects ==
    ASSUME NEW b \in Bindings, NEW arguments
    PROVE  LET sql == StatementFor(b, arguments).sql
           IN  /\ sql.select = << >> \/ Listed(sql.select)
               /\ IsCatalog(b) =>
                    /\ sql.select # << >>
                    /\ {sql.select[i] : i \in DOMAIN sql.select} = AdvertisedColumns(b)
<1> DEFINE sql == StatementFor(b, arguments).sql
           tables == <<"table_catalog", "table_schema", "table_name", "table_type">>
           fields == <<"table_name", "column_name", "data_type", "is_nullable",
                       "ordinal_position">>
<1>1. b.operation \in {"query", "read_file", "list_tables", "list_columns"}
  BY BindingsAssumption
<1>2. CASE b.operation = "query"
  <2>1. sql = QueryText(b) /\ ~IsCatalog(b)
    BY <1>2 DEF StatementFor, IsCatalog
  <2>. QED
    BY <1>2, <2>1, BindingsAssumption, NamesAreListed DEF IsSelect
<1>3. CASE b.operation = "read_file"
  <2>1. sql = BuildReadFile(b.read_file) /\ ~IsCatalog(b)
    BY <1>3 DEF StatementFor, IsCatalog
  <2>. QED
    BY <1>3, <2>1, BindingsAssumption, NamesAreListed DEF IsSelect
<1>4. CASE b.operation = "list_tables"
  <2>1. sql.select = tables
    BY <1>4 DEF StatementFor, BuildListTables, Select
  <2>2. AdvertisedColumns(b) = {"table_catalog", "table_schema", "table_name", "table_type"}
    BY <1>4 DEF AdvertisedColumns
  <2>3. Len(tables) = 4 /\ DOMAIN tables = 1..4 /\ tables # << >>
    OBVIOUS
  <2>4. /\ tables[1] = "table_catalog" /\ tables[2] = "table_schema"
        /\ tables[3] = "table_name" /\ tables[4] = "table_type"
    OBVIOUS
  <2>5. Listed(tables)
    BY <2>3 DEF Listed
  <2>. HIDE DEF tables
  <2>6. {tables[i] : i \in DOMAIN tables} = AdvertisedColumns(b)
    BY <2>2, <2>3, <2>4
  <2>. QED
    BY <2>1, <2>3, <2>5, <2>6
<1>5. CASE b.operation = "list_columns"
  <2>1. sql.select = fields
    BY <1>5 DEF StatementFor, BuildListColumns, Select
  <2>2. AdvertisedColumns(b) = {"table_name", "column_name", "data_type", "is_nullable",
                                "ordinal_position"}
    BY <1>5 DEF AdvertisedColumns
  <2>3. Len(fields) = 5 /\ DOMAIN fields = 1..5 /\ fields # << >>
    OBVIOUS
  <2>4. /\ fields[1] = "table_name" /\ fields[2] = "column_name"
        /\ fields[3] = "data_type" /\ fields[4] = "is_nullable"
        /\ fields[5] = "ordinal_position"
    OBVIOUS
  <2>5. Listed(fields)
    BY <2>3 DEF Listed
  <2>. HIDE DEF fields
  <2>6. {fields[i] : i \in DOMAIN fields} = AdvertisedColumns(b)
    BY <2>2, <2>3, <2>4
  <2>. QED
    BY <2>1, <2>3, <2>5, <2>6
<1>. QED
  BY <1>1, <1>2, <1>3, <1>4, <1>5

(* The answer to a statement that succeeded: its count is that of the rows *)
(* selected, and each of its rows shows one of these, under the columns of *)
(* the result.                                                             *)
LEMMA AnsweredRows ==
    ASSUME ReadInv, Succeeded("execute")
    PROVE  LET selected == Selected(todo.sql, todo.binds)
               view == Relations[todo.sql.from]
               columns == ResultColumns(todo.sql)
           IN  /\ call.entry = "execute" /\ call \in Requests
               /\ todo = StatementFor(binding, call.arguments)
               /\ todo.sql.select = << >> \/ Listed(todo.sql.select)
               /\ Executable(todo.sql, todo.binds)
               /\ outcome.count = Cardinality(selected)
               /\ \A i \in DOMAIN answer.rows :
                    ShowsOneOf(answer.rows[i], columns, view, selected)
<1> DEFINE selected == Selected(todo.sql, todo.binds)
           view == Relations[todo.sql.from]
           columns == ResultColumns(todo.sql)
<1>1. /\ binding \in Bindings /\ call.entry = "execute" /\ Submitted
      /\ ReadAll /\ ShowsOutcome
  BY DEF Succeeded, ReadInv
<1>2. call \in Requests /\ todo = StatementFor(binding, call.arguments)
  BY <1>1 DEF Submitted
<1>3. todo.sql.select = << >> \/ Listed(todo.sql.select)
  BY <1>1, <1>2, StatementSelects
<1>4. /\ Executable(todo.sql, todo.binds) /\ outcome.count = Len(Result)
      /\ answer.rows = FirstRows(Len(Result))
  BY <1>1 DEF ReadAll, ShowsOutcome
<1>5. /\ MaxRows \in Nat /\ Len(Result) \in Nat /\ Len(Result) = Cardinality(selected)
  BY <1>4, CapAndLength
<1>6. /\ DOMAIN answer.rows \subseteq 1..Cardinality(selected)
      /\ \A i \in DOMAIN answer.rows : answer.rows[i] = ReadRow(i)
  BY <1>4, <1>5 DEF FirstRows, Held
<1>7. \A i \in 1..Cardinality(selected) : ShowsOneOf(ReadRow(i), columns, view, selected)
  BY <1>3, <1>4, ShownRow DEF ReadRow, Result
<1>. HIDE DEF selected, view, columns
<1>8. \A i \in DOMAIN answer.rows : ShowsOneOf(answer.rows[i], columns, view, selected)
  BY <1>6, <1>7
<1>. QED
  BY <1>1, <1>2, <1>3, <1>4, <1>5, <1>8 DEF selected, view, columns

-----------------------------------------------------------------------------
(* The rows of every catalog answer have the columns of the output schema, *)
(* whatever the catalog holds and the filters ask for.                     *)
THEOREM RowsHaveAdvertisedColumns == Spec => []RowsAsAdvertised
<1>1. ReadInv => RowsAsAdvertised
  <2>. SUFFICES ASSUME ReadInv, Succeeded("execute"), IsCatalog(binding),
                       NEW i \in DOMAIN answer.rows
                PROVE  DOMAIN answer.rows[i] = AdvertisedColumns(binding)
    BY DEF RowsAsAdvertised
  <2> DEFINE select == todo.sql.select
  <2>1. DOMAIN answer.rows[i] = {ResultColumns(todo.sql)[c] : c \in DOMAIN ResultColumns(todo.sql)}
    BY AnsweredRows DEF ShowsOneOf
  <2>2. /\ select # << >>
        /\ {select[c] : c \in DOMAIN select} = AdvertisedColumns(binding)
    <3>1. todo = StatementFor(binding, call.arguments) /\ binding \in Bindings
      BY AnsweredRows DEF ReadInv
    <3>. QED
      BY <3>1, StatementSelects
  <2>3. ResultColumns(todo.sql) = select
    BY <2>2 DEF ResultColumns
  <2>. QED
    BY <2>1, <2>2, <2>3
<1>. QED
  BY <1>1, ReadInvariance, PTL

(* No call runs a statement that depends on an argument the input schema   *)
(* hides, whatever filters, parameters and arguments there are.            *)
THEOREM AdvertisedArgumentsSuffice == Spec => []AdvertisedSuffices
<1>1. ReadInv /\ TypeInv => AdvertisedSuffices
  <2>. SUFFICES ASSUME ReadInv, TypeInv, todo # None, call.entry = "execute",
                       \A i \in DOMAIN binding.params : binding.params[i].form # "index"
                PROVE  LET names == DOMAIN call.arguments \cap AdvertisedArguments(binding)
                       IN  todo = StatementFor(binding, [n \in names |-> call.arguments[n]])
    BY DEF AdvertisedSuffices
  <2>1. binding \in Bindings /\ todo = StatementFor(binding, call.arguments)
    BY DEF ReadInv, TypeInv, Submitted
  <2>2. StatementFor(binding, call.arguments)
          = StatementFor(binding, OnlyThe(AdvertisedArguments(binding), call.arguments))
    BY <2>1, BindingsAssumption, SameStatementFor
  <2>. QED
    BY <2>1, <2>2 DEF OnlyThe
<1>2. Spec => []TypeInv
  BY TypeInvariance
<1>. QED
  BY <1>1, <1>2, ReadInvariance, PTL

-----------------------------------------------------------------------------
(* What a catalog answer is to hold, by the column of a filter.            *)
Wanted == [f \in DOMAIN FilterColumn |-> Pinned(f) \cup Given(f)]

Uncontested ==
    \A f \in DOMAIN FilterColumn :
        Supplied(binding.filters[f], call.arguments) => Pinned(f) \subseteq Given(f)

(* The filters of a call, resolved: of each column there is the one value  *)
(* that is wanted, or none is.                                             *)
LEMMA ResolvedIsWanted ==
    ASSUME binding \in Bindings, call \in Requests, Uncontested
    PROVE  LET resolved == ResolveCatalogFilters(binding.filters, call.arguments)
           IN  /\ resolved \in [DOMAIN FilterColumn -> FilterValues]
               /\ \A f \in DOMAIN FilterColumn : Wanted[f] = {resolved[f]} \ {None, Word("")}
<1>1. /\ DOMAIN binding.filters = DOMAIN FilterColumn
      /\ \A f \in DOMAIN binding.filters : binding.filters[f].pinned \in FilterValues
  BY BindingsAssumption DEF FilterValues
<1>2. ASSUME NEW f \in DOMAIN FilterColumn
      PROVE  /\ ResolveOne(binding.filters[f], call.arguments) \in FilterValues
             /\ Wanted[f] = {ResolveOne(binding.filters[f], call.arguments)} \ {None, Word("")}
  <2> DEFINE filter == binding.filters[f]
  <2>1. CASE Supplied(filter, call.arguments)
    <3> DEFINE given == call.arguments[filter.arg]
    <3>1. ResolveOne(filter, call.arguments) = given /\ IsString(given)
      BY <2>1 DEF ResolveOne, Supplied
    <3>2. given \in Strings
      BY <2>1, <3>1, RequestsAssumption DEF Supplied
    <3>3. Given(f) = {given} \ {None, Word("")} /\ Pinned(f) \subseteq Given(f)
      BY <2>1 DEF Given, Uncontested
    <3>. QED
      BY <3>1, <3>2, <3>3 DEF Wanted, FilterValues
  <2>2. CASE ~Supplied(filter, call.arguments)
    <3>1. ResolveOne(filter, call.arguments) = filter.pinned /\ Given(f) = {}
      BY <2>2 DEF ResolveOne, Given
    <3>. QED
      BY <1>1, <3>1 DEF Wanted, Pinned
  <2>. QED
    BY <2>1, <2>2
<1>. QED
  BY <1>1, <1>2 DEF ResolveCatalogFilters

(* The rows that match the filters in force are those in scope.            *)
LEMMA MatchesAreWanted ==
    ASSUME NEW view, NEW resolved, NEW wanted,
           \A f \in DOMAIN FilterColumn : wanted[f] = {resolved[f]} \ {None, Word("")},
           NEW filters \in SUBSET DOMAIN FilterColumn,
           \A f \in DOMAIN FilterColumn :
              f \in filters <=> ~(f = "table_type" /\ binding.operation = "list_columns")
    PROVE  Matches(view, resolved, filters) = InScope(view, wanted)
<1> DEFINE Cell(r, f) == view.rows[r][ColumnAt(view, FilterColumn[f])]
           Match(r, f) == ~Active(resolved, f) \/ Cell(r, f) = resolved[f]
           Meets(r, f) == \A value \in wanted[f] :
                             \/ f = "table_type" /\ binding.operation = "list_columns"
                             \/ Cell(r, f) = value
<1>1. ASSUME NEW r, NEW f \in DOMAIN FilterColumn
      PROVE  Meets(r, f) <=> (f \in filters => Match(r, f))
  <2>1. wanted[f] = IF Active(resolved, f) THEN {resolved[f]} ELSE {}
    BY DEF Active
  <2>. QED
    BY <2>1
<1>2. InScope(view, wanted) = {r \in DOMAIN view.rows : \A f \in DOMAIN FilterColumn : Meets(r, f)}
  BY DEF InScope
<1>3. Matches(view, resolved, filters) = {r \in DOMAIN view.rows : \A f \in filters : Match(r, f)}
  BY DEF Matches
<1>. HIDE DEF Match, Meets
<1>. QED
  BY <1>1, <1>2, <1>3

(* A catalog statement selects the entries that are wanted.                *)
LEMMA CatalogInScope ==
    ASSUME ReadInv, Succeeded("execute"), IsCatalog(binding), Uncontested
    PROVE  Selected(todo.sql, todo.binds) = InScope(Relations[todo.sql.from], Wanted)
<1> DEFINE view == Relations[todo.sql.from]
           resolved == ResolveCatalogFilters(binding.filters, call.arguments)
<1>1. /\ binding \in Bindings /\ call \in Requests
      /\ todo = StatementFor(binding, call.arguments)
      /\ Executable(todo.sql, todo.binds)
  BY AnsweredRows DEF ReadInv
<1>2. /\ resolved \in [DOMAIN FilterColumn -> FilterValues]
      /\ \A f \in DOMAIN FilterColumn : Wanted[f] = {resolved[f]} \ {None, Word("")}
  BY <1>1, ResolvedIsWanted
<1>3. DOMAIN FilterColumn = {"catalog", "schema", "table", "table_type"}
  BY DEF FilterColumn
<1>4. CASE binding.operation = "list_tables"
  <2>1. todo = BuildListTables(resolved)
    BY <1>1, <1>4 DEF StatementFor
  <2>. HIDE DEF resolved
  <2>2. Selected(todo.sql, todo.binds) = Matches(view, resolved, DOMAIN FilterColumn)
    BY <1>1, <1>2, <2>1, CatalogSelects
  <2>3. Matches(view, resolved, DOMAIN FilterColumn) = InScope(view, Wanted)
    <3>1. \A f \in DOMAIN FilterColumn :
             f \in DOMAIN FilterColumn <=> ~(f = "table_type" /\ binding.operation = "list_columns")
      BY <1>4
    <3>2. DOMAIN FilterColumn \in SUBSET DOMAIN FilterColumn
      OBVIOUS
    <3>. HIDE DEF view
    <3>. QED
      BY <1>2, <3>1, <3>2, MatchesAreWanted
  <2>. QED
    BY <2>2, <2>3
<1>5. CASE binding.operation = "list_columns"
  <2>1. todo = BuildListColumns(resolved)
    BY <1>1, <1>5 DEF StatementFor
  <2>. HIDE DEF resolved
  <2>2. Selected(todo.sql, todo.binds) = Matches(view, resolved, Scope)
    BY <1>1, <1>2, <2>1, CatalogSelects
  <2>3. Matches(view, resolved, Scope) = InScope(view, Wanted)
    <3>1. \A f \in DOMAIN FilterColumn :
             f \in Scope <=> ~(f = "table_type" /\ binding.operation = "list_columns")
      BY <1>3, <1>5 DEF Scope
    <3>2. Scope \in SUBSET DOMAIN FilterColumn
      BY <1>3 DEF Scope
    <3>. HIDE DEF view
    <3>. QED
      BY <1>2, <3>1, <3>2, MatchesAreWanted
  <2>. QED
    BY <2>2, <2>3
<1>. QED
  BY <1>4, <1>5 DEF IsCatalog

(* A catalog answer counts the entries that have the pinned values and     *)
(* those the caller gave, and shows no others, for every catalog, every    *)
(* mixture of filters and every argument, as long as the caller gives no   *)
(* pinned column another value.                                            *)
THEOREM CatalogAnswersAreExact == Spec => []CatalogExact
<1>1. ReadInv => CatalogExact
  <2> DEFINE view == Relations[todo.sql.from]
  <2>. SUFFICES ASSUME ReadInv, Succeeded("execute"), IsCatalog(binding), Uncontested
                PROVE  /\ outcome.count = Cardinality(InScope(view, Wanted))
                       /\ ShowsEntriesOf(InScope(view, Wanted), view)
    BY DEF CatalogExact, Wanted, Uncontested
  <2>1. Selected(todo.sql, todo.binds) = InScope(view, Wanted)
    BY CatalogInScope
  <2>2. /\ outcome.count = Cardinality(InScope(view, Wanted))
        /\ \A i \in DOMAIN answer.rows :
             ShowsOneOf(answer.rows[i], ResultColumns(todo.sql), view, InScope(view, Wanted))
    BY <2>1, AnsweredRows
  <2>. QED
    BY <2>2 DEF ShowsOneOf, ShowsEntriesOf
<1>. QED
  BY <1>1, ReadInvariance, PTL

-----------------------------------------------------------------------------
(* The candidates of a completion are the strings of the first column of   *)
(* the rows that are held, whatever the cells and the cap.                 *)
THEOREM CandidatesComeFromFirstColumn == Spec => []CandidatesAreFirstColumn
<1>1. ReadInv /\ TypeInv => CandidatesAreFirstColumn
  <2> DEFINE columns == ResultColumns(todo.sql)
  <2>. SUFFICES ASSUME ReadInv, TypeInv, Succeeded("complete"),
                       keyOrder = "inserted" \/ Len(columns) = 1
                PROVE  answer.rows =
                          OnlyStrings([i \in 1..(IF Len(Result) <= binding.max_results
                                                 THEN Len(Result) ELSE binding.max_results)
                                          |-> ReadRow(i)[columns[1]]])
    BY DEF CandidatesAreFirstColumn
  <2>1. /\ call.entry = "complete" /\ Submitted /\ ReadAll /\ ShowsOutcome
        /\ binding \in Bindings
    BY DEF Succeeded, ReadInv
  <2>2. todo.sql = binding.completion /\ binding.completion # None
    BY <2>1 DEF Submitted
  <2>3. Listed(columns)
    <3>1. todo.sql.select = << >> \/ Listed(todo.sql.select)
      BY <2>1, <2>2, BindingsAssumption, NamesAreListed DEF IsSelect
    <3>. QED
      BY <2>1, <3>1, ColumnsOfResult DEF ReadAll
  <2>4. FirstColumn(columns, keyOrder) = columns[1]
    <3>. HIDE DEF columns
    <3>. QED
      BY <2>3, FirstColumnIsFirst DEF TypeInv
  <2>5. MaxRows = binding.max_results /\ MaxRows \in Nat /\ Len(Result) \in Nat
    BY <2>1, CapAndLength DEF MaxRows, ReadAll
  <2>. HIDE DEF columns
  <2>6. /\ answer.rows = CompletionValues(FirstRows(Len(Result)), columns[1], MaxRows)
        /\ Held(Len(Result)) \in Nat /\ Held(Len(Result)) <= MaxRows
    BY <2>1, <2>4, <2>5 DEF ReadAll, ShowsOutcome, Held, columns
  <2> DEFINE n == Held(Len(Result))
             rows == FirstRows(Len(Result))
             cells == [i \in 1..(IF Len(rows) <= MaxRows THEN Len(rows) ELSE MaxRows)
                          |-> rows[i][columns[1]]]
  <2>7. Len(rows) = n /\ \A i \in 1..n : rows[i] = ReadRow(i)
    BY <2>6 DEF FirstRows
  <2>8. answer.rows = OnlyStrings(cells)
    BY <2>6 DEF CompletionValues
  <2>. HIDE DEF n, rows
  <2>9. cells = [i \in 1..n |-> ReadRow(i)[columns[1]]]
    BY <2>6, <2>7 DEF n
  <2>. HIDE DEF cells
  <2>. QED
    BY <2>5, <2>8, <2>9 DEF n, Held
<1>. QED
  BY <1>1, ReadInvariance, TypeInvariance, PTL

-----------------------------------------------------------------------------
(* A cell equals the bind that comes of a key exactly if it shows that key.*)
LEMMA KeyFound ==
    ASSUME NEW i \in Int, NEW key \in [int : Int] \cup {Null}
    PROVE  Equals(key, Bound(i)) <=> ValueToJson(key) = ValueToJson(Number(i))
<1>1. CASE key = Null
  <2>1. ValueToJson(key) = Null
    BY <1>1 DEF ValueToJson, Null, Is
  <2>2. ValueToJson(Number(i)) # Null
    BY DEF ValueToJson, NarrowToJson, Is, Number, Digits, Null
  <2>3. ~Equals(key, Bound(i))
    BY <1>1 DEF Equals, Null, Is
  <2>. QED
    BY <2>1, <2>2, <2>3
<1>2. CASE key \in [int : Int]
  <2>1. PICK j \in Int : key = Number(j)
    BY <1>2 DEF Number
  <2>2. Equals(Number(j), Bound(i)) <=> i = j
    BY KeysRoundTrip
  <2>3. Equals(Number(j), Bound(j))
    BY KeysRoundTrip
  <2>4. ValueToJson(Number(j)) = ValueToJson(Number(i)) => Bound(j) = Bound(i)
    BY DEF Bound
  <2>. QED
    BY <2>1, <2>2, <2>3, <2>4
<1>. QED
  BY <1>1, <1>2

(* The bind of a statement with one placeholder, from the argument that    *)
(* its one parameter names.                                                *)
LEMMA OneBind ==
    ASSUME ReadInv, Succeeded("execute"), LooksUpId, "id" \in DOMAIN call.arguments
    PROVE  /\ DOMAIN todo.binds = {1}
           /\ todo.binds[1] = Bindable(CelToJson(JsonToCel(call.arguments.id)))
           /\ Compared(todo.sql, 1) = ColumnAt(Relations[todo.sql.from], "id")
<1>1. /\ binding \in Bindings /\ todo = StatementFor(binding, call.arguments)
      /\ Executable(todo.sql, todo.binds)
  BY AnsweredRows DEF ReadInv
<1>2. todo.binds = EvalParamBinds(binding.params, call.arguments)
  <2>1. binding.operation \in {"query", "read_file"}
    BY <1>1, BindingsAssumption DEF LooksUpId, IsCatalog
  <2>. QED
    BY <1>1, <2>1 DEF StatementFor
<1>3. DOMAIN binding.params = 1..Len(binding.params) /\ Len(binding.params) \in Nat
  BY <1>1, BindingsAssumption, LenProperties
<1>4. todo.sql.where = <<"id">>
  BY DEF LooksUpId
<1>5. Len(todo.binds) = 1
  <2>1. Len(todo.binds) = Len(todo.sql.where)
    BY <1>1 DEF Executable
  <2>. QED
    BY <1>4, <2>1
<1> DEFINE bind == [i \in 1..Len(binding.params) |-> Bindable(EvalParam(binding.params[i], call.arguments))]
<1>6. todo.binds = bind
  BY <1>2, <1>3 DEF EvalParamBinds
<1>7. Len(binding.params) = 1
  <2>1. Len(bind) = Len(binding.params)
    BY <1>3
  <2>. QED
    BY <1>5, <1>6, <2>1
<1>8. DOMAIN todo.binds = {1} /\ todo.binds[1] = Bindable(EvalParam(binding.params[1], call.arguments))
  BY <1>6, <1>7
<1>9. binding.params[1].name = "id"
  BY <1>3, <1>7 DEF LooksUpId
<1>10. EvalParam(binding.params[1], call.arguments) = CelToJson(JsonToCel(call.arguments.id))
  BY <1>9 DEF EvalParam
<1>. QED
  BY <1>4, <1>8, <1>10 DEF Compared

(* Given back as an argument, a key that a row showed finds the rows that  *)
(* have it, on both sides of i64's limit and however coarse doubles are.   *)
THEOREM KeysFindTheirRows == Spec => []IdsRoundTrip
<1>1. ReadInv => IdsRoundTrip
  <2> DEFINE relation == Relations[todo.sql.from]
             Key(r) == relation.rows[r][ColumnAt(relation, "id")]
             named == {r \in DOMAIN relation.rows : ValueToJson(Key(r)) = call.arguments.id}
             selected == Selected(todo.sql, todo.binds)
  <2>. SUFFICES ASSUME ReadInv, Succeeded("execute"), LooksUpId,
                       "id" \in DOMAIN call.arguments,
                       \A r \in DOMAIN relation.rows : Key(r) \in [int : Int] \cup {Null},
                       named # {}, call.arguments.id # Null
                PROVE  /\ outcome.count = Cardinality(named)
                       /\ \A i \in DOMAIN answer.rows :
                            "id" \in DOMAIN answer.rows[i] =>
                                answer.rows[i].id = call.arguments.id
    BY Zenon DEF IdsRoundTrip
  <2>1. /\ DOMAIN todo.binds = {1}
        /\ todo.binds[1] = Bindable(CelToJson(JsonToCel(call.arguments.id)))
        /\ Compared(todo.sql, 1) = ColumnAt(relation, "id")
    BY OneBind
  <2>2. PICK i \in Int : call.arguments.id = ValueToJson(Number(i))
    <3>1. PICK r \in named : TRUE
      OBVIOUS
    <3>2. Key(r) \in [int : Int] \cup {Null} /\ ValueToJson(Key(r)) = call.arguments.id
      BY <3>1
    <3>3. Key(r) # Null
      <4>1. ValueToJson(Null) = Null
        BY DEF ValueToJson, Null, Is
      <4>. QED
        BY <3>2, <4>1
    <3>4. \E j \in Int : Key(r) = Number(j)
      BY <3>2, <3>3 DEF Number
    <3>. QED
      BY <3>2, <3>4
  <2>3. todo.binds[1] = Bound(i)
    BY <2>1, <2>2 DEF Bound
  <2>4. selected = {r \in DOMAIN relation.rows : Equals(Key(r), Bound(i))}
    BY <2>1, <2>3 DEF Selected
  <2>5. selected = named
    BY <2>2, <2>4, KeyFound
  <2>6. /\ outcome.count = Cardinality(selected)
        /\ \A k \in DOMAIN answer.rows :
             ShowsOneOf(answer.rows[k], ResultColumns(todo.sql), relation, selected)
    BY AnsweredRows
  <2>7. \A k \in DOMAIN answer.rows : "id" \in DOMAIN answer.rows[k] =>
           \E r \in selected : answer.rows[k].id = ValueToJson(Key(r))
    BY <2>6 DEF ShowsOneOf
  <2>. QED
    BY <2>5, <2>6, <2>7
<1>. QED
  BY <1>1, ReadInvariance, PTL

=============================================================================
