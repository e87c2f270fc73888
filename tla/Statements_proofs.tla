-------------------------- MODULE Statements_proofs --------------------------
(***************************************************************************)
(* Lemmas about the data that a call moves, without a state: which rows a  *)
(* statement selects and in which object each of them ends up, what the    *)
(* filters of a catalog statement select, on which arguments a statement   *)
(* depends, and which column a completion offers.  The theorems about      *)
(* Execute cite them.                                                      *)
(***************************************************************************)
EXTENDS Answers, FiniteSetTheorems, SequenceTheorems, TLAPS

-----------------------------------------------------------------------------
(* The k-th element of a finite set of numbers.                            *)

UpTo(S, r) == {q \in S : q <= r}

(* Ranks are numbers from 1 to the size of the set, and follow the order.  *)
LEMMA RankBounds ==
    ASSUME NEW S \in SUBSET Nat, IsFiniteSet(S)
    PROVE  /\ \A r \in S : Cardinality(UpTo(S, r)) \in 1..Cardinality(S)
           /\ \A r, q \in S : r < q => Cardinality(UpTo(S, r)) < Cardinality(UpTo(S, q))
<1>1. \A r : UpTo(S, r) \subseteq S
  BY DEF UpTo
<1>2. \A r : /\ IsFiniteSet(UpTo(S, r)) /\ Cardinality(UpTo(S, r)) \in Nat
             /\ Cardinality(UpTo(S, r)) <= Cardinality(S)
  BY <1>1, FS_Subset, FS_CardinalityType
<1>3. Cardinality(S) \in Nat
  BY FS_CardinalityType
<1>4. ASSUME NEW r \in S PROVE Cardinality(UpTo(S, r)) # 0
  <2>1. r \in UpTo(S, r)
    BY DEF UpTo
  <2>. QED
    BY <1>2, <2>1, FS_EmptySet
<1>5. ASSUME NEW r \in S, NEW q \in S, r < q
      PROVE  Cardinality(UpTo(S, r)) < Cardinality(UpTo(S, q))
  <2>1. UpTo(S, r) \subseteq UpTo(S, q) /\ q \in UpTo(S, q) /\ q \notin UpTo(S, r)
    <3>1. r \in Int /\ q \in Int /\ q <= q /\ ~(q <= r)
      BY <1>5
    <3>2. \A p \in S : p <= r => p <= q
      BY <1>5
    <3>. QED
      BY <3>1, <3>2, Zenon DEF UpTo
  <2>2. /\ Cardinality(UpTo(S, r)) <= Cardinality(UpTo(S, q))
        /\ Cardinality(UpTo(S, r)) # Cardinality(UpTo(S, q))
    BY <1>2, <2>1, FS_Subset
  <2>. QED
    BY <1>2, <2>2
<1>. QED
  BY <1>2, <1>3, <1>4, <1>5

(* There is a k-th element, for every k up to the size of the set: ranks   *)
(* are an injection into the numbers up to it, hence onto.                 *)
LEMMA NthElement ==
    ASSUME NEW S \in SUBSET Nat, IsFiniteSet(S), NEW k \in 1..Cardinality(S)
    PROVE  Nth(S, k) \in S /\ Cardinality(UpTo(S, Nth(S, k))) = k
<1> DEFINE size == Cardinality(S)
           ranks == [r \in S |-> Cardinality(UpTo(S, r))]
<1>1. size \in Nat
  BY FS_CardinalityType
<1>2. ranks \in Injection(S, 1..size)
  <2>1. ASSUME NEW r \in S, NEW q \in S, ranks[r] = ranks[q] PROVE r = q
    <3>1. Cardinality(UpTo(S, r)) \in Int /\ ~(r < q) /\ ~(q < r)
      BY <2>1, RankBounds
    <3>. QED
      BY <3>1
  <2>2. ranks \in [S -> 1..size]
    BY RankBounds
  <2>. QED
    BY <2>1, <2>2 DEF Injection, IsInjective
<1>3. IsFiniteSet(1..size) /\ Cardinality(1..size) = size
  <2>. HIDE DEF size
  <2>1. /\ IsFiniteSet(1..size)
        /\ Cardinality(1..size) = IF 1 > size THEN 0 ELSE size - 1 + 1
    BY <1>1, FS_Interval
  <2>. QED
    BY <1>1, <2>1
<1>4. ranks \in Surjection(S, 1..size)
  BY <1>2, <1>3, FS_Injection
<1>5. \E r \in S : ranks[r] = k
  BY <1>4 DEF Surjection
<1>6. \E r \in S : Cardinality({q \in S : q <= r}) = k
  BY <1>5 DEF UpTo
<1>. QED
  BY <1>6 DEF Nth, UpTo

(* A finite set of numbers that has an element has a greatest one.         *)
LEMMA Greatest ==
    ASSUME NEW S \in SUBSET Nat, IsFiniteSet(S), S # {}
    PROVE  \E r \in S : \A q \in S : q <= r
<1>1. Cardinality(S) \in Nat /\ Cardinality(S) # 0
  BY FS_CardinalityType, FS_EmptySet
<1>2. Cardinality(S) \in 1..Cardinality(S)
  BY <1>1
<1>3. PICK r \in S : Cardinality(UpTo(S, r)) = Cardinality(S)
  BY <1>2, NthElement
<1>4. UpTo(S, r) \subseteq S
  BY DEF UpTo
<1>5. UpTo(S, r) = S
  BY <1>3, <1>4, FS_Subset
<1>. QED
  BY <1>5 DEF UpTo

-----------------------------------------------------------------------------
(* The rows that a statement selects.                                      *)

(* A column is found by its name.                                          *)
LEMMA FindColumn ==
    ASSUME NEW relation, NEW name,
           \E c \in DOMAIN relation.columns : relation.columns[c] = name
    PROVE  /\ ColumnAt(relation, name) \in DOMAIN relation.columns
           /\ relation.columns[ColumnAt(relation, name)] = name
  BY DEF ColumnAt

(* There are finitely many, each a row of the relation.                    *)
LEMMA SelectedRows ==
    ASSUME NEW sql, NEW binds, sql.from \in DOMAIN Relations
    PROVE  /\ Selected(sql, binds) \subseteq DOMAIN Relations[sql.from].rows
           /\ Selected(sql, binds) \in SUBSET Nat /\ IsFiniteSet(Selected(sql, binds))
           /\ Cardinality(Selected(sql, binds)) \in Nat
<1> DEFINE rows == Relations[sql.from].rows
<1>1. Len(rows) \in Nat /\ DOMAIN rows = 1..Len(rows)
  BY RelationsAssumption
<1>2. Selected(sql, binds) \subseteq DOMAIN rows
  BY DEF Selected
<1>3. IsFiniteSet(DOMAIN rows)
  BY <1>1, FS_Interval
<1>. QED
  BY <1>1, <1>2, <1>3, FS_Subset, FS_CardinalityType

(* The result has as many rows as are selected.                            *)
LEMMA ResultLength ==
    ASSUME NEW sql, NEW binds, sql.from \in DOMAIN Relations
    PROVE  /\ Len(ResultRows(sql, binds)) = Cardinality(Selected(sql, binds))
           /\ Len(ResultRows(sql, binds)) \in Nat
<1> DEFINE n == Cardinality(Selected(sql, binds))
<1>1. n \in Nat
  BY SelectedRows
<1>2. \E row : ResultRows(sql, binds) = [k \in 1..n |-> row[k]]
  <2> DEFINE row == [k \in 1..n |-> ResultRows(sql, binds)[k]]
  <2>1. ResultRows(sql, binds) = row
    BY DEF ResultRows
  <2>2. ResultRows(sql, binds) = [k \in 1..n |-> row[k]]
    BY <2>1
  <2>. QED
    BY <2>2
<1>. QED
  BY <1>1, <1>2

(* A list of columns that is not empty.  (The provers do not know that a   *)
(* literal is a STRING, hence no Seq(STRING).)                             *)
Listed(columns) == Len(columns) \in Nat \ {0} /\ DOMAIN columns = 1..Len(columns)

LEMMA NamesAreListed ==
    \A names \in Seq(STRING) : names = << >> \/ Listed(names)
  BY LenProperties, EmptySeq DEF Listed

(* Of the columns with one name there is a last one.                       *)
LEMMA LastOfName ==
    ASSUME NEW columns, Listed(columns), NEW name,
           name \in {columns[i] : i \in DOMAIN columns}
    PROVE  \E i \in DOMAIN columns :
              /\ columns[i] = name
              /\ \A j \in DOMAIN columns : columns[j] = name => j <= i
<1> DEFINE places == {i \in DOMAIN columns : columns[i] = name}
<1>1. DOMAIN columns = 1..Len(columns) /\ Len(columns) \in Nat
  BY DEF Listed
<1>2. IsFiniteSet(1..Len(columns))
  BY <1>1, FS_Interval
<1>3. places \subseteq 1..Len(columns)
  BY <1>1
<1>4. places \in SUBSET Nat /\ IsFiniteSet(places)
  BY <1>1, <1>2, <1>3, FS_Subset
<1>5. places # {}
  OBVIOUS
<1>. HIDE DEF places
<1>6. \E i \in places : \A j \in places : j <= i
  BY <1>4, <1>5, Greatest
<1>. QED
  BY <1>6 DEF places

(* The columns of a result.                                                *)
LEMMA ColumnsOfResult ==
    ASSUME NEW sql, NEW binds, Executable(sql, binds),
           sql.select = << >> \/ Listed(sql.select)
    PROVE  /\ Listed(ResultColumns(sql))
           /\ \A i \in DOMAIN ResultColumns(sql) :
                \E c \in DOMAIN Relations[sql.from].columns :
                    Relations[sql.from].columns[c] = ResultColumns(sql)[i]
<1>1. /\ sql.from \in DOMAIN Relations
      /\ \A i \in DOMAIN sql.select :
            sql.select[i] \in {Relations[sql.from].columns[c] :
                                  c \in DOMAIN Relations[sql.from].columns}
  BY DEF Executable
<1>2. Listed(Relations[sql.from].columns)
  BY <1>1, RelationsAssumption, NamesAreListed
<1>. QED
  BY <1>1, <1>2 DEF ResultColumns

(* A JSON object with certain columns, that shows in each the cell of one  *)
(* and the same of some rows of a relation.                                *)
ShowsOneOf(object, columns, relation, some) ==
    /\ DOMAIN object = {columns[i] : i \in DOMAIN columns}
    /\ \E r \in some : \A name \in DOMAIN object :
          object[name] = ValueToJson(relation.rows[r][ColumnAt(relation, name)])

(* A row of the result, as JSON, has the columns of the result, and in     *)
(* each the cell of one selected row of the relation, converted: neither   *)
(* a column selected twice nor one typed NULL mixes cells up.              *)
LEMMA ShownRow ==
    ASSUME NEW sql, NEW binds, Executable(sql, binds),
           sql.select = << >> \/ Listed(sql.select),
           NEW k \in 1..Cardinality(Selected(sql, binds))
    PROVE  ShowsOneOf(RowToJson(ResultRows(sql, binds)[k], ResultColumns(sql), NullTyped(sql)),
                      ResultColumns(sql), Relations[sql.from], Selected(sql, binds))
<1> DEFINE relation == Relations[sql.from]
           columns == ResultColumns(sql)
           selected == Selected(sql, binds)
           r == Nth(selected, k)
           Cell(i) == relation.rows[r][ColumnAt(relation, columns[i])]
           Last(name) == CHOOSE i \in DOMAIN columns :
                           /\ columns[i] = name
                           /\ \A j \in DOMAIN columns : columns[j] = name => j <= i
           row == RowToJson(ResultRows(sql, binds)[k], columns, NullTyped(sql))
<1>1. sql.from \in DOMAIN Relations
  BY DEF Executable
<1>2. r \in selected /\ r \in DOMAIN relation.rows
  <2>1. selected \in SUBSET Nat /\ IsFiniteSet(selected) /\ selected \subseteq DOMAIN relation.rows
    BY <1>1, SelectedRows
  <2>. QED
    BY <2>1, NthElement
<1>3. /\ Listed(columns)
      /\ \A i \in DOMAIN columns : \E c \in DOMAIN relation.columns :
            relation.columns[c] = columns[i]
  BY ColumnsOfResult
<1>4. ResultRows(sql, binds)[k] = [i \in DOMAIN columns |-> Cell(i)]
  BY DEF ResultRows
<1>5. NullTyped(sql) = [i \in DOMAIN columns |-> relation.nullTyped[ColumnAt(relation, columns[i])]]
  BY DEF NullTyped
<1>6. DOMAIN row = {columns[i] : i \in DOMAIN columns}
  BY DEF RowToJson
<1>7. ASSUME NEW name \in DOMAIN row
      PROVE  row[name] = ValueToJson(relation.rows[r][ColumnAt(relation, name)])
  <2>1. name \in {columns[i] : i \in DOMAIN columns}
    BY <1>6, <1>7
  <2>2. Last(name) \in DOMAIN columns /\ columns[Last(name)] = name
    <3>. HIDE DEF columns
    <3>. QED
      BY <1>3, <2>1, LastOfName
  <2>3. row[name] = IF NullTyped(sql)[Last(name)] THEN Null
                    ELSE ValueToJson(ResultRows(sql, binds)[k][Last(name)])
    BY <2>1 DEF RowToJson
  <2>. HIDE DEF row, columns, Last
  <2>4. /\ NullTyped(sql)[Last(name)] = relation.nullTyped[ColumnAt(relation, name)]
        /\ ResultRows(sql, binds)[k][Last(name)] = relation.rows[r][ColumnAt(relation, name)]
    BY <1>4, <1>5, <2>2
  <2>5. ColumnAt(relation, name) \in DOMAIN relation.columns
    BY <1>3, <2>2, FindColumn
  <2>6. relation.nullTyped[ColumnAt(relation, name)] =>
            relation.rows[r][ColumnAt(relation, name)] = Null
    BY <1>1, <1>2, <2>5, RelationsAssumption
  <2>7. ValueToJson(Null) = Null
    BY DEF ValueToJson, Null, Is
  <2>. QED
    BY <2>3, <2>4, <2>6, <2>7
<1>. HIDE DEF row, columns, selected, relation, r
<1>8. \E q \in selected : \A name \in DOMAIN row :
         row[name] = ValueToJson(relation.rows[q][ColumnAt(relation, name)])
  BY <1>2, <1>7
<1>. QED
  BY <1>6, <1>8, Zenon DEF ShowsOneOf, row, columns, selected, relation

-----------------------------------------------------------------------------
(* What the filters of a catalog statement select.                         *)

FilterValues == Strings \cup {None}

Conditions ==
    [column : {FilterColumn[f] : f \in DOMAIN FilterColumn}, bind : Strings]

(* Text equals the text that spells the same, and NULL equals no text.     *)
LEMMA EqualTexts ==
    ASSUME NEW cell \in Strings \cup {Null}, NEW bind \in Strings
    PROVE  Equals(cell, bind) <=> cell = bind
<1>1. DOMAIN bind \in {{"digits"}, {"word"}}
  BY DEF Strings
<1>2. CASE cell = Null
  <2>1. DOMAIN cell = {"null"}
    BY <1>2 DEF Null
  <2>2. ~Equals(cell, bind)
    BY <2>1 DEF Equals, Is
  <2>. QED
    BY <1>1, <2>1, <2>2
<1>3. CASE cell \in Strings
  <2>1. DOMAIN cell \in {{"digits"}, {"word"}}
    BY <1>3 DEF Strings
  <2>2. ~Is(cell, "int") /\ ~Is(cell, "null") /\ ~Is(bind, "null")
    BY <1>1, <2>1 DEF Is
  <2>. QED
    BY <2>2 DEF Equals
<1>. QED
  BY <1>2, <1>3

(* One filter: no condition of an absent or empty value, else one.         *)
LEMMA OneFilter ==
    ASSUME NEW f \in DOMAIN FilterColumn, NEW value \in FilterValues
    PROVE  LET pushed == PushEqFilter(FilterColumn[f], value)
           IN  /\ pushed \in Seq(Conditions)
               /\ Range(pushed) = IF value \in {None, Word("")} THEN {}
                                  ELSE {[column |-> FilterColumn[f], bind |-> value]}
<1> DEFINE condition == [column |-> FilterColumn[f], bind |-> value]
           pushed == PushEqFilter(FilterColumn[f], value)
<1>1. CASE value \in {None, Word("")}
  <2>1. pushed = << >>
    BY <1>1 DEF PushEqFilter
  <2>2. << >> \in Seq(Conditions) /\ Range(<< >>) = {}
    BY DEF Range
  <2>. QED
    BY <1>1, <2>1, <2>2
<1>2. CASE value \notin {None, Word("")}
  <2>1. pushed = <<condition>>
    BY <1>2 DEF PushEqFilter
  <2>2. condition \in Conditions
    BY <1>2 DEF Conditions, FilterValues
  <2>. HIDE DEF condition
  <2>3. <<condition>> \in Seq(Conditions) /\ Range(<<condition>>) = {condition}
    BY <2>2 DEF Range
  <2>. QED
    BY <1>2, <2>1, <2>3 DEF condition
<1>. QED
  BY <1>1, <1>2

(* Conditions select the rows of which each holds.                         *)
LEMMA ConditionsSelect ==
    ASSUME NEW pushed \in Seq(Conditions), NEW sql, sql.where = Columns(pushed),
           sql.from \in Views, Executable(sql, Binds(pushed))
    PROVE  LET view == Relations[sql.from]
           IN  Selected(sql, Binds(pushed)) =
                   {r \in DOMAIN view.rows : \A condition \in Range(pushed) :
                       view.rows[r][ColumnAt(view, condition.column)] = condition.bind}
<1> DEFINE view == Relations[sql.from]
           Cell(r, name) == view.rows[r][ColumnAt(view, name)]
<1>1. sql.from \in DOMAIN Relations
  BY DEF Executable
<1>2. /\ DOMAIN Columns(pushed) = DOMAIN pushed /\ DOMAIN Binds(pushed) = DOMAIN pushed
      /\ \A i \in DOMAIN pushed :
            Columns(pushed)[i] = pushed[i].column /\ Binds(pushed)[i] = pushed[i].bind
  BY DEF Columns, Binds
<1>3. \A i \in DOMAIN pushed : pushed[i] \in Conditions
  BY ElementOfSeq, LenProperties
<1>4. ASSUME NEW i \in DOMAIN pushed, NEW r \in DOMAIN view.rows
      PROVE  Equals(view.rows[r][Compared(sql, i)], Binds(pushed)[i])
                <=> Cell(r, pushed[i].column) = pushed[i].bind
  <2>1. Compared(sql, i) = ColumnAt(view, pushed[i].column)
    BY <1>2 DEF Compared
  <2>2. \E c \in DOMAIN view.columns : view.columns[c] = pushed[i].column
    BY <1>2 DEF Executable
  <2>3. /\ ColumnAt(view, pushed[i].column) \in DOMAIN view.columns
        /\ view.columns[ColumnAt(view, pushed[i].column)] = pushed[i].column
    BY <2>2, FindColumn
  <2>4. pushed[i].bind \in Strings
        /\ \E f \in DOMAIN FilterColumn : pushed[i].column = FilterColumn[f]
    BY <1>3 DEF Conditions
  <2>5. Cell(r, pushed[i].column) \in Strings \cup {Null}
    BY <1>1, <2>3, <2>4, CatalogAssumption
  <2>. QED
    BY <1>2, <2>1, <2>4, <2>5, EqualTexts
<1>. HIDE DEF view
<1>5. Selected(sql, Binds(pushed)) =
         {r \in DOMAIN view.rows : \A i \in DOMAIN pushed :
             Cell(r, pushed[i].column) = pushed[i].bind}
  BY <1>2, <1>4 DEF Selected, view
<1>6. Selected(sql, Binds(pushed)) =
         {r \in DOMAIN view.rows : \A condition \in Range(pushed) :
             Cell(r, condition.column) = condition.bind}
  BY <1>5 DEF Range
<1>. QED
  BY <1>6 DEF view

Scope == {"catalog", "schema", "table"}

Active(resolved, f) == resolved[f] \notin {None, Word("")}

Condition(resolved, f) == [column |-> FilterColumn[f], bind |-> resolved[f]]

(* The filters that both statements have, and the one of tables.           *)
LEMMA PushedConditions ==
    ASSUME NEW resolved \in [DOMAIN FilterColumn -> FilterValues]
    PROVE  LET scope == ScopeFilters(resolved)
               all == scope \o PushEqFilter("table_type", resolved.table_type)
           IN  /\ scope \in Seq(Conditions) /\ all \in Seq(Conditions)
               /\ Range(scope) = {Condition(resolved, f) : f \in {g \in Scope : Active(resolved, g)}}
               /\ Range(all) = {Condition(resolved, f) :
                                   f \in {g \in DOMAIN FilterColumn : Active(resolved, g)}}
<1> DEFINE Push(f) == PushEqFilter(FilterColumn[f], resolved[f])
           first == Push("catalog")
           second == Push("schema")
           third == Push("table")
           fourth == Push("table_type")
           One(f) == IF Active(resolved, f) THEN {Condition(resolved, f)} ELSE {}
<1>1. DOMAIN FilterColumn = {"catalog", "schema", "table", "table_type"}
  BY DEF FilterColumn
<1>2. ASSUME NEW f \in DOMAIN FilterColumn
      PROVE  Push(f) \in Seq(Conditions) /\ Range(Push(f)) = One(f)
  BY OneFilter DEF Active, Condition
<1>3. ScopeFilters(resolved) = (first \o second) \o third
  BY DEF ScopeFilters, FilterColumn
<1>4. PushEqFilter("table_type", resolved.table_type) = fourth
  BY DEF FilterColumn
<1>5. /\ first \in Seq(Conditions) /\ second \in Seq(Conditions)
      /\ third \in Seq(Conditions) /\ fourth \in Seq(Conditions)
      /\ Range(first) = One("catalog") /\ Range(second) = One("schema")
      /\ Range(third) = One("table") /\ Range(fourth) = One("table_type")
  BY <1>1, <1>2
<1>. HIDE DEF first, second, third, fourth, One
<1>6. \A s, t \in Seq(Conditions) :
          s \o t \in Seq(Conditions) /\ Range(s \o t) = Range(s) \cup Range(t)
  BY ConcatProperties, RangeConcatenation
<1>7. /\ (first \o second) \o third \in Seq(Conditions)
      /\ Range((first \o second) \o third) = Range(first) \cup Range(second) \cup Range(third)
  <2>1. /\ first \o second \in Seq(Conditions)
        /\ Range(first \o second) = Range(first) \cup Range(second)
    BY <1>5, <1>6, Zenon
  <2>2. /\ (first \o second) \o third \in Seq(Conditions)
        /\ Range((first \o second) \o third) = Range(first \o second) \cup Range(third)
    BY <1>5, <1>6, <2>1, Zenon
  <2>. QED
    BY <2>1, <2>2, Zenon
<1>8. /\ ((first \o second) \o third) \o fourth \in Seq(Conditions)
      /\ Range(((first \o second) \o third) \o fourth)
            = Range((first \o second) \o third) \cup Range(fourth)
  BY <1>5, <1>6, <1>7, Zenon
<1> DEFINE Of(filters) == {Condition(resolved, f) : f \in {g \in filters : Active(resolved, g)}}
<1>9. ASSUME NEW filters, NEW c PROVE c \in Of(filters) <=> \E f \in filters : c \in One(f)
  <2>1. \A f : c \in One(f) <=> Active(resolved, f) /\ c = Condition(resolved, f)
    BY Zenon DEF One
  <2>2. c \in Of(filters) <=> \E f \in filters : Active(resolved, f) /\ c = Condition(resolved, f)
    BY Zenon
  <2>. QED
    BY <2>1, <2>2, Zenon
<1>. HIDE DEF Of
<1>10. One("catalog") \cup One("schema") \cup One("table") = Of(Scope)
  <2>1. \A c : c \in Of(Scope) <=> \E f \in Scope : c \in One(f)
    BY <1>9, Zenon
  <2>. QED
    BY <2>1 DEF Scope
<1>11. One("catalog") \cup One("schema") \cup One("table") \cup One("table_type")
        = Of(DOMAIN FilterColumn)
  <2>1. \A c : c \in Of(DOMAIN FilterColumn) <=> \E f \in DOMAIN FilterColumn : c \in One(f)
    BY <1>9, Zenon
  <2>. QED
    BY <1>1, <2>1
<1>. QED
  <2>1. /\ Range(((first \o second) \o third)) = Of(Scope)
        /\ Range(((first \o second) \o third) \o fourth) = Of(DOMAIN FilterColumn)
    BY <1>5, <1>7, <1>8, <1>10, <1>11, Zenon
  <2>. QED
    BY <1>3, <1>4, <1>7, <1>8, <2>1, Zenon DEF Of

(* The rows in the scope of filters: equal to each of those that apply.    *)
Matches(view, resolved, filters) ==
    {r \in DOMAIN view.rows : \A f \in filters :
        ~Active(resolved, f) \/ view.rows[r][ColumnAt(view, FilterColumn[f])] = resolved[f]}

LEMMA CatalogSelects ==
    ASSUME NEW resolved \in [DOMAIN FilterColumn -> FilterValues], NEW built,
           Executable(built.sql, built.binds)
    PROVE  /\ built = BuildListTables(resolved) =>
                Selected(built.sql, built.binds)
                    = Matches(Relations[built.sql.from], resolved, DOMAIN FilterColumn)
           /\ built = BuildListColumns(resolved) =>
                Selected(built.sql, built.binds)
                    = Matches(Relations[built.sql.from], resolved, Scope)
<1>1. ASSUME NEW pushed \in Seq(Conditions), NEW filters,
             Range(pushed) = {Condition(resolved, f) : f \in {g \in filters : Active(resolved, g)}},
             built.sql.where = Columns(pushed), built.binds = Binds(pushed),
             built.sql.from \in Views
      PROVE  Selected(built.sql, built.binds)
                = Matches(Relations[built.sql.from], resolved, filters)
  <2> DEFINE view == Relations[built.sql.from]
  <2>1. Selected(built.sql, built.binds) =
          {r \in DOMAIN view.rows : \A condition \in Range(pushed) :
              view.rows[r][ColumnAt(view, condition.column)] = condition.bind}
    BY <1>1, ConditionsSelect
  <2>2. \A f : /\ Condition(resolved, f).column = FilterColumn[f]
               /\ Condition(resolved, f).bind = resolved[f]
    BY DEF Condition
  <2>. QED
    BY <1>1, <2>1, <2>2 DEF Matches
<1>2. ASSUME built = BuildListTables(resolved)
      PROVE  Selected(built.sql, built.binds)
                = Matches(Relations[built.sql.from], resolved, DOMAIN FilterColumn)
  <2> DEFINE pushed == ScopeFilters(resolved) \o PushEqFilter("table_type", resolved.table_type)
  <2>1. /\ built.sql.where = Columns(pushed) /\ built.binds = Binds(pushed)
        /\ built.sql.from \in Views
    BY <1>2, SMTT(30) DEF BuildListTables, Select, Views
  <2>2. /\ pushed \in Seq(Conditions)
        /\ Range(pushed) = {Condition(resolved, f) :
                               f \in {g \in DOMAIN FilterColumn : Active(resolved, g)}}
    BY PushedConditions
  <2>. HIDE DEF pushed
  <2>. QED
    BY <1>1, <2>1, <2>2
<1>3. ASSUME built = BuildListColumns(resolved)
      PROVE  Selected(built.sql, built.binds)
                = Matches(Relations[built.sql.from], resolved, Scope)
  <2> DEFINE pushed == ScopeFilters(resolved)
  <2>1. /\ built.sql.where = Columns(pushed) /\ built.binds = Binds(pushed)
        /\ built.sql.from \in Views
    BY <1>3, SMTT(30) DEF BuildListColumns, Select, Views
  <2>2. /\ pushed \in Seq(Conditions)
        /\ Range(pushed) = {Condition(resolved, f) : f \in {g \in Scope : Active(resolved, g)}}
    BY PushedConditions
  <2>. HIDE DEF pushed
  <2>. QED
    BY <1>1, <2>1, <2>2
<1>. QED
  BY <1>2, <1>3

-----------------------------------------------------------------------------
(* The arguments that a statement depends on.                              *)

OnlyThe(names, arguments) == [n \in DOMAIN arguments \cap names |-> arguments[n]]

(* The filters look at no argument that is not named by one of them.       *)
LEMMA SameFilters ==
    ASSUME NEW filters, NEW arguments
    PROVE  ResolveCatalogFilters(filters, arguments)
              = ResolveCatalogFilters(filters, OnlyThe(ArgumentNames(filters), arguments))
<1> DEFINE only == OnlyThe(ArgumentNames(filters), arguments)
<1>1. ASSUME NEW f \in DOMAIN filters
      PROVE  ResolveOne(filters[f], arguments) = ResolveOne(filters[f], only)
  <2>1. filters[f].arg # None => filters[f].arg \in ArgumentNames(filters)
    BY DEF ArgumentNames
  <2>2. DOMAIN only = DOMAIN arguments \cap ArgumentNames(filters)
    BY DEF OnlyThe
  <2>3. \A n \in DOMAIN only : only[n] = arguments[n]
    BY DEF OnlyThe
  <2>. HIDE DEF only
  <2>4. Supplied(filters[f], arguments) <=> Supplied(filters[f], only)
    BY <2>1, <2>2, <2>3 DEF Supplied
  <2>. QED
    BY <2>1, <2>2, <2>3, <2>4 DEF ResolveOne, Supplied
<1>. QED
  BY <1>1 DEF ResolveCatalogFilters

(* The parameters look at no argument that none of them names with a dot.  *)
LEMMA SameBinds ==
    ASSUME NEW params, NEW arguments, \A i \in DOMAIN params : params[i].form # "index"
    PROVE  EvalParamBinds(params, arguments)
              = EvalParamBinds(params, OnlyThe(ReferencedByParams(params), arguments))
<1> DEFINE only == OnlyThe(ReferencedByParams(params), arguments)
<1>1. ASSUME NEW i \in DOMAIN params
      PROVE  EvalParam(params[i], arguments) = EvalParam(params[i], only)
  <2>1. params[i].name \in ReferencedByParams(params)
    BY DEF ReferencedByParams
  <2>2. DOMAIN only = DOMAIN arguments \cap ReferencedByParams(params)
    BY DEF OnlyThe
  <2>3. \A n \in DOMAIN only : only[n] = arguments[n]
    BY DEF OnlyThe
  <2>. HIDE DEF only
  <2>. QED
    BY <2>1, <2>2, <2>3 DEF EvalParam
<1>. QED
  BY <1>1 DEF EvalParamBinds

(* A statement and its binds depend on the advertised arguments only.      *)
LEMMA SameStatementFor ==
    ASSUME NEW b, NEW arguments,
           b.operation \in {"query", "read_file", "list_tables", "list_columns"},
           \A i \in DOMAIN b.params : b.params[i].form # "index"
    PROVE  StatementFor(b, arguments)
              = StatementFor(b, OnlyThe(AdvertisedArguments(b), arguments))
<1>1. CASE IsCatalog(b)
  <2>1. AdvertisedArguments(b) = ArgumentNames(b.filters)
    BY <1>1 DEF AdvertisedArguments
  <2>2. ResolveCatalogFilters(b.filters, arguments)
          = ResolveCatalogFilters(b.filters, OnlyThe(AdvertisedArguments(b), arguments))
    BY <2>1, SameFilters
  <2>3. b.operation \in {"list_tables", "list_columns"}
    BY <1>1 DEF IsCatalog
  <2>. QED
    BY <2>2, <2>3 DEF StatementFor
<1>2. CASE ~IsCatalog(b)
  <2>1. AdvertisedArguments(b) = ReferencedByParams(b.params)
    BY <1>2 DEF AdvertisedArguments
  <2>2. EvalParamBinds(b.params, arguments)
          = EvalParamBinds(b.params, OnlyThe(AdvertisedArguments(b), arguments))
    BY <2>1, SameBinds
  <2>3. b.operation \in {"query", "read_file"}
    BY <1>2 DEF IsCatalog
  <2>. QED
    BY <2>2, <2>3 DEF StatementFor
<1>. QED
  BY <1>1, <1>2

-----------------------------------------------------------------------------
(* The column that a completion offers.                                    *)

(* The first column is the first one selected, if objects keep the order   *)
(* of their insertions or have one column.                                 *)
LEMMA FirstColumnIsFirst ==
    ASSUME NEW columns, Listed(columns),
           NEW keyOrder \in {"inserted", "byName"},
           keyOrder = "inserted" \/ Len(columns) = 1
    PROVE  FirstColumn(columns, keyOrder) = columns[1]
<1> DEFINE names == {columns[i] : i \in DOMAIN columns}
           First(c) == \/ keyOrder = "inserted" /\ c = columns[1]
                       \/ /\ keyOrder = "byName"
                          /\ \A i \in DOMAIN columns :
                                c = columns[i] \/ <<c, columns[i]>> \in NameOrder
<1>1. 1 \in DOMAIN columns /\ (Len(columns) = 1 => DOMAIN columns = {1})
  BY DEF Listed
<1>2. columns[1] \in names
  BY <1>1
<1>3. CASE keyOrder = "inserted"
  <2>1. \A c \in names : First(c) <=> c = columns[1]
    BY <1>3
  <2>. QED
    BY <1>2, <2>1 DEF FirstColumn
<1>4. CASE keyOrder = "byName"
  <2>1. names = {columns[1]}
    BY <1>1, <1>4
  <2>2. First(columns[1])
    BY <1>1, <1>4
  <2>. QED
    BY <2>1, <2>2 DEF FirstColumn
<1>. QED
  BY <1>3, <1>4

=============================================================================
