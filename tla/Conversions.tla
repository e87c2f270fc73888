---------------------------- MODULE Conversions ----------------------------
(***************************************************************************)
(* The values that cross the plugin: what an engine value becomes in a row *)
(* of the answer (duckdb.rs), and what a JSON argument becomes, through    *)
(* the CEL expressions of the binding, as a bind parameter (params.rs).    *)
(*                                                                         *)
(* A value is a record with one field, named for its type.  i64 is scaled  *)
(* to -IntMax - 1 .. IntMax and u64 to 0 .. 2 * IntMax + 1; f64 holds the  *)
(* integers up to Exact and beyond them the multiples of Spacing.          *)
(***************************************************************************)
EXTENDS Integers, Sequences

CONSTANTS IntMax, Exact, Spacing

ASSUME ConversionsAssumption ==
    /\ IntMax \in Nat
    /\ Exact \in 0..IntMax
    /\ Spacing \in Nat \ {0}

Null == [null |-> TRUE]
Bool(b) == [bool |-> b]
Number(i) == [int |-> i]          \* an integer, of whatever width
Float(x) == [float |-> x]         \* a finite double
NonFinite == [nonfinite |-> TRUE] \* NaN or an infinity
Decimal(i) == [decimal |-> i]
Digits(i) == [digits |-> i]       \* a string that spells the integer i
Word(w) == [word |-> w]           \* any other string
Opaque(w) == [opaque |-> w]       \* a blob, a temporal or a composite value
List(s) == [list |-> s]           \* a JSON array or object

Is(v, type) == type \in DOMAIN v

IsString(v) == Is(v, "digits") \/ Is(v, "word")
Strings == [digits : Int] \cup [word : STRING]

Fits(i) == -IntMax - 1 <= i /\ i <= IntMax

(* as_f64: the double nearest to an integer.                               *)
Rounded(i) == IF -Exact <= i /\ i <= Exact THEN i
              ELSE Spacing * ((i + Spacing \div 2) \div Spacing)

-----------------------------------------------------------------------------
(* value_ref_to_json, f64_to_json: an integer beyond i64 becomes a string, *)
(* so does a decimal; a double that is not finite becomes null; a type     *)
(* JSON does not have is rendered as a string.                             *)
(* Faulty variant: a UBIGINT is emitted as a number, as JSON allows.       *)
BugNarrowToJson(i) ==
    IF Fits(i) \/ (0 <= i /\ i <= 2 * IntMax + 1) THEN Number(i) ELSE Digits(i)

NarrowToJson(i) == IF Fits(i) THEN Number(i) ELSE Digits(i)

ValueToJson(v) ==
    CASE Is(v, "int")       -> NarrowToJson(v.int)
      [] Is(v, "decimal")   -> Digits(v.decimal)
      [] Is(v, "nonfinite") -> Null
      [] Is(v, "opaque")    -> Word(v.opaque)
      [] OTHER              -> v

(* row_to_json: an object from the columns of one row.  Of the columns of  *)
(* one name the last wins, and a column that DuckDB types NULL is null     *)
(* without being read.                                                     *)
RowToJson(row, columns, nullTyped) ==
    [name \in {columns[i] : i \in DOMAIN columns} |->
        LET last == CHOOSE i \in DOMAIN columns :
                       /\ columns[i] = name
                       /\ \A j \in DOMAIN columns : columns[j] = name => j <= i
        IN  IF nullTyped[last] THEN Null ELSE ValueToJson(row[last])]

-----------------------------------------------------------------------------
(* json_to_cel and cel_to_json: CEL has an int and a uint, JSON numbers    *)
(* are either; CEL arithmetic may yield a double that JSON has not.  The   *)
(* elements of a list are converted alike; no bind looks at them.          *)
JsonToCel(v) ==
    CASE Is(v, "int") /\ Fits(v.int)  -> [celInt |-> v.int]
      [] Is(v, "int") /\ ~Fits(v.int) -> [celUInt |-> v.int]
      [] OTHER                        -> v

CelToJson(c) ==
    CASE Is(c, "celInt")    -> Number(c.celInt)
      [] Is(c, "celUInt")   -> Number(c.celUInt)
      [] Is(c, "nonfinite") -> Null
      [] OTHER              -> c

Failed == [failed |-> TRUE]

(* evaluate_params, for one parameter: `arguments.x`, `arguments["x"]`, or *)
(* a conditional that yields null when x is absent.                        *)
EvalParam(param, arguments) ==
    CASE param.name \in DOMAIN arguments ->
            CelToJson(JsonToCel(arguments[param.name]))
      [] param.name \notin DOMAIN arguments ->
            IF param.form = "optional" THEN Null ELSE Failed

(* json_to_duck_bind and bind_value: an integer beyond i64 is bound as a   *)
(* double; an array or object cannot be bound.                             *)
Bindable(v) ==
    CASE Is(v, "int")  -> IF Fits(v.int) THEN v ELSE Float(Rounded(v.int))
      [] Is(v, "list") -> Failed
      [] OTHER         -> v

(* eval_param_binds: the values of the placeholders, unless one fails.     *)
EvalParamBinds(params, arguments) ==
    [i \in DOMAIN params |-> Bindable(EvalParam(params[i], arguments))]

ParamsFail(params, arguments) ==
    \E i \in DOMAIN params : EvalParamBinds(params, arguments)[i] = Failed

-----------------------------------------------------------------------------
(* cursor_value_to_string: the key of a page's last row, as its cursor.    *)
CursorValueToString(v) ==
    CASE Is(v, "int")  -> Digits(v.int)
      [] Is(v, "null") -> Word("")
      [] Is(v, "bool") -> Word(IF v.bool THEN "true" ELSE "false")
      [] OTHER         -> v

-----------------------------------------------------------------------------
(* DuckDB: `column = ?`.  A string is cast to the column's type, an        *)
(* integer is compared with a double as a double, NULL equals nothing.     *)
Castable(v, bind) == Is(v, "int") => ~Is(bind, "word") /\ ~Is(bind, "bool")

Equals(v, bind) ==
    CASE Is(v, "int") /\ Is(bind, "int")    -> v.int = bind.int
      [] Is(v, "int") /\ Is(bind, "digits") -> v.int = bind.digits
      [] Is(v, "int") /\ Is(bind, "float")  -> Rounded(v.int) = bind.float
      [] Is(v, "null") \/ Is(bind, "null")  -> FALSE
      [] OTHER                              -> v = bind
=============================================================================
