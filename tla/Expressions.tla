---------------------------- MODULE Expressions ----------------------------
(***************************************************************************)
(* What the syncers make of the value of a CEL expression. A value is its  *)
(* type, as the evaluator and the database driver deliver it, with its     *)
(* text.                                                                   *)
(***************************************************************************)
LOCAL INSTANCE Sequences

Value(type, text) == [type |-> type, text |-> text]
Failed == Value("error", "")

(* An expression: a bare word, or a column of the row; Absent is the empty   *)
(* string in the configuration.                                              *)
Bare(word) == [form |-> "bare", word |-> word]
Column(name) == [form |-> "column", word |-> name]
Absent == [form |-> "absent", word |-> ""]

(* preprocessExpressions quotes a bare word, but for the Boolean literals,   *)
(* and makes a lookup of a column, which fails where the row has none.       *)
Evaluate(expr, cols) ==
    IF expr.form = "bare"
    THEN Value(IF expr.word \in {"true", "false"} THEN "bool" ELSE "text", expr.word)
    ELSE IF expr.form = "column" /\ expr.word \in DOMAIN cols THEN cols[expr.word] ELSE Failed

(* fmt's %s of a value it has no string for. *)
Shown(value) ==
    IF value.type = "null" THEN "NULL_VALUE" ELSE "%!s(" \o value.type \o "=" \o value.text \o ")"

\* Faulty variant: an integer is formatted with %s like the rest.
StringOfShownInt(value) ==
    IF value.type \in {"text", "bytes"} THEN value.text ELSE Shown(value)

StringOf(value) ==
    IF value.type \in {"text", "bytes", "int"} THEN value.text ELSE Shown(value)

(* EvaluateString: the string, or Failed. *)
EvaluateString(expr, cols) ==
    LET value == Evaluate(expr, cols)
    IN  IF value = Failed THEN Failed ELSE Value("text", StringOf(value))

(* strconv.ParseBool. *)
TrueWords == {"1", "t", "T", "true", "TRUE", "True"}
FalseWords == {"0", "f", "F", "false", "FALSE", "False"}

(* EvaluateBool, "error" where it fails. An integer is compared with 0 as    *)
(* values of two interfaces, whose types differ: it is never equal.          *)
BoolOf(value) ==
    IF value.type = "bool" THEN value.text
    ELSE IF value.type = "int" \/ (value.type = "text" /\ value.text \in TrueWords) THEN "true"
    ELSE IF value.type = "text" /\ value.text \in FalseWords THEN "false"
    ELSE "error"

EvaluateBool(expr, cols) == BoolOf(Evaluate(expr, cols))
=============================================================================
