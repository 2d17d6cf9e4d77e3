----------------------------- MODULE MCMapping -----------------------------
(* Pages of up to two rows with an ID, a condition and an optional column;   *)
(* every kind of listing, with up to two mappings and two traits.            *)
EXTENDS Mapping

Conds == {Value("bool", "true"), Value("bool", "false"), Value("int", "0"), Value("text", "true"),
          Value("text", "0"), Value("text", "x"), Value("bytes", "1"), Value("null", "")}
IDs == {Value("int", "7"), Value("text", "7"), Value("bytes", "8"), Value("null", "")}

Whole == [id : IDs, cond : {Value("bool", "false"), Value("text", "true")}, note : {Value("text", "n")}]
            \cup [id : {Value("int", "7")}, cond : Conds, note : {Value("text", "n")}]
WithoutNote == [id : {Value("text", "7")}, cond : {Value("bool", "true"), Value("bool", "false")}]
MCRows == Whole \cup WithoutNote

MCPages == {<<>>, << <<>> >>} \cup {<<r>> : r \in MCRows} \cup {<<r, s>> : r, s \in MCRows}

M(skip_if, complete, exprs) == [skip_if |-> skip_if, complete |-> complete, exprs |-> exprs]
Plain == M(Absent, TRUE, <<Column("id")>>)
Conditional == M(Column("cond"), TRUE, <<Column("id"), Column("note")>>)
Lacking == M(Column("cond"), FALSE, <<Column("id")>>)
Never == M(Bare("true"), FALSE, <<Column("gone")>>)
Named == M(Absent, TRUE, <<Bare("true"), Bare("member")>>)
Misnamed == M(Absent, TRUE, <<Bare("true"), Column("gone")>>)

MCConfigs ==
    [kind : {"dynamic", "grants"}, traits : {{}},
     maps : {<<m>> : m \in {Plain, Conditional, Lacking}}
              \cup {<<Conditional, Plain>>, <<Never, Plain>>, <<Plain, Conditional>>}]
    \cup [kind : {"resources"}, maps : {<<M(Absent, TRUE, <<Column("id"), Column("note")>>)>>},
          traits : {T \in SUBSET TraitTypes : Cardinality(T) <= 2}]
    \cup [kind : {"static"}, maps : {<<>>, <<Named>>, <<Named, Plain>>, <<Named, Misnamed>>}, traits : {{}}]
=============================================================================
