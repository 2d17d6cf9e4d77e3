---------------------------- MODULE MCQueryText ----------------------------
(* Small instances of QueryText: queries of up to three pieces, on an engine *)
(* with "?" and two with numbered placeholders, names in both cases, and a   *)
(* section whose variable is not in lower case.                              *)
EXTENDS QueryText, TLC

MCLower ==
    [n \in Names |-> CASE n = "Limit" -> "limit" [] n = "Id" -> "id" [] n = "UNQUOTED" -> "unquoted"
                       [] OTHER -> n]

\* Two names have the same value.
MCPageValues == "limit" :> "v1" @@ "offset" :> "v2" @@ "cursor" :> "v1"

MCSections == {"id" :> "v1" @@ "limit" :> "v2", "Id" :> "v1"}
=============================================================================
