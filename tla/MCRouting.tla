----------------------------- MODULE MCRouting -----------------------------
(* Up to two static and up to two dynamic mappings; IDs with and without a   *)
(* colon.                                                                    *)
EXTENDS Routing

MCResourceIDs == {<<"a">>, <<"a", "m">>}
MCMappingIDs == {<<"m">>, <<"m", "n">>}

Both == [provisioned |-> TRUE, queries |-> {"grant", "revoke"}]
GrantOnly == [provisioned |-> TRUE, queries |-> {"grant"}]
Absent == [provisioned |-> FALSE, queries |-> {}]

Lists == {<<>>} \cup {<<m>> : m \in {Both, GrantOnly, Absent}}
         \cup {<<m, n>> : m \in {Both, Absent}, n \in {Both, GrantOnly}}

MCConfigs ==
    {c \in UNION {[hasStatic : BOOLEAN, static : {s}, staticID : [DOMAIN s -> MCMappingIDs],
                   dynamic : Lists] : s \in Lists} :
        c.static # <<>> => c.hasStatic}
=============================================================================
