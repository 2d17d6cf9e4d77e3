----------------------------- MODULE MCSession -----------------------------
(* Small instances of Session: a type of two resources on two pages, and one *)
(* of a single resource; configurations with and without the second type,    *)
(* its skip flag, a grants query of the first, and one that cannot be built. *)
EXTENDS Session

CONSTANTS user, role, ann, bob, admin

MCTypeOf == [x \in Types \cup Resources |-> IF x \in {user, ann, bob} THEN user ELSE role]
MCPages == [x \in Types \cup Resources |-> IF x = user THEN 2 ELSE 1]
MCPageOf == [r \in Resources |-> IF r = bob THEN 2 ELSE 1]

Configuration(types, skip, queries, whole) ==
    [types |-> types, skip |-> skip, whole |-> whole,
     queries |-> [t \in Types |-> IF t = role THEN queries ELSE 0]]

MCConfigs ==
    {Configuration({user, role}, {}, 3, TRUE), Configuration({user, role}, {}, 1, TRUE),
     Configuration({user, role}, {user}, 0, TRUE), Configuration({user}, {}, 0, TRUE),
     Configuration({user, role}, {}, 3, FALSE)}
=============================================================================
