--------------------------- MODULE MCProvisioning ---------------------------
(* Small instances of Provisioning: two grants to one user (or a grant and   *)
(* its retry), a revoke of them, and possibly a grant of an entitlement      *)
(* configured without a transaction.                                         *)
EXTENDS Provisioning

CONSTANTS ann, g1, g2, n1, r1

MCUserOf == [c \in Calls |-> ann]
MCKindOf == [c \in Calls |-> IF c = r1 THEN "revoke" ELSE "grant"]

\* wordpress.yml replaces the role row and revokes by deleting it.
Replace == <<"delete", "insert">>
Remove == <<"delete">>
=============================================================================
