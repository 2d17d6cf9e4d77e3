------------------------ MODULE AtomicProvisioning ------------------------
(***************************************************************************)
(* What transactional provisioning comes to on MySQL: each Grant or Revoke *)
(* takes effect in one step, at most once, as its statements would if they *)
(* ran alone, or not at all; and its caller hears "ok" only when it did,   *)
(* and never sees an effect after an error.                                *)
(***************************************************************************)
EXTENDS Integers, Sequences

CONSTANTS
    Calls,                 \* the Grant and Revoke calls
    Users,                 \* the principals they are about
    UserOf,                \* the principal of a call
    Queries                \* the statements of a call: "insert" or "delete" a row

VARIABLES
    access,   \* rows of the access table, by user
    applied,  \* calls that have taken effect
    reply     \* what each call has answered: "none", "ok" or "error"

vars == <<access, applied, reply>>

(* One statement on a user with n rows: a delete may remove one row, no more. *)
Accepted(n, statement) == statement = "delete" => n <= 1
After(n, statement) == IF statement = "insert" THEN n + 1 ELSE 0

(* The statements of c on a user with n rows: the rows after each of them. *)
RunsAlone(c, n) ==
    {rows \in [0 .. Len(Queries[c]) -> 0 .. n + Len(Queries[c])] :
        /\ rows[0] = n
        /\ \A i \in 1 .. Len(Queries[c]) :
              /\ Accepted(rows[i - 1], Queries[c][i])
              /\ rows[i] = After(rows[i - 1], Queries[c][i])}

Init ==
    /\ access \in [Users -> Nat]
    /\ applied = {}
    /\ reply = [c \in Calls |-> "none"]

(* The answer may be given with the effect, later, or never. *)
Apply(c, answer) ==
    /\ c \notin applied /\ reply[c] = "none"
    /\ \E rows \in RunsAlone(c, access[UserOf[c]]) :
         access' = [access EXCEPT ![UserOf[c]] = rows[Len(Queries[c])]]
    /\ applied' = applied \cup {c}
    /\ reply' = [reply EXCEPT ![c] = answer]

Fail(c) ==
    /\ reply[c] = "none"
    /\ reply' = [reply EXCEPT ![c] = "error"]
    /\ UNCHANGED <<access, applied>>

Next == \E c \in Calls : Fail(c) \/ \E answer \in {"none", "ok"} : Apply(c, answer)

Spec == Init /\ [][Next]_vars
=============================================================================
