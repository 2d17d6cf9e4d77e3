----------------------------- MODULE QueryText -----------------------------
(***************************************************************************)
(* How a configured query becomes a statement and its arguments: the       *)
(* values of its ?<name> tokens (of the page, or of the variables of a     *)
(* provisioning section), then the replacement of one token after the      *)
(* other, and the placeholders by which each database reads an argument.   *)
(*                                                                         *)
(* A query is a sequence of pieces, text or token.  The text holds no      *)
(* placeholder of its own.                                                 *)
(***************************************************************************)
EXTENDS Integers, Sequences, FiniteSets

CONSTANTS
    Names,      \* names of tokens, of options, and of variables
    Keys,       \* those a token of a query can have
    Options,    \* the options a token can have
    Lower,      \* strings.ToLower on them
    Engines,    \* the database engines
    Values,
    PageValues, \* what setupPagination makes of a page: limit, offset, cursor
    Sections,   \* the evaluated variables of the provisioning sections
    MaxPieces   \* bound: pieces of a query

PageKeys == {"limit", "offset", "cursor"}
NoName == ""

ASSUME QueryTextAssumption ==
    /\ PageKeys \cup Keys \cup Options \cup {"unquoted"} \subseteq Names /\ NoName \notin Names
    /\ Lower \in [Names -> Names] /\ \A n \in Names : Lower[Lower[n]] = Lower[n]
    /\ \A n \in PageKeys \cup {"unquoted"} : Lower[n] = n
    /\ PageValues \in [PageKeys -> Values]
    /\ \A v \in Sections : DOMAIN v \subseteq Names /\ v \in [DOMAIN v -> Values]
    /\ MaxPieces \in Nat

Pieces == [key: Keys, option: Options \cup {NoName}] \cup [key: {NoName}, option: {NoName}]
IsToken(piece) == piece.key # NoName

\* Forms of a piece of the statement.
Text == [form |-> "text"]
Inlined(v) == [form |-> "inline", value |-> v]
Mark(n) == [form |-> "mark", number |-> n]

VARIABLES
    pc,         \* "start", "replace", "sent", "verbatim" or "refused"
    kind,       \* "page" or "provisioning"
    engine, query,
    values,     \* what the names stand for
    statement,  \* the pieces replaced so far
    args,       \* qArgs
    failed,     \* parseErr is set
    paged       \* paginationOptSet

vars == <<pc, kind, engine, query, values, statement, args, failed, paged>>

Init ==
    /\ pc = "start"
    /\ kind \in {"page", "provisioning"}
    /\ engine \in Engines
    /\ query \in UNION {[1 .. n -> Pieces] : n \in 0 .. MaxPieces}
    /\ values = [n \in {} |-> n]
    /\ statement = <<>> /\ args = <<>>
    /\ failed = FALSE /\ paged = FALSE

Given == <<kind, engine, query>>

-----------------------------------------------------------------------------
(* setupPagination: the limit, the offset and the cursor of the page. *)
SetupPagination ==
    /\ pc = "start" /\ kind = "page"
    /\ values' = PageValues
    /\ pc' = "replace"
    /\ UNCHANGED <<Given, statement, args, failed, paged>>

(* A query configured without pagination is sent as it is, tokens and all. *)
SendAsIs ==
    /\ pc = "start" /\ kind = "page"
    /\ pc' = "verbatim"
    /\ UNCHANGED <<Given, values, statement, args, failed, paged>>

(* prepareProvisioningVars: every variable of the section is evaluated. *)
PrepareVars ==
    /\ pc = "start" /\ kind = "provisioning"
    /\ values' \in Sections
    /\ pc' = "replace"
    /\ UNCHANGED <<Given, statement, args, failed, paged>>

(* An unknown strategy, a malformed token of a page, a variable that cannot  *)
(* be evaluated, no principal or no entitlement.                             *)
RefuseInputs ==
    /\ pc = "start"
    /\ pc' = "refused"
    /\ UNCHANGED <<Given, values, statement, args, failed, paged>>

-----------------------------------------------------------------------------
(* One call of the replacement function for the next piece of the query.     *)
Here == query[Len(statement) + 1]

Replacing == pc = "replace" /\ Len(statement) < Len(query)

CopyText ==
    /\ Replacing /\ ~IsToken(Here)
    /\ statement' = Append(statement, Text)
    /\ UNCHANGED <<pc, Given, values, args, failed, paged>>

\* Faulty variant: an option that is not known is ignored.
OptionIgnored(piece) == TRUE

(* parseToken: the only option is "unquoted", in any case. *)
OptionKnown(piece) == piece.option # NoName => Lower[piece.option] = "unquoted"

KeyOf(piece) == Lower[piece.key]

Known(piece) == OptionKnown(piece) /\ KeyOf(piece) \in DOMAIN values

Unquoted(piece) == piece.option # NoName

\* Faulty variant: an inlined value does not count as pagination.
NoticedIfBound(piece) == paged \/ (kind = "page" /\ ~Unquoted(piece))

Noticed(piece) == paged \/ kind = "page"

(* The error is kept, the token stays, and the replacement goes on. *)
Reject ==
    /\ Replacing /\ IsToken(Here) /\ ~Known(Here)
    /\ failed' = TRUE
    /\ statement' = Append(statement, Text)
    /\ UNCHANGED <<pc, Given, values, args, paged>>

Inline ==
    /\ Replacing /\ IsToken(Here) /\ Known(Here) /\ Unquoted(Here)
    /\ statement' = Append(statement, Inlined(values[KeyOf(Here)]))
    /\ paged' = Noticed(Here)
    /\ UNCHANGED <<pc, Given, values, args, failed>>

Numbered == {"PostgreSQL", "MSSQL", "Oracle"}

\* Faulty variant: the placeholder is numbered before its argument is added.
PlaceholderBefore(qArgs) == Mark(IF engine \in Numbered THEN Len(qArgs) - 1 ELSE 0)

(* getNextPlaceholder: $n, @pn and :n name an argument, "?" does not. *)
Placeholder(qArgs) == Mark(IF engine \in Numbered THEN Len(qArgs) ELSE 0)

\* Faulty variant: a value that was bound before is not bound again.
WithArgOnce(v) == IF \E i \in DOMAIN args : args[i] = v THEN args ELSE Append(args, v)

WithArg(v) == Append(args, v)

Bind ==
    /\ Replacing /\ IsToken(Here) /\ Known(Here) /\ ~Unquoted(Here)
    /\ args' = WithArg(values[KeyOf(Here)])
    /\ statement' = Append(statement, Placeholder(args'))
    /\ paged' = Noticed(Here)
    /\ UNCHANGED <<pc, Given, values, failed>>

Return ==
    /\ pc = "replace" /\ Len(statement) = Len(query)
    /\ pc' = IF failed THEN "refused" ELSE "sent"
    /\ UNCHANGED <<Given, values, statement, args, failed, paged>>

Next ==
    \/ SetupPagination \/ SendAsIs \/ PrepareVars \/ RefuseInputs
    \/ CopyText \/ Reject \/ Inline \/ Bind \/ Return

Spec == Init /\ [][Next]_vars

-----------------------------------------------------------------------------
(* The database's side: the argument a placeholder reads, by its number or   *)
(* by its place among the placeholders.                                      *)
MarksUpTo(k) == {j \in 1 .. k : statement[j].form = "mark"}

ArgumentOf(k) ==
    IF engine \in Numbered THEN statement[k].number ELSE Cardinality(MarksUpTo(k))

(* v is what the database takes for piece k of the statement. *)
Reads(k, v) ==
    \/ statement[k].form = "inline" /\ statement[k].value = v
    \/ /\ statement[k].form = "mark"
       /\ ArgumentOf(k) \in DOMAIN args
       /\ args[ArgumentOf(k)] = v

-----------------------------------------------------------------------------
Marks == [form: {"mark"}, number: IF engine \in Numbered THEN 1 .. Len(args) ELSE {0}]
Forms == {Text} \cup {Inlined(v) : v \in Values} \cup Marks

TypeOK ==
    /\ pc \in {"start", "replace", "sent", "verbatim", "refused"}
    /\ kind \in {"page", "provisioning"} /\ engine \in Engines
    /\ query \in Seq(Pieces)
    /\ DOMAIN values \subseteq Names /\ values \in [DOMAIN values -> Values]
    /\ statement \in Seq(Forms) /\ Len(statement) <= Len(query)
    /\ args \in Seq(Values)
    /\ failed \in BOOLEAN /\ paged \in BOOLEAN

(* In a statement that is sent, every token reads the value of its name on   *)
(* every engine, quoted or not, however often the name occurs and whatever   *)
(* is bound before it (getNextPlaceholder against the order of qArgs).       *)
EachReadsItsValue ==
    pc = "sent" =>
        \A k \in DOMAIN query : IsToken(query[k]) => Reads(k, values[Lower[query[k].key]])

(* The drivers refuse a statement with more or fewer arguments than          *)
(* placeholders: none is sent, and no text of the query reads an argument.   *)
AllArgsUsed ==
    pc = "sent" =>
        /\ Cardinality(MarksUpTo(Len(statement))) = Len(args)
        /\ \A k \in DOMAIN query : ~IsToken(query[k]) => statement[k] = Text

(* A token means something if it names a value, in any case, and has no      *)
(* option but "unquoted".                                                    *)
Means(piece) ==
    /\ piece.option = NoName \/ Lower[piece.option] = "unquoted"
    /\ \E n \in DOMAIN values : Lower[n] = Lower[piece.key]

(* One token that means nothing keeps the whole query from being sent,       *)
(* however many of its tokens are replaced; nothing else does, if the names  *)
(* of the variables are in lower case (parseErr, joined in the closures).    *)
RefusedIfWrong ==
    /\ pc = "sent" => \A k \in DOMAIN query : IsToken(query[k]) => Means(query[k])
    /\ failed /\ (\A n \in DOMAIN values : Lower[n] = n) =>
          \E k \in DOMAIN query : IsToken(query[k]) /\ ~Means(query[k])

(* A page query with a value of the page in it, inlined or bound, is taken   *)
(* for paged, so that its listing does not end with its first page.          *)
PagedIfCut ==
    pc = "sent" /\ kind = "page" => (paged <=> \E k \in DOMAIN query : IsToken(query[k]))
=============================================================================
