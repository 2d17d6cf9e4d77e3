------------------------------- MODULE Paging -------------------------------
(***************************************************************************)
(* Page sizes, page tokens and the rows one page query selects: the pure   *)
(* part of pkg/bsql/query.go.                                              *)
(*                                                                         *)
(* A row stands for its primary key, a positive number.  A page token is   *)
(* the number it spells; NoToken stands for the empty string, which the    *)
(* code reads as offset 0 and which sorts below every key.                 *)
(***************************************************************************)
EXTENDS Integers, FiniteSets

CONSTANTS
    MinPageSize, MaxPageSize, DefaultPageSize,  \* 1, 1000 and 100 in the code
    Strategy,  \* the list's pagination.strategy, "none" when it has no pagination
    Tokens,    \* which of ?<Limit>, ?<Offset>, ?<Cursor> its query mentions
    Ordered    \* whether its query has an ORDER BY on the primary key

ASSUME PageSizeAssumption ==
    /\ MinPageSize \in Nat \ {0} /\ MaxPageSize \in Nat /\ DefaultPageSize \in Nat
    /\ MinPageSize <= DefaultPageSize /\ DefaultPageSize <= MaxPageSize

ASSUME QueryAssumption ==
    /\ Strategy \in {"offset", "cursor", "none"}
    /\ Tokens \subseteq {"limit", "offset", "cursor"}
    /\ Strategy = "none" => Tokens = {}
    /\ Ordered \in BOOLEAN

NoToken == 0

(* Page sizes the code accepts once clamped. *)
Limits == MinPageSize .. MaxPageSize

\* Faulty variant: sizes below the minimum, 0 among them, are let through.
ClampPageSizeNoMinimum(size) == IF size > MaxPageSize THEN MaxPageSize ELSE size

ClampPageSize(size) ==
    IF size = 0 THEN DefaultPageSize
    ELSE IF size > MaxPageSize THEN MaxPageSize
    ELSE IF size < MinPageSize THEN MinPageSize
    ELSE size

(* prepareQuery drops the pagination context of a query without tokens. *)
Paged == Strategy # "none" /\ Tokens # {}

\* Faulty variant: the page token is not parsed, every page starts at the first row.
CursorIgnored(token) == NoToken

(* What setupPagination binds to the query's tokens. *)
OffsetOf(token) == IF Strategy = "offset" THEN token ELSE 0
CursorOf(token) == IF Strategy = "cursor" THEN token ELSE NoToken

\* Faulty variant: the page is not asked for one row more than it holds.
LimitValueExact(limit) == limit

(* The value bound to ?<Limit>: one row more than the page, to see whether *)
(* there is another page.                                                  *)
LimitValue(limit) == limit + 1

\* Faulty variant: the next page starts past the row the token names.
NextPageTokenPastRow(token, limit, lastRow) ==
    IF Strategy = "offset" THEN OffsetOf(token) * limit + limit + 1 ELSE lastRow + 1

NextPageToken(token, limit, lastRow) ==
    IF Strategy = "offset" THEN OffsetOf(token) * limit + limit ELSE lastRow

-----------------------------------------------------------------------------
(* The database's side of a page query: S can be the first rows of T. *)
Leading(S, T) == S \subseteq T /\ (Ordered => \A a \in S, b \in T \ S : a < b)

(* D can be the rows that OFFSET skips. *)
Skipped(D, rows, offset) ==
    /\ Leading(D, rows)
    /\ Cardinality(D) = IF offset < Cardinality(rows) THEN offset ELSE Cardinality(rows)

(* The rows that the WHERE clause and the OFFSET leave. *)
Selected(rows, D, cursor) ==
    {r \in rows \ D : "cursor" \in Tokens => r > cursor}

(* S cut out of T by LIMIT. *)
Cut(S, T, limit) ==
    /\ Leading(S, T)
    /\ "limit" \notin Tokens => S = T
    /\ "limit" \in Tokens =>
          \/ Cardinality(S) = LimitValue(limit)
          \/ S = T /\ Cardinality(S) < LimitValue(limit)

(* S can be the result of the page query on the table rows. *)
IsResult(S, rows, token, limit) ==
    \E D \in SUBSET rows :
        /\ IF "offset" \in Tokens THEN Skipped(D, rows, OffsetOf(token)) ELSE D = {}
        /\ Cut(S, Selected(rows, D, CursorOf(token)), limit)
=============================================================================
