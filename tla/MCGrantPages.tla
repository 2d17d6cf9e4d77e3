---------------------------- MODULE MCGrantPages ----------------------------
EXTENDS GrantPages

\* Four queries, of one to three pages.
MCPageCount == <<2, 1, 3, 2>>
=============================================================================
