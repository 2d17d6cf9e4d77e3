----------------------------- MODULE MCListing -----------------------------
(* Small instances of Listing: page sizes scaled down to 1 .. 3. *)
EXTENDS Listing

\* Below the minimum, unset, and above the maximum.
MCSizes == {-1, 0, 5}
=============================================================================
