--------------------------- MODULE MCRefreshTokens ---------------------------
(* Small instances of RefreshTokens for TLC. *)
EXTENDS RefreshTokens, TLC

\* Tabs are interchangeable, and so are requests.
Symmetry == Permutations(Tabs) \cup Permutations(Requests)

=============================================================================
