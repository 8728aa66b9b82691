------------------------------ MODULE MCLedger ------------------------------
(* Small instances of Ledger for TLC. *)
EXTENDS Ledger, TLC

CONSTANTS alice, bob, checking, savings

OneOwner == [a \in Accounts |-> alice]
TwoOwners == [a \in Accounts |-> IF a = checking THEN alice ELSE bob]

EveryoneWrites == Users \X Tenants

\* Requests and row identities are interchangeable.
Symmetry == Permutations(Requests) \cup Permutations(Txns)

=============================================================================
