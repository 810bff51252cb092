---------------------------- MODULE MCAccounts ----------------------------
(* Instances of Accounts for TLC. *)
EXTENDS Accounts, TLC

CONSTANTS teacher, p2, i1

(* A password reset with a demotion, which is not written; a promotion     *)
(* with a link; another account's row; a removal under the first new name. *)
Posted ==
    {[pass |-> p2, role |-> 0], [name |-> 1, role |-> 1, link |-> i1],
     [id |-> teacher], [name |-> 1, gone |-> TRUE]}

Interchangeable == Permutations(Handlers) \cup Permutations(Browsers) \cup Permutations(Tokens)
    \cup Permutations(Users \ Old)
============================================================================
