---------------------------- MODULE TokenAccount ----------------------------
(***************************************************************************)
(* What a token wallet promises: one number per user that moves only       *)
(* together with the accounting ledger, by the same amount, and is never   *)
(* overdrawn.  credits/models.py calls token_transaction "the accounting   *)
(* ledger" in which "every token movement gets a row".                     *)
(***************************************************************************)
EXTENDS Integers

CONSTANTS
  Users,
  Opening     (* each user's balance when the ledger starts              *)

VARIABLES
  balance,    (* tokens a user can spend                                   *)
  ledger      (* sum of the user's token_transaction amounts               *)

vars == <<balance, ledger>>

Init == /\ balance = Opening
        /\ ledger = [u \in Users |-> 0]

(* One entry, a spend, a purchase, a refund or an expiry: the user ends     *)
(* with any balance that is not negative, and the ledger records the change.*)
Post(u) == /\ balance'[u] \in Nat
           /\ balance' = [balance EXCEPT ![u] = balance'[u]]
           /\ ledger'  = [ledger EXCEPT ![u] = @ + balance'[u] - balance[u]]

Next == \E u \in Users : Post(u)

Spec == Init /\ [][Next]_vars
==============================================================================
