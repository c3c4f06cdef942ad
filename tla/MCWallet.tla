------------------------------ MODULE MCWallet ------------------------------
(***************************************************************************)
(* Instances of Wallet for TLC: opening wallets a user can really have,    *)
(* and the sets of operations each run lets interleave.                    *)
(***************************************************************************)
EXTENDS Wallet

CONSTANT u1

(* A wallet holding welcome, running-cycle, rolled-over and bought tokens,  *)
(* with a cap in force, a saved card and auto top-up switched on.           *)
Funded == [free |-> 1, roll |-> 1, rollExp |-> "fresh", sub |-> 1, purch |-> 2,
           cap |-> 3, period |-> "fresh", counted |-> 0,
           armed |-> TRUE, card |-> TRUE, charge |-> "never"]

OneUser     == {u1}
FundedRows  == [u \in OneUser |-> Funded]
AllOps      == Kinds \ {"topup"}
SpendOps    == {"spend"}
==============================================================================
