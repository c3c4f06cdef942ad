----------------------------- MODULE MCTransfers -----------------------------
(***************************************************************************)
(* Instances of Transfers for TLC.                                         *)
(***************************************************************************)
EXTENDS Transfers, TLC

CONSTANTS u1, u2, s1, s2, t1, t2

(* Only safety and action properties are checked here: sessions and sales  *)
(* may be exchanged.                                                       *)
Symmetric == Permutations(Sessions) \cup Permutations(Sales)

(* u1 holds tokens of three kinds, u2 has no wallet yet.                    *)
BothUsers == {u1, u2}
OnlyFirst == {u1}
FirstFunded ==
  [u \in BothUsers |->
     IF u = u1 THEN [EmptyRow EXCEPT !.free = 1, !.roll = 1, !.rollExp = "fresh", !.purch = 2]
               ELSE EmptyRow]

TradeOps == {"welcome", "spend", "credit", "clawback", "read"}
==============================================================================
