------------------------------ MODULE MCStripe ------------------------------
(***************************************************************************)
(* Instances of StripeWebhooks for TLC: which events Stripe may emit in a  *)
(* run.  Allotments are small numbers (one per tier or pack).              *)
(***************************************************************************)
EXTENDS StripeWebhooks, TLC

CONSTANTS u1, pi1, pi2, s1, in1, r1, r2, d1, none, w1, w2

Symmetric == Permutations(Workers)

E(kind, pays, of, tokens) ==
  [kind |-> kind, user |-> u1, pays |-> pays, of |-> of, tokens |-> tokens,
   bonus |-> 0, status |-> "active"]

Topup(pi, n)      == E("topup", pi, pi, n)
Intent(pi, n)     == E("autotopup", pi, pi, n)
Activation(s, n)  == [E("activation", s, s, n) EXCEPT !.bonus = 1]
Renewal(i, s)     == E("invoice", i, s, 1)
Updated(s, st, n) == [E("updated", s, s, n) EXCEPT !.status = st]
Deleted(s)        == E("deleted", s, s, 0)
Failed(s)         == E("failed", s, s, 0)
Refund(r, pi, n)  == E("refund", r, pi, n)
Dispute(d, pi)    == E("dispute", d, pi, 2)

(* A new user's first payments: a subscription with a bonus, and a top-up   *)
(* that both a checkout and an auto top-up event report.                    *)
FirstPayments == {Activation(s1, 2), Topup(pi1, 1), Intent(pi1, 1)}

(* Every kind of event: a subscription's life, and top-ups of one user that *)
(* are refunded in part, then in full, and disputed.                        *)
AllEvents == {Activation(s1, 2), Renewal(in1, s1), Updated(s1, "cancelling", 1), Failed(s1),
              Deleted(s1), Topup(pi1, 2), Refund(r1, pi1, 1), Refund(r2, pi1, 2),
              Dispute(d1, pi1)}

(* Two purchases, one of them refunded in two halves.                       *)
TwoRefunds == {Topup(pi1, 2), Topup(pi2, 2), Refund(r1, pi1, 1), Refund(r2, pi1, 2)}
==============================================================================
