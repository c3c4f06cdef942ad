------------------------------ MODULE MCOneTime -----------------------------
(***************************************************************************)
(* An instance of OneTime for TLC.                                         *)
(***************************************************************************)
EXTENDS OneTime, TLC

CONSTANTS h1, h2, b1, r1, a1, a2, a3, k1, k2, c1, c2, c3, l1, l2

(* Two responses to the first request, one nobody asked for.                *)
Answers == a1 :> r1 @@ a2 :> r1 @@ a3 :> Nothing

Symmetric == Permutations(Handlers)

Totp(k, n) == [secret |-> k, step |-> n, code |-> Nothing]
Code(c)    == [secret |-> Nothing, step |-> 1, code |-> c]
Op(kind, p, s, c) == [kind |-> kind, login |-> l1, proof |-> p, secret |-> s, code |-> c]
NoProof == Code(c1)

AllFactorOps ==
  {Op("enrol", NoProof, k1, c1), Op("enrol", NoProof, k2, c2)}
    \cup {Op("verify", p, Nothing, Nothing) : p \in {Totp(k1, 1), Totp(k1, 2), Totp(k2, 2), Code(c1)}}
    \cup {Op("disable", p, Nothing, Nothing) : p \in {Totp(k1, 2), Code(c1)}}
    \cup {Op("regenerate", Totp(k1, 2), Nothing, c3)}
==============================================================================
