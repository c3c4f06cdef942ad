------------------------------ MODULE Payments ------------------------------
(***************************************************************************)
(* What the Stripe integration promises about money: a payment is credited *)
(* exactly once, and Stripe is told that all is well (it stops redelivering)*)
(* only after that.                                                        *)
(***************************************************************************)
EXTENDS Naturals

CONSTANT Paid      (* the payments that may be made                        *)

VARIABLES
  made,            (* payments made so far                                 *)
  credited,        (* how often each was credited                          *)
  settled          (* payments Stripe considers delivered                  *)

vars == <<made, credited, settled>>

Init == /\ made = {}
        /\ credited = [p \in Paid |-> 0]
        /\ settled = {}

Pay(p) == /\ made' = made \cup {p}
          /\ UNCHANGED <<credited, settled>>

Credit(p) == /\ p \in made
             /\ credited[p] = 0
             /\ credited' = [credited EXCEPT ![p] = 1]
             /\ UNCHANGED <<made, settled>>

Settle(p) == /\ credited[p] = 1
             /\ settled' = settled \cup {p}
             /\ UNCHANGED <<made, credited>>

(* The credit may be the very step that answers.                            *)
CreditAndSettle(p) == /\ p \in made
                      /\ credited[p] = 0
                      /\ credited' = [credited EXCEPT ![p] = 1]
                      /\ settled' = settled \cup {p}
                      /\ UNCHANGED made

Next == \E p \in Paid : Pay(p) \/ Credit(p) \/ Settle(p) \/ CreditAndSettle(p)

Spec == Init /\ [][Next]_vars
==============================================================================
