----------------------------- MODULE SingleUse ------------------------------
(***************************************************************************)
(* What a one-time credential promises: it is honoured at most once, and   *)
(* only between its issue and its end.                                     *)
(***************************************************************************)
CONSTANTS Creds

VARIABLES state

Init == state \in [Creds -> {"unissued", "good", "dead"}]

Issue(c)  == state[c] = "unissued" /\ state' = [state EXCEPT ![c] = "good"]
Redeem(c) == state[c] = "good" /\ state' = [state EXCEPT ![c] = "spent"]

(* Time runs out, or a restart forgets every code that is in memory.        *)
Lapse(C)  == /\ \A c \in C : state[c] \in {"unissued", "good"}
             /\ state' = [c \in Creds |-> IF c \in C THEN "dead" ELSE state[c]]

Next == \/ \E c \in Creds : Issue(c) \/ Redeem(c)
        \/ \E C \in SUBSET Creds : Lapse(C)

Spec == Init /\ [][Next]_state
==============================================================================
