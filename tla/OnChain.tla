------------------------------- MODULE OnChain -------------------------------
(***************************************************************************)
(* On-chain payments, from the webhook's reports (blockchain/tracer.py) to *)
(* the revenue ledger (revenue/attribution.py, revenue/aggregator.py).     *)
(*                                                                         *)
(* The route that receives the reports is the embedding service's: it may  *)
(* record a payment with every report or with the first kind only.  The    *)
(* sender repeats, overlaps and reorders reports; a handler may die.       *)
(***************************************************************************)
EXTENDS Integers, FiniteSets

CONSTANTS
  Payments,   (* transaction hashes                                        *)
  Handlers,
  MaxReports  (* bound: reports delivered                                  *)

Outcomes == {"confirmed", "failed", "expired"}
States   == {"unknown", "pending"} \cup Outcomes

ASSUME BoundAssumption    == MaxReports \in Nat
ASSUME PaymentsAssumption == Payments # {}

VARIABLES
  state,      (* per payment, the state column of its row                  *)
  stamped,    (* payments whose confirmed_at is set                        *)
  booked,     (* payments with a revenue_event row                         *)
  job,        (* per handler: what it serves, how far it is                *)
  budget,
  contested,  (* payments of which two reports overlapped                  *)
  dropped     (* confirmed payments whose attribution failed or died       *)

vars == <<state, stamped, booked, job, budget, contested, dropped>>

Idle == [phase |-> "idle", tx |-> CHOOSE p \in Payments : TRUE, new |-> "pending"]

At(h, phase) == job[h].phase = phase
------------------------------------------------------------------------------
Init == /\ state = [p \in Payments |-> "unknown"]
        /\ stamped = {} /\ booked = {}
        /\ job = [h \in Handlers |-> Idle]
        /\ budget = MaxReports
        /\ contested = {} /\ dropped = {}

(* A report arrives: the first one of a payment, or its outcome.            *)
Deliver(h, p, new) ==
  /\ At(h, "idle") /\ budget > 0
  /\ \E phase \in {"record"} \cup (IF new = "pending" THEN {} ELSE {"read"}) :
       job' = [job EXCEPT ![h] = [phase |-> phase, tx |-> p, new |-> new]]
  /\ budget' = budget - 1
  /\ UNCHANGED <<state, stamped, booked, contested, dropped>>

(* record_transaction: an insert, once per hash; every error, a database    *)
(* that is down as much as a duplicate, is taken for "already recorded".    *)
Record(h) ==
  LET p == job[h].tx
  IN  /\ At(h, "record")
      /\ \/ state' = [state EXCEPT ![p] = IF @ = "unknown" THEN "pending" ELSE @]
         \/ UNCHANGED state
      /\ job' = [job EXCEPT ![h] = IF job[h].new = "pending" THEN Idle ELSE [@ EXCEPT !.phase = "read"]]
      /\ UNCHANGED <<stamped, booked, budget, contested, dropped>>

(* Mutation: a failed payment may still be confirmed.                       *)
FailedMayRetry(from) == IF from \in {"pending", "failed"} THEN Outcomes ELSE {}

(* _VALID_TRANSITIONS.                                                      *)
Transitions(from) == IF from = "pending" THEN Outcomes ELSE {}

(* update_state reads the row, without a lock, and judges the transition.   *)
ReadState(h) ==
  /\ At(h, "read")
  /\ job' = [job EXCEPT ![h] = IF job[h].new \in Transitions(state[job[h].tx])
                                 THEN [@ EXCEPT !.phase = "write"] ELSE Idle]
  /\ UNCHANGED <<state, stamped, booked, budget, contested, dropped>>

(* Mutation: every outcome is attributed.                                   *)
AnyOutcome(new) == "bridge"

(* Mutation: update_state returns before the bridge to the ledger.          *)
NoBridge(new) == "idle"

Follows(new) == IF new = "confirmed" THEN "bridge" ELSE "idle"

(* ... and writes the state it was called with, whatever is there by now.   *)
WriteState(h) ==
  LET p   == job[h].tx
      new == job[h].new
  IN  /\ At(h, "write")
      /\ state' = [state EXCEPT ![p] = new]
      /\ stamped' = IF new = "confirmed" THEN stamped \cup {p} ELSE stamped
      /\ contested' = IF \E g \in Handlers \ {h} : At(g, "write") /\ job[g].tx = p
                        THEN contested \cup {p} ELSE contested
      /\ job' = [job EXCEPT ![h] = IF Follows(new) = "idle" THEN Idle
                                                            ELSE [@ EXCEPT !.phase = Follows(new)]]
      /\ UNCHANGED <<booked, budget, dropped>>

(* record_revenue_event: one row per hash.                                  *)
Recorded(p) == booked \cup {p}

(* attribute_onchain_event takes every failure for a duplicate.             *)
Swallowed(p) == dropped \cup {p}

(* _on_confirmed, in sessions of its own.                                   *)
Bridge(h) ==
  LET p == job[h].tx
  IN  /\ At(h, "bridge")
      /\ \/ booked' = Recorded(p) /\ UNCHANGED dropped
         \/ dropped' = Swallowed(p) /\ UNCHANGED booked
      /\ job' = [job EXCEPT ![h] = Idle]
      /\ UNCHANGED <<state, stamped, budget, contested>>

(* The process dies, or the session fails: nothing uncommitted survives.    *)
Die(h) ==
  /\ ~At(h, "idle")
  /\ dropped' = IF At(h, "bridge") THEN dropped \cup {job[h].tx} ELSE dropped
  /\ job' = [job EXCEPT ![h] = Idle]
  /\ UNCHANGED <<state, stamped, booked, budget, contested>>

Step(h) == Record(h) \/ ReadState(h) \/ WriteState(h) \/ Bridge(h)

Next == \E h \in Handlers :
          \/ \E p \in Payments, new \in {"pending"} \cup Outcomes : Deliver(h, p, new)
          \/ Step(h) \/ Die(h)

Spec == Init /\ [][Next]_vars

(* A handler that does not die runs on: the event loop serves every task    *)
(* and every database call returns.                                         *)
FairSpec == Spec /\ \A h \in Handlers : WF_vars(Step(h))
------------------------------------------------------------------------------
(* Revenue is booked only for a payment that was confirmed, and that still  *)
(* is, unless two reports of it overlapped; an unrecorded payment has       *)
(* neither a stamp nor revenue (blockchain/models.py, revenue/models.py).   *)
BookedIsConfirmed ==
  /\ state \in [Payments -> States]
  /\ booked \cup dropped \subseteq stamped
  /\ \A p \in stamped : state[p] = "confirmed" \/ p \in contested
  /\ \A p \in Payments : state[p] = "confirmed" => p \in stamped

(* "a transaction can only advance forward ... never backwards"             *)
(* (blockchain/tracer.py): once settled it changes only by a report that    *)
(* had read it before it settled.                                           *)
SettledStays ==
  [][\A p \in Payments \ contested' : state[p] \in Outcomes => state'[p] = state[p]]_vars

(* A confirmed payment reaches the revenue ledger, unless its attribution   *)
(* failed or its handler died first: no later report tries again.           *)
ConfirmedIsBooked ==
  \A p \in Payments : state[p] = "confirmed" ~> p \in booked \cup dropped
==============================================================================
