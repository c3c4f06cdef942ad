---------------------------- MODULE OnChainProofs ----------------------------
(***************************************************************************)
(* Proofs about OnChain, for all payments, handlers and numbers of reports.*)
(*                                                                         *)
(* BookedIsConfirmed is not inductive: it says nothing of the handlers     *)
(* that are about to write a state or to book.  Inv adds what they know.   *)
(***************************************************************************)
EXTENDS OnChain, TLAPS

Phases == {"idle", "record", "read", "write", "bridge"}
Job    == [phase: Phases, tx: Payments, new: {"pending"} \cup Outcomes]

(* A handler that is about to write an outcome found the payment pending,   *)
(* and it still is unless another report overlapped; one that is about to   *)
(* book has stamped the payment.                                            *)
WritersKnow == \A h \in Handlers :
  At(h, "write") => /\ job[h].new \in Outcomes
                    /\ state[job[h].tx] = "pending" \/ job[h].tx \in contested
BridgesKnow == \A h \in Handlers : At(h, "bridge") => job[h].tx \in stamped

Inv == /\ job \in [Handlers -> Job]
       /\ stamped \subseteq Payments
       /\ BookedIsConfirmed
       /\ WritersKnow
       /\ BridgesKnow

LEMMA IdleIsAJob == Idle \in Job
BY PaymentsAssumption DEF Idle, Job, Phases

LEMMA InitInv == Init => Inv
<1> SUFFICES ASSUME Init PROVE Inv
  OBVIOUS
<1>1. job \in [Handlers -> Job] /\ stamped \subseteq Payments
  BY IdleIsAJob DEF Init
<1>2. BookedIsConfirmed
  BY DEF Init, BookedIsConfirmed, States, Outcomes
<1>3. \A h \in Handlers : job[h].phase = "idle"
  BY DEF Init, Idle
<1>4. WritersKnow /\ BridgesKnow
  BY <1>3 DEF WritersKnow, BridgesKnow, At
<1> QED
  BY <1>1, <1>2, <1>4 DEF Inv

(* The step that matters: an outcome is written over whatever is there.     *)
LEMMA WriteInv ==
  ASSUME Inv, NEW h \in Handlers, WriteState(h)
  PROVE  Inv'
<1> DEFINE p == job[h].tx
           new == job[h].new
<1>1. /\ p \in Payments /\ new \in Outcomes
      /\ state[p] = "pending" \/ p \in contested
  BY DEF Inv, WriteState, WritersKnow, At, Job
<1>2. /\ state' = [state EXCEPT ![p] = new]
      /\ stamped' = IF new = "confirmed" THEN stamped \cup {p} ELSE stamped
      /\ contested \subseteq contested'
      /\ (\E g \in Handlers \ {h} : At(g, "write") /\ job[g].tx = p) => p \in contested'
      /\ UNCHANGED <<booked, dropped>>
  BY DEF WriteState
<1>3. job' \in [Handlers -> Job] /\ stamped' \subseteq Payments
  <2>1. job' \in [Handlers -> Job]
    BY IdleIsAJob DEF Inv, WriteState, Job, Phases, Follows
  <2>2. stamped' \subseteq Payments
    BY <1>1, <1>2 DEF Inv
  <2> QED
    BY <2>1, <2>2
<1>4. \A g \in Handlers \ {h} : job'[g] = job[g]
  BY DEF Inv, WriteState
<1>5. BookedIsConfirmed'
  <2>1. state' \in [Payments -> States]
    BY <1>1, <1>2 DEF Inv, BookedIsConfirmed, States
  <2>2. booked' \cup dropped' \subseteq stamped'
    BY <1>2 DEF Inv, BookedIsConfirmed
  <2>3. \A q \in stamped' : state'[q] = "confirmed" \/ q \in contested'
    BY <1>1, <1>2 DEF Inv, BookedIsConfirmed
  <2>4. \A q \in Payments : state'[q] = "confirmed" => q \in stamped'
    BY <1>1, <1>2 DEF Inv, BookedIsConfirmed
  <2> QED
    BY <2>1, <2>2, <2>3, <2>4 DEF BookedIsConfirmed
<1>6. job'[h].phase # "write" /\ (job'[h].phase = "bridge" => job'[h].tx = p /\ new = "confirmed")
  BY DEF Inv, WriteState, Job, Follows, Idle
<1>7. WritersKnow'
  <2> SUFFICES ASSUME NEW g \in Handlers, job'[g].phase = "write"
               PROVE  /\ job'[g].new \in Outcomes
                      /\ state'[job'[g].tx] = "pending" \/ job'[g].tx \in contested'
    BY DEF WritersKnow, At
  <2>1. g \in Handlers \ {h} /\ job'[g] = job[g] /\ At(g, "write")
    BY <1>4, <1>6 DEF At
  <2>2. job[g].tx = p \/ state'[job[g].tx] = state[job[g].tx]
    BY <1>2, <2>1 DEF Inv, Job, BookedIsConfirmed
  <2> QED
    BY <1>2, <2>1, <2>2 DEF Inv, WritersKnow
<1>8. BridgesKnow'
  BY <1>2, <1>4, <1>6 DEF Inv, BridgesKnow, At
<1> QED
  BY <1>3, <1>5, <1>7, <1>8 DEF Inv

LEMMA RecordInv ==
  ASSUME Inv, NEW h \in Handlers, Record(h)
  PROVE  Inv'
<1>1. job' \in [Handlers -> Job]
  BY IdleIsAJob DEF Inv, Record, Job, Phases
<1>2. /\ state' \in [Payments -> States]
      /\ \A q \in Payments : state'[q] = state[q] \/ (state[q] = "unknown" /\ state'[q] = "pending")
  BY DEF Inv, BookedIsConfirmed, Record, States
<1>3. \A g \in Handlers : job'[g] = job[g] \/ job'[g].phase \notin {"write", "bridge"}
  BY DEF Inv, Record, Job, Idle
<1>4. UNCHANGED <<stamped, booked, dropped, contested>>
  BY DEF Record
<1>5. BookedIsConfirmed'
  <2>1. \A q \in Payments : state'[q] = "confirmed" <=> state[q] = "confirmed"
    BY <1>2
  <2>2. stamped \subseteq Payments
    BY DEF Inv
  <2> QED
    BY <1>2, <1>4, <2>1, <2>2 DEF Inv, BookedIsConfirmed
<1>6. WritersKnow' /\ BridgesKnow'
  BY <1>2, <1>3, <1>4 DEF Inv, WritersKnow, BridgesKnow, At, Job
<1> QED
  BY <1>1, <1>4, <1>5, <1>6 DEF Inv

LEMMA OtherInv ==
  ASSUME Inv, NEW h \in Handlers,
         \/ \E p \in Payments, new \in {"pending"} \cup Outcomes : Deliver(h, p, new)
         \/ ReadState(h) \/ Bridge(h) \/ Die(h)
  PROVE  Inv'
<1>1. CASE \E p \in Payments, new \in {"pending"} \cup Outcomes : Deliver(h, p, new)
  BY <1>1, IdleIsAJob DEF Inv, Deliver, Job, Phases, BookedIsConfirmed, WritersKnow, BridgesKnow, At
<1>2. CASE ReadState(h)
  BY <1>2, IdleIsAJob DEF Inv, ReadState, Transitions, Job, Phases, BookedIsConfirmed,
                          WritersKnow, BridgesKnow, At, Idle
<1>3. CASE Bridge(h)
  BY <1>3, IdleIsAJob DEF Inv, Bridge, Recorded, Swallowed, Job, Phases, BookedIsConfirmed,
                          WritersKnow, BridgesKnow, At, Idle
<1>4. CASE Die(h)
  BY <1>4, IdleIsAJob DEF Inv, Die, Job, Phases, BookedIsConfirmed, WritersKnow, BridgesKnow, At, Idle
<1> QED
  BY <1>1, <1>2, <1>3, <1>4

LEMMA NextInv == Inv /\ [Next]_vars => Inv'
<1> SUFFICES ASSUME Inv, [Next]_vars PROVE Inv'
  OBVIOUS
<1>1. CASE Next
  BY <1>1, WriteInv, RecordInv, OtherInv DEF Next, Step
<1>2. CASE UNCHANGED vars
  BY <1>2 DEF vars, Inv, BookedIsConfirmed, WritersKnow, BridgesKnow, At
<1> QED
  BY <1>1, <1>2

LEMMA InvHolds == Spec => []Inv
BY InitInv, NextInv, PTL DEF Spec

(* Revenue is booked only for payments that were confirmed and still are,   *)
(* unless two reports of one overlapped: blockchain/tracer.py's update_state*)
(* and _on_confirmed, for any number of reports and handlers.               *)
THEOREM BookedAreConfirmed == Spec => []BookedIsConfirmed
<1>1. Inv => BookedIsConfirmed
  BY DEF Inv
<1> QED
  BY <1>1, InvHolds, PTL

(* A settled payment changes only by a report that overlapped the one which *)
(* settled it ("never backwards", blockchain/tracer.py).                    *)
THEOREM SettledPaymentsStay == Spec => SettledStays
<1>1. ASSUME Inv, [Next]_vars, NEW p \in Payments \ contested', state[p] \in Outcomes
      PROVE  state'[p] = state[p]
  <2>1. CASE \E h \in Handlers : WriteState(h)
    <3>1. PICK h \in Handlers : WriteState(h)
      BY <2>1
    <3>2. At(h, "write") /\ p \notin contested /\ state' = [state EXCEPT ![job[h].tx] = job[h].new]
      BY <1>1, <3>1 DEF WriteState
    <3>3. job[h].tx # p
      BY <1>1, <3>2 DEF Inv, WritersKnow, Outcomes
    <3> QED
      BY <3>2, <3>3, <1>1 DEF Inv, BookedIsConfirmed
  <2>2. CASE \E h \in Handlers : Record(h)
    BY <1>1, <2>2 DEF Record, Outcomes, Inv, BookedIsConfirmed
  <2>3. CASE ~(\E h \in Handlers : WriteState(h) \/ Record(h))
    BY <1>1, <2>3 DEF Next, Step, Deliver, ReadState, Bridge, Die, vars
  <2> QED
    BY <2>1, <2>2, <2>3
<1>2. Inv /\ [Next]_vars => [\A p \in Payments \ contested' : state[p] \in Outcomes => state'[p] = state[p]]_vars
  BY <1>1
<1> QED
  BY <1>2, InvHolds, PTL DEF Spec, SettledStays
==============================================================================
