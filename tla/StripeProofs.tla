---------------------------- MODULE StripeProofs ----------------------------
(***************************************************************************)
(* Theorems about StripeWebhooks, for every set of events and any number   *)
(* of overlapping deliveries, crashes and repeats.                         *)
(***************************************************************************)
EXTENDS StripeWebhooks, FiniteSetTheorems, TLAPS

Recorded(u) == subs[u].sub # Nothing

(* What a handler knows at each step.  A bonus is granted only after the    *)
(* first allotment is in the ledger; a crediting activation has recorded    *)
(* its subscription; who writes over a row found one, which stays recorded. *)
TaskOK(t) ==
  /\ t.step = "check" => t.event.kind \in Posting
  /\ t.step = "find" => t.event.kind \in {"refund", "dispute"}
  /\ t.step = "fetch" => t.event.kind \in {"activation", "dispute", "failed"}
  /\ t.step \in {"look", "write"} => t.event.kind \in {"activation", "invoice"} \cup Lifecycle
  /\ t.step # "idle" /\ t.event.kind = "activation" => t.user = t.event.user
  /\ t.step # "idle" /\ t.bonus =>
       /\ t.event.kind = "activation"
       /\ t.step \in {"check", "open", "credit", "recheck"}
       /\ rows[Key(t.event)] = 1
  /\ t.step \in {"open", "credit", "recheck"} /\ t.event.kind = "activation"
       => Recorded(t.event.user)
  /\ t.step = "write" =>
       \/ t.was = NoSub /\ t.event.kind = "activation"
       \/ t.was.sub # Nothing /\ Recorded(t.user)

OnceEach  == \A k \in Keys : rows[k] <= 1
SubsOK    == \A u \in Users : subs[u].sub = Nothing => subs[u] = NoSub
AllRecorded ==
  \A e \in Events : e.kind = "activation" /\ Posted(Key(e)) => Recorded(e.user)

Inv == /\ TypeOK
       /\ OnceEach /\ SubsOK /\ AckedIsCredited /\ AllRecorded
       /\ \A w \in Workers : TaskOK(task[w])

(* The ids, keys and amounts of an event have their types.                  *)
LEMMA KeyTypes ==
  ASSUME NEW e \in Events
  PROVE  /\ Key(e) \in Keys /\ BonusKey(e) \in Keys /\ PurchaseKey(e) \in Keys
         /\ e.user \in Users /\ e.of \in Subs /\ e.of # Nothing
         /\ e.tokens \in Nat /\ e.bonus \in Nat /\ e.status \in Reported
         /\ e.kind \in Posting \cup Lifecycle
<1>1. e.user \in Users /\ e.of \in Subs /\ e.pays \in Ids /\ e.of \in Ids
  BY DEF Users, Subs, Ids
<1>2. LedgerType(e.kind) \in {"purchase", "subscription", "refund", "grant"}
  BY DEF LedgerType
<1>3. Event(e) /\ e.of # Nothing
  BY EventsAssumption, NothingAssumption
<1> QED
  BY <1>1, <1>2, <1>3 DEF Key, BonusKey, PurchaseKey, Keys, Event

(* A delivery starts well typed.                                            *)
LEMMA FreshType ==
  ASSUME NEW e \in Events, NEW step \in Steps
  PROVE  Fresh(e, step) \in Task
<1>1. NoSub \in SubRow
  BY DEF NoSub, SubRow
<1>2. e.user \in Users
  BY KeyTypes
<1> QED
  BY <1>1, <1>2 DEF Fresh, Task, NoWallet

(* An idle worker is well typed and knows nothing.                          *)
LEMMA IdleType == Idle \in Task /\ Idle.step = "idle" /\ TaskOK(Idle)
<1>1. (CHOOSE e \in Events : TRUE) \in Events
  BY EventsAssumption
<1>2. "idle" \in Steps
  BY DEF Steps
<1>3. Idle \in Task
  BY <1>1, <1>2, FreshType DEF Idle
<1>4. Idle.step = "idle"
  BY DEF Idle, Fresh
<1> QED
  BY <1>3, <1>4 DEF TaskOK

(* The invariant holds before any event is sent.                            *)
LEMMA InitInv == Init => Inv
<1> SUFFICES ASSUME Init PROVE Inv
  OBVIOUS
<1>1. NoSub \in SubRow
  BY DEF NoSub, SubRow
<1>2. TypeOK
  BY <1>1, IdleType, BoundsAssumption DEF Init, TypeOK, NoWallet
<1>3. OnceEach
  BY DEF Init, OnceEach
<1>4. SubsOK /\ AckedIsCredited
  BY DEF Init, SubsOK, AckedIsCredited
<1>5. AllRecorded
  BY KeyTypes DEF Init, AllRecorded, Posted
<1>6. \A w \in Workers : TaskOK(task[w])
  BY IdleType DEF Init
<1> QED
  BY <1>2, <1>3, <1>4, <1>5, <1>6 DEF Inv

(* A task's knowledge survives whatever only adds rows and records.         *)
LEMMA KnowledgeLasts ==
  ASSUME TypeOK, TypeOK', OnceEach',
         \A k \in Keys : rows[k] = 1 => rows'[k] = 1,
         \A u \in Users : Recorded(u) => Recorded(u)',
         NEW t \in Task, TaskOK(t)
  PROVE  TaskOK(t)'
<1>1. t.event \in Events /\ t.user \in Users
  BY DEF Task
<1>2. Key(t.event) \in Keys /\ t.event.user \in Users
  BY <1>1, KeyTypes
<1> QED
  BY <1>1, <1>2 DEF TaskOK

(* The pattern of most steps: one worker moves on, nothing else changes,    *)
(* and an event is answered only if it need not be, or is, credited.        *)
LEMMA OneWorkerMoves ==
  ASSUME Inv, NEW w \in Workers, NEW t \in Task, TaskOK(t),
         t.step # "idle" => t.event \in sent,
         task' = [task EXCEPT ![w] = t],
         UNCHANGED <<sent, subs, purch, rows, moved, clobbered>>,
         faults' \in Nat, repeats' \in Nat,
         \/ acked' = acked
         \/ /\ acked' = acked \cup {task[w].event} /\ task[w].step # "idle"
            /\ task[w].event.kind \in PaidKinds => rows[Key(task[w].event)] = 1
  PROVE  Inv'
<1>1. task' \in [Workers -> Task] /\ \A x \in Workers : task'[x] = IF x = w THEN t ELSE task[x]
  BY DEF Inv, TypeOK
<1>2. acked' \in SUBSET sent'
  BY DEF Inv, TypeOK
<1>3. TypeOK'
  BY <1>1, <1>2 DEF Inv, TypeOK
<1>4. OnceEach' /\ SubsOK' /\ AllRecorded'
  BY DEF Inv, OnceEach, SubsOK, AllRecorded, Posted, Recorded
<1>5. AckedIsCredited'
  BY DEF Inv, AckedIsCredited, Paying
<1>6. ASSUME NEW x \in Workers PROVE TaskOK(task[x])'
  <2>1. rows' = rows /\ subs' = subs
    OBVIOUS
  <2>2. CASE x = w
    BY <1>1, <2>1, <2>2 DEF TaskOK, Recorded
  <2>3. CASE x # w
    <3>1. TaskOK(task[x]) /\ task'[x] = task[x]
      BY <1>1, <2>3 DEF Inv
    <3> QED
      BY <2>1, <3>1 DEF TaskOK, Recorded
  <2> QED
    BY <2>2, <2>3
<1> QED
  BY <1>3, <1>4, <1>5, <1>6 DEF Inv

(* The steps a handler goes to are steps.                                   *)
LEMMA StepsTypes ==
  \A x \in {"idle", "fetch", "check", "find", "look", "write", "open", "credit", "recheck"} :
    x \in Steps
  BY DEF Steps

(* What the invariant says of one worker's task.                            *)
LEMMA TaskTypes ==
  ASSUME Inv, NEW w \in Workers
  PROVE  /\ task[w] \in Task /\ TaskOK(task[w])
         /\ task[w].event \in Events /\ task[w].user \in Users
         /\ task[w].step # "idle" => task[w].event \in sent
         /\ CreditKey(task[w]) \in Keys
         /\ faults \in Nat /\ repeats \in Nat
<1>1. task[w] \in Task
  BY DEF Inv, TypeOK
<1>2. task[w].event \in Events /\ task[w].user \in Users
  BY <1>1 DEF Task
<1>3. CreditKey(task[w]) \in Keys
  BY <1>2, KeyTypes DEF CreditKey
<1> QED
  BY <1>1, <1>2, <1>3 DEF Inv, TypeOK

(* A worker that gives up or answers.                                       *)
LEMMA WorkerLeaves ==
  ASSUME Inv, NEW w \in Workers, task[w].step # "idle",
         UNCHANGED <<sent, subs, purch, rows, moved, repeats, clobbered>>, faults' \in Nat,
         \/ Abandon(w)
         \/ /\ Answer(w)
            /\ task[w].event.kind \in PaidKinds => rows[Key(task[w].event)] = 1
  PROVE  Inv'
<1>1. task' = [task EXCEPT ![w] = Idle]
  BY DEF Abandon, Answer
<1>2. repeats' \in Nat
  BY DEF Inv, TypeOK
<1>3. \/ acked' = acked
      \/ /\ acked' = acked \cup {task[w].event} /\ task[w].step # "idle"
         /\ task[w].event.kind \in PaidKinds => rows[Key(task[w].event)] = 1
  BY DEF Abandon, Answer
<1> HIDE DEF Inv
<1> QED
  BY <1>1, <1>2, <1>3, IdleType, OneWorkerMoves

(* A worker that goes on to a step it may be at.                            *)
LEMMA WorkerGoesOn ==
  ASSUME Inv, NEW w \in Workers, NEW step \in Steps \ {"idle"}, task[w].step # "idle",
         GoTo(w, step), TaskOK([task[w] EXCEPT !.step = step]),
         UNCHANGED <<sent, subs, purch, rows, moved, repeats, clobbered>>, faults' \in Nat
  PROVE  Inv'
<1> DEFINE t == [task[w] EXCEPT !.step = step]
<1>1. task[w] \in Task /\ task[w].event \in sent
  BY TaskTypes
<1>2. t \in Task /\ t.event \in sent
  BY <1>1 DEF Task
<1>3. task' = [task EXCEPT ![w] = t] /\ acked' = acked
  BY <1>1 DEF GoTo, Inv, TypeOK
<1>4. repeats' \in Nat
  BY DEF Inv, TypeOK
<1> HIDE DEF t, Inv
<1>5. TaskOK(t)
  BY DEF t
<1> QED
  BY <1>2, <1>3, <1>4, <1>5, OneWorkerMoves

------------------------------------------------------------------------------
(* A posted key of a task settles its event.                                *)
LEMMA PostedSettles ==
  ASSUME Inv, NEW w \in Workers, task[w].step # "idle", Posted(CreditKey(task[w]))
  PROVE  task[w].event.kind \in PaidKinds => rows[Key(task[w].event)] = 1
<1>1. task[w].event \in Events /\ TaskOK(task[w]) /\ CreditKey(task[w]) \in Keys
  BY TaskTypes
<1>2. CASE task[w].bonus
  BY <1>1, <1>2 DEF TaskOK
<1>3. CASE ~task[w].bonus
  <2>1. CreditKey(task[w]) = Key(task[w].event)
    BY <1>3 DEF CreditKey
  <2>2. rows[CreditKey(task[w])] \in Nat /\ rows[CreditKey(task[w])] <= 1
    BY <1>1 DEF Inv, TypeOK, OnceEach
  <2> QED
    BY <2>1, <2>2 DEF Posted
<1> QED
  BY <1>2, <1>3

(* Stripe emits an event.                                                   *)
LEMMA SendInv ==
  ASSUME Inv, NEW e \in Events, Send(e)
  PROVE  Inv'
<1>1. TypeOK'
  BY DEF Inv, TypeOK, Send
<1>2. UNCHANGED <<acked, subs, rows, task>>
  BY DEF Send
<1>3. \A w \in Workers : TaskOK(task[w])'
  BY <1>2 DEF Inv, TaskOK, Recorded
<1> QED
  BY <1>1, <1>2, <1>3
  DEF Inv, OnceEach, SubsOK, AckedIsCredited, AllRecorded, Posted, Recorded

(* A delivery starts.                                                       *)
LEMMA DeliverInv ==
  ASSUME Inv, NEW w \in Workers, NEW e \in Events, Deliver(w, e)
  PROVE  Inv'
<1> DEFINE t == Fresh(e, FirstStep(e.kind))
<1>1. e.kind \in Posting \cup Lifecycle /\ FirstStep(e.kind) \in {"fetch", "look", "check"}
  BY KeyTypes DEF FirstStep
<1>2. t \in Task
  BY <1>1, StepsTypes, FreshType
<1>3. /\ t.step = FirstStep(e.kind) /\ t.event = e /\ t.user = e.user /\ t.bonus = FALSE
  BY DEF Fresh
<1>4. /\ task' = [task EXCEPT ![w] = t] /\ UNCHANGED <<sent, acked, subs, purch, rows, moved, faults, clobbered>>
      /\ e \in sent
  BY DEF Deliver
<1>5. repeats' \in Nat /\ faults' \in Nat
  BY <1>4 DEF Deliver, Inv, TypeOK
<1> HIDE DEF t
<1>6. TaskOK(t)
  BY <1>1, <1>3 DEF TaskOK, FirstStep, Posting, Lifecycle
<1> HIDE DEF Inv
<1> QED
  BY <1>2, <1>3, <1>4, <1>5, <1>6, OneWorkerMoves

(* _already_processed answers: stop, or go on to the next step.             *)
LEMMA CheckInv ==
  ASSUME Inv, NEW w \in Workers, Check(w)
  PROVE  Inv'
<1>1. /\ task[w].step = "check" /\ TaskOK(task[w]) /\ task[w].event \in Events /\ task[w] \in Task
      /\ task[w].event \in sent /\ faults' \in Nat /\ repeats' \in Nat
      /\ UNCHANGED <<sent, subs, purch, rows, moved, faults, repeats, clobbered>>
  BY TaskTypes DEF Check, At
<1>2. CASE Posted(CreditKey(task[w]))
  <2>1. Answer(w)
    BY <1>2 DEF Check
  <2> QED
    BY <1>1, <1>2, <2>1, PostedSettles, WorkerLeaves
<1>3. CASE ~Posted(CreditKey(task[w])) /\ AfterCheck(task[w]) = "open"
  <2> DEFINE due == IF task[w].bonus THEN task[w].event.bonus ELSE task[w].event.tokens
             t == [task[w] EXCEPT !.step = "open", !.due = due]
  <2>1. task' = [task EXCEPT ![w] = t] /\ acked' = acked
    BY <1>1, <1>3 DEF Check, Inv, TypeOK
  <2>2. due \in Nat
    BY <1>1, KeyTypes
  <2> HIDE DEF due
  <2>3. t \in Task /\ t.event = task[w].event /\ t.user = task[w].user /\ t.bonus = task[w].bonus
        /\ t.step = "open"
    BY <1>1, <2>2, StepsTypes DEF Task
  <2>4. task[w].event.kind = "activation" => task[w].bonus
    BY <1>3 DEF AfterCheck
  <2>5. task[w].event.kind = "activation" => Recorded(task[w].event.user)
    BY <1>1, <2>4 DEF TaskOK, Inv, AllRecorded, Posted
  <2> HIDE DEF t
  <2>6. TaskOK(t)
    BY <1>1, <2>3, <2>5 DEF TaskOK
  <2> HIDE DEF Inv
  <2> QED
    BY <1>1, <2>1, <2>3, <2>6, OneWorkerMoves
<1>4. CASE ~Posted(CreditKey(task[w])) /\ AfterCheck(task[w]) # "open"
  <2> DEFINE step == AfterCheck(task[w])
  <2>1. GoTo(w, step)
    BY <1>4 DEF Check
  <2>2. ~task[w].bonus /\ task[w].event.kind \in Posting \cup Lifecycle
    BY <1>1, <1>4, KeyTypes DEF AfterCheck
  <2>3. \/ step = "fetch" /\ task[w].event.kind = "activation"
        \/ step = "look" /\ task[w].event.kind = "invoice"
        \/ step = "find" /\ task[w].event.kind \in {"refund", "dispute"}
    <3>1. task[w].event.kind \in Posting
      BY <1>1 DEF TaskOK
    <3> QED
      BY <1>4, <2>2, <3>1 DEF AfterCheck, Posting
  <2> DEFINE t == [task[w] EXCEPT !.step = step]
  <2>4. t.step = step /\ t.event = task[w].event /\ t.user = task[w].user /\ t.bonus = task[w].bonus
    BY <1>1 DEF Task
  <2>5. TaskOK(t)
    <3> HIDE DEF t, step
    <3> QED
      BY <1>1, <2>2, <2>3, <2>4 DEF TaskOK, Lifecycle
  <2>6. step \in Steps \ {"idle"}
    BY <2>3, StepsTypes
  <2> HIDE DEF step, Inv
  <2> QED
    BY <1>1, <2>1, <2>5, <2>6, WorkerGoesOn
<1> QED
  BY <1>2, <1>3, <1>4

(* A call to Stripe that works.                                             *)
LEMMA FetchInv ==
  ASSUME Inv, NEW w \in Workers, Fetch(w)
  PROVE  Inv'
<1> DEFINE step == IF task[w].event.kind = "dispute" THEN "check" ELSE "look"
           t == [task[w] EXCEPT !.step = step]
<1>1. /\ task[w].step = "fetch" /\ TaskOK(task[w]) /\ task[w] \in Task
      /\ faults' \in Nat /\ UNCHANGED <<sent, subs, purch, rows, moved, repeats, clobbered>>
      /\ GoTo(w, step)
  BY TaskTypes DEF Fetch, At
<1>2. t.step = step /\ t.event = task[w].event /\ t.user = task[w].user /\ t.bonus = task[w].bonus
  BY <1>1 DEF Task
<1>3. step \in Steps \ {"idle"}
  BY StepsTypes
<1>4. TaskOK(t)
  BY <1>1, <1>2 DEF TaskOK, Lifecycle, Posting
<1> HIDE DEF step, Inv
<1> QED
  BY <1>1, <1>3, <1>4, WorkerGoesOn

(* A call to Stripe that fails: only an activation may not be answered.     *)
LEMMA UnreachableInv ==
  ASSUME Inv, NEW w \in Workers, Unreachable(w)
  PROVE  Inv'
<1>1. /\ task[w].step = "fetch" /\ TaskOK(task[w])
      /\ UNCHANGED <<sent, subs, purch, rows, moved, repeats, clobbered>>
  BY TaskTypes DEF Unreachable, At
<1>2. faults' \in Nat
  BY DEF Unreachable, Inv, TypeOK
<1>3. \/ Abandon(w)
      \/ Answer(w) /\ task[w].event.kind \notin PaidKinds
  BY <1>1 DEF Unreachable, TaskOK, PaidKinds
<1> HIDE DEF Inv
<1> QED
  BY <1>1, <1>2, <1>3, WorkerLeaves

(* A claw-back looks for its purchase.                                      *)
LEMMA FindInv ==
  ASSUME Inv, NEW w \in Workers, Find(w)
  PROVE  Inv'
<1> DEFINE e == task[w].event
           t == [task[w] EXCEPT !.step = "open", !.due = Share(e)]
<1>1. /\ task[w].step = "find" /\ TaskOK(task[w]) /\ task[w] \in Task /\ e \in sent
      /\ faults' \in Nat /\ repeats' \in Nat
      /\ UNCHANGED <<sent, subs, purch, rows, moved, faults, repeats, clobbered>>
  BY TaskTypes DEF Find, At
<1>2. e.kind \in {"refund", "dispute"}
  BY <1>1 DEF TaskOK
<1>3. CASE Answer(w)
  BY <1>1, <1>2, <1>3, WorkerLeaves DEF PaidKinds
<1>4. CASE ~Answer(w)
  <2>1. /\ task' = [task EXCEPT ![w] = t] /\ acked' = acked
        /\ Posted(PurchaseKey(e)) /\ Share(e) > 0
    BY <1>1, <1>4 DEF Find, Inv, TypeOK
  <2>2. Share(e) \in Nat
    <3>1. moved[PurchaseKey(e)] \in Nat /\ e.tokens \in Nat
      BY TaskTypes, KeyTypes DEF Inv, TypeOK
    <3>2. moved[PurchaseKey(e)] * e.tokens \in Nat
      BY <3>1
    <3>3. Share(e) \in Int
      BY <3>2, PartsAssumption DEF Share
    <3> QED
      BY <2>1, <3>3
  <2>3. t \in Task /\ t.step = "open" /\ t.event = e /\ t.user = task[w].user /\ t.bonus = task[w].bonus
    BY <1>1, <2>2, StepsTypes DEF Task
  <2>4. TaskOK(t)
    <3> HIDE DEF t, e
    <3> QED
      BY <1>1, <1>2, <2>3 DEF TaskOK, e
  <2> HIDE DEF Inv, t
  <2> QED
    BY <1>1, <2>1, <2>3, <2>4, OneWorkerMoves
<1> QED
  BY <1>3, <1>4

(* The subscription row is read.                                            *)
LEMMA LookInv ==
  ASSUME Inv, NEW w \in Workers, Look(w)
  PROVE  Inv'
<1> DEFINE e == task[w].event
<1>1. /\ task[w].step = "look" /\ TaskOK(task[w]) /\ task[w] \in Task /\ e \in sent /\ e \in Events
      /\ faults' \in Nat /\ repeats' \in Nat
      /\ UNCHANGED <<sent, subs, purch, rows, moved, faults, repeats, clobbered>>
  BY TaskTypes DEF Look, At
<1>2. e.kind \in {"activation", "invoice"} \cup Lifecycle
  BY <1>1 DEF TaskOK
<1>3. \A u \in Users : subs[u] \in SubRow
  BY DEF Inv, TypeOK
<1>4. CASE Answer(w) /\ e.kind # "activation"
  BY <1>1, <1>2, <1>4, WorkerLeaves DEF PaidKinds, Lifecycle
<1>5. ASSUME NEW u \in Users,
             task' = [task EXCEPT ![w] = [task[w] EXCEPT !.step = "write", !.user = u, !.was = subs[u]]],
             acked' = acked,
             \/ e.kind = "activation" /\ u = e.user
             \/ e.kind # "activation" /\ subs[u].sub # Nothing
      PROVE  Inv'
  <2> DEFINE t == [task[w] EXCEPT !.step = "write", !.user = u, !.was = subs[u]]
  <2>1. /\ t \in Task /\ t.step = "write" /\ t.event = e /\ t.user = u /\ t.bonus = task[w].bonus
        /\ t.was = subs[u]
    BY <1>1, <1>3, <1>5, StepsTypes DEF Task
  <2>2. subs[u].sub = Nothing => subs[u] = NoSub
    BY <1>5 DEF Inv, SubsOK
  <2> HIDE DEF t, e
  <2>3. TaskOK(t)
    BY <1>1, <1>2, <1>5, <2>1, <2>2 DEF TaskOK, e, Recorded
  <2>4. task' = [task EXCEPT ![w] = t]
    BY <1>5 DEF t
  <2> HIDE DEF Inv
  <2> QED
    BY <1>1, <1>5, <2>1, <2>3, <2>4, OneWorkerMoves DEF e
<1>6. CASE e.kind = "activation"
  <2>1. e.user \in Users /\ task[w].user = e.user
    BY <1>1, <1>6, KeyTypes DEF TaskOK
  <2>2. [task[w] EXCEPT !.step = "write", !.was = subs[e.user]]
          = [task[w] EXCEPT !.step = "write", !.user = e.user, !.was = subs[e.user]]
    BY <1>1, <2>1 DEF Task
  <2>3. /\ task' = [task EXCEPT ![w] = [task[w] EXCEPT !.step = "write", !.was = subs[e.user]]]
        /\ acked' = acked
    BY <1>1, <1>6 DEF Look, Inv, TypeOK
  <2> QED
    BY <1>5, <1>6, <2>1, <2>2, <2>3
<1>7. CASE e.kind # "activation" /\ ~Answer(w)
  <2>1. PICK u \in Users :
          /\ subs[u].sub = e.of
          /\ task' = [task EXCEPT ![w].step = "write", ![w].user = u, ![w].was = subs[u]]
    BY <1>7 DEF Look
  <2>2. task' = [task EXCEPT ![w] = [task[w] EXCEPT !.step = "write", !.user = u, !.was = subs[u]]]
    BY <2>1 DEF Inv, TypeOK
  <2>3. acked' = acked /\ subs[u].sub # Nothing
    BY <1>1, <1>7, <2>1, KeyTypes DEF Look
  <2> QED
    BY <1>5, <1>7, <2>2, <2>3
<1> QED
  BY <1>4, <1>6, <1>7

(* A handler gives up: a crash, or a collision of two first activations.    *)
LEMMA WriteCollidesInv ==
  ASSUME Inv, NEW w \in Workers, WriteCollides(w) \/ Crash(w)
  PROVE  Inv'
<1>1. task[w].step # "idle" /\ Abandon(w) /\ UNCHANGED <<sent, subs, purch, rows, moved, repeats, clobbered>>
  BY DEF WriteCollides, Crash, At
<1>2. faults' \in Nat
  BY DEF WriteCollides, Crash, Inv, TypeOK
<1> HIDE DEF Inv
<1> QED
  BY <1>1, <1>2, WorkerLeaves

(* A crediting session reads the wallet.                                    *)
LEMMA OpenInv ==
  ASSUME Inv, NEW w \in Workers, Open(w)
  PROVE  Inv'
<1> DEFINE t == [task[w] EXCEPT !.step = "credit", !.seen = purch[task[w].user]]
<1>1. /\ task[w].step = "open" /\ TaskOK(task[w]) /\ task[w] \in Task /\ task[w].event \in sent
      /\ faults' \in Nat /\ repeats' \in Nat
      /\ UNCHANGED <<sent, acked, subs, purch, rows, moved, faults, repeats, clobbered>>
  BY TaskTypes DEF Open, At
<1>2. purch[task[w].user] \in Nat \cup {NoWallet}
  BY TaskTypes DEF Inv, TypeOK
<1>3. /\ t \in Task /\ t.step = "credit" /\ t.event = task[w].event /\ t.user = task[w].user
      /\ t.bonus = task[w].bonus
  BY <1>1, <1>2, StepsTypes DEF Task
<1>4. task' = [task EXCEPT ![w] = t]
  BY <1>1 DEF Open, Inv, TypeOK
<1> HIDE DEF t
<1>5. TaskOK(t)
  BY <1>1, <1>3 DEF TaskOK
<1> HIDE DEF Inv
<1> QED
  BY <1>1, <1>3, <1>4, <1>5, OneWorkerMoves

(* A credit violates a unique index.                                        *)
LEMMA CollideInv ==
  ASSUME Inv, NEW w \in Workers, Collide(w)
  PROVE  Inv'
<1> DEFINE t == [task[w] EXCEPT !.step = "recheck"]
<1>1. /\ task[w].step = "credit" /\ TaskOK(task[w]) /\ task[w] \in Task /\ faults' \in Nat
      /\ GoTo(w, "recheck") /\ UNCHANGED <<sent, subs, purch, rows, moved, repeats, clobbered>>
  BY TaskTypes DEF Collide, At
<1>2. /\ t.step = "recheck" /\ t.event = task[w].event /\ t.user = task[w].user
      /\ t.bonus = task[w].bonus
  BY <1>1 DEF Task
<1> HIDE DEF t
<1>3. TaskOK(t)
  BY <1>1, <1>2 DEF TaskOK
<1>4. "recheck" \in Steps \ {"idle"}
  BY StepsTypes
<1> HIDE DEF Inv
<1> QED
  BY <1>1, <1>3, <1>4, WorkerGoesOn DEF t

(* A collision counts as a duplicate only when the ledger row is there.     *)
LEMMA RecheckInv ==
  ASSUME Inv, NEW w \in Workers, Recheck(w)
  PROVE  Inv'
<1>1. /\ task[w].step = "recheck" /\ faults' \in Nat
      /\ UNCHANGED <<sent, subs, purch, rows, moved, repeats, clobbered>>
  BY TaskTypes DEF Recheck, At
<1>2. Abandon(w) \/ (Answer(w) /\ Posted(CreditKey(task[w])))
  BY DEF Recheck
<1> HIDE DEF Inv
<1> QED
  BY <1>1, <1>2, PostedSettles, WorkerLeaves

(* After its write a handler credits, or is done with an event nobody paid. *)
LEMMA FinishShape ==
  ASSUME Inv, NEW w \in Workers, task[w].step = "write", Finish(w)
  PROVE  /\ AfterWrite(task[w]) \in Task
         /\ task' = [task EXCEPT ![w] = AfterWrite(task[w])]
         /\ \/ /\ task[w].event.kind \in {"activation", "invoice"}
               /\ AfterWrite(task[w]).step = "open" /\ AfterWrite(task[w]).event = task[w].event
               /\ AfterWrite(task[w]).user = task[w].user /\ AfterWrite(task[w]).bonus = task[w].bonus
               /\ acked' = acked
            \/ /\ task[w].event.kind \in Lifecycle
               /\ AfterWrite(task[w]) = Idle
               /\ acked' \in {acked, acked \cup {task[w].event}}
<1> DEFINE t == task[w]
<1>1. t \in Task /\ TaskOK(t) /\ t.event \in Events
  BY TaskTypes
<1>2. t.event.kind \in {"activation", "invoice"} \cup Lifecycle
  BY <1>1 DEF TaskOK
<1>3. t.event.tokens \in Nat /\ t.was.tokens \in Nat
  BY <1>1, KeyTypes DEF Task, SubRow
<1>4. CASE t.event.kind \in {"activation", "invoice"}
  <2> DEFINE due == IF t.event.kind = "activation" THEN t.event.tokens ELSE t.was.tokens
             n   == [t EXCEPT !.step = "open", !.due = due]
  <2>1. AfterWrite(t) = n
    BY <1>4 DEF AfterWrite
  <2>2. n \in Task /\ n.step = "open" /\ n.event = t.event /\ n.user = t.user /\ n.bonus = t.bonus
    BY <1>1, <1>3, StepsTypes DEF Task
  <2>3. n # Idle
    BY <2>2, IdleType
  <2> HIDE DEF n
  <2> QED
    BY <1>4, <2>1, <2>2, <2>3 DEF Finish
<1>5. CASE t.event.kind \in Lifecycle
  BY <1>5, IdleType DEF AfterWrite, Finish, Lifecycle
<1> QED
  BY <1>2, <1>4, <1>5

(* An invoice goes on without the period of its subscription.               *)
LEMMA WriteUnfetchedInv ==
  ASSUME Inv, NEW w \in Workers, WriteUnfetched(w)
  PROVE  Inv'
<1> DEFINE t == AfterWrite(task[w])
<1>1. /\ task[w].step = "write" /\ Finish(w) /\ task[w].event.kind = "invoice"
      /\ UNCHANGED <<sent, subs, purch, rows, moved, repeats, clobbered>>
      /\ TaskOK(task[w]) /\ task[w].event \in sent
  BY TaskTypes DEF WriteUnfetched, At
<1>2. faults' \in Nat /\ repeats' \in Nat
  BY DEF WriteUnfetched, Inv, TypeOK
<1>3. /\ t \in Task /\ task' = [task EXCEPT ![w] = t] /\ acked' = acked
      /\ t.step = "open" /\ t.event = task[w].event /\ t.user = task[w].user /\ t.bonus = task[w].bonus
  BY <1>1, FinishShape DEF Lifecycle
<1> HIDE DEF t
<1>4. TaskOK(t)
  BY <1>1, <1>3 DEF TaskOK
<1> HIDE DEF Inv
<1> QED
  BY <1>1, <1>2, <1>3, <1>4, OneWorkerMoves

(* A write leaves a recorded subscription, whichever columns it changes.    *)
LEMMA WriteRecords ==
  ASSUME Inv, NEW w \in Workers, Write(w)
  PROVE  LET t == task[w]
             m == MergeSub(t.was, Assigned(t.event, t.was), subs[t.user])
         IN  m \in SubRow /\ m.sub # Nothing
<1> DEFINE t == task[w]
           is == Assigned(t.event, t.was)
           now == subs[t.user]
           m == MergeSub(t.was, is, now)
<1>1. t \in Task /\ TaskOK(t) /\ t.event \in Events /\ t.user \in Users /\ t.step = "write"
  BY TaskTypes DEF Write, At
<1>2. now \in SubRow /\ t.was \in SubRow
  BY <1>1 DEF Inv, TypeOK, Task
<1>3. /\ t.event.of \in Subs /\ t.event.of # Nothing /\ t.event.tokens \in Nat
      /\ t.event.status \in Reported
  BY <1>1, KeyTypes
<1>4. is \in SubRow /\ (is.sub = t.was.sub \/ is.sub = t.event.of)
  BY <1>2, <1>3 DEF Assigned, SubRow, Statuses, Reported
<1>5. /\ t.was = NoSub => t.event.kind = "activation" /\ now = NoSub
      /\ t.was # NoSub => t.was.sub # Nothing /\ now.sub # Nothing
  BY <1>1 DEF TaskOK, Write, Recorded, NoSub
<1> HIDE DEF t, is, now
<1>6. m \in SubRow
  BY <1>2, <1>4 DEF MergeSub, Written, SubRow
<1>7. m.sub # Nothing
  <2>1. m.sub = IF is.sub # t.was.sub THEN is.sub ELSE now.sub
    BY DEF MergeSub, Written
  <2>2. CASE t.was = NoSub
    <3>1. is.sub = t.event.of /\ t.was.sub = Nothing
      BY <1>5, <2>2 DEF is, Assigned, NoSub
    <3> QED
      BY <1>3, <2>1, <3>1
  <2>3. CASE t.was # NoSub
    BY <1>3, <1>4, <1>5, <2>1, <2>3
  <2> QED
    BY <2>2, <2>3
<1> QED
  BY <1>6, <1>7 DEF t, is, now

(* The pattern of the two steps that change the tables.                     *)
LEMMA TablesMove ==
  ASSUME Inv, NEW w \in Workers, NEW t \in Task, TaskOK(t)',
         task' = [task EXCEPT ![w] = t],
         TypeOK', OnceEach', SubsOK', AllRecorded', AckedIsCredited',
         \A k \in Keys : rows[k] = 1 => rows'[k] = 1,
         \A u \in Users : Recorded(u) => Recorded(u)'
  PROVE  Inv'
<1>1. \A x \in Workers : task'[x] = IF x = w THEN t ELSE task[x]
  BY DEF Inv, TypeOK
<1>2. ASSUME NEW x \in Workers PROVE TaskOK(task[x])'
  <2>1. CASE x = w
    BY <1>1, <2>1 DEF TaskOK, Recorded
  <2>2. CASE x # w
    <3>1. TaskOK(task[x]) /\ task'[x] = task[x] /\ task[x] \in Task /\ TypeOK
      BY <1>1, <2>2 DEF Inv, TypeOK
    <3>2. PICK y \in Task : y = task[x] /\ TaskOK(y)
      BY <3>1
    <3>3. TaskOK(y)'
      BY <3>1, <3>2, KnowledgeLasts
    <3>4. y = task'[x]
      BY <3>1, <3>2
    <3> QED
      BY <3>3, <3>4 DEF TaskOK, Recorded
  <2> QED
    BY <2>1, <2>2
<1> QED
  BY <1>2 DEF Inv

(* The subscription row is written.                                         *)
LEMMA WriteInv ==
  ASSUME Inv, NEW w \in Workers, Write(w)
  PROVE  Inv'
<1>1. PICK old \in Task : old = task[w]
  BY TaskTypes DEF Write, At
<1>2. /\ old.step = "write" /\ TaskOK(old) /\ old.event \in sent /\ old.user \in Users
      /\ old.event \in Events /\ Finish(w)
      /\ UNCHANGED <<sent, purch, rows, moved, faults, repeats, clobbered>>
      /\ subs' = [subs EXCEPT ![old.user] =
                    MergeSub(old.was, Assigned(old.event, old.was), subs[old.user])]
  BY <1>1, TaskTypes DEF Write, At
<1>3. PICK m \in SubRow :
        /\ m = MergeSub(old.was, Assigned(old.event, old.was), subs[old.user])
        /\ m.sub # Nothing
  BY <1>1, WriteRecords
<1>4. /\ subs' \in [Users -> SubRow]
      /\ \A u \in Users : subs'[u] = IF u = old.user THEN m ELSE subs[u]
  BY <1>2, <1>3 DEF Inv, TypeOK
<1>5. (\A u \in Users : Recorded(u) => Recorded(u)') /\ subs'[old.user].sub # Nothing
  BY <1>2, <1>3, <1>4 DEF Recorded
<1>6. PICK t \in Task :
        /\ task' = [task EXCEPT ![w] = t]
        /\ \/ /\ old.event.kind \in {"activation", "invoice"}
              /\ t.step = "open" /\ t.event = old.event
              /\ t.user = old.user /\ t.bonus = old.bonus
              /\ acked' = acked
           \/ /\ old.event.kind \in Lifecycle
              /\ t = Idle
              /\ acked' \in {acked, acked \cup {old.event}}
  BY <1>1, <1>2, FinishShape
<1>7. TaskOK(t)'
  <2>1. CASE t = Idle
    BY <2>1, IdleType DEF TaskOK
  <2>2. CASE /\ t.step = "open" /\ t.event = old.event /\ t.user = old.user /\ t.bonus = old.bonus
    BY <1>2, <1>5, <2>2 DEF TaskOK, Recorded
  <2> QED
    BY <1>6, <2>1, <2>2
<1>8. TypeOK'
  <2>1. /\ task' \in [Workers -> Task]
        /\ \A x \in Workers : task'[x] = IF x = w THEN t ELSE task[x]
    BY <1>6 DEF Inv, TypeOK
  <2>2. acked' \in SUBSET sent
    BY <1>2, <1>6 DEF Inv, TypeOK
  <2>3. t.step # "idle" => t.event \in sent
    BY <1>2, <1>6, IdleType
  <2> QED
    BY <1>2, <1>4, <2>1, <2>2, <2>3 DEF Inv, TypeOK
<1>9. OnceEach'
  BY <1>2 DEF Inv, OnceEach
<1>10. SubsOK'
  BY <1>3, <1>4 DEF Inv, SubsOK
<1>11. AllRecorded'
  <2>1. ASSUME NEW e \in Events, e.kind = "activation", Posted(Key(e))'
        PROVE  Recorded(e.user)'
    BY <1>2, <1>5, <2>1, KeyTypes DEF Inv, AllRecorded, Posted
  <2> QED
    BY <2>1 DEF AllRecorded
<1>12. AckedIsCredited'
  BY <1>2, <1>6 DEF Inv, AckedIsCredited, Paying, PaidKinds, Lifecycle
<1>13. \A k \in Keys : rows[k] = 1 => rows'[k] = 1
  BY <1>2
<1> HIDE DEF Inv
<1> QED
  BY <1>5, <1>6, <1>7, <1>8, <1>9, <1>10, <1>11, <1>12, <1>13, TablesMove

(* What a credit logs and leaves in the purchased bucket is not negative.   *)
LEMMA CreditAmounts ==
  ASSUME NEW t \in Task
  PROVE  Logged(t) \in Nat /\ Bucket(t) \in Nat
<1>1. t.due \in Nat /\ t.seen \in Nat \cup {NoWallet}
  BY DEF Task
<1>2. Held(t) \in Nat
  BY <1>1 DEF Held
<1>3. Taken(t) \in Nat /\ Taken(t) <= Held(t)
  BY <1>1, <1>2 DEF Taken
<1> HIDE DEF NoWallet
<1> QED
  BY <1>1, <1>2, <1>3 DEF Logged, Bucket

(* A credit commits: the ledger row, the wallet and the answer.             *)
LEMMA CreditInv ==
  ASSUME Inv, NEW w \in Workers, Credit(w)
  PROVE  Inv'
<1> PICK old \in Task : old = task[w]
  BY TaskTypes DEF Credit, At
<1> PICK k \in Keys : k = CreditKey(old)
  BY TaskTypes DEF Credit, At
<1> PICK t : t = IF BonusDue(old) THEN [old EXCEPT !.step = "check", !.bonus = TRUE] ELSE Idle
  OBVIOUS
<1>1. /\ old.step = "credit" /\ TaskOK(old) /\ old \in Task /\ old.event \in sent
      /\ old.user \in Users /\ old.event \in Events /\ k \in Keys
      /\ UNCHANGED <<sent, subs, faults, repeats>>
      /\ ~Posted(k)
  BY TaskTypes DEF Credit, At, Collides
<1>2. rows[k] = 0
  BY <1>1 DEF Inv, TypeOK, Posted
<1>3. /\ rows' \in [Keys -> Nat]
      /\ \A x \in Keys : rows'[x] = IF x = k THEN 1 ELSE rows[x]
  BY <1>1, <1>2 DEF Credit, Inv, TypeOK
<1>4. Key(old.event) \in Keys /\ old.event.kind \in Posting \cup Lifecycle
  BY <1>1, KeyTypes
<1>5. rows'[Key(old.event)] = 1
  <2>1. CASE old.bonus
    BY <1>1, <1>3, <1>4, <2>1 DEF TaskOK
  <2>2. CASE ~old.bonus
    BY <1>1, <1>3, <2>2 DEF CreditKey
  <2> QED
    BY <2>1, <2>2
<1>6. task' = [task EXCEPT ![w] = t] /\ (acked' = acked \/ acked' = acked \cup {old.event})
  <2>1. CASE BonusDue(old)
    BY <1>1, <2>1 DEF Credit, Inv, TypeOK
  <2>2. CASE ~BonusDue(old)
    BY <2>2 DEF Credit, Answer
  <2> QED
    BY <2>1, <2>2
<1>7. t \in Task /\ (t.step # "idle" => t.event \in sent)
  <2>1. [old EXCEPT !.step = "check", !.bonus = TRUE] \in Task
    BY <1>1, StepsTypes DEF Task
  <2>2. [old EXCEPT !.step = "check", !.bonus = TRUE].event = old.event
    BY <1>1 DEF Task
  <2> QED
    BY <1>1, <2>1, <2>2, IdleType
<1>8. TaskOK(t)'
  <2>1. CASE ~BonusDue(old)
    BY <2>1, IdleType DEF TaskOK
  <2>2. CASE BonusDue(old)
    <3>1. old.event.kind = "activation"
      BY <2>2 DEF BonusDue
    <3>2. /\ t.step = "check" /\ t.event = old.event /\ t.user = old.user /\ t.bonus = TRUE
      BY <1>1, <2>2 DEF Task
    <3> QED
      BY <1>1, <1>5, <3>1, <3>2 DEF TaskOK, Posting
  <2> QED
    BY <2>1, <2>2
<1>9. TypeOK'
  <2>1. /\ task' \in [Workers -> Task]
        /\ \A x \in Workers : task'[x] = IF x = w THEN t ELSE task[x]
    BY <1>6, <1>7 DEF Inv, TypeOK
  <2>2. acked' \in SUBSET sent
    BY <1>1, <1>6 DEF Inv, TypeOK
  <2>3. Logged(old) \in Nat /\ Bucket(old) \in Nat
    BY <1>1, CreditAmounts
  <2>4. moved' \in [Keys -> Nat]
    <3>1. moved' = [moved EXCEPT ![k] = moved[k] + Logged(old)] /\ moved \in [Keys -> Nat]
      BY DEF Credit, Inv, TypeOK
    <3> QED
      BY <1>1, <2>3, <3>1
  <2>5. purch' \in [Users -> Nat \cup {NoWallet}]
    BY <1>1, <2>3 DEF Credit, Inv, TypeOK
  <2>6. faults' \in Nat /\ repeats' \in Nat /\ subs' \in [Users -> SubRow] /\ sent' \in SUBSET Events
    BY <1>1 DEF Inv, TypeOK
  <2>7. \A x \in Workers : task'[x].step # "idle" => task'[x].event \in sent
    BY <1>7, <2>1 DEF Inv, TypeOK
  <2>8. clobbered' \in SUBSET Users
    BY <1>1 DEF Credit, Inv, TypeOK
  <2> QED
    BY <1>1, <1>3, <2>1, <2>2, <2>4, <2>5, <2>6, <2>7, <2>8 DEF TypeOK
<1>10. OnceEach'
  BY <1>3 DEF Inv, OnceEach
<1>11. SubsOK' /\ (\A u \in Users : Recorded(u) => Recorded(u)')
  BY <1>1 DEF Inv, SubsOK, Recorded
<1>12. AllRecorded'
  <2>1. ASSUME NEW e \in Events, e.kind = "activation", Posted(Key(e))'
        PROVE  Recorded(e.user)'
    <3>1. CASE Key(e) = k
      <4>1. ~old.bonus /\ k = Key(old.event)
        BY <2>1, <3>1 DEF CreditKey, BonusKey, Key, LedgerType
      <4>2. e.pays = old.event.pays /\ LedgerType(old.event.kind) = "subscription"
        BY <2>1, <3>1, <4>1 DEF Key, LedgerType
      <4>3. old.event.kind \in {"activation", "invoice"}
        BY <4>2 DEF LedgerType
      <4>4. e = old.event
        BY <1>1, <2>1, <4>2, <4>3, IdsAssumption
      <4>5. Recorded(old.event.user)
        BY <1>1, <2>1, <4>4 DEF TaskOK
      <4> QED
        BY <1>1, <4>4, <4>5 DEF Recorded
    <3>2. CASE Key(e) # k
      <4>1. Posted(Key(e))
        BY <1>3, <2>1, <3>2, KeyTypes DEF Posted
      <4> QED
        BY <1>1, <2>1, <4>1 DEF Inv, AllRecorded, Recorded
    <3> QED
      BY <3>1, <3>2
  <2> QED
    BY <2>1 DEF AllRecorded
<1>13. \A x \in Keys : rows[x] = 1 => rows'[x] = 1
  BY <1>3
<1>14. AckedIsCredited'
  <2>1. ASSUME NEW e \in acked', e \in Paying PROVE rows'[Key(e)] = 1
    <3>1. Key(e) \in Keys
      BY <2>1, KeyTypes DEF Paying
    <3> QED
      BY <1>5, <1>6, <1>13, <2>1, <3>1 DEF Inv, AckedIsCredited
  <2> QED
    BY <2>1 DEF AckedIsCredited, Paying
<1> HIDE DEF Inv
<1> QED
  BY <1>6, <1>7, <1>8, <1>9, <1>10, <1>11, <1>12, <1>13, <1>14, TablesMove
------------------------------------------------------------------------------
(* The invariant is inductive.                                              *)
LEMMA NextInv == Inv /\ [Next]_vars => Inv'
<1> SUFFICES ASSUME Inv, [Next]_vars PROVE Inv'
  OBVIOUS
<1>1. ASSUME NEW e \in Events, Send(e) PROVE Inv'
  BY <1>1, SendInv
<1>2. ASSUME NEW w \in Workers, NEW e \in Events, Deliver(w, e) PROVE Inv'
  BY <1>2, DeliverInv
<1>3. ASSUME NEW w \in Workers, Handle(w) PROVE Inv'
  BY <1>3, CheckInv, FetchInv, FindInv, LookInv, WriteInv, WriteCollidesInv, OpenInv,
     CreditInv, CollideInv, RecheckInv DEF Handle
<1>4. ASSUME NEW w \in Workers, Unreachable(w) \/ WriteUnfetched(w) \/ Crash(w) PROVE Inv'
  BY <1>4, UnreachableInv, WriteUnfetchedInv, WriteCollidesInv
<1>5. CASE UNCHANGED vars
  BY <1>5 DEF vars, Inv, TypeOK, OnceEach, SubsOK, AckedIsCredited, AllRecorded, Posted,
              Recorded, TaskOK
<1> QED
  BY <1>1, <1>2, <1>3, <1>4, <1>5 DEF Next

(* Every variable keeps its type: no claw-back makes a wallet negative.     *)
THEOREM WebhookTypes == Spec => []TypeOK
<1>1. Inv => TypeOK
  BY DEF Inv
<1> QED
  BY <1>1, InitInv, NextInv, PTL DEF Spec

(* A payment Stripe was told is settled has been credited exactly once,     *)
(* whatever overlaps, collides, crashes or is delivered again.              *)
THEOREM AckedPaymentsAreCredited == Spec => []AckedIsCredited
<1>1. Inv => AckedIsCredited
  BY DEF Inv
<1> QED
  BY <1>1, InitInv, NextInv, PTL DEF Spec

(* Nobody is credited a first allotment without a subscription on record.   *)
THEOREM CreditsAreRecorded == Spec => []CreditedIsRecorded
<1>1. Inv => CreditedIsRecorded
  BY DEF Inv, AllRecorded, CreditedIsRecorded, Recorded, NoSub
<1> QED
  BY <1>1, InitInv, NextInv, PTL DEF Spec
------------------------------------------------------------------------------
(* What one step does to the ledger and to the answers.                      *)

(* A key a first payment is credited under is that payment's own, for no     *)
(* other event has its id and type.                                          *)
LEMMA PaidKeyIsOwn ==
  ASSUME NEW e \in Events, NEW p \in Paying, e.kind \in Posting, Key(e) = Key(p)
  PROVE  e \in Paying
<1>1. p \in Events /\ p.kind \in PaidKinds /\ e.pays = p.pays /\ LedgerType(e.kind) = LedgerType(p.kind)
  BY DEF Paying, Key
<1>2. CASE p.kind = "activation"
  <2>1. e.kind \in {"activation", "invoice"}
    BY <1>1, <1>2 DEF LedgerType
  <2>2. e = p
    BY <1>1, <1>2, <2>1, IdsAssumption
  <2>3. QED
    BY <2>2
<1>3. CASE p.kind \in {"topup", "autotopup"}
  BY <1>1, <1>3 DEF LedgerType, Paying, PaidKinds
<1>4. QED
  BY <1>1, <1>2, <1>3 DEF PaidKinds

(* A step of a worker leaves the ledger alone, or is a credit; and what it   *)
(* answers is in the ledger, or is an event that may be dropped.             *)
LEMMA HandlerAnswers ==
  ASSUME Inv, NEW w \in Workers,
         Handle(w) \/ Unreachable(w) \/ WriteUnfetched(w) \/ Crash(w), ~Credit(w)
  PROVE  /\ UNCHANGED <<sent, rows, moved>>
         /\ \/ acked' = acked
            \/ /\ acked' = acked \cup {task[w].event}
               /\ \/ Posted(CreditKey(task[w])) /\ task[w].step # "idle"
                  \/ task[w].event.kind \in {"refund", "dispute"} /\ Unmatched(task[w].event)
                  \/ task[w].event.kind = "invoice" /\ Unmatched(task[w].event)
                  \/ task[w].event.kind \in Lifecycle \cup {"dispute"}
<1> DEFINE e == task[w].event
<1>1. /\ TaskOK(task[w]) /\ e \in Events /\ task[w] \in Task
      /\ e.kind \in Posting \cup Lifecycle
  BY TaskTypes, KeyTypes
<1>2. ASSUME Check(w) \/ Recheck(w)
      PROVE  /\ UNCHANGED <<sent, rows, moved>>
             /\ \/ acked' = acked
                \/ /\ acked' = acked \cup {e} /\ Posted(CreditKey(task[w])) /\ task[w].step # "idle"
  BY <1>2 DEF Check, Recheck, At, Answer, Abandon, GoTo
<1>3. ASSUME Fetch(w) \/ Open(w) \/ Collide(w) \/ Crash(w) \/ WriteCollides(w)
      PROVE  UNCHANGED <<sent, rows, moved, acked>>
  BY <1>3 DEF Fetch, Open, Collide, Crash, WriteCollides, GoTo, Abandon
<1>4. ASSUME Unreachable(w)
      PROVE  /\ UNCHANGED <<sent, rows, moved>>
             /\ \/ acked' = acked
                \/ acked' = acked \cup {e} /\ e.kind \in Lifecycle \cup {"dispute"}
  BY <1>1, <1>4 DEF Unreachable, At, Answer, Abandon, TaskOK, Lifecycle
<1>5. ASSUME Find(w)
      PROVE  /\ UNCHANGED <<sent, rows, moved>>
             /\ \/ acked' = acked
                \/ /\ acked' = acked \cup {e}
                   /\ e.kind \in {"refund", "dispute"} /\ Unmatched(e)
  <2>1. e.kind \in {"refund", "dispute"}
    BY <1>1, <1>5 DEF Find, At, TaskOK
  <2>2. Share(e) \in Nat
    <3>1. moved[PurchaseKey(e)] \in Nat /\ e.tokens \in Nat
      BY <1>1, KeyTypes DEF Inv, TypeOK
    <3>2. moved[PurchaseKey(e)] * e.tokens \in Nat
      BY <3>1
    <3>3. QED
      BY <3>2, PartsAssumption DEF Share
  <2>3. CASE Posted(PurchaseKey(e)) /\ Share(e) > 0
    BY <1>5, <2>3 DEF Find
  <2>4. CASE ~(Posted(PurchaseKey(e)) /\ Share(e) > 0)
    <3>1. Unmatched(e)
      BY <2>1, <2>2, <2>4 DEF Unmatched
    <3>2. acked' = acked \cup {e} /\ UNCHANGED <<sent, rows, moved>>
      BY <1>5, <2>4 DEF Find, Answer
    <3>3. QED
      BY <2>1, <3>1, <3>2
  <2>5. QED
    BY <2>3, <2>4
<1>6. ASSUME Look(w)
      PROVE  /\ UNCHANGED <<sent, rows, moved>>
             /\ \/ acked' = acked
                \/ acked' = acked \cup {e} /\ e.kind = "invoice" /\ Unmatched(e)
                \/ acked' = acked \cup {e} /\ e.kind \in Lifecycle
  <2>1. e.kind \in {"activation", "invoice"} \cup Lifecycle
    BY <1>1, <1>6 DEF Look, At, TaskOK
  <2>2. \/ acked' = acked
        \/ /\ acked' = acked \cup {e} /\ e.kind # "activation"
           /\ {u \in Users : subs[u].sub = e.of} = {}
    BY <1>6 DEF Look, Answer
  <2>3. QED
    BY <1>6, <2>1, <2>2 DEF Look, Unmatched
<1>7. ASSUME Write(w) \/ WriteUnfetched(w)
      PROVE  /\ UNCHANGED <<sent, rows, moved>>
             /\ \/ acked' = acked
                \/ acked' = acked \cup {e} /\ e.kind \in Lifecycle
  <2>1. task[w].step = "write" /\ Finish(w) /\ UNCHANGED <<sent, rows, moved>>
    BY <1>7 DEF Write, WriteUnfetched, At
  <2>2. QED
    BY <2>1, FinishShape
<1>8. QED
  BY <1>2, <1>3, <1>4, <1>5, <1>6, <1>7 DEF Handle

(* What a credit does to the ledger and to the answers.                      *)
LEMMA CreditPosts ==
  ASSUME Inv, NEW w \in Workers, Credit(w)
  PROVE  /\ CreditKey(task[w]) \in Keys /\ rows[CreditKey(task[w])] = 0
         /\ rows' = [rows EXCEPT ![CreditKey(task[w])] = 1]
         /\ moved' = [moved EXCEPT ![CreditKey(task[w])] = @ + Logged(task[w])]
         /\ sent' = sent /\ (acked' = acked \/ acked' = acked \cup {task[w].event})
         /\ task[w].event \in sent /\ task[w].step = "credit"
         /\ task[w].bonus => rows[Key(task[w].event)] = 1
<1>1. /\ CreditKey(task[w]) \in Keys /\ task[w].event \in sent /\ TaskOK(task[w])
      /\ task[w].step = "credit" /\ ~Posted(CreditKey(task[w]))
  BY TaskTypes DEF Credit, At, Collides
<1>2. rows[CreditKey(task[w])] = 0
  BY <1>1 DEF Posted, Inv, TypeOK
<1>3. rows' = [rows EXCEPT ![CreditKey(task[w])] = 1]
  BY <1>1, <1>2 DEF Credit
<1>4. acked' = acked \/ acked' = acked \cup {task[w].event}
  BY DEF Credit, Answer
<1>5. QED
  BY <1>1, <1>2, <1>3, <1>4 DEF Credit, TaskOK

(* Who is about to credit handles an event that moves tokens; and who is     *)
(* about to claw back found the purchase, and its due is within the share.   *)
Crediting == {"open", "credit", "recheck"}

Claim(t) ==
  t.step \in Crediting =>
    /\ t.event.kind \in Posting
    /\ t.event.kind \in Reversal => Posted(PurchaseKey(t.event)) /\ t.due <= Share(t.event)
Claims == \A w \in Workers : Claim(task[w])

(* How a worker comes to credit, and with what due.                          *)
LEMMA TaskMoves ==
  ASSUME Inv, NEW w \in Workers,
         Handle(w) \/ Unreachable(w) \/ WriteUnfetched(w) \/ Crash(w)
  PROVE  /\ \A x \in Workers \ {w} : task'[x] = task[x]
         /\ task'[w].step \in Crediting =>
              /\ task'[w].event = task[w].event
              /\ \/ task[w].step \in Crediting /\ task'[w].due = task[w].due
                 \/ task[w].event.kind \in Posting \ Reversal
                 \/ /\ task[w].event.kind \in Reversal
                    /\ Posted(PurchaseKey(task[w].event)) /\ task'[w].due = Share(task[w].event)
<1> PICK t : t = task[w]
  OBVIOUS
<1>1. /\ TaskOK(t) /\ t \in Task /\ t.event \in Events
      /\ task \in [Workers -> Task]
  BY TaskTypes DEF Inv, TypeOK
<1>2. ASSUME NEW n, task' = [task EXCEPT ![w] = n], n.step \notin Crediting
      PROVE  /\ \A x \in Workers \ {w} : task'[x] = task[x]
             /\ task'[w].step \notin Crediting
  BY <1>1, <1>2
<1>3. ASSUME Abandon(w) \/ Answer(w) \/ Fetch(w) \/ Look(w)
      PROVE  \E n : task' = [task EXCEPT ![w] = n] /\ n.step \notin Crediting
  <2>1. CASE Abandon(w) \/ Answer(w)
    BY <2>1, IdleType DEF Abandon, Answer, Crediting
  <2>2. CASE Fetch(w)
    <3> DEFINE n == [t EXCEPT !.step = IF t.event.kind = "dispute" THEN "check" ELSE "look"]
    <3>1. task' = [task EXCEPT ![w] = n]
      BY <1>1, <2>2 DEF Fetch, GoTo
    <3>2. n.step \notin Crediting
      BY <1>1 DEF Task, Crediting
    <3>3. QED
      BY <3>1, <3>2
  <2>3. CASE Look(w) /\ ~Answer(w)
    <3>1. PICK u, was : task' = [task EXCEPT ![w] = [t EXCEPT !.step = "write", !.user = u, !.was = was]]
      <4>1. CASE t.event.kind = "activation"
        <5>1. task' = [task EXCEPT ![w] = [t EXCEPT !.step = "write", !.was = subs[t.event.user]]]
          BY <1>1, <2>3, <4>1 DEF Look
        <5>2. [t EXCEPT !.step = "write", !.was = subs[t.event.user]]
                = [t EXCEPT !.step = "write", !.user = t.user, !.was = subs[t.event.user]]
          BY <1>1 DEF Task
        <5>3. QED
          BY <5>1, <5>2
      <4>2. CASE t.event.kind # "activation"
        <5>1. PICK u \in Users :
                task' = [task EXCEPT ![w].step = "write", ![w].user = u, ![w].was = subs[u]]
          BY <1>1, <2>3, <4>2 DEF Look
        <5>2. task' = [task EXCEPT ![w] = [t EXCEPT !.step = "write", !.user = u, !.was = subs[u]]]
          BY <1>1, <5>1
        <5>3. QED
          BY <5>2
      <4>3. QED
        BY <4>1, <4>2
    <3>2. [t EXCEPT !.step = "write", !.user = u, !.was = was].step = "write"
      BY <1>1 DEF Task
    <3>3. QED
      BY <3>1, <3>2 DEF Crediting
  <2>4. QED
    BY <1>3, <2>1, <2>2, <2>3
<1>4. ASSUME Abandon(w) \/ Answer(w) \/ Fetch(w) \/ Look(w)
      PROVE  /\ \A x \in Workers \ {w} : task'[x] = task[x]
             /\ task'[w].step \notin Crediting
  BY <1>2, <1>3, <1>4
<1>5. CASE Unreachable(w) \/ Crash(w) \/ Recheck(w) \/ WriteCollides(w)
  BY <1>4, <1>5 DEF Unreachable, Crash, Recheck, WriteCollides
<1>6. CASE Check(w)
  <2>1. t.event.kind \in Posting
    BY <1>1, <1>6 DEF Check, At, TaskOK
  <2>2. CASE Posted(CreditKey(t))
    BY <1>4, <1>6, <2>2 DEF Check
  <2>3. CASE ~Posted(CreditKey(t)) /\ AfterCheck(t) = "open"
    <3>1. t.event.kind \in Posting \ Reversal
      BY <1>1, <1>6, <2>1, <2>3 DEF AfterCheck, Check, At, TaskOK, Reversal
    <3>2. PICK due : task' = [task EXCEPT ![w] = [t EXCEPT !.step = "open", !.due = due]]
      BY <1>1, <1>6, <2>3 DEF Check
    <3>3. [t EXCEPT !.step = "open", !.due = due].event = t.event
      BY <1>1 DEF Task
    <3>4. QED
      BY <1>1, <3>1, <3>2, <3>3
  <2>4. CASE ~Posted(CreditKey(t)) /\ AfterCheck(t) # "open"
    <3>1. AfterCheck(t) \notin Crediting
      BY <2>4 DEF AfterCheck, Crediting
    <3>2. task' = [task EXCEPT ![w] = [t EXCEPT !.step = AfterCheck(t)]]
      BY <1>1, <1>6, <2>4 DEF Check, GoTo
    <3>3. [t EXCEPT !.step = AfterCheck(t)].step \notin Crediting
      BY <1>1, <3>1 DEF Task
    <3>4. QED
      BY <1>2, <3>2, <3>3
  <2>5. QED
    BY <2>2, <2>3, <2>4
<1>7. CASE Find(w)
  <2>1. t.event.kind \in Reversal
    BY <1>1, <1>7 DEF Find, At, TaskOK, Reversal
  <2>2. CASE Answer(w)
    BY <1>4, <2>2
  <2>3. CASE ~Answer(w)
    <3>1. /\ task' = [task EXCEPT ![w] = [t EXCEPT !.step = "open", !.due = Share(t.event)]]
          /\ Posted(PurchaseKey(t.event))
      BY <1>1, <1>7, <2>3 DEF Find
    <3>2. /\ [t EXCEPT !.step = "open", !.due = Share(t.event)].event = t.event
          /\ [t EXCEPT !.step = "open", !.due = Share(t.event)].due = Share(t.event)
      BY <1>1 DEF Task
    <3>3. QED
      BY <1>1, <2>1, <3>1, <3>2
  <2>4. QED
    BY <2>2, <2>3
<1>8. CASE Write(w) \/ WriteUnfetched(w)
  <2>1. t.step = "write" /\ Finish(w)
    BY <1>8 DEF Write, WriteUnfetched, At
  <2>2. PICK n : n = AfterWrite(t)
    OBVIOUS
  <2>3. /\ task' = [task EXCEPT ![w] = n]
        /\ \/ t.event.kind \in {"activation", "invoice"} /\ n.event = t.event
           \/ n = Idle
    BY <2>1, <2>2, FinishShape
  <2>4. CASE n = Idle
    BY <1>2, <2>3, <2>4, IdleType DEF Crediting
  <2>5. CASE t.event.kind \in {"activation", "invoice"} /\ n.event = t.event
    BY <1>1, <2>3, <2>5 DEF Posting, Reversal
  <2>6. QED
    BY <2>3, <2>4, <2>5
<1>9. CASE Open(w) \/ Collide(w)
  <2>1. t.step \in Crediting
    BY <1>9 DEF Open, Collide, At, Crediting
  <2>2. PICK step, seen : task' = [task EXCEPT ![w] = [t EXCEPT !.step = step, !.seen = seen]]
    <3>1. CASE Open(w)
      BY <1>1, <3>1 DEF Open
    <3>2. CASE Collide(w)
      <4>1. task' = [task EXCEPT ![w] = [t EXCEPT !.step = "recheck"]]
        BY <1>1, <3>2 DEF Collide, GoTo
      <4>2. [t EXCEPT !.step = "recheck"] = [t EXCEPT !.step = "recheck", !.seen = t.seen]
        BY <1>1 DEF Task
      <4>3. QED
        BY <4>1, <4>2
    <3>3. QED
      BY <1>9, <3>1, <3>2
  <2>3. /\ [t EXCEPT !.step = step, !.seen = seen].event = t.event
        /\ [t EXCEPT !.step = step, !.seen = seen].due = t.due
    BY <1>1 DEF Task
  <2>4. QED
    BY <1>1, <2>1, <2>2, <2>3
<1>10. CASE Credit(w)
  <2>1. CASE BonusDue(t)
    <3>1. task' = [task EXCEPT ![w] = [t EXCEPT !.step = "check", !.bonus = TRUE]]
      BY <1>1, <1>10, <2>1 DEF Credit
    <3>2. [t EXCEPT !.step = "check", !.bonus = TRUE].step \notin Crediting
      BY <1>1 DEF Task, Crediting
    <3>3. QED
      BY <1>2, <3>1, <3>2
  <2>2. CASE ~BonusDue(t)
    BY <1>4, <1>10, <2>2 DEF Credit
  <2>3. QED
    BY <2>1, <2>2
<1>11. QED
  BY <1>4, <1>5, <1>6, <1>7, <1>8, <1>9, <1>10 DEF Handle

(* What is in the ledger stays, with the tokens it moved.                    *)
LEMMA LedgerStays ==
  ASSUME Inv, [Next]_vars, NEW k \in Keys, Posted(k)
  PROVE  Posted(k)' /\ moved'[k] = moved[k]
<1>1. CASE UNCHANGED <<rows, moved>>
  BY <1>1 DEF Posted
<1>2. ASSUME NEW w \in Workers, Credit(w)
      PROVE  Posted(k)' /\ moved'[k] = moved[k]
  <2>1. /\ CreditKey(task[w]) \in Keys /\ rows[CreditKey(task[w])] = 0
        /\ rows' = [rows EXCEPT ![CreditKey(task[w])] = 1]
        /\ moved' = [moved EXCEPT ![CreditKey(task[w])] = @ + Logged(task[w])]
    BY <1>2, CreditPosts
  <2>2. k # CreditKey(task[w])
    BY <2>1 DEF Posted
  <2>3. rows \in [Keys -> Nat] /\ moved \in [Keys -> Nat]
    BY DEF Inv, TypeOK
  <2>4. QED
    BY <2>1, <2>2, <2>3 DEF Posted
<1>3. ASSUME NEW w \in Workers, Handle(w) \/ Unreachable(w) \/ WriteUnfetched(w) \/ Crash(w)
      PROVE  UNCHANGED <<rows, moved>> \/ Credit(w)
  BY <1>3, HandlerAnswers
<1>4. QED
  BY <1>1, <1>2, <1>3 DEF Next, vars, Send, Deliver

(* Claims is inductive.                                                      *)
LEMMA ClaimsHold == Spec => [](Inv /\ Claims)
<1>1. Init => Claims
  BY IdleType DEF Init, Claims, Claim, Crediting
<1>2. Inv /\ Claims /\ [Next]_vars => Claims'
  <2> SUFFICES ASSUME Inv, Claims, [Next]_vars, NEW w \in Workers, NEW t, t = task'[w]
               PROVE  Claim(t)'
    BY DEF Claims, Claim, Posted, Share
  <2> PICK e : e = task[w].event
    OBVIOUS
  <2>1. /\ e \in Events /\ task \in [Workers -> Task] /\ PurchaseKey(e) \in Keys
    BY TaskTypes, KeyTypes DEF Inv, TypeOK
  <2>2. Posted(PurchaseKey(e)) => Posted(PurchaseKey(e))' /\ Share(e)' = Share(e)
    <3> PICK k \in Keys : k = PurchaseKey(e)
      BY <2>1
    <3>1. Posted(k) => Posted(k)' /\ moved'[k] = moved[k]
      BY LedgerStays
    <3>2. QED
      BY <3>1 DEF Share, Posted, PurchaseKey
  <2>3. CASE task'[w] = task[w]
    BY <2>1, <2>2, <2>3 DEF Claims, Claim
  <2>4. ASSUME Handle(w) \/ Unreachable(w) \/ WriteUnfetched(w) \/ Crash(w), t.step \in Crediting
        PROVE  /\ e.kind \in Posting /\ task'[w].event = e
               /\ e.kind \in Reversal => Posted(PurchaseKey(e)) /\ task'[w].due <= Share(e)
    <3>1. /\ task'[w].event = e
          /\ \/ task[w].step \in Crediting /\ task'[w].due = task[w].due
             \/ e.kind \in Posting \ Reversal
             \/ /\ e.kind \in Reversal
                /\ Posted(PurchaseKey(e)) /\ task'[w].due = Share(e)
      BY <2>4, TaskMoves
    <3>2. CASE task[w].step \in Crediting /\ task'[w].due = task[w].due
      BY <3>1, <3>2 DEF Claims, Claim
    <3>3. CASE e.kind \in Posting \ Reversal
      BY <3>1, <3>3
    <3>4. CASE e.kind \in Reversal /\ Posted(PurchaseKey(e)) /\ task'[w].due = Share(e)
      <4>1. Share(e) \in Int
        <5>1. moved[PurchaseKey(e)] \in Nat /\ e.tokens \in Nat
          BY <2>1, KeyTypes DEF Inv, TypeOK
        <5>2. moved[PurchaseKey(e)] * e.tokens \in Nat
          BY <5>1
        <5>3. QED
          BY <5>2, PartsAssumption DEF Share
      <4>2. QED
        BY <3>1, <3>4, <4>1 DEF Reversal, Posting
    <3>5. QED
      BY <3>1, <3>2, <3>3, <3>4
  <2>5. ASSUME NEW f \in Events, Deliver(w, f) PROVE Claim(t)'
    <3>1. FirstStep(f.kind) \notin Crediting
      BY DEF FirstStep, Crediting
    <3>2. task'[w] = Fresh(f, FirstStep(f.kind))
      BY <2>1, <2>5 DEF Deliver
    <3>3. QED
      BY <3>1, <3>2 DEF Fresh, Claim
  <2>6. ASSUME NEW v \in Workers, v # w,
               \/ Handle(v) \/ Unreachable(v) \/ WriteUnfetched(v) \/ Crash(v)
               \/ \E f \in Events : Deliver(v, f)
        PROVE  task'[w] = task[w]
    <3>1. CASE \E f \in Events : Deliver(v, f)
      BY <2>1, <2>6, <3>1 DEF Deliver
    <3>2. CASE Handle(v) \/ Unreachable(v) \/ WriteUnfetched(v) \/ Crash(v)
      BY <2>6, <3>2, TaskMoves
    <3>3. QED
      BY <2>6, <3>1, <3>2
  <2>7. CASE Handle(w) \/ Unreachable(w) \/ WriteUnfetched(w) \/ Crash(w)
    BY <2>2, <2>4, <2>7 DEF Claim
  <2>8. CASE (\E f \in Events : Send(f)) \/ UNCHANGED vars
    BY <2>3, <2>8 DEF Send, vars
  <2>9. QED
    BY <2>3, <2>5, <2>6, <2>7, <2>8 DEF Next
<1>3. QED
  BY <1>1, <1>2, InitInv, NextInv, PTL DEF Spec

(* A renewal or a refund is answered without an effect only when, at that    *)
(* moment, no user has its subscription on record or its purchase is not in  *)
(* the ledger (_handle_invoice_paid, _handle_charge_refunded).               *)
THEOREM OnlyUnmatchedAreDropped == Spec => DropsOnlyUnmatched
<1> DEFINE Body == \A e \in acked' \ acked :
      e.kind \in {"invoice", "refund"} => rows'[Key(e)] = 1 \/ Unmatched(e)
<1>1. ASSUME Inv, NEW w \in Workers, NEW e \in acked' \ acked, e.kind \in {"invoice", "refund"},
             Handle(w) \/ Unreachable(w) \/ WriteUnfetched(w) \/ Crash(w)
      PROVE  rows'[Key(e)] = 1 \/ Unmatched(e)
  <2>1. task[w].event \in Events /\ TaskOK(task[w]) /\ CreditKey(task[w]) \in Keys
    BY <1>1, TaskTypes
  <2>5. rows \in [Keys -> Nat] /\ OnceEach
    BY <1>1 DEF Inv, TypeOK
  <2>2. CASE Credit(w)
    <3>1. /\ rows' = [rows EXCEPT ![CreditKey(task[w])] = 1]
          /\ e = task[w].event /\ task[w].step # "idle"
      BY <1>1, <2>2, CreditPosts
    <3>2. CreditKey(task[w]) = Key(e)
      BY <1>1, <2>1, <3>1 DEF TaskOK, CreditKey
    <3>3. QED
      BY <2>1, <2>5, <3>1, <3>2
  <2>3. CASE ~Credit(w)
    <3>1. /\ rows' = rows /\ e = task[w].event
          /\ \/ Posted(CreditKey(task[w])) /\ task[w].step # "idle"
             \/ Unmatched(e)
      BY <1>1, <2>3, HandlerAnswers DEF Lifecycle
    <3>2. ASSUME Posted(CreditKey(task[w])), task[w].step # "idle"
          PROVE  rows[Key(e)] = 1
      <4>1. CreditKey(task[w]) = Key(e)
        BY <1>1, <2>1, <3>1, <3>2 DEF TaskOK, CreditKey
      <4>2. QED
        BY <2>1, <2>5, <3>2, <4>1 DEF Posted, OnceEach
    <3>3. QED
      BY <3>1, <3>2
  <2>4. QED
    BY <2>2, <2>3
<1>2. Inv /\ [Next]_vars => [Body]_vars
  <2> SUFFICES ASSUME Inv, Next, NEW e \in acked' \ acked, e.kind \in {"invoice", "refund"}
               PROVE  rows'[Key(e)] = 1 \/ Unmatched(e)
    OBVIOUS
  <2>1. QED
    BY <1>1 DEF Next, Send, Deliver
<1>3. QED
  BY <1>2, InitInv, NextInv, PTL DEF Spec, DropsOnlyUnmatched

------------------------------------------------------------------------------
(* The handlers as the abstract promise.                                     *)
PaidKeys == {Key(e) : e \in Paying}
Made     == {Key(e) : e \in sent \cap Paying}
Credits  == [k \in PaidKeys |-> rows[k]]
Settled  == {Key(e) : e \in acked \cap Paying}

(* The ledger keys of payments, as keys.                                     *)
LEMMA PaidKeyTypes == PaidKeys \subseteq Keys
  BY KeyTypes DEF PaidKeys, Paying

(* An answer settles the payment that is in the ledger, or settles nothing.  *)
LEMMA AnswerSettles ==
  ASSUME NEW e \in Events, e \in sent, acked' = acked \cup {e}, UNCHANGED <<sent, rows>>,
         e \in Paying => rows[Key(e)] = 1
  PROVE  Once!Next \/ UNCHANGED <<Made, Credits, Settled>>
<1>1. Made' = Made /\ Credits' = Credits
  BY DEF Made, Credits
<1>2. CASE e \in Paying
  <2>1. Key(e) \in PaidKeys /\ Credits[Key(e)] = 1
    BY <1>2 DEF PaidKeys, Credits
  <2>2. Settled' = Settled \cup {Key(e)}
    BY <1>2 DEF Settled
  <2>3. Once!Settle(Key(e))
    BY <1>1, <2>1, <2>2 DEF Once!Settle, Made, Credits, Settled, PaidKeys
  <2>4. QED
    BY <2>1, <2>3 DEF Once!Next, PaidKeys
<1>3. CASE e \notin Paying
  <2>1. Settled' = Settled
    BY <1>3 DEF Settled
  <2>2. QED
    BY <1>1, <2>1
<1>4. QED
  BY <1>2, <1>3

(* A credit is the credit of a payment that was made, and may answer it.     *)
LEMMA CreditPays ==
  ASSUME Inv, Claims, NEW w \in Workers, Credit(w)
  PROVE  Once!Next \/ UNCHANGED <<Made, Credits, Settled>>
<1> PICK e, k : e = task[w].event /\ k = CreditKey(task[w])
  OBVIOUS
<1>1. /\ k \in Keys /\ rows[k] = 0 /\ rows' = [rows EXCEPT ![k] = 1] /\ rows \in [Keys -> Nat]
      /\ sent' = sent /\ (acked' = acked \/ acked' = acked \cup {e}) /\ e \in sent
      /\ task[w].bonus => rows[Key(e)] = 1
  BY CreditPosts DEF Inv, TypeOK
<1>2. e \in Events /\ Key(e) \in Keys /\ e.kind \in Posting
  <2>1. task[w].step = "credit"
    BY CreditPosts
  <2>2. QED
    BY <2>1, TaskTypes, KeyTypes DEF Claims, Claim, Crediting
<1>3. Made' = Made
  BY <1>1 DEF Made
<1>4. CASE k \in PaidKeys
  <2>1. PICK p \in Paying : k = Key(p)
    BY <1>4 DEF PaidKeys
  <2>2. ~task[w].bonus
    BY <2>1 DEF CreditKey, BonusKey, Key, LedgerType
  <2>3. k = Key(e)
    BY <2>2, <1>1 DEF CreditKey
  <2>4. e \in Paying
    BY <1>2, <2>1, <2>3, PaidKeyIsOwn
  <2>5. k \in Made /\ Credits[k] = 0 /\ Credits' = [Credits EXCEPT ![k] = 1]
    BY <1>1, <1>4, <2>3, <2>4, PaidKeyTypes DEF Made, Credits
  <2>6. Settled' = Settled \/ Settled' = Settled \cup {k}
    BY <1>1, <2>3, <2>4 DEF Settled
  <2>7. Once!Credit(k) \/ Once!CreditAndSettle(k)
    BY <1>3, <2>5, <2>6 DEF Once!Credit, Once!CreditAndSettle, Made, Credits, Settled, PaidKeys
  <2>8. QED
    BY <1>4, <2>7 DEF Once!Next, PaidKeys
<1>5. CASE k \notin PaidKeys
  <2>1. Credits' = Credits
    BY <1>1, <1>5, PaidKeyTypes DEF Credits
  <2>2. CASE acked' = acked
    BY <1>3, <2>1, <2>2 DEF Settled
  <2>3. CASE acked' = acked \cup {e} /\ e \notin Paying
    <3>1. Settled' = Settled
      BY <2>3 DEF Settled
    <3>2. QED
      BY <1>3, <2>1, <3>1
  <2>4. CASE acked' = acked \cup {e} /\ e \in Paying
    <3>1. Key(e) \in PaidKeys
      BY <2>4 DEF PaidKeys
    <3>2. task[w].bonus
      BY <1>1, <1>5, <3>1 DEF CreditKey
    <3>3. Credits[Key(e)] = 1
      BY <1>1, <3>1, <3>2 DEF Credits
    <3>4. Settled' = Settled \cup {Key(e)}
      BY <2>4 DEF Settled
    <3>5. Once!Settle(Key(e))
      BY <1>3, <2>1, <3>3, <3>4 DEF Once!Settle, Made, Credits, Settled, PaidKeys
    <3>6. QED
      BY <3>1, <3>5 DEF Once!Next, PaidKeys
  <2>5. QED
    BY <1>1, <2>2, <2>3, <2>4
<1>6. QED
  BY <1>4, <1>5

(* Refinement: a payment is credited at most once and only after it was      *)
(* made, and Stripe is told so only once it was, whatever deliveries         *)
(* overlap, repeat, crash or fail (_credit_once).                            *)
THEOREM PaymentsAreHonoured == Spec => PaymentsSpec
<1>1. Init => Once!Init
  BY PaidKeyTypes DEF Init, Once!Init, PaidKeys
<1>2. Inv /\ Claims /\ [Next]_vars => [Once!Next]_(Once!vars)
  <2> SUFFICES ASSUME Inv, Claims, [Next]_vars
               PROVE  Once!Next \/ UNCHANGED <<Made, Credits, Settled>>
    BY DEF Once!vars, Made, Credits, Settled, PaidKeys
  <2>1. ASSUME NEW w \in Workers, ~Credit(w),
               Handle(w) \/ Unreachable(w) \/ WriteUnfetched(w) \/ Crash(w)
        PROVE  Once!Next \/ UNCHANGED <<Made, Credits, Settled>>
    <3>1. CASE acked' = acked
      BY <2>1, <3>1, HandlerAnswers DEF Made, Credits, Settled
    <3>2. CASE acked' # acked
      <4> PICK e : e = task[w].event
        OBVIOUS
      <4>1. /\ acked' = acked \cup {e} /\ e \in Events /\ UNCHANGED <<sent, rows>>
            /\ \/ Posted(CreditKey(task[w])) /\ task[w].step # "idle"
               \/ e.kind \in Lifecycle \cup {"refund", "dispute", "invoice"}
        BY <2>1, <3>2, HandlerAnswers, TaskTypes
      <4>2. task[w].step # "idle"
        BY <2>1 DEF Handle, Unreachable, WriteUnfetched, Crash, At, Check, Fetch, Find, Look, Write,
                    WriteCollides, Open, Collide, Recheck
      <4>3. e \in Paying => rows[Key(e)] = 1
        BY <4>1, <4>2, PostedSettles DEF Paying, PaidKinds, Lifecycle
      <4>4. e \in sent
        BY <4>2, TaskTypes
      <4>5. QED
        BY <4>1, <4>3, <4>4, AnswerSettles
    <3>3. QED
      BY <3>1, <3>2
  <2>2. ASSUME NEW e \in Events, Send(e)
        PROVE  Once!Next \/ UNCHANGED <<Made, Credits, Settled>>
    <3>1. sent' = sent \cup {e} /\ Credits' = Credits /\ Settled' = Settled
      BY <2>2 DEF Send, Credits, Settled
    <3>2. CASE e \in Paying
      <4>1. Key(e) \in PaidKeys /\ Made' = Made \cup {Key(e)}
        BY <3>1, <3>2 DEF PaidKeys, Made
      <4>2. Once!Pay(Key(e))
        BY <3>1, <4>1 DEF Once!Pay, Made, Credits, Settled, PaidKeys
      <4>3. QED
        BY <4>1, <4>2 DEF Once!Next, PaidKeys
    <3>3. CASE e \notin Paying
      BY <3>1, <3>3 DEF Made
    <3>4. QED
      BY <3>2, <3>3
  <2>3. CASE UNCHANGED <<sent, acked, rows>>
    BY <2>3 DEF Made, Credits, Settled
  <2>4. QED
    BY <2>1, <2>2, <2>3, CreditPays DEF Next, Deliver, vars
<1>3. QED
  BY <1>1, <1>2, ClaimsHold, PTL DEF Spec, PaymentsSpec, Once!Spec

------------------------------------------------------------------------------
(* A share of an amount is a number of tokens.                               *)
LEMMA ShareType ==
  ASSUME Inv, NEW e \in Events
  PROVE  Share(e) \in Int
<1>1. moved[PurchaseKey(e)] \in Nat /\ e.tokens \in Nat
  BY KeyTypes DEF Inv, TypeOK
<1>2. moved[PurchaseKey(e)] * e.tokens \in Nat
  BY <1>1
<1>3. QED
  BY <1>2, PartsAssumption DEF Share

(* Nothing is moved that has no ledger row.                                  *)
Unmoved == \A k \in Keys : rows[k] = 0 => moved[k] = 0

LEMMA UnmovedStays == Inv /\ Unmoved /\ [Next]_vars => Unmoved'
<1> SUFFICES ASSUME Inv, Unmoved, [Next]_vars PROVE Unmoved'
  OBVIOUS
<1>1. CASE UNCHANGED <<rows, moved>>
  BY <1>1 DEF Unmoved
<1>2. ASSUME NEW w \in Workers, Credit(w) PROVE Unmoved'
  <2> PICK k \in Keys : k = CreditKey(task[w])
    BY TaskTypes
  <2> PICK n : n = moved[k] + Logged(task[w])
    OBVIOUS
  <2>1. /\ rows' = [rows EXCEPT ![k] = 1] /\ moved' = [moved EXCEPT ![k] = n]
        /\ rows \in [Keys -> Nat] /\ moved \in [Keys -> Nat]
    BY <1>2, CreditPosts DEF Inv, TypeOK
  <2>2. QED
    BY <2>1 DEF Unmoved
<1>3. ASSUME NEW w \in Workers, Handle(w) \/ Unreachable(w) \/ WriteUnfetched(w) \/ Crash(w)
      PROVE  UNCHANGED <<rows, moved>> \/ Credit(w)
  BY <1>3, HandlerAnswers
<1>4. QED
  BY <1>1, <1>2, <1>3 DEF Next, vars, Send, Deliver

(* A claw-back in the ledger has its purchase there, and took at most the     *)
(* share one of its events reported.                                         *)
Backs(x, r) == /\ x.kind \in Reversal /\ Key(x) = Key(r)
               /\ Posted(PurchaseKey(x)) /\ moved[Key(r)] <= Share(x)
Backed == \A r \in Events : r.kind \in Reversal /\ Posted(Key(r)) =>
            \E x \in Events : Backs(x, r)

(* A credit that claws back is backed by the event its handler works on.     *)
LEMMA CreditBacks ==
  ASSUME Inv, Claims, Unmoved, NEW w \in Workers, Credit(w), NEW r \in Events, r.kind \in Reversal,
         Key(r) = CreditKey(task[w]), NEW e \in Events, e = task[w].event
  PROVE  Backs(e, r)'
<1> PICK t \in Task, k \in Keys : t = task[w] /\ k = CreditKey(t)
  BY TaskTypes
<1>1. /\ rows[k] = 0 /\ moved' = [moved EXCEPT ![k] = moved[k] + Logged(t)]
      /\ moved \in [Keys -> Nat] /\ t.step = "credit" /\ Claim(t)
  BY CreditPosts DEF Inv, TypeOK, Claims
<1>2. k.type = "refund"
  BY DEF Key, LedgerType, Reversal
<1>3. ~t.bonus /\ k = Key(e)
  BY <1>2 DEF CreditKey, BonusKey
<1>4. e.kind \in Reversal
  BY <1>1, <1>2, <1>3 DEF Key, LedgerType, Claim, Crediting, Posting, Reversal
<1>5. Posted(PurchaseKey(e)) /\ t.due <= Share(e)
  BY <1>1, <1>4 DEF Claim, Crediting
<1>6. PICK g \in Keys : g = PurchaseKey(e)
  BY KeyTypes
<1>7. Posted(g)' /\ moved'[g] = moved[g]
  BY <1>5, <1>6, LedgerStays DEF Next, Handle
<1>8. Share(e)' = Share(e) /\ Posted(PurchaseKey(e))'
  BY <1>6, <1>7 DEF Share, Posted, PurchaseKey
<1>9. Logged(t) \in Nat /\ t.due \in Nat /\ Logged(t) <= t.due
  <2>1. t.due \in Nat /\ Held(t) \in Int
    BY DEF Task, Held, NoWallet
  <2>2. Logged(t) = Taken(t) /\ Taken(t) <= t.due
    BY <1>2, <2>1 DEF Logged, Taken
  <2>3. QED
    BY <2>1, <2>2, CreditAmounts
<1>10. moved'[k] = Logged(t)
  BY <1>1, <1>9 DEF Unmoved
<1>11. moved'[k] <= Share(e)
  BY <1>5, <1>9, <1>10, ShareType
<1>12. QED
  BY <1>3, <1>4, <1>8, <1>11 DEF Backs, Key

LEMMA BackedHolds == Spec => [](Inv /\ Claims /\ Unmoved /\ Backed)
<1>1. Init => Unmoved /\ Backed
  BY KeyTypes DEF Init, Unmoved, Backed, Posted
<1>2. Inv /\ Claims /\ Unmoved /\ Backed /\ [Next]_vars => Backed'
  <2> SUFFICES ASSUME Inv, Claims, Unmoved, Backed, [Next]_vars,
                      NEW r \in Events, r.kind \in Reversal, Posted(Key(r))'
               PROVE  \E x \in Events : Backs(x, r)'
    BY DEF Backed
  <2>1. CASE Posted(Key(r))
    <3>1. PICK x \in Events : Backs(x, r)
      BY <2>1 DEF Backed
    <3>2. PICK k \in Keys, g \in Keys : k = Key(r) /\ g = PurchaseKey(x)
      BY KeyTypes
    <3>3. Posted(g) /\ moved[k] <= Share(x)
      BY <3>1, <3>2 DEF Backs
    <3>4. moved'[k] = moved[k] /\ Posted(g)' /\ moved'[g] = moved[g]
      BY <2>1, <3>2, <3>3, LedgerStays
    <3>5. Share(x)' = Share(x)
      BY <3>2, <3>4 DEF Share, PurchaseKey
    <3>6. Backs(x, r)'
      BY <3>1, <3>2, <3>3, <3>4, <3>5 DEF Backs, Posted, PurchaseKey, Key
    <3>7. QED
      BY <3>6
  <2>2. CASE ~Posted(Key(r))
    <3>1. rows' # rows
      BY <2>2 DEF Posted
    <3>2. ASSUME NEW w \in Workers, Handle(w) \/ Unreachable(w) \/ WriteUnfetched(w) \/ Crash(w)
          PROVE  Credit(w)
      BY <3>1, <3>2, HandlerAnswers
    <3>3. PICK w \in Workers : Credit(w)
      BY <3>1, <3>2 DEF Next, vars, Send, Deliver
    <3>4. CreditKey(task[w]) = Key(r)
      <4>1. rows' = [rows EXCEPT ![CreditKey(task[w])] = 1] /\ rows \in [Keys -> Nat]
        BY <3>3, CreditPosts DEF Inv, TypeOK
      <4>2. QED
        BY <2>2, <4>1, KeyTypes DEF Posted
    <3>5. PICK e \in Events : e = task[w].event
      BY TaskTypes
    <3>6. Backs(e, r)'
      BY <3>3, <3>4, <3>5, CreditBacks
    <3>7. QED
      BY <3>6
  <2>3. QED
    BY <2>1, <2>2
<1>3. QED
  BY <1>1, <1>2, UnmovedStays, ClaimsHold, PTL DEF Spec

(* Each refund and each dispute is posted once, for at most the share of its *)
(* purchase that its event reported, in whatever order they arrive, overlap  *)
(* and repeat (_claw_back_for_charge).                                       *)
THEOREM EachReversalItsShare == Spec => []ReversalsTakeTheirShare
<1>1. Inv /\ Backed => ReversalsTakeTheirShare
  <2> SUFFICES ASSUME Inv, Backed, NEW r \in Events, r.kind \in Reversal, Posted(Key(r))
               PROVE  rows[Key(r)] = 1 /\ \E x \in Events : Backs(x, r)
    BY DEF ReversalsTakeTheirShare, Backs
  <2>1. rows[Key(r)] = 1
    <3>1. Key(r) \in Keys /\ rows \in [Keys -> Nat]
      BY KeyTypes DEF Inv, TypeOK
    <3>2. QED
      BY <3>1 DEF Inv, OnceEach, Posted
  <2>2. QED
    BY <2>1 DEF Backed
<1>2. QED
  BY <1>1, BackedHolds, PTL

------------------------------------------------------------------------------
(* The tokens a table of amounts stands for, counted: they grow by n when    *)
(* the amount of one key goes from 0 to n.                                   *)
TokensOf(m, S) == UNION {{k} \X (1 .. m[k]) : k \in S}

LEMMA PairsOfOne ==
  ASSUME NEW k, NEW n \in Nat
  PROVE  IsFiniteSet({k} \X (1 .. n)) /\ Cardinality({k} \X (1 .. n)) = n
<1>1. /\ IsFiniteSet(1 .. n)
      /\ Cardinality(1 .. n) = IF 1 > n THEN 0 ELSE n - 1 + 1
  <2>1. 1 \in Int /\ n \in Int
    OBVIOUS
  <2>2. QED
    BY <2>1, FS_Interval, Zenon
<1>2. Cardinality(1 .. n) = n
  BY <1>1
<1>3. IsFiniteSet({k}) /\ Cardinality({k}) = 1
  BY FS_Singleton
<1>4. /\ IsFiniteSet({k} \X (1 .. n))
      /\ Cardinality({k} \X (1 .. n)) = Cardinality({k}) * Cardinality(1 .. n)
  BY <1>1, <1>3, FS_Product, Zenon
<1>5. QED
  BY <1>2, <1>3, <1>4

Adds(m, k, n, S) ==
  /\ IsFiniteSet(TokensOf([m EXCEPT ![k] = n], S))
  /\ Cardinality(TokensOf([m EXCEPT ![k] = n], S))
       = Cardinality(TokensOf(m, S)) + (IF k \in S THEN n ELSE 0)
  /\ Cardinality(TokensOf(m, S)) \in Nat

LEMMA TokensAdd ==
  ASSUME NEW S \in SUBSET Keys, NEW m \in [Keys -> Nat], IsFiniteSet(TokensOf(m, S)),
         NEW k \in Keys, m[k] = 0, NEW n \in Nat
  PROVE  Adds(m, k, n, S)
<1> DEFINE new == {k} \X (1 .. n)
           u   == [m EXCEPT ![k] = n]
<1>1. u[k] = n /\ \A x \in Keys \ {k} : u[x] = m[x]
  OBVIOUS
<1> HIDE DEF u
<1>2. Cardinality(TokensOf(m, S)) \in Nat
  BY FS_CardinalityType
<1>3. CASE k \notin S
  <2>1. TokensOf(u, S) = TokensOf(m, S)
    BY <1>1, <1>3 DEF TokensOf
  <2>2. QED
    BY <1>2, <1>3, <2>1 DEF u, Adds
<1>4. CASE k \in S
  <2>1. {k} \X (1 .. m[k]) = {}
    OBVIOUS
  <2>2. TokensOf(u, S) \subseteq TokensOf(m, S) \cup new
    BY <1>1 DEF TokensOf
  <2>3. TokensOf(m, S) \subseteq TokensOf(u, S)
    BY <1>1, <2>1 DEF TokensOf
  <2>4. new \subseteq TokensOf(u, S)
    BY <1>1, <1>4 DEF TokensOf
  <2>5. TokensOf(u, S) = TokensOf(m, S) \cup new
    BY <2>2, <2>3, <2>4
  <2>6. TokensOf(m, S) \cap new = {}
    BY DEF TokensOf
  <2>7. IsFiniteSet(new) /\ Cardinality(new) = n
    BY PairsOfOne
  <2> HIDE DEF new
  <2>8. /\ IsFiniteSet(TokensOf(m, S) \cup new)
        /\ Cardinality(TokensOf(m, S) \cup new)
             = Cardinality(TokensOf(m, S)) + Cardinality(new) - Cardinality({})
    BY <2>6, <2>7, FS_Union
  <2>9. Cardinality({}) = 0
    BY FS_EmptySet
  <2>10. Cardinality(TokensOf(m, S) \cup new) = Cardinality(TokensOf(m, S)) + n
    BY <1>2, <2>7, <2>8, <2>9
  <2>11. QED
    BY <1>2, <1>4, <2>5, <2>8, <2>10, Zenon DEF u, Adds
<1>5. QED
  BY <1>3, <1>4

(* The events that move purchased tokens, or may, are credited to their own  *)
(* user; a renewal or a lifecycle event finds its user on record.            *)
Found    == {"invoice"} \cup Lifecycle
Own(t)   == t.step # "idle" /\ t.event.kind \notin Found => t.user = t.event.user

(* An id belongs to one user.                                                *)
IdsOfOne == \A a, b \in Events : a.pays = b.pays => a.user = b.user

(* A step keeps the user of a handler, or looked it up; only Credit writes   *)
(* a wallet.                                                                 *)
UserKept(w) ==
  /\ task'[w].step # "idle" =>
       /\ task[w].step # "idle" /\ task'[w].event = task[w].event
       /\ task'[w].user = task[w].user \/ task[w].event.kind \in {"activation"} \cup Found
  /\ purch' = purch \/ Credit(w)

LEMMA UserStays ==
  ASSUME Inv, NEW w \in Workers,
         Handle(w) \/ Unreachable(w) \/ WriteUnfetched(w) \/ Crash(w)
  PROVE  UserKept(w)
<1> PICK t : t = task[w]
  OBVIOUS
<1>1. TaskOK(t) /\ t \in Task /\ t.event \in Events /\ task \in [Workers -> Task]
  BY TaskTypes DEF Inv, TypeOK
<1>2. ASSUME NEW n, task' = [task EXCEPT ![w] = n], purch' = purch \/ Credit(w),
             n.step # "idle" => /\ t.step # "idle" /\ n.event = t.event
                                /\ n.user = t.user \/ t.event.kind \in {"activation"} \cup Found
      PROVE  UserKept(w)
  BY <1>1, <1>2 DEF UserKept
<1>3. ASSUME Abandon(w) \/ Answer(w), purch' = purch \/ Credit(w)
      PROVE  UserKept(w)
  BY <1>2, <1>3, IdleType DEF Abandon, Answer
<1>4. ASSUME NEW step, NEW due, t.step # "idle", purch' = purch,
             task' = [task EXCEPT ![w] = [t EXCEPT !.step = step, !.due = due]]
      PROVE  UserKept(w)
  <2> DEFINE n == [t EXCEPT !.step = step, !.due = due]
  <2>1. n.step = step /\ n.event = t.event /\ n.user = t.user
    BY <1>1 DEF Task
  <2> HIDE DEF n
  <2>2. task' = [task EXCEPT ![w] = n]
    BY <1>4 DEF n
  <2>3. QED
    BY <1>2, <1>4, <2>1, <2>2
<1>5. ASSUME NEW step, t.step # "idle", GoTo(w, step), purch' = purch
      PROVE  UserKept(w)
  <2>1. task' = [task EXCEPT ![w] = [t EXCEPT !.step = step, !.due = t.due]]
    <3>1. task' = [task EXCEPT ![w] = [t EXCEPT !.step = step]]
      BY <1>1, <1>5 DEF GoTo
    <3>2. [t EXCEPT !.step = step] = [t EXCEPT !.step = step, !.due = t.due]
      BY <1>1 DEF Task
    <3>3. QED
      BY <3>1, <3>2
  <2>2. QED
    BY <1>4, <1>5, <2>1
<1>6. CASE Unreachable(w) \/ Crash(w) \/ Recheck(w) \/ WriteCollides(w)
  BY <1>3, <1>6 DEF Unreachable, Crash, Recheck, WriteCollides
<1>7. CASE Check(w)
  <2>1. t.step # "idle" /\ purch' = purch
    BY <1>7 DEF Check, At
  <2>2. \/ Answer(w) \/ GoTo(w, AfterCheck(t))
        \/ \E due : task' = [task EXCEPT ![w] = [t EXCEPT !.step = "open", !.due = due]]
    BY <1>1, <1>7 DEF Check
  <2>3. QED
    BY <1>3, <1>4, <1>5, <2>1, <2>2
<1>8. CASE Fetch(w) \/ Collide(w)
  <2>1. PICK step : GoTo(w, step)
    BY <1>8 DEF Fetch, Collide
  <2>2. t.step # "idle" /\ purch' = purch
    BY <1>8 DEF Fetch, Collide, At
  <2>3. QED
    BY <1>5, <2>1, <2>2
<1>9. CASE Find(w)
  <2>1. t.step # "idle" /\ purch' = purch
    BY <1>9 DEF Find, At
  <2>2. \/ Answer(w)
        \/ \E due : task' = [task EXCEPT ![w] = [t EXCEPT !.step = "open", !.due = due]]
    BY <1>1, <1>9 DEF Find
  <2>3. QED
    BY <1>3, <1>4, <2>1, <2>2
<1>10. CASE Look(w)
  <2>1. t.step = "look" /\ purch' = purch /\ t.event.kind \in {"activation"} \cup Found
    BY <1>1, <1>10 DEF Look, At, TaskOK, Found
  <2>2. ASSUME NEW u, NEW was,
               \/ task' = [task EXCEPT ![w] = [t EXCEPT !.step = "write", !.user = u, !.was = was]]
               \/ task' = [task EXCEPT ![w] = [t EXCEPT !.step = "write", !.was = was]]
        PROVE  UserKept(w)
    <3>1. PICK n : /\ task' = [task EXCEPT ![w] = n]
                   /\ \/ n = [t EXCEPT !.step = "write", !.user = u, !.was = was]
                      \/ n = [t EXCEPT !.step = "write", !.was = was]
      BY <2>2
    <3>2. n.step = "write" /\ n.event = t.event
      BY <1>1, <3>1 DEF Task
    <3>3. QED
      BY <1>2, <2>1, <3>1, <3>2
  <2>3. CASE t.event.kind = "activation"
    <3>1. task' = [task EXCEPT ![w] = [t EXCEPT !.step = "write", !.was = subs[t.event.user]]]
      BY <1>1, <1>10, <2>3 DEF Look
    <3>2. QED
      BY <2>2, <3>1
  <2>4. CASE t.event.kind # "activation" /\ ~Answer(w)
    <3>1. PICK u \in Users :
            task' = [task EXCEPT ![w].step = "write", ![w].user = u, ![w].was = subs[u]]
      BY <1>1, <1>10, <2>4 DEF Look
    <3>2. task' = [task EXCEPT ![w] = [t EXCEPT !.step = "write", !.user = u, !.was = subs[u]]]
      BY <1>1, <3>1
    <3>3. QED
      BY <2>2, <3>2
  <2>5. QED
    BY <1>3, <2>1, <2>3, <2>4
<1>11. CASE Write(w) \/ WriteUnfetched(w)
  <2>1. t.step = "write" /\ Finish(w) /\ purch' = purch
    BY <1>11 DEF Write, WriteUnfetched, At
  <2>2. PICK n : n = AfterWrite(t)
    OBVIOUS
  <2>3. /\ task' = [task EXCEPT ![w] = n]
        /\ \/ /\ t.event.kind \in {"activation", "invoice"}
              /\ n.step = "open" /\ n.event = t.event
           \/ n = Idle
    BY <2>1, <2>2, FinishShape
  <2>4. QED
    BY <1>2, <2>1, <2>3, IdleType DEF Found
<1>12. CASE Open(w)
  <2> DEFINE n == [t EXCEPT !.step = "credit", !.seen = purch[t.user]]
  <2>1. n.event = t.event /\ n.user = t.user
    BY <1>1 DEF Task
  <2>2. task' = [task EXCEPT ![w] = n] /\ t.step = "open" /\ purch' = purch
    BY <1>1, <1>12 DEF Open, At
  <2> HIDE DEF n
  <2>3. QED
    BY <1>2, <2>1, <2>2
<1>13. CASE Credit(w)
  <2>1. CASE BonusDue(t)
    <3> DEFINE n == [t EXCEPT !.step = "check", !.bonus = TRUE]
    <3>1. n.event = t.event /\ n.user = t.user
      BY <1>1 DEF Task
    <3>2. task' = [task EXCEPT ![w] = n] /\ t.step = "credit"
      BY <1>1, <1>13, <2>1 DEF Credit, At
    <3> HIDE DEF n
    <3>3. QED
      BY <1>2, <1>13, <3>1, <3>2
  <2>2. CASE ~BonusDue(t)
    BY <1>3, <1>13, <2>2 DEF Credit
  <2>3. QED
    BY <2>1, <2>2
<1>14. QED
  BY <1>6, <1>7, <1>8, <1>9, <1>10, <1>11, <1>12, <1>13 DEF Handle

(* Who credits purchased tokens credits the user of the event.               *)
Owned == \A w \in Workers : Own(task[w])

LEMMA OwnedHolds == Spec => [](Inv /\ Claims /\ Unmoved /\ Owned)
<1>1. Init => Unmoved /\ Owned
  BY IdleType DEF Init, Unmoved, Owned, Own
<1>2. Inv /\ Inv' /\ Owned /\ [Next]_vars => Owned'
  <2> SUFFICES ASSUME Inv, Inv', Owned, [Next]_vars, NEW v \in Workers, NEW t, t = task'[v]
               PROVE  Own(t)
    BY DEF Owned, Own
  <2>1. task \in [Workers -> Task] /\ task' \in [Workers -> Task] /\ TaskOK(t)'
    BY DEF Inv, TypeOK
  <2>2. CASE task'[v] = task[v]
    BY <2>2 DEF Owned
  <2>3. ASSUME NEW e \in Events, Deliver(v, e) PROVE Own(t)
    <3>1. t = Fresh(e, FirstStep(e.kind))
      BY <2>1, <2>3 DEF Deliver
    <3>2. QED
      BY <3>1 DEF Fresh, Own
  <2>4. CASE Handle(v) \/ Unreachable(v) \/ WriteUnfetched(v) \/ Crash(v)
    <3>1. UserKept(v)
      BY <2>4, UserStays
    <3>2. t.step # "idle" /\ t.event.kind = "activation" => t.user = t.event.user
      BY <2>1 DEF TaskOK
    <3>3. QED
      BY <3>1, <3>2 DEF UserKept, Owned, Own
  <2>5. ASSUME NEW w \in Workers, w # v,
               \/ Handle(w) \/ Unreachable(w) \/ WriteUnfetched(w) \/ Crash(w)
               \/ \E e \in Events : Deliver(w, e)
        PROVE  task'[v] = task[v]
    <3>1. CASE \E e \in Events : Deliver(w, e)
      BY <2>1, <2>5, <3>1 DEF Deliver
    <3>2. CASE Handle(w) \/ Unreachable(w) \/ WriteUnfetched(w) \/ Crash(w)
      BY <2>5, <3>2, TaskMoves
    <3>3. QED
      BY <2>5, <3>1, <3>2
  <2>6. CASE (\E e \in Events : Send(e)) \/ UNCHANGED vars
    BY <2>2, <2>6 DEF Send, vars
  <2>7. QED
    BY <2>2, <2>3, <2>4, <2>5, <2>6 DEF Next
<1>3. QED
  BY <1>1, <1>2, ClaimsHold, InitInv, NextInv, UnmovedStays, PTL DEF Spec

(* The wallets against the ledger, with what makes the counts mean something.*)
Holding(u) == IF purch[u] = NoWallet THEN 0 ELSE purch[u]
Count(ks)  == Cardinality(TokensOf(moved, ks))
Finite(ks) == IsFiniteSet(TokensOf(moved, ks))
Balanced   ==
  \A u \in Users :
    /\ Finite(Brought(u)) /\ Finite(TakenBack(u))
    /\ u \notin clobbered => Holding(u) = Count(Brought(u)) - Count(TakenBack(u))

LEMMA UsersKeys ==
  ASSUME NEW u \in Users
  PROVE  /\ KeysOf(u) \subseteq Keys
         /\ Brought(u) \in SUBSET Keys /\ TakenBack(u) \in SUBSET Keys
<1>1. KeysOf(u) \subseteq Keys
  BY KeyTypes DEF KeysOf
<1>2. QED
  BY <1>1 DEF Brought, TakenBack

(* The row of a credit is its user's and no other's.                         *)
LEMMA RowIsTheUsers ==
  ASSUME Inv, Claims, Owned, IdsOfOne, NEW w \in Workers, task[w].step = "credit",
         CreditKey(task[w]).type # "subscription"
  PROVE  /\ CreditKey(task[w]) \in KeysOf(task[w].user)
         /\ \A u \in Users \ {task[w].user} : CreditKey(task[w]) \notin KeysOf(u)
<1> PICK t \in Task, k \in Keys, e \in Events : t = task[w] /\ k = CreditKey(t) /\ e = t.event
  BY TaskTypes
<1>1. TaskOK(t) /\ Claim(t) /\ Own(t) /\ t.step = "credit" /\ k.type # "subscription"
  BY TaskTypes DEF Claims, Owned
<1>2. k \in {Key(e), BonusKey(e)} /\ k.id = e.pays
  BY DEF CreditKey, Key, BonusKey
<1>3. e.kind \in Posting /\ e.kind # "invoice"
  <2>1. e.kind \in Posting
    BY <1>1 DEF Claim, Crediting
  <2>2. ASSUME e.kind = "invoice" PROVE FALSE
    <3>1. ~t.bonus
      BY <1>1, <2>2 DEF TaskOK
    <3>2. k.type = "subscription"
      BY <2>2, <3>1 DEF CreditKey, Key, LedgerType
    <3>3. QED
      BY <1>1, <3>2
  <2>3. QED
    BY <2>1, <2>2
<1>4. t.user = e.user
  BY <1>1, <1>3 DEF Own, Found, Posting, Lifecycle
<1>5. k \in KeysOf(e.user)
  BY <1>2 DEF KeysOf
<1>6. ASSUME NEW u \in Users, k \in KeysOf(u) PROVE u = e.user
  <2>1. PICK x \in Events : x.user = u /\ k \in {Key(x), BonusKey(x)}
    BY <1>6 DEF KeysOf
  <2>2. x.pays = e.pays
    BY <1>2, <2>1 DEF Key, BonusKey
  <2>3. QED
    BY <2>1, <2>2 DEF IdsOfOne
<1>7. QED
  BY <1>4, <1>5, <1>6

(* A credit that overwrites nothing moves the wallet as far as it moves the  *)
(* ledger.                                                                   *)
LEMMA CreditBalances ==
  ASSUME Inv, Claims, Unmoved, Owned, IdsOfOne, Balanced, NEW w \in Workers, Credit(w)
  PROVE  Balanced'
<1> PICK t \in Task, k \in Keys, v \in Users, n \in Nat, b \in Nat :
      t = task[w] /\ k = CreditKey(t) /\ v = t.user /\ n = Logged(t) /\ b = Bucket(t)
  BY TaskTypes, CreditAmounts
<1>1. /\ t.step = "credit" /\ t.due \in Nat /\ t.seen \in Nat \cup {NoWallet}
      /\ Held(t) = IF t.seen = NoWallet THEN 0 ELSE t.seen
  BY CreditPosts DEF Held, Task
<1>2. moved \in [Keys -> Nat] /\ moved[k] = 0 /\ moved' = [moved EXCEPT ![k] = n]
  BY CreditPosts DEF Inv, TypeOK, Unmoved
<1>3. purch \in [Users -> Nat \cup {NoWallet}]
  BY DEF Inv, TypeOK
<1>4. /\ purch' = [purch EXCEPT ![v] = IF b # t.seen THEN b ELSE @]
      /\ clobbered' = IF b # t.seen /\ purch[v] # t.seen THEN clobbered \cup {v} ELSE clobbered
  BY DEF Credit, Overwrites
<1>5. /\ purch'[v] = IF b # t.seen THEN b ELSE purch[v]
      /\ \A u \in Users \ {v} : purch'[u] = purch[u]
      /\ clobbered \subseteq clobbered'
  BY <1>3, <1>4
<1>6. b # NoWallet /\ \A u \in Users : Holding(u) \in Int
  BY <1>3 DEF NoWallet, Holding
<1>7. /\ k.type # "subscription" => /\ k \in KeysOf(v)
                                    /\ \A u \in Users \ {v} : k \notin KeysOf(u)
      /\ k.type \in {"purchase", "subscription", "refund", "grant"}
  BY <1>1, RowIsTheUsers DEF Keys
<1>8. ASSUME NEW u \in Users, NEW ks \in SUBSET Keys, Finite(ks)
      PROVE  /\ Finite(ks)' /\ Count(ks)' = Count(ks) + (IF k \in ks THEN n ELSE 0)
             /\ Count(ks) \in Nat
  <2>1. IsFiniteSet(TokensOf(moved, ks))
    BY <1>8 DEF Finite
  <2>2. Adds(moved, k, n, ks)
    BY <1>2, <2>1, TokensAdd
  <2>3. QED
    BY <1>2, <2>2 DEF Finite, Count, Adds
<1>9. b = Held(t) + (IF k \in Brought(v) THEN n ELSE 0) - (IF k \in TakenBack(v) THEN n ELSE 0)
  <2>0. Held(t) \in Int /\ Taken(t) \in Int
    BY <1>1 DEF Taken, NoWallet
  <2>1. CASE k.type \in {"purchase", "grant"}
    BY <1>1, <1>7, <2>0, <2>1 DEF Brought, TakenBack, Logged, Bucket
  <2>2. CASE k.type = "refund"
    BY <1>1, <1>7, <2>0, <2>2 DEF Brought, TakenBack, Logged, Bucket
  <2>3. CASE k.type = "subscription"
    BY <1>1, <1>7, <2>0, <2>3 DEF Brought, TakenBack, Logged, Bucket
  <2>4. QED
    BY <1>7, <2>1, <2>2, <2>3
<1>10. ASSUME NEW u \in Users
       PROVE  /\ Finite(Brought(u))' /\ Finite(TakenBack(u))'
              /\ u \notin clobbered' => Holding(u)' = Count(Brought(u))' - Count(TakenBack(u))'
  <2> PICK br \in SUBSET Keys, bk \in SUBSET Keys : br = Brought(u) /\ bk = TakenBack(u)
    BY UsersKeys
  <2>1. /\ Finite(br) /\ Finite(bk)
        /\ u \notin clobbered' => Holding(u) = Count(br) - Count(bk)
    BY <1>5 DEF Balanced
  <2>2. /\ Finite(br)' /\ Count(br)' = Count(br) + (IF k \in br THEN n ELSE 0)
        /\ Finite(bk)' /\ Count(bk)' = Count(bk) + (IF k \in bk THEN n ELSE 0)
        /\ Count(br) \in Nat /\ Count(bk) \in Nat
    BY <1>8, <2>1
  <2>3. br = Brought(u)' /\ bk = TakenBack(u)'
    BY DEF Brought, TakenBack, KeysOf
  <2>4. CASE u = v /\ u \notin clobbered'
    <3>1. b = Held(t) + (IF k \in br THEN n ELSE 0) - (IF k \in bk THEN n ELSE 0)
      BY <1>9, <2>4
    <3>2. b = t.seen \/ purch[v] = t.seen
      BY <1>4, <2>4
    <3>3. Holding(u)' = Holding(u) + (IF k \in br THEN n ELSE 0) - (IF k \in bk THEN n ELSE 0)
      <4>1. CASE b = t.seen
        <5>1. Holding(u)' = Holding(u)
          BY <1>5, <2>4, <4>1 DEF Holding
        <5>2. Held(t) = b
          BY <1>1, <1>6, <4>1
        <5>3. QED
          BY <1>6, <3>1, <5>1, <5>2
      <4>2. CASE b # t.seen /\ purch[v] = t.seen
        <5>1. Holding(u)' = b
          BY <1>5, <1>6, <2>4, <4>2 DEF Holding
        <5>2. Held(t) = Holding(u)
          BY <1>1, <2>4, <4>2 DEF Holding
        <5>3. QED
          BY <3>1, <5>1, <5>2
      <4>3. QED
        BY <3>2, <4>1, <4>2
    <3>4. Holding(u)' = Count(br)' - Count(bk)'
      BY <1>6, <2>1, <2>2, <2>4, <3>3
    <3>5. QED
      BY <2>2, <2>3, <3>4
  <2>5. CASE u # v /\ u \notin clobbered'
    <3>1. Holding(u)' = Holding(u)
      BY <1>5, <2>5 DEF Holding
    <3>2. k \notin br /\ k \notin bk
      BY <1>7, <2>5 DEF Brought, TakenBack
    <3>3. Holding(u)' = Count(br)' - Count(bk)'
      BY <2>1, <2>2, <2>5, <3>1, <3>2
    <3>4. QED
      BY <2>2, <2>3, <3>3
  <2>6. QED
    BY <2>2, <2>3, <2>4, <2>5
<1>11. QED
  BY <1>10 DEF Balanced

(* However deliveries overlap, repeat and crash, a wallet that none wrote    *)
(* over unread holds what the ledger credited to its purchased bucket less   *)
(* what it clawed back (credits/manager.py, credits/webhooks.py).            *)
THEOREM WalletIsTheLedger ==
  ASSUME IdsOfOne
  PROVE  Spec => []WalletHoldsCredits
<1>1. Init => Balanced
  <2> SUFFICES ASSUME Init, NEW u \in Users
               PROVE  /\ Finite(Brought(u)) /\ Finite(TakenBack(u))
                      /\ Holding(u) = Count(Brought(u)) - Count(TakenBack(u))
    BY DEF Balanced
  <2>1. ASSUME NEW ks \in SUBSET Keys PROVE Finite(ks) /\ Count(ks) = 0
    <3>1. TokensOf(moved, ks) = {}
      BY DEF Init, TokensOf
    <3>2. QED
      BY <3>1, FS_EmptySet DEF Finite, Count
  <2>2. Holding(u) = 0
    BY DEF Init, Holding
  <2>3. QED
    BY <2>1, <2>2, UsersKeys
<1>2. Inv /\ Claims /\ Unmoved /\ Owned /\ Balanced /\ [Next]_vars => Balanced'
  <2> SUFFICES ASSUME Inv, Claims, Unmoved, Owned, Balanced, [Next]_vars PROVE Balanced'
    OBVIOUS
  <2>1. CASE UNCHANGED <<moved, purch, clobbered>>
    BY <2>1 DEF Balanced, Finite, Count, Holding, TokensOf, Brought, TakenBack, KeysOf
  <2>2. ASSUME NEW w \in Workers, Handle(w) \/ Unreachable(w) \/ WriteUnfetched(w) \/ Crash(w)
        PROVE  UNCHANGED <<moved, purch, clobbered>> \/ Credit(w)
    <3>1. UNCHANGED <<moved, purch>> \/ Credit(w)
      BY <2>2, HandlerAnswers, UserStays DEF UserKept
    <3>2. clobbered' = clobbered \/ Credit(w)
      BY <2>2 DEF Handle, Unreachable, WriteUnfetched, Crash, Check, Fetch, Find, Look, Write,
                  WriteCollides, Open, Collide, Recheck
    <3>3. QED
      BY <3>1, <3>2
  <2>3. QED
    BY <2>1, <2>2, CreditBalances DEF Next, vars, Send, Deliver
<1>3. Balanced => WalletHoldsCredits
  <2>1. \A ks : Tokens(ks) = TokensOf(moved, ks)
    BY DEF Tokens, TokensOf
  <2>2. QED
    BY <2>1 DEF Balanced, Count, Holding, WalletHoldsCredits
<1>4. QED
  BY <1>1, <1>2, <1>3, OwnedHolds, PTL DEF Spec
==============================================================================
