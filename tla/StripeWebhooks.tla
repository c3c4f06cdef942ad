--------------------------- MODULE StripeWebhooks ---------------------------
(***************************************************************************)
(* The Stripe webhook handlers (credits/webhooks.py) and the checkout      *)
(* guard before them (credits/stripe_service.py).  Stripe delivers every   *)
(* event until it is answered 2xx, in any order, sometimes again after     *)
(* that, and a delivery may overlap another.  A handler is a sequence of   *)
(* database sessions with awaits in between: other deliveries run there,   *)
(* and a crash or an error answer abandons it there, with what its earlier *)
(* sessions committed.                                                     *)
(***************************************************************************)
EXTENDS Integers, FiniteSets

CONSTANTS
  Events,      (* the events Stripe may emit, see Event below               *)
  Workers,     (* deliveries handled at once                                *)
  Nothing,     (* no Stripe subscription id                                 *)
  Parts,       (* refunds are multiples of 1/Parts of a charge              *)
  MaxSent,     (* bound: events Stripe emits                                *)
  MaxFaults,   (* bound: crashes, error answers and Stripe outages          *)
  MaxRepeats   (* bound: deliveries of events that were already answered    *)

Posting    == {"topup", "autotopup", "activation", "invoice", "refund", "dispute"}
Lifecycle  == {"updated", "deleted", "failed"}
Statuses   == {"active", "past_due", "cancelling", "expired"}
Reported   == {"active", "past_due", "cancelling", "other"}
NoWallet   == -1

(* "pays" is the id the ledger row is keyed on: a payment intent, a         *)
(* subscription, an invoice, a refund or a dispute.  "of" is the            *)
(* subscription or the payment intent an event is about.  "tokens" is the   *)
(* allotment of the tier or pack (tiers have different allotments, 0 in an  *)
(* update means no change of tier) or the share of the charge refunded so   *)
(* far (amount_refunded is the sum of its refunds), in Parts.               *)
(* "status" is what an update reports; "other" is one the handler ignores   *)
(* (trialing, incomplete, paused, unpaid).                                  *)
Event(e) ==
  /\ e.kind \in Posting \cup Lifecycle
  /\ e.tokens \in Nat /\ e.bonus \in Nat
  /\ e.status \in Reported
  /\ e.kind \in Posting \ {"refund", "dispute"} => e.tokens > 0

ASSUME EventsAssumption  == Events # {} /\ \A e \in Events : Event(e)
ASSUME NothingAssumption == \A e \in Events : e.of # Nothing
(* Stripe never uses an id twice: only a checkout and an auto top-up event  *)
(* may report one payment, and a subscription is activated once.            *)
ASSUME IdsAssumption ==
  \A a, b \in Events : a.kind = "activation" /\ b.kind \in {"activation", "invoice"}
                       /\ a.pays = b.pays => a = b

ASSUME PartsAssumption   == Parts \in Nat \ {0}
ASSUME BoundsAssumption  == MaxSent \in Nat /\ MaxFaults \in Nat /\ MaxRepeats \in Nat

Users == {e.user : e \in Events}
Subs  == {e.of : e \in Events}
Ids   == {e.pays : e \in Events} \cup Subs

LedgerType(k) == CASE k \in {"topup", "autotopup"}     -> "purchase"
                   [] k \in {"activation", "invoice"}  -> "subscription"
                   [] OTHER                            -> "refund"

Keys == [id: Ids, type: {"purchase", "subscription", "refund", "grant"}]
Key(e)      == [id |-> e.pays, type |-> LedgerType(e.kind)]
BonusKey(e) == [id |-> e.pays, type |-> "grant"]
PurchaseKey(e) == [id |-> e.of, type |-> "purchase"]

VARIABLES
  sent,      (* events Stripe has emitted                                   *)
  acked,     (* events answered with a 2xx                                  *)
  subs,      (* per user, the subscription row                              *)
  purch,     (* per user, purchased tokens; NoWallet without a wallet       *)
  rows,      (* per (stripe_id, type), the number of ledger rows            *)
  moved,     (* ... and the tokens they moved                               *)
  task,      (* per worker, the delivery it handles                         *)
  faults, repeats,
  clobbered  (* history: users whose wallet a session wrote over unread     *)

vars == <<sent, acked, subs, purch, rows, moved, task, faults, repeats, clobbered>>

SubRow == [sub: Subs \cup {Nothing}, status: Statuses \cup {"none"}, tokens: Nat]
NoSub  == [sub |-> Nothing, status |-> "none", tokens |-> 0]

Steps == {"idle", "fetch", "check", "find", "look", "write", "open", "credit", "recheck"}

(* was: the subscription row a session read; seen: the wallet it read;      *)
(* bonus: the sign-up bonus is being granted; user, due: whom to credit how *)
(* much.                                                                    *)
Task == [step: Steps, event: Events, bonus: BOOLEAN, user: Users, due: Nat,
         was: SubRow, seen: Nat \cup {NoWallet}]

Fresh(e, step) == [step |-> step, event |-> e, bonus |-> FALSE, user |-> e.user,
                   due |-> 0, was |-> NoSub, seen |-> NoWallet]
Idle == Fresh(CHOOSE e \in Events : TRUE, "idle")

CreditKey(t) == IF t.bonus THEN BonusKey(t.event) ELSE Key(t.event)
Posted(k)    == rows[k] > 0

Init == /\ sent = {} /\ acked = {}
        /\ subs = [u \in Users |-> NoSub]
        /\ purch = [u \in Users |-> NoWallet]
        /\ rows = [k \in Keys |-> 0]
        /\ moved = [k \in Keys |-> 0]
        /\ task = [w \in Workers |-> Idle]
        /\ faults = MaxFaults /\ repeats = MaxRepeats
        /\ clobbered = {}
------------------------------------------------------------------------------
(* Stripe's side.  A checkout session is created only for a user without an *)
(* active subscription row; events about a subscription or a charge come    *)
(* after the one that started it and, for a subscription, before its end.   *)
Started(e) == \E a \in sent : a.kind = "activation" /\ a.pays = e.of
Ended(e)   == \E d \in sent : d.kind = "deleted" /\ d.of = e.of
Charged(e) == \E p \in sent : p.kind \in {"topup", "autotopup"} /\ p.pays = e.of
Grows(e)   == \A r \in sent : r.kind = "refund" /\ r.of = e.of => r.tokens < e.tokens

Send(e) ==
  /\ e \notin sent /\ Cardinality(sent) < MaxSent
  /\ e.kind = "activation" => subs[e.user].status # "active"
  /\ e.kind \in Lifecycle \cup {"invoice"} => Started(e) /\ ~Ended(e)
  /\ e.kind \in {"refund", "dispute"} => Charged(e)
  /\ e.kind = "refund" => Grows(e)
  /\ sent' = sent \cup {e}
  /\ UNCHANGED <<acked, subs, purch, rows, moved, task, faults, repeats, clobbered>>

(* The disputed charge and the failed invoice are fetched from Stripe first.*)
FirstStep(k) == CASE k \in {"dispute", "failed"} -> "fetch"
                  [] k \in {"updated", "deleted"} -> "look"
                  [] OTHER -> "check"

Deliver(w, e) ==
  /\ task[w].step = "idle"
  /\ e \in sent
  /\ IF e \in acked THEN repeats > 0 /\ repeats' = repeats - 1 ELSE UNCHANGED repeats
  /\ task' = [task EXCEPT ![w] = Fresh(e, FirstStep(e.kind))]
  /\ UNCHANGED <<sent, acked, subs, purch, rows, moved, faults, clobbered>>

(* The handler goes on to another step, or returns: an answer of 2xx.       *)
GoTo(w, step) == task' = [task EXCEPT ![w].step = step] /\ UNCHANGED acked
Answer(w)     == task' = [task EXCEPT ![w] = Idle] /\ acked' = acked \cup {task[w].event}
Abandon(w)    == task' = [task EXCEPT ![w] = Idle] /\ UNCHANGED acked

At(w, step) == task[w].step = step

(* Mutation: an activation credits before it records the subscription.      *)
AfterCheckUnrecorded(t) == IF t.event.kind \in {"activation", "topup", "autotopup"} THEN "open"
                           ELSE IF t.event.kind = "invoice" THEN "look" ELSE "find"

(* _already_processed, before the main credit and before the bonus.         *)
AfterCheck(t) == IF t.bonus THEN "open"
                 ELSE CASE t.event.kind \in {"topup", "autotopup"} -> "open"
                        [] t.event.kind = "activation"              -> "fetch"
                        [] t.event.kind = "invoice"                 -> "look"
                        [] OTHER                                    -> "find"

(* Mutation: a duplicate is refused with an error.                          *)
CheckRefuses(w) ==
  /\ At(w, "check")
  /\ IF Posted(CreditKey(task[w])) THEN Abandon(w)
     ELSE /\ task' = [task EXCEPT ![w].step = AfterCheck(task[w]),
                        ![w].due = IF task[w].bonus THEN task[w].event.bonus
                                                    ELSE task[w].event.tokens]
          /\ UNCHANGED acked
  /\ UNCHANGED <<sent, subs, purch, rows, moved, faults, repeats, clobbered>>

Check(w) ==
  /\ At(w, "check")
  /\ IF Posted(CreditKey(task[w])) THEN Answer(w)
     ELSE IF AfterCheck(task[w]) = "open"
       THEN /\ task' = [task EXCEPT ![w].step = "open",
                          ![w].due = IF task[w].bonus THEN task[w].event.bonus
                                                      ELSE task[w].event.tokens]
            /\ UNCHANGED acked
     ELSE GoTo(w, AfterCheck(task[w]))
  /\ UNCHANGED <<sent, subs, purch, rows, moved, faults, repeats, clobbered>>

(* A call to Stripe.  When it fails, an activation answers 500 and is       *)
(* delivered again; the dispute and failed-payment handlers answer 200.     *)
Fetch(w) ==
  /\ At(w, "fetch")
  /\ GoTo(w, IF task[w].event.kind = "dispute" THEN "check" ELSE "look")
  /\ UNCHANGED <<sent, subs, purch, rows, moved, faults, repeats, clobbered>>

(* Mutation: an activation swallows the outage too.                         *)
UnreachableAnswers(w) ==
  /\ At(w, "fetch")
  /\ faults > 0
  /\ faults' = faults - 1
  /\ Answer(w)
  /\ UNCHANGED <<sent, subs, purch, rows, moved, repeats, clobbered>>

Unreachable(w) ==
  /\ At(w, "fetch")
  /\ faults > 0
  /\ faults' = faults - 1
  /\ IF task[w].event.kind = "activation" THEN Abandon(w) ELSE Answer(w)
  /\ UNCHANGED <<sent, subs, purch, rows, moved, repeats, clobbered>>

(* The purchase a refund or a dispute takes back, a share of its tokens.    *)
Share(e) == (moved[PurchaseKey(e)] * e.tokens) \div Parts

Find(w) ==
  /\ At(w, "find")
  /\ LET e == task[w].event
     IN  IF Posted(PurchaseKey(e)) /\ Share(e) > 0
           THEN /\ task' = [task EXCEPT ![w].step = "open", ![w].due = Share(e)]
                /\ UNCHANGED acked
           ELSE Answer(w)
  /\ UNCHANGED <<sent, subs, purch, rows, moved, faults, repeats, clobbered>>

(* SELECT of the subscription row, by user on activation, else by its       *)
(* Stripe id; only an activation goes on without one.                       *)
Look(w) ==
  /\ At(w, "look")
  /\ LET e == task[w].event
         owners == {u \in Users : subs[u].sub = e.of}
     IN  \/ /\ e.kind = "activation"
            /\ task' = [task EXCEPT ![w].step = "write", ![w].was = subs[e.user]]
            /\ UNCHANGED acked
         \/ /\ e.kind # "activation"
            /\ \E u \in owners :
                 task' = [task EXCEPT ![w].step = "write", ![w].user = u, ![w].was = subs[u]]
            /\ UNCHANGED acked
         \/ /\ e.kind # "activation" /\ owners = {}
            /\ Answer(w)
  /\ UNCHANGED <<sent, subs, purch, rows, moved, faults, repeats, clobbered>>

(* What the handlers assign to the row they read.                           *)
Assigned(e, was) ==
  CASE e.kind = "activation" -> [sub |-> e.of, status |-> "active", tokens |-> e.tokens]
    [] e.kind = "invoice"    -> [was EXCEPT !.status = "active"]
    [] e.kind = "updated"    -> [was EXCEPT !.status = IF e.status = "other" THEN @ ELSE e.status,
                                            !.tokens = IF e.tokens > 0 THEN e.tokens ELSE @]
    [] e.kind = "deleted"    -> [was EXCEPT !.status = "expired"]
    [] OTHER                 -> [was EXCEPT !.status = "past_due"]

(* The UPDATE names the row's primary key and the columns that changed.     *)
Written(was, is, now) == IF is # was THEN is ELSE now
MergeSub(was, is, now) == [sub    |-> Written(was.sub, is.sub, now.sub),
                           status |-> Written(was.status, is.status, now.status),
                           tokens |-> Written(was.tokens, is.tokens, now.tokens)]

AfterWrite(t) ==
  CASE t.event.kind = "activation" -> [t EXCEPT !.step = "open", !.due = t.event.tokens]
    [] t.event.kind = "invoice"    -> [t EXCEPT !.step = "open", !.due = t.was.tokens]
    [] OTHER                       -> Idle

Finish(w) == /\ task' = [task EXCEPT ![w] = AfterWrite(task[w])]
             /\ acked' = IF AfterWrite(task[w]) = Idle THEN acked \cup {task[w].event} ELSE acked

Write(w) ==
  LET t == task[w]
  IN  /\ At(w, "write")
      /\ ~(t.was = NoSub /\ subs[t.user] # NoSub)
      /\ subs' = [subs EXCEPT ![t.user] = MergeSub(t.was, Assigned(t.event, t.was), @)]
      /\ Finish(w)
      /\ UNCHANGED <<sent, purch, rows, moved, faults, repeats, clobbered>>

(* The invoice handler could not fetch the period from Stripe: it keeps the *)
(* row as it is and goes on.                                                *)
WriteUnfetched(w) ==
  /\ At(w, "write")
  /\ task[w].event.kind = "invoice"
  /\ faults > 0
  /\ faults' = faults - 1
  /\ Finish(w)
  /\ UNCHANGED <<sent, subs, purch, rows, moved, repeats, clobbered>>

(* Two activations insert the user's row: the later one answers 500.        *)
WriteCollides(w) ==
  /\ At(w, "write")
  /\ task[w].was = NoSub /\ subs[task[w].user] # NoSub
  /\ Abandon(w)
  /\ UNCHANGED <<sent, subs, purch, rows, moved, faults, repeats, clobbered>>
------------------------------------------------------------------------------
(* The crediting session reads the wallet, or inserts an empty one.         *)
Open(w) ==
  /\ At(w, "open")
  /\ task' = [task EXCEPT ![w].step = "credit", ![w].seen = purch[task[w].user]]
  /\ UNCHANGED <<sent, acked, subs, purch, rows, moved, faults, repeats, clobbered>>

(* Mutation: the unique index is missing.                                   *)
CollidesOnWallet(t) == t.seen = NoWallet /\ purch[t.user] # NoWallet

(* The unique (stripe_id, type) index, or the unique user of a wallet.      *)
Collides(t) == Posted(CreditKey(t)) \/ (t.seen = NoWallet /\ purch[t.user] # NoWallet)

(* The purchased bucket the session writes and the tokens it logs: a        *)
(* subscription allotment goes to another bucket (see Wallet), a claw-back  *)
(* floors at zero.                                                          *)
Held(t)  == IF t.seen = NoWallet THEN 0 ELSE t.seen

(* Mutation: the claw-back does not floor at zero.                          *)
TakenInFull(t) == t.due

Taken(t) == IF Held(t) < t.due THEN Held(t) ELSE t.due

(* Mutation: the refund logs what was asked for.                            *)
LoggedAsked(t) == t.due

Logged(t) == IF CreditKey(t).type = "refund" THEN Taken(t) ELSE t.due

Bucket(t) == CASE CreditKey(t).type \in {"purchase", "grant"} -> Held(t) + t.due
               [] CreditKey(t).type = "refund"                -> Held(t) - Taken(t)
               [] OTHER                                       -> Held(t)

(* The session writes an absolute value over one it never read.             *)
Overwrites(t) == Bucket(t) # t.seen /\ purch[t.user] # t.seen

BonusDue(t) == t.event.kind = "activation" /\ ~t.bonus /\ t.event.bonus > 0

Credit(w) ==
  LET t == task[w]
  IN  /\ At(w, "credit")
      /\ ~Collides(t)
      /\ rows'  = [rows EXCEPT ![CreditKey(t)] = @ + 1]
      /\ moved' = [moved EXCEPT ![CreditKey(t)] = @ + Logged(t)]
      /\ purch' = [purch EXCEPT ![t.user] = IF Bucket(t) # t.seen THEN Bucket(t) ELSE @]
      /\ IF BonusDue(t)
           THEN /\ task' = [task EXCEPT ![w].step = "check", ![w].bonus = TRUE]
                /\ UNCHANGED acked
           ELSE Answer(w)
      /\ clobbered' = IF Overwrites(t) THEN clobbered \cup {t.user} ELSE clobbered
      /\ UNCHANGED <<sent, subs, faults, repeats>>

Collide(w) ==
  /\ At(w, "credit")
  /\ Collides(task[w])
  /\ GoTo(w, "recheck")
  /\ UNCHANGED <<sent, subs, purch, rows, moved, faults, repeats, clobbered>>

(* Mutation: every collision is taken for a duplicate.                      *)
RecheckSwallows(w) ==
  /\ At(w, "recheck")
  /\ Answer(w)
  /\ UNCHANGED <<sent, subs, purch, rows, moved, faults, repeats, clobbered>>

(* _credit_once looks again: a ledger row for this event means duplicate,   *)
(* anything else is an error answer.                                        *)
Recheck(w) ==
  /\ At(w, "recheck")
  /\ IF Posted(CreditKey(task[w])) THEN Answer(w) ELSE Abandon(w)
  /\ UNCHANGED <<sent, subs, purch, rows, moved, faults, repeats, clobbered>>

(* The process dies, or anything in the handler raises.                     *)
Crash(w) ==
  /\ ~At(w, "idle")
  /\ faults > 0
  /\ faults' = faults - 1
  /\ Abandon(w)
  /\ UNCHANGED <<sent, subs, purch, rows, moved, repeats, clobbered>>

Handle(w) == \/ Check(w) \/ Fetch(w) \/ Find(w) \/ Look(w)
             \/ Write(w) \/ WriteCollides(w)
             \/ Open(w) \/ Credit(w) \/ Collide(w) \/ Recheck(w)

Next == \/ \E e \in Events : Send(e)
        \/ \E w \in Workers : \/ \E e \in Events : Deliver(w, e)
                              \/ Handle(w)
                              \/ Unreachable(w) \/ WriteUnfetched(w) \/ Crash(w)

Spec == Init /\ [][Next]_vars

(* A handler that runs goes on, and Stripe keeps redelivering what was not  *)
(* answered: every such event gets a worker again and again.                *)
Retry(e) == e \notin acked /\ \E w \in Workers : Deliver(w, e)

Fairness == /\ \A w \in Workers : WF_vars(Handle(w))
            /\ \A e \in Events : SF_vars(Retry(e))

FairSpec == Spec /\ Fairness
------------------------------------------------------------------------------
(* Every variable has its type.                                             *)
TypeOK ==
  /\ sent \in SUBSET Events /\ acked \in SUBSET sent
  /\ subs \in [Users -> SubRow]
  /\ purch \in [Users -> Nat \cup {NoWallet}]
  /\ rows \in [Keys -> Nat] /\ moved \in [Keys -> Nat]
  /\ task \in [Workers -> Task]
  /\ \A w \in Workers : task[w].step # "idle" => task[w].event \in sent
  /\ faults \in Nat /\ repeats \in Nat
  /\ clobbered \in SUBSET Users

(* A payment Stripe was told is settled was credited, and no more than once:*)
(* a collision on the unique index is never mistaken for a duplicate when   *)
(* it was the wallet row that collided (webhooks.py, _credit_once).         *)
PaidKinds == {"topup", "autotopup", "activation"}
Paying    == {e \in Events : e.kind \in PaidKinds}

AckedIsCredited == \A e \in acked \cap Paying : rows[Key(e)] = 1

(* A first allotment is credited only to a user whose subscription is on    *)
(* record, whatever crashed or collided before: later invoices find it.     *)
CreditedIsRecorded ==
  \A e \in Events : e.kind = "activation" /\ Posted(Key(e)) => subs[e.user] # NoSub

(* A renewal or a refund is answered without an effect only when, at that   *)
(* moment, no user has its subscription on record or its purchase is not in *)
(* the ledger: an overlap, a collision or a crash never drops one.          *)
Unmatched(e) == IF e.kind = "invoice" THEN \A u \in Users : subs[u].sub # e.of
                                      ELSE ~Posted(PurchaseKey(e)) \/ Share(e) = 0

DropsOnlyUnmatched ==
  [][\A e \in acked' \ acked :
       e.kind \in {"invoice", "refund"} => rows'[Key(e)] = 1 \/ Unmatched(e)]_vars

(* A refund or a dispute is posted once, however often and at once it is    *)
(* delivered, and takes at most the share of its purchase that its event    *)
(* reported: the handlers promise no bound on several of one charge.        *)
Reversal == {"refund", "dispute"}

ReversalsTakeTheirShare ==
  \A r \in Events : r.kind \in Reversal /\ Posted(Key(r)) =>
    /\ rows[Key(r)] = 1
    /\ \E x \in Events : /\ x.kind \in Reversal /\ Key(x) = Key(r)
                         /\ Posted(PurchaseKey(x))
                         /\ moved[Key(r)] <= Share(x)

(* What _handle_charge_refunded says it does: it deducts tokens in          *)
(* proportion to the refund, so two refunds of one purchase take back no    *)
(* more than it brought.                                                    *)
RefundsOf(e) == {r \in Events : r.kind = "refund" /\ r.of = e.pays}

RefundsInProportion ==
  \A e \in Events : e.kind = "topup" =>
    \A r, d \in RefundsOf(e) : r # d => moved[Key(r)] + moved[Key(d)] <= moved[Key(e)]

(* A wallet no overlapping session wrote over holds what the ledger says    *)
(* purchases and bonuses brought, less what it says was clawed back, one by *)
(* one, whatever overlapped, repeated or crashed (credits/manager.py).      *)
KeysOf(u)    == UNION {{Key(e), BonusKey(e)} : e \in {x \in Events : x.user = u}}
Tokens(ks)   == UNION {{k} \X (1 .. moved[k]) : k \in ks}
Brought(u)   == {k \in KeysOf(u) : k.type \in {"purchase", "grant"}}
TakenBack(u) == {k \in KeysOf(u) : k.type = "refund"}

WalletHoldsCredits ==
  \A u \in Users \ clobbered :
    (IF purch[u] = NoWallet THEN 0 ELSE purch[u])
      = Cardinality(Tokens(Brought(u))) - Cardinality(Tokens(TakenBack(u)))

(* Every event Stripe emits is answered in the end, and so every payment    *)
(* reaches the ledger.                                                      *)
EventsAreAnswered == \A e \in Events : e \in sent ~> e \in acked

PaymentsArrive == \A e \in Paying : e \in sent ~> rows[Key(e)] = 1

(* The handlers as the abstract promise about payments.                     *)
Once == INSTANCE Payments
          WITH Paid <- {Key(e) : e \in Paying},
               made <- {Key(e) : e \in sent \cap Paying},
               credited <- [k \in {Key(e) : e \in Paying} |-> rows[k]],
               settled <- {Key(e) : e \in acked \cap Paying}

PaymentsSpec == Once!Spec
==============================================================================
