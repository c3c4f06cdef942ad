------------------------------ MODULE WalletOps ------------------------------
(***************************************************************************)
(* What credits/manager.py computes from ONE TokenBalance row: the bucket  *)
(* arithmetic, the rollover deadline, the spending-cap window and the      *)
(* auto top-up test.  Each operator takes the row a database session read  *)
(* and returns an outcome: the row it leaves, what it logs and what it     *)
(* answers.  Who reads and commits when is the business of Wallet.tla.     *)
(*                                                                         *)
(* Tokens are naturals (the code's floats are whole token counts in every  *)
(* tier and pack).  A timestamp is one of three ages: never set, still     *)
(* inside its window, or past it; the windows are 31 days (rollover), 30   *)
(* days (cap) and one hour (auto top-up).                                  *)
(***************************************************************************)
EXTENDS Integers

CONSTANTS
  Welcome,    (* tokens of the one-time welcome grant                      *)
  Threshold   (* autotopup_threshold: the balance that triggers a charge   *)

ASSUME WelcomeAssumption   == Welcome \in Nat
ASSUME ThresholdAssumption == Threshold \in Nat

Ages  == {"never", "fresh", "lapsed"}
NoCap == -1

(* One token_balance row.  "armed" stands for autotopup_enabled with a      *)
(* threshold and a pack, "card" for a saved customer and payment method.    *)
Row == [free: Nat, roll: Nat, rollExp: Ages, sub: Nat, purch: Nat,
        cap: Nat \cup {NoCap}, period: Ages, counted: Nat,
        armed: BOOLEAN, card: BOOLEAN, charge: Ages]

(* The row _get_or_create_balance inserts for a user it has never seen.     *)
EmptyRow == [free |-> 0, roll |-> 0, rollExp |-> "never", sub |-> 0, purch |-> 0,
             cap |-> NoCap, period |-> "never", counted |-> 0,
             armed |-> FALSE, card |-> FALSE, charge |-> "never"]

Total(r) == r.free + r.roll + r.sub + r.purch

Least(a, b) == IF a <= b THEN a ELSE b

(* Mutation: the spend does not stop at what a bucket holds.                *)
DeductUnclamped(r, n) == [r EXCEPT !.free = @ - n]

(* Priority order of a spend: free, rollover, subscription, purchased; a    *)
(* bucket is never taken below zero, whatever n is.                         *)
Deduct(r, n) ==
  LET free  == Least(n, r.free)
      roll  == Least(n - free, r.roll)
      sub   == Least(n - free - roll, r.sub)
      purch == Least(n - free - roll - sub, r.purch)
  IN  [r EXCEPT !.free = @ - free, !.roll = @ - roll,
                !.sub = @ - sub, !.purch = @ - purch]

RolloverDue(r) == r.roll > 0 /\ r.rollExp = "lapsed"

(* The expiry every reader of a wallet performs first.                      *)
Expired(r) == IF RolloverDue(r) THEN [r EXCEPT !.roll = 0, !.rollExp = "never"] ELSE r

(* An outcome: the row to commit, whether sub_rollover_exp was assigned a   *)
(* new deadline (such a column is written even if its age did not change),  *)
(* the sum of the token_transaction rows, and the answer to the caller.     *)
Outcome == [row: Row, stamped: BOOLEAN, logged: Int, ok: BOOLEAN]

Leaves(r, logged, ok) == [row |-> r, stamped |-> FALSE, logged |-> logged, ok |-> ok]

(* Mutation: the expiry leaves no transaction.                              *)
ExpiryUnlogged(r) == 0

(* The "expire" transaction an operation writes before its own.             *)
ExpiryLog(r) == IF RolloverDue(r) THEN -r.roll ELSE 0

(* try_spend's cap window: reopened when it was never opened or is over.    *)
OpenWindow(r) ==
  IF r.cap # NoCap /\ r.period # "fresh"
    THEN [r EXCEPT !.period = "fresh", !.counted = 0]
    ELSE r

(* Mutation: the cap is compared with the count before this spend.          *)
TrySpendPastCap(r, n) ==
  LET e == Expired(r)
      w == OpenWindow(e)
      d == Deduct(w, n)
  IN  IF Total(e) < n THEN Leaves(e, ExpiryLog(r), FALSE)
      ELSE IF e.cap # NoCap /\ w.counted >= e.cap THEN Leaves(w, ExpiryLog(r), FALSE)
      ELSE Leaves([d EXCEPT !.counted = IF e.cap # NoCap THEN @ + n ELSE @],
                  ExpiryLog(r) - n, TRUE)

(* A refused spend still commits the expiry and the reopened window: both   *)
(* early returns leave the session's block normally.                        *)
TrySpend(r, n) ==
  LET e      == Expired(r)
      w      == OpenWindow(e)
      capped == e.cap # NoCap
      d      == Deduct(w, n)
  IN  IF Total(e) < n
        THEN Leaves(e, ExpiryLog(r), FALSE)
      ELSE IF capped /\ w.counted + n > e.cap
        THEN Leaves(w, ExpiryLog(r), FALSE)
      ELSE Leaves([d EXCEPT !.counted = IF capped THEN @ + n ELSE @],
                  ExpiryLog(r) - n, TRUE)

(* record_spend: no balance check, no cap; logs n even when it takes less.  *)
RecordSpend(r, n) == Leaves(Deduct(Expired(r), n), ExpiryLog(r) - n, TRUE)

(* add_purchased_tokens and grant_tokens.                                   *)
AddPurchased(r, n) ==
  Leaves([Expired(r) EXCEPT !.purch = @ + n], ExpiryLog(r) + n, TRUE)

(* claw_back_purchased_tokens: floors at zero and logs what it really took. *)
ClawBack(r, n) ==
  LET taken == Least(r.purch, n)
  IN  Leaves([Expired(r) EXCEPT !.purch = @ - taken], ExpiryLog(r) - taken, TRUE)

(* add_subscription_tokens: what is left of the running cycle replaces the  *)
(* older rollover (which leaves no transaction) and gets a new deadline.    *)
AddSubscription(r, n) ==
  LET e == Expired(r)
      rolled == [e EXCEPT !.roll = e.sub, !.rollExp = "fresh"]
      base == IF e.sub > 0 THEN rolled ELSE e
  IN  [Leaves([base EXCEPT !.sub = n], ExpiryLog(r) + n, TRUE)
         EXCEPT !.stamped = e.sub > 0]

(* set_test_tier; n = 0 is the "free" tier.                                 *)
SetTestTier(r, n) ==
  Leaves([Expired(r) EXCEPT !.sub = n, !.roll = 0, !.rollExp = "never"],
         ExpiryLog(r) + n, TRUE)

(* get_balance, can_spend, get_spending_cap, get_autotopup_settings: even a *)
(* read of the wallet commits the expiry.                                   *)
ReadBalance(r) == Leaves(Expired(r), ExpiryLog(r), TRUE)

(* set_spending_cap: the first cap anchors a window, a later one keeps it.  *)
SetCap(r, c) ==
  LET e == Expired(r)
      opens == c # NoCap /\ e.period = "never"
  IN  Leaves([e EXCEPT !.cap = c,
                       !.period  = IF opens THEN "fresh" ELSE @,
                       !.counted = IF opens THEN 0 ELSE @],
             ExpiryLog(r), TRUE)

(* set_autotopup_settings and store_autotopup_pm.                           *)
SetAutoTopup(r, on) == Leaves([Expired(r) EXCEPT !.armed = on], ExpiryLog(r), TRUE)
StoreCard(r)        == Leaves([Expired(r) EXCEPT !.card = TRUE], ExpiryLog(r), TRUE)

(* maybe_autotopup: the claim of the charge window; ok = "charge the card". *)
ClaimTopup(r) ==
  LET e == Expired(r)
      due == e.armed /\ e.card /\ Threshold > 0 /\ Total(e) < Threshold /\ e.charge # "fresh"
  IN  Leaves(IF due THEN [e EXCEPT !.charge = "fresh"] ELSE e, ExpiryLog(r), due)

(* issue_welcome_grant_if_new: free tokens on a wallet it creates itself,   *)
(* with no token_transaction row.                                           *)
WelcomeGrant == Leaves([EmptyRow EXCEPT !.free = Welcome], 0, TRUE)
==============================================================================
