--------------------------- MODULE TransfersProofs ---------------------------
(***************************************************************************)
(* Theorems about Transfers, for every set of users, sessions, transfers,  *)
(* amounts and operations; and that Wallet implements TokenAccount.        *)
(***************************************************************************)
EXTENDS Transfers, WalletProofs

(* The operations whose ledger rows sum to what the wallet gains or loses.  *)
Balanced == Kinds \ {"record", "allocate", "tier", "welcome"}

LEMMA TotalIsNat == ASSUME NEW r \in Row PROVE Total(r) \in Nat
BY DEF Total, Row

(* Expiry and the cap window leave the free tokens alone, and a spend never *)
(* adds to them.                                                            *)
LEMMA FreeOfOthers ==
  ASSUME NEW r \in Row
  PROVE  Expired(r).free = r.free /\ OpenWindow(r).free = r.free
BY DEF Expired, OpenWindow, Row

LEMMA DeductFree ==
  ASSUME NEW r \in Row, NEW n \in Nat
  PROVE  Deduct(r, n).free <= r.free
<1> DEFINE free  == Least(n, r.free)
           roll  == Least(n - free, r.roll)
           sub   == Least(n - free - roll, r.sub)
           purch == Least(n - free - roll - sub, r.purch)
           d     == Deduct(r, n)
<1>1. r.free \in Nat
  BY DEF Row
<1>2. free \in Nat
  BY <1>1 DEF Least
<1>3. d = [r EXCEPT !.free = @ - free, !.roll = @ - roll, !.sub = @ - sub, !.purch = @ - purch]
  BY DEF Deduct
<1> HIDE DEF free, roll, sub, purch, d
<1>4. d.free = r.free - free
  BY <1>3 DEF Row
<1>5. QED
  BY <1>1, <1>2, <1>4 DEF d

(* A transfer's debit, which checks the balance itself (transfer_tokens).   *)
LEMMA RecordExact ==
  ASSUME NEW r \in Row, NEW n \in Nat
  PROVE  /\ RecordSpend(r, n).row \in Row /\ RecordSpend(r, n).logged = ExpiryLog(r) - n
         /\ ~RecordSpend(r, n).stamped
         /\ RecordSpend(r, n).row.free <= r.free
         /\ Total(Expired(r)) >= n => Total(RecordSpend(r, n).row) = Total(r) + ExpiryLog(r) - n
<1> DEFINE e == Expired(r)
<1>1. e \in Row /\ Total(e) = Total(r) + ExpiryLog(r) /\ ExpiryLog(r) \in Int /\ e.free = r.free
  BY ExpiryExact, FreeOfOthers
<1>2. RecordSpend(r, n).row = Deduct(e, n) /\ RecordSpend(r, n).logged = ExpiryLog(r) - n
      /\ ~RecordSpend(r, n).stamped
  BY DEF RecordSpend, Leaves
<1> HIDE DEF e
<1>3. /\ Deduct(e, n) \in Row /\ (Total(e) >= n => Total(Deduct(e, n)) = Total(e) - n)
      /\ Deduct(e, n).free <= e.free
  BY <1>1, DeductExact, DeductFree
<1>4. Total(r) \in Nat
  BY TotalIsNat
<1>5. QED
  BY <1>1, <1>2, <1>3, <1>4 DEF e

LEMMA AddPurchasedExact ==
  ASSUME NEW r \in Row, NEW n \in Nat
  PROVE  /\ AddPurchased(r, n).row \in Row /\ AddPurchased(r, n).logged = ExpiryLog(r) + n
         /\ ~AddPurchased(r, n).stamped
         /\ AddPurchased(r, n).row.free = r.free
         /\ Total(AddPurchased(r, n).row) = Total(r) + ExpiryLog(r) + n
<1> DEFINE e == Expired(r)
           a == [e EXCEPT !.purch = @ + n]
<1>1. e \in Row /\ Total(e) = Total(r) + ExpiryLog(r) /\ ExpiryLog(r) \in Int /\ e.free = r.free
  BY ExpiryExact, FreeOfOthers
<1>2. AddPurchased(r, n).row = a /\ AddPurchased(r, n).logged = ExpiryLog(r) + n
      /\ ~AddPurchased(r, n).stamped
  BY DEF AddPurchased, Leaves
<1> HIDE DEF e
<1>3. e.purch \in Nat /\ e.purch + n \in Nat /\ e.free \in Nat /\ e.roll \in Nat /\ e.sub \in Nat
  BY <1>1 DEF Row
<1>4. /\ a \in Row /\ a.purch = e.purch + n
      /\ a.free = e.free /\ a.roll = e.roll /\ a.sub = e.sub
  BY <1>1, <1>3 DEF Row
<1> HIDE DEF a
<1>5. Total(a) = Total(e) + n
  BY <1>3, <1>4 DEF Total
<1>6. QED
  BY <1>1, <1>2, <1>4, <1>5 DEF e

LEMMA ClawBackExact ==
  ASSUME NEW r \in Row, NEW n \in Nat
  PROVE  Total(ClawBack(r, n).row) = Total(r) + ClawBack(r, n).logged /\ ClawBack(r, n).row.free = r.free
<1> DEFINE e == Expired(r)
           taken == Least(r.purch, n)
           c == [e EXCEPT !.purch = @ - taken]
<1>1. e \in Row /\ Total(e) = Total(r) + ExpiryLog(r) /\ ExpiryLog(r) \in Int /\ e.free = r.free
  BY ExpiryExact, FreeOfOthers
<1>2. e.purch = r.purch
  BY DEF Expired, Row
<1>3. ClawBack(r, n).row = c /\ ClawBack(r, n).logged = ExpiryLog(r) - taken
  BY DEF ClawBack, Leaves
<1>4. taken \in Nat /\ taken <= r.purch
  BY DEF Least, Row
<1> HIDE DEF e, taken
<1>5. e.purch \in Nat /\ e.free \in Nat /\ e.roll \in Nat /\ e.sub \in Nat
  BY <1>1 DEF Row
<1>6. c.purch = e.purch - taken /\ c.free = e.free /\ c.roll = e.roll /\ c.sub = e.sub
  BY <1>1 DEF Row
<1> HIDE DEF c
<1>7. Total(c) = Total(e) - taken
  BY <1>4, <1>5, <1>6 DEF Total
<1>8. Total(e) \in Nat /\ Total(r) \in Nat
  BY <1>1, TotalIsNat
<1>9. QED
  BY <1>1, <1>3, <1>4, <1>6, <1>7, <1>8

(* A change of settings moves no token.                                     *)
LEMMA SettingsExact ==
  ASSUME NEW r \in Row, NEW n
  PROVE  LET Same(q) == q.free = r.free /\ Total(q) = Total(r) + ExpiryLog(r)
         IN  /\ Same(SetCap(r, n).row) /\ SetCap(r, n).logged = ExpiryLog(r)
             /\ Same(SetAutoTopup(r, n = 1).row) /\ SetAutoTopup(r, n = 1).logged = ExpiryLog(r)
             /\ Same(StoreCard(r).row) /\ StoreCard(r).logged = ExpiryLog(r)
             /\ Same(ClaimTopup(r).row) /\ ClaimTopup(r).logged = ExpiryLog(r)
             /\ Same(ReadBalance(r).row) /\ ReadBalance(r).logged = ExpiryLog(r)
<1> DEFINE e == Expired(r)
           Same(q) == q.free = r.free /\ Total(q) = Total(r) + ExpiryLog(r)
           Moves(q) == q.free = e.free /\ q.roll = e.roll /\ q.sub = e.sub /\ q.purch = e.purch
<1>1. e \in Row /\ Total(e) = Total(r) + ExpiryLog(r) /\ e.free = r.free
  BY ExpiryExact, FreeOfOthers
<1>2. ASSUME NEW q, Moves(q) PROVE Same(q)
  <2>1. Total(q) = Total(e)
    BY <1>2 DEF Total
  <2>2. QED
    BY <1>1, <1>2, <2>1
<1>3. Moves(SetCap(r, n).row) /\ SetCap(r, n).logged = ExpiryLog(r)
  <2> DEFINE opens == n # NoCap /\ e.period = "never"
             period == IF opens THEN "fresh" ELSE e.period
             counted == IF opens THEN 0 ELSE e.counted
             c == [e EXCEPT !.cap = n, !.period = period, !.counted = counted]
  <2>1. SetCap(r, n).row = c /\ SetCap(r, n).logged = ExpiryLog(r)
    BY DEF SetCap, Leaves
  <2> HIDE DEF e, period, counted
  <2>2. Moves(c)
    BY <1>1 DEF Row
  <2> HIDE DEF c
  <2>3. QED
    BY <2>1, <2>2
<1>4. Moves(SetAutoTopup(r, n = 1).row) /\ SetAutoTopup(r, n = 1).logged = ExpiryLog(r)
  <2> DEFINE c == [e EXCEPT !.armed = (n = 1)]
  <2>1. SetAutoTopup(r, n = 1).row = c /\ SetAutoTopup(r, n = 1).logged = ExpiryLog(r)
    BY DEF SetAutoTopup, Leaves
  <2> HIDE DEF e
  <2>2. Moves(c)
    BY <1>1 DEF Row
  <2> HIDE DEF c
  <2>3. QED
    BY <2>1, <2>2
<1>5. Moves(StoreCard(r).row) /\ StoreCard(r).logged = ExpiryLog(r)
  <2> DEFINE c == [e EXCEPT !.card = TRUE]
  <2>1. StoreCard(r).row = c /\ StoreCard(r).logged = ExpiryLog(r)
    BY DEF StoreCard, Leaves
  <2> HIDE DEF e
  <2>2. Moves(c)
    BY <1>1 DEF Row
  <2> HIDE DEF c
  <2>3. QED
    BY <2>1, <2>2
<1>6. Moves(ClaimTopup(r).row) /\ ClaimTopup(r).logged = ExpiryLog(r)
  <2>1. /\ ClaimTopup(r).row \in {e, [e EXCEPT !.charge = "fresh"]}
        /\ ClaimTopup(r).logged = ExpiryLog(r)
    BY DEF ClaimTopup, Leaves
  <2> HIDE DEF e
  <2>2. Moves([e EXCEPT !.charge = "fresh"]) /\ Moves(e)
    BY <1>1 DEF Row
  <2>3. QED
    BY <2>1, <2>2
<1>7. Moves(ReadBalance(r).row) /\ ReadBalance(r).logged = ExpiryLog(r)
  BY DEF ReadBalance, Leaves
<1> HIDE DEF Moves, e
<1>8. QED
  BY <1>2, <1>3, <1>4, <1>5, <1>6, <1>7

LEMMA AmountsOf ==
  ASSUME NEW k \in Kinds, NEW n \in Args(k)
  PROVE  k \in {"spend", "record", "credit", "clawback", "allocate", "tier"} => n \in Nat
BY AmountsAssumption DEF Args

(* What a balanced operation logs is what it moves.                         *)
LEMMA OutcomeExact ==
  ASSUME NEW r \in Row, NEW k \in Balanced, NEW n \in Args(k)
  PROVE  Total(Result(k, n, r).row) = Total(r) + Result(k, n, r).logged
<1>1. k \in {"spend", "credit", "clawback"} => n \in Nat
  BY AmountsOf DEF Balanced
<1>2. CASE k = "spend"
  BY <1>1, <1>2, TrySpendExact DEF Result
<1>3. CASE k = "credit"
  <2>1. ExpiryLog(r) \in Int /\ Total(r) \in Nat
    BY ExpiryExact, TotalIsNat
  <2>2. Result(k, n, r) = AddPurchased(r, n)
    BY <1>3 DEF Result
  <2>3. Total(AddPurchased(r, n).row) = Total(r) + ExpiryLog(r) + n /\ AddPurchased(r, n).logged = ExpiryLog(r) + n
    BY <1>1, <1>3, AddPurchasedExact
  <2>4. QED
    BY <1>1, <1>3, <2>1, <2>2, <2>3
<1>4. CASE k = "clawback"
  BY <1>1, <1>4, ClawBackExact DEF Result
<1>5. CASE k \in {"cap", "arm", "card", "topup", "read"}
  <2>1. Result(k, n, r) \in {SetCap(r, n), SetAutoTopup(r, n = 1), StoreCard(r), ClaimTopup(r), ReadBalance(r)}
    BY <1>5 DEF Result
  <2>2. QED
    BY <2>1, SettingsExact
<1>6. QED
  BY <1>2, <1>3, <1>4, <1>5 DEF Balanced, Kinds

(* Only a spend and the welcome grant write the free tokens, and no spend   *)
(* adds to them.                                                            *)
LEMMA OutcomeFree ==
  ASSUME NEW r \in Row, NEW k \in Kinds \ {"welcome"}, NEW n \in Args(k)
  PROVE  /\ Result(k, n, r).row.free <= r.free
         /\ k \notin {"spend", "record"} => Result(k, n, r).row.free = r.free
<1>0. r.free \in Nat
  BY DEF Row
<1>1. k \in {"spend", "record", "credit", "clawback", "allocate", "tier"} => n \in Nat
  BY AmountsOf
<1> DEFINE e == Expired(r)
<1>2. e \in Row /\ e.free = r.free
  BY ExpiryExact, FreeOfOthers
<1>3. CASE k = "spend"
  <2> DEFINE w == OpenWindow(e)
             d == Deduct(w, n)
             c == IF e.cap # NoCap THEN d.counted + n ELSE d.counted
             paid == [d EXCEPT !.counted = c]
  <2>1. w \in Row /\ w.free = r.free
    BY <1>2, WindowExact, FreeOfOthers
  <2>2. d \in Row /\ d.free <= r.free
    BY <1>1, <1>3, <2>1, DeductExact, DeductFree
  <2>3. TrySpend(r, n).row \in {e, w, paid}
    BY DEF TrySpend, Leaves
  <2> HIDE DEF e, w, d, c
  <2>4. paid.free = d.free
    BY <2>2 DEF Row
  <2>5. Result(k, n, r) = TrySpend(r, n)
    BY <1>3 DEF Result
  <2> HIDE DEF paid
  <2>6. TrySpend(r, n).row.free <= r.free
    BY <1>0, <1>2, <2>1, <2>2, <2>3, <2>4
  <2>7. QED
    BY <1>3, <2>5, <2>6
<1>4. CASE k = "record"
  BY <1>1, <1>4, RecordExact DEF Result
<1>5. CASE k = "credit"
  BY <1>0, <1>1, <1>5, AddPurchasedExact DEF Result
<1>6. CASE k = "clawback"
  BY <1>0, <1>1, <1>6, ClawBackExact DEF Result
<1>7. CASE k = "allocate"
  <2> DEFINE base == IF e.sub > 0 THEN [e EXCEPT !.roll = e.sub, !.rollExp = "fresh"] ELSE e
             out == Leaves([base EXCEPT !.sub = n], ExpiryLog(r) + n, TRUE)
  <2>1. Result(k, n, r) = [out EXCEPT !.stamped = e.sub > 0]
    BY <1>7 DEF Result, AddSubscription
  <2> HIDE DEF e
  <2>2. base \in [free: Nat, roll: Nat, rollExp: Ages, sub: Nat, purch: Nat,
                  cap: Nat \cup {NoCap}, period: Ages, counted: Nat,
                  armed: BOOLEAN, card: BOOLEAN, charge: Ages] /\ base.free = r.free
    BY <1>2, Ageing DEF Row
  <2> HIDE DEF base
  <2>3. [base EXCEPT !.sub = n].free = r.free
    BY <2>2
  <2>4. Result(k, n, r).row.free = r.free
    BY <2>1, <2>3 DEF Leaves
  <2>5. QED
    BY <1>0, <2>4
<1>8. CASE k = "tier"
  <2>1. Result(k, n, r).row = [e EXCEPT !.sub = n, !.roll = 0, !.rollExp = "never"]
    BY <1>8 DEF Result, SetTestTier, Leaves
  <2> HIDE DEF e
  <2>2. Result(k, n, r).row.free = r.free
    BY <1>2, <2>1 DEF Row
  <2>3. QED
    BY <1>0, <2>2
<1>9. CASE k \in {"cap", "arm", "card", "topup", "read"}
  <2>1. Result(k, n, r) \in {SetCap(r, n), SetAutoTopup(r, n = 1), StoreCard(r), ClaimTopup(r), ReadBalance(r)}
    BY <1>9 DEF Result
  <2>2. Result(k, n, r).row.free = r.free
    BY <2>1, SettingsExact
  <2>3. QED
    BY <1>0, <2>2
<1>10. QED
  BY <1>3, <1>4, <1>5, <1>6, <1>7, <1>8, <1>9 DEF Kinds

(* A commit that overwrites nobody's bucket moves what its session meant to.*)
LEMMA MergeUnclobbered ==
  ASSUME NEW now \in Row, NEW old \in Row, NEW out, out.row \in Row, ~Overwrites(now, old, out.row)
  PROVE  Total(Merge(now, old, out)) = Total(now) + Total(out.row) - Total(old)
<1> DEFINE m == Merge(now, old, out)
           new == out.row
<1>1. /\ new.free # old.free => now.free = old.free
      /\ new.roll # old.roll => now.roll = old.roll
      /\ new.sub # old.sub => now.sub = old.sub
      /\ new.purch # old.purch => now.purch = old.purch
  BY DEF Overwrites, Buckets
<1>2. /\ m.free = (IF new.free # old.free THEN new.free ELSE now.free)
      /\ m.roll = (IF new.roll # old.roll THEN new.roll ELSE now.roll)
      /\ m.sub = (IF new.sub # old.sub THEN new.sub ELSE now.sub)
      /\ m.purch = (IF new.purch # old.purch THEN new.purch ELSE now.purch)
  BY DEF Merge, Written
<1>3. /\ new.free \in Nat /\ old.free \in Nat /\ now.free \in Nat
      /\ new.roll \in Nat /\ old.roll \in Nat /\ now.roll \in Nat
      /\ new.sub \in Nat /\ old.sub \in Nat /\ now.sub \in Nat
      /\ new.purch \in Nat /\ old.purch \in Nat /\ now.purch \in Nat
  BY DEF Row
<1> HIDE DEF m, new
<1>4. /\ m.free = now.free + new.free - old.free
      /\ m.roll = now.roll + new.roll - old.roll
      /\ m.sub = now.sub + new.sub - old.sub
      /\ m.purch = now.purch + new.purch - old.purch
  BY <1>1, <1>2, <1>3
<1>5. Total(m) = Total(now) + Total(new) - Total(old)
  BY <1>3, <1>4 DEF Total
<1>6. QED
  BY <1>5 DEF m, new
------------------------------------------------------------------------------
(* Which operations are running, when only those of S can be started.        *)
Uses(S) == \A s \in Sessions : pc[s] # "idle" => txn[s].kind \in S

Followed(S) == Ops \subseteq S /\ \A k \in S, ok \in BOOLEAN : FollowUp(k, ok) \in S \cup {"none"}

LEMMA UsesStays ==
  ASSUME TypeOK, NEW S, Followed(S), Uses(S), NEW s \in Sessions, Step(s)
  PROVE  Uses(S)'
<1>1. pc \in [Sessions -> {"idle", "open", "next"}] /\ txn \in [Sessions -> Txn]
  BY DEF TypeOK
<1>2. CASE \E k \in Ops : \E u \in Users : \E n \in Args(k) : Begin(s, k, u, n)
  <2>1. PICK k \in Ops : \E u \in Users : \E n \in Args(k) : Begin(s, k, u, n)
    BY <1>2
  <2>2. PICK u \in Users, n \in Args(k) : Begin(s, k, u, n)
    BY <2>1
  <2>3. pc' = [pc EXCEPT ![s] = "open"] /\ \A x \in Sessions \ {s} : txn'[x] = txn[x]
    BY <1>1, <2>2 DEF Begin, Read
  <2>4. txn'[s].kind = k /\ k \in S
    BY <1>1, <2>2 DEF Begin, Read, Followed
  <2>5. QED
    BY <1>1, <2>3, <2>4 DEF Uses
<1>3. CASE Continue(s)
  <2>1. pc' = [pc EXCEPT ![s] = "open"] /\ \A x \in Sessions \ {s} : txn'[x] = txn[x]
    BY <1>1, <1>3 DEF Continue, Read
  <2>2. txn'[s].kind = txn[s].kind /\ pc[s] # "idle"
    BY <1>1, <1>3 DEF Continue, Read
  <2>3. QED
    BY <1>1, <2>1, <2>2 DEF Uses
<1>4. CASE Commit(s) /\ ~Close(s)
  <2> DEFINE k == FollowUp(txn[s].kind, Effect(s).ok)
             c == [Closed EXCEPT !.kind = k, !.user = txn[s].user]
  <2>1. pc' = [pc EXCEPT ![s] = "next"] /\ txn' = [txn EXCEPT ![s] = c] /\ k # "none" /\ pc[s] = "open"
    BY <1>4 DEF Commit
  <2>2. k \in S
    <3>1. txn[s].kind \in S
      BY <2>1 DEF Uses
    <3>2. k \in {FollowUp(txn[s].kind, TRUE), FollowUp(txn[s].kind, FALSE)}
      BY DEF FollowUp
    <3> HIDE DEF k
    <3>3. QED
      BY <2>1, <3>1, <3>2 DEF Followed
  <2> HIDE DEF k
  <2>3. c.kind = k
    BY ClosedType DEF Txn
  <2> HIDE DEF c
  <2>4. QED
    BY <1>1, <2>1, <2>2, <2>3 DEF Uses
<1>5. CASE Close(s)
  BY <1>1, <1>5 DEF Close, Uses
<1>6. QED
  BY <1>2, <1>3, <1>4, <1>5 DEF Step, Rollback

(* What a session leaves of the tables, and what the clock does.            *)
LEMMA StepDoes ==
  ASSUME NEW s \in Sessions, Step(s)
  PROVE  Commit(s) \/ UNCHANGED <<present, rows, ledger>>
BY DEF Step, Begin, Read, Continue, Rollback

LEMMA CommitDoes ==
  ASSUME TypeOK, NEW s \in Sessions, Commit(s)
  PROVE  LET t == txn[s]
         IN  /\ t \in Txn /\ t.user \in Users /\ t.old \in Row /\ t.kind \in Kinds /\ t.arg \in Args(t.kind)
             /\ Effect(s) = Result(t.kind, t.arg, t.old)
             /\ Effect(s).row \in Row /\ Effect(s).logged \in Int
             /\ rows'[t.user] = Merge(rows[t.user], t.old, Effect(s))
             /\ ledger'[t.user] = ledger[t.user] + Effect(s).logged
             /\ \A u \in Users \ {t.user} : rows'[u] = rows[u] /\ ledger'[u] = ledger[u]
             /\ present' = present \cup {t.user}
             /\ t.created => t.user \notin present
             /\ pc[s] = "open"
<1>1. txn[s] \in Txn /\ txn[s].arg \in Args(txn[s].kind)
  BY DEF TypeOK
<1>2. Effect(s).row \in Row /\ Effect(s).logged \in Int
  BY EffectType
<1>3. txn[s].user \in Users /\ txn[s].old \in Row /\ txn[s].kind \in Kinds
  BY <1>1 DEF Txn
<1>4. /\ rows' = [rows EXCEPT ![txn[s].user] = Merge(@, txn[s].old, Effect(s))]
      /\ ledger' = [ledger EXCEPT ![txn[s].user] = @ + Effect(s).logged]
      /\ present' = present \cup {txn[s].user}
      /\ ~Clashes(txn[s]) /\ pc[s] = "open"
  BY DEF Commit
<1>5. rows \in [Users -> Row] /\ ledger \in [Users -> Int]
  BY DEF TypeOK
<1>6. QED
  BY <1>1, <1>2, <1>3, <1>4, <1>5 DEF Effect, Clashes

LEMMA LapseDoes ==
  ASSUME TypeOK, NEW v \in Users, Lapse(v)
  PROVE  /\ UNCHANGED <<present, ledger, pc, txn, budget>>
         /\ \A u \in Users : SameWallet(rows[u], rows'[u])
         /\ \A was : \A u \in Users : SameWallet(was, rows[u]) => SameWallet(was, rows'[u])
<1>1. UNCHANGED <<present, ledger, pc, txn, budget>>
  BY DEF Lapse, RolloverLapses, CapWindowLapses, ChargeWindowLapses
<1>2. rows \in [Users -> Row]
  BY DEF TypeOK
<1>3. \/ rows[v].rollExp = "fresh" /\ rows' = [rows EXCEPT ![v] = [rows[v] EXCEPT !.rollExp = "lapsed"]]
      \/ rows[v].period = "fresh" /\ rows' = [rows EXCEPT ![v] = [rows[v] EXCEPT !.period = "lapsed"]]
      \/ rows[v].charge = "fresh" /\ rows' = [rows EXCEPT ![v] = [rows[v] EXCEPT !.charge = "lapsed"]]
  BY DEF Lapse, RolloverLapses, CapWindowLapses, ChargeWindowLapses
<1>4. \A was : SameWallet(was, rows[v]) => SameWallet(was, rows'[v])
  BY <1>2, <1>3 DEF SameWallet, Older, Row
<1>5. \A u \in Users : u # v => rows'[u] = rows[u]
  BY <1>2, <1>3
<1>6. \A was : \A u \in Users : SameWallet(was, rows[u]) => SameWallet(was, rows'[u])
  BY <1>4, <1>5
<1>7. QED
  BY <1>1, <1>6, SameWalletReflexive

LEMMA SameTotals ==
  ASSUME NEW r, NEW q, SameWallet(r, q)
  PROVE  Total(r) = Total(q) /\ r.free = q.free
BY DEF SameWallet, Total
------------------------------------------------------------------------------
(* The wallet implements the abstract account, where every commit is that of *)
(* a spend or of a top-up's claim, and rows are locked.                      *)
LEMMA SpendsAreClosed == ASSUME Ops \subseteq {"spend"} PROVE Followed({"spend", "topup"})
BY DEF Followed, FollowUp

AccountInv == LockInv /\ Uses({"spend", "topup"})

LEMMA AccountInvHolds ==
  ASSUME Ops \subseteq {"spend"}
  PROVE  Spec => []AccountInv
<1>1. Init => AccountInv
  BY InitLocks DEF AccountInv, Uses, Init
<1>2. AccountInv /\ [Next]_vars => AccountInv'
  <2> SUFFICES ASSUME AccountInv, [Next]_vars PROVE Uses({"spend", "topup"})'
    BY NextLocks DEF AccountInv
  <2>1. ASSUME NEW s \in Sessions, Step(s) PROVE Uses({"spend", "topup"})'
    BY <2>1, SpendsAreClosed, UsesStays DEF AccountInv, LockInv
  <2>2. ASSUME UNCHANGED <<pc, txn>> PROVE Uses({"spend", "topup"})'
    BY <2>2 DEF AccountInv, Uses
  <2>3. ASSUME NEW u \in Users, Lapse(u) PROVE UNCHANGED <<pc, txn>>
    BY <2>3 DEF Lapse, RolloverLapses, CapWindowLapses, ChargeWindowLapses
  <2>4. QED
    BY <2>1, <2>2, <2>3 DEF Next, vars
<1>3. QED
  BY <1>1, <1>2, PTL DEF Spec

LEMMA CommitPosts ==
  ASSUME AccountInv, AccountInv', Locking, NEW s \in Sessions, Commit(s)
  PROVE  \E u \in Users : Account!Post(u)
<1> DEFINE u == txn[s].user
           k == txn[s].kind
           old == txn[s].old
<1>1. TypeOK /\ TypeOK'
  BY DEF AccountInv, LockInv
<1>2. /\ u \in Users /\ old \in Row /\ k \in {"spend", "topup"} /\ txn[s].arg \in Args(k)
      /\ Effect(s) = Result(k, txn[s].arg, old) /\ Effect(s).row \in Row /\ Effect(s).logged \in Int
      /\ rows'[u] = Merge(rows[u], old, Effect(s))
      /\ ledger'[u] = ledger[u] + Effect(s).logged
      /\ \A v \in Users \ {u} : rows'[v] = rows[v] /\ ledger'[v] = ledger[v]
  <2>1. k \in {"spend", "topup"}
    BY DEF AccountInv, Uses, Commit
  <2>2. QED
    BY <1>1, <2>1, CommitDoes
<1>3. SameWallet(old, rows[u])
  BY <1>2, SpenderIsCurrent DEF AccountInv, LockedKinds
<1>4. Total(Effect(s).row) = Total(old) + Effect(s).logged
  BY <1>2, OutcomeExact DEF Balanced, Kinds
<1>5. Total(rows'[u]) = Total(rows[u]) + Effect(s).logged
  <2>1. Total(rows[u]) = Total(old)
    BY <1>3, SameTotals
  <2>2. Total(rows'[u]) = Total(Effect(s).row)
    BY <1>2, <1>3, MergeOfCurrent DEF Total
  <2>3. QED
    BY <1>4, <2>1, <2>2
<1>6. /\ rows \in [Users -> Row] /\ rows' \in [Users -> Row]
      /\ ledger \in [Users -> Int] /\ ledger' \in [Users -> Int]
  BY <1>1 DEF TypeOK
<1>7. Total(rows'[u]) \in Nat /\ Total(rows[u]) \in Nat
  BY <1>2, <1>6, TotalIsNat
<1> DEFINE balance == [v \in Users |-> Total(rows[v])]
           after   == [v \in Users |-> Total(rows'[v])]
<1>8. after[u] \in Nat /\ after = [balance EXCEPT ![u] = after[u]]
  <2>1. \A v \in Users : after[v] = IF v = u THEN after[u] ELSE balance[v]
    BY <1>2
  <2>2. QED
    BY <1>2, <1>7, <2>1
<1>9. ledger' = [ledger EXCEPT ![u] = @ + after[u] - balance[u]]
  <2>1. after[u] = balance[u] + Effect(s).logged /\ balance[u] \in Int /\ Effect(s).logged \in Int
        /\ ledger[u] \in Int
    BY <1>2, <1>5, <1>6, <1>7
  <2> HIDE DEF after, balance
  <2>2. ledger'[u] = ledger[u] + after[u] - balance[u]
    BY <1>2, <2>1
  <2>3. QED
    BY <1>2, <1>6, <2>2
<1>10. QED
  BY <1>2, <1>8, <1>9 DEF Account!Post

(* Refinement: with row locks, where all that moves tokens is a spend and    *)
(* what it triggers, a wallet is the account credits/models.py promises:     *)
(* it moves only with its ledger, by the same amount, and is never overdrawn *)
(* (try_spend, maybe_autotopup).                                             *)
THEOREM WalletIsAnAccount ==
  ASSUME Locking, Ops \subseteq {"spend"}
  PROVE  Spec => AccountSpec
<1>1. Init => Account!Init
  BY DEF Init, Account!Init
<1>2. AccountInv /\ AccountInv' /\ [Next]_vars => [Account!Next]_(Account!vars)
  <2> SUFFICES ASSUME AccountInv, AccountInv', [Next]_vars
               PROVE  Account!Next \/ UNCHANGED Account!vars
    OBVIOUS
  <2>1. ASSUME UNCHANGED <<rows, ledger>> PROVE UNCHANGED Account!vars
    BY <2>1 DEF Account!vars
  <2>2. ASSUME NEW s \in Sessions, Step(s) PROVE Account!Next \/ UNCHANGED Account!vars
    <3>1. CASE Commit(s)
      BY <3>1, CommitPosts DEF Account!Next
    <3>2. CASE UNCHANGED <<rows, ledger>>
      BY <2>1, <3>2
    <3>3. QED
      BY <2>2, <3>1, <3>2, StepDoes
  <2>3. ASSUME NEW v \in Users, Lapse(v) PROVE UNCHANGED Account!vars
    <3>1. ledger' = ledger /\ \A u \in Users : Total(rows'[u]) = Total(rows[u])
      BY <2>3, LapseDoes, SameTotals DEF AccountInv, LockInv
    <3>2. QED
      BY <3>1 DEF Account!vars
  <2>4. QED
    BY <2>1, <2>2, <2>3 DEF Next, vars
<1>3. QED
  BY <1>1, <1>2, AccountInvHolds, PTL DEF Spec, AccountSpec, Account!Spec
------------------------------------------------------------------------------
(* The types of transfers and resets, and what is known of one that is open: *)
(* the buyer owns a wallet, is not the seller, and could pay when read.      *)
Sale == [phase: {"idle", "debited", "credited"}, buyer: Users, seller: Users, amount: Nat,
         cut: Nat, paid: Row, credited: Row, created: BOOLEAN]

Selling(t) == sale[t].phase # "idle" =>
                /\ sale[t].buyer \in present /\ sale[t].buyer # sale[t].seller
                /\ Total(Expired(sale[t].paid)) >= sale[t].amount

Sweeping == /\ sweep.open \in BOOLEAN /\ sweep.old \in [Users -> Row]
            /\ sweep.over \subseteq present

(* A welcome grant is a session that makes the wallet.                       *)
Born == \A s \in Sessions : txn[s].kind = "welcome" => txn[s].created

Holdings == /\ TypeOK
            /\ sale \in [Sales -> Sale]
            /\ \A t \in Sales : Selling(t)
            /\ Sweeping /\ Born
            /\ given \subseteq present

LEMMA NoSaleIsIdle == NoSale \in Sale /\ NoSale.phase = "idle"
BY ClosedType DEF NoSale, Sale, Txn

(* The tables change, and no session does.                                   *)
LEMMA TablesType ==
  ASSUME TypeOK, UNCHANGED <<pc, txn>>, present' \in SUBSET Users, rows' \in [Users -> Row],
         \A u \in Users \ present' : rows'[u] = EmptyRow, ledger' \in [Users -> Int], budget' \in Nat
  PROVE  TypeOK'
BY DEF TypeOK

LEMMA SessionsHoldings ==
  ASSUME Holdings, TypeOK', UNCHANGED <<sale, sweep, given>>, present \subseteq present', Born'
  PROVE  Holdings'
BY DEF Holdings, Selling, Sweeping

LEMMA BornStays ==
  ASSUME Holdings, NEW s \in Sessions, Step(s)
  PROVE  Born'
<1>1. pc \in [Sessions -> {"idle", "open", "next"}] /\ txn \in [Sessions -> Txn]
  BY DEF Holdings, TypeOK
<1>2. CASE \E k \in Ops : \E u \in Users : \E n \in Args(k) : Begin(s, k, u, n)
  <2>1. PICK k \in Ops : \E u \in Users : \E n \in Args(k) : Begin(s, k, u, n)
    BY <1>2
  <2>2. PICK u \in Users, n \in Args(k) : Begin(s, k, u, n)
    BY <2>1
  <2>3. \A x \in Sessions \ {s} : txn'[x] = txn[x]
    BY <1>1, <2>2 DEF Begin, Read
  <2>4. txn'[s].kind = k /\ txn'[s].created = (u \notin present)
    BY <1>1, <2>2 DEF Begin, Read
  <2>5. k = "welcome" => u \notin present
    BY <2>2 DEF Begin
  <2>6. QED
    BY <2>3, <2>4, <2>5 DEF Holdings, Born
<1>3. CASE Continue(s)
  <2>1. \A x \in Sessions \ {s} : txn'[x] = txn[x]
    BY <1>1, <1>3 DEF Continue, Read
  <2>2. txn'[s].kind = txn[s].kind /\ txn[s].kind \in {"topup", "read"}
    BY <1>1, <1>3 DEF Continue, Read, Holdings, TypeOK
  <2>3. QED
    BY <2>1, <2>2 DEF Holdings, Born
<1>4. CASE Commit(s) /\ ~Close(s)
  <2> DEFINE k == FollowUp(txn[s].kind, Effect(s).ok)
             c == [Closed EXCEPT !.kind = k, !.user = txn[s].user]
  <2>1. txn' = [txn EXCEPT ![s] = c] /\ k \in {"topup", "read"}
    BY <1>4 DEF Commit, FollowUp
  <2> HIDE DEF k
  <2>2. c.kind = k
    BY ClosedType DEF Txn
  <2> HIDE DEF c
  <2>3. QED
    BY <1>1, <2>1, <2>2 DEF Holdings, Born
<1>5. CASE Close(s)
  <2>1. Closed.kind = "read"
    BY DEF Closed
  <2>2. QED
    BY <1>1, <1>5, <2>1 DEF Close, Holdings, Born
<1>6. QED
  BY <1>2, <1>3, <1>4, <1>5 DEF Step, Rollback

LEMMA BesideHoldings ==
  ASSUME Holdings, NEW s \in Sessions, Beside(s)
  PROVE  Holdings'
<1>1. Step(s) /\ UNCHANGED <<sale, sweep>>
  BY DEF Beside
<1>2. TypeOK /\ TypeOK' /\ Born'
  BY <1>1, StepType, BornStays DEF Holdings
<1>3. present \subseteq present' /\ given' \subseteq present'
  <2>1. CASE Commit(s)
    <3>1. present' = present \cup {txn[s].user}
      BY <2>1 DEF Commit
    <3>2. given' \subseteq given \cup {txn[s].user}
      BY DEF Beside
    <3>3. QED
      BY <3>1, <3>2 DEF Holdings
  <2>2. CASE ~Commit(s)
    BY <1>1, <2>2, StepDoes DEF Beside, Holdings
  <2>3. QED
    BY <2>1, <2>2
<1>4. QED
  BY <1>1, <1>2, <1>3 DEF Holdings, Selling, Sweeping

(* What the steps of a transfer do.                                          *)
LEMMA DebitDoes ==
  ASSUME Holdings, NEW t \in Sales, NEW b \in Users, NEW s \in Users, NEW n \in Amounts,
         Debit(t, b, s, n)
  PROVE  /\ sale'[t] \in Sale /\ sale'[t].phase = "debited" /\ sale'[t].buyer = b
         /\ sale'[t].seller = s /\ sale'[t].amount = n /\ sale'[t].paid = rows[b]
         /\ \A x \in Sales \ {t} : sale'[x] = sale[x]
         /\ sale' \in [Sales -> Sale]
<1>1. PICK cut \in 0 .. n :
        sale' = [sale EXCEPT ![t] = [NoSale EXCEPT !.phase = "debited", !.buyer = b, !.seller = s,
                                       !.amount = n, !.cut = cut, !.paid = rows[b]]]
  BY DEF Debit
<1> DEFINE new == [NoSale EXCEPT !.phase = "debited", !.buyer = b, !.seller = s,
                                 !.amount = n, !.cut = cut, !.paid = rows[b]]
<1>2. n \in Nat /\ cut \in Nat /\ rows[b] \in Row
  BY AmountsAssumption DEF Holdings, TypeOK
<1>3. /\ new \in Sale /\ new.phase = "debited" /\ new.buyer = b
      /\ new.seller = s /\ new.amount = n /\ new.paid = rows[b]
  BY <1>2, NoSaleIsIdle DEF Sale
<1>4. sale' = [sale EXCEPT ![t] = new] /\ sale \in [Sales -> Sale]
  BY <1>1 DEF Holdings
<1>5. sale'[t] = new
  BY <1>4
<1> HIDE DEF new
<1>6. QED
  BY <1>3, <1>4, <1>5

LEMMA ReadSellerDoes ==
  ASSUME Holdings, NEW t \in Sales, ReadSeller(t)
  PROVE  /\ sale'[t] \in Sale /\ sale[t].phase = "debited" /\ sale'[t].phase = "credited"
         /\ sale'[t].buyer = sale[t].buyer /\ sale'[t].seller = sale[t].seller
         /\ sale'[t].amount = sale[t].amount /\ sale'[t].paid = sale[t].paid
         /\ \A x \in Sales \ {t} : sale'[x] = sale[x]
         /\ sale' \in [Sales -> Sale]
<1> DEFINE read == rows[sale[t].seller]
           made == sale[t].seller \notin present
           new  == [sale[t] EXCEPT !.phase = "credited", !.credited = read, !.created = made]
<1>1. sale[t] \in Sale /\ read \in Row /\ made \in BOOLEAN /\ sale \in [Sales -> Sale]
  BY DEF Holdings, Sale, TypeOK
<1>2. sale' = [sale EXCEPT ![t] = new]
  BY <1>1 DEF ReadSeller
<1> HIDE DEF read, made
<1>3. /\ new \in Sale /\ new.phase = "credited" /\ new.buyer = sale[t].buyer
      /\ new.seller = sale[t].seller /\ new.amount = sale[t].amount /\ new.paid = sale[t].paid
  BY <1>1 DEF Sale
<1> HIDE DEF new
<1>4. QED
  BY <1>1, <1>2, <1>3 DEF ReadSeller

LEMMA EndedSale ==
  ASSUME sale \in [Sales -> Sale], NEW t \in Sales, sale' = [sale EXCEPT ![t] = NoSale]
  PROVE  /\ sale' \in [Sales -> Sale] /\ sale'[t].phase = "idle"
         /\ \A x \in Sales \ {t} : sale'[x] = sale[x]
BY NoSaleIsIdle

LEMMA LandDoes ==
  ASSUME Holdings, NEW t \in Sales, Land(t)
  PROVE  LET b == sale[t].buyer
             s == sale[t].seller
         IN  /\ b \in Users /\ s \in Users /\ b # s /\ b \in present
             /\ sale[t].paid \in Row /\ sale[t].credited \in Row
             /\ sale[t].amount \in Nat /\ sale[t].cut \in Nat
             /\ Total(Expired(sale[t].paid)) >= sale[t].amount
             /\ Debited(t).row \in Row /\ Credited(t).row \in Row
             /\ Debited(t).logged \in Int /\ Credited(t).logged \in Int
             /\ rows'[b] = Merge(rows[b], sale[t].paid, Debited(t))
             /\ rows'[s] = Merge(rows[s], sale[t].credited, Credited(t))
             /\ ledger'[b] = ledger[b] + Debited(t).logged
             /\ ledger'[s] = ledger[s] + Credited(t).logged
             /\ \A u \in Users \ {b, s} : rows'[u] = rows[u] /\ ledger'[u] = ledger[u]
             /\ rows' \in [Users -> Row] /\ ledger' \in [Users -> Int]
             /\ present' = present \cup {s} /\ ~Locked(s)
             /\ UNCHANGED <<pc, txn, budget, sweep, given>>
<1> DEFINE b == sale[t].buyer
           s == sale[t].seller
<1>1. /\ sale[t] \in Sale /\ sale[t].phase = "credited" /\ Selling(t) /\ TypeOK
      /\ rows \in [Users -> Row] /\ ledger \in [Users -> Int]
  BY DEF Holdings, Land, TypeOK
<1>2. /\ b \in Users /\ s \in Users /\ b # s /\ b \in present
      /\ sale[t].paid \in Row /\ sale[t].credited \in Row
      /\ sale[t].amount \in Nat /\ sale[t].cut \in Nat
      /\ Total(Expired(sale[t].paid)) >= sale[t].amount
  BY <1>1 DEF Sale, Selling
<1>3. /\ Debited(t).row \in Row /\ Credited(t).row \in Row
      /\ Debited(t).logged \in Int /\ Credited(t).logged \in Int
  <2>1. ExpiryLog(sale[t].paid) \in Int /\ ExpiryLog(sale[t].credited) \in Int
    BY <1>2, ExpiryExact
  <2>2. /\ Debited(t).row \in Row /\ Debited(t).logged = ExpiryLog(sale[t].paid) - sale[t].amount
    BY <1>2, RecordExact DEF Debited
  <2>3. /\ Credited(t).row \in Row /\ Credited(t).logged = ExpiryLog(sale[t].credited) + sale[t].cut
    BY <1>2, AddPurchasedExact DEF Credited
  <2>4. QED
    BY <1>2, <2>1, <2>2, <2>3
<1> DEFINE mb == Merge(rows[b], sale[t].paid, Debited(t))
           ms == Merge(rows[s], sale[t].credited, Credited(t))
<1>4. mb \in Row /\ ms \in Row
  BY <1>1, <1>2, <1>3, MergeType
<1>5. /\ rows' = [rows EXCEPT ![b] = mb, ![s] = ms]
      /\ ledger' = [ledger EXCEPT ![b] = ledger[b] + Debited(t).logged, ![s] = ledger[s] + Credited(t).logged]
      /\ present' = present \cup {s} /\ ~Locked(s)
      /\ UNCHANGED <<pc, txn, budget, sweep, given>>
  BY <1>1, <1>2 DEF Land
<1> HIDE DEF mb, ms
<1>6. /\ rows' \in [Users -> Row] /\ rows'[b] = mb /\ rows'[s] = ms
      /\ \A u \in Users \ {b, s} : rows'[u] = rows[u]
  BY <1>1, <1>2, <1>4, <1>5
<1>7. /\ ledger' \in [Users -> Int]
      /\ ledger'[b] = ledger[b] + Debited(t).logged /\ ledger'[s] = ledger[s] + Credited(t).logged
      /\ \A u \in Users \ {b, s} : ledger'[u] = ledger[u]
  BY <1>1, <1>2, <1>3, <1>5
<1>8. QED
  BY <1>2, <1>3, <1>5, <1>6, <1>7 DEF mb, ms

LEMMA TradeHoldings ==
  ASSUME Holdings, NEW t \in Sales, Trade(t)
  PROVE  Holdings'
<1>1. ASSUME UNCHANGED <<present, rows, ledger, pc, txn>>, budget' \in Nat PROVE TypeOK' /\ Born'
  BY <1>1 DEF Holdings, TypeOK, Born
<1>2. CASE \E b \in Users, s \in Users, n \in Amounts : Debit(t, b, s, n)
  <2>1. PICK b \in Users, s \in Users, n \in Amounts : Debit(t, b, s, n)
    BY <1>2
  <2>2. /\ UNCHANGED <<present, rows, ledger, pc, txn, sweep, given>> /\ budget' \in Nat
        /\ b # s /\ b \in present /\ Total(Expired(rows[b])) >= n
    BY <2>1 DEF Debit, Holdings, TypeOK
  <2>3. \A x \in Sales : Selling(x)'
    <3>1. Selling(t)'
      <4>1. sale'[t].buyer = b /\ sale'[t].seller = s /\ sale'[t].amount = n /\ sale'[t].paid = rows[b]
        BY <2>1, DebitDoes
      <4>2. QED
        BY <2>2, <4>1 DEF Selling
    <3>2. ASSUME NEW x \in Sales \ {t} PROVE Selling(x)'
      <4>1. sale'[x] = sale[x] /\ Selling(x)
        BY <2>1, DebitDoes DEF Holdings
      <4>2. QED
        BY <2>2, <4>1 DEF Selling
    <3>3. QED
      BY <3>1, <3>2
  <2>4. QED
    BY <1>1, <2>1, <2>2, <2>3, DebitDoes DEF Holdings, Sweeping
<1>3. CASE ReadSeller(t)
  <2>1. UNCHANGED <<present, rows, ledger, pc, txn, sweep, given, budget>>
    BY <1>3 DEF ReadSeller, vars
  <2>2. \A x \in Sales : Selling(x)'
    BY <1>3, <2>1, ReadSellerDoes DEF Holdings, Selling
  <2>3. QED
    BY <1>1, <1>3, <2>1, <2>2, ReadSellerDoes DEF Holdings, Sweeping, TypeOK
<1>4. CASE Land(t)
  <2>1. /\ present' = present \cup {sale[t].seller} /\ sale[t].seller \in Users
        /\ sale[t].buyer \in present /\ rows' \in [Users -> Row] /\ ledger' \in [Users -> Int]
        /\ \A u \in Users \ {sale[t].buyer, sale[t].seller} : rows'[u] = rows[u]
        /\ UNCHANGED <<pc, txn, budget, sweep, given>>
    BY <1>4, LandDoes
  <2>2. TypeOK'
    BY <2>1, TablesType DEF Holdings, TypeOK
  <2>3. sale' \in [Sales -> Sale] /\ sale'[t].phase = "idle" /\ \A x \in Sales \ {t} : sale'[x] = sale[x]
    BY <1>4, EndedSale DEF Land, Holdings
  <2>4. \A x \in Sales : Selling(x)'
    BY <2>1, <2>3 DEF Holdings, Selling
  <2>5. Sweeping' /\ Born' /\ given' \subseteq present'
    BY <2>1 DEF Holdings, Sweeping, Born
  <2>6. QED
    BY <2>2, <2>3, <2>4, <2>5 DEF Holdings
<1>5. CASE Abort(t)
  <2>1. UNCHANGED <<present, rows, ledger, pc, txn, sweep, given, budget>>
    BY <1>5 DEF Abort, vars
  <2>2. sale' \in [Sales -> Sale] /\ sale'[t].phase = "idle" /\ \A x \in Sales \ {t} : sale'[x] = sale[x]
    BY <1>5, EndedSale DEF Abort, Holdings
  <2>3. \A x \in Sales : Selling(x)'
    BY <2>1, <2>2 DEF Holdings, Selling
  <2>4. QED
    BY <1>1, <2>1, <2>2, <2>3 DEF Holdings, Sweeping, TypeOK
<1>6. QED
  BY <1>2, <1>3, <1>4, <1>5 DEF Trade

(* The reset gives each wallet it read that differs the welcome amount.      *)
LEMMA ResetExact ==
  ASSUME NEW r \in Row
  PROVE  /\ Reset(r).row \in Row /\ Reset(r).logged = Welcome - r.free /\ Reset(r).logged \in Int
         /\ Total(Reset(r).row) = Total(r) + Reset(r).logged
         /\ ~Reset(r).stamped /\ (r.free = Welcome => Reset(r).row = r)
<1> DEFINE n == [r EXCEPT !.free = Welcome]
<1>1. Reset(r).row = n /\ Reset(r).logged = Welcome - r.free /\ ~Reset(r).stamped
  BY DEF Reset, Leaves
<1>2. /\ n \in Row /\ n.free = Welcome /\ n.roll = r.roll /\ n.sub = r.sub /\ n.purch = r.purch
      /\ r.free \in Nat /\ r.roll \in Nat /\ r.sub \in Nat /\ r.purch \in Nat
      /\ r.free = Welcome => n = r
  BY WelcomeAssumption DEF Row
<1> HIDE DEF n
<1>3. Total(n) = Total(r) + (Welcome - r.free)
  BY <1>2, WelcomeAssumption DEF Total
<1>4. QED
  BY <1>1, <1>2, <1>3, WelcomeAssumption

LEMMA FinishResetDoes ==
  ASSUME Holdings, FinishReset
  PROVE  /\ \A u \in sweep.over :
              /\ u \in present /\ sweep.old[u] \in Row
              /\ rows'[u] = Merge(rows[u], sweep.old[u], Reset(sweep.old[u]))
              /\ ledger'[u] = ledger[u] + Reset(sweep.old[u]).logged
              /\ Locked(u) => rows'[u] = rows[u]
         /\ \A u \in Users \ sweep.over : rows'[u] = rows[u] /\ ledger'[u] = ledger[u]
         /\ rows' \in [Users -> Row] /\ ledger' \in [Users -> Int]
         /\ UNCHANGED <<present, pc, txn, budget, sale, given>>
         /\ sweep.open /\ ~sweep'.open
<1>1. /\ sweep.over \subseteq present /\ present \subseteq Users /\ sweep.old \in [Users -> Row]
      /\ rows \in [Users -> Row] /\ ledger \in [Users -> Int]
  BY DEF Holdings, Sweeping, TypeOK
<1>2. ASSUME NEW u \in sweep.over
      PROVE  /\ u \in present /\ u \in Users /\ sweep.old[u] \in Row
             /\ Merge(rows[u], sweep.old[u], Reset(sweep.old[u])) \in Row
             /\ ledger[u] + Reset(sweep.old[u]).logged \in Int
             /\ rows'[u] = Merge(rows[u], sweep.old[u], Reset(sweep.old[u]))
             /\ ledger'[u] = ledger[u] + Reset(sweep.old[u]).logged
             /\ Locked(u) => rows'[u] = rows[u]
  <2>1. u \in present /\ u \in Users /\ sweep.old[u] \in Row /\ rows[u] \in Row /\ ledger[u] \in Int
    BY <1>1, <1>2
  <2>2. Merge(rows[u], sweep.old[u], Reset(sweep.old[u])) \in Row
    BY <2>1, ResetExact, MergeType
  <2>3. ledger[u] + Reset(sweep.old[u]).logged \in Int
    BY <2>1, ResetExact
  <2>4. /\ rows'[u] = Merge(rows[u], sweep.old[u], Reset(sweep.old[u]))
        /\ ledger'[u] = ledger[u] + Reset(sweep.old[u]).logged
        /\ sweep.old[u].free # Welcome => ~Locked(u)
    BY <1>2, <2>1 DEF FinishReset
  <2>5. Locked(u) => rows'[u] = rows[u]
    <3>1. SUFFICES ASSUME Locked(u) PROVE rows'[u] = rows[u]
      OBVIOUS
    <3>2. /\ Reset(sweep.old[u]).row = sweep.old[u] /\ ~Reset(sweep.old[u]).stamped
          /\ Reset(sweep.old[u]).row \in Row
      BY <2>1, <2>4, <3>1, ResetExact
    <3>3. Merge(rows[u], sweep.old[u], Reset(sweep.old[u])) = rows[u]
      BY <2>1, <3>2, MergeType
    <3>4. QED
      BY <2>4, <3>3
  <2>6. QED
    BY <2>1, <2>2, <2>3, <2>4, <2>5
<1>3. \A u \in Users \ sweep.over : rows'[u] = rows[u] /\ ledger'[u] = ledger[u]
  BY DEF FinishReset
<1>4. rows' \in [Users -> Row] /\ ledger' \in [Users -> Int]
  <2>1. \A u \in Users : rows'[u] \in Row /\ ledger'[u] \in Int
    BY <1>1, <1>2, <1>3
  <2>2. /\ rows' = [u \in Users |-> rows'[u]] /\ ledger' = [u \in Users |-> ledger'[u]]
    BY DEF FinishReset
  <2>3. QED
    BY <2>1, <2>2
<1>5. UNCHANGED <<present, pc, txn, budget, sale, given>> /\ sweep.open /\ ~sweep'.open
  BY DEF FinishReset, NoSweep
<1>6. QED
  BY <1>2, <1>3, <1>4, <1>5

LEMMA SweepHoldings ==
  ASSUME Holdings, StartReset \/ FinishReset
  PROVE  Holdings'
<1>1. CASE StartReset
  <2>1. /\ UNCHANGED <<present, rows, ledger, pc, txn, sale, given>> /\ budget' \in Nat
        /\ sweep' = [open |-> TRUE, old |-> rows, over |-> present]
    BY <1>1 DEF StartReset, Holdings, TypeOK
  <2>2. TypeOK' /\ Born'
    BY <2>1 DEF Holdings, TypeOK, Born
  <2>3. Sweeping'
    BY <2>1 DEF Sweeping, Holdings, TypeOK
  <2>4. QED
    BY <2>1, <2>2, <2>3 DEF Holdings, Selling
<1>2. CASE FinishReset
  <2>1. /\ UNCHANGED <<present, pc, txn, budget, sale, given>>
        /\ rows' \in [Users -> Row] /\ ledger' \in [Users -> Int]
        /\ \A u \in Users \ present : rows'[u] = rows[u]
    BY <1>2, FinishResetDoes DEF Holdings, Sweeping
  <2>2. TypeOK'
    BY <2>1, TablesType DEF Holdings, TypeOK
  <2>3. NoSweep.open = FALSE /\ NoSweep.old \in [Users -> Row] /\ NoSweep.over = {}
    BY ClosedType DEF NoSweep
  <2>4. Sweeping'
    BY <1>2, <2>3 DEF FinishReset, Sweeping
  <2>5. QED
    BY <2>1, <2>2, <2>4 DEF Holdings, Selling, Born
<1>3. QED
  BY <1>1, <1>2

LEMMA NextHoldings == Holdings /\ [TransfersNext]_tvars => Holdings'
<1> SUFFICES ASSUME Holdings, [TransfersNext]_tvars PROVE Holdings'
  OBVIOUS
<1>1. ASSUME NEW u \in Users, Lapse(u), UNCHANGED <<sale, sweep, given, clobbered>> PROVE Holdings'
  <2>1. TypeOK' /\ UNCHANGED <<present, txn>>
    BY <1>1, LapseType, LapseDoes DEF Holdings
  <2>2. QED
    BY <1>1, <2>1, SessionsHoldings DEF Holdings, Born
<1>2. CASE UNCHANGED tvars
  <2>1. UNCHANGED <<present, rows, ledger, pc, txn, budget, sale, sweep, given>>
    BY <1>2 DEF tvars, vars
  <2>2. TypeOK'
    BY <2>1 DEF Holdings, TypeOK
  <2>3. QED
    BY <2>1, <2>2, SessionsHoldings DEF Holdings, Born
<1>3. QED
  BY <1>1, <1>2, BesideHoldings, TradeHoldings, SweepHoldings DEF TransfersNext

LEMMA HoldingsHold == TransfersSpec => []Holdings
<1>1. TransfersInit => Holdings
  <2> SUFFICES ASSUME TransfersInit PROVE Holdings
    OBVIOUS
  <2>1. TypeOK /\ (\A s \in Sessions : txn[s].kind = "read") /\ given = {}
    BY InitType, ClosedType DEF TransfersInit, Init, Closed
  <2>2. sale \in [Sales -> Sale] /\ \A t \in Sales : sale[t].phase = "idle"
    BY NoSaleIsIdle DEF TransfersInit
  <2>3. sweep.open = FALSE /\ sweep.old \in [Users -> Row] /\ sweep.over = {}
    BY ClosedType DEF TransfersInit, NoSweep
  <2>4. QED
    BY <2>1, <2>2, <2>3 DEF Holdings, Selling, Sweeping, Born
<1>2. QED
  BY <1>1, NextHoldings, PTL DEF TransfersSpec
------------------------------------------------------------------------------
(* The ledger adds up to the wallets: what each commit moves is what it logs *)
(* and, of a wallet the grant made, the grant.                               *)
Logged == Kinds \ {"record", "allocate", "tier"}

Given(u) == IF u \in given THEN Welcome ELSE 0

LedgerInv == Holdings /\ Uses(Logged) /\ LedgerAgrees

LEMMA LoggedIsFollowed ==
  ASSUME Ops \cap {"record", "allocate", "tier"} = {}
  PROVE  Followed(Logged)
BY OpsAssumption DEF Followed, Logged, FollowUp, Kinds

LEMMA CommitAgrees ==
  ASSUME LedgerInv, NEW s \in Sessions, Beside(s), Commit(s)
  PROVE  LedgerAgrees'
<1>0. PICK u, k, old : u = txn[s].user /\ k = txn[s].kind /\ old = txn[s].old
  OBVIOUS
<1>1. /\ u \in Users /\ old \in Row /\ k \in Logged /\ txn[s].arg \in Args(k)
      /\ Effect(s) = Result(k, txn[s].arg, old) /\ Effect(s).row \in Row /\ Effect(s).logged \in Int
      /\ rows'[u] = Merge(rows[u], old, Effect(s))
      /\ ledger'[u] = ledger[u] + Effect(s).logged
      /\ \A v \in Users \ {u} : rows'[v] = rows[v] /\ ledger'[v] = ledger[v]
      /\ (txn[s].created => u \notin present)
  <2>1. pc[s] = "open" /\ k \in Logged
    BY <1>0 DEF LedgerInv, Uses, Commit
  <2>2. QED
    BY <1>0, <2>1, CommitDoes DEF LedgerInv, Holdings
<1>2. /\ given' = (IF k = "welcome" THEN given \cup {u} ELSE given)
      /\ clobbered' = (IF Overwrites(rows[u], old, Effect(s).row) THEN clobbered \cup {u} ELSE clobbered)
  BY <1>0 DEF Beside
<1>3. /\ \A v \in Users : rows[v] \in Row /\ Total(rows[v]) \in Nat /\ ledger[v] \in Int
      /\ \A v \in Users : Rows0[v] \in Row /\ Total(Rows0[v]) \in Nat /\ Given(v) \in Nat
  BY TotalIsNat, StartAssumption, WelcomeAssumption DEF LedgerInv, Holdings, TypeOK, Given
<1>4. ASSUME NEW v \in Users \ clobbered'
      PROVE  Total(rows'[v]) = Total(Rows0[v]) + ledger'[v] + Given(v)'
  <2>1. v \notin clobbered /\ Total(rows[v]) = Total(Rows0[v]) + ledger[v] + Given(v)
    BY <1>2, <1>4 DEF LedgerInv, LedgerAgrees, Given
  <2>2. CASE v # u
    BY <1>1, <1>2, <1>4, <2>1, <2>2 DEF Given
  <2>3. CASE v = u
    <3>1. Total(rows'[u]) = Total(rows[u]) + Total(Effect(s).row) - Total(old)
      BY <1>1, <1>2, <1>3, <1>4, <2>3, MergeUnclobbered
    <3>2. Total(Effect(s).row) \in Nat /\ Total(old) \in Nat
      BY <1>1, TotalIsNat
    <3>3. CASE k = "welcome"
      <4>1. txn[s].created /\ old = EmptyRow /\ rows[u] = EmptyRow /\ u \notin given
        BY <1>0, <1>1, <3>3 DEF LedgerInv, Holdings, Born, TypeOK
      <4>2. Effect(s) = WelcomeGrant
        BY <1>1, <3>3 DEF Result
      <4>3. Effect(s).logged = 0 /\ Total(Effect(s).row) = Welcome /\ Total(EmptyRow) = 0
        BY <4>2, WelcomeAssumption DEF WelcomeGrant, Leaves, Total, EmptyRow
      <4>4. Given(u) = 0 /\ Given(u)' = Welcome
        BY <1>2, <3>3, <4>1 DEF Given
      <4>5. QED
        BY <1>1, <1>3, <2>1, <2>3, <3>1, <4>1, <4>3, <4>4, WelcomeAssumption
    <3>4. CASE k # "welcome"
      <4>1. Total(Effect(s).row) = Total(old) + Effect(s).logged
        <5>1. k \in Balanced
          BY <1>1, <3>4 DEF Balanced, Logged
        <5>2. QED
          BY <1>0, <1>1, <5>1, OutcomeExact
      <4>2. Given(u)' = Given(u)
        BY <1>2, <3>4 DEF Given
      <4>3. QED
        BY <1>1, <1>3, <2>1, <2>3, <3>1, <3>2, <4>1, <4>2
    <3>5. QED
      BY <3>3, <3>4
  <2>4. QED
    BY <2>2, <2>3
<1>5. QED
  BY <1>4 DEF LedgerAgrees, Given

(* What a transfer moves where it overwrites nothing.                        *)
LEMMA LandMoves ==
  ASSUME Holdings, NEW t \in Sales, Land(t)
  PROVE  LET b == sale[t].buyer
             s == sale[t].seller
         IN  /\ Debited(t).logged = ExpiryLog(sale[t].paid) - sale[t].amount
             /\ Credited(t).logged = ExpiryLog(sale[t].credited) + sale[t].cut
             /\ Total(Debited(t).row) = Total(sale[t].paid) + Debited(t).logged
             /\ Total(Credited(t).row) = Total(sale[t].credited) + Credited(t).logged
             /\ b \notin clobbered' => Total(rows'[b]) = Total(rows[b]) + Debited(t).logged
             /\ s \notin clobbered' => Total(rows'[s]) = Total(rows[s]) + Credited(t).logged
<1> DEFINE b == sale[t].buyer
           s == sale[t].seller
           paid == sale[t].paid
           credited == sale[t].credited
<1>1. /\ b \in Users /\ s \in Users /\ b # s /\ paid \in Row /\ credited \in Row
      /\ sale[t].amount \in Nat /\ sale[t].cut \in Nat /\ Total(Expired(paid)) >= sale[t].amount
      /\ Debited(t).row \in Row /\ Credited(t).row \in Row
      /\ Debited(t).logged \in Int /\ Credited(t).logged \in Int
      /\ rows'[b] = Merge(rows[b], paid, Debited(t))
      /\ rows'[s] = Merge(rows[s], credited, Credited(t))
  BY LandDoes
<1>2. rows[b] \in Row /\ rows[s] \in Row
  BY <1>1 DEF Holdings, TypeOK
<1>3. /\ b \notin clobbered' => ~Overwrites(rows[b], paid, Debited(t).row)
      /\ s \notin clobbered' => ~Overwrites(rows[s], credited, Credited(t).row)
  BY DEF Land
<1>4. /\ Total(paid) \in Nat /\ Total(credited) \in Nat /\ Total(rows[b]) \in Nat /\ Total(rows[s]) \in Nat
      /\ Total(Debited(t).row) \in Nat /\ Total(Credited(t).row) \in Nat
      /\ ExpiryLog(paid) \in Int /\ ExpiryLog(credited) \in Int
  BY <1>1, <1>2, TotalIsNat, ExpiryExact
<1>5. /\ Debited(t).logged = ExpiryLog(paid) - sale[t].amount
      /\ Total(Debited(t).row) = Total(paid) + ExpiryLog(paid) - sale[t].amount
  BY <1>1, RecordExact DEF Debited
<1>6. /\ Credited(t).logged = ExpiryLog(credited) + sale[t].cut
      /\ Total(Credited(t).row) = Total(credited) + ExpiryLog(credited) + sale[t].cut
  BY <1>1, AddPurchasedExact DEF Credited
<1>7. /\ Total(Debited(t).row) = Total(paid) + Debited(t).logged
      /\ Total(Credited(t).row) = Total(credited) + Credited(t).logged
  BY <1>1, <1>4, <1>5, <1>6
<1>8. b \notin clobbered' => Total(rows'[b]) = Total(rows[b]) + Debited(t).logged
  <2>1. b \notin clobbered' => Total(rows'[b]) = Total(rows[b]) + Total(Debited(t).row) - Total(paid)
    BY <1>1, <1>2, <1>3, MergeUnclobbered
  <2>2. QED
    BY <1>1, <1>4, <1>7, <2>1
<1>9. s \notin clobbered' => Total(rows'[s]) = Total(rows[s]) + Credited(t).logged
  <2>1. s \notin clobbered' => Total(rows'[s]) = Total(rows[s]) + Total(Credited(t).row) - Total(credited)
    BY <1>1, <1>2, <1>3, MergeUnclobbered
  <2>2. QED
    BY <1>1, <1>4, <1>7, <2>1
<1>10. QED
  BY <1>5, <1>6, <1>7, <1>8, <1>9

LEMMA LandAgrees ==
  ASSUME LedgerInv, NEW t \in Sales, Land(t)
  PROVE  LedgerAgrees'
<1> DEFINE b == sale[t].buyer
           s == sale[t].seller
<1>1. Holdings
  BY DEF LedgerInv
<1>2. /\ b \in Users /\ s \in Users /\ b # s
      /\ Debited(t).logged \in Int /\ Credited(t).logged \in Int
      /\ ledger'[b] = ledger[b] + Debited(t).logged
      /\ ledger'[s] = ledger[s] + Credited(t).logged
      /\ \A u \in Users \ {b, s} : rows'[u] = rows[u] /\ ledger'[u] = ledger[u]
      /\ given' = given
      /\ b \notin clobbered' => Total(rows'[b]) = Total(rows[b]) + Debited(t).logged
      /\ s \notin clobbered' => Total(rows'[s]) = Total(rows[s]) + Credited(t).logged
  BY <1>1, LandDoes, LandMoves
<1>3. clobbered \subseteq clobbered'
  BY DEF Land
<1>4. /\ \A v \in Users : Total(rows[v]) \in Nat /\ ledger[v] \in Int
      /\ \A v \in Users : Total(Rows0[v]) \in Nat /\ Given(v) \in Nat /\ Given(v)' = Given(v)
  BY <1>1, <1>2, TotalIsNat, StartAssumption, WelcomeAssumption DEF Holdings, TypeOK, Given
<1>5. ASSUME NEW v \in Users \ clobbered'
      PROVE  Total(rows'[v]) = Total(Rows0[v]) + ledger'[v] + Given(v)'
  <2>1. Total(rows[v]) = Total(Rows0[v]) + ledger[v] + Given(v)
    BY <1>3, <1>5 DEF LedgerInv, LedgerAgrees, Given
  <2>2. CASE v = b
    BY <1>2, <1>4, <1>5, <2>1, <2>2
  <2>3. CASE v = s
    BY <1>2, <1>4, <1>5, <2>1, <2>3
  <2>4. CASE v \notin {b, s}
    BY <1>2, <1>4, <1>5, <2>1, <2>4
  <2>5. QED
    BY <2>2, <2>3, <2>4
<1>6. QED
  BY <1>5 DEF LedgerAgrees, Given

LEMMA ResetAgrees ==
  ASSUME LedgerInv, FinishReset
  PROVE  LedgerAgrees'
<1>1. Holdings
  BY DEF LedgerInv
<1>2. /\ \A v \in Users : rows[v] \in Row /\ Total(rows[v]) \in Nat /\ ledger[v] \in Int
      /\ \A v \in Users : Total(Rows0[v]) \in Nat /\ Given(v) \in Nat /\ Given(v)' = Given(v)
  BY <1>1, FinishResetDoes, TotalIsNat, StartAssumption, WelcomeAssumption
     DEF Holdings, TypeOK, Given
<1>3. /\ clobbered \subseteq clobbered'
      /\ \A u \in sweep.over : u \notin clobbered' =>
            ~Overwrites(rows[u], sweep.old[u], Reset(sweep.old[u]).row)
  BY DEF FinishReset
<1>4. ASSUME NEW v \in Users \ clobbered'
      PROVE  Total(rows'[v]) = Total(Rows0[v]) + ledger'[v] + Given(v)'
  <2>1. Total(rows[v]) = Total(Rows0[v]) + ledger[v] + Given(v)
    BY <1>3, <1>4 DEF LedgerInv, LedgerAgrees, Given
  <2>2. CASE v \notin sweep.over
    BY <1>1, <1>2, <1>4, <2>1, <2>2, FinishResetDoes
  <2>3. CASE v \in sweep.over
    <3>1. /\ sweep.old[v] \in Row
          /\ rows'[v] = Merge(rows[v], sweep.old[v], Reset(sweep.old[v]))
          /\ ledger'[v] = ledger[v] + Reset(sweep.old[v]).logged
      BY <1>1, <2>3, FinishResetDoes
    <3>2. PICK out : out = Reset(sweep.old[v])
      OBVIOUS
    <3>3. out.row \in Row /\ out.logged \in Int /\ Total(out.row) = Total(sweep.old[v]) + out.logged
      BY <3>1, <3>2, ResetExact
    <3>4. Total(rows'[v]) = Total(rows[v]) + Total(out.row) - Total(sweep.old[v])
      BY <1>2, <1>3, <1>4, <2>3, <3>1, <3>2, <3>3, MergeUnclobbered
    <3>5. Total(sweep.old[v]) \in Nat
      BY <3>1, TotalIsNat
    <3>6. QED
      BY <1>2, <1>4, <2>1, <3>1, <3>2, <3>3, <3>4, <3>5
  <2>4. QED
    BY <2>2, <2>3
<1>5. QED
  BY <1>4 DEF LedgerAgrees, Given

(* A wallet is its opening balance, its grant and the sum of its             *)
(* token_transaction rows, unless a commit overwrote another's write; where  *)
(* no operation runs that logs another number than it moves, which           *)
(* record_spend, add_subscription_tokens and set_test_tier do.               *)
THEOREM LedgerAddsUp ==
  ASSUME Ops \cap {"record", "allocate", "tier"} = {}
  PROVE  TransfersSpec => []LedgerAgrees
<1>1. TransfersInit => Uses(Logged) /\ LedgerAgrees
  <2> SUFFICES ASSUME TransfersInit PROVE Uses(Logged) /\ LedgerAgrees
    OBVIOUS
  <2>1. \A u \in Users : Total(Rows0[u]) \in Nat
    BY StartAssumption, TotalIsNat
  <2>2. QED
    BY <2>1 DEF TransfersInit, Init, Uses, LedgerAgrees
<1>2. Holdings /\ Uses(Logged) /\ LedgerAgrees /\ [TransfersNext]_tvars => Uses(Logged)' /\ LedgerAgrees'
  <2> SUFFICES ASSUME Holdings, Uses(Logged), LedgerAgrees, [TransfersNext]_tvars
               PROVE  Uses(Logged)' /\ LedgerAgrees'
    OBVIOUS
  <2>1. LedgerInv
    BY DEF LedgerInv
  <2>2. ASSUME UNCHANGED <<pc, txn>> PROVE Uses(Logged)'
    BY <2>2 DEF Uses
  <2>3. ASSUME UNCHANGED <<rows, ledger, given, clobbered>> PROVE LedgerAgrees'
    BY <2>3 DEF LedgerAgrees
  <2>4. ASSUME NEW s \in Sessions, Beside(s) PROVE Uses(Logged)' /\ LedgerAgrees'
    <3>1. Step(s)
      BY <2>4 DEF Beside
    <3>2. Uses(Logged)'
      BY <3>1, LoggedIsFollowed, UsesStays DEF Holdings
    <3>3. CASE Commit(s)
      BY <2>1, <2>4, <3>2, <3>3, CommitAgrees
    <3>4. CASE ~Commit(s)
      <4>1. UNCHANGED <<rows, ledger, given, clobbered>>
        BY <2>4, <3>1, <3>4, StepDoes DEF Beside
      <4>2. QED
        BY <2>3, <3>2, <4>1
    <3>5. QED
      BY <3>3, <3>4
  <2>5. ASSUME NEW t \in Sales, Trade(t) PROVE Uses(Logged)' /\ LedgerAgrees'
    <3>1. CASE Land(t)
      BY <2>1, <2>2, <3>1, LandAgrees, LandDoes DEF LedgerInv
    <3>2. CASE ~Land(t)
      <4>1. UNCHANGED <<rows, ledger, pc, txn, given, clobbered>>
        BY <2>5, <3>2 DEF Trade, Debit, ReadSeller, Abort, vars
      <4>2. QED
        BY <2>2, <2>3, <4>1
    <3>3. QED
      BY <3>1, <3>2
  <2>6. CASE StartReset
    BY <2>2, <2>3, <2>6 DEF StartReset
  <2>7. CASE FinishReset
    BY <2>1, <2>2, <2>7, ResetAgrees DEF FinishReset
  <2>8. ASSUME NEW v \in Users, Lapse(v), UNCHANGED <<sale, sweep, given, clobbered>>
        PROVE  Uses(Logged)' /\ LedgerAgrees'
    <3>1. UNCHANGED <<ledger, pc, txn>> /\ \A u \in Users : Total(rows'[u]) = Total(rows[u])
      BY <2>8, LapseDoes, SameTotals DEF Holdings
    <3>2. LedgerAgrees'
      BY <2>8, <3>1 DEF LedgerAgrees
    <3>3. QED
      BY <2>2, <3>1, <3>2
  <2>9. CASE UNCHANGED tvars
    BY <2>2, <2>3, <2>9 DEF tvars, vars
  <2>10. QED
    BY <2>4, <2>5, <2>6, <2>7, <2>8, <2>9 DEF TransfersNext
<1>3. QED
  BY <1>1, <1>2, HoldingsHold, PTL DEF TransfersSpec
------------------------------------------------------------------------------
(* What the lock of a transfer is worth, where the database has row locks:   *)
(* nobody else locks the buyer's row or changes it before the transfer ends. *)
Sealed(t) ==
  sale[t].phase # "idle" =>
    /\ SameWallet(sale[t].paid, rows[sale[t].buyer])
    /\ \A s \in Sessions : ~Holds(s, sale[t].buyer)
    /\ \A x \in Sales \ {t} : sale[x].phase # "idle" => sale[x].buyer # sale[t].buyer

TradeInv == Holdings /\ LockInv /\ \A t \in Sales : Sealed(t)

LEMMA SealedIsLocked ==
  ASSUME Locking, NEW t \in Sales, NEW u, sale[t].phase # "idle", sale[t].buyer = u
  PROVE  SaleLocks(t, u) /\ Locked(u)
BY DEF SaleLocks, Locked

(* The sessions' locks outlive a step that leaves the rows they hold alone.  *)
LEMMA LocksStay ==
  ASSUME LockInv, TypeOK', UNCHANGED <<pc, txn>>,
         \A s \in Sessions, u \in Users : Holds(s, u) => rows'[u] = rows[u]
  PROVE  LockInv' /\ \A s \in Sessions, u \in Users : Holds(s, u)' = Holds(s, u)
<1>1. \A s \in Sessions, u \in Users : Holds(s, u)' = Holds(s, u)
  BY DEF Holds
<1>2. OneHolder'
  BY <1>1 DEF LockInv, OneHolder
<1>3. LockedReadIsCurrent'
  BY <1>1 DEF LockInv, LockedReadIsCurrent
<1>4. QED
  BY <1>1, <1>2, <1>3 DEF LockInv

LEMMA OpensDoes ==
  ASSUME TypeOK, NEW s \in Sessions, Step(s)
  PROVE  /\ \A x \in Sessions \ {s} : pc'[x] = pc[x] /\ txn'[x] = txn[x]
         /\ pc'[s] = "open" => pc[s] # "open"
<1>1. pc \in [Sessions -> {"idle", "open", "next"}] /\ txn \in [Sessions -> Txn]
  BY DEF TypeOK
<1>2. CASE \E k \in Ops : \E u \in Users : \E n \in Args(k) : Begin(s, k, u, n)
  BY <1>1, <1>2 DEF Begin, Read
<1>3. CASE Continue(s)
  BY <1>1, <1>3 DEF Continue, Read
<1>4. CASE Commit(s) \/ Rollback(s)
  <2>1. TypeOK
    OBVIOUS
  <2>2. PICK p, t : p # "open" /\ pc' = [pc EXCEPT ![s] = p] /\ txn' = [txn EXCEPT ![s] = t]
    BY <1>4, <2>1, LeaveShape
  <2>3. QED
    BY <1>1, <2>2
<1>5. QED
  BY <1>2, <1>3, <1>4 DEF Step

(* A session beside the transfers waits for their locks.                     *)
LEMMA BesideSealed ==
  ASSUME Locking, TradeInv, NEW s \in Sessions, Beside(s)
  PROVE  TradeInv'
<1>1. Step(s) /\ Waits(s) /\ sale' = sale
  BY DEF Beside
<1>2. Holdings' /\ LockInv'
  BY <1>1, BesideHoldings, NextLocks DEF TradeInv, Next
<1>3. ASSUME NEW t \in Sales, sale[t].phase # "idle"
      PROVE  /\ rows'[sale[t].buyer] = rows[sale[t].buyer]
             /\ \A x \in Sessions : ~Holds(x, sale[t].buyer)'
  <2>1. PICK u \in Users : u = sale[t].buyer
    BY <1>3 DEF TradeInv, Holdings, Sale
  <2>2. rows'[u] = rows[u]
    BY <1>1, <1>3, <2>1, SealedIsLocked DEF Waits
  <2>3. pc[s] # "open" /\ pc'[s] = "open" /\ txn'[s].kind \in LockedKinds => txn'[s].user # u
    BY <1>1, <1>3, <2>1, SealedIsLocked DEF Waits
  <2>4. \A x \in Sessions : ~Holds(x, u)
    BY <1>3, <2>1 DEF TradeInv, Sealed
  <2>5. /\ \A x \in Sessions \ {s} : pc'[x] = pc[x] /\ txn'[x] = txn[x]
        /\ pc'[s] = "open" => pc[s] # "open"
    BY <1>1, OpensDoes DEF TradeInv, Holdings
  <2>6. \A x \in Sessions \ {s} : ~Holds(x, u)'
    BY <2>4, <2>5 DEF Holds
  <2>7. ~Holds(s, u)'
    BY <2>3, <2>5 DEF Holds
  <2>8. QED
    BY <1>1, <2>1, <2>2, <2>6, <2>7
<1>4. ASSUME NEW t \in Sales PROVE Sealed(t)'
  BY <1>1, <1>3 DEF TradeInv, Sealed
<1>5. QED
  BY <1>2, <1>4 DEF TradeInv

LEMMA TradeSealed ==
  ASSUME Locking, TradeInv, NEW t \in Sales, Trade(t)
  PROVE  TradeInv'
<1>1. Holdings /\ Holdings' /\ TypeOK' /\ LockInv
  BY TradeHoldings DEF TradeInv, Holdings
<1>2. CASE \E b \in Users, s \in Users, n \in Amounts : Debit(t, b, s, n)
  <2>1. PICK b \in Users, s \in Users, n \in Amounts : Debit(t, b, s, n)
    BY <1>2
  <2>2. UNCHANGED <<rows, pc, txn>> /\ ~Locked(b)
    BY <2>1 DEF Debit, MayDebit
  <2>3. /\ sale'[t].phase = "debited" /\ sale'[t].buyer = b /\ sale'[t].paid = rows[b]
        /\ \A x \in Sales \ {t} : sale'[x] = sale[x]
    BY <1>1, <2>1, DebitDoes
  <2>4. LockInv' /\ \A y \in Sessions, u \in Users : Holds(y, u)' = Holds(y, u)
    BY <1>1, <2>2, LocksStay
  <2>5. /\ \A y \in Sessions : ~Holds(y, b)
        /\ \A x \in Sales : sale[x].phase # "idle" => sale[x].buyer # b
    BY <2>2, SealedIsLocked DEF Locked
  <2>6. Sealed(t)'
    BY <2>2, <2>3, <2>4, <2>5, SameWalletReflexive DEF Sealed
  <2>7. ASSUME NEW x \in Sales \ {t} PROVE Sealed(x)'
    <3>1. Sealed(x) /\ sale[x] \in Sale
      BY DEF TradeInv, Holdings
    <3>2. sale[x].buyer \in Users
      BY <3>1 DEF Sale
    <3>3. QED
      BY <2>2, <2>3, <2>4, <2>5, <3>1, <3>2 DEF Sealed
  <2>8. QED
    BY <1>1, <2>4, <2>6, <2>7 DEF TradeInv
<1>3. CASE ReadSeller(t)
  <2>1. UNCHANGED <<rows, pc, txn>>
    BY <1>3 DEF ReadSeller, vars
  <2>2. LockInv' /\ \A y \in Sessions, u \in Users : Holds(y, u)' = Holds(y, u)
    BY <1>1, <2>1, LocksStay
  <2>3. /\ \A x \in Sales : sale'[x].phase # "idle" => sale[x].phase # "idle"
        /\ \A x \in Sales : sale'[x].buyer = sale[x].buyer /\ sale'[x].paid = sale[x].paid
    BY <1>1, <1>3, ReadSellerDoes
  <2>4. ASSUME NEW x \in Sales PROVE Sealed(x)'
    <3>1. Sealed(x) /\ sale[x].buyer \in Users
      BY DEF TradeInv, Holdings, Sale
    <3>2. QED
      BY <2>1, <2>2, <2>3, <3>1 DEF Sealed
  <2>5. QED
    BY <1>1, <2>2, <2>4 DEF TradeInv
<1>4. CASE Land(t)
  <2>1. PICK b \in Users, s \in Users : b = sale[t].buyer /\ s = sale[t].seller
    BY <1>1, <1>4, LandDoes
  <2>2. /\ UNCHANGED <<pc, txn>> /\ ~Locked(s)
        /\ \A u \in Users \ {b, s} : rows'[u] = rows[u]
    BY <1>1, <1>4, <2>1, LandDoes
  <2>3. \A y \in Sessions : ~Holds(y, b) /\ ~Holds(y, s)
    BY <1>4, <2>1, <2>2 DEF TradeInv, Sealed, Land, Locked
  <2>4. LockInv' /\ \A y \in Sessions, u \in Users : Holds(y, u)' = Holds(y, u)
    BY <1>1, <2>2, <2>3, LocksStay
  <2>5. sale'[t].phase = "idle" /\ \A x \in Sales \ {t} : sale'[x] = sale[x]
    BY <1>1, <1>4, EndedSale DEF Land, Holdings
  <2>6. ASSUME NEW x \in Sales PROVE Sealed(x)'
    <3>1. CASE x = t
      BY <2>5, <3>1 DEF Sealed
    <3>2. CASE x # t /\ sale[x].phase # "idle"
      <4>1. Sealed(x) /\ Sealed(t) /\ sale[x].buyer \in Users
        BY DEF TradeInv, Holdings, Sale
      <4>2. sale[x].buyer # b /\ sale[x].buyer # s
        BY <1>4, <2>1, <2>2, <3>2, <4>1, SealedIsLocked DEF Sealed, Land
      <4>3. rows'[sale[x].buyer] = rows[sale[x].buyer]
        BY <2>2, <4>1, <4>2
      <4>4. QED
        BY <2>4, <2>5, <3>2, <4>1, <4>3 DEF Sealed
    <3>3. CASE x # t /\ sale[x].phase = "idle"
      BY <2>5, <3>3 DEF Sealed
    <3>4. QED
      BY <3>1, <3>2, <3>3
  <2>7. QED
    BY <1>1, <2>4, <2>6 DEF TradeInv
<1>5. CASE Abort(t)
  <2>1. UNCHANGED <<rows, pc, txn>>
    BY <1>5 DEF Abort, vars
  <2>2. LockInv' /\ \A y \in Sessions, u \in Users : Holds(y, u)' = Holds(y, u)
    BY <1>1, <2>1, LocksStay
  <2>3. sale'[t].phase = "idle" /\ \A x \in Sales \ {t} : sale'[x] = sale[x]
    BY <1>1, <1>5, EndedSale DEF Abort, Holdings
  <2>4. ASSUME NEW x \in Sales PROVE Sealed(x)'
    <3>1. Sealed(x) /\ sale[x].buyer \in Users
      BY DEF TradeInv, Holdings, Sale
    <3>2. QED
      BY <2>1, <2>2, <2>3, <3>1 DEF Sealed
  <2>5. QED
    BY <1>1, <2>2, <2>4 DEF TradeInv
<1>6. QED
  BY <1>2, <1>3, <1>4, <1>5 DEF Trade

LEMMA SweepSealed ==
  ASSUME Locking, TradeInv, StartReset \/ FinishReset
  PROVE  TradeInv'
<1>1. Holdings /\ Holdings' /\ TypeOK' /\ LockInv
  BY SweepHoldings DEF TradeInv, Holdings
<1>2. UNCHANGED <<pc, txn, sale>> /\ \A u \in Users : Locked(u) => rows'[u] = rows[u]
  <2>1. CASE StartReset
    BY <2>1 DEF StartReset
  <2>2. CASE FinishReset
    BY <1>1, <2>2, FinishResetDoes
  <2>3. QED
    BY <2>1, <2>2
<1>3. LockInv' /\ \A y \in Sessions, u \in Users : Holds(y, u)' = Holds(y, u)
  BY <1>1, <1>2, LocksStay DEF Locked
<1>4. ASSUME NEW x \in Sales PROVE Sealed(x)'
  <2>1. Sealed(x) /\ sale[x].buyer \in Users
    BY DEF TradeInv, Holdings, Sale
  <2>2. sale[x].phase # "idle" => rows'[sale[x].buyer] = rows[sale[x].buyer]
    BY <1>2, <2>1, SealedIsLocked
  <2>3. QED
    BY <1>2, <1>3, <2>1, <2>2 DEF Sealed
<1>5. QED
  BY <1>1, <1>3, <1>4 DEF TradeInv

LEMMA LapseSealed ==
  ASSUME TradeInv, Holdings', NEW v \in Users, Lapse(v), sale' = sale
  PROVE  TradeInv'
<1>1. TypeOK /\ LockInv
  BY DEF TradeInv, Holdings
<1>2. LockInv'
  BY <1>1, NextLocks DEF Next
<1>3. /\ UNCHANGED <<pc, txn>>
      /\ \A was : \A u \in Users : SameWallet(was, rows[u]) => SameWallet(was, rows'[u])
  BY <1>1, LapseDoes
<1>4. \A y \in Sessions, u \in Users : Holds(y, u)' = Holds(y, u)
  BY <1>3 DEF Holds
<1>5. ASSUME NEW x \in Sales PROVE Sealed(x)'
  <2>1. Sealed(x) /\ sale[x].buyer \in Users
    BY DEF TradeInv, Holdings, Sale
  <2>2. QED
    BY <1>3, <1>4, <2>1 DEF Sealed
<1>6. QED
  BY <1>2, <1>5 DEF TradeInv

LEMMA TradeInvHolds ==
  ASSUME Locking
  PROVE  TransfersSpec => []TradeInv
<1>1. TransfersInit => LockInv /\ \A t \in Sales : Sealed(t)
  <2> SUFFICES ASSUME TransfersInit PROVE LockInv /\ \A t \in Sales : Sealed(t)
    OBVIOUS
  <2>1. \A t \in Sales : sale[t].phase = "idle"
    BY NoSaleIsIdle DEF TransfersInit
  <2>2. QED
    BY <2>1, InitLocks DEF TransfersInit, Sealed
<1>2. TradeInv /\ Holdings' /\ [TransfersNext]_tvars => TradeInv'
  <2> SUFFICES ASSUME TradeInv, Holdings', [TransfersNext]_tvars PROVE TradeInv'
    OBVIOUS
  <2>1. CASE UNCHANGED tvars
    <3>1. UNCHANGED <<rows, pc, txn, sale>> /\ TypeOK'
      BY <2>1 DEF tvars, vars, Holdings
    <3>2. LockInv' /\ \A y \in Sessions, u \in Users : Holds(y, u)' = Holds(y, u)
      BY <3>1, LocksStay DEF TradeInv
    <3>3. ASSUME NEW x \in Sales PROVE Sealed(x)'
      <4>1. Sealed(x) /\ sale[x].buyer \in Users
        BY DEF TradeInv, Holdings, Sale
      <4>2. QED
        BY <3>1, <3>2, <4>1 DEF Sealed
    <3>4. QED
      BY <3>2, <3>3 DEF TradeInv
  <2>2. QED
    BY <2>1, BesideSealed, TradeSealed, SweepSealed, LapseSealed DEF TransfersNext
<1>3. TransfersInit /\ Holdings => TradeInv
  BY <1>1 DEF TradeInv
<1>4. QED
  BY <1>2, <1>3, HoldingsHold, PTL DEF TransfersSpec

(* With row locks a transfer takes from the buyer what its ledger row says,  *)
(* out of a balance that covers it, beside any sessions, transfers and       *)
(* resets; and where it overwrites nothing of the seller's, the two wallets  *)
(* lose the platform's cut and what expired (transfer_tokens).               *)
THEOREM SalesAreExact ==
  ASSUME Locking
  PROVE  TransfersSpec => SaleIsExact
<1> DEFINE Body == \A t \in Sales : sale[t].phase = "credited" /\ Land(t) => LandsExactly(t)
<1>1. ASSUME TradeInv, NEW t \in Sales, sale[t].phase = "credited", Land(t)
      PROVE  LandsExactly(t)
  <2>1. PICK b, s, paid, credited, amount, cut :
          /\ b = sale[t].buyer /\ s = sale[t].seller /\ paid = sale[t].paid
          /\ credited = sale[t].credited /\ amount = sale[t].amount /\ cut = sale[t].cut
    OBVIOUS
  <2>2. PICK debit, credit : debit = Debited(t) /\ credit = Credited(t)
    OBVIOUS
  <2>3. Holdings
    BY <1>1 DEF TradeInv
  <2>4. /\ b \in Users /\ s \in Users /\ paid \in Row /\ credited \in Row
        /\ amount \in Nat /\ cut \in Nat /\ Total(Expired(paid)) >= amount
        /\ debit.row \in Row /\ debit.logged \in Int /\ credit.logged \in Int
        /\ rows'[b] = Merge(rows[b], paid, debit)
        /\ ledger'[b] = ledger[b] + debit.logged
        /\ rows' \in [Users -> Row] /\ rows \in [Users -> Row] /\ ledger \in [Users -> Int]
    BY <1>1, <2>1, <2>2, <2>3, LandDoes DEF Holdings, TypeOK
  <2>5. /\ debit.logged = ExpiryLog(paid) - amount
        /\ credit.logged = ExpiryLog(credited) + cut
        /\ Total(debit.row) = Total(paid) + debit.logged
        /\ s \notin clobbered' => Total(rows'[s]) = Total(rows[s]) + credit.logged
    BY <1>1, <2>1, <2>2, <2>3, LandMoves
  <2>6. SameWallet(paid, rows[b])
    BY <1>1, <2>1 DEF TradeInv, Sealed
  <2>7. /\ Total(rows[b]) = Total(paid) /\ Total(rows'[b]) = Total(debit.row)
    BY <2>4, <2>6, SameTotals, MergeOfCurrent DEF Total
  <2>8. /\ Total(rows[b]) \in Nat /\ Total(rows[s]) \in Nat /\ Total(Expired(paid)) \in Nat
        /\ Total(paid) \in Nat /\ ExpiryLog(paid) \in Int /\ ExpiryLog(credited) \in Int
        /\ Total(Expired(paid)) = Total(paid) + ExpiryLog(paid) /\ ExpiryLog(paid) <= 0
        /\ ledger[b] \in Int
    <3>1. ExpiryLog(paid) <= 0
      <4>1. paid.roll \in Nat
        BY <2>4 DEF Row
      <4>2. QED
        BY <4>1 DEF ExpiryLog
    <3>2. QED
      BY <2>4, <3>1, ExpiryExact, TotalIsNat
  <2>9. Total(rows[b]) >= amount
    BY <2>4, <2>7, <2>8
  <2>10. Total(rows'[b]) - Total(rows[b]) = ledger'[b] - ledger[b]
    BY <2>4, <2>5, <2>7, <2>8
  <2>11. s \notin clobbered' =>
           Total(rows'[b]) + Total(rows'[s])
             = Total(rows[b]) + Total(rows[s]) - (amount - cut) + ExpiryLog(paid) + ExpiryLog(credited)
    BY <2>4, <2>5, <2>7, <2>8
  <2>12. /\ Total(rows[sale[t].buyer]) >= sale[t].amount
         /\ Total(rows'[sale[t].buyer]) - Total(rows[sale[t].buyer])
              = ledger'[sale[t].buyer] - ledger[sale[t].buyer]
    BY <2>1, <2>9, <2>10
  <2>13. sale[t].seller \notin clobbered' =>
           Total(rows'[sale[t].buyer]) + Total(rows'[sale[t].seller])
             = Total(rows[sale[t].buyer]) + Total(rows[sale[t].seller]) - (sale[t].amount - sale[t].cut)
                 + ExpiryLog(sale[t].paid) + ExpiryLog(sale[t].credited)
    BY <2>1, <2>11
  <2>14. QED
    BY <2>12, <2>13 DEF LandsExactly
<1>2. TradeInv /\ [TransfersNext]_tvars => [Body]_tvars
  BY <1>1
<1>3. QED
  BY <1>2, TradeInvHolds, PTL DEF TransfersSpec, SaleIsExact

(* The free tokens of a wallet that exists grow by the operator's reset      *)
(* alone, where the database has row locks and free tokens are spent under   *)
(* them (issue_welcome_grant_if_new, try_spend, transfer_tokens).            *)
THEOREM WelcomeIsGivenOnce ==
  ASSUME Locking, "record" \notin Ops
  PROVE  TransfersSpec => FreeIsGivenOnce
<1> DEFINE Body == \A u \in present : rows'[u].free > rows[u].free => sweep.open /\ ~sweep'.open
           S == Kinds \ {"record"}
<1>1. Followed(S)
  BY OpsAssumption DEF Followed, FollowUp, Kinds
<1> HIDE DEF S
<1>2. TransfersInit => Uses(S)
  BY DEF TransfersInit, Init, Uses
<1>3. Holdings /\ Uses(S) /\ [TransfersNext]_tvars => Uses(S)'
  <2> SUFFICES ASSUME Holdings, Uses(S), [TransfersNext]_tvars PROVE Uses(S)'
    OBVIOUS
  <2>1. ASSUME UNCHANGED <<pc, txn>> PROVE Uses(S)'
    BY <2>1 DEF Uses
  <2>2. ASSUME NEW s \in Sessions, Beside(s) PROVE Uses(S)'
    BY <1>1, <2>2, UsesStays DEF Beside, Holdings
  <2>3. ASSUME NEW t \in Sales, Trade(t) PROVE UNCHANGED <<pc, txn>>
    BY <2>3 DEF Trade, Debit, ReadSeller, Land, Abort, vars
  <2>4. ASSUME NEW v \in Users, Lapse(v) PROVE UNCHANGED <<pc, txn>>
    BY <2>4, LapseDoes DEF Holdings
  <2>5. QED
    BY <2>1, <2>2, <2>3, <2>4 DEF TransfersNext, StartReset, FinishReset, tvars, vars
<1>4. ASSUME TradeInv, Uses(S), [TransfersNext]_tvars, NEW u \in present,
             ~(sweep.open /\ ~sweep'.open)
      PROVE  rows'[u].free <= rows[u].free
  <2>1. Holdings /\ TypeOK /\ LockInv /\ u \in Users /\ rows[u] \in Row /\ rows[u].free \in Nat
    BY <1>4 DEF TradeInv, Holdings, TypeOK, Row
  <2>2. ASSUME rows'[u] = rows[u] PROVE rows'[u].free <= rows[u].free
    BY <2>1, <2>2
  <2>3. ASSUME NEW s \in Sessions, Beside(s) PROVE rows'[u].free <= rows[u].free
    <3>1. Step(s)
      BY <2>3 DEF Beside
    <3>2. CASE Commit(s) /\ u = txn[s].user
      <4>1. PICK k, old : k = txn[s].kind /\ old = txn[s].old
        OBVIOUS
      <4>2. /\ old \in Row /\ k \in Kinds /\ txn[s].arg \in Args(k) /\ pc[s] = "open"
            /\ Effect(s) = Result(k, txn[s].arg, old) /\ Effect(s).row \in Row
            /\ rows'[u] = Merge(rows[u], old, Effect(s)) /\ ~txn[s].created
        BY <1>4, <2>1, <3>2, <4>1, CommitDoes
      <4>3. k # "record" /\ k # "welcome"
        BY <1>4, <2>1, <4>1, <4>2 DEF Uses, S, Holdings, Born
      <4>4. Effect(s).row.free <= old.free /\ (k # "spend" => Effect(s).row.free = old.free)
        BY <4>2, <4>3, OutcomeFree
      <4>5. CASE k = "spend"
        <5>1. SameWallet(old, rows[u])
          BY <2>1, <3>2, <4>1, <4>5, SpenderIsCurrent DEF LockedKinds
        <5>2. rows'[u].free = Effect(s).row.free /\ old.free = rows[u].free
          BY <4>2, <5>1, MergeOfCurrent, SameTotals
        <5>3. QED
          BY <4>4, <5>2
      <4>6. CASE k # "spend"
        <5>1. rows'[u].free = rows[u].free
          BY <4>2, <4>4, <4>6 DEF Merge, Written
        <5>2. QED
          BY <2>1, <5>1
      <4>7. QED
        BY <4>5, <4>6
    <3>3. CASE Commit(s) /\ u # txn[s].user
      BY <2>1, <2>2, <3>3, CommitDoes
    <3>4. CASE ~Commit(s)
      BY <2>2, <3>1, <3>4, StepDoes
    <3>5. QED
      BY <3>2, <3>3, <3>4
  <2>4. ASSUME NEW t \in Sales, Trade(t) PROVE rows'[u].free <= rows[u].free
    <3>1. CASE Land(t)
      <4>1. PICK b, s : b = sale[t].buyer /\ s = sale[t].seller
        OBVIOUS
      <4>2. /\ sale[t].paid \in Row /\ sale[t].credited \in Row
            /\ sale[t].amount \in Nat /\ sale[t].cut \in Nat
            /\ rows'[b] = Merge(rows[b], sale[t].paid, Debited(t))
            /\ rows'[s] = Merge(rows[s], sale[t].credited, Credited(t))
            /\ \A v \in Users \ {b, s} : rows'[v] = rows[v]
        BY <2>1, <3>1, <4>1, LandDoes
      <4>3. CASE u = b
        <5>1. SameWallet(sale[t].paid, rows[b])
          BY <1>4, <3>1, <4>1 DEF TradeInv, Sealed, Land
        <5>2. Debited(t).row.free <= sale[t].paid.free
          BY <4>2, RecordExact DEF Debited
        <5>3. rows'[b].free = Debited(t).row.free /\ sale[t].paid.free = rows[b].free
          BY <4>2, <5>1, MergeOfCurrent, SameTotals
        <5>4. QED
          BY <4>3, <5>2, <5>3
      <4>4. CASE u = s
        <5>1. Credited(t).row.free = sale[t].credited.free
          BY <4>2, AddPurchasedExact DEF Credited
        <5>2. rows'[s].free = rows[s].free
          BY <4>2, <5>1 DEF Merge, Written
        <5>3. QED
          BY <2>1, <4>4, <5>2
      <4>5. CASE u \notin {b, s}
        BY <2>1, <2>2, <4>2, <4>5
      <4>6. QED
        BY <4>3, <4>4, <4>5
    <3>2. CASE ~Land(t)
      <4>1. rows' = rows
        BY <2>4, <3>2 DEF Trade, Debit, ReadSeller, Abort, vars
      <4>2. QED
        BY <2>2, <4>1
    <3>3. QED
      BY <3>1, <3>2
  <2>5. CASE StartReset
    BY <2>2, <2>5 DEF StartReset
  <2>6. CASE FinishReset
    BY <1>4, <2>1, <2>6, FinishResetDoes
  <2>7. ASSUME NEW v \in Users, Lapse(v) PROVE rows'[u].free <= rows[u].free
    <3>1. rows'[u].free = rows[u].free
      BY <2>1, <2>7, LapseDoes, SameTotals
    <3>2. QED
      BY <2>1, <3>1
  <2>8. CASE UNCHANGED tvars
    BY <2>2, <2>8 DEF tvars, vars
  <2>9. QED
    BY <1>4, <2>3, <2>4, <2>5, <2>6, <2>7, <2>8 DEF TransfersNext
<1>5. TradeInv /\ Uses(S) /\ [TransfersNext]_tvars => [Body]_tvars
  <2> SUFFICES ASSUME TradeInv, Uses(S), [TransfersNext]_tvars, NEW u \in present,
                      rows'[u].free > rows[u].free
               PROVE  sweep.open /\ ~sweep'.open
    OBVIOUS
  <2>1. rows[u].free \in Int /\ rows'[u].free \in Int
    <3>1. Holdings'
      BY NextHoldings DEF TradeInv
    <3>2. rows \in [Users -> Row] /\ rows' \in [Users -> Row] /\ u \in Users
      BY <3>1 DEF TradeInv, Holdings, TypeOK
    <3>3. QED
      BY <3>2 DEF Row
  <2>2. QED
    BY <1>4, <2>1
<1>6. QED
  BY <1>2, <1>3, <1>5, TradeInvHolds, HoldingsHold, PTL DEF TransfersSpec, FreeIsGivenOnce
==============================================================================
