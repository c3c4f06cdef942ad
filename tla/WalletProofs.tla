---------------------------- MODULE WalletProofs ----------------------------
(***************************************************************************)
(* Theorems about Wallet, for every set of users, sessions, amounts, caps  *)
(* and operations.                                                         *)
(***************************************************************************)
EXTENDS Wallet, TLAPS

(* Deduct takes exactly n when the wallet holds n, and never more than any  *)
(* bucket has (manager.py _deduct_tokens).                                  *)
LEMMA DeductExact ==
  ASSUME NEW r \in Row, NEW n \in Nat
  PROVE  /\ Deduct(r, n) \in Row
         /\ Total(r) >= n => Total(Deduct(r, n)) = Total(r) - n
         /\ Total(Deduct(r, n)) <= Total(r)
<1> DEFINE free  == Least(n, r.free)
           roll  == Least(n - free, r.roll)
           sub   == Least(n - free - roll, r.sub)
           purch == Least(n - free - roll - sub, r.purch)
           d     == Deduct(r, n)
<1>1. r.free \in Nat /\ r.roll \in Nat /\ r.sub \in Nat /\ r.purch \in Nat
  BY DEF Row
<1>2. free \in Nat /\ free <= n /\ free <= r.free /\ (free = n \/ free = r.free)
  BY <1>1 DEF Least
<1>3. roll \in Nat /\ roll <= n - free /\ roll <= r.roll /\ (roll = n - free \/ roll = r.roll)
  BY <1>1, <1>2 DEF Least
<1>4. /\ sub \in Nat /\ sub <= n - free - roll /\ sub <= r.sub
      /\ sub = n - free - roll \/ sub = r.sub
  BY <1>1, <1>2, <1>3 DEF Least
<1>5. /\ purch \in Nat /\ purch <= n - free - roll - sub /\ purch <= r.purch
      /\ purch = n - free - roll - sub \/ purch = r.purch
  BY <1>1, <1>2, <1>3, <1>4 DEF Least
<1>6. d = [r EXCEPT !.free = @ - free, !.roll = @ - roll, !.sub = @ - sub, !.purch = @ - purch]
  BY DEF Deduct
<1> HIDE DEF free, roll, sub, purch, d
<1>a. /\ r.free - free \in Nat /\ r.roll - roll \in Nat
      /\ r.sub - sub \in Nat /\ r.purch - purch \in Nat
  BY <1>1, <1>2, <1>3, <1>4, <1>5
<1>7. /\ d.free = r.free - free /\ d.roll = r.roll - roll
      /\ d.sub = r.sub - sub /\ d.purch = r.purch - purch
  BY <1>6 DEF Row
<1>8. d \in Row
  BY <1>a, <1>6 DEF Row
<1>9. Total(d) = Total(r) - (free + roll + sub + purch)
  BY <1>1, <1>2, <1>3, <1>4, <1>5, <1>7 DEF Total
<1>10. Total(r) >= n => free + roll + sub + purch = n
  BY <1>1, <1>2, <1>3, <1>4, <1>5 DEF Total
<1>11. Total(r) \in Nat
  BY <1>1 DEF Total
<1> QED
  BY <1>2, <1>3, <1>4, <1>5, <1>8, <1>9, <1>10, <1>11 DEF d

(* The values rows are built from have their types.                         *)
LEMMA Ageing ==
  /\ "never" \in Ages /\ "fresh" \in Ages /\ "lapsed" \in Ages
  /\ 0 \in Nat /\ NoCap \in Nat \cup {NoCap}
  BY DEF Ages

(* Expiry removes the rollover it logs and nothing else.                    *)
LEMMA ExpiryExact ==
  ASSUME NEW r \in Row
  PROVE  /\ Expired(r) \in Row
         /\ Total(Expired(r)) = Total(r) + ExpiryLog(r)
         /\ ExpiryLog(r) \in Int
<1>1. /\ r.free \in Nat /\ r.roll \in Nat /\ r.sub \in Nat /\ r.purch \in Nat
  BY DEF Row
<1>2. CASE RolloverDue(r)
  <2>1. Expired(r) = [r EXCEPT !.roll = 0, !.rollExp = "never"]
    BY <1>2 DEF Expired
  <2>2. Expired(r) \in Row
    BY <2>1, Ageing DEF Row
  <2>3. /\ Expired(r).free = r.free /\ Expired(r).roll = 0
        /\ Expired(r).sub = r.sub /\ Expired(r).purch = r.purch
    BY <2>1 DEF Row
  <2> QED
    BY <1>1, <1>2, <2>2, <2>3 DEF Total, ExpiryLog
<1>3. CASE ~RolloverDue(r)
  BY <1>1, <1>3 DEF Expired, ExpiryLog, Total
<1> QED
  BY <1>2, <1>3

(* Reopening the cap window moves no token.                                 *)
LEMMA WindowExact ==
  ASSUME NEW r \in Row
  PROVE  /\ OpenWindow(r) \in Row
         /\ Total(OpenWindow(r)) = Total(r)
<1>1. CASE OpenWindow(r) = r
  BY <1>1
<1>2. CASE OpenWindow(r) = [r EXCEPT !.period = "fresh", !.counted = 0]
  <2>1. OpenWindow(r) \in Row
    BY <1>2, Ageing DEF Row
  <2>2. /\ OpenWindow(r).free = r.free /\ OpenWindow(r).roll = r.roll
        /\ OpenWindow(r).sub = r.sub /\ OpenWindow(r).purch = r.purch
    BY <1>2 DEF Row
  <2> QED
    BY <2>1, <2>2 DEF Total
<1> QED
  BY <1>1, <1>2 DEF OpenWindow

(* A spend leaves a row, and when it succeeds the wallet held the amount,   *)
(* loses exactly what is logged, and stays within its cap.                  *)
LEMMA TrySpendExact ==
  ASSUME NEW r \in Row, NEW n \in Nat
  PROVE  LET out == TrySpend(r, n)
         IN  /\ out.row \in Row
             /\ out.logged \in Int
             /\ Total(out.row) = Total(r) + out.logged
             /\ out.ok => Total(r) >= n
<1> DEFINE e == Expired(r)
           w == OpenWindow(e)
           d == Deduct(w, n)
           paid == [d EXCEPT !.counted = IF e.cap # NoCap THEN @ + n ELSE @]
<1>1. /\ e \in Row /\ Total(e) = Total(r) + ExpiryLog(r) /\ ExpiryLog(r) \in Int
      /\ ExpiryLog(r) <= 0 /\ Total(r) \in Nat /\ Total(e) \in Nat
  <2>1. e \in Row /\ Total(e) = Total(r) + ExpiryLog(r) /\ ExpiryLog(r) \in Int
    BY ExpiryExact
  <2>2. Total(r) \in Nat /\ Total(e) \in Nat
    BY <2>1 DEF Total, Row
  <2>3. r.roll \in Nat
    BY DEF Row
  <2> QED
    BY <2>1, <2>2, <2>3 DEF ExpiryLog
<1>2. w \in Row /\ Total(w) = Total(e)
  BY <1>1, WindowExact
<1>3. d \in Row /\ (Total(w) >= n => Total(d) = Total(w) - n)
  BY <1>2, DeductExact
<1> HIDE DEF e, w, d
<1>4. CASE Total(e) < n
  <2>1. TrySpend(r, n) = Leaves(e, ExpiryLog(r), FALSE)
    BY <1>4 DEF TrySpend, e
  <2> QED
    BY <2>1, <1>1 DEF Leaves
<1>5. CASE ~(Total(e) < n) /\ e.cap # NoCap /\ w.counted + n > e.cap
  <2>1. TrySpend(r, n) = Leaves(w, ExpiryLog(r), FALSE)
    BY <1>5 DEF TrySpend, e, w
  <2> QED
    BY <2>1, <1>1, <1>2 DEF Leaves
<1>6. CASE ~(Total(e) < n) /\ ~(e.cap # NoCap /\ w.counted + n > e.cap)
  <2>1. TrySpend(r, n) = Leaves(paid, ExpiryLog(r) - n, TRUE)
    BY <1>6 DEF TrySpend, e, w, d
  <2>2. d.counted \in Nat
    BY <1>3 DEF Row
  <2>3. (IF e.cap # NoCap THEN d.counted + n ELSE d.counted) \in Nat
    BY <2>2
  <2>4. paid = [d EXCEPT !.counted = IF e.cap # NoCap THEN d.counted + n ELSE d.counted]
    OBVIOUS
  <2>5. paid \in Row
    BY <1>3, <2>3, <2>4 DEF Row
  <2>6. paid.free = d.free /\ paid.roll = d.roll /\ paid.sub = d.sub /\ paid.purch = d.purch
    BY <1>3, <2>4 DEF Row
  <2>7. Total(paid) = Total(d)
    BY <2>6 DEF Total
  <2> QED
    BY <1>1, <1>2, <1>3, <1>6, <2>1, <2>5, <2>7 DEF Leaves
<1> QED
  BY <1>4, <1>5, <1>6

(* Every operation turns a row into a row and logs an integer.              *)
LEMMA OutcomeType ==
  ASSUME NEW r \in Row, NEW k \in Kinds, NEW n \in Args(k)
  PROVE  Result(k, n, r).row \in Row /\ Result(k, n, r).logged \in Int
<1> DEFINE e == Expired(r)
<1>1. e \in Row /\ ExpiryLog(r) \in Int
  BY ExpiryExact
<1>2. /\ k \in {"spend", "record", "credit", "clawback", "allocate"} => n \in Nat
      /\ k = "tier" => n \in Nat
      /\ k = "cap" => n \in Nat \cup {NoCap}
      /\ k = "arm" => n \in {0, 1}
  BY AmountsAssumption, CapsAssumption DEF Args
<1>3. /\ e.purch \in Nat /\ r.purch \in Nat /\ e.sub \in Nat /\ e.counted \in Nat
  BY <1>1 DEF Row
<1> HIDE DEF e
<1>spend. CASE k = "spend"
  BY <1>spend, <1>2, TrySpendExact DEF Result
<1>record. CASE k = "record"
  <2>1. Deduct(e, n) \in Row
    BY <1>record, <1>1, <1>2, DeductExact
  <2>2. Result(k, n, r) = Leaves(Deduct(e, n), ExpiryLog(r) - n, TRUE)
    BY <1>record DEF Result, RecordSpend, e
  <2>3. ExpiryLog(r) - n \in Int
    BY <1>1, <1>2, <1>record
  <2> QED
    BY <2>1, <2>2, <2>3 DEF Leaves
<1>credit. CASE k = "credit"
  <2>1. e.purch + n \in Nat /\ ExpiryLog(r) + n \in Int
    BY <1>1, <1>2, <1>3, <1>credit
  <2>2. [e EXCEPT !.purch = @ + n] \in Row
    BY <1>1, <2>1 DEF Row
  <2>3. Result(k, n, r) = Leaves([e EXCEPT !.purch = @ + n], ExpiryLog(r) + n, TRUE)
    BY <1>credit DEF Result, AddPurchased, e
  <2> QED
    BY <2>1, <2>2, <2>3 DEF Leaves
<1>clawback. CASE k = "clawback"
  <2> DEFINE taken == Least(r.purch, n)
  <2>1. e.purch = r.purch
    BY DEF e, Expired, Row
  <2>2. taken \in Nat /\ e.purch - taken \in Nat /\ ExpiryLog(r) - taken \in Int
    BY <1>1, <1>2, <1>3, <1>clawback, <2>1 DEF Least
  <2> HIDE DEF taken
  <2>3. [e EXCEPT !.purch = @ - taken] \in Row
    BY <1>1, <2>2 DEF Row
  <2>4. Result(k, n, r) = Leaves([e EXCEPT !.purch = @ - taken], ExpiryLog(r) - taken, TRUE)
    BY <1>clawback DEF Result, ClawBack, e, taken
  <2> QED
    BY <2>2, <2>3, <2>4 DEF Leaves
<1>allocate. CASE k = "allocate"
  <2> DEFINE base == IF e.sub > 0 THEN [e EXCEPT !.roll = e.sub, !.rollExp = "fresh"] ELSE e
             out == Leaves([base EXCEPT !.sub = n], ExpiryLog(r) + n, TRUE)
  <2>1. base \in Row
    BY <1>1, <1>3, Ageing DEF Row
  <2>2. n \in Nat /\ ExpiryLog(r) + n \in Int
    BY <1>1, <1>2, <1>allocate
  <2> HIDE DEF base
  <2>3. [base EXCEPT !.sub = n] \in Row
    BY <2>1, <2>2 DEF Row
  <2>4. Result(k, n, r) = [out EXCEPT !.stamped = e.sub > 0]
    BY <1>allocate DEF Result, AddSubscription, e, base
  <2>5. Result(k, n, r).row = [base EXCEPT !.sub = n] /\ Result(k, n, r).logged = ExpiryLog(r) + n
    BY <2>4 DEF Leaves
  <2> QED
    BY <2>2, <2>3, <2>5
<1>tier. CASE k = "tier"
  <2> DEFINE t == [e EXCEPT !.sub = n, !.roll = 0, !.rollExp = "never"]
  <2>1. n \in Nat /\ ExpiryLog(r) + n \in Int
    BY <1>1, <1>2, <1>tier
  <2>2. t \in Row
    BY <1>1, <2>1, Ageing DEF Row
  <2>3. Result(k, n, r) = Leaves(t, ExpiryLog(r) + n, TRUE)
    BY <1>tier DEF Result, SetTestTier, e
  <2> QED
    BY <2>1, <2>2, <2>3 DEF Leaves
<1>cap. CASE k = "cap"
  <2> DEFINE opens == n # NoCap /\ e.period = "never"
             period == IF opens THEN "fresh" ELSE e.period
             counted == IF opens THEN 0 ELSE e.counted
             c == [e EXCEPT !.cap = n, !.period = period, !.counted = counted]
  <2>1. period \in Ages /\ counted \in Nat /\ n \in Nat \cup {NoCap}
    BY <1>1, <1>2, <1>3, <1>cap, Ageing DEF Row
  <2>2. Result(k, n, r) = Leaves(c, ExpiryLog(r), TRUE)
    BY <1>cap DEF Result, SetCap, e
  <2> HIDE DEF period, counted
  <2>3. c \in Row
    BY <1>1, <2>1 DEF Row
  <2> QED
    BY <1>1, <2>2, <2>3 DEF Leaves
<1>arm. CASE k = "arm"
  <2>1. [e EXCEPT !.armed = (n = 1)] \in Row
    BY <1>1 DEF Row
  <2>2. Result(k, n, r) = Leaves([e EXCEPT !.armed = (n = 1)], ExpiryLog(r), TRUE)
    BY <1>arm DEF Result, SetAutoTopup, e
  <2> QED
    BY <1>1, <2>1, <2>2 DEF Leaves
<1>card. CASE k = "card"
  <2>1. [e EXCEPT !.card = TRUE] \in Row
    BY <1>1 DEF Row
  <2>2. Result(k, n, r) = Leaves([e EXCEPT !.card = TRUE], ExpiryLog(r), TRUE)
    BY <1>card DEF Result, StoreCard, e
  <2> QED
    BY <1>1, <2>1, <2>2 DEF Leaves
<1>topup. CASE k = "topup"
  <2>1. [e EXCEPT !.charge = "fresh"] \in Row
    BY <1>1, Ageing DEF Row
  <2>2. /\ Result(k, n, r).row \in {e, [e EXCEPT !.charge = "fresh"]}
        /\ Result(k, n, r).logged = ExpiryLog(r)
    BY <1>topup DEF Result, ClaimTopup, e, Leaves
  <2> QED
    BY <1>1, <2>1, <2>2
<1>welcome. CASE k = "welcome"
  <2>1. EmptyRow \in Row
    BY Ageing DEF EmptyRow, Row
  <2>2. [EmptyRow EXCEPT !.free = Welcome] \in Row
    BY <2>1, WelcomeAssumption DEF Row
  <2> QED
    BY <1>welcome, <2>2 DEF Result, WelcomeGrant, Leaves
<1>read. CASE k = "read"
  BY <1>read, <1>1 DEF Result, ReadBalance, Leaves, e
<1> QED
  BY <1>spend, <1>record, <1>credit, <1>clawback, <1>allocate, <1>tier, <1>cap, <1>arm,
     <1>card, <1>topup, <1>welcome, <1>read DEF Kinds

(* A commit that overwrites changed columns keeps the row a row, and one    *)
(* that changed none leaves it alone.                                       *)
LEMMA MergeType ==
  ASSUME NEW now \in Row, NEW old \in Row, NEW out, out.row \in Row
  PROVE  /\ Merge(now, old, out) \in Row
         /\ out.row = old /\ ~out.stamped => Merge(now, old, out) = now
<1> DEFINE m == Merge(now, old, out)
<1>1. \A S : \A a, b, c \in S : Written(a, b, c) \in S
  BY DEF Written
<1>2. (IF out.stamped THEN out.row.rollExp
       ELSE Written(old.rollExp, out.row.rollExp, now.rollExp)) \in Ages
  BY <1>1 DEF Row
<1>3. m \in Row
  BY <1>1, <1>2 DEF Merge, Row
<1>4. ASSUME out.row = old, ~out.stamped
      PROVE  m = now
  <2>1. \A a, c : Written(a, a, c) = c
    BY DEF Written
  <2>2. /\ m.free = now.free /\ m.roll = now.roll /\ m.rollExp = now.rollExp
        /\ m.sub = now.sub /\ m.purch = now.purch /\ m.cap = now.cap
        /\ m.period = now.period /\ m.counted = now.counted /\ m.armed = now.armed
        /\ m.card = now.card /\ m.charge = now.charge
    BY <1>4, <2>1 DEF Merge
  <2> QED
    BY <1>3, <2>2 DEF Row
<1> QED
  BY <1>3, <1>4

(* What a session's operation computes from the row it read is well typed.  *)
LEMMA EffectType ==
  ASSUME TypeOK, NEW s \in Sessions
  PROVE  /\ txn[s] \in Txn
         /\ Effect(s).row \in Row
         /\ Effect(s).logged \in Int
<1>1. txn[s] \in Txn /\ txn[s].arg \in Args(txn[s].kind)
  BY DEF TypeOK
<1>2. txn[s].kind \in Kinds /\ txn[s].old \in Row
  BY <1>1 DEF Txn
<1> QED
  BY <1>1, <1>2, OutcomeType DEF Effect

(* A closed session is well typed.                                          *)
LEMMA ClosedType ==
  /\ Closed \in Txn
  /\ Closed.old = EmptyRow /\ Closed.created = FALSE
  /\ Closed.arg \in Args(Closed.kind)
  /\ EmptyRow \in Row
<1>1. EmptyRow \in Row
  BY Ageing DEF EmptyRow, Row
<1>2. (CHOOSE u \in Users : TRUE) \in Users
  BY UsersAssumption
<1>3. Closed \in Txn
  BY <1>1, <1>2 DEF Closed, Txn, Kinds
<1>4. Closed.arg \in Args(Closed.kind)
  BY DEF Closed, Args
<1> QED
  BY <1>1, <1>3, <1>4 DEF Closed

(* The opening wallets are well typed.                                      *)
LEMMA InitType == Init => TypeOK
<1> SUFFICES ASSUME Init PROVE TypeOK
  OBVIOUS
<1>1. txn \in [Sessions -> Txn] /\ \A s \in Sessions : txn[s] = Closed
  BY ClosedType DEF Init
<1>2. ledger \in [Users -> Int] /\ pc \in [Sessions -> {"idle", "open", "next"}]
  BY DEF Init
<1>3. /\ present \in SUBSET Users /\ rows \in [Users -> Row] /\ budget \in Nat
      /\ \A u \in Users \ present : rows[u] = EmptyRow
  BY StartAssumption, MaxOpsAssumption DEF Init
<1> QED
  BY <1>1, <1>2, <1>3, ClosedType DEF TypeOK, Init

(* Opening a session keeps the types.                                       *)
LEMMA ReadType ==
  ASSUME TypeOK, NEW s \in Sessions, NEW k \in Kinds, NEW u \in Users, NEW n \in Args(k),
         Read(s, k, u, n), budget' \in Nat
  PROVE  TypeOK'
<1> DEFINE t == [kind |-> k, user |-> u, arg |-> n, created |-> u \notin present, old |-> rows[u]]
<1>1. n \in Int
  <2>1. Amounts \subseteq Int /\ Caps \subseteq Int /\ NoCap \in Int
    BY AmountsAssumption, CapsAssumption DEF NoCap
  <2> QED
    BY <2>1 DEF Args
<1>2. t \in Txn
  BY <1>1 DEF TypeOK, Txn
<1>3. t.created => t.old = EmptyRow
  BY DEF TypeOK
<1>4. txn' = [txn EXCEPT ![s] = t] /\ pc' = [pc EXCEPT ![s] = "open"]
  BY DEF Read
<1>5. UNCHANGED <<present, rows, ledger>>
  BY DEF Read
<1> HIDE DEF t
<1>6. txn' \in [Sessions -> Txn] /\ \A x \in Sessions : txn'[x] = IF x = s THEN t ELSE txn[x]
  BY <1>2, <1>4 DEF TypeOK
<1>7. \A x \in Sessions : txn'[x].created => txn'[x].old = EmptyRow
  BY <1>3, <1>6 DEF TypeOK
<1>8. t.kind = k /\ t.arg = n
  BY DEF t
<1>9. \A x \in Sessions : txn'[x].arg \in Args(txn'[x].kind)
  BY <1>6, <1>8 DEF TypeOK
<1>10. pc' \in [Sessions -> {"idle", "open", "next"}]
  BY <1>4 DEF TypeOK
<1>11. \A x \in Sessions : pc'[x] = "next" => txn'[x].kind \in {"topup", "read"}
  BY <1>4, <1>6 DEF TypeOK
<1> QED
  BY <1>5, <1>6, <1>7, <1>9, <1>10, <1>11 DEF TypeOK

(* A session that ends keeps every type.                                    *)
LEMMA CloseType ==
  ASSUME TypeOK, NEW s \in Sessions, Close(s),
         present' \in SUBSET Users, rows' \in [Users -> Row], ledger' \in [Users -> Int],
         \A u \in Users \ present' : rows'[u] = EmptyRow, budget' \in Nat
  PROVE  TypeOK'
<1>1. txn' = [txn EXCEPT ![s] = Closed] /\ pc' = [pc EXCEPT ![s] = "idle"]
  BY DEF Close
<1>2. txn' \in [Sessions -> Txn] /\ \A x \in Sessions : txn'[x] = IF x = s THEN Closed ELSE txn[x]
  BY <1>1, ClosedType DEF TypeOK
<1>3. \A x \in Sessions : /\ txn'[x].created => txn'[x].old = EmptyRow
                          /\ txn'[x].arg \in Args(txn'[x].kind)
  BY <1>2, ClosedType DEF TypeOK
<1>4. pc' \in [Sessions -> {"idle", "open", "next"}]
  BY <1>1 DEF TypeOK
<1>5. \A x \in Sessions : pc'[x] = "next" => txn'[x].kind \in {"topup", "read"}
  BY <1>1, <1>2 DEF TypeOK
<1> QED
  BY <1>2, <1>3, <1>4, <1>5 DEF TypeOK

(* A commit writes a row to the user's wallet and an integer to the ledger, *)
(* and then closes the session or leaves it a follow-up.                    *)
LEMMA CommitType ==
  ASSUME TypeOK, NEW s \in Sessions, Commit(s)
  PROVE  TypeOK'
<1> DEFINE u == txn[s].user
           k == FollowUp(txn[s].kind, Effect(s).ok)
           t == [Closed EXCEPT !.kind = k, !.user = u]
<1>1. u \in Users /\ txn[s].old \in Row /\ Effect(s).row \in Row /\ Effect(s).logged \in Int
  BY EffectType DEF Txn
<1>2. rows[u] \in Row /\ ledger[u] \in Int
  BY <1>1 DEF TypeOK
<1>3. Merge(rows[u], txn[s].old, Effect(s)) \in Row
  BY <1>1, <1>2, MergeType
<1>4. /\ present' = present \cup {u}
      /\ rows' = [rows EXCEPT ![u] = Merge(rows[u], txn[s].old, Effect(s))]
      /\ ledger' = [ledger EXCEPT ![u] = ledger[u] + Effect(s).logged]
      /\ budget' = budget
  BY DEF Commit
<1>5. /\ present' \in SUBSET Users /\ rows' \in [Users -> Row]
      /\ ledger' \in [Users -> Int] /\ budget' \in Nat
      /\ \A x \in Users \ present' : rows'[x] = EmptyRow
  BY <1>1, <1>2, <1>3, <1>4 DEF TypeOK
<1>6. CASE k = "none"
  <2>1. Close(s)
    BY <1>6 DEF Commit
  <2> QED
    BY <1>5, <2>1, CloseType
<1>7. CASE k # "none"
  <2>1. txn' = [txn EXCEPT ![s] = t] /\ pc' = [pc EXCEPT ![s] = "next"]
    BY <1>7 DEF Commit
  <2>2. k \in {"topup", "read"}
    BY <1>7 DEF FollowUp
  <2> HIDE DEF k
  <2>3. t \in Txn
    BY <1>1, <2>2, ClosedType DEF Txn, Kinds
  <2>4. t.old = EmptyRow /\ t.arg = Closed.arg /\ t.kind = k
    BY ClosedType DEF Txn
  <2>5. t.arg \in Args(t.kind)
    BY <2>2, <2>4 DEF Args, Closed
  <2> HIDE DEF t
  <2>6. txn' \in [Sessions -> Txn] /\ \A x \in Sessions : txn'[x] = IF x = s THEN t ELSE txn[x]
    BY <2>1, <2>3 DEF TypeOK
  <2>7. \A x \in Sessions : /\ txn'[x].created => txn'[x].old = EmptyRow
                            /\ txn'[x].arg \in Args(txn'[x].kind)
    BY <2>4, <2>5, <2>6 DEF TypeOK
  <2>8. pc' \in [Sessions -> {"idle", "open", "next"}]
    BY <2>1 DEF TypeOK
  <2>9. \A x \in Sessions : pc'[x] = "next" => txn'[x].kind \in {"topup", "read"}
    BY <2>1, <2>2, <2>4, <2>6 DEF TypeOK
  <2> QED
    BY <1>5, <2>6, <2>7, <2>8, <2>9 DEF TypeOK
<1> QED
  BY <1>6, <1>7

(* Time only ages a timestamp of an existing wallet.                        *)
LEMMA LapseType ==
  ASSUME TypeOK, NEW u \in Users, Lapse(u)
  PROVE  TypeOK'
<1>1. rows[u] \in Row
  BY DEF TypeOK
<1>2. PICK r \in {[rows[u] EXCEPT !.rollExp = "lapsed"], [rows[u] EXCEPT !.period = "lapsed"],
                  [rows[u] EXCEPT !.charge = "lapsed"]} :
        rows' = [rows EXCEPT ![u] = r]
  BY DEF Lapse, RolloverLapses, CapWindowLapses, ChargeWindowLapses
<1>3. r \in Row
  BY <1>1, <1>2, Ageing DEF Row
<1>4. "fresh" \in {rows[u].rollExp, rows[u].period, rows[u].charge}
  BY DEF Lapse, RolloverLapses, CapWindowLapses, ChargeWindowLapses
<1>5. u \in present
  BY <1>4 DEF TypeOK, EmptyRow
<1>6. UNCHANGED <<present, ledger, pc, txn, budget>>
  BY DEF Lapse, RolloverLapses, CapWindowLapses, ChargeWindowLapses
<1>7. rows' \in [Users -> Row] /\ \A x \in Users \ present : rows'[x] = EmptyRow
  BY <1>2, <1>3, <1>5 DEF TypeOK
<1> QED
  BY <1>6, <1>7 DEF TypeOK

(* So does each step of a session ...                                       *)
LEMMA StepType ==
  ASSUME TypeOK, NEW s \in Sessions, Step(s)
  PROVE  TypeOK'
<1>1. CASE \E k \in Ops : \E u \in Users : \E n \in Args(k) : Begin(s, k, u, n)
  <2>0. PICK k \in Ops : \E u \in Users : \E n \in Args(k) : Begin(s, k, u, n)
    BY <1>1
  <2>1. PICK u \in Users, n \in Args(k) : Begin(s, k, u, n)
    BY <2>0
  <2>2. k \in Kinds /\ Read(s, k, u, n) /\ budget' \in Nat
    BY <2>1, OpsAssumption DEF Begin, TypeOK
  <2> QED
    BY <2>1, <2>2, ReadType
<1>2. CASE Continue(s)
  <2>1. Read(s, txn[s].kind, txn[s].user, 0) /\ budget' \in Nat
    BY <1>2 DEF Continue, TypeOK
  <2>2. txn[s].kind \in Kinds /\ txn[s].user \in Users
    BY DEF TypeOK, Txn
  <2>3. 0 \in Args(txn[s].kind)
    BY <1>2 DEF Continue, TypeOK, Args
  <2> QED
    BY <2>1, <2>2, <2>3, ReadType
<1>3. CASE Commit(s)
  BY <1>3, CommitType
<1>4. CASE Rollback(s)
  <2>1. Close(s) /\ UNCHANGED <<present, rows, ledger, budget>>
    BY <1>4 DEF Rollback
  <2> QED
    BY <2>1, CloseType DEF TypeOK
<1> QED
  BY <1>1, <1>2, <1>3, <1>4 DEF Step

(* ... and each step of the system.                                         *)
LEMMA NextType == TypeOK /\ [Next]_vars => TypeOK'
<1> SUFFICES ASSUME TypeOK, [Next]_vars PROVE TypeOK'
  OBVIOUS
<1>1. ASSUME NEW s \in Sessions, Step(s) PROVE TypeOK'
  BY <1>1, StepType
<1>2. ASSUME NEW u \in Users, Lapse(u) PROVE TypeOK'
  BY <1>2, LapseType
<1>3. CASE UNCHANGED vars
  BY <1>3 DEF vars, TypeOK
<1> QED
  BY <1>1, <1>2, <1>3 DEF Next

(* Every reachable state is well typed: in particular no sequence of        *)
(* interleaved sessions, locked or not, makes a bucket negative.            *)
THEOREM TypeCorrect == Spec => []TypeOK
<1> QED
  BY InitType, NextType, PTL DEF Spec

------------------------------------------------------------------------------
(* The row a session locked is the same wallet as long as only its windows  *)
(* run out.                                                                 *)
Older(a, b) == a = b \/ (a = "fresh" /\ b = "lapsed")

SameWallet(was, now) ==
  /\ was.free = now.free /\ was.roll = now.roll /\ was.sub = now.sub
  /\ was.purch = now.purch /\ was.cap = now.cap /\ was.counted = now.counted
  /\ was.armed = now.armed /\ was.card = now.card
  /\ Older(was.rollExp, now.rollExp) /\ Older(was.period, now.period)
  /\ Older(was.charge, now.charge)

LockedReadIsCurrent ==
  \A s \in Sessions : \A u \in Users : Holds(s, u) => SameWallet(txn[s].old, rows[u])

(* At most one session holds a wallet's row lock.                           *)
OneHolder ==
  \A u \in Users : \A s, t \in Sessions : Holds(s, u) /\ Holds(t, u) => s = t

(* What a row lock is worth.  The inductive invariant adds to the types     *)
(* that locks exclude each other and freeze the row they were taken on.     *)
LockInv == TypeOK /\ OneHolder /\ LockedReadIsCurrent

(* A row is the same wallet as itself.                                      *)
LEMMA SameWalletReflexive == \A r : SameWallet(r, r)
  BY DEF SameWallet, Older

(* A session that leaves the open state changes no other session's lock.    *)
LEMMA LeavingKeepsLocks ==
  ASSUME TypeOK, NEW s \in Sessions, NEW p, NEW t, p # "open",
         pc' = [pc EXCEPT ![s] = p], txn' = [txn EXCEPT ![s] = t]
  PROVE  \A x \in Sessions : \A u \in Users :
            Holds(x, u)' => x # s /\ Holds(x, u) /\ txn'[x] = txn[x]
  BY DEF TypeOK, Holds

(* A session that commits or rolls back is no longer open.                  *)
LEMMA LeaveShape ==
  ASSUME TypeOK, NEW s \in Sessions, Commit(s) \/ Rollback(s)
  PROVE  \E p, t : /\ p # "open"
                  /\ pc' = [pc EXCEPT ![s] = p] /\ txn' = [txn EXCEPT ![s] = t]
<1>1. CASE Close(s)
  BY <1>1 DEF Close
<1>2. CASE ~Close(s)
  <2>1. Commit(s) /\ FollowUp(txn[s].kind, Effect(s).ok) # "none"
    BY <1>2 DEF Commit, Rollback
  <2> QED
    BY <2>1 DEF Commit
<1> QED
  BY <1>1, <1>2

(* While x holds the lock of u, nobody else's commit changes u's row.       *)
LEMMA LockFreezesRow ==
  ASSUME TypeOK, NEW s \in Sessions, Commit(s),
         NEW x \in Sessions, NEW u \in Users, x # s, Holds(x, u)
  PROVE  rows'[u] = rows[u]
<1>1. txn[s].user \in Users /\ txn[s].old \in Row /\ Effect(s).row \in Row
  BY EffectType DEF Txn
<1>2. rows' = [rows EXCEPT ![txn[s].user] = Merge(rows[txn[s].user], txn[s].old, Effect(s))]
  BY DEF Commit
<1>3. rows \in [Users -> Row]
  BY DEF TypeOK
<1>4. CASE txn[s].user # u
  BY <1>1, <1>2, <1>3, <1>4
<1>5. CASE txn[s].user = u
  <2>1. LockedByOther(s, u)
    BY DEF LockedByOther
  <2>2. Effect(s).row = txn[s].old /\ ~Effect(s).stamped
    BY <1>5, <2>1 DEF Commit, Updates
  <2>3. Merge(rows[u], txn[s].old, Effect(s)) = rows[u]
    BY <1>1, <1>3, <2>2, MergeType
  <2> QED
    BY <1>2, <1>3, <1>5, <2>3
<1> QED
  BY <1>4, <1>5

(* A session that opens takes a lock only if nobody else has it.            *)
LEMMA ReadKeepsLocks ==
  ASSUME LockInv, NEW s \in Sessions, NEW k \in Kinds, NEW v \in Users, NEW n,
         Read(s, k, v, n), pc[s] # "open"
  PROVE  OneHolder' /\ LockedReadIsCurrent'
<1>1. /\ txn' = [txn EXCEPT ![s] = [kind |-> k, user |-> v, arg |-> n,
                                    created |-> v \notin present, old |-> rows[v]]]
      /\ pc' = [pc EXCEPT ![s] = "open"]
      /\ rows' = rows
  BY DEF Read
<1>2. \A x \in Sessions : \A u \in Users :
         Holds(x, u)' /\ x # s => Holds(x, u) /\ txn'[x] = txn[x]
  BY <1>1 DEF LockInv, TypeOK, Holds
<1>3. \A u \in Users : Holds(s, u)' => u = v /\ ~LockedByOther(s, u) /\ txn'[s].old = rows[u]
  BY <1>1 DEF LockInv, TypeOK, Holds, Read
<1>4. \A u \in Users : \A x \in Sessions : Holds(s, u)' /\ x # s => ~Holds(x, u)'
  BY <1>2, <1>3 DEF LockedByOther
<1>5. OneHolder'
  BY <1>2, <1>4 DEF LockInv, OneHolder
<1>6. ASSUME NEW x \in Sessions, NEW u \in Users, Holds(x, u)'
      PROVE  SameWallet(txn'[x].old, rows'[u])
  <2>1. CASE x = s
    BY <1>1, <1>3, <1>6, <2>1, SameWalletReflexive
  <2>2. CASE x # s
    BY <1>1, <1>2, <1>6, <2>2 DEF LockInv, LockedReadIsCurrent
  <2> QED
    BY <2>1, <2>2
<1> QED
  BY <1>5, <1>6 DEF LockedReadIsCurrent

(* A commit waits for other sessions' locks before it changes a row.        *)
LEMMA LeaveKeepsLocks ==
  ASSUME LockInv, NEW s \in Sessions, Commit(s) \/ Rollback(s)
  PROVE  OneHolder' /\ LockedReadIsCurrent'
<1>1. \A x \in Sessions : \A u \in Users :
         Holds(x, u)' => x # s /\ Holds(x, u) /\ txn'[x] = txn[x]
  <2>1. TypeOK
    BY DEF LockInv
  <2>2. PICK p, t : /\ p # "open"
                    /\ pc' = [pc EXCEPT ![s] = p] /\ txn' = [txn EXCEPT ![s] = t]
    BY <2>1, LeaveShape
  <2> QED
    BY <2>1, <2>2, LeavingKeepsLocks
<1>2. OneHolder'
  BY <1>1 DEF LockInv, OneHolder
<1>3. ASSUME NEW x \in Sessions, NEW u \in Users, Holds(x, u)'
      PROVE  SameWallet(txn'[x].old, rows'[u])
  <2>1. x # s /\ Holds(x, u) /\ txn'[x] = txn[x]
    BY <1>1, <1>3
  <2>2. rows'[u] = rows[u]
    <3>1. CASE Commit(s)
      BY <2>1, <3>1, LockFreezesRow DEF LockInv
    <3>2. CASE Rollback(s)
      BY <3>2 DEF Rollback
    <3> QED
      BY <3>1, <3>2
  <2> QED
    BY <2>1, <2>2 DEF LockInv, LockedReadIsCurrent
<1> QED
  BY <1>2, <1>3 DEF LockedReadIsCurrent

(* A window that runs out under a lock only makes the row older.            *)
LEMMA LapseKeepsLocks ==
  ASSUME LockInv, NEW v \in Users, Lapse(v)
  PROVE  OneHolder' /\ LockedReadIsCurrent'
<1>1. UNCHANGED <<pc, txn>>
  BY DEF Lapse, RolloverLapses, CapWindowLapses, ChargeWindowLapses
<1>2. \A x \in Sessions : \A u \in Users : Holds(x, u)' <=> Holds(x, u)
  BY <1>1 DEF Holds
<1>3. OneHolder'
  BY <1>2 DEF LockInv, OneHolder
<1>4. rows \in [Users -> Row]
  BY DEF LockInv, TypeOK
<1>5. \/ rows[v].rollExp = "fresh" /\ rows' = [rows EXCEPT ![v] = [rows[v] EXCEPT !.rollExp = "lapsed"]]
      \/ rows[v].period = "fresh" /\ rows' = [rows EXCEPT ![v] = [rows[v] EXCEPT !.period = "lapsed"]]
      \/ rows[v].charge = "fresh" /\ rows' = [rows EXCEPT ![v] = [rows[v] EXCEPT !.charge = "lapsed"]]
  BY DEF Lapse, RolloverLapses, CapWindowLapses, ChargeWindowLapses
<1>6. \A was : SameWallet(was, rows[v]) => SameWallet(was, rows'[v])
  BY <1>4, <1>5 DEF SameWallet, Older, Row
<1>7. \A u \in Users : u # v => rows'[u] = rows[u]
  BY <1>4, <1>5
<1>8. \A was : \A u \in Users : SameWallet(was, rows[u]) => SameWallet(was, rows'[u])
  BY <1>6, <1>7
<1> QED
  BY <1>1, <1>2, <1>3, <1>8 DEF LockInv, LockedReadIsCurrent

(* No session is open at the start.                                         *)
LEMMA InitLocks == Init => LockInv
<1> SUFFICES ASSUME Init PROVE LockInv
  OBVIOUS
<1>1. TypeOK
  BY InitType
<1>2. \A s \in Sessions : \A u \in Users : ~Holds(s, u)
  BY DEF Init, Holds
<1> QED
  BY <1>1, <1>2 DEF LockInv, OneHolder, LockedReadIsCurrent

(* The invariant is inductive.                                              *)
LEMMA NextLocks == LockInv /\ [Next]_vars => LockInv'
<1> SUFFICES ASSUME LockInv, [Next]_vars PROVE LockInv'
  OBVIOUS
<1>1. TypeOK /\ TypeOK'
  BY NextType DEF LockInv
<1>2. ASSUME NEW s \in Sessions, Step(s) PROVE OneHolder' /\ LockedReadIsCurrent'
  <2>1. CASE \E k \in Ops : \E u \in Users : \E n \in Args(k) : Begin(s, k, u, n)
    <3>1. PICK k \in Ops : \E u \in Users : \E n \in Args(k) : Begin(s, k, u, n)
      BY <2>1
    <3>2. PICK u \in Users, n \in Args(k) : Begin(s, k, u, n)
      BY <3>1
    <3>3. k \in Kinds /\ Read(s, k, u, n) /\ pc[s] # "open"
      BY <3>2, OpsAssumption DEF Begin
    <3> QED
      BY <3>3, ReadKeepsLocks
  <2>2. CASE Continue(s)
    <3>1. Read(s, txn[s].kind, txn[s].user, 0) /\ pc[s] # "open"
      BY <2>2 DEF Continue
    <3>2. txn[s].kind \in Kinds /\ txn[s].user \in Users
      BY <1>1 DEF TypeOK, Txn
    <3> QED
      BY <3>1, <3>2, ReadKeepsLocks
  <2>3. CASE Commit(s) \/ Rollback(s)
    BY <2>3, LeaveKeepsLocks
  <2> QED
    BY <1>2, <2>1, <2>2, <2>3 DEF Step
<1>3. ASSUME NEW u \in Users, Lapse(u) PROVE OneHolder' /\ LockedReadIsCurrent'
  BY <1>3, LapseKeepsLocks
<1>4. CASE UNCHANGED vars
  <2>1. \A x \in Sessions : \A u \in Users : Holds(x, u)' <=> Holds(x, u)
    BY <1>4 DEF Holds, vars
  <2>2. OneHolder'
    BY <2>1 DEF LockInv, OneHolder
  <2>3. txn' = txn /\ rows' = rows
    BY <1>4 DEF vars
  <2>4. LockedReadIsCurrent'
    BY <2>1, <2>3 DEF LockInv, LockedReadIsCurrent
  <2> QED
    BY <1>1, <2>2, <2>4 DEF LockInv
<1> QED
  BY <1>1, <1>2, <1>3, <1>4 DEF Next, LockInv

------------------------------------------------------------------------------
(* A successful spend counts its amount in the window it found, or in a     *)
(* window it reopened because the old one was over, and stays below the cap.*)
LEMMA TrySpendCounts ==
  ASSUME NEW r \in Row, NEW n \in Nat, TrySpend(r, n).ok
  PROVE  LET new == TrySpend(r, n).row
         IN  /\ new.cap = r.cap
             /\ new.cap # NoCap =>
                  /\ new.counted <= new.cap
                  /\ \/ new.counted = r.counted + n
                     \/ r.period # "fresh" /\ new.counted = n
<1> DEFINE e == Expired(r)
           w == OpenWindow(e)
           d == Deduct(w, n)
           capped == e.cap # NoCap
           paid == [d EXCEPT !.counted = IF capped THEN @ + n ELSE @]
<1>1. e \in Row /\ e.cap = r.cap /\ e.counted = r.counted /\ e.period = r.period
  BY ExpiryExact DEF Expired, Row
<1>2. /\ w \in Row /\ w.cap = r.cap
      /\ \/ w.counted = r.counted
         \/ r.period # "fresh" /\ w.counted = 0
  <2>1. w \in Row
    BY <1>1, WindowExact
  <2> HIDE DEF e
  <2> QED
    BY <1>1, <2>1 DEF OpenWindow, Row
<1>3. d \in Row /\ d.cap = w.cap /\ d.counted = w.counted
  <2>1. d \in Row
    BY <1>2, DeductExact
  <2> HIDE DEF w
  <2> QED
    BY <1>2, <2>1 DEF Deduct, Row
<1>4. /\ ~(capped /\ w.counted + n > e.cap)
      /\ TrySpend(r, n).row = paid
  BY DEF TrySpend, Leaves
<1> HIDE DEF e, w, d
<1>5. paid.cap = d.cap /\ paid.counted = IF capped THEN d.counted + n ELSE d.counted
  BY <1>3 DEF Row
<1>6. w.counted \in Nat /\ r.counted \in Nat /\ r.cap \in Nat \cup {NoCap}
  BY <1>2 DEF Row
<1> HIDE DEF paid
<1>7. CASE ~capped
  BY <1>1, <1>2, <1>3, <1>4, <1>5, <1>7
<1>8. CASE capped
  <2>1. paid.counted = w.counted + n /\ paid.cap = r.cap /\ paid.counted <= paid.cap
    BY <1>1, <1>2, <1>3, <1>4, <1>5, <1>6, <1>8 DEF NoCap
  <2> QED
    BY <1>2, <1>4, <1>6, <2>1
<1> QED
  BY <1>7, <1>8

(* Where the session read what is still there, the merge is its result.     *)
LEMMA MergeOfCurrent ==
  ASSUME NEW now, NEW old, NEW out, SameWallet(old, now)
  PROVE  LET m == Merge(now, old, out)
         IN  /\ m.free = out.row.free /\ m.roll = out.row.roll
             /\ m.sub = out.row.sub /\ m.purch = out.row.purch
             /\ m.cap = out.row.cap /\ m.counted = out.row.counted
<1>1. \A a, b : Written(a, b, a) = b
  BY DEF Written
<1> QED
  BY <1>1 DEF Merge, SameWallet

(* With row locks a committing spend finds the wallet it decided on.        *)
LEMMA SpenderIsCurrent ==
  ASSUME LockInv, Locking, NEW s \in Sessions, Commit(s), txn[s].kind \in LockedKinds
  PROVE  SameWallet(txn[s].old, rows[txn[s].user])
<1>1. txn[s].user \in Users
  BY DEF LockInv, TypeOK, Txn
<1>2. CASE txn[s].created
  BY <1>1, <1>2, SameWalletReflexive DEF LockInv, TypeOK, Commit, Clashes
<1>3. CASE ~txn[s].created
  <2>1. Holds(s, txn[s].user)
    BY <1>3 DEF Holds, Commit
  <2> QED
    BY <1>1, <2>1 DEF LockInv, LockedReadIsCurrent
<1> QED
  BY <1>2, <1>3

(* A spend that commits under locks takes exactly what it logs.             *)
LEMMA SpendLandsExactly ==
  ASSUME LockInv, Locking, NEW s \in Sessions, SpendLands(s)
  PROVE  SpendExact(s)
<1> DEFINE u   == txn[s].user
           old == txn[s].old
           n   == txn[s].arg
           out == TrySpend(old, n)
<1>1. u \in Users /\ old \in Row /\ n \in Nat /\ Commit(s) /\ rows[u] \in Row /\ ledger[u] \in Int
  <2>1. txn[s] \in Txn /\ n \in Args("spend")
    BY DEF LockInv, TypeOK, SpendLands
  <2> QED
    BY <2>1, AmountsAssumption DEF Args, Txn, SpendLands, LockInv, TypeOK
<1>2. Effect(s) = out /\ out.ok
  BY DEF Effect, Result, SpendLands
<1>3. SameWallet(old, rows[u])
  BY <1>1, SpenderIsCurrent DEF SpendLands, LockedKinds
<1>4. /\ rows'[u] = Merge(rows[u], old, out)
      /\ ledger'[u] = ledger[u] + out.logged
  BY <1>1, <1>2 DEF Commit, LockInv, TypeOK
<1>5. /\ out.row \in Row /\ out.logged \in Int
      /\ Total(out.row) = Total(old) + out.logged
      /\ Total(old) >= n
  BY <1>1, <1>2, TrySpendExact
<1>6. Total(rows[u]) = Total(old)
  BY <1>3 DEF SameWallet, Total
<1>7. /\ Total(rows'[u]) = Total(out.row)
      /\ rows'[u].cap = out.row.cap /\ rows'[u].counted = out.row.counted
  BY <1>3, <1>4, MergeOfCurrent DEF Total
<1>8. /\ out.row.cap # NoCap =>
           /\ out.row.counted <= out.row.cap
           /\ \/ out.row.counted = old.counted + n
              \/ old.period # "fresh" /\ out.row.counted = n
  BY <1>1, <1>2, TrySpendCounts
<1>9. rows[u].counted = old.counted /\ (old.period # "fresh" => rows[u].period # "fresh")
  BY <1>3 DEF SameWallet, Older
<1>10. Total(rows'[u]) - Total(rows[u]) = ledger'[u] - ledger[u]
  <2>1. Total(old) \in Int
    BY <1>1 DEF Total, Row
  <2> HIDE DEF u, old, n, out
  <2> QED
    BY <1>1, <1>4, <1>5, <1>6, <1>7, <2>1
<1> HIDE DEF old, n, out, u
<1> QED
  BY <1>5, <1>6, <1>7, <1>8, <1>9, <1>10 DEF SpendExact, u, n

(* On a database with row locks try_spend is the atomic check-and-deduct    *)
(* its docstring promises, beside any mix of the other operations.          *)
THEOREM SpendsAreExact ==
  ASSUME Locking
  PROVE  Spec => SpendIsExact
<1>1. LockInv /\ [Next]_vars => [\A s \in Sessions : SpendLands(s) => SpendExact(s)]_vars
  BY SpendLandsExactly
<1> QED
  BY <1>1, InitLocks, NextLocks, PTL DEF Spec, SpendIsExact

(* ... and one charge of the saved card per window at most.                 *)
LEMMA ClaimLandsOnce ==
  ASSUME LockInv, Locking, NEW s \in Sessions, ClaimLands(s)
  PROVE  rows[txn[s].user].charge # "fresh"
<1>1. SameWallet(txn[s].old, rows[txn[s].user])
  BY SpenderIsCurrent DEF ClaimLands, LockedKinds
<1>2. Expired(txn[s].old).charge # "fresh"
  BY DEF ClaimLands, Effect, Result, ClaimTopup, Leaves
<1>3. txn[s].old \in Row
  BY DEF LockInv, TypeOK, Txn
<1>4. txn[s].old.charge # "fresh"
  BY <1>2, <1>3 DEF Expired, Row
<1> QED
  BY <1>1, <1>4 DEF SameWallet, Older

(* Under row locks the saved card is charged at most once per window.       *)
THEOREM ClaimsAreOncePerWindow ==
  ASSUME Locking
  PROVE  Spec => OneClaimPerWindow
<1>1. LockInv /\ [Next]_vars =>
        [\A s \in Sessions : ClaimLands(s) => rows[txn[s].user].charge # "fresh"]_vars
  BY ClaimLandsOnce
<1> QED
  BY <1>1, InitLocks, NextLocks, PTL DEF Spec, OneClaimPerWindow
==============================================================================
