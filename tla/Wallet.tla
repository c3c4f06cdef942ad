------------------------------- MODULE Wallet -------------------------------
(***************************************************************************)
(* The token_balance table under concurrent database sessions              *)
(* (credits/manager.py over database/session.py).                          *)
(*                                                                         *)
(* Every operation of the manager is one session: it reads the row,        *)
(* computes in Python, and at the end of get_session's block commits.      *)
(* SQLAlchemy writes the ABSOLUTE values of the columns that changed, so   *)
(* what another session committed in between is overwritten.  try_spend    *)
(* and maybe_autotopup read with SELECT ... FOR UPDATE: with Locking (a    *)
(* server that has row locks, Postgres) that freezes the row until the     *)
(* session ends; without (SQLite) the hint does nothing.                   *)
(***************************************************************************)
EXTENDS WalletOps

CONSTANTS
  Users,
  Sessions,   (* database sessions that may be open at once                *)
  Amounts,    (* token amounts of spends, credits, refunds and allocations *)
  Caps,       (* monthly caps a user may choose                            *)
  Ops,        (* the operations this instance exercises                    *)
  Locking,    (* does FOR UPDATE lock the row?                             *)
  AutoTopup,  (* AUTOTOPUP_ENABLED                                         *)
  Present0,   (* users that own a wallet at the start                      *)
  Rows0,      (* their rows                                                *)
  MaxOps      (* bound: operations started in a behaviour                  *)

Kinds == {"spend", "record", "credit", "clawback", "allocate", "tier", "read",
          "cap", "arm", "card", "topup", "welcome"}
LockedKinds == {"spend", "topup"}

ASSUME UsersAssumption   == Users # {}
ASSUME AmountsAssumption == Amounts \subseteq Nat \ {0}
ASSUME CapsAssumption    == Caps \subseteq Nat
ASSUME OpsAssumption     == Ops \subseteq Kinds \ {"topup"}
ASSUME FlagsAssumption   == Locking \in BOOLEAN /\ AutoTopup \in BOOLEAN
ASSUME StartAssumption   ==
  /\ Present0 \subseteq Users
  /\ Rows0 \in [Users -> Row]
  /\ \A u \in Users \ Present0 : Rows0[u] = EmptyRow
ASSUME MaxOpsAssumption  == MaxOps \in Nat

VARIABLES
  present,    (* users with a token_balance row                            *)
  rows,       (* the committed rows (EmptyRow where there is none)         *)
  ledger,     (* per user, the sum of the committed token_transaction rows *)
  pc,         (* per session: idle, open, or next when a follow-up is due  *)
  txn,        (* per session: the operation and the row it read            *)
  budget      (* operations that may still start                           *)

vars == <<present, rows, ledger, pc, txn, budget>>

Args(k) ==
  CASE k \in {"spend", "record", "credit", "clawback", "allocate"} -> Amounts
    [] k = "tier" -> Amounts \cup {0}
    [] k = "cap"  -> Caps \cup {NoCap}
    [] k = "arm"  -> {0, 1}
    [] OTHER      -> {0}

(* What an operation does to the row it read.                               *)
Result(k, n, r) ==
  CASE k = "spend"    -> TrySpend(r, n)
    [] k = "record"   -> RecordSpend(r, n)
    [] k = "credit"   -> AddPurchased(r, n)
    [] k = "clawback" -> ClawBack(r, n)
    [] k = "allocate" -> AddSubscription(r, n)
    [] k = "tier"     -> SetTestTier(r, n)
    [] k = "cap"      -> SetCap(r, n)
    [] k = "arm"      -> SetAutoTopup(r, n = 1)
    [] k = "card"     -> StoreCard(r)
    [] k = "topup"    -> ClaimTopup(r)
    [] k = "welcome"  -> WelcomeGrant
    [] OTHER          -> ReadBalance(r)

Txn == [kind: Kinds, user: Users, arg: Int, created: BOOLEAN, old: Row]

(* A session that is not open.                                              *)
Closed == [kind |-> "read", user |-> CHOOSE u \in Users : TRUE, arg |-> 0,
           created |-> FALSE, old |-> EmptyRow]

Effect(s) == Result(txn[s].kind, txn[s].arg, txn[s].old)

(* The columns a commit writes: those the session changed.                  *)
Written(was, is, now) == IF is # was THEN is ELSE now

Merge(now, old, out) ==
  LET new == out.row
  IN  [free    |-> Written(old.free, new.free, now.free),
       roll    |-> Written(old.roll, new.roll, now.roll),
       rollExp |-> IF out.stamped THEN new.rollExp
                   ELSE Written(old.rollExp, new.rollExp, now.rollExp),
       sub     |-> Written(old.sub, new.sub, now.sub),
       purch   |-> Written(old.purch, new.purch, now.purch),
       cap     |-> Written(old.cap, new.cap, now.cap),
       period  |-> Written(old.period, new.period, now.period),
       counted |-> Written(old.counted, new.counted, now.counted),
       armed   |-> Written(old.armed, new.armed, now.armed),
       card    |-> Written(old.card, new.card, now.card),
       charge  |-> Written(old.charge, new.charge, now.charge)]

(* The session an operation opens after its own has committed: a spend that *)
(* succeeded tries an auto top-up, the setters read back what they set.     *)
FollowUp(k, ok) ==
  CASE k = "spend" /\ ok /\ AutoTopup -> "topup"
    [] k \in {"cap", "arm"}            -> "read"
    [] OTHER                           -> "none"

(* Session s holds the row lock of u: FOR UPDATE locks only existing rows.  *)
Holds(s, u) == /\ Locking
               /\ pc[s] = "open"
               /\ txn[s].kind \in LockedKinds
               /\ txn[s].user = u
               /\ ~txn[s].created

(* Mutation: FOR UPDATE is left out of the query.                           *)
NobodyLocks(s, u) == FALSE

LockedByOther(s, u) == \E t \in Sessions \ {s} : Holds(t, u)

Updates(s) == Effect(s).row # txn[s].old \/ Effect(s).stamped

(* Mutation: user_id is not unique.                                         *)
NeverClashes(t) == FALSE

(* Another session created the wallet this one is about to insert.          *)
Clashes(t) == t.created /\ t.user \in present
------------------------------------------------------------------------------
Init == /\ present = Present0
        /\ rows = Rows0
        /\ ledger = [u \in Users |-> 0]
        /\ pc = [s \in Sessions |-> "idle"]
        /\ txn = [s \in Sessions |-> Closed]
        /\ budget = MaxOps

(* The session opens and reads the row, or inserts an empty one.            *)
Read(s, k, u, n) ==
  /\ k \in LockedKinds => ~LockedByOther(s, u)
  /\ txn' = [txn EXCEPT ![s] = [kind |-> k, user |-> u, arg |-> n,
                                created |-> u \notin present, old |-> rows[u]]]
  /\ pc' = [pc EXCEPT ![s] = "open"]
  /\ UNCHANGED <<present, rows, ledger>>

(* issue_welcome_grant_if_new answers False at once if there is a wallet.   *)
Begin(s, k, u, n) ==
  /\ pc[s] = "idle"
  /\ budget > 0
  /\ k = "welcome" => u \notin present
  /\ Read(s, k, u, n)
  /\ budget' = budget - 1

(* The follow-up opens a session of its own.                                *)
Continue(s) ==
  /\ pc[s] = "next"
  /\ Read(s, txn[s].kind, txn[s].user, 0)
  /\ UNCHANGED budget

Close(s) == /\ pc' = [pc EXCEPT ![s] = "idle"]
            /\ txn' = [txn EXCEPT ![s] = Closed]

(* The end of get_session's block.  An UPDATE waits for another session's   *)
(* row lock; an INSERT of a wallet that exists by now violates the unique   *)
(* user_id and the session rolls back instead.                              *)
Commit(s) ==
  LET t == txn[s]
      out == Effect(s)
  IN  /\ pc[s] = "open"
      /\ ~Clashes(t)
      /\ Updates(s) => ~LockedByOther(s, t.user)
      /\ present' = present \cup {t.user}
      /\ rows' = [rows EXCEPT ![t.user] = Merge(@, t.old, out)]
      /\ ledger' = [ledger EXCEPT ![t.user] = @ + out.logged]
      /\ IF FollowUp(t.kind, out.ok) = "none"
           THEN Close(s)
           ELSE /\ pc' = [pc EXCEPT ![s] = "next"]
                /\ txn' = [txn EXCEPT ![s] = [Closed EXCEPT !.kind = FollowUp(t.kind, out.ok),
                                                            !.user = t.user]]
      /\ UNCHANGED budget

(* An exception, a unique violation, a deadlock victim or a crash: nothing  *)
(* of the session survives, and no follow-up comes after it.                *)
Rollback(s) ==
  /\ pc[s] # "idle"
  /\ Close(s)
  /\ UNCHANGED <<present, rows, ledger, budget>>

(* Time: a rollover deadline, a cap window or a charge window runs out.     *)
RolloverLapses(u) ==
  /\ rows[u].rollExp = "fresh"
  /\ rows' = [rows EXCEPT ![u].rollExp = "lapsed"]
  /\ UNCHANGED <<present, ledger, pc, txn, budget>>

CapWindowLapses(u) ==
  /\ rows[u].period = "fresh"
  /\ rows' = [rows EXCEPT ![u].period = "lapsed"]
  /\ UNCHANGED <<present, ledger, pc, txn, budget>>

ChargeWindowLapses(u) ==
  /\ rows[u].charge = "fresh"
  /\ rows' = [rows EXCEPT ![u].charge = "lapsed"]
  /\ UNCHANGED <<present, ledger, pc, txn, budget>>

Lapse(u) == RolloverLapses(u) \/ CapWindowLapses(u) \/ ChargeWindowLapses(u)

Step(s) == \/ \E k \in Ops : \E u \in Users : \E n \in Args(k) : Begin(s, k, u, n)
           \/ Continue(s)
           \/ Commit(s)
           \/ Rollback(s)

Next == \/ \E s \in Sessions : Step(s)
        \/ \E u \in Users : Lapse(u)

Spec == Init /\ [][Next]_vars
------------------------------------------------------------------------------
(* Every variable has its type; in particular no bucket is ever negative    *)
(* and a user without a row has nothing.                                    *)
TypeOK ==
  /\ present \in SUBSET Users
  /\ rows \in [Users -> Row]
  /\ \A u \in Users \ present : rows[u] = EmptyRow
  /\ ledger \in [Users -> Int]
  /\ pc \in [Sessions -> {"idle", "open", "next"}]
  /\ txn \in [Sessions -> Txn]
  /\ \A s \in Sessions : txn[s].created => txn[s].old = EmptyRow
  /\ \A s \in Sessions : txn[s].arg \in Args(txn[s].kind)
  /\ \A s \in Sessions : pc[s] = "next" => txn[s].kind \in {"topup", "read"}
  /\ budget \in Nat

(* try_spend is an atomic check-and-deduct: whatever runs beside it, the    *)
(* step that commits a successful spend takes out of the wallet exactly     *)
(* what the ledger says, never more than was there, and what is capped is   *)
(* counted and fits the cap in force.                                       *)
SpendLands(s) == txn[s].kind = "spend" /\ Effect(s).ok /\ Commit(s)

SpendExact(s) ==
  LET u == txn[s].user
  IN  /\ Total(rows'[u]) - Total(rows[u]) = ledger'[u] - ledger[u]
      /\ Total(rows[u]) >= txn[s].arg
      /\ rows'[u].cap # NoCap =>
           /\ rows'[u].counted <= rows'[u].cap
           /\ \/ rows'[u].counted = rows[u].counted + txn[s].arg
              \/ rows[u].period # "fresh" /\ rows'[u].counted = txn[s].arg

SpendIsExact == [][\A s \in Sessions : SpendLands(s) => SpendExact(s)]_vars

(* The card is charged at most once per window: a claim never commits while *)
(* another claim of the same hour is in the table.                          *)
ClaimLands(s) == txn[s].kind = "topup" /\ Effect(s).ok /\ Commit(s)

OneClaimPerWindow ==
  [][\A s \in Sessions : ClaimLands(s) => rows[txn[s].user].charge # "fresh"]_vars

(* The wallet as the abstract account of TokenAccount.                      *)
Account == INSTANCE TokenAccount
             WITH Opening <- [u \in Users |-> Total(Rows0[u])],
                  balance <- [u \in Users |-> Total(rows[u])]

AccountSpec == Account!Spec
==============================================================================
