------------------------------ MODULE Transfers ------------------------------
(***************************************************************************)
(* Sessions that move tokens of more than one wallet, beside the sessions  *)
(* of Wallet: transfer_tokens (credits/manager.py), which runs inside its  *)
(* caller's session, and the reset of every wallet's free tokens           *)
(* (credits/routes.py).  A transfer locks the buyer's row; the seller's is *)
(* read, and the rows of a reset are read, without a lock.                 *)
(***************************************************************************)
EXTENDS Wallet

CONSTANTS
  Sales,      (* sessions that may be in a transfer at once                *)
  Resets      (* may the operator reset the free tokens?                   *)

ASSUME SalesAssumption == Resets \in BOOLEAN

VARIABLES
  sale,       (* per transfer: how far it is, its terms, the rows it read  *)
  sweep,      (* the reset: open or not, and the rows it read              *)
  given,      (* users whose wallet was made with the welcome grant        *)
  clobbered   (* users of whose wallet a commit overwrote another's write  *)

tvars == <<vars, sale, sweep, given, clobbered>>

NoSale == [phase |-> "idle", buyer |-> Closed.user, seller |-> Closed.user, amount |-> 0,
           cut |-> 0, paid |-> EmptyRow, credited |-> EmptyRow, created |-> FALSE]
NoSweep == [open |-> FALSE, old |-> [u \in Users |-> EmptyRow], over |-> {}]

(* The row lock of a transfer, from its debit to the end of its session.    *)
SaleLocks(t, u) == Locking /\ sale[t].phase # "idle" /\ sale[t].buyer = u

Locked(u) == (\E t \in Sales : SaleLocks(t, u)) \/ (\E s \in Sessions : Holds(s, u))

(* A commit that writes a bucket which has changed since it was read.       *)
Buckets == {"free", "roll", "sub", "purch"}
Overwrites(now, old, new) == \E b \in Buckets : new[b] # old[b] /\ now[b] # old[b]
------------------------------------------------------------------------------
TransfersInit == /\ Init
                 /\ sale = [t \in Sales |-> NoSale]
                 /\ sweep = NoSweep
                 /\ given = {} /\ clobbered = {}

(* A session of Wallet waits for the lock of a transfer: to take the lock,  *)
(* and to update the row.                                                   *)
Waits(s) ==
  \A t \in Sales, u \in Users :
    SaleLocks(t, u) => /\ rows'[u] = rows[u]
                       /\ pc[s] # "open" /\ pc'[s] = "open" /\ txn'[s].kind \in LockedKinds
                            => txn'[s].user # u

Beside(s) ==
  LET u == txn[s].user
  IN  /\ Step(s)
      /\ Waits(s)
      /\ given' = IF Commit(s) /\ txn[s].kind = "welcome" THEN given \cup {u} ELSE given
      /\ clobbered' = IF Commit(s) /\ Overwrites(rows[u], txn[s].old, Effect(s).row)
                        THEN clobbered \cup {u} ELSE clobbered
      /\ UNCHANGED <<sale, sweep>>

(* Mutation: the buyer's row is read without the lock.                      *)
Unlocked(u) == TRUE

MayDebit(u) == ~Locked(u)

(* What the buyer and the seller are left with.                             *)
Debited(t)  == RecordSpend(sale[t].paid, sale[t].amount)
Credited(t) == AddPurchased(sale[t].credited, sale[t].cut)

(* The buyer is read under the lock and found able to pay; one who is not,  *)
(* or has no wallet, ends the caller's session with an exception.  The cuts *)
(* of the creator and the platform sum to the amount.                       *)
Debit(t, b, s, n) ==
  /\ sale[t].phase = "idle"
  /\ budget > 0
  /\ b # s
  /\ b \in present
  /\ MayDebit(b)
  /\ Total(Expired(rows[b])) >= n
  /\ \E cut \in 0 .. n :
       sale' = [sale EXCEPT ![t] = [NoSale EXCEPT !.phase = "debited", !.buyer = b, !.seller = s,
                                      !.amount = n, !.cut = cut, !.paid = rows[b]]]
  /\ budget' = budget - 1
  /\ UNCHANGED <<present, rows, ledger, pc, txn, sweep, given, clobbered>>

(* The seller's wallet, read without a lock or made.                        *)
ReadSeller(t) ==
  /\ sale[t].phase = "debited"
  /\ sale' = [sale EXCEPT ![t].phase = "credited", ![t].credited = rows[sale[t].seller],
                          ![t].created = sale[t].seller \notin present]
  /\ UNCHANGED <<vars, sweep, given, clobbered>>

(* The caller commits: both rows and both ledger rows, or neither.  A       *)
(* wallet made for the seller may exist by now.                             *)
Land(t) ==
  LET b == sale[t].buyer
      s == sale[t].seller
  IN  /\ sale[t].phase = "credited"
      /\ ~(sale[t].created /\ s \in present)
      /\ ~Locked(s)
      /\ present' = present \cup {s}
      /\ rows' = [rows EXCEPT ![b] = Merge(@, sale[t].paid, Debited(t)),
                              ![s] = Merge(@, sale[t].credited, Credited(t))]
      /\ ledger' = [ledger EXCEPT ![b] = @ + Debited(t).logged, ![s] = @ + Credited(t).logged]
      /\ clobbered' = clobbered
           \cup {u \in {b} : Overwrites(rows[u], sale[t].paid, Debited(t).row)}
           \cup {u \in {s} : Overwrites(rows[u], sale[t].credited, Credited(t).row)}
      /\ sale' = [sale EXCEPT ![t] = NoSale]
      /\ UNCHANGED <<pc, txn, budget, sweep, given>>

(* An exception of the caller, a crash, or the victim of a deadlock.        *)
Abort(t) ==
  /\ sale[t].phase # "idle"
  /\ sale' = [sale EXCEPT ![t] = NoSale]
  /\ UNCHANGED <<vars, sweep, given, clobbered>>

(* cli_reset_free_tokens reads every wallet ...                             *)
StartReset ==
  /\ Resets /\ ~sweep.open /\ budget > 0
  /\ sweep' = [open |-> TRUE, old |-> rows, over |-> present]
  /\ budget' = budget - 1
  /\ UNCHANGED <<present, rows, ledger, pc, txn, sale, given, clobbered>>

(* Mutation: the reset leaves no transaction.                               *)
ResetUnlogged(r) == Leaves([r EXCEPT !.free = Welcome], 0, TRUE)

Reset(r) == Leaves([r EXCEPT !.free = Welcome], Welcome - r.free, TRUE)

(* ... and gives each that differs the welcome amount.                      *)
FinishReset ==
  /\ sweep.open
  /\ \A u \in sweep.over : sweep.old[u].free # Welcome => ~Locked(u)
  /\ rows' = [u \in Users |-> IF u \in sweep.over THEN Merge(rows[u], sweep.old[u], Reset(sweep.old[u]))
                                                  ELSE rows[u]]
  /\ ledger' = [u \in Users |-> IF u \in sweep.over THEN ledger[u] + Reset(sweep.old[u]).logged
                                                    ELSE ledger[u]]
  /\ clobbered' = clobbered \cup {u \in sweep.over :
                    Overwrites(rows[u], sweep.old[u], Reset(sweep.old[u]).row)}
  /\ sweep' = NoSweep
  /\ UNCHANGED <<present, pc, txn, budget, sale, given>>

Trade(t) == \/ \E b \in Users, s \in Users, n \in Amounts : Debit(t, b, s, n)
            \/ ReadSeller(t) \/ Land(t) \/ Abort(t)

TransfersNext ==
  \/ \E s \in Sessions : Beside(s)
  \/ \E t \in Sales : Trade(t)
  \/ StartReset \/ FinishReset
  \/ \E u \in Users : Lapse(u) /\ UNCHANGED <<sale, sweep, given, clobbered>>

TransfersSpec == TransfersInit /\ [][TransfersNext]_tvars
------------------------------------------------------------------------------
(* Every movement is in the ledger, across wallets as well: a wallet is its *)
(* opening balance, the welcome grant if it was made with one, and the sum  *)
(* of its token_transaction rows (credits/models.py), unless some commit    *)
(* overwrote what another session had put there.                            *)
LedgerAgrees ==
  \A u \in Users \ clobbered :
    Total(rows[u]) = Total(Rows0[u]) + ledger[u] + (IF u \in given THEN Welcome ELSE 0)

(* What the last step of the transfer t does to the two wallets.            *)
LandsExactly(t) ==
  LET b == sale[t].buyer
      s == sale[t].seller
  IN  /\ Total(rows[b]) >= sale[t].amount
      /\ Total(rows'[b]) - Total(rows[b]) = ledger'[b] - ledger[b]
      /\ s \notin clobbered' =>
           Total(rows'[b]) + Total(rows'[s])
             = Total(rows[b]) + Total(rows[s]) - (sale[t].amount - sale[t].cut)
                 + ExpiryLog(sale[t].paid) + ExpiryLog(sale[t].credited)

(* transfer_tokens takes from the buyer exactly the amount the ledger says, *)
(* out of a balance that covers it, whatever runs beside it; and as long as *)
(* it overwrites nothing of the seller's, the two wallets together lose the *)
(* platform's cut and what expired, and nothing else.                       *)
SaleIsExact ==
  [][\A t \in Sales : sale[t].phase = "credited" /\ Land(t) => LandsExactly(t)]_tvars

(* The welcome grant is one-time: on a wallet that exists, free tokens grow *)
(* only by the operator's reset, however first sign-ins, credits, transfers *)
(* and spends race to make the wallet.                                      *)
FreeIsGivenOnce ==
  [][\A u \in present : rows'[u].free > rows[u].free => sweep.open /\ ~sweep'.open]_tvars
==============================================================================
