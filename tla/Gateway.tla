------------------------------- MODULE Gateway -------------------------------
(***************************************************************************)
(* The calls one user pays for, from the check of the wallet to the        *)
(* charge: chat and speech in the platform's process (gateway/routes.py),  *)
(* the overlay's spends (credits/routes.py), and a studio in a process of  *)
(* its own that reaches the platform over HTTP (credits/client.py); with   *)
(* the drain, the interrupts and the crashes of Lifecycle.                 *)
(*                                                                         *)
(* Every operation of the manager is atomic here, a spend under its row    *)
(* lock; what overlapping sessions do to one another is Wallet's.          *)
(* Authentication, prices and the admins' exemption are left out.          *)
(***************************************************************************)
EXTENDS Lifecycle, FiniteSets

CONSTANTS
  Calls,      (* calls that may be made, each once                         *)
  Opening,    (* tokens in the wallet at the start                         *)
  Estimates,  (* what a call may be estimated to cost                      *)
  Caps,       (* monthly caps the user may set                             *)
  FailOpen,   (* CREDIT_FAIL_MODE is "open"                                *)
  MaxCrashes  (* bound: crashes                                            *)

Kinds == {"chat", "tts", "overlay", "studio"}

ASSUME CallsAssumption ==
  /\ IsFiniteSet(Calls)
  /\ Opening \in Nat /\ Estimates \subseteq Nat \ {0} /\ Caps \subseteq Nat
  /\ FailOpen \in BOOLEAN /\ MaxCrashes \in Nat

VARIABLES
  balance,    (* the user's wallet                                         *)
  month,      (* its spending cap, what is counted against it, and the age *)
              (* of the 30-day window                                      *)
  call,       (* per call: its kind, phase, estimate, cost, what was taken *)
              (* from the wallet for it, and whether the provider answered *)
  overtaken,  (* calls that another's charge overtook after their check    *)
  unheard,    (* studio calls whose check or report did not reach the      *)
              (* platform, or came back without an answer                  *)
  capped,     (* calls whose charge the wallet covered and the cap refused *)
  crashes

gvars == <<lvars, balance, month, call, overtaken, unheard, capped, crashes>>

NoCap == -1
Month == [cap: Caps \cup {NoCap}, counted: Nat, age: {"never", "fresh", "lapsed"}]

Running == {"check", "ask", "more", "charge", "answer"}
NoCall  == [kind |-> "chat", phase |-> "none", est |-> 0, cost |-> 0, taken |-> 0, answered |-> FALSE]

At(c, phase) == call[c].phase = phase
InPlatform(c) == call[c].kind # "studio"

(* Requests that are in the platform's process.                             *)
Inside == {c \in Calls : InPlatform(c) /\ call[c].phase \in Running}

Go(c, phase) == call' = [call EXCEPT ![c] = [@ EXCEPT !.phase = phase]]
------------------------------------------------------------------------------
GatewayInit ==
  /\ proc = "up" /\ Fresh
  /\ balance = Opening
  /\ month = [cap |-> NoCap, counted |-> 0, age |-> "never"]
  /\ call = [c \in Calls |-> NoCall]
  /\ overtaken = {} /\ unheard = {} /\ capped = {} /\ crashes = 0

(* A request of the browser or the overlay; a draining process turns it     *)
(* away with 503 and nothing happens.  The overlay goes straight to the     *)
(* charge, for the amount it names.                                         *)
Request(c, kind, est) ==
  /\ At(c, "none") /\ kind # "studio"
  /\ Enter
  /\ call' = [call EXCEPT ![c] = [NoCall EXCEPT !.kind = kind, !.est = est,
                 !.cost  = IF kind = "overlay" THEN est ELSE 0,
                 !.phase = IF kind = "overlay" THEN "charge" ELSE "check"]]
  /\ UNCHANGED <<balance, month, overtaken, unheard, capped, crashes>>

(* A studio starts a call in its own process.                               *)
StudioStarts(c, est) ==
  /\ At(c, "none")
  /\ call' = [call EXCEPT ![c] = [NoCall EXCEPT !.kind = "studio", !.est = est, !.phase = "check"]]
  /\ UNCHANGED <<lvars, balance, month, overtaken, unheard, capped, crashes>>

(* The end of a request in the platform, and of a studio's call.            *)
Ends(c, phase) == /\ Go(c, phase)
                  /\ IF InPlatform(c) THEN Leave ELSE UNCHANGED lvars

(* Mutation: the estimate is not compared, having tokens is enough.         *)
HasTokens(n) == balance > 0

CanSpend(n) == balance >= n

(* A studio's request to the platform comes and goes in one step.           *)
Reached(c) == IF InPlatform(c) THEN UNCHANGED lvars ELSE Visit

(* _reject_if_insufficient, and check_can_spend for a studio it can reach.  *)
(* The cap is not looked at.                                                *)
Check(c) ==
  /\ At(c, "check")
  /\ \/ CanSpend(call[c].est) /\ Go(c, "ask") /\ Reached(c)
     \/ ~CanSpend(call[c].est) /\ Go(c, "refused") /\ (IF InPlatform(c) THEN Leave ELSE Visit)
  /\ UNCHANGED <<balance, month, overtaken, unheard, capped, crashes>>

OpenOnFailure == FailOpen

(* HttpCreditClient.can_spend got no answer.                                *)
CheckFails(c) ==
  /\ At(c, "check") /\ ~InPlatform(c)
  /\ IF OpenOnFailure THEN Go(c, "ask") ELSE Go(c, "refused")
  /\ unheard' = IF FailOpen THEN unheard \cup {c} ELSE unheard
  /\ UNCHANGED <<lvars, balance, month, overtaken, capped, crashes>>

(* The provider answers.  A chat's output was only estimated and may cost   *)
(* twice as much; speech costs its text less the blanks the chunks drop.    *)
ProviderAnswers(c) ==
  LET costs == IF call[c].kind = "tts" THEN {call[c].est - 1, call[c].est} \cap (Nat \ {0})
                                       ELSE 1 .. 2 * call[c].est
  IN  /\ call[c].phase \in {"ask", "more"}
      /\ \E cost \in costs :
           call' = [call EXCEPT ![c] = [@ EXCEPT !.phase = "charge", !.cost = cost, !.answered = TRUE]]
      /\ UNCHANGED <<lvars, balance, month, overtaken, unheard, capped, crashes>>

(* call_openai_tts speaks a long text chunk by chunk.                       *)
FirstChunk(c) == /\ At(c, "ask") /\ call[c].kind = "tts"
                 /\ Go(c, "more")
                 /\ UNCHANGED <<lvars, balance, month, overtaken, unheard, capped, crashes>>

(* Mutation: a call that failed half way is charged at its estimate.        *)
FailsAndCharges(c) == /\ call[c].phase \in {"ask", "more"}
                      /\ call' = [call EXCEPT ![c] = [@ EXCEPT !.phase = "charge", !.cost = call[c].est]]
                      /\ UNCHANGED <<lvars, balance, month, overtaken, unheard, capped, crashes>>

(* The provider fails or times out, at any chunk: 503 or 502.               *)
ProviderFails(c) == /\ call[c].phase \in {"ask", "more"}
                    /\ Ends(c, "failed")
                    /\ UNCHANGED <<balance, month, overtaken, unheard, capped, crashes>>

(* try_spend's cap, which counts from zero again when its window is over.   *)
ThisMonth    == IF month.age = "fresh" THEN month.counted ELSE 0
PassesCap(n) == month.cap # NoCap /\ ThisMonth + n > month.cap

(* try_spend takes all or nothing; when the wallet covers n, the window is  *)
(* open afterwards, refused or not.                                         *)
SpentFor(n) == IF balance < n \/ PassesCap(n) THEN 0 ELSE n

Counts(n) ==
  month' = IF balance < n \/ month.cap = NoCap THEN month
           ELSE [month EXCEPT !.counted = ThisMonth + SpentFor(n), !.age = "fresh"]

(* The calls a charge of call c overtakes: checked, and not yet charged.    *)
Overtakes(c) == {d \in Calls \ {c} : call[d].phase \in {"ask", "more", "charge"}}

Takes(c, n) ==
  /\ balance' = balance - n
  /\ overtaken' = IF n > 0 THEN overtaken \cup Overtakes(c) ELSE overtaken

(* The charge of a request; chat and speech answer all the same when it     *)
(* fails, the overlay is refused.                                           *)
Charge(c) ==
  LET n == SpentFor(call[c].cost)
  IN  /\ At(c, "charge") /\ InPlatform(c)
      /\ Takes(c, n) /\ Counts(call[c].cost)
      /\ capped' = IF balance >= call[c].cost /\ PassesCap(call[c].cost) THEN capped \cup {c} ELSE capped
      /\ call' = [call EXCEPT ![c] = [@ EXCEPT !.taken = call[c].taken + n, !.phase = "answer"]]
      /\ UNCHANGED <<lvars, unheard, crashes>>

Answer(c) ==
  /\ At(c, "answer")
  /\ Ends(c, IF call[c].kind = "overlay" /\ call[c].taken = 0 THEN "refused" ELSE "served")
  /\ UNCHANGED <<balance, month, overtaken, unheard, capped, crashes>>

(* report-spend: record_spend takes the cost as far as there are tokens,    *)
(* and neither heeds the cap nor counts against it.                         *)
Report(c) ==
  LET n == IF balance < call[c].cost THEN balance ELSE call[c].cost
  IN  /\ At(c, "charge") /\ ~InPlatform(c)
      /\ Visit
      /\ Takes(c, n)
      /\ call' = [call EXCEPT ![c] = [@ EXCEPT !.taken = call[c].taken + n, !.phase = "served"]]
      /\ UNCHANGED <<month, unheard, capped, crashes>>

(* HttpCreditClient logs a report that failed and goes on; try_spend always *)
(* ends here, no route serves it.                                           *)
ReportFails(c) ==
  /\ At(c, "charge") /\ ~InPlatform(c)
  /\ Go(c, "served")
  /\ unheard' = unheard \cup {c}
  /\ UNCHANGED <<lvars, balance, month, overtaken, capped, crashes>>

(* set_spending_cap: the first cap opens a window, a later one, or none,    *)
(* leaves what is counted as it is.                                         *)
SetCap(n) ==
  /\ Visit
  /\ month' = IF n # NoCap /\ month.age = "never"
                THEN [cap |-> n, counted |-> 0, age |-> "fresh"]
                ELSE [month EXCEPT !.cap = n]
  /\ UNCHANGED <<balance, call, overtaken, unheard, capped, crashes>>

(* Thirty days go by.                                                       *)
MonthPasses ==
  /\ month.age = "fresh"
  /\ month' = [month EXCEPT !.age = "lapsed"]
  /\ UNCHANGED <<lvars, balance, call, overtaken, unheard, capped, crashes>>
------------------------------------------------------------------------------
(* The process is gone with every request in it.                            *)
CutAll == call' = [c \in Calls |-> IF c \in Inside THEN [call[c] EXCEPT !.phase = "cut"] ELSE call[c]]

Signal(k) == /\ Interrupt(k)
             /\ IF proc' = "down" THEN CutAll ELSE UNCHANGED call
             /\ UNCHANGED <<balance, month, overtaken, unheard, capped, crashes>>

ServerEnds == /\ Finish
              /\ Inside = {}
              /\ UNCHANGED <<balance, month, call, overtaken, unheard, capped, crashes>>

Crash == /\ crashes < MaxCrashes
         /\ Die /\ CutAll
         /\ crashes' = crashes + 1
         /\ UNCHANGED <<balance, month, overtaken, unheard, capped>>

Restart == /\ proc = "down"
           /\ Restarted
           /\ UNCHANGED <<balance, month, call, overtaken, unheard, capped, crashes>>

Serve(c) ==
  \/ \E kind \in Kinds, est \in Estimates : Request(c, kind, est)
  \/ \E est \in Estimates : StudioStarts(c, est)
  \/ Check(c) \/ CheckFails(c) \/ FirstChunk(c) \/ ProviderAnswers(c) \/ ProviderFails(c)
  \/ Charge(c) \/ Answer(c) \/ Report(c) \/ ReportFails(c)

Shutdown ==
  /\ \/ \E k \in Stops : Ask(k) \/ Drain(k) \/ WaitEnds(k)
     \/ IdleExit \/ Socket \/ TimePasses
  /\ UNCHANGED <<balance, month, call, overtaken, unheard, capped, crashes>>

GatewayNext == \/ \E c \in Calls : Serve(c)
               \/ \E n \in Caps \cup {NoCap} : SetCap(n)
               \/ MonthPasses
               \/ Shutdown
               \/ \E k \in Stops : Signal(k)
               \/ ServerEnds \/ Crash \/ Restart

GatewaySpec == GatewayInit /\ [][GatewayNext]_gvars
------------------------------------------------------------------------------
TypeOK ==
  /\ LifeType
  /\ balance \in 0 .. Opening /\ month \in Month
  /\ \A c \in Calls :
       /\ call[c].kind \in Kinds
       /\ call[c].phase \in Running \cup {"none", "refused", "failed", "served", "cut"}
  /\ {overtaken, unheard, capped} \subseteq SUBSET Calls /\ crashes \in 0 .. MaxCrashes
  /\ proc # "down" => inFlight = Cardinality(Inside)

(* The tokens taken from the wallet, each beside the call that took it.     *)
Paid == UNION {{c} \X (1 .. call[c].taken) : c \in Calls}

(* Every token that left the wallet was taken for one call, once, at no     *)
(* more than its cost, and only for a call the provider answered (or for    *)
(* the overlay, which names its price): what was refused, or failed at any  *)
(* chunk, is never paid (gateway/routes.py; credits/client.py).             *)
BillsAreFair ==
  /\ Opening - balance = Cardinality(Paid)
  /\ \A c \in Calls :
       call[c].taken > 0 => /\ call[c].taken <= call[c].cost
                            /\ call[c].answered \/ call[c].kind = "overlay"
                            /\ call[c].phase \in {"answer", "served", "cut"}

(* A call is served without being paid in full only if another charge came  *)
(* between its check and its own, if it cost more than estimated, if a      *)
(* studio's report or check never got through, or if the wallet covered it  *)
(* and the monthly cap, which no check looks at, refused it.  Of these      *)
(* "concurrent spend" alone is named where the charge is made ("Edge case", *)
(* gateway/routes.py); for speech the code expects none.                    *)
UnpaidIsExcused ==
  \A c \in Calls :
    At(c, "served") /\ call[c].taken < call[c].cost
      => \/ c \in overtaken \/ c \in unheard \/ call[c].cost > call[c].est
         \/ c \in capped /\ InPlatform(c)

(* The drain holds (lifecycle_shutdown, _idle_watchdog, _wait_for_drain):   *)
(* a request that was let in is cut by a crash only, never by a shutdown,   *)
(* unless two stops were asked for before the drain began, so that a second *)
(* interrupt follows the first; and when the interrupt is sent, half a      *)
(* second after the wait, a request is inside only if the wait timed out.   *)
DrainHolds ==
  [][/\ (\E c \in Calls : At(c, "cut")' /\ ~At(c, "cut")) => together \/ crashes' # crashes
     /\ \A k \in Stops : Signal(k) /\ Inside # {} => stop[k] = "late"]_gvars
==============================================================================
