------------------------------ MODULE Accounts ------------------------------
(***************************************************************************)
(* The account of one e-mail address in the two stores that hold it: its   *)
(* users row (auth/repository.py) and its SuperTokens sign-in users, under *)
(* concurrent requests of auth/routes.py, the mailbox's tokens             *)
(* (auth/email_token_store.py) and crashes.                                *)
(*                                                                         *)
(* A request is the sequence of its steps that touch a store; each is one  *)
(* database session or one SuperTokens call and taken as atomic.  Invites, *)
(* roles, passwords, profiles, the welcome grant (Wallet) and accounts an  *)
(* organisation owns (Directory) are left out.                             *)
(***************************************************************************)
EXTENDS Integers, Sequences

CONSTANTS
  Handlers,
  Passwords,  (* sign-in users made by a password sign-up                  *)
  Google, GitHub, (* the sign-in users of the two providers                *)
  Mails,      (* mail tokens; one that is gone stands for a new one later  *)
  Nobody,
  OldUsers,   (* sign-in users an older release may have left              *)
  MaxOps      (* bound: requests in a behaviour                            *)

SignIns == Passwords \cup {Google, GitHub}
Labels == {"none", "pending", "password", "google", "github"}

ASSUME SignInsAssumption ==
  /\ Google \notin Passwords /\ GitHub \notin Passwords /\ Google # GitHub
  /\ Nobody \notin SignIns
  /\ OldUsers \subseteq Passwords
ASSUME MaxOpsAssumption == MaxOps \in Nat

VARIABLES
  row,        (* the users row                                             *)
  core,       (* sign-in users that exist in SuperTokens                   *)
  live,       (* sign-in users with a session that can be refreshed        *)
  mail,       (* unconsumed mail tokens, and their purpose                 *)
  lock,       (* the lock of the one OAuth code: held, or not              *)
  cached,     (* the code's result is kept for replays                     *)
  codeUsed,   (* the provider has exchanged the code                       *)
  lost,       (* an exchange died before its result was kept, or the       *)
              (* result outlived its time                                  *)
  known,      (* sign-in users that ever existed                           *)
  proven,     (* sign-in users the row named when the mailbox was proven   *)
  torn,       (* a request died, or a login read the row, between two      *)
              (* writes that belong together                               *)
  pc,         (* per handler: the index of its next step, 0 when idle      *)
  req,        (* per handler: what it serves and what it learned           *)
  budget

code == <<lock, cached, codeUsed, lost>>
ghosts == <<known, proven, torn>>
vars == <<row, core, live, mail, code, ghosts, pc, req, budget>>

(* A row's id is told by the deletions that have read it: a row made anew   *)
(* for the address is another one, and nobody has read it yet.              *)
Row == [is: BOOLEAN, link: SignIns \cup {Nobody}, verified: BOOLEAN, label: Labels,
        doomed: SUBSET Handlers]
NoRow == [is |-> FALSE, link |-> Nobody, verified |-> FALSE, label |-> "none", doomed |-> {}]
PendingRow == [NoRow EXCEPT !.is = TRUE, !.label = "pending"]

(* The steps of each request, in order.  A password login goes on as one of *)
(* the three below it.                                                      *)
RegisterSteps  == <<"look", "signup", "upsert", "link", "clear", "send">>
LoginSteps     == <<"signin", "decide">>
ClaimNewSteps  == <<"upsert", "link", "clear", "send">>
ClaimSteps     == <<"link", "clear", "send">>
EnterSteps     == <<"label", "link", "session">>
VerifySteps    == <<"open", "consume", "prove">>
ForgotSteps    == <<"find", "send">>
ResetSteps     == <<"open", "consume", "find", "password", "prove">>
GoogleSteps    == <<"upsert", "create", "link", "session">>
OauthSteps     == <<"acquire", "exchange", "create", "upsert", "link", "session">>
DeleteSteps    == <<"find", "revoke", "uncreate", "erase">>

Path == [register |-> RegisterSteps, login |-> LoginSteps, claimnew |-> ClaimNewSteps,
         claim |-> ClaimSteps, enter |-> EnterSteps, verify |-> VerifySteps,
         forgot |-> ForgotSteps, reset |-> ResetSteps, google |-> GoogleSteps,
         github |-> OauthSteps, delete |-> DeleteSteps]

Kinds == {"register", "login", "verify", "forgot", "reset", "google", "github", "delete"}
Serving == Kinds \cup {"claimnew", "claim", "enter"}

Request == [kind: Serving, who: SignIns \cup {Nobody}, found: SignIns \cup {Nobody},
            mail: Mails \cup {Nobody}]
NoReq == [kind |-> "none", who |-> Nobody, found |-> Nobody, mail |-> Nobody]

Busy(h)    == pc[h] > 0
At(h, step) == Busy(h) /\ Path[req[h].kind][pc[h]] = step

(* Between the writes that belong together: the row is made or taken, its   *)
(* sign-in user linked, and its flag cleared unless a provider vouches.     *)
InWindow(h) ==
  \/ At(h, "clear")
  \/ At(h, "link") /\ req[h].kind \notin {"claim", "enter"}
  \/ At(h, "create") /\ req[h].kind = "google"
------------------------------------------------------------------------------
Init == /\ row \in {NoRow, PendingRow}
        /\ core \in {{}} \cup {{p} : p \in OldUsers}
        /\ live = {} /\ mail = {}
        /\ lock = FALSE /\ cached = FALSE /\ codeUsed = FALSE /\ lost = FALSE
        /\ known = core /\ proven = {Google, GitHub} /\ torn = FALSE
        /\ pc = [h \in Handlers |-> 0]
        /\ req = [h \in Handlers |-> NoReq]
        /\ budget = MaxOps

End(h) == /\ pc' = [pc EXCEPT ![h] = 0]
          /\ req' = [req EXCEPT ![h] = NoReq]
          /\ UNCHANGED budget
To(h, r) == /\ pc' = [pc EXCEPT ![h] = @ + 1]
            /\ req' = [req EXCEPT ![h] = r]
            /\ UNCHANGED budget
Onward(h) == IF pc[h] = Len(Path[req[h].kind]) THEN End(h) ELSE To(h, req[h])
SwitchTo(h, kind) == /\ pc' = [pc EXCEPT ![h] = 1]
                     /\ req' = [req EXCEPT ![h].kind = kind]
                     /\ UNCHANGED budget

(* Every request starts here; a mailed link may be followed twice.          *)
Call(h, kind, m) ==
  /\ ~Busy(h) /\ budget > 0
  /\ IF kind \in {"verify", "reset"} THEN \E t \in mail : t = <<m, kind>> ELSE m = Nobody
  /\ pc' = [pc EXCEPT ![h] = 1]
  /\ req' = [req EXCEPT ![h] = [NoReq EXCEPT !.kind = kind, !.mail = m,
               !.who = IF kind = "google" THEN Google ELSE IF kind = "github" THEN GitHub ELSE Nobody]]
  /\ budget' = budget - 1
  /\ UNCHANGED <<row, core, live, mail, code, ghosts>>

(* register refuses an address whose row is linked.                         *)
Look(h) == /\ At(h, "look")
           /\ IF row.is /\ row.link # Nobody THEN End(h) ELSE Onward(h)
           /\ UNCHANGED <<row, core, live, mail, code, ghosts>>

(* sign_up: one password sign-in user per address.                          *)
SignUp(h) ==
  /\ At(h, "signup")
  /\ IF core \cap Passwords # {} THEN End(h) /\ UNCHANGED <<core, known>>
     ELSE \E p \in Passwords \ known : /\ core' = core \cup {p}
                                       /\ known' = known \cup {p}
                                       /\ To(h, [req[h] EXCEPT !.who = p])
  /\ UNCHANGED <<row, live, mail, code, proven, torn>>

SignIn(h) ==
  /\ At(h, "signin")
  /\ IF core \cap Passwords = {} THEN End(h)
     ELSE \E p \in core \cap Passwords : To(h, [req[h] EXCEPT !.who = p])
  /\ UNCHANGED <<row, core, live, mail, code, ghosts>>

(* Mutation: a verified flag counts on a row that is only pending.          *)
VerifiedCounts == ~row.verified

Unearned == row.label = "pending" \/ ~row.verified

(* What password_login makes of the row it read.                            *)
Decide(h) ==
  /\ At(h, "decide")
  /\ CASE row.link \notin {Nobody, req[h].who}       -> End(h)
       [] ~row.is                                    -> SwitchTo(h, "claimnew")
       [] row.is /\ row.link = Nobody /\ Unearned    -> SwitchTo(h, "claim")
       [] row.link = req[h].who /\ ~row.verified     -> End(h)
       [] OTHER -> /\ pc' = [pc EXCEPT ![h] = 1]
                   /\ req' = [req EXCEPT ![h].kind = "enter"]
                   /\ UNCHANGED budget
  /\ torn' = (torn \/ \E g \in Handlers : InWindow(g))
  /\ UNCHANGED <<row, core, live, mail, code, known, proven>>

(* upsert_user; a provider's sign-in verifies the address.                  *)
Upsert(h) ==
  LET provider == req[h].kind \in {"google", "github"}
      label    == IF provider THEN req[h].kind ELSE "password"
  IN  /\ At(h, "upsert")
      /\ row' = [row EXCEPT !.is = TRUE, !.label = label, !.verified = @ \/ provider]
      /\ Onward(h)
      /\ UNCHANGED <<core, live, mail, code, ghosts>>

(* Mutation: a row that is gone is linked all the same.                     *)
LinkedAnyway(st) == [row EXCEPT !.link = st]

(* link_supertokens_id: whatever the row was linked to.                     *)
Linked(st) == [row EXCEPT !.link = IF row.is THEN st ELSE @]

Link(h) == /\ At(h, "link")
           /\ row' = Linked(req[h].who)
           /\ Onward(h)
           /\ UNCHANGED <<core, live, mail, code, ghosts>>

Relabel(h) == /\ At(h, "label")
              /\ row' = [row EXCEPT !.label = IF row.is THEN "password" ELSE @]
              /\ Onward(h)
              /\ UNCHANGED <<core, live, mail, code, ghosts>>

ClearedFlag(h) == FALSE

(* set_email_verified(verified=False); without a row it is an error.        *)
Clear(h) == /\ At(h, "clear")
            /\ IF row.is THEN row' = [row EXCEPT !.verified = ClearedFlag(h)] /\ Onward(h)
                         ELSE End(h) /\ UNCHANGED row
            /\ UNCHANGED <<core, live, mail, code, ghosts>>

(* create_email_token: older tokens of the address stay good.               *)
NewTokens(kind) ==
  {<<m, kind>> : m \in {n \in Mails : /\ \A t \in mail : t[1] # n
                                      /\ \A h \in Handlers : req[h].mail # n}}

(* The mail is sent, or not; register and login go on without it.           *)
SendMail(h) ==
  LET kind == IF req[h].kind = "forgot" THEN "reset" ELSE "verify"
  IN  /\ At(h, "send")
      /\ \/ \E t \in NewTokens(kind) : mail' = mail \cup {t}
         \/ UNCHANGED mail
      /\ Onward(h)
      /\ UNCHANGED <<row, core, live, code, ghosts>>

(* consume_email_token finds the token, and then deletes it: of two requests*)
(* that have both found it, both go on.                                     *)
OpenMail(h) == /\ At(h, "open")
               /\ IF <<req[h].mail, req[h].kind>> \in mail THEN Onward(h) ELSE End(h)
               /\ UNCHANGED <<row, core, live, mail, code, ghosts>>

Consume(h) == /\ At(h, "consume")
              /\ mail' = mail \ {<<req[h].mail, req[h].kind>>}
              /\ Onward(h)
              /\ UNCHANGED <<row, core, live, code, ghosts>>

(* set_email_verified, at the end of verify_email and of reset_password.    *)
Prove(h) == /\ At(h, "prove")
            /\ row' = [row EXCEPT !.verified = row.is]
            /\ proven' = proven \cup ({row.link} \ {Nobody})
            /\ Onward(h)
            /\ UNCHANGED <<core, live, mail, code, known, torn>>

Chosen(h) == IF row.is /\ req[h].kind = "delete" THEN [row EXCEPT !.doomed = @ \cup {h}] ELSE row

(* get_user_by_email, for the requests that refuse an unknown address.      *)
Find(h) == /\ At(h, "find")
           /\ IF ~row.is /\ req[h].kind # "reset" THEN End(h)
                         ELSE To(h, [req[h] EXCEPT !.found = row.link])
           /\ row' = Chosen(h)
           /\ UNCHANGED <<core, live, mail, code, ghosts>>

(* The linked sign-in user gets the password and loses its sessions.        *)
SetPassword(h) == /\ At(h, "password")
                  /\ live' = live \ {req[h].found}
                  /\ Onward(h)
                  /\ UNCHANGED <<row, core, mail, code, ghosts>>

(* manually_create_or_update_user.                                          *)
CreateSignIn(h) == /\ At(h, "create")
                   /\ core' = core \cup {req[h].who}
                   /\ known' = known \cup {req[h].who}
                   /\ Onward(h)
                   /\ UNCHANGED <<row, live, mail, code, proven, torn>>

OpenSession(h) == /\ At(h, "session")
                  /\ live' = live \cup {req[h].who}
                  /\ Onward(h)
                  /\ UNCHANGED <<row, core, mail, code, ghosts>>
------------------------------------------------------------------------------
(* Mutation: the exchanges of one code are not serialised.                  *)
NoLock == TRUE

LockFree == ~lock

(* _exchange_oauth_code: the code's lock, and the result kept from before.  *)
Acquire(h) == /\ At(h, "acquire")
              /\ LockFree
              /\ IF cached
                   THEN /\ pc' = [pc EXCEPT ![h] = 3]
                        /\ UNCHANGED <<req, budget, lock>>
                   ELSE Onward(h) /\ lock' = TRUE
              /\ UNCHANGED <<row, core, live, mail, cached, codeUsed, lost, ghosts>>

(* Mutation: the lock is freed only with a result.                          *)
FreedWithResult == lock /\ ~cached'

Freed == FALSE

(* The provider takes the code once, and may then fail to give the profile. *)
(* (An address it calls unverified ends the request after this step.)       *)
Exchange(h) ==
  /\ At(h, "exchange")
  /\ codeUsed' = TRUE
  /\ \/ ~codeUsed /\ cached' = TRUE /\ Onward(h) /\ UNCHANGED lost
     \/ End(h) /\ lost' = TRUE /\ UNCHANGED cached
  /\ lock' = Freed
  /\ UNCHANGED <<row, core, live, mail, ghosts>>

(* _prune_oauth_codes, run by the exchange of another code.                 *)
Prune == /\ cached
         /\ cached' = FALSE /\ lost' = TRUE
         /\ UNCHANGED <<row, core, live, mail, lock, codeUsed, ghosts, pc, req, budget>>
------------------------------------------------------------------------------
(* _hard_delete_user: the sessions, as far as that works; the sign-in user, *)
(* or it stops; the row.                                                    *)
Revoke(h) == /\ At(h, "revoke")
             /\ live' \in {live, live \ {req[h].found}}
             /\ Onward(h)
             /\ UNCHANGED <<row, core, mail, code, ghosts>>

(* Mutation: a failed call is logged and the deletion goes on.              *)
GoesOn(h) == Onward(h)

Stops(h) == End(h)

Uncreate(h) ==
  /\ At(h, "uncreate")
  /\ \/ core' = core \ {req[h].found} /\ live' = live \ {req[h].found} /\ Onward(h)
     \/ req[h].found # Nobody /\ Stops(h) /\ UNCHANGED <<core, live>>
  /\ UNCHANGED <<row, mail, code, ghosts>>

(* The row goes by the id it was read with: one made since stays.           *)
EraseRow(h) == /\ At(h, "erase")
               /\ row' = IF h \in row.doomed THEN NoRow ELSE row
               /\ Onward(h)
               /\ UNCHANGED <<core, live, mail, code, ghosts>>

(* An error or a crash ends a request anywhere; async with frees the lock.  *)
Abandon(h) == /\ Busy(h)
              /\ torn' = (torn \/ InWindow(h))
              /\ lock' = (lock /\ ~At(h, "exchange"))
              /\ End(h)
              /\ UNCHANGED <<row, core, live, mail, cached, codeUsed, lost, known, proven>>

MailExpires == /\ \E t \in mail : mail' = mail \ {t}
               /\ UNCHANGED <<row, core, live, code, ghosts, pc, req, budget>>

Step(h) == \/ Look(h) \/ SignUp(h) \/ SignIn(h) \/ Decide(h) \/ Upsert(h) \/ Link(h)
           \/ Relabel(h) \/ Clear(h) \/ SendMail(h) \/ OpenMail(h) \/ Consume(h) \/ Prove(h) \/ Find(h)
           \/ SetPassword(h) \/ CreateSignIn(h) \/ OpenSession(h)
           \/ Acquire(h) \/ Exchange(h) \/ Revoke(h) \/ Uncreate(h) \/ EraseRow(h)

Next == \/ \E h \in Handlers : \/ \E k \in Kinds, m \in Mails \cup {Nobody} : Call(h, k, m)
                               \/ Step(h) \/ Abandon(h)
        \/ Prune \/ MailExpires

Spec == Init /\ [][Next]_vars

(* The event loop runs every request, every call to a store or a provider   *)
(* ends, and asyncio.Lock serves its waiters in turn.                       *)
FairSpec == Spec /\ \A h \in Handlers : WF_vars(Step(h))
------------------------------------------------------------------------------
TypeOK ==
  /\ row \in Row
  /\ ~row.is => row = NoRow
  /\ core \subseteq known /\ live \subseteq known /\ known \subseteq SignIns
  /\ \A p, q \in core \cap Passwords : p = q
  /\ mail \subseteq Mails \X {"verify", "reset"}
  /\ proven \subseteq SignIns
  /\ {lock, cached, codeUsed, lost, torn} \subseteq BOOLEAN
  /\ pc \in [Handlers -> Nat] /\ req \in [Handlers -> Request \cup {NoReq}]
  /\ \A h \in Handlers : \/ pc[h] = 0 /\ req[h] = NoReq
                         \/ req[h] \in Request /\ pc[h] \in 1 .. Len(Path[req[h].kind])
  /\ budget \in 0 .. MaxOps

(* A password opens a session only if the mailbox was proven while the row  *)
(* named that sign-in user (routes.py, register and password_login), as     *)
(* long as no request died, and no login read the row, between two writes   *)
(* that belong together.                                                    *)
EarnedLogin ==
  [][\A h \in Handlers :
       At(h, "session") /\ live' # live /\ req[h].who \in Passwords
         => req[h].who \in proven \/ torn]_vars

(* A deletion that erased the row has deleted the sign-in user that row was *)
(* linked to when it began (_hard_delete_user): never the row alone.        *)
ErasedInBoth ==
  [][\A h \in Handlers :
       At(h, "erase") /\ row' # row /\ row.link = req[h].found => row.link \notin core \ {Google, GitHub}]_vars

(* A replay of an OAuth code reaches the provider only if the result of the *)
(* first exchange is lost: while it is kept, every replay is answered from  *)
(* it (routes.py, "OAuth code replay guard").                               *)
ReplayGetsIn == \A h \in Handlers : At(h, "exchange") /\ codeUsed => lost

(* Every request ends; above all, no replay waits for ever for the lock of  *)
(* its code, however the exchange that holds it ends.                       *)
RequestsEnd == \A h \in Handlers : Busy(h) ~> ~Busy(h)
==============================================================================
