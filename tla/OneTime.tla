------------------------------ MODULE OneTime -------------------------------
(***************************************************************************)
(* The credentials that are good for one use, under concurrent requests, a *)
(* clock and restarts: SAML requests and assertions (auth/saml/service.py),*)
(* hand-off codes (auth/desktop_handoff.py), TOTP and recovery codes       *)
(* (auth/mfa/service.py, operators in SecondFactor).                       *)
(*                                                                         *)
(* A login is a SuperTokens session of the one user; a hand-off code is    *)
(* named by the login it stands for.  Throttles and the audit are left     *)
(* out, and so is what the account lookup of a sign-on refuses (Directory).*)
(***************************************************************************)
EXTENDS SecondFactor

CONSTANTS
  Handlers,   (* requests served at a time                                 *)
  Browsers,
  SamlIds,    (* AuthnRequest ids                                          *)
  Assertions, (* assertion ids of the IdP's responses                      *)
  AnswerTo,   (* assertion -> the InResponseTo it carries, or Nothing      *)
  AllowIdp,   (* the organisation allows IdP-initiated sign-on             *)
  SignedIn,   (* the logins a client may hold at first                     *)
  FactorOps,  (* MFA requests this instance lets happen                    *)
  MaxOps      (* bound: requests in a behaviour                            *)

(* What an MFA endpoint is sent: the session's login, the code that was      *)
(* typed, and what the service draws for it.                                 *)
FactorOp == [kind: {"enrol", "verify", "regenerate", "disable"}, login: Logins, proof: Proofs,
             secret: Secrets \cup {Nothing}, code: Recovery \cup {Nothing}]

ASSUME AnswersAssumption == AnswerTo \in [Assertions -> SamlIds \cup {Nothing}]
ASSUME NamesAssumption == /\ Assertions \cap Logins = {} /\ Nothing \notin SamlIds
                          /\ SamlIds \cap (Assertions \cup Logins \cup Proofs) = {}
ASSUME SignedInAssumption == SignedIn \subseteq SUBSET Logins
ASSUME MaxOpsAssumption == MaxOps \in Nat
ASSUME FactorOpsAssumption ==
  \A o \in FactorOps : /\ o \in FactorOp
                       /\ o.kind = "enrol" => o.secret \in Secrets
                       /\ o.kind \in {"enrol", "regenerate"} => o.code \in Recovery

VARIABLES
  f,          (* the MFA rows                                              *)
  now,        (* the current 30-second step                                *)
  stored,     (* saml_request rows                                         *)
  admitted,   (* saml_assertion rows                                       *)
  codes,      (* _desktop_codes, in memory: logins a code stands for       *)
  cookie,     (* per browser: the request id in its cookie                 *)
  over,       (* requests, assertions and codes past their time            *)
  stale,      (* assertions a day past their time                          *)
  asked,      (* requests ever made                                        *)
  made,       (* logins ever minted                                        *)
  held,       (* logins whose tokens a client has received                 *)
  uses,       (* per assertion and code: how often it was honoured         *)
  spent,      (* SAML requests and MFA proofs honoured                     *)
  pc, req, seen,  (* per handler: its step, its request, what it read      *)
  budget

saml == <<stored, admitted, cookie, asked>>
clock == <<now, over, stale>>
vars == <<f, saml, clock, codes, made, held, uses, spent, pc, req, seen, budget>>

Counted == Assertions \cup Logins
NoReq == [kind |-> "none"]
SamlReq == [kind: {"saml"}, browser: Browsers, assertion: Assertions, id: SamlIds \cup {Nothing}]
NothingSeen == [f |-> NoFactor, spent |-> {}]
Dated == SamlIds \cup Assertions \cup Logins

Init == /\ f = NoFactor /\ now = 1
        /\ stored = {} /\ admitted = {} /\ codes = {}
        /\ cookie = [b \in Browsers |-> Nothing]
        /\ over = {} /\ stale = {} /\ asked = {}
        /\ held \in SignedIn /\ made = held
        /\ uses = [c \in Counted |-> 0]
        /\ spent = {}
        /\ pc = [h \in Handlers |-> "idle"]
        /\ req = [h \in Handlers |-> NoReq]
        /\ seen = [h \in Handlers |-> NothingSeen]
        /\ budget = MaxOps

Go(h, step) == pc' = [pc EXCEPT ![h] = step] /\ UNCHANGED <<req, seen, budget>>
Reset(h) == /\ pc' = [pc EXCEPT ![h] = "idle"]
            /\ req' = [req EXCEPT ![h] = NoReq]
            /\ seen' = [seen EXCEPT ![h] = NothingSeen]
Done(h) == Reset(h) /\ UNCHANGED budget

Honour(c) == uses' = [uses EXCEPT ![c] = @ + 1]
------------------------------------------------------------------------------
(* login_redirect and its cookie; _remember_request sweeps expired rows.    *)
Ask(b, r) ==
  /\ r \notin asked /\ budget > 0
  /\ asked' = asked \cup {r}
  /\ stored' = (stored \ over) \cup {r}
  /\ cookie' = [cookie EXCEPT ![b] = r]
  /\ budget' = budget - 1
  /\ UNCHANGED <<f, clock, admitted, codes, made, held, uses, spent, pc, req, seen>>

(* consume, up to the first lookup of the request.                          *)
Post(h, b, a) ==
  LET r == AnswerTo[a]
  IN  /\ pc[h] = "idle" /\ budget > 0
      /\ IF r = Nothing THEN AllowIdp ELSE r \in asked /\ cookie[b] = r
      /\ pc' = [pc EXCEPT ![h] = IF r = Nothing THEN "validate" ELSE "look"]
      /\ req' = [req EXCEPT ![h] = [kind |-> "saml", browser |-> b, assertion |-> a, id |-> r]]
      /\ budget' = budget - 1
      /\ UNCHANGED <<f, saml, clock, codes, made, held, uses, spent, seen>>

(* _consume_request: the row is read ...                                    *)
Look(h) ==
  /\ pc[h] = "look"
  /\ IF req[h].id \in stored
       THEN /\ pc' = [pc EXCEPT ![h] = "burn"]
            /\ seen' = [seen EXCEPT ![h].spent = spent]
            /\ UNCHANGED <<req, budget>>
       ELSE Done(h)
  /\ UNCHANGED <<f, saml, clock, codes, made, held, uses, spent>>

(* Mutation: the row stays.                                                 *)
Kept(rows, r) == rows

Burnt(rows, r) == rows \ {r}

(* ... and deleted; a delete of a row that is gone already is no error.     *)
Burn(h) ==
  LET r == req[h].id
  IN  /\ pc[h] = "burn"
      /\ stored' = Burnt(stored, r)
      /\ IF r \in over THEN Done(h) /\ UNCHANGED spent
                       ELSE Go(h, "validate") /\ spent' = spent \cup {r}
      /\ UNCHANGED <<f, clock, admitted, cookie, asked, codes, made, held, uses>>

Validate(h) ==
  /\ pc[h] = "validate"
  /\ IF req[h].assertion \in over THEN Done(h) ELSE Go(h, "admit")
  /\ UNCHANGED <<f, saml, clock, codes, made, held, uses, spent>>

Swept == stale

(* _remember_assertion: uq_saml_assertion lets one insert through.          *)
Admit(h) ==
  LET a == req[h].assertion
  IN  /\ pc[h] = "admit"
      /\ IF a \in admitted \ Swept
           THEN Done(h) /\ UNCHANGED <<admitted, uses>>
           ELSE /\ admitted' = (admitted \ Swept) \cup {a}
                /\ Honour(a)
                /\ Go(h, "grant")
      /\ UNCHANGED <<f, clock, stored, cookie, asked, codes, made, held, spent>>

(* The login is minted, its code stored, and the cookie deleted with the    *)
(* redirect.  store_code sweeps expired codes.                              *)
Grant(h) ==
  /\ pc[h] = "grant"
  /\ \E l \in Logins \ made : /\ made' = made \cup {l}
                              /\ codes' = (codes \ over) \cup {l}
  /\ cookie' = [cookie EXCEPT ![req[h].browser] = Nothing]
  /\ Done(h)
  /\ UNCHANGED <<f, clock, stored, admitted, asked, held, uses, spent>>

(* mint_desktop_handoff_code, asked for with a login a client holds.        *)
ForDesktop ==
  /\ held # {} /\ budget > 0
  /\ \E l \in Logins \ made : /\ made' = made \cup {l}
                              /\ codes' = (codes \ over) \cup {l}
  /\ budget' = budget - 1
  /\ UNCHANGED <<f, saml, clock, held, uses, spent, pc, req, seen>>

(* Mutation: the code is read, not popped.                                  *)
Peeked(l) == codes \ over

Popped(l) == codes \ (over \cup {l})

(* exchange_desktop_handoff_code: consume_code sweeps, then pops.           *)
Exchange(l) ==
  /\ l \in codes /\ uses[l] < 2
  /\ codes' = Popped(l)
  /\ IF l \in over THEN UNCHANGED <<held, uses>>
                   ELSE held' = held \cup {l} /\ Honour(l)
  /\ UNCHANGED <<f, saml, clock, made, spent, pc, req, seen, budget>>
------------------------------------------------------------------------------
FactorAllowed(o) ==
  CASE o.kind = "enrol"  -> MayEnrol(f, o)   [] o.kind = "verify"  -> MayVerify(f, o, now)
    [] o.kind = "regenerate" -> MayRegenerate(f, o, now)
    [] OTHER -> MayDisable(f, o, now)

FactorResult(old, o) ==
  CASE o.kind = "enrol"  -> Enrol(old, o)    [] o.kind = "verify"  -> Verify(old, o)
    [] o.kind = "regenerate" -> Regenerate(old, o)
    [] OTHER -> Disable(old, o)

(* What the commit writes over the rows as they are by now.                 *)
Column(cur, old, new) == IF new = old THEN cur ELSE new

FactorMerged(cur, old, new) ==
  LET erased == old.row # Nothing /\ new.row = Nothing
      hit    == cur.row = old.row
  IN  [row    |-> IF erased /\ ~hit THEN cur.row ELSE Column(cur.row, old.row, new.row),
       secret |-> IF erased /\ ~hit THEN cur.secret ELSE Column(cur.secret, old.secret, new.secret),
       confirmed |-> IF erased THEN cur.confirmed /\ ~hit
                     ELSE Column(cur.confirmed, old.confirmed, new.confirmed),
       last   |-> IF erased THEN IF hit THEN 0 ELSE cur.last
                  ELSE Column(cur.last, old.last, new.last),
       codes  |-> [c \in Recovery |-> Column(cur.codes[c], old.codes[c], new.codes[c])],
       verified |-> (cur.verified \ (old.verified \ new.verified))
                       \cup (new.verified \ old.verified)]

(* Mutation: an update of a row that is gone goes unnoticed.                *)
UniquesOnly(cur, old, new) ==
  \/ old.row = Nothing /\ new.row # Nothing /\ cur.row # Nothing
  \/ (new.verified \ old.verified) \cap cur.verified # {}

(* An insert beside the unique user_id or session_id, an update of a row    *)
(* that is gone.                                                            *)
FactorClash(cur, old, new) ==
  \/ old.row = Nothing /\ new.row # Nothing /\ cur.row # Nothing
  \/ /\ old.row # Nothing /\ new.row = old.row /\ cur.row # old.row
     /\ <<old.secret, old.confirmed, old.last>> # <<new.secret, new.confirmed, new.last>>
  \/ \E c \in Recovery : old.codes[c] = "unused" /\ new.codes[c] = "used" /\ cur.codes[c] = "gone"
  \/ (new.verified \ old.verified) \cap cur.verified # {}

(* A user asks with a login it holds.  Secrets and codes are random: no two *)
(* requests draw the same.                                                  *)
Begin(h, o) ==
  /\ pc[h] = "idle" /\ budget > 0
  /\ o.login \in held
  /\ o.kind \in {"enrol", "regenerate"} =>
       \A g \in Handlers : pc[g] = "open" => req[g].code # o.code /\ req[g].secret # o.secret
  /\ FactorAllowed(o)
  /\ pc' = [pc EXCEPT ![h] = "open"]
  /\ req' = [req EXCEPT ![h] = o]
  /\ seen' = [seen EXCEPT ![h] = [f |-> f, spent |-> spent]]
  /\ budget' = budget - 1
  /\ UNCHANGED <<f, saml, clock, codes, made, held, uses, spent>>

Commit(h) ==
  LET new == FactorResult(seen[h].f, req[h])
  IN  /\ pc[h] = "open"
      /\ ~FactorClash(f, seen[h].f, new)
      /\ f' = FactorMerged(f, seen[h].f, new)
      /\ spent' = IF req[h].kind = "enrol" THEN spent ELSE spent \cup {req[h].proof}
      /\ Done(h)
      /\ UNCHANGED <<saml, clock, codes, made, held, uses>>

(* A refusal, an error or a clash ends the request where it is.             *)
Abandon(h) == /\ pc[h] # "idle"
              /\ Done(h)
              /\ UNCHANGED <<f, saml, clock, codes, made, held, uses, spent>>

(* A restart ends every request and forgets the codes.                      *)
Restart == /\ codes # {} \/ \E h \in Handlers : pc[h] # "idle"
           /\ codes' = {}
           /\ pc' = [h \in Handlers |-> "idle"]
           /\ req' = [h \in Handlers |-> NoReq]
           /\ seen' = [h \in Handlers |-> NothingSeen]
           /\ UNCHANGED <<f, saml, clock, made, held, uses, spent, budget>>

Tick == /\ now < MaxStep
        /\ now' = now + 1
        /\ UNCHANGED <<f, saml, over, stale, codes, made, held, uses, spent, pc, req, seen, budget>>

Expire(c) == /\ c \in (stored \cup codes \cup {a \in Assertions : AnswerTo[a] \in asked \cup {Nothing}}) \ over
             /\ over' = over \cup {c}
             /\ UNCHANGED <<f, saml, now, stale, codes, made, held, uses, spent, pc, req, seen, budget>>

(* Assumption: no request takes a day.                                      *)
GrowStale(a) == /\ a \in (over \cap admitted) \ stale
                /\ \A h \in Handlers : pc[h] \in {"validate", "admit", "look", "burn"} => req[h].assertion # a
                /\ stale' = stale \cup {a}
                /\ UNCHANGED <<f, saml, now, over, codes, made, held, uses, spent, pc, req, seen, budget>>

Next == \/ \E b \in Browsers, r \in SamlIds : Ask(b, r)
        \/ \E h \in Handlers :
             \/ \E b \in Browsers, a \in Assertions : Post(h, b, a)
             \/ \E o \in FactorOps : Begin(h, o)
             \/ Look(h) \/ Burn(h) \/ Validate(h) \/ Admit(h) \/ Grant(h)
             \/ Commit(h) \/ Abandon(h)
        \/ ForDesktop \/ (\E l \in Logins : Exchange(l))
        \/ Restart \/ Tick \/ (\E c \in Dated : Expire(c)) \/ (\E a \in Assertions : GrowStale(a))

Spec == Init /\ [][Next]_vars
------------------------------------------------------------------------------
TypeOK ==
  /\ f \in Factor /\ now \in Steps
  /\ Enrolled(f) <=> f.row # Nothing
  /\ stored \subseteq asked /\ asked \subseteq SamlIds
  /\ admitted \subseteq Assertions
  /\ codes \cup held \subseteq made /\ made \subseteq Logins
  /\ cookie \in [Browsers -> asked \cup {Nothing}]
  /\ over \subseteq Dated /\ stale \subseteq over
  /\ uses \in [Counted -> 0 .. 2]
  /\ spent \subseteq SamlIds \cup Proofs
  /\ pc \in [Handlers -> {"idle", "look", "burn", "validate", "admit", "grant", "open"}]
  /\ req \in [Handlers -> SamlReq \cup FactorOps \cup {NoReq}]
  /\ seen \in [Handlers -> [f: Factor, spent: SUBSET (SamlIds \cup Proofs)]]
  /\ budget \in 0 .. MaxOps

(* An assertion and a hand-off code are honoured at most once and never     *)
(* after their time, whatever overlaps, restarts or is posted again.        *)
Validating(a) == \E h \in Handlers : pc[h] = "admit" /\ req[h].assertion = a

LifeOf(c) ==
  CASE uses[c] > 1 -> "twice"
    [] uses[c] = 1 -> "spent"
    [] uses[c] = 0 /\ c \in Assertions -> IF c \in over /\ ~Validating(c) THEN "dead" ELSE "good"
    [] uses[c] = 0 /\ c \in Logins /\ c \notin made -> "unissued"
    [] OTHER -> IF c \in codes \ over THEN "good" ELSE "dead"

Abstract == INSTANCE SingleUse WITH Creds <- Counted, state <- [c \in Counted |-> LifeOf(c)]
OneUse == Abstract!Spec

(* A SAML request, a TOTP code or a recovery code that was honoured before  *)
(* a request opened its session is not honoured by that request             *)
(* (_consume_request, "True once"; mfa/service.py, "no replay"): only       *)
(* overlapping requests can use one twice.  A TOTP code also needs that no  *)
(* overlapping verification put an earlier step over a later one.           *)
Current(h) == /\ seen[h].f = f
              /\ \A p \in spent : p \notin SamlIds /\ p.secret = f.secret => p.step <= f.last

ReplaysOverlap ==
  [][\A h \in Handlers :
       /\ pc[h] = "burn" /\ pc'[h] = "validate" => req[h].id \notin seen[h].spent
       /\ pc[h] = "open" /\ f' # f /\ Current(h) /\ req[h].kind # "enrol"
            => \A p \in spent' \ {q \in spent : q # req[h].proof} : p \notin seen[h].spent]_vars

(* A confirmed enrolment is one whose authenticator gave a code, its secret *)
(* never changes (mfa/service.py, "cannot swap the authenticator"), and a   *)
(* session counts as verified only while there is a confirmed enrolment:    *)
(* unless the rows changed under the request that commits.                  *)
Proven(g, s) == \E p \in s : p \in Proofs /\ p.secret = g.secret
Sound(g, s) == /\ g.confirmed => Proven(g, s)
               /\ g.verified # {} => g.confirmed

FactorStands ==
  [][\A h \in Handlers :
       pc[h] = "open" /\ f' # f /\ pc'[h] = "idle" /\ seen[h].f = f /\ Sound(f, spent)
         => /\ Sound(f', spent')
            /\ f.confirmed /\ f'.confirmed => f'.secret = f.secret]_vars
==============================================================================
