---------------------------- MODULE SecondFactor ----------------------------
(***************************************************************************)
(* One user's two-factor rows and what each MFA operation does to what its *)
(* session read (auth/mfa/service.py).                                     *)
(*                                                                         *)
(* f is the rows as a session read them, o the request, now the current    *)
(* 30-second step.  A fresh batch of recovery codes is one code; a         *)
(* code typed by the user is a proof: a TOTP code is the secret it was     *)
(* made from and its step.                                                 *)
(***************************************************************************)
EXTENDS Integers

CONSTANTS
  Secrets,    (* every TOTP secret ever drawn                              *)
  Recovery,   (* every recovery code ever drawn                            *)
  Logins,     (* session handles                                           *)
  MaxStep,    (* bound: 30-second steps in a behaviour                     *)
  Nothing

ASSUME MaxStepAssumption == MaxStep \in Nat \ {0}
ASSUME NothingAssumption == Nothing \notin Secrets \cup Recovery \cup Logins

Steps == 1 .. MaxStep

(* The user_mfa row (its id is the first secret it held; last 0: no step    *)
(* accepted yet), the recovery codes and the mfa_session rows.              *)
Factor == [row: Secrets \cup {Nothing}, secret: Secrets \cup {Nothing},
           confirmed: BOOLEAN, last: 0 .. MaxStep,
           codes: [Recovery -> {"new", "unused", "used", "gone"}],
           verified: SUBSET Logins]

NoFactor == [row |-> Nothing, secret |-> Nothing, confirmed |-> FALSE, last |-> 0,
             codes |-> [c \in Recovery |-> "new"], verified |-> {}]

Proofs == [secret: Secrets, step: Steps, code: {Nothing}]
            \cup [secret: {Nothing}, step: {1}, code: Recovery]

Enrolled(f) == f.secret # Nothing

(* _matching_step: a code of a step next to now.                            *)
InDrift(step, now) == step \in (now - 1) .. (now + 1)

(* No step at or before the last accepted one.                              *)
NewStep(f, p) == p.step > f.last

UnusedCode(f, p) == f.codes[p.code] = "unused"

(* _check_code.                                                             *)
Accepts(f, p, now) ==
  IF p.code = Nothing
  THEN p.secret = f.secret /\ InDrift(p.step, now) /\ NewStep(f, p)
  ELSE f.confirmed /\ UnusedCode(f, p)
Spent(f, p) == IF p.code = Nothing THEN [f EXCEPT !.last = p.step]
               ELSE [f EXCEPT !.codes[p.code] = "used"]

(* _issue_recovery_codes: the old codes go, the new ones come.              *)
Reissued(f, c) ==
  [f EXCEPT !.codes = [d \in Recovery |-> IF d = c THEN "unused"
                                          ELSE IF @[d] = "new" THEN "new" ELSE "gone"]]

(* Mutation: a confirmed enrolment can be started over.                     *)
EnrolsAnyTime(f, o) == f.codes[o.code] = "new"

MayEnrol(f, o) == ~f.confirmed /\ f.codes[o.code] = "new"
Enrol(f, o) ==
  Reissued([f EXCEPT !.row = IF @ = Nothing THEN o.secret ELSE @,
                     !.secret = o.secret, !.last = 0], o.code)

MayVerify(f, o, now) == Enrolled(f) /\ Accepts(f, o.proof, now)
Verify(f, o) == [Spent(f, o.proof) EXCEPT !.confirmed = TRUE, !.verified = @ \cup {o.login}]

MayDisable(f, o, now) == MayVerify(f, o, now)
Disable(f, o) == [NoFactor EXCEPT !.codes = [c \in Recovery |-> IF f.codes[c] = "new" THEN "new" ELSE "gone"]]

MayRegenerate(f, o, now) == f.confirmed /\ MayVerify(f, o, now) /\ f.codes[o.code] = "new"
Regenerate(f, o) == Reissued(Spent(f, o.proof), o.code)
==============================================================================
