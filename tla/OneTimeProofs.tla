--------------------------- MODULE OneTimeProofs ----------------------------
(***************************************************************************)
(* Theorems about OneTime, for any number of handlers, browsers, requests, *)
(* assertions, codes, secrets and logins.                                  *)
(***************************************************************************)
EXTENDS OneTime, TLAPS

SamlSteps == {"look", "burn", "validate", "admit", "grant"}

(* A handler's request is of the kind its step serves; the assertion it is   *)
(* about to admit is not a day old.                                          *)
Handling(h) ==
  /\ pc[h] \in SamlSteps => req[h] \in SamlReq
  /\ pc[h] \in {"look", "burn"} => req[h].id \in asked
  /\ pc[h] = "admit" => req[h].assertion \notin stale
  /\ pc[h] = "burn" => req[h].id \notin seen[h].spent

(* An assertion that was honoured is still remembered, or too old for any    *)
(* request to reach the insert; a code that can be exchanged was not used.   *)
HonouredOnce ==
  /\ \A c \in Counted : uses[c] \in {0, 1}
  /\ \A a \in Assertions : /\ a \in admitted => uses[a] = 1
                           /\ uses[a] = 1 => a \in admitted \cup stale
  /\ \A l \in Logins : /\ l \in codes => uses[l] = 0
                       /\ l \notin made => uses[l] = 0 /\ l \notin over

(* What a request that changes the MFA rows was let in on.                   *)
Granted(g, o) ==
  IF o.kind = "enrol" THEN ~g.confirmed
  ELSE /\ Enrolled(g)
       /\ o.kind = "regenerate" => g.confirmed
       /\ IF o.proof.code = Nothing THEN o.proof.secret = g.secret /\ o.proof.step > g.last
          ELSE g.confirmed /\ g.codes[o.proof.code] = "unused"

Rows(g) == Enrolled(g) <=> g.row # Nothing

Draws(h) == pc[h] = "open" /\ req[h].kind \in {"enrol", "regenerate"}

Changing(h) ==
  /\ seen[h].spent \subseteq spent
  /\ pc[h] = "open" => /\ req[h] \in FactorOps
                       /\ Rows(seen[h].f)
                       /\ Granted(seen[h].f, req[h])
                       /\ \A c \in Recovery : f.codes[c] = "new" => seen[h].f.codes[c] = "new"
  /\ Draws(h) => /\ f.codes[req[h].code] = "new"
                 /\ \A g \in Handlers \ {h} : Draws(g) => req[g].code # req[h].code

(* A recovery code that was honoured does not come back, a SAML request that *)
(* was honoured has no row.                                                  *)
SpentStays ==
  /\ stored \cap spent = {}
  /\ spent \cap SamlIds \subseteq asked
  /\ \A p \in spent : p \in Proofs /\ p.code # Nothing => f.codes[p.code] \in {"used", "gone"}

Inv == /\ TypeOK
       /\ HonouredOnce
       /\ SpentStays
       /\ \A h \in Handlers : Handling(h)
       /\ \A h \in Handlers : Changing(h)
------------------------------------------------------------------------------
(* What the MFA operations do to the rows.                                   *)
LEMMA FactorTypes ==
  ASSUME NEW g \in Factor
  PROVE  /\ g.row \in Secrets \cup {Nothing} /\ g.secret \in Secrets \cup {Nothing}
         /\ g.confirmed \in BOOLEAN /\ g.last \in 0 .. MaxStep
         /\ g.codes \in [Recovery -> {"new", "unused", "used", "gone"}]
         /\ g.verified \subseteq Logins
BY DEF Factor

LEMMA ProofTypes ==
  ASSUME NEW p \in Proofs
  PROVE  IF p.code = Nothing THEN p.secret \in Secrets /\ p.step \in Steps
                             ELSE p.code \in Recovery /\ p.secret = Nothing
BY NothingAssumption DEF Proofs

LEMMA SpentDoes ==
  ASSUME NEW g \in Factor, NEW p \in Proofs
  PROVE  LET n == Spent(g, p)
         IN  /\ n \in Factor
             /\ n.row = g.row /\ n.secret = g.secret /\ n.confirmed = g.confirmed
             /\ n.verified = g.verified
             /\ n.last = IF p.code = Nothing THEN p.step ELSE g.last
             /\ n.codes = IF p.code = Nothing THEN g.codes ELSE [g.codes EXCEPT ![p.code] = "used"]
<1>1. CASE p.code = Nothing
  <2>1. p.step \in 0 .. MaxStep
    BY <1>1, ProofTypes, MaxStepAssumption DEF Steps
  <2>2. QED
    BY <1>1, <2>1 DEF Spent, Factor
<1>2. CASE p.code # Nothing
  <2> DEFINE k == [g.codes EXCEPT ![p.code] = "used"]
  <2>1. k \in [Recovery -> {"new", "unused", "used", "gone"}]
    BY <1>2, ProofTypes, FactorTypes
  <2>2. Spent(g, p) = [g EXCEPT !.codes = k]
    BY <1>2 DEF Spent, Factor
  <2> HIDE DEF k
  <2>3. LET n == [g EXCEPT !.codes = k]
        IN  /\ n \in Factor /\ n.codes = k
            /\ n.row = g.row /\ n.secret = g.secret /\ n.confirmed = g.confirmed
            /\ n.verified = g.verified /\ n.last = g.last
    BY <2>1 DEF Factor
  <2>4. QED
    BY <1>2, <2>2, <2>3 DEF k
<1>3. QED
  BY <1>1, <1>2

Renewed(old, c) == [d \in Recovery |-> IF d = c THEN "unused" ELSE IF old[d] = "new" THEN "new" ELSE "gone"]

LEMMA ReissuedDoes ==
  ASSUME NEW g \in Factor, NEW c
  PROVE  LET n == Reissued(g, c)
         IN  /\ n \in Factor
             /\ n.row = g.row /\ n.secret = g.secret /\ n.confirmed = g.confirmed
             /\ n.verified = g.verified /\ n.last = g.last
             /\ n.codes = Renewed(g.codes, c)
<1> DEFINE k == Renewed(g.codes, c)
<1>1. k \in [Recovery -> {"new", "unused", "used", "gone"}]
  BY DEF Renewed
<1>2. Reissued(g, c) = [g EXCEPT !.codes = k]
  BY DEF Reissued, Renewed, Factor
<1> HIDE DEF k
<1>3. LET n == [g EXCEPT !.codes = k]
      IN  /\ n \in Factor /\ n.codes = k
          /\ n.row = g.row /\ n.secret = g.secret /\ n.confirmed = g.confirmed
          /\ n.verified = g.verified /\ n.last = g.last
  BY <1>1 DEF Factor
<1>4. QED
  BY <1>2, <1>3 DEF k

LEMMA EnrolDoes ==
  ASSUME NEW g \in Factor, NEW o \in FactorOps, o.kind = "enrol"
  PROVE  LET n == Enrol(g, o)
         IN  /\ n \in Factor
             /\ n.row = (IF g.row = Nothing THEN o.secret ELSE g.row)
             /\ n.secret = o.secret /\ n.confirmed = g.confirmed
             /\ n.verified = g.verified /\ n.last = 0
             /\ n.codes = Renewed(g.codes, o.code)
<1> DEFINE w == IF g.row = Nothing THEN o.secret ELSE g.row
           q == [g EXCEPT !.row = w, !.secret = o.secret, !.last = 0]
<1>1. o.secret \in Secrets /\ w \in Secrets \cup {Nothing} /\ 0 \in 0 .. MaxStep
  BY FactorOpsAssumption, FactorTypes, MaxStepAssumption
<1>2. Enrol(g, o) = Reissued(q, o.code)
  BY DEF Enrol, Factor
<1> HIDE DEF w
<1>3. /\ q \in Factor /\ q.row = w /\ q.secret = o.secret /\ q.last = 0
      /\ q.confirmed = g.confirmed /\ q.verified = g.verified /\ q.codes = g.codes
  BY <1>1 DEF Factor
<1> HIDE DEF q
<1>4. QED
  BY <1>2, <1>3, ReissuedDoes DEF w

AcceptedCodes(g, p) == IF p.code = Nothing THEN g.codes ELSE [g.codes EXCEPT ![p.code] = "used"]

LEMMA VerifyDoes ==
  ASSUME NEW g \in Factor, NEW o \in FactorOps
  PROVE  LET n == Verify(g, o)
         IN  /\ n \in Factor
             /\ n.row = g.row /\ n.secret = g.secret /\ n.confirmed = TRUE
             /\ n.verified = g.verified \cup {o.login}
             /\ n.codes = AcceptedCodes(g, o.proof)
<1> DEFINE q == Spent(g, o.proof)
           v == q.verified \cup {o.login}
<1>1. o.proof \in Proofs /\ o.login \in Logins
  BY FactorOpsAssumption DEF FactorOp
<1>2. /\ q \in Factor /\ q.row = g.row /\ q.secret = g.secret /\ q.verified = g.verified
      /\ q.codes = AcceptedCodes(g, o.proof)
  BY <1>1, SpentDoes DEF AcceptedCodes
<1>3. Verify(g, o) = [q EXCEPT !.confirmed = TRUE, !.verified = v]
  BY DEF Verify
<1> HIDE DEF q
<1>4. v \in SUBSET Logins /\ v = g.verified \cup {o.login}
  BY <1>1, <1>2, FactorTypes
<1> HIDE DEF v
<1>5. LET n == [q EXCEPT !.confirmed = TRUE, !.verified = v]
      IN  /\ n \in Factor /\ n.row = q.row /\ n.secret = q.secret /\ n.confirmed = TRUE
          /\ n.verified = v /\ n.codes = q.codes
  BY <1>2, <1>4 DEF Factor
<1>6. QED
  BY <1>2, <1>3, <1>4, <1>5

LEMMA RegenerateDoes ==
  ASSUME NEW g \in Factor, NEW o \in FactorOps
  PROVE  LET n == Regenerate(g, o)
         IN  /\ n \in Factor
             /\ n.row = g.row /\ n.secret = g.secret /\ n.confirmed = g.confirmed
             /\ n.verified = g.verified
             /\ n.codes = Renewed(AcceptedCodes(g, o.proof), o.code)
<1> DEFINE q == Spent(g, o.proof)
<1>1. o.proof \in Proofs
  BY FactorOpsAssumption DEF FactorOp
<1>2. /\ q \in Factor /\ q.row = g.row /\ q.secret = g.secret /\ q.verified = g.verified
      /\ q.confirmed = g.confirmed /\ q.codes = AcceptedCodes(g, o.proof)
  BY <1>1, SpentDoes DEF AcceptedCodes
<1>3. Regenerate(g, o) = Reissued(q, o.code)
  BY DEF Regenerate
<1> HIDE DEF q
<1>4. QED
  BY <1>2, <1>3, ReissuedDoes

Forgotten(old) == [c \in Recovery |-> IF old[c] = "new" THEN "new" ELSE "gone"]

LEMMA DisableDoes ==
  ASSUME NEW g \in Factor, NEW o
  PROVE  LET n == Disable(g, o)
         IN  /\ n \in Factor
             /\ n.row = Nothing /\ n.secret = Nothing /\ n.confirmed = FALSE
             /\ n.verified = {} /\ n.codes = Forgotten(g.codes)
<1> DEFINE k == Forgotten(g.codes)
<1>1. k \in [Recovery -> {"new", "unused", "used", "gone"}]
  BY DEF Forgotten
<1>2. Disable(g, o) = [NoFactor EXCEPT !.codes = k]
  BY DEF Disable, Forgotten
<1> HIDE DEF k
<1>3. 0 \in 0 .. MaxStep
  BY MaxStepAssumption
<1>4. QED
  BY <1>1, <1>2, <1>3 DEF NoFactor, Factor, k

LEMMA FactorResultOf ==
  ASSUME NEW g, NEW o \in FactorOps
  PROVE  /\ o.kind = "enrol" => FactorResult(g, o) = Enrol(g, o)
         /\ o.kind = "verify" => FactorResult(g, o) = Verify(g, o)
         /\ o.kind = "regenerate" => FactorResult(g, o) = Regenerate(g, o)
         /\ o.kind = "disable" => FactorResult(g, o) = Disable(g, o)
         /\ o.kind \in {"enrol", "verify", "regenerate", "disable"}
BY FactorOpsAssumption DEF FactorResult, FactorOp

LEMMA NoFactorType == NoFactor \in Factor /\ Rows(NoFactor)
<1>1. 0 \in 0 .. MaxStep
  BY MaxStepAssumption
<1>2. QED
  BY <1>1 DEF NoFactor, Factor, Rows, Enrolled

(* What an operation can do to a recovery code and to the enrolment.         *)
CodesMove(g, n, o) ==
  /\ \A c \in Recovery :
       \/ n.codes[c] = g.codes[c]
       \/ o.kind \in {"enrol", "regenerate"} /\ c = o.code /\ n.codes[c] = "unused"
       \/ g.codes[c] # "new" /\ n.codes[c] \in {"used", "gone"}
  /\ o.kind \in {"enrol", "regenerate"} => o.code \in Recovery /\ n.codes[o.code] = "unused"

CodeUsed(g, n, o) ==
  o.kind # "enrol" /\ o.proof.code # Nothing =>
    /\ o.proof.code \in Recovery
    /\ g.codes[o.proof.code] = "unused" /\ n.codes[o.proof.code] \in {"used", "gone"}

(* The secret changes only while there is nothing confirmed, or goes with    *)
(* the whole row.                                                            *)
SecretMoves(g, n) ==
  \/ n.row = g.row /\ n.secret = g.secret
  \/ n.row = Nothing /\ n.secret = Nothing /\ g.row # Nothing /\ g.secret # Nothing
  \/ /\ n.row # Nothing /\ n.secret # Nothing /\ ~g.confirmed /\ ~n.confirmed
     /\ g.row # Nothing => n.row = g.row

LEMMA FactorMoves ==
  ASSUME NEW g \in Factor, NEW o \in FactorOps, Rows(g), Granted(g, o),
         o.kind \in {"enrol", "regenerate"} => g.codes[o.code] = "new"
  PROVE  LET n == FactorResult(g, o)
         IN  n \in Factor /\ Rows(n) /\ CodesMove(g, n, o) /\ CodeUsed(g, n, o) /\ SecretMoves(g, n)
<1> DEFINE n == FactorResult(g, o)
           Good == n \in Factor /\ Rows(n) /\ CodesMove(g, n, o) /\ CodeUsed(g, n, o) /\ SecretMoves(g, n)
<1> SUFFICES Good
  OBVIOUS
<1>a. n = FactorResult(g, o)
  OBVIOUS
<1>b. g.codes \in [Recovery -> {"new", "unused", "used", "gone"}]
  BY FactorTypes
<1>c. o.proof \in Proofs /\ (o.proof.code # Nothing => o.proof.code \in Recovery)
  BY FactorOpsAssumption, ProofTypes DEF FactorOp
<1>d. o.kind \in {"enrol", "regenerate"} => o.code \in Recovery
  BY FactorOpsAssumption
<1> HIDE DEF n
<1>1. CASE o.kind = "enrol"
  <2>1. n = Enrol(g, o) /\ o.secret \in Secrets /\ o.secret # Nothing /\ ~g.confirmed
    BY <1>1, <1>a, FactorResultOf, FactorOpsAssumption, NothingAssumption DEF Granted
  <2>2. /\ n \in Factor /\ n.row = (IF g.row = Nothing THEN o.secret ELSE g.row)
        /\ n.secret = o.secret /\ n.confirmed = g.confirmed /\ n.codes = Renewed(g.codes, o.code)
    BY <1>1, <2>1, EnrolDoes
  <2>3. CodesMove(g, n, o)
    BY <1>1, <1>b, <1>d, <2>2 DEF CodesMove, Renewed
  <2>4. QED
    BY <1>1, <2>1, <2>2, <2>3 DEF Rows, Enrolled, CodeUsed, SecretMoves
<1>2. CASE o.kind = "verify"
  <2>1. n = Verify(g, o)
    BY <1>2, <1>a, FactorResultOf
  <2>2. /\ n \in Factor /\ n.row = g.row /\ n.secret = g.secret
        /\ n.codes = AcceptedCodes(g, o.proof)
    BY <2>1, VerifyDoes
  <2>3. o.proof.code # Nothing => g.codes[o.proof.code] = "unused"
    BY <1>2 DEF Granted
  <2>4. CodesMove(g, n, o) /\ CodeUsed(g, n, o)
    BY <1>2, <1>b, <1>c, <2>2, <2>3 DEF CodesMove, CodeUsed, AcceptedCodes
  <2>5. QED
    BY <2>2, <2>4 DEF Rows, Enrolled, SecretMoves
<1>3. CASE o.kind = "regenerate"
  <2>1. n = Regenerate(g, o)
    BY <1>3, <1>a, FactorResultOf
  <2>2. /\ n \in Factor /\ n.row = g.row /\ n.secret = g.secret
        /\ n.codes = Renewed(AcceptedCodes(g, o.proof), o.code)
    BY <2>1, RegenerateDoes
  <2>3. o.proof.code # Nothing => g.codes[o.proof.code] = "unused" /\ o.proof.code # o.code
    BY <1>3 DEF Granted
  <2>4. CodesMove(g, n, o) /\ CodeUsed(g, n, o)
    BY <1>3, <1>b, <1>c, <1>d, <2>2, <2>3 DEF CodesMove, CodeUsed, AcceptedCodes, Renewed
  <2>5. QED
    BY <2>2, <2>4 DEF Rows, Enrolled, SecretMoves
<1>4. CASE o.kind = "disable"
  <2>1. n = Disable(g, o)
    BY <1>4, <1>a, FactorResultOf
  <2>2. /\ n \in Factor /\ n.row = Nothing /\ n.secret = Nothing /\ n.codes = Forgotten(g.codes)
    BY <2>1, DisableDoes
  <2>3. /\ o.proof.code # Nothing => g.codes[o.proof.code] = "unused"
        /\ g.secret # Nothing /\ g.row # Nothing
    BY <1>4 DEF Granted, Enrolled, Rows
  <2>4. CodesMove(g, n, o) /\ CodeUsed(g, n, o)
    BY <1>4, <1>b, <1>c, <2>2, <2>3 DEF CodesMove, CodeUsed, Forgotten
  <2>5. QED
    BY <2>2, <2>3, <2>4 DEF Rows, Enrolled, SecretMoves
<1>5. QED
  BY <1>1, <1>2, <1>3, <1>4, FactorResultOf

(* What a commit leaves: cur is the rows by now, old what the request read.  *)
LEMMA MergedType ==
  ASSUME NEW cur \in Factor, NEW old \in Factor, NEW n \in Factor
  PROVE  /\ FactorMerged(cur, old, n) \in Factor
         /\ FactorMerged(cur, old, n).codes
              = [c \in Recovery |-> Column(cur.codes[c], old.codes[c], n.codes[c])]
<1> DEFINE erased == old.row # Nothing /\ n.row = Nothing
           hit == cur.row = old.row
           w == IF erased /\ ~hit THEN cur.row ELSE Column(cur.row, old.row, n.row)
           k == IF erased /\ ~hit THEN cur.secret ELSE Column(cur.secret, old.secret, n.secret)
           b == IF erased THEN cur.confirmed /\ ~hit
                ELSE Column(cur.confirmed, old.confirmed, n.confirmed)
           l == IF erased THEN IF hit THEN 0 ELSE cur.last ELSE Column(cur.last, old.last, n.last)
           x == [c \in Recovery |-> Column(cur.codes[c], old.codes[c], n.codes[c])]
           v == (cur.verified \ (old.verified \ n.verified)) \cup (n.verified \ old.verified)
<1>1. FactorMerged(cur, old, n) =
        [row |-> w, secret |-> k, confirmed |-> b, last |-> l, codes |-> x, verified |-> v]
  BY DEF FactorMerged
<1>2. w \in Secrets \cup {Nothing} /\ k \in Secrets \cup {Nothing}
  BY FactorTypes DEF Column
<1>3. b \in BOOLEAN
  BY FactorTypes DEF Column
<1>4. l \in 0 .. MaxStep
  BY FactorTypes, MaxStepAssumption DEF Column
<1>5. x \in [Recovery -> {"new", "unused", "used", "gone"}]
  BY FactorTypes DEF Column
<1>6. v \in SUBSET Logins
  BY FactorTypes
<1> HIDE DEF w, k, b, l, x, v
<1>7. QED
  BY <1>1, <1>2, <1>3, <1>4, <1>5, <1>6 DEF Factor, x

LEMMA MergedRows ==
  ASSUME NEW cur \in Factor, NEW old \in Factor, NEW n \in Factor,
         Rows(cur), Rows(old), SecretMoves(old, n), ~FactorClash(cur, old, n)
  PROVE  Rows(FactorMerged(cur, old, n))
<1>1. /\ FactorMerged(cur, old, n).row
           = IF old.row # Nothing /\ n.row = Nothing /\ cur.row # old.row THEN cur.row
             ELSE Column(cur.row, old.row, n.row)
      /\ FactorMerged(cur, old, n).secret
           = IF old.row # Nothing /\ n.row = Nothing /\ cur.row # old.row THEN cur.secret
             ELSE Column(cur.secret, old.secret, n.secret)
  BY DEF FactorMerged
<1>2. CASE n.row = old.row /\ n.secret = old.secret
  BY <1>1, <1>2 DEF Rows, Enrolled, Column
<1>3. CASE n.row = Nothing /\ n.secret = Nothing /\ old.row # Nothing /\ old.secret # Nothing
  BY <1>1, <1>3 DEF Rows, Enrolled, Column
<1>4. CASE n.row # Nothing /\ n.secret # Nothing /\ (old.row # Nothing => n.row = old.row)
  <2>1. old.row = Nothing => cur.row = Nothing
    BY <1>4 DEF FactorClash
  <2>2. old.row # Nothing /\ n.secret # old.secret => cur.row = old.row
    BY <1>4 DEF FactorClash
  <2>3. QED
    BY <1>1, <1>4, <2>1, <2>2 DEF Rows, Enrolled, Column
<1>5. QED
  BY <1>2, <1>3, <1>4 DEF SecretMoves

(* A request that commits on the rows it read leaves what it wants.          *)
LEMMA MergedCurrent ==
  ASSUME NEW g \in Factor, NEW n \in Factor, Rows(g), SecretMoves(g, n)
  PROVE  LET m == FactorMerged(g, g, n)
         IN  /\ m.secret = n.secret /\ m.verified = n.verified
             /\ m.confirmed = IF g.row # Nothing /\ n.row = Nothing THEN FALSE ELSE n.confirmed
<1>1. /\ FactorMerged(g, g, n).secret = Column(g.secret, g.secret, n.secret)
      /\ FactorMerged(g, g, n).verified
           = (g.verified \ (g.verified \ n.verified)) \cup (n.verified \ g.verified)
      /\ FactorMerged(g, g, n).confirmed
           = IF g.row # Nothing /\ n.row = Nothing THEN g.confirmed /\ ~(g.row = g.row)
             ELSE Column(g.confirmed, g.confirmed, n.confirmed)
  BY DEF FactorMerged
<1>2. g.confirmed \in BOOLEAN /\ n.confirmed \in BOOLEAN
  BY FactorTypes
<1>3. QED
  BY <1>1, <1>2 DEF Column
------------------------------------------------------------------------------
(* The invariant, action by action.                                          *)
LEMMA Established == Init => Inv
<1> SUFFICES ASSUME Init PROVE Inv
  OBVIOUS
<1>1. NothingSeen \in [f: Factor, spent: SUBSET (SamlIds \cup Proofs)]
  BY NoFactorType DEF NothingSeen
<1>2. held \subseteq Logins /\ 1 \in Steps /\ MaxOps \in 0 .. MaxOps /\ 0 \in 0 .. 2
  BY SignedInAssumption, MaxStepAssumption, MaxOpsAssumption DEF Init, Steps
<1>3. TypeOK
  BY <1>1, <1>2, NoFactorType DEF Init, TypeOK, Rows
<1>4. HonouredOnce
  BY DEF Init, HonouredOnce, Counted
<1>5. SpentStays
  BY DEF Init, SpentStays
<1>6. ASSUME NEW h \in Handlers PROVE Handling(h) /\ Changing(h)
  BY DEF Init, Handling, Changing, SamlSteps, NothingSeen, Draws
<1>7. QED
  BY <1>3, <1>4, <1>5, <1>6 DEF Inv

PcType == {"idle", "look", "burn", "validate", "admit", "grant", "open"}
SeenType == [f: Factor, spent: SUBSET (SamlIds \cup Proofs)]
ReqType == SamlReq \cup FactorOps \cup {NoReq}

HandlersTyped == /\ pc \in [Handlers -> PcType] /\ req \in [Handlers -> ReqType]
                 /\ seen \in [Handlers -> SeenType]

LEMMA TypedHandlers == TypeOK => HandlersTyped
BY DEF TypeOK, HandlersTyped, PcType, SeenType, ReqType

Others(h) == \A g \in Handlers \ {h} : pc'[g] = pc[g] /\ req'[g] = req[g] /\ seen'[g] = seen[g]

LEMMA ResetDoes ==
  ASSUME TypeOK, NEW h \in Handlers, Reset(h)
  PROVE  /\ HandlersTyped' /\ Others(h)
         /\ pc'[h] = "idle" /\ req'[h] = NoReq /\ seen'[h] = NothingSeen
<1>1. NothingSeen \in SeenType
  BY NoFactorType DEF NothingSeen, SeenType
<1>2. HandlersTyped
  BY TypedHandlers
<1>3. QED
  BY <1>1, <1>2 DEF HandlersTyped, Reset, Others, PcType, ReqType

LEMMA GoDoes ==
  ASSUME TypeOK, NEW h \in Handlers, NEW step \in PcType, Go(h, step)
  PROVE  /\ HandlersTyped' /\ Others(h) /\ UNCHANGED <<req, seen, budget>>
         /\ pc'[h] = step
<1>1. HandlersTyped
  BY TypedHandlers
<1>2. QED
  BY <1>1 DEF HandlersTyped, Go, Others

(* A handler a step does not touch, and one it ends.                         *)
LEMMA HandlingStays ==
  ASSUME NEW g \in Handlers, Handling(g), stale' = stale, asked \subseteq asked',
         pc'[g] = pc[g], req'[g] = req[g], seen'[g] = seen[g]
  PROVE  Handling(g)'
BY DEF Handling

LEMMA HandlingIdle ==
  ASSUME NEW g \in Handlers, pc'[g] \in {"idle", "open"}
  PROVE  Handling(g)'
BY DEF Handling, SamlSteps

(* A step that leaves the MFA rows alone.                                    *)
LEMMA ChangingStays ==
  ASSUME \A h \in Handlers : Changing(h), f' = f, spent \subseteq spent',
         \A g \in Handlers : \/ pc'[g] = pc[g] /\ req'[g] = req[g] /\ seen'[g] = seen[g]
                             \/ pc'[g] # "open" /\ seen'[g].spent \subseteq spent'
                             \/ pc[g] # "open" /\ pc'[g] # "open" /\ seen'[g] = seen[g]
  PROVE  \A h \in Handlers : Changing(h)'
<1>1. \A g \in Handlers : Draws(g)' => Draws(g) /\ req'[g] = req[g] /\ seen'[g] = seen[g]
  BY DEF Draws
<1>2. \A g \in Handlers : seen'[g].spent \subseteq spent'
  BY DEF Changing
<1>3. \A g \in Handlers : pc'[g] = "open" =>
        pc[g] = "open" /\ req'[g] = req[g] /\ seen'[g] = seen[g]
  OBVIOUS
<1>4. QED
  BY <1>1, <1>2, <1>3 DEF Changing

LEMMA NothingWasSpent == NothingSeen.spent = {}
BY DEF NothingSeen

LEMMA AskKeeps ==
  ASSUME Inv, NEW b \in Browsers, NEW r \in SamlIds, Ask(b, r)
  PROVE  Inv'
<1>1. TypeOK'
  <2>1. cookie' \in [Browsers -> asked' \cup {Nothing}]
    BY DEF Ask, Inv, TypeOK
  <2>2. budget' \in 0 .. MaxOps
    BY MaxOpsAssumption DEF Ask, Inv, TypeOK
  <2>3. stored' \subseteq asked' /\ asked' \subseteq SamlIds
    BY DEF Ask, Inv, TypeOK
  <2>4. QED
    BY <2>1, <2>2, <2>3 DEF Ask, Inv, TypeOK, clock
<1>2. HonouredOnce'
  BY DEF Ask, Inv, HonouredOnce, clock
<1>3. SpentStays'
  BY DEF Ask, Inv, SpentStays
<1>4. \A h \in Handlers : Handling(h)'
  BY HandlingStays DEF Ask, Inv, clock
<1>5. \A h \in Handlers : Changing(h)'
  BY ChangingStays DEF Ask, Inv
<1>6. QED
  BY <1>1, <1>2, <1>3, <1>4, <1>5 DEF Inv

LEMMA PostKeeps ==
  ASSUME Inv, NEW h \in Handlers, NEW b \in Browsers, NEW a \in Assertions, Post(h, b, a)
  PROVE  Inv'
<1> DEFINE r == AnswerTo[a]
           q == [kind |-> "saml", browser |-> b, assertion |-> a, id |-> r]
<1>1. q \in SamlReq /\ q.id = r
  BY AnswersAssumption DEF SamlReq
<1>2. /\ pc[h] = "idle" /\ req' = [req EXCEPT ![h] = q] /\ budget' = budget - 1 /\ budget > 0
      /\ r # Nothing => r \in asked
      /\ pc' = [pc EXCEPT ![h] = IF r = Nothing THEN "validate" ELSE "look"]
      /\ UNCHANGED <<f, saml, clock, codes, made, held, uses, spent, seen>>
  BY DEF Post
<1> HIDE DEF q, r
<1>3. HandlersTyped' /\ Others(h) /\ req'[h] = q /\ pc'[h] = (IF r = Nothing THEN "validate" ELSE "look")
  <2>1. HandlersTyped
    BY TypedHandlers DEF Inv
  <2>2. QED
    BY <1>1, <1>2, <2>1 DEF HandlersTyped, Others, PcType, ReqType
<1>4. budget' \in 0 .. MaxOps
  BY <1>2, MaxOpsAssumption DEF Inv, TypeOK
<1>5. TypeOK'
  BY <1>2, <1>3, <1>4 DEF Inv, TypeOK, saml, clock, HandlersTyped, PcType, SeenType, ReqType
<1>6. HonouredOnce' /\ SpentStays'
  BY <1>2 DEF Inv, HonouredOnce, SpentStays, saml, clock
<1>7. Handling(h)'
  BY <1>1, <1>2, <1>3 DEF Handling, SamlSteps, saml
<1>8. \A g \in Handlers : Handling(g)'
  BY <1>2, <1>3, <1>7, HandlingStays DEF Inv, Others, saml, clock
<1>9. \A g \in Handlers : Changing(g)'
  BY <1>2, <1>3, ChangingStays DEF Inv, Others
<1>10. QED
  BY <1>5, <1>6, <1>8, <1>9 DEF Inv

(* A handler that stops, whatever it was doing.                              *)
LEMMA StopKeeps ==
  ASSUME Inv, NEW h \in Handlers, Done(h),
         UNCHANGED <<f, saml, clock, codes, made, held, uses, spent>>
  PROVE  Inv'
<1>1. /\ HandlersTyped' /\ Others(h) /\ pc'[h] = "idle" /\ seen'[h] = NothingSeen
      /\ budget' = budget
  BY ResetDoes DEF Inv, Done
<1>2. TypeOK'
  BY <1>1 DEF Inv, TypeOK, saml, clock, HandlersTyped, PcType, SeenType, ReqType
<1>3. HonouredOnce' /\ SpentStays'
  BY DEF Inv, HonouredOnce, SpentStays, saml, clock
<1>4. \A g \in Handlers : Handling(g)'
  BY <1>1, HandlingStays, HandlingIdle DEF Inv, Others, saml, clock
<1>5. \A g \in Handlers : Changing(g)'
  BY <1>1, ChangingStays, NothingWasSpent DEF Inv, Others
<1>6. QED
  BY <1>2, <1>3, <1>4, <1>5 DEF Inv

LEMMA LookKeeps ==
  ASSUME Inv, NEW h \in Handlers, Look(h)
  PROVE  Inv'
<1>1. CASE req[h].id \notin stored
  BY <1>1, StopKeeps DEF Look
<1>2. CASE req[h].id \in stored
  <2>1. /\ pc[h] = "look" /\ pc' = [pc EXCEPT ![h] = "burn"]
        /\ seen' = [seen EXCEPT ![h] = [@ EXCEPT !.spent = spent]]
        /\ UNCHANGED <<f, saml, clock, codes, made, held, uses, spent, req, budget>>
    BY <1>2 DEF Look
  <2>2. seen[h] \in SeenType /\ spent \in SUBSET (SamlIds \cup Proofs)
    BY TypedHandlers DEF Inv, TypeOK, HandlersTyped
  <2> DEFINE x == [seen[h] EXCEPT !.spent = spent]
  <2>3. x \in SeenType /\ x.spent = spent
    BY <2>2 DEF SeenType
  <2>4. seen' = [seen EXCEPT ![h] = x]
    BY <2>1, TypedHandlers DEF Inv, HandlersTyped
  <2> HIDE DEF x
  <2>5. HandlersTyped' /\ Others(h) /\ pc'[h] = "burn" /\ seen'[h].spent = spent
    BY <2>1, <2>3, <2>4, TypedHandlers DEF Inv, HandlersTyped, Others, PcType
  <2>6. TypeOK'
    BY <2>1, <2>5 DEF Inv, TypeOK, saml, clock, HandlersTyped, PcType, SeenType, ReqType
  <2>7. HonouredOnce' /\ SpentStays'
    BY <2>1 DEF Inv, HonouredOnce, SpentStays, saml, clock
  <2>8. Handling(h)'
    BY <1>2, <2>1, <2>5 DEF Inv, Handling, SpentStays, SamlSteps, saml, clock
  <2>9. \A g \in Handlers : Handling(g)'
    BY <2>1, <2>5, <2>8, HandlingStays DEF Inv, Others, saml, clock
  <2>10. \A g \in Handlers : Changing(g)'
    BY <2>1, <2>5, ChangingStays DEF Inv, Others
  <2>11. QED
    BY <2>6, <2>7, <2>9, <2>10 DEF Inv
<1>3. QED
  BY <1>1, <1>2

LEMMA BurnKeeps ==
  ASSUME Inv, NEW h \in Handlers, Burn(h)
  PROVE  Inv'
<1> DEFINE r == req[h].id
<1>1. /\ pc[h] = "burn" /\ stored' = stored \ {r}
      /\ UNCHANGED <<f, clock, admitted, cookie, asked, codes, made, held, uses>>
      /\ \/ Done(h) /\ spent' = spent
         \/ r \notin over /\ Go(h, "validate") /\ spent' = spent \cup {r}
  BY DEF Burn, Burnt
<1>2. r \in asked /\ r \in SamlIds /\ req[h] \in SamlReq
  BY <1>1 DEF Inv, TypeOK, Handling, SamlSteps
<1> HIDE DEF r
<1>3. /\ HandlersTyped' /\ Others(h) /\ budget' = budget
      /\ \/ pc'[h] = "idle" /\ seen'[h] = NothingSeen
         \/ pc'[h] = "validate" /\ req' = req /\ seen' = seen
  <2>1. CASE Done(h)
    BY <2>1, ResetDoes DEF Inv, Done
  <2>2. CASE Go(h, "validate")
    <3>1. "validate" \in PcType
      BY DEF PcType
    <3>2. QED
      BY <2>2, <3>1, GoDoes DEF Inv
  <2>3. QED
    BY <1>1, <2>1, <2>2
<1>4. spent \subseteq spent' /\ spent' \subseteq spent \cup {r}
  BY <1>1
<1>5. TypeOK'
  BY <1>1, <1>2, <1>3, <1>4 DEF Inv, TypeOK, clock, HandlersTyped, PcType, SeenType, ReqType
<1>6. HonouredOnce'
  BY <1>1 DEF Inv, HonouredOnce, clock
<1>7. SpentStays'
  <2>1. r \notin Proofs
    BY <1>2, NamesAssumption
  <2>2. QED
    BY <1>1, <1>2, <1>4, <2>1 DEF Inv, SpentStays
<1>8. Handling(h)'
  BY <1>2, <1>3, HandlingIdle DEF Handling, SamlSteps
<1>9. \A g \in Handlers : Handling(g)'
  BY <1>1, <1>3, <1>8, HandlingStays DEF Inv, Others, clock
<1>10. \A g \in Handlers : Changing(g)'
  BY <1>1, <1>3, <1>4, ChangingStays, NothingWasSpent DEF Inv, Others
<1>11. QED
  BY <1>5, <1>6, <1>7, <1>9, <1>10 DEF Inv

LEMMA ValidateKeeps ==
  ASSUME Inv, NEW h \in Handlers, Validate(h)
  PROVE  Inv'
<1>1. CASE req[h].assertion \in over
  BY <1>1, StopKeeps DEF Validate
<1>2. CASE req[h].assertion \notin over
  <2>1. /\ pc[h] = "validate" /\ Go(h, "admit")
        /\ UNCHANGED <<f, saml, clock, codes, made, held, uses, spent>>
    BY <1>2 DEF Validate
  <2>2. HandlersTyped' /\ Others(h) /\ UNCHANGED <<req, seen, budget>> /\ pc'[h] = "admit"
    BY <2>1, GoDoes DEF Inv, PcType
  <2>3. TypeOK'
    BY <2>1, <2>2 DEF Inv, TypeOK, saml, clock, HandlersTyped, PcType, SeenType, ReqType
  <2>4. HonouredOnce' /\ SpentStays'
    BY <2>1 DEF Inv, HonouredOnce, SpentStays, saml, clock
  <2>5. Handling(h)'
    BY <1>2, <2>1, <2>2 DEF Inv, TypeOK, Handling, SamlSteps, clock
  <2>6. \A g \in Handlers : Handling(g)'
    BY <2>1, <2>2, <2>5, HandlingStays DEF Inv, Others, saml, clock
  <2>7. \A g \in Handlers : Changing(g)'
    BY <2>1, <2>2, ChangingStays DEF Inv, Others
  <2>8. QED
    BY <2>3, <2>4, <2>6, <2>7 DEF Inv
<1>3. QED
  BY <1>1, <1>2

(* An insert that goes through is the assertion's first.                     *)
LEMMA AdmitDoes ==
  ASSUME Inv, NEW h \in Handlers, Admit(h)
  PROVE  LET a == req[h].assertion
         IN  /\ pc[h] = "admit" /\ a \in Assertions /\ a \notin stale
             /\ \/ a \in admitted /\ uses[a] = 1 /\ Done(h) /\ UNCHANGED <<admitted, uses>>
                \/ /\ a \notin admitted /\ uses[a] = 0 /\ Go(h, "grant")
                   /\ admitted' = (admitted \ stale) \cup {a}
                   /\ uses' = [uses EXCEPT ![a] = 1]
<1> DEFINE a == req[h].assertion
<1>1. pc[h] = "admit" /\ req[h] \in SamlReq /\ a \notin stale
  BY DEF Admit, Inv, Handling, SamlSteps
<1>2. a \in Assertions
  BY <1>1 DEF SamlReq
<1>3. a \in Counted /\ uses[a] \in {0, 1}
  BY <1>2 DEF Inv, HonouredOnce, Counted
<1>4. CASE a \in admitted
  BY <1>1, <1>2, <1>4 DEF Admit, Swept, Inv, HonouredOnce
<1>5. CASE a \notin admitted
  <2>1. uses[a] = 0
    BY <1>1, <1>2, <1>3, <1>5 DEF Inv, HonouredOnce
  <2>2. uses' = [uses EXCEPT ![a] = 1]
    BY <1>3, <1>5, <2>1 DEF Admit, Swept, Honour, Inv, TypeOK
  <2>3. QED
    BY <1>1, <1>2, <1>5, <2>1, <2>2 DEF Admit, Swept
<1>6. QED
  BY <1>4, <1>5

LEMMA AdmitKeeps ==
  ASSUME Inv, NEW h \in Handlers, Admit(h)
  PROVE  Inv'
<1> DEFINE a == req[h].assertion
<1>1. /\ pc[h] = "admit" /\ a \in Assertions /\ a \notin stale
      /\ \/ a \in admitted /\ uses[a] = 1 /\ Done(h) /\ UNCHANGED <<admitted, uses>>
         \/ /\ a \notin admitted /\ uses[a] = 0 /\ Go(h, "grant")
            /\ admitted' = (admitted \ stale) \cup {a}
            /\ uses' = [uses EXCEPT ![a] = 1]
  BY AdmitDoes
<1>2. UNCHANGED <<f, clock, stored, cookie, asked, codes, made, held, spent>>
  BY DEF Admit
<1> HIDE DEF a
<1>3. CASE Done(h) /\ UNCHANGED <<admitted, uses>>
  BY <1>2, <1>3, StopKeeps DEF saml
<1>4. CASE /\ a \notin admitted /\ uses[a] = 0 /\ Go(h, "grant")
           /\ admitted' = (admitted \ stale) \cup {a}
           /\ uses' = [uses EXCEPT ![a] = 1]
  <2>1. HandlersTyped' /\ Others(h) /\ UNCHANGED <<req, seen, budget>> /\ pc'[h] = "grant"
    BY <1>4, GoDoes DEF Inv, PcType
  <2>2. a \in Counted /\ a \notin Logins /\ uses \in [Counted -> 0 .. 2]
    BY <1>1, NamesAssumption DEF Inv, TypeOK, Counted
  <2>3. uses' \in [Counted -> 0 .. 2] /\ admitted' \subseteq Assertions
    BY <1>1, <1>4, <2>2 DEF Inv, TypeOK
  <2>4. TypeOK'
    BY <1>2, <2>1, <2>3 DEF Inv, TypeOK, clock, HandlersTyped, PcType, SeenType, ReqType
  <2>5. uses'[a] = 1 /\ \A c \in Counted \ {a} : uses'[c] = uses[c]
    BY <1>4, <2>2
  <2>6. HonouredOnce'
    <3>1. \A c \in Counted : uses'[c] \in {0, 1}
      BY <2>5 DEF Inv, HonouredOnce
    <3>2. \A c \in Assertions : /\ c \in admitted' => uses'[c] = 1
                                /\ uses'[c] = 1 => c \in admitted' \cup stale'
      BY <1>2, <1>4, <2>5 DEF Inv, HonouredOnce, Counted, clock
    <3>3. \A l \in Logins : uses'[l] = uses[l]
      BY <2>2, <2>5 DEF Counted
    <3>4. QED
      BY <1>2, <3>1, <3>2, <3>3 DEF Inv, HonouredOnce, clock
  <2>7. SpentStays'
    BY <1>2 DEF Inv, SpentStays
  <2>8. Handling(h)'
    BY <1>1, <1>2, <2>1 DEF Inv, Handling, SamlSteps
  <2>9. \A g \in Handlers : Handling(g)'
    BY <1>2, <2>1, <2>8, HandlingStays DEF Inv, Others, clock
  <2>10. \A g \in Handlers : Changing(g)'
    BY <1>1, <1>2, <2>1, ChangingStays DEF Inv, Others
  <2>11. QED
    BY <2>4, <2>6, <2>7, <2>9, <2>10 DEF Inv
<1>5. QED
  BY <1>1, <1>3, <1>4

(* A new login and its code: nobody has used or timed it yet.                *)
LEMMA NewCode ==
  ASSUME Inv, NEW l \in Logins \ made, made' = made \cup {l}, codes' = (codes \ over) \cup {l},
         UNCHANGED <<over, stale, admitted, uses>>
  PROVE  HonouredOnce'
BY DEF Inv, HonouredOnce, TypeOK

LEMMA GrantKeeps ==
  ASSUME Inv, NEW h \in Handlers, Grant(h)
  PROVE  Inv'
<1>1. PICK l \in Logins \ made : made' = made \cup {l} /\ codes' = (codes \ over) \cup {l}
  BY DEF Grant
<1>2. /\ pc[h] = "grant" /\ cookie' = [cookie EXCEPT ![req[h].browser] = Nothing] /\ Done(h)
      /\ UNCHANGED <<f, clock, stored, admitted, asked, held, uses, spent>>
  BY DEF Grant
<1>3. HandlersTyped' /\ Others(h) /\ pc'[h] = "idle" /\ seen'[h] = NothingSeen /\ budget' = budget
  BY <1>2, ResetDoes DEF Inv, Done
<1>4. TypeOK'
  <2>1. cookie' \in [Browsers -> asked' \cup {Nothing}]
    BY <1>2 DEF Inv, TypeOK
  <2>2. codes' \cup held' \subseteq made' /\ made' \subseteq Logins
    BY <1>1, <1>2 DEF Inv, TypeOK
  <2>3. QED
    BY <1>2, <1>3, <2>1, <2>2 DEF Inv, TypeOK, clock, HandlersTyped, PcType, SeenType, ReqType
<1>5. HonouredOnce'
  BY <1>1, <1>2, NewCode DEF clock
<1>6. SpentStays'
  BY <1>2 DEF Inv, SpentStays
<1>7. \A g \in Handlers : Handling(g)'
  BY <1>2, <1>3, HandlingStays, HandlingIdle DEF Inv, Others, clock
<1>8. \A g \in Handlers : Changing(g)'
  BY <1>2, <1>3, ChangingStays, NothingWasSpent DEF Inv, Others
<1>9. QED
  BY <1>4, <1>5, <1>6, <1>7, <1>8 DEF Inv

(* A step that touches no handler, no MFA row and nothing spent.             *)
LEMMA HandlersAlone ==
  ASSUME Inv, UNCHANGED <<f, stored, asked, spent, pc, req, seen>>, TypeOK', HonouredOnce', stale' = stale
  PROVE  Inv'
<1>1. SpentStays'
  BY DEF Inv, SpentStays
<1>2. \A g \in Handlers : Handling(g)'
  BY HandlingStays DEF Inv
<1>3. \A g \in Handlers : Changing(g)'
  BY ChangingStays DEF Inv
<1>4. QED
  BY <1>1, <1>2, <1>3 DEF Inv

LEMMA ForDesktopKeeps ==
  ASSUME Inv, ForDesktop
  PROVE  Inv'
<1>1. PICK l \in Logins \ made : made' = made \cup {l} /\ codes' = (codes \ over) \cup {l}
  BY DEF ForDesktop
<1>2. /\ budget > 0 /\ budget' = budget - 1
      /\ UNCHANGED <<f, saml, clock, held, uses, spent, pc, req, seen>>
  BY DEF ForDesktop
<1>3. budget' \in 0 .. MaxOps
  BY <1>2, MaxOpsAssumption DEF Inv, TypeOK
<1>4. codes' \cup held' \subseteq made' /\ made' \subseteq Logins
  BY <1>1, <1>2 DEF Inv, TypeOK
<1>5. TypeOK'
  BY <1>2, <1>3, <1>4 DEF Inv, TypeOK, saml, clock
<1>6. HonouredOnce'
  BY <1>1, <1>2, NewCode DEF saml, clock
<1>7. QED
  BY <1>2, <1>5, <1>6, HandlersAlone DEF saml, clock

LEMMA ExchangeKeeps ==
  ASSUME Inv, NEW l \in Logins, Exchange(l)
  PROVE  Inv'
<1>1. /\ l \in codes /\ codes' = codes \ (over \cup {l})
      /\ UNCHANGED <<f, saml, clock, made, spent, pc, req, seen, budget>>
      /\ \/ UNCHANGED <<held, uses>>
         \/ held' = held \cup {l} /\ uses' = [uses EXCEPT ![l] = @ + 1]
  BY DEF Exchange, Popped, Honour
<1>2. uses[l] = 0 /\ l \in made /\ l \in Counted /\ l \notin Assertions /\ uses \in [Counted -> 0 .. 2]
  BY <1>1, NamesAssumption DEF Inv, HonouredOnce, TypeOK, Counted
<1>3. uses' = uses \/ uses' = [uses EXCEPT ![l] = 1]
  BY <1>1, <1>2
<1>4. uses' \in [Counted -> 0 .. 2] /\ \A c \in Counted \ {l} : uses'[c] = uses[c]
  BY <1>2, <1>3
<1>5. uses'[l] \in {0, 1}
  BY <1>2, <1>3
<1>6. codes' \cup held' \subseteq made' /\ made' \subseteq Logins
  BY <1>1, <1>2 DEF Inv, TypeOK
<1>7. TypeOK'
  BY <1>1, <1>4, <1>6 DEF Inv, TypeOK, saml, clock
<1>8. HonouredOnce'
  <2>1. \A c \in Counted : uses'[c] \in {0, 1}
    BY <1>4, <1>5 DEF Inv, HonouredOnce
  <2>2. \A a \in Assertions : uses'[a] = uses[a]
    BY <1>2, <1>4 DEF Counted
  <2>3. \A m \in Logins : m \in codes' \/ m \notin made' => uses'[m] = uses[m] /\ m # l
    BY <1>1, <1>2, <1>4 DEF Counted
  <2>4. QED
    BY <1>1, <2>1, <2>2, <2>3 DEF Inv, HonouredOnce, saml, clock
<1>9. QED
  BY <1>1, <1>7, <1>8, HandlersAlone DEF saml, clock

LEMMA TickKeeps ==
  ASSUME Inv, Tick
  PROVE  Inv'
<1>1. /\ now' \in Steps
      /\ UNCHANGED <<f, saml, over, stale, codes, made, held, uses, spent, pc, req, seen, budget>>
  BY MaxStepAssumption DEF Tick, Inv, TypeOK, Steps
<1>2. TypeOK'
  BY <1>1 DEF Inv, TypeOK, saml
<1>3. HonouredOnce'
  BY <1>1 DEF Inv, HonouredOnce, saml
<1>4. QED
  BY <1>1, <1>2, <1>3, HandlersAlone DEF saml

LEMMA ExpireKeeps ==
  ASSUME Inv, NEW c \in Dated, Expire(c)
  PROVE  Inv'
<1>1. /\ over' = over \cup {c} /\ (c \in stored \/ c \in codes \/ c \in Assertions)
      /\ UNCHANGED <<f, saml, now, stale, codes, made, held, uses, spent, pc, req, seen, budget>>
  BY DEF Expire
<1>2. TypeOK'
  BY <1>1 DEF Inv, TypeOK, saml
<1>3. c \in Logins => c \in made
  BY <1>1, NamesAssumption DEF Inv, TypeOK
<1>4. HonouredOnce'
  BY <1>1, <1>3 DEF Inv, HonouredOnce, saml
<1>5. QED
  BY <1>1, <1>2, <1>4, HandlersAlone DEF saml

LEMMA GrowStaleKeeps ==
  ASSUME Inv, NEW a \in Assertions, GrowStale(a)
  PROVE  Inv'
<1>1. /\ a \in over /\ stale' = stale \cup {a}
      /\ \A h \in Handlers : pc[h] = "admit" => req[h].assertion # a
      /\ UNCHANGED <<f, saml, now, over, codes, made, held, uses, spent, pc, req, seen, budget>>
  BY DEF GrowStale
<1>2. TypeOK'
  BY <1>1 DEF Inv, TypeOK, saml
<1>3. HonouredOnce' /\ SpentStays'
  BY <1>1 DEF Inv, HonouredOnce, SpentStays, saml
<1>4. \A h \in Handlers : Handling(h)'
  BY <1>1 DEF Inv, Handling, saml
<1>5. \A h \in Handlers : Changing(h)'
  BY <1>1, ChangingStays DEF Inv
<1>6. QED
  BY <1>2, <1>3, <1>4, <1>5 DEF Inv

LEMMA RestartKeeps ==
  ASSUME Inv, Restart
  PROVE  Inv'
<1>1. /\ codes' = {} /\ pc' = [h \in Handlers |-> "idle"] /\ req' = [h \in Handlers |-> NoReq]
      /\ seen' = [h \in Handlers |-> NothingSeen]
      /\ UNCHANGED <<f, saml, clock, made, held, uses, spent, budget>>
  BY DEF Restart
<1>2. NothingSeen \in SeenType
  BY NoFactorType DEF NothingSeen, SeenType
<1>3. TypeOK'
  BY <1>1, <1>2 DEF Inv, TypeOK, saml, clock, SeenType
<1>4. HonouredOnce' /\ SpentStays'
  BY <1>1 DEF Inv, HonouredOnce, SpentStays, saml, clock
<1>5. \A h \in Handlers : Handling(h)'
  BY <1>1, HandlingIdle
<1>6. \A h \in Handlers : Changing(h)'
  BY <1>1, NothingWasSpent DEF Changing, Draws
<1>7. QED
  BY <1>3, <1>4, <1>5, <1>6 DEF Inv

(* The two steps of a request that changes the MFA rows.                     *)
LEMMA AllowedGrants ==
  ASSUME Inv, NEW o \in FactorOps, FactorAllowed(o)
  PROVE  /\ Granted(f, o)
         /\ o.kind \in {"enrol", "regenerate"} => f.codes[o.code] = "new"
<1>1. f.confirmed \in BOOLEAN
  BY FactorTypes DEF Inv, TypeOK
<1>2. CASE o.kind = "enrol"
  BY <1>2 DEF FactorAllowed, MayEnrol, Granted
<1>3. CASE o.kind = "verify"
  BY <1>3 DEF FactorAllowed, MayVerify, Granted, Accepts, NewStep, UnusedCode
<1>4. CASE o.kind = "regenerate"
  BY <1>4 DEF FactorAllowed, MayRegenerate, MayVerify, Granted, Accepts, NewStep, UnusedCode
<1>5. CASE o.kind = "disable"
  BY <1>5 DEF FactorAllowed, MayDisable, MayVerify, Granted, Accepts, NewStep, UnusedCode
<1>6. QED
  BY <1>2, <1>3, <1>4, <1>5, FactorResultOf

LEMMA BeginKeeps ==
  ASSUME Inv, NEW h \in Handlers, NEW o \in FactorOps, Begin(h, o)
  PROVE  Inv'
<1> DEFINE x == [f |-> f, spent |-> spent]
<1>1. x \in SeenType /\ x.f = f /\ x.spent = spent
  BY DEF Inv, TypeOK, SeenType
<1>2. /\ pc[h] = "idle" /\ budget > 0
      /\ o.kind \in {"enrol", "regenerate"} =>
           \A g \in Handlers : pc[g] = "open" => req[g].code # o.code
      /\ FactorAllowed(o)
      /\ pc' = [pc EXCEPT ![h] = "open"] /\ req' = [req EXCEPT ![h] = o]
      /\ seen' = [seen EXCEPT ![h] = x] /\ budget' = budget - 1
      /\ UNCHANGED <<f, saml, clock, codes, made, held, uses, spent>>
  BY DEF Begin
<1> HIDE DEF x
<1>3. /\ HandlersTyped' /\ Others(h)
      /\ pc'[h] = "open" /\ req'[h] = o /\ seen'[h] = x
  BY <1>1, <1>2, TypedHandlers DEF Inv, HandlersTyped, Others, PcType, ReqType
<1>4. budget' \in 0 .. MaxOps
  BY <1>2, MaxOpsAssumption DEF Inv, TypeOK
<1>5. TypeOK'
  BY <1>2, <1>3, <1>4 DEF Inv, TypeOK, saml, clock, HandlersTyped, PcType, SeenType, ReqType
<1>6. HonouredOnce' /\ SpentStays'
  BY <1>2 DEF Inv, HonouredOnce, SpentStays, saml, clock
<1>7. \A g \in Handlers : Handling(g)'
  BY <1>2, <1>3, HandlingStays, HandlingIdle DEF Inv, Others, saml, clock
<1>8. /\ Granted(f, o) /\ Rows(f)
      /\ o.kind \in {"enrol", "regenerate"} => f.codes[o.code] = "new"
  BY <1>2, AllowedGrants DEF Inv, TypeOK, Rows
<1>9. f' = f /\ spent' = spent
  BY <1>2
<1>10. Changing(h)'
  <2>1. \A g \in Handlers \ {h} : Draws(g)' /\ Draws(h)' => req'[g].code # req'[h].code
    BY <1>2, <1>3 DEF Draws, Others
  <2>2. Draws(h)' => f'.codes[req'[h].code] = "new"
    BY <1>3, <1>8, <1>9 DEF Draws
  <2>3. seen'[h].spent = spent /\ seen'[h].f = f
    BY <1>1, <1>3
  <2>4. QED
    BY <1>3, <1>8, <1>9, <2>1, <2>2, <2>3 DEF Changing
<1>11. ASSUME NEW g \in Handlers \ {h} PROVE Changing(g)'
  <2>1. Changing(g) /\ pc'[g] = pc[g] /\ req'[g] = req[g] /\ seen'[g] = seen[g]
    BY <1>3 DEF Inv, Others
  <2>2. Draws(g)' = Draws(g)
    BY <2>1 DEF Draws
  <2>3. Draws(g) /\ Draws(h)' => req[g].code # req'[h].code
    BY <1>2, <1>3 DEF Draws
  <2>4. \A k \in Handlers \ {g} : Draws(g)' /\ Draws(k)' => req'[k].code # req'[g].code
    BY <1>3, <2>1, <2>2, <2>3 DEF Changing, Draws, Others
  <2>5. QED
    BY <1>9, <2>1, <2>2, <2>4 DEF Changing
<1>12. QED
  BY <1>5, <1>6, <1>7, <1>10, <1>11 DEF Inv

(* What the commit writes: the request was let in on what it read, and the   *)
(* rows that moved since have not spoilt it.                                 *)
LEMMA CommitDoes ==
  ASSUME Inv, NEW h \in Handlers, Commit(h)
  PROVE  LET g == seen[h].f
             o == req[h]
             n == FactorResult(g, o)
         IN  /\ pc[h] = "open" /\ o \in FactorOps /\ g \in Factor /\ n \in Factor
             /\ Rows(g) /\ Granted(g, o) /\ CodesMove(g, n, o) /\ CodeUsed(g, n, o)
             /\ SecretMoves(g, n) /\ f' = FactorMerged(f, g, n) /\ ~FactorClash(f, g, n)
             /\ f' \in Factor /\ Rows(f')
             /\ f'.codes = [c \in Recovery |-> Column(f.codes[c], g.codes[c], n.codes[c])]
             /\ spent' = IF o.kind = "enrol" THEN spent ELSE spent \cup {o.proof}
             /\ Done(h) /\ UNCHANGED <<saml, clock, codes, made, held, uses>>
<1> DEFINE g == seen[h].f
           o == req[h]
           n == FactorResult(g, o)
<1>1. /\ pc[h] = "open" /\ f' = FactorMerged(f, g, n) /\ ~FactorClash(f, g, n)
      /\ spent' = (IF o.kind = "enrol" THEN spent ELSE spent \cup {o.proof})
      /\ Done(h) /\ UNCHANGED <<saml, clock, codes, made, held, uses>>
  BY DEF Commit
<1>2. o \in FactorOps /\ g \in Factor /\ Rows(g) /\ Granted(g, o)
  BY <1>1 DEF Inv, TypeOK, Changing
<1>3. o.kind \in {"enrol", "regenerate"} => g.codes[o.code] = "new"
  <2>1. o.kind \in {"enrol", "regenerate"} => Draws(h) /\ o.code \in Recovery
    BY <1>1, <1>2, FactorOpsAssumption DEF Draws
  <2>2. QED
    BY <1>1, <2>1 DEF Inv, Changing
<1>4. n \in Factor /\ CodesMove(g, n, o) /\ CodeUsed(g, n, o) /\ SecretMoves(g, n)
  BY <1>2, <1>3, FactorMoves
<1>5. f \in Factor /\ Rows(f)
  BY DEF Inv, TypeOK, Rows
<1> HIDE DEF g, o, n
<1>6. /\ f' \in Factor /\ Rows(f')
      /\ f'.codes = [c \in Recovery |-> Column(f.codes[c], g.codes[c], n.codes[c])]
  BY <1>1, <1>2, <1>4, <1>5, MergedType, MergedRows
<1>7. QED
  BY <1>1, <1>2, <1>4, <1>6 DEF g, o, n

LEMMA CommitKeeps ==
  ASSUME Inv, NEW h \in Handlers, Commit(h)
  PROVE  Inv'
<1> DEFINE g == seen[h].f
           o == req[h]
           n == FactorResult(g, o)
<1>1. /\ pc[h] = "open" /\ o \in FactorOps /\ g \in Factor /\ n \in Factor
      /\ CodesMove(g, n, o) /\ CodeUsed(g, n, o) /\ f' \in Factor /\ Rows(f')
      /\ f'.codes = [c \in Recovery |-> Column(f.codes[c], g.codes[c], n.codes[c])]
      /\ spent' = (IF o.kind = "enrol" THEN spent ELSE spent \cup {o.proof})
      /\ Done(h) /\ UNCHANGED <<saml, clock, codes, made, held, uses>>
  BY CommitDoes
<1>2. \A c \in Recovery : f.codes[c] = "new" => g.codes[c] = "new"
  BY <1>1 DEF Inv, Changing
<1>3. /\ o.kind \in {"enrol", "regenerate"} => f.codes[o.code] = "new"
      /\ Draws(h) <=> o.kind \in {"enrol", "regenerate"}
  BY <1>1 DEF Draws, Inv, Changing
<1>4. \A k \in Handlers \ {h} : Draws(h) /\ Draws(k) => req[k].code # o.code
  BY DEF Inv, Changing
<1>5. o.proof \in Proofs /\ (o.proof.code # Nothing => o.proof.code \in Recovery)
  BY <1>1, FactorOpsAssumption, ProofTypes DEF FactorOp
<1>6. /\ HandlersTyped' /\ Others(h) /\ pc'[h] = "idle" /\ seen'[h] = NothingSeen
      /\ budget' = budget
  BY <1>1, ResetDoes DEF Inv, Done
<1> HIDE DEF g, o, n
<1>7. spent \subseteq spent' /\ spent' \subseteq spent \cup {o.proof}
  BY <1>1
<1>8. TypeOK'
  BY <1>1, <1>5, <1>6, <1>7 DEF Inv, TypeOK, Rows, saml, clock, HandlersTyped, PcType, SeenType, ReqType
<1>9. HonouredOnce'
  BY <1>1 DEF Inv, HonouredOnce, saml, clock
(* A code is drawn by this request, kept, or used up; none becomes new.      *)
<1>10. \A c \in Recovery :
         /\ f'.codes[c] = "new" => f.codes[c] = "new" /\ (Draws(h) => c # o.code)
         /\ f.codes[c] = "new" => f'.codes[c] = "new" \/ (Draws(h) /\ c = o.code)
         /\ f.codes[c] \in {"used", "gone"} => f'.codes[c] \in {"used", "gone"}
  BY <1>1, <1>2, <1>3 DEF Column, CodesMove
<1>11. SpentStays'
  <2>1. o.proof \notin SamlIds
    BY <1>5, NamesAssumption
  <2>2. o.kind # "enrol" /\ o.proof.code # Nothing => f'.codes[o.proof.code] \in {"used", "gone"}
    BY <1>1, <1>5 DEF CodeUsed, Column
  <2>3. stored' = stored /\ asked' = asked /\ stored \subseteq SamlIds
    BY <1>1 DEF saml, Inv, TypeOK
  <2>4. \A p \in spent' : p \in Proofs /\ p.code # Nothing => f'.codes[p.code] \in {"used", "gone"}
    <3>1. \A p \in Proofs : p.code # Nothing => p.code \in Recovery
      BY ProofTypes
    <3>2. QED
      BY <1>1, <1>10, <2>2, <3>1 DEF Inv, SpentStays
  <2>5. QED
    BY <1>7, <2>1, <2>3, <2>4 DEF Inv, SpentStays
<1>12. \A k \in Handlers : Handling(k)'
  BY <1>1, <1>6, HandlingStays, HandlingIdle DEF Inv, Others, saml, clock
<1>13. Changing(h)'
  BY <1>6, NothingWasSpent DEF Changing, Draws
<1>14. ASSUME NEW k \in Handlers \ {h} PROVE Changing(k)'
  <2>1. Changing(k) /\ pc'[k] = pc[k] /\ req'[k] = req[k] /\ seen'[k] = seen[k]
    BY <1>6 DEF Inv, Others
  <2>2. \A j \in Handlers : Draws(j)' => Draws(j) /\ req'[j] = req[j] /\ j # h
    BY <1>6 DEF Draws, Others
  <2>3. Draws(k) => req[k].code \in Recovery
    BY <2>1, FactorOpsAssumption DEF Draws, Changing
  <2>4. Draws(k)' => f'.codes[req'[k].code] = "new"
    BY <1>4, <1>10, <2>1, <2>2, <2>3 DEF Changing
  <2>5. \A j \in Handlers \ {k} : Draws(k)' /\ Draws(j)' => req'[j].code # req'[k].code
    BY <2>1, <2>2 DEF Changing
  <2>6. \A c \in Recovery : f'.codes[c] = "new" => f.codes[c] = "new"
    BY <1>10
  <2>7. QED
    BY <1>7, <2>1, <2>4, <2>5, <2>6 DEF Changing
<1>15. QED
  BY <1>8, <1>9, <1>11, <1>12, <1>13, <1>14 DEF Inv

LEMMA InvNext == Inv /\ [Next]_vars => Inv'
<1> SUFFICES ASSUME Inv, [Next]_vars PROVE Inv'
  OBVIOUS
<1>1. CASE \E b \in Browsers, r \in SamlIds : Ask(b, r)
  BY <1>1, AskKeeps
<1>2. ASSUME NEW h \in Handlers,
             \/ \E b \in Browsers, a \in Assertions : Post(h, b, a)
             \/ \E o \in FactorOps : Begin(h, o)
             \/ Look(h) \/ Burn(h) \/ Validate(h) \/ Admit(h) \/ Grant(h)
             \/ Commit(h) \/ Abandon(h)
      PROVE  Inv'
  <2>1. CASE \E b \in Browsers, a \in Assertions : Post(h, b, a)
    BY <2>1, PostKeeps
  <2>2. CASE \E o \in FactorOps : Begin(h, o)
    BY <2>2, BeginKeeps
  <2>3. CASE Look(h)
    BY <2>3, LookKeeps
  <2>4. CASE Burn(h)
    BY <2>4, BurnKeeps
  <2>5. CASE Validate(h)
    BY <2>5, ValidateKeeps
  <2>6. CASE Admit(h)
    BY <2>6, AdmitKeeps
  <2>7. CASE Grant(h)
    BY <2>7, GrantKeeps
  <2>8. CASE Commit(h)
    BY <2>8, CommitKeeps
  <2>9. CASE Abandon(h)
    BY <2>9, StopKeeps DEF Abandon
  <2>10. QED
    BY <1>2, <2>1, <2>2, <2>3, <2>4, <2>5, <2>6, <2>7, <2>8, <2>9
<1>3. CASE ForDesktop \/ \E l \in Logins : Exchange(l)
  BY <1>3, ForDesktopKeeps, ExchangeKeeps
<1>4. CASE Restart
  BY <1>4, RestartKeeps
<1>5. CASE Tick
  BY <1>5, TickKeeps
<1>6. CASE \E c \in Dated : Expire(c)
  BY <1>6, ExpireKeeps
<1>7. CASE \E a \in Assertions : GrowStale(a)
  BY <1>7, GrowStaleKeeps
<1>8. CASE UNCHANGED vars
  <2>1. UNCHANGED <<f, saml, clock, codes, made, held, uses, spent, pc, req, seen, budget>>
    BY <1>8 DEF vars
  <2>2. TypeOK' /\ HonouredOnce' /\ SpentStays'
    BY <2>1 DEF Inv, TypeOK, HonouredOnce, SpentStays, saml, clock
  <2>3. (\A g \in Handlers : Handling(g))' /\ (\A g \in Handlers : Changing(g))'
    BY <2>1 DEF Inv, Handling, Changing, Draws, saml, clock
  <2>4. QED
    BY <2>2, <2>3 DEF Inv
<1>9. QED
  BY <1>1, <1>2, <1>3, <1>4, <1>5, <1>6, <1>7, <1>8 DEF Next

LEMMA Inductive == Spec => []Inv
BY Established, InvNext, PTL DEF Spec

(* Rows, sets and requests keep their types; a row has a secret, a code that *)
(* can be exchanged was minted, and a cookie's request was made.             *)
THEOREM OneTimeTypes == Spec => []TypeOK
<1>1. Inv => TypeOK
  BY DEF Inv
<1>2. QED
  BY <1>1, Inductive, PTL
------------------------------------------------------------------------------
(* Only a commit changes the MFA rows.                                       *)
LEMMA RowsChange ==
  ASSUME [Next]_vars, f' # f
  PROVE  \E h \in Handlers : Commit(h)
<1>1. CASE UNCHANGED vars
  BY <1>1 DEF vars
<1>2. CASE Next
  BY <1>2 DEF Next, Ask, Post, Begin, Look, Burn, Validate, Admit, Grant, Abandon, ForDesktop,
              Exchange, Restart, Tick, Expire, GrowStale
<1>3. QED
  BY <1>1, <1>2

(* An MFA proof that is good on the rows as they are was never honoured.     *)
LEMMA ProofIsNew ==
  ASSUME Inv, NEW h \in Handlers, pc[h] = "open", Current(h), req[h].kind # "enrol"
  PROVE  req[h].proof \notin spent
<1> DEFINE p == req[h].proof
<1>1. p \in Proofs /\ Granted(f, req[h])
  BY FactorOpsAssumption DEF Inv, Changing, Current, FactorOp
<1>2. CASE p.code = Nothing
  <2>1. p.secret = f.secret /\ p.step > f.last
    BY <1>1, <1>2 DEF Granted
  <2>2. p.step \in Int /\ f.last \in Int
    BY <1>1, <1>2, ProofTypes, MaxStepAssumption, FactorTypes DEF Steps, Inv, TypeOK
  <2>3. p \notin SamlIds
    BY <1>1, NamesAssumption
  <2>4. ~(p.step <= f.last)
    BY <2>1, <2>2
  <2>5. QED
    BY <2>1, <2>3, <2>4 DEF Current
<1>3. CASE p.code # Nothing
  BY <1>1, <1>3 DEF Granted, Inv, SpentStays
<1>4. QED
  BY <1>2, <1>3

(* A SAML request, a TOTP code or a recovery code that was honoured before a *)
(* request opened its session is not honoured again by that request          *)
(* (_consume_request; mfa/service.py, "no replay").                          *)
THEOREM ReplaysNeedOverlap == Spec => ReplaysOverlap
<1> DEFINE Body ==
      \A h \in Handlers :
        /\ pc[h] = "burn" /\ pc'[h] = "validate" => req[h].id \notin seen[h].spent
        /\ pc[h] = "open" /\ f' # f /\ Current(h) /\ req[h].kind # "enrol"
             => \A p \in spent' \ {q \in spent : q # req[h].proof} : p \notin seen[h].spent
<1>1. ASSUME Inv PROVE Body
  <2> SUFFICES ASSUME NEW h \in Handlers
               PROVE  /\ pc[h] = "burn" => req[h].id \notin seen[h].spent
                      /\ pc[h] = "open" /\ Current(h) /\ req[h].kind # "enrol"
                           => \A p \in spent' \ {q \in spent : q # req[h].proof} : p \notin seen[h].spent
    OBVIOUS
  <2>1. seen[h].spent \subseteq spent
    BY <1>1 DEF Inv, Changing
  <2>2. pc[h] = "burn" => req[h].id \notin seen[h].spent
    BY <1>1 DEF Inv, Handling
  <2>3. QED
    BY <1>1, <2>1, <2>2, ProofIsNew
<1>2. Inv /\ [Next]_vars => [Body]_vars
  BY <1>1
<1>3. QED
  BY <1>2, Inductive, PTL DEF Spec, ReplaysOverlap

(* What a commit on the rows it read does to a sound enrolment.              *)
LEMMA SoundCommit ==
  ASSUME Inv, NEW h \in Handlers, Commit(h), seen[h].f = f, Sound(f, spent)
  PROVE  /\ Sound(f', spent')
         /\ f.confirmed /\ f'.confirmed => f'.secret = f.secret
<1> DEFINE o == req[h]
           n == FactorResult(f, o)
<1>1. /\ o \in FactorOps /\ f \in Factor /\ n \in Factor /\ Rows(f) /\ Granted(f, o)
      /\ SecretMoves(f, n) /\ f' = FactorMerged(f, f, n)
      /\ spent' = IF o.kind = "enrol" THEN spent ELSE spent \cup {o.proof}
  BY CommitDoes
<1>2. /\ f'.secret = n.secret /\ f'.verified = n.verified
      /\ f'.confirmed = IF f.row # Nothing /\ n.row = Nothing THEN FALSE ELSE n.confirmed
  BY <1>1, MergedCurrent
<1>3. f.confirmed \in BOOLEAN /\ o.proof \in Proofs
  BY <1>1, FactorTypes, FactorOpsAssumption DEF FactorOp
<1>a. n = FactorResult(f, o)
  OBVIOUS
<1> HIDE DEF n, o
<1>4. CASE o.kind = "enrol"
  <2>1. n = Enrol(f, o) /\ ~f.confirmed
    BY <1>1, <1>4, <1>a, FactorResultOf DEF Granted
  <2>2. n.confirmed = f.confirmed /\ n.verified = f.verified
    BY <1>1, <1>4, <2>1, EnrolDoes
  <2>3. f'.confirmed = FALSE /\ f'.verified = {}
    BY <1>2, <1>3, <2>1, <2>2 DEF Sound
  <2>4. QED
    BY <2>1, <2>3 DEF Sound
<1>5. CASE o.kind = "verify"
  <2>1. n = Verify(f, o)
    BY <1>1, <1>5, <1>a, FactorResultOf
  <2>2. n.row = f.row /\ n.secret = f.secret /\ n.confirmed = TRUE
    BY <1>1, <2>1, VerifyDoes
  <2>3. f'.confirmed = TRUE /\ f'.secret = f.secret
    BY <1>2, <2>2
  <2>4. Proven(f', spent')
    <3>1. CASE o.proof.code = Nothing
      BY <1>1, <1>3, <1>5, <2>3, <3>1 DEF Granted, Proven
    <3>2. CASE o.proof.code # Nothing
      <4>1. Proven(f, spent)
        BY <1>1, <1>5, <3>2 DEF Granted, Sound
      <4>2. QED
        BY <1>1, <2>3, <4>1 DEF Proven
    <3>3. QED
      BY <3>1, <3>2
  <2>5. QED
    BY <2>3, <2>4 DEF Sound
<1>6. CASE o.kind = "regenerate"
  <2>1. n = Regenerate(f, o) /\ f.confirmed
    BY <1>1, <1>6, <1>a, FactorResultOf DEF Granted
  <2>2. n.row = f.row /\ n.secret = f.secret /\ n.confirmed = f.confirmed
    BY <1>1, <2>1, RegenerateDoes
  <2>3. f'.confirmed /\ f'.secret = f.secret
    BY <1>2, <2>1, <2>2
  <2>4. Proven(f', spent')
    BY <1>1, <2>1, <2>3 DEF Sound, Proven
  <2>5. QED
    BY <2>3, <2>4 DEF Sound
<1>7. CASE o.kind = "disable"
  <2>1. n = Disable(f, o)
    BY <1>1, <1>7, <1>a, FactorResultOf
  <2>2. n.verified = {} /\ n.confirmed = FALSE
    BY <1>1, <2>1, DisableDoes
  <2>3. QED
    BY <1>2, <2>2 DEF Sound
<1>8. QED
  BY <1>1, <1>4, <1>5, <1>6, <1>7, FactorResultOf

(* A confirmed enrolment is one whose authenticator gave a code, its secret  *)
(* never changes (mfa/service.py), and a session counts as verified only     *)
(* while there is a confirmed enrolment: unless the rows changed under the   *)
(* request that commits.                                                     *)
THEOREM EnrolmentStands == Spec => FactorStands
<1> DEFINE Body ==
      \A h \in Handlers :
        pc[h] = "open" /\ f' # f /\ pc'[h] = "idle" /\ seen[h].f = f /\ Sound(f, spent)
          => /\ Sound(f', spent')
             /\ f.confirmed /\ f'.confirmed => f'.secret = f.secret
<1>1. ASSUME Inv, [Next]_vars PROVE Body
  <2> SUFFICES ASSUME NEW h \in Handlers, pc[h] = "open", f' # f, pc'[h] = "idle",
                      seen[h].f = f, Sound(f, spent)
               PROVE  /\ Sound(f', spent')
                      /\ f.confirmed /\ f'.confirmed => f'.secret = f.secret
    OBVIOUS
  <2>1. PICK g \in Handlers : Commit(g)
    BY <1>1, RowsChange
  <2>2. Others(g)
    BY <1>1, <2>1, ResetDoes DEF Commit, Done, Inv
  <2>3. g = h
    BY <2>2 DEF Others
  <2>4. QED
    BY <1>1, <2>1, <2>3, SoundCommit
<1>2. Inv /\ [Next]_vars => [Body]_vars
  BY <1>1
<1>3. QED
  BY <1>2, Inductive, PTL DEF Spec, FactorStands
------------------------------------------------------------------------------
(* OneTime implements SingleUse.                                             *)
Life == [c \in Counted |-> LifeOf(c)]

(* The life of a credential, spelt out.                                      *)
InTime(a) == a \notin over \/ Validating(a)
Waiting(l) == l \in codes \ over

Lives == /\ \A c \in Counted : /\ uses[c] = 1 => LifeOf(c) = "spent"
                               /\ uses[c] \in {0, 1}
         /\ \A a \in Assertions : uses[a] = 0 =>
              /\ InTime(a) => LifeOf(a) = "good"
              /\ ~InTime(a) => LifeOf(a) = "dead"
         /\ \A l \in Logins : uses[l] = 0 =>
              /\ l \notin made => LifeOf(l) = "unissued"
              /\ l \in made /\ Waiting(l) => LifeOf(l) = "good"
              /\ l \in made /\ ~Waiting(l) => LifeOf(l) = "dead"

LEMMA LivesHold == Inv => Lives
<1> SUFFICES ASSUME Inv PROVE Lives
  OBVIOUS
<1>1. \A c \in Counted : uses[c] \in {0, 1}
  BY DEF Inv, HonouredOnce
<1>2. \A c \in Counted : uses[c] = 1 => LifeOf(c) = "spent"
  BY DEF LifeOf
<1>3. ASSUME NEW a \in Assertions, uses[a] = 0
      PROVE  /\ InTime(a) => LifeOf(a) = "good"
             /\ ~InTime(a) => LifeOf(a) = "dead"
  <2>1. ~(uses[a] > 1) /\ ~(uses[a] = 1) /\ a \notin Logins
    BY <1>3, NamesAssumption
  <2>2. CASE InTime(a)
    <3>1. ~(a \in over /\ ~Validating(a))
      BY <2>2 DEF InTime
    <3>2. QED
      BY <1>3, <2>1, <2>2, <3>1, Zenon DEF LifeOf
  <2>3. CASE ~InTime(a)
    <3>1. a \in over /\ ~Validating(a)
      BY <2>3 DEF InTime
    <3>2. QED
      BY <1>3, <2>1, <2>3, <3>1, Zenon DEF LifeOf
  <2>4. QED
    BY <2>2, <2>3
<1>4. ASSUME NEW l \in Logins, uses[l] = 0
      PROVE  /\ l \notin made => LifeOf(l) = "unissued"
             /\ l \in made /\ Waiting(l) => LifeOf(l) = "good"
             /\ l \in made /\ ~Waiting(l) => LifeOf(l) = "dead"
  <2>1. l \notin Assertions
    BY NamesAssumption
  <2>2. l \notin made => LifeOf(l) = "unissued"
    BY <1>4, <2>1 DEF LifeOf
  <2>3. l \in made => LifeOf(l) = IF l \in codes \ over THEN "good" ELSE "dead"
    BY <1>4, <2>1 DEF LifeOf
  <2>4. QED
    BY <2>2, <2>3 DEF Waiting
<1>5. QED
  BY <1>1, <1>2, <1>3, <1>4 DEF Lives

LEMMA LifeStarts == Init => Abstract!Init
<1> SUFFICES ASSUME Init PROVE Abstract!Init
  OBVIOUS
<1>1. Lives /\ \A c \in Counted : uses[c] = 0
  BY Established, LivesHold DEF Init
<1>2. \A c \in Counted : LifeOf(c) \in {"unissued", "good", "dead"}
  BY <1>1 DEF Lives, Counted
<1>3. QED
  BY <1>2 DEF Abstract!Init

(* A step of one credential.                                                 *)
LEMMA LifeIssues ==
  ASSUME NEW l \in Counted, LifeOf(l) = "unissued", LifeOf(l)' = "good",
         \A c \in Counted \ {l} : LifeOf(c)' = LifeOf(c)
  PROVE  [Abstract!Next]_Life
<1>1. Life[l] = "unissued" /\ Life' = [Life EXCEPT ![l] = "good"]
  BY DEF Life
<1>2. Abstract!Issue(l)
  BY <1>1 DEF Abstract!Issue, Life
<1>3. QED
  BY <1>2 DEF Abstract!Next

LEMMA LifeRedeems ==
  ASSUME NEW l \in Counted, LifeOf(l) = "good", LifeOf(l)' = "spent",
         \A c \in Counted \ {l} : LifeOf(c)' = LifeOf(c)
  PROVE  [Abstract!Next]_Life
<1>1. Life[l] = "good" /\ Life' = [Life EXCEPT ![l] = "spent"]
  BY DEF Life
<1>2. Abstract!Redeem(l)
  BY <1>1 DEF Abstract!Redeem, Life
<1>3. QED
  BY <1>2 DEF Abstract!Next

LEMMA LifeLapses ==
  ASSUME \A c \in Counted : LifeOf(c)' = LifeOf(c) \/ (LifeOf(c) = "good" /\ LifeOf(c)' = "dead")
  PROVE  [Abstract!Next]_Life
<1> DEFINE C == {c \in Counted : LifeOf(c)' # LifeOf(c)}
<1>1. \A c \in C : Life[c] \in {"unissued", "good"}
  BY DEF Life
<1>2. Life' = [c \in Counted |-> IF c \in C THEN "dead" ELSE Life[c]]
  BY DEF Life
<1>3. C \in SUBSET Counted
  OBVIOUS
<1> HIDE DEF C
<1>4. Abstract!Lapse(C)
  BY <1>1, <1>2 DEF Abstract!Lapse, Life
<1>5. QED
  BY <1>3, <1>4 DEF Abstract!Next

(* A step that honours and issues nothing: credentials run out at most.  A   *)
(* handler comes to the insert only with an assertion that is in time.       *)
LEMMA NothingHonoured ==
  ASSUME Inv, Inv', UNCHANGED <<uses, made>>, codes' \subseteq codes, over \subseteq over',
         \A h \in Handlers : pc'[h] = "admit" =>
            \/ pc[h] = "admit" /\ req'[h] = req[h]
            \/ req'[h].assertion \notin over'
  PROVE  [Abstract!Next]_Life
<1>1. Lives /\ Lives'
  BY LivesHold, PTL
<1>2. \A a \in Assertions : InTime(a)' => InTime(a)
  BY DEF InTime, Validating
<1>3. \A l \in Logins : Waiting(l)' => Waiting(l)
  BY DEF Waiting
<1>4. ASSUME NEW c \in Counted
      PROVE  LifeOf(c)' = LifeOf(c) \/ (LifeOf(c) = "good" /\ LifeOf(c)' = "dead")
  <2>1. uses'[c] = uses[c] /\ made' = made
    OBVIOUS
  <2>2. CASE uses[c] = 1
    BY <1>1, <2>1, <2>2 DEF Lives
  <2>3. CASE uses[c] = 0 /\ c \in Assertions
    BY <1>1, <1>2, <2>1, <2>3 DEF Lives
  <2>4. CASE uses[c] = 0 /\ c \in Logins
    BY <1>1, <1>3, <2>1, <2>4 DEF Lives
  <2>5. QED
    BY <1>1, <2>2, <2>3, <2>4 DEF Lives, Counted
<1>5. QED
  BY <1>4, LifeLapses

(* A credential that a step does not concern.                                *)
Undisturbed(c) == /\ uses'[c] = uses[c]
                  /\ c \in Assertions => (InTime(c)' <=> InTime(c))
                  /\ c \in Logins => /\ c \in made' <=> c \in made
                                     /\ Waiting(c)' <=> Waiting(c)

LEMMA LifeStays ==
  ASSUME Lives, Lives', NEW c \in Counted, Undisturbed(c)
  PROVE  LifeOf(c)' = LifeOf(c)
<1>1. uses'[c] = uses[c] /\ uses[c] \in {0, 1}
  BY DEF Lives, Undisturbed
<1>2. CASE uses[c] = 1
  BY <1>1, <1>2 DEF Lives
<1>3. CASE uses[c] = 0 /\ c \in Assertions
  BY <1>1, <1>3 DEF Lives, Undisturbed
<1>4. CASE uses[c] = 0 /\ c \in Logins
  BY <1>1, <1>4 DEF Lives, Undisturbed
<1>5. QED
  BY <1>1, <1>2, <1>3, <1>4 DEF Counted

(* The same handlers are about to insert the same assertions.                *)
SameInserts == \A h \in Handlers : /\ pc'[h] = "admit" <=> pc[h] = "admit"
                                   /\ pc[h] = "admit" => req'[h] = req[h]

(* A login is minted and its code stored.                                    *)
LEMMA NewCodeIssues ==
  ASSUME Inv, Inv', NEW l \in Logins, l \notin made, made' = made \cup {l},
         codes' = (codes \ over) \cup {l}, UNCHANGED <<uses, over>>, SameInserts
  PROVE  [Abstract!Next]_Life
<1>1. Lives /\ Lives'
  BY LivesHold, PTL
<1>2. l \in Counted /\ uses[l] = 0 /\ uses'[l] = 0 /\ Waiting(l)'
  BY DEF Counted, Inv, HonouredOnce, Waiting
<1>3. LifeOf(l) = "unissued" /\ LifeOf(l)' = "good"
  BY <1>1, <1>2 DEF Lives
<1>4. ASSUME NEW a \in Assertions PROVE InTime(a)' <=> InTime(a)
  <2>1. Validating(a)' => Validating(a)
    BY DEF Validating, SameInserts
  <2>2. Validating(a) => Validating(a)'
    BY DEF Validating, SameInserts
  <2>3. QED
    BY <2>1, <2>2 DEF InTime
<1>5. \A c \in Counted \ {l} : Undisturbed(c)
  BY <1>4 DEF Undisturbed, Waiting
<1>6. QED
  BY <1>1, <1>2, <1>3, <1>5, LifeStays, LifeIssues

LEMMA AdmitRedeems ==
  ASSUME Inv, Inv', NEW h \in Handlers, Admit(h)
  PROVE  [Abstract!Next]_Life
<1>1. PICK a \in Assertions : a = req[h].assertion
  BY AdmitDoes
<1>2. /\ pc[h] = "admit"
      /\ \/ Done(h) /\ UNCHANGED uses
         \/ /\ uses[a] = 0 /\ Go(h, "grant") /\ uses' = [uses EXCEPT ![a] = 1]
  BY <1>1, AdmitDoes
<1>3. UNCHANGED <<codes, made, over>>
  BY DEF Admit, clock
<1>4. CASE Done(h) /\ UNCHANGED uses
  <2>1. Others(h) /\ pc'[h] = "idle"
    BY <1>4, ResetDoes DEF Inv, Done
  <2>2. QED
    BY <1>3, <1>4, <2>1, NothingHonoured DEF Others
<1>5. CASE uses[a] = 0 /\ Go(h, "grant") /\ uses' = [uses EXCEPT ![a] = 1]
  <2>1. Lives /\ Lives'
    BY LivesHold, PTL
  <2>2. Others(h) /\ pc'[h] = "grant" /\ req' = req
    <3>1. "grant" \in PcType
      BY DEF PcType
    <3>2. QED
      BY <1>5, <3>1, GoDoes DEF Inv
  <2>3. uses \in [Counted -> 0 .. 2] /\ a \in Counted /\ a \notin Logins
    BY <1>2, NamesAssumption DEF Inv, TypeOK, Counted
  <2>4. uses'[a] = 1 /\ \A c \in Counted \ {a} : uses'[c] = uses[c]
    BY <1>5, <2>3
  <2>5. InTime(a)
    BY <1>2, <1>1 DEF InTime, Validating
  <2>6. LifeOf(a) = "good" /\ LifeOf(a)' = "spent"
    BY <1>2, <1>5, <2>1, <2>3, <2>4, <2>5 DEF Lives
  <2>7. ASSUME NEW c \in Counted \ {a} PROVE Undisturbed(c)
    <3>1. Validating(c)' <=> Validating(c)
      BY <1>1, <2>2 DEF Validating, Others
    <3>2. InTime(c)' <=> InTime(c)
      BY <1>3, <3>1 DEF InTime
    <3>3. QED
      BY <1>3, <2>4, <3>2 DEF Undisturbed, Waiting
  <2>8. \A c \in Counted \ {a} : LifeOf(c)' = LifeOf(c)
    BY <2>1, <2>7, LifeStays
  <2>9. QED
    BY <2>3, <2>6, <2>8, LifeRedeems
<1>6. QED
  BY <1>2, <1>4, <1>5

LEMMA ExchangeRedeems ==
  ASSUME Inv, Inv', NEW l \in Logins, Exchange(l)
  PROVE  [Abstract!Next]_Life
<1>1. /\ l \in codes /\ codes' = codes \ (over \cup {l})
      /\ UNCHANGED <<made, over, pc, req>>
      /\ \/ l \in over /\ UNCHANGED uses
         \/ l \notin over /\ uses' = [uses EXCEPT ![l] = @ + 1]
  BY DEF Exchange, Popped, Honour, clock
<1>2. CASE UNCHANGED uses
  BY <1>1, <1>2, NothingHonoured
<1>3. CASE l \notin over /\ uses' = [uses EXCEPT ![l] = @ + 1]
  <2>1. Lives /\ Lives'
    BY LivesHold, PTL
  <2>2. uses[l] = 0 /\ l \in made /\ l \in Counted /\ uses \in [Counted -> 0 .. 2] /\ Waiting(l)
    BY <1>1, <1>3 DEF Inv, HonouredOnce, TypeOK, Counted, Waiting
  <2>3. uses'[l] = 1 /\ \A c \in Counted \ {l} : uses'[c] = uses[c]
    BY <1>3, <2>2
  <2>4. LifeOf(l) = "good" /\ LifeOf(l)' = "spent"
    BY <2>1, <2>2, <2>3 DEF Lives
  <2>5. ASSUME NEW c \in Counted \ {l} PROVE Undisturbed(c)
    <3>1. InTime(c)' <=> InTime(c)
      BY <1>1 DEF InTime, Validating
    <3>2. Waiting(c)' <=> Waiting(c)
      BY <1>1 DEF Waiting
    <3>3. QED
      BY <1>1, <2>3, <3>1, <3>2 DEF Undisturbed
  <2>6. \A c \in Counted \ {l} : LifeOf(c)' = LifeOf(c)
    BY <2>1, <2>5, LifeStays
  <2>7. QED
    BY <2>2, <2>4, <2>6, LifeRedeems
<1>4. QED
  BY <1>1, <1>2, <1>3

LEMMA GrantIssues ==
  ASSUME Inv, Inv', NEW h \in Handlers, Grant(h)
  PROVE  [Abstract!Next]_Life
<1>1. PICK l \in Logins : /\ l \notin made /\ made' = made \cup {l}
                          /\ codes' = (codes \ over) \cup {l}
  BY DEF Grant
<1>2. pc[h] = "grant" /\ Done(h)
  BY DEF Grant
<1>3. Others(h) /\ pc'[h] = "idle"
  BY <1>2, ResetDoes DEF Inv, Done
<1>4. UNCHANGED <<uses, over>>
  BY DEF Grant, clock
<1>5. SameInserts
  BY <1>2, <1>3 DEF Others, SameInserts
<1>6. QED
  BY <1>1, <1>4, <1>5, NewCodeIssues

LEMMA ForDesktopIssues ==
  ASSUME Inv, Inv', ForDesktop
  PROVE  [Abstract!Next]_Life
<1>1. PICK l \in Logins : /\ l \notin made /\ made' = made \cup {l}
                          /\ codes' = (codes \ over) \cup {l}
  BY DEF ForDesktop
<1>2. UNCHANGED <<uses, over>> /\ SameInserts
  BY DEF ForDesktop, clock, SameInserts
<1>3. QED
  BY <1>1, <1>2, NewCodeIssues

(* The steps of a request that honour and issue nothing.                     *)
LEMMA HandlerLapses ==
  ASSUME Inv, Inv', NEW h \in Handlers,
         \/ \E b \in Browsers, a \in Assertions : Post(h, b, a)
         \/ \E o \in FactorOps : Begin(h, o)
         \/ Look(h) \/ Burn(h) \/ Validate(h) \/ Commit(h) \/ Abandon(h)
  PROVE  [Abstract!Next]_Life
<1>1. UNCHANGED <<uses, made, codes, over>>
  BY DEF Post, Begin, Look, Burn, Validate, Commit, Abandon, clock
<1>2. \A g \in Handlers \ {h} : pc'[g] = pc[g] /\ req'[g] = req[g]
  <2>1. HandlersTyped
    BY TypedHandlers DEF Inv
  <2>2. QED
    BY <2>1 DEF HandlersTyped, Post, Begin, Look, Burn, Validate, Commit, Abandon, Done, Reset, Go
<1>3. pc'[h] = "admit" => req'[h].assertion \notin over
  <2>1. HandlersTyped
    BY TypedHandlers DEF Inv
  <2>2. QED
    BY <2>1 DEF HandlersTyped, Post, Begin, Look, Burn, Validate, Commit, Abandon, Done, Reset, Go
<1>4. QED
  BY <1>1, <1>2, <1>3, NothingHonoured

LEMMA LifeNext == Inv /\ Inv' /\ [Next]_vars => [Abstract!Next]_Life
<1> SUFFICES ASSUME Inv, Inv', [Next]_vars PROVE [Abstract!Next]_Life
  OBVIOUS
<1>1. CASE \E b \in Browsers, r \in SamlIds : Ask(b, r)
  <2>1. UNCHANGED <<uses, made, codes, over, pc, req>>
    BY <1>1 DEF Ask, clock
  <2>2. QED
    BY <2>1, NothingHonoured
<1>2. ASSUME NEW h \in Handlers,
             \/ \E b \in Browsers, a \in Assertions : Post(h, b, a)
             \/ \E o \in FactorOps : Begin(h, o)
             \/ Look(h) \/ Burn(h) \/ Validate(h) \/ Admit(h) \/ Grant(h)
             \/ Commit(h) \/ Abandon(h)
      PROVE  [Abstract!Next]_Life
  BY <1>2, HandlerLapses, AdmitRedeems, GrantIssues
<1>3. CASE ForDesktop \/ \E l \in Logins : Exchange(l)
  BY <1>3, ForDesktopIssues, ExchangeRedeems
<1>4. CASE Restart
  <2>1. UNCHANGED <<uses, made, over>> /\ codes' = {} /\ \A h \in Handlers : pc'[h] = "idle"
    BY <1>4 DEF Restart, clock
  <2>2. QED
    BY <2>1, NothingHonoured
<1>5. CASE Tick \/ (\E c \in Dated : Expire(c)) \/ (\E a \in Assertions : GrowStale(a))
  <2>1. UNCHANGED <<uses, made, codes, pc, req>> /\ over \subseteq over'
    BY <1>5 DEF Tick, Expire, GrowStale
  <2>2. QED
    BY <2>1, NothingHonoured
<1>6. CASE UNCHANGED vars
  <2>1. UNCHANGED <<uses, made, codes, over, pc, req>>
    BY <1>6 DEF vars, clock
  <2>2. QED
    BY <2>1, NothingHonoured
<1>7. QED
  BY <1>1, <1>2, <1>3, <1>4, <1>5, <1>6 DEF Next

(* Whatever overlaps, restarts or is posted again, an assertion and a        *)
(* hand-off code are honoured at most once and never after their time.       *)
THEOREM HonouredAtMostOnce == Spec => OneUse
<1>1. Inv /\ Inv' /\ [Next]_vars => [Abstract!Next]_[c \in Counted |-> LifeOf(c)]
  BY LifeNext DEF Life
<1>2. QED
  BY <1>1, LifeStarts, Inductive, PTL DEF Spec, OneUse, Abstract!Spec
==============================================================================
