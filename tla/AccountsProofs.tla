--------------------------- MODULE AccountsProofs ---------------------------
(***************************************************************************)
(* Theorems about Accounts, for any number of handlers, sign-in users, mail*)
(* tokens and requests.                                                    *)
(***************************************************************************)
EXTENDS Accounts, TLAPS

(* Which step of which request the n-th is.                                  *)
Place(k, n, s) ==
  \/ /\ k = "register"
     /\ \/ n = 1 /\ s = "look"
        \/ n = 2 /\ s = "signup"
        \/ n = 3 /\ s = "upsert"
        \/ n = 4 /\ s = "link"
        \/ n = 5 /\ s = "clear"
        \/ n = 6 /\ s = "send"
  \/ /\ k = "login"
     /\ \/ n = 1 /\ s = "signin"
        \/ n = 2 /\ s = "decide"
  \/ /\ k = "claimnew"
     /\ \/ n = 1 /\ s = "upsert"
        \/ n = 2 /\ s = "link"
        \/ n = 3 /\ s = "clear"
        \/ n = 4 /\ s = "send"
  \/ /\ k = "claim"
     /\ \/ n = 1 /\ s = "link"
        \/ n = 2 /\ s = "clear"
        \/ n = 3 /\ s = "send"
  \/ /\ k = "enter"
     /\ \/ n = 1 /\ s = "label"
        \/ n = 2 /\ s = "link"
        \/ n = 3 /\ s = "session"
  \/ /\ k = "verify"
     /\ \/ n = 1 /\ s = "open"
        \/ n = 2 /\ s = "consume"
        \/ n = 3 /\ s = "prove"
  \/ /\ k = "forgot"
     /\ \/ n = 1 /\ s = "find"
        \/ n = 2 /\ s = "send"
  \/ /\ k = "reset"
     /\ \/ n = 1 /\ s = "open"
        \/ n = 2 /\ s = "consume"
        \/ n = 3 /\ s = "find"
        \/ n = 4 /\ s = "password"
        \/ n = 5 /\ s = "prove"
  \/ /\ k = "google"
     /\ \/ n = 1 /\ s = "upsert"
        \/ n = 2 /\ s = "create"
        \/ n = 3 /\ s = "link"
        \/ n = 4 /\ s = "session"
  \/ /\ k = "github"
     /\ \/ n = 1 /\ s = "acquire"
        \/ n = 2 /\ s = "exchange"
        \/ n = 3 /\ s = "create"
        \/ n = 4 /\ s = "upsert"
        \/ n = 5 /\ s = "link"
        \/ n = 6 /\ s = "session"
  \/ /\ k = "delete"
     /\ \/ n = 1 /\ s = "find"
        \/ n = 2 /\ s = "revoke"
        \/ n = 3 /\ s = "uncreate"
        \/ n = 4 /\ s = "erase"

LEMMA Places ==
  ASSUME NEW k \in Serving, NEW n \in 1 .. Len(Path[k])
  PROVE  Place(k, n, Path[k][n])
<1>1. CASE k = "register"
  <2>1. Len(Path["register"]) = 6
    BY DEF Path, RegisterSteps
  <2>2. n \in {1, 2, 3, 4, 5, 6}
    BY <1>1, <2>1
  <2>3. QED
    BY <1>1, <2>2 DEF Place, Path, RegisterSteps
<1>2. CASE k = "login"
  <2>1. Len(Path["login"]) = 2
    BY DEF Path, LoginSteps
  <2>2. n \in {1, 2}
    BY <1>2, <2>1
  <2>3. QED
    BY <1>2, <2>2 DEF Place, Path, LoginSteps
<1>3. CASE k = "claimnew"
  <2>1. Len(Path["claimnew"]) = 4
    BY DEF Path, ClaimNewSteps
  <2>2. n \in {1, 2, 3, 4}
    BY <1>3, <2>1
  <2>3. QED
    BY <1>3, <2>2 DEF Place, Path, ClaimNewSteps
<1>4. CASE k = "claim"
  <2>1. Len(Path["claim"]) = 3
    BY DEF Path, ClaimSteps
  <2>2. n \in {1, 2, 3}
    BY <1>4, <2>1
  <2>3. QED
    BY <1>4, <2>2 DEF Place, Path, ClaimSteps
<1>5. CASE k = "enter"
  <2>1. Len(Path["enter"]) = 3
    BY DEF Path, EnterSteps
  <2>2. n \in {1, 2, 3}
    BY <1>5, <2>1
  <2>3. QED
    BY <1>5, <2>2 DEF Place, Path, EnterSteps
<1>6. CASE k = "verify"
  <2>1. Len(Path["verify"]) = 3
    BY DEF Path, VerifySteps
  <2>2. n \in {1, 2, 3}
    BY <1>6, <2>1
  <2>3. QED
    BY <1>6, <2>2 DEF Place, Path, VerifySteps
<1>7. CASE k = "forgot"
  <2>1. Len(Path["forgot"]) = 2
    BY DEF Path, ForgotSteps
  <2>2. n \in {1, 2}
    BY <1>7, <2>1
  <2>3. QED
    BY <1>7, <2>2 DEF Place, Path, ForgotSteps
<1>8. CASE k = "reset"
  <2>1. Len(Path["reset"]) = 5
    BY DEF Path, ResetSteps
  <2>2. n \in {1, 2, 3, 4, 5}
    BY <1>8, <2>1
  <2>3. QED
    BY <1>8, <2>2 DEF Place, Path, ResetSteps
<1>9. CASE k = "google"
  <2>1. Len(Path["google"]) = 4
    BY DEF Path, GoogleSteps
  <2>2. n \in {1, 2, 3, 4}
    BY <1>9, <2>1
  <2>3. QED
    BY <1>9, <2>2 DEF Place, Path, GoogleSteps
<1>10. CASE k = "github"
  <2>1. Len(Path["github"]) = 6
    BY DEF Path, OauthSteps
  <2>2. n \in {1, 2, 3, 4, 5, 6}
    BY <1>10, <2>1
  <2>3. QED
    BY <1>10, <2>2 DEF Place, Path, OauthSteps
<1>11. CASE k = "delete"
  <2>1. Len(Path["delete"]) = 4
    BY DEF Path, DeleteSteps
  <2>2. n \in {1, 2, 3, 4}
    BY <1>11, <2>1
  <2>3. QED
    BY <1>11, <2>2 DEF Place, Path, DeleteSteps
<1>12. QED
  BY <1>1, <1>2, <1>3, <1>4, <1>5, <1>6, <1>7, <1>8, <1>9, <1>10, <1>11 DEF Serving, Kinds

LEMMA Lengths ==
  /\ Len(Path["register"]) = 6 /\ Len(Path["login"]) = 2 /\ Len(Path["claimnew"]) = 4
  /\ Len(Path["claim"]) = 3 /\ Len(Path["enter"]) = 3 /\ Len(Path["verify"]) = 3
  /\ Len(Path["forgot"]) = 2 /\ Len(Path["reset"]) = 5 /\ Len(Path["google"]) = 4
  /\ Len(Path["github"]) = 6 /\ Len(Path["delete"]) = 4
BY DEF Path, RegisterSteps, LoginSteps, ClaimNewSteps, ClaimSteps, EnterSteps, VerifySteps,
       ForgotSteps, ResetSteps, GoogleSteps, OauthSteps, DeleteSteps

(* The steps that are not a request's last.                                 *)
LEMMA NotLast ==
  ASSUME NEW k, NEW n,
         \/ k = "register" /\ n \in {1, 2, 3, 4, 5}
         \/ k = "login" /\ n \in {1}
         \/ k = "claimnew" /\ n \in {1, 2, 3}
         \/ k = "claim" /\ n \in {1, 2}
         \/ k = "enter" /\ n \in {1, 2}
         \/ k = "verify" /\ n \in {1, 2}
         \/ k = "forgot" /\ n \in {1}
         \/ k = "reset" /\ n \in {1, 2, 3, 4}
         \/ k = "google" /\ n \in {1, 2, 3}
         \/ k = "github" /\ n \in {1, 2, 3, 4, 5}
         \/ k = "delete" /\ n \in {1, 2, 3}
  PROVE  n # Len(Path[k])
<1>1. CASE k = "register" /\ n \in {1, 2, 3, 4, 5}
  BY <1>1, Lengths
<1>2. CASE k = "login" /\ n \in {1}
  BY <1>2, Lengths
<1>3. CASE k = "claimnew" /\ n \in {1, 2, 3}
  BY <1>3, Lengths
<1>4. CASE k = "claim" /\ n \in {1, 2}
  BY <1>4, Lengths
<1>5. CASE k = "enter" /\ n \in {1, 2}
  BY <1>5, Lengths
<1>6. CASE k = "verify" /\ n \in {1, 2}
  BY <1>6, Lengths
<1>7. CASE k = "forgot" /\ n \in {1}
  BY <1>7, Lengths
<1>8. CASE k = "reset" /\ n \in {1, 2, 3, 4}
  BY <1>8, Lengths
<1>9. CASE k = "google" /\ n \in {1, 2, 3}
  BY <1>9, Lengths
<1>10. CASE k = "github" /\ n \in {1, 2, 3, 4, 5}
  BY <1>10, Lengths
<1>11. CASE k = "delete" /\ n \in {1, 2, 3}
  BY <1>11, Lengths
<1>12. QED
  BY <1>1, <1>2, <1>3, <1>4, <1>5, <1>6, <1>7, <1>8, <1>9, <1>10, <1>11

LEMMA LengthsAreNat == ASSUME NEW k \in Serving PROVE Len(Path[k]) \in Nat /\ Len(Path[k]) >= 1
<1> DEFINE m == Len(Path[k])
<1>1. m \in {2, 3, 4, 5, 6}
  BY Lengths DEF Serving, Kinds
<1> HIDE DEF m
<1>2. m \in Nat /\ m >= 1
  BY <1>1
<1>3. QED
  BY <1>2 DEF m

(* The two halves of the type invariant: the stores and the requests.        *)
Stores ==
  /\ row \in Row
  /\ ~row.is => row = NoRow
  /\ core \subseteq known /\ live \subseteq known /\ known \subseteq SignIns
  /\ \A p, q \in core \cap Passwords : p = q
  /\ mail \subseteq Mails \X {"verify", "reset"}
  /\ proven \subseteq SignIns
  /\ {lock, cached, codeUsed, lost, torn} \subseteq BOOLEAN

Placed(h) == \/ pc[h] = 0 /\ req[h] = NoReq
             \/ req[h] \in Request /\ pc[h] \in 1 .. Len(Path[req[h].kind])

Served ==
  /\ pc \in [Handlers -> Nat] /\ req \in [Handlers -> Request \cup {NoReq}]
  /\ \A h \in Handlers : Placed(h)

Budgeted == budget \in 0 .. MaxOps

LEMMA Types == TypeOK <=> Stores /\ Served /\ Budgeted
BY DEF TypeOK, Stores, Served, Placed, Budgeted

LEMMA AtIs ==
  ASSUME Served, NEW h \in Handlers, NEW s, At(h, s)
  PROVE  /\ Busy(h) /\ req[h] \in Request /\ req[h].kind \in Serving /\ pc[h] \in Nat \ {0}
         /\ Place(req[h].kind, pc[h], s)
<1>1. pc[h] > 0 /\ Path[req[h].kind][pc[h]] = s
  BY DEF At, Busy
<1>2. req[h] \in Request /\ pc[h] \in 1 .. Len(Path[req[h].kind])
  BY <1>1 DEF Served, Placed
<1>3. req[h].kind \in Serving
  BY <1>2 DEF Request
<1>4. Place(req[h].kind, pc[h], s)
  BY <1>1, <1>2, <1>3, Places
<1>5. QED
  BY <1>1, <1>2, <1>3, <1>4 DEF Served, Busy

(* Where a request has made or taken the row and not linked it yet, and      *)
(* where it is between writes that belong together.                          *)
Before(h) == \/ req[h].kind = "register" /\ pc[h] = 4
             \/ req[h].kind = "claimnew" /\ pc[h] = 2
             \/ req[h].kind = "google" /\ pc[h] \in {2, 3}
             \/ req[h].kind = "github" /\ pc[h] = 5

Window(h) == \/ Before(h)
             \/ req[h].kind = "register" /\ pc[h] = 5
             \/ req[h].kind = "claimnew" /\ pc[h] = 3
             \/ req[h].kind = "claim" /\ pc[h] = 2

LEMMA WindowIs ==
  ASSUME Served, NEW h \in Handlers
  PROVE  InWindow(h) <=> Window(h)
<1>1. InWindow(h) => Window(h)
  BY AtIs DEF InWindow, Window, Before, Place
<1>2. ASSUME Window(h) PROVE InWindow(h)
  <2>1. pc[h] > 0 /\ req[h] \in Request
    BY <1>2 DEF Served, Placed, Window, Before, NoReq
  <2>2. CASE req[h].kind = "register"
    BY <1>2, <2>1, <2>2 DEF InWindow, Window, Before, At, Busy, Path, RegisterSteps
  <2>3. CASE req[h].kind = "claimnew"
    BY <1>2, <2>1, <2>3 DEF InWindow, Window, Before, At, Busy, Path, ClaimNewSteps
  <2>4. CASE req[h].kind = "claim"
    BY <1>2, <2>1, <2>4 DEF InWindow, Window, Before, At, Busy, Path, ClaimSteps
  <2>5. CASE req[h].kind = "google"
    BY <1>2, <2>1, <2>5 DEF InWindow, Window, Before, At, Busy, Path, GoogleSteps
  <2>6. CASE req[h].kind = "github"
    BY <1>2, <2>1, <2>6 DEF InWindow, Window, Before, At, Busy, Path, OauthSteps
  <2>7. QED
    BY <1>2, <2>2, <2>3, <2>4, <2>5, <2>6 DEF Window, Before
<1>3. QED
  BY <1>1, <1>2
------------------------------------------------------------------------------
(* What a request knows of the sign-in users it works for: they exist once a *)
(* step has made or found them, and one that is to be deleted is gone before *)
(* its row goes.                                                             *)
Naming(h) ==
  /\ (\/ req[h].kind = "register" /\ pc[h] >= 3
      \/ req[h].kind = "login" /\ pc[h] >= 2
      \/ req[h].kind \in {"claimnew", "claim", "enter"})
       => req[h].who \in Passwords \cap known
  /\ req[h].kind = "google" => req[h].who = Google /\ (pc[h] >= 3 => Google \in known)
  /\ req[h].kind = "github" => req[h].who = GitHub /\ (pc[h] >= 4 => GitHub \in known)
  /\ req[h].found \in Passwords => req[h].found \in known
  /\ req[h].kind = "delete" /\ pc[h] = 4 => req[h].found \notin core \ {Google, GitHub}

(* An account nobody has claimed: pending, and linked to nobody.             *)
Unclaimed == row.label = "pending" /\ row.link = Nobody

(* What a request that may open a session was let in on.                     *)
Entering(h) ==
  req[h].kind = "enter" => /\ req[h].who \in proven \/ torn
                           /\ ~Unclaimed

(* A row that has a password and no sign-in user, and a verified row whose   *)
(* password sign-in user never proved the mailbox, are seen only while some  *)
(* request is between its writes.                                            *)
Unlinked == row.is /\ row.link = Nobody /\ row.label # "pending"
Unproven == row.verified /\ row.link \in Passwords /\ row.link \notin proven

Covered == \/ torn
           \/ /\ Unlinked => \E g \in Handlers : Before(g)
              /\ Unproven => \E g \in Handlers : Window(g)

(* One exchange at a time, under the lock; what it gave is kept or lost.     *)
Exchanging(h) == req[h].kind = "github" /\ pc[h] = 2

OneExchange ==
  /\ \A h \in Handlers : Exchanging(h) => lock /\ ~cached
  /\ \A g, h \in Handlers : Exchanging(g) /\ Exchanging(h) => g = h
  /\ codeUsed => cached \/ lost

Inv == /\ TypeOK
       /\ row.link \in Passwords => row.link \in known
       /\ {Google, GitHub} \subseteq proven
       /\ \A h \in Handlers : Naming(h)
       /\ \A h \in Handlers : Entering(h)
       /\ Covered
       /\ OneExchange
------------------------------------------------------------------------------
(* How a request moves.                                                      *)
Others(h) == \A g \in Handlers \ {h} : pc'[g] = pc[g] /\ req'[g] = req[g]

Ended(h) == pc'[h] = 0 /\ req'[h] = NoReq

LEMMA EndDoes ==
  ASSUME Served, NEW h \in Handlers, End(h)
  PROVE  Served' /\ Others(h) /\ Ended(h) /\ budget' = budget
<1>1. Others(h) /\ Ended(h) /\ budget' = budget
  BY DEF Served, End, Others, Ended
<1>2. pc' \in [Handlers -> Nat] /\ req' \in [Handlers -> Request \cup {NoReq}]
  BY DEF Served, End
<1>3. QED
  BY <1>1, <1>2 DEF Served, Placed, Others, Ended

LEMMA ToDoes ==
  ASSUME Served, NEW h \in Handlers, NEW r \in Request, To(h, r), Busy(h),
         r.kind = req[h].kind, pc[h] # Len(Path[req[h].kind])
  PROVE  /\ Served' /\ Others(h) /\ budget' = budget
         /\ pc'[h] = pc[h] + 1 /\ req'[h] = r
<1>1. Others(h) /\ pc'[h] = pc[h] + 1 /\ req'[h] = r /\ budget' = budget
  BY DEF Served, To, Others
<1>2. pc' \in [Handlers -> Nat] /\ req' \in [Handlers -> Request \cup {NoReq}]
  BY DEF Served, To
<1>3. Placed(h)'
  <2>1. pc[h] \in 1 .. Len(Path[req[h].kind]) /\ r.kind \in Serving
    BY DEF Served, Placed, Busy, Request
  <2>2. Len(Path[r.kind]) \in Nat
    BY <2>1, LengthsAreNat
  <2>3. pc'[h] \in 1 .. Len(Path[r.kind])
    BY <1>1, <2>1, <2>2
  <2>4. QED
    BY <1>1, <2>3 DEF Placed
<1>4. QED
  BY <1>1, <1>2, <1>3 DEF Served, Placed, Others

LEMMA OnwardDoes ==
  ASSUME Served, NEW h \in Handlers, Onward(h), Busy(h)
  PROVE  /\ Served' /\ Others(h) /\ budget' = budget
         /\ \/ pc[h] = Len(Path[req[h].kind]) /\ Ended(h)
            \/ pc[h] # Len(Path[req[h].kind]) /\ pc'[h] = pc[h] + 1 /\ req'[h] = req[h]
<1>1. CASE pc[h] = Len(Path[req[h].kind])
  BY <1>1, EndDoes DEF Onward
<1>2. CASE pc[h] # Len(Path[req[h].kind])
  <2>1. req[h] \in Request /\ To(h, req[h])
    BY <1>2 DEF Served, Placed, Busy, Onward
  <2>2. QED
    BY <1>2, <2>1, ToDoes
<1>3. QED
  BY <1>1, <1>2

(* A request that starts, or goes on as another.                             *)
LEMMA StartDoes ==
  ASSUME Served, NEW h \in Handlers, NEW r \in Request,
         pc' = [pc EXCEPT ![h] = 1], req' = [req EXCEPT ![h] = r]
  PROVE  Served' /\ Others(h) /\ pc'[h] = 1 /\ req'[h] = r
<1>1. Others(h) /\ pc'[h] = 1 /\ req'[h] = r
  BY DEF Served, Others
<1>2. pc' \in [Handlers -> Nat] /\ req' \in [Handlers -> Request \cup {NoReq}]
  BY DEF Served
<1>3. 1 \in 1 .. Len(Path[r.kind])
  BY LengthsAreNat DEF Request
<1>4. QED
  BY <1>1, <1>2, <1>3 DEF Served, Placed, Others

(* What every step leaves in place for the requests it is not about.         *)
Grows == /\ known \subseteq known' /\ proven \subseteq proven' /\ (torn => torn')
         /\ core' \subseteq core \cup (Passwords \ known) \cup {Google, GitHub}
         /\ Unclaimed' => Unclaimed

LEMMA NamingStays ==
  ASSUME NEW h \in Handlers, Naming(h), Grows, pc'[h] = pc[h], req'[h] = req[h]
  PROVE  Naming(h)'
BY DEF Naming, Grows

LEMMA EnteringStays ==
  ASSUME NEW h \in Handlers, Entering(h), Grows, req'[h] = req[h]
  PROVE  Entering(h)'
BY DEF Entering, Grows

LEMMA EndedKnowsNothing ==
  ASSUME NEW h \in Handlers, Ended(h)
  PROVE  Naming(h)' /\ Entering(h)' /\ ~Before(h)' /\ ~Window(h)' /\ ~Exchanging(h)'
BY SignInsAssumption DEF Ended, NoReq, Naming, Entering, Before, Window, Exchanging, SignIns

(* The step keeps the window open, or closes it on a row that needs none.    *)
LEMMA CoverStays ==
  ASSUME Covered, NEW h \in Handlers, Others(h), torn => torn',
         Unlinked' => Before(h)' \/ (Unlinked /\ ~Before(h)),
         Unproven' => Window(h)' \/ (Unproven /\ ~Window(h))
  PROVE  Covered'
<1>1. CASE torn
  BY <1>1 DEF Covered
<1>2. CASE ~torn
  <2>1. Unlinked' => \E g \in Handlers : Before(g)'
    <3>1. CASE Before(h)'
      BY <3>1
    <3>2. CASE ~Before(h)'
      <4>1. Unlinked' => \E g \in Handlers \ {h} : Before(g)
        BY <1>2, <3>2 DEF Covered
      <4>2. QED
        BY <4>1 DEF Before, Others
    <3>3. QED
      BY <3>1, <3>2
  <2>2. Unproven' => \E g \in Handlers : Window(g)'
    <3>1. CASE Window(h)'
      BY <3>1
    <3>2. CASE ~Window(h)'
      <4>1. Unproven' => \E g \in Handlers \ {h} : Window(g)
        BY <1>2, <3>2 DEF Covered
      <4>2. QED
        BY <4>1 DEF Window, Before, Others
    <3>3. QED
      BY <3>1, <3>2
  <2>3. QED
    BY <2>1, <2>2 DEF Covered
<1>3. QED
  BY <1>1, <1>2

LEMMA ExchangeStays ==
  ASSUME OneExchange, NEW h \in Handlers, Others(h), UNCHANGED code, ~Exchanging(h)'
  PROVE  OneExchange'
BY DEF OneExchange, Exchanging, Others, code

(* The invariant holds again when the stores keep their types, nothing that  *)
(* others rely on is taken away, and the request itself is where it should.  *)
LEMMA Again ==
  ASSUME Inv, NEW h \in Handlers, Stores', Served', Others(h), Grows,
         Budgeted',
         (row.link \in Passwords => row.link \in known)',
         Naming(h)', Entering(h)', Covered', OneExchange'
  PROVE  Inv'
<1>1. TypeOK'
  BY Types, PTL
<1>2. \A g \in Handlers : Naming(g)'
  BY NamingStays DEF Inv, Others
<1>3. \A g \in Handlers : Entering(g)'
  BY EnteringStays DEF Inv, Others
<1>4. ({Google, GitHub} \subseteq proven)'
  BY DEF Inv, Grows
<1>5. QED
  BY <1>1, <1>2, <1>3, <1>4 DEF Inv

LEMMA Established == Init => Inv
<1> SUFFICES ASSUME Init PROVE Inv
  OBVIOUS
<1>1. Stores
  <2>1. row \in Row /\ (~row.is => row = NoRow)
    <3>1. NoRow \in Row
      BY DEF Row, NoRow, Labels
    <3>2. PendingRow \in Row /\ PendingRow.is
      BY <3>1 DEF PendingRow, Row, Labels
    <3>3. QED
      BY <3>1, <3>2 DEF Init
  <2>2. core \subseteq SignIns /\ \A p, q \in core : p = q
    BY SignInsAssumption DEF Init, SignIns
  <2>3. QED
    BY <2>1, <2>2 DEF Init, Stores, SignIns
<1>2. Served
  BY DEF Init, Served, Placed
<1>3. Budgeted
  BY MaxOpsAssumption DEF Init, Budgeted
<1>4. TypeOK
  BY <1>1, <1>2, <1>3, Types
<1>5. row.link = Nobody /\ row.verified = FALSE /\ (row.is => row.label = "pending")
  <2>1. CASE row = NoRow
    BY <2>1 DEF NoRow
  <2>2. CASE row = PendingRow
    BY <2>2 DEF PendingRow, NoRow
  <2>3. QED
    BY <2>1, <2>2 DEF Init
<1>6. Nobody \notin Passwords
  BY SignInsAssumption DEF SignIns
<1>7. Covered
  BY <1>5 DEF Covered, Unlinked, Unproven
<1>8. ASSUME NEW h \in Handlers PROVE Naming(h) /\ Entering(h) /\ ~Exchanging(h)
  BY <1>6 DEF Init, Naming, Entering, Exchanging, NoReq
<1>9. QED
  BY <1>4, <1>5, <1>6, <1>7, <1>8 DEF Init, Inv, OneExchange

(* A request that ends, outside the writes that belong together.             *)
LEMMA EndKeeps ==
  ASSUME Inv, NEW h \in Handlers, End(h), ~Window(h), Stores', Grows, UNCHANGED <<row, proven, code>>
  PROVE  Inv'
<1>1. Stores /\ Served /\ Budgeted
  BY Types DEF Inv
<1>2. Served' /\ Others(h) /\ Ended(h) /\ Budgeted'
  BY <1>1, EndDoes DEF Budgeted
<1>3. Naming(h)' /\ Entering(h)' /\ ~Exchanging(h)'
  BY <1>2, EndedKnowsNothing
<1>4. (row.link \in Passwords => row.link \in known)'
  BY DEF Inv, Grows
<1>5. Covered'
  <2>1. Unlinked' = Unlinked /\ Unproven' = Unproven /\ ~Before(h) /\ (torn => torn')
    BY DEF Unlinked, Unproven, Window, Grows
  <2>2. QED
    BY <1>2, <2>1, CoverStays DEF Inv
<1>6. OneExchange'
  BY <1>2, <1>3, ExchangeStays DEF Inv
<1>7. QED
  BY <1>2, <1>3, <1>4, <1>5, <1>6, Again

(* The steps that touch the sessions or the mail only, or nothing at all.    *)
LEMMA QuietKeeps ==
  ASSUME Inv, NEW h \in Handlers, Busy(h), Onward(h), ~Window(h),
         UNCHANGED <<row, core, code, ghosts>>, Stores', Naming(h)', ~Exchanging(h)'
  PROVE  Inv'
<1>1. Stores /\ Served /\ Budgeted
  BY Types DEF Inv
<1>2. /\ Served' /\ Others(h) /\ Budgeted'
      /\ (Ended(h) \/ req'[h] = req[h])
  BY <1>1, OnwardDoes DEF Budgeted
<1>3. Grows
  BY DEF Grows, ghosts, Unclaimed
<1>4. Entering(h)'
  BY <1>2, <1>3, EnteringStays, EndedKnowsNothing DEF Inv
<1>5. (row.link \in Passwords => row.link \in known)'
  BY DEF Inv, ghosts
<1>6. Covered'
  <2>1. Unlinked' = Unlinked /\ Unproven' = Unproven /\ ~Before(h) /\ torn' = torn
    BY DEF Unlinked, Unproven, Window, ghosts
  <2>2. QED
    BY <1>2, <2>1, CoverStays DEF Inv
<1>7. OneExchange'
  BY <1>2, ExchangeStays DEF Inv
<1>8. QED
  BY <1>2, <1>3, <1>4, <1>5, <1>6, <1>7, Again

LEMMA LookKeeps ==
  ASSUME Inv, NEW h \in Handlers, Look(h)
  PROVE  Inv'
<1>1. Stores /\ Served
  BY Types DEF Inv
<1>2. /\ Busy(h) /\ req[h].kind = "register" /\ pc[h] = 1
      /\ UNCHANGED <<row, core, live, mail, code, ghosts>>
  BY <1>1, AtIs DEF Look, Place
<1>3. Stores'
  BY <1>1, <1>2 DEF Stores, code, ghosts
<1>4. ~Window(h)
  BY <1>2 DEF Window, Before
<1>5. CASE End(h)
  BY <1>2, <1>3, <1>4, <1>5, EndKeeps DEF Grows, code, ghosts, Unclaimed
<1>6. CASE Onward(h)
  <2>1. req'[h] = req[h] /\ pc'[h] = 2
    <3>1. pc[h] # Len(Path[req[h].kind])
      BY <1>2, NotLast
    <3>2. pc'[h] = pc[h] + 1 /\ req'[h] = req[h]
      BY <1>1, <1>2, <1>6, <3>1, OnwardDoes
    <3>3. QED
      BY <1>2, <3>2
  <2>2. Naming(h)' /\ ~Exchanging(h)'
    BY <1>2, <2>1 DEF Inv, Naming, Exchanging, ghosts
  <2>3. QED
    BY <1>2, <1>3, <1>4, <1>6, <2>2, QuietKeeps
<1>7. QED
  BY <1>5, <1>6 DEF Look

(* The steps that send, find and take a mail, and those that set a password, *)
(* open a session and revoke sessions.                                       *)
LEMMA MailKeeps ==
  ASSUME Inv, NEW h \in Handlers,
         SendMail(h) \/ OpenMail(h) \/ Consume(h) \/ SetPassword(h) \/ OpenSession(h) \/ Revoke(h)
  PROVE  Inv'
<1>1. Stores /\ Served
  BY Types DEF Inv
<1>2. /\ Busy(h) /\ (Onward(h) \/ End(h))
      /\ UNCHANGED <<row, core, code, ghosts>>
  BY <1>1, AtIs DEF SendMail, OpenMail, Consume, SetPassword, OpenSession, Revoke
<1>3. \/ req[h].kind = "register" /\ pc[h] = 6
      \/ req[h].kind = "claimnew" /\ pc[h] = 4
      \/ req[h].kind = "claim" /\ pc[h] = 3
      \/ req[h].kind = "forgot" /\ pc[h] = 2
      \/ req[h].kind = "verify" /\ pc[h] \in {1, 2}
      \/ req[h].kind = "reset" /\ pc[h] \in {1, 2, 4}
      \/ req[h].kind = "enter" /\ pc[h] = 3
      \/ req[h].kind = "google" /\ pc[h] = 4
      \/ req[h].kind = "github" /\ pc[h] = 6
      \/ req[h].kind = "delete" /\ pc[h] = 2
  BY <1>1, AtIs DEF Place, SendMail, OpenMail, Consume, SetPassword, OpenSession, Revoke
<1>4. OpenSession(h) => req[h].who \in known
  <2>1. OpenSession(h) => \/ req[h].kind = "enter" /\ pc[h] = 3
                          \/ req[h].kind = "google" /\ pc[h] = 4
                          \/ req[h].kind = "github" /\ pc[h] = 6
    BY <1>1, AtIs DEF Place, OpenSession
  <2>2. QED
    BY <2>1 DEF Inv, Naming
<1>5. live' \subseteq known
  BY <1>1, <1>4 DEF SendMail, OpenMail, Consume, SetPassword, OpenSession, Revoke, Stores
<1>6. mail' \subseteq Mails \X {"verify", "reset"}
  <2>1. NewTokens("verify") \cup NewTokens("reset") \subseteq Mails \X {"verify", "reset"}
    BY DEF NewTokens
  <2>2. QED
    BY <1>1, <2>1 DEF SendMail, OpenMail, Consume, SetPassword, OpenSession, Revoke, Stores
<1>7. Stores'
  BY <1>1, <1>2, <1>5, <1>6 DEF Stores, code, ghosts
<1>8. ~Window(h)
  BY <1>3 DEF Window, Before
<1>9. CASE End(h)
  BY <1>2, <1>7, <1>8, <1>9, EndKeeps DEF Grows, code, ghosts, Unclaimed
<1>10. CASE Onward(h)
  <2>1. Ended(h) \/ (req'[h] = req[h] /\ pc'[h] = pc[h] + 1)
    BY <1>1, <1>2, <1>10, OnwardDoes
  <2>2. CASE Ended(h)
    BY <1>2, <1>7, <1>8, <1>10, <2>2, EndedKnowsNothing, QuietKeeps
  <2>3. CASE req'[h] = req[h] /\ pc'[h] = pc[h] + 1
    <3>1. known' = known /\ core' = core /\ Naming(h)
      BY <1>2 DEF ghosts, Inv
    <3>2. Naming(h)' /\ ~Exchanging(h)'
      BY <1>3, <2>3, <3>1 DEF Naming, Exchanging
    <3>3. QED
      BY <1>2, <1>7, <1>8, <1>10, <3>2, QuietKeeps
  <2>4. QED
    BY <2>1, <2>2, <2>3
<1>11. QED
  BY <1>2, <1>9, <1>10

(* The row as the requests see it: who is to delete it is left out.          *)
SameRow == /\ row'.is = row.is /\ row'.link = row.link
           /\ row'.label = row.label /\ row'.verified = row.verified

(* A step that learns a sign-in user, and one that makes it.                 *)
LEMMA LearnKeeps ==
  ASSUME Inv, NEW h \in Handlers, NEW r \in Request, To(h, r), Busy(h), r.kind = req[h].kind,
         pc[h] # Len(Path[req[h].kind]), ~Window(h), SameRow, UNCHANGED <<code, proven, torn>>,
         Stores', Grows, Naming(h)', ~Exchanging(h)', r.kind # "enter"
  PROVE  Inv'
<1>1. Stores /\ Served /\ Budgeted
  BY Types DEF Inv
<1>2. Served' /\ Others(h) /\ Budgeted' /\ req'[h] = r
  BY <1>1, ToDoes DEF Budgeted
<1>3. Entering(h)'
  BY <1>2 DEF Entering
<1>4. (row.link \in Passwords => row.link \in known)'
  BY DEF Inv, Grows, SameRow
<1>5. Covered'
  <2>1. Unlinked' = Unlinked /\ Unproven' = Unproven /\ ~Before(h)
    BY DEF Unlinked, Unproven, Window, SameRow
  <2>2. QED
    BY <1>2, <2>1, CoverStays DEF Inv
<1>6. OneExchange'
  BY <1>2, ExchangeStays DEF Inv
<1>7. QED
  BY <1>2, <1>3, <1>4, <1>5, <1>6, Again

LEMMA SignUpKeeps ==
  ASSUME Inv, NEW h \in Handlers, SignUp(h)
  PROVE  Inv'
<1>1. Stores /\ Served
  BY Types DEF Inv
<1>2. /\ Busy(h) /\ req[h] \in Request /\ req[h].kind = "register" /\ pc[h] = 2
      /\ UNCHANGED <<row, live, mail, code, proven, torn>>
  BY <1>1, AtIs DEF SignUp, Place
<1>3. ~Window(h)
  BY <1>2 DEF Window, Before
<1>4. CASE core \cap Passwords # {}
  <2>1. End(h) /\ UNCHANGED <<core, known>>
    BY <1>4 DEF SignUp
  <2>2. Stores' /\ Grows
    BY <1>1, <1>2, <2>1 DEF Stores, Grows, code, Unclaimed
  <2>3. QED
    BY <1>2, <1>3, <2>1, <2>2, EndKeeps
<1>5. CASE core \cap Passwords = {}
  <2>1. PICK p \in Passwords \ known : /\ core' = core \cup {p} /\ known' = known \cup {p}
                                       /\ To(h, [req[h] EXCEPT !.who = p])
    BY <1>5 DEF SignUp
  <2> DEFINE r == [req[h] EXCEPT !.who = p]
  <2>2. /\ r \in Request /\ r.kind = "register" /\ r.who = p /\ r.found = req[h].found
    BY <1>2, <2>1 DEF Request, SignIns
  <2>3. To(h, r)
    BY <2>1
  <2> HIDE DEF r
  <2>4. pc[h] # Len(Path[req[h].kind])
    BY <1>2, NotLast
  <2>5. Stores' /\ Grows
    BY <1>1, <1>2, <1>5, <2>1 DEF Stores, Grows, code, Unclaimed, SignIns
  <2>6. pc'[h] = pc[h] + 1 /\ req'[h] = r
    BY <1>1, <1>2, <2>2, <2>3, <2>4, ToDoes
  <2>7. Naming(h)
    BY DEF Inv
  <2>8. Naming(h)' /\ ~Exchanging(h)'
    BY <1>2, <2>1, <2>2, <2>6, <2>7 DEF Naming, Exchanging
  <2>9. QED
    BY <1>2, <1>3, <2>2, <2>3, <2>4, <2>5, <2>8, LearnKeeps DEF SameRow
<1>6. QED
  BY <1>4, <1>5

LEMMA SignInKeeps ==
  ASSUME Inv, NEW h \in Handlers, SignIn(h)
  PROVE  Inv'
<1>1. Stores /\ Served
  BY Types DEF Inv
<1>2. /\ Busy(h) /\ req[h] \in Request /\ req[h].kind = "login" /\ pc[h] = 1
      /\ UNCHANGED <<row, core, live, mail, code, ghosts>>
  BY <1>1, AtIs DEF SignIn, Place
<1>3. ~Window(h)
  BY <1>2 DEF Window, Before
<1>4. Stores' /\ Grows
  BY <1>1, <1>2 DEF Stores, Grows, code, ghosts, Unclaimed
<1>5. CASE core \cap Passwords = {}
  BY <1>2, <1>3, <1>4, <1>5, EndKeeps DEF SignIn, ghosts
<1>6. CASE core \cap Passwords # {}
  <2>1. PICK p \in core \cap Passwords : To(h, [req[h] EXCEPT !.who = p])
    BY <1>6 DEF SignIn
  <2> DEFINE r == [req[h] EXCEPT !.who = p]
  <2>2. r \in Request /\ r.kind = "login" /\ r.who = p /\ r.found = req[h].found
    BY <1>2, <2>1 DEF Request, SignIns
  <2>3. To(h, r)
    BY <2>1
  <2> HIDE DEF r
  <2>4. pc[h] # Len(Path[req[h].kind])
    BY <1>2, NotLast
  <2>5. pc'[h] = pc[h] + 1 /\ req'[h] = r /\ known' = known
    BY <1>1, <1>2, <2>2, <2>3, <2>4, ToDoes DEF ghosts
  <2>6. Naming(h) /\ p \in known
    BY <1>1, <2>1 DEF Inv, Stores
  <2>7. Naming(h)' /\ ~Exchanging(h)'
    BY <1>2, <2>1, <2>2, <2>5, <2>6 DEF Naming, Exchanging
  <2>8. QED
    BY <1>2, <1>3, <1>4, <2>2, <2>3, <2>4, <2>7, LearnKeeps DEF ghosts, SameRow
<1>7. QED
  BY <1>5, <1>6

LEMMA FindKeeps ==
  ASSUME Inv, NEW h \in Handlers, Find(h)
  PROVE  Inv'
<1>1. Stores /\ Served
  BY Types DEF Inv
<1>2. /\ Busy(h) /\ req[h] \in Request
      /\ \/ req[h].kind = "forgot" /\ pc[h] = 1
         \/ req[h].kind = "reset" /\ pc[h] = 3
         \/ req[h].kind = "delete" /\ pc[h] = 1
      /\ row' = Chosen(h)
      /\ UNCHANGED <<core, live, mail, code, ghosts>>
  BY <1>1, AtIs DEF Find, Place
<1>3. ~Window(h)
  BY <1>2 DEF Window, Before
<1>4. row' \in Row /\ SameRow /\ (~row.is => row' = row)
  BY <1>1, <1>2 DEF Stores, Row, Chosen, SameRow
<1>5. Stores' /\ Grows
  BY <1>1, <1>2, <1>4 DEF Stores, Grows, code, ghosts, Unclaimed, SameRow
<1>6. CASE ~row.is /\ req[h].kind # "reset"
  BY <1>2, <1>3, <1>4, <1>5, <1>6, EndKeeps DEF Find, ghosts
<1>7. CASE ~(~row.is /\ req[h].kind # "reset")
  <2> DEFINE r == [req[h] EXCEPT !.found = row.link]
  <2>1. r \in Request /\ r.kind = req[h].kind /\ r.who = req[h].who /\ r.found = row.link
    BY <1>1, <1>2 DEF Request, Stores, Row
  <2>2. To(h, r)
    BY <1>7 DEF Find
  <2> HIDE DEF r
  <2>3. pc[h] # Len(Path[req[h].kind])
    BY <1>2, NotLast
  <2>4. pc'[h] = pc[h] + 1 /\ req'[h] = r /\ known' = known
    BY <1>1, <1>2, <2>1, <2>2, <2>3, ToDoes DEF ghosts
  <2>5. Naming(h) /\ (row.link \in Passwords => row.link \in known)
    BY DEF Inv
  <2>6. Naming(h)' /\ ~Exchanging(h)' /\ r.kind # "enter"
    BY <1>2, <2>1, <2>4, <2>5 DEF Naming, Exchanging
  <2>7. QED
    BY <1>2, <1>3, <1>4, <1>5, <2>1, <2>2, <2>3, <2>6, LearnKeeps DEF ghosts
<1>8. QED
  BY <1>6, <1>7

(* A step that writes the row or a sign-in user, and goes on.                *)
LEMMA OnwardKeeps ==
  ASSUME Inv, NEW h \in Handlers, Busy(h), Onward(h), UNCHANGED code, Stores', Grows,
         (row.link \in Passwords => row.link \in known)',
         Naming(h)', Entering(h)', ~Exchanging(h)',
         Unlinked' => Before(h)' \/ (Unlinked /\ ~Before(h)),
         Unproven' => torn \/ Window(h)' \/ (Unproven /\ ~Window(h))
  PROVE  Inv'
<1>1. Stores /\ Served /\ Budgeted
  BY Types DEF Inv
<1>2. Served' /\ Others(h) /\ Budgeted'
  BY <1>1, OnwardDoes DEF Budgeted
<1>3. Covered'
  <2>1. CASE torn
    BY <2>1 DEF Covered, Grows
  <2>2. CASE ~torn
    BY <1>2, <2>2, CoverStays DEF Inv, Grows
  <2>3. QED
    BY <2>1, <2>2
<1>4. OneExchange'
  BY <1>2, ExchangeStays DEF Inv
<1>5. QED
  BY <1>2, <1>3, <1>4, Again

LEMMA UpsertKeeps ==
  ASSUME Inv, NEW h \in Handlers, Upsert(h)
  PROVE  Inv'
<1>1. Stores /\ Served
  BY Types DEF Inv
<1>2. /\ Busy(h)
      /\ \/ req[h].kind = "register" /\ pc[h] = 3
         \/ req[h].kind = "claimnew" /\ pc[h] = 1
         \/ req[h].kind = "google" /\ pc[h] = 1
         \/ req[h].kind = "github" /\ pc[h] = 4
      /\ Onward(h) /\ UNCHANGED <<core, live, mail, code, ghosts>>
  BY <1>1, AtIs DEF Upsert, Place
<1>3. row' \in Row /\ row'.is /\ row'.link = row.link /\ row'.label # "pending"
  <2> DEFINE provider == req[h].kind \in {"google", "github"}
             label == IF provider THEN req[h].kind ELSE "password"
             v == row.verified \/ provider
  <2>1. row' = [row EXCEPT !.is = TRUE, !.label = label, !.verified = v]
    BY DEF Upsert
  <2>2. label \in Labels \ {"pending"} /\ v \in BOOLEAN
    BY <1>1 DEF Labels, Stores, Row
  <2> HIDE DEF label, v
  <2>3. QED
    BY <1>1, <2>1, <2>2 DEF Stores, Row
<1>4. pc'[h] = pc[h] + 1 /\ req'[h] = req[h]
  <2>1. pc[h] # Len(Path[req[h].kind])
    BY <1>2, NotLast
  <2>2. QED
    BY <1>1, <1>2, <2>1, OnwardDoes
<1>5. Stores' /\ Grows
  BY <1>1, <1>2, <1>3 DEF Stores, Grows, Unclaimed, code, ghosts
<1>6. Naming(h)' /\ Entering(h)' /\ ~Exchanging(h)'
  <2>1. Naming(h) /\ known' = known
    BY <1>2 DEF Inv, ghosts
  <2>2. QED
    BY <1>2, <1>4, <2>1 DEF Naming, Entering, Exchanging
<1>7. Before(h)' /\ Window(h)'
  BY <1>2, <1>4 DEF Before, Window
<1>8. (row.link \in Passwords => row.link \in known)'
  BY <1>2, <1>3 DEF Inv, ghosts
<1>9. QED
  BY <1>2, <1>5, <1>6, <1>7, <1>8, OnwardKeeps

LEMMA LinkKeeps ==
  ASSUME Inv, NEW h \in Handlers, Link(h)
  PROVE  Inv'
<1>1. Stores /\ Served
  BY Types DEF Inv
<1>2. /\ Busy(h)
      /\ \/ req[h].kind = "register" /\ pc[h] = 4
         \/ req[h].kind = "claimnew" /\ pc[h] = 2
         \/ req[h].kind = "claim" /\ pc[h] = 1
         \/ req[h].kind = "enter" /\ pc[h] = 2
         \/ req[h].kind = "google" /\ pc[h] = 3
         \/ req[h].kind = "github" /\ pc[h] = 5
      /\ row' = Linked(req[h].who) /\ Onward(h) /\ UNCHANGED <<core, live, mail, code, ghosts>>
  BY <1>1, AtIs DEF Link, Place
<1>3. Naming(h) /\ Entering(h)
  BY DEF Inv
<1>4. PICK st : st = req[h].who
  OBVIOUS
<1>5. /\ st \in known /\ st \in SignIns /\ st # Nobody
      /\ \/ req[h].kind \in {"register", "claimnew", "claim", "enter"} /\ st \in Passwords
         \/ req[h].kind \in {"google", "github"} /\ st \in {Google, GitHub}
  <2>1. \/ req[h].kind \in {"register", "claimnew", "claim", "enter"} /\ st \in Passwords \cap known
        \/ req[h].kind \in {"google", "github"} /\ st \in {Google, GitHub} \cap known
    <3>1. CASE req[h].kind = "register" /\ pc[h] = 4
      <4>1. pc[h] >= 3
        BY <3>1
      <4>2. QED
        BY <1>3, <1>4, <3>1, <4>1 DEF Naming
    <3>2. CASE req[h].kind \in {"claimnew", "claim", "enter"}
      BY <1>3, <1>4, <3>2 DEF Naming
    <3>3. CASE req[h].kind = "google" /\ pc[h] = 3
      <4>1. pc[h] >= 3
        BY <3>3
      <4>2. QED
        BY <1>3, <1>4, <3>3, <4>1 DEF Naming
    <3>4. CASE req[h].kind = "github" /\ pc[h] = 5
      <4>1. pc[h] >= 4
        BY <3>4
      <4>2. QED
        BY <1>3, <1>4, <3>4, <4>1 DEF Naming
    <3>5. QED
      BY <1>2, <3>1, <3>2, <3>3, <3>4
  <2>2. known \subseteq SignIns /\ Nobody \notin SignIns
    BY <1>1, SignInsAssumption DEF Stores
  <2>3. QED
    BY <2>1, <2>2
<1>6. /\ row' \in Row /\ row'.is = row.is /\ row'.verified = row.verified /\ row'.label = row.label
      /\ row'.link = IF row.is THEN st ELSE row.link
      /\ ~row.is => row' = NoRow
  <2> DEFINE l == IF row.is THEN st ELSE row.link
  <2>1. l \in SignIns \cup {Nobody}
    BY <1>1, <1>5 DEF Stores, Row
  <2>2. row' = [row EXCEPT !.link = l]
    BY <1>2, <1>4 DEF Linked
  <2> HIDE DEF l
  <2>3. /\ row' \in Row /\ row'.is = row.is /\ row'.verified = row.verified
        /\ row'.label = row.label /\ row'.link = l
    BY <1>1, <2>1, <2>2 DEF Stores, Row
  <2>4. ~row.is => row' = NoRow
    BY <1>1, <2>2 DEF Stores, Row, NoRow, l
  <2>5. QED
    BY <2>3, <2>4 DEF l
<1>7. pc'[h] = pc[h] + 1 /\ req'[h] = req[h]
  <2>1. pc[h] # Len(Path[req[h].kind])
    BY <1>2, NotLast
  <2>2. QED
    BY <1>1, <1>2, <2>1, OnwardDoes
<1>8. NoRow.label = "none" /\ NoRow.link = Nobody /\ NoRow.verified = FALSE
  BY DEF NoRow
<1>9. Stores' /\ Grows
  BY <1>1, <1>2, <1>5, <1>6, <1>8 DEF Stores, Grows, Unclaimed, code, ghosts
<1>10. Naming(h)' /\ Entering(h)' /\ ~Exchanging(h)'
  <2>1. known' = known
    BY <1>2 DEF ghosts
  <2>2. Naming(h)' /\ ~Exchanging(h)'
    BY <1>2, <1>3, <1>7, <2>1 DEF Naming, Exchanging
  <2>3. Entering(h)'
    BY <1>3, <1>7, <1>9, EnteringStays
  <2>4. QED
    BY <2>2, <2>3
<1>11. (row.link \in Passwords => row.link \in known)'
  BY <1>2, <1>5, <1>6 DEF Inv, ghosts
<1>12. ~Unlinked'
  BY <1>5, <1>6, <1>8 DEF Unlinked
<1>13. Unproven' => torn \/ Window(h)'
  <2>1. Unproven' => row.is /\ row'.link = st /\ st \in Passwords /\ st \notin proven
    BY <1>1, <1>2, <1>6, <1>8 DEF Unproven, Stores, ghosts
  <2>2. CASE req[h].kind = "enter"
    BY <1>3, <1>4, <2>1, <2>2 DEF Entering
  <2>3. CASE req[h].kind \in {"google", "github"}
    BY <1>5, <2>1, <2>3, SignInsAssumption
  <2>4. CASE req[h].kind \in {"register", "claimnew", "claim"}
    BY <1>2, <1>7, <2>4 DEF Window, Before
  <2>5. QED
    BY <1>2, <2>2, <2>3, <2>4
<1>14. QED
  BY <1>2, <1>9, <1>10, <1>11, <1>12, <1>13, OnwardKeeps

LEMMA RelabelKeeps ==
  ASSUME Inv, NEW h \in Handlers, Relabel(h)
  PROVE  Inv'
<1>1. Stores /\ Served
  BY Types DEF Inv
<1>2. /\ Busy(h) /\ req[h].kind = "enter" /\ pc[h] = 1
      /\ row' = [row EXCEPT !.label = IF row.is THEN "password" ELSE @]
      /\ Onward(h) /\ UNCHANGED <<core, live, mail, code, ghosts>>
  BY <1>1, AtIs DEF Relabel, Place
<1>3. Naming(h) /\ Entering(h)
  BY DEF Inv
<1>4. /\ row' \in Row /\ row'.is = row.is /\ row'.verified = row.verified /\ row'.link = row.link
      /\ row'.label = (IF row.is THEN "password" ELSE row.label)
      /\ ~row.is => row' = row
  <2> DEFINE l == IF row.is THEN "password" ELSE row.label
  <2>1. l \in Labels
    BY <1>1 DEF Stores, Row, Labels
  <2>2. row' = [row EXCEPT !.label = l]
    BY <1>1, <1>2 DEF Stores, Row
  <2> HIDE DEF l
  <2>3. /\ row' \in Row /\ row'.is = row.is /\ row'.verified = row.verified
        /\ row'.link = row.link /\ row'.label = l
    BY <1>1, <2>1, <2>2 DEF Stores, Row
  <2>4. ~row.is => row' = row
    BY <1>1, <2>2 DEF Stores, Row, l
  <2>5. QED
    BY <2>3, <2>4 DEF l
<1>5. pc'[h] = pc[h] + 1 /\ req'[h] = req[h]
  <2>1. pc[h] # Len(Path[req[h].kind])
    BY <1>2, NotLast
  <2>2. QED
    BY <1>1, <1>2, <2>1, OnwardDoes
<1>6. Stores' /\ Grows
  BY <1>1, <1>2, <1>4 DEF Stores, Grows, Unclaimed, code, ghosts
<1>7. Naming(h)' /\ Entering(h)' /\ ~Exchanging(h)'
  <2>1. known' = known
    BY <1>2 DEF ghosts
  <2>2. Naming(h)' /\ ~Exchanging(h)'
    BY <1>2, <1>3, <1>5, <2>1 DEF Naming, Exchanging
  <2>3. Entering(h)'
    BY <1>3, <1>5, <1>6, EnteringStays
  <2>4. QED
    BY <2>2, <2>3
<1>8. (row.link \in Passwords => row.link \in known)'
  BY <1>2, <1>4 DEF Inv, ghosts
<1>9. (Unlinked' => Unlinked) /\ (Unproven' => Unproven)
  BY <1>2, <1>3, <1>4 DEF Unlinked, Unproven, Entering, Unclaimed, ghosts
<1>10. ~Window(h) /\ ~Before(h)
  BY <1>2 DEF Window, Before
<1>11. QED
  BY <1>2, <1>6, <1>7, <1>8, <1>9, <1>10, OnwardKeeps

LEMMA ClearKeeps ==
  ASSUME Inv, NEW h \in Handlers, Clear(h)
  PROVE  Inv'
<1>1. Stores /\ Served
  BY Types DEF Inv
<1>2. /\ Busy(h)
      /\ \/ req[h].kind = "register" /\ pc[h] = 5
         \/ req[h].kind = "claimnew" /\ pc[h] = 3
         \/ req[h].kind = "claim" /\ pc[h] = 2
      /\ UNCHANGED <<core, live, mail, code, ghosts>>
  BY <1>1, AtIs DEF Clear, Place
<1>3. ~Before(h)
  BY <1>2 DEF Before
<1>4. CASE ~row.is
  <2>1. End(h) /\ UNCHANGED row
    BY <1>4 DEF Clear
  <2>2. Served' /\ Others(h) /\ Ended(h) /\ Budgeted'
    <3>1. Budgeted
      BY Types DEF Inv
    <3>2. QED
      BY <1>1, <2>1, <3>1, EndDoes DEF Budgeted
  <2>3. Stores' /\ Grows
    BY <1>1, <1>2, <2>1 DEF Stores, Grows, Unclaimed, code, ghosts
  <2>4. Naming(h)' /\ Entering(h)' /\ ~Exchanging(h)'
    BY <2>2, EndedKnowsNothing
  <2>5. ~Unlinked' /\ ~Unproven'
    BY <1>1, <1>4, <2>1 DEF Stores, Unlinked, Unproven, NoRow
  <2>6. Covered'
    BY <2>5 DEF Covered
  <2>7. OneExchange'
    BY <1>2, <2>2, <2>4, ExchangeStays DEF Inv
  <2>8. (row.link \in Passwords => row.link \in known)'
    BY <1>2, <2>1 DEF Inv, ghosts
  <2>9. QED
    BY <2>2, <2>3, <2>4, <2>6, <2>7, <2>8, Again
<1>5. CASE row.is
  <2>1. row' = [row EXCEPT !.verified = FALSE] /\ Onward(h)
    BY <1>5 DEF Clear, ClearedFlag
  <2>2. /\ row' \in Row /\ row'.is /\ row'.verified = FALSE /\ row'.link = row.link
        /\ row'.label = row.label
    BY <1>1, <1>5, <2>1 DEF Stores, Row
  <2>3. pc'[h] = pc[h] + 1 /\ req'[h] = req[h]
    <3>1. pc[h] # Len(Path[req[h].kind])
      BY <1>2, NotLast
    <3>2. QED
      BY <1>1, <1>2, <2>1, <3>1, OnwardDoes
  <2>4. Stores' /\ Grows
    BY <1>1, <1>2, <2>2 DEF Stores, Grows, Unclaimed, code, ghosts
  <2>5. Naming(h)' /\ Entering(h)' /\ ~Exchanging(h)'
    <3>1. known' = known /\ Naming(h)
      BY <1>2 DEF ghosts, Inv
    <3>2. QED
      BY <1>2, <2>3, <3>1 DEF Naming, Entering, Exchanging
  <2>6. (row.link \in Passwords => row.link \in known)'
    BY <1>2, <2>2 DEF Inv, ghosts
  <2>7. (Unlinked' => Unlinked) /\ ~Unproven'
    BY <1>5, <2>2 DEF Unlinked, Unproven
  <2>8. QED
    BY <1>2, <1>3, <2>1, <2>4, <2>5, <2>6, <2>7, OnwardKeeps
<1>6. QED
  BY <1>4, <1>5

LEMMA ProveKeeps ==
  ASSUME Inv, NEW h \in Handlers, Prove(h)
  PROVE  Inv'
<1>1. Stores /\ Served
  BY Types DEF Inv
<1>2. /\ Busy(h)
      /\ \/ req[h].kind = "verify" /\ pc[h] = 3
         \/ req[h].kind = "reset" /\ pc[h] = 5
      /\ row' = [row EXCEPT !.verified = row.is]
      /\ proven' = proven \cup ({row.link} \ {Nobody})
      /\ Onward(h) /\ UNCHANGED <<core, live, mail, code, known, torn>>
  BY <1>1, AtIs DEF Prove, Place
<1>3. /\ row' \in Row /\ row'.is = row.is /\ row'.link = row.link /\ row'.label = row.label
      /\ ~row.is => row' = row
  BY <1>1, <1>2 DEF Stores, Row, NoRow
<1>4. row.link \in SignIns \cup {Nobody} /\ Nobody \notin Passwords
  BY <1>1, SignInsAssumption DEF Stores, Row, SignIns
<1>5. Stores' /\ Grows
  BY <1>1, <1>2, <1>3, <1>4 DEF Stores, Grows, Unclaimed, code
<1>6. Ended(h) \/ (req'[h] = req[h] /\ pc'[h] = pc[h] + 1)
  BY <1>1, <1>2, OnwardDoes
<1>7. Naming(h)' /\ Entering(h)' /\ ~Exchanging(h)'
  <2>1. Naming(h)
    BY DEF Inv
  <2>2. CASE Ended(h)
    BY <2>2, EndedKnowsNothing
  <2>3. CASE req'[h] = req[h] /\ pc'[h] = pc[h] + 1
    BY <1>2, <2>1, <2>3 DEF Naming, Entering, Exchanging
  <2>4. QED
    BY <1>6, <2>2, <2>3
<1>8. (row.link \in Passwords => row.link \in known)'
  BY <1>2, <1>3 DEF Inv
<1>9. (Unlinked' => Unlinked) /\ ~Unproven'
  BY <1>2, <1>3, <1>4 DEF Unlinked, Unproven
<1>10. ~Before(h)
  BY <1>2 DEF Before
<1>11. QED
  BY <1>2, <1>5, <1>7, <1>8, <1>9, <1>10, OnwardKeeps

LEMMA CreateSignInKeeps ==
  ASSUME Inv, NEW h \in Handlers, CreateSignIn(h)
  PROVE  Inv'
<1>1. Stores /\ Served
  BY Types DEF Inv
<1>2. /\ Busy(h)
      /\ \/ req[h].kind = "google" /\ pc[h] = 2
         \/ req[h].kind = "github" /\ pc[h] = 3
      /\ core' = core \cup {req[h].who} /\ known' = known \cup {req[h].who}
      /\ Onward(h) /\ UNCHANGED <<row, live, mail, code, proven, torn>>
  BY <1>1, AtIs DEF CreateSignIn, Place
<1>3. Naming(h)
  BY DEF Inv
<1>4. /\ req[h].kind = "google" => req[h].who = Google
      /\ req[h].kind = "github" => req[h].who = GitHub
      /\ Google \in SignIns /\ GitHub \in SignIns /\ Google \notin Passwords /\ GitHub \notin Passwords
  BY <1>3, SignInsAssumption DEF Naming, SignIns
<1>5. Stores' /\ Grows
  BY <1>1, <1>2, <1>4 DEF Stores, Grows, Unclaimed, code
<1>6. pc'[h] = pc[h] + 1 /\ req'[h] = req[h]
  <2>1. pc[h] # Len(Path[req[h].kind])
    BY <1>2, NotLast
  <2>2. QED
    BY <1>1, <1>2, <2>1, OnwardDoes
<1>7. Naming(h)' /\ Entering(h)' /\ ~Exchanging(h)'
  BY <1>2, <1>3, <1>4, <1>6 DEF Naming, Entering, Exchanging
<1>8. (row.link \in Passwords => row.link \in known)'
  BY <1>2 DEF Inv
<1>9. Unlinked' = Unlinked /\ Unproven' = Unproven
  BY <1>2 DEF Unlinked, Unproven
<1>10. CASE req[h].kind = "google"
  <2>1. Before(h)' /\ Window(h)'
    BY <1>2, <1>6, <1>10 DEF Before, Window
  <2>2. QED
    BY <1>2, <1>5, <1>7, <1>8, <2>1, OnwardKeeps
<1>11. CASE req[h].kind = "github"
  <2>1. ~Before(h) /\ ~Window(h)
    BY <1>2, <1>11 DEF Before, Window
  <2>2. QED
    BY <1>2, <1>5, <1>7, <1>8, <1>9, <2>1, OnwardKeeps
<1>12. QED
  BY <1>2, <1>10, <1>11

LEMMA UncreateKeeps ==
  ASSUME Inv, NEW h \in Handlers, Uncreate(h)
  PROVE  Inv'
<1>1. Stores /\ Served
  BY Types DEF Inv
<1>2. /\ Busy(h) /\ req[h].kind = "delete" /\ pc[h] = 3
      /\ UNCHANGED <<row, mail, code, ghosts>>
      /\ \/ core' = core \ {req[h].found} /\ live' = live \ {req[h].found} /\ Onward(h)
         \/ End(h) /\ UNCHANGED <<core, live>>
  BY <1>1, AtIs DEF Uncreate, Stops, Place
<1>3. Stores' /\ Grows
  BY <1>1, <1>2 DEF Stores, Grows, Unclaimed, code, ghosts
<1>4. ~Window(h) /\ ~Before(h)
  BY <1>2 DEF Window, Before
<1>5. CASE End(h)
  BY <1>2, <1>3, <1>4, <1>5, EndKeeps DEF ghosts
<1>6. CASE core' = core \ {req[h].found} /\ Onward(h)
  <2>1. pc'[h] = pc[h] + 1 /\ req'[h] = req[h]
    <3>1. pc[h] # Len(Path[req[h].kind])
      BY <1>2, NotLast
    <3>2. QED
      BY <1>1, <1>2, <1>6, <3>1, OnwardDoes
  <2>2. Naming(h)' /\ Entering(h)' /\ ~Exchanging(h)'
    <3>1. known' = known /\ Naming(h)
      BY <1>2 DEF ghosts, Inv
    <3>2. QED
      BY <1>2, <1>6, <2>1, <3>1 DEF Naming, Entering, Exchanging
  <2>3. (row.link \in Passwords => row.link \in known)'
    BY <1>2 DEF Inv, ghosts
  <2>4. Unlinked' = Unlinked /\ Unproven' = Unproven
    BY <1>2 DEF Unlinked, Unproven, ghosts
  <2>5. QED
    BY <1>2, <1>3, <1>4, <1>6, <2>2, <2>3, <2>4, OnwardKeeps
<1>7. QED
  BY <1>2, <1>5, <1>6

LEMMA EraseRowKeeps ==
  ASSUME Inv, NEW h \in Handlers, EraseRow(h)
  PROVE  Inv'
<1>1. Stores /\ Served
  BY Types DEF Inv
<1>2. /\ Busy(h) /\ req[h].kind = "delete" /\ pc[h] = 4 /\ (row' = NoRow \/ row' = row)
      /\ Onward(h) /\ UNCHANGED <<core, live, mail, code, ghosts>>
  BY <1>1, AtIs DEF EraseRow, Place
<1>3. /\ NoRow.label = "none" /\ NoRow.link = Nobody /\ NoRow.verified = FALSE /\ NoRow.is = FALSE
      /\ NoRow \in Row /\ Nobody \notin Passwords
  BY SignInsAssumption DEF NoRow, Row, Labels, SignIns
<1>4. Stores' /\ Grows
  BY <1>1, <1>2, <1>3 DEF Stores, Grows, Unclaimed, code, ghosts
<1>5. Ended(h)
  <2>1. pc[h] = Len(Path[req[h].kind])
    BY <1>2, Lengths
  <2>2. QED
    BY <1>1, <1>2, <2>1, OnwardDoes
<1>6. Naming(h)' /\ Entering(h)' /\ ~Exchanging(h)'
  BY <1>5, EndedKnowsNothing
<1>7. (Unlinked' => Unlinked) /\ (Unproven' => Unproven)
  BY <1>2, <1>3 DEF Unlinked, Unproven, ghosts
<1>8. (row.link \in Passwords => row.link \in known)'
  BY <1>2, <1>3 DEF Inv, ghosts
<1>9. ~Before(h) /\ ~Window(h)
  BY <1>2 DEF Before, Window
<1>10. QED
  BY <1>2, <1>4, <1>6, <1>7, <1>8, <1>9, OnwardKeeps

(* A password login that goes on as one of the three requests below it. The   *)
(* row it enters on named its sign-in user and was verified, or had a        *)
(* password and no link: one never proven shows that somebody writes.        *)
LEMMA DecideKeeps ==
  ASSUME Inv, NEW h \in Handlers, Decide(h)
  PROVE  Inv'
<1>1. Stores /\ Served /\ Budgeted
  BY Types DEF Inv
<1>2. /\ Busy(h) /\ req[h] \in Request /\ req[h].kind = "login" /\ pc[h] = 2
      /\ torn' = (torn \/ \E g \in Handlers : InWindow(g))
      /\ UNCHANGED <<row, core, live, mail, code, known, proven>>
  BY <1>1, AtIs DEF Decide, Place
<1>3. PICK st : st = req[h].who
  OBVIOUS
<1>4. st \in Passwords \cap known /\ st # Nobody
  <2>1. Naming(h) /\ pc[h] >= 2
    BY <1>2 DEF Inv
  <2>2. QED
    BY <1>2, <1>3, <2>1, SignInsAssumption DEF Naming, SignIns
<1>5. ~row.is => row.link = Nobody
  BY <1>1 DEF Stores, NoRow
<1>6. torn' \in BOOLEAN /\ (torn => torn') /\ ((\E g \in Handlers : InWindow(g)) => torn')
  BY <1>2
<1>7. Stores' /\ Grows
  BY <1>1, <1>2, <1>6 DEF Stores, Grows, code, Unclaimed
<1>8. ~Window(h) /\ ~Before(h)
  BY <1>2 DEF Window, Before
<1> DEFINE strange == row.link \notin {Nobody, st}
           early   == row.link = st /\ ~row.verified
           pending == row.is /\ row.link = Nobody /\ Unearned
<1>9. /\ strange \/ early => End(h)
      /\ ~row.is => SwitchTo(h, "claimnew")
      /\ pending => SwitchTo(h, "claim")
      /\ ~strange /\ ~early /\ ~pending /\ row.is =>
           pc' = [pc EXCEPT ![h] = 1] /\ req' = [req EXCEPT ![h].kind = "enter"] /\ UNCHANGED budget
  <2>1. strange \/ early => End(h)
    BY <1>3, <1>4, <1>5 DEF Decide
  <2>2. ~row.is => SwitchTo(h, "claimnew")
    BY <1>3, <1>4, <1>5 DEF Decide
  <2>3. pending => SwitchTo(h, "claim")
    BY <1>3, <1>4, <1>5 DEF Decide
  <2>4. ~strange /\ ~early /\ ~pending /\ row.is =>
          pc' = [pc EXCEPT ![h] = 1] /\ req' = [req EXCEPT ![h].kind = "enter"] /\ UNCHANGED budget
    BY <1>3, <1>4, <1>5 DEF Decide
  <2>5. QED
    BY <2>1, <2>2, <2>3, <2>4
<1>10. CASE strange \/ early
  BY <1>2, <1>7, <1>8, <1>9, <1>10, EndKeeps
<1>11. CASE ~strange /\ ~early
  <2>1. PICK k \in {"claimnew", "claim", "enter"} :
          /\ pc' = [pc EXCEPT ![h] = 1] /\ req' = [req EXCEPT ![h].kind = k] /\ UNCHANGED budget
          /\ k = "enter" => ~pending /\ row.is
    BY <1>9, <1>11 DEF SwitchTo
  <2> DEFINE r == [req[h] EXCEPT !.kind = k]
  <2>2. r \in Request /\ r.kind = k /\ r.who = st /\ r.found = req[h].found
    BY <1>2, <1>3, <2>1 DEF Request, Serving
  <2>3. req' = [req EXCEPT ![h] = r]
    BY <1>1, <2>1 DEF Served
  <2> HIDE DEF r
  <2>4. Served' /\ Others(h) /\ pc'[h] = 1 /\ req'[h] = r /\ Budgeted'
    BY <1>1, <2>1, <2>2, <2>3, StartDoes DEF Budgeted
  <2>5. Naming(h)' /\ ~Exchanging(h)'
    <3>1. Naming(h)
      BY DEF Inv
    <3>2. QED
      BY <1>2, <1>4, <2>1, <2>2, <2>4, <3>1 DEF Naming, Exchanging
  <2>6. Unlinked' = Unlinked /\ Unproven' = Unproven /\ Unclaimed' = Unclaimed
    BY <1>2 DEF Unlinked, Unproven, Unclaimed
  <2>7. ASSUME Unlinked \/ Unproven PROVE torn'
    <3>1. torn \/ \E g \in Handlers : Window(g)
      BY <2>7 DEF Inv, Covered, Window
    <3>2. QED
      BY <1>1, <1>6, <3>1, WindowIs
  <2>8. Entering(h)'
    <3>1. CASE k # "enter"
      BY <2>2, <2>4, <3>1 DEF Entering
    <3>2. CASE k = "enter"
      <4>1. row.is /\ ~pending
        BY <2>1, <3>2
      <4>2. CASE row.link = Nobody
        <5>1. row.label # "pending"
          BY <4>1, <4>2 DEF Unearned
        <5>2. Unlinked
          BY <4>1, <4>2, <5>1 DEF Unlinked
        <5>3. QED
          BY <2>6, <2>7, <5>1, <5>2 DEF Entering, Unclaimed
      <4>3. CASE row.link = st
        <5>1. row.verified
          BY <1>11, <4>3
        <5>2. st \in proven \/ torn'
          BY <1>4, <2>7, <4>3, <5>1 DEF Unproven
        <5>3. ~Unclaimed'
          BY <1>2, <1>4, <4>3 DEF Unclaimed
        <5>4. QED
          BY <1>2, <2>2, <2>4, <5>2, <5>3 DEF Entering
      <4>4. QED
        BY <1>11, <4>2, <4>3
    <3>3. QED
      BY <3>1, <3>2
  <2>9. Covered'
    BY <1>6, <1>8, <2>4, <2>6, CoverStays DEF Inv
  <2>10. OneExchange'
    BY <1>2, <2>4, <2>5, ExchangeStays DEF Inv
  <2>11. (row.link \in Passwords => row.link \in known)'
    BY <1>2 DEF Inv
  <2>12. QED
    BY <1>7, <2>4, <2>5, <2>8, <2>9, <2>10, <2>11, Again
<1>12. QED
  BY <1>10, <1>11

(* The lock is taken by a request that is at no exchange, while none is.     *)
LEMMA AcquireKeeps ==
  ASSUME Inv, NEW h \in Handlers, Acquire(h)
  PROVE  Inv'
<1>1. Stores /\ Served /\ Budgeted
  BY Types DEF Inv
<1>2. /\ Busy(h) /\ req[h] \in Request /\ req[h].kind = "github" /\ pc[h] = 1 /\ ~lock
      /\ UNCHANGED <<row, core, live, mail, cached, codeUsed, lost, ghosts>>
  BY <1>1, AtIs DEF Acquire, LockFree, Place
<1>3. ~Window(h) /\ ~Before(h)
  BY <1>2 DEF Window, Before
<1>4. Grows /\ Unlinked' = Unlinked /\ Unproven' = Unproven
  BY <1>2 DEF Grows, Unclaimed, Unlinked, Unproven, ghosts
<1>5. (row.link \in Passwords => row.link \in known)'
  BY <1>2 DEF Inv, ghosts
<1>6. Naming(h)
  BY DEF Inv
<1>7. \A g \in Handlers : ~Exchanging(g)
  BY <1>2 DEF Inv, OneExchange
<1>8. CASE cached
  <2>1. pc' = [pc EXCEPT ![h] = 3] /\ UNCHANGED <<req, budget, lock>>
    BY <1>8 DEF Acquire
  <2>2. Others(h) /\ pc'[h] = 3 /\ req'[h] = req[h] /\ Budgeted'
    BY <1>1, <2>1 DEF Served, Others, Budgeted
  <2>3. Served'
    <3>1. pc' \in [Handlers -> Nat] /\ req' \in [Handlers -> Request \cup {NoReq}]
      BY <1>1, <2>1 DEF Served
    <3>2. 3 \in 1 .. Len(Path["github"])
      BY Lengths
    <3>3. Placed(h)'
      BY <1>2, <2>2, <3>2 DEF Placed
    <3>4. QED
      BY <1>1, <2>2, <3>1, <3>3 DEF Served, Placed, Others
  <2>4. Stores'
    BY <1>1, <1>2, <2>1 DEF Stores, ghosts
  <2>5. Naming(h)' /\ Entering(h)' /\ ~Exchanging(h)'
    BY <1>2, <1>6, <2>2 DEF Naming, Entering, Exchanging, ghosts
  <2>6. Covered'
    BY <1>3, <1>4, <2>2, CoverStays DEF Inv, Grows
  <2>7. OneExchange'
    BY <1>2, <2>1, <2>2, <2>5, ExchangeStays DEF Inv, code
  <2>8. QED
    BY <1>4, <1>5, <2>2, <2>3, <2>4, <2>5, <2>6, <2>7, Again
<1>9. CASE ~cached
  <2>1. Onward(h) /\ lock' = TRUE
    BY <1>9 DEF Acquire
  <2>2. pc[h] # Len(Path[req[h].kind])
    BY <1>2, NotLast
  <2>3. Served' /\ Others(h) /\ Budgeted' /\ pc'[h] = pc[h] + 1 /\ req'[h] = req[h]
    BY <1>1, <1>2, <2>1, <2>2, OnwardDoes DEF Budgeted
  <2>4. Stores'
    BY <1>1, <1>2, <2>1 DEF Stores, ghosts
  <2>5. Naming(h)' /\ Entering(h)'
    BY <1>2, <1>6, <2>3 DEF Naming, Entering, ghosts
  <2>6. Covered'
    BY <1>3, <1>4, <2>3, CoverStays DEF Inv, Grows
  <2>7. OneExchange'
    <3>1. \A g \in Handlers \ {h} : ~Exchanging(g)'
      BY <1>7, <2>3 DEF Others, Exchanging
    <3>2. QED
      BY <1>2, <1>9, <2>1, <3>1 DEF Inv, OneExchange
  <2>8. QED
    BY <1>4, <1>5, <2>3, <2>4, <2>5, <2>6, <2>7, Again
<1>10. QED
  BY <1>8, <1>9

LEMMA ExchangeKeeps ==
  ASSUME Inv, NEW h \in Handlers, Exchange(h)
  PROVE  Inv'
<1>1. Stores /\ Served /\ Budgeted
  BY Types DEF Inv
<1>2. /\ Busy(h) /\ req[h] \in Request /\ req[h].kind = "github" /\ pc[h] = 2
      /\ codeUsed' = TRUE /\ lock' = FALSE
      /\ \/ cached' = TRUE /\ Onward(h) /\ UNCHANGED lost
         \/ End(h) /\ lost' = TRUE /\ UNCHANGED cached
      /\ UNCHANGED <<row, core, live, mail, ghosts>>
  BY <1>1, AtIs DEF Exchange, Freed, Place
<1>3. ~Window(h) /\ ~Before(h)
  BY <1>2 DEF Window, Before
<1>4. Grows /\ Unlinked' = Unlinked /\ Unproven' = Unproven
  BY <1>2 DEF Grows, Unclaimed, Unlinked, Unproven, ghosts
<1>5. (row.link \in Passwords => row.link \in known)'
  BY <1>2 DEF Inv, ghosts
<1>6. Stores'
  BY <1>1, <1>2 DEF Stores, ghosts
<1>7. /\ Served' /\ Others(h) /\ Budgeted'
      /\ Ended(h) \/ (pc'[h] = 3 /\ req'[h] = req[h])
  <2>1. CASE End(h)
    BY <1>1, <2>1, EndDoes DEF Budgeted
  <2>2. CASE Onward(h)
    <3>1. pc[h] # Len(Path[req[h].kind])
      BY <1>2, NotLast
    <3>2. Served' /\ Others(h) /\ Budgeted' /\ pc'[h] = pc[h] + 1 /\ req'[h] = req[h]
      BY <1>1, <1>2, <2>2, <3>1, OnwardDoes DEF Budgeted
    <3>3. QED
      BY <1>2, <3>2
  <2>3. QED
    BY <1>2, <2>1, <2>2
<1>8. Naming(h)' /\ Entering(h)' /\ ~Exchanging(h)'
  <2>1. CASE Ended(h)
    BY <2>1, EndedKnowsNothing
  <2>2. CASE pc'[h] = 3 /\ req'[h] = req[h]
    <3>1. Naming(h)
      BY DEF Inv
    <3>2. QED
      BY <1>2, <2>2, <3>1 DEF Naming, Entering, Exchanging, ghosts
  <2>3. QED
    BY <1>7, <2>1, <2>2
<1>9. Covered'
  BY <1>3, <1>4, <1>7, CoverStays DEF Inv, Grows
<1>10. OneExchange'
  <2>1. Exchanging(h)
    BY <1>2 DEF Exchanging
  <2>2. \A g \in Handlers \ {h} : ~Exchanging(g)
    BY <2>1 DEF Inv, OneExchange
  <2>3. \A g \in Handlers : ~Exchanging(g)'
    BY <1>7, <1>8, <2>2 DEF Others, Exchanging
  <2>4. QED
    BY <1>2, <2>3 DEF OneExchange
<1>11. QED
  BY <1>4, <1>5, <1>6, <1>7, <1>8, <1>9, <1>10, Again

(* A request that dies between writes that belong together tears them; one   *)
(* that dies at the provider frees the lock.                                 *)
LEMMA AbandonKeeps ==
  ASSUME Inv, NEW h \in Handlers, Abandon(h)
  PROVE  Inv'
<1>1. Stores /\ Served /\ Budgeted
  BY Types DEF Inv
<1>2. /\ End(h) /\ torn' = (torn \/ InWindow(h)) /\ lock' = (lock /\ ~At(h, "exchange"))
      /\ UNCHANGED <<row, core, live, mail, cached, codeUsed, lost, known, proven>>
  BY DEF Abandon
<1>3. Served' /\ Others(h) /\ Ended(h) /\ Budgeted'
  BY <1>1, <1>2, EndDoes DEF Budgeted
<1>4. torn' \in BOOLEAN /\ lock' \in BOOLEAN /\ (torn => torn') /\ (Window(h) => torn')
  BY <1>1, <1>2, WindowIs
<1>5. Stores' /\ Grows
  BY <1>1, <1>2, <1>4 DEF Stores, Grows, Unclaimed
<1>6. Naming(h)' /\ Entering(h)' /\ ~Exchanging(h)'
  BY <1>3, EndedKnowsNothing
<1>7. (row.link \in Passwords => row.link \in known)'
  BY <1>2 DEF Inv
<1>8. Covered'
  <2>1. CASE torn'
    BY <2>1 DEF Covered
  <2>2. CASE ~torn'
    <3>1. ~Window(h) /\ ~Before(h) /\ Unlinked' = Unlinked /\ Unproven' = Unproven
      BY <1>2, <1>4, <2>2 DEF Unlinked, Unproven, Window
    <3>2. QED
      BY <1>3, <1>4, <3>1, CoverStays DEF Inv
  <2>3. QED
    BY <2>1, <2>2
<1>9. OneExchange'
  <2>1. At(h, "exchange") => Exchanging(h)
    BY <1>1, AtIs DEF Place, Exchanging
  <2>2. ASSUME NEW g \in Handlers, Exchanging(g)' PROVE lock' /\ ~cached' /\ Exchanging(g)
    <3>1. g # h /\ Exchanging(g)
      BY <1>3, <1>6, <2>2 DEF Others, Exchanging
    <3>2. lock /\ ~cached /\ ~Exchanging(h)
      BY <3>1 DEF Inv, OneExchange
    <3>3. QED
      BY <1>2, <2>1, <3>1, <3>2
  <2>3. QED
    BY <1>2, <2>2 DEF Inv, OneExchange
<1>10. QED
  BY <1>3, <1>5, <1>6, <1>7, <1>8, <1>9, Again

LEMMA CallKeeps ==
  ASSUME Inv, NEW h \in Handlers, NEW kind \in Kinds, NEW m \in Mails \cup {Nobody}, Call(h, kind, m)
  PROVE  Inv'
<1>1. Stores /\ Served /\ Budgeted
  BY Types DEF Inv
<1>2. ~Busy(h) /\ budget > 0 /\ UNCHANGED <<row, core, live, mail, code, ghosts>>
  BY DEF Call
<1>3. pc[h] = 0 /\ req[h] = NoReq
  BY <1>1, <1>2 DEF Served, Placed, Busy
<1> DEFINE who == IF kind = "google" THEN Google ELSE IF kind = "github" THEN GitHub ELSE Nobody
           r == [NoReq EXCEPT !.kind = kind, !.mail = m, !.who = who]
<1>4. /\ r \in Request /\ r.kind = kind /\ r.found = Nobody
      /\ (kind = "google" => r.who = Google) /\ (kind = "github" => r.who = GitHub)
  BY DEF Request, NoReq, Serving, SignIns
<1>5. pc' = [pc EXCEPT ![h] = 1] /\ req' = [req EXCEPT ![h] = r] /\ budget' = budget - 1
  BY DEF Call
<1> HIDE DEF r, who
<1>6. Served' /\ Others(h) /\ pc'[h] = 1 /\ req'[h] = r
  BY <1>1, <1>4, <1>5, StartDoes
<1>7. Budgeted'
  BY <1>1, <1>2, <1>5, MaxOpsAssumption DEF Budgeted
<1>8. Stores' /\ Grows
  BY <1>1, <1>2 DEF Stores, Grows, Unclaimed, code, ghosts
<1>9. Naming(h)' /\ Entering(h)' /\ ~Exchanging(h)'
  <2>1. Nobody \notin Passwords
    BY SignInsAssumption DEF SignIns
  <2>2. QED
    BY <1>4, <1>6, <2>1 DEF Naming, Entering, Exchanging, Kinds
<1>10. (row.link \in Passwords => row.link \in known)'
  BY <1>2 DEF Inv, ghosts
<1>11. Covered'
  <2>1. Unlinked' = Unlinked /\ Unproven' = Unproven /\ ~Before(h) /\ ~Window(h)
    BY <1>2, <1>3 DEF Unlinked, Unproven, Before, Window, ghosts
  <2>2. QED
    BY <1>6, <1>8, <2>1, CoverStays DEF Inv, Grows
<1>12. OneExchange'
  BY <1>2, <1>6, <1>9, ExchangeStays DEF Inv
<1>13. QED
  BY <1>6, <1>7, <1>8, <1>9, <1>10, <1>11, <1>12, Again

(* The steps no request takes: a result outlives its time, and a mail.        *)
LEMMA TimeKeeps ==
  ASSUME Inv, Prune \/ MailExpires \/ UNCHANGED vars
  PROVE  Inv'
<1>1. Stores /\ Served /\ Budgeted
  BY Types DEF Inv
<1>2. UNCHANGED <<row, core, live, lock, codeUsed, ghosts, pc, req, budget>>
  BY DEF Prune, MailExpires, vars, code
<1>3. /\ mail' \subseteq mail
      /\ UNCHANGED <<cached, lost>> \/ (cached' = FALSE /\ lost' = TRUE)
  BY DEF Prune, MailExpires, vars, code
<1>4. Stores'
  BY <1>1, <1>2, <1>3 DEF Stores, ghosts
<1>5. Served' /\ Budgeted'
  BY <1>1, <1>2 DEF Served, Placed, Budgeted
<1>6. TypeOK'
  BY <1>4, <1>5, Types, PTL
<1>7. \A h \in Handlers : Naming(h)' /\ Entering(h)'
  BY <1>2 DEF Inv, Naming, Entering, Unclaimed, ghosts
<1>8. Covered'
  <2>1. /\ Unlinked' = Unlinked /\ Unproven' = Unproven /\ torn' = torn
        /\ \A h \in Handlers : Before(h)' = Before(h) /\ Window(h)' = Window(h)
    BY <1>2 DEF Unlinked, Unproven, Window, Before, ghosts
  <2>2. QED
    BY <2>1 DEF Inv, Covered
<1>9. OneExchange'
  <2>1. \A h \in Handlers : Exchanging(h)' = Exchanging(h)
    BY <1>2 DEF Exchanging
  <2>2. QED
    BY <1>2, <1>3, <2>1 DEF Inv, OneExchange
<1>10. (row.link \in Passwords => row.link \in known)' /\ ({Google, GitHub} \subseteq proven)'
  BY <1>2 DEF Inv, ghosts
<1>11. QED
  BY <1>6, <1>7, <1>8, <1>9, <1>10 DEF Inv

LEMMA StepKeeps ==
  ASSUME Inv, NEW h \in Handlers, Step(h)
  PROVE  Inv'
BY LookKeeps, SignUpKeeps, SignInKeeps, DecideKeeps, UpsertKeeps, LinkKeeps, RelabelKeeps,
   ClearKeeps, MailKeeps, ProveKeeps, FindKeeps, CreateSignInKeeps, AcquireKeeps,
   ExchangeKeeps, UncreateKeeps, EraseRowKeeps
   DEF Step

LEMMA Inductive == Spec => []Inv
<1>1. Inv /\ [Next]_vars => Inv'
  <2> SUFFICES ASSUME Inv, [Next]_vars PROVE Inv'
    OBVIOUS
  <2>1. CASE \E h \in Handlers, k \in Kinds, m \in Mails \cup {Nobody} : Call(h, k, m)
    BY <2>1, CallKeeps
  <2>2. CASE \E h \in Handlers : Step(h)
    BY <2>2, StepKeeps
  <2>3. CASE \E h \in Handlers : Abandon(h)
    BY <2>3, AbandonKeeps
  <2>4. CASE Prune \/ MailExpires \/ UNCHANGED vars
    BY <2>4, TimeKeeps
  <2>5. QED
    BY <2>1, <2>2, <2>3, <2>4 DEF Next
<1>2. QED
  BY <1>1, Established, PTL DEF Spec
------------------------------------------------------------------------------
(* The stores keep their shape and refer to one another: a session and a     *)
(* password sign-in user are of users that existed, the address never has    *)
(* two password sign-in users (auth/routes.py, register), and every request  *)
(* is at a step of its own path.                                             *)
THEOREM AccountTypes == Spec => []TypeOK
<1>1. Inv => TypeOK
  BY DEF Inv
<1>2. QED
  BY <1>1, Inductive, PTL

(* A replay of an OAuth code reaches the provider only if the result of the  *)
(* first exchange is lost (_exchange_oauth_code, _prune_oauth_codes).        *)
THEOREM ReplaysAreAnswered == Spec => []ReplayGetsIn
<1>1. Inv => ReplayGetsIn
  <2> SUFFICES ASSUME Inv, NEW h \in Handlers, At(h, "exchange"), codeUsed PROVE lost
    BY DEF ReplayGetsIn
  <2>1. Served
    BY Types DEF Inv
  <2>2. Exchanging(h)
    BY <2>1, AtIs DEF Place, Exchanging
  <2>3. QED
    BY <2>2 DEF Inv, OneExchange
<1>2. QED
  BY <1>1, Inductive, PTL

(* A password opens a session only for a sign-in user the row named when the *)
(* mailbox was proven, as long as no request was torn apart and no login     *)
(* looked between two writes (password_login, register, verify_email).       *)
THEOREM LoginsAreEarned == Spec => EarnedLogin
<1> DEFINE Body == \A h \in Handlers :
      At(h, "session") /\ live' # live /\ req[h].who \in Passwords => req[h].who \in proven \/ torn
<1>1. Inv => Body
  <2> SUFFICES ASSUME Inv, NEW h \in Handlers, At(h, "session"), req[h].who \in Passwords
               PROVE  req[h].who \in proven \/ torn
    OBVIOUS
  <2>1. Served
    BY Types DEF Inv
  <2>2. req[h].kind \in {"enter", "google", "github"}
    BY <2>1, AtIs DEF Place
  <2>3. Naming(h) /\ Entering(h)
    BY DEF Inv
  <2>4. QED
    BY <2>2, <2>3, SignInsAssumption DEF Naming, Entering
<1>2. Inv /\ [Next]_vars => [Body]_vars
  BY <1>1
<1>3. QED
  BY <1>2, Inductive, PTL DEF Spec, EarnedLogin

(* A deletion that erases the row has deleted the sign-in user the row was   *)
(* linked to when it began: no password sign-in user survives its row        *)
(* (_hard_delete_user).                                                      *)
THEOREM ErasuresReachBothStores == Spec => ErasedInBoth
<1> DEFINE Body == \A h \in Handlers :
      At(h, "erase") /\ row' # row /\ row.link = req[h].found
        => row.link \notin core \ {Google, GitHub}
<1>1. Inv => Body
  <2> SUFFICES ASSUME Inv, NEW h \in Handlers, At(h, "erase"), row.link = req[h].found
               PROVE  row.link \notin core \ {Google, GitHub}
    OBVIOUS
  <2>1. Served
    BY Types DEF Inv
  <2>2. req[h].kind = "delete" /\ pc[h] = 4
    BY <2>1, AtIs DEF Place
  <2>3. Naming(h)
    BY DEF Inv
  <2>4. QED
    BY <2>2, <2>3 DEF Naming
<1>2. Inv /\ [Next]_vars => [Body]_vars
  BY <1>1
<1>3. QED
  BY <1>2, Inductive, PTL DEF Spec, ErasedInBoth
==============================================================================
