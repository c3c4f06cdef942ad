---------------------------- MODULE GatewayProofs ----------------------------
(***************************************************************************)
(* Proofs about Gateway, for any number of calls, stops and crashes and    *)
(* every wallet and estimate.                                              *)
(*                                                                         *)
(* Two arguments that do not meet.  Of the drain: what the runs of         *)
(* _do_shutdown know of one another and of the requests inside.  Of the    *)
(* bills: what a check is still worth when the charge comes, and, from     *)
(* that, the tokens taken, counted one by one.                             *)
(***************************************************************************)
EXTENDS Gateway, FiniteSetTheorems, TLAPS

Ended   == {"none", "refused", "failed", "served", "cut"}
CallRec == [kind: Kinds, phase: Running \cup Ended, est: Nat, cost: Nat, taken: Nat,
            answered: BOOLEAN]

CallsTyped == call \in [Calls -> CallRec] /\ balance \in Nat

LEMMA InsideIsFinite ==
  ASSUME NEW S, S \subseteq Calls
  PROVE  IsFiniteSet(S)
BY CallsAssumption, FS_Subset DEF CallsAssumption

LEMMA TypedInit == GatewayInit => CallsTyped
BY CallsAssumption DEF CallsAssumption, GatewayInit, CallsTyped, CallRec, NoCall, Kinds, Running, Ended

(* The step of a call writes one record.                                    *)
LEMMA OneRecord ==
  ASSUME CallsTyped, NEW c \in Calls, NEW r \in CallRec, call' = [call EXCEPT ![c] = r],
         balance' \in Nat
  PROVE  CallsTyped'
BY DEF CallsTyped

LEMMA Phased ==
  ASSUME CallsTyped, NEW c \in Calls, NEW phase \in Running \cup Ended, Go(c, phase),
         balance' = balance
  PROVE  CallsTyped'
<1>1. [call[c] EXCEPT !.phase = phase] \in CallRec
  BY DEF CallsTyped, CallRec
<1> QED
  BY <1>1, OneRecord DEF Go, CallsTyped

LEMMA ServeTyped ==
  ASSUME CallsTyped, NEW c \in Calls, Serve(c)
  PROVE  CallsTyped'
<1>0. call[c] \in CallRec /\ balance \in Nat
  BY DEF CallsTyped
<1>1. ASSUME NEW kind \in Kinds, NEW est \in Estimates,
             Request(c, kind, est) \/ StudioStarts(c, est)
      PROVE  CallsTyped'
  <2> DEFINE r(cost, phase) == [NoCall EXCEPT !.kind = kind, !.est = est, !.cost = cost, !.phase = phase]
  <2>1. est \in Nat
    BY CallsAssumption DEF CallsAssumption
  <2>2. ASSUME NEW cost \in Nat, NEW phase \in Running PROVE r(cost, phase) \in CallRec
    BY <2>1 DEF NoCall, CallRec, Ended
  <2>3. CASE Request(c, kind, est)
    <3>1. PICK cost \in Nat, phase \in Running : call' = [call EXCEPT ![c] = r(cost, phase)]
      BY <2>1, <2>3 DEF Request, Running
    <3> QED
      BY <1>0, <2>2, <2>3, <3>1, OneRecord DEF Request
  <2>4. CASE StudioStarts(c, est)
    <3>1. [NoCall EXCEPT !.kind = "studio", !.est = est, !.phase = "check"] \in CallRec
      BY <2>1 DEF NoCall, CallRec, Running, Kinds
    <3> QED
      BY <1>0, <2>4, <3>1, OneRecord DEF StudioStarts
  <2> QED
    BY <1>1, <2>3, <2>4
<1>2. ASSUME Check(c) \/ CheckFails(c) \/ FirstChunk(c) \/ ProviderFails(c) \/ Answer(c) \/ ReportFails(c)
      PROVE  CallsTyped'
  <2>1. \E phase \in Running \cup Ended : Go(c, phase) /\ balance' = balance
    BY <1>2 DEF Check, CheckFails, FirstChunk, ProviderFails, Answer, ReportFails, Ends, Running, Ended
  <2> QED
    BY <2>1, Phased
<1>3. ASSUME ProviderAnswers(c) PROVE CallsTyped'
  <2>1. \A cost \in 1 .. 2 * call[c].est : cost \in Nat
    OBVIOUS
  <2>2. PICK cost \in Nat :
          call' = [call EXCEPT ![c] = [@ EXCEPT !.phase = "charge", !.cost = cost, !.answered = TRUE]]
    BY <1>3, <2>1 DEF ProviderAnswers
  <2>3. [call[c] EXCEPT !.phase = "charge", !.cost = cost, !.answered = TRUE] \in CallRec
    BY <1>0 DEF CallRec, Running
  <2> QED
    BY <1>0, <1>3, <2>2, <2>3, OneRecord DEF ProviderAnswers
<1>4. ASSUME NEW n \in Nat, n <= balance, NEW phase \in Running \cup Ended, Takes(c, n),
             call' = [call EXCEPT ![c] = [@ EXCEPT !.taken = call[c].taken + n, !.phase = phase]]
      PROVE  CallsTyped'
  <2> DEFINE t == call[c].taken + n
             r == [call[c] EXCEPT !.taken = t, !.phase = phase]
  <2>1. t \in Nat /\ balance - n \in Nat
    BY <1>0, <1>4 DEF CallRec
  <2>2. call' = [call EXCEPT ![c] = r]
    BY <1>4, Zenon
  <2>3. balance' \in Nat
    BY <1>4, <2>1 DEF Takes
  <2> HIDE DEF t
  <2>4. r \in CallRec
    BY <1>0, <2>1 DEF CallRec
  <2> HIDE DEF r
  <2> QED
    BY <2>2, <2>3, <2>4, OneRecord
<1>5. ASSUME Charge(c) PROVE CallsTyped'
  <2>1. SpentFor(call[c].cost) \in Nat /\ SpentFor(call[c].cost) <= balance
    BY <1>0 DEF SpentFor, CallRec
  <2> QED
    BY <1>4, <1>5, <2>1 DEF Charge, Running
<1>6. ASSUME Report(c) PROVE CallsTyped'
  <2> DEFINE n == IF balance < call[c].cost THEN balance ELSE call[c].cost
  <2>1. n \in Nat /\ n <= balance
    BY <1>0 DEF CallRec
  <2> HIDE DEF n
  <2> QED
    BY <1>4, <1>6, <2>1 DEF Report, Ended, n
<1> QED
  BY <1>1, <1>2, <1>3, <1>5, <1>6 DEF Serve, Kinds

LEMMA CutTyped ==
  ASSUME CallsTyped, CutAll
  PROVE  call' \in [Calls -> CallRec] /\ Inside' = {}
BY DEF CallsTyped, CallRec, CutAll, Inside, Ended, InPlatform, Running

LEMMA NextTyped == CallsTyped /\ [GatewayNext]_gvars => CallsTyped'
<1> SUFFICES ASSUME CallsTyped, [GatewayNext]_gvars PROVE CallsTyped'
  OBVIOUS
<1>1. ASSUME NEW k \in Stops, Signal(k) PROVE CallsTyped'
  BY <1>1, CutTyped DEF Signal, CallsTyped
<1>2. ASSUME Crash PROVE CallsTyped'
  BY <1>2, CutTyped DEF Crash, CallsTyped
<1>3. ASSUME \/ Shutdown \/ ServerEnds \/ Restart \/ UNCHANGED gvars
             \/ (\E n \in Caps \cup {NoCap} : SetCap(n)) \/ MonthPasses
      PROVE  CallsTyped'
  BY <1>3 DEF Shutdown, ServerEnds, Restart, SetCap, MonthPasses, gvars, CallsTyped
<1> QED
  BY <1>1, <1>2, <1>3, ServeTyped DEF GatewayNext
------------------------------------------------------------------------------
(* The requests inside, and the runs of _do_shutdown: the count is right    *)
(* while there is a process, a run that has begun has set the drain flag,   *)
(* there is one such run unless two were asked for together, and a run that *)
(* saw the count at zero has seen the last request.                         *)
Counted    == /\ proc \in {"up", "stopping", "down"}
              /\ proc # "down" => inFlight = Cardinality(Inside)
              /\ proc = "down" => Inside = {}
Begun(k)   == stop[k] \notin {"none", "asked"}
OneStop    == /\ stop \in [Stops -> Progress]
              /\ \A k \in Stops : Begun(k) => draining
              /\ together \/ \A j, k \in Stops : j = k \/ stop[j] = "none" \/ stop[k] = "none"
              /\ proc = "stopping" => \E k \in Stops : stop[k] = "signalled"
DrainedIsEmpty == proc # "down" => \A k \in Stops : stop[k] = "drained" => Inside = {}

DrainInv == CallsTyped /\ Counted /\ OneStop /\ DrainedIsEmpty

LEMMA DrainInit == GatewayInit => DrainInv
<1> SUFFICES ASSUME GatewayInit PROVE DrainInv
  OBVIOUS
<1>1. Inside = {}
  BY DEF GatewayInit, Inside, NoCall, Running
<1>2. Counted /\ DrainedIsEmpty
  BY <1>1, FS_EmptySet DEF GatewayInit, Fresh, Counted, DrainedIsEmpty
<1>3. OneStop
  BY DEF GatewayInit, Fresh, OneStop, Begun, Progress
<1> QED
  BY <1>2, <1>3, TypedInit DEF DrainInv

(* The three things a step of a call can do to the requests inside.         *)
LEMMA ServeInside ==
  ASSUME CallsTyped, NEW c \in Calls, Serve(c)
  PROVE  \/ Enter /\ c \notin Inside /\ Inside' = Inside \cup {c}
         \/ Leave /\ c \in Inside /\ Inside' = Inside \ {c}
         \/ (UNCHANGED lvars \/ Visit) /\ Inside' = Inside
<1> USE DEF CallsTyped, CallRec
<1>1. ASSUME NEW r, call' = [call EXCEPT ![c] = r]
      PROVE  Inside' = IF r.kind # "studio" /\ r.phase \in Running THEN Inside \cup {c} ELSE Inside \ {c}
  BY <1>1 DEF Inside, InPlatform
<1>2. c \in Inside <=> InPlatform(c) /\ call[c].phase \in Running
  BY DEF Inside
<1>3. ASSUME NEW kind \in Kinds, NEW est \in Estimates, Request(c, kind, est)
      PROVE  Enter /\ c \notin Inside /\ Inside' = Inside \cup {c}
  <2> DEFINE r == [NoCall EXCEPT !.kind = kind, !.est = est,
                     !.cost  = IF kind = "overlay" THEN est ELSE 0,
                     !.phase = IF kind = "overlay" THEN "charge" ELSE "check"]
  <2>1. call' = [call EXCEPT ![c] = r] /\ Enter /\ kind # "studio"
    BY <1>3 DEF Request
  <2>2. r.kind = kind /\ r.phase \in Running
    BY DEF NoCall, Running
  <2>3. c \notin Inside
    BY <1>2, <1>3 DEF Request, At, Running
  <2> HIDE DEF r
  <2> QED
    BY <1>1, <2>1, <2>2, <2>3
<1>4. ASSUME NEW est \in Estimates, StudioStarts(c, est)
      PROVE  UNCHANGED lvars /\ Inside' = Inside
  <2> DEFINE r == [NoCall EXCEPT !.kind = "studio", !.est = est, !.phase = "check"]
  <2>1. call' = [call EXCEPT ![c] = r] /\ UNCHANGED lvars /\ r.kind = "studio"
    BY <1>4 DEF StudioStarts, NoCall
  <2>2. c \notin Inside
    BY <1>2, <1>4 DEF StudioStarts, At, Running
  <2> HIDE DEF r
  <2> QED
    BY <1>1, <2>1, <2>2
<1>5. ASSUME NEW phase \in Running, Go(c, phase), call[c].phase \in Running
      PROVE  Inside' = Inside
  <2> DEFINE r == [call[c] EXCEPT !.phase = phase]
  <2>1. call' = [call EXCEPT ![c] = r] /\ r.kind = call[c].kind /\ r.phase = phase
    BY <1>5 DEF Go
  <2> HIDE DEF r
  <2> QED
    BY <1>1, <1>2, <1>5, <2>1 DEF InPlatform
<1>6. ASSUME NEW phase \in Ended, Go(c, phase)
      PROVE  Inside' = Inside \ {c}
  <2> DEFINE r == [call[c] EXCEPT !.phase = phase]
  <2>1. call' = [call EXCEPT ![c] = r] /\ r.phase \notin Running
    BY <1>6 DEF Go, Ended, Running
  <2> HIDE DEF r
  <2> QED
    BY <1>1, <2>1
<1>7. ASSUME Check(c) \/ CheckFails(c) \/ FirstChunk(c) \/ ProviderFails(c) \/ Answer(c) \/ ReportFails(c)
      PROVE  \/ Leave /\ c \in Inside /\ Inside' = Inside \ {c}
             \/ (UNCHANGED lvars \/ Visit) /\ Inside' = Inside
  <2>1. call[c].phase \in Running
    BY <1>7 DEF Check, CheckFails, FirstChunk, ProviderFails, Answer, ReportFails, At, Running
  <2>2. \/ \E phase \in Running : Go(c, phase) /\ (UNCHANGED lvars \/ Visit)
        \/ InPlatform(c) /\ Leave /\ \E phase \in Ended : Go(c, phase)
        \/ ~InPlatform(c) /\ (UNCHANGED lvars \/ Visit) /\ \E phase \in Ended : Go(c, phase)
    BY <1>7 DEF Check, Reached, CheckFails, FirstChunk, ProviderFails, Answer, ReportFails, Ends, Running, Ended
  <2> QED
    BY <1>2, <1>5, <1>6, <2>1, <2>2
<1>8. ASSUME ProviderAnswers(c) PROVE UNCHANGED lvars /\ Inside' = Inside
  <2>1. PICK cost : call' = [call EXCEPT ![c] = [@ EXCEPT !.phase = "charge", !.cost = cost, !.answered = TRUE]]
    BY <1>8 DEF ProviderAnswers
  <2> DEFINE r == [call[c] EXCEPT !.phase = "charge", !.cost = cost, !.answered = TRUE]
  <2>2. call' = [call EXCEPT ![c] = r] /\ r.kind = call[c].kind /\ r.phase \in Running
    BY <2>1 DEF Running
  <2>3. call[c].phase \in Running /\ UNCHANGED lvars
    BY <1>8 DEF ProviderAnswers, Running
  <2> HIDE DEF r
  <2> QED
    BY <1>1, <1>2, <2>2, <2>3 DEF InPlatform
<1>9. ASSUME NEW n, NEW phase, call' = [call EXCEPT ![c] = [@ EXCEPT !.taken = call[c].taken + n, !.phase = phase]],
             call[c].phase \in Running,
             phase \in Running \/ ~InPlatform(c)
      PROVE  Inside' = Inside
  <2> DEFINE r == [call[c] EXCEPT !.taken = call[c].taken + n, !.phase = phase]
  <2>1. call' = [call EXCEPT ![c] = r] /\ r.kind = call[c].kind /\ r.phase = phase
    BY <1>9
  <2> HIDE DEF r
  <2>2. Inside' = IF InPlatform(c) /\ phase \in Running THEN Inside \cup {c} ELSE Inside \ {c}
    BY <1>1, <2>1 DEF InPlatform
  <2>3. c \in Inside <=> InPlatform(c)
    BY <1>2, <1>9
  <2> QED
    BY <1>9, <2>2, <2>3
<1>10. ASSUME Charge(c) \/ Report(c) PROVE (UNCHANGED lvars \/ Visit) /\ Inside' = Inside
  <2>1. call[c].phase \in Running /\ (UNCHANGED lvars \/ Visit)
    BY <1>10 DEF Charge, Report, At, Running
  <2>2. \E n, phase :
          /\ call' = [call EXCEPT ![c] = [@ EXCEPT !.taken = call[c].taken + n, !.phase = phase]]
          /\ phase \in Running \/ ~InPlatform(c)
    BY <1>10 DEF Charge, Report, Running
  <2> QED
    BY <1>9, <2>1, <2>2
<1> QED
  BY <1>3, <1>4, <1>7, <1>8, <1>10 DEF Serve

LEMMA ServeDrain ==
  ASSUME DrainInv, NEW c \in Calls, Serve(c)
  PROVE  DrainInv'
<1> USE DEF DrainInv
<1>1. IsFiniteSet(Inside) /\ Cardinality(Inside) \in Nat
  BY InsideIsFinite, FS_CardinalityType DEF Inside
<1>2. CallsTyped'
  BY ServeTyped
<1>3. CASE Enter /\ c \notin Inside /\ Inside' = Inside \cup {c}
  <2>1. Cardinality(Inside') = Cardinality(Inside) + 1
    BY <1>1, <1>3, FS_AddElement
  <2>2. Counted'
    BY <1>3, <2>1 DEF Counted, Enter, Admits
  <2>3. OneStop' /\ DrainedIsEmpty'
    BY <1>3 DEF OneStop, DrainedIsEmpty, Begun, Enter, Admits
  <2> QED
    BY <1>2, <2>2, <2>3
<1>4. CASE Leave /\ c \in Inside /\ Inside' = Inside \ {c}
  <2>1. Cardinality(Inside') = Cardinality(Inside) - 1
    BY <1>1, <1>4, FS_RemoveElement
  <2>2. Counted'
    BY <1>4, <2>1 DEF Counted, Leave
  <2>3. OneStop' /\ DrainedIsEmpty'
    BY <1>4 DEF OneStop, DrainedIsEmpty, Begun, Leave
  <2> QED
    BY <1>2, <2>2, <2>3
<1>5. CASE (UNCHANGED lvars \/ Visit) /\ Inside' = Inside
  BY <1>2, <1>5 DEF lvars, Visit, Admits, Counted, OneStop, DrainedIsEmpty, Begun
<1> QED
  BY <1>3, <1>4, <1>5, ServeInside

(* A run of _do_shutdown begins, waits and interrupts.                      *)
LEMMA AskDrain ==
  ASSUME DrainInv, NEW k \in Stops, Ask(k) \/ Drain(k) \/ WaitEnds(k), UNCHANGED <<call, balance>>
  PROVE  DrainInv'
<1> USE DEF DrainInv
<1>1. CallsTyped' /\ Inside' = Inside
  BY DEF CallsTyped, Inside, InPlatform
<1>2. Counted'
  BY <1>1 DEF Counted, Ask, Drain, WaitEnds
<1>3. IsFiniteSet(Inside)
  BY InsideIsFinite DEF Inside
<1>4. CASE Ask(k)
  <2>1. stop' \in [Stops -> Progress] /\ \A j \in Stops : stop'[j] = IF j = k THEN "asked" ELSE stop[j]
    BY <1>4 DEF Ask, OneStop, Progress
  <2>2. \A j \in Stops : stop[j] \in {"none", "asked"}
    BY <1>4 DEF Ask, MayAsk, OneStop, Begun
  <2>3. together' \/ \A j \in Stops : stop[j] = "none"
    BY <1>4, <2>2 DEF Ask, Alone
  <2>4. OneStop'
    BY <1>4, <2>1, <2>2, <2>3 DEF Ask, OneStop, Begun
  <2>5. DrainedIsEmpty'
    BY <1>1, <1>4, <2>1 DEF Ask, DrainedIsEmpty
  <2> QED
    BY <1>1, <1>2, <2>4, <2>5
<1>5. CASE Drain(k)
  <2>1. stop' \in [Stops -> Progress] /\ \A j \in Stops : stop'[j] = IF j = k THEN "waiting" ELSE stop[j]
    BY <1>5 DEF Drain, OneStop, Progress
  <2>2. OneStop'
    BY <1>5, <2>1 DEF Drain, OneStop, Begun
  <2>3. DrainedIsEmpty'
    BY <1>1, <1>5, <2>1 DEF Drain, DrainedIsEmpty
  <2> QED
    BY <1>1, <1>2, <2>2, <2>3
<1>6. CASE WaitEnds(k)
  <2>1. /\ stop' \in [Stops -> Progress]
        /\ \A j \in Stops : stop'[j] = IF j = k THEN (IF inFlight = 0 THEN "drained" ELSE "late") ELSE stop[j]
    BY <1>6 DEF WaitEnds, OneStop, Progress
  <2>2. OneStop'
    BY <1>6, <2>1 DEF WaitEnds, OneStop, Begun
  <2>3. inFlight = 0 => Inside = {}
    BY <1>3, <1>6, FS_EmptySet DEF WaitEnds, Counted
  <2>4. DrainedIsEmpty'
    BY <1>1, <1>6, <2>1, <2>3 DEF WaitEnds, DrainedIsEmpty
  <2> QED
    BY <1>1, <1>2, <2>2, <2>4
<1> QED
  BY <1>4, <1>5, <1>6

LEMMA IdleDrain ==
  ASSUME DrainInv, IdleExit \/ Socket \/ TimePasses, UNCHANGED <<call, balance>>
  PROVE  DrainInv'
<1> USE DEF DrainInv
<1>1. CallsTyped' /\ Inside' = Inside
  BY DEF CallsTyped, Inside, InPlatform
<1>2. CASE Socket \/ TimePasses
  BY <1>1, <1>2 DEF Socket, TimePasses, Counted, OneStop, Begun, DrainedIsEmpty
<1>3. CASE IdleExit
  <2>1. \A j \in Stops : stop[j] \in {"none", "asked"}
    BY <1>3 DEF IdleExit, OneStop, Begun
  <2>2. together' \/ \A j \in Stops : stop[j] = "none"
    BY <1>3, <2>1 DEF IdleExit, Alone
  <2>3. /\ stop' \in [Stops -> Progress]
        /\ \A j \in Stops : stop'[j] = IF j = Watchdog THEN "waiting" ELSE stop[j]
    BY <1>3 DEF IdleExit, OneStop, Progress
  <2>4. OneStop'
    BY <1>3, <2>1, <2>2, <2>3 DEF IdleExit, OneStop, Begun
  <2>5. Counted' /\ DrainedIsEmpty'
    BY <1>1, <1>3, <2>3 DEF IdleExit, Counted, DrainedIsEmpty
  <2> QED
    BY <1>1, <2>4, <2>5
<1> QED
  BY <1>2, <1>3

LEMMA SignalDrain ==
  ASSUME DrainInv, NEW k \in Stops, Signal(k)
  PROVE  DrainInv'
<1> USE DEF DrainInv
<1>1. /\ stop' \in [Stops -> Progress]
      /\ \A j \in Stops : stop'[j] = IF j = k THEN "signalled" ELSE stop[j]
      /\ Begun(k)
      /\ proc' \in {"stopping", "down"}
      /\ UNCHANGED <<draining, inFlight, together, balance>>
  BY DEF Signal, Interrupt, OneStop, Progress, Begun, Counted
<1>2. OneStop'
  BY <1>1 DEF OneStop, Begun
<1>3. CASE proc' = "down"
  <2>1. Inside' = {} /\ CallsTyped'
    BY <1>1, <1>3, CutTyped DEF Signal, CallsTyped
  <2> QED
    BY <1>2, <1>3, <2>1 DEF Counted, DrainedIsEmpty
<1>4. CASE proc' = "stopping"
  <2>1. Inside' = Inside /\ CallsTyped' /\ proc # "down"
    BY <1>1, <1>4 DEF Signal, Interrupt, CallsTyped, Inside, InPlatform
  <2> QED
    BY <1>1, <1>2, <1>4, <2>1 DEF Counted, DrainedIsEmpty
<1> QED
  BY <1>1, <1>3, <1>4

LEMMA ProcessDrain ==
  ASSUME DrainInv, ServerEnds \/ Crash \/ Restart
  PROVE  DrainInv'
<1> USE DEF DrainInv
<1>1. CASE ServerEnds
  <2>1. Inside' = {} /\ CallsTyped'
    BY <1>1 DEF ServerEnds, CallsTyped, Inside, InPlatform
  <2> QED
    BY <1>1, <2>1 DEF ServerEnds, Finish, Counted, OneStop, Begun, DrainedIsEmpty
<1>2. CASE Crash
  <2>1. Inside' = {} /\ CallsTyped'
    BY <1>2, CutTyped DEF Crash, CallsTyped
  <2> QED
    BY <1>2, <2>1 DEF Crash, Die, Counted, OneStop, Begun, DrainedIsEmpty
<1>3. CASE Restart
  <2>1. Inside' = {} /\ CallsTyped'
    BY <1>3 DEF Restart, CallsTyped, Inside, InPlatform, Counted
  <2>2. Counted' /\ DrainedIsEmpty'
    BY <1>3, <2>1, FS_EmptySet DEF Restart, Restarted, Counted, DrainedIsEmpty
  <2>3. OneStop'
    BY <1>3 DEF Restart, Restarted, OneStop, Begun, Progress
  <2> QED
    BY <2>1, <2>2, <2>3
<1> QED
  BY <1>1, <1>2, <1>3

LEMMA DrainNext == DrainInv /\ [GatewayNext]_gvars => DrainInv'
<1> SUFFICES ASSUME DrainInv, [GatewayNext]_gvars PROVE DrainInv'
  OBVIOUS
<1>1. CASE Shutdown
  BY <1>1, AskDrain, IdleDrain DEF Shutdown
<1>2. CASE UNCHANGED lvars /\ UNCHANGED <<call, balance>>
  BY <1>2 DEF lvars, DrainInv, CallsTyped, Counted, OneStop, Begun, DrainedIsEmpty, Inside, InPlatform
<1>3. ASSUME NEW n \in Caps \cup {NoCap}, SetCap(n) PROVE DrainInv'
  BY <1>3 DEF SetCap, Visit, DrainInv, CallsTyped, Counted, OneStop, Begun, DrainedIsEmpty, Inside, InPlatform
<1> QED
  BY <1>1, <1>2, <1>3, ServeDrain, SignalDrain, ProcessDrain DEF GatewayNext, MonthPasses, gvars

LEMMA DrainInvHolds == GatewaySpec => []DrainInv
BY DrainInit, DrainNext, PTL DEF GatewaySpec

(* The rest of the types.                                                   *)
Flags     == draining \in BOOLEAN /\ socket \in BOOLEAN /\ quiet \in BOOLEAN /\ together \in BOOLEAN
Numbers   == inFlight \in Nat /\ balance <= Opening
RestTyped == /\ Flags /\ Numbers /\ month \in Month
             /\ overtaken \subseteq Calls /\ unheard \subseteq Calls /\ capped \subseteq Calls
             /\ crashes \in 0 .. MaxCrashes

LEMMA CountsTyped ==
  ASSUME month \in Month, NEW n \in Nat, Counts(n)
  PROVE  month' \in Month
<1>1. ThisMonth \in Nat /\ SpentFor(n) \in Nat
  BY DEF ThisMonth, SpentFor, Month
<1>2. ThisMonth + SpentFor(n) \in Nat
  BY <1>1
<1> HIDE DEF ThisMonth, SpentFor
<1> QED
  BY <1>2 DEF Counts, Month

LEMMA RestNext ==
  ASSUME DrainInv, RestTyped, [GatewayNext]_gvars
  PROVE  RestTyped'
<1> USE DEF RestTyped
<1>1. ASSUME NEW c \in Calls, Serve(c) PROVE RestTyped'
  <2>1. Flags' /\ inFlight' \in Nat
    <3>1. c \in Inside => proc # "down" /\ inFlight \in Nat /\ inFlight > 0
      <4>1. IsFiniteSet(Inside)
        BY InsideIsFinite DEF Inside
      <4>2. c \in Inside => Cardinality(Inside) # 0
        BY <4>1, FS_EmptySet
      <4> QED
        BY <4>2 DEF DrainInv, Counted, Numbers
    <3>2. Enter \/ (c \in Inside /\ Leave) \/ Visit \/ UNCHANGED lvars
      BY <1>1, ServeInside DEF DrainInv
    <3>3. inFlight' \in Nat
      BY <3>1, <3>2 DEF Numbers, Enter, Leave, Visit, lvars
    <3>4. Flags'
      BY <3>2 DEF Flags, Enter, Leave, Visit, lvars
    <3> QED
      BY <3>3, <3>4
  <2>2. balance' <= Opening
    <3>1. balance \in Nat /\ balance' \in Nat /\ Opening \in Nat /\ call[c].cost \in Nat
      BY <1>1, ServeTyped, CallsAssumption DEF DrainInv, CallsTyped, CallRec, CallsAssumption
    <3>2. balance' = balance \/ \E n \in Nat : balance' = balance - n
      BY <1>1, <3>1 DEF Serve, Request, StudioStarts, Check, CheckFails, FirstChunk, ProviderAnswers,
                  ProviderFails, Charge, Answer, Report, ReportFails, Takes, SpentFor
    <3> QED
      BY <3>1, <3>2 DEF Numbers
  <2>3. /\ overtaken' \subseteq Calls /\ unheard' \subseteq Calls /\ capped' \subseteq Calls
        /\ crashes' \in 0 .. MaxCrashes
    BY <1>1 DEF Serve, Request, StudioStarts, Check, CheckFails, FirstChunk, ProviderAnswers,
                ProviderFails, Charge, Answer, Report, ReportFails, Takes, Overtakes
  <2>4. month' \in Month
    <3>1. CASE Charge(c)
      BY <3>1, CountsTyped DEF Charge, DrainInv, CallsTyped, CallRec
    <3>2. CASE ~Charge(c)
      BY <1>1, <3>2 DEF Serve, Request, StudioStarts, Check, CheckFails, FirstChunk, ProviderAnswers,
                  ProviderFails, Answer, Report, ReportFails
    <3> QED
      BY <3>1, <3>2
  <2> QED
    BY <2>1, <2>2, <2>3, <2>4 DEF Numbers
<1>2. ASSUME NEW k \in Stops, Signal(k) PROVE RestTyped'
  BY <1>2 DEF Signal, Interrupt, Flags, Numbers
<1>3. CASE Shutdown
  <2>1. UNCHANGED <<inFlight, balance, month, overtaken, unheard, capped, crashes>>
    BY <1>3 DEF Shutdown, Ask, Drain, WaitEnds, IdleExit, Socket, TimePasses
  <2>2. Flags'
    BY <1>3 DEF Flags, Shutdown, Ask, Drain, WaitEnds, IdleExit, Socket, TimePasses, Alone
  <2> QED
    BY <2>1, <2>2 DEF Numbers
<1>4. CASE Crash
  BY <1>4, CallsAssumption DEF Crash, Die, CallsAssumption, Flags, Numbers
<1>5. CASE ServerEnds \/ UNCHANGED gvars
  BY <1>5 DEF ServerEnds, Finish, gvars, lvars, Flags, Numbers
<1>6. CASE Restart
  <2>1. Flags'
    BY <1>6 DEF Restart, Restarted, Flags
  <2>2. inFlight' = 0 /\ UNCHANGED <<balance, month, overtaken, unheard, capped, crashes>>
    BY <1>6 DEF Restart, Restarted
  <2> QED
    BY <2>1, <2>2 DEF Numbers
<1>7. ASSUME NEW n \in Caps \cup {NoCap}, SetCap(n) PROVE RestTyped'
  BY <1>7 DEF SetCap, Visit, Month, Flags, Numbers
<1>8. CASE MonthPasses
  BY <1>8 DEF MonthPasses, lvars, Month, Flags, Numbers
<1> QED
  BY <1>1, <1>2, <1>3, <1>4, <1>5, <1>6, <1>7, <1>8 DEF GatewayNext

(* Every value has its type, and the count of the requests inside is exact  *)
(* while there is a process (gateway/routes.py, lifecycle/middleware.py).   *)
THEOREM GatewayTypes == GatewaySpec => []TypeOK
<1>1. GatewayInit => RestTyped
  <2>1. GatewayInit => Flags
    BY DEF GatewayInit, Fresh, Flags
  <2>2. GatewayInit => Numbers /\ overtaken = {} /\ unheard = {} /\ capped = {} /\ crashes \in 0 .. MaxCrashes
    BY CallsAssumption DEF GatewayInit, Fresh, Numbers, CallsAssumption
  <2>3. GatewayInit => month \in Month
    BY DEF GatewayInit, Month
  <2> QED
    BY <2>1, <2>2, <2>3 DEF RestTyped
<1>2. DrainInv /\ RestTyped /\ [GatewayNext]_gvars => RestTyped'
  BY RestNext
<1>3. DrainInv /\ RestTyped => TypeOK
  <2> SUFFICES ASSUME DrainInv, RestTyped PROVE TypeOK
    OBVIOUS
  <2>1. LifeType
    BY DEF DrainInv, RestTyped, Flags, Numbers, Counted, OneStop, LifeType
  <2>2. balance \in 0 .. Opening
    BY CallsAssumption DEF DrainInv, CallsTyped, RestTyped, Numbers, CallsAssumption
  <2>3. \A c \in Calls :
          /\ call[c].kind \in Kinds
          /\ call[c].phase \in Running \cup {"none", "refused", "failed", "served", "cut"}
    BY DEF DrainInv, CallsTyped, CallRec, Ended
  <2> QED
    BY <2>1, <2>2, <2>3 DEF TypeOK, RestTyped, DrainInv, Counted
<1> QED
  BY <1>1, <1>2, <1>3, DrainInvHolds, PTL DEF GatewaySpec

(* A call's own step never cuts a request: only its process's end does.     *)
LEMMA ServeCutsNone ==
  ASSUME CallsTyped, NEW c \in Calls, Serve(c), NEW d \in Calls, At(d, "cut")'
  PROVE  At(d, "cut")
<1> USE DEF CallsTyped, CallRec, At
<1>1. ASSUME NEW r, call' = [call EXCEPT ![c] = r], r.phase # "cut" PROVE At(d, "cut")
  BY <1>1
<1>2. ASSUME NEW phase, phase # "cut", Go(c, phase) PROVE At(d, "cut")
  BY <1>2, <1>1 DEF Go
<1>3. ASSUME NEW kind \in Kinds, NEW est \in Estimates, Request(c, kind, est) \/ StudioStarts(c, est)
      PROVE  At(d, "cut")
  BY <1>1, <1>3 DEF Request, StudioStarts, NoCall
<1>4. ASSUME Check(c) \/ CheckFails(c) \/ FirstChunk(c) \/ ProviderFails(c) \/ Answer(c) \/ ReportFails(c)
      PROVE  At(d, "cut")
  <2>1. \E phase : phase # "cut" /\ Go(c, phase)
    BY <1>4 DEF Check, CheckFails, FirstChunk, ProviderFails, Answer, ReportFails, Ends
  <2> QED
    BY <1>2, <2>1
<1>5. CASE ProviderAnswers(c)
  BY <1>1, <1>5 DEF ProviderAnswers
<1>6. CASE Charge(c) \/ Report(c)
  <2>1. PICK n, phase : /\ phase # "cut"
                        /\ call' = [call EXCEPT ![c] = [@ EXCEPT !.taken = call[c].taken + n, !.phase = phase]]
    BY <1>6 DEF Charge, Report
  <2> DEFINE r == [call[c] EXCEPT !.taken = call[c].taken + n, !.phase = phase]
  <2>2. call' = [call EXCEPT ![c] = r] /\ r.phase # "cut"
    BY <2>1
  <2> HIDE DEF r
  <2> QED
    BY <1>1, <2>2
<1> QED
  BY <1>3, <1>4, <1>5, <1>6 DEF Serve

CrashesTyped == crashes \in Nat

LEMMA CrashesCounted == GatewaySpec => []CrashesTyped
<1>1. GatewayInit => CrashesTyped
  BY DEF GatewayInit, CrashesTyped
<1>2. CrashesTyped /\ [GatewayNext]_gvars => CrashesTyped'
  <2> SUFFICES ASSUME CrashesTyped, [GatewayNext]_gvars PROVE CrashesTyped'
    OBVIOUS
  <2>1. ASSUME NEW c \in Calls, Serve(c) PROVE crashes' = crashes
    BY <2>1 DEF Serve, Request, StudioStarts, Check, CheckFails, FirstChunk, ProviderAnswers,
                ProviderFails, Charge, Answer, Report, ReportFails
  <2> QED
    BY <2>1 DEF CrashesTyped, GatewayNext, SetCap, MonthPasses, Shutdown, Signal, ServerEnds, Crash, Restart, gvars
<1> QED
  BY <1>1, <1>2, PTL DEF GatewaySpec

(* The drain holds (lifecycle/middleware.py): a request that was let in is  *)
(* cut by a crash only, unless two stops were asked for together; and the   *)
(* interrupt finds a request inside only if the wait for it timed out.      *)
THEOREM DrainProtects == GatewaySpec => DrainHolds
<1>1. ASSUME DrainInv, CrashesTyped, [GatewayNext]_gvars, NEW c \in Calls, At(c, "cut")', ~At(c, "cut")
      PROVE  together \/ crashes' # crashes
  <2>1. ASSUME NEW d \in Calls, Serve(d) PROVE FALSE
    BY <1>1, <2>1, ServeCutsNone DEF DrainInv
  <2>2. CASE \E k \in Stops : Signal(k)
    <3>1. PICK k \in Stops : Signal(k)
      BY <2>2
    <3>2. proc = "stopping" /\ stop[k] \in {"drained", "late"}
      BY <1>1, <3>1 DEF Signal, Interrupt, DrainInv, Counted, At
    <3> QED
      BY <1>1, <3>2 DEF DrainInv, OneStop
  <2>3. CASE Crash
    BY <1>1, <2>3 DEF Crash, CutAll, At, DrainInv, CrashesTyped
  <2>4. CASE ~((\E d \in Calls : Serve(d)) \/ (\E k \in Stops : Signal(k)) \/ Crash)
    BY <1>1, <2>4 DEF GatewayNext, SetCap, MonthPasses, Shutdown, ServerEnds, Restart, gvars, At
  <2> QED
    BY <2>1, <2>2, <2>3, <2>4
<1>2. ASSUME DrainInv, NEW k \in Stops, Signal(k), Inside # {} PROVE stop[k] = "late"
  BY <1>2 DEF DrainInv, DrainedIsEmpty, Signal, Interrupt
<1>3. DrainInv /\ CrashesTyped /\ [GatewayNext]_gvars
        => [/\ (\E c \in Calls : At(c, "cut")' /\ ~At(c, "cut")) => together \/ crashes' # crashes
            /\ \A k \in Stops : Signal(k) /\ Inside # {} => stop[k] = "late"]_gvars
  BY <1>1, <1>2
<1> QED
  BY <1>3, DrainInvHolds, CrashesCounted, PTL DEF GatewaySpec, DrainHolds
------------------------------------------------------------------------------
(* What a check is worth: until another's charge overtakes the call, the    *)
(* wallet still holds its estimate.  And what a charge leaves behind.       *)
Checked(c) == call[c].phase \in {"ask", "more", "charge"}
Excuse(c)  == c \in overtaken \/ c \in unheard \/ (c \in capped /\ InPlatform(c))
Unspent(c) == call[c].phase \in {"none", "check", "ask", "more", "charge"} => call[c].taken = 0
Covered(c) == Checked(c) /\ call[c].kind # "overlay" => Excuse(c) \/ balance >= call[c].est
Settled(c) == call[c].phase \in {"answer", "served"} /\ call[c].taken < call[c].cost
                => \/ Excuse(c) \/ call[c].cost > call[c].est
                   \/ At(c, "answer") /\ call[c].kind = "overlay" /\ call[c].taken = 0

Sound(c) == Unspent(c) /\ Covered(c) /\ Settled(c)
PayInv   == CallsTyped /\ \A c \in Calls : Sound(c)

LEMMA PayInit == GatewayInit => PayInv
BY TypedInit DEF GatewayInit, PayInv, Sound, Unspent, Covered, Checked, Settled, NoCall

(* A step of one call leaves the others' records alone, and if it takes     *)
(* tokens every call that was checked is overtaken.                         *)
LEMMA OthersAreWarned ==
  ASSUME CallsTyped, NEW c \in Calls, Serve(c), NEW d \in Calls, d # c
  PROVE  /\ call'[d] = call[d]
         /\ Excuse(d) => Excuse(d)'
         /\ Checked(d) => Excuse(d)' \/ balance' = balance
<1> USE DEF CallsTyped, CallRec
<1>1. CASE \/ \E kind \in Kinds, est \in Estimates : Request(c, kind, est)
           \/ \E est \in Estimates : StudioStarts(c, est)
           \/ ProviderAnswers(c)
  BY <1>1 DEF Request, StudioStarts, ProviderAnswers, Excuse, InPlatform
<1>2. CASE Check(c) \/ CheckFails(c) \/ FirstChunk(c) \/ ProviderFails(c) \/ Answer(c) \/ ReportFails(c)
  BY <1>2 DEF Check, CheckFails, FirstChunk, ProviderFails, Answer, ReportFails, Ends, Go, Excuse, InPlatform
<1>3. CASE Charge(c) \/ Report(c)
  <2>1. /\ \E n \in Nat : Takes(c, n)
        /\ UNCHANGED unheard /\ capped \subseteq capped' /\ call'[d] = call[d]
    BY <1>3 DEF Charge, Report, SpentFor
  <2>2. Checked(d) => d \in Overtakes(c)
    BY DEF Checked, Overtakes
  <2>3. /\ Excuse(d) => Excuse(d)'
        /\ Checked(d) => Excuse(d)' \/ balance' = balance
    BY <2>1, <2>2 DEF Takes, Excuse, InPlatform
  <2> QED
    BY <1>3, <2>3 DEF Charge, Report
<1> QED
  BY <1>1, <1>2, <1>3 DEF Serve

LEMMA ServePays ==
  ASSUME PayInv, NEW c \in Calls, Serve(c)
  PROVE  PayInv'
<1>1. CallsTyped /\ CallsTyped' /\ Sound(c)
  BY ServeTyped DEF PayInv
<1>2. ASSUME NEW d \in Calls, d # c PROVE Sound(d)'
  <2>1. /\ call'[d] = call[d]
        /\ Excuse(d) => Excuse(d)'
        /\ Checked(d) => Excuse(d)' \/ balance' = balance
    BY <1>1, <1>2, OthersAreWarned
  <2> QED
    BY <2>1 DEF PayInv, Sound, Unspent, Covered, Settled, Checked, At
<1>3. Sound(c)'
  <2> USE <1>1 DEF Sound, Unspent, Covered, Settled, Checked, At
  <2>1. ASSUME NEW kind \in Kinds, NEW est \in Estimates, Request(c, kind, est) \/ StudioStarts(c, est)
        PROVE  Sound(c)'
    <3>1. /\ call'[c].phase \in {"check", "charge"} /\ call'[c].taken = 0
          /\ call'[c].phase = "charge" => call'[c].kind = "overlay"
      BY <2>1 DEF Request, StudioStarts, NoCall, CallsTyped
    <3> QED
      BY <3>1
  <2>2. CASE Check(c)
    <3>1. /\ call'[c] = [call[c] EXCEPT !.phase = "ask"] /\ balance >= call[c].est
          \/ call'[c] = [call[c] EXCEPT !.phase = "refused"]
      BY <2>2 DEF Check, CanSpend, Ends, Go, CallsTyped
    <3>2. balance' = balance /\ call[c].phase = "check"
      BY <2>2 DEF Check
    <3> QED
      BY <3>1, <3>2 DEF CallsTyped, CallRec
  <2>3. CASE CheckFails(c)
    <3>1. \/ call'[c] = [call[c] EXCEPT !.phase = "ask"] /\ Excuse(c)'
          \/ call'[c] = [call[c] EXCEPT !.phase = "refused"]
      BY <2>3 DEF CheckFails, OpenOnFailure, Go, Excuse, CallsTyped
    <3>2. call[c].phase = "check"
      BY <2>3 DEF CheckFails
    <3> QED
      BY <3>1, <3>2 DEF CallsTyped, CallRec
  <2>4. CASE FirstChunk(c) \/ ProviderFails(c)
    <3>1. /\ call'[c] = [call[c] EXCEPT !.phase = "more"] \/ call'[c] = [call[c] EXCEPT !.phase = "failed"]
          /\ Checked(c) /\ UNCHANGED <<balance, overtaken, unheard, capped>>
      BY <2>4 DEF FirstChunk, ProviderFails, Ends, Go, CallsTyped
    <3> QED
      BY <3>1 DEF CallsTyped, CallRec, Excuse, InPlatform
  <2>5. CASE ProviderAnswers(c)
    <3>1. PICK cost : call' = [call EXCEPT ![c] = [@ EXCEPT !.phase = "charge", !.cost = cost, !.answered = TRUE]]
      BY <2>5 DEF ProviderAnswers
    <3>2. /\ call'[c].phase = "charge" /\ call'[c].kind = call[c].kind
          /\ call'[c].est = call[c].est /\ call'[c].taken = call[c].taken
      BY <3>1 DEF CallsTyped, CallRec
    <3>3. Checked(c) /\ UNCHANGED <<balance, overtaken, unheard, capped>>
      BY <2>5 DEF ProviderAnswers
    <3> QED
      BY <3>2, <3>3 DEF Excuse, InPlatform
  <2>6. ASSUME NEW n \in Nat, NEW phase \in {"answer", "served"}, At(c, "charge"), UNCHANGED unheard,
               capped \subseteq capped',
               Takes(c, n), n <= call[c].cost,
               call' = [call EXCEPT ![c] = [@ EXCEPT !.taken = call[c].taken + n, !.phase = phase]],
               balance >= call[c].cost => n = call[c].cost \/ (c \in capped' /\ InPlatform(c)),
               n = call[c].cost \/ (phase = "answer" /\ n = 0) \/ call[c].kind # "overlay"
        PROVE  Sound(c)'
    <3>1. call'[c].phase = phase /\ call'[c].taken = n
      <4>1. call[c].taken = 0
        BY <2>6
      <4> QED
        BY <2>6, <4>1 DEF CallsTyped, CallRec
    <3>2. call'[c].kind = call[c].kind /\ call'[c].est = call[c].est /\ call'[c].cost = call[c].cost
      BY <2>6 DEF CallsTyped, CallRec
    <3>3. /\ Excuse(c) => Excuse(c)'
          /\ c \in capped' /\ InPlatform(c) => Excuse(c)'
      BY <2>6, <3>2 DEF Takes, Excuse, InPlatform
    <3>4. /\ call[c].est \in Nat /\ call[c].cost \in Nat /\ balance \in Nat
          /\ Excuse(c) \/ balance >= call[c].est \/ call[c].kind = "overlay"
      BY <2>6 DEF CallsTyped, CallRec
    <3>5. n < call[c].cost => \/ Excuse(c) \/ (c \in capped' /\ InPlatform(c))
                              \/ call[c].cost > call[c].est
                              \/ phase = "answer" /\ call[c].kind = "overlay" /\ n = 0
      BY <2>6, <3>4
    <3> QED
      BY <3>1, <3>2, <3>3, <3>5
  <2>7. CASE Charge(c)
    <3>1. /\ SpentFor(call[c].cost) \in Nat /\ SpentFor(call[c].cost) <= call[c].cost
          /\ balance >= call[c].cost => SpentFor(call[c].cost) = call[c].cost \/ c \in capped'
          /\ SpentFor(call[c].cost) \in {0, call[c].cost}
          /\ capped \subseteq capped'
      BY <2>7 DEF Charge, SpentFor, CallsTyped, CallRec
    <3> QED
      BY <2>6, <2>7, <3>1 DEF Charge
  <2>8. CASE Report(c)
    <3> DEFINE n == IF balance < call[c].cost THEN balance ELSE call[c].cost
    <3>1. n \in Nat /\ n <= call[c].cost /\ (balance >= call[c].cost => n = call[c].cost)
      BY DEF CallsTyped, CallRec
    <3>2. /\ At(c, "charge") /\ UNCHANGED <<unheard, capped>> /\ Takes(c, n) /\ call[c].kind # "overlay"
          /\ call' = [call EXCEPT ![c] = [@ EXCEPT !.taken = call[c].taken + n, !.phase = "served"]]
      BY <2>8 DEF Report, InPlatform
    <3> HIDE DEF n
    <3> QED
      BY <2>6, <3>1, <3>2
  <2>9. CASE Answer(c)
    <3>1. /\ call'[c] = [call[c] EXCEPT !.phase = IF call[c].kind = "overlay" /\ call[c].taken = 0
                                                    THEN "refused" ELSE "served"]
          /\ call[c].phase = "answer" /\ UNCHANGED <<balance, overtaken, unheard, capped>>
      BY <2>9 DEF Answer, Ends, Go, CallsTyped
    <3> QED
      BY <3>1 DEF CallsTyped, CallRec, Excuse, InPlatform
  <2>10. CASE ReportFails(c)
    <3>1. call'[c] = [call[c] EXCEPT !.phase = "served"] /\ Excuse(c)'
      BY <2>10 DEF ReportFails, Go, Excuse, CallsTyped
    <3> QED
      BY <3>1 DEF CallsTyped, CallRec
  <2> QED
    BY <2>1, <2>2, <2>3, <2>4, <2>5, <2>7, <2>8, <2>9, <2>10 DEF Serve, Kinds
<1> QED
  BY <1>1, <1>2, <1>3 DEF PayInv

LEMMA PayNext == PayInv /\ [GatewayNext]_gvars => PayInv'
<1> SUFFICES ASSUME PayInv, [GatewayNext]_gvars PROVE PayInv'
  OBVIOUS
<1>1. CASE CutAll /\ UNCHANGED <<balance, overtaken, unheard, capped>>
  <2>1. CallsTyped'
    BY <1>1, CutTyped DEF PayInv, CallsTyped
  <2>2. \A c \in Calls : call'[c] = call[c] \/ call'[c] = [call[c] EXCEPT !.phase = "cut"]
    BY <1>1 DEF CutAll
  <2> QED
    BY <1>1, <2>1, <2>2 DEF PayInv, Sound, Unspent, Covered, Checked, Settled, Excuse, InPlatform, At, CallsTyped, CallRec
<1>2. CASE UNCHANGED <<call, balance, overtaken, unheard, capped>>
  BY <1>2 DEF PayInv, CallsTyped, Sound, Unspent, Covered, Checked, Settled, Excuse, InPlatform, At
<1> QED
  BY <1>1, <1>2, ServePays DEF GatewayNext, SetCap, MonthPasses, Shutdown, Signal, ServerEnds, Crash, Restart, gvars

(* A served call that was not paid in full was overtaken by another charge, *)
(* cost more than its estimate, belongs to a studio whose check or report   *)
(* did not get through, or was refused for the monthly cap, which no check  *)
(* looks at ("Edge case", gateway/routes.py; try_spend, credits/manager.py).*)
THEOREM UnpaidHasAnExcuse == GatewaySpec => []UnpaidIsExcused
<1>1. PayInv => UnpaidIsExcused
  BY DEF PayInv, Sound, Settled, Excuse, UnpaidIsExcused, At
<1> QED
  BY <1>1, PayInit, PayNext, PTL DEF GatewaySpec
------------------------------------------------------------------------------
(* The tokens paid, counted.  The set of the tokens that a table of amounts *)
(* stands for grows by n when one call's amount goes from 0 to n.           *)
Amounts   == [c \in Calls |-> call[c].taken]
Tokens(t) == UNION {{c} \X (1 .. t[c]) : c \in Calls}

LEMMA PairsOfOne ==
  ASSUME NEW c, NEW n \in Nat
  PROVE  IsFiniteSet({c} \X (1 .. n)) /\ Cardinality({c} \X (1 .. n)) = n
<1>1. /\ IsFiniteSet(1 .. n)
      /\ Cardinality(1 .. n) = IF 1 > n THEN 0 ELSE n - 1 + 1
  <2>1. 1 \in Int /\ n \in Int
    OBVIOUS
  <2> QED
    BY <2>1, FS_Interval, Zenon
<1>2. Cardinality(1 .. n) = n
  BY <1>1
<1>3. IsFiniteSet({c}) /\ Cardinality({c}) = 1
  BY FS_Singleton
<1>4. /\ IsFiniteSet({c} \X (1 .. n))
      /\ Cardinality({c} \X (1 .. n)) = Cardinality({c}) * Cardinality(1 .. n)
  BY <1>1, <1>3, FS_Product, Zenon
<1> QED
  BY <1>2, <1>3, <1>4

LEMMA TokensAdd ==
  ASSUME NEW t \in [Calls -> Nat], IsFiniteSet(Tokens(t)), NEW c \in Calls, t[c] = 0, NEW n \in Nat
  PROVE  /\ IsFiniteSet(Tokens([t EXCEPT ![c] = n]))
         /\ Cardinality(Tokens([t EXCEPT ![c] = n])) = Cardinality(Tokens(t)) + n
<1> DEFINE new == {c} \X (1 .. n)
<1>1. Tokens([t EXCEPT ![c] = n]) = Tokens(t) \cup new
  <2> DEFINE u == [t EXCEPT ![c] = n]
  <2>1. u[c] = n /\ \A d \in Calls \ {c} : u[d] = t[d]
    OBVIOUS
  <2>2. {c} \X (1 .. t[c]) = {}
    OBVIOUS
  <2> HIDE DEF u
  <2>3. Tokens(u) \subseteq Tokens(t) \cup new
    BY <2>1 DEF Tokens
  <2>4. Tokens(t) \subseteq Tokens(u)
    BY <2>1, <2>2 DEF Tokens
  <2>5. new \subseteq Tokens(u)
    BY <2>1 DEF Tokens
  <2> QED
    BY <2>3, <2>4, <2>5 DEF u
<1>2. Tokens(t) \cap new = {}
  BY DEF Tokens
<1>3. IsFiniteSet(new) /\ Cardinality(new) = n
  BY PairsOfOne
<1>4. Cardinality(Tokens(t)) \in Nat
  BY FS_CardinalityType
<1> HIDE DEF new
<1>5. /\ IsFiniteSet(Tokens(t) \cup new)
      /\ Cardinality(Tokens(t) \cup new) = Cardinality(Tokens(t)) + Cardinality(new) - Cardinality({})
  BY <1>2, <1>3, FS_Union
<1>6. Cardinality({}) = 0
  BY FS_EmptySet
<1>7. Cardinality(Tokens(t) \cup new) = Cardinality(Tokens(t)) + n
  BY <1>3, <1>4, <1>5, <1>6
<1> QED
  BY <1>1, <1>5, <1>7, Zenon

(* A call took at most its cost, once the provider had answered it or as an *)
(* overlay's spend; and a call that may be charged is of one of these two.  *)
Earned(c) == call[c].answered \/ call[c].kind = "overlay"
Fair(c)   == /\ At(c, "charge") => Earned(c)
             /\ call[c].taken > 0 => /\ call[c].taken <= call[c].cost
                                     /\ Earned(c)
                                     /\ call[c].phase \in {"answer", "served", "cut"}
Booked    == /\ IsFiniteSet(Tokens(Amounts))
             /\ Opening - balance = Cardinality(Tokens(Amounts))
BillInv   == Booked /\ \A c \in Calls : Fair(c)

LEMMA BillInit == GatewayInit => BillInv
<1> SUFFICES ASSUME GatewayInit PROVE BillInv
  OBVIOUS
<1>1. \A c \in Calls : call[c] = NoCall
  BY DEF GatewayInit
<1>2. Tokens(Amounts) = {}
  BY <1>1 DEF Tokens, Amounts, NoCall
<1>3. Booked
  BY <1>2, FS_EmptySet, CallsAssumption DEF Booked, GatewayInit, CallsAssumption
<1> QED
  BY <1>1, <1>3 DEF BillInv, Fair, NoCall, At

(* The charge of a call that has paid nothing.                              *)
LEMMA ChargeBills ==
  ASSUME PayInv, BillInv, NEW c \in Calls, At(c, "charge"), NEW n \in Nat, n <= call[c].cost,
         NEW phase \in {"answer", "served"}, Takes(c, n),
         call' = [call EXCEPT ![c] = [@ EXCEPT !.taken = call[c].taken + n, !.phase = phase]]
  PROVE  BillInv'
<1>1. call \in [Calls -> CallRec] /\ call[c].taken = 0 /\ balance \in Nat
  BY DEF PayInv, CallsTyped, Sound, Unspent, At
<1>2. /\ call'[c].taken = n /\ call'[c].phase = phase /\ call'[c].cost = call[c].cost
      /\ call'[c].answered = call[c].answered /\ call'[c].kind = call[c].kind
      /\ \A d \in Calls \ {c} : call'[d] = call[d]
  BY <1>1 DEF CallRec
<1>3. Amounts' = [Amounts EXCEPT ![c] = n]
  <2>1. \A d \in Calls : call'[d].taken = IF d = c THEN n ELSE Amounts[d]
    BY <1>2 DEF Amounts
  <2>2. Amounts' = [d \in Calls |-> call'[d].taken]
    BY DEF Amounts
  <2>3. Amounts = [d \in Calls |-> Amounts[d]]
    BY DEF Amounts
  <2> QED
    BY <2>1, <2>2, <2>3
<1>4. Amounts \in [Calls -> Nat] /\ Amounts[c] = 0
  BY <1>1 DEF Amounts, CallRec
<1>5. /\ IsFiniteSet(Tokens([Amounts EXCEPT ![c] = n]))
      /\ Cardinality(Tokens([Amounts EXCEPT ![c] = n])) = Cardinality(Tokens(Amounts)) + n
  BY <1>4, TokensAdd DEF BillInv, Booked
<1>6. Tokens(Amounts)' = Tokens([Amounts EXCEPT ![c] = n])
  BY <1>3 DEF Tokens
<1>7. Booked'
  BY <1>1, <1>5, <1>6, CallsAssumption DEF BillInv, Booked, Takes, CallsAssumption
<1>8. ASSUME NEW d \in Calls PROVE Fair(d)'
  BY <1>1, <1>2 DEF BillInv, Fair, Earned, At
<1> QED
  BY <1>7, <1>8 DEF BillInv

(* Any other step of a call takes nothing.                                  *)
LEMMA NothingBilled ==
  ASSUME PayInv, BillInv, NEW c \in Calls, balance' = balance,
         \A d \in Calls \ {c} : call'[d] = call[d],
         call'[c].taken = call[c].taken, Fair(c)'
  PROVE  BillInv'
<1>1. Amounts' = Amounts
  BY DEF Amounts
<1>2. Booked'
  BY <1>1 DEF BillInv, Booked, Tokens
<1> QED
  BY <1>2 DEF BillInv, Fair, Earned, At

LEMMA ServeBills ==
  ASSUME PayInv, BillInv, NEW c \in Calls, Serve(c)
  PROVE  BillInv'
<1>1. call \in [Calls -> CallRec] /\ balance \in Nat /\ Fair(c) /\ Unspent(c)
  BY DEF PayInv, CallsTyped, BillInv, Sound
<1>2. ASSUME NEW kind \in Kinds, NEW est \in Estimates, Request(c, kind, est) \/ StudioStarts(c, est)
      PROVE  BillInv'
  <2>1. /\ call'[c].taken = 0 /\ call'[c].phase \in {"check", "charge"}
        /\ call'[c].phase = "charge" => call'[c].kind = "overlay"
        /\ \A d \in Calls \ {c} : call'[d] = call[d]
        /\ balance' = balance /\ call[c].phase = "none"
    <3>1. CASE Request(c, kind, est)
      BY <1>1, <3>1 DEF Request, NoCall, At
    <3>2. CASE StudioStarts(c, est)
      BY <1>1, <3>2 DEF StudioStarts, NoCall, At
    <3> QED
      BY <1>2, <3>1, <3>2
  <2> QED
    BY <1>1, <2>1, NothingBilled DEF Fair, Earned, At, Unspent
<1>3. ASSUME NEW phase \in Running \cup Ended, phase # "charge", Go(c, phase), balance' = balance,
             call[c].taken > 0 => phase = "served"
      PROVE  BillInv'
  <2>1. /\ call'[c].taken = call[c].taken /\ call'[c].phase = phase /\ call'[c].cost = call[c].cost
        /\ call'[c].answered = call[c].answered /\ call'[c].kind = call[c].kind
        /\ \A d \in Calls \ {c} : call'[d] = call[d]
    BY <1>1, <1>3 DEF Go, CallRec
  <2> QED
    BY <1>1, <1>3, <2>1, NothingBilled DEF Fair, Earned, At
<1>4. CASE Check(c) \/ CheckFails(c) \/ FirstChunk(c) \/ ProviderFails(c) \/ Answer(c) \/ ReportFails(c)
  <2>1. PICK phase \in Running \cup Ended :
          /\ Go(c, phase) /\ balance' = balance /\ phase # "charge"
          /\ call[c].phase = "answer" => \/ phase = "served"
                                         \/ call[c].kind = "overlay" /\ call[c].taken = 0
          /\ call[c].phase \in {"check", "ask", "more", "charge", "answer"}
    BY <1>4 DEF Check, CheckFails, FirstChunk, ProviderFails, Answer, ReportFails, Ends, Running, Ended, At
  <2> QED
    BY <1>1, <1>3, <2>1 DEF Unspent
<1>5. CASE ProviderAnswers(c)
  <2>1. PICK cost : call' = [call EXCEPT ![c] = [@ EXCEPT !.phase = "charge", !.cost = cost, !.answered = TRUE]]
    BY <1>5 DEF ProviderAnswers
  <2>2. /\ call'[c].phase = "charge" /\ call'[c].answered /\ call'[c].taken = call[c].taken
        /\ \A d \in Calls \ {c} : call'[d] = call[d]
    BY <1>1, <2>1 DEF CallRec
  <2>3. call[c].taken = 0 /\ balance' = balance
    BY <1>1, <1>5 DEF ProviderAnswers, Unspent
  <2> QED
    BY <2>2, <2>3, NothingBilled DEF Fair, Earned, At
<1>6. CASE Charge(c)
  <2>1. SpentFor(call[c].cost) \in Nat /\ SpentFor(call[c].cost) <= call[c].cost
    BY <1>1 DEF SpentFor, CallRec
  <2> QED
    BY <1>6, <2>1, ChargeBills DEF Charge
<1>7. CASE Report(c)
  <2> DEFINE n == IF balance < call[c].cost THEN balance ELSE call[c].cost
  <2>1. n \in Nat /\ n <= call[c].cost
    BY <1>1 DEF CallRec
  <2>2. /\ At(c, "charge") /\ Takes(c, n)
        /\ call' = [call EXCEPT ![c] = [@ EXCEPT !.taken = call[c].taken + n, !.phase = "served"]]
    BY <1>7 DEF Report
  <2> HIDE DEF n
  <2> QED
    BY <2>1, <2>2, ChargeBills
<1> QED
  BY <1>2, <1>4, <1>5, <1>6, <1>7 DEF Serve, Kinds

LEMMA BillNext == PayInv /\ BillInv /\ [GatewayNext]_gvars => BillInv'
<1> SUFFICES ASSUME PayInv, BillInv, [GatewayNext]_gvars PROVE BillInv'
  OBVIOUS
<1>1. call \in [Calls -> CallRec]
  BY DEF PayInv, CallsTyped
<1>2. CASE balance' = balance /\ (CutAll \/ UNCHANGED call)
  <2>1. \A c \in Calls : \/ call'[c] = call[c]
                         \/ call'[c] = [call[c] EXCEPT !.phase = "cut"]
    BY <1>2 DEF CutAll
  <2>2. \A c \in Calls : /\ call'[c].taken = call[c].taken /\ call'[c].cost = call[c].cost
                         /\ call'[c].answered = call[c].answered /\ call'[c].kind = call[c].kind
                         /\ call'[c].phase \in {call[c].phase, "cut"}
    BY <1>1, <2>1 DEF CallRec
  <2>3. Amounts' = Amounts
    BY <2>2 DEF Amounts
  <2>4. Booked'
    BY <1>2, <2>3 DEF BillInv, Booked, Tokens
  <2>5. ASSUME NEW c \in Calls PROVE Fair(c)'
    BY <2>2 DEF BillInv, Fair, Earned, At
  <2> QED
    BY <2>4, <2>5 DEF BillInv
<1> QED
  BY <1>2, ServeBills DEF GatewayNext, SetCap, MonthPasses, Shutdown, Signal, ServerEnds, Crash, Restart, gvars

(* What has left the wallet was taken once, for calls the provider answered *)
(* or the overlay priced, at no more than their cost: a call that was       *)
(* refused, or failed at any chunk, is never paid (gateway/routes.py,       *)
(* credits/client.py).                                                      *)
THEOREM BillsStayFair == GatewaySpec => []BillsAreFair
<1>1. PayInv /\ BillInv => BillsAreFair
  <2>1. PayInv /\ BillInv => Paid = Tokens(Amounts)
    BY DEF Paid, Tokens, Amounts
  <2> QED
    BY <2>1 DEF BillInv, Booked, Fair, Earned, BillsAreFair
<1> QED
  BY <1>1, PayInit, PayNext, BillInit, BillNext, PTL DEF GatewaySpec
==============================================================================
