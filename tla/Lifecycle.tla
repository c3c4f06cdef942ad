------------------------------ MODULE Lifecycle ------------------------------
(***************************************************************************)
(* How one process of the platform ends (lifecycle/middleware.py): the     *)
(* drain, the shutdown endpoint, the idle watchdog, and what the server    *)
(* does with the interrupts they send.  Gateway.tla puts requests in it.   *)
(***************************************************************************)
EXTENDS Integers

CONSTANTS
  Stops,      (* runs of _do_shutdown that may be in one life of a process *)
  Watchdog    (* the one the idle watchdog awaits                          *)

VARIABLES
  proc,       (* up, stopping (the server was interrupted), or down        *)
  draining,   (* _draining                                                 *)
  inFlight,   (* _in_flight                                                *)
  socket,     (* a websocket is open: _active_websockets > 0               *)
  quiet,      (* nothing has happened for IDLE_EXIT_SECONDS                *)
  stop,       (* per run of _do_shutdown, how far it is                    *)
  together    (* two stops were asked for before the drain began           *)

lvars == <<proc, draining, inFlight, socket, quiet, stop, together>>

Progress == {"none", "asked", "waiting", "drained", "late", "signalled"}

Alone == \A k \in Stops : stop[k] # "asked"

Fresh == /\ draining = FALSE /\ inFlight = 0 /\ socket = FALSE /\ quiet = FALSE
         /\ stop = [k \in Stops |-> "none"]
         /\ together = FALSE

(* A new process.                                                           *)
Restarted == /\ proc' = "up"
             /\ draining' = FALSE /\ inFlight' = 0 /\ socket' = FALSE /\ quiet' = FALSE
             /\ stop' = [k \in Stops |-> "none"]
             /\ together' = FALSE
------------------------------------------------------------------------------
Admits == proc = "up" /\ ~draining

(* DrainMiddleware counts a request in, and out however it ends.            *)
Enter == /\ Admits
         /\ inFlight' = inFlight + 1 /\ quiet' = FALSE
         /\ UNCHANGED <<proc, draining, socket, stop, together>>

(* A request that comes and goes in one step.                               *)
Visit == /\ Admits
         /\ quiet' = FALSE
         /\ UNCHANGED <<proc, draining, inFlight, socket, stop, together>>

(* Mutation: a request is only counted out while there is no drain.         *)
StaysCounted == /\ inFlight' = IF draining THEN inFlight ELSE inFlight - 1
                /\ UNCHANGED <<proc, draining, socket, quiet, stop, together>>

Leave == /\ inFlight' = inFlight - 1
         /\ UNCHANGED <<proc, draining, socket, quiet, stop, together>>

(* A websocket opens and closes, drain or not.                              *)
Socket == /\ proc = "up" /\ socket' = ~socket /\ quiet' = FALSE
          /\ UNCHANGED <<proc, draining, inFlight, stop, together>>

TimePasses == /\ proc = "up" /\ ~quiet /\ quiet' = TRUE
              /\ UNCHANGED <<proc, draining, inFlight, socket, stop, together>>

(* Mutation: a shutdown is started whatever is under way.                   *)
AsksAgain == TRUE

MayAsk == ~draining

(* POST lifecycle/shutdown: the stop is a task that runs later.             *)
Ask(k) == /\ proc = "up" /\ k # Watchdog /\ stop[k] = "none"
          /\ MayAsk
          /\ stop' = [stop EXCEPT ![k] = "asked"]
          /\ together' = (together \/ ~Alone)
          /\ UNCHANGED <<proc, draining, inFlight, socket, quiet>>

(* request_shutdown, the first line of _do_shutdown.                        *)
Drain(k) == /\ proc # "down" /\ stop[k] = "asked"
            /\ draining' = TRUE
            /\ stop' = [stop EXCEPT ![k] = "waiting"]
            /\ UNCHANGED <<proc, inFlight, socket, quiet, together>>

(* _idle_watchdog decides and drains in one step; the requests in flight    *)
(* are none of its conditions.                                              *)
IdleExit == /\ proc = "up" /\ stop[Watchdog] = "none"
            /\ ~draining /\ ~socket /\ quiet
            /\ draining' = TRUE
            /\ stop' = [stop EXCEPT ![Watchdog] = "waiting"]
            /\ together' = (together \/ ~Alone)
            /\ UNCHANGED <<proc, inFlight, socket, quiet>>

(* _wait_for_drain: nothing in flight, or five seconds are over.            *)
WaitEnds(k) == /\ proc # "down" /\ stop[k] = "waiting"
               /\ stop' = [stop EXCEPT ![k] = IF inFlight = 0 THEN "drained" ELSE "late"]
               /\ UNCHANGED <<proc, draining, inFlight, socket, quiet, together>>

(* The interrupt.  The server's first one makes it refuse connections and   *)
(* finish what it has; the second makes it leave at once.                   *)
Interrupt(k) == /\ proc # "down" /\ stop[k] \in {"drained", "late"}
                /\ stop' = [stop EXCEPT ![k] = "signalled"]
                /\ proc' = IF proc = "up" THEN "stopping" ELSE "down"
                /\ UNCHANGED <<draining, inFlight, socket, quiet, together>>

(* The server has nothing left to finish; websockets it closes itself.      *)
Finish == /\ proc = "stopping" /\ proc' = "down"
          /\ UNCHANGED <<draining, inFlight, socket, quiet, stop, together>>

(* The machine, the orchestrator or the kernel ends the process.            *)
Die == /\ proc # "down" /\ proc' = "down"
       /\ UNCHANGED <<draining, inFlight, socket, quiet, stop, together>>
------------------------------------------------------------------------------
LifeType ==
  /\ proc \in {"up", "stopping", "down"}
  /\ <<draining, socket, quiet, together>> \in BOOLEAN \X BOOLEAN \X BOOLEAN \X BOOLEAN
  /\ inFlight \in Nat
  /\ stop \in [Stops -> Progress]
==============================================================================
