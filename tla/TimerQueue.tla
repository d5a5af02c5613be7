----------------------------- MODULE TimerQueue -----------------------------
(***************************************************************************)
(* What the scheduler promises to the modules that use it.  Every owner (a *)
(* client socket of the HTTP module) has at most one timer.  Between runs  *)
(* of the timers their owners arm and cancel them.  In a run timers        *)
(* expire, each once and never before its time.  When the process shuts    *)
(* down, the last run goes on until every timer has expired.               *)
(***************************************************************************)
EXTENDS Integers

CONSTANTS Owner,      \* who can hold a timer
          MaxTime,    \* bound on the clock
          NoTimer     \* what a timer is that is not armed: no time

VARIABLES armed,      \* for every owner the time its timer is due, or NoTimer
          clock,      \* time(NULL)
          expiring,   \* callbacks of timers are run
          closing     \* the server loop has been left

vars == <<armed, clock, expiring, closing>>

TypeOK ==
  /\ armed \in [Owner -> 0..MaxTime \union {NoTimer}]
  /\ clock \in 0..MaxTime
  /\ expiring \in BOOLEAN
  /\ closing \in BOOLEAN

Init ==
  /\ armed = [o \in Owner |-> NoTimer]
  /\ clock = 0
  /\ expiring = FALSE
  /\ closing = FALSE

(* A module sets a timer, at or after the present time.                    *)
Arm(o) ==
  /\ ~expiring /\ ~closing
  /\ armed[o] = NoTimer
  /\ \E t \in clock..MaxTime : armed' = [armed EXCEPT ![o] = t]
  /\ UNCHANGED <<clock, expiring, closing>>

Cancel(o) ==
  /\ ~expiring /\ ~closing
  /\ armed[o] # NoTimer
  /\ armed' = [armed EXCEPT ![o] = NoTimer]
  /\ UNCHANGED <<clock, expiring, closing>>

StartRun ==
  /\ ~expiring /\ ~closing
  /\ expiring' = TRUE
  /\ UNCHANGED <<armed, clock, closing>>

(* The callback of the timer runs, and the timer is gone.                  *)
Expire(o) ==
  /\ expiring
  /\ armed[o] # NoTimer
  /\ closing \/ armed[o] <= clock
  /\ armed' = [armed EXCEPT ![o] = NoTimer]
  /\ UNCHANGED <<clock, expiring, closing>>

EndRun ==
  /\ expiring
  /\ closing => armed = [o \in Owner |-> NoTimer]
  /\ expiring' = FALSE
  /\ UNCHANGED <<armed, clock, closing>>

Tick ==
  /\ clock < MaxTime
  /\ clock' = clock + 1
  /\ UNCHANGED <<armed, expiring, closing>>

(* The loop is left for the last run.                                      *)
Close ==
  /\ ~closing
  /\ closing' = TRUE
  /\ expiring' = TRUE
  /\ UNCHANGED <<armed, clock>>

Next ==
  \/ \E o \in Owner : Arm(o) \/ Cancel(o) \/ Expire(o)
  \/ StartRun
  \/ EndRun
  \/ Tick
  \/ Close

Spec == Init /\ [][Next]_vars
=============================================================================
