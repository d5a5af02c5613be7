-------------------------- MODULE PancakeScheduler --------------------------
(***************************************************************************)
(* The event scheduler (PancakeScheduler.c) inside the loop that drives it *)
(* (the wait functions of the server architectures): a circular list of    *)
(* events in order of their time, a cache of event instances, and a loop   *)
(* that sleeps until the first event is due, lets the network handlers run,*)
(* executes the due events and, on shutdown, drains the list.              *)
(*                                                                         *)
(* The circular list is the sequence of its elements from the head on: the *)
(* element after the last one is the head again.  The handlers belong to   *)
(* other modules; what they do to the scheduler is what the HTTP module    *)
(* does: an owner (a client socket) keeps the pointer to the one event it  *)
(* has scheduled, unschedules only through it, and is gone once the        *)
(* callback of the event has run.                                          *)
(***************************************************************************)
EXTENDS Integers, SequencesExt

CONSTANTS Event,        \* memory for event instances (bound on their number)
          Owner,        \* the sockets an event can be scheduled for
          NULL,         \* the null pointer
          Timeouts,     \* the configured request and keep-alive timeouts
          IdleTimeout,  \* how long the loop sleeps when nothing is scheduled
          MaxTime       \* bound on the clock

ASSUME NullAssumption == NULL \notin Event /\ NULL \notin Owner /\ NULL \notin Nat
ASSUME TimeAssumption ==
  MaxTime \in Nat /\ IdleTimeout \in Nat /\ Timeouts \subseteq Nat

VARIABLES
  events,         \* the waiting events, as the sequence from the head on
  unusedEvents,   \* the cached instances; their order is left open
  time,           \* field of every instance: when it is due
  arg,            \* field of every instance: whose event it is
  schedulerEvent, \* the pointer every owner keeps to its event
  clock,          \* time(NULL)
  doShutdown,     \* PancakeDoShutdown
  pc,             \* where the loop is
  wakeAt,         \* waiting: when the call that waits times out
  now,            \* running: the time read on entry
  ev,             \* running and draining: the element to be visited
  tail            \* running and draining: tmp, the last element on entry

vars == <<events, unusedEvents, time, arg, schedulerEvent, clock, doShutdown,
          pc, wakeAt, now, ev, tail>>
fields == <<time, arg>>
loop == <<pc, wakeAt, now, ev, tail>>

Phase == {"waiting", "handling", "running", "draining", "stopped"}

TypeOK ==
  /\ events \in Seq(Event)
  /\ unusedEvents \in SUBSET Event
  /\ time \in [Event -> Nat]
  /\ arg \in [Event -> Owner \union {NULL}]
  /\ schedulerEvent \in [Owner -> Event \union {NULL}]
  /\ clock \in Nat
  /\ doShutdown \in BOOLEAN
  /\ pc \in Phase
  /\ wakeAt \in Nat
  /\ now \in Nat
  /\ ev \in Event \union {NULL}
  /\ tail \in Event \union {NULL}

-----------------------------------------------------------------------------
(* The list.                                                               *)

PositionOf(list, e) == CHOOSE i \in DOMAIN list : list[i] = e

DeletesHead(list, e) == Tail(list)  \* A bug: takes the head for the element

(* CDL_DELETE                                                              *)
Delete(list, e) == RemoveAt(list, PositionOf(list, e))

(* The element a pointer to the next one leads to: the list is circular.   *)
NextOf(list, e) ==
  IF e = Last(list) THEN Head(list) ELSE list[PositionOf(list, e) + 1]

(* Where the loop over the list finds room for an event due at t, which is *)
(* neither before the first nor after the last one.                        *)
Gaps(list, t) ==
  {i \in 2..Len(list) : \/ time[list[i-1]] = t
                        \/ time[list[i-1]] < t /\ t <= time[list[i]]}

InsertsFirst(list, e, t) == Cons(e, list)  \* A bug: reverse order

Insert(list, e, t) ==
  IF list = <<>> \/ time[Last(list)] <= t THEN Append(list, e)
  ELSE IF time[Head(list)] >= t THEN Cons(e, list)
  ELSE IF Gaps(list, t) = {} THEN list
  ELSE InsertAt(list, Min(Gaps(list, t)), e)

(* A cached instance if there is one, else new memory.                     *)
Instances ==
  IF unusedEvents # {} THEN unusedEvents ELSE Event \ ToSet(events)

(* mutants: no look at the list; the kernel's "no timeout" when nothing is *)
(* scheduled                                                               *)
OffsetIsIdle(list, t) == IdleTimeout
OffsetInfinite(list, t) ==
  IF list = <<>> THEN -1
  ELSE IF time[Head(list)] < t THEN 0
  ELSE time[Head(list)] - t

(* PancakeSchedulerGetNextExecutionTimeOffset                              *)
NextExecutionTimeOffset(list, t) ==
  IF list = <<>> THEN IdleTimeout
  ELSE IF time[Head(list)] < t THEN 0
  ELSE time[Head(list)] - t

-----------------------------------------------------------------------------

Init ==
  /\ events = <<>>
  /\ unusedEvents = {}
  /\ time = [e \in Event |-> 0]
  /\ arg = [e \in Event |-> NULL]
  /\ schedulerEvent = [o \in Owner |-> NULL]
  /\ clock = 0
  /\ doShutdown = FALSE
  /\ pc = "waiting"
  /\ wakeAt = IdleTimeout
  /\ now = 0
  /\ ev = NULL
  /\ tail = NULL

Tick ==
  /\ clock < MaxTime
  /\ clock' = clock + 1
  /\ UNCHANGED <<events, unusedEvents, fields, schedulerEvent, doShutdown, loop>>

(* SIGINT or SIGTERM: the handler only sets the flag.                      *)
Signal ==
  /\ ~doShutdown
  /\ doShutdown' = TRUE
  /\ UNCHANGED <<events, unusedEvents, fields, schedulerEvent, clock, loop>>

(* A network handler schedules the event of owner o.                       *)
Schedule(o) ==
  /\ pc = "handling"
  /\ schedulerEvent[o] = NULL
  /\ \E timeout \in Timeouts, e \in Instances :
       LET t == clock + timeout IN
       /\ t <= MaxTime
       /\ time' = [time EXCEPT ![e] = t]
       /\ arg' = [arg EXCEPT ![e] = o]
       /\ schedulerEvent' = [schedulerEvent EXCEPT ![o] = e]
       /\ unusedEvents' = unusedEvents \ {e}
       /\ events' = Insert(events, e, t)
  /\ UNCHANGED <<clock, doShutdown, loop>>

(* A network handler unschedules the event of owner o.                     *)
Unschedule(o) ==
  /\ pc = "handling"
  /\ schedulerEvent[o] # NULL
  /\ events' = Delete(events, schedulerEvent[o])
  /\ unusedEvents' = unusedEvents \union {schedulerEvent[o]}
  /\ schedulerEvent' = [schedulerEvent EXCEPT ![o] = NULL]
  /\ UNCHANGED <<fields, clock, doShutdown, loop>>

-----------------------------------------------------------------------------
(* The loop.                                                               *)

EnterWait(list) ==
  /\ pc' = "waiting"
  /\ wakeAt' = clock + NextExecutionTimeOffset(list, clock)

(* Both CDL_FOREACH_SAFE loops start at the head and remember the tail.    *)
EnterList ==
  /\ ev' = IF events = <<>> THEN NULL ELSE Head(events)
  /\ tail' = IF events = <<>> THEN NULL ELSE Last(events)

(* The wait returns: something is ready (at any time) or it timed out.     *)
WakeUp ==
  /\ pc = "waiting"
  /\ pc' = "handling"
  /\ UNCHANGED <<events, unusedEvents, fields, schedulerEvent, clock, doShutdown,
                 wakeAt, now, ev, tail>>

(* The wait fails with EINTR.                                              *)
Interrupted ==
  /\ pc = "waiting"
  /\ \/ /\ doShutdown
        /\ pc' = "draining"
        /\ EnterList
        /\ UNCHANGED wakeAt
     \/ /\ ~doShutdown
        /\ EnterWait(events)
        /\ UNCHANGED <<ev, tail>>
  /\ UNCHANGED <<events, unusedEvents, fields, schedulerEvent, clock, doShutdown, now>>

(* mutant: an event due within the second is taken for due                 *)
StartRunAhead ==
  /\ pc = "handling"
  /\ pc' = "running"
  /\ now' = clock + 1
  /\ EnterList
  /\ UNCHANGED <<events, unusedEvents, fields, schedulerEvent, clock, doShutdown, wakeAt>>

(* PancakeSchedulerRun is called after the network events.                 *)
StartRun ==
  /\ pc = "handling"
  /\ pc' = "running"
  /\ now' = clock
  /\ EnterList
  /\ UNCHANGED <<events, unusedEvents, fields, schedulerEvent, clock, doShutdown, wakeAt>>

(* The callback of the visited event runs, which ends its owner's use of   *)
(* it, and the event leaves the list.                                      *)
Visit ==
  /\ events' = Delete(events, ev)
  /\ ev' = IF ev = tail THEN NULL ELSE NextOf(events, ev)
  /\ schedulerEvent' = [schedulerEvent EXCEPT ![arg[ev]] = NULL]
  /\ UNCHANGED <<fields, clock, doShutdown, pc, wakeAt, now, tail>>

RunEvent ==
  /\ pc = "running"
  /\ ev # NULL
  /\ time[ev] <= now
  /\ Visit
  /\ unusedEvents' = unusedEvents \union {ev}

EndRun ==
  /\ pc = "running"
  /\ ~(ev # NULL /\ time[ev] <= now)
  /\ \/ /\ doShutdown
        /\ pc' = "draining"
        /\ EnterList
        /\ UNCHANGED wakeAt
     \/ /\ ~doShutdown
        /\ EnterWait(events)
        /\ ev' = NULL
        /\ tail' = NULL
  /\ UNCHANGED <<events, unusedEvents, fields, schedulerEvent, clock, doShutdown, now>>

(* PancakeSchedulerShutdown runs every event and frees it ...              *)
DrainEvent ==
  /\ pc = "draining"
  /\ ev # NULL
  /\ Visit
  /\ UNCHANGED unusedEvents

(* mutant: the drain stops at the first event that is not due              *)
EndDrainEarly ==
  /\ pc = "draining"
  /\ ~(ev # NULL /\ time[ev] <= clock)
  /\ unusedEvents' = {}
  /\ pc' = "stopped"
  /\ UNCHANGED <<events, fields, schedulerEvent, clock, doShutdown, wakeAt, now, ev, tail>>

(* ... and then frees the cached instances.                                *)
EndDrain ==
  /\ pc = "draining"
  /\ ev = NULL
  /\ unusedEvents' = {}
  /\ pc' = "stopped"
  /\ UNCHANGED <<events, fields, schedulerEvent, clock, doShutdown, wakeAt, now, ev, tail>>

LoopStep ==
  \/ WakeUp \/ Interrupted \/ StartRun \/ RunEvent \/ EndRun
  \/ DrainEvent \/ EndDrain

Next ==
  \/ Tick
  \/ Signal
  \/ \E o \in Owner : Schedule(o) \/ Unschedule(o)
  \/ LoopStep

Spec == Init /\ [][Next]_vars

(* The process runs: handlers return, loops go on, and a wait that timed   *)
(* out returns.  Nothing obliges the kernel to return from a wait earlier, *)
(* and no signal and no handler is obliged to come.                        *)
Fairness ==
  /\ WF_vars(Tick)
  /\ WF_vars(WakeUp /\ clock >= wakeAt)
  /\ WF_vars(StartRun)
  /\ WF_vars(RunEvent)
  /\ WF_vars(EndRun)
  /\ WF_vars(DrainEvent)
  /\ WF_vars(EndDrain)

FairSpec == Spec /\ Fairness

-----------------------------------------------------------------------------
(* Properties.                                                             *)

(* The debug check at the end of PancakeSchedule asserts that every event  *)
(* is due no later than the ones after it (PancakeScheduler.c:55).         *)
Sorted ==
  \A i, j \in DOMAIN events : i < j => time[events[i]] <= time[events[j]]

(* Each instance is in at most one place: once in the list, or in the      *)
(* cache, so that handing one out never takes it from a waiting event.     *)
InstancesUnique ==
  /\ \A i, j \in DOMAIN events : events[i] = events[j] => i = j
  /\ unusedEvents \intersect ToSet(events) = {}

(* An owner's pointer leads to a waiting event that is its own, and every  *)
(* waiting event is known to its owner: no stale pointer is left behind    *)
(* when an instance is recycled for somebody else.                         *)
OwnersMatch ==
  /\ \A o \in Owner : schedulerEvent[o] # NULL =>
       schedulerEvent[o] \in ToSet(events) /\ arg[schedulerEvent[o]] = o
  /\ \A e \in ToSet(events) : arg[e] \in Owner /\ schedulerEvent[arg[e]] = e

(* PancakeSchedulerRun and -Shutdown delete what they visit while they     *)
(* iterate: the cursor stays on the head of what is left, the remembered   *)
(* tail on its end, and the loop is over exactly when the list is empty.   *)
CursorValid ==
  pc \in {"running", "draining"} =>
    /\ ev = IF events = <<>> THEN NULL ELSE Head(events)
    /\ events # <<>> => tail = Last(events)

(* While the loop sleeps and its deadline has not come, no event is due:   *)
(* the timeout it passed to the kernel covers every event, not just the    *)
(* ones its handlers knew about.                                           *)
NeverSleepsThroughEvent ==
  pc = "waiting" /\ clock < wakeAt => \A e \in ToSet(events) : time[e] >= wakeAt

(* The state invariant of PancakeScheduler.c and of the loop that asks it  *)
(* how long to sleep: the five parts above.                                *)
SchedulerInv ==
  /\ Sorted
  /\ InstancesUnique
  /\ OwnersMatch
  /\ CursorValid
  /\ NeverSleepsThroughEvent

(* One run of the scheduler executes every event that was due when it      *)
(* began, although it stops at the first one that is not.                  *)
RunIsComplete ==
  [][pc = "running" /\ pc' # "running" =>
       \A e \in ToSet(events) : time[e] > now]_vars

(* The process stops with nothing scheduled and nobody holding an event.   *)
StopsClean ==
  pc = "stopped" =>
    events = <<>> /\ \A o \in Owner : schedulerEvent[o] = NULL

(* A timer, as seen from outside: what the list says of each owner.        *)
Armed ==
  [o \in Owner |->
     IF \E e \in ToSet(events) : arg[e] = o
     THEN time[CHOOSE e \in ToSet(events) : arg[e] = o]
     ELSE NULL]

Timers ==
  INSTANCE TimerQueue WITH
    armed <- Armed, expiring <- pc \in {"running", "draining"},
    closing <- pc \in {"draining", "stopped"}, NoTimer <- NULL

(* The list and its loop implement the timers the modules rely on.         *)
ImplementsTimers == Timers!Spec

(* Every scheduled event is executed or unscheduled, sooner or later.      *)
TimersSettle ==
  \A o \in Owner : schedulerEvent[o] # NULL ~> schedulerEvent[o] = NULL
=============================================================================
