--------------------------- MODULE PancakeProcess ---------------------------
(***************************************************************************)
(* The life of the server's processes (Pancake.c, PancakeWorkers.c): the   *)
(* master initialises the modules in passes, as some of them defer until   *)
(* others are there, loads the configuration, forks the workers and sleeps *)
(* until a signal comes; whoever leaves its loop shuts down, the master    *)
(* after it has told the workers to do so.                                 *)
(*                                                                         *)
(* The modules come in the order in which the build lists them, which may  *)
(* be any; what they register is kept as pairs of a place in the tree of   *)
(* configuration and the name that may be used there.  A worker's loop is  *)
(* that of PancakeSelect, seen from outside; the worker hears the master   *)
(* through a pair of sockets.  Process 0 is the master.                    *)
(***************************************************************************)
EXTENDS Naturals, Sequences, FiniteSets

CONSTANTS Module,      \* the modules that are built
          MaxWorkers   \* bound on the number of workers

AllModules == {"OpenSSL", "MIME", "HTTP", "HTTPStatic", "HTTPRewrite", "HTTPFastCGI",
               "HTTPDeflate", "Authentication", "AuthenticationFile",
               "HTTPBasicAuthentication"}

ASSUME ModuleAssumption == Module \subseteq AllModules /\ MaxWorkers \in Nat

VARIABLES
  order,         \* PancakeModules
  at,            \* the index i into it
  passes,        \* how often the loop over the modules began
  haveDeferred,  \* whether a module has deferred in this pass
  initDeferred,  \* whether the HTTP module has deferred already
  initialized,   \* the modules initialized so far
  layers,        \* networkLayers
  tree,          \* what may be configured: pairs of a place and a name
  unfound,       \* what was looked up and not there
  workers,       \* PancakeMainConfiguration.workers
  next,          \* the loops' index of a worker
  pc,            \* per process: where it is
  flag,          \* per process: PancakeDoShutdown
  bytes,         \* per worker: what the master has written to it
  registry,      \* per process: the workers in its PancakeWorkerRegistry
  heap           \* per process: the PancakeWorker structures it has allocated

setup == <<order, at, passes, haveDeferred, initDeferred, initialized, layers, tree, unfound>>
processes == <<workers, next, pc, flag, bytes, registry, heap>>
vars == <<setup, processes>>

(* The orders in which a build may list the modules.                       *)
Orders ==
  {s \in [1..Cardinality(Module) -> Module] : \A i, j \in DOMAIN s : s[i] = s[j] => i = j}

Worker == 1..MaxWorkers
Process == 0..MaxWorkers

Loop == {"polling", "blocked", "handling"}
Leaving == {"stopping", "telling", "unregistering", "unloading", "ended"}
MasterOnly == {"modules", "loading", "forking", "drowsy", "asleep", "awake", "failed"}

-----------------------------------------------------------------------------
(* Modules: those without which one defers, what it looks up in the tree   *)
(* (a group, a setting, or the group of a list of groups), and what it     *)
(* adds.  The settings a module keeps in a group of its own go with it.    *)

Plain == [needs |-> {}, looksUp |-> {}, adds |-> {}]

HTTPVirtualHosts == {<<"Root", "HTTP">>, <<"HTTP", "VirtualHosts">>}

\* An interface has an option for each of the network layers ls of the moment.
HTTP(ls) ==
  [needs |-> {}, looksUp |-> {<<"Root", "Logging">>},
   adds |-> HTTPVirtualHosts \union
     {<<"HTTP", "Interfaces">>, <<"VirtualHosts", "DocumentRoot">>,
      <<"VirtualHosts", "Logging">>} \union {<<"Interfaces", l>> : l \in ls}]

HTTPStatic == [Plain EXCEPT !.needs = {"HTTP"}]

HTTPRewrite ==
  [needs |-> {"HTTP"},
   looksUp |-> HTTPVirtualHosts \union {<<"VirtualHosts", "DocumentRoot">>},
   adds |-> {<<"VirtualHosts", "Rewrite">>, <<"Rewrite", "DocumentRoot">>}]

\* With the rewrite module, rulesets may have a client too.
HTTPFastCGI ==
  LET ifRewrite(set) == IF "HTTPRewrite" \in Module THEN set ELSE {}
  IN [needs |-> {"HTTP"} \union ifRewrite({"HTTPRewrite"}),
      looksUp |-> HTTPVirtualHosts \union ifRewrite({<<"VirtualHosts", "Rewrite">>}),
      adds |-> {<<"Root", "FastCGIClients">>, <<"HTTP", "FastCGIClient">>,
                <<"VirtualHosts", "FastCGIClient">>}
                 \union ifRewrite({<<"Rewrite", "FastCGIClient">>})]

HTTPDeflate ==
  [needs |-> {"HTTP"}, looksUp |-> HTTPVirtualHosts,
   adds |-> {<<"HTTP", "Deflate">>, <<"VirtualHosts", "Deflate">>}]

Authentication ==
  [Plain EXCEPT !.adds = {<<"Root", "Authentication">>,
                          <<"Root", "AuthenticationConfiguration">>}]

AuthenticationFile ==
  [needs |-> {"Authentication"}, looksUp |-> {<<"Root", "Authentication">>},
   adds |-> {<<"Authentication", "File">>}]

HTTPBasicAuthentication ==
  [needs |-> {"HTTP", "Authentication"},
   looksUp |-> HTTPVirtualHosts \union {<<"Root", "AuthenticationConfiguration">>},
   adds |-> {<<"HTTP", "HTTPAuthenticationRealm">>,
             <<"VirtualHosts", "HTTPAuthenticationRealm">>,
             <<"VirtualHosts", "AuthenticationConfiguration">>}]

MIME == [Plain EXCEPT !.adds = {<<"Root", "MIME">>}]

Description(ls) ==
  [OpenSSL |-> Plain, MIME |-> MIME, HTTP |-> HTTP(ls), HTTPStatic |-> HTTPStatic,
   HTTPRewrite |-> HTTPRewrite, HTTPFastCGI |-> HTTPFastCGI, HTTPDeflate |-> HTTPDeflate,
   Authentication |-> Authentication, AuthenticationFile |-> AuthenticationFile,
   HTTPBasicAuthentication |-> HTTPBasicAuthentication]

Needs(m) == Description({})[m].needs
LooksUp(m) == Description({})[m].looksUp
Adds(m, ls) == Description(ls)[m].adds

\* What a module needs is built with it, or the program would not link.
ASSUME NeedsAreBuilt == \A m \in Module : Needs(m) \subseteq Module

(* A bug: the HTTP module comes when it is its turn.                       *)
DefersForNeeds(m) == ~(Needs(m) \subseteq initialized)

(* The HTTP module needs no other but defers once, for the layers' sake.   *)
Defers(m) == IF m = "HTTP" THEN ~initDeferred ELSE ~(Needs(m) \subseteq initialized)

(* The network layers that m brings.                                       *)
Layer(m) == {m} \intersect {"OpenSSL"}

(* The settings of the core, which main registers itself.                  *)
CoreSettings == {<<"Root", "Logging">>, <<"Root", "Workers">>, <<"Root", "NetworkBuffering">>}

Visits(m) == pc[0] = "modules" /\ at <= Len(order) /\ m = order[at] /\ at' = at + 1

SkipModule(m) ==
  /\ Visits(m) /\ m \in initialized
  /\ UNCHANGED <<order, passes, haveDeferred, initDeferred, initialized, layers, tree,
                 unfound, processes>>

DeferModule(m) ==
  /\ Visits(m) /\ m \notin initialized /\ Defers(m)
  /\ haveDeferred' = TRUE
  /\ initDeferred' = (initDeferred \/ m = "HTTP")
  /\ UNCHANGED <<order, passes, initialized, layers, tree, unfound, processes>>

InitializeModule(m) ==
  /\ Visits(m) /\ m \notin initialized /\ ~Defers(m)
  /\ initialized' = initialized \union {m}
  /\ layers' = layers \union Layer(m)
  /\ unfound' = unfound \union (LooksUp(m) \ tree)
  /\ tree' = tree \union Adds(m, layers)
  /\ UNCHANGED <<order, passes, haveDeferred, initDeferred, processes>>

NextPass ==
  /\ pc[0] = "modules" /\ at > Len(order) /\ haveDeferred
  /\ haveDeferred' = FALSE /\ at' = 1 /\ passes' = passes + 1
  /\ UNCHANGED <<order, initDeferred, initialized, layers, tree, unfound, processes>>

EndOfModules ==
  /\ pc[0] = "modules" /\ at > Len(order) /\ ~haveDeferred
  /\ pc' = [pc EXCEPT ![0] = "loading"]
  /\ order' = <<>> /\ at' = 1      \* the order is of no further account
  /\ UNCHANGED <<passes, haveDeferred, initDeferred, initialized, layers, tree, unfound,
                 workers, next, flag, bytes, registry, heap>>

-----------------------------------------------------------------------------
(* The master up to its sleep.                                             *)

Goes(p, to) == pc' = [pc EXCEPT ![p] = to]

(* Configuration, hooks, architecture and sockets are fine; the handlers   *)
(* are installed.  Without workers the master serves alone.                *)
LoadConfiguration(n) ==
  /\ pc[0] = "loading"
  /\ workers' = n /\ next' = 1
  /\ Goes(0, IF n = 0 THEN "polling" ELSE "forking")
  /\ UNCHANGED <<setup, flag, bytes, registry, heap>>

RefuseConfiguration ==
  /\ pc[0] = "loading"
  /\ Goes(0, "failed")
  /\ UNCHANGED <<setup, workers, next, flag, bytes, registry, heap>>

(* A bug: the worker is in the registry before the fork.                   *)
RegisteredBefore ==
  /\ pc[0] = "forking"
  /\ pc' = [pc EXCEPT ![next] = "registering",
                      ![0] = IF next = workers THEN "drowsy" ELSE "forking"]
  /\ flag' = [flag EXCEPT ![next] = flag[0]]
  /\ registry' = [p \in Process |-> IF p \in {0, next} THEN registry[0] \union {next}
                                                       ELSE registry[p]]
  /\ heap' = [heap EXCEPT ![next] = heap[0] \union {next}, ![0] = @ \union {next}]
  /\ next' = next + 1
  /\ UNCHANGED <<setup, workers, bytes>>

(* PancakeRunWorker: the child has a copy of all the master has, which has *)
(* not entered the new worker in its registry yet.                         *)
RunWorker ==
  /\ pc[0] = "forking"
  /\ pc' = [pc EXCEPT ![next] = "registering",
                      ![0] = IF next = workers THEN "drowsy" ELSE "forking"]
  /\ flag' = [flag EXCEPT ![next] = flag[0]]
  /\ registry' = [registry EXCEPT ![next] = registry[0], ![0] = @ \union {next}]
  /\ heap' = [heap EXCEPT ![next] = heap[0] \union {next}, ![0] = @ \union {next}]
  /\ next' = next + 1
  /\ UNCHANGED <<setup, workers, bytes>>

(* The pair of sockets or the fork fails: the master exits as it is.       *)
ForkFails ==
  /\ pc[0] = "forking"
  /\ Goes(0, "failed")
  /\ UNCHANGED <<setup, workers, next, flag, bytes, registry, heap>>

(* The loop around sleep.                                                  *)
Sleep ==
  /\ pc[0] = "drowsy" /\ Goes(0, "asleep")
  /\ UNCHANGED <<setup, workers, next, flag, bytes, registry, heap>>

SleepIsOver ==
  /\ pc[0] = "asleep" /\ Goes(0, "awake")
  /\ UNCHANGED <<setup, workers, next, flag, bytes, registry, heap>>

LookAtFlag ==
  /\ pc[0] = "awake"
  /\ Goes(0, IF flag[0] THEN "stopping" ELSE "drowsy")
  /\ UNCHANGED <<setup, workers, next, flag, bytes, registry, heap>>

-----------------------------------------------------------------------------
(* The loop of a process that serves.                                      *)

RegisterCommunication(w) ==
  /\ pc[w] = "registering" /\ Goes(w, "polling")
  /\ UNCHANGED <<setup, workers, next, flag, bytes, registry, heap>>

Block(p) ==
  /\ pc[p] = "polling" /\ Goes(p, "blocked")
  /\ UNCHANGED <<setup, workers, next, flag, bytes, registry, heap>>

(* Something else to do: a connection, or a timer.  A round finds all that *)
(* is there, so that with a byte of the master's it is the next action.    *)
Event(p) ==
  /\ pc[p] = "blocked" /\ (p \in Worker => bytes[p] = 0)
  /\ Goes(p, "handling")
  /\ UNCHANGED <<setup, workers, next, flag, bytes, registry, heap>>

(* PancakeInternalCommunicationEvent takes one byte; all mean the same.    *)
InternalCommunicationEvent(w) ==
  /\ pc[w] = "blocked" /\ bytes[w] > 0
  /\ bytes' = [bytes EXCEPT ![w] = @ - 1]
  /\ flag' = [flag EXCEPT ![w] = TRUE]
  /\ Goes(w, "handling")
  /\ UNCHANGED <<setup, workers, next, registry, heap>>

EndOfRound(p) ==
  /\ pc[p] = "handling"
  /\ Goes(p, IF flag[p] THEN "stopping" ELSE "polling")
  /\ UNCHANGED <<setup, workers, next, flag, bytes, registry, heap>>

-----------------------------------------------------------------------------
(* Signals.  The handler raises the flag; a call that waits comes back.    *)

Interrupted(was) ==
  CASE was = "asleep" -> "awake"
    [] was = "blocked" -> "stopping"
    [] OTHER -> was

Handles(p) == pc[p] \notin {"none", "modules", "loading", "ended", "failed"}

(* SIGINT or SIGTERM, to any of the processes.                             *)
Signal(p) ==
  /\ Handles(p)
  /\ flag' = [flag EXCEPT ![p] = TRUE]
  /\ Goes(p, Interrupted(pc[p]))
  /\ UNCHANGED <<setup, workers, next, bytes, registry, heap>>

(* The end of a worker is a signal to the master, if that is still there.  *)
Ended(w) ==
  /\ pc' = [pc EXCEPT ![w] = "ended", ![0] = Interrupted(@)]
  /\ flag' = [flag EXCEPT ![0] = @ \/ Handles(0)]

(* A worker is killed or crashes; its memory goes with it.                 *)
Crash(w) ==
  /\ Handles(w)
  /\ Ended(w)
  /\ heap' = [heap EXCEPT ![w] = {}]
  /\ registry' = [registry EXCEPT ![w] = {}]
  /\ UNCHANGED <<setup, workers, next, bytes>>

-----------------------------------------------------------------------------
(* Shutdown.                                                               *)

(* PancakeSchedulerShutdown has run what was scheduled.                    *)
ShutdownScheduler(p) ==
  /\ pc[p] = "stopping"
  /\ Goes(p, IF p = 0 THEN "telling" ELSE "unregistering")
  /\ next' = IF p = 0 THEN 1 ELSE next
  /\ UNCHANGED <<setup, workers, flag, bytes, registry, heap>>

(* A bug: the last worker is not told.                                     *)
TellsBelow ==
  /\ pc[0] = "telling" /\ next <= workers
  /\ bytes' = [bytes EXCEPT ![next] = IF next < workers THEN @ + 2 ELSE @]
  /\ next' = next + 1
  /\ UNCHANGED <<setup, workers, pc, flag, registry, heap>>

(* What is written is a string of one byte, with its terminating zero.     *)
TellWorker ==
  /\ pc[0] = "telling" /\ next <= workers
  /\ bytes' = [bytes EXCEPT ![next] = @ + 2]
  /\ next' = next + 1
  /\ UNCHANGED <<setup, workers, pc, flag, registry, heap>>

AllTold ==
  /\ pc[0] = "telling" /\ next > workers
  /\ Goes(0, "unregistering")
  /\ UNCHANGED <<setup, workers, next, flag, bytes, registry, heap>>

DestroyRegistry(p) ==
  /\ pc[p] = "unregistering"
  /\ heap' = [heap EXCEPT ![p] = @ \ registry[p]]
  /\ registry' = [registry EXCEPT ![p] = {}]
  /\ Goes(p, "unloading")
  /\ UNCHANGED <<setup, workers, next, flag, bytes>>

(* Configuration and modules are unloaded, a worker frees itself and ends. *)
UnloadMaster ==
  /\ pc[0] = "unloading"
  /\ Goes(0, "ended")
  /\ UNCHANGED <<setup, workers, next, flag, bytes, registry, heap>>

UnloadWorker(w) ==
  /\ pc[w] = "unloading"
  /\ heap' = [heap EXCEPT ![w] = @ \ {w}]
  /\ Ended(w)
  /\ UNCHANGED <<setup, workers, next, bytes, registry>>

-----------------------------------------------------------------------------
Init ==
  /\ order \in Orders
  /\ at = 1 /\ passes = 1
  /\ haveDeferred = FALSE /\ initDeferred = FALSE
  /\ initialized = {} /\ layers = {} /\ tree = CoreSettings /\ unfound = {}
  /\ workers = 0 /\ next = 1
  /\ pc = [p \in Process |-> IF p = 0 THEN "modules" ELSE "none"]
  /\ flag = [p \in Process |-> FALSE]
  /\ bytes = [w \in Worker |-> 0]
  /\ registry = [p \in Process |-> {}]
  /\ heap = [p \in Process |-> {}]

(* What main does of itself before it serves or sleeps.                    *)
Start ==
  \/ \E m \in Module : SkipModule(m) \/ DeferModule(m) \/ InitializeModule(m)
  \/ NextPass \/ EndOfModules
  \/ \E n \in 0..MaxWorkers : LoadConfiguration(n)
  \/ RunWorker

Master == Start \/ Sleep \/ SleepIsOver \/ LookAtFlag \/ TellWorker \/ AllTold \/ UnloadMaster

Serve(w) == RegisterCommunication(w) \/ InternalCommunicationEvent(w) \/ UnloadWorker(w)

Anyone(p) == Block(p) \/ EndOfRound(p) \/ ShutdownScheduler(p) \/ DestroyRegistry(p)

(* What comes from outside, or goes wrong.                                 *)
Outside ==
  \/ RefuseConfiguration \/ ForkFails
  \/ \E p \in Process : Event(p) \/ Signal(p)
  \/ \E w \in Worker : Crash(w)

Next ==
  \/ Master
  \/ \E w \in Worker : Serve(w)
  \/ \E p \in Process : Anyone(p)
  \/ Outside

(* Every process gets on, and the master's sleep ends within the hour.     *)
Fairness ==
  /\ WF_vars(Master)
  /\ \A w \in Worker : WF_vars(Serve(w))
  /\ \A p \in Process : WF_vars(Anyone(p))

Spec == Init /\ [][Next]_vars /\ Fairness

-----------------------------------------------------------------------------
TypeOK ==
  /\ order \in Seq(Module) /\ at \in Nat /\ passes \in Nat
  /\ haveDeferred \in BOOLEAN /\ initDeferred \in BOOLEAN
  /\ initialized \subseteq Module /\ layers \subseteq initialized
  /\ workers \in 0..MaxWorkers /\ next \in 1..MaxWorkers + 1
  /\ pc \in [Process -> Loop \union Leaving \union MasterOnly \union {"none", "registering"}]
  /\ flag \in [Process -> BOOLEAN]
  /\ bytes \in [Worker -> 0..2]
  /\ registry \in [Process -> SUBSET Worker] /\ heap \in [Process -> SUBSET Worker]
  /\ \A w \in Worker : pc[w] \notin MasterOnly /\ (pc[w] # "none" => w <= workers)

(* Whatever the order of the modules, none of them looks up a group or a   *)
(* setting that is not there yet (their initialisation uses the result     *)
(* without a check).                                                       *)
LookupsFound == unfound = {}

(* Whatever the order of the modules, the same may be configured in the    *)
(* end, the options of every network layer at an interface among it        *)
(* (PancakeHTTP.c:803), and four passes are enough.                        *)
SameForEveryOrder ==
  /\ LookupsFound
  /\ passes <= 4
  /\ pc[0] # "modules" =>
       tree = CoreSettings \union UNION {Adds(m, {"OpenSSL"} \intersect Module) : m \in Module}

(* In every process each structure of a worker it has, by its own doing or *)
(* from the fork, is freed once: the registry leads to structures that are *)
(* there and not to the process's own, and at the end none is left.        *)
FreedOnce ==
  \A p \in Process :
    /\ pc[p] = "unregistering" => registry[p] \subseteq heap[p] /\ p \notin registry[p]
    /\ pc[p] = "unloading" => heap[p] = {p} \ {0}
    /\ pc[p] = "ended" => heap[p] = {}

(* Once one of the processes leaves, whether it was told to or crashed,    *)
(* all of them end, unless a fork has failed and the master is gone.  No   *)
(* worker needs an event of its own for it.                                *)
AllEndTogether ==
  (\E p \in Process : pc[p] \in Leaving)
    ~> (pc[0] = "failed" \/ \A p \in Process : pc[p] \in {"none", "ended"})

=============================================================================
