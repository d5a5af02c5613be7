------------------------ MODULE PancakeProcessProofs ------------------------
(***************************************************************************)
(* Proofs about PancakeProcess: for any set of modules in any order, what  *)
(* may be configured in the end is the same, and nothing is looked up too  *)
(* early; for any number of workers, what the fork copied is freed once.   *)
(***************************************************************************)
EXTENDS PancakeProcess, FiniteSetTheorems, TLAPS

-----------------------------------------------------------------------------
(* What is allocated.                                                      *)

(* Where a worker still has its structure and its registry.                *)
Keeping == {"registering"} \union Loop \union {"stopping", "unregistering"}

(* The master has what it registered; before it forks there is nothing,    *)
(* and while it does, only what is behind the index.                       *)
MasterInv ==
  /\ registry[0] = heap[0]
  /\ pc[0] \in {"unloading", "ended"} => heap[0] = {}
  /\ pc[0] \in {"modules", "loading"} =>
       registry[0] = {} /\ \A w \in Worker : pc[w] = "none"
  /\ pc[0] = "forking" => next <= workers /\ registry[0] \subseteq 1..(next - 1)

(* A worker has what was registered before it, and itself.                 *)
WorkerInv ==
  \A w \in Worker :
    /\ pc[w] \in Keeping => w \notin registry[w] /\ heap[w] = registry[w] \union {w}
    /\ pc[w] = "unloading" => heap[w] = {w}
    /\ pc[w] = "ended" => heap[w] = {}

Told == {"telling", "unregistering", "unloading", "ended"}

(* The master writes to a worker once.                                     *)
BytesInv ==
  /\ pc[0] \notin Told => \A w \in Worker : bytes[w] = 0
  /\ pc[0] = "telling" => \A w \in Worker : w >= next => bytes[w] = 0

Types ==
  /\ workers \in 0..MaxWorkers /\ next \in 1..MaxWorkers + 1
  /\ pc \in [Process -> Loop \union Leaving \union MasterOnly \union {"none", "registering"}]
  /\ flag \in [Process -> BOOLEAN]
  /\ bytes \in [Worker -> 0..2]
  /\ registry \in [Process -> SUBSET Worker] /\ heap \in [Process -> SUBSET Worker]
  /\ \A w \in Worker : pc[w] \notin MasterOnly /\ (pc[w] # "none" => w <= workers)

ProcessInv == Types /\ MasterInv /\ WorkerInv /\ BytesInv

USE ModuleAssumption DEF Process, Worker

LEMMA InitProcess == Init => ProcessInv
BY DEF Init, ProcessInv, Types, MasterInv, WorkerInv, BytesInv, Loop, Leaving, MasterOnly,
       Keeping, Told

(* Each action keeps it.                                                   *)
LEMMA StepProcess == ProcessInv /\ [Next]_vars => ProcessInv'
<1> SUFFICES ASSUME ProcessInv, [Next]_vars PROVE ProcessInv'
  OBVIOUS
<1> USE DEF ProcessInv
<1>1. CASE UNCHANGED processes
  BY <1>1 DEF processes, Types, MasterInv, WorkerInv, BytesInv
<1>2. CASE EndOfModules
  BY <1>2 DEF EndOfModules, Types, MasterInv, WorkerInv, BytesInv, Loop, Leaving, MasterOnly,
            Keeping, Told
<1>3. ASSUME NEW n \in 0..MaxWorkers, LoadConfiguration(n) PROVE ProcessInv'
  BY <1>3 DEF LoadConfiguration, Goes, Types, MasterInv, WorkerInv, BytesInv, Loop, Leaving, MasterOnly,
            Keeping, Told
<1>4. CASE RunWorker
  <2>1. next \in Worker /\ next <= workers /\ next + 1 \in 1..MaxWorkers + 1
    BY <1>4 DEF RunWorker, Types, MasterInv
  <2>2. next \notin registry[0] /\ registry[0] \subseteq Worker
    BY <1>4, <2>1 DEF RunWorker, Types, MasterInv
  <2>3. /\ pc'[0] = (IF next = workers THEN "drowsy" ELSE "forking")
        /\ pc'[next] = "registering"
        /\ \A w \in Worker \ {next} : pc'[w] = pc[w]
    BY <1>4, <2>1 DEF RunWorker, Types
  <2>4. /\ registry'[0] = registry[0] \union {next} /\ registry'[next] = registry[0]
        /\ \A w \in Worker \ {next} : registry'[w] = registry[w]
    BY <1>4, <2>1 DEF RunWorker, Types
  <2>5. /\ heap'[0] = heap[0] \union {next} /\ heap'[next] = heap[0] \union {next}
        /\ \A w \in Worker \ {next} : heap'[w] = heap[w]
    BY <1>4, <2>1 DEF RunWorker, Types
  <2>6. pc[0] = "forking" /\ next' = next + 1 /\ workers' = workers /\ bytes' = bytes
    BY <1>4 DEF RunWorker
  <2>7. Types'
    <3>1. registry[0] \union {next} \in SUBSET Worker /\ heap[0] \union {next} \in SUBSET Worker
      BY <2>1 DEF Types
    <3>2. registry' \in [Process -> SUBSET Worker]
      BY <1>4, <2>1, <3>1 DEF RunWorker, Types
    <3>3. heap' \in [Process -> SUBSET Worker]
      BY <1>4, <2>1, <3>1 DEF RunWorker, Types
    <3>4. pc' \in [Process -> Loop \union Leaving \union MasterOnly
                              \union {"none", "registering"}]
      BY <1>4, <2>1 DEF RunWorker, Types, MasterOnly
    <3>5. flag' \in [Process -> BOOLEAN]
      BY <1>4, <2>1 DEF RunWorker, Types
    <3>6. \A w \in Worker : pc'[w] \notin MasterOnly /\ (pc'[w] # "none" => w <= workers')
      BY <2>1, <2>3, <2>6 DEF Types, MasterOnly
    <3> QED BY <2>1, <2>6, <3>2, <3>3, <3>4, <3>5, <3>6 DEF Types
  <2>8. MasterInv'
    <3>1. workers \in Nat /\ next \in Nat
      BY <2>1 DEF Types
    <3>2. pc'[0] = "forking" => next' <= workers'
      BY <2>1, <2>3, <2>6, <3>1
    <3>3. registry[0] \subseteq 1..(next - 1)
      BY <2>6 DEF MasterInv
    <3>4. registry'[0] \subseteq 1..(next' - 1)
      BY <2>1, <2>4, <2>6, <3>1, <3>3
    <3>5. registry'[0] = heap'[0]
      BY <2>4, <2>5 DEF MasterInv
    <3> QED BY <2>3, <3>2, <3>4, <3>5 DEF MasterInv
  <2>9. WorkerInv'
    <3>1. SUFFICES ASSUME NEW w \in Worker
                   PROVE  /\ pc'[w] \in Keeping => w \notin registry'[w]
                                                   /\ heap'[w] = registry'[w] \union {w}
                          /\ pc'[w] = "unloading" => heap'[w] = {w}
                          /\ pc'[w] = "ended" => heap'[w] = {}
      BY DEF WorkerInv
    <3>2. CASE w = next
      BY <2>2, <2>3, <2>4, <2>5, <3>2 DEF MasterInv
    <3>3. CASE w # next
      BY <2>3, <2>4, <2>5, <3>3 DEF WorkerInv
    <3> QED BY <3>2, <3>3
  <2>10. BytesInv'
    BY <2>3, <2>6 DEF BytesInv, Told
  <2> QED BY <2>7, <2>8, <2>9, <2>10
<1>5. CASE Sleep
  BY <1>5 DEF Sleep, Goes, Types, MasterInv, WorkerInv, BytesInv, Loop, Leaving, MasterOnly,
            Keeping, Told
<1>6. CASE SleepIsOver
  BY <1>6 DEF SleepIsOver, Goes, Types, MasterInv, WorkerInv, BytesInv, Loop, Leaving, MasterOnly,
            Keeping, Told
<1>7. CASE LookAtFlag
  BY <1>7 DEF LookAtFlag, Goes, Types, MasterInv, WorkerInv, BytesInv, Loop, Leaving, MasterOnly,
            Keeping, Told
<1>8. CASE TellWorker
  BY <1>8 DEF TellWorker, Types, MasterInv, WorkerInv, BytesInv, Loop, Leaving, MasterOnly,
            Keeping, Told
<1>9. CASE AllTold
  BY <1>9 DEF AllTold, Goes, Types, MasterInv, WorkerInv, BytesInv, Loop, Leaving, MasterOnly,
            Keeping, Told
<1>10. CASE UnloadMaster
  BY <1>10 DEF UnloadMaster, Goes, Types, MasterInv, WorkerInv, BytesInv, Loop, Leaving, MasterOnly,
            Keeping, Told
<1>11. ASSUME NEW w \in Worker, RegisterCommunication(w) PROVE ProcessInv'
  BY <1>11 DEF RegisterCommunication, Goes, Types, MasterInv, WorkerInv, BytesInv, Loop, Leaving, MasterOnly,
            Keeping, Told
<1>12. ASSUME NEW w \in Worker, InternalCommunicationEvent(w) PROVE ProcessInv'
  BY <1>12 DEF InternalCommunicationEvent, Goes, Types, MasterInv, WorkerInv, BytesInv, Loop, Leaving, MasterOnly,
            Keeping, Told
<1>13. ASSUME NEW w \in Worker, UnloadWorker(w) PROVE ProcessInv'
  BY <1>13 DEF UnloadWorker, Ended, Interrupted, Handles, Types, MasterInv, WorkerInv, BytesInv, Loop, Leaving, MasterOnly,
            Keeping, Told
<1>14. ASSUME NEW p \in Process, Block(p) PROVE ProcessInv'
  BY <1>14 DEF Block, Goes, Types, MasterInv, WorkerInv, BytesInv, Loop, Leaving, MasterOnly,
            Keeping, Told
<1>15. ASSUME NEW p \in Process, EndOfRound(p) PROVE ProcessInv'
  BY <1>15 DEF EndOfRound, Goes, Types, MasterInv, WorkerInv, BytesInv, Loop, Leaving, MasterOnly,
            Keeping, Told
<1>16. ASSUME NEW p \in Process, ShutdownScheduler(p) PROVE ProcessInv'
  BY <1>16 DEF ShutdownScheduler, Goes, Types, MasterInv, WorkerInv, BytesInv, Loop, Leaving, MasterOnly,
            Keeping, Told
<1>17. ASSUME NEW p \in Process, DestroyRegistry(p) PROVE ProcessInv'
  <2>1. /\ pc[p] = "unregistering" /\ pc' = [pc EXCEPT ![p] = "unloading"]
        /\ workers' = workers /\ next' = next /\ bytes' = bytes /\ flag' = flag
    BY <1>17 DEF DestroyRegistry, Goes
  <2>2. /\ heap'[p] = heap[p] \ registry[p] /\ registry'[p] = {}
        /\ \A q \in Process \ {p} : heap'[q] = heap[q] /\ registry'[q] = registry[q]
    BY <1>17 DEF DestroyRegistry, Types
  <2>3. pc'[p] = "unloading" /\ \A q \in Process \ {p} : pc'[q] = pc[q]
    BY <2>1 DEF Types
  <2>4. Types'
    <3>1. heap' \in [Process -> SUBSET Worker] /\ registry' \in [Process -> SUBSET Worker]
      BY <1>17 DEF DestroyRegistry, Types
    <3>2. \A w \in Worker : pc'[w] \notin MasterOnly /\ (pc'[w] # "none" => w <= workers')
      BY <2>1, <2>3 DEF Types, MasterOnly
    <3>3. pc' \in [Process -> Loop \union Leaving \union MasterOnly
                              \union {"none", "registering"}]
      BY <2>1 DEF Types, Leaving
    <3> QED BY <2>1, <3>1, <3>2, <3>3 DEF Types
  <2>5. MasterInv'
    <3>1. CASE p = 0
      BY <2>1, <2>2, <2>3, <3>1 DEF MasterInv
    <3>2. CASE p # 0
      <4>1. pc'[0] = pc[0] /\ heap'[0] = heap[0] /\ registry'[0] = registry[0]
        BY <2>2, <2>3, <3>2
      <4>2. pc[0] \notin {"modules", "loading"}
        BY <2>1, <3>2 DEF MasterInv
      <4> QED BY <2>1, <4>1, <4>2 DEF MasterInv
    <3> QED BY <3>1, <3>2
  <2>6. WorkerInv'
    <3>1. SUFFICES ASSUME NEW w \in Worker
                   PROVE  /\ pc'[w] \in Keeping => w \notin registry'[w]
                                                   /\ heap'[w] = registry'[w] \union {w}
                          /\ pc'[w] = "unloading" => heap'[w] = {w}
                          /\ pc'[w] = "ended" => heap'[w] = {}
      BY DEF WorkerInv
    <3>2. CASE w = p
      BY <2>1, <2>2, <2>3, <3>2 DEF WorkerInv, Keeping, Loop
    <3>3. CASE w # p
      BY <2>2, <2>3, <3>3 DEF WorkerInv
    <3> QED BY <3>2, <3>3
  <2>7. BytesInv'
    BY <2>1, <2>3 DEF BytesInv, Told
  <2> QED BY <2>4, <2>5, <2>6, <2>7
<1>18. CASE RefuseConfiguration
  BY <1>18 DEF RefuseConfiguration, Goes, Types, MasterInv, WorkerInv, BytesInv, Loop, Leaving, MasterOnly,
            Keeping, Told
<1>19. CASE ForkFails
  BY <1>19 DEF ForkFails, Goes, Types, MasterInv, WorkerInv, BytesInv, Loop, Leaving, MasterOnly,
            Keeping, Told
<1>20. ASSUME NEW p \in Process, Event(p) PROVE ProcessInv'
  BY <1>20 DEF Event, Goes, Types, MasterInv, WorkerInv, BytesInv, Loop, Leaving, MasterOnly,
            Keeping, Told
<1>21. ASSUME NEW p \in Process, Signal(p) PROVE ProcessInv'
  BY <1>21 DEF Signal, Goes, Interrupted, Handles, Types, MasterInv, WorkerInv, BytesInv, Loop, Leaving, MasterOnly,
            Keeping, Told
<1>22. ASSUME NEW w \in Worker, Crash(w) PROVE ProcessInv'
  <2>1. /\ pc'[w] = "ended" /\ pc'[0] = Interrupted(pc[0])
        /\ \A v \in Worker \ {w} : pc'[v] = pc[v]
    BY <1>22 DEF Crash, Ended, Types
  <2>2. pc[w] # "none" /\ workers' = workers /\ next' = next /\ bytes' = bytes
    BY <1>22 DEF Crash, Handles
  <2>3. /\ heap'[w] = {} /\ registry'[w] = {}
        /\ \A q \in Process \ {w} : heap'[q] = heap[q] /\ registry'[q] = registry[q]
    BY <1>22 DEF Crash, Types
  <2>4. Types'
    <3>1. heap' \in [Process -> SUBSET Worker] /\ registry' \in [Process -> SUBSET Worker]
      BY <1>22 DEF Crash, Types
    <3>2. flag' \in [Process -> BOOLEAN]
      BY <1>22 DEF Crash, Ended, Handles, Types
    <3>3. pc' \in [Process -> Loop \union Leaving \union MasterOnly
                              \union {"none", "registering"}]
      BY <1>22 DEF Crash, Ended, Interrupted, Types, Loop, Leaving, MasterOnly
    <3>4. \A v \in Worker : pc'[v] \notin MasterOnly /\ (pc'[v] # "none" => v <= workers')
      BY <2>1, <2>2 DEF Types, MasterOnly
    <3> QED BY <2>2, <3>1, <3>2, <3>3, <3>4 DEF Types
  <2>5. MasterInv'
    <3>1. pc[0] \notin {"modules", "loading"}
      BY <2>2 DEF MasterInv
    <3>2. heap'[0] = heap[0] /\ registry'[0] = registry[0]
      BY <2>3
    <3> QED BY <2>1, <2>2, <3>1, <3>2 DEF MasterInv, Interrupted
  <2>6. WorkerInv'
    <3>1. SUFFICES ASSUME NEW v \in Worker
                   PROVE  /\ pc'[v] \in Keeping => v \notin registry'[v]
                                                   /\ heap'[v] = registry'[v] \union {v}
                          /\ pc'[v] = "unloading" => heap'[v] = {v}
                          /\ pc'[v] = "ended" => heap'[v] = {}
      BY DEF WorkerInv
    <3>2. CASE v = w
      BY <2>1, <2>3, <3>2 DEF Keeping, Loop
    <3>3. CASE v # w
      BY <2>1, <2>3, <3>3 DEF WorkerInv
    <3> QED BY <3>2, <3>3
  <2>7. BytesInv'
    BY <2>1, <2>2 DEF BytesInv, Interrupted, Told
  <2> QED BY <2>4, <2>5, <2>6, <2>7
<1> QED
  BY <1>1, <1>2, <1>3, <1>4, <1>5, <1>6, <1>7, <1>8, <1>9, <1>10, <1>11, <1>12, <1>13, <1>14, <1>15, <1>16, <1>17, <1>18, <1>19, <1>20, <1>21, <1>22
  DEF Next, Master, Start, Serve, Anyone, Outside, vars, SkipModule, DeferModule,
      InitializeModule, NextPass

-----------------------------------------------------------------------------
(* The modules.                                                            *)

(* The pass in which a module is there at the latest.                      *)
Rank(m) ==
  CASE m \in {"OpenSSL", "MIME", "Authentication"} -> 1
    [] m \in {"HTTP", "AuthenticationFile"} -> 2
    [] m \in {"HTTPStatic", "HTTPRewrite", "HTTPDeflate", "HTTPBasicAuthentication"} -> 3
    [] m = "HTTPFastCGI" -> 4

LEMMA RankType == \A m \in AllModules : Rank(m) \in 1..4
BY DEF AllModules, Rank

(* A module other than HTTP needs only modules of a lower rank.            *)
LEMMA NeedsAreLower ==
  ASSUME NEW m \in Module, NEW k \in Needs(m)
  PROVE  k \in Module /\ Rank(k) < Rank(m)
<1>1. k \in Module /\ m \in AllModules
  BY NeedsAreBuilt
<1>2. Rank(k) < Rank(m)
  <2>1. CASE m \in {"OpenSSL", "MIME", "Authentication", "HTTP"}
    BY <2>1 DEF Needs, Description, Plain, HTTP, MIME, Authentication
  <2>2. CASE m = "AuthenticationFile"
    BY <2>2 DEF Needs, Description, AuthenticationFile, Rank
  <2>3. CASE m = "HTTPBasicAuthentication"
    BY <2>3 DEF Needs, Description, HTTPBasicAuthentication, Rank
  <2>4. CASE m = "HTTPStatic"
    BY <2>4 DEF Needs, Description, HTTPStatic, Plain, Rank
  <2>5. CASE m = "HTTPRewrite"
    BY <2>5 DEF Needs, Description, HTTPRewrite, Rank
  <2>6. CASE m = "HTTPDeflate"
    BY <2>6 DEF Needs, Description, HTTPDeflate, Rank
  <2>7. CASE m = "HTTPFastCGI"
    BY <2>7 DEF Needs, Description, HTTPFastCGI, Rank
  <2> QED BY <1>1, <2>1, <2>2, <2>3, <2>4, <2>5, <2>6, <2>7 DEF AllModules
<1> QED BY <1>1, <1>2

Layers == {"OpenSSL"} \intersect Module

(* What a module looks up, the modules it needs have added, or the core.   *)
LEMMA NeedsSuffice ==
  ASSUME NEW m \in AllModules
  PROVE  LooksUp(m) \subseteq CoreSettings \union UNION {Adds(k, Layers) : k \in Needs(m)}
<1>1. CASE m \in {"OpenSSL", "MIME", "Authentication"}
  BY <1>1 DEF LooksUp, Description, Plain, MIME, Authentication
<1>2. CASE m = "HTTP"
  BY <1>2 DEF LooksUp, Description, HTTP, CoreSettings
<1>3. HTTPVirtualHosts \union {<<"VirtualHosts", "DocumentRoot">>} \subseteq Adds("HTTP", Layers)
  BY DEF Adds, Description, HTTP
<1>4. {<<"Root", "Authentication">>, <<"Root", "AuthenticationConfiguration">>}
        \subseteq Adds("Authentication", Layers)
  BY DEF Adds, Description, Authentication, Plain
<1>5. <<"VirtualHosts", "Rewrite">> \in Adds("HTTPRewrite", Layers)
  BY DEF Adds, Description, HTTPRewrite
<1>6. CASE m = "AuthenticationFile"
  BY <1>4, <1>6 DEF LooksUp, Needs, Description, AuthenticationFile
<1>7. CASE m = "HTTPBasicAuthentication"
  BY <1>3, <1>4, <1>7 DEF LooksUp, Needs, Description, HTTPBasicAuthentication
<1>8. CASE m = "HTTPStatic"
  BY <1>8 DEF LooksUp, Description, HTTPStatic, Plain
<1>9. CASE m = "HTTPRewrite"
  BY <1>3, <1>9 DEF LooksUp, Needs, Description, HTTPRewrite
<1>10. CASE m = "HTTPDeflate"
  BY <1>3, <1>10 DEF LooksUp, Needs, Description, HTTPDeflate
<1>11. CASE m = "HTTPFastCGI"
  BY <1>3, <1>5, <1>11 DEF LooksUp, Needs, Description, HTTPFastCGI
<1> QED BY <1>1, <1>2, <1>6, <1>7, <1>8, <1>9, <1>10, <1>11 DEF AllModules

(* Only what HTTP adds depends on the layers of the moment.                *)
LEMMA AddsAnyhow ==
  ASSUME NEW m \in AllModules, m # "HTTP", NEW ls
  PROVE  Adds(m, ls) = Adds(m, Layers)
BY DEF Adds, Description, AllModules

-----------------------------------------------------------------------------
(* The passes.                                                             *)

(* The build lists every module once.                                      *)
Complete ==
  /\ \A m \in Module : \E i \in 1..Len(order) : order[i] = m
  /\ \A i, j \in 1..Len(order) : order[i] = order[j] => i = j

(* In pass n the modules of lower ranks are there, and of those it has     *)
(* visited the ones of rank n; what it has not deferred is there as well.  *)
PassInv ==
  /\ Complete
  /\ at \in 1..Len(order) + 1
  /\ \A m \in Module : Rank(m) < passes => m \in initialized
  /\ \A i \in 1..Len(order) :
       i < at /\ (~haveDeferred \/ Rank(order[i]) <= passes) => order[i] \in initialized
  /\ haveDeferred => passes < 4

(* HTTP defers when it is visited first.                                   *)
HTTPInv ==
  /\ \A i \in 1..Len(order) : order[i] = "HTTP" /\ i < at => initDeferred
  /\ "HTTP" \in Module /\ passes > 1 => initDeferred
  /\ initDeferred /\ passes = 1 => \E i \in 1..Len(order) : order[i] = "HTTP" /\ i < at
  /\ "HTTP" \in initialized => initDeferred /\ passes > 1

(* What is there has found what it looked up and added what it adds.       *)
TreeInv ==
  /\ unfound = {}
  /\ layers = Layers \intersect initialized
  /\ tree = CoreSettings \union UNION {Adds(m, Layers) : m \in initialized}

SetupTypes ==
  /\ order \in Seq(Module) /\ at \in Nat /\ passes \in 1..4
  /\ haveDeferred \in BOOLEAN /\ initDeferred \in BOOLEAN
  /\ initialized \subseteq Module /\ layers \subseteq initialized

SetupInv ==
  /\ SetupTypes /\ TreeInv
  /\ IF pc[0] = "modules" THEN PassInv /\ HTTPInv ELSE initialized = Module

LEMMA OrdersComplete ==
  ASSUME NEW s \in Orders
  PROVE  /\ s \in Seq(Module)
         /\ \A m \in Module : \E i \in 1..Len(s) : s[i] = m
         /\ \A i, j \in 1..Len(s) : s[i] = s[j] => i = j
<1>1. IsFiniteSet(AllModules)
  <2> DEFINE listed == <<"OpenSSL", "MIME", "HTTP", "HTTPStatic", "HTTPRewrite", "HTTPFastCGI",
                         "HTTPDeflate", "Authentication", "AuthenticationFile",
                         "HTTPBasicAuthentication">>
             f == [i \in 1..10 |-> listed[i]]
  <2>1. f \in [1..10 -> AllModules]
    BY DEF AllModules
  <2>2. \A m \in AllModules : \E i \in 1..10 : f[i] = m
    <3>1. /\ f[1] = "OpenSSL" /\ f[2] = "MIME" /\ f[3] = "HTTP" /\ f[4] = "HTTPStatic"
          /\ f[5] = "HTTPRewrite" /\ f[6] = "HTTPFastCGI" /\ f[7] = "HTTPDeflate"
          /\ f[8] = "Authentication" /\ f[9] = "AuthenticationFile"
          /\ f[10] = "HTTPBasicAuthentication"
      OBVIOUS
    <3> HIDE DEF f
    <3> QED BY <3>1 DEF AllModules
  <2>3. f \in Surjection(1..10, AllModules)
    BY <2>1, <2>2 DEF Surjection
  <2> QED BY <2>3, FS_NatSurjection DEF ExistsSurjection
<1>2. IsFiniteSet(Module)
  BY <1>1, FS_Subset
<1>3. Cardinality(Module) \in Nat /\ IsFiniteSet(1..Cardinality(Module))
      /\ Cardinality(1..Cardinality(Module)) = Cardinality(Module)
  BY <1>2, FS_CardinalityType, FS_Interval
<1>4. s \in Seq(Module) /\ Len(s) = Cardinality(Module) /\ DOMAIN s = 1..Cardinality(Module)
  BY <1>3 DEF Orders
<1>5. s \in Injection(1..Cardinality(Module), Module)
  BY <1>4 DEF Orders, Injection, IsInjective
<1>6. s \in Surjection(1..Cardinality(Module), Module)
  BY <1>2, <1>3, <1>5, FS_Injection
<1> QED BY <1>4, <1>5, <1>6 DEF Injection, IsInjective, Surjection

LEMMA InitSetup == Init => SetupInv
<1> SUFFICES ASSUME Init PROVE SetupInv
  OBVIOUS
<1>1. order \in Seq(Module) /\ Complete
  BY OrdersComplete DEF Init, Complete
<1>2. PassInv
  BY <1>1, RankType, SMTT(30) DEF Init, PassInv
<1>3. HTTPInv
  BY <1>1 DEF Init, HTTPInv
<1>4. TreeInv
  BY DEF Init, TreeInv
<1>5. SetupTypes
  <2>1. initialized = {} /\ layers = {} /\ at = 1 /\ passes = 1
    BY DEF Init
  <2>2. haveDeferred \in BOOLEAN /\ initDeferred \in BOOLEAN
    BY DEF Init
  <2> QED BY <1>1, <2>1, <2>2 DEF SetupTypes
<1>6. pc[0] = "modules"
  BY DEF Init
<1> QED BY <1>2, <1>3, <1>4, <1>5, <1>6 DEF SetupInv

(* What defers in a pass has a higher rank.                                *)
LEMMA DefersLater ==
  ASSUME SetupInv, NEW m, Visits(m), Defers(m)
  PROVE  m \in Module /\ passes < Rank(m)
<1>1. m \in Module /\ PassInv /\ HTTPInv /\ SetupTypes /\ at \in 1..Len(order) /\ m = order[at]
  BY DEF Visits, SetupInv, SetupTypes, PassInv
<1>2. CASE m = "HTTP"
  BY <1>1, <1>2 DEF Defers, HTTPInv, Rank, SetupTypes
<1>3. CASE m # "HTTP"
  <2>1. PICK k \in Needs(m) : k \notin initialized
    BY <1>3 DEF Defers
  <2>2. k \in Module /\ Rank(k) < Rank(m) /\ Rank(k) \in 1..4 /\ Rank(m) \in 1..4
    BY <1>1, <2>1, NeedsAreLower, RankType
  <2>3. ~(Rank(k) < passes)
    BY <1>1, <2>1, <2>2 DEF PassInv
  <2> QED BY <1>1, <2>2, <2>3 DEF SetupTypes
<1> QED BY <1>1, <1>2, <1>3

(* A visit, of what stays what it is, defers, or is there now.             *)
LEMMA VisitKeepsPass ==
  ASSUME SetupInv, NEW m, Visits(m), NEW S, initialized' = initialized \union S,
         UNCHANGED <<order, passes>>,
         \/ m \in initialized' /\ haveDeferred' = haveDeferred
         \/ passes < Rank(m) /\ haveDeferred'
  PROVE  PassInv'
<1>1. /\ m \in Module /\ PassInv /\ SetupTypes /\ at \in 1..Len(order) /\ m = order[at]
      /\ at' = at + 1 /\ Len(order) \in Nat /\ Rank(m) \in 1..4
  BY RankType DEF Visits, SetupInv, SetupTypes, PassInv
<1>2. Complete' /\ at' \in 1..Len(order') + 1
  BY <1>1 DEF PassInv, Complete
<1>3. \A k \in Module : Rank(k) < passes' => k \in initialized'
  BY <1>1 DEF PassInv
<1>4. ASSUME NEW i \in 1..Len(order'), i < at'
      PROVE  ~haveDeferred' \/ Rank(order'[i]) <= passes' => order'[i] \in initialized'
  <2>1. CASE i = at
    BY <1>1, <2>1 DEF SetupTypes
  <2>2. CASE i # at
    BY <1>1, <1>4, <2>2 DEF PassInv
  <2> QED BY <2>1, <2>2
<1>5. haveDeferred' => passes' < 4
  <2>1. CASE haveDeferred' = haveDeferred
    <3>1. haveDeferred => passes < 4
      BY <1>1 DEF PassInv
    <3> QED BY <2>1, <3>1
  <2>2. CASE passes < Rank(m)
    BY <1>1, <2>2 DEF SetupTypes
  <2> QED BY <2>1, <2>2
<1> QED BY <1>2, <1>3, <1>4, <1>5 DEF PassInv

LEMMA SkipKeeps == ASSUME SetupInv, NEW m, SkipModule(m) PROVE SetupInv'
<1>1. /\ pc[0] = "modules" /\ pc' = pc /\ Visits(m) /\ m \in initialized /\ at' = at + 1
      /\ UNCHANGED <<order, passes, haveDeferred, initDeferred, initialized, layers, tree, unfound>>
  BY DEF SkipModule, Visits, processes
<1>2. PassInv'
  BY <1>1, VisitKeepsPass
<1>3. HTTPInv'
  <2>1. \A i \in 1..Len(order) : order[i] = "HTTP" /\ i = at => initDeferred
    <3>1. m = order[at] /\ (m = "HTTP" => initDeferred)
      BY <1>1 DEF SetupInv, TreeInv, Visits, HTTPInv
    <3> QED BY <3>1
  <2> QED BY <1>1, <2>1 DEF HTTPInv, SetupInv, SetupTypes
<1> QED BY <1>1, <1>2, <1>3 DEF SetupInv, SetupTypes, TreeInv

LEMMA DeferKeeps == ASSUME SetupInv, NEW m, DeferModule(m) PROVE SetupInv'
<1>1. /\ pc[0] = "modules" /\ pc' = pc /\ Visits(m) /\ Defers(m) /\ at' = at + 1 /\ haveDeferred'
      /\ m = order[at] /\ at \in 1..Len(order) /\ m \notin initialized
      /\ UNCHANGED <<order, passes, initialized, layers, tree, unfound>>
  BY DEF DeferModule, Visits, processes, SetupInv, PassInv
<1>2. haveDeferred' \in BOOLEAN /\ initDeferred' \in BOOLEAN
      /\ (initDeferred => initDeferred') /\ (m = "HTTP" => initDeferred')
      /\ (initDeferred' => initDeferred \/ m = "HTTP")
  BY DEF DeferModule, SetupInv, SetupTypes
<1>3. m \in Module /\ passes < Rank(m)
  BY <1>1, DefersLater
<1>4. PassInv'
  <2>1. initialized' = initialized \union {}
    BY <1>1
  <2> QED BY <1>1, <1>3, <2>1, VisitKeepsPass
<1>5. HTTPInv'
  <2> HTTPInv /\ SetupTypes
    BY <1>1 DEF SetupInv
  <2>1. \A i \in 1..Len(order') : order'[i] = "HTTP" /\ i < at' => initDeferred'
    <3>1. SUFFICES ASSUME NEW i \in 1..Len(order), order[i] = "HTTP", i < at + 1
                   PROVE  initDeferred'
      BY <1>1
    <3>2. CASE i = at
      BY <1>1, <1>2, <3>1, <3>2
    <3>3. CASE i # at
      <4>1. i < at
        BY <1>1, <3>1, <3>3
      <4>2. initDeferred
        BY <3>1, <4>1 DEF HTTPInv
      <4> QED BY <1>2, <4>2
    <3> QED BY <3>2, <3>3
  <2>2. "HTTP" \in Module /\ passes' > 1 => initDeferred'
    BY <1>1, <1>2 DEF HTTPInv
  <2>3. ASSUME initDeferred', passes' = 1
        PROVE  \E i \in 1..Len(order') : order'[i] = "HTTP" /\ i < at'
    <3>1. CASE m = "HTTP"
      <4>1. at \in 1..Len(order') /\ order'[at] = "HTTP" /\ at < at'
        BY <1>1, <3>1 DEF SetupTypes
      <4> QED BY <4>1
    <3>2. CASE initDeferred
      <4>1. PICK i \in 1..Len(order) : order[i] = "HTTP" /\ i < at
        BY <1>1, <2>3, <3>2 DEF HTTPInv
      <4> QED BY <1>1, <4>1
    <3> QED BY <1>2, <2>3, <3>1, <3>2
  <2>4. "HTTP" \in initialized' => initDeferred' /\ passes' > 1
    BY <1>1, <1>2 DEF HTTPInv
  <2> QED BY <2>1, <2>2, <2>3, <2>4 DEF HTTPInv
<1>6. TreeInv'
  BY <1>1 DEF SetupInv, TreeInv
<1>7. SetupTypes'
  BY <1>1, <1>2 DEF SetupInv, SetupTypes
<1> QED BY <1>1, <1>4, <1>5, <1>6, <1>7 DEF SetupInv

(* The layers are all there when HTTP asks for them.                       *)
LEMMA LayersInTime ==
  ASSUME SetupInv, PassInv, passes > 1
  PROVE  layers = Layers
<1>1. "OpenSSL" \in Module => "OpenSSL" \in initialized
  <2>1. Rank("OpenSSL") = 1
    BY DEF Rank
  <2> QED BY <2>1 DEF PassInv
<1> QED BY <1>1 DEF SetupInv, TreeInv, Layers

LEMMA InitializeKeeps == ASSUME SetupInv, NEW m, InitializeModule(m) PROVE SetupInv'
<1>1. /\ pc[0] = "modules" /\ pc' = pc /\ Visits(m) /\ at' = at + 1 /\ m = order[at]
      /\ at \in 1..Len(order) /\ m \in Module /\ m \notin initialized /\ ~Defers(m)
      /\ initialized' = initialized \union {m}
      /\ UNCHANGED <<order, passes, haveDeferred, initDeferred>>
      /\ PassInv /\ HTTPInv /\ SetupTypes /\ TreeInv
  BY DEF InitializeModule, Visits, processes, SetupInv, PassInv, SetupTypes
<1>2. PassInv'
  BY <1>1, VisitKeepsPass
<1>3. m = "HTTP" => initDeferred /\ passes > 1
  <2>1. SUFFICES ASSUME m = "HTTP", passes = 1 PROVE FALSE
    BY <1>1 DEF Defers, SetupTypes
  <2>2. PICK i \in 1..Len(order) : order[i] = "HTTP" /\ i < at
    BY <1>1, <2>1 DEF Defers, HTTPInv
  <2>3. i # at /\ order[at] = "HTTP" /\ Complete
    BY <1>1, <2>1, <2>2 DEF PassInv, SetupTypes
  <2> QED BY <1>1, <2>2, <2>3 DEF Complete
<1>4. HTTPInv'
  <2>1. \A i \in 1..Len(order') : order'[i] = "HTTP" /\ i < at' => initDeferred'
    <3>1. SUFFICES ASSUME NEW i \in 1..Len(order), order[i] = "HTTP", i < at + 1
                   PROVE  initDeferred
      BY <1>1
    <3>2. CASE i = at
      BY <1>1, <1>3, <3>1, <3>2
    <3>3. CASE i # at
      BY <1>1, <3>1, <3>3 DEF HTTPInv
    <3> QED BY <3>2, <3>3
  <2>2. ASSUME initDeferred', passes' = 1
        PROVE  \E i \in 1..Len(order') : order'[i] = "HTTP" /\ i < at'
    <3>1. PICK i \in 1..Len(order) : order[i] = "HTTP" /\ i < at
      BY <1>1, <2>2 DEF HTTPInv
    <3> QED BY <1>1, <3>1
  <2>3. "HTTP" \in initialized' => initDeferred' /\ passes' > 1
    BY <1>1, <1>3 DEF HTTPInv
  <2> QED BY <1>1, <2>1, <2>2, <2>3 DEF HTTPInv
<1>5. Adds(m, layers) = Adds(m, Layers)
  <2>1. CASE m = "HTTP"
    BY <1>1, <1>3, <2>1, LayersInTime
  <2>2. CASE m # "HTTP"
    BY <1>1, <2>2, AddsAnyhow
  <2> QED BY <2>1, <2>2
<1>6. Needs(m) \subseteq initialized
  <2>1. Needs("HTTP") = {}
    BY DEF Needs, Description, HTTP
  <2> QED BY <1>1, <2>1 DEF Defers
<1>7. TreeInv'
  <2>1. LooksUp(m) \subseteq tree
    BY <1>1, <1>6, NeedsSuffice DEF TreeInv
  <2>2. unfound' = {}
    BY <1>1, <2>1 DEF InitializeModule, TreeInv
  <2>3. layers' = Layers \intersect initialized'
    BY <1>1 DEF InitializeModule, TreeInv, Layer, Layers
  <2>4. tree' = tree \union Adds(m, Layers)
    BY <1>5 DEF InitializeModule
  <2>5. tree' = CoreSettings \union UNION {Adds(k, Layers) : k \in initialized'}
    BY <1>1, <2>4 DEF TreeInv
  <2> QED BY <2>2, <2>3, <2>5 DEF TreeInv
<1>8. SetupTypes'
  BY <1>1, <1>7 DEF SetupTypes, TreeInv
<1> QED BY <1>1, <1>2, <1>4, <1>7, <1>8 DEF SetupInv

LEMMA NextPassKeeps == ASSUME SetupInv, NextPass PROVE SetupInv'
<1>1. /\ pc[0] = "modules" /\ pc' = pc /\ at' = 1 /\ haveDeferred /\ at = Len(order) + 1
      /\ haveDeferred' = FALSE /\ passes' = passes + 1
      /\ UNCHANGED <<order, initDeferred, initialized, layers, tree, unfound>>
      /\ PassInv /\ HTTPInv /\ SetupTypes /\ TreeInv /\ Complete
  BY DEF NextPass, processes, SetupInv, PassInv
<1>2. passes' \in 1..4
  BY <1>1 DEF PassInv, SetupTypes
<1>3. ASSUME NEW m \in Module, Rank(m) < passes' PROVE m \in initialized'
  <2>1. PICK i \in 1..Len(order) : order[i] = m
    BY <1>1 DEF Complete
  <2>2. Rank(m) \in 1..4 /\ Len(order) \in Nat
    BY <1>1, RankType DEF SetupTypes
  <2>3. i < at /\ Rank(order[i]) <= passes
    BY <1>1, <1>3, <2>1, <2>2 DEF SetupTypes
  <2> QED BY <1>1, <2>1, <2>3 DEF PassInv
<1>4. PassInv'
  <2>1. Len(order) \in Nat
    BY <1>1 DEF SetupTypes
  <2> QED BY <1>1, <1>3, <2>1 DEF PassInv, Complete
<1>5. HTTPInv'
  <2>1. ASSUME "HTTP" \in Module PROVE initDeferred
    <3>1. PICK i \in 1..Len(order) : order[i] = "HTTP"
      BY <1>1, <2>1 DEF Complete
    <3>2. i < at
      BY <1>1, <3>1 DEF SetupTypes
    <3> QED BY <1>1, <3>1, <3>2 DEF HTTPInv
  <2> QED BY <1>1, <2>1 DEF HTTPInv, SetupTypes
<1> QED BY <1>1, <1>2, <1>4, <1>5 DEF SetupInv, SetupTypes, TreeInv

LEMMA EndKeeps == ASSUME ProcessInv, SetupInv, EndOfModules PROVE SetupInv'
<1>1. /\ pc'[0] = "loading" /\ ~haveDeferred /\ at = Len(order) + 1 /\ order' = <<>> /\ at' = 1
      /\ UNCHANGED <<passes, haveDeferred, initDeferred, initialized, layers, tree, unfound>>
      /\ PassInv /\ SetupTypes /\ TreeInv
  BY DEF EndOfModules, SetupInv, PassInv, ProcessInv, Types
<1>2. ASSUME NEW m \in Module PROVE m \in initialized
  <2>1. PICK i \in 1..Len(order) : order[i] = m
    BY <1>1 DEF PassInv, Complete
  <2>2. i < at
    BY <1>1, <2>1 DEF SetupTypes
  <2> QED BY <1>1, <2>1, <2>2 DEF PassInv
<1>3. initialized' = Module /\ SetupTypes'
  BY <1>1, <1>2 DEF SetupTypes
<1> QED BY <1>1, <1>3 DEF SetupInv, TreeInv

-----------------------------------------------------------------------------
(* The whole.                                                              *)

IInv == ProcessInv /\ SetupInv

(* Every other action is of processes, and none goes back to the modules.  *)
LEMMA ProcessKeepsSetup ==
  ASSUME SetupInv, UNCHANGED setup, pc'[0] = "modules" <=> pc[0] = "modules"
  PROVE  SetupInv'
BY DEF setup, SetupInv, SetupTypes, PassInv, HTTPInv, TreeInv, Complete

LEMMA StepSetup == IInv /\ [Next]_vars => SetupInv'
<1> SUFFICES ASSUME ProcessInv, SetupInv, [Next]_vars PROVE SetupInv'
  BY DEF IInv
<1>1. CASE UNCHANGED vars
  BY <1>1, ProcessKeepsSetup DEF vars, processes
<1>2. CASE \E m \in Module : SkipModule(m) \/ DeferModule(m) \/ InitializeModule(m)
  BY <1>2, SkipKeeps, DeferKeeps, InitializeKeeps
<1>3. CASE NextPass
  BY <1>3, NextPassKeeps
<1>4. CASE EndOfModules
  BY <1>4, EndKeeps
<1>5. UNCHANGED setup /\ (pc'[0] = "modules" <=> pc[0] = "modules") => SetupInv'
  BY ProcessKeepsSetup
<1> HIDE DEF Process
<1> USE DEF ProcessInv, Types, MasterInv
<1>6. ASSUME NEW n \in 0..MaxWorkers, LoadConfiguration(n) PROVE SetupInv'
  BY <1>5, <1>6 DEF LoadConfiguration, Goes, Process
<1>7. CASE RunWorker
  BY <1>5, <1>7 DEF RunWorker, Process
<1>8. CASE Sleep \/ SleepIsOver \/ LookAtFlag \/ AllTold \/ UnloadMaster
  BY <1>5, <1>8 DEF Sleep, SleepIsOver, LookAtFlag, AllTold, UnloadMaster, Goes, Process
<1>9. CASE TellWorker
  BY <1>5, <1>9 DEF TellWorker
<1>10. ASSUME NEW w \in Worker,
              RegisterCommunication(w) \/ InternalCommunicationEvent(w)
       PROVE  SetupInv'
  BY <1>5, <1>10 DEF RegisterCommunication, InternalCommunicationEvent, Goes, Process
<1>11. ASSUME NEW w \in Worker, UnloadWorker(w) \/ Crash(w) PROVE SetupInv'
  BY <1>5, <1>11 DEF UnloadWorker, Crash, Ended, Interrupted, Process
<1>12. ASSUME NEW p \in Process,
              Block(p) \/ EndOfRound(p) \/ ShutdownScheduler(p) \/ DestroyRegistry(p)
       PROVE  SetupInv'
  BY <1>5, <1>12 DEF Block, EndOfRound, ShutdownScheduler, DestroyRegistry, Goes, Process
<1>13. CASE RefuseConfiguration \/ ForkFails
  BY <1>5, <1>13 DEF RefuseConfiguration, ForkFails, Goes, Process
<1>14. ASSUME NEW p \in Process, Event(p) \/ Signal(p) PROVE SetupInv'
  BY <1>5, <1>14 DEF Event, Signal, Handles, Interrupted, Goes, Process
<1> QED
  BY <1>1, <1>2, <1>3, <1>4, <1>6, <1>7, <1>8, <1>9, <1>10, <1>11, <1>12, <1>13, <1>14
  DEF Next, Master, Start, Serve, Anyone, Outside

LEMMA Invariance == Spec => []IInv
<1>1. Init => IInv
  BY InitProcess, InitSetup DEF IInv
<1>2. IInv /\ [Next]_vars => IInv'
  BY StepProcess, StepSetup DEF IInv
<1> QED BY <1>1, <1>2, PTL DEF Spec

(* The types of the state, of the setup and of the processes.              *)
THEOREM TypeCorrect == Spec => []TypeOK
<1>1. IInv => TypeOK
  BY DEF IInv, ProcessInv, SetupInv, SetupTypes, Types, TypeOK
<1> QED BY <1>1, Invariance, PTL

(* Whatever modules are built, in whatever order, none looks up what is    *)
(* not there, four passes suffice, and the same may be configured in the   *)
(* end (Pancake.c:77).                                                     *)
THEOREM ModulesCorrect == Spec => []SameForEveryOrder
<1>1. ASSUME IInv PROVE SameForEveryOrder
  <2>1. unfound = {} /\ passes <= 4
    BY <1>1 DEF IInv, SetupInv, SetupTypes, TreeInv
  <2>2. ASSUME pc[0] # "modules"
        PROVE  tree = CoreSettings
                        \union UNION {Adds(m, {"OpenSSL"} \intersect Module) : m \in Module}
    <3>1. initialized = Module
      BY <1>1, <2>2 DEF IInv, SetupInv, SetupTypes
    <3> QED BY <1>1, <3>1 DEF IInv, SetupInv, TreeInv, Layers
  <2> QED BY <2>1, <2>2 DEF SameForEveryOrder, LookupsFound
<1> QED BY <1>1, Invariance, PTL

(* With any number of workers, each process frees what it has, once        *)
(* (PancakeWorkers.c:24, Pancake.c:234).                                   *)
THEOREM FreedCorrect == Spec => []FreedOnce
<1>1. IInv => FreedOnce
  <2> SUFFICES ASSUME IInv, NEW p \in Process
               PROVE  /\ pc[p] = "unregistering" => registry[p] \subseteq heap[p] /\ p \notin registry[p]
                      /\ pc[p] = "unloading" => heap[p] = {p} \ {0}
                      /\ pc[p] = "ended" => heap[p] = {}
    BY DEF FreedOnce
  <2>1. CASE p = 0
    BY <2>1 DEF IInv, ProcessInv, Types, MasterInv
  <2>2. CASE p \in Worker
    BY <2>2 DEF IInv, ProcessInv, WorkerInv, Keeping
  <2> QED BY <2>1, <2>2
<1> QED BY <1>1, Invariance, PTL

=============================================================================
