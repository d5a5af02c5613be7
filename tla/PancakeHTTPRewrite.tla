------------------------- MODULE PancakeHTTPRewrite -------------------------
(***************************************************************************)
(* Which settings a request is served with: the virtual hosts and the      *)
(* rewrite rulesets of a configuration file are read (PancakeHTTP.c,       *)
(* PancakeHTTPRewrite.c), the rulesets are compiled to opcodes, and for    *)
(* each request the scope of its host and those the opcodes activate       *)
(* decide what the handlers that work for it find in memory, the handlers  *)
(* of FastCGI (PancakeHTTPFastCGI.c) among them, which come later.  Some   *)
(* activate the scopes of their request again; those that end a request    *)
(* take memory as it is.                                                   *)
(*                                                                         *)
(* The file is read element by element, an action each, and is kept as     *)
(* read so that the properties can say what it means.  The program is one  *)
(* thread: a handler that has begun is finished before another begins.     *)
(* "handler" is where it is, with what was in memory when it began         *)
(* ("found"), so that what it reads can be looked at.                      *)
(***************************************************************************)
EXTENDS PancakeConfiguration, FiniteSets, SequencesExt

CONSTANTS Request,      \* memory for requests (bound on their number)
          MaxElements,  \* bound on the elements of a file
          Operations,   \* the operations rulesets may have
          Versions,     \* the versions of HTTP that clients speak
          NULL

RootSettings == {"ServerHeader", "FastCGIClient"}
VirtualHostSettings == {"ServerHeader", "DocumentRoot", "FastCGIClient"}
RulesetSettings == {"DocumentRoot", "FastCGIClient"}

Variable == {"HTTPVersion", "HTTPAnswerCode", "HTTPMethod"}
ReadOnly == {"HTTPMethod"}
Conditions == {"IF_EQUAL", "IF_NOT_EQUAL"}
Opcode(op, name, value) == [op |-> op, name |-> name, value |-> value]

ASSUME RewriteAssumption ==
  /\ Setting = VirtualHostSettings /\ Listed = {"DocumentRoot"}
  /\ MaxElements \in Nat
  /\ Operations \subseteq [op : Conditions \union {"SET"}, name : Variable, value : Nat]
                            \union {Opcode("CALL", "ThrowException", 0)}
  /\ Versions \subseteq {10, 11}
  /\ NULL \notin Request

VARIABLES
  phase,        \* "load", "loaded", "running", "unloaded", or "failed"
  file,         \* what was read
  elements,     \* how many elements that is
  place,        \* where in the file reading is
  vhosts,       \* the virtual hosts, with their scope and their opcodes
  defaultHost,  \* PancakeHTTPDefaultVirtualHost, 0 when there is none
  compiler,     \* CompilerState, ConfigurationScope, LastRuleset
  requests,     \* the requests the server works on
  handler,      \* the handler that runs
  left,         \* whether the last handler left without unscoping
  destroyed     \* how often each scope was destroyed

loading == <<file, elements, place, vhosts, defaultHost, compiler>>
serving == <<requests, handler, left>>
vars == <<configurationVars, phase, loading, serving, destroyed>>

Stage == {"rewrite", "serve", "exception", "output", "read", "hangup", "answer", "gateway"}
Handler ==
  [request : Request, stage : Stage, ruleset : Nat, opcode : Nat, found : [Setting -> Nat]]

RequestRecord ==
  [name : Nat, version : Versions, vHost : Nat, variables : [Variable -> Nat],
   group : Seq(Nat), client : Nat, headerSent : BOOLEAN,
   state : {"parser", "FastCGI", "lost", "aborted"}]

ASSUME NullAssumption == NULL \notin Handler \union RequestRecord

TypeOK ==
  /\ ConfigurationTypeOK
  /\ phase \in {"load", "loaded", "running", "unloaded", "failed"}
  /\ elements \in 0..MaxElements
  /\ place \in {"before", "host", "rewrite", "hostAgain", "after"}
  /\ \A h \in DOMAIN vhosts :
       /\ vhosts[h].scope \in 2..Len(scopes)
       /\ \A ruleset \in Range(vhosts[h].rulesets) : \A op \in Range(ruleset) :
            op.op = "ACTIVATE_SCOPE" => op.value \in 2..Len(scopes)
  /\ defaultHost \in 0..Len(vhosts)
  /\ compiler.inScope => compiler.scope \in 2..Len(scopes)
  /\ \A r \in Request : requests[r] # NULL =>
       /\ requests[r] \in RequestRecord
       /\ requests[r].vHost \in DOMAIN vhosts
       /\ requests[r].group \in Seq(2..Len(scopes))
  /\ handler \in Handler \union {NULL}
  /\ handler # NULL => requests[handler.request] # NULL
  /\ left \in BOOLEAN

-----------------------------------------------------------------------------
(* Reading the file.                                                       *)

\* A value no other element has.
NewValue == elements + 2

MayRead(places) ==
  /\ phase = "load"
  /\ elements < MaxElements
  /\ place \in places

\* The element was read, and more may follow it.
Read(now) ==
  /\ elements' = elements + 1
  /\ place' = now
  /\ UNCHANGED <<phase, memory, serving, destroyed>>

(* The program ends when it cannot load its configuration.                 *)
Fail ==
  /\ phase' = "failed"
  /\ UNCHANGED <<configurationVars, loading, serving, destroyed>>

\* The host and the ruleset that are read: the last ones.
Here == Len(vhosts)
LastOf(h) == Len(vhosts[h].rulesets)

RootSetting(s) ==
  /\ MayRead({"before", "host", "rewrite", "hostAgain", "after"})
  /\ s \notin DOMAIN file.root
  /\ scopes' = AddValue(scopes, rootScope, s, NewValue)
  /\ HaveValue(rootScope, s)
  /\ file' = [file EXCEPT !.root = With(@, s, NewValue)]
  /\ Read(IF place = "before" THEN "before" ELSE "after")
  /\ UNCHANGED <<vhosts, defaultHost, compiler>>

InVirtualHosts == {"before", "host", "rewrite", "hostAgain"}

\* A virtual host, with its Hosts and Default.
VirtualHost(named, default) ==
  /\ MayRead(InVirtualHosts)
  /\ default => defaultHost = 0
  /\ scopes' = AddScope(scopes)
  /\ vhosts' = Append(vhosts, [scope |-> Len(scopes) + 1, rulesets |-> <<>>])
  /\ defaultHost' = IF default THEN Here + 1 ELSE defaultHost
  /\ file' = [file EXCEPT !.hosts = Append(@,
       [named |-> named, default |-> default, settings |-> Empty, rulesets |-> <<>>])]
  /\ Read("host")
  /\ UNCHANGED <<haveValue, haveScopedValue, compiler>>

SecondDefault == MayRead(InVirtualHosts) /\ defaultHost # 0 /\ Fail

VirtualHostSetting(s) ==
  /\ MayRead({"host", "rewrite", "hostAgain"})
  /\ s \notin DOMAIN file.hosts[Here].settings
  /\ scopes' = AddValue(scopes, vhosts[Here].scope, s, NewValue)
  /\ HaveValue(vhosts[Here].scope, s)
  /\ file' = [file EXCEPT !.hosts[Here].settings = With(@, s, NewValue)]
  /\ Read(IF place = "host" THEN "host" ELSE "hostAgain")
  /\ UNCHANGED <<vhosts, defaultHost, compiler>>

-----------------------------------------------------------------------------
(* Compiling rulesets.  The settings of a ruleset go to a scope of their   *)
(* own, which is pending until an opcode is made that activates it.        *)

MakeOpcode(hosts, at, opcode) ==
  [hosts EXCEPT ![at.host].rulesets[at.ruleset] = Append(@, opcode)]

NeverFlushed == vhosts  \* A bug: a pending scope is forgotten

\* An opcode at the end of the last ruleset activates the pending scope.
Flushed ==
  IF compiler.inScope
  THEN MakeOpcode(vhosts, compiler.last, Opcode("ACTIVATE_SCOPE", "", compiler.scope))
  ELSE vhosts

Ruleset ==
  /\ MayRead({"host", "rewrite"})
  /\ vhosts' = [Flushed EXCEPT ![Here].rulesets = Append(@, <<>>)]
  /\ compiler' = [compiler EXCEPT !.inScope = FALSE,
                    !.last = [host |-> Here, ruleset |-> LastOf(Here) + 1]]
  /\ file' = [file EXCEPT !.hosts[Here].rulesets = Append(@, <<>>)]
  /\ Read("rewrite")
  /\ UNCHANGED <<scopes, haveValue, haveScopedValue, defaultHost>>

Items == file.hosts[Here].rulesets[LastOf(Here)]
HasItem(op, name) == \E item \in Range(Items) : item.op = op /\ item.name = name
WithItem(item) ==
  [file EXCEPT !.hosts[Here].rulesets[LastOf(Here)] = Append(@, item)]

\* A condition activates a pending scope first.  The scope it activates is
\* the one it was given itself, which is that of the virtual host.
Condition(o) ==
  /\ MayRead({"rewrite"})
  /\ o.op \in Conditions
  /\ LET pending == IF compiler.inScope
                    THEN MakeOpcode(vhosts, compiler.last,
                           Opcode("ACTIVATE_SCOPE", "", vhosts[Here].scope))
                    ELSE vhosts
     IN vhosts' = MakeOpcode(pending, compiler.last, o)
  /\ compiler' = [compiler EXCEPT !.inScope = FALSE]
  /\ file' = WithItem(o)
  /\ Read("rewrite")
  /\ UNCHANGED <<scopes, haveValue, haveScopedValue, defaultHost>>

\* SET and CALL.  Only the name of a variable may appear again.
Statement(o) ==
  /\ MayRead({"rewrite"})
  /\ o.op \in {"SET", "CALL"}
  /\ o.name \notin ReadOnly
  /\ o.op = "CALL" => ~HasItem("CALL", o.name)
  /\ vhosts' = MakeOpcode(vhosts, compiler.last, o)
  /\ file' = WithItem(o)
  /\ Read("rewrite")
  /\ UNCHANGED <<scopes, haveValue, haveScopedValue, defaultHost, compiler>>

SetReadOnly(o) ==
  /\ MayRead({"rewrite"})
  /\ o.op = "SET" /\ o.name \in ReadOnly
  /\ Fail

\* DocumentRoot and FastCGIClient, whose hooks call the ConfigurationHook.
RulesetSetting(s) ==
  /\ MayRead({"rewrite"})
  /\ ~HasItem("SETTING", s)
  /\ LET all == IF compiler.inScope THEN scopes ELSE AddScope(scopes)
         scope == IF compiler.inScope THEN compiler.scope ELSE Len(all)
     IN /\ scopes' = AddValue(all, scope, s, NewValue)
        /\ HaveValue(scope, s)
        /\ compiler' = [compiler EXCEPT !.inScope = TRUE, !.scope = scope]
  /\ file' = WithItem(Opcode("SETTING", s, NewValue))
  /\ Read("rewrite")
  /\ UNCHANGED <<vhosts, defaultHost>>

EndOfFile ==
  /\ phase = "load"
  /\ phase' = "loaded"
  /\ LoadRootScope
  /\ UNCHANGED <<loading, serving, destroyed>>

(* The checks of the modules.  Hosts are needed for a server to listen.    *)
DefaultFound ==
  IF defaultHost = 0 /\ Len(vhosts) = 1 /\ file.hosts[1].named THEN 1 ELSE defaultHost

CheckConfiguration ==
  /\ phase = "loaded"
  /\ DefaultFound # 0
  /\ phase' = "running"
  /\ defaultHost' = DefaultFound
  /\ vhosts' = Flushed
  /\ compiler' = [compiler EXCEPT !.inScope = FALSE]
  /\ UNCHANGED <<configurationVars, file, elements, place, serving, destroyed>>

NoDefault == phase = "loaded" /\ DefaultFound = 0 /\ Fail

-----------------------------------------------------------------------------
(* A request whose header is complete.  Hosts are named by their place in  *)
(* the file; a name no host has is one that was never configured.          *)

Lookup(name) ==
  IF Len(vhosts) > 1 /\ name \in DOMAIN vhosts /\ file.hosts[name].named
  THEN name ELSE defaultHost

\* A handler may begin.
MayBegin == phase = "running" /\ handler = NULL

Begin(r, stage) ==
  /\ handler' = [request |-> r, stage |-> stage, ruleset |-> 1, opcode |-> 1,
                  found |-> memory]
  /\ UNCHANGED <<scopes, haveValue, haveScopedValue, phase, loading, left, destroyed>>

HandleHeader(r, name, version) ==
  /\ MayBegin
  /\ requests[r] = NULL
  /\ LET scope == vhosts[Lookup(name)].scope
     IN /\ memory' = ActivateScope(memory, scopes[scope])
        /\ requests' = [requests EXCEPT ![r] =
             [name |-> name, version |-> version, vHost |-> Lookup(name),
              variables |-> [HTTPVersion |-> version, HTTPAnswerCode |-> 0, HTTPMethod |-> 1],
              group |-> <<scope>>, client |-> Default, headerSent |-> FALSE,
              state |-> "parser"]]
  /\ Begin(r, "rewrite")

-----------------------------------------------------------------------------
(* The virtual machine: one action for each kind of opcode.                *)

Current == requests[handler.request]
Rulesets == vhosts[Current.vHost].rulesets

Rewriting == handler # NULL /\ handler.stage = "rewrite"
InRuleset ==
  /\ Rewriting
  /\ handler.ruleset <= Len(Rulesets)
  /\ handler.opcode <= Len(Rulesets[handler.ruleset])

\* The opcode at hand.
AtHand == Rulesets[handler.ruleset][handler.opcode]

NextOpcode == handler' = [handler EXCEPT !.opcode = @ + 1]
StopExecution == handler' = [handler EXCEPT !.ruleset = @ + 1, !.opcode = 1]
Throw == handler' = [handler EXCEPT !.stage = "exception"]
Becomes(request) == requests' = [requests EXCEPT ![handler.request] = request]
UnchangedByHandler ==
  UNCHANGED <<scopes, haveValue, haveScopedValue, phase, loading, left, destroyed>>

Holds(variables, o) == (o.op = "IF_EQUAL") = (variables[o.name] = o.value)

IsEqual ==
  /\ InRuleset
  /\ AtHand.op \in Conditions
  /\ IF Holds(Current.variables, AtHand) THEN NextOpcode ELSE StopExecution
  /\ UnchangedByHandler
  /\ UNCHANGED <<memory, requests>>

\* What the setters refuse.
Refused(variables, o) ==
  CASE o.name = "HTTPAnswerCode" -> o.value < 100 \/ o.value > 599
    [] o.name = "HTTPVersion" ->
         \/ o.value < 10 \/ o.value > 11
         \/ o.value = 11 /\ variables.HTTPVersion < 11

Set ==
  /\ InRuleset
  /\ AtHand.op = "SET"
  /\ IF Refused(Current.variables, AtHand)
     THEN Throw /\ UNCHANGED requests
     ELSE /\ NextOpcode
          /\ Becomes([Current EXCEPT !.variables[AtHand.name] = AtHand.value])
  /\ UnchangedByHandler
  /\ UNCHANGED memory

\* ThrowException stops the parser.
Call ==
  /\ InRuleset
  /\ AtHand.op = "CALL"
  /\ Throw
  /\ UnchangedByHandler
  /\ UNCHANGED <<memory, requests>>

ExecuteActivateScope ==
  /\ InRuleset
  /\ AtHand.op = "ACTIVATE_SCOPE"
  /\ memory' = ActivateScope(memory, scopes[AtHand.value])
  /\ Becomes([Current EXCEPT !.group = Append(@, AtHand.value)])
  /\ NextOpcode
  /\ UnchangedByHandler

EndOfRuleset ==
  /\ Rewriting
  /\ handler.ruleset <= Len(Rulesets)
  /\ handler.opcode > Len(Rulesets[handler.ruleset])
  /\ StopExecution
  /\ UnchangedByHandler
  /\ UNCHANGED <<memory, requests>>

EndOfRulesets ==
  /\ Rewriting
  /\ handler.ruleset > Len(Rulesets)
  /\ handler' = [handler EXCEPT !.stage = "serve"]
  /\ UnchangedByHandler
  /\ UNCHANGED <<memory, requests>>

-----------------------------------------------------------------------------
(* The ends of handlers, and the handlers of FastCGI.                      *)

At(stage) == handler # NULL /\ handler.stage = stage

\* The handler returns, in one of two ways.
Unscoping ==
  /\ memory' = Unscope(memory)
  /\ handler' = NULL
  /\ left' = FALSE
  /\ UNCHANGED <<scopes, haveValue, haveScopedValue, phase, loading, destroyed>>

Leaving ==
  /\ handler' = NULL
  /\ left' = TRUE
  /\ UNCHANGED <<configurationVars, phase, loading, destroyed>>

\* The FastCGI backend serves when there is a client, otherwise the static
\* one.
ServeContent ==
  /\ At("serve")
  /\ Becomes(IF memory["FastCGIClient"] \in {Zero, Default} THEN NULL
             ELSE [Current EXCEPT !.state = "FastCGI",
                                  !.client = memory["FastCGIClient"]])
  /\ Unscoping

Exception == At("exception") /\ Becomes(NULL) /\ Unscoping

MayBeginFor(r, states) ==
  /\ MayBegin
  /\ requests[r] # NULL
  /\ requests[r].state \in states

\* A handler that activates the scope group of its request.
BeginScoped(r, stage) ==
  /\ memory' = ActivateScopeGroup(memory, requests[r].group)
  /\ Begin(r, stage)
  /\ UNCHANGED requests

(* Output sends the headers, before HTTP/1.1 only at the end of a request. *)
Output(r) == MayBeginFor(r, {"FastCGI"}) /\ BeginScoped(r, "output")
EndOutput ==
  /\ At("output")
  /\ \/ UNCHANGED requests
     \/ /\ Current.variables["HTTPVersion"] # 10
        /\ Becomes([Current EXCEPT !.headerSent = TRUE])
  /\ Unscoping

OnClientRead(r) == MayBeginFor(r, {"FastCGI"}) /\ BeginScoped(r, "read")
EndClientRead == At("read") /\ Leaving /\ UNCHANGED requests

\* The client hangs up.  When its request is not in the table any more,
\* because the server hung up, the handler returns early.
OnClientHangup(r) == MayBeginFor(r, {"FastCGI", "lost"}) /\ BeginScoped(r, "hangup")

AbortRequest ==
  /\ At("hangup") /\ Current.state = "FastCGI"
  /\ Becomes([Current EXCEPT !.state = "aborted"])
  /\ Unscoping

AlreadyFinished ==
  /\ At("hangup") /\ Current.state = "lost"
  /\ Becomes(NULL)
  /\ Leaving

\* What needs no setting.
Unscoped(r, request) ==
  /\ requests' = [requests EXCEPT ![r] = request]
  /\ UNCHANGED <<configurationVars, phase, loading, handler, left, destroyed>>

\* A handler that reads settings and activates no scope, nor unscopes.
BeginUnscoped(r, stage) == Begin(r, stage) /\ UNCHANGED <<memory, requests>>
EndUnscoped(request) ==
  /\ Becomes(request)
  /\ handler' = NULL
  /\ UNCHANGED <<configurationVars, phase, loading, left, destroyed>>

(* The server ends the request: if no headers were sent they are now, to a *)
(* client that is still there.                                             *)
EndRequest(r) ==
  /\ MayBeginFor(r, {"FastCGI", "aborted"})
  /\ IF requests[r].state = "aborted" \/ requests[r].headerSent
     THEN Unscoped(r, NULL) ELSE BeginUnscoped(r, "answer")

EndAnswer == At("answer") /\ EndUnscoped(NULL)

(* The server hangs up: an exception page if no headers were sent.  (With  *)
(* a client that is gone it is the same as if the request ended.)          *)
OnRemoteHangup(r) ==
  /\ MayBeginFor(r, {"FastCGI"})
  /\ IF requests[r].headerSent
     THEN Unscoped(r, [requests[r] EXCEPT !.state = "lost"])
     ELSE BeginUnscoped(r, "gateway")

EndGateway ==
  At("gateway") /\ EndUnscoped([Current EXCEPT !.state = "lost", !.headerSent = TRUE])

AnswerWritten(r) == MayBeginFor(r, {"lost"}) /\ Unscoped(r, NULL)

-----------------------------------------------------------------------------
(* Unloading: the destructors of the file's elements destroy the scopes.   *)

Activates(h, j, k, i) ==
  /\ j \in DOMAIN vhosts[h].rulesets
  /\ k \in DOMAIN vhosts[h].rulesets[j]
  /\ vhosts[h].rulesets[j][k] = Opcode("ACTIVATE_SCOPE", "", i)

Destructions(i) ==
  LET opcodes == {t \in (DOMAIN vhosts) \X (1..MaxElements) \X (1..(2 * MaxElements)) :
                    Activates(t[1], t[2], t[3], i)}
      hosts == {h \in DOMAIN vhosts : vhosts[h].scope = i}
  IN Cardinality(opcodes) + Cardinality(hosts) + (IF i = rootScope THEN 1 ELSE 0)

Unload ==
  /\ MayBegin
  /\ phase' = "unloaded"
  /\ destroyed' = [i \in DOMAIN scopes |-> Destructions(i)]
  /\ UNCHANGED <<configurationVars, loading, serving>>

-----------------------------------------------------------------------------
Init ==
  /\ ConfigurationInit
  /\ phase = "load"
  /\ file = [root |-> Empty, hosts |-> <<>>]
  /\ elements = 0
  /\ place = "before"
  /\ vhosts = <<>>
  /\ defaultHost = 0
  /\ compiler = [inScope |-> FALSE, scope |-> 0, last |-> [host |-> 0, ruleset |-> 0]]
  /\ requests = [r \in Request |-> NULL]
  /\ handler = NULL
  /\ left = FALSE
  /\ destroyed = <<>>

Load ==
  \/ \E s \in RootSettings : RootSetting(s)
  \/ \E named, default \in BOOLEAN : VirtualHost(named, default)
  \/ SecondDefault
  \/ \E s \in VirtualHostSettings : VirtualHostSetting(s)
  \/ Ruleset
  \/ \E o \in Operations : Condition(o) \/ Statement(o) \/ SetReadOnly(o)
  \/ \E s \in RulesetSettings : RulesetSetting(s)
  \/ EndOfFile \/ CheckConfiguration \/ NoDefault

Execute ==
  \/ IsEqual \/ Set \/ Call \/ ExecuteActivateScope
  \/ EndOfRuleset \/ EndOfRulesets

Serve ==
  \/ \E r \in Request, name \in 0..Len(vhosts), version \in Versions :
       HandleHeader(r, name, version)
  \/ Execute \/ ServeContent \/ Exception
  \/ \E r \in Request :
       \/ Output(r) \/ OnClientRead(r) \/ OnClientHangup(r)
       \/ EndRequest(r) \/ OnRemoteHangup(r) \/ AnswerWritten(r)
  \/ EndOutput \/ EndClientRead \/ AbortRequest \/ AlreadyFinished
  \/ EndAnswer \/ EndGateway

Next == Load \/ Serve \/ Unload

Spec == Init /\ [][Next]_vars

-----------------------------------------------------------------------------
(* What the file means, from the file alone: the settings of the server,   *)
(* which are the defaults if it does not say; over what there is, those of *)
(* the host a client asked for; and over them those of the rulesets whose  *)
(* conditions hold, in the order of the file.                              *)

Over(settings, values) ==
  [s \in Setting |-> IF s \in DOMAIN values THEN values[s] ELSE settings[s]]

RootMeans == Over([s \in Setting |-> IF s \in Listed THEN Zero ELSE Default], file.root)

MeantHost(name) ==
  IF name \in DOMAIN file.hosts /\ file.hosts[name].named THEN file.hosts[name]
  ELSE IF Len(file.hosts) = 1 THEN file.hosts[1]
  ELSE CHOOSE host \in Range(file.hosts) : host.default

ItemMeans(so, item) ==
  IF ~so.applies THEN so
  ELSE CASE item.op = "SETTING" -> [so EXCEPT !.settings[item.name] = item.value]
         [] item.op = "SET" -> [so EXCEPT !.variables[item.name] = item.value]
         [] item.op \in Conditions -> [so EXCEPT !.applies = Holds(so.variables, item)]
         [] OTHER -> so

RulesetMeans(so, ruleset) == FoldLeft(ItemMeans, [so EXCEPT !.applies = TRUE], ruleset)

HostMeans(settings, name) == Over(settings, MeantHost(name).settings)

Means(settings, name, version) ==
  FoldLeft(RulesetMeans,
           [settings |-> HostMeans(settings, name), applies |-> TRUE,
            variables |-> [HTTPVersion |-> version, HTTPAnswerCode |-> 0, HTTPMethod |-> 1]],
           MeantHost(name).rulesets).settings

(* Files in which no condition follows a setting of its ruleset: the code  *)
(* activates another scope than the pending one for those that do.         *)
ConditionsFirst(ruleset) ==
  \A i, j \in DOMAIN ruleset :
    i < j /\ ruleset[i].op = "SETTING" => ruleset[j].op \notin Conditions
Orderly ==
  \A host \in Range(file.hosts) : \A ruleset \in Range(host.rulesets) : ConditionsFirst(ruleset)

(* A handler that works for a request has the settings that the file means *)
(* for it, from the first content to what comes of it much later: what it  *)
(* gives the host and the rulesets is in force whatever there was before,  *)
(* and the rest is as the handler found it.  An exception page shows or    *)
(* hides the name of the server as the host says (PancakeHTTP.c:1264,      *)
(* PancakeHTTPFastCGI.c:453).  What a handler finds are the settings of    *)
(* the server, unless the one before it left a scope behind: so headers    *)
(* and pages that are written when the server ends a request or hangs up   *)
(* show its name as the server says, never as the host does.  The document *)
(* root is the exception: a host without one has that of an earlier        *)
(* request.                                                                *)
SettingsMean ==
  handler # NULL /\ Orderly =>
    /\ handler.stage \in {"serve", "output", "read", "hangup"} =>
         memory = Means(handler.found, Current.name, Current.version)
    /\ handler.stage = "exception" =>
         memory["ServerHeader"] = HostMeans(handler.found, Current.name)["ServerHeader"]
    /\ handler.stage \in {"answer", "gateway"} => memory = handler.found
    /\ ~left => \A s \in Setting \ Listed : handler.found[s] = RootMeans[s]

(* Between handlers memory holds the settings of the server, whatever      *)
(* scopes were activated before: the pruned root scope suffices to undo    *)
(* them (PancakeConfiguration.c:217), unless a handler has just left       *)
(* without unscoping.  Settings of lists alone are not undone: the root    *)
(* scope never had them (PancakeConfiguration.c:147).                      *)
RootInForce ==
  /\ phase = "loaded" => memory = RootMeans
  /\ phase = "running" /\ handler = NULL /\ ~left =>
       \A s \in Setting \ Listed : memory[s] = RootMeans[s]

(* When such a file is unloaded every scope has been destroyed exactly     *)
(* once: those of hosts by their hosts, those of rulesets by the opcodes   *)
(* that activate them (PancakeHTTPRewrite.c:95).                           *)
ScopesDestroyed ==
  phase = "unloaded" /\ Orderly => \A i \in DOMAIN scopes : destroyed[i] = 1

=============================================================================
