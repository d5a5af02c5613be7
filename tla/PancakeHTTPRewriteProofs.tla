---------------------- MODULE PancakeHTTPRewriteProofs ----------------------
(***************************************************************************)
(* Proofs about PancakeHTTPRewrite: for files of any length, any           *)
(* operations and any number of requests, a handler that unscopes leaves   *)
(* the settings of the server in memory (but for those of lists), although *)
(* the root scope keeps only the few that it takes to undo the scopes      *)
(* there are (IInv); the opcodes and scopes a file is compiled to do what  *)
(* the file means (CompileInv), so that every request is served with what  *)
(* is meant for it over what its handler found (ServedInv), and every      *)
(* scope has one owner that destroys it.                                   *)
(***************************************************************************)
EXTENDS PancakeHTTPRewrite, WellFoundedInduction, FiniteSetTheorems, TLAPS

-----------------------------------------------------------------------------
(* What scopes, hosts and requests are when there are n scopes.            *)

Scope == UNION {[D -> Nat] : D \in SUBSET Setting}

AnyOpcode(n) == Operations \union [op : {"ACTIVATE_SCOPE"}, name : {""}, value : 2..n]

Host(n) == [scope : 2..n, rulesets : Seq(Seq(AnyOpcode(n)))]

IsRequest(r) ==
  /\ r \in RequestRecord
  /\ r.vHost \in 1..Len(vhosts)
  /\ r.group \in Seq(2..Len(scopes))

ScopeInv ==
  /\ scopes \in Seq(Scope) /\ Len(scopes) > 0
  /\ DOMAIN file = {"root", "hosts"} /\ file.root \in Scope
  /\ DOMAIN file.root \subseteq Setting \ Listed
  /\ haveScopedValue \subseteq Setting
  /\ haveValue = DOMAIN file.root \union haveScopedValue
  /\ \A i \in 2..Len(scopes) : DOMAIN scopes[i] \subseteq haveScopedValue

PlaceInv ==
  /\ place \in {"before", "host", "rewrite", "hostAgain", "after"}
  /\ place \in {"host", "rewrite", "hostAgain"} => vhosts # <<>>

HostInv ==
  /\ PlaceInv
  /\ elements \in 0..MaxElements
  /\ vhosts \in Seq(Host(Len(scopes)))
  /\ defaultHost \in 0..Len(vhosts)
  /\ DOMAIN compiler = {"inScope", "scope", "last"}
  /\ compiler.inScope => compiler.scope \in 2..Len(scopes)

RequestInv ==
  /\ phase \in {"load", "loaded", "running", "unloaded", "failed"}
  /\ left \in BOOLEAN
  /\ phase \in {"load", "loaded", "failed"} =>
       requests = [r \in Request |-> NULL] /\ handler = NULL /\ ~left
  /\ phase = "running" => defaultHost > 0
  /\ DOMAIN requests = Request
  /\ \A r \in Request : requests[r] # NULL => IsRequest(requests[r])
  /\ handler # NULL =>
       /\ phase = "running" /\ handler \in Handler
       /\ handler.ruleset > 0 /\ handler.opcode > 0
       /\ requests[handler.request] # NULL

(* No handler runs, or one that activates no scope.                        *)
NoScope == handler = NULL \/ handler.stage \in {"answer", "gateway"}

(* The root scope has exactly the settings that other scopes have too, but *)
(* those of lists, and what the file means by them; the settings no other  *)
(* scope has never leave memory.                                           *)
RootInv ==
  /\ \A s \in haveScopedValue \ Listed : s \in DOMAIN scopes[rootScope]
                                          /\ scopes[rootScope][s] = RootMeans[s]
  /\ DOMAIN scopes[rootScope] = haveScopedValue \ Listed
  /\ \A s \in Setting \ haveScopedValue : memory[s] = RootMeans[s]
  /\ NoScope /\ ~left => \A s \in Setting \ Listed : memory[s] = RootMeans[s]

MemoryInv ==
  /\ memory \in [Setting -> Nat]
  /\ phase = "load" => scopes[rootScope] = file.root /\ memory = [s \in Setting |-> Zero]
  /\ phase = "loaded" => memory = RootMeans
  /\ phase \in {"loaded", "running"} => RootInv

IInv == ScopeInv /\ HostInv /\ RequestInv /\ MemoryInv

USE DEF rootScope

LEMMA Constants ==
  /\ Setting = {"ServerHeader", "DocumentRoot", "FastCGIClient"}
  /\ MaxElements \in Nat
  /\ RootSettings \subseteq Setting \ Listed /\ RulesetSettings \subseteq Setting
BY RewriteAssumption DEF VirtualHostSettings, RootSettings, RulesetSettings

-----------------------------------------------------------------------------
(* The operators.                                                          *)

LEMMA ExceptSeq ==
  ASSUME NEW S, NEW seq \in Seq(S), NEW i \in 1..Len(seq), NEW e \in S
  PROVE  /\ [seq EXCEPT ![i] = e] \in Seq(S)
         /\ Len([seq EXCEPT ![i] = e]) = Len(seq)
         /\ \A j \in 1..Len(seq) : [seq EXCEPT ![i] = e][j] = IF j = i THEN e ELSE seq[j]
OBVIOUS

LEMMA ExceptOutside ==
  ASSUME NEW S, NEW seq \in Seq(S), NEW i, i \notin 1..Len(seq), NEW e
  PROVE  [seq EXCEPT ![i] = e] = seq
OBVIOUS

LEMMA EmptyScope == Empty \in Scope /\ DOMAIN Empty = {}
<1>1. DOMAIN Empty = {} /\ Empty \in [{} -> Nat]
  BY DEF Empty
<1> QED BY <1>1 DEF Scope

LEMMA WithScope ==
  ASSUME NEW scope \in Scope, NEW s \in Setting, NEW v \in Nat
  PROVE  With(scope, s, v) \in Scope /\ DOMAIN With(scope, s, v) = DOMAIN scope \union {s}
<1>1. PICK D \in SUBSET Setting : scope \in [D -> Nat]
  BY DEF Scope
<1>2. With(scope, s, v) \in [D \union {s} -> Nat] /\ DOMAIN With(scope, s, v) = D \union {s}
  BY <1>1 DEF With
<1> QED BY <1>1, <1>2 DEF Scope

LEMMA AddValueScopes ==
  ASSUME NEW all \in Seq(Scope), NEW i \in 1..Len(all), NEW s \in Setting, NEW v \in Nat
  PROVE  /\ AddValue(all, i, s, v) \in Seq(Scope)
         /\ Len(AddValue(all, i, s, v)) = Len(all)
         /\ \A j \in 1..Len(all) :
              AddValue(all, i, s, v)[j] = IF j = i THEN With(all[i], s, v) ELSE all[j]
<1>1. all[i] \in Scope
  OBVIOUS
<1>2. With(all[i], s, v) \in Scope
  BY <1>1, WithScope
<1>3. AddValue(all, i, s, v) = [all EXCEPT ![i] = With(all[i], s, v)]
  BY DEF AddValue
<1> QED BY <1>2, <1>3, ExceptSeq

LEMMA AddScopeScopes ==
  ASSUME NEW all \in Seq(Scope)
  PROVE  /\ AddScope(all) \in Seq(Scope)
         /\ Len(AddScope(all)) = Len(all) + 1
         /\ \A j \in 1..Len(all) : AddScope(all)[j] = all[j]
         /\ AddScope(all)[Len(all) + 1] = Empty
BY EmptyScope DEF AddScope

LEMMA ScopeMemory ==
  ASSUME NEW mem \in [Setting -> Nat], NEW scope \in Scope
  PROVE  ActivateScope(mem, scope) \in [Setting -> Nat]
<1>1. PICK D \in SUBSET Setting : scope \in [D -> Nat]
  BY DEF Scope
<1> QED BY <1>1 DEF ActivateScope

(* More scopes, or more values in them, and a host is a host.              *)
LEMMA HostsGrow ==
  ASSUME NEW n \in Nat, NEW m \in Nat, n <= m, NEW hosts \in Seq(Host(n))
  PROVE  hosts \in Seq(Host(m))
<1>1. 2..n \subseteq 2..m
  OBVIOUS
<1>2. AnyOpcode(n) \subseteq AnyOpcode(m)
  BY <1>1 DEF AnyOpcode
<1>3. Seq(Seq(AnyOpcode(n))) \subseteq Seq(Seq(AnyOpcode(m)))
  BY <1>2
<1>4. Host(n) \subseteq Host(m)
  BY <1>1, <1>3 DEF Host
<1> QED BY <1>4

LEMMA MadeOpcode ==
  ASSUME NEW n \in Nat, NEW hosts \in Seq(Host(n)), NEW at, NEW o \in AnyOpcode(n)
  PROVE  MakeOpcode(hosts, at, o) \in Seq(Host(n)) /\ Len(MakeOpcode(hosts, at, o)) = Len(hosts)
<1> DEFINE h == at.host
           j == at.ruleset
           ruleset == Append(hosts[h].rulesets[j], o)
           rulesets == [hosts[h].rulesets EXCEPT ![j] = ruleset]
           host == [hosts[h] EXCEPT !.rulesets = rulesets]
<1>1. MakeOpcode(hosts, at, o) = [hosts EXCEPT ![h] = host]
  BY DEF MakeOpcode
<1>2. CASE h \notin 1..Len(hosts)
  BY <1>1, <1>2, ExceptOutside
<1>3. CASE h \in 1..Len(hosts)
  <2>1. hosts[h] \in Host(n)
    BY <1>3
  <2>2. hosts[h].rulesets \in Seq(Seq(AnyOpcode(n)))
    BY <2>1 DEF Host
  <2>3. ASSUME j \notin 1..Len(hosts[h].rulesets) PROVE rulesets = hosts[h].rulesets
    BY <2>2, <2>3, ExceptOutside
  <2>4. ASSUME j \in 1..Len(hosts[h].rulesets) PROVE rulesets \in Seq(Seq(AnyOpcode(n)))
    <3>1. ruleset \in Seq(AnyOpcode(n))
      BY <2>2, <2>4
    <3> QED BY <2>2, <2>4, <3>1, ExceptSeq
  <2>5. rulesets \in Seq(Seq(AnyOpcode(n)))
    BY <2>2, <2>3, <2>4
  <2>6. host \in Host(n)
    BY <2>1, <2>5 DEF Host
  <2> QED BY <1>1, <1>3, <2>6, ExceptSeq
<1> QED BY <1>2, <1>3

-----------------------------------------------------------------------------
(* Reading the file.                                                       *)

LEMMA InitIInv == Init => IInv
<1> SUFFICES ASSUME Init PROVE IInv
  OBVIOUS
<1> USE DEF Init, ConfigurationInit
<1>1. scopes = <<Empty>> /\ file.root = Empty /\ Len(scopes) = 1
  OBVIOUS
<1>2. ScopeInv
  BY <1>1, EmptyScope DEF ScopeInv
<1>3. HostInv
  BY <1>1, Constants DEF HostInv, PlaceInv
<1>4. RequestInv
  BY DEF RequestInv
<1>5. MemoryInv
  BY <1>1 DEF MemoryInv, Zero
<1> QED BY <1>2, <1>3, <1>4, <1>5 DEF IInv

(* While the file is read nobody is served, and the root scope is what the *)
(* file says for the server.                                               *)
LEMMA ReadKeeps ==
  ASSUME RequestInv, MemoryInv, phase = "load", NEW now, Read(now),
         scopes'[rootScope] = file'.root
  PROVE  RequestInv' /\ MemoryInv'
<1>1. UNCHANGED <<phase, memory, requests, handler, left>>
  BY DEF Read, serving
<1> QED BY <1>1 DEF RequestInv, MemoryInv

LEMMA Reading ==
  ASSUME HostInv, NEW places, MayRead(places)
  PROVE  /\ phase = "load" /\ place \in places
         /\ elements \in Nat /\ elements + 1 \in 0..MaxElements /\ NewValue \in Nat
<1>1. phase = "load" /\ place \in places /\ elements < MaxElements
  BY DEF MayRead
<1>2. elements \in 0..MaxElements
  BY DEF HostInv
<1> QED BY <1>1, <1>2, Constants DEF NewValue

LEMMA ReadHosts ==
  ASSUME HostInv, NEW places, MayRead(places),
         \/ Read("before") \/ Read("after")
         \/ (vhosts' # <<>> /\ \E now \in {"host", "rewrite", "hostAgain"} : Read(now))
  PROVE  PlaceInv' /\ elements' \in 0..MaxElements
<1>1. elements' = elements + 1 /\ elements + 1 \in 0..MaxElements
  BY Reading DEF Read
<1>2. PlaceInv'
  BY DEF PlaceInv, Read
<1> QED BY <1>1, <1>2

LEMMA RootSettingKeeps ==
  ASSUME IInv, NEW s \in RootSettings, RootSetting(s) PROVE IInv'
<1> USE DEF IInv
<1>1. PICK places : MayRead(places)
  BY DEF RootSetting
<1>2. phase = "load" /\ NewValue \in Nat /\ s \in Setting /\ s \notin Listed
  BY <1>1, Reading, Constants
<1>3. scopes' = AddValue(scopes, 1, s, NewValue) /\ 1 \in 1..Len(scopes) /\ scopes \in Seq(Scope)
  <2>1. scopes' = AddValue(scopes, 1, s, NewValue)
    BY DEF RootSetting
  <2> QED BY <2>1 DEF ScopeInv
<1>4. /\ scopes' \in Seq(Scope) /\ Len(scopes') = Len(scopes)
      /\ scopes'[1] = With(scopes[1], s, NewValue)
      /\ \A i \in 2..Len(scopes) : scopes'[i] = scopes[i]
  BY <1>2, <1>3, AddValueScopes
<1>5. /\ DOMAIN file' = {"root", "hosts"} /\ file'.root = With(file.root, s, NewValue)
      /\ scopes[1] = file.root /\ file.root \in Scope
  BY <1>2 DEF RootSetting, ScopeInv, MemoryInv
<1>6. file'.root \in Scope /\ DOMAIN file'.root = DOMAIN file.root \union {s}
  <2>1. file.root \in Scope /\ s \in Setting /\ NewValue \in Nat
    BY <1>2, <1>5
  <2>2. /\ With(file.root, s, NewValue) \in Scope
        /\ DOMAIN With(file.root, s, NewValue) = DOMAIN file.root \union {s}
    BY <2>1, WithScope
  <2> QED BY <1>5, <2>2
<1>7. haveScopedValue' = haveScopedValue /\ haveValue' = haveValue \union {s}
  BY DEF RootSetting, HaveValue
<1>8. ScopeInv'
  <2>1. DOMAIN file'.root \subseteq Setting \ Listed
    BY <1>2, <1>6 DEF ScopeInv
  <2> QED BY <1>4, <1>5, <1>6, <1>7, <2>1 DEF ScopeInv
<1>9. PICK now \in {"before", "after"} : Read(now)
  BY DEF RootSetting
<1>10. HostInv'
  <2>1. UNCHANGED <<vhosts, defaultHost, compiler>> /\ Len(scopes') = Len(scopes)
    BY <1>4 DEF RootSetting
  <2>2. Read("before") \/ Read("after")
    BY <1>9
  <2>3. PlaceInv' /\ elements' \in 0..MaxElements
    BY <1>1, <2>2, ReadHosts
  <2> QED BY <2>1, <2>3 DEF HostInv
<1> QED BY <1>2, <1>4, <1>5, <1>8, <1>9, <1>10, ReadKeeps

LEMMA VirtualHostKeeps ==
  ASSUME IInv, NEW named, NEW default, VirtualHost(named, default) PROVE IInv'
<1> USE DEF IInv
<1>1. phase = "load" /\ MayRead(InVirtualHosts) /\ Read("host")
  BY DEF VirtualHost, MayRead
<1>2. /\ scopes \in Seq(Scope) /\ Len(scopes) > 0 /\ vhosts \in Seq(Host(Len(scopes)))
      /\ scopes' = AddScope(scopes)
  BY DEF VirtualHost, ScopeInv, HostInv
<1>3. /\ scopes' \in Seq(Scope) /\ Len(scopes') = Len(scopes) + 1
      /\ \A i \in 1..Len(scopes) : scopes'[i] = scopes[i]
      /\ scopes'[Len(scopes')] = Empty
  BY <1>2, AddScopeScopes
<1>4. UNCHANGED <<haveValue, haveScopedValue, compiler>> /\ file'.root = file.root
      /\ DOMAIN file' = {"root", "hosts"}
  BY DEF VirtualHost, ScopeInv
<1>5. ScopeInv'
  <2>1. \A i \in 2..Len(scopes') : DOMAIN scopes'[i] \subseteq haveScopedValue
    BY <1>2, <1>3, EmptyScope DEF ScopeInv
  <2> QED BY <1>2, <1>3, <1>4, <2>1 DEF ScopeInv
<1>6. [scope |-> Len(scopes) + 1, rulesets |-> <<>>] \in Host(Len(scopes'))
  BY <1>2, <1>3 DEF Host
<1>7. vhosts \in Seq(Host(Len(scopes')))
  BY <1>2, <1>3, HostsGrow
<1>8. vhosts' \in Seq(Host(Len(scopes'))) /\ Len(vhosts') = Len(vhosts) + 1
  BY <1>6, <1>7 DEF VirtualHost
<1>9. defaultHost' \in 0..Len(vhosts')
  BY <1>8, <1>7 DEF VirtualHost, HostInv, Here
<1>10. HostInv'
  <2>1. vhosts' # <<>>
    BY <1>7, <1>8
  <2>2. PlaceInv' /\ elements' \in 0..MaxElements
    BY <1>1, <2>1, ReadHosts
  <2> QED BY <1>2, <1>3, <1>4, <1>8, <1>9, <2>2 DEF HostInv
<1>11. scopes'[rootScope] = file'.root
  BY <1>1, <1>2, <1>3, <1>4 DEF MemoryInv
<1> QED BY <1>1, <1>5, <1>10, <1>11, ReadKeeps

(* A value in a scope other than root.                                     *)
LEMMA ScopedValue ==
  ASSUME ScopeInv, NEW all \in Seq(Scope), Len(all) > 0, all[1] = scopes[1],
         \A j \in 2..Len(all) : DOMAIN all[j] \subseteq haveScopedValue,
         NEW i \in 2..Len(all), NEW s \in Setting, NEW v \in Nat,
         scopes' = AddValue(all, i, s, v), HaveValue(i, s),
         file'.root = file.root, DOMAIN file' = {"root", "hosts"}
  PROVE  ScopeInv' /\ Len(scopes') = Len(all) /\ scopes'[rootScope] = scopes[rootScope]
<1>1. i \in 1..Len(all) /\ all[i] \in Scope
  OBVIOUS
<1>2. /\ scopes' \in Seq(Scope) /\ Len(scopes') = Len(all)
      /\ \A j \in 1..Len(all) : scopes'[j] = IF j = i THEN With(all[i], s, v) ELSE all[j]
  <2> DEFINE new == AddValue(all, i, s, v)
  <2>1. new \in Seq(Scope) /\ Len(new) = Len(all)
    BY <1>1, AddValueScopes
  <2>2. \A j \in 1..Len(all) : new[j] = IF j = i THEN With(all[i], s, v) ELSE all[j]
    BY <1>1, AddValueScopes
  <2> QED BY <2>1, <2>2
<1>3. haveScopedValue' = haveScopedValue \union {s} /\ haveValue' = haveValue \union {s}
  BY DEF HaveValue
<1>4. DOMAIN With(all[i], s, v) = DOMAIN all[i] \union {s}
  BY <1>1, WithScope
<1>5. \A j \in 2..Len(scopes') : DOMAIN scopes'[j] \subseteq haveScopedValue'
  BY <1>2, <1>3, <1>4
<1> QED BY <1>1, <1>2, <1>3, <1>5 DEF ScopeInv

LEMMA VirtualHostSettingKeeps ==
  ASSUME IInv, NEW s \in VirtualHostSettings, VirtualHostSetting(s) PROVE IInv'
<1> USE DEF IInv
<1>1. PICK places : MayRead(places) /\ places = {"host", "rewrite", "hostAgain"}
  BY DEF VirtualHostSetting
<1>2. phase = "load" /\ NewValue \in Nat /\ s \in Setting /\ place \in places
  BY <1>1, Reading, RewriteAssumption
<1>3. vhosts # <<>>
  BY <1>1, <1>2 DEF HostInv, PlaceInv
<1>4. Len(vhosts) > 0 /\ vhosts \in Seq(Host(Len(scopes)))
  BY <1>3 DEF HostInv
<1>5. vhosts[Here] \in Host(Len(scopes))
  BY <1>4 DEF Here
<1>6. vhosts[Here].scope \in 2..Len(scopes)
  BY <1>5 DEF Host
<1>7. /\ file'.root = file.root /\ DOMAIN file' = {"root", "hosts"}
      /\ UNCHANGED <<vhosts, defaultHost, compiler>>
  BY DEF VirtualHostSetting, ScopeInv
<1>8. ScopeInv' /\ Len(scopes') = Len(scopes) /\ scopes'[rootScope] = scopes[rootScope]
  <2>1. /\ scopes \in Seq(Scope) /\ Len(scopes) > 0
        /\ \A j \in 2..Len(scopes) : DOMAIN scopes[j] \subseteq haveScopedValue
    BY DEF ScopeInv
  <2> QED BY <1>2, <1>6, <1>7, <2>1, ScopedValue DEF VirtualHostSetting
<1>9. PICK now \in {"host", "hostAgain"} : Read(now)
  BY DEF VirtualHostSetting
<1>10. HostInv'
  <2>1. PlaceInv' /\ elements' \in 0..MaxElements
    BY <1>1, <1>7, <1>9, <1>3, ReadHosts
  <2> QED BY <1>7, <1>8, <2>1 DEF HostInv
<1>11. scopes'[rootScope] = file'.root
  BY <1>2, <1>7, <1>8 DEF MemoryInv
<1> QED BY <1>8, <1>2, <1>9, <1>10, <1>11, ReadKeeps

(* Steps that add no scope and no value.                                   *)
LEMMA CompilingKeeps ==
  ASSUME IInv, MayRead({"rewrite"}) \/ MayRead({"host", "rewrite"}), Read("rewrite"),
         UNCHANGED <<scopes, haveValue, haveScopedValue, defaultHost>>,
         file'.root = file.root, DOMAIN file' = {"root", "hosts"},
         vhosts' \in Seq(Host(Len(scopes))), Len(vhosts') = Len(vhosts),
         DOMAIN compiler' = {"inScope", "scope", "last"},
         compiler'.inScope => compiler.inScope /\ compiler'.scope = compiler.scope
  PROVE  IInv'
<1> USE DEF IInv
<1>1. ScopeInv'
  BY DEF ScopeInv
<1>2. PICK places \in {{"rewrite"}, {"host", "rewrite"}} : MayRead(places)
  OBVIOUS
<1>3. phase = "load" /\ place \in places
  BY <1>2, Reading
<1>4. vhosts # <<>>
  BY <1>2, <1>3 DEF HostInv, PlaceInv
<1>5. vhosts' # <<>>
  BY <1>4 DEF HostInv
<1>6. PlaceInv' /\ elements' \in 0..MaxElements
  BY <1>2, <1>5, ReadHosts
<1>7. HostInv'
  BY <1>6 DEF HostInv
<1>8. scopes'[rootScope] = file'.root
  BY <1>3 DEF MemoryInv
<1> QED BY <1>1, <1>3, <1>7, <1>8, ReadKeeps

LEMMA FlushedHosts ==
  ASSUME HostInv, ScopeInv
  PROVE  Flushed \in Seq(Host(Len(scopes))) /\ Len(Flushed) = Len(vhosts)
<1>1. Len(scopes) \in Nat /\ vhosts \in Seq(Host(Len(scopes)))
  BY DEF HostInv, ScopeInv
<1>2. ASSUME compiler.inScope
      PROVE  Opcode("ACTIVATE_SCOPE", "", compiler.scope) \in AnyOpcode(Len(scopes))
  BY <1>2 DEF HostInv, Opcode, AnyOpcode
<1> QED BY <1>1, <1>2, MadeOpcode DEF Flushed

(* A ruleset more.                                                         *)
LEMMA RulesetKeeps == ASSUME IInv, Ruleset PROVE IInv'
<1>1. /\ MayRead({"host", "rewrite"}) /\ Read("rewrite")
      /\ UNCHANGED <<scopes, haveValue, haveScopedValue, defaultHost>>
  BY DEF Ruleset
<1>2. Len(vhosts) > 0
  <2>1. vhosts # <<>>
    BY <1>1, Reading DEF IInv, HostInv, PlaceInv
  <2> QED BY <2>1 DEF IInv, HostInv
<1>3. file'.root = file.root /\ DOMAIN file' = {"root", "hosts"}
  BY DEF Ruleset, IInv, ScopeInv
<1>4. Flushed \in Seq(Host(Len(scopes))) /\ Len(Flushed) = Len(vhosts)
  BY FlushedHosts DEF IInv
<1>5. Here \in 1..Len(Flushed)
  BY <1>2, <1>4 DEF Here
<1>6. Flushed[Here] \in Host(Len(scopes))
  BY <1>4, <1>5
<1> DEFINE host == [Flushed[Here] EXCEPT !.rulesets = Append(Flushed[Here].rulesets, <<>>)]
<1>7. host \in Host(Len(scopes))
  <2>1. Flushed[Here].rulesets \in Seq(Seq(AnyOpcode(Len(scopes))))
    BY <1>6 DEF Host
  <2>2. <<>> \in Seq(AnyOpcode(Len(scopes)))
    OBVIOUS
  <2>3. Append(Flushed[Here].rulesets, <<>>) \in Seq(Seq(AnyOpcode(Len(scopes))))
    BY <2>1, <2>2
  <2> QED BY <1>6, <2>3 DEF Host
<1>8. vhosts' = [Flushed EXCEPT ![Here] = host]
  BY DEF Ruleset
<1>9. vhosts' \in Seq(Host(Len(scopes))) /\ Len(vhosts') = Len(vhosts)
  BY <1>4, <1>5, <1>7, <1>8, ExceptSeq
<1>10. DOMAIN compiler' = {"inScope", "scope", "last"} /\ ~compiler'.inScope
  BY DEF Ruleset, IInv, HostInv
<1> QED BY <1>1, <1>3, <1>9, <1>10, CompilingKeeps

LEMMA ConditionKeeps == ASSUME IInv, NEW o \in Operations, Condition(o) PROVE IInv'
<1> DEFINE n == Len(scopes)
           pending == IF compiler.inScope
                      THEN MakeOpcode(vhosts, compiler.last,
                             Opcode("ACTIVATE_SCOPE", "", vhosts[Here].scope))
                      ELSE vhosts
<1>1. /\ MayRead({"rewrite"}) /\ Read("rewrite")
      /\ UNCHANGED <<scopes, haveValue, haveScopedValue, defaultHost>>
      /\ vhosts' = MakeOpcode(pending, compiler.last, o)
      /\ compiler' = [compiler EXCEPT !.inScope = FALSE]
      /\ file' = WithItem(o)
  BY DEF Condition
<1>2. n \in Nat /\ vhosts \in Seq(Host(n))
  BY DEF IInv, ScopeInv, HostInv
<1>3. Len(vhosts) > 0
  <2>1. vhosts # <<>>
    BY <1>1, Reading DEF IInv, HostInv, PlaceInv
  <2> QED BY <1>2, <2>1
<1>4. Opcode("ACTIVATE_SCOPE", "", vhosts[Here].scope) \in AnyOpcode(n)
  <2>1. vhosts[Here] \in Host(n)
    BY <1>2, <1>3 DEF Here
  <2>2. vhosts[Here].scope \in 2..n
    BY <2>1 DEF Host
  <2> QED BY <2>2 DEF Opcode, AnyOpcode
<1>5. pending \in Seq(Host(n)) /\ Len(pending) = Len(vhosts)
  BY <1>2, <1>4, MadeOpcode
<1>6. o \in AnyOpcode(n)
  BY DEF AnyOpcode
<1>7. vhosts' \in Seq(Host(n)) /\ Len(vhosts') = Len(vhosts)
  BY <1>1, <1>2, <1>5, <1>6, MadeOpcode
<1>8. file'.root = file.root /\ DOMAIN file' = {"root", "hosts"}
  BY <1>1 DEF WithItem, IInv, ScopeInv
<1>9. DOMAIN compiler' = {"inScope", "scope", "last"} /\ ~compiler'.inScope
  BY <1>1 DEF IInv, HostInv
<1> QED BY <1>1, <1>7, <1>8, <1>9, CompilingKeeps

LEMMA StatementKeeps == ASSUME IInv, NEW o \in Operations, Statement(o) PROVE IInv'
<1> DEFINE n == Len(scopes)
<1>1. /\ MayRead({"rewrite"}) /\ Read("rewrite")
      /\ UNCHANGED <<scopes, haveValue, haveScopedValue, defaultHost, compiler>>
      /\ vhosts' = MakeOpcode(vhosts, compiler.last, o)
      /\ file' = WithItem(o)
  BY DEF Statement
<1>2. n \in Nat /\ vhosts \in Seq(Host(n)) /\ o \in AnyOpcode(n)
  <2>1. n \in Nat /\ vhosts \in Seq(Host(n))
    BY DEF IInv, ScopeInv, HostInv
  <2>2. o \in AnyOpcode(n)
    BY DEF AnyOpcode
  <2> QED BY <2>1, <2>2
<1>3. vhosts' \in Seq(Host(n)) /\ Len(vhosts') = Len(vhosts)
  BY <1>1, <1>2, MadeOpcode
<1>4. file'.root = file.root /\ DOMAIN file' = {"root", "hosts"}
  BY <1>1 DEF WithItem, IInv, ScopeInv
<1>5. /\ DOMAIN compiler' = {"inScope", "scope", "last"}
      /\ compiler'.inScope => compiler.inScope /\ compiler'.scope = compiler.scope
  BY <1>1 DEF IInv, HostInv
<1> QED BY <1>1, <1>3, <1>4, <1>5, CompilingKeeps

LEMMA RulesetSettingKeeps ==
  ASSUME IInv, NEW s \in RulesetSettings, RulesetSetting(s) PROVE IInv'
<1> USE DEF IInv
<1> DEFINE all == IF compiler.inScope THEN scopes ELSE AddScope(scopes)
           scope == IF compiler.inScope THEN compiler.scope ELSE Len(all)
<1>1. /\ MayRead({"rewrite"}) /\ Read("rewrite")
      /\ UNCHANGED <<vhosts, defaultHost>>
      /\ scopes' = AddValue(all, scope, s, NewValue) /\ HaveValue(scope, s)
      /\ compiler' = [compiler EXCEPT !.inScope = TRUE, !.scope = scope]
      /\ file' = WithItem(Opcode("SETTING", s, NewValue))
  BY DEF RulesetSetting
<1>2. phase = "load" /\ NewValue \in Nat /\ s \in Setting
  BY <1>1, Reading, Constants
<1>3. /\ scopes \in Seq(Scope) /\ Len(scopes) > 0 /\ vhosts \in Seq(Host(Len(scopes)))
      /\ \A j \in 2..Len(scopes) : DOMAIN scopes[j] \subseteq haveScopedValue
  BY DEF ScopeInv, HostInv
<1>4. /\ all \in Seq(Scope) /\ Len(all) >= Len(scopes) /\ scope \in 2..Len(all)
      /\ all[1] = scopes[1]
      /\ \A j \in 2..Len(all) : DOMAIN all[j] \subseteq haveScopedValue
  <2>1. CASE compiler.inScope
    BY <1>3, <2>1 DEF HostInv
  <2>2. CASE ~compiler.inScope
    <3>1. /\ all \in Seq(Scope) /\ Len(all) = Len(scopes) + 1 /\ scope = Len(all)
          /\ \A j \in 1..Len(scopes) : all[j] = scopes[j]
          /\ all[Len(all)] = Empty
      BY <1>3, <2>2, AddScopeScopes
    <3> HIDE DEF all, scope
    <3>2. \A j \in 2..Len(all) : j \in 2..Len(scopes) \/ j = Len(all)
      BY <1>3, <3>1
    <3>3. \A j \in 2..Len(all) : DOMAIN all[j] \subseteq haveScopedValue
      BY <1>3, <3>1, <3>2, EmptyScope
    <3> QED BY <1>3, <3>1, <3>3
  <2> QED BY <2>1, <2>2
<1>5. file'.root = file.root /\ DOMAIN file' = {"root", "hosts"}
  BY <1>1 DEF WithItem, ScopeInv
<1> HIDE DEF all, scope
<1>6. ScopeInv' /\ Len(scopes') = Len(all) /\ scopes'[rootScope] = scopes[rootScope]
  <2>1. Len(all) > 0
    BY <1>3, <1>4
  <2> QED BY <1>1, <1>2, <1>4, <1>5, <2>1, ScopedValue
<1>7. vhosts' \in Seq(Host(Len(scopes'))) /\ vhosts' = vhosts /\ vhosts' # <<>>
  <2>1. vhosts # <<>>
    BY <1>1, Reading DEF HostInv, PlaceInv
  <2>2. Len(scopes) \in Nat /\ Len(scopes') \in Nat /\ Len(scopes) <= Len(scopes')
    BY <1>3, <1>4, <1>6
  <2> QED BY <1>1, <1>3, <2>1, <2>2, HostsGrow
<1>8. /\ DOMAIN compiler' = {"inScope", "scope", "last"}
      /\ compiler'.scope = scope
  BY <1>1 DEF HostInv
<1>9. HostInv'
  <2>1. PlaceInv' /\ elements' \in 0..MaxElements
    BY <1>1, <1>7, ReadHosts
  <2> QED BY <1>1, <1>4, <1>6, <1>7, <1>8, <2>1 DEF HostInv
<1>10. scopes'[rootScope] = file'.root
  BY <1>2, <1>5, <1>6 DEF MemoryInv
<1> QED BY <1>1, <1>2, <1>6, <1>9, <1>10, ReadKeeps

-----------------------------------------------------------------------------
(* The end of the file: the values and defaults that are read into the     *)
(* root scope are what the file means, and what is kept of them is what    *)
(* the other scopes may disturb.                                           *)

LEMMA RootType ==
  ASSUME ScopeInv
  PROVE  /\ RootMeans \in [Setting -> Nat]
         /\ \A s \in Setting \ Listed :
              RootMeans[s] = IF s \in DOMAIN file.root THEN file.root[s] ELSE Default
         /\ \A s \in Setting \cap Listed : RootMeans[s] = Zero
<1>1. PICK D \in SUBSET Setting : file.root \in [D -> Nat]
  BY DEF ScopeInv, Scope
<1>2. DOMAIN file.root \subseteq Setting \ Listed
  BY DEF ScopeInv
<1> QED BY <1>1, <1>2 DEF RootMeans, Over, Default, Zero

LEMMA RootIsMeant ==
  ASSUME ScopeInv, scopes[1] = file.root
  PROVE  /\ DOMAIN LoadGroupDefaultValues = Setting \ Listed
         /\ \A s \in Setting \ Listed : LoadGroupDefaultValues[s] = RootMeans[s]
<1> DEFINE defaults == {s \in Setting \ Listed : s \notin haveValue \/ s \in haveScopedValue}
<1>1. haveValue = DOMAIN file.root \union haveScopedValue /\ haveScopedValue \subseteq Setting
  BY DEF ScopeInv
<1>2. DOMAIN file.root \subseteq Setting \ Listed
  BY DEF ScopeInv
<1>3. DOMAIN file.root \union defaults = Setting \ Listed
  BY <1>1, <1>2
<1>4. LoadGroupDefaultValues =
        [s \in Setting \ Listed |-> IF s \in DOMAIN file.root THEN file.root[s] ELSE Default]
  BY <1>3 DEF LoadGroupDefaultValues
<1> QED BY <1>4, RootType

LEMMA EndOfFileKeeps == ASSUME IInv, EndOfFile PROVE IInv'
<1> USE DEF IInv
<1> DEFINE loaded == LoadGroupDefaultValues
           kept == {s \in DOMAIN loaded : ~Unnecessary(s)}
           root == [s \in kept |-> loaded[s]]
<1>1. /\ phase = "load" /\ phase' = "loaded"
      /\ UNCHANGED <<loading, serving, destroyed, haveValue, haveScopedValue>>
      /\ LoadRootScope
  BY DEF EndOfFile, LoadRootScope
<1>2. scopes[1] = file.root /\ memory = [s \in Setting |-> Zero]
  BY <1>1 DEF MemoryInv
<1>3. /\ DOMAIN loaded = Setting \ Listed
      /\ \A s \in Setting \ Listed : loaded[s] = RootMeans[s]
      /\ RootMeans \in [Setting -> Nat]
      /\ \A s \in Setting \cap Listed : RootMeans[s] = Zero
  BY <1>2, RootIsMeant, RootType
<1>4. memory' = ActivateScope(memory, loaded) /\ scopes' = [scopes EXCEPT ![1] = root]
  BY <1>1 DEF LoadRootScope
<1> HIDE DEF loaded
<1>5. memory' = RootMeans
  <2>1. \A s \in Setting : ActivateScope(memory, loaded)[s] = RootMeans[s]
    BY <1>2, <1>3 DEF ActivateScope
  <2> QED BY <1>3, <1>4, <2>1 DEF ActivateScope
<1>6. kept = haveScopedValue \ Listed
  <2>1. haveScopedValue \subseteq Setting /\ haveScopedValue \subseteq haveValue
    BY DEF ScopeInv
  <2> QED BY <1>3, <2>1 DEF Unnecessary
<1>7. root \in Scope /\ DOMAIN root = haveScopedValue \ Listed
      /\ \A s \in haveScopedValue \ Listed : root[s] = RootMeans[s]
  <2>1. haveScopedValue \subseteq Setting
    BY DEF ScopeInv
  <2>2. root \in [haveScopedValue \ Listed -> Nat]
    BY <1>3, <1>6, <2>1
  <2>3. \A s \in haveScopedValue \ Listed : root[s] = RootMeans[s]
    BY <1>3, <1>6, <2>1
  <2> QED BY <2>1, <2>2, <2>3 DEF Scope
<1> HIDE DEF kept, root
<1>8. /\ scopes' \in Seq(Scope) /\ Len(scopes') = Len(scopes) /\ Len(scopes) > 0
      /\ scopes'[1] = root
      /\ \A j \in 2..Len(scopes) : scopes'[j] = scopes[j]
  <2>1. scopes \in Seq(Scope) /\ 1 \in 1..Len(scopes)
    BY DEF ScopeInv
  <2> QED BY <1>4, <1>7, <2>1, ExceptSeq
<1>9. UNCHANGED <<file, elements, place, vhosts, defaultHost, compiler, requests, handler, left>>
  BY <1>1 DEF loading, serving
<1>10. ScopeInv'
  BY <1>1, <1>8, <1>9 DEF ScopeInv
<1>11. HostInv'
  BY <1>8, <1>9 DEF HostInv, PlaceInv
<1>12. RequestInv'
  BY <1>1, <1>9 DEF RequestInv
<1>13. RootMeans' = RootMeans
  BY <1>9 DEF RootMeans, Over
<1>14. RootInv'
  <2>1. haveScopedValue' = haveScopedValue
    BY <1>1
  <2>2. memory' = RootMeans' /\ scopes'[1] = root
    BY <1>5, <1>8, <1>13
  <2>3. haveScopedValue \subseteq Setting
    BY DEF ScopeInv
  <2> QED BY <1>7, <1>13, <2>1, <2>2, <2>3 DEF RootInv
<1>15. MemoryInv'
  BY <1>1, <1>3, <1>5, <1>13, <1>14 DEF MemoryInv
<1> QED BY <1>10, <1>11, <1>12, <1>15

(* The checks that make the program go on.                                 *)
LEMMA CheckKeeps == ASSUME IInv, CheckConfiguration PROVE IInv'
<1> USE DEF IInv
<1>1. /\ phase = "loaded" /\ phase' = "running" /\ DefaultFound # 0
      /\ defaultHost' = DefaultFound /\ vhosts' = Flushed
      /\ compiler' = [compiler EXCEPT !.inScope = FALSE]
      /\ UNCHANGED <<configurationVars, file, elements, place, requests, handler, left>>
  BY DEF CheckConfiguration, serving
<1>2. UNCHANGED <<scopes, haveValue, haveScopedValue, memory>>
  BY <1>1 DEF configurationVars
<1>3. vhosts' \in Seq(Host(Len(scopes))) /\ Len(vhosts') = Len(vhosts)
      /\ vhosts \in Seq(Host(Len(scopes)))
  BY <1>1, FlushedHosts DEF HostInv
<1>4. defaultHost' \in 1..Len(vhosts')
  BY <1>1, <1>3 DEF DefaultFound, HostInv
<1>5. ScopeInv'
  BY <1>1, <1>2 DEF ScopeInv
<1>6. HostInv'
  <2>1. PlaceInv'
    <3>1. vhosts' # <<>> \/ vhosts = <<>>
      BY <1>3
    <3> QED BY <1>1, <3>1 DEF HostInv, PlaceInv
  <2>2. DOMAIN compiler' = {"inScope", "scope", "last"} /\ ~compiler'.inScope
    BY <1>1 DEF HostInv
  <2> QED BY <1>1, <1>2, <1>3, <1>4, <2>1, <2>2 DEF HostInv
<1>7. RequestInv'
  <2>1. defaultHost' > 0
    BY <1>3, <1>4
  <2>2. requests = [r \in Request |-> NULL] /\ handler = NULL /\ ~left
    BY <1>1 DEF RequestInv
  <2> QED BY <1>1, <2>1, <2>2 DEF RequestInv
<1>8. RootMeans' = RootMeans
  BY <1>1 DEF RootMeans, Over
<1>9. RootInv'
  BY <1>1, <1>2, <1>8 DEF MemoryInv, RootInv
<1>10. MemoryInv'
  BY <1>1, <1>2, <1>9 DEF MemoryInv
<1> QED BY <1>5, <1>6, <1>7, <1>10

LEMMA FailKeeps == ASSUME IInv, phase \in {"load", "loaded"}, Fail PROVE IInv'
<1> USE DEF IInv
<1>1. /\ phase' = "failed"
      /\ UNCHANGED <<scopes, haveValue, haveScopedValue, memory, file, elements, place,
                     vhosts, defaultHost, compiler, requests, handler, left>>
  BY DEF Fail, configurationVars, loading, serving
<1>2. ScopeInv' /\ HostInv'
  BY <1>1 DEF ScopeInv, HostInv, PlaceInv
<1>3. RequestInv'
  BY <1>1 DEF RequestInv
<1>4. MemoryInv'
  BY <1>1 DEF MemoryInv
<1> QED BY <1>2, <1>3, <1>4

LEMMA LoadKeeps == ASSUME IInv, Load PROVE IInv'
<1>1. SecondDefault \/ NoDefault \/ (\E o \in Operations : SetReadOnly(o)) => IInv'
  BY FailKeeps DEF SecondDefault, NoDefault, SetReadOnly, MayRead
<1>2. (\E named, default \in BOOLEAN : VirtualHost(named, default)) => IInv'
  BY VirtualHostKeeps
<1>3. (\E o \in Operations : Condition(o) \/ Statement(o)) => IInv'
  BY ConditionKeeps, StatementKeeps
<1> QED BY <1>1, <1>2, <1>3, RootSettingKeeps, VirtualHostSettingKeeps, RulesetKeeps,
           RulesetSettingKeeps, EndOfFileKeeps, CheckKeeps DEF Load

-----------------------------------------------------------------------------
(* Serving.  Whatever scopes are activated, only settings that the root    *)
(* scope has are overwritten, so that activating it restores all.          *)

LEMMA ActivationKeeps ==
  ASSUME ScopeInv, RootInv, memory \in [Setting -> Nat], NEW i \in 2..Len(scopes)
  PROVE  /\ ActivateScope(memory, scopes[i]) \in [Setting -> Nat]
         /\ \A s \in Setting \ haveScopedValue :
              ActivateScope(memory, scopes[i])[s] = RootMeans[s]
<1>1. scopes[i] \in Scope /\ DOMAIN scopes[i] \subseteq haveScopedValue
  BY DEF ScopeInv
<1>2. ActivateScope(memory, scopes[i]) \in [Setting -> Nat]
  BY <1>1, ScopeMemory
<1>3. \A s \in Setting \ haveScopedValue : memory[s] = RootMeans[s]
  BY DEF RootInv
<1> QED BY <1>1, <1>2, <1>3 DEF ActivateScope

(* The last of the scopes that have a value of a setting is one of them.   *)
LEMMA LastHaving ==
  ASSUME NEW n \in Nat, NEW S \in SUBSET (1..n), S # {}
  PROVE  \E last \in S : \A j \in S : j <= last
<1> DEFINE behind == {n - i : i \in S}
           R == OpToRel(<, Nat)
<1>1. \A x, y \in Nat : x < y => <<x, y>> \in R
  BY DEF OpToRel
<1>2. IsWellFoundedOn(R, Nat)
  BY NatLessThanWellFounded
<1>3. behind \subseteq Nat /\ behind # {}
  <2>1. \A i \in S : n - i \in Nat
    OBVIOUS
  <2>2. PICK i \in S : TRUE
    OBVIOUS
  <2>3. n - i \in behind
    OBVIOUS
  <2> QED BY <2>1, <2>3
<1> HIDE DEF behind, R
<1>4. PICK m \in behind : \A k \in behind : ~(<<k, m>> \in R)
  BY <1>2, <1>3, WFMin
<1>5. PICK last \in S : m = n - last
  BY DEF behind
<1>6. ASSUME NEW j \in S PROVE j <= last
  <2>1. n - j \in behind
    BY DEF behind
  <2>2. ~(n - j < m) /\ n - j \in Nat /\ m \in Nat
    BY <1>1, <1>3, <1>4, <2>1
  <2>3. j \in Nat /\ last \in Nat
    OBVIOUS
  <2> QED BY <1>5, <2>2, <2>3
<1> QED BY <1>6

LEMMA GroupKeeps ==
  ASSUME ScopeInv, RootInv, memory \in [Setting -> Nat], NEW group \in Seq(2..Len(scopes))
  PROVE  /\ ActivateScopeGroup(memory, group) \in [Setting -> Nat]
         /\ \A s \in Setting \ haveScopedValue :
              ActivateScopeGroup(memory, group)[s] = RootMeans[s]
<1> DEFINE having(s) == {i \in DOMAIN group : s \in DOMAIN scopes[group[i]]}
           last(s) == CHOOSE i \in having(s) : \A j \in having(s) : j <= i
           active == ActivateScopeGroup(memory, group)
<1>1. active = [s \in Setting |-> IF having(s) = {} THEN memory[s]
                                 ELSE scopes[group[last(s)]][s]]
  BY DEF ActivateScopeGroup
<1>2. ASSUME NEW s \in Setting, having(s) # {} PROVE scopes[group[last(s)]][s] \in Nat
  <2>1. having(s) \in SUBSET (1..Len(group)) /\ Len(group) \in Nat
    OBVIOUS
  <2>2. \E i \in having(s) : \A j \in having(s) : j <= i
    BY <1>2, <2>1, LastHaving
  <2>3. last(s) \in having(s)
    BY <2>2
  <2>4. group[last(s)] \in 2..Len(scopes) /\ s \in DOMAIN scopes[group[last(s)]]
    BY <2>3
  <2>5. scopes[group[last(s)]] \in Scope
    BY <2>4 DEF ScopeInv
  <2> HIDE DEF last
  <2> QED BY <2>4, <2>5 DEF Scope
<1>3. ASSUME NEW s \in Setting \ haveScopedValue PROVE having(s) = {}
  <2>1. \A i \in DOMAIN group : group[i] \in 2..Len(scopes)
    OBVIOUS
  <2> QED BY <2>1, <1>3 DEF ScopeInv
<1> HIDE DEF having, last
<1>4. active \in [Setting -> Nat]
  BY <1>1, <1>2
<1>5. \A s \in Setting \ haveScopedValue : active[s] = memory[s]
  BY <1>1, <1>3
<1> QED BY <1>4, <1>5 DEF RootInv

LEMMA UnscopeRestores ==
  ASSUME ScopeInv, RootInv, memory \in [Setting -> Nat]
  PROVE  /\ Unscope(memory) \in [Setting -> Nat]
         /\ \A s \in (Setting \ Listed) \union (Setting \ haveScopedValue) :
              Unscope(memory)[s] = RootMeans[s]
<1>1. scopes[1] \in Scope
  BY DEF ScopeInv
<1>2. Unscope(memory) \in [Setting -> Nat]
  BY <1>1, ScopeMemory DEF Unscope
<1>3. ASSUME NEW s \in (Setting \ Listed) \union (Setting \ haveScopedValue)
      PROVE  Unscope(memory)[s] = RootMeans[s]
  <2>1. s \in haveScopedValue \ Listed \/ s \in Setting \ haveScopedValue
    BY <1>3
  <2> QED BY <1>3, <2>1 DEF Unscope, ActivateScope, RootInv
<1> QED BY <1>2, <1>3

(* What no handler changes.                                                *)
Frame == UNCHANGED <<scopes, haveValue, haveScopedValue, phase, loading>>

(* What a handler may make of memory and of the requests.                  *)
MemoryStep ==
  /\ memory' \in [Setting -> Nat]
  /\ \A s \in Setting \ haveScopedValue : memory'[s] = RootMeans[s]
  /\ NoScope' /\ ~left' => \A s \in Setting \ Listed : memory'[s] = RootMeans[s]

RequestStep ==
  /\ left' \in BOOLEAN
  /\ DOMAIN requests' = Request
  /\ \A r \in Request : requests'[r] # NULL => IsRequest(requests'[r])
  /\ handler' # NULL => /\ handler' \in Handler
                        /\ handler'.ruleset > 0 /\ handler'.opcode > 0
                        /\ requests'[handler'.request] # NULL

LEMMA ServingKeeps ==
  ASSUME IInv, phase = "running", Frame, MemoryStep, RequestStep PROVE IInv'
<1> USE DEF IInv
<1>1. UNCHANGED <<scopes, haveValue, haveScopedValue, phase, file, elements, place, vhosts,
                  defaultHost, compiler>>
  BY DEF Frame, loading
<1>2. ScopeInv'
  BY <1>1 DEF ScopeInv
<1>3. HostInv'
  BY <1>1 DEF HostInv, PlaceInv
<1>4. RequestInv'
  <2>1. \A r \in Request : (requests[r] # NULL => IsRequest(requests[r]))'
    BY <1>1 DEF RequestStep, IsRequest
  <2> QED BY <1>1, <2>1 DEF RequestInv, RequestStep
<1>5. RootMeans' = RootMeans
  BY <1>1 DEF RootMeans, Over
<1>6. RootInv'
  BY <1>1, <1>5 DEF MemoryStep, MemoryInv, RootInv
<1>7. MemoryInv'
  BY <1>1, <1>6 DEF MemoryStep, MemoryInv
<1> QED BY <1>2, <1>3, <1>4, <1>7

(* Memory is left alone, by a handler that goes on or leaves without       *)
(* unscoping.                                                              *)
LEMMA MemoryAlone ==
  ASSUME IInv, phase = "running", UNCHANGED memory,
         ~NoScope' \/ left' \/ (NoScope /\ left' = left)
  PROVE  MemoryStep
BY DEF IInv, MemoryInv, RootInv, MemoryStep

-----------------------------------------------------------------------------
(* Each handler.                                                           *)

(* The request of the handler that runs.                                   *)
LEMMA CurrentRequest ==
  ASSUME IInv, handler # NULL
  PROVE  /\ phase = "running" /\ handler \in Handler /\ handler.request \in Request
         /\ handler.ruleset > 0 /\ handler.opcode > 0
         /\ IsRequest(Current) /\ Current # NULL
BY DEF IInv, RequestInv, Handler, Current

LEMMA RulesetsType ==
  ASSUME IInv, handler # NULL PROVE Rulesets \in Seq(Seq(AnyOpcode(Len(scopes))))
<1>1. Current.vHost \in 1..Len(vhosts)
  BY CurrentRequest DEF IsRequest
<1>2. vhosts \in Seq(Host(Len(scopes)))
  BY DEF IInv, HostInv
<1>3. vhosts[Current.vHost] \in Host(Len(scopes))
  BY <1>1, <1>2
<1> QED BY <1>3 DEF Host, Rulesets

LEMMA AtHandType == ASSUME IInv, InRuleset PROVE AtHand \in AnyOpcode(Len(scopes))
<1>1. handler # NULL /\ handler.ruleset <= Len(Rulesets)
      /\ handler.opcode <= Len(Rulesets[handler.ruleset])
  BY DEF InRuleset, Rewriting
<1>2. Rulesets \in Seq(Seq(AnyOpcode(Len(scopes))))
  BY <1>1, RulesetsType
<1>3. handler.ruleset \in Nat /\ handler.opcode \in Nat /\ handler.ruleset > 0 /\ handler.opcode > 0
  BY <1>1, CurrentRequest DEF Handler
<1>4. Rulesets[handler.ruleset] \in Seq(AnyOpcode(Len(scopes)))
  BY <1>1, <1>2, <1>3
<1> QED BY <1>1, <1>3, <1>4 DEF AtHand

(* The handler goes on.                                                    *)
LEMMA HandlerGoesOn ==
  ASSUME IInv, handler # NULL,
         NextOpcode \/ StopExecution \/ Throw \/ handler' = [handler EXCEPT !.stage = "serve"]
  PROVE  /\ handler' \in Handler /\ handler' # NULL /\ handler'.request = handler.request
         /\ handler'.ruleset > 0 /\ handler'.opcode > 0
         /\ handler'.stage \in {handler.stage, "exception", "serve"}
<1>1. handler \in Handler /\ handler.ruleset > 0 /\ handler.opcode > 0
  BY CurrentRequest
<1>2. /\ handler' \in Handler /\ handler'.request = handler.request
      /\ handler'.ruleset > 0 /\ handler'.opcode > 0
      /\ handler'.stage \in {handler.stage, "exception", "serve"}
  <2>1. /\ handler.ruleset + 1 \in Nat /\ handler.opcode + 1 \in Nat
        /\ handler.ruleset + 1 > 0 /\ handler.opcode + 1 > 0
    BY <1>1 DEF Handler
  <2>2. CASE NextOpcode
    BY <1>1, <2>1, <2>2 DEF Handler, NextOpcode
  <2>3. CASE StopExecution
    <3>1. handler' = [request |-> handler.request, stage |-> handler.stage,
                      ruleset |-> handler.ruleset + 1, opcode |-> 1,
                      found |-> handler.found]
      BY <1>1, <2>3 DEF Handler, StopExecution
    <3> QED BY <1>1, <2>1, <3>1 DEF Handler
  <2>4. CASE Throw \/ handler' = [handler EXCEPT !.stage = "serve"]
    BY <1>1, <2>4 DEF Handler, Stage, Throw
  <2> QED BY <2>2, <2>3, <2>4
<1> QED BY <1>2, NullAssumption

LEMMA RequestsAlone ==
  ASSUME IInv, handler # NULL, UNCHANGED <<requests, left>>,
         NextOpcode \/ StopExecution \/ Throw \/ handler' = [handler EXCEPT !.stage = "serve"]
  PROVE  RequestStep
BY HandlerGoesOn DEF IInv, RequestInv, RequestStep

(* The request of the handler becomes another or none.                     *)
LEMMA RequestBecomes ==
  ASSUME IInv, handler # NULL, NEW q, Becomes(q), q = NULL \/ IsRequest(q), left' \in BOOLEAN,
         handler' = NULL \/ (q # NULL /\ NextOpcode)
  PROVE  RequestStep
<1>1. handler.request \in Request /\ DOMAIN requests = Request
  BY CurrentRequest DEF IInv, RequestInv
<1>2. requests' = [requests EXCEPT ![handler.request] = q]
  BY DEF Becomes
<1>3. handler' # NULL => /\ handler' \in Handler /\ handler'.request = handler.request
                        /\ handler'.ruleset > 0 /\ handler'.opcode > 0 /\ q # NULL
  BY HandlerGoesOn
<1>4. \A r \in Request : requests'[r] = IF r = handler.request THEN q ELSE requests[r]
  BY <1>1, <1>2
<1>5. \A r \in Request : requests[r] # NULL => IsRequest(requests[r])
  BY DEF IInv, RequestInv
<1> QED BY <1>1, <1>2, <1>3, <1>4, <1>5 DEF RequestStep

(* A handler begins with what is in memory.                                *)
LEMMA Begins ==
  ASSUME IInv, NEW r \in Request, NEW stage \in Stage, Begin(r, stage)
  PROVE  /\ handler' \in Handler /\ handler' # NULL
         /\ handler'.request = r /\ handler'.stage = stage
         /\ handler'.ruleset = 1 /\ handler'.opcode = 1 /\ handler'.found = memory
         /\ UNCHANGED <<scopes, haveValue, haveScopedValue, phase, loading, left>>
<1>1. /\ handler' = [request |-> r, stage |-> stage, ruleset |-> 1, opcode |-> 1,
                     found |-> memory]
      /\ UNCHANGED <<scopes, haveValue, haveScopedValue, phase, loading, left>>
  BY DEF Begin
<1>2. memory \in [Setting -> Nat]
  BY DEF IInv, MemoryInv
<1>3. handler' \in Handler
  BY <1>1, <1>2 DEF Handler
<1> QED BY <1>1, <1>3, NullAssumption

LEMMA HandleHeaderKeeps ==
  ASSUME IInv, NEW r \in Request, NEW name \in 0..Len(vhosts), NEW version \in Versions,
         HandleHeader(r, name, version)
  PROVE  IInv'
<1> DEFINE h == Lookup(name)
           scope == vhosts[h].scope
           q == [name |-> name, version |-> version, vHost |-> h,
                 variables |-> [HTTPVersion |-> version, HTTPAnswerCode |-> 0,
                                HTTPMethod |-> 1],
                 group |-> <<scope>>, client |-> Default, headerSent |-> FALSE,
                 state |-> "parser"]
<1>1. /\ phase = "running" /\ handler = NULL
      /\ memory' = ActivateScope(memory, scopes[scope])
      /\ requests' = [requests EXCEPT ![r] = q]
      /\ Begin(r, "rewrite")
  BY DEF HandleHeader, MayBegin
<1>2. vhosts \in Seq(Host(Len(scopes))) /\ defaultHost \in 0..Len(vhosts) /\ defaultHost > 0
  BY <1>1 DEF IInv, HostInv, RequestInv
<1>3. h \in 1..Len(vhosts)
  BY <1>2 DEF Lookup
<1>4. scope \in 2..Len(scopes)
  <2>1. vhosts[h] \in Host(Len(scopes))
    BY <1>2, <1>3
  <2> QED BY <2>1 DEF Host
<1> HIDE DEF scope, h
<1>5. q \in RequestRecord
  <2>1. version \in Nat
    BY RewriteAssumption
  <2>2. [HTTPVersion |-> version, HTTPAnswerCode |-> 0, HTTPMethod |-> 1] \in [Variable -> Nat]
    BY <2>1 DEF Variable
  <2>3. <<scope>> \in Seq(Nat) /\ h \in Nat /\ name \in Nat
    BY <1>3, <1>4
  <2> QED BY <2>2, <2>3 DEF RequestRecord, Default
<1>6. IsRequest(q) /\ q # NULL
  <2>1. <<scope>> \in Seq(2..Len(scopes))
    BY <1>4
  <2>2. q.vHost = h /\ q.group = <<scope>>
    OBVIOUS
  <2> HIDE DEF q
  <2> QED BY <1>3, <1>5, <2>1, <2>2, NullAssumption DEF IsRequest
<1> HIDE DEF q
<1>7. /\ handler'.request = r /\ handler'.ruleset = 1 /\ handler'.opcode = 1
      /\ handler'.stage = "rewrite"
      /\ handler' \in Handler /\ handler' # NULL
      /\ UNCHANGED <<scopes, haveValue, haveScopedValue, phase, loading, left>>
  BY <1>1, Begins DEF Stage
<1>8. handler' \in Handler /\ handler' # NULL
  BY <1>7
<1>9. RequestStep
  <2>1. DOMAIN requests = Request /\ left \in BOOLEAN
        /\ \A x \in Request : requests[x] # NULL => IsRequest(requests[x])
    BY DEF IInv, RequestInv
  <2>2. \A x \in Request : requests'[x] = IF x = r THEN q ELSE requests[x]
    BY <1>1, <2>1
  <2>3. handler'.request = r /\ handler'.ruleset = 1 /\ handler'.opcode = 1
    BY <1>7
  <2> QED BY <1>1, <1>6, <1>7, <1>8, <2>1, <2>2, <2>3 DEF RequestStep
<1>10. MemoryStep
  <2>1. RootInv /\ ScopeInv /\ memory \in [Setting -> Nat]
    BY <1>1 DEF IInv, MemoryInv
  <2>2. ~NoScope'
    BY <1>7 DEF NoScope
  <2> QED BY <1>1, <1>4, <2>1, <2>2, ActivationKeeps DEF MemoryStep
<1> QED BY <1>1, <1>7, <1>9, <1>10, ServingKeeps DEF Frame

LEMMA ExecuteKeeps == ASSUME IInv, Execute PROVE IInv'
<1>1. handler # NULL /\ handler.stage = "rewrite"
  BY DEF Execute, IsEqual, Set, Call, ExecuteActivateScope, EndOfRuleset, EndOfRulesets,
         InRuleset, Rewriting
<1>2. phase = "running" /\ left \in BOOLEAN
  BY <1>1, CurrentRequest DEF IInv, RequestInv
<1>3. Frame /\ left' = left
  BY DEF Execute, IsEqual, Set, Call, ExecuteActivateScope, EndOfRuleset, EndOfRulesets,
         UnchangedByHandler, Frame
<1> DEFINE GoesOn == \/ NextOpcode \/ StopExecution \/ Throw
                     \/ handler' = [handler EXCEPT !.stage = "serve"]
<1>4. ASSUME GoesOn PROVE ~NoScope'
  <2>1. handler' # NULL /\ handler'.stage \in {"rewrite", "exception", "serve"}
    BY <1>1, <1>4, HandlerGoesOn
  <2> QED BY <2>1 DEF NoScope
<1>5. ASSUME UNCHANGED <<memory, requests>>,
             \/ NextOpcode \/ StopExecution \/ Throw
             \/ handler' = [handler EXCEPT !.stage = "serve"]
      PROVE  IInv'
  <2>1. RequestStep
    BY <1>1, <1>3, <1>5, RequestsAlone
  <2>2. MemoryStep
    BY <1>2, <1>4, <1>5, MemoryAlone
  <2> QED BY <1>2, <1>3, <2>1, <2>2, ServingKeeps
<1>6. ASSUME Set, ~Refused(Current.variables, AtHand) PROVE IInv'
  <2> DEFINE q == [Current EXCEPT !.variables[AtHand.name] = AtHand.value]
  <2>1. NextOpcode /\ Becomes(q) /\ UNCHANGED memory /\ InRuleset /\ AtHand.op = "SET"
    BY <1>6 DEF Set
  <2>2. AtHand.value \in Nat
    <3>1. AtHand \in AnyOpcode(Len(scopes)) /\ Len(scopes) \in Nat
      BY <2>1, AtHandType DEF IInv, ScopeInv
    <3>2. \A o \in Operations : o.value \in Nat
      BY RewriteAssumption DEF Opcode
    <3>3. \A i \in 2..Len(scopes) : i \in Nat
      BY <3>1
    <3> QED BY <3>1, <3>2, <3>3 DEF AnyOpcode
  <2>3. IsRequest(q) /\ q # NULL
    <3>1. IsRequest(Current)
      BY <1>1, CurrentRequest
    <3>2. q \in RequestRecord /\ q.vHost = Current.vHost /\ q.group = Current.group
      BY <2>2, <3>1 DEF IsRequest, RequestRecord
    <3> QED BY <3>1, <3>2, NullAssumption DEF IsRequest
  <2> HIDE DEF q
  <2>4. RequestStep
    BY <1>1, <1>2, <1>3, <2>1, <2>3, RequestBecomes
  <2>5. MemoryStep
    BY <1>2, <1>4, <2>1, MemoryAlone
  <2> QED BY <1>2, <1>3, <2>4, <2>5, ServingKeeps
<1>7. ASSUME ExecuteActivateScope PROVE IInv'
  <2> DEFINE q == [Current EXCEPT !.group = Append(@, AtHand.value)]
  <2>1. /\ InRuleset /\ AtHand.op = "ACTIVATE_SCOPE" /\ Becomes(q) /\ NextOpcode
        /\ memory' = ActivateScope(memory, scopes[AtHand.value])
    BY <1>7 DEF ExecuteActivateScope
  <2>2. AtHand.value \in 2..Len(scopes)
    <3>1. AtHand \in AnyOpcode(Len(scopes)) /\ AtHand.op = "ACTIVATE_SCOPE"
      BY <2>1, AtHandType
    <3>2. \A o \in Operations : o.op # "ACTIVATE_SCOPE"
      BY RewriteAssumption DEF Opcode, Conditions
    <3> QED BY <3>1, <3>2 DEF AnyOpcode
  <2>3. IsRequest(q) /\ q # NULL
    <3>1. IsRequest(Current)
      BY <1>1, CurrentRequest
    <3>2. Append(Current.group, AtHand.value) \in Seq(2..Len(scopes))
      BY <2>2, <3>1 DEF IsRequest
    <3>3. Append(Current.group, AtHand.value) \in Seq(Nat)
      BY <3>2
    <3>4. q \in RequestRecord /\ q.vHost = Current.vHost
          /\ q.group = Append(Current.group, AtHand.value)
      BY <3>1, <3>3 DEF IsRequest, RequestRecord
    <3> QED BY <3>1, <3>2, <3>4, NullAssumption DEF IsRequest
  <2> HIDE DEF q
  <2>4. RequestStep
    BY <1>1, <1>2, <1>3, <2>1, <2>3, RequestBecomes
  <2>5. MemoryStep
    <3>1. RootInv /\ ScopeInv /\ memory \in [Setting -> Nat]
      BY <1>2 DEF IInv, MemoryInv
    <3>2. ~NoScope'
      BY <1>4, <2>1
    <3> QED BY <2>1, <2>2, <3>1, <3>2, ActivationKeeps DEF MemoryStep
  <2> QED BY <1>2, <1>3, <2>4, <2>5, ServingKeeps
<1>8. IsEqual \/ Call \/ EndOfRuleset \/ EndOfRulesets => IInv'
  BY <1>5 DEF IsEqual, Call, EndOfRuleset, EndOfRulesets
<1>9. Set => IInv'
  BY <1>5, <1>6 DEF Set
<1> QED BY <1>7, <1>8, <1>9 DEF Execute

(* The two ways to return.                                                 *)
LEMMA UnscopingKeeps == ASSUME IInv, phase = "running", Unscoping, RequestStep PROVE IInv'
<1>1. /\ memory' = Unscope(memory) /\ handler' = NULL
      /\ UNCHANGED <<scopes, haveValue, haveScopedValue, phase, loading>>
  BY DEF Unscoping
<1>2. RootInv /\ ScopeInv /\ memory \in [Setting -> Nat]
  BY DEF IInv, MemoryInv
<1>3. /\ memory' \in [Setting -> Nat]
      /\ \A s \in (Setting \ Listed) \union (Setting \ haveScopedValue) :
           memory'[s] = RootMeans[s]
  BY <1>1, <1>2, UnscopeRestores
<1>4. MemoryStep
  BY <1>1, <1>3 DEF MemoryStep
<1> QED BY <1>1, <1>4, ServingKeeps DEF Frame

LEMMA LeavingKeeps == ASSUME IInv, phase = "running", Leaving, RequestStep PROVE IInv'
<1>1. left' /\ UNCHANGED <<scopes, haveValue, haveScopedValue, memory, phase, loading>>
  BY DEF Leaving, configurationVars
<1> QED BY <1>1, MemoryAlone, ServingKeeps DEF Frame

(* A request in another state, with another client or with its headers     *)
(* sent is a request of the same host and the same scopes.                 *)
LEMMA RequestVaries ==
  ASSUME NEW q, IsRequest(q), NEW state \in {"parser", "FastCGI", "lost", "aborted"},
         NEW client \in Nat, NEW sent \in BOOLEAN,
         NEW p, \/ p = [q EXCEPT !.state = state]
                \/ p = [q EXCEPT !.state = state, !.client = client]
                \/ p = [q EXCEPT !.headerSent = sent]
                \/ p = [q EXCEPT !.state = state, !.headerSent = sent]
  PROVE  IsRequest(p)
<1>1. p \in RequestRecord /\ p.vHost = q.vHost /\ p.group = q.group
  BY DEF IsRequest, RequestRecord
<1> QED BY <1>1 DEF IsRequest

LEMMA EndsKeep ==
  ASSUME IInv,
         \/ ServeContent \/ Exception \/ EndOutput \/ EndClientRead
         \/ AbortRequest \/ AlreadyFinished \/ EndAnswer \/ EndGateway
  PROVE  IInv'
<1> USE DEF EndAnswer, EndGateway
<1>1. handler # NULL
  BY DEF ServeContent, Exception, EndOutput, EndClientRead, AbortRequest, AlreadyFinished, At
<1>2. phase = "running" /\ left \in BOOLEAN /\ IsRequest(Current)
  BY <1>1, CurrentRequest DEF IInv, RequestInv
<1>3. handler' = NULL /\ left' \in BOOLEAN
  BY <1>2 DEF ServeContent, Exception, EndOutput, EndClientRead, AbortRequest,
              AlreadyFinished, Unscoping, Leaving, EndUnscoped
<1>4. RequestStep
  <2>1. ASSUME UNCHANGED requests PROVE RequestStep
    BY <1>3, <2>1 DEF IInv, RequestInv, RequestStep
  <2>2. ASSUME NEW q, Becomes(q), q = NULL \/ IsRequest(q) PROVE RequestStep
    BY <1>1, <1>3, <2>2, RequestBecomes
  <2>3. ASSUME ServeContent, ~Becomes(NULL) PROVE RequestStep
    <3> DEFINE q == [Current EXCEPT !.state = "FastCGI", !.client = memory["FastCGIClient"]]
    <3>1. Becomes(q)
      BY <2>3 DEF ServeContent
    <3>2. memory["FastCGIClient"] \in Nat
      BY Constants DEF IInv, MemoryInv
    <3>3. IsRequest(q)
      BY <1>2, <3>2, RequestVaries
    <3> HIDE DEF q
    <3> QED BY <2>2, <3>1, <3>3
  <2>4. ASSUME AbortRequest PROVE RequestStep
    <3> DEFINE q == [Current EXCEPT !.state = "aborted"]
    <3>1. Becomes(q)
      BY <2>4 DEF AbortRequest
    <3>2. IsRequest(q)
      <4>1. "aborted" \in {"parser", "FastCGI", "lost", "aborted"} /\ 0 \in Nat /\ TRUE \in BOOLEAN
        OBVIOUS
      <4> QED BY <1>2, <4>1, RequestVaries
    <3> HIDE DEF q
    <3> QED BY <2>2, <3>1, <3>2
  <2>5. ASSUME EndOutput, ~UNCHANGED requests PROVE RequestStep
    <3> DEFINE q == [Current EXCEPT !.headerSent = TRUE]
    <3>1. Becomes(q)
      BY <2>5 DEF EndOutput
    <3>2. IsRequest(q)
      <4>1. "lost" \in {"parser", "FastCGI", "lost", "aborted"} /\ 0 \in Nat /\ TRUE \in BOOLEAN
        OBVIOUS
      <4> QED BY <1>2, <4>1, RequestVaries
    <3> HIDE DEF q
    <3> QED BY <2>2, <3>1, <3>2
  <2>6. ASSUME EndGateway PROVE RequestStep
    <3> DEFINE q == [Current EXCEPT !.state = "lost", !.headerSent = TRUE]
    <3>1. Becomes(q)
      BY <2>6 DEF EndUnscoped
    <3>2. IsRequest(q)
      <4>1. "lost" \in {"parser", "FastCGI", "lost", "aborted"} /\ 0 \in Nat /\ TRUE \in BOOLEAN
        OBVIOUS
      <4> QED BY <1>2, <4>1, RequestVaries
    <3> HIDE DEF q
    <3> QED BY <2>2, <3>1, <3>2
  <2>7. Exception \/ AlreadyFinished \/ EndAnswer => Becomes(NULL)
    BY DEF Exception, AlreadyFinished, EndUnscoped
  <2>8. EndClientRead => UNCHANGED requests
    BY DEF EndClientRead
  <2> QED BY <2>1, <2>2, <2>3, <2>4, <2>5, <2>6, <2>7, <2>8
<1>5. CASE Unscoping \/ Leaving
  BY <1>2, <1>3, <1>4, <1>5, UnscopingKeeps, LeavingKeeps
<1>6. CASE EndAnswer \/ EndGateway
  <2>1. Frame /\ UNCHANGED <<memory, left>>
    BY <1>6 DEF EndUnscoped, configurationVars, Frame
  <2>2. MemoryStep
    <3>1. NoScope
      BY <1>6 DEF At, NoScope
    <3> QED BY <1>2, <2>1, <3>1, MemoryAlone
  <2> QED BY <1>2, <1>4, <2>1, <2>2, ServingKeeps
<1> QED BY <1>5, <1>6 DEF ServeContent, Exception, EndOutput, EndClientRead, AbortRequest,
           AlreadyFinished

(* The beginnings of later handlers.                                       *)
LEMMA BeginScopedKeeps ==
  ASSUME IInv, NEW r \in Request, NEW states, MayBeginFor(r, states),
         NEW stage \in Stage \ {"answer", "gateway"}, BeginScoped(r, stage)
  PROVE  IInv'
<1>1. phase = "running" /\ requests[r] # NULL /\ IsRequest(requests[r])
  BY DEF MayBeginFor, MayBegin, IInv, RequestInv
<1>2. /\ memory' = ActivateScopeGroup(memory, requests[r].group) /\ UNCHANGED requests
      /\ handler' \in Handler /\ handler' # NULL /\ handler'.stage = stage
      /\ handler'.request = r /\ handler'.ruleset = 1 /\ handler'.opcode = 1
      /\ UNCHANGED <<scopes, haveValue, haveScopedValue, phase, loading, left>>
  BY Begins DEF BeginScoped
<1>3. RequestStep
  BY <1>1, <1>2 DEF IInv, RequestInv, RequestStep
<1>4. RootInv /\ ScopeInv /\ memory \in [Setting -> Nat]
  BY <1>1 DEF IInv, MemoryInv
<1>5. requests[r].group \in Seq(2..Len(scopes))
  BY <1>1 DEF IsRequest
<1>6. ~NoScope'
  BY <1>2 DEF NoScope
<1>7. MemoryStep
  BY <1>2, <1>4, <1>5, <1>6, GroupKeeps DEF MemoryStep
<1> QED BY <1>1, <1>2, <1>3, <1>7, ServingKeeps DEF Frame

LEMMA BeginUnscopedKeeps ==
  ASSUME IInv, NEW r \in Request, NEW states, MayBeginFor(r, states), NEW stage \in Stage,
         BeginUnscoped(r, stage)
  PROVE  IInv'
<1>1. phase = "running" /\ handler = NULL /\ requests[r] # NULL
  BY DEF MayBeginFor, MayBegin
<1>2. /\ UNCHANGED <<memory, requests>>
      /\ handler' \in Handler /\ handler' # NULL
      /\ handler'.request = r /\ handler'.ruleset = 1 /\ handler'.opcode = 1
      /\ UNCHANGED <<scopes, haveValue, haveScopedValue, phase, loading, left>>
  BY Begins DEF BeginUnscoped
<1>3. RequestStep
  BY <1>1, <1>2 DEF IInv, RequestInv, RequestStep
<1>4. NoScope
  BY <1>1 DEF NoScope
<1>5. MemoryStep
  BY <1>1, <1>2, <1>4, MemoryAlone
<1> QED BY <1>1, <1>2, <1>3, <1>5, ServingKeeps DEF Frame

LEMMA UnscopedKeeps ==
  ASSUME IInv, NEW r \in Request, NEW states, MayBeginFor(r, states), NEW q, Unscoped(r, q),
         q = NULL \/ IsRequest(q)
  PROVE  IInv'
<1>1. phase = "running" /\ handler = NULL
  BY DEF MayBeginFor, MayBegin
<1>2. /\ requests' = [requests EXCEPT ![r] = q] /\ UNCHANGED <<memory, handler, left>>
      /\ Frame
  BY DEF Unscoped, configurationVars, Frame
<1>3. DOMAIN requests = Request /\ left \in BOOLEAN
      /\ \A x \in Request : requests[x] # NULL => IsRequest(requests[x])
  BY DEF IInv, RequestInv
<1>4. \A x \in Request : requests'[x] = IF x = r THEN q ELSE requests[x]
  BY <1>2, <1>3
<1>5. RequestStep
  BY <1>1, <1>2, <1>3, <1>4 DEF RequestStep
<1>6. MemoryStep
  BY <1>1, <1>2, MemoryAlone DEF NoScope
<1> QED BY <1>1, <1>2, <1>5, <1>6, ServingKeeps

LEMMA ServeKeeps == ASSUME IInv, Serve PROVE IInv'
<1>1. ASSUME NEW r \in Request, Output(r) \/ OnClientRead(r) \/ OnClientHangup(r) PROVE IInv'
  BY <1>1, BeginScopedKeeps DEF Output, OnClientRead, OnClientHangup, Stage
<1>2. ASSUME NEW r \in Request, AnswerWritten(r) PROVE IInv'
  BY <1>2, UnscopedKeeps DEF AnswerWritten
<1>3. ASSUME NEW r \in Request, EndRequest(r) PROVE IInv'
  <2>1. MayBeginFor(r, {"FastCGI", "aborted"})
        /\ (Unscoped(r, NULL) \/ BeginUnscoped(r, "answer"))
    BY <1>3 DEF EndRequest
  <2> QED BY <2>1, UnscopedKeeps, BeginUnscopedKeeps DEF Stage
<1>4. ASSUME NEW r \in Request, OnRemoteHangup(r) PROVE IInv'
  <2> DEFINE q == [requests[r] EXCEPT !.state = "lost"]
  <2>1. MayBeginFor(r, {"FastCGI"}) /\ (Unscoped(r, q) \/ BeginUnscoped(r, "gateway"))
    BY <1>4 DEF OnRemoteHangup
  <2>2. IsRequest(requests[r])
    BY <2>1 DEF MayBeginFor, IInv, RequestInv
  <2>3. IsRequest(q)
    <3>1. "lost" \in {"parser", "FastCGI", "lost", "aborted"} /\ 0 \in Nat /\ TRUE \in BOOLEAN
      OBVIOUS
    <3> QED BY <2>2, <3>1, RequestVaries
  <2> HIDE DEF q
  <2> QED BY <2>1, <2>3, UnscopedKeeps, BeginUnscopedKeeps DEF Stage
<1>5. ASSUME NEW r \in Request, NEW name \in 0..Len(vhosts), NEW version \in Versions,
             HandleHeader(r, name, version)
      PROVE  IInv'
  BY <1>5, HandleHeaderKeeps
<1> QED BY <1>1, <1>2, <1>3, <1>4, <1>5, ExecuteKeeps, EndsKeep DEF Serve

LEMMA UnloadKeeps == ASSUME IInv, Unload PROVE IInv'
<1>1. /\ phase = "running" /\ handler = NULL /\ phase' = "unloaded"
      /\ UNCHANGED <<scopes, haveValue, haveScopedValue, memory, file, elements, place,
                     vhosts, defaultHost, compiler, requests, handler, left>>
  BY DEF Unload, MayBegin, configurationVars, loading, serving
<1>2. ScopeInv' /\ HostInv'
  BY <1>1 DEF IInv, ScopeInv, HostInv, PlaceInv
<1>3. RequestInv'
  BY <1>1 DEF IInv, RequestInv, IsRequest
<1>4. MemoryInv'
  BY <1>1 DEF IInv, MemoryInv
<1> QED BY <1>2, <1>3, <1>4 DEF IInv

LEMMA StutterKeeps == ASSUME IInv, UNCHANGED vars PROVE IInv'
<1>1. UNCHANGED <<scopes, haveValue, haveScopedValue, memory, phase, file, elements, place,
                  vhosts, defaultHost, compiler, requests, handler, left>>
  BY DEF vars, configurationVars, loading, serving
<1>2. ScopeInv' /\ HostInv'
  BY <1>1 DEF IInv, ScopeInv, HostInv, PlaceInv
<1>3. RequestInv'
  BY <1>1 DEF IInv, RequestInv, IsRequest
<1>4. MemoryInv'
  BY <1>1 DEF IInv, MemoryInv, RootInv, RootMeans, Over, NoScope
<1> QED BY <1>2, <1>3, <1>4 DEF IInv

LEMMA Invariance == Spec => []IInv
<1>1. IInv /\ [Next]_vars => IInv'
  BY LoadKeeps, ServeKeeps, UnloadKeeps, StutterKeeps DEF Next
<1> QED BY <1>1, InitIInv, PTL DEF Spec

-----------------------------------------------------------------------------
(* However many scopes were activated for however many requests, between   *)
(* the handlers memory holds the settings of the server again, unless one  *)
(* left without unscoping (PancakeConfiguration.c:217): all of them but    *)
(* the document root, whose default is never loaded.                       *)
THEOREM UnscopedCorrect == Spec => []RootInForce
<1>1. IInv => RootInForce
  BY DEF IInv, MemoryInv, RootInv, RootInForce, NoScope
<1> QED BY <1>1, Invariance, PTL

(* The types of the state: in particular every opcode and every request    *)
(* leads to a scope there is, and never to the root scope.                 *)
THEOREM TypeCorrect == Spec => []TypeOK
<1>1. ASSUME IInv PROVE ConfigurationTypeOK
  <2>1. \A i \in 1..Len(scopes) : scopes[i] \in Scope
    BY <1>1 DEF IInv, ScopeInv
  <2>2. \A i \in 1..Len(scopes) : /\ DOMAIN scopes[i] \subseteq Setting
                                 /\ scopes[i] \in [DOMAIN scopes[i] -> Nat]
    BY <2>1 DEF Scope
  <2>3. DOMAIN file.root \subseteq Setting
    BY <1>1 DEF IInv, ScopeInv, Scope
  <2> QED BY <1>1, <2>2, <2>3 DEF IInv, ScopeInv, MemoryInv, ConfigurationTypeOK
<1>2. ASSUME IInv, NEW h \in DOMAIN vhosts
      PROVE  /\ vhosts[h].scope \in 2..Len(scopes)
             /\ \A ruleset \in Range(vhosts[h].rulesets) : \A op \in Range(ruleset) :
                  op.op = "ACTIVATE_SCOPE" => op.value \in 2..Len(scopes)
  <2>1. vhosts[h] \in Host(Len(scopes))
    BY <1>2 DEF IInv, HostInv
  <2>2. vhosts[h].scope \in 2..Len(scopes)
        /\ vhosts[h].rulesets \in Seq(Seq(AnyOpcode(Len(scopes))))
    BY <2>1 DEF Host
  <2>3. \A ruleset \in Range(vhosts[h].rulesets) : ruleset \in Seq(AnyOpcode(Len(scopes)))
    BY <2>2 DEF Range
  <2>4. \A ruleset \in Range(vhosts[h].rulesets) : \A op \in Range(ruleset) :
          op \in AnyOpcode(Len(scopes))
    <3> SUFFICES ASSUME NEW ruleset \in Range(vhosts[h].rulesets), NEW op \in Range(ruleset)
                 PROVE  op \in AnyOpcode(Len(scopes))
      OBVIOUS
    <3>1. PICK i \in DOMAIN ruleset : op = ruleset[i]
      BY DEF Range
    <3>2. ruleset \in Seq(AnyOpcode(Len(scopes)))
      BY <2>3
    <3> QED BY <3>1, <3>2
  <2>5. \A o \in Operations : o.op # "ACTIVATE_SCOPE"
    BY RewriteAssumption DEF Opcode, Conditions
  <2> QED BY <2>2, <2>4, <2>5 DEF AnyOpcode
<1>3. ASSUME IInv
      PROVE  /\ elements \in 0..MaxElements /\ defaultHost \in 0..Len(vhosts)
             /\ compiler.inScope => compiler.scope \in 2..Len(scopes)
  BY <1>3 DEF IInv, HostInv
<1>4. ASSUME IInv PROVE place \in {"before", "host", "rewrite", "hostAgain", "after"}
  BY <1>4 DEF IInv, HostInv, PlaceInv
<1>5. ASSUME IInv, NEW r \in Request, requests[r] # NULL
      PROVE  /\ requests[r] \in RequestRecord /\ requests[r].vHost \in DOMAIN vhosts
             /\ requests[r].group \in Seq(2..Len(scopes))
  <2>1. IsRequest(requests[r])
    BY <1>5 DEF IInv, RequestInv
  <2>2. DOMAIN vhosts = 1..Len(vhosts)
    BY <1>5 DEF IInv, HostInv
  <2> QED BY <2>1, <2>2 DEF IsRequest
<1>6. ASSUME IInv
      PROVE  /\ phase \in {"load", "loaded", "running", "unloaded", "failed"}
             /\ handler \in Handler \union {NULL}
             /\ handler # NULL => requests[handler.request] # NULL
             /\ left \in BOOLEAN
  BY <1>6 DEF IInv, RequestInv
<1>7. IInv => TypeOK
  BY <1>1, <1>2, <1>3, <1>4, <1>5, <1>6 DEF TypeOK
<1> QED BY <1>7, Invariance, PTL

-----------------------------------------------------------------------------
(* What the file means is a fold over its rulesets of folds over their     *)
(* items.  The two folds are alike, and are reasoned about together.       *)

Apply(kind, so, x) == IF kind = "item" THEN ItemMeans(so, x) ELSE RulesetMeans(so, x)

(* The table of a fold, which the fold looks its result up in.             *)
Table(kind, base, seq, D, iter) ==
  iter = [s \in SUBSET D |->
            IF s = {} THEN base ELSE Apply(kind, iter[s \ {Max(s)}], seq[Max(s)])]

Fold(kind, base, seq) ==
  (CHOOSE iter : Table(kind, base, seq, DOMAIN seq, iter))[DOMAIN seq]

LEMMA SetInduction ==
  ASSUME NEW T, 0 \in T, \A n \in Nat : n \in T => n + 1 \in T
  PROVE  \A n \in Nat : n \in T
<1> DEFINE R == OpToRel(<, Nat)
           rest == Nat \ T
<1>1. \A x, y \in Nat : x < y => <<x, y>> \in R
  BY DEF OpToRel
<1>2. IsWellFoundedOn(R, Nat)
  BY NatLessThanWellFounded
<1> HIDE DEF R
<1>3. ASSUME rest # {} PROVE FALSE
  <2>1. PICK m \in rest : \A k \in rest : ~(<<k, m>> \in R)
    BY <1>2, <1>3, WFMin
  <2>2. m \in Nat /\ m # 0 /\ m \notin T
    OBVIOUS
  <2>3. m - 1 \in Nat /\ m - 1 < m
    BY <2>2
  <2>4. m - 1 \in T
    BY <1>1, <2>1, <2>2, <2>3
  <2> QED BY <2>2, <2>3, <2>4
<1> QED BY <1>3

LEMMA FoldItems ==
  ASSUME NEW base, NEW seq PROVE FoldLeft(ItemMeans, base, seq) = Fold("item", base, seq)
<1> DEFINE Looked(iter) ==
      iter = [s \in SUBSET DOMAIN seq |->
                IF s = {} THEN base ELSE ItemMeans(iter[s \ {Max(s)}], seq[Max(s)])]
<1>1. \A a, b : Apply("item", a, b) = ItemMeans(a, b)
  BY DEF Apply
<1>2. \A iter : Looked(iter) <=> Table("item", base, seq, DOMAIN seq, iter)
  BY <1>1, Zenon DEF Table
<1>3. FoldLeft(ItemMeans, base, seq) = (CHOOSE iter : Looked(iter))[DOMAIN seq]
  BY Zenon DEF FoldLeft, MapThenFoldSet
<1> HIDE DEF Looked
<1>4. (CHOOSE iter : Looked(iter)) = (CHOOSE iter : Table("item", base, seq, DOMAIN seq, iter))
  BY <1>2, Zenon
<1> QED BY <1>3, <1>4 DEF Fold

LEMMA FoldRulesets ==
  ASSUME NEW base, NEW seq PROVE FoldLeft(RulesetMeans, base, seq) = Fold("ruleset", base, seq)
<1> DEFINE Looked(iter) ==
      iter = [s \in SUBSET DOMAIN seq |->
                IF s = {} THEN base ELSE RulesetMeans(iter[s \ {Max(s)}], seq[Max(s)])]
<1>1. \A a, b : Apply("ruleset", a, b) = RulesetMeans(a, b)
  BY DEF Apply
<1>2. \A iter : Looked(iter) <=> Table("ruleset", base, seq, DOMAIN seq, iter)
  BY <1>1, Zenon DEF Table
<1>3. FoldLeft(RulesetMeans, base, seq) = (CHOOSE iter : Looked(iter))[DOMAIN seq]
  BY Zenon DEF FoldLeft, MapThenFoldSet
<1> HIDE DEF Looked
<1>4. (CHOOSE iter : Looked(iter))
        = (CHOOSE iter : Table("ruleset", base, seq, DOMAIN seq, iter))
  BY <1>2, Zenon
<1> QED BY <1>3, <1>4 DEF Fold

LEMMA MaxUpTo ==
  ASSUME NEW n \in Nat, n > 0, NEW s \in SUBSET (1..n), n \in s PROVE Max(s) = n
<1>1. \A y \in s : n >= y
  OBVIOUS
<1>2. \A x \in s : (\A y \in s : x >= y) => x = n
  OBVIOUS
<1> QED BY <1>1, <1>2 DEF Max

LEMMA MaxAmong ==
  ASSUME NEW n \in Nat, NEW s \in SUBSET (1..n), s # {} PROVE Max(s) \in s
<1>1. \E last \in s : \A j \in s : j <= last
  BY LastHaving
<1>2. \E last \in s : \A j \in s : last >= j
  BY <1>1
<1> QED BY <1>2 DEF Max

(* There is such a table, for sequences of any length.                     *)
LEMMA TableExists ==
  ASSUME NEW kind, NEW base, NEW seq, NEW n \in Nat
  PROVE  \E iter : Table(kind, base, seq, 1..n, iter)
<1> DEFINE T == {m \in Nat : \E iter : Table(kind, base, seq, 1..m, iter)}
<1>1. 0 \in T
  <2> DEFINE iter == [s \in SUBSET (1..0) |-> base]
  <2>1. \A s \in SUBSET (1..0) : s = {}
    OBVIOUS
  <2>2. iter = [s \in SUBSET (1..0) |->
                  IF s = {} THEN base
                  ELSE Apply(kind, iter[s \ {Max(s)}], seq[Max(s)])]
    BY <2>1, Zenon
  <2> QED BY <2>2 DEF Table
<1>2. ASSUME NEW m \in Nat, m \in T PROVE m + 1 \in T
  <2>1. PICK old : Table(kind, base, seq, 1..m, old)
    BY <1>2
  <2>2. old = [s \in SUBSET (1..m) |->
                 IF s = {} THEN base ELSE Apply(kind, old[s \ {Max(s)}], seq[Max(s)])]
    BY <2>1 DEF Table
  <2> DEFINE iter == [s \in SUBSET (1..(m + 1)) |->
                        IF m + 1 \in s THEN Apply(kind, old[s \ {m + 1}], seq[m + 1])
                        ELSE old[s]]
             value(s) == IF s = {} THEN base
                         ELSE Apply(kind, iter[s \ {Max(s)}], seq[Max(s)])
  <2>3. ASSUME NEW s \in SUBSET (1..(m + 1)) PROVE iter[s] = value(s)
    <3>1. CASE m + 1 \in s
      <4>1. Max(s) = m + 1
        BY <3>1, MaxUpTo
      <4>2. s \ {m + 1} \in SUBSET (1..m) /\ s \ {m + 1} \in SUBSET (1..(m + 1))
            /\ m + 1 \notin s \ {m + 1} /\ s # {}
        BY <3>1
      <4>3. iter[s \ {m + 1}] = old[s \ {m + 1}]
        BY <4>2
      <4>4. iter[s] = Apply(kind, old[s \ {m + 1}], seq[m + 1])
        BY <3>1
      <4> HIDE DEF iter
      <4> QED BY <4>1, <4>2, <4>3, <4>4
    <3>2. CASE m + 1 \notin s
      <4>1. s \in SUBSET (1..m)
        BY <3>2
      <4>2. iter[s] = old[s]
        BY <3>2
      <4>3. CASE s = {}
        BY <2>2, <4>1, <4>2, <4>3, Zenon
      <4>4. CASE s # {}
        <5>1. Max(s) \in s
          BY <4>1, <4>4, MaxAmong
        <5>2. s \ {Max(s)} \in SUBSET (1..(m + 1)) /\ m + 1 \notin s \ {Max(s)}
          BY <3>2
        <5>3. iter[s \ {Max(s)}] = old[s \ {Max(s)}]
          BY <5>2
        <5>4. old[s] = Apply(kind, old[s \ {Max(s)}], seq[Max(s)])
          BY <2>2, <4>1, <4>4, Zenon
        <5> HIDE DEF iter
        <5> QED BY <4>2, <4>4, <5>3, <5>4
      <4> QED BY <4>3, <4>4
    <3> QED BY <3>1, <3>2
  <2>4. iter = [s \in SUBSET (1..(m + 1)) |-> iter[s]]
    OBVIOUS
  <2> HIDE DEF iter
  <2>5. iter = [s \in SUBSET (1..(m + 1)) |-> value(s)]
    BY <2>3, <2>4, Zenon
  <2>6. Table(kind, base, seq, 1..(m + 1), iter)
    BY <2>5, Zenon DEF Table
  <2> QED BY <2>6
<1> HIDE DEF T
<1>3. n \in T
  BY <1>1, <1>2, SetInduction
<1> QED BY <1>3 DEF T

(* The results for the first elements of the sequence, one after another.  *)
Steps(kind, base, seq, n, iter) ==
  /\ iter[1..0] = base
  /\ \A k \in 1..n : iter[1..k] = Apply(kind, iter[1..(k - 1)], seq[k])

LEMMA TableStep ==
  ASSUME NEW kind, NEW base, NEW seq, NEW n \in Nat, NEW iter,
         Table(kind, base, seq, 1..n, iter)
  PROVE  Steps(kind, base, seq, n, iter)
<1>1. iter = [s \in SUBSET (1..n) |->
                IF s = {} THEN base ELSE Apply(kind, iter[s \ {Max(s)}], seq[Max(s)])]
  BY DEF Table
<1>2. 1..0 = {} /\ {} \in SUBSET (1..n)
  OBVIOUS
<1>3. iter[1..0] = base
  BY <1>1, <1>2, Zenon
<1>4. ASSUME NEW k \in 1..n
      PROVE  iter[1..k] = Apply(kind, iter[1..(k - 1)], seq[k])
  <2>1. k \in Nat /\ k > 0 /\ k \in 1..k /\ 1..k \in SUBSET (1..n) /\ 1..k # {}
    OBVIOUS
  <2>2. (1..k) \ {k} = 1..(k - 1)
    BY <2>1
  <2>3. Max(1..k) = k
    BY <2>1, MaxUpTo
  <2> QED BY <1>1, <2>1, <2>2, <2>3, Zenon
<1> QED BY <1>3, <1>4, Zenon DEF Steps

LEMMA FoldLooksUp ==
  ASSUME NEW kind, NEW base, NEW seq, NEW n \in Nat, DOMAIN seq = 1..n
  PROVE  \E iter : Steps(kind, base, seq, n, iter) /\ Fold(kind, base, seq) = iter[1..n]
<1> DEFINE a == CHOOSE iter : Table(kind, base, seq, 1..n, iter)
<1>1. \E iter : Table(kind, base, seq, 1..n, iter)
  BY TableExists, Zenon
<1>2. Table(kind, base, seq, 1..n, a)
  BY <1>1, Zenon
<1>3. Fold(kind, base, seq) = a[1..n]
  BY DEF Fold
<1>4. Steps(kind, base, seq, n, a)
  BY <1>2, TableStep, Zenon
<1> QED BY <1>3, <1>4, Zenon

(* So a fold can be taken one element at a time.                           *)
LEMMA FoldAppend ==
  ASSUME NEW kind, NEW base, NEW S, NEW seq \in Seq(S), NEW e \in S
  PROVE  Fold(kind, base, Append(seq, e)) = Apply(kind, Fold(kind, base, seq), e)
<1>1. PICK n \in Nat : n = Len(seq)
  OBVIOUS
<1>2. PICK longer : longer = Append(seq, e)
  OBVIOUS
<1>3. /\ DOMAIN seq = 1..n /\ DOMAIN longer = 1..(n + 1) /\ n + 1 \in Nat
      /\ \A k \in 1..n : longer[k] = seq[k]
      /\ longer[n + 1] = e
  BY <1>1, <1>2
<1>4. PICK a : Steps(kind, base, seq, n, a) /\ Fold(kind, base, seq) = a[1..n]
  BY <1>3, FoldLooksUp
<1>5. PICK b : /\ Steps(kind, base, longer, n + 1, b)
               /\ Fold(kind, base, longer) = b[1..(n + 1)]
  BY <1>3, FoldLooksUp
<1>6. a[1..0] = base /\ \A k \in 1..n : a[1..k] = Apply(kind, a[1..(k - 1)], seq[k])
  BY <1>4 DEF Steps
<1>7. /\ b[1..0] = base
      /\ \A k \in 1..(n + 1) : b[1..k] = Apply(kind, b[1..(k - 1)], longer[k])
  BY <1>5 DEF Steps
<1> DEFINE T == {k \in Nat : k <= n => a[1..k] = b[1..k]}
<1>8. 0 \in T
  BY <1>6, <1>7
<1>9. ASSUME NEW k \in Nat, k \in T PROVE k + 1 \in T
  <2>1. CASE k + 1 <= n
    <3>1. k + 1 \in 1..n /\ k + 1 \in 1..(n + 1) /\ (k + 1) - 1 = k /\ k <= n
      BY <2>1
    <3>2. a[1..(k + 1)] = Apply(kind, a[1..k], seq[k + 1])
      BY <1>6, <3>1
    <3>3. b[1..(k + 1)] = Apply(kind, b[1..k], longer[k + 1])
      BY <1>7, <3>1
    <3>4. a[1..k] = b[1..k] /\ longer[k + 1] = seq[k + 1]
      BY <1>3, <1>9, <3>1
    <3> QED BY <3>2, <3>3, <3>4
  <2>2. CASE ~(k + 1 <= n)
    BY <2>2
  <2> QED BY <2>1, <2>2
<1> HIDE DEF T
<1>10. n \in T
  BY <1>8, <1>9, SetInduction
<1>11. a[1..n] = b[1..n]
  BY <1>10 DEF T
<1>12. b[1..(n + 1)] = Apply(kind, b[1..n], e)
  <2>1. n + 1 \in 1..(n + 1) /\ (n + 1) - 1 = n
    OBVIOUS
  <2> QED BY <1>3, <1>7, <2>1
<1> QED BY <1>2, <1>4, <1>5, <1>11, <1>12

LEMMA FoldEmpty ==
  ASSUME NEW kind, NEW base, NEW seq, DOMAIN seq = {} PROVE Fold(kind, base, seq) = base
<1>1. DOMAIN seq = 1..0 /\ 0 \in Nat
  OBVIOUS
<1>2. PICK a : Steps(kind, base, seq, 0, a) /\ Fold(kind, base, seq) = a[1..0]
  BY <1>1, FoldLooksUp
<1> QED BY <1>1, <1>2 DEF Steps
-----------------------------------------------------------------------------
(* What items mean, one after another.                                     *)

So == [settings : [Setting -> Nat], applies : BOOLEAN, variables : [Variable -> Nat]]

Item == Operations \union [op : {"SETTING"}, name : RulesetSettings, value : Nat]

(* Items and opcodes; to a fold of items an activation is nothing.         *)
Element == Item \union [op : {"ACTIVATE_SCOPE"}, name : {""}, value : Nat]

LEMMA SplitSeq ==
  ASSUME NEW S, NEW seq \in Seq(S), NEW k \in 1..Len(seq)
  PROVE  /\ SubSeq(seq, 1, k - 1) \in Seq(S) /\ Len(SubSeq(seq, 1, k - 1)) = k - 1
         /\ seq[k] \in S
         /\ SubSeq(seq, 1, k) = Append(SubSeq(seq, 1, k - 1), seq[k])
<1>1. /\ SubSeq(seq, 1, k - 1) \in Seq(S) /\ Len(SubSeq(seq, 1, k - 1)) = k - 1
      /\ SubSeq(seq, 1, k) \in Seq(S) /\ Len(SubSeq(seq, 1, k)) = k /\ seq[k] \in S
  OBVIOUS
<1>2. \A i \in 1..k : SubSeq(seq, 1, k)[i] = Append(SubSeq(seq, 1, k - 1), seq[k])[i]
  <2> SUFFICES ASSUME NEW i \in 1..k
               PROVE  SubSeq(seq, 1, k)[i] = Append(SubSeq(seq, 1, k - 1), seq[k])[i]
    OBVIOUS
  <2>1. SubSeq(seq, 1, k)[i] = seq[i]
    OBVIOUS
  <2>2. CASE i = k
    BY <1>1, <2>1, <2>2
  <2>3. CASE i \in 1..(k - 1)
    <3>1. SubSeq(seq, 1, k - 1)[i] = seq[i]
      BY <2>3
    <3> QED BY <1>1, <2>1, <2>3, <3>1
  <2> QED BY <2>2, <2>3
<1> QED BY <1>1, <1>2

LEMMA WholeSeq ==
  ASSUME NEW S, NEW seq \in Seq(S)
  PROVE  SubSeq(seq, 1, Len(seq)) = seq /\ DOMAIN SubSeq(seq, 1, 0) = {}
OBVIOUS

LEMMA SeqInduction ==
  ASSUME NEW S, NEW T, \A seq \in Seq(S) : Len(seq) = 0 => seq \in T,
         \A seq \in Seq(S) : \A e \in S : seq \in T => Append(seq, e) \in T
  PROVE  Seq(S) \subseteq T
<1> DEFINE L == {n \in Nat : \A seq \in Seq(S) : Len(seq) = n => seq \in T}
<1>1. 0 \in L
  OBVIOUS
<1>2. ASSUME NEW n \in Nat, n \in L PROVE n + 1 \in L
  <2> SUFFICES ASSUME NEW seq \in Seq(S), Len(seq) = n + 1 PROVE seq \in T
    OBVIOUS
  <2>1. n + 1 \in 1..Len(seq) /\ (n + 1) - 1 = n
    OBVIOUS
  <2>2. /\ SubSeq(seq, 1, n) \in Seq(S) /\ Len(SubSeq(seq, 1, n)) = n /\ seq[n + 1] \in S
        /\ SubSeq(seq, 1, n + 1) = Append(SubSeq(seq, 1, n), seq[n + 1])
    BY <2>1, SplitSeq
  <2>3. SubSeq(seq, 1, n) \in T
    BY <1>2, <2>2
  <2>4. SubSeq(seq, 1, n + 1) = seq
    BY WholeSeq
  <2> QED BY <2>2, <2>3, <2>4
<1> HIDE DEF L
<1>3. \A n \in Nat : n \in L
  BY <1>1, <1>2, SetInduction
<1> QED BY <1>3 DEF L

LEMMA RulesetNothing ==
  ASSUME NEW so, NEW seq, DOMAIN seq = {}
  PROVE  RulesetMeans(so, seq) = [so EXCEPT !.applies = TRUE]
BY FoldItems, FoldEmpty DEF RulesetMeans

LEMMA RulesetAppend ==
  ASSUME NEW so, NEW S, NEW seq \in Seq(S), NEW e \in S
  PROVE  RulesetMeans(so, Append(seq, e)) = ItemMeans(RulesetMeans(so, seq), e)
<1>1. RulesetMeans(so, Append(seq, e))
        = Apply("item", Fold("item", [so EXCEPT !.applies = TRUE], seq), e)
  BY FoldItems, FoldAppend DEF RulesetMeans
<1> QED BY <1>1, FoldItems DEF RulesetMeans, Apply

(* The first k elements of a ruleset.                                      *)
LEMMA RulesetStep ==
  ASSUME NEW so, NEW S, NEW seq \in Seq(S), NEW k \in 1..Len(seq)
  PROVE  RulesetMeans(so, SubSeq(seq, 1, k))
           = ItemMeans(RulesetMeans(so, SubSeq(seq, 1, k - 1)), seq[k])
<1> DEFINE short == SubSeq(seq, 1, k - 1)
<1>1. SubSeq(seq, 1, k) = Append(short, seq[k]) /\ short \in Seq(S) /\ seq[k] \in S
  BY SplitSeq
<1> HIDE DEF short
<1>2. RulesetMeans(so, Append(short, seq[k])) = ItemMeans(RulesetMeans(so, short), seq[k])
  BY <1>1, RulesetAppend
<1> QED BY <1>1, <1>2 DEF short

LEMMA RulesetsStep ==
  ASSUME NEW so, NEW S, NEW seq \in Seq(S), NEW k \in 1..Len(seq)
  PROVE  FoldLeft(RulesetMeans, so, SubSeq(seq, 1, k))
           = RulesetMeans(FoldLeft(RulesetMeans, so, SubSeq(seq, 1, k - 1)), seq[k])
<1> DEFINE short == SubSeq(seq, 1, k - 1)
<1>1. SubSeq(seq, 1, k) = Append(short, seq[k]) /\ short \in Seq(S) /\ seq[k] \in S
  BY SplitSeq
<1> HIDE DEF short
<1>2. Fold("ruleset", so, Append(short, seq[k])) = Apply("ruleset", Fold("ruleset", so, short), seq[k])
  BY <1>1, FoldAppend
<1>3. FoldLeft(RulesetMeans, so, SubSeq(seq, 1, k)) = Fold("ruleset", so, Append(short, seq[k]))
  BY <1>1, FoldRulesets
<1>4. FoldLeft(RulesetMeans, so, short) = Fold("ruleset", so, short)
  BY FoldRulesets
<1> QED BY <1>2, <1>3, <1>4 DEF Apply, short

LEMMA ElementKinds ==
  ASSUME NEW o \in Element
  PROVE  \/ o.op = "SET" /\ o.name \in Variable /\ o.value \in Nat
         \/ o.op \in Conditions
         \/ o.op = "SETTING" /\ o.name \in RulesetSettings /\ o.value \in Nat
         \/ o.op \in {"CALL", "ACTIVATE_SCOPE"}
<1>1. CASE o \in Operations
  <2>1. CASE o \in [op : Conditions \union {"SET"}, name : Variable, value : Nat]
    BY <2>1
  <2>2. CASE o = Opcode("CALL", "ThrowException", 0)
    BY <2>2 DEF Opcode
  <2> QED BY <1>1, <2>1, <2>2, RewriteAssumption
<1>2. CASE o \notin Operations
  BY <1>2 DEF Element, Item
<1> QED BY <1>1, <1>2

(* What an element means when it applies.                                  *)
LEMMA ElementMeans ==
  ASSUME NEW so \in So, NEW o \in Element
  PROVE  /\ ItemMeans(so, o) \in So
         /\ ~so.applies => ItemMeans(so, o) = so
         /\ o.op # "SETTING" => ItemMeans(so, o).settings = so.settings
         /\ o.op \in {"CALL", "ACTIVATE_SCOPE"} => ItemMeans(so, o) = so
         /\ so.applies =>
              /\ o.op = "SETTING" =>
                   ItemMeans(so, o) = [so EXCEPT !.settings[o.name] = o.value]
              /\ o.op = "SET" =>
                   ItemMeans(so, o) = [so EXCEPT !.variables[o.name] = o.value]
              /\ o.op \in Conditions =>
                   ItemMeans(so, o) = [so EXCEPT !.applies = Holds(so.variables, o)]
<1>1. CASE ~so.applies
  <2>1. ItemMeans(so, o) = so
    BY <1>1 DEF ItemMeans
  <2> QED BY <1>1, <2>1
<1>2. CASE so.applies
  <2>1. CASE o.op = "SET" /\ o.name \in Variable /\ o.value \in Nat
    <3>1. ItemMeans(so, o) = [so EXCEPT !.variables[o.name] = o.value]
      BY <1>2, <2>1 DEF ItemMeans, Conditions
    <3>2. [so EXCEPT !.variables[o.name] = o.value] \in So
      BY <2>1 DEF So
    <3>3. [so EXCEPT !.variables[o.name] = o.value].settings = so.settings
      BY DEF So
    <3> QED BY <1>2, <2>1, <3>1, <3>2, <3>3 DEF Conditions
  <2>2. CASE o.op \in Conditions
    <3>1. ItemMeans(so, o) = [so EXCEPT !.applies = Holds(so.variables, o)]
      BY <1>2, <2>2 DEF ItemMeans, Conditions
    <3>2. Holds(so.variables, o) \in BOOLEAN
      BY DEF Holds
    <3>3. [so EXCEPT !.applies = Holds(so.variables, o)] \in So
      BY <3>2 DEF So
    <3>4. [so EXCEPT !.applies = Holds(so.variables, o)].settings = so.settings
      BY DEF So
    <3> QED BY <1>2, <2>2, <3>1, <3>3, <3>4 DEF Conditions
  <2>3. CASE o.op = "SETTING" /\ o.name \in RulesetSettings /\ o.value \in Nat
    <3>1. ItemMeans(so, o) = [so EXCEPT !.settings[o.name] = o.value]
      BY <1>2, <2>3 DEF ItemMeans, Conditions
    <3>2. [so EXCEPT !.settings[o.name] = o.value] \in So
      BY <2>3 DEF So
    <3> QED BY <1>2, <2>3, <3>1, <3>2 DEF Conditions
  <2>4. CASE o.op \in {"CALL", "ACTIVATE_SCOPE"}
    BY <1>2, <2>4 DEF ItemMeans, Conditions
  <2> QED BY <2>1, <2>2, <2>3, <2>4, ElementKinds
<1> QED BY <1>1, <1>2

LEMMA RulesetType ==
  ASSUME NEW so \in So, NEW seq \in Seq(Element) PROVE RulesetMeans(so, seq) \in So
<1> DEFINE T == {x \in Seq(Element) : RulesetMeans(so, x) \in So}
<1>1. ASSUME NEW x \in Seq(Element), Len(x) = 0 PROVE x \in T
  <2>1. [so EXCEPT !.applies = TRUE] \in So
    BY DEF So
  <2>2. DOMAIN x = {}
    BY <1>1
  <2>3. RulesetMeans(so, x) = [so EXCEPT !.applies = TRUE]
    BY <2>2, RulesetNothing
  <2> QED BY <2>1, <2>3
<1>2. ASSUME NEW x \in Seq(Element), NEW e \in Element, x \in T PROVE Append(x, e) \in T
  <2>1. RulesetMeans(so, Append(x, e)) = ItemMeans(RulesetMeans(so, x), e)
    BY RulesetAppend
  <2>2. RulesetMeans(so, x) \in So /\ Append(x, e) \in Seq(Element)
    BY <1>2
  <2>3. ItemMeans(RulesetMeans(so, x), e) \in So
    BY <2>2, ElementMeans
  <2> QED BY <2>1, <2>2, <2>3
<1> HIDE DEF T
<1>3. Seq(Element) \subseteq T
  BY <1>1, <1>2, SeqInduction
<1> QED BY <1>3 DEF T

(* A condition that does not hold is the end of its ruleset.               *)
LEMMA StaysFalse ==
  ASSUME NEW so \in So, NEW seq \in Seq(Element), NEW k \in 0..Len(seq),
         ~RulesetMeans(so, SubSeq(seq, 1, k)).applies
  PROVE  RulesetMeans(so, seq) = RulesetMeans(so, SubSeq(seq, 1, k))
<1> DEFINE upTo(m) == RulesetMeans(so, SubSeq(seq, 1, m))
           T == {m \in Nat : k + m <= Len(seq) => upTo(k + m) = upTo(k)}
<1>1. 0 \in T
  <2>1. k + 0 = k
    OBVIOUS
  <2> HIDE DEF upTo
  <2> QED BY <2>1
<1>2. ASSUME NEW m \in Nat, m \in T PROVE m + 1 \in T
  <2> SUFFICES ASSUME k + (m + 1) <= Len(seq) PROVE upTo(k + (m + 1)) = upTo(k)
    OBVIOUS
  <2>1. /\ k + (m + 1) \in 1..Len(seq) /\ (k + (m + 1)) - 1 = k + m /\ k + m <= Len(seq)
    OBVIOUS
  <2>2. upTo(k + (m + 1)) = ItemMeans(upTo(k + m), seq[k + (m + 1)])
    BY <2>1, RulesetStep
  <2>3. seq[k + (m + 1)] \in Element /\ SubSeq(seq, 1, k) \in Seq(Element)
    BY <2>1
  <2>4. upTo(k) \in So /\ ~upTo(k).applies
    BY <2>3, RulesetType
  <2>5. upTo(k + m) = upTo(k)
    BY <1>2, <2>1
  <2> HIDE DEF upTo
  <2>6. ItemMeans(upTo(k), seq[k + (m + 1)]) = upTo(k)
    BY <2>3, <2>4, ElementMeans
  <2> QED BY <2>2, <2>5, <2>6
<1> HIDE DEF T
<1>3. \A m \in Nat : m \in T
  BY <1>1, <1>2, SetInduction
<1>4. Len(seq) - k \in Nat /\ k + (Len(seq) - k) = Len(seq)
  OBVIOUS
<1>5. upTo(Len(seq)) = upTo(k)
  BY <1>3, <1>4 DEF T
<1>6. SubSeq(seq, 1, Len(seq)) = seq
  BY WholeSeq
<1> QED BY <1>5, <1>6
-----------------------------------------------------------------------------
(* Items and opcodes side by side.                                         *)

(* The opcodes of a ruleset do to the variables what its items mean, and   *)
(* by its settings the items mean the values of its scope.                 *)
CompiledFor(so, items, opcodes, values) ==
  /\ RulesetMeans(so, opcodes).variables = RulesetMeans(so, items).variables
  /\ (RulesetMeans(so, opcodes).applies <=> RulesetMeans(so, items).applies)
  /\ RulesetMeans(so, items).settings =
       IF RulesetMeans(so, items).applies THEN ActivateScope(so.settings, values)
       ELSE so.settings

Compiled(items, opcodes, values) == \A so \in So : CompiledFor(so, items, opcodes, values)

LEMMA ActivateEmpty ==
  ASSUME NEW mem \in [Setting -> Nat] PROVE ActivateScope(mem, Empty) = mem
BY EmptyScope DEF ActivateScope

LEMMA ActivateWith ==
  ASSUME NEW mem \in [Setting -> Nat], NEW scope \in Scope, NEW s \in Setting, NEW v \in Nat
  PROVE  ActivateScope(mem, With(scope, s, v)) = [ActivateScope(mem, scope) EXCEPT ![s] = v]
<1> DEFINE new == With(scope, s, v)
<1>1. DOMAIN new = DOMAIN scope \union {s}
  BY WithScope
<1>2. \A t \in DOMAIN new : new[t] = IF t = s THEN v ELSE scope[t]
  BY DEF With
<1> HIDE DEF new
<1>3. ActivateScope(mem, new) = [t \in Setting |-> IF t \in DOMAIN new THEN new[t] ELSE mem[t]]
  BY DEF ActivateScope
<1>4. ActivateScope(mem, scope)
        = [t \in Setting |-> IF t \in DOMAIN scope THEN scope[t] ELSE mem[t]]
  BY DEF ActivateScope
<1>5. \A t \in Setting :
        (IF t \in DOMAIN new THEN new[t] ELSE mem[t])
          = IF t = s THEN v ELSE IF t \in DOMAIN scope THEN scope[t] ELSE mem[t]
  BY <1>1, <1>2
<1> QED BY <1>3, <1>4, <1>5 DEF new

LEMMA CompiledNothing ==
  ASSUME NEW items, NEW opcodes, DOMAIN items = {}, DOMAIN opcodes = {}
  PROVE  Compiled(items, opcodes, Empty)
<1> SUFFICES ASSUME NEW so \in So PROVE CompiledFor(so, items, opcodes, Empty)
  BY DEF Compiled
<1> DEFINE begun == [so EXCEPT !.applies = TRUE]
<1>1. RulesetMeans(so, items) = begun /\ RulesetMeans(so, opcodes) = begun
  BY RulesetNothing
<1>2. begun.settings = so.settings /\ so.settings \in [Setting -> Nat]
  BY DEF So
<1>3. ActivateScope(so.settings, Empty) = so.settings
  BY <1>2, ActivateEmpty
<1> HIDE DEF begun
<1> QED BY <1>1, <1>2, <1>3 DEF CompiledFor

(* A condition changes what applies, and so must come before any setting.  *)
LEMMA CompiledStatement ==
  ASSUME NEW items \in Seq(Element), NEW opcodes \in Seq(Element), NEW values \in Scope,
         Compiled(items, opcodes, values), NEW o \in Element,
         o.op # "SETTING", o.op \in Conditions => values = Empty
  PROVE  Compiled(Append(items, o), Append(opcodes, o), values)
<1> SUFFICES ASSUME NEW so \in So
             PROVE  CompiledFor(so, Append(items, o), Append(opcodes, o), values)
  BY DEF Compiled
<1> DEFINE m == RulesetMeans(so, items)
           d == RulesetMeans(so, opcodes)
<1>1. /\ RulesetMeans(so, Append(items, o)) = ItemMeans(m, o)
      /\ RulesetMeans(so, Append(opcodes, o)) = ItemMeans(d, o)
  BY RulesetAppend
<1>2. m \in So /\ d \in So
  BY RulesetType
<1>3. /\ d.variables = m.variables /\ (d.applies <=> m.applies)
      /\ m.settings = IF m.applies THEN ActivateScope(so.settings, values) ELSE so.settings
  BY DEF Compiled, CompiledFor
<1> HIDE DEF m, d
<1>4. /\ ItemMeans(d, o).variables = ItemMeans(m, o).variables
      /\ (ItemMeans(d, o).applies <=> ItemMeans(m, o).applies)
  <2>1. CASE ~m.applies
    <3>1. ItemMeans(m, o) = m /\ ItemMeans(d, o) = d
      BY <1>2, <1>3, <2>1, ElementMeans
    <3> QED BY <1>3, <3>1
  <2>2. CASE m.applies /\ o.op = "SET"
    <3>1. /\ ItemMeans(m, o) = [m EXCEPT !.variables[o.name] = o.value]
          /\ ItemMeans(d, o) = [d EXCEPT !.variables[o.name] = o.value]
      BY <1>2, <1>3, <2>2, ElementMeans
    <3> QED BY <1>2, <1>3, <3>1 DEF So
  <2>3. CASE m.applies /\ o.op \in Conditions
    <3>1. /\ ItemMeans(m, o) = [m EXCEPT !.applies = Holds(m.variables, o)]
          /\ ItemMeans(d, o) = [d EXCEPT !.applies = Holds(m.variables, o)]
      BY <1>2, <1>3, <2>3, ElementMeans
    <3> QED BY <1>2, <1>3, <3>1 DEF So
  <2>4. CASE o.op \in {"CALL", "ACTIVATE_SCOPE"}
    <3>1. ItemMeans(m, o) = m /\ ItemMeans(d, o) = d
      BY <1>2, <2>4, ElementMeans
    <3> QED BY <1>3, <3>1
  <2> QED BY <2>1, <2>2, <2>3, <2>4, ElementKinds
<1>5. ItemMeans(m, o).settings = m.settings
  BY <1>2, ElementMeans
<1>6. m.settings = IF ItemMeans(m, o).applies THEN ActivateScope(so.settings, values)
                   ELSE so.settings
  <2>1. CASE o.op \in Conditions
    <3>1. so.settings \in [Setting -> Nat]
      BY DEF So
    <3>2. ActivateScope(so.settings, values) = so.settings
      BY <2>1, <3>1, ActivateEmpty
    <3> QED BY <1>3, <3>2
  <2>2. CASE o.op \notin Conditions
    <3>1. (ItemMeans(m, o).applies <=> m.applies)
      <4>1. CASE ~m.applies \/ o.op \in {"CALL", "ACTIVATE_SCOPE"}
        BY <1>2, <4>1, ElementMeans
      <4>2. CASE m.applies /\ o.op = "SET"
        <5>1. ItemMeans(m, o) = [m EXCEPT !.variables[o.name] = o.value]
          BY <1>2, <4>2, ElementMeans
        <5> QED BY <1>2, <5>1 DEF So
      <4> QED BY <2>2, <4>1, <4>2, ElementKinds
    <3> QED BY <1>3, <3>1
  <2> QED BY <2>1, <2>2
<1> QED BY <1>1, <1>4, <1>5, <1>6 DEF CompiledFor

(* A setting is a value more in the scope of its ruleset.                  *)
LEMMA CompiledSetting ==
  ASSUME NEW items \in Seq(Element), NEW opcodes \in Seq(Element), NEW values \in Scope,
         Compiled(items, opcodes, values), NEW o \in Element, o.op = "SETTING"
  PROVE  Compiled(Append(items, o), opcodes, With(values, o.name, o.value))
<1> SUFFICES ASSUME NEW so \in So
             PROVE  CompiledFor(so, Append(items, o), opcodes, With(values, o.name, o.value))
  BY DEF Compiled
<1> DEFINE m == RulesetMeans(so, items)
           d == RulesetMeans(so, opcodes)
<1>1. RulesetMeans(so, Append(items, o)) = ItemMeans(m, o) /\ RulesetMeans(so, opcodes) = d
  BY RulesetAppend
<1>2. m \in So
  BY RulesetType
<1>3. /\ d.variables = m.variables /\ (d.applies <=> m.applies)
      /\ m.settings = IF m.applies THEN ActivateScope(so.settings, values) ELSE so.settings
  BY DEF Compiled, CompiledFor
<1> HIDE DEF m, d
<1>4. o.name \in Setting /\ o.value \in Nat
  BY ElementKinds, Constants DEF Conditions
<1>5. CASE ~m.applies
  <2>1. ItemMeans(m, o) = m
    BY <1>2, <1>5, ElementMeans
  <2> QED BY <1>1, <1>3, <1>5, <2>1 DEF CompiledFor
<1>6. CASE m.applies
  <2>1. ItemMeans(m, o) = [m EXCEPT !.settings[o.name] = o.value]
    BY <1>2, <1>6, ElementMeans
  <2>2. /\ ItemMeans(m, o).settings = [m.settings EXCEPT ![o.name] = o.value]
        /\ ItemMeans(m, o).variables = m.variables
        /\ (ItemMeans(m, o).applies <=> m.applies)
    BY <1>2, <2>1 DEF So
  <2>3. so.settings \in [Setting -> Nat]
    BY DEF So
  <2>4. PICK mem \in [Setting -> Nat], s \in Setting, v \in Nat :
          mem = so.settings /\ s = o.name /\ v = o.value
    BY <1>4, <2>3
  <2>5. ActivateScope(mem, With(values, s, v)) = [ActivateScope(mem, values) EXCEPT ![s] = v]
    BY ActivateWith
  <2> QED BY <1>1, <1>3, <1>6, <2>2, <2>4, <2>5 DEF CompiledFor
<1> QED BY <1>5, <1>6

(* The opcode that activates the scope makes no difference to variables.   *)
LEMMA CompiledFlush ==
  ASSUME NEW items \in Seq(Element), NEW opcodes \in Seq(Element), NEW values,
         Compiled(items, opcodes, values), NEW o \in Element, o.op = "ACTIVATE_SCOPE"
  PROVE  Compiled(items, Append(opcodes, o), values)
<1> SUFFICES ASSUME NEW so \in So PROVE CompiledFor(so, items, Append(opcodes, o), values)
  BY DEF Compiled
<1> DEFINE d == RulesetMeans(so, opcodes)
<1>1. RulesetMeans(so, Append(opcodes, o)) = ItemMeans(d, o) /\ d \in So
  BY RulesetAppend, RulesetType
<1>2. CompiledFor(so, items, opcodes, values)
  BY DEF Compiled
<1> HIDE DEF d
<1>3. ItemMeans(d, o) = d
  BY <1>1, ElementMeans
<1> QED BY <1>1, <1>2, <1>3 DEF CompiledFor, d
-----------------------------------------------------------------------------
(* What the compiler has made of the file.                                 *)

FileHost == [named : BOOLEAN, default : BOOLEAN, settings : Scope, rulesets : Seq(Seq(Item))]

IsHost(h) == h \in 1..Len(vhosts)
IsRuleset(h, j) == IsHost(h) /\ j \in 1..Len(vhosts[h].rulesets)

ItemsOf(h, j) == file.hosts[h].rulesets[j]
OpcodesOf(h, j) == vhosts[h].rulesets[j]

(* The ruleset whose opcodes are made, and whether its scope is pending.   *)
IsLast(h, j) == compiler.last.host = h /\ compiler.last.ruleset = j
Pending(h, j) == compiler.inScope /\ IsLast(h, j)

Activating(opcodes) ==
  Len(opcodes) > 0 /\ opcodes[Len(opcodes)].op = "ACTIVATE_SCOPE"
Activated(opcodes) == IF Activating(opcodes) THEN opcodes[Len(opcodes)].value ELSE 0

(* The scope with the settings of a ruleset, 0 when it has none.           *)
ScopeOf(h, j) == IF Pending(h, j) THEN compiler.scope ELSE Activated(OpcodesOf(h, j))

ValuesIn(all, i) == IF i = 0 THEN Empty ELSE all[i]

(* The file has as many hosts and rulesets as there are, and the scope of  *)
(* a host has the settings of the host.                                    *)
HostMade(h) ==
  /\ Len(file.hosts[h].rulesets) = Len(vhosts[h].rulesets)
  /\ Len(vhosts[h].rulesets) <= elements
  /\ scopes[vhosts[h].scope] = file.hosts[h].settings

FileInv ==
  /\ file.hosts \in Seq(FileHost) /\ Len(file.hosts) = Len(vhosts)
  /\ \A h \in Nat : IsHost(h) => HostMade(h)
  /\ \A h, i \in Nat : IsHost(h) /\ IsHost(i) /\ vhosts[h].scope = vhosts[i].scope => h = i

(* A host that is the default by the file is the default.                  *)
DefaultInv ==
  phase \in {"load", "loaded"} \/ (phase = "running" /\ Len(vhosts) > 1) =>
    \A h \in Nat : IsHost(h) => (file.hosts[h].default <=> h = defaultHost)

CompilerInv ==
  /\ compiler.last \in [host : Nat, ruleset : Nat]
  /\ \A h, j \in Nat : Pending(h, j) => IsRuleset(h, j)
  /\ compiler.inScope => \A h \in Nat : IsHost(h) => vhosts[h].scope # compiler.scope
  /\ place = "rewrite" => LastOf(Here) > 0 /\ IsLast(Here, LastOf(Here))
  /\ phase \in {"running", "unloaded"} => ~compiler.inScope

(* Only the last opcode of a ruleset activates a scope, and none does      *)
(* where opcodes are still made.                                           *)
OpcodesInv(h, j) ==
  \A k \in 1..Len(OpcodesOf(h, j)) : OpcodesOf(h, j)[k].op = "ACTIVATE_SCOPE" =>
    k = Len(OpcodesOf(h, j)) /\ (phase \in {"load", "loaded"} => ~IsLast(h, j))

HasSetting(items) == \E k \in 1..Len(items) : items[k].op = "SETTING"

RulesetInv(h, j) ==
  /\ Compiled(ItemsOf(h, j), OpcodesOf(h, j), ValuesIn(scopes, ScopeOf(h, j)))
  /\ OpcodesInv(h, j)
  /\ Pending(h, j) => HasSetting(ItemsOf(h, j))
  /\ Len(OpcodesOf(h, j)) + (IF Pending(h, j) THEN 1 ELSE 0) <= Len(ItemsOf(h, j))
  /\ Len(ItemsOf(h, j)) <= elements

(* The scope of a ruleset is no other's, and has settings of rulesets.     *)
ScopeOfInv(h, j) ==
  ScopeOf(h, j) # 0 =>
    /\ ScopeOf(h, j) \in 2..Len(scopes)
    /\ DOMAIN scopes[ScopeOf(h, j)] \subseteq RulesetSettings
    /\ \A i \in Nat : IsHost(i) => vhosts[i].scope # ScopeOf(h, j)
    /\ \A i, k \in Nat : IsRuleset(i, k) /\ ScopeOf(i, k) = ScopeOf(h, j) => i = h /\ k = j

Owned(i) ==
  \/ \E h \in Nat : IsHost(h) /\ vhosts[h].scope = i
  \/ \E h, j \in Nat : IsRuleset(h, j) /\ ScopeOf(h, j) = i

RulesetsInv == \A h, j \in Nat : IsRuleset(h, j) => RulesetInv(h, j)
ScopeOfsInv == \A h, j \in Nat : IsRuleset(h, j) => ScopeOfInv(h, j)
OwnersInv == ScopeOfsInv /\ \A i \in 2..Len(scopes) : Owned(i)

CompileInv ==
  /\ FileInv /\ DefaultInv /\ CompilerInv
  /\ Orderly => RulesetsInv /\ OwnersInv

-----------------------------------------------------------------------------
(* How hosts change.                                                       *)

(* An element more in one of the rulesets.                                 *)
Appended(new, old, h, j, e) ==
  /\ Len(new) = Len(old)
  /\ \A i \in 1..Len(old) :
       /\ Len(new[i].rulesets) = Len(old[i].rulesets)
       /\ \A k \in 1..Len(old[i].rulesets) :
            new[i].rulesets[k] = IF i = h /\ k = j THEN Append(old[i].rulesets[k], e)
                                 ELSE old[i].rulesets[k]

SameScopes(new, old) == \A i \in 1..Len(old) : new[i].scope = old[i].scope

(* What a host of the file has besides its rulesets.                       *)
SameHosts(new, old) ==
  \A i \in 1..Len(old) : /\ new[i].settings = old[i].settings
                         /\ new[i].named = old[i].named
                         /\ new[i].default = old[i].default

LEMMA OpcodeAppended ==
  ASSUME NEW n \in Nat, NEW hosts \in Seq(Host(n)), NEW at, NEW o \in AnyOpcode(n),
         NEW h \in 1..Len(hosts), NEW j \in 1..Len(hosts[h].rulesets),
         at.host = h, at.ruleset = j
  PROVE  /\ Appended(MakeOpcode(hosts, at, o), hosts, h, j, o)
         /\ SameScopes(MakeOpcode(hosts, at, o), hosts)
<1> DEFINE ruleset == Append(hosts[h].rulesets[j], o)
           rulesets == [hosts[h].rulesets EXCEPT ![j] = ruleset]
           host == [hosts[h] EXCEPT !.rulesets = rulesets]
<1>0. hosts[h] \in Host(n)
  OBVIOUS
<1>1. hosts[h] \in Host(n) /\ hosts[h].rulesets \in Seq(Seq(AnyOpcode(n)))
  BY <1>0 DEF Host
<1>2. ruleset \in Seq(AnyOpcode(n))
  BY <1>1
<1>3. /\ rulesets \in Seq(Seq(AnyOpcode(n))) /\ Len(rulesets) = Len(hosts[h].rulesets)
      /\ \A k \in 1..Len(hosts[h].rulesets) :
           rulesets[k] = IF k = j THEN ruleset ELSE hosts[h].rulesets[k]
  BY <1>1, <1>2, ExceptSeq
<1> HIDE DEF rulesets, ruleset
<1>4. host \in Host(n) /\ host.rulesets = rulesets /\ host.scope = hosts[h].scope
  BY <1>1, <1>3 DEF Host
<1>5. MakeOpcode(hosts, at, o) = [hosts EXCEPT ![h] = host]
  BY DEF MakeOpcode, rulesets, ruleset
<1> HIDE DEF host
<1>6. /\ Len([hosts EXCEPT ![h] = host]) = Len(hosts)
      /\ \A i \in 1..Len(hosts) : [hosts EXCEPT ![h] = host][i] = IF i = h THEN host ELSE hosts[i]
  BY <1>4, ExceptSeq
<1>7. SameScopes([hosts EXCEPT ![h] = host], hosts)
  BY <1>4, <1>6 DEF SameScopes
<1>8. Appended([hosts EXCEPT ![h] = host], hosts, h, j, o)
  BY <1>3, <1>4, <1>6 DEF Appended, ruleset
<1> QED BY <1>5, <1>7, <1>8

LEMMA ItemAppended ==
  ASSUME NEW hosts \in Seq(FileHost), NEW h \in 1..Len(hosts),
         NEW j \in 1..Len(hosts[h].rulesets), NEW item \in Item
  PROVE  LET new == [hosts EXCEPT ![h].rulesets[j] = Append(@, item)]
         IN new \in Seq(FileHost) /\ Appended(new, hosts, h, j, item) /\ SameHosts(new, hosts)
<1> DEFINE ruleset == Append(hosts[h].rulesets[j], item)
           rulesets == [hosts[h].rulesets EXCEPT ![j] = ruleset]
           host == [hosts[h] EXCEPT !.rulesets = rulesets]
           new == [hosts EXCEPT ![h].rulesets[j] = Append(@, item)]
<1>0. hosts[h] \in FileHost
  OBVIOUS
<1>1. hosts[h] \in FileHost /\ hosts[h].rulesets \in Seq(Seq(Item))
  BY <1>0 DEF FileHost
<1>2. ruleset \in Seq(Item)
  BY <1>1
<1>3. /\ rulesets \in Seq(Seq(Item)) /\ Len(rulesets) = Len(hosts[h].rulesets)
      /\ \A k \in 1..Len(hosts[h].rulesets) :
           rulesets[k] = IF k = j THEN ruleset ELSE hosts[h].rulesets[k]
  BY <1>1, <1>2, ExceptSeq
<1>4. new = [hosts EXCEPT ![h] = host]
  OBVIOUS
<1> HIDE DEF rulesets, ruleset
<1>5. /\ host \in FileHost /\ host.rulesets = rulesets /\ host.settings = hosts[h].settings
      /\ host.named = hosts[h].named /\ host.default = hosts[h].default
  BY <1>1, <1>3 DEF FileHost
<1> HIDE DEF host, new
<1>6. /\ new \in Seq(FileHost) /\ Len(new) = Len(hosts)
      /\ \A i \in 1..Len(hosts) : new[i] = IF i = h THEN host ELSE hosts[i]
  BY <1>4, <1>5, ExceptSeq
<1>7. SameHosts(new, hosts)
  BY <1>5, <1>6 DEF SameHosts
<1>8. Appended(new, hosts, h, j, item)
  BY <1>3, <1>5, <1>6 DEF Appended, ruleset
<1> QED BY <1>6, <1>7, <1>8 DEF new

LEMMA OpcodeIsElement == ASSUME NEW n \in Nat PROVE AnyOpcode(n) \subseteq Element
<1>1. 2..n \subseteq Nat
  OBVIOUS
<1> QED BY <1>1 DEF AnyOpcode, Element, Item

(* The types of a ruleset.                                                 *)
LEMMA RulesetTypes ==
  ASSUME IInv, FileInv, NEW h \in Nat, NEW j \in Nat, IsRuleset(h, j)
  PROVE  /\ ItemsOf(h, j) \in Seq(Item) /\ ItemsOf(h, j) \in Seq(Element)
         /\ OpcodesOf(h, j) \in Seq(AnyOpcode(Len(scopes)))
         /\ OpcodesOf(h, j) \in Seq(Element)
         /\ h \in 1..Len(file.hosts) /\ j \in 1..Len(file.hosts[h].rulesets)
         /\ h \in 1..Len(vhosts) /\ j \in 1..Len(vhosts[h].rulesets)
<1>1. /\ h \in 1..Len(vhosts) /\ j \in 1..Len(vhosts[h].rulesets)
      /\ h \in 1..Len(file.hosts) /\ j \in 1..Len(file.hosts[h].rulesets)
  BY DEF IsRuleset, IsHost, FileInv, HostMade
<1>2. file.hosts[h] \in FileHost /\ vhosts[h] \in Host(Len(scopes)) /\ Len(scopes) \in Nat
  BY <1>1 DEF FileInv, IInv, HostInv, ScopeInv
<1>3. ItemsOf(h, j) \in Seq(Item) /\ OpcodesOf(h, j) \in Seq(AnyOpcode(Len(scopes)))
  <2>1. /\ file.hosts[h].rulesets \in Seq(Seq(Item))
        /\ vhosts[h].rulesets \in Seq(Seq(AnyOpcode(Len(scopes))))
    BY <1>2 DEF FileHost, Host
  <2>2. ItemsOf(h, j) \in Seq(Item)
    BY <1>1, <2>1 DEF ItemsOf
  <2>3. OpcodesOf(h, j) \in Seq(AnyOpcode(Len(scopes)))
    BY <1>1, <2>1 DEF OpcodesOf
  <2> QED BY <2>2, <2>3
<1>4. Item \subseteq Element
  BY DEF Element
<1>5. AnyOpcode(Len(scopes)) \subseteq Element
  BY <1>2, OpcodeIsElement
<1>6. ItemsOf(h, j) \in Seq(Element)
  BY <1>3, <1>4
<1>7. OpcodesOf(h, j) \in Seq(Element)
  BY <1>3, <1>5
<1> QED BY <1>1, <1>3, <1>6, <1>7

(* Orderly, ruleset by ruleset.                                            *)
AllFirst(hosts) ==
  \A h \in 1..Len(hosts) : \A j \in 1..Len(hosts[h].rulesets) :
    ConditionsFirst(hosts[h].rulesets[j])

LEMMA OrderlyRulesets ==
  ASSUME NEW hosts \in Seq(FileHost)
  PROVE  (\A host \in Range(hosts) : \A ruleset \in Range(host.rulesets) :
            ConditionsFirst(ruleset))
           <=> AllFirst(hosts)
<1>1. \A h \in 1..Len(hosts) : hosts[h] \in FileHost
  OBVIOUS
<1>2. \A h \in 1..Len(hosts) : hosts[h].rulesets \in Seq(Seq(Item))
  BY <1>1 DEF FileHost
<1>3. ASSUME \A host \in Range(hosts) : \A ruleset \in Range(host.rulesets) :
               ConditionsFirst(ruleset),
             NEW h \in 1..Len(hosts), NEW j \in 1..Len(hosts[h].rulesets)
      PROVE  ConditionsFirst(hosts[h].rulesets[j])
  <2>1. hosts[h] \in Range(hosts)
    BY DEF Range
  <2>2. hosts[h].rulesets[j] \in Range(hosts[h].rulesets)
    BY <1>2 DEF Range
  <2> QED BY <1>3, <2>1, <2>2
<1>4. ASSUME AllFirst(hosts), NEW host \in Range(hosts), NEW ruleset \in Range(host.rulesets)
      PROVE  ConditionsFirst(ruleset)
  <2>1. PICK h \in 1..Len(hosts) : host = hosts[h]
    BY DEF Range
  <2>2. host.rulesets \in Seq(Seq(Item)) /\ host.rulesets = hosts[h].rulesets
    BY <1>2, <2>1
  <2>3. DOMAIN host.rulesets = 1..Len(host.rulesets)
    BY <2>2
  <2>4. PICK j \in 1..Len(host.rulesets) : ruleset = host.rulesets[j]
    BY <2>3 DEF Range
  <2> QED BY <1>4, <2>1, <2>2, <2>4 DEF AllFirst
<1> QED BY <1>3, <1>4 DEF AllFirst

(* The file only grows, and disorder stays.                                *)
Grown(new, old) ==
  /\ Len(old) <= Len(new)
  /\ \A h \in 1..Len(old) :
       /\ Len(old[h].rulesets) <= Len(new[h].rulesets)
       /\ \A j \in 1..Len(old[h].rulesets) :
            \/ new[h].rulesets[j] = old[h].rulesets[j]
            \/ \E e \in Item : new[h].rulesets[j] = Append(old[h].rulesets[j], e)

LEMMA FirstBefore ==
  ASSUME NEW items \in Seq(Item), NEW e \in Item, ConditionsFirst(Append(items, e))
  PROVE  ConditionsFirst(items) /\ (e.op \in Conditions => ~HasSetting(items))
<1> DEFINE longer == Append(items, e)
<1>1. /\ DOMAIN items = 1..Len(items) /\ DOMAIN longer = 1..(Len(items) + 1)
      /\ \A i \in 1..Len(items) : longer[i] = items[i]
      /\ longer[Len(items) + 1] = e
  OBVIOUS
<1> HIDE DEF longer
<1>2. \A i, j \in 1..(Len(items) + 1) :
        i < j /\ longer[i].op = "SETTING" => longer[j].op \notin Conditions
  BY <1>1 DEF ConditionsFirst, longer
<1>3. ConditionsFirst(items)
  BY <1>1, <1>2 DEF ConditionsFirst
<1>4. ASSUME NEW k \in 1..Len(items), items[k].op = "SETTING" PROVE e.op \notin Conditions
  BY <1>1, <1>2, <1>4
<1> QED BY <1>3, <1>4 DEF HasSetting

LEMMA OrderlyBefore ==
  ASSUME file.hosts \in Seq(FileHost), file'.hosts \in Seq(FileHost),
         Grown(file'.hosts, file.hosts), Orderly'
  PROVE  Orderly /\ AllFirst(file.hosts) /\ AllFirst(file'.hosts)
<1>1. AllFirst(file'.hosts)
  BY OrderlyRulesets DEF Orderly
<1>2. ASSUME NEW h \in 1..Len(file.hosts), NEW j \in 1..Len(file.hosts[h].rulesets)
      PROVE  ConditionsFirst(file.hosts[h].rulesets[j])
  <2> DEFINE items == file.hosts[h].rulesets[j]
  <2>1. h \in 1..Len(file'.hosts) /\ j \in 1..Len(file'.hosts[h].rulesets)
    <3>1. /\ Len(file.hosts) \in Nat /\ Len(file'.hosts) \in Nat
          /\ Len(file.hosts) <= Len(file'.hosts)
      BY DEF Grown
    <3>2. h \in 1..Len(file'.hosts)
      BY <3>1
    <3>3. file.hosts[h] \in FileHost /\ file'.hosts[h] \in FileHost
      BY <3>2
    <3>4. Len(file.hosts[h].rulesets) \in Nat /\ Len(file'.hosts[h].rulesets) \in Nat
      <4>1. \A host \in FileHost : Len(host.rulesets) \in Nat
        BY DEF FileHost
      <4> QED BY <3>3, <4>1
    <3>5. Len(file.hosts[h].rulesets) <= Len(file'.hosts[h].rulesets)
      BY DEF Grown
    <3> QED BY <3>2, <3>4, <3>5
  <2>2. ConditionsFirst(file'.hosts[h].rulesets[j])
    BY <1>1, <2>1 DEF AllFirst
  <2>3. CASE file'.hosts[h].rulesets[j] = items
    BY <2>2, <2>3
  <2>4. CASE \E e \in Item : file'.hosts[h].rulesets[j] = Append(items, e)
    <3>1. items \in Seq(Item)
      <4>1. file.hosts[h] \in FileHost
        OBVIOUS
      <4>2. file.hosts[h].rulesets \in Seq(Seq(Item))
        BY <4>1 DEF FileHost
      <4> QED BY <4>2
    <3> HIDE DEF items
    <3>2. PICK e \in Item : file'.hosts[h].rulesets[j] = Append(items, e)
      BY <2>4
    <3>3. ConditionsFirst(Append(items, e))
      BY <2>2, <3>2
    <3>4. ConditionsFirst(items)
      BY <3>1, <3>3, FirstBefore
    <3> QED BY <3>4 DEF items
  <2> QED BY <2>3, <2>4 DEF Grown
<1>3. AllFirst(file.hosts)
  BY <1>2 DEF AllFirst
<1> QED BY <1>1, <1>3, OrderlyRulesets DEF Orderly
-----------------------------------------------------------------------------
(* What a step leaves alone.                                               *)

LEMMA RulesetAlone ==
  ASSUME NEW h \in Nat, NEW j \in Nat, RulesetInv(h, j),
         ItemsOf(h, j)' = ItemsOf(h, j), OpcodesOf(h, j)' = OpcodesOf(h, j),
         ItemsOf(h, j) \in Seq(Element), OpcodesOf(h, j) \in Seq(Element),
         ScopeOf(h, j)' = ScopeOf(h, j),
         ValuesIn(scopes', ScopeOf(h, j)) = ValuesIn(scopes, ScopeOf(h, j)),
         Pending(h, j)' => Pending(h, j),
         phase' \in {"load", "loaded"} /\ IsLast(h, j)' =>
           phase \in {"load", "loaded"} /\ IsLast(h, j),
         elements \in Nat, elements' \in Nat, elements <= elements'
  PROVE  RulesetInv(h, j)'
<1>1. Compiled(ItemsOf(h, j)', OpcodesOf(h, j)', ValuesIn(scopes', ScopeOf(h, j)'))
  BY DEF RulesetInv
<1>2. OpcodesInv(h, j)'
  BY DEF RulesetInv, OpcodesInv
<1>3. /\ Pending(h, j)' => HasSetting(ItemsOf(h, j)')
      /\ Len(OpcodesOf(h, j)') + (IF Pending(h, j)' THEN 1 ELSE 0) <= Len(ItemsOf(h, j)')
      /\ Len(ItemsOf(h, j)') <= elements'
  <2>1. Len(OpcodesOf(h, j)) \in Nat /\ Len(ItemsOf(h, j)) \in Nat
    OBVIOUS
  <2>2. /\ Pending(h, j) => HasSetting(ItemsOf(h, j))
        /\ Len(OpcodesOf(h, j)) + (IF Pending(h, j) THEN 1 ELSE 0) <= Len(ItemsOf(h, j))
        /\ Len(ItemsOf(h, j)) <= elements
    BY DEF RulesetInv
  <2> QED BY <2>1, <2>2
<1> QED BY <1>1, <1>2, <1>3 DEF RulesetInv, HasSetting

(* The scopes keep their owners.                                           *)
SameOwners ==
  /\ Len(scopes') = Len(scopes)
  /\ \A h \in Nat : IsHost(h)' <=> IsHost(h)
  /\ \A h \in Nat : IsHost(h) => vhosts'[h].scope = vhosts[h].scope
  /\ \A h, j \in Nat : IsRuleset(h, j) => IsRuleset(h, j)' /\ ScopeOf(h, j)' = ScopeOf(h, j)
  /\ \A h, j \in Nat : IsRuleset(h, j)' /\ ~IsRuleset(h, j) => ScopeOf(h, j)' = 0
  /\ \A h, j \in Nat : IsRuleset(h, j) /\ ScopeOf(h, j) # 0 =>
       DOMAIN scopes'[ScopeOf(h, j)] \subseteq RulesetSettings

LEMMA OwnersAlone == ASSUME OwnersInv, SameOwners PROVE OwnersInv'
<1> USE DEF SameOwners
<1>1. ASSUME NEW h \in Nat, NEW j \in Nat, IsRuleset(h, j)' PROVE ScopeOfInv(h, j)'
  <2> SUFFICES ASSUME ScopeOf(h, j)' # 0
               PROVE  /\ ScopeOf(h, j)' \in 2..Len(scopes')
                      /\ DOMAIN scopes'[ScopeOf(h, j)'] \subseteq RulesetSettings
                      /\ \A i \in Nat : IsHost(i)' => vhosts'[i].scope # ScopeOf(h, j)'
                      /\ \A i, k \in Nat : IsRuleset(i, k)' /\ ScopeOf(i, k)' = ScopeOf(h, j)'
                                             => i = h /\ k = j
    BY DEF ScopeOfInv
  <2>1. IsRuleset(h, j) /\ ScopeOf(h, j)' = ScopeOf(h, j)
    BY <1>1
  <2>2. ScopeOf(h, j) # 0 /\ ScopeOfInv(h, j)
    BY <2>1 DEF OwnersInv, ScopeOfsInv
  <2>3. /\ ScopeOf(h, j) \in 2..Len(scopes)
        /\ \A i \in Nat : IsHost(i) => vhosts[i].scope # ScopeOf(h, j)
        /\ \A i, k \in Nat : IsRuleset(i, k) /\ ScopeOf(i, k) = ScopeOf(h, j) => i = h /\ k = j
    BY <2>2 DEF ScopeOfInv
  <2>4. ASSUME NEW i \in Nat, NEW k \in Nat, IsRuleset(i, k)', ScopeOf(i, k)' = ScopeOf(h, j)'
        PROVE  i = h /\ k = j
    <3>1. IsRuleset(i, k)
      BY <2>1, <2>2, <2>4
    <3>2. ScopeOf(i, k) = ScopeOf(h, j)
      BY <2>1, <2>4, <3>1
    <3> QED BY <2>3, <3>1, <3>2
  <2> QED BY <2>1, <2>2, <2>3, <2>4
<1>2. ASSUME NEW i \in 2..Len(scopes') PROVE Owned(i)'
  <2>1. Owned(i)
    BY DEF OwnersInv
  <2> QED BY <2>1 DEF Owned
<1> QED BY <1>1, <1>2 DEF OwnersInv, ScopeOfsInv

-----------------------------------------------------------------------------
(* Steps that are not about hosts or rulesets.                             *)

(* The rulesets, and what is made of them, stay, and so do the scopes      *)
(* other than those of hosts.                                              *)
SameRulesets ==
  /\ file'.hosts \in Seq(FileHost) /\ Len(file'.hosts) = Len(file.hosts)
  /\ \A h \in Nat : IsHost(h) =>
       /\ file'.hosts[h].rulesets = file.hosts[h].rulesets
       /\ (file'.hosts[h].default <=> file.hosts[h].default)
       /\ scopes'[vhosts[h].scope] = file'.hosts[h].settings
  /\ Len(scopes') = Len(scopes)
  /\ \A i \in 2..Len(scopes) : (\A h \in Nat : IsHost(h) => vhosts[h].scope # i) =>
       scopes'[i] = scopes[i]

LEMMA RulesetsKeep ==
  ASSUME IInv, CompileInv, UNCHANGED <<vhosts, defaultHost, compiler>>, SameRulesets,
         elements' \in Nat, elements <= elements',
         place' = "rewrite" => place = "rewrite",
         phase' \in {"load", "loaded"} => phase \in {"load", "loaded"},
         phase' = "running" => phase = "running",
         phase' = "unloaded" => phase \in {"running", "unloaded"}
  PROVE  CompileInv'
<1>1. elements \in Nat
  BY DEF IInv, HostInv
<1>2. /\ \A h \in Nat : IsHost(h)' <=> IsHost(h)
      /\ \A h, j \in Nat : IsRuleset(h, j)' <=> IsRuleset(h, j)
      /\ \A h, j \in Nat : /\ OpcodesOf(h, j)' = OpcodesOf(h, j)
                           /\ (IsLast(h, j)' <=> IsLast(h, j))
                           /\ (Pending(h, j)' <=> Pending(h, j))
                           /\ ScopeOf(h, j)' = ScopeOf(h, j)
  BY DEF IsHost, IsRuleset, OpcodesOf, IsLast, Pending, ScopeOf
<1>3. ASSUME NEW h \in Nat, IsHost(h)
      PROVE  vhosts[h].scope \in 2..Len(scopes) /\ Len(vhosts[h].rulesets) \in Nat
  <2>1. vhosts[h] \in Host(Len(scopes))
    BY <1>3 DEF IsHost, IInv, HostInv
  <2> QED BY <2>1 DEF Host
<1>4. FileInv'
  <2>1. file'.hosts \in Seq(FileHost) /\ Len(file'.hosts) = Len(vhosts')
    BY DEF SameRulesets, CompileInv, FileInv
  <2>2. ASSUME NEW h \in Nat, IsHost(h)' PROVE HostMade(h)'
    <3>1. IsHost(h)
      BY <1>2, <2>2
    <3>2. /\ Len(file.hosts[h].rulesets) = Len(vhosts[h].rulesets)
          /\ Len(vhosts[h].rulesets) <= elements
      BY <3>1 DEF CompileInv, FileInv, HostMade
    <3>3. /\ file'.hosts[h].rulesets = file.hosts[h].rulesets
          /\ scopes'[vhosts[h].scope] = file'.hosts[h].settings
      BY <3>1 DEF SameRulesets
    <3> QED BY <1>1, <1>3, <3>1, <3>2, <3>3 DEF HostMade
  <2>3. \A h, i \in Nat : IsHost(h)' /\ IsHost(i)' /\ vhosts'[h].scope = vhosts'[i].scope => h = i
    BY <1>2 DEF CompileInv, FileInv
  <2> QED BY <2>1, <2>2, <2>3 DEF FileInv
<1>5. DefaultInv'
  <2>1. \A h \in Nat : IsHost(h) => (file'.hosts[h].default <=> file.hosts[h].default)
    BY DEF SameRulesets
  <2> QED BY <1>2, <2>1 DEF CompileInv, DefaultInv
<1>6. CompilerInv'
  BY <1>2 DEF CompileInv, CompilerInv, LastOf, Here, IsLast
<1>7. ASSUME Orderly' PROVE RulesetsInv' /\ OwnersInv'
  <2>1. Orderly
    <3>1. file.hosts \in Seq(FileHost) /\ Len(file.hosts) = Len(vhosts) /\ Len(vhosts) \in Nat
      BY DEF CompileInv, FileInv, IInv, HostInv
    <3>2. ASSUME NEW h \in 1..Len(file.hosts)
          PROVE  /\ file'.hosts[h].rulesets = file.hosts[h].rulesets
                 /\ Len(file.hosts[h].rulesets) \in Nat
      <4>1. h \in Nat /\ IsHost(h)
        BY <3>1 DEF IsHost
      <4>2. file.hosts[h] \in FileHost
        BY <3>1
      <4>3. Len(file.hosts[h].rulesets) \in Nat
        BY <4>2 DEF FileHost
      <4> QED BY <4>1, <4>3 DEF SameRulesets
    <3>3. ASSUME NEW h \in 1..Len(file.hosts)
          PROVE  /\ Len(file.hosts[h].rulesets) <= Len(file'.hosts[h].rulesets)
                 /\ \A j \in 1..Len(file.hosts[h].rulesets) :
                      file'.hosts[h].rulesets[j] = file.hosts[h].rulesets[j]
      BY <3>2
    <3>4. Grown(file'.hosts, file.hosts)
      <4>1. Len(file.hosts) <= Len(file'.hosts)
        BY <3>1 DEF SameRulesets
      <4> QED BY <3>1, <3>3, <4>1 DEF Grown
    <3> QED BY <1>7, <3>1, <3>4, OrderlyBefore DEF SameRulesets
  <2>2. RulesetsInv /\ OwnersInv /\ FileInv
    BY <2>1 DEF CompileInv
  <2>3. ASSUME NEW h \in Nat, NEW j \in Nat, IsRuleset(h, j)
        PROVE  ScopeOf(h, j) # 0 => /\ ScopeOf(h, j) \in 2..Len(scopes)
                                    /\ scopes'[ScopeOf(h, j)] = scopes[ScopeOf(h, j)]
                                    /\ DOMAIN scopes[ScopeOf(h, j)] \subseteq RulesetSettings
    <3>1. ScopeOf(h, j) # 0 =>
            /\ ScopeOf(h, j) \in 2..Len(scopes)
            /\ DOMAIN scopes[ScopeOf(h, j)] \subseteq RulesetSettings
            /\ \A i \in Nat : IsHost(i) => vhosts[i].scope # ScopeOf(h, j)
      BY <2>2, <2>3 DEF OwnersInv, ScopeOfsInv, ScopeOfInv
    <3> QED BY <3>1 DEF SameRulesets
  <2>4. ASSUME NEW h \in Nat, NEW j \in Nat, IsRuleset(h, j)' PROVE RulesetInv(h, j)'
    <3>1. IsRuleset(h, j) /\ RulesetInv(h, j)
      BY <1>2, <2>2, <2>4 DEF RulesetsInv
    <3>2. ItemsOf(h, j) \in Seq(Element) /\ OpcodesOf(h, j) \in Seq(Element)
      BY <2>2, <3>1, RulesetTypes
    <3>3. ValuesIn(scopes', ScopeOf(h, j)) = ValuesIn(scopes, ScopeOf(h, j))
      BY <2>3, <3>1 DEF ValuesIn
    <3>4. ItemsOf(h, j)' = ItemsOf(h, j)
      BY <3>1 DEF ItemsOf, SameRulesets, IsRuleset
    <3> QED BY <1>1, <1>2, <3>1, <3>2, <3>3, <3>4, RulesetAlone
  <2>5. SameOwners
    BY <1>2, <2>3 DEF SameOwners, SameRulesets
  <2>6. OwnersInv'
    BY <2>2, <2>5, OwnersAlone
  <2> QED BY <2>4, <2>6 DEF RulesetsInv
<1> QED BY <1>4, <1>5, <1>6, <1>7 DEF CompileInv

LEMMA SettledKeeps ==
  ASSUME IInv, CompileInv, UNCHANGED <<vhosts, defaultHost, compiler>>,
         file'.hosts = file.hosts, Len(scopes') = Len(scopes),
         \A i \in 2..Len(scopes) : scopes'[i] = scopes[i],
         elements' \in Nat, elements <= elements',
         place' = "rewrite" => place = "rewrite",
         phase' \in {"load", "loaded"} => phase \in {"load", "loaded"},
         phase' = "running" => phase = "running",
         phase' = "unloaded" => phase \in {"running", "unloaded"}
  PROVE  CompileInv'
<1>1. ASSUME NEW h \in Nat, IsHost(h) PROVE scopes'[vhosts[h].scope] = file'.hosts[h].settings
  <2>1. vhosts[h] \in Host(Len(scopes))
    BY <1>1 DEF IsHost, IInv, HostInv
  <2>2. vhosts[h].scope \in 2..Len(scopes)
    BY <2>1 DEF Host
  <2>3. scopes[vhosts[h].scope] = file.hosts[h].settings
    BY <1>1 DEF CompileInv, FileInv, HostMade
  <2> QED BY <2>2, <2>3
<1>2. SameRulesets
  BY <1>1 DEF SameRulesets, CompileInv, FileInv
<1> QED BY <1>2, RulesetsKeep
-----------------------------------------------------------------------------
(* Reading virtual hosts.                                                  *)

LEMMA InitCompile == Init => CompileInv
<1> SUFFICES ASSUME Init PROVE CompileInv
  OBVIOUS
<1>1. /\ Len(vhosts) = 0 /\ Len(file.hosts) = 0 /\ file.hosts \in Seq(FileHost)
      /\ Len(scopes) = 1 /\ ~compiler.inScope /\ place = "before" /\ phase = "load"
      /\ compiler.last = [host |-> 0, ruleset |-> 0]
  BY DEF Init, ConfigurationInit
<1>2. \A h \in Nat : ~IsHost(h)
  BY <1>1 DEF IsHost
<1>3. \A h, j \in Nat : ~IsRuleset(h, j)
  BY <1>2 DEF IsRuleset
<1>4. FileInv /\ DefaultInv /\ CompilerInv
  <2>1. FileInv
    BY <1>1, <1>2 DEF FileInv
  <2>2. DefaultInv
    BY <1>2 DEF DefaultInv
  <2>3. CompilerInv
    BY <1>1 DEF CompilerInv, Pending
  <2> QED BY <2>1, <2>2, <2>3
<1>5. RulesetsInv /\ OwnersInv
  BY <1>1, <1>3 DEF RulesetsInv, OwnersInv, ScopeOfsInv
<1> QED BY <1>4, <1>5 DEF CompileInv

LEMMA RootSettingCompile ==
  ASSUME IInv, CompileInv, NEW s \in RootSettings, RootSetting(s) PROVE CompileInv'
<1>1. PICK places : MayRead(places)
  BY DEF RootSetting
<1>2. phase = "load" /\ NewValue \in Nat /\ s \in Setting /\ elements \in Nat
  BY <1>1, Reading, Constants DEF IInv
<1>3. /\ UNCHANGED <<vhosts, defaultHost, compiler>>
      /\ scopes' = AddValue(scopes, 1, s, NewValue)
      /\ file'.hosts = file.hosts
  BY DEF RootSetting, IInv, ScopeInv
<1>4. scopes \in Seq(Scope) /\ 1 \in 1..Len(scopes)
  BY DEF IInv, ScopeInv
<1>5. Len(scopes') = Len(scopes) /\ \A i \in 2..Len(scopes) : scopes'[i] = scopes[i]
  BY <1>2, <1>3, <1>4, AddValueScopes
<1>6. elements' = elements + 1 /\ phase' = phase /\ place' # "rewrite"
  BY DEF RootSetting, Read
<1> QED BY <1>2, <1>3, <1>5, <1>6, SettledKeeps

LEMMA EndOfFileCompile == ASSUME IInv, CompileInv, EndOfFile PROVE CompileInv'
<1>1. /\ phase = "load" /\ phase' = "loaded"
      /\ UNCHANGED <<vhosts, defaultHost, compiler, file, elements, place>> /\ LoadRootScope
  BY DEF EndOfFile, loading
<1>2. PICK root : scopes' = [scopes EXCEPT ![1] = root]
  BY <1>1 DEF LoadRootScope
<1>3. scopes \in Seq(Scope) /\ elements \in Nat
  BY DEF IInv, ScopeInv, HostInv
<1>4. Len(scopes') = Len(scopes) /\ \A i \in 2..Len(scopes) : scopes'[i] = scopes[i]
  BY <1>2, <1>3
<1> QED BY <1>1, <1>3, <1>4, SettledKeeps

LEMMA HostAppended ==
  ASSUME NEW S, NEW hosts \in Seq(S), NEW host \in S
  PROVE  /\ Append(hosts, host) \in Seq(S) /\ Len(Append(hosts, host)) = Len(hosts) + 1
         /\ \A h \in 1..Len(hosts) : Append(hosts, host)[h] = hosts[h]
         /\ Append(hosts, host)[Len(hosts) + 1] = host
OBVIOUS

LEMMA EmptySeq == Len(<<>>) = 0 /\ \A S : <<>> \in Seq(S)
OBVIOUS

LEMMA VirtualHostCompile ==
  ASSUME IInv, CompileInv, NEW named \in BOOLEAN, NEW default \in BOOLEAN,
         VirtualHost(named, default)
  PROVE  CompileInv'
<1>0. PICK new \in Nat : new = Len(vhosts) + 1
  BY DEF IInv, HostInv
<1> DEFINE host == [scope |-> Len(scopes) + 1, rulesets |-> <<>>]
           read == [named |-> named, default |-> default, settings |-> Empty,
                    rulesets |-> <<>>]
<1>1. /\ phase = "load" /\ phase' = "load" /\ place' = "host" /\ elements \in Nat
      /\ elements' = elements + 1 /\ compiler' = compiler
      /\ (default => defaultHost = 0) /\ defaultHost' = IF default THEN new ELSE defaultHost
      /\ scopes' = AddScope(scopes) /\ vhosts' = Append(vhosts, host)
      /\ file'.hosts = Append(file.hosts, read)
  BY <1>0 DEF VirtualHost, Read, MayRead, Here, IInv, HostInv, ScopeInv
<1>2. /\ scopes \in Seq(Scope) /\ Len(scopes) \in Nat /\ Len(scopes) > 0
      /\ vhosts \in Seq(Host(Len(scopes)))
      /\ file.hosts \in Seq(FileHost) /\ Len(file.hosts) = Len(vhosts) /\ Len(vhosts) \in Nat
      /\ defaultHost \in 0..Len(vhosts)
  BY DEF IInv, ScopeInv, HostInv, CompileInv, FileInv
<1>3. /\ Len(scopes') = Len(scopes) + 1
      /\ \A i \in 1..Len(scopes) : scopes'[i] = scopes[i]
      /\ scopes'[Len(scopes) + 1] = Empty
  BY <1>1, <1>2, AddScopeScopes
<1>4. /\ Len(vhosts') = new /\ vhosts'[new] = host
      /\ \A h \in 1..Len(vhosts) : vhosts'[h] = vhosts[h]
  BY <1>0, <1>1, <1>2, HostAppended
<1>5. read \in FileHost
  <2>1. <<>> \in Seq(Seq(Item))
    BY EmptySeq
  <2> QED BY <2>1, EmptyScope DEF FileHost
<1>6. /\ host.scope = Len(scopes) + 1 /\ Len(host.rulesets) = 0
      /\ read.settings = Empty /\ (read.default <=> default) /\ Len(read.rulesets) = 0
  BY EmptySeq
<1> HIDE DEF host, read
<1>7. /\ file'.hosts \in Seq(FileHost) /\ Len(file'.hosts) = new /\ file'.hosts[new] = read
      /\ \A h \in 1..Len(vhosts) : file'.hosts[h] = file.hosts[h]
  BY <1>0, <1>1, <1>2, <1>5, HostAppended
<1>8. \A h \in Nat : IsHost(h)' <=> IsHost(h) \/ h = new
  BY <1>0, <1>2, <1>4 DEF IsHost
<1>9. ASSUME NEW h \in Nat, IsHost(h)
      PROVE  /\ vhosts[h].scope \in 2..Len(scopes) /\ vhosts'[h] = vhosts[h]
             /\ file'.hosts[h] = file.hosts[h] /\ HostMade(h) /\ h # new
             /\ Len(vhosts[h].rulesets) \in Nat
  <2>1. h \in 1..Len(vhosts) /\ vhosts[h] \in Host(Len(scopes))
    BY <1>0, <1>2, <1>9 DEF IsHost
  <2>2. vhosts[h].scope \in 2..Len(scopes) /\ Len(vhosts[h].rulesets) \in Nat
    BY <2>1 DEF Host
  <2>3. HostMade(h)
    BY <1>9 DEF CompileInv, FileInv
  <2> QED BY <1>0, <1>2, <1>4, <1>7, <2>1, <2>2, <2>3
<1>10. FileInv'
  <2>1. ASSUME NEW h \in Nat, IsHost(h)' PROVE HostMade(h)'
    <3>1. CASE IsHost(h)
      <4>1. scopes'[vhosts[h].scope] = scopes[vhosts[h].scope]
        BY <1>2, <1>3, <1>9, <3>1
      <4>2. /\ Len(file.hosts[h].rulesets) = Len(vhosts[h].rulesets)
            /\ Len(vhosts[h].rulesets) <= elements
            /\ scopes[vhosts[h].scope] = file.hosts[h].settings
        BY <1>9, <3>1 DEF HostMade
      <4>3. vhosts'[h] = vhosts[h] /\ file'.hosts[h] = file.hosts[h]
            /\ Len(vhosts[h].rulesets) \in Nat
        BY <1>9, <3>1
      <4>4. /\ Len(file'.hosts[h].rulesets) = Len(vhosts'[h].rulesets)
            /\ scopes'[vhosts'[h].scope] = file'.hosts[h].settings
        BY <4>1, <4>2, <4>3
      <4>5. Len(vhosts'[h].rulesets) <= elements'
        BY <1>1, <4>2, <4>3
      <4> QED BY <4>4, <4>5 DEF HostMade
    <3>2. CASE h = new
      BY <1>1, <1>3, <1>4, <1>6, <1>7, <3>2 DEF HostMade
    <3> QED BY <1>8, <2>1, <3>1, <3>2
  <2>2. ASSUME NEW h \in Nat, NEW i \in Nat, IsHost(h)', IsHost(i)',
               vhosts'[h].scope = vhosts'[i].scope
        PROVE  h = i
    <3>1. CASE IsHost(h) /\ IsHost(i)
      BY <1>9, <2>2, <3>1 DEF CompileInv, FileInv
    <3>2. CASE IsHost(h) /\ i = new
      BY <1>2, <1>4, <1>6, <1>9, <2>2, <3>2
    <3>3. CASE h = new /\ IsHost(i)
      BY <1>2, <1>4, <1>6, <1>9, <2>2, <3>3
    <3> QED BY <1>8, <2>2, <3>1, <3>2, <3>3
  <2> QED BY <1>4, <1>7, <2>1, <2>2 DEF FileInv
<1>11. DefaultInv'
  <2> SUFFICES ASSUME NEW h \in Nat, IsHost(h)'
               PROVE  (file'.hosts[h].default <=> h = defaultHost')
    BY DEF DefaultInv
  <2>1. CASE IsHost(h)
    <3>1. (file.hosts[h].default <=> h = defaultHost)
      BY <1>1, <2>1 DEF CompileInv, DefaultInv
    <3>2. h # 0
      BY <2>1 DEF IsHost
    <3> QED BY <1>1, <1>9, <2>1, <3>1, <3>2
  <2>2. CASE h = new
    <3>1. (file'.hosts[h].default <=> default)
      BY <1>6, <1>7, <2>2
    <3>2. defaultHost # new
      BY <1>0, <1>2
    <3> QED BY <1>1, <2>2, <3>1, <3>2
  <2> QED BY <1>8, <2>1, <2>2
<1>12. \A h, j \in Nat : IsRuleset(h, j)' <=> IsRuleset(h, j)
  <2> SUFFICES ASSUME NEW h \in Nat, NEW j \in Nat PROVE IsRuleset(h, j)' <=> IsRuleset(h, j)
    OBVIOUS
  <2>1. CASE IsHost(h)
    BY <1>8, <1>9, <2>1 DEF IsRuleset
  <2>2. CASE ~IsHost(h)
    <3>1. h = new => Len(vhosts'[h].rulesets) = 0
      BY <1>4, <1>6
    <3> QED BY <1>8, <2>2, <3>1 DEF IsRuleset
  <2> QED BY <2>1, <2>2
<1>13. CompilerInv'
  <2>1. CompilerInv /\ compiler.last.host \in Nat /\ compiler.last.ruleset \in Nat
    BY DEF CompileInv, CompilerInv
  <2>2. \A h, j \in Nat : Pending(h, j)' => IsRuleset(h, j)'
    BY <1>1, <1>12, <2>1 DEF CompilerInv, Pending, IsLast
  <2>3. compiler.inScope => compiler.scope \in 2..Len(scopes)
    BY DEF IInv, HostInv
  <2>4. ASSUME compiler'.inScope, NEW h \in Nat, IsHost(h)'
        PROVE  vhosts'[h].scope # compiler'.scope
    <3>1. CASE IsHost(h)
      <4>1. vhosts[h].scope # compiler.scope
        BY <1>1, <2>1, <2>4, <3>1 DEF CompilerInv
      <4> QED BY <1>1, <1>9, <3>1, <4>1
    <3>2. CASE h = new
      BY <1>1, <1>2, <1>4, <1>6, <2>3, <2>4, <3>2
    <3> QED BY <1>8, <2>4, <3>1, <3>2
  <2> QED BY <1>1, <2>1, <2>2, <2>4 DEF CompilerInv
<1>14. ASSUME Orderly' PROVE RulesetsInv' /\ OwnersInv'
  <2>1. Orderly
    <3>1. Grown(file'.hosts, file.hosts)
      <4>1. \A h \in 1..Len(file.hosts) : file'.hosts[h] = file.hosts[h]
        BY <1>2, <1>7
      <4>2. \A h \in 1..Len(file.hosts) : Len(file.hosts[h].rulesets) \in Nat
        <5>1. \A h \in 1..Len(file.hosts) : file.hosts[h] \in FileHost
          BY <1>2
        <5> QED BY <5>1 DEF FileHost
      <4>3. Len(file.hosts) <= Len(file'.hosts)
        BY <1>0, <1>2, <1>7
      <4>4. ASSUME NEW h \in 1..Len(file.hosts)
            PROVE  /\ Len(file.hosts[h].rulesets) <= Len(file'.hosts[h].rulesets)
                   /\ \A j \in 1..Len(file.hosts[h].rulesets) :
                        file'.hosts[h].rulesets[j] = file.hosts[h].rulesets[j]
        BY <4>1, <4>2
      <4> QED BY <4>3, <4>4 DEF Grown
    <3> QED BY <1>2, <1>7, <1>14, <3>1, OrderlyBefore
  <2>2. RulesetsInv /\ OwnersInv /\ FileInv
    BY <2>1 DEF CompileInv
  <2>3. ASSUME NEW h \in Nat, NEW j \in Nat, IsRuleset(h, j)
        PROVE  /\ ItemsOf(h, j)' = ItemsOf(h, j) /\ OpcodesOf(h, j)' = OpcodesOf(h, j)
               /\ (IsLast(h, j)' <=> IsLast(h, j)) /\ (Pending(h, j)' <=> Pending(h, j))
               /\ ScopeOf(h, j)' = ScopeOf(h, j) /\ RulesetInv(h, j) /\ ScopeOfInv(h, j)
    <3>1. IsHost(h)
      BY <2>3 DEF IsRuleset
    <3>2. ItemsOf(h, j)' = ItemsOf(h, j) /\ OpcodesOf(h, j)' = OpcodesOf(h, j)
      BY <1>9, <3>1 DEF ItemsOf, OpcodesOf
    <3>3. (IsLast(h, j)' <=> IsLast(h, j)) /\ (Pending(h, j)' <=> Pending(h, j))
      BY <1>1 DEF IsLast, Pending
    <3> QED BY <1>1, <2>2, <2>3, <3>2, <3>3 DEF ScopeOf, RulesetsInv, OwnersInv, ScopeOfsInv
  <2>4. ASSUME NEW h \in Nat, NEW j \in Nat, IsRuleset(h, j)
        PROVE  ScopeOf(h, j) # 0 => /\ ScopeOf(h, j) \in 2..Len(scopes)
                                    /\ scopes'[ScopeOf(h, j)] = scopes[ScopeOf(h, j)]
    <3>1. ScopeOfInv(h, j)
      BY <2>3, <2>4
    <3>2. ScopeOf(h, j) # 0 => ScopeOf(h, j) \in 2..Len(scopes)
      BY <3>1 DEF ScopeOfInv
    <3> QED BY <1>2, <1>3, <3>2
  <2>5. ASSUME NEW h \in Nat, NEW j \in Nat, IsRuleset(h, j)' PROVE RulesetInv(h, j)'
    <3>1. IsRuleset(h, j)
      BY <1>12, <2>5
    <3>2. ItemsOf(h, j) \in Seq(Element) /\ OpcodesOf(h, j) \in Seq(Element)
      BY <2>2, <3>1, RulesetTypes
    <3>3. ValuesIn(scopes', ScopeOf(h, j)) = ValuesIn(scopes, ScopeOf(h, j))
      BY <2>4, <3>1 DEF ValuesIn
    <3> QED BY <1>1, <2>3, <3>1, <3>2, <3>3, RulesetAlone
  <2>6. ScopeOfsInv'
    <3> SUFFICES ASSUME NEW h \in Nat, NEW j \in Nat, IsRuleset(h, j)', ScopeOf(h, j)' # 0
                 PROVE  /\ ScopeOf(h, j)' \in 2..Len(scopes')
                        /\ DOMAIN scopes'[ScopeOf(h, j)'] \subseteq RulesetSettings
                        /\ \A i \in Nat : IsHost(i)' => vhosts'[i].scope # ScopeOf(h, j)'
                        /\ \A i, k \in Nat :
                             IsRuleset(i, k)' /\ ScopeOf(i, k)' = ScopeOf(h, j)' => i = h /\ k = j
      BY DEF ScopeOfsInv, ScopeOfInv
    <3>1. IsRuleset(h, j) /\ ScopeOf(h, j)' = ScopeOf(h, j) /\ ScopeOf(h, j) # 0
          /\ ScopeOfInv(h, j)
      BY <1>12, <2>3
    <3>2. /\ ScopeOf(h, j) \in 2..Len(scopes) /\ scopes'[ScopeOf(h, j)] = scopes[ScopeOf(h, j)]
          /\ DOMAIN scopes[ScopeOf(h, j)] \subseteq RulesetSettings
          /\ \A i \in Nat : IsHost(i) => vhosts[i].scope # ScopeOf(h, j)
      BY <2>4, <3>1 DEF ScopeOfInv
    <3>3. \A i, k \in Nat : IsRuleset(i, k) /\ ScopeOf(i, k) = ScopeOf(h, j) => i = h /\ k = j
      BY <3>1 DEF ScopeOfInv
    <3>4. \A i, k \in Nat : IsRuleset(i, k)' /\ ScopeOf(i, k)' = ScopeOf(h, j)' => i = h /\ k = j
      BY <1>12, <2>3, <3>1, <3>3
    <3>5. ASSUME NEW i \in Nat, IsHost(i)' PROVE vhosts'[i].scope # ScopeOf(h, j)
      <4>1. CASE IsHost(i)
        BY <1>9, <3>2, <4>1
      <4>2. CASE i = new
        BY <1>2, <1>4, <1>6, <3>2, <4>2
      <4> QED BY <1>8, <3>5, <4>1, <4>2
    <3>6. ScopeOf(h, j) \in 2..Len(scopes')
      BY <1>2, <1>3, <3>2
    <3> QED BY <3>1, <3>2, <3>4, <3>5, <3>6
  <2>7. ASSUME NEW i \in 2..Len(scopes') PROVE Owned(i)'
    <3>1. CASE i \in 2..Len(scopes)
      <4>1. Owned(i)
        BY <2>2, <3>1 DEF OwnersInv
      <4>2. ASSUME NEW h \in Nat, IsHost(h), vhosts[h].scope = i
            PROVE  IsHost(h)' /\ vhosts'[h].scope = i
        BY <1>8, <1>9, <4>2
      <4>3. ASSUME NEW h \in Nat, NEW j \in Nat, IsRuleset(h, j), ScopeOf(h, j) = i
            PROVE  IsRuleset(h, j)' /\ ScopeOf(h, j)' = i
        BY <1>12, <2>3, <4>3
      <4> QED BY <4>1, <4>2, <4>3 DEF Owned
    <3>2. CASE i = Len(scopes) + 1
      <4>1. new \in Nat /\ IsHost(new)' /\ vhosts'[new].scope = i
        BY <1>2, <1>4, <1>6, <1>8, <3>2
      <4> QED BY <4>1 DEF Owned
    <3> QED BY <1>2, <1>3, <3>1, <3>2
  <2> QED BY <2>5, <2>6, <2>7 DEF RulesetsInv, OwnersInv
<1> QED BY <1>10, <1>11, <1>13, <1>14 DEF CompileInv
-----------------------------------------------------------------------------
(* Reading what is in a virtual host.                                      *)

InHost == place \in {"host", "rewrite", "hostAgain"}

LEMMA HereIsHost ==
  ASSUME IInv, InHost
  PROVE  /\ Here \in Nat /\ IsHost(Here) /\ Here \in 1..Len(vhosts)
         /\ vhosts[Here].scope \in 2..Len(scopes)
<1>1. vhosts # <<>> /\ vhosts \in Seq(Host(Len(scopes)))
  BY DEF InHost, IInv, HostInv, PlaceInv
<1>2. Len(vhosts) > 0 /\ Len(vhosts) \in Nat
  BY <1>1
<1>3. PICK h \in 1..Len(vhosts) : h = Here
  BY <1>2 DEF Here
<1>4. vhosts[h] \in Host(Len(scopes))
  BY <1>1, <1>3
<1>5. vhosts[h].scope \in 2..Len(scopes)
  BY <1>4 DEF Host
<1> QED BY <1>2, <1>3, <1>5 DEF IsHost

LEMMA VirtualHostSettingCompile ==
  ASSUME IInv, CompileInv, NEW s \in VirtualHostSettings, VirtualHostSetting(s)
  PROVE  CompileInv'
<1>1. /\ phase = "load" /\ InHost
      /\ NewValue \in Nat /\ s \in Setting /\ elements \in Nat
  <2>1. PICK places : MayRead(places) /\ places = {"host", "rewrite", "hostAgain"}
    BY DEF VirtualHostSetting
  <2> QED BY <2>1, Reading, RewriteAssumption DEF InHost, IInv
<1>2. PICK h \in Nat : h = Here
  BY <1>1, HereIsHost
<1>3. /\ IsHost(h) /\ h \in 1..Len(vhosts) /\ vhosts[h].scope \in 2..Len(scopes)
      /\ scopes \in Seq(Scope) /\ Len(scopes) \in Nat
      /\ file.hosts \in Seq(FileHost) /\ Len(file.hosts) = Len(vhosts)
      /\ scopes[vhosts[h].scope] = file.hosts[h].settings
  <2>1. IsHost(h) /\ h \in 1..Len(vhosts) /\ vhosts[h].scope \in 2..Len(scopes)
    BY <1>1, <1>2, HereIsHost
  <2>2. HostMade(h)
    BY <2>1 DEF CompileInv, FileInv
  <2>3. scopes \in Seq(Scope) /\ file.hosts \in Seq(FileHost) /\ Len(file.hosts) = Len(vhosts)
    BY DEF IInv, ScopeInv, CompileInv, FileInv
  <2> QED BY <2>1, <2>2, <2>3 DEF HostMade
<1>4. PICK settings : settings = With(file.hosts[h].settings, s, NewValue)
  OBVIOUS
<1>5. PICK read : read = [file.hosts[h] EXCEPT !.settings = settings]
  OBVIOUS
<1>6. /\ UNCHANGED <<vhosts, defaultHost, compiler, phase>>
      /\ elements' = elements + 1 /\ place' # "rewrite"
      /\ scopes' = AddValue(scopes, vhosts[h].scope, s, NewValue)
      /\ file'.hosts = [file.hosts EXCEPT ![h] = read]
  BY <1>2, <1>4, <1>5 DEF VirtualHostSetting, Read, IInv, ScopeInv
<1>7. /\ Len(scopes') = Len(scopes)
      /\ \A i \in 1..Len(scopes) : scopes'[i] = IF i = vhosts[h].scope THEN settings ELSE scopes[i]
  <2>1. PICK sc \in 1..Len(scopes) : sc = vhosts[h].scope
    BY <1>3
  <2>2. PICK v \in Nat : v = NewValue
    BY <1>1
  <2>3. scopes' = AddValue(scopes, sc, s, v) /\ settings = With(scopes[sc], s, v)
    BY <1>3, <1>4, <1>6, <2>1, <2>2
  <2>4. /\ Len(AddValue(scopes, sc, s, v)) = Len(scopes)
        /\ \A i \in 1..Len(scopes) :
             AddValue(scopes, sc, s, v)[i] = IF i = sc THEN With(scopes[sc], s, v) ELSE scopes[i]
    BY <1>1, <1>3, AddValueScopes
  <2> QED BY <2>1, <2>3, <2>4
<1>8. /\ read \in FileHost /\ read.settings = settings
      /\ read.rulesets = file.hosts[h].rulesets /\ (read.default <=> file.hosts[h].default)
  <2>1. file.hosts[h] \in FileHost
    BY <1>3
  <2>2. file.hosts[h].settings \in Scope
    BY <2>1 DEF FileHost
  <2>3. settings \in Scope
    BY <1>1, <1>4, <2>2, WithScope
  <2> QED BY <1>5, <2>1, <2>3 DEF FileHost
<1>9. /\ file'.hosts \in Seq(FileHost) /\ Len(file'.hosts) = Len(file.hosts)
      /\ \A i \in 1..Len(vhosts) : file'.hosts[i] = IF i = h THEN read ELSE file.hosts[i]
  BY <1>3, <1>6, <1>8, ExceptSeq
<1>10. ASSUME NEW i \in Nat, IsHost(i)
       PROVE  /\ file'.hosts[i].rulesets = file.hosts[i].rulesets
              /\ (file'.hosts[i].default <=> file.hosts[i].default)
              /\ scopes'[vhosts[i].scope] = file'.hosts[i].settings
  <2>1. i \in 1..Len(vhosts) /\ vhosts[i] \in Host(Len(scopes))
    BY <1>10 DEF IsHost, IInv, HostInv
  <2>2. vhosts[i].scope \in 2..Len(scopes)
    BY <2>1 DEF Host
  <2>3. CASE i = h
    BY <1>3, <1>7, <1>8, <1>9, <2>1, <2>2, <2>3
  <2>4. CASE i # h
    <3>1. vhosts[i].scope # vhosts[h].scope
      BY <1>3, <1>10, <2>4 DEF CompileInv, FileInv
    <3>2. scopes[vhosts[i].scope] = file.hosts[i].settings
      BY <1>10 DEF CompileInv, FileInv, HostMade
    <3> QED BY <1>3, <1>7, <1>9, <2>1, <2>2, <2>4, <3>1, <3>2
  <2> QED BY <2>3, <2>4
<1>11. SameRulesets
  <2>1. ASSUME NEW i \in 2..Len(scopes), \A k \in Nat : IsHost(k) => vhosts[k].scope # i
        PROVE  scopes'[i] = scopes[i]
    <3>1. vhosts[h].scope # i
      BY <1>3, <2>1
    <3> QED BY <1>3, <1>7, <3>1
  <2> QED BY <1>7, <1>9, <1>10, <2>1 DEF SameRulesets
<1>12. elements' \in Nat /\ elements <= elements'
  BY <1>1, <1>6
<1> QED BY <1>1, <1>6, <1>11, <1>12, RulesetsKeep
-----------------------------------------------------------------------------
(* Flushing: an opcode that activates the pending scope.                   *)

Activation == Opcode("ACTIVATE_SCOPE", "", compiler.scope)
Flush(h, j) ==
  IF Pending(h, j) THEN Append(OpcodesOf(h, j), Activation) ELSE OpcodesOf(h, j)

LEMMA ActivatedLast ==
  ASSUME NEW S, NEW opcodes \in Seq(S), NEW o \in S
  PROVE  /\ Activated(Append(opcodes, o)) = IF o.op = "ACTIVATE_SCOPE" THEN o.value ELSE 0
         /\ Len(Append(opcodes, o)) = Len(opcodes) + 1
         /\ Append(opcodes, o)[Len(opcodes) + 1] = o
         /\ \A k \in 1..Len(opcodes) : Append(opcodes, o)[k] = opcodes[k]
<1>1. PICK new : new = Append(opcodes, o)
  OBVIOUS
<1>2. /\ Len(new) = Len(opcodes) + 1 /\ Len(opcodes) \in Nat /\ new[Len(opcodes) + 1] = o
      /\ \A k \in 1..Len(opcodes) : new[k] = opcodes[k]
  BY <1>1
<1>3. new[Len(new)] = o /\ Len(new) > 0
  BY <1>2
<1>4. Activated(new) = IF o.op = "ACTIVATE_SCOPE" THEN o.value ELSE 0
  BY <1>3 DEF Activated, Activating
<1> QED BY <1>1, <1>2, <1>4

LEMMA FlushedRulesets ==
  ASSUME IInv, CompilerInv
  PROVE  /\ Flushed \in Seq(Host(Len(scopes))) /\ Len(Flushed) = Len(vhosts)
         /\ \A h \in Nat : IsHost(h) => /\ Flushed[h].scope = vhosts[h].scope
                                        /\ Len(Flushed[h].rulesets) = Len(vhosts[h].rulesets)
         /\ \A h, j \in Nat : IsRuleset(h, j) => Flushed[h].rulesets[j] = Flush(h, j)
<1>1. Flushed \in Seq(Host(Len(scopes))) /\ Len(Flushed) = Len(vhosts)
  BY FlushedHosts DEF IInv
<1>2. CASE ~compiler.inScope
  <2>1. Flushed = vhosts
    BY <1>2 DEF Flushed
  <2>2. \A h, j \in Nat : Flush(h, j) = OpcodesOf(h, j)
    BY <1>2 DEF Flush, Pending
  <2> QED BY <1>1, <2>1, <2>2 DEF OpcodesOf
<1>3. CASE compiler.inScope
  <2>1. PICK h \in Nat, j \in Nat : h = compiler.last.host /\ j = compiler.last.ruleset
    BY DEF CompilerInv
  <2>2. Pending(h, j) /\ \A i, k \in Nat : (Pending(i, k) <=> i = h /\ k = j)
    BY <1>3, <2>1 DEF Pending, IsLast
  <2>3. IsRuleset(h, j)
    BY <2>2 DEF CompilerInv
  <2>4. h \in 1..Len(vhosts) /\ j \in 1..Len(vhosts[h].rulesets)
    BY <2>3 DEF IsRuleset, IsHost
  <2>0. PICK n \in Nat : n = Len(scopes)
    BY DEF IInv, ScopeInv
  <2>5. PICK act \in AnyOpcode(n) : act = Activation
    BY <1>3, <2>0 DEF Activation, Opcode, AnyOpcode, IInv, HostInv
  <2>11. PICK at : at = compiler.last
    OBVIOUS
  <2>6. vhosts \in Seq(Host(n))
    BY <2>0 DEF IInv, HostInv
  <2>7. Flushed = MakeOpcode(vhosts, at, act)
    BY <1>3, <2>5, <2>11 DEF Flushed, Activation
  <2>8. Appended(Flushed, vhosts, h, j, act) /\ SameScopes(Flushed, vhosts)
    BY <2>1, <2>4, <2>6, <2>7, <2>11, OpcodeAppended
  <2>9. ASSUME NEW i \in Nat, IsHost(i)
        PROVE  /\ Flushed[i].scope = vhosts[i].scope
               /\ Len(Flushed[i].rulesets) = Len(vhosts[i].rulesets)
    BY <2>8, <2>9 DEF Appended, SameScopes, IsHost
  <2>10. ASSUME NEW i \in Nat, NEW k \in Nat, IsRuleset(i, k)
         PROVE  Flushed[i].rulesets[k] = Flush(i, k)
    <3>1. Flushed[i].rulesets[k] = IF i = h /\ k = j THEN Append(vhosts[i].rulesets[k], act)
                                   ELSE vhosts[i].rulesets[k]
      BY <2>8, <2>10 DEF Appended, IsRuleset, IsHost
    <3> QED BY <2>2, <2>5, <3>1 DEF Flush, OpcodesOf
  <2> QED BY <1>1, <2>9, <2>10
<1> QED BY <1>2, <1>3

(* A ruleset that is finished.                                             *)
LEMMA RulesetFlushed ==
  ASSUME IInv, FileInv, NEW h \in Nat, NEW j \in Nat, IsRuleset(h, j), RulesetInv(h, j),
         phase \in {"load", "loaded"}, phase' \in {"load", "loaded"} => ~IsLast(h, j)',
         ItemsOf(h, j)' = ItemsOf(h, j), OpcodesOf(h, j)' = Flush(h, j),
         scopes' = scopes, ~compiler'.inScope, elements' \in Nat, elements <= elements'
  PROVE  RulesetInv(h, j)' /\ ScopeOf(h, j)' = ScopeOf(h, j)
<1>1. elements \in Nat /\ ~Pending(h, j)'
  BY DEF IInv, HostInv, Pending
<1>2. /\ Compiled(ItemsOf(h, j), OpcodesOf(h, j), ValuesIn(scopes, ScopeOf(h, j)))
      /\ OpcodesInv(h, j)
      /\ Len(OpcodesOf(h, j)) + (IF Pending(h, j) THEN 1 ELSE 0) <= Len(ItemsOf(h, j))
      /\ Len(ItemsOf(h, j)) <= elements
  BY DEF RulesetInv
<1>3. PICK n \in Nat : n = Len(scopes)
  BY DEF IInv, ScopeInv
<1>4. PICK items \in Seq(Element), opcodes \in Seq(Element) :
        items = ItemsOf(h, j) /\ opcodes = OpcodesOf(h, j)
  BY RulesetTypes
<1>5. Len(items) \in Nat /\ Len(opcodes) \in Nat
  OBVIOUS
<1>6. /\ Compiled(items, Flush(h, j), ValuesIn(scopes, ScopeOf(h, j)))
      /\ Len(Flush(h, j)) <= Len(items)
      /\ Activated(Flush(h, j)) = ScopeOf(h, j)
      /\ \A k \in 1..Len(Flush(h, j)) :
           Flush(h, j)[k].op = "ACTIVATE_SCOPE" => k = Len(Flush(h, j))
  <2>1. CASE Pending(h, j)
    <3>1. PICK act \in Element : act = Activation
      <4>1. Activation \in AnyOpcode(n)
        BY <1>3, <2>1 DEF Activation, Opcode, AnyOpcode, IInv, HostInv, Pending
      <4> QED BY <4>1, OpcodeIsElement
    <3>2. act.op = "ACTIVATE_SCOPE" /\ act.value = compiler.scope
      BY <3>1 DEF Activation, Opcode
    <3>3. Flush(h, j) = Append(opcodes, act)
      BY <1>4, <2>1, <3>1 DEF Flush
    <3>4. Compiled(items, Append(opcodes, act), ValuesIn(scopes, ScopeOf(h, j)))
      BY <1>2, <1>4, <3>2, CompiledFlush
    <3>5. PICK new : new = Append(opcodes, act)
      OBVIOUS
    <3>6. /\ Activated(new) = compiler.scope /\ Len(new) = Len(opcodes) + 1
          /\ new[Len(opcodes) + 1] = act
          /\ \A k \in 1..Len(opcodes) : new[k] = opcodes[k]
      BY <3>2, <3>5, ActivatedLast
    <3>7. \A k \in 1..Len(opcodes) : opcodes[k].op # "ACTIVATE_SCOPE"
      BY <1>2, <1>4, <2>1 DEF OpcodesInv, Pending
    <3>8. \A k \in 1..Len(new) : new[k].op = "ACTIVATE_SCOPE" => k = Len(new)
      BY <1>5, <3>6, <3>7
    <3>9. ScopeOf(h, j) = compiler.scope
      BY <2>1 DEF ScopeOf
    <3>10. Len(new) <= Len(items)
      BY <1>2, <1>4, <2>1, <3>6
    <3> QED BY <3>3, <3>4, <3>5, <3>6, <3>8, <3>9, <3>10
  <2>2. CASE ~Pending(h, j)
    <3>1. Flush(h, j) = opcodes /\ ScopeOf(h, j) = Activated(opcodes)
      BY <1>4, <2>2 DEF Flush, ScopeOf
    <3>2. Len(opcodes) <= Len(items)
      BY <1>2, <1>4, <1>5, <2>2
    <3>3. \A k \in 1..Len(opcodes) : opcodes[k].op = "ACTIVATE_SCOPE" => k = Len(opcodes)
      BY <1>2, <1>4 DEF OpcodesInv
    <3>4. Compiled(items, opcodes, ValuesIn(scopes, ScopeOf(h, j)))
      BY <1>2, <1>4
    <3> QED BY <3>1, <3>2, <3>3, <3>4
  <2> QED BY <2>1, <2>2
<1>7. ScopeOf(h, j)' = ScopeOf(h, j)
  BY <1>1, <1>6 DEF ScopeOf
<1>8. Compiled(ItemsOf(h, j)', OpcodesOf(h, j)', ValuesIn(scopes', ScopeOf(h, j)'))
  BY <1>4, <1>6, <1>7
<1>9. OpcodesInv(h, j)'
  BY <1>6 DEF OpcodesInv
<1>10. Len(OpcodesOf(h, j)') + (IF Pending(h, j)' THEN 1 ELSE 0) <= Len(ItemsOf(h, j)')
       /\ Len(ItemsOf(h, j)') <= elements'
  <2>1. Len(OpcodesOf(h, j)') <= Len(items) /\ Len(OpcodesOf(h, j)') \in Nat
    <3>1. Len(Flush(h, j)) \in Nat
      <4>1. CASE Pending(h, j)
        <5>1. Flush(h, j) = Append(opcodes, Activation)
          BY <1>4, <4>1 DEF Flush
        <5> QED BY <1>5, <5>1
      <4>2. CASE ~Pending(h, j)
        BY <1>4, <1>5, <4>2 DEF Flush
      <4> QED BY <4>1, <4>2
    <3> QED BY <1>6, <3>1
  <2> QED BY <1>1, <1>2, <1>4, <1>5, <2>1
<1> QED BY <1>1, <1>7, <1>8, <1>9, <1>10 DEF RulesetInv

LEMMA CheckCompile == ASSUME IInv, CompileInv, CheckConfiguration PROVE CompileInv'
<1>1. /\ phase = "loaded" /\ phase' = "running" /\ vhosts' = Flushed /\ ~compiler'.inScope
      /\ compiler'.last = compiler.last /\ defaultHost' = DefaultFound
      /\ UNCHANGED <<scopes, file, elements, place>>
      /\ FileInv /\ CompilerInv /\ elements \in Nat
  BY DEF CheckConfiguration, configurationVars, CompileInv, IInv, HostInv
<1>2. /\ Len(vhosts') = Len(vhosts)
      /\ \A h \in Nat : IsHost(h) => /\ vhosts'[h].scope = vhosts[h].scope
                                     /\ Len(vhosts'[h].rulesets) = Len(vhosts[h].rulesets)
      /\ \A h, j \in Nat : IsRuleset(h, j) => OpcodesOf(h, j)' = Flush(h, j)
  BY <1>1, FlushedRulesets DEF OpcodesOf
<1>3. /\ \A h \in Nat : IsHost(h)' <=> IsHost(h)
      /\ \A h, j \in Nat : IsRuleset(h, j)' <=> IsRuleset(h, j)
      /\ \A h, j \in Nat : ItemsOf(h, j)' = ItemsOf(h, j)
  <2>1. \A h \in Nat : IsHost(h)' <=> IsHost(h)
    BY <1>2 DEF IsHost
  <2> QED BY <1>1, <1>2, <2>1 DEF IsRuleset, ItemsOf
<1>4. FileInv'
  <2>1. ASSUME NEW h \in Nat, IsHost(h)' PROVE HostMade(h)'
    <3>1. IsHost(h) /\ HostMade(h)
      BY <1>1, <1>3, <2>1 DEF FileInv
    <3> QED BY <1>1, <1>2, <3>1 DEF HostMade
  <2>2. \A h, i \in Nat : IsHost(h)' /\ IsHost(i)' /\ vhosts'[h].scope = vhosts'[i].scope => h = i
    BY <1>1, <1>2, <1>3 DEF FileInv
  <2> QED BY <1>1, <1>2, <2>1, <2>2 DEF FileInv
<1>5. DefaultInv'
  <2>1. Len(vhosts) > 1 => defaultHost' = defaultHost
    <3>1. Len(vhosts) \in Nat
      BY DEF IInv, HostInv
    <3>2. Len(vhosts) > 1 => Len(vhosts) # 1
      BY <3>1
    <3> QED BY <1>1, <3>2 DEF DefaultFound
  <2>2. \A h \in Nat : IsHost(h) => (file.hosts[h].default <=> h = defaultHost)
    BY <1>1 DEF CompileInv, DefaultInv
  <2> QED BY <1>1, <1>2, <1>3, <2>1, <2>2 DEF DefaultInv
<1>6. CompilerInv'
  <2>1. compiler'.last \in [host : Nat, ruleset : Nat]
    BY <1>1 DEF CompilerInv
  <2>2. place = "rewrite" => LastOf(Here)' > 0 /\ IsLast(Here, LastOf(Here))'
    <3>1. SUFFICES ASSUME place = "rewrite"
                   PROVE  LastOf(Here)' > 0 /\ IsLast(Here, LastOf(Here))'
      OBVIOUS
    <3>2. LastOf(Here) > 0 /\ IsLast(Here, LastOf(Here))
      BY <1>1, <3>1 DEF CompilerInv
    <3>3. Here \in Nat /\ IsHost(Here)
      <4>1. InHost
        BY <3>1 DEF InHost
      <4> QED BY <4>1, HereIsHost
    <3>4. Here' = Here /\ LastOf(Here)' = LastOf(Here)
      BY <1>2, <3>3 DEF Here, LastOf
    <3> QED BY <1>1, <3>2, <3>4 DEF IsLast
  <2> QED BY <1>1, <2>1, <2>2 DEF CompilerInv, Pending
<1>7. ASSUME Orderly' PROVE RulesetsInv' /\ OwnersInv'
  <2>1. Orderly
    BY <1>1, <1>7 DEF Orderly
  <2>2. RulesetsInv /\ OwnersInv
    BY <2>1 DEF CompileInv
  <2>3. ASSUME NEW h \in Nat, NEW j \in Nat, IsRuleset(h, j)
        PROVE  RulesetInv(h, j)' /\ ScopeOf(h, j)' = ScopeOf(h, j)
    <3>1. RulesetInv(h, j)
      BY <2>2, <2>3 DEF RulesetsInv
    <3>2. elements' \in Nat /\ elements <= elements'
      BY <1>1
    <3>3. OpcodesOf(h, j)' = Flush(h, j) /\ ItemsOf(h, j)' = ItemsOf(h, j)
      BY <1>2, <1>3, <2>3
    <3>4. /\ phase \in {"load", "loaded"} /\ phase' \notin {"load", "loaded"}
          /\ scopes' = scopes /\ ~compiler'.inScope /\ FileInv
      BY <1>1
    <3> QED BY <2>3, <3>1, <3>2, <3>3, <3>4, RulesetFlushed
  <2>4. SameOwners
    <3>1. \A h, j \in Nat : IsRuleset(h, j) => IsRuleset(h, j)' /\ ScopeOf(h, j)' = ScopeOf(h, j)
      BY <1>3, <2>3
    <3>2. \A h, j \in Nat : IsRuleset(h, j) /\ ScopeOf(h, j) # 0 =>
            DOMAIN scopes'[ScopeOf(h, j)] \subseteq RulesetSettings
      BY <1>1, <2>2 DEF OwnersInv, ScopeOfsInv, ScopeOfInv
    <3> QED BY <1>1, <1>2, <1>3, <3>1, <3>2 DEF SameOwners
  <2>5. OwnersInv'
    BY <2>2, <2>4, OwnersAlone
  <2>6. RulesetsInv'
    BY <1>3, <2>3 DEF RulesetsInv
  <2> QED BY <2>5, <2>6
<1> QED BY <1>4, <1>5, <1>6, <1>7 DEF CompileInv

LEMMA RulesetCompile == ASSUME IInv, CompileInv, Ruleset PROVE CompileInv'
<1>0. /\ vhosts' = [Flushed EXCEPT ![Here].rulesets = Append(@, <<>>)]
      /\ file'.hosts = [file.hosts EXCEPT ![Here].rulesets = Append(@, <<>>)]
  BY DEF Ruleset, IInv, ScopeInv
<1>1. /\ phase = "load" /\ phase' = "load" /\ InHost
      /\ place' = "rewrite" /\ elements' = elements + 1 /\ elements \in Nat
      /\ ~compiler'.inScope
      /\ compiler'.last = [host |-> Here, ruleset |-> LastOf(Here) + 1]
      /\ UNCHANGED <<scopes, defaultHost>>
  <2>1. /\ MayRead({"host", "rewrite"}) /\ Read("rewrite")
        /\ compiler' = [compiler EXCEPT !.inScope = FALSE,
                          !.last = [host |-> Here, ruleset |-> LastOf(Here) + 1]]
        /\ UNCHANGED <<scopes, defaultHost>>
    BY DEF Ruleset
  <2>2. DOMAIN compiler = {"inScope", "scope", "last"} /\ elements \in Nat
    BY DEF IInv, HostInv
  <2>3. phase = "load" /\ phase' = "load" /\ place' = "rewrite" /\ elements' = elements + 1
    BY <2>1 DEF MayRead, Read
  <2>4. InHost
    BY <2>1 DEF MayRead, InHost
  <2>5. /\ ~compiler'.inScope
        /\ compiler'.last = [host |-> Here, ruleset |-> LastOf(Here) + 1]
    BY <2>1, <2>2
  <2> QED BY <2>1, <2>2, <2>3, <2>4, <2>5
<1>2. FileInv /\ CompilerInv /\ DefaultInv
  BY DEF CompileInv
<1>3. PICK here \in Nat : here = Here
  BY <1>1, HereIsHost
<1>4. /\ here \in 1..Len(vhosts) /\ IsHost(here) /\ here = Len(vhosts) /\ Len(vhosts) \in Nat
  BY <1>1, <1>3, HereIsHost DEF Here, IsHost
<1>5. /\ Flushed \in Seq(Host(Len(scopes))) /\ Len(Flushed) = Len(vhosts)
      /\ \A h \in Nat : IsHost(h) => /\ Flushed[h].scope = vhosts[h].scope
                                     /\ Len(Flushed[h].rulesets) = Len(vhosts[h].rulesets)
      /\ \A h, j \in Nat : IsRuleset(h, j) => Flushed[h].rulesets[j] = Flush(h, j)
  BY <1>2, FlushedRulesets
<1>6. PICK flushed \in Seq(Host(Len(scopes))) : flushed = Flushed
  BY <1>5
<1>7. PICK none : none = <<>>
  OBVIOUS
<1>8. DOMAIN none = {} /\ Len(none) = 0 /\ none \in Seq(Item)
      /\ none \in Seq(AnyOpcode(Len(scopes)))
  BY <1>7
<1>9. flushed[here] \in Host(Len(scopes)) /\ file.hosts[here] \in FileHost
      /\ Len(file.hosts) = Len(vhosts)
  BY <1>2, <1>4, <1>5, <1>6 DEF FileInv
<1>10. /\ flushed[here].rulesets \in Seq(Seq(AnyOpcode(Len(scopes))))
       /\ file.hosts[here].rulesets \in Seq(Seq(Item))
  BY <1>9 DEF Host, FileHost
<1>11. PICK n \in Nat : n = Len(vhosts[here].rulesets)
  BY <1>4, <1>5, <1>6, <1>10
<1>12. Len(flushed[here].rulesets) = n /\ Len(file.hosts[here].rulesets) = n
       /\ LastOf(here) = n /\ n <= elements
  BY <1>2, <1>4, <1>5, <1>6, <1>11 DEF FileInv, HostMade, LastOf
<1>13. PICK opcodes : opcodes = Append(flushed[here].rulesets, none)
  OBVIOUS
<1>14. PICK items : items = Append(file.hosts[here].rulesets, none)
  OBVIOUS
<1>15. /\ Len(opcodes) = n + 1 /\ opcodes[n + 1] = none
       /\ opcodes \in Seq(Seq(AnyOpcode(Len(scopes))))
       /\ \A j \in 1..n : opcodes[j] = flushed[here].rulesets[j]
       /\ Len(items) = n + 1 /\ items[n + 1] = none /\ items \in Seq(Seq(Item))
       /\ \A j \in 1..n : items[j] = file.hosts[here].rulesets[j]
  <2>1. /\ Len(opcodes) = n + 1 /\ opcodes[n + 1] = none
        /\ opcodes \in Seq(Seq(AnyOpcode(Len(scopes))))
        /\ \A j \in 1..n : opcodes[j] = flushed[here].rulesets[j]
    BY <1>8, <1>10, <1>12, <1>13, HostAppended
  <2>2. /\ Len(items) = n + 1 /\ items[n + 1] = none /\ items \in Seq(Seq(Item))
        /\ \A j \in 1..n : items[j] = file.hosts[here].rulesets[j]
    <3>1. PICK rulesets \in Seq(Seq(Item)) : rulesets = file.hosts[here].rulesets
      BY <1>10
    <3>2. Len(rulesets) = n /\ items = Append(rulesets, none) /\ none \in Seq(Item)
      BY <1>8, <1>12, <1>14, <3>1
    <3>3. /\ Len(items) = n + 1 /\ items[n + 1] = none /\ items \in Seq(Seq(Item))
          /\ \A j \in 1..n : items[j] = rulesets[j]
      BY <3>2, HostAppended
    <3> QED BY <3>1, <3>3, Zenon
  <2> QED BY <2>1, <2>2, Zenon
<1>16. PICK host : host = [flushed[here] EXCEPT !.rulesets = opcodes]
  OBVIOUS
<1>17. PICK read : read = [file.hosts[here] EXCEPT !.rulesets = items]
  OBVIOUS
<1>18. vhosts' = [flushed EXCEPT ![here] = host]
       /\ file'.hosts = [file.hosts EXCEPT ![here] = read]
  BY <1>0, <1>3, <1>6, <1>7, <1>13, <1>14, <1>16, <1>17
<1>19. host \in Host(Len(scopes)) /\ host.rulesets = opcodes /\ host.scope = flushed[here].scope
  BY <1>9, <1>15, <1>16 DEF Host
<1>20. /\ read \in FileHost /\ read.rulesets = items
       /\ read.settings = file.hosts[here].settings
       /\ (read.default <=> file.hosts[here].default)
  BY <1>9, <1>15, <1>17 DEF FileHost
<1>21. /\ Len(vhosts') = Len(vhosts)
       /\ \A h \in 1..Len(vhosts) : vhosts'[h] = IF h = here THEN host ELSE flushed[h]
  BY <1>4, <1>5, <1>6, <1>18, <1>19, ExceptSeq
<1>22. /\ file'.hosts \in Seq(FileHost) /\ Len(file'.hosts) = Len(file.hosts)
       /\ \A h \in 1..Len(vhosts) : file'.hosts[h] = IF h = here THEN read ELSE file.hosts[h]
  <2>1. file.hosts \in Seq(FileHost) /\ here \in 1..Len(file.hosts)
    BY <1>2, <1>4, <1>9 DEF FileInv
  <2> QED BY <1>9, <1>18, <1>20, <2>1, ExceptSeq
<1>23. \A h \in Nat : IsHost(h)' <=> IsHost(h)
  BY <1>21 DEF IsHost
<1>24. ASSUME NEW h \in Nat, IsHost(h)
       PROVE  /\ vhosts'[h].scope = vhosts[h].scope
              /\ file'.hosts[h].settings = file.hosts[h].settings
              /\ (file'.hosts[h].default <=> file.hosts[h].default)
              /\ Len(vhosts'[h].rulesets) = IF h = here THEN n + 1 ELSE Len(vhosts[h].rulesets)
              /\ Len(file'.hosts[h].rulesets)
                   = IF h = here THEN n + 1 ELSE Len(file.hosts[h].rulesets)
  <2>1. h \in 1..Len(vhosts)
    BY <1>24 DEF IsHost
  <2>2. flushed[h].scope = vhosts[h].scope
        /\ Len(flushed[h].rulesets) = Len(vhosts[h].rulesets)
    BY <1>5, <1>6, <1>24
  <2>3. CASE h = here
    <3>1. vhosts'[h] = host /\ file'.hosts[h] = read
      BY <1>21, <1>22, <2>1, <2>3
    <3>2. /\ host.scope = vhosts[h].scope /\ Len(host.rulesets) = n + 1
          /\ read.settings = file.hosts[h].settings
          /\ (read.default <=> file.hosts[h].default) /\ Len(read.rulesets) = n + 1
      BY <1>15, <1>19, <1>20, <2>2, <2>3
    <3> QED BY <2>3, <3>1, <3>2
  <2>4. CASE h # here
    BY <1>21, <1>22, <2>1, <2>2, <2>4
  <2> QED BY <2>3, <2>4
<1>25. ASSUME NEW h \in Nat, NEW j \in Nat, IsRuleset(h, j)
       PROVE  /\ IsRuleset(h, j)' /\ ~(h = here /\ j = n + 1)
              /\ ItemsOf(h, j)' = ItemsOf(h, j) /\ OpcodesOf(h, j)' = Flush(h, j)
  <2>1. IsHost(h) /\ h \in 1..Len(vhosts) /\ j \in 1..Len(vhosts[h].rulesets)
    BY <1>25 DEF IsRuleset, IsHost
  <2>2. flushed[h].rulesets[j] = Flush(h, j)
    BY <1>5, <1>6, <1>25
  <2>3. CASE h = here
    <3>1. j \in 1..n /\ j \in 1..(n + 1) /\ j # n + 1
      BY <1>11, <2>1, <2>3
    <3>2. IsRuleset(h, j)'
      BY <1>23, <1>24, <2>1, <2>3, <3>1 DEF IsRuleset
    <3> QED BY <1>15, <1>19, <1>20, <1>21, <1>22, <2>1, <2>2, <2>3, <3>1, <3>2
         DEF ItemsOf, OpcodesOf
  <2>4. CASE h # here
    <3>1. IsRuleset(h, j)'
      BY <1>23, <1>24, <2>1, <2>4 DEF IsRuleset
    <3> QED BY <1>21, <1>22, <2>1, <2>2, <2>4, <3>1 DEF ItemsOf, OpcodesOf
  <2> QED BY <2>3, <2>4
<1>26. ASSUME NEW h \in Nat, NEW j \in Nat, IsRuleset(h, j)', ~IsRuleset(h, j)
       PROVE  /\ h = here /\ j = n + 1
              /\ ItemsOf(h, j)' = none /\ OpcodesOf(h, j)' = none
  <2>1. IsHost(h) /\ j \in 1..Len(vhosts'[h].rulesets)
    BY <1>23, <1>26 DEF IsRuleset
  <2>2. j \notin 1..Len(vhosts[h].rulesets)
    BY <1>26, <2>1 DEF IsRuleset
  <2>3. h = here /\ j = n + 1
    BY <1>11, <1>24, <2>1, <2>2
  <2> QED BY <1>4, <1>15, <1>19, <1>20, <1>21, <1>22, <2>3 DEF ItemsOf, OpcodesOf
<1>27. FileInv'
  <2>1. ASSUME NEW h \in Nat, IsHost(h)' PROVE HostMade(h)'
    <3>1. IsHost(h) /\ HostMade(h)
      BY <1>2, <1>23, <2>1 DEF FileInv
    <3>2. /\ Len(file.hosts[h].rulesets) = Len(vhosts[h].rulesets)
          /\ Len(vhosts[h].rulesets) <= elements
          /\ scopes[vhosts[h].scope] = file.hosts[h].settings
      BY <3>1 DEF HostMade
    <3>3. Len(vhosts[h].rulesets) \in Nat
      <4>1. vhosts[h] \in Host(Len(scopes))
        BY <3>1 DEF IsHost, IInv, HostInv
      <4> QED BY <4>1 DEF Host
    <3>4. Len(file'.hosts[h].rulesets) = Len(vhosts'[h].rulesets)
          /\ scopes'[vhosts'[h].scope] = file'.hosts[h].settings
      BY <1>1, <1>24, <3>1, <3>2
    <3>5. Len(vhosts'[h].rulesets) <= elements'
      <4>1. CASE h = here
        BY <1>1, <1>12, <1>24, <3>1, <4>1
      <4>2. CASE h # here
        BY <1>1, <1>24, <3>1, <3>2, <3>3, <4>2
      <4> QED BY <4>1, <4>2
    <3> QED BY <3>4, <3>5 DEF HostMade
  <2>2. \A h, i \in Nat : IsHost(h)' /\ IsHost(i)' /\ vhosts'[h].scope = vhosts'[i].scope => h = i
    BY <1>2, <1>23, <1>24 DEF FileInv
  <2> QED BY <1>9, <1>21, <1>22, <2>1, <2>2 DEF FileInv
<1>28. DefaultInv'
  BY <1>1, <1>2, <1>23, <1>24 DEF DefaultInv
<1>29. compiler'.last.host = here /\ compiler'.last.ruleset = n + 1
  BY <1>1, <1>3, <1>12
<1>30. CompilerInv'
  <2>1. compiler'.last \in [host : Nat, ruleset : Nat]
    BY <1>1, <1>3, <1>12
  <2>2. Here' = here /\ LastOf(Here)' = n + 1
    BY <1>3, <1>4, <1>21, <1>24 DEF Here, LastOf
  <2>3. LastOf(Here)' > 0 /\ IsLast(Here, LastOf(Here))'
    BY <1>29, <2>2 DEF IsLast
  <2> QED BY <1>1, <2>1, <2>3 DEF CompilerInv, Pending
<1>31. ASSUME Orderly' PROVE RulesetsInv' /\ OwnersInv'
  <2>1. Orderly
    <3>1. ASSUME NEW h \in 1..Len(file.hosts)
          PROVE  /\ Len(file.hosts[h].rulesets) <= Len(file'.hosts[h].rulesets)
                 /\ \A j \in 1..Len(file.hosts[h].rulesets) :
                      file'.hosts[h].rulesets[j] = file.hosts[h].rulesets[j]
      <4>1. h \in 1..Len(vhosts) /\ file.hosts[h] \in FileHost
        BY <1>2, <1>9 DEF FileInv
      <4>2. Len(file.hosts[h].rulesets) \in Nat
        BY <4>1 DEF FileHost
      <4>3. CASE h = here
        <5>1. file'.hosts[h].rulesets = items /\ Len(file.hosts[h].rulesets) = n
          BY <1>12, <1>20, <1>22, <4>1, <4>3
        <5> QED BY <1>15, <4>3, <5>1
      <4>4. CASE h # here
        BY <1>22, <4>1, <4>2, <4>4
      <4> QED BY <4>3, <4>4
    <3>2. Grown(file'.hosts, file.hosts)
      <4>1. Len(file.hosts) <= Len(file'.hosts)
        BY <1>9, <1>22, <1>4
      <4> QED BY <3>1, <4>1 DEF Grown
    <3> QED BY <1>2, <1>22, <1>31, <3>2, OrderlyBefore DEF FileInv
  <2>2. RulesetsInv /\ OwnersInv
    BY <2>1 DEF CompileInv
  <2>3. ASSUME NEW h \in Nat, NEW j \in Nat, IsRuleset(h, j)
        PROVE  RulesetInv(h, j)' /\ ScopeOf(h, j)' = ScopeOf(h, j)
    <3>1. RulesetInv(h, j)
      BY <2>2, <2>3 DEF RulesetsInv
    <3>2. elements' \in Nat /\ elements <= elements'
      BY <1>1
    <3>3. OpcodesOf(h, j)' = Flush(h, j) /\ ItemsOf(h, j)' = ItemsOf(h, j) /\ ~IsLast(h, j)'
      BY <1>25, <1>29, <2>3 DEF IsLast
    <3>4. phase \in {"load", "loaded"} /\ scopes' = scopes /\ ~compiler'.inScope /\ FileInv
      BY <1>1, <1>2
    <3> QED BY <2>3, <3>1, <3>2, <3>3, <3>4, RulesetFlushed
  <2>4. ASSUME NEW h \in Nat, NEW j \in Nat, IsRuleset(h, j)', ~IsRuleset(h, j)
        PROVE  RulesetInv(h, j)' /\ ScopeOf(h, j)' = 0
    <3>1. ItemsOf(h, j)' = none /\ OpcodesOf(h, j)' = none
      BY <1>26, <2>4
    <3>2. ~Pending(h, j)' /\ ScopeOf(h, j)' = 0
      BY <1>1, <1>8, <3>1 DEF Pending, ScopeOf, Activated, Activating
    <3>3. Compiled(none, none, Empty)
      BY <1>8, CompiledNothing
    <3>4. ValuesIn(scopes', ScopeOf(h, j)') = Empty
      BY <3>2 DEF ValuesIn
    <3>5. OpcodesInv(h, j)'
      <4>1. \A k : k \notin 1..0
        OBVIOUS
      <4> QED BY <1>8, <3>1, <4>1 DEF OpcodesInv
    <3>6. Compiled(ItemsOf(h, j)', OpcodesOf(h, j)', ValuesIn(scopes', ScopeOf(h, j)'))
      BY <3>1, <3>3, <3>4
    <3>7. Len(OpcodesOf(h, j)') = 0 /\ Len(ItemsOf(h, j)') = 0 /\ 0 <= elements'
      BY <1>1, <1>8, <3>1
    <3> QED BY <3>2, <3>5, <3>6, <3>7 DEF RulesetInv
  <2>5. SameOwners
    <3>1. \A h, j \in Nat : IsRuleset(h, j) => IsRuleset(h, j)' /\ ScopeOf(h, j)' = ScopeOf(h, j)
      BY <1>25, <2>3
    <3>2. \A h, j \in Nat : IsRuleset(h, j) /\ ScopeOf(h, j) # 0 =>
            DOMAIN scopes'[ScopeOf(h, j)] \subseteq RulesetSettings
      BY <1>1, <2>2 DEF OwnersInv, ScopeOfsInv, ScopeOfInv
    <3> QED BY <1>1, <1>23, <1>24, <2>4, <3>1, <3>2 DEF SameOwners
  <2>6. OwnersInv'
    BY <2>2, <2>5, OwnersAlone
  <2>7. RulesetsInv'
    BY <2>3, <2>4 DEF RulesetsInv
  <2> QED BY <2>6, <2>7
<1> QED BY <1>27, <1>28, <1>30, <1>31 DEF CompileInv
-----------------------------------------------------------------------------
(* Reading what is in a ruleset.                                           *)

(* An item more in the last ruleset, and maybe an opcode.                  *)
ItemRead(h, j, item) ==
  /\ h \in Nat /\ j \in Nat /\ IsRuleset(h, j) /\ IsLast(h, j)
  /\ h = Here /\ j = LastOf(Here)
  /\ item \in Item
  /\ file'.hosts \in Seq(FileHost)
  /\ Appended(file'.hosts, file.hosts, h, j, item)
  /\ SameHosts(file'.hosts, file.hosts)

LEMMA LastRuleset ==
  ASSUME IInv, CompileInv, place = "rewrite"
  PROVE  /\ InHost /\ Here \in Nat /\ LastOf(Here) \in Nat
         /\ IsRuleset(Here, LastOf(Here)) /\ IsLast(Here, LastOf(Here))
         /\ compiler.last.host = Here /\ compiler.last.ruleset = LastOf(Here)
<1>1. InHost
  BY DEF InHost
<1>2. Here \in Nat /\ IsHost(Here) /\ Here \in 1..Len(vhosts)
  BY <1>1, HereIsHost
<1>3. LastOf(Here) > 0 /\ IsLast(Here, LastOf(Here))
  BY DEF CompileInv, CompilerInv
<1>4. PICK h \in 1..Len(vhosts) : h = Here
  BY <1>2
<1>5. vhosts[h] \in Host(Len(scopes))
  BY DEF IInv, HostInv
<1>6. Len(vhosts[h].rulesets) \in Nat
  BY <1>5 DEF Host
<1> QED BY <1>1, <1>2, <1>3, <1>4, <1>6 DEF LastOf, IsRuleset, IsLast

LEMMA ItemIsRead ==
  ASSUME IInv, CompileInv, place = "rewrite", NEW item \in Item, file' = WithItem(item)
  PROVE  ItemRead(Here, LastOf(Here), item)
<1>1. PICK h \in Nat, j \in Nat : h = Here /\ j = LastOf(Here)
  BY LastRuleset
<1>2. IsRuleset(h, j) /\ IsLast(h, j)
  BY <1>1, LastRuleset
<1>3. file.hosts \in Seq(FileHost) /\ h \in 1..Len(file.hosts)
      /\ j \in 1..Len(file.hosts[h].rulesets)
  BY <1>2, RulesetTypes DEF CompileInv, FileInv
<1>4. file'.hosts = [file.hosts EXCEPT ![h].rulesets[j] = Append(@, item)]
  BY <1>1 DEF WithItem, IInv, ScopeInv
<1>5. PICK hosts \in Seq(FileHost) : hosts = file.hosts
  BY <1>3
<1>6. PICK new : new = [hosts EXCEPT ![h].rulesets[j] = Append(@, item)]
  OBVIOUS
<1>7. new \in Seq(FileHost) /\ Appended(new, hosts, h, j, item) /\ SameHosts(new, hosts)
  BY <1>3, <1>5, <1>6, ItemAppended
<1> QED BY <1>1, <1>2, <1>4, <1>5, <1>6, <1>7 DEF ItemRead

ItemAdded(h, j, item) ==
  \A i, k \in Nat : IsRuleset(i, k) =>
    ItemsOf(i, k)' = IF i = h /\ k = j THEN Append(ItemsOf(i, k), item) ELSE ItemsOf(i, k)

LEMMA ItemGrown ==
  ASSUME IInv, FileInv, NEW h, NEW j, NEW item, ItemRead(h, j, item)
  PROVE  /\ Grown(file'.hosts, file.hosts)
         /\ Len(file'.hosts) = Len(file.hosts)
         /\ ItemAdded(h, j, item)
         /\ \A i \in Nat : IsHost(i) =>
              /\ file'.hosts[i].settings = file.hosts[i].settings
              /\ (file'.hosts[i].default <=> file.hosts[i].default)
              /\ Len(file'.hosts[i].rulesets) = Len(file.hosts[i].rulesets)
<1>1. /\ Len(file'.hosts) = Len(file.hosts) /\ item \in Item
      /\ \A i \in 1..Len(file.hosts) :
           /\ Len(file'.hosts[i].rulesets) = Len(file.hosts[i].rulesets)
           /\ file'.hosts[i].settings = file.hosts[i].settings
           /\ (file'.hosts[i].default <=> file.hosts[i].default)
           /\ \A k \in 1..Len(file.hosts[i].rulesets) :
                file'.hosts[i].rulesets[k]
                  = IF i = h /\ k = j THEN Append(file.hosts[i].rulesets[k], item)
                    ELSE file.hosts[i].rulesets[k]
  BY DEF ItemRead, Appended, SameHosts
<1>2. Len(file.hosts) = Len(vhosts) /\ Len(vhosts) \in Nat /\ file.hosts \in Seq(FileHost)
  BY DEF FileInv, IInv, HostInv
<1>3. Grown(file'.hosts, file.hosts)
  <2>1. ASSUME NEW i \in 1..Len(file.hosts)
        PROVE  /\ Len(file.hosts[i].rulesets) <= Len(file'.hosts[i].rulesets)
               /\ \A k \in 1..Len(file.hosts[i].rulesets) :
                    \/ file'.hosts[i].rulesets[k] = file.hosts[i].rulesets[k]
                    \/ \E e \in Item : file'.hosts[i].rulesets[k]
                                         = Append(file.hosts[i].rulesets[k], e)
    <3>1. file.hosts[i] \in FileHost
      BY <1>2
    <3>2. Len(file.hosts[i].rulesets) \in Nat
      BY <3>1 DEF FileHost
    <3>3. ASSUME NEW k \in 1..Len(file.hosts[i].rulesets)
          PROVE  \/ file'.hosts[i].rulesets[k] = file.hosts[i].rulesets[k]
                 \/ \E e \in Item : file'.hosts[i].rulesets[k]
                                      = Append(file.hosts[i].rulesets[k], e)
      BY <1>1, <3>3, Zenon
    <3>4. Len(file.hosts[i].rulesets) <= Len(file'.hosts[i].rulesets)
      BY <1>1, <3>2
    <3> QED BY <3>3, <3>4
  <2>2. Len(file.hosts) <= Len(file'.hosts)
    BY <1>1, <1>2
  <2> QED BY <2>1, <2>2 DEF Grown
<1>4. ASSUME NEW i \in Nat, IsHost(i) PROVE i \in 1..Len(file.hosts)
  BY <1>2, <1>4 DEF IsHost
<1>5. ASSUME NEW i \in Nat, NEW k \in Nat, IsRuleset(i, k)
      PROVE  ItemsOf(i, k)' = IF i = h /\ k = j THEN Append(ItemsOf(i, k), item)
                              ELSE ItemsOf(i, k)
  <2>1. i \in 1..Len(file.hosts) /\ k \in 1..Len(file.hosts[i].rulesets)
    BY <1>5, RulesetTypes
  <2> QED BY <1>1, <2>1 DEF ItemsOf
<1> QED BY <1>1, <1>3, <1>4, <1>5 DEF ItemAdded

(* SET, CALL and conditions that come first: an opcode each.               *)
OpcodeMade(h, j, o) ==
  /\ Appended(vhosts', vhosts, h, j, o) /\ SameScopes(vhosts', vhosts)
  /\ (compiler'.inScope <=> compiler.inScope)
  /\ compiler'.last = compiler.last /\ compiler'.scope = compiler.scope
  /\ UNCHANGED <<scopes, defaultHost, phase>>
  /\ phase = "load" /\ elements' = elements + 1

LEMMA OpcodeHosts ==
  ASSUME IInv, NEW h, NEW j, NEW o, OpcodeMade(h, j, o)
  PROVE  /\ Len(vhosts') = Len(vhosts)
         /\ \A i \in Nat : IsHost(i)' <=> IsHost(i)
         /\ \A i, k \in Nat : IsRuleset(i, k)' <=> IsRuleset(i, k)
         /\ \A i \in Nat : IsHost(i) => /\ vhosts'[i].scope = vhosts[i].scope
                                        /\ Len(vhosts'[i].rulesets) = Len(vhosts[i].rulesets)
         /\ \A i, k \in Nat : IsRuleset(i, k) =>
              OpcodesOf(i, k)' = IF i = h /\ k = j THEN Append(OpcodesOf(i, k), o)
                                 ELSE OpcodesOf(i, k)
<1>1. /\ Len(vhosts') = Len(vhosts)
      /\ \A i \in 1..Len(vhosts) :
           /\ vhosts'[i].scope = vhosts[i].scope
           /\ Len(vhosts'[i].rulesets) = Len(vhosts[i].rulesets)
           /\ \A k \in 1..Len(vhosts[i].rulesets) :
                vhosts'[i].rulesets[k] = IF i = h /\ k = j THEN Append(vhosts[i].rulesets[k], o)
                                         ELSE vhosts[i].rulesets[k]
  BY DEF OpcodeMade, Appended, SameScopes
<1>2. \A i \in Nat : IsHost(i)' <=> IsHost(i)
  BY <1>1 DEF IsHost
<1>3. \A i \in Nat : IsHost(i) => i \in 1..Len(vhosts)
  BY DEF IsHost
<1>4. \A i, k \in Nat : IsRuleset(i, k)' <=> IsRuleset(i, k)
  BY <1>1, <1>2, <1>3 DEF IsRuleset
<1> QED BY <1>1, <1>2, <1>3, <1>4 DEF IsRuleset, OpcodesOf

(* Opcodes are made, in the rulesets there are.                            *)
ShapeKept ==
  /\ Len(vhosts') = Len(vhosts)
  /\ \A i \in Nat : IsHost(i) => /\ vhosts'[i].scope = vhosts[i].scope
                                 /\ Len(vhosts'[i].rulesets) = Len(vhosts[i].rulesets)
  /\ compiler'.inScope => compiler.inScope
  /\ compiler'.last = compiler.last /\ compiler'.scope = compiler.scope
  /\ UNCHANGED <<scopes, defaultHost, phase>>
  /\ phase = "load" /\ elements' = elements + 1

LEMMA OpcodeKeeps ==
  ASSUME IInv, CompileInv, NEW h, NEW j, NEW o, ItemRead(h, j, o), ShapeKept
  PROVE  FileInv' /\ DefaultInv' /\ CompilerInv'
<1>1. /\ FileInv /\ DefaultInv /\ CompilerInv
      /\ IsRuleset(h, j) /\ IsLast(h, j) /\ h \in Nat /\ j \in Nat
  BY DEF CompileInv, ItemRead
<1>2. phase = "load" /\ phase' = "load" /\ elements \in Nat /\ elements' = elements + 1
      /\ scopes' = scopes /\ defaultHost' = defaultHost
  BY DEF ShapeKept, IInv, HostInv
<1>3. /\ Len(vhosts') = Len(vhosts)
      /\ \A i \in Nat : IsHost(i)' <=> IsHost(i)
      /\ \A i, k \in Nat : IsRuleset(i, k)' <=> IsRuleset(i, k)
      /\ \A i \in Nat : IsHost(i) => /\ vhosts'[i].scope = vhosts[i].scope
                                     /\ Len(vhosts'[i].rulesets) = Len(vhosts[i].rulesets)
  <2>1. \A i \in Nat : IsHost(i)' <=> IsHost(i)
    BY DEF IsHost, ShapeKept
  <2> QED BY <2>1 DEF IsRuleset, ShapeKept
<1>4. /\ Len(file'.hosts) = Len(file.hosts) /\ file'.hosts \in Seq(FileHost)
      /\ \A i \in Nat : IsHost(i) =>
           /\ file'.hosts[i].settings = file.hosts[i].settings
           /\ (file'.hosts[i].default <=> file.hosts[i].default)
           /\ Len(file'.hosts[i].rulesets) = Len(file.hosts[i].rulesets)
  BY <1>1, ItemGrown DEF ItemRead
<1>5. FileInv'
  <2>1. ASSUME NEW i \in Nat, IsHost(i)' PROVE HostMade(i)'
    <3>1. IsHost(i)
      BY <1>3, <2>1
    <3>2. /\ Len(file.hosts[i].rulesets) = Len(vhosts[i].rulesets)
          /\ Len(vhosts[i].rulesets) <= elements
          /\ scopes[vhosts[i].scope] = file.hosts[i].settings
      BY <1>1, <3>1 DEF FileInv, HostMade
    <3>3. Len(vhosts[i].rulesets) \in Nat
      <4>1. vhosts[i] \in Host(Len(scopes))
        BY <3>1 DEF IsHost, IInv, HostInv
      <4> QED BY <4>1 DEF Host
    <3>4. Len(file'.hosts[i].rulesets) = Len(vhosts'[i].rulesets)
          /\ scopes'[vhosts'[i].scope] = file'.hosts[i].settings
      BY <1>2, <1>3, <1>4, <3>1, <3>2
    <3>5. Len(vhosts'[i].rulesets) <= elements'
      BY <1>2, <1>3, <3>1, <3>2, <3>3
    <3> QED BY <3>4, <3>5 DEF HostMade
  <2>2. \A i, k \in Nat : IsHost(i)' /\ IsHost(k)' /\ vhosts'[i].scope = vhosts'[k].scope => i = k
    BY <1>1, <1>3 DEF FileInv
  <2>3. Len(file'.hosts) = Len(vhosts')
    BY <1>1, <1>3, <1>4 DEF FileInv
  <2> QED BY <1>4, <2>1, <2>2, <2>3 DEF FileInv
<1>6. DefaultInv'
  BY <1>1, <1>2, <1>3, <1>4 DEF DefaultInv
<1>7. CompilerInv'
  <2>1. /\ compiler'.inScope => compiler.inScope
        /\ compiler'.last = compiler.last /\ compiler'.scope = compiler.scope
    BY DEF ShapeKept
  <2>2. compiler'.last \in [host : Nat, ruleset : Nat]
    BY <1>1, <2>1 DEF CompilerInv
  <2>3. \A i, k \in Nat : Pending(i, k)' => IsRuleset(i, k)'
    BY <1>1, <1>3, <2>1 DEF CompilerInv, Pending, IsLast
  <2>4. compiler'.inScope => \A i \in Nat : IsHost(i)' => vhosts'[i].scope # compiler'.scope
    BY <1>1, <1>3, <2>1 DEF CompilerInv
  <2>5. LastOf(Here)' > 0 /\ IsLast(Here, LastOf(Here))'
    <3>1. h = Here /\ j = LastOf(Here) /\ IsHost(h) /\ j > 0
      BY DEF ItemRead, IsRuleset
    <3>2. Here' = h /\ LastOf(Here)' = j
      BY <1>1, <1>3, <3>1 DEF Here, LastOf
    <3> QED BY <1>1, <2>1, <3>1, <3>2 DEF IsLast
  <2> QED BY <1>2, <2>2, <2>3, <2>4, <2>5 DEF CompilerInv
<1> QED BY <1>5, <1>6, <1>7

LEMMA OpcodeCompile ==
  ASSUME IInv, CompileInv, NEW h, NEW j, NEW o,
         ItemRead(h, j, o), OpcodeMade(h, j, o), o \in Operations
  PROVE  CompileInv'
<1>1. /\ FileInv /\ IsRuleset(h, j) /\ IsLast(h, j) /\ h \in Nat /\ j \in Nat
      /\ (compiler'.inScope <=> compiler.inScope)
      /\ compiler'.last = compiler.last /\ compiler'.scope = compiler.scope
      /\ phase = "load" /\ phase' = "load" /\ scopes' = scopes /\ elements' = elements + 1
      /\ elements \in Nat /\ file'.hosts \in Seq(FileHost)
      /\ o \in Item /\ o \in Element
  <2>1. FileInv /\ elements \in Nat
    BY DEF CompileInv, IInv, HostInv
  <2>2. /\ IsRuleset(h, j) /\ IsLast(h, j) /\ h \in Nat /\ j \in Nat
        /\ file'.hosts \in Seq(FileHost) /\ o \in Item
    BY DEF ItemRead
  <2>3. o \in Element
    BY <2>2 DEF Element
  <2> QED BY <2>1, <2>2, <2>3 DEF OpcodeMade
<1>2. o.op # "ACTIVATE_SCOPE" /\ o.op # "SETTING"
  BY RewriteAssumption DEF Conditions, Opcode
<1>3. ASSUME Orderly' PROVE RulesetsInv' /\ OwnersInv'
  <2>1. Orderly /\ AllFirst(file'.hosts)
    <3>1. Grown(file'.hosts, file.hosts) /\ file.hosts \in Seq(FileHost)
      BY <1>1, ItemGrown DEF FileInv
    <3> QED BY <1>1, <1>3, <3>1, OrderlyBefore
  <2>2. RulesetsInv /\ OwnersInv
    BY <2>1 DEF CompileInv
  <2>3. /\ \A i, k \in Nat : IsRuleset(i, k)' <=> IsRuleset(i, k)
        /\ \A i \in Nat : IsHost(i)' <=> IsHost(i)
        /\ \A i \in Nat : IsHost(i) => vhosts'[i].scope = vhosts[i].scope
        /\ \A i, k \in Nat : IsRuleset(i, k) =>
             OpcodesOf(i, k)' = IF i = h /\ k = j THEN Append(OpcodesOf(i, k), o)
                                ELSE OpcodesOf(i, k)
    BY OpcodeHosts
  <2>4. \A i, k \in Nat : IsRuleset(i, k) =>
          ItemsOf(i, k)' = IF i = h /\ k = j THEN Append(ItemsOf(i, k), o) ELSE ItemsOf(i, k)
    <3>1. ItemAdded(h, j, o)
      BY <1>1, ItemGrown
    <3> QED BY <3>1 DEF ItemAdded
  <2>5. \A i, k \in Nat : /\ (IsLast(i, k)' <=> IsLast(i, k))
                          /\ (Pending(i, k)' <=> Pending(i, k))
    BY <1>1 DEF IsLast, Pending
  <2>6. ASSUME NEW i \in Nat, NEW k \in Nat, IsRuleset(i, k), ~(i = h /\ k = j)
        PROVE  RulesetInv(i, k)' /\ ScopeOf(i, k)' = ScopeOf(i, k)
    <3>1. ItemsOf(i, k)' = ItemsOf(i, k) /\ OpcodesOf(i, k)' = OpcodesOf(i, k)
      BY <2>3, <2>4, <2>6
    <3>2. ScopeOf(i, k)' = ScopeOf(i, k)
      BY <1>1, <2>5, <3>1 DEF ScopeOf
    <3>3. ItemsOf(i, k) \in Seq(Element) /\ OpcodesOf(i, k) \in Seq(Element)
      BY <1>1, <2>6, RulesetTypes
    <3>4. elements' \in Nat /\ elements <= elements'
      BY <1>1
    <3>5. RulesetInv(i, k)
      BY <2>2, <2>6 DEF RulesetsInv
    <3>6. ValuesIn(scopes', ScopeOf(i, k)) = ValuesIn(scopes, ScopeOf(i, k))
      BY <1>1
    <3>7. /\ Pending(i, k)' => Pending(i, k)
          /\ phase' \in {"load", "loaded"} /\ IsLast(i, k)' =>
               phase \in {"load", "loaded"} /\ IsLast(i, k)
      BY <1>1, <2>5
    <3> QED BY <1>1, <3>1, <3>2, <3>3, <3>4, <3>5, <3>6, <3>7, RulesetAlone
  <2>7. RulesetInv(h, j)' /\ ScopeOf(h, j)' = ScopeOf(h, j)
    <3>1. PICK items \in Seq(Item), opcodes \in Seq(Element) :
            items = ItemsOf(h, j) /\ opcodes = OpcodesOf(h, j) /\ items \in Seq(Element)
      BY <1>1, RulesetTypes
    <3>2. ItemsOf(h, j)' = Append(items, o) /\ OpcodesOf(h, j)' = Append(opcodes, o)
      BY <1>1, <2>3, <2>4, <3>1
    <3>3. /\ Compiled(items, opcodes, ValuesIn(scopes, ScopeOf(h, j)))
          /\ \A k \in 1..Len(opcodes) : opcodes[k].op # "ACTIVATE_SCOPE"
          /\ Pending(h, j) => HasSetting(items)
          /\ Len(opcodes) + (IF Pending(h, j) THEN 1 ELSE 0) <= Len(items)
          /\ Len(items) <= elements
      BY <1>1, <2>2, <3>1 DEF RulesetsInv, RulesetInv, OpcodesInv
    <3>4. PICK longer : longer = Append(opcodes, o)
      OBVIOUS
    <3>5. /\ Activated(longer) = 0 /\ Len(longer) = Len(opcodes) + 1
          /\ longer[Len(opcodes) + 1] = o
          /\ \A k \in 1..Len(opcodes) : longer[k] = opcodes[k]
      BY <1>1, <1>2, <3>4, ActivatedLast
    <3>6. Activated(opcodes) = 0
      <4>1. Len(opcodes) > 0 => Len(opcodes) \in 1..Len(opcodes)
        OBVIOUS
      <4> QED BY <3>3, <4>1 DEF Activated, Activating
    <3>7. ScopeOf(h, j)' = ScopeOf(h, j)
      BY <1>1, <2>5, <3>1, <3>2, <3>4, <3>5, <3>6 DEF ScopeOf
    <3>8. o.op \in Conditions => ~Pending(h, j)
      <4>1. ConditionsFirst(Append(items, o))
        <5>1. ItemsOf(h, j)' = file'.hosts[h].rulesets[j]
          BY DEF ItemsOf
        <5>2. h \in 1..Len(file'.hosts) /\ j \in 1..Len(file'.hosts[h].rulesets)
          <6>1. h \in 1..Len(file.hosts) /\ j \in 1..Len(file.hosts[h].rulesets)
            BY <1>1, RulesetTypes
          <6> QED BY <6>1 DEF ItemRead, Appended
        <5> QED BY <2>1, <3>2, <5>1, <5>2 DEF AllFirst
      <4> QED BY <1>1, <3>3, <4>1, FirstBefore
    <3>9. PICK values \in Scope : values = ValuesIn(scopes, ScopeOf(h, j))
      <4>1. CASE ScopeOf(h, j) = 0
        BY <4>1, EmptyScope DEF ValuesIn
      <4>2. CASE ScopeOf(h, j) # 0
        <5>1. ScopeOf(h, j) \in 2..Len(scopes)
          BY <1>1, <2>2, <4>2 DEF OwnersInv, ScopeOfsInv, ScopeOfInv
        <5>2. PICK sc \in 1..Len(scopes) : sc = ScopeOf(h, j)
          BY <5>1 DEF IInv, ScopeInv
        <5>3. scopes[sc] \in Scope
          BY DEF IInv, ScopeInv
        <5> QED BY <4>2, <5>2, <5>3 DEF ValuesIn
      <4> QED BY <4>1, <4>2
    <3>10. o.op \in Conditions => values = Empty
      BY <3>1, <3>6, <3>8, <3>9 DEF ScopeOf, ValuesIn
    <3>11. Compiled(Append(items, o), Append(opcodes, o), values)
      BY <1>1, <1>2, <3>1, <3>3, <3>9, <3>10, CompiledStatement
    <3>12. Compiled(ItemsOf(h, j)', OpcodesOf(h, j)', ValuesIn(scopes', ScopeOf(h, j)'))
      BY <1>1, <3>2, <3>7, <3>9, <3>11
    <3>13. OpcodesInv(h, j)'
      <4>1. \A k \in 1..Len(longer) : longer[k].op # "ACTIVATE_SCOPE"
        BY <1>2, <3>3, <3>5
      <4> QED BY <3>2, <3>4, <4>1 DEF OpcodesInv
    <3>14. PICK read : read = Append(items, o)
      OBVIOUS
    <3>15. /\ Len(read) = Len(items) + 1 /\ Len(items) \in Nat /\ Len(opcodes) \in Nat
           /\ \A k \in 1..Len(items) : read[k] = items[k]
      BY <1>1, <3>14
    <3>16. Pending(h, j)' => HasSetting(ItemsOf(h, j)')
      <4>1. Pending(h, j) => HasSetting(read)
        BY <3>3, <3>15 DEF HasSetting
      <4> QED BY <2>5, <1>1, <3>2, <3>14, <4>1
    <3>17. /\ Len(OpcodesOf(h, j)') + (IF Pending(h, j)' THEN 1 ELSE 0) <= Len(ItemsOf(h, j)')
           /\ Len(ItemsOf(h, j)') <= elements'
      <4>1. Len(longer) + (IF Pending(h, j) THEN 1 ELSE 0) <= Len(read)
        BY <3>3, <3>5, <3>15
      <4>2. Len(read) <= elements'
        BY <1>1, <3>3, <3>15
      <4> QED BY <1>1, <2>5, <3>2, <3>4, <3>14, <4>1, <4>2
    <3> QED BY <3>7, <3>12, <3>13, <3>16, <3>17 DEF RulesetInv, HasSetting
  <2>8. ASSUME NEW i \in Nat, NEW k \in Nat, IsRuleset(i, k)
        PROVE  RulesetInv(i, k)' /\ ScopeOf(i, k)' = ScopeOf(i, k)
    BY <2>6, <2>7, <2>8
  <2>9. SameOwners
    <3>1. \A i, k \in Nat : IsRuleset(i, k) /\ ScopeOf(i, k) # 0 =>
            DOMAIN scopes'[ScopeOf(i, k)] \subseteq RulesetSettings
      BY <1>1, <2>2 DEF OwnersInv, ScopeOfsInv, ScopeOfInv
    <3>2. \A i, k \in Nat : IsRuleset(i, k) => IsRuleset(i, k)' /\ ScopeOf(i, k)' = ScopeOf(i, k)
      BY <2>3, <2>8
    <3> QED BY <1>1, <2>3, <3>1, <3>2 DEF SameOwners
  <2>10. OwnersInv'
    BY <2>2, <2>9, OwnersAlone
  <2>11. RulesetsInv'
    BY <2>3, <2>8 DEF RulesetsInv
  <2> QED BY <2>10, <2>11
<1>4. ShapeKept
  BY <1>1, OpcodeHosts DEF ShapeKept, OpcodeMade
<1> QED BY <1>3, <1>4, OpcodeKeeps DEF CompileInv

LEMMA StatementCompile ==
  ASSUME IInv, CompileInv, NEW o \in Operations, Statement(o) PROVE CompileInv'
<1>1. /\ phase = "load" /\ place = "rewrite" /\ vhosts' = MakeOpcode(vhosts, compiler.last, o)
      /\ file' = WithItem(o) /\ elements' = elements + 1
      /\ UNCHANGED <<scopes, defaultHost, compiler, phase>>
  BY DEF Statement, MayRead, Read
<1>2. o \in Item
  BY DEF Item
<1>3. PICK h \in Nat, j \in Nat : h = Here /\ j = LastOf(Here)
  BY <1>1, LastRuleset
<1>4. ItemRead(h, j, o) /\ IsRuleset(h, j)
  BY <1>1, <1>2, <1>3, ItemIsRead, LastRuleset
<1>5. OpcodeMade(h, j, o)
  <2>1. PICK n \in Nat : n = Len(scopes)
    BY DEF IInv, ScopeInv
  <2>2. vhosts \in Seq(Host(n)) /\ o \in AnyOpcode(n)
    BY <2>1 DEF IInv, HostInv, AnyOpcode
  <2>3. PICK at : at = compiler.last
    OBVIOUS
  <2>4. at.host = h /\ at.ruleset = j
    BY <1>1, <1>3, <2>3, LastRuleset
  <2>5. h \in 1..Len(vhosts) /\ j \in 1..Len(vhosts[h].rulesets)
    BY <1>4 DEF IsRuleset, IsHost
  <2>6. Appended(MakeOpcode(vhosts, at, o), vhosts, h, j, o)
        /\ SameScopes(MakeOpcode(vhosts, at, o), vhosts)
    BY <2>2, <2>4, <2>5, OpcodeAppended
  <2>7. vhosts' = MakeOpcode(vhosts, at, o)
    BY <1>1, <2>3
  <2> QED BY <1>1, <2>6, <2>7 DEF OpcodeMade
<1> QED BY <1>4, <1>5, OpcodeCompile

LEMMA ConditionCompile ==
  ASSUME IInv, CompileInv, NEW o \in Operations, Condition(o) PROVE CompileInv'
<1>1. /\ phase = "load" /\ place = "rewrite"
      /\ file' = WithItem(o) /\ elements' = elements + 1 /\ o.op \in Conditions
      /\ UNCHANGED <<scopes, defaultHost, phase>>
      /\ ~compiler'.inScope
      /\ compiler'.last = compiler.last /\ compiler'.scope = compiler.scope
  <2>1. DOMAIN compiler = {"inScope", "scope", "last"}
    BY DEF IInv, HostInv
  <2>2. compiler' = [compiler EXCEPT !.inScope = FALSE]
    BY DEF Condition
  <2>3. ~compiler'.inScope
        /\ compiler'.last = compiler.last /\ compiler'.scope = compiler.scope
    BY <2>1, <2>2
  <2> QED BY <2>3 DEF Condition, MayRead, Read
<1>2. o \in Item
  BY DEF Item
<1>3. PICK h \in Nat, j \in Nat : h = Here /\ j = LastOf(Here)
  BY <1>1, LastRuleset
<1>4. ItemRead(h, j, o) /\ IsRuleset(h, j) /\ IsLast(h, j)
  BY <1>1, <1>2, <1>3, ItemIsRead, LastRuleset
<1>5. h \in 1..Len(vhosts) /\ j \in 1..Len(vhosts[h].rulesets)
  BY <1>4 DEF IsRuleset, IsHost
<1>6. PICK n \in Nat : n = Len(scopes)
  BY DEF IInv, ScopeInv
<1>7. vhosts \in Seq(Host(n)) /\ o \in AnyOpcode(n)
  BY <1>6 DEF IInv, HostInv, AnyOpcode
<1>8. PICK at : at = compiler.last
  OBVIOUS
<1>9. at.host = h /\ at.ruleset = j
  BY <1>1, <1>3, <1>8, LastRuleset
<1>10. CASE ~compiler.inScope
  <2>1. vhosts' = MakeOpcode(vhosts, at, o)
    BY <1>8, <1>10 DEF Condition
  <2>2. Appended(MakeOpcode(vhosts, at, o), vhosts, h, j, o)
        /\ SameScopes(MakeOpcode(vhosts, at, o), vhosts)
    BY <1>5, <1>7, <1>9, OpcodeAppended
  <2>3. OpcodeMade(h, j, o)
    BY <1>1, <1>10, <2>1, <2>2 DEF OpcodeMade
  <2> QED BY <1>4, <2>3, OpcodeCompile
<1>11. CASE compiler.inScope
  <2>1. PICK act \in AnyOpcode(n) : act = Opcode("ACTIVATE_SCOPE", "", vhosts[Here].scope)
    <3>1. vhosts[Here].scope \in 2..n
      BY <1>3, <1>4, <1>6, LastRuleset, HereIsHost, <1>1
    <3> QED BY <3>1 DEF Opcode, AnyOpcode
  <2>2. PICK pending : pending = MakeOpcode(vhosts, at, act)
    OBVIOUS
  <2>3. vhosts' = MakeOpcode(pending, at, o)
    BY <1>8, <1>11, <2>1, <2>2 DEF Condition
  <2>4. pending \in Seq(Host(n)) /\ Len(pending) = Len(vhosts)
    BY <1>7, <2>2, MadeOpcode
  <2>5. Appended(pending, vhosts, h, j, act) /\ SameScopes(pending, vhosts)
    BY <1>5, <1>7, <1>9, <2>2, OpcodeAppended
  <2>6. h \in 1..Len(pending) /\ j \in 1..Len(pending[h].rulesets)
    BY <1>5, <2>4, <2>5 DEF Appended
  <2>7. Appended(MakeOpcode(pending, at, o), pending, h, j, o)
        /\ SameScopes(MakeOpcode(pending, at, o), pending)
    BY <1>7, <1>9, <2>4, <2>6, OpcodeAppended
  <2>8. /\ Len(vhosts') = Len(vhosts)
        /\ \A i \in 1..Len(vhosts) : /\ vhosts'[i].scope = vhosts[i].scope
                                     /\ Len(vhosts'[i].rulesets) = Len(vhosts[i].rulesets)
    BY <2>3, <2>4, <2>5, <2>7 DEF Appended, SameScopes
  <2>9. ShapeKept
    BY <1>1, <1>11, <2>8 DEF ShapeKept, IsHost
  <2>10. ~Orderly'
    <3> SUFFICES ASSUME Orderly' PROVE FALSE
      OBVIOUS
    <3>1. /\ FileInv /\ file.hosts \in Seq(FileHost) /\ file'.hosts \in Seq(FileHost)
          /\ Grown(file'.hosts, file.hosts) /\ ItemAdded(h, j, o)
      BY <1>4, ItemGrown DEF CompileInv, FileInv, ItemRead
    <3>2. Orderly /\ AllFirst(file'.hosts)
      BY <3>1, OrderlyBefore
    <3>3. RulesetInv(h, j)
      BY <1>4, <3>2 DEF CompileInv, RulesetsInv
    <3>4. Pending(h, j)
      BY <1>4, <1>11 DEF Pending
    <3>5. HasSetting(ItemsOf(h, j))
      BY <3>3, <3>4 DEF RulesetInv
    <3>6. PICK items \in Seq(Item) : items = ItemsOf(h, j)
      BY <1>4, <3>1, RulesetTypes
    <3>7. ItemsOf(h, j)' = Append(items, o)
      BY <1>4, <3>1, <3>6 DEF ItemAdded
    <3>8. ConditionsFirst(ItemsOf(h, j)')
      <4>1. h \in 1..Len(file'.hosts) /\ j \in 1..Len(file'.hosts[h].rulesets)
        <5>1. h \in 1..Len(file.hosts) /\ j \in 1..Len(file.hosts[h].rulesets)
          BY <1>4, <3>1, RulesetTypes
        <5> QED BY <1>4, <5>1 DEF ItemRead, Appended
      <4> QED BY <3>2, <4>1 DEF AllFirst, ItemsOf
    <3>9. ConditionsFirst(Append(items, o))
      BY <3>7, <3>8
    <3> QED BY <1>1, <1>2, <3>5, <3>6, <3>9, FirstBefore
  <2> QED BY <1>4, <2>9, <2>10, OpcodeKeeps DEF CompileInv
<1> QED BY <1>10, <1>11

(* A setting is read into the scope of its ruleset.                        *)
SettingRead(s, v, sc) ==
  /\ sc \in 2..Len(scopes')
  /\ \/ compiler.inScope /\ sc = compiler.scope /\ Len(scopes') = Len(scopes)
     \/ ~compiler.inScope /\ sc = Len(scopes) + 1 /\ Len(scopes') = Len(scopes) + 1
  /\ scopes'[sc] = With(IF compiler.inScope THEN scopes[sc] ELSE Empty, s, v)
  /\ \A i \in 2..Len(scopes) : i # sc => scopes'[i] = scopes[i]
  /\ compiler'.inScope /\ compiler'.scope = sc /\ compiler'.last = compiler.last
  /\ UNCHANGED <<vhosts, defaultHost, phase>>
  /\ phase = "load" /\ elements' = elements + 1 /\ elements \in Nat

LEMMA SettingIsRead ==
  ASSUME IInv, NEW s \in RulesetSettings, RulesetSetting(s)
  PROVE  \E sc \in Nat : SettingRead(s, NewValue, sc)
<1>1. /\ phase = "load" /\ phase' = phase /\ elements \in Nat /\ elements' = elements + 1
      /\ NewValue \in Nat /\ UNCHANGED <<vhosts, defaultHost>> /\ s \in Setting
  BY Reading, Constants DEF RulesetSetting, Read, IInv
<1>2. DOMAIN compiler = {"inScope", "scope", "last"}
  BY DEF IInv, HostInv
<1>3. PICK n \in Nat : n = Len(scopes) /\ n > 0
  BY DEF IInv, ScopeInv
<1>4. scopes \in Seq(Scope)
  BY DEF IInv, ScopeInv
<1>5. PICK v \in Nat : v = NewValue
  BY <1>1
<1>6. CASE compiler.inScope
  <2>1. PICK sc \in 1..Len(scopes) : sc = compiler.scope /\ sc \in 2..Len(scopes)
    BY <1>3, <1>6 DEF IInv, HostInv
  <2>2. scopes' = AddValue(scopes, sc, s, v)
    BY <1>5, <1>6, <2>1 DEF RulesetSetting
  <2>3. /\ Len(AddValue(scopes, sc, s, v)) = Len(scopes)
        /\ \A i \in 1..Len(scopes) :
             AddValue(scopes, sc, s, v)[i] = IF i = sc THEN With(scopes[sc], s, v) ELSE scopes[i]
    BY <1>1, <1>4, AddValueScopes
  <2>4. compiler'.inScope /\ compiler'.scope = sc /\ compiler'.last = compiler.last
    <3>1. compiler' = [compiler EXCEPT !.inScope = TRUE, !.scope = sc]
      BY <1>6, <2>1 DEF RulesetSetting
    <3> QED BY <1>2, <3>1
  <2>5. sc \in 2..Len(scopes') /\ Len(scopes') = Len(scopes)
    BY <2>1, <2>2, <2>3
  <2>6. scopes'[sc] = With(scopes[sc], s, v)
    BY <2>2, <2>3
  <2>7. \A i \in 2..Len(scopes) : i # sc => scopes'[i] = scopes[i]
    BY <1>3, <2>2, <2>3
  <2> QED BY <1>1, <1>5, <1>6, <2>1, <2>4, <2>5, <2>6, <2>7 DEF SettingRead
<1>7. CASE ~compiler.inScope
  <2>1. PICK all \in Seq(Scope) : all = AddScope(scopes)
    BY <1>4, AddScopeScopes
  <2>2. /\ Len(all) = n + 1
        /\ \A i \in 1..n : all[i] = scopes[i]
        /\ all[n + 1] = Empty
    BY <1>3, <1>4, <2>1, AddScopeScopes
  <2>3. PICK sc \in 1..Len(all) : sc = n + 1
    BY <2>2
  <2>4. scopes' = AddValue(all, sc, s, v)
    BY <1>5, <1>7, <2>1, <2>2, <2>3 DEF RulesetSetting
  <2>5. /\ Len(AddValue(all, sc, s, v)) = Len(all)
        /\ \A i \in 1..Len(all) :
             AddValue(all, sc, s, v)[i] = IF i = sc THEN With(all[sc], s, v) ELSE all[i]
    BY <1>1, AddValueScopes
  <2>6. compiler'.inScope /\ compiler'.scope = sc /\ compiler'.last = compiler.last
    <3>1. compiler' = [compiler EXCEPT !.inScope = TRUE, !.scope = sc]
      BY <1>7, <2>1, <2>2, <2>3 DEF RulesetSetting
    <3> QED BY <1>2, <3>1
  <2>7. Len(scopes') = n + 1 /\ sc \in 2..Len(scopes')
    BY <1>3, <2>2, <2>3, <2>4, <2>5
  <2>8. scopes'[sc] = With(Empty, s, v)
    BY <2>2, <2>3, <2>4, <2>5
  <2>9. \A i \in 2..n : scopes'[i] = scopes[i]
    BY <2>2, <2>3, <2>4, <2>5
  <2> QED BY <1>1, <1>3, <1>5, <1>7, <2>3, <2>6, <2>7, <2>8, <2>9 DEF SettingRead
<1> QED BY <1>6, <1>7

LEMMA RulesetSettingCompile ==
  ASSUME IInv, CompileInv, NEW s \in RulesetSettings, RulesetSetting(s)
  PROVE  CompileInv'
<1>1. place = "rewrite" /\ place' = "rewrite" /\ NewValue \in Nat
      /\ file' = WithItem(Opcode("SETTING", s, NewValue))
  BY Reading DEF RulesetSetting, MayRead, Read, IInv
<1>2. PICK v \in Nat : v = NewValue
  BY <1>1
<1>3. PICK item \in Item : /\ item = Opcode("SETTING", s, v)
                           /\ item.op = "SETTING" /\ item.name = s /\ item.value = v
  <2>1. PICK item : item = Opcode("SETTING", s, v)
    OBVIOUS
  <2>2. item = [op |-> "SETTING", name |-> s, value |-> v]
    BY <2>1 DEF Opcode
  <2>3. item \in [op : {"SETTING"}, name : RulesetSettings, value : Nat]
    BY <2>2
  <2>4. item \in Item /\ item.op = "SETTING" /\ item.name = s /\ item.value = v
    BY <2>2, <2>3 DEF Item
  <2> QED BY <2>1, <2>4
<1>4. PICK h \in Nat, j \in Nat : h = Here /\ j = LastOf(Here)
  BY <1>1, LastRuleset
<1>5. /\ ItemRead(h, j, item) /\ IsRuleset(h, j) /\ IsLast(h, j)
      /\ compiler.last.host = h /\ compiler.last.ruleset = j
  BY <1>1, <1>2, <1>3, <1>4, ItemIsRead, LastRuleset
<1>6. PICK sc \in Nat : SettingRead(s, v, sc)
  BY <1>2, SettingIsRead
<1>7. /\ sc \in 2..Len(scopes') /\ Len(scopes) \in Nat /\ elements \in Nat
      /\ \/ compiler.inScope /\ sc = compiler.scope /\ Len(scopes') = Len(scopes)
         \/ ~compiler.inScope /\ sc = Len(scopes) + 1 /\ Len(scopes') = Len(scopes) + 1
      /\ scopes'[sc] = With(IF compiler.inScope THEN scopes[sc] ELSE Empty, s, v)
      /\ \A i \in 2..Len(scopes) : i # sc => scopes'[i] = scopes[i]
      /\ compiler'.inScope /\ compiler'.scope = sc /\ compiler'.last = compiler.last
      /\ vhosts' = vhosts /\ defaultHost' = defaultHost /\ phase = "load" /\ phase' = "load"
      /\ elements' = elements + 1
  BY <1>6 DEF SettingRead, IInv, ScopeInv
<1>8. FileInv /\ DefaultInv /\ CompilerInv
  BY DEF CompileInv
<1>9. /\ \A i \in Nat : IsHost(i)' <=> IsHost(i)
      /\ \A i, k \in Nat : IsRuleset(i, k)' <=> IsRuleset(i, k)
      /\ \A i, k \in Nat : /\ OpcodesOf(i, k)' = OpcodesOf(i, k)
                           /\ (IsLast(i, k)' <=> IsLast(i, k))
                           /\ (IsLast(i, k) <=> i = h /\ k = j)
                           /\ (Pending(i, k)' <=> i = h /\ k = j)
                           /\ (Pending(i, k) <=> compiler.inScope /\ i = h /\ k = j)
  BY <1>5, <1>7 DEF IsHost, IsRuleset, OpcodesOf, IsLast, Pending
<1>10. /\ Len(file'.hosts) = Len(file.hosts) /\ file'.hosts \in Seq(FileHost)
       /\ Grown(file'.hosts, file.hosts) /\ ItemAdded(h, j, item)
       /\ \A i \in Nat : IsHost(i) =>
            /\ file'.hosts[i].settings = file.hosts[i].settings
            /\ (file'.hosts[i].default <=> file.hosts[i].default)
            /\ Len(file'.hosts[i].rulesets) = Len(file.hosts[i].rulesets)
  BY <1>5, <1>8, ItemGrown DEF ItemRead
<1>11. ASSUME NEW i \in Nat, IsHost(i)
       PROVE  /\ vhosts[i].scope \in 2..Len(scopes) /\ vhosts[i].scope # sc
              /\ scopes'[vhosts[i].scope] = scopes[vhosts[i].scope]
              /\ Len(vhosts[i].rulesets) \in Nat
  <2>1. vhosts[i] \in Host(Len(scopes))
    BY <1>11 DEF IsHost, IInv, HostInv
  <2>2. vhosts[i].scope \in 2..Len(scopes) /\ Len(vhosts[i].rulesets) \in Nat
    BY <2>1 DEF Host
  <2>3. vhosts[i].scope # sc
    <3>1. CASE compiler.inScope
      BY <1>7, <1>8, <1>11, <3>1 DEF CompilerInv
    <3>2. CASE ~compiler.inScope
      BY <1>7, <2>2, <3>2
    <3> QED BY <3>1, <3>2
  <2> QED BY <1>7, <2>2, <2>3
<1>12. FileInv'
  <2>1. ASSUME NEW i \in Nat, IsHost(i)' PROVE HostMade(i)'
    <3>1. IsHost(i)
      BY <1>9, <2>1
    <3>2. /\ Len(file.hosts[i].rulesets) = Len(vhosts[i].rulesets)
          /\ Len(vhosts[i].rulesets) <= elements
          /\ scopes[vhosts[i].scope] = file.hosts[i].settings
      BY <1>8, <3>1 DEF FileInv, HostMade
    <3>3. Len(file'.hosts[i].rulesets) = Len(vhosts'[i].rulesets)
          /\ scopes'[vhosts'[i].scope] = file'.hosts[i].settings
      BY <1>7, <1>10, <1>11, <3>1, <3>2
    <3>4. Len(vhosts'[i].rulesets) <= elements'
      BY <1>7, <1>11, <3>1, <3>2, SMTT(30)
    <3> QED BY <3>3, <3>4 DEF HostMade
  <2>2. \A i, k \in Nat : IsHost(i)' /\ IsHost(k)' /\ vhosts'[i].scope = vhosts'[k].scope => i = k
    BY <1>7, <1>8, <1>9 DEF FileInv
  <2>3. Len(file'.hosts) = Len(vhosts')
    BY <1>7, <1>8, <1>10 DEF FileInv
  <2> QED BY <1>10, <2>1, <2>2, <2>3 DEF FileInv
<1>13. DefaultInv'
  BY <1>7, <1>8, <1>9, <1>10 DEF DefaultInv
<1>14. CompilerInv'
  <2>1. compiler'.last \in [host : Nat, ruleset : Nat]
    BY <1>7, <1>8 DEF CompilerInv
  <2>2. \A i, k \in Nat : Pending(i, k)' => IsRuleset(i, k)'
    BY <1>5, <1>9
  <2>3. \A i \in Nat : IsHost(i)' => vhosts'[i].scope # compiler'.scope
    BY <1>7, <1>9, <1>11
  <2>4. LastOf(Here)' > 0 /\ IsLast(Here, LastOf(Here))'
    <3>1. LastOf(Here) > 0 /\ IsLast(Here, LastOf(Here))
      BY <1>1, <1>8 DEF CompilerInv
    <3>2. Here' = Here /\ LastOf(Here)' = LastOf(Here)
      BY <1>7 DEF Here, LastOf
    <3> QED BY <1>7, <3>1, <3>2 DEF IsLast
  <2> QED BY <1>7, <2>1, <2>2, <2>3, <2>4 DEF CompilerInv
<1>15. ASSUME Orderly' PROVE RulesetsInv' /\ OwnersInv'
  <2>1. Orderly
    <3>1. file.hosts \in Seq(FileHost)
      BY <1>8 DEF FileInv
    <3> QED BY <1>10, <1>15, <3>1, OrderlyBefore
  <2>2. RulesetsInv /\ OwnersInv
    BY <2>1 DEF CompileInv
  <2>3. ASSUME NEW i \in Nat, NEW k \in Nat, IsRuleset(i, k), ScopeOf(i, k) # 0
        PROVE  /\ ScopeOf(i, k) \in 2..Len(scopes)
               /\ DOMAIN scopes[ScopeOf(i, k)] \subseteq RulesetSettings
               /\ \A x \in Nat : IsHost(x) => vhosts[x].scope # ScopeOf(i, k)
               /\ \A x, y \in Nat : IsRuleset(x, y) /\ ScopeOf(x, y) = ScopeOf(i, k)
                                      => x = i /\ y = k
    BY <2>2, <2>3 DEF OwnersInv, ScopeOfsInv, ScopeOfInv
  <2>4. \A k \in 1..Len(OpcodesOf(h, j)) : OpcodesOf(h, j)[k].op # "ACTIVATE_SCOPE"
    BY <1>5, <1>7, <2>2 DEF RulesetsInv, RulesetInv, OpcodesInv
  <2>5. PICK items \in Seq(Element), opcodes \in Seq(Element) :
          items = ItemsOf(h, j) /\ opcodes = OpcodesOf(h, j)
    BY <1>5, <1>8, RulesetTypes
  <2>6. ScopeOf(h, j) = (IF compiler.inScope THEN sc ELSE 0) /\ ScopeOf(h, j)' = sc
    <3>1. Activated(opcodes) = 0
      <4>1. Len(opcodes) > 0 => Len(opcodes) \in 1..Len(opcodes)
        OBVIOUS
      <4> QED BY <2>4, <2>5, <4>1 DEF Activated, Activating
    <3> QED BY <1>7, <1>9, <2>5, <3>1 DEF ScopeOf
  <2>7. ASSUME NEW i \in Nat, NEW k \in Nat, IsRuleset(i, k), ~(i = h /\ k = j)
        PROVE  ScopeOf(i, k)' = ScopeOf(i, k) /\ ScopeOf(i, k) # sc
    <3>1. ScopeOf(i, k)' = ScopeOf(i, k)
      BY <1>9, <2>7 DEF ScopeOf
    <3>2. CASE compiler.inScope
      <4>1. ScopeOf(h, j) = sc /\ sc # 0
        BY <1>7, <2>6, <3>2
      <4> QED BY <1>5, <2>3, <2>7, <3>1, <4>1
    <3>3. CASE ~compiler.inScope
      <4>1. sc = Len(scopes) + 1 /\ sc # 0
        BY <1>7, <3>3
      <4>2. ScopeOf(i, k) # 0 => ScopeOf(i, k) \in 2..Len(scopes)
        BY <2>3, <2>7
      <4>3. sc \notin 2..Len(scopes)
        BY <1>7, <4>1
      <4> QED BY <3>1, <4>1, <4>2, <4>3
    <3> QED BY <3>2, <3>3
  <2>8. ASSUME NEW i \in Nat, NEW k \in Nat, IsRuleset(i, k), ~(i = h /\ k = j)
        PROVE  RulesetInv(i, k)'
    <3>1. ItemsOf(i, k)' = ItemsOf(i, k)
      BY <1>10, <2>8 DEF ItemAdded
    <3>2. OpcodesOf(i, k)' = OpcodesOf(i, k) /\ ~Pending(i, k)' /\ ~IsLast(i, k)'
      BY <1>9, <2>8
    <3>3. ItemsOf(i, k) \in Seq(Element) /\ OpcodesOf(i, k) \in Seq(Element)
      BY <1>8, <2>8, RulesetTypes
    <3>4. elements' \in Nat /\ elements <= elements' /\ elements \in Nat
      BY <1>7
    <3>5. RulesetInv(i, k)
      BY <2>2, <2>8 DEF RulesetsInv
    <3>6. ScopeOf(i, k)' = ScopeOf(i, k)
      BY <2>7, <2>8
    <3>7. ValuesIn(scopes', ScopeOf(i, k)) = ValuesIn(scopes, ScopeOf(i, k))
      BY <1>7, <2>3, <2>7, <2>8 DEF ValuesIn
    <3> QED BY <3>1, <3>2, <3>3, <3>4, <3>5, <3>6, <3>7, RulesetAlone
  <2>9. RulesetInv(h, j)'
    <3>1. ItemsOf(h, j)' = Append(items, item) /\ OpcodesOf(h, j)' = opcodes
      BY <1>5, <1>9, <1>10, <2>5 DEF ItemAdded
    <3>2. /\ Compiled(items, opcodes, ValuesIn(scopes, ScopeOf(h, j)))
          /\ Len(opcodes) + (IF Pending(h, j) THEN 1 ELSE 0) <= Len(items)
          /\ Len(items) <= elements
      BY <1>5, <2>2, <2>5 DEF RulesetsInv, RulesetInv
    <3>3. PICK values \in Scope : /\ values = ValuesIn(scopes, ScopeOf(h, j))
                                  /\ values = IF compiler.inScope THEN scopes[sc] ELSE Empty
      <4>1. CASE compiler.inScope
        <5>1. scopes[sc] \in Scope
          <6>1. sc \in 1..Len(scopes)
            BY <1>7, <4>1
          <6> QED BY <6>1 DEF IInv, ScopeInv
        <5>2. sc # 0
          BY <1>7
        <5> QED BY <2>6, <4>1, <5>1, <5>2 DEF ValuesIn
      <4>2. CASE ~compiler.inScope
        BY <2>6, <4>2, EmptyScope DEF ValuesIn
      <4> QED BY <4>1, <4>2
    <3>4. Compiled(Append(items, item), opcodes, With(values, item.name, item.value))
      <4>1. item \in Element /\ item.op = "SETTING"
        BY <1>3 DEF Element
      <4> QED BY <3>2, <3>3, <4>1, CompiledSetting
    <3>5. ValuesIn(scopes', sc) = With(values, item.name, item.value)
      <4>1. sc # 0
        BY <1>7
      <4> QED BY <1>3, <1>7, <3>3, <4>1 DEF ValuesIn
    <3>6. Compiled(ItemsOf(h, j)', OpcodesOf(h, j)', ValuesIn(scopes', ScopeOf(h, j)'))
      BY <2>6, <3>1, <3>4, <3>5
    <3>7. OpcodesInv(h, j)'
      BY <2>4, <2>5, <3>1 DEF OpcodesInv
    <3>8. PICK read : read = Append(items, item)
      OBVIOUS
    <3>9. /\ Len(read) = Len(items) + 1 /\ Len(items) \in Nat /\ Len(opcodes) \in Nat
          /\ read[Len(items) + 1] = item
      BY <3>8
    <3>10. HasSetting(ItemsOf(h, j)')
      <4>1. Len(read) \in 1..Len(read) /\ read[Len(read)].op = "SETTING"
        BY <1>3, <3>9
      <4> QED BY <3>1, <3>8, <4>1 DEF HasSetting
    <3>11. /\ Len(OpcodesOf(h, j)') + (IF Pending(h, j)' THEN 1 ELSE 0) <= Len(ItemsOf(h, j)')
           /\ Len(ItemsOf(h, j)') <= elements'
      <4>1. Len(opcodes) + 1 <= Len(read) /\ Len(read) <= elements'
        BY <1>7, <3>2, <3>9
      <4>2. Pending(h, j)'
        BY <1>9
      <4> QED BY <3>1, <3>8, <4>1, <4>2
    <3> QED BY <3>6, <3>7, <3>10, <3>11 DEF RulesetInv, HasSetting
  <2>10. RulesetsInv'
    BY <1>9, <2>8, <2>9 DEF RulesetsInv
  <2>11. ASSUME NEW i \in Nat, NEW k \in Nat, IsRuleset(i, k)', ScopeOf(i, k)' # 0
         PROVE  /\ ScopeOf(i, k)' \in 2..Len(scopes')
                /\ DOMAIN scopes'[ScopeOf(i, k)'] \subseteq RulesetSettings
                /\ \A x \in Nat : IsHost(x)' => vhosts'[x].scope # ScopeOf(i, k)'
                /\ \A x, y \in Nat : IsRuleset(x, y)' /\ ScopeOf(x, y)' = ScopeOf(i, k)'
                                       => x = i /\ y = k
    <3>1. IsRuleset(i, k)
      BY <1>9, <2>11
    <3>2. CASE i = h /\ k = j
      <4>1. ScopeOf(i, k)' = sc
        BY <2>6, <3>2
      <4>2. DOMAIN scopes'[sc] \subseteq RulesetSettings
        <5>1. PICK values : /\ values = IF compiler.inScope THEN scopes[sc] ELSE Empty
                            /\ scopes'[sc] = With(values, s, v)
          BY <1>7
        <5>2. DOMAIN values \subseteq RulesetSettings
          <6>1. CASE compiler.inScope
            <7>1. ScopeOf(h, j) = sc /\ sc # 0
              BY <1>7, <2>6, <6>1
            <7> QED BY <1>5, <2>3, <5>1, <6>1, <7>1
          <6>2. CASE ~compiler.inScope
            BY <5>1, <6>2, EmptyScope
          <6> QED BY <6>1, <6>2
        <5>3. DOMAIN With(values, s, v) = DOMAIN values \union {s}
          BY DEF With
        <5> QED BY <5>1, <5>2, <5>3
      <4>3. \A x \in Nat : IsHost(x)' => vhosts'[x].scope # sc
        BY <1>7, <1>9, <1>11
      <4>4. \A x, y \in Nat : IsRuleset(x, y)' /\ ScopeOf(x, y)' = sc => x = h /\ y = j
        BY <1>9, <2>7
      <4> QED BY <1>7, <3>2, <4>1, <4>2, <4>3, <4>4
    <3>3. CASE ~(i = h /\ k = j)
      <4>1. ScopeOf(i, k)' = ScopeOf(i, k) /\ ScopeOf(i, k) # sc
        BY <2>7, <3>1, <3>3
      <4>2. /\ ScopeOf(i, k) \in 2..Len(scopes)
            /\ DOMAIN scopes[ScopeOf(i, k)] \subseteq RulesetSettings
            /\ \A x \in Nat : IsHost(x) => vhosts[x].scope # ScopeOf(i, k)
            /\ \A x, y \in Nat : IsRuleset(x, y) /\ ScopeOf(x, y) = ScopeOf(i, k)
                                   => x = i /\ y = k
        BY <2>3, <2>11, <3>1, <4>1
      <4>3. scopes'[ScopeOf(i, k)] = scopes[ScopeOf(i, k)] /\ ScopeOf(i, k) \in 2..Len(scopes')
        BY <1>7, <4>1, <4>2
      <4>4. ASSUME NEW x \in Nat, NEW y \in Nat, IsRuleset(x, y)', ScopeOf(x, y)' = ScopeOf(i, k)
            PROVE  x = i /\ y = k
        <5>1. IsRuleset(x, y)
          BY <1>9, <4>4
        <5>2. CASE x = h /\ y = j
          BY <2>6, <4>1, <4>4, <5>2
        <5>3. CASE ~(x = h /\ y = j)
          BY <2>7, <4>2, <4>4, <5>1, <5>3
        <5> QED BY <5>2, <5>3
      <4>5. \A x \in Nat : IsHost(x)' => vhosts'[x].scope # ScopeOf(i, k)
        BY <1>7, <1>9, <4>2
      <4> QED BY <4>1, <4>2, <4>3, <4>4, <4>5
    <3> QED BY <3>2, <3>3
  <2>12. ScopeOfsInv'
    BY <2>11 DEF ScopeOfsInv, ScopeOfInv
  <2>13. ASSUME NEW i \in 2..Len(scopes') PROVE Owned(i)'
    <3>1. CASE i = sc
      BY <1>5, <1>9, <2>6, <3>1 DEF Owned
    <3>2. CASE i # sc
      <4>1. i \in 2..Len(scopes)
        BY <1>7, <3>2
      <4>2. Owned(i)
        BY <2>2, <4>1 DEF OwnersInv
      <4>3. ASSUME NEW x \in Nat, IsHost(x), vhosts[x].scope = i PROVE Owned(i)'
        BY <1>7, <1>9, <4>3 DEF Owned
      <4>4. ASSUME NEW x \in Nat, NEW y \in Nat, IsRuleset(x, y), ScopeOf(x, y) = i
            PROVE  Owned(i)'
        <5>1. IsRuleset(x, y)' /\ ScopeOf(x, y)' = i
          <6>1. CASE x = h /\ y = j
            <7>1. i # 0
              BY <4>1, <1>7
            <7> QED BY <2>6, <3>2, <4>4, <6>1, <7>1
          <6>2. CASE ~(x = h /\ y = j)
            BY <1>9, <2>7, <4>4, <6>2
          <6> QED BY <6>1, <6>2
        <5> QED BY <5>1 DEF Owned
      <4> QED BY <4>2, <4>3, <4>4 DEF Owned
    <3> QED BY <3>1, <3>2
  <2> QED BY <2>10, <2>12, <2>13 DEF OwnersInv
<1> QED BY <1>12, <1>13, <1>14, <1>15 DEF CompileInv

LEMMA LoadCompile == ASSUME IInv, CompileInv, Load PROVE CompileInv'
<1>1. ASSUME Fail, phase \in {"load", "loaded"} PROVE CompileInv'
  <2>1. phase' = "failed" /\ UNCHANGED <<scopes, vhosts, defaultHost, compiler, file, elements, place>>
    BY <1>1 DEF Fail, configurationVars, loading
  <2>2. elements \in Nat
    BY DEF IInv, HostInv
  <2> QED BY <2>1, <2>2, SettledKeeps
<1>2. SecondDefault \/ NoDefault \/ (\E o \in Operations : SetReadOnly(o)) => CompileInv'
  BY <1>1 DEF SecondDefault, NoDefault, SetReadOnly, MayRead
<1>3. (\E named, default \in BOOLEAN : VirtualHost(named, default)) => CompileInv'
  BY VirtualHostCompile
<1>4. (\E o \in Operations : Condition(o) \/ Statement(o)) => CompileInv'
  BY ConditionCompile, StatementCompile
<1> QED BY <1>2, <1>3, <1>4, RootSettingCompile, VirtualHostSettingCompile, RulesetCompile,
           RulesetSettingCompile, EndOfFileCompile, CheckCompile DEF Load

LEMMA ServeFrame == ASSUME IInv, Serve PROVE Frame /\ phase = "running"
<1>1. handler # NULL => phase = "running"
  BY DEF IInv, RequestInv
<1>2. ASSUME NEW r \in Request, NEW name \in 0..Len(vhosts), NEW version \in Versions,
             HandleHeader(r, name, version)
      PROVE  Frame /\ phase = "running"
  BY <1>2 DEF HandleHeader, MayBegin, Begin, Frame
<1>3. ASSUME Execute PROVE Frame /\ phase = "running"
  BY <1>1, <1>3 DEF Execute, IsEqual, Set, Call, ExecuteActivateScope, EndOfRuleset,
         EndOfRulesets, InRuleset, Rewriting, UnchangedByHandler, Frame
<1>4. ASSUME NEW r \in Request, Output(r) \/ OnClientRead(r) \/ OnClientHangup(r)
      PROVE  Frame /\ phase = "running"
  BY <1>4 DEF Output, OnClientRead, OnClientHangup, MayBeginFor, MayBegin, BeginScoped,
         Begin, Frame
<1>5. ASSUME NEW r \in Request, EndRequest(r) \/ OnRemoteHangup(r) \/ AnswerWritten(r)
      PROVE  Frame /\ phase = "running"
  BY <1>5 DEF EndRequest, OnRemoteHangup, AnswerWritten, MayBeginFor, MayBegin, Unscoped,
         BeginUnscoped, Begin, configurationVars, Frame
<1>6. ASSUME ServeContent \/ Exception \/ EndOutput \/ AbortRequest
      PROVE  Frame /\ phase = "running"
  BY <1>1, <1>6 DEF ServeContent, Exception, EndOutput, AbortRequest, At, Unscoping, Frame
<1>7. ASSUME EndClientRead \/ AlreadyFinished PROVE Frame /\ phase = "running"
  BY <1>1, <1>7 DEF EndClientRead, AlreadyFinished, At, Leaving, configurationVars, Frame
<1>8. ASSUME EndAnswer \/ EndGateway PROVE Frame /\ phase = "running"
  BY <1>1, <1>8 DEF EndAnswer, EndGateway, At, EndUnscoped, configurationVars, Frame
<1> QED BY <1>2, <1>3, <1>4, <1>5, <1>6, <1>7, <1>8 DEF Serve

(* Once the server runs, or nothing happens, hosts and rulesets stay.      *)
LEMMA NothingCompiled ==
  ASSUME IInv, CompileInv, Serve \/ Unload \/ UNCHANGED vars PROVE CompileInv'
<1>1. elements \in Nat
  BY DEF IInv, HostInv
<1>2. UNCHANGED <<scopes, vhosts, defaultHost, compiler, file, elements, place>>
  <2>1. CASE Serve
    BY <2>1, ServeFrame DEF Frame, loading
  <2>2. CASE Unload
    BY <2>2 DEF Unload, configurationVars, loading
  <2>3. CASE UNCHANGED vars
    BY <2>3 DEF vars, configurationVars, loading
  <2> QED BY <2>1, <2>2, <2>3
<1>3. phase' = phase \/ (phase = "running" /\ phase' = "unloaded")
  <2>1. CASE Serve
    BY <2>1, ServeFrame DEF Frame
  <2>2. CASE Unload
    BY <2>2 DEF Unload, MayBegin
  <2>3. CASE UNCHANGED vars
    BY <2>3 DEF vars
  <2> QED BY <2>1, <2>2, <2>3
<1> QED BY <1>1, <1>2, <1>3, SettledKeeps

(* However the file is laid out, the compiler has kept to it.              *)
LEMMA CompileInvariance == Spec => []CompileInv
<1>1. IInv /\ CompileInv /\ [Next]_vars => CompileInv'
  BY LoadCompile, NothingCompiled DEF Next
<1> QED BY <1>1, InitCompile, Invariance, PTL DEF Spec

-----------------------------------------------------------------------------
(* Unloading.                                                              *)

(* An opcode that activates a scope is the last of the ruleset the scope   *)
(* belongs to.                                                             *)
LEMMA ActivatesLast ==
  ASSUME IInv, CompileInv, Orderly, phase = "running",
         NEW h \in 1..Len(vhosts), NEW j \in Nat, NEW k \in Nat, NEW i \in Nat,
         Activates(h, j, k, i)
  PROVE  /\ h \in Nat /\ IsRuleset(h, j) /\ ScopeOf(h, j) = i /\ i \in 2..Len(scopes)
         /\ k = Len(OpcodesOf(h, j))
<1>1. RulesetsInv /\ OwnersInv /\ FileInv /\ CompilerInv
  BY DEF CompileInv
<1>2. vhosts \in Seq(Host(Len(scopes))) /\ Len(scopes) \in Nat
  BY DEF IInv, HostInv, ScopeInv
<1>3. vhosts[h] \in Host(Len(scopes))
  BY <1>2
<1>4. vhosts[h].rulesets \in Seq(Seq(AnyOpcode(Len(scopes))))
  BY <1>3 DEF Host
<1>a. PICK made : made = Opcode("ACTIVATE_SCOPE", "", i)
  OBVIOUS
<1>b. made.op = "ACTIVATE_SCOPE" /\ made.value = i
  BY <1>a DEF Opcode
<1>c. /\ j \in DOMAIN vhosts[h].rulesets /\ k \in DOMAIN vhosts[h].rulesets[j]
      /\ vhosts[h].rulesets[j][k] = made
  BY <1>a DEF Activates
<1> HIDE DEF Activates
<1>5. h \in Nat /\ j \in 1..Len(vhosts[h].rulesets)
  BY <1>4, <1>c
<1>d. IsRuleset(h, j)
  BY <1>5 DEF IsRuleset, IsHost
<1>6. PICK opcodes \in Seq(AnyOpcode(Len(scopes))) : opcodes = vhosts[h].rulesets[j]
  BY <1>4, <1>5
<1>e. opcodes = OpcodesOf(h, j)
  BY <1>6 DEF OpcodesOf
<1>7. k \in 1..Len(opcodes) /\ opcodes[k] = made
  BY <1>6, <1>c
<1>8. opcodes[k].op = "ACTIVATE_SCOPE" /\ opcodes[k].value = i
  BY <1>7, <1>b
<1>9. k = Len(opcodes)
  <2>1. OpcodesInv(h, j)
    BY <1>1, <1>5, <1>d DEF RulesetsInv, RulesetInv
  <2> QED BY <1>e, <1>7, <1>8, <2>1 DEF OpcodesInv
<1>10. Activated(opcodes) = i
  BY <1>7, <1>8, <1>9 DEF Activated, Activating
<1>11. ~compiler.inScope
  BY <1>1 DEF CompilerInv
<1>12. ScopeOf(h, j) = i
  BY <1>e, <1>10, <1>11 DEF ScopeOf, Pending
<1>13. opcodes[k].value \in 2..Len(scopes)
  <2>1. opcodes[k] \in AnyOpcode(Len(scopes))
    BY <1>7
  <2>2. \A o \in Operations : o.op # "ACTIVATE_SCOPE"
    BY RewriteAssumption DEF Conditions, Opcode
  <2> QED BY <1>8, <2>1, <2>2 DEF AnyOpcode
<1> QED BY <1>5, <1>d, <1>e, <1>8, <1>9, <1>12, <1>13

LEMMA DestroyedOnce ==
  ASSUME IInv, CompileInv, Orderly, phase = "running", NEW i \in DOMAIN scopes
  PROVE  Destructions(i) = 1
<1> DEFINE opcodes == {t \in (DOMAIN vhosts) \X (1..MaxElements) \X (1..(2 * MaxElements)) :
                         Activates(t[1], t[2], t[3], i)}
           hosts == {h \in DOMAIN vhosts : vhosts[h].scope = i}
<1>1. Destructions(i) = Cardinality(opcodes) + Cardinality(hosts) + (IF i = 1 THEN 1 ELSE 0)
  BY DEF Destructions
<1>2. RulesetsInv /\ OwnersInv /\ FileInv /\ CompilerInv
  BY DEF CompileInv
<1>3. /\ i \in 1..Len(scopes) /\ Len(scopes) \in Nat
      /\ vhosts \in Seq(Host(Len(scopes))) /\ DOMAIN vhosts = 1..Len(vhosts)
      /\ elements \in 0..MaxElements /\ MaxElements \in Nat
  BY Constants DEF IInv, ScopeInv, HostInv
<1>4. \A t \in opcodes :
        /\ t = <<t[1], t[2], t[3]>> /\ t[1] \in 1..Len(vhosts)
        /\ t[2] \in Nat /\ t[3] \in Nat /\ Activates(t[1], t[2], t[3], i)
  BY <1>3
<1>5. \A t \in opcodes : /\ t[1] \in Nat /\ IsRuleset(t[1], t[2]) /\ ScopeOf(t[1], t[2]) = i
                         /\ i \in 2..Len(scopes) /\ t[3] = Len(OpcodesOf(t[1], t[2]))
  BY <1>3, <1>4, ActivatesLast
<1>6. \A h \in hosts : h \in Nat /\ IsHost(h) /\ vhosts[h].scope = i /\ i \in 2..Len(scopes)
  <2> SUFFICES ASSUME NEW h \in hosts
               PROVE  h \in Nat /\ IsHost(h) /\ vhosts[h].scope = i /\ i \in 2..Len(scopes)
    OBVIOUS
  <2>1. h \in 1..Len(vhosts) /\ vhosts[h].scope = i
    BY <1>3
  <2>2. vhosts[h] \in Host(Len(scopes))
    BY <1>3, <2>1
  <2>3. vhosts[h].scope \in 2..Len(scopes)
    BY <2>2 DEF Host
  <2> QED BY <2>1, <2>3 DEF IsHost
<1>7. CASE i = 1
  <2>1. i \notin 2..Len(scopes)
    BY <1>3, <1>7
  <2>2. opcodes = {} /\ hosts = {}
    BY <1>5, <1>6, <2>1
  <2> HIDE DEF opcodes, hosts
  <2> QED BY <1>1, <1>7, <2>2, FS_EmptySet
<1>8. CASE i # 1
  <2>1. i \in 2..Len(scopes)
    BY <1>3, <1>8
  <2>2. Owned(i)
    BY <1>2, <2>1 DEF OwnersInv
  <2>3. ASSUME NEW h \in Nat, IsHost(h), vhosts[h].scope = i PROVE Destructions(i) = 1
    <3>1. h \in hosts
      BY <1>3, <2>3 DEF IsHost
    <3>2. \A g \in hosts : g = h
      BY <1>2, <1>6, <2>3 DEF FileInv
    <3>3. hosts = {h}
      BY <3>1, <3>2
    <3>4. opcodes = {}
      <4>1. \A t \in opcodes : vhosts[h].scope # ScopeOf(t[1], t[2])
        <5> SUFFICES ASSUME NEW t \in opcodes PROVE vhosts[h].scope # ScopeOf(t[1], t[2])
          OBVIOUS
        <5>1. /\ t[1] \in Nat /\ t[2] \in Nat /\ IsRuleset(t[1], t[2])
              /\ ScopeOf(t[1], t[2]) = i
          BY <1>4, <1>5
        <5>2. ScopeOf(t[1], t[2]) # 0
          BY <2>1, <5>1
        <5> HIDE DEF opcodes
        <5> QED BY <1>2, <2>3, <5>1, <5>2 DEF OwnersInv, ScopeOfsInv, ScopeOfInv
      <4> QED BY <1>5, <2>3, <4>1
    <3> HIDE DEF opcodes, hosts
    <3>5. Cardinality(hosts) = 1 /\ Cardinality(opcodes) = 0
      BY <3>3, <3>4, FS_EmptySet, FS_Singleton
    <3> QED BY <1>1, <1>8, <3>5
  <2>4. ASSUME NEW h \in Nat, NEW j \in Nat, IsRuleset(h, j), ScopeOf(h, j) = i
        PROVE  Destructions(i) = 1
    <3>1. PICK all \in Seq(AnyOpcode(Len(scopes))) : all = OpcodesOf(h, j)
      BY <1>2, <2>4, RulesetTypes
    <3>2. PICK k \in Nat : k = Len(all)
      OBVIOUS
    <3>3. ScopeOf(h, j) # 0 /\ ScopeOfInv(h, j)
      BY <1>2, <2>1, <2>4 DEF OwnersInv, ScopeOfsInv
    <3>4. k > 0 /\ all[k].op = "ACTIVATE_SCOPE" /\ all[k].value = i
      <4>1. ~compiler.inScope
        BY <1>2 DEF CompilerInv
      <4>2. Activated(all) = i /\ i # 0
        BY <2>4, <3>1, <3>3, <4>1 DEF ScopeOf, Pending
      <4> QED BY <3>2, <4>2 DEF Activated, Activating
    <3>5. all[k] = Opcode("ACTIVATE_SCOPE", "", i)
      <4>1. all[k] \in AnyOpcode(Len(scopes))
        BY <3>2, <3>4
      <4>2. \A o \in Operations : o.op # "ACTIVATE_SCOPE"
        BY RewriteAssumption DEF Conditions, Opcode
      <4>3. all[k] \in [op : {"ACTIVATE_SCOPE"}, name : {""}, value : 2..Len(scopes)]
        BY <3>4, <4>1, <4>2 DEF AnyOpcode
      <4> QED BY <3>4, <4>3 DEF Opcode
    <3>6. h \in DOMAIN vhosts /\ j \in 1..MaxElements /\ k \in 1..(2 * MaxElements)
      <4>1. h \in 1..Len(vhosts) /\ j \in 1..Len(vhosts[h].rulesets)
        BY <2>4 DEF IsRuleset, IsHost
      <4>2. Len(vhosts[h].rulesets) <= elements /\ Len(vhosts[h].rulesets) \in Nat
        <5>1. IsHost(h)
          BY <2>4 DEF IsRuleset
        <5>2. vhosts[h] \in Host(Len(scopes))
          BY <1>3, <4>1
        <5>3. Len(vhosts[h].rulesets) \in Nat
          BY <5>2 DEF Host
        <5> QED BY <1>2, <5>1, <5>3 DEF FileInv, HostMade
      <4>3. j \in 1..MaxElements
        BY <1>3, <4>1, <4>2
      <4>4. k <= elements
        <5>1. RulesetInv(h, j) /\ ~Pending(h, j)
          BY <1>2, <2>4 DEF RulesetsInv, CompilerInv, Pending
        <5>2. Len(all) <= Len(ItemsOf(h, j)) /\ Len(ItemsOf(h, j)) <= elements
          <6>1. Len(all) + 0 <= Len(ItemsOf(h, j)) /\ Len(ItemsOf(h, j)) <= elements
            BY <3>1, <5>1 DEF RulesetInv
          <6> QED BY <6>1
        <5>3. Len(ItemsOf(h, j)) \in Nat
          <6>1. ItemsOf(h, j) \in Seq(Item)
            BY <1>2, <2>4, RulesetTypes
          <6> QED BY <6>1
        <5> QED BY <1>3, <3>2, <5>2, <5>3
      <4> QED BY <1>3, <3>2, <3>4, <4>1, <4>3, <4>4
    <3>7. <<h, j, k>> \in opcodes
      <4>1. Activates(h, j, k, i)
        <5>1. /\ j \in 1..Len(vhosts[h].rulesets) /\ h \in 1..Len(vhosts)
          BY <2>4 DEF IsRuleset, IsHost
        <5>2. vhosts[h] \in Host(Len(scopes))
          BY <1>3, <5>1
        <5>3. vhosts[h].rulesets \in Seq(Seq(AnyOpcode(Len(scopes))))
          BY <5>2 DEF Host
        <5>4. j \in DOMAIN vhosts[h].rulesets
          BY <5>1, <5>3
        <5>5. k \in DOMAIN all
          BY <3>2, <3>4
        <5> QED BY <3>1, <3>5, <5>4, <5>5 DEF Activates, OpcodesOf
      <4> QED BY <3>6, <4>1
    <3>8. \A t \in opcodes : t = <<h, j, k>>
      <4> SUFFICES ASSUME NEW t \in opcodes PROVE t = <<h, j, k>>
        OBVIOUS
      <4>1. /\ t[1] \in Nat /\ t[2] \in Nat /\ IsRuleset(t[1], t[2]) /\ ScopeOf(t[1], t[2]) = i
            /\ t[3] = Len(OpcodesOf(t[1], t[2])) /\ t = <<t[1], t[2], t[3]>>
        BY <1>4, <1>5
      <4> HIDE DEF opcodes
      <4>2. t[1] = h /\ t[2] = j
        BY <2>4, <3>3, <4>1 DEF ScopeOfInv
      <4> QED BY <3>1, <3>2, <4>1, <4>2
    <3>9. opcodes = {<<h, j, k>>}
      BY <3>7, <3>8
    <3>10. hosts = {}
      <4>1. \A g \in hosts : vhosts[g].scope # ScopeOf(h, j)
        BY <1>6, <3>3 DEF ScopeOfInv
      <4> QED BY <1>6, <2>4, <4>1
    <3> HIDE DEF opcodes, hosts
    <3>11. Cardinality(hosts) = 0 /\ Cardinality(opcodes) = 1
      BY <3>9, <3>10, FS_EmptySet, FS_Singleton
    <3> QED BY <1>1, <1>8, <3>11
  <2> QED BY <2>2, <2>3, <2>4 DEF Owned
<1> QED BY <1>7, <1>8

LEMMA InitDestroyed == Init => ScopesDestroyed
BY DEF Init, ScopesDestroyed

LEMMA DestroyedKeeps ==
  ASSUME IInv, CompileInv, ScopesDestroyed, [Next]_vars PROVE ScopesDestroyed'
<1>1. CASE Unload
  <2>1. phase = "running" /\ destroyed' = [i \in DOMAIN scopes |-> Destructions(i)]
        /\ scopes' = scopes /\ file' = file
    BY <1>1 DEF Unload, MayBegin, configurationVars, loading
  <2>2. Orderly' => Orderly
    BY <2>1 DEF Orderly
  <2>3. Orderly => \A i \in DOMAIN scopes : Destructions(i) = 1
    BY <2>1, DestroyedOnce
  <2> QED BY <2>1, <2>2, <2>3 DEF ScopesDestroyed
<1>2. CASE Serve
  BY <1>2, ServeFrame DEF Frame, ScopesDestroyed
<1>3. CASE Load
  <2>1. phase \in {"load", "loaded"} /\ phase' # "unloaded"
    BY <1>3 DEF Load, RootSetting, VirtualHost, SecondDefault, VirtualHostSetting, Ruleset,
       Condition, Statement, SetReadOnly, RulesetSetting, EndOfFile, CheckConfiguration,
       NoDefault, MayRead, Read, Fail
  <2> QED BY <2>1 DEF ScopesDestroyed
<1>4. CASE UNCHANGED vars
  BY <1>4 DEF vars, configurationVars, loading, ScopesDestroyed, Orderly
<1> QED BY <1>1, <1>2, <1>3, <1>4 DEF Next

(* Every scope is destroyed exactly once when the file is unloaded, by the *)
(* host or the opcode that it belongs to (PancakeHTTPRewrite.c:95): no     *)
(* scope is left over and none is freed twice, unless a condition comes    *)
(* after a setting of its ruleset.                                         *)
THEOREM DestroyedCorrect == Spec => []ScopesDestroyed
<1>1. IInv /\ CompileInv /\ ScopesDestroyed /\ [Next]_vars => ScopesDestroyed'
  BY DestroyedKeeps
<1> QED BY <1>1, InitDestroyed, Invariance, CompileInvariance, PTL DEF Spec

-----------------------------------------------------------------------------
(* The settings of a request.                                              *)

Having(group, s) == {i \in DOMAIN group : s \in DOMAIN scopes[group[i]]}
LastIn(S) == CHOOSE i \in S : \A j \in S : j <= i

LEMMA GroupValue ==
  ASSUME NEW mem, NEW group, NEW s \in Setting
  PROVE  ActivateScopeGroup(mem, group)[s] =
           IF Having(group, s) = {} THEN mem[s]
           ELSE scopes[group[LastIn(Having(group, s))]][s]
BY DEF ActivateScopeGroup, Having, LastIn

LEMMA GroupFunction ==
  ASSUME NEW mem, NEW group
  PROVE  ActivateScopeGroup(mem, group)
           = [s \in Setting |-> ActivateScopeGroup(mem, group)[s]]
BY DEF ActivateScopeGroup

(* A scope more in the group is activated after the others.                *)
LEMMA GroupAppend ==
  ASSUME NEW mem, NEW group \in Seq(Nat), NEW i \in Nat
  PROVE  ActivateScopeGroup(mem, Append(group, i))
           = ActivateScope(ActivateScopeGroup(mem, group), scopes[i])
<1>1. PICK n \in Nat : n = Len(group)
  OBVIOUS
<1>2. PICK longer : longer = Append(group, i)
  OBVIOUS
<1>3. /\ DOMAIN group = 1..n /\ DOMAIN longer = 1..(n + 1)
      /\ \A k \in 1..n : longer[k] = group[k]
      /\ longer[n + 1] = i
  BY <1>1, <1>2
<1>4. ASSUME NEW s \in Setting
      PROVE  ActivateScopeGroup(mem, longer)[s]
               = IF s \in DOMAIN scopes[i] THEN scopes[i][s]
                 ELSE ActivateScopeGroup(mem, group)[s]
  <2>1. CASE s \in DOMAIN scopes[i]
    <3>1. n + 1 \in Having(longer, s) /\ Having(longer, s) \subseteq 1..(n + 1)
      BY <1>3, <2>1 DEF Having
    <3> HIDE DEF Having
    <3>2. \A k \in Having(longer, s) : k <= n + 1
      BY <3>1
    <3>3. \A k \in Having(longer, s) :
            (\A j \in Having(longer, s) : j <= k) => k = n + 1
      BY <3>1
    <3>4. LastIn(Having(longer, s)) = n + 1
      BY <3>1, <3>2, <3>3, Zenon DEF LastIn
    <3>5. ActivateScopeGroup(mem, longer)[s] = scopes[longer[LastIn(Having(longer, s))]][s]
      BY <3>1, GroupValue
    <3> QED BY <1>3, <2>1, <3>4, <3>5
  <2>2. CASE s \notin DOMAIN scopes[i]
    <3>1. Having(longer, s) = Having(group, s)
      BY <1>3, <2>2 DEF Having
    <3>2. CASE Having(group, s) = {}
      BY <2>2, <3>1, <3>2, GroupValue
    <3>3. CASE Having(group, s) # {}
      <4>1. Having(group, s) \in SUBSET (1..n)
        BY <1>3 DEF Having
      <4>2. \E k \in Having(group, s) : \A j \in Having(group, s) : j <= k
        BY <3>3, <4>1, LastHaving
      <4>3. LastIn(Having(group, s)) \in Having(group, s)
        BY <4>2, Zenon DEF LastIn
      <4>4. longer[LastIn(Having(group, s))] = group[LastIn(Having(group, s))]
        BY <1>3, <4>1, <4>3
      <4>5. /\ ActivateScopeGroup(mem, longer)[s]
                 = scopes[longer[LastIn(Having(longer, s))]][s]
            /\ ActivateScopeGroup(mem, group)[s]
                 = scopes[group[LastIn(Having(group, s))]][s]
        BY <3>1, <3>3, GroupValue
      <4> QED BY <2>2, <3>1, <4>4, <4>5
    <3> QED BY <3>2, <3>3
  <2> QED BY <2>1, <2>2
<1>5. ActivateScopeGroup(mem, longer) = [s \in Setting |-> ActivateScopeGroup(mem, longer)[s]]
  BY GroupFunction
<1>6. ActivateScope(ActivateScopeGroup(mem, group), scopes[i])
        = [s \in Setting |-> IF s \in DOMAIN scopes[i] THEN scopes[i][s]
                             ELSE ActivateScopeGroup(mem, group)[s]]
  BY Zenon DEF ActivateScope
<1>7. [s \in Setting |-> ActivateScopeGroup(mem, longer)[s]]
        = [s \in Setting |-> IF s \in DOMAIN scopes[i] THEN scopes[i][s]
                             ELSE ActivateScopeGroup(mem, group)[s]]
  BY <1>4, Zenon
<1> QED BY <1>2, <1>5, <1>6, <1>7, Zenon

LEMMA GroupOne ==
  ASSUME NEW mem, NEW i
  PROVE  ActivateScopeGroup(mem, <<i>>) = ActivateScope(mem, scopes[i])
<1>1. PICK one : one = <<i>>
  OBVIOUS
<1>2. DOMAIN one = {1} /\ one[1] = i
  BY <1>1
<1>3. ASSUME NEW s \in Setting
      PROVE  ActivateScopeGroup(mem, one)[s]
               = IF s \in DOMAIN scopes[i] THEN scopes[i][s] ELSE mem[s]
  <2>1. CASE s \in DOMAIN scopes[i]
    <3>1. Having(one, s) = {1}
      BY <1>2, <2>1 DEF Having
    <3>2. LastIn(Having(one, s)) \in Having(one, s)
      <4>1. \A j \in Having(one, s) : j <= 1
        BY <3>1
      <4>2. \E k \in Having(one, s) : \A j \in Having(one, s) : j <= k
        BY <3>1, <4>1
      <4> QED BY <4>2, Zenon DEF LastIn
    <3>3. LastIn(Having(one, s)) = 1
      BY <3>1, <3>2
    <3>4. Having(one, s) # {}
      BY <3>1
    <3>5. ActivateScopeGroup(mem, one)[s] = scopes[one[LastIn(Having(one, s))]][s]
      BY <3>4, GroupValue
    <3> QED BY <1>2, <2>1, <3>3, <3>5
  <2>2. CASE s \notin DOMAIN scopes[i]
    <3>1. Having(one, s) = {}
      BY <1>2, <2>2 DEF Having
    <3> QED BY <2>2, <3>1, GroupValue
  <2> QED BY <2>1, <2>2
<1>4. ActivateScopeGroup(mem, one) = [s \in Setting |-> ActivateScopeGroup(mem, one)[s]]
  BY GroupFunction
<1>5. ActivateScope(mem, scopes[i])
        = [s \in Setting |-> IF s \in DOMAIN scopes[i] THEN scopes[i][s] ELSE mem[s]]
  BY Zenon DEF ActivateScope
<1>6. [s \in Setting |-> ActivateScopeGroup(mem, one)[s]]
        = [s \in Setting |-> IF s \in DOMAIN scopes[i] THEN scopes[i][s] ELSE mem[s]]
  BY <1>3, Zenon
<1> QED BY <1>1, <1>4, <1>5, <1>6, Zenon

(* What memory becomes when the scopes of a request are activated, for all *)
(* there may be in it before.                                              *)
Memory == [Setting -> Nat]
Group(mem, q) == ActivateScopeGroup(mem, q.group)

(* The host of the file that a request is for is the one that is looked up *)
(* for it.                                                                 *)
LEMMA MeantHostFound ==
  ASSUME IInv, CompileInv, phase = "running", NEW name \in Nat
  PROVE  /\ Lookup(name) \in 1..Len(vhosts) /\ Lookup(name) \in Nat
         /\ MeantHost(name) = file.hosts[Lookup(name)]
<1>1. /\ vhosts \in Seq(Host(Len(scopes))) /\ file.hosts \in Seq(FileHost)
      /\ Len(file.hosts) = Len(vhosts)
      /\ defaultHost \in 1..Len(vhosts)
  BY DEF IInv, HostInv, RequestInv, CompileInv, FileInv
<1>2. PICK n \in Nat : n = Len(vhosts)
  BY <1>1
<1>3. PICK hosts : hosts = file.hosts
  OBVIOUS
<1>4. /\ DOMAIN vhosts = 1..n /\ DOMAIN hosts = 1..n /\ Len(hosts) = n
      /\ defaultHost \in 1..n
  BY <1>1, <1>2, <1>3
<1>5. CASE n = 1
  <2>1. Lookup(name) = 1
    BY <1>2, <1>4, <1>5 DEF Lookup
  <2>2. MeantHost(name) = hosts[1]
    BY <1>3, <1>4, <1>5 DEF MeantHost
  <2> QED BY <1>2, <1>3, <1>5, <2>1, <2>2
<1>6. CASE n # 1
  <2>1. n > 1
    BY <1>4, <1>6
  <2>2. CASE name \in 1..n /\ hosts[name].named
    <3>1. Lookup(name) = name
      BY <1>2, <1>3, <1>4, <2>1, <2>2 DEF Lookup
    <3>2. MeantHost(name) = hosts[name]
      BY <1>3, <1>4, <2>2 DEF MeantHost
    <3> QED BY <1>2, <1>3, <2>2, <3>1, <3>2
  <2>3. CASE ~(name \in 1..n /\ hosts[name].named)
    <3>1. Lookup(name) = defaultHost
      BY <1>2, <1>3, <1>4, <2>1, <2>3 DEF Lookup
    <3>2. MeantHost(name) = CHOOSE host \in Range(hosts) : host.default
      BY <1>3, <1>4, <2>1, <2>3 DEF MeantHost
    <3>3. \A h \in 1..n : (hosts[h].default <=> h = defaultHost)
      BY <1>2, <1>3, <2>1 DEF CompileInv, DefaultInv, IsHost
    <3>4. hosts[defaultHost] \in Range(hosts) /\ hosts[defaultHost].default
      BY <1>4, <3>3 DEF Range
    <3>5. \A host \in Range(hosts) : host.default => host = hosts[defaultHost]
      BY <1>4, <3>3 DEF Range
    <3>6. (CHOOSE host \in Range(hosts) : host.default) = hosts[defaultHost]
      BY <3>4, <3>5, Zenon
    <3> QED BY <1>2, <1>3, <1>4, <3>1, <3>2, <3>6
  <2> QED BY <2>2, <2>3
<1> QED BY <1>5, <1>6

(* The settings of the host are those of its scope over what there was.    *)
LEMMA HostMeansScope ==
  ASSUME IInv, CompileInv, phase = "running", NEW mem \in Memory, NEW name \in Nat
  PROVE  /\ HostMeans(mem, name) \in Memory
         /\ HostMeans(mem, name) = ActivateScope(mem, scopes[vhosts[Lookup(name)].scope])
<1>1. /\ Lookup(name) \in 1..Len(vhosts) /\ Lookup(name) \in Nat
      /\ MeantHost(name) = file.hosts[Lookup(name)]
  BY MeantHostFound
<1>2. scopes[vhosts[Lookup(name)].scope] = file.hosts[Lookup(name)].settings
  BY <1>1 DEF CompileInv, FileInv, HostMade, IsHost
<1>3. file.hosts[Lookup(name)] \in FileHost
  BY <1>1 DEF CompileInv, FileInv
<1>4. PICK values \in Scope : values = file.hosts[Lookup(name)].settings
  BY <1>3 DEF FileHost
<1>5. HostMeans(mem, name) = ActivateScope(mem, values)
  BY <1>1, <1>4 DEF HostMeans, Over, ActivateScope
<1>6. HostMeans(mem, name) \in Memory
  BY <1>5, ScopeMemory DEF Memory
<1> QED BY <1>2, <1>4, <1>5, <1>6

-----------------------------------------------------------------------------
(* What the rulesets before the one at j mean for a request, and after     *)
(* them the opcodes of that ruleset before the one at k.                   *)

Start(mem, q) ==
  [settings |-> HostMeans(mem, q.name), applies |-> TRUE,
   variables |-> [HTTPVersion |-> q.version, HTTPAnswerCode |-> 0, HTTPMethod |-> 1]]
Before(mem, q, j) ==
  FoldLeft(RulesetMeans, Start(mem, q), SubSeq(file.hosts[q.vHost].rulesets, 1, j - 1))
Within(mem, q, j, k) == RulesetMeans(Before(mem, q, j), SubSeq(OpcodesOf(q.vHost, j), 1, k - 1))

(* A request that has come to the opcode at k of the ruleset at j: the     *)
(* conditions before it hold, its variables are as they make them, and the *)
(* scope of the ruleset is activated after its last opcode.                *)
AtOpcode(mem, q, j, k) ==
  /\ k \in 1..(Len(OpcodesOf(q.vHost, j)) + 1)
  /\ Within(mem, q, j, k).applies
  /\ Within(mem, q, j, k).variables = q.variables
  /\ Group(mem, q) = IF k > Len(OpcodesOf(q.vHost, j))
                THEN ActivateScope(Before(mem, q, j).settings,
                                   ValuesIn(scopes, ScopeOf(q.vHost, j)))
                ELSE Before(mem, q, j).settings

AtRuleset(mem, q, j) ==
  Group(mem, q) = Before(mem, q, j).settings /\ Before(mem, q, j).variables = q.variables

RewritingInv(mem, q, j, k) ==
  /\ j \in 1..(LastOf(q.vHost) + 1)
  /\ j > LastOf(q.vHost) => Group(mem, q) = Before(mem, q, j).settings
  /\ j <= LastOf(q.vHost) => AtOpcode(mem, q, j, k)

(* A request is for the host that is looked up for it, and after the       *)
(* rulesets its group of scopes has the settings that are meant for it.    *)
MeantInv(mem, q) ==
  /\ q.vHost = Lookup(q.name)
  /\ Group(mem, q)["ServerHeader"] = HostMeans(mem, q.name)["ServerHeader"]
  /\ q.state # "parser" => Group(mem, q) = Means(mem, q.name, q.version)

Running == IInv /\ CompileInv /\ Orderly /\ phase = "running"

LEMMA RequestFields ==
  ASSUME NEW q \in RequestRecord
  PROVE  /\ q.name \in Nat /\ q.version \in Versions /\ q.group \in Seq(Nat)
         /\ q.variables \in [Variable -> Nat]
<1>1. PICK states : RequestRecord =
        [name : Nat, version : Versions, vHost : Nat, variables : [Variable -> Nat],
         group : Seq(Nat), client : Nat, headerSent : BOOLEAN, state : states]
  BY Zenon DEF RequestRecord
<1> QED BY <1>1

LEMMA StartType ==
  ASSUME IInv, CompileInv, phase = "running", NEW mem \in Memory, NEW q \in RequestRecord
  PROVE  Start(mem, q) \in So
<1>1. q.name \in Nat /\ q.version \in Nat
  <2>1. Versions \subseteq Nat
    BY RewriteAssumption
  <2>2. q.name \in Nat /\ q.version \in Versions
    BY RequestFields
  <2> QED BY <2>1, <2>2
<1>2. HostMeans(mem, q.name) \in [Setting -> Nat]
  BY <1>1, HostMeansScope DEF Memory
<1>3. [HTTPVersion |-> q.version, HTTPAnswerCode |-> 0, HTTPMethod |-> 1] \in [Variable -> Nat]
  BY <1>1 DEF Variable
<1> QED BY <1>2, <1>3 DEF Start, So

(* The rulesets of a host that is running.                                 *)
LEMMA HostRulesets ==
  ASSUME Running, NEW h \in 1..Len(vhosts)
  PROVE  /\ IsHost(h) /\ h \in Nat
         /\ file.hosts[h].rulesets \in Seq(Seq(Item))
         /\ LastOf(h) \in Nat /\ Len(file.hosts[h].rulesets) = LastOf(h)
         /\ \A j \in 1..LastOf(h) : IsRuleset(h, j) /\ ~Pending(h, j)
                                    /\ RulesetInv(h, j) /\ ScopeOfInv(h, j)
<1>1. IsHost(h) /\ h \in Nat
  BY DEF IsHost, Running, IInv, HostInv
<1>2. HostMade(h) /\ h \in 1..Len(file.hosts) /\ file.hosts \in Seq(FileHost)
  BY <1>1 DEF Running, CompileInv, FileInv
<1>3. file.hosts[h] \in FileHost
  BY <1>2
<1>4. file.hosts[h].rulesets \in Seq(Seq(Item))
  BY <1>3 DEF FileHost
<1>5. Len(file.hosts[h].rulesets) = LastOf(h)
  BY <1>2 DEF HostMade, LastOf
<1>6. ASSUME NEW j \in 1..LastOf(h)
      PROVE  IsRuleset(h, j) /\ ~Pending(h, j) /\ RulesetInv(h, j) /\ ScopeOfInv(h, j)
  <2>1. IsRuleset(h, j) /\ j \in Nat
    BY <1>1, <1>4, <1>5 DEF IsRuleset, LastOf
  <2>2. RulesetsInv /\ ScopeOfsInv /\ CompilerInv
    BY DEF Running, CompileInv, OwnersInv
  <2> QED BY <1>1, <2>1, <2>2 DEF RulesetsInv, ScopeOfsInv, CompilerInv, Pending, Running
<1> QED BY <1>1, <1>4, <1>5, <1>6

LEMMA BeforeStep ==
  ASSUME Running, NEW mem \in Memory, NEW q \in RequestRecord, q.vHost \in 1..Len(vhosts)
  PROVE  /\ Before(mem, q, 1) = Start(mem, q)
         /\ \A j \in 1..LastOf(q.vHost) :
              Before(mem, q, j + 1) = RulesetMeans(Before(mem, q, j), ItemsOf(q.vHost, j))
<1>1. PICK rulesets \in Seq(Seq(Item)) : rulesets = file.hosts[q.vHost].rulesets
  BY HostRulesets
<1>2. Len(rulesets) = LastOf(q.vHost)
  BY <1>1, HostRulesets
<1>3. Before(mem, q, 1) = Start(mem, q)
  <2>1. DOMAIN SubSeq(rulesets, 1, 0) = {}
    BY WholeSeq
  <2>2. Before(mem, q, 1) = FoldLeft(RulesetMeans, Start(mem, q), SubSeq(rulesets, 1, 0))
    <3>1. 1 - 1 = 0
      OBVIOUS
    <3> QED BY <1>1, <3>1 DEF Before
  <2>3. FoldLeft(RulesetMeans, Start(mem, q), SubSeq(rulesets, 1, 0))
          = Fold("ruleset", Start(mem, q), SubSeq(rulesets, 1, 0))
    BY FoldRulesets
  <2>4. Fold("ruleset", Start(mem, q), SubSeq(rulesets, 1, 0)) = Start(mem, q)
    BY <2>1, FoldEmpty
  <2> QED BY <2>2, <2>3, <2>4
<1>4. ASSUME NEW j \in 1..Len(rulesets)
      PROVE  Before(mem, q, j + 1) = RulesetMeans(Before(mem, q, j), ItemsOf(q.vHost, j))
  <2>1. (j + 1) - 1 = j
    OBVIOUS
  <2>2. /\ Before(mem, q, j + 1) = FoldLeft(RulesetMeans, Start(mem, q), SubSeq(rulesets, 1, j))
        /\ Before(mem, q, j) = FoldLeft(RulesetMeans, Start(mem, q), SubSeq(rulesets, 1, j - 1))
        /\ ItemsOf(q.vHost, j) = rulesets[j]
    BY <1>1, <2>1 DEF Before, ItemsOf
  <2>3. FoldLeft(RulesetMeans, Start(mem, q), SubSeq(rulesets, 1, j))
          = RulesetMeans(FoldLeft(RulesetMeans, Start(mem, q), SubSeq(rulesets, 1, j - 1)),
                         rulesets[j])
    BY RulesetsStep
  <2> QED BY <2>2, <2>3
<1> QED BY <1>2, <1>3, <1>4

LEMMA BeforeType ==
  ASSUME Running, NEW mem \in Memory, NEW q \in RequestRecord, q.vHost \in 1..Len(vhosts)
  PROVE  \A j \in 1..(LastOf(q.vHost) + 1) : Before(mem, q, j) \in So
<1> DEFINE T == {m \in Nat : m <= LastOf(q.vHost) => Before(mem, q, m + 1) \in So}
<1>1. 0 \in T
  <2>1. Before(mem, q, 1) \in So
    BY BeforeStep, StartType DEF Running
  <2>2. 0 + 1 = 1
    OBVIOUS
  <2> QED BY <2>1, <2>2
<1>2. ASSUME NEW m \in Nat, m \in T PROVE m + 1 \in T
  <2> SUFFICES ASSUME m + 1 <= LastOf(q.vHost) PROVE Before(mem, q, (m + 1) + 1) \in So
    OBVIOUS
  <2>1. LastOf(q.vHost) \in Nat
    BY HostRulesets
  <2>2. m + 1 \in 1..LastOf(q.vHost) /\ m <= LastOf(q.vHost)
    BY <2>1
  <2>3. Before(mem, q, (m + 1) + 1) = RulesetMeans(Before(mem, q, m + 1), ItemsOf(q.vHost, m + 1))
    BY <2>2, BeforeStep
  <2>4. Before(mem, q, m + 1) \in So
    BY <1>2, <2>2
  <2>5. ItemsOf(q.vHost, m + 1) \in Seq(Element)
    BY <2>2, HostRulesets, RulesetTypes DEF Running, CompileInv
  <2> QED BY <2>3, <2>4, <2>5, RulesetType
<1> HIDE DEF T
<1>3. \A m \in Nat : m \in T
  BY <1>1, <1>2, SetInduction
<1> SUFFICES ASSUME NEW j \in 1..(LastOf(q.vHost) + 1) PROVE Before(mem, q, j) \in So
  OBVIOUS
<1>4. LastOf(q.vHost) \in Nat
  BY HostRulesets
<1>5. j - 1 \in Nat /\ j - 1 <= LastOf(q.vHost) /\ (j - 1) + 1 = j
  BY <1>4
<1>6. j - 1 \in T
  BY <1>3, <1>5
<1>7. Before(mem, q, (j - 1) + 1) \in So
  BY <1>5, <1>6 DEF T
<1> QED BY <1>5, <1>7

-----------------------------------------------------------------------------
(* How a request goes through the opcodes.                                 *)

(* The opcodes of a ruleset, and the scope the last of them activates.     *)
LEMMA RunningRuleset ==
  ASSUME Running, NEW h \in 1..Len(vhosts), NEW j \in 1..LastOf(h)
  PROVE  /\ h \in Nat /\ j \in Nat /\ IsRuleset(h, j)
         /\ OpcodesOf(h, j) \in Seq(Element) /\ ItemsOf(h, j) \in Seq(Element)
         /\ ScopeOf(h, j) = Activated(OpcodesOf(h, j))
         /\ OpcodesInv(h, j)
         /\ ValuesIn(scopes, ScopeOf(h, j)) \in Scope
         /\ ~("ServerHeader" \in DOMAIN ValuesIn(scopes, ScopeOf(h, j)))
         /\ Compiled(ItemsOf(h, j), OpcodesOf(h, j), ValuesIn(scopes, ScopeOf(h, j)))
<1>1. /\ h \in Nat /\ IsRuleset(h, j) /\ ~Pending(h, j) /\ RulesetInv(h, j)
      /\ ScopeOfInv(h, j) /\ j \in Nat
  BY HostRulesets
<1>2. OpcodesOf(h, j) \in Seq(Element) /\ ItemsOf(h, j) \in Seq(Element)
  BY <1>1, RulesetTypes DEF Running, CompileInv
<1>3. ScopeOf(h, j) = Activated(OpcodesOf(h, j))
  BY <1>1 DEF ScopeOf
<1>4. /\ ValuesIn(scopes, ScopeOf(h, j)) \in Scope
      /\ ~("ServerHeader" \in DOMAIN ValuesIn(scopes, ScopeOf(h, j)))
  <2>1. CASE ScopeOf(h, j) = 0
    BY <2>1, EmptyScope DEF ValuesIn
  <2>2. CASE ScopeOf(h, j) # 0
    <3>1. PICK i \in 2..Len(scopes) : i = ScopeOf(h, j)
      BY <1>1, <2>2 DEF ScopeOfInv
    <3>2. scopes[i] \in Scope
      <4>1. scopes \in Seq(Scope) /\ Len(scopes) \in Nat
        BY DEF Running, IInv, ScopeInv
      <4> QED BY <4>1
    <3>3. DOMAIN scopes[i] \subseteq RulesetSettings
      BY <1>1, <2>2, <3>1 DEF ScopeOfInv
    <3> QED BY <2>2, <3>1, <3>2, <3>3 DEF ValuesIn, RulesetSettings
  <2> QED BY <2>1, <2>2
<1> QED BY <1>1, <1>2, <1>3, <1>4 DEF RulesetInv

LEMMA WithinBegin ==
  ASSUME Running, NEW mem \in Memory, NEW q, q.vHost \in 1..Len(vhosts),
         NEW j \in 1..LastOf(q.vHost)
  PROVE  Within(mem, q, j, 1) = [Before(mem, q, j) EXCEPT !.applies = TRUE]
<1>1. PICK opcodes \in Seq(Element) : opcodes = OpcodesOf(q.vHost, j)
  BY RunningRuleset
<1>2. DOMAIN SubSeq(opcodes, 1, 0) = {}
  BY WholeSeq
<1>3. Within(mem, q, j, 1) = RulesetMeans(Before(mem, q, j), SubSeq(opcodes, 1, 0))
  <2>1. 1 - 1 = 0
    OBVIOUS
  <2> QED BY <1>1, <2>1 DEF Within
<1> QED BY <1>2, <1>3, RulesetNothing

LEMMA WithinType ==
  ASSUME Running, NEW mem \in Memory, NEW q \in RequestRecord, q.vHost \in 1..Len(vhosts),
         NEW j \in 1..LastOf(q.vHost), NEW k \in 1..(Len(OpcodesOf(q.vHost, j)) + 1)
  PROVE  Within(mem, q, j, k) \in So
<1>1. PICK opcodes \in Seq(Element) : opcodes = OpcodesOf(q.vHost, j)
  BY RunningRuleset
<1>2. k - 1 \in 0..Len(opcodes)
  BY <1>1
<1>3. SubSeq(opcodes, 1, k - 1) \in Seq(Element)
  BY <1>2
<1>4. LastOf(q.vHost) \in Nat
  BY HostRulesets
<1>5. j \in 1..(LastOf(q.vHost) + 1)
  BY <1>4
<1>6. Before(mem, q, j) \in So
  BY <1>5, BeforeType
<1> QED BY <1>1, <1>3, <1>6, RulesetType DEF Within

LEMMA WithinStep ==
  ASSUME Running, NEW mem \in Memory, NEW q \in RequestRecord, q.vHost \in 1..Len(vhosts),
         NEW j \in 1..LastOf(q.vHost), NEW k \in 1..Len(OpcodesOf(q.vHost, j))
  PROVE  Within(mem, q, j, k + 1) = ItemMeans(Within(mem, q, j, k), OpcodesOf(q.vHost, j)[k])
<1>1. PICK opcodes \in Seq(Element) : opcodes = OpcodesOf(q.vHost, j)
  BY RunningRuleset
<1>2. k \in 1..Len(opcodes) /\ (k + 1) - 1 = k
  BY <1>1
<1>3. RulesetMeans(Before(mem, q, j), SubSeq(opcodes, 1, k))
        = ItemMeans(RulesetMeans(Before(mem, q, j), SubSeq(opcodes, 1, k - 1)), opcodes[k])
  BY <1>2, RulesetStep
<1> QED BY <1>1, <1>2, <1>3 DEF Within

(* A request comes to a ruleset.                                           *)
LEMMA EnterRuleset ==
  ASSUME Running, NEW mem \in Memory, NEW q \in RequestRecord, q.vHost \in 1..Len(vhosts),
         NEW j \in 1..(LastOf(q.vHost) + 1), AtRuleset(mem, q, j)
  PROVE  RewritingInv(mem, q, j, 1)
<1>1. Before(mem, q, j) \in So
  BY BeforeType
<1>2. ASSUME j <= LastOf(q.vHost) PROVE AtOpcode(mem, q, j, 1)
  <2>1. LastOf(q.vHost) \in Nat
    BY HostRulesets
  <2>2. j \in 1..LastOf(q.vHost)
    BY <1>2, <2>1
  <2>3. PICK opcodes \in Seq(Element) : opcodes = OpcodesOf(q.vHost, j)
    BY <2>2, RunningRuleset
  <2>4. Within(mem, q, j, 1) = [Before(mem, q, j) EXCEPT !.applies = TRUE]
    BY <2>2, WithinBegin
  <2>5. Within(mem, q, j, 1).applies /\ Within(mem, q, j, 1).variables = Before(mem, q, j).variables
    BY <1>1, <2>4 DEF So
  <2>6. 1 \in 1..(Len(opcodes) + 1)
    OBVIOUS
  <2>7. 1 > Len(opcodes) =>
          ActivateScope(Before(mem, q, j).settings, ValuesIn(scopes, ScopeOf(q.vHost, j)))
            = Before(mem, q, j).settings
    <3> SUFFICES ASSUME 1 > Len(opcodes)
                 PROVE  ActivateScope(Before(mem, q, j).settings,
                                      ValuesIn(scopes, ScopeOf(q.vHost, j)))
                          = Before(mem, q, j).settings
      OBVIOUS
    <3>1. ~(Len(opcodes) > 0)
      OBVIOUS
    <3>2. ScopeOf(q.vHost, j) = Activated(opcodes)
      BY <2>2, <2>3, RunningRuleset
    <3>3. ValuesIn(scopes, ScopeOf(q.vHost, j)) = Empty
      BY <3>1, <3>2 DEF Activated, Activating, ValuesIn
    <3>4. Before(mem, q, j).settings \in [Setting -> Nat]
      BY <1>1 DEF So
    <3> QED BY <3>3, <3>4, ActivateEmpty
  <2> QED BY <2>3, <2>5, <2>6, <2>7 DEF AtOpcode, AtRuleset
<1> QED BY <1>2 DEF RewritingInv, AtRuleset

(* It leaves a ruleset, at its end or at a condition that does not hold.   *)
LEMMA LeaveRuleset ==
  ASSUME Running, NEW mem \in Memory, NEW q \in RequestRecord, q.vHost \in 1..Len(vhosts),
         NEW j \in 1..LastOf(q.vHost), NEW k \in Nat, AtOpcode(mem, q, j, k),
         \/ k = Len(OpcodesOf(q.vHost, j)) + 1
         \/ /\ k <= Len(OpcodesOf(q.vHost, j))
            /\ ~Within(mem, q, j, k + 1).applies
            /\ Within(mem, q, j, k + 1).variables = q.variables
  PROVE  AtRuleset(mem, q, j + 1)
<1> DEFINE so == Before(mem, q, j)
<1>1. PICK opcodes \in Seq(Element) : opcodes = OpcodesOf(q.vHost, j)
  BY RunningRuleset
<1>2. PICK values : values = ValuesIn(scopes, ScopeOf(q.vHost, j))
  OBVIOUS
<1>3. so \in So
  <2>1. LastOf(q.vHost) \in Nat
    BY HostRulesets
  <2>2. j \in 1..(LastOf(q.vHost) + 1)
    BY <2>1
  <2> QED BY <2>2, BeforeType
<1>4. Before(mem, q, j + 1) = RulesetMeans(so, ItemsOf(q.vHost, j))
  BY BeforeStep
<1>5. CompiledFor(so, ItemsOf(q.vHost, j), opcodes, values)
  <2>1. Compiled(ItemsOf(q.vHost, j), opcodes, values)
    BY <1>1, <1>2, RunningRuleset
  <2> QED BY <1>3, <2>1 DEF Compiled
<1> HIDE DEF so
<1>6. /\ Before(mem, q, j + 1).variables = RulesetMeans(so, opcodes).variables
      /\ Before(mem, q, j + 1).settings =
           IF RulesetMeans(so, opcodes).applies THEN ActivateScope(so.settings, values)
           ELSE so.settings
  BY <1>4, <1>5 DEF CompiledFor
<1>7. CASE k = Len(OpcodesOf(q.vHost, j)) + 1
  <2>1. k = Len(opcodes) + 1 /\ k - 1 = Len(opcodes) /\ k > Len(opcodes)
    BY <1>1, <1>7
  <2>2. SubSeq(opcodes, 1, Len(opcodes)) = opcodes
    BY WholeSeq
  <2>3. Within(mem, q, j, k) = RulesetMeans(so, opcodes)
    BY <1>1, <2>1, <2>2 DEF Within, so
  <2>4. /\ Within(mem, q, j, k).applies /\ Within(mem, q, j, k).variables = q.variables
        /\ Group(mem, q) = ActivateScope(so.settings, values)
    BY <1>1, <1>2, <2>1 DEF AtOpcode, so
  <2> QED BY <1>6, <2>3, <2>4 DEF AtRuleset
<1>8. CASE /\ k <= Len(OpcodesOf(q.vHost, j))
           /\ ~Within(mem, q, j, k + 1).applies /\ Within(mem, q, j, k + 1).variables = q.variables
  <2>1. k \in 1..(Len(opcodes) + 1) /\ k <= Len(opcodes)
    BY <1>1, <1>8 DEF AtOpcode
  <2>2. k \in 0..Len(opcodes) /\ (k + 1) - 1 = k /\ ~(k > Len(opcodes))
    BY <2>1
  <2>3. Within(mem, q, j, k + 1) = RulesetMeans(so, SubSeq(opcodes, 1, k))
    BY <1>1, <2>2 DEF Within, so
  <2>4. RulesetMeans(so, opcodes) = Within(mem, q, j, k + 1)
    BY <1>3, <1>8, <2>2, <2>3, StaysFalse
  <2>5. Group(mem, q) = so.settings
    BY <1>1, <2>2 DEF AtOpcode, so
  <2> QED BY <1>6, <1>8, <2>4, <2>5 DEF AtRuleset
<1> QED BY <1>7, <1>8

LEMMA ActivatedValue ==
  ASSUME NEW n, NEW o \in AnyOpcode(n), o.op = "ACTIVATE_SCOPE"
  PROVE  o.value \in 2..n
<1>1. \A x \in Operations : x.op # "ACTIVATE_SCOPE"
  BY RewriteAssumption DEF Conditions, Opcode
<1>2. o \notin Operations
  BY <1>1
<1>3. PICK names, values :
        /\ AnyOpcode(n) = Operations \union [op : {"ACTIVATE_SCOPE"}, name : names, value : values]
        /\ values = 2..n
  BY Zenon DEF AnyOpcode
<1> QED BY <1>2, <1>3

LEMMA ActivatedValues ==
  ASSUME Running, NEW h \in 1..Len(vhosts), NEW j \in 1..LastOf(h),
         NEW k \in 1..Len(OpcodesOf(h, j)), OpcodesOf(h, j)[k].op = "ACTIVATE_SCOPE"
  PROVE  ValuesIn(scopes, ScopeOf(h, j)) = scopes[OpcodesOf(h, j)[k].value]
<1>1. PICK opcodes \in Seq(AnyOpcode(Len(scopes))) : opcodes = OpcodesOf(h, j)
  BY RunningRuleset, RulesetTypes DEF Running, CompileInv
<1>2. k \in 1..Len(opcodes) /\ opcodes[k].op = "ACTIVATE_SCOPE"
  BY <1>1
<1>3. k = Len(opcodes)
  <2>1. OpcodesInv(h, j)
    BY RunningRuleset
  <2> QED BY <1>1, <1>2, <2>1 DEF OpcodesInv
<1>4. Activated(opcodes) = opcodes[k].value
  BY <1>2, <1>3 DEF Activated, Activating
<1>5. opcodes[k].value # 0
  <2>1. opcodes[k] \in AnyOpcode(Len(scopes))
    BY <1>2
  <2>2. opcodes[k].value \in 2..Len(scopes)
    BY <1>2, <2>1, ActivatedValue
  <2> QED BY <2>2
<1>6. ScopeOf(h, j) = Activated(opcodes)
  BY <1>1, RunningRuleset
<1> QED BY <1>1, <1>4, <1>5, <1>6 DEF ValuesIn

(* It comes to the next opcode, as another request when the opcode sets a  *)
(* variable or activates the scope of the ruleset.                         *)
LEMMA NextOpcodeOf ==
  ASSUME Running, NEW mem \in Memory, NEW q \in RequestRecord, q.vHost \in 1..Len(vhosts),
         NEW j \in 1..LastOf(q.vHost), NEW k \in 1..Len(OpcodesOf(q.vHost, j)),
         AtOpcode(mem, q, j, k),
         NEW p, p.name = q.name, p.version = q.version, p.vHost = q.vHost,
         Within(mem, q, j, k + 1).applies, Within(mem, q, j, k + 1).variables = p.variables,
         Group(mem, p) = IF OpcodesOf(q.vHost, j)[k].op = "ACTIVATE_SCOPE"
                    THEN ActivateScope(Group(mem, q), scopes[OpcodesOf(q.vHost, j)[k].value])
                    ELSE Group(mem, q)
  PROVE  RewritingInv(mem, p, j, k + 1)
<1>1. PICK opcodes \in Seq(Element) : opcodes = OpcodesOf(q.vHost, j)
  BY RunningRuleset
<1>2. PICK n \in Nat : n = Len(opcodes)
  OBVIOUS
<1>3. /\ k \in 1..n /\ k + 1 \in 1..(n + 1) /\ ~(k > n)
      /\ (k + 1 > n => k = n)
  BY <1>1, <1>2
<1>4. Start(mem, p) = Start(mem, q)
  BY DEF Start
<1>5. Before(mem, p, j) = Before(mem, q, j) /\ Within(mem, p, j, k + 1) = Within(mem, q, j, k + 1)
  BY <1>4 DEF Before, Within
<1>6. Before(mem, q, j).settings \in [Setting -> Nat]
  <2>1. LastOf(q.vHost) \in Nat
    BY HostRulesets
  <2>2. j \in 1..(LastOf(q.vHost) + 1)
    BY <2>1
  <2>3. Before(mem, q, j) \in So
    BY <2>2, BeforeType
  <2> QED BY <2>3 DEF So
<1>7. Group(mem, q) = Before(mem, q, j).settings
  BY <1>1, <1>2, <1>3 DEF AtOpcode
<1>8. ScopeOf(q.vHost, j) = Activated(opcodes)
  BY <1>1, RunningRuleset
<1>9. Group(mem, p) = IF k + 1 > n
                 THEN ActivateScope(Before(mem, q, j).settings,
                                    ValuesIn(scopes, ScopeOf(q.vHost, j)))
                 ELSE Before(mem, q, j).settings
  <2>1. CASE opcodes[k].op = "ACTIVATE_SCOPE"
    <3>1. k = n
      <4>1. OpcodesInv(q.vHost, j)
        BY RunningRuleset
      <4> QED BY <1>1, <1>2, <1>3, <2>1, <4>1 DEF OpcodesInv
    <3>2. k + 1 > n
      BY <1>3, <3>1
    <3>3. ValuesIn(scopes, ScopeOf(q.vHost, j)) = scopes[opcodes[k].value]
      BY <1>1, <2>1, ActivatedValues
    <3> QED BY <1>1, <1>7, <2>1, <3>2, <3>3
  <2>2. CASE opcodes[k].op # "ACTIVATE_SCOPE"
    <3>1. Group(mem, p) = Before(mem, q, j).settings
      BY <1>1, <1>7, <2>2
    <3>2. ASSUME k + 1 > n
          PROVE  ActivateScope(Before(mem, q, j).settings, ValuesIn(scopes, ScopeOf(q.vHost, j)))
                   = Before(mem, q, j).settings
      <4>1. Activated(opcodes) = 0
        BY <1>2, <1>3, <2>2, <3>2 DEF Activated, Activating
      <4>2. ValuesIn(scopes, ScopeOf(q.vHost, j)) = Empty
        BY <1>8, <4>1 DEF ValuesIn
      <4> QED BY <1>6, <4>2, ActivateEmpty
    <3> QED BY <3>1, <3>2
  <2> QED BY <2>1, <2>2
<1>10. AtOpcode(mem, p, j, k + 1)
  BY <1>1, <1>2, <1>3, <1>5, <1>9 DEF AtOpcode
<1>11. j \in 1..(LastOf(p.vHost) + 1) /\ ~(j > LastOf(p.vHost))
  <2>1. LastOf(q.vHost) \in Nat
    BY HostRulesets
  <2> QED BY <2>1
<1> QED BY <1>10, <1>11 DEF RewritingInv

-----------------------------------------------------------------------------
(* What a handler finds in memory.                                         *)

HandlerInv(mem, q, h) ==
  /\ h.stage = "rewrite" => q.state = "parser" /\ RewritingInv(mem, q, h.ruleset, h.opcode)
  /\ h.stage = "serve" => Group(mem, q) = Means(mem, q.name, q.version)
  /\ h.stage \in {"output", "read", "hangup", "answer", "gateway"} => q.state # "parser"

(* What is in memory ("now") is what there was when the handler began, with *)
(* the scopes of its request activated if it does so; and that is what the  *)
(* server means, if the handler before unscoped.                            *)
Found(now, gone, q, h) ==
  /\ h.stage \in {"answer", "gateway"} => now = h.found
  /\ h.stage \notin {"answer", "gateway"} => now = Group(h.found, q)
  /\ ~gone => \A s \in Setting \ Listed : h.found[s] = RootMeans[s]

ServedInv ==
  \A q \in RequestRecord, mem \in Memory :
    /\ Orderly /\ phase = "running" =>
         \A r \in Request : requests[r] = q => MeantInv(mem, q)
    /\ \A h \in Handler : handler = h /\ requests[h.request] = q =>
         /\ Found(memory, left, q, h)
         /\ Orderly /\ phase = "running" => HandlerInv(mem, q, h)

LEMMA MemoryType == ASSUME IInv PROVE memory \in Memory
BY DEF IInv, MemoryInv, Memory

(* No handler changes what the file means.                                 *)
Fixed == UNCHANGED <<scopes, file, vhosts, defaultHost, phase, compiler>>

LEMMA FixedMeans ==
  ASSUME Fixed, NEW mem, NEW q, NEW h
  PROVE  /\ Group(mem, q)' = Group(mem, q)
         /\ RootMeans' = RootMeans
         /\ (Orderly' <=> Orderly)
         /\ (MeantInv(mem, q)' <=> MeantInv(mem, q))
         /\ (HandlerInv(mem, q, h)' <=> HandlerInv(mem, q, h))
<1>1. /\ scopes' = scopes /\ file' = file /\ vhosts' = vhosts /\ defaultHost' = defaultHost
      /\ phase' = phase /\ compiler' = compiler
  BY DEF Fixed
<1>2. RootMeans' = RootMeans
  BY <1>1 DEF RootMeans, Over
<1>3. Group(mem, q)' = Group(mem, q)
  BY <1>1 DEF Group, ActivateScopeGroup
<1>4. (Orderly' <=> Orderly)
  BY <1>1 DEF Orderly
<1>5. \A name : MeantHost(name)' = MeantHost(name)
  BY <1>1 DEF MeantHost
<1>6. \A name : HostMeans(mem, name)' = HostMeans(mem, name)
  BY <1>5 DEF HostMeans, Over
<1>7. \A name, version : Means(mem, name, version)' = Means(mem, name, version)
  BY <1>5, <1>6 DEF Means
<1>8. \A name : Lookup(name)' = Lookup(name)
  BY <1>1 DEF Lookup
<1>9. (MeantInv(mem, q)' <=> MeantInv(mem, q))
  BY <1>3, <1>6, <1>7, <1>8 DEF MeantInv
<1>10. \A j : Before(mem, q, j)' = Before(mem, q, j)
  BY <1>1, <1>6 DEF Before, Start
<1>11. \A i, j : OpcodesOf(i, j)' = OpcodesOf(i, j) /\ ScopeOf(i, j)' = ScopeOf(i, j)
                 /\ LastOf(i)' = LastOf(i)
  BY <1>1 DEF OpcodesOf, ScopeOf, Pending, IsLast, Activated, Activating, LastOf
<1>12. \A j, k : Within(mem, q, j, k)' = Within(mem, q, j, k)
  BY <1>10, <1>11 DEF Within
<1>13. \A j, k : (AtOpcode(mem, q, j, k)' <=> AtOpcode(mem, q, j, k))
  BY <1>1, <1>3, <1>10, <1>11, <1>12 DEF AtOpcode
<1>14. \A j, k : (RewritingInv(mem, q, j, k)' <=> RewritingInv(mem, q, j, k))
  BY <1>3, <1>10, <1>11, <1>13 DEF RewritingInv
<1>15. (HandlerInv(mem, q, h)' <=> HandlerInv(mem, q, h))
  BY <1>3, <1>7, <1>14 DEF HandlerInv
<1> QED BY <1>2, <1>3, <1>4, <1>9, <1>15

LEMMA ServedKeeps ==
  ASSUME Fixed,
         Orderly /\ phase = "running" =>
           \A q \in RequestRecord, mem \in Memory : \A r \in Request :
             requests'[r] = q => MeantInv(mem, q),
         \A q \in RequestRecord, mem \in Memory : \A h \in Handler :
           handler' = h /\ requests'[h.request] = q =>
             /\ Found(memory', left', q, h)
             /\ Orderly /\ phase = "running" => HandlerInv(mem, q, h)
  PROVE  ServedInv'
<1>1. phase' = phase /\ RootMeans' = RootMeans
  BY FixedMeans DEF Fixed
<1>2. \A mem, q : /\ (Orderly' <=> Orderly) /\ Group(mem, q)' = Group(mem, q)
                  /\ (MeantInv(mem, q)' <=> MeantInv(mem, q))
  BY FixedMeans
<1>3. \A mem, q, h : (HandlerInv(mem, q, h)' <=> HandlerInv(mem, q, h))
  BY FixedMeans
<1>4. \A q, h : (Found(memory', left', q, h) <=> Found(memory, left, q, h)')
  BY <1>1, <1>2 DEF Found
<1>5. Memory' = Memory
  BY DEF Memory
<1> QED BY <1>1, <1>2, <1>3, <1>4, <1>5 DEF ServedInv

(* Requests with the same settings, of which one is served.                *)
LEMMA MeantAgain ==
  ASSUME NEW mem, NEW q, NEW p, MeantInv(mem, q),
         p.name = q.name, p.version = q.version, p.vHost = q.vHost, Group(mem, p) = Group(mem, q),
         p.state # "parser" => Group(mem, q) = Means(mem, q.name, q.version)
  PROVE  MeantInv(mem, p)
BY DEF MeantInv

(* The requests that handlers make of a request.                           *)
LEMMA RequestMade ==
  ASSUME NEW q \in RequestRecord, NEW x, NEW y, NEW variables, NEW group
  PROVE  /\ \A p \in {[q EXCEPT !.state = x], [q EXCEPT !.state = x, !.client = y],
                     [q EXCEPT !.state = x, !.headerSent = y]} :
              /\ p.name = q.name /\ p.version = q.version /\ p.vHost = q.vHost
              /\ p.group = q.group /\ p.state = x
         /\ \A p : p = [q EXCEPT !.headerSent = y] =>
              /\ p.name = q.name /\ p.version = q.version /\ p.vHost = q.vHost
              /\ p.group = q.group /\ p.state = q.state
         /\ \A p : p = [q EXCEPT !.variables = variables] =>
              /\ p.name = q.name /\ p.version = q.version /\ p.vHost = q.vHost
              /\ p.group = q.group /\ p.variables = variables /\ p.state = q.state
         /\ \A p : p = [q EXCEPT !.group = group] =>
              /\ p.name = q.name /\ p.version = q.version /\ p.vHost = q.vHost
              /\ p.group = group /\ p.variables = q.variables /\ p.state = q.state
<1>1. PICK states : RequestRecord =
        [name : Nat, version : Versions, vHost : Nat, variables : [Variable -> Nat],
         group : Seq(Nat), client : Nat, headerSent : BOOLEAN, state : states]
  BY Zenon DEF RequestRecord
<1> QED BY <1>1

(* The handler goes on with its request, or with what became of it.        *)
LEMMA GoesOnServed ==
  ASSUME ServedInv, Fixed, NEW r \in Request, NEW p \in RequestRecord, NEW g \in Handler,
         requests'[r] = p, \A x \in Request \ {r} : requests'[x] = requests[x],
         handler' = g, g.request = r, Found(memory', left', p, g),
         Orderly /\ phase = "running" =>
           \A mem \in Memory : MeantInv(mem, p) /\ HandlerInv(mem, p, g)
  PROVE  ServedInv'
<1>1. ASSUME Orderly, phase = "running", NEW q \in RequestRecord, NEW mem \in Memory,
             NEW x \in Request, requests'[x] = q
      PROVE  MeantInv(mem, q)
  BY <1>1 DEF ServedInv
<1>2. ASSUME NEW q \in RequestRecord, NEW mem \in Memory, NEW h \in Handler,
             handler' = h, requests'[h.request] = q
      PROVE  /\ Found(memory', left', q, h)
             /\ Orderly /\ phase = "running" => HandlerInv(mem, q, h)
  BY <1>2
<1> QED BY <1>1, <1>2, ServedKeeps

(* A handler has returned.                                                 *)
LEMMA EndServed ==
  ASSUME ServedInv, Fixed, NEW r \in Request, handler' = NULL,
         \A x \in Request \ {r} : requests'[x] = requests[x],
         \A p \in RequestRecord, mem \in Memory :
           requests'[r] = p /\ Orderly /\ phase = "running" => MeantInv(mem, p)
  PROVE  ServedInv'
<1>1. ASSUME Orderly, phase = "running", NEW q \in RequestRecord, NEW mem \in Memory,
             NEW x \in Request, requests'[x] = q
      PROVE  MeantInv(mem, q)
  BY <1>1 DEF ServedInv
<1>2. \A h \in Handler : handler' # h
  BY NullAssumption
<1> QED BY <1>1, <1>2, ServedKeeps

LEMMA HandleHeaderServed ==
  ASSUME IInv, CompileInv, ServedInv,
         NEW r \in Request, NEW name \in 0..Len(vhosts), NEW version \in Versions,
         HandleHeader(r, name, version)
  PROVE  ServedInv'
<1>1. PICK p :
        /\ p = [name |-> name, version |-> version, vHost |-> Lookup(name),
                variables |-> [HTTPVersion |-> version, HTTPAnswerCode |-> 0,
                               HTTPMethod |-> 1],
                group |-> <<vhosts[Lookup(name)].scope>>, client |-> Default,
                headerSent |-> FALSE, state |-> "parser"]
        /\ requests' = [requests EXCEPT ![r] = p]
  BY DEF HandleHeader
<1>2. /\ p.name = name /\ p.version = version /\ p.vHost = Lookup(name)
      /\ p.variables = [HTTPVersion |-> version, HTTPAnswerCode |-> 0, HTTPMethod |-> 1]
      /\ p.group = <<vhosts[Lookup(name)].scope>> /\ p.state = "parser"
  BY <1>1
<1>3. /\ phase = "running" /\ handler = NULL /\ requests[r] = NULL
      /\ memory' = ActivateScope(memory, scopes[vhosts[Lookup(name)].scope])
      /\ Begin(r, "rewrite")
  BY DEF HandleHeader, MayBegin
<1>4. PICK g \in Handler : handler' = g
  BY <1>3, Begins DEF Stage
<1>5. left' = left /\ Fixed
  BY <1>3 DEF Begin, Fixed, loading
<1>6. name \in Nat
  OBVIOUS
<1>7. /\ g.stage = "rewrite" /\ g.request = r /\ g.ruleset = 1 /\ g.opcode = 1
      /\ g.found = memory /\ memory \in Memory
  BY <1>3, <1>4, Begins, MemoryType DEF Stage
<1>8. requests'[r] = p /\ (\A x \in Request \ {r} : requests'[x] = requests[x])
      /\ DOMAIN requests = Request
  <2>1. DOMAIN requests = Request
    BY DEF IInv, RequestInv
  <2> QED BY <1>1, <2>1
<1>9. p \in RequestRecord
  <2>1. IInv'
    BY HandleHeaderKeeps
  <2>2. handler' # NULL
    BY <1>4, <1>7, NullAssumption
  <2>3. requests'[g.request] # NULL
    BY <1>4, <2>1, <2>2 DEF IInv, RequestInv
  <2>4. requests'[r] \in RequestRecord
    BY <1>7, <2>1, <2>3 DEF IInv, RequestInv, IsRequest
  <2> QED BY <1>8, <2>4
<1>10. ASSUME NEW mem \in Memory
       PROVE  /\ Group(mem, p) = HostMeans(mem, name)
              /\ Group(mem, p) = ActivateScope(mem, scopes[vhosts[Lookup(name)].scope])
  <2>1. Group(mem, p) = ActivateScopeGroup(mem, <<vhosts[Lookup(name)].scope>>)
    BY <1>2 DEF Group
  <2> QED BY <1>3, <1>6, <2>1, GroupOne, HostMeansScope
<1>11. Found(memory', left', p, g)
  <2>1. ~left => \A s \in Setting \ Listed : memory[s] = RootMeans[s]
    BY <1>3 DEF IInv, MemoryInv, RootInv, NoScope
  <2>2. memory' = Group(g.found, p)
    BY <1>3, <1>7, <1>10
  <2> QED BY <1>5, <1>7, <2>1, <2>2 DEF Found
<1>12. ASSUME NEW mem \in Memory PROVE MeantInv(mem, p)
  BY <1>2, <1>10 DEF MeantInv
<1>13. ASSUME Orderly, NEW mem \in Memory PROVE HandlerInv(mem, p, g)
  <2>1. Running
    BY <1>3, <1>13 DEF Running
  <2>2. p.vHost \in 1..Len(vhosts)
    BY <1>2, <1>3, <1>6, MeantHostFound
  <2>3. Before(mem, p, 1) = Start(mem, p)
    BY <1>9, <2>1, <2>2, BeforeStep
  <2>4. AtRuleset(mem, p, 1)
    BY <1>2, <1>10, <2>3 DEF AtRuleset, Start
  <2>5. 1 \in 1..(LastOf(p.vHost) + 1)
    <3>1. LastOf(p.vHost) \in Nat
      BY <2>1, <2>2, HostRulesets
    <3> QED BY <3>1
  <2>6. RewritingInv(mem, p, 1, 1)
    BY <1>9, <2>1, <2>2, <2>4, <2>5, EnterRuleset
  <2> QED BY <1>2, <1>7, <2>6 DEF HandlerInv
<1> QED BY <1>4, <1>5, <1>7, <1>8, <1>9, <1>11, <1>12, <1>13, GoesOnServed

(* The request and the place of a handler that is rewriting.               *)
RewritingAt(q, j, k) ==
  /\ q \in RequestRecord /\ q = Current /\ q.vHost \in 1..Len(vhosts)
  /\ j = handler.ruleset /\ k = handler.opcode /\ j \in Nat /\ k \in Nat /\ j > 0 /\ k > 0
  /\ Rulesets = vhosts[q.vHost].rulesets
  /\ Found(memory, left, q, handler) /\ handler.found \in Memory
  /\ memory = Group(handler.found, q)
  /\ Orderly => /\ Running /\ q.state = "parser"
                /\ \A mem \in Memory : MeantInv(mem, q) /\ RewritingInv(mem, q, j, k)

LEMMA RewritingRequest ==
  ASSUME IInv, CompileInv, ServedInv, Rewriting
  PROVE  \E q, j, k : RewritingAt(q, j, k)
<1>1. handler # NULL /\ handler.stage = "rewrite"
  BY DEF Rewriting
<1>2. /\ phase = "running" /\ handler \in Handler /\ handler.request \in Request
      /\ handler.ruleset > 0 /\ handler.opcode > 0 /\ IsRequest(Current)
  BY <1>1, CurrentRequest
<1>3. PICK h \in Handler : h = handler
  BY <1>2
<1>4. PICK q \in RequestRecord : q = Current
  BY <1>2 DEF IsRequest
<1>5. q.vHost \in 1..Len(vhosts) /\ requests[h.request] = q
  BY <1>2, <1>3, <1>4 DEF IsRequest, Current
<1>6. handler.ruleset \in Nat /\ handler.opcode \in Nat
  BY <1>2 DEF Handler
<1>7. Rulesets = vhosts[q.vHost].rulesets
  BY <1>4 DEF Rulesets
<1>8. /\ Found(memory, left, q, handler) /\ handler.found \in Memory
      /\ memory = Group(handler.found, q)
  <2>1. memory \in Memory
    BY MemoryType
  <2>2. Found(memory, left, q, h)
    BY <1>3, <1>5, <2>1 DEF ServedInv
  <2>3. h.found \in Memory
    BY DEF Handler, Memory
  <2> QED BY <1>1, <1>3, <2>2, <2>3 DEF Found
<1>9. ASSUME Orderly
      PROVE  /\ Running /\ q.state = "parser"
             /\ \A mem \in Memory : MeantInv(mem, q) /\ RewritingInv(mem, q, h.ruleset, h.opcode)
  <2>1. ASSUME NEW mem \in Memory PROVE MeantInv(mem, q) /\ HandlerInv(mem, q, h)
    BY <1>2, <1>3, <1>5, <1>9 DEF ServedInv
  <2>2. memory \in Memory
    BY MemoryType
  <2>3. Running
    BY <1>2, <1>9 DEF Running
  <2> QED BY <1>1, <1>3, <2>1, <2>2, <2>3 DEF HandlerInv
<1>10. RewritingAt(q, h.ruleset, h.opcode)
  BY <1>2, <1>3, <1>4, <1>5, <1>6, <1>7, <1>8, <1>9 DEF RewritingAt
<1> QED BY <1>10

(* Only the request of the handler becomes another.                        *)
OnlyBecomes(p) ==
  /\ requests'[handler.request] = p
  /\ \A x \in Request \ {handler.request} : requests'[x] = requests[x]

LEMMA RequestOnly == ASSUME IInv, handler # NULL, NEW p, Becomes(p) PROVE OnlyBecomes(p)
<1>1. DOMAIN requests = Request /\ handler.request \in Request
  BY CurrentRequest DEF IInv, RequestInv
<1> QED BY <1>1 DEF Becomes, OnlyBecomes

(* Where the handler is next.                                              *)
LEMMA HandlerNext ==
  ASSUME IInv, handler # NULL, NEW g, g = handler'
  PROVE  /\ NextOpcode => /\ g.stage = handler.stage /\ g.ruleset = handler.ruleset
                          /\ g.opcode = handler.opcode + 1 /\ g.found = handler.found
         /\ StopExecution => /\ g.stage = handler.stage /\ g.ruleset = handler.ruleset + 1
                             /\ g.opcode = 1 /\ g.found = handler.found
         /\ Throw => g.stage = "exception" /\ g.found = handler.found
         /\ handler' = [handler EXCEPT !.stage = "serve"] =>
              g.stage = "serve" /\ g.found = handler.found
<1>1. handler \in Handler
  BY CurrentRequest
<1>2. NextOpcode => /\ g.stage = handler.stage /\ g.ruleset = handler.ruleset
                    /\ g.opcode = handler.opcode + 1 /\ g.found = handler.found
  BY <1>1 DEF NextOpcode, Handler
<1>3. StopExecution => /\ g.stage = handler.stage /\ g.ruleset = handler.ruleset + 1
                       /\ g.opcode = 1 /\ g.found = handler.found
  BY <1>1 DEF StopExecution, Handler
<1>4. /\ Throw => g.stage = "exception" /\ g.found = handler.found
      /\ handler' = [handler EXCEPT !.stage = "serve"] =>
           g.stage = "serve" /\ g.found = handler.found
  BY <1>1 DEF Throw, Handler
<1> QED BY <1>2, <1>3, <1>4

(* A step of the virtual machine leaves the request or makes another of it *)
(* with the same name, version and host.                                   *)
LEMMA ExecutionServed ==
  ASSUME IInv, ServedInv, Rewriting, UnchangedByHandler,
         NEW q, NEW j, NEW k, RewritingAt(q, j, k),
         NEW p \in RequestRecord, OnlyBecomes(p),
         NextOpcode \/ StopExecution \/ Throw \/ handler' = [handler EXCEPT !.stage = "serve"],
         memory' = Group(handler.found, p),
         Orderly => \A mem \in Memory :
                      MeantInv(mem, p) /\ \A g : g = handler' => HandlerInv(mem, p, g)
  PROVE  ServedInv'
<1>1. handler # NULL
  BY DEF Rewriting
<1>2. handler' \in Handler /\ handler'.request = handler.request /\ handler.request \in Request
  BY <1>1, HandlerGoesOn, CurrentRequest
<1>3. PICK r \in Request : r = handler.request
  BY <1>2
<1>4. PICK g \in Handler : g = handler'
  BY <1>2
<1>5. requests'[r] = p /\ (\A x \in Request \ {r} : requests'[x] = requests[x])
  BY <1>3 DEF OnlyBecomes
<1>6. left' = left /\ Fixed
  BY DEF UnchangedByHandler, Fixed, loading
<1>7. g.request = r /\ handler' = g
  BY <1>2, <1>3, <1>4
<1>8. Found(memory', left', p, g)
  <2>1. ~left => \A s \in Setting \ Listed : handler.found[s] = RootMeans[s]
    BY DEF RewritingAt, Found
  <2>2. handler.stage = "rewrite"
    BY DEF Rewriting
  <2>3. g.found = handler.found /\ g.stage \in {"rewrite", "exception", "serve"}
    BY <1>1, <1>7, <2>2, HandlerNext
  <2> QED BY <1>6, <2>1, <2>3 DEF Found
<1>9. Orderly => \A mem \in Memory : MeantInv(mem, p) /\ HandlerInv(mem, p, g)
  BY <1>7
<1> QED BY <1>5, <1>6, <1>7, <1>8, <1>9, GoesOnServed

LEMMA SameRequest ==
  ASSUME IInv, Rewriting, UNCHANGED requests, NEW q, NEW j, NEW k, RewritingAt(q, j, k)
  PROVE  OnlyBecomes(q) /\ q \in RequestRecord
BY DEF RewritingAt, Current, OnlyBecomes

(* The opcode at hand, in a ruleset that is running.                       *)
LEMMA HandOpcode ==
  ASSUME IInv, InRuleset, NEW q, NEW j, NEW k, RewritingAt(q, j, k), Orderly,
         NEW mem \in Memory
  PROVE  /\ j \in 1..LastOf(q.vHost) /\ k \in 1..Len(OpcodesOf(q.vHost, j))
         /\ AtOpcode(mem, q, j, k) /\ Within(mem, q, j, k) \in So
         /\ AtHand = OpcodesOf(q.vHost, j)[k] /\ AtHand \in Element
         /\ Within(mem, q, j, k + 1) = ItemMeans(Within(mem, q, j, k), AtHand)
<1>1. /\ q \in RequestRecord /\ q.vHost \in 1..Len(vhosts) /\ j \in Nat /\ k \in Nat
      /\ j > 0 /\ k > 0 /\ Running /\ RewritingInv(mem, q, j, k)
  BY DEF RewritingAt
<1>2. LastOf(q.vHost) \in Nat
  BY <1>1, HostRulesets
<1>3. /\ j = handler.ruleset /\ k = handler.opcode
      /\ Rulesets = vhosts[q.vHost].rulesets
  BY DEF RewritingAt
<1>4. j <= LastOf(q.vHost)
  BY <1>3 DEF InRuleset, LastOf
<1>5. j \in 1..LastOf(q.vHost)
  BY <1>1, <1>2, <1>4
<1>6. AtHand = OpcodesOf(q.vHost, j)[k] /\ k <= Len(OpcodesOf(q.vHost, j))
  BY <1>3 DEF AtHand, OpcodesOf, InRuleset
<1>7. PICK opcodes \in Seq(Element) : opcodes = OpcodesOf(q.vHost, j)
  BY <1>1, <1>5, RunningRuleset
<1>8. k \in 1..Len(opcodes)
  BY <1>1, <1>6, <1>7
<1>9. AtHand \in Element
  BY <1>6, <1>7, <1>8
<1>10. AtOpcode(mem, q, j, k)
  BY <1>1, <1>4 DEF RewritingInv
<1>11. Within(mem, q, j, k) \in So
  <2>1. k \in 1..(Len(opcodes) + 1)
    BY <1>8
  <2> QED BY <1>1, <1>5, <1>7, <2>1, WithinType
<1>12. Within(mem, q, j, k + 1) = ItemMeans(Within(mem, q, j, k), AtHand)
  BY <1>1, <1>5, <1>6, <1>7, <1>8, WithinStep
<1> QED BY <1>5, <1>6, <1>7, <1>8, <1>9, <1>10, <1>11, <1>12

LEMMA IsEqualServed == ASSUME IInv, CompileInv, ServedInv, IsEqual PROVE ServedInv'
<1>1. /\ Rewriting /\ InRuleset /\ handler # NULL /\ AtHand.op \in Conditions
      /\ UnchangedByHandler /\ UNCHANGED <<memory, requests>>
      /\ IF Holds(Current.variables, AtHand) THEN NextOpcode ELSE StopExecution
  BY DEF IsEqual, InRuleset, Rewriting
<1>2. PICK q, j, k : RewritingAt(q, j, k)
  BY <1>1, RewritingRequest
<1>3. /\ q \in RequestRecord /\ q = Current /\ q.vHost \in 1..Len(vhosts)
      /\ j = handler.ruleset /\ k = handler.opcode /\ j \in Nat /\ k \in Nat
      /\ memory = Group(handler.found, q)
      /\ Orderly => Running /\ q.state = "parser" /\ \A mem \in Memory : MeantInv(mem, q)
  BY <1>2 DEF RewritingAt
<1>4. OnlyBecomes(q)
  BY <1>1, <1>2, SameRequest
<1>5. handler.stage = "rewrite"
  BY <1>1 DEF Rewriting
<1>6. ASSUME Orderly, NEW mem \in Memory, NEW g, g = handler' PROVE HandlerInv(mem, q, g)
  <2>1. Running /\ LastOf(q.vHost) \in Nat
    BY <1>3, <1>6, HostRulesets
  <2>2. /\ j \in 1..LastOf(q.vHost) /\ k \in 1..Len(OpcodesOf(q.vHost, j))
        /\ AtOpcode(mem, q, j, k) /\ Within(mem, q, j, k) \in So
        /\ AtHand = OpcodesOf(q.vHost, j)[k] /\ AtHand \in Element
        /\ Within(mem, q, j, k + 1) = ItemMeans(Within(mem, q, j, k), AtHand)
    BY <1>1, <1>2, <1>6, HandOpcode
  <2>3. Within(mem, q, j, k).applies /\ Within(mem, q, j, k).variables = q.variables
    BY <2>2 DEF AtOpcode
  <2>4. Within(mem, q, j, k + 1)
          = [Within(mem, q, j, k) EXCEPT !.applies = Holds(q.variables, AtHand)]
    BY <1>1, <2>2, <2>3, ElementMeans
  <2>5. /\ (Within(mem, q, j, k + 1).applies <=> Holds(q.variables, AtHand))
        /\ Within(mem, q, j, k + 1).variables = q.variables
    BY <2>2, <2>3, <2>4 DEF So
  <2>6. CASE Holds(q.variables, AtHand)
    <3>1. NextOpcode
      BY <1>1, <1>3, <2>6
    <3>2. g.stage = "rewrite" /\ g.ruleset = j /\ g.opcode = k + 1
      BY <1>1, <1>3, <1>5, <1>6, <3>1, HandlerNext
    <3>3. OpcodesOf(q.vHost, j)[k].op # "ACTIVATE_SCOPE"
      BY <1>1, <2>2 DEF Conditions
    <3>4. RewritingInv(mem, q, j, k + 1)
      BY <1>3, <2>1, <2>2, <2>5, <2>6, <3>3, NextOpcodeOf
    <3> QED BY <1>3, <1>6, <3>2, <3>4 DEF HandlerInv
  <2>7. CASE ~Holds(q.variables, AtHand)
    <3>1. StopExecution
      BY <1>1, <1>3, <2>7
    <3>2. g.stage = "rewrite" /\ g.ruleset = j + 1 /\ g.opcode = 1
      BY <1>1, <1>3, <1>5, <1>6, <3>1, HandlerNext
    <3>3. k <= Len(OpcodesOf(q.vHost, j))
      BY <2>2
    <3>4. AtRuleset(mem, q, j + 1)
      BY <1>3, <2>1, <2>2, <2>5, <2>7, <3>3, LeaveRuleset
    <3>5. j + 1 \in 1..(LastOf(q.vHost) + 1)
      BY <2>1, <2>2
    <3>6. RewritingInv(mem, q, j + 1, 1)
      BY <1>3, <2>1, <3>4, <3>5, EnterRuleset
    <3> QED BY <1>3, <1>6, <3>2, <3>6 DEF HandlerInv
  <2> QED BY <2>6, <2>7
<1>7. NextOpcode \/ StopExecution
  BY <1>1
<1>8. memory' = Group(handler.found, q)
  BY <1>1, <1>3
<1> QED BY <1>1, <1>2, <1>3, <1>4, <1>6, <1>7, <1>8, ExecutionServed

LEMMA ThrowServed ==
  ASSUME IInv, CompileInv, ServedInv, Rewriting, Throw, UnchangedByHandler,
         UNCHANGED <<memory, requests>>
  PROVE  ServedInv'
<1>1. PICK q, j, k : RewritingAt(q, j, k)
  BY RewritingRequest
<1>2. q \in RequestRecord /\ (Orderly => \A mem \in Memory : MeantInv(mem, q))
  BY <1>1 DEF RewritingAt
<1>3. OnlyBecomes(q)
  BY <1>1, SameRequest
<1>4. handler # NULL
  BY DEF Rewriting
<1>5. \A mem, g : g = handler' => HandlerInv(mem, q, g)
  BY <1>4, HandlerNext DEF HandlerInv
<1>6. memory' = Group(handler.found, q)
  BY <1>1 DEF RewritingAt
<1> QED BY <1>1, <1>2, <1>3, <1>5, <1>6, ExecutionServed

LEMMA SetServed ==
  ASSUME IInv, CompileInv, ServedInv, Set, ~Refused(Current.variables, AtHand)
  PROVE  ServedInv'
<1>1. /\ Rewriting /\ InRuleset /\ handler # NULL /\ AtHand.op = "SET"
      /\ UnchangedByHandler /\ UNCHANGED memory /\ NextOpcode
      /\ Becomes([Current EXCEPT !.variables[AtHand.name] = AtHand.value])
  BY DEF Set, InRuleset, Rewriting
<1>2. PICK q, j, k : RewritingAt(q, j, k)
  BY <1>1, RewritingRequest
<1>3. /\ q \in RequestRecord /\ q = Current /\ q.vHost \in 1..Len(vhosts)
      /\ j = handler.ruleset /\ k = handler.opcode /\ j \in Nat /\ k \in Nat
      /\ memory = Group(handler.found, q)
      /\ Orderly => Running /\ q.state = "parser" /\ \A mem \in Memory : MeantInv(mem, q)
  BY <1>2 DEF RewritingAt
<1>4. PICK variables : variables = [q.variables EXCEPT ![AtHand.name] = AtHand.value]
  OBVIOUS
<1>5. PICK p : p = [q EXCEPT !.variables = variables]
  OBVIOUS
<1>6. Becomes(p)
  BY <1>1, <1>3, <1>4, <1>5
<1>7. OnlyBecomes(p)
  BY <1>1, <1>6, RequestOnly
<1>8. /\ p.name = q.name /\ p.version = q.version /\ p.vHost = q.vHost
      /\ p.group = q.group /\ p.variables = variables /\ p.state = q.state
  BY <1>3, <1>5, RequestMade
<1>9. p \in RequestRecord
  <2>1. IInv'
    BY ExecuteKeeps DEF Execute
  <2>2. handler.request \in Request
    BY <1>1, CurrentRequest
  <2>3. handler' # NULL /\ handler'.request = handler.request
    BY <1>1, HandlerGoesOn
  <2>4. requests'[handler.request] # NULL
    BY <2>1, <2>3 DEF IInv, RequestInv
  <2>5. requests'[handler.request] \in RequestRecord
    BY <2>1, <2>2, <2>4 DEF IInv, RequestInv, IsRequest
  <2> QED BY <1>7, <2>5 DEF OnlyBecomes
<1>10. \A mem : Group(mem, p) = Group(mem, q)
  BY <1>8 DEF Group
<1>11. handler.stage = "rewrite"
  BY <1>1 DEF Rewriting
<1>12. ASSUME Orderly, NEW mem \in Memory, NEW g, g = handler' PROVE HandlerInv(mem, p, g)
  <2>1. Running
    BY <1>3, <1>12
  <2>2. /\ j \in 1..LastOf(q.vHost) /\ k \in 1..Len(OpcodesOf(q.vHost, j))
        /\ AtOpcode(mem, q, j, k) /\ Within(mem, q, j, k) \in So
        /\ AtHand = OpcodesOf(q.vHost, j)[k] /\ AtHand \in Element
        /\ Within(mem, q, j, k + 1) = ItemMeans(Within(mem, q, j, k), AtHand)
    BY <1>1, <1>2, <1>12, HandOpcode
  <2>3. Within(mem, q, j, k).applies /\ Within(mem, q, j, k).variables = q.variables
    BY <2>2 DEF AtOpcode
  <2>4. Within(mem, q, j, k + 1)
          = [Within(mem, q, j, k) EXCEPT !.variables[AtHand.name] = AtHand.value]
    BY <1>1, <2>2, <2>3, ElementMeans
  <2>5. Within(mem, q, j, k + 1).applies /\ Within(mem, q, j, k + 1).variables = p.variables
    <3>1. PICK so \in So : so = Within(mem, q, j, k)
      BY <2>2
    <3>2. PICK name, value : name = AtHand.name /\ value = AtHand.value
      OBVIOUS
    <3>3. Within(mem, q, j, k + 1) = [so EXCEPT !.variables[name] = value]
      BY <2>4, <3>1, <3>2
    <3>4. /\ ([so EXCEPT !.variables[name] = value].applies <=> so.applies)
          /\ [so EXCEPT !.variables[name] = value].variables
               = [so.variables EXCEPT ![name] = value]
      BY DEF So
    <3>5. variables = [so.variables EXCEPT ![name] = value] /\ so.applies
      BY <1>4, <2>3, <3>1, <3>2
    <3> QED BY <1>8, <3>3, <3>4, <3>5
  <2>6. g.stage = "rewrite" /\ g.ruleset = j /\ g.opcode = k + 1
    BY <1>1, <1>3, <1>11, <1>12, HandlerNext
  <2>7. OpcodesOf(q.vHost, j)[k].op # "ACTIVATE_SCOPE"
    BY <1>1, <2>2
  <2>8. RewritingInv(mem, p, j, k + 1)
    BY <1>3, <1>8, <1>10, <2>1, <2>2, <2>5, <2>7, NextOpcodeOf
  <2> QED BY <1>3, <1>8, <1>12, <2>6, <2>8 DEF HandlerInv
<1>13. ASSUME Orderly, NEW mem \in Memory PROVE MeantInv(mem, p)
  <2>1. MeantInv(mem, q)
    BY <1>3, <1>13
  <2> QED BY <1>8, <1>10, <2>1 DEF MeantInv
<1>14. memory' = Group(handler.found, p)
  BY <1>1, <1>3, <1>10
<1> QED BY <1>1, <1>2, <1>7, <1>9, <1>12, <1>13, <1>14, ExecutionServed

LEMMA ActivateServed ==
  ASSUME IInv, CompileInv, ServedInv, ExecuteActivateScope PROVE ServedInv'
<1>1. /\ Rewriting /\ InRuleset /\ handler # NULL /\ AtHand.op = "ACTIVATE_SCOPE"
      /\ UnchangedByHandler /\ NextOpcode
      /\ memory' = ActivateScope(memory, scopes[AtHand.value])
      /\ Becomes([Current EXCEPT !.group = Append(@, AtHand.value)])
  BY DEF ExecuteActivateScope, InRuleset, Rewriting
<1>2. PICK q, j, k : RewritingAt(q, j, k)
  BY <1>1, RewritingRequest
<1>3. /\ q \in RequestRecord /\ q = Current /\ q.vHost \in 1..Len(vhosts)
      /\ j = handler.ruleset /\ k = handler.opcode /\ j \in Nat /\ k \in Nat
      /\ memory = Group(handler.found, q)
      /\ Orderly => Running /\ q.state = "parser" /\ \A mem \in Memory : MeantInv(mem, q)
  BY <1>2 DEF RewritingAt
<1>4. PICK i : i = AtHand.value
  OBVIOUS
<1>5. i \in 2..Len(scopes) /\ i \in Nat
  <2>1. AtHand \in AnyOpcode(Len(scopes)) /\ Len(scopes) \in Nat
    BY <1>1, AtHandType DEF IInv, ScopeInv
  <2>2. i \in 2..Len(scopes)
    BY <1>1, <1>4, <2>1, ActivatedValue
  <2> QED BY <2>1, <2>2
<1>6. PICK group : group = Append(q.group, i)
  OBVIOUS
<1>7. PICK p : p = [q EXCEPT !.group = group]
  OBVIOUS
<1>8. Becomes(p)
  BY <1>1, <1>3, <1>4, <1>6, <1>7
<1>9. OnlyBecomes(p)
  BY <1>1, <1>8, RequestOnly
<1>10. /\ p.name = q.name /\ p.version = q.version /\ p.vHost = q.vHost
       /\ p.group = group /\ p.variables = q.variables /\ p.state = q.state
  BY <1>3, <1>7, RequestMade
<1>11. p \in RequestRecord
  <2>1. IInv'
    BY ExecuteKeeps DEF Execute
  <2>2. handler.request \in Request
    BY <1>1, CurrentRequest
  <2>3. handler' # NULL /\ handler'.request = handler.request
    BY <1>1, HandlerGoesOn
  <2>4. requests'[handler.request] # NULL
    BY <2>1, <2>3 DEF IInv, RequestInv
  <2>5. requests'[handler.request] \in RequestRecord
    BY <2>1, <2>2, <2>4 DEF IInv, RequestInv, IsRequest
  <2> QED BY <1>9, <2>5 DEF OnlyBecomes
<1>12. ASSUME NEW mem PROVE Group(mem, p) = ActivateScope(Group(mem, q), scopes[i])
  <2>1. PICK before \in Seq(Nat) : before = q.group
    BY <1>3, RequestFields
  <2>2. ActivateScopeGroup(mem, Append(before, i))
          = ActivateScope(ActivateScopeGroup(mem, before), scopes[i])
    BY <1>5, GroupAppend
  <2> QED BY <1>6, <1>10, <2>1, <2>2 DEF Group
<1>13. handler.stage = "rewrite"
  BY <1>1 DEF Rewriting
<1>14. ASSUME Orderly, NEW mem \in Memory
       PROVE  /\ Running /\ j \in 1..LastOf(q.vHost) /\ k \in 1..Len(OpcodesOf(q.vHost, j))
              /\ AtOpcode(mem, q, j, k) /\ Within(mem, q, j, k) \in So
              /\ AtHand = OpcodesOf(q.vHost, j)[k] /\ AtHand \in Element
              /\ Within(mem, q, j, k + 1) = ItemMeans(Within(mem, q, j, k), AtHand)
  BY <1>1, <1>2, <1>3, <1>14, HandOpcode
<1>15. ASSUME Orderly, NEW mem \in Memory, NEW g, g = handler' PROVE HandlerInv(mem, p, g)
  <2>1. Within(mem, q, j, k).applies /\ Within(mem, q, j, k).variables = q.variables
    BY <1>14, <1>15 DEF AtOpcode
  <2>2. Within(mem, q, j, k + 1) = Within(mem, q, j, k)
    BY <1>1, <1>14, <1>15, ElementMeans
  <2>3. g.stage = "rewrite" /\ g.ruleset = j /\ g.opcode = k + 1
    BY <1>1, <1>3, <1>13, <1>15, HandlerNext
  <2>4. OpcodesOf(q.vHost, j)[k].op = "ACTIVATE_SCOPE" /\ OpcodesOf(q.vHost, j)[k].value = i
    BY <1>1, <1>4, <1>14, <1>15
  <2>5. RewritingInv(mem, p, j, k + 1)
    BY <1>3, <1>10, <1>12, <1>14, <1>15, <2>1, <2>2, <2>4, NextOpcodeOf
  <2> QED BY <1>3, <1>10, <1>15, <2>3, <2>5 DEF HandlerInv
<1>16. ASSUME Orderly, NEW mem \in Memory PROVE MeantInv(mem, p)
  <2>1. MeantInv(mem, q)
    BY <1>3, <1>16
  <2>2. /\ Running /\ j \in 1..LastOf(q.vHost) /\ j \in Nat
        /\ AtHand = OpcodesOf(q.vHost, j)[k] /\ k \in 1..Len(OpcodesOf(q.vHost, j))
    BY <1>3, <1>14, <1>16
  <2>3. ValuesIn(scopes, ScopeOf(q.vHost, j)) = scopes[i]
    BY <1>1, <1>3, <1>4, <2>2, ActivatedValues
  <2>4. ~("ServerHeader" \in DOMAIN scopes[i])
    BY <1>3, <2>2, <2>3, RunningRuleset
  <2>5. "ServerHeader" \in Setting
    BY Constants
  <2>6. Group(mem, p)["ServerHeader"] = Group(mem, q)["ServerHeader"]
    BY <1>12, <2>4, <2>5 DEF ActivateScope
  <2>7. p.state = "parser"
    BY <1>3, <1>10, <1>16
  <2> QED BY <1>10, <2>1, <2>6, <2>7 DEF MeantInv
<1>17. memory' = Group(handler.found, p)
  BY <1>1, <1>3, <1>4, <1>12
<1> QED BY <1>1, <1>2, <1>9, <1>11, <1>15, <1>16, <1>17, ExecutionServed

LEMMA EndOfRulesetServed == ASSUME IInv, CompileInv, ServedInv, EndOfRuleset PROVE ServedInv'
<1>1. /\ Rewriting /\ handler # NULL /\ handler.stage = "rewrite"
      /\ handler.ruleset <= Len(Rulesets)
      /\ handler.opcode > Len(Rulesets[handler.ruleset])
      /\ StopExecution /\ UnchangedByHandler /\ UNCHANGED <<memory, requests>>
  BY DEF EndOfRuleset, Rewriting
<1>2. PICK q, j, k : RewritingAt(q, j, k)
  BY <1>1, RewritingRequest
<1>3. /\ q \in RequestRecord /\ q.vHost \in 1..Len(vhosts)
      /\ j = handler.ruleset /\ k = handler.opcode /\ j \in Nat /\ k \in Nat /\ j > 0
      /\ memory = Group(handler.found, q)
      /\ Rulesets = vhosts[q.vHost].rulesets
      /\ Orderly => /\ Running /\ q.state = "parser"
                    /\ \A mem \in Memory : MeantInv(mem, q) /\ RewritingInv(mem, q, j, k)
  BY <1>2 DEF RewritingAt
<1>4. OnlyBecomes(q)
  BY <1>1, <1>2, SameRequest
<1>5. ASSUME Orderly, NEW mem \in Memory, NEW g, g = handler' PROVE HandlerInv(mem, q, g)
  <2>1. Running /\ LastOf(q.vHost) \in Nat
    BY <1>3, <1>5, HostRulesets
  <2>2. j <= LastOf(q.vHost) /\ k > Len(OpcodesOf(q.vHost, j))
    BY <1>1, <1>3 DEF LastOf, OpcodesOf
  <2>3. j \in 1..LastOf(q.vHost) /\ AtOpcode(mem, q, j, k)
    BY <1>3, <1>5, <2>1, <2>2 DEF RewritingInv
  <2>4. PICK opcodes \in Seq(Element) : opcodes = OpcodesOf(q.vHost, j)
    BY <1>3, <2>1, <2>3, RunningRuleset
  <2>5. k = Len(opcodes) + 1
    BY <2>2, <2>3, <2>4 DEF AtOpcode
  <2>6. AtRuleset(mem, q, j + 1)
    BY <1>3, <2>1, <2>3, <2>4, <2>5, LeaveRuleset
  <2>7. j + 1 \in 1..(LastOf(q.vHost) + 1)
    BY <2>1, <2>3
  <2>8. RewritingInv(mem, q, j + 1, 1)
    BY <1>3, <2>1, <2>6, <2>7, EnterRuleset
  <2>9. g.stage = "rewrite" /\ g.ruleset = j + 1 /\ g.opcode = 1
    BY <1>1, <1>3, <1>5, HandlerNext
  <2> QED BY <1>3, <1>5, <2>8, <2>9 DEF HandlerInv
<1>6. memory' = Group(handler.found, q)
  BY <1>1, <1>3
<1> QED BY <1>1, <1>2, <1>3, <1>4, <1>5, <1>6, ExecutionServed

(* After all its rulesets a request has what is meant for it.              *)
LEMMA AllRulesets ==
  ASSUME Running, NEW mem \in Memory, NEW q \in RequestRecord, q.vHost \in 1..Len(vhosts),
         MeantInv(mem, q), NEW j \in Nat,
         RewritingInv(mem, q, j, 1) \/ (\E k \in Nat : RewritingInv(mem, q, j, k)),
         j > LastOf(q.vHost)
  PROVE  Group(mem, q) = Means(mem, q.name, q.version)
<1>1. LastOf(q.vHost) \in Nat /\ j \in 1..(LastOf(q.vHost) + 1)
  BY HostRulesets DEF RewritingInv
<1>2. j - 1 = LastOf(q.vHost)
  BY <1>1
<1>3. PICK rulesets \in Seq(Seq(Item)) : rulesets = file.hosts[q.vHost].rulesets
  BY HostRulesets
<1>4. Len(rulesets) = j - 1
  BY <1>2, <1>3, HostRulesets
<1>5. SubSeq(rulesets, 1, j - 1) = rulesets
  BY <1>4, WholeSeq
<1>6. Before(mem, q, j) = FoldLeft(RulesetMeans, Start(mem, q), rulesets)
  BY <1>3, <1>5 DEF Before
<1>7. q.name \in Nat
  BY RequestFields
<1>8. MeantHost(q.name) = file.hosts[q.vHost]
  BY <1>7, MeantHostFound DEF Running, MeantInv
<1>9. Means(mem, q.name, q.version) = FoldLeft(RulesetMeans, Start(mem, q), rulesets).settings
  BY <1>3, <1>8 DEF Means, Start
<1>10. Group(mem, q) = Before(mem, q, j).settings
  BY DEF RewritingInv
<1> QED BY <1>6, <1>9, <1>10

LEMMA EndOfRulesetsServed ==
  ASSUME IInv, CompileInv, ServedInv, EndOfRulesets PROVE ServedInv'
<1>1. /\ Rewriting /\ handler # NULL /\ handler.ruleset > Len(Rulesets)
      /\ handler' = [handler EXCEPT !.stage = "serve"]
      /\ UnchangedByHandler /\ UNCHANGED <<memory, requests>>
  BY DEF EndOfRulesets, Rewriting
<1>2. PICK q, j, k : RewritingAt(q, j, k)
  BY <1>1, RewritingRequest
<1>3. /\ q \in RequestRecord /\ q.vHost \in 1..Len(vhosts)
      /\ j = handler.ruleset /\ j \in Nat /\ k \in Nat
      /\ memory = Group(handler.found, q)
      /\ Rulesets = vhosts[q.vHost].rulesets
      /\ Orderly => /\ Running /\ q.state = "parser"
                    /\ \A mem \in Memory : MeantInv(mem, q) /\ RewritingInv(mem, q, j, k)
  BY <1>2 DEF RewritingAt
<1>4. OnlyBecomes(q)
  BY <1>1, <1>2, SameRequest
<1>5. ASSUME Orderly, NEW mem \in Memory, NEW g, g = handler' PROVE HandlerInv(mem, q, g)
  <2>1. j > LastOf(q.vHost)
    BY <1>1, <1>3 DEF LastOf
  <2>2. Group(mem, q) = Means(mem, q.name, q.version)
    BY <1>3, <1>5, <2>1, AllRulesets
  <2>3. g.stage = "serve"
    BY <1>1, <1>5, HandlerNext
  <2> QED BY <2>2, <2>3 DEF HandlerInv
<1>6. memory' = Group(handler.found, q)
  BY <1>1, <1>3
<1> QED BY <1>1, <1>2, <1>3, <1>4, <1>5, <1>6, ExecutionServed

LEMMA ExecuteServed == ASSUME IInv, CompileInv, ServedInv, Execute PROVE ServedInv'
<1>1. CASE Set
  <2>1. CASE Refused(Current.variables, AtHand)
    BY <1>1, <2>1, ThrowServed DEF Set, InRuleset
  <2> QED BY <1>1, <2>1, SetServed
<1>2. CASE Call
  BY <1>2, ThrowServed DEF Call, InRuleset
<1> QED BY <1>1, <1>2, IsEqualServed, ActivateServed, EndOfRulesetServed, EndOfRulesetsServed
        DEF Execute

-----------------------------------------------------------------------------
(* The other handlers.                                                     *)

LEMMA HandlerRequest ==
  ASSUME IInv, ServedInv, NEW stage, At(stage)
  PROVE  \E q \in RequestRecord, h \in Handler :
           /\ handler = h /\ h.stage = stage /\ h.request \in Request
           /\ q = Current /\ requests[h.request] = q /\ phase = "running"
           /\ Found(memory, left, q, h)
           /\ Orderly => \A mem \in Memory : MeantInv(mem, q) /\ HandlerInv(mem, q, h)
<1>1. handler # NULL /\ handler.stage = stage
  BY DEF At
<1>2. /\ phase = "running" /\ handler \in Handler /\ handler.request \in Request
      /\ IsRequest(Current)
  BY <1>1, CurrentRequest
<1>3. PICK h \in Handler : h = handler
  BY <1>2
<1>4. PICK q \in RequestRecord : q = Current
  BY <1>2 DEF IsRequest
<1>5. requests[h.request] = q
  BY <1>3, <1>4 DEF Current
<1>6. Orderly => \A mem \in Memory : MeantInv(mem, q) /\ HandlerInv(mem, q, h)
  BY <1>2, <1>3, <1>5 DEF ServedInv
<1>7. Found(memory, left, q, h)
  BY <1>3, <1>5, MemoryType DEF ServedInv
<1> QED BY <1>1, <1>2, <1>3, <1>4, <1>5, <1>6, <1>7

(* A handler returns, and its request is one for the same host.            *)
LEMMA BecomesServed ==
  ASSUME IInv, ServedInv, Fixed, handler # NULL, handler' = NULL,
         NEW q, NEW p, Becomes(p),
         p.name = q.name, p.version = q.version, p.vHost = q.vHost, p.group = q.group,
         Orderly => \A mem \in Memory :
           /\ MeantInv(mem, q)
           /\ p.state # "parser" => Group(mem, q) = Means(mem, q.name, q.version)
  PROVE  ServedInv'
<1>1. handler.request \in Request /\ OnlyBecomes(p)
  BY CurrentRequest, RequestOnly
<1>2. \A mem : Group(mem, p) = Group(mem, q)
  BY DEF Group
<1>3. Orderly => \A mem \in Memory : MeantInv(mem, p)
  BY <1>2, MeantAgain
<1> QED BY <1>1, <1>3, EndServed DEF OnlyBecomes

LEMMA ReturnServed ==
  ASSUME IInv, CompileInv, ServedInv,
         \/ ServeContent \/ Exception \/ EndOutput \/ EndClientRead
         \/ AbortRequest \/ AlreadyFinished \/ EndAnswer \/ EndGateway
  PROVE  ServedInv'
<1>1. /\ handler' = NULL /\ Fixed
      /\ \E stage : At(stage)
  BY DEF ServeContent, Exception, EndOutput, EndClientRead, AbortRequest, AlreadyFinished,
         EndAnswer, EndGateway, Unscoping, Leaving, EndUnscoped, Fixed, loading,
         configurationVars
<1>2. handler # NULL
  BY <1>1 DEF At
<1>3. handler.request \in Request
  BY <1>2, CurrentRequest
<1>4. ASSUME Becomes(NULL) PROVE ServedInv'
  <2>1. OnlyBecomes(NULL)
    BY <1>2, <1>4, RequestOnly
  <2>2. \A p \in RequestRecord : NULL # p
    BY NullAssumption
  <2> QED BY <1>1, <1>3, <2>1, <2>2, EndServed DEF OnlyBecomes
<1>5. ASSUME UNCHANGED requests PROVE ServedInv'
  <2>1. \A p \in RequestRecord, mem \in Memory :
          requests'[handler.request] = p /\ Orderly /\ phase = "running" => MeantInv(mem, p)
    BY <1>3, <1>5 DEF ServedInv
  <2> QED BY <1>1, <1>3, <1>5, <2>1, EndServed
<1>6. CASE ServeContent /\ ~Becomes(NULL)
  <2>1. At("serve")
    BY <1>6 DEF ServeContent
  <2>2. PICK q \in RequestRecord, h \in Handler :
          /\ h.stage = "serve" /\ q = Current
          /\ Orderly => \A mem \in Memory : MeantInv(mem, q) /\ HandlerInv(mem, q, h)
    BY <2>1, HandlerRequest
  <2>3. PICK client : client = memory["FastCGIClient"]
    OBVIOUS
  <2>4. PICK p : p = [q EXCEPT !.state = "FastCGI", !.client = client]
    OBVIOUS
  <2>5. Becomes(p)
    BY <1>6, <2>2, <2>3, <2>4 DEF ServeContent
  <2>6. /\ p.name = q.name /\ p.version = q.version /\ p.vHost = q.vHost
        /\ p.group = q.group
    BY <2>4, RequestMade
  <2>7. Orderly => \A mem \in Memory :
          MeantInv(mem, q) /\ Group(mem, q) = Means(mem, q.name, q.version)
    BY <2>2 DEF HandlerInv
  <2> QED BY <1>1, <1>2, <2>5, <2>6, <2>7, BecomesServed
<1>7. CASE AbortRequest
  <2>1. At("hangup")
    BY <1>7 DEF AbortRequest
  <2>2. PICK q \in RequestRecord, h \in Handler :
          /\ h.stage = "hangup" /\ q = Current
          /\ Orderly => \A mem \in Memory : MeantInv(mem, q) /\ HandlerInv(mem, q, h)
    BY <2>1, HandlerRequest
  <2>3. PICK gone : gone = "aborted"
    BY Zenon
  <2>4. PICK p : p = [q EXCEPT !.state = gone]
    OBVIOUS
  <2>5. Becomes(p)
    BY <1>7, <2>2, <2>3, <2>4, Zenon DEF AbortRequest
  <2>6. /\ p.name = q.name /\ p.version = q.version /\ p.vHost = q.vHost
        /\ p.group = q.group
    BY <2>4, RequestMade
  <2>7. Orderly => \A mem \in Memory :
          MeantInv(mem, q) /\ Group(mem, q) = Means(mem, q.name, q.version)
    BY <2>2 DEF HandlerInv, MeantInv
  <2> QED BY <1>1, <1>2, <2>5, <2>6, <2>7, BecomesServed
<1>8. CASE EndGateway
  <2>1. At("gateway")
    BY <1>8 DEF EndGateway
  <2>2. PICK q \in RequestRecord, h \in Handler :
          /\ h.stage = "gateway" /\ q = Current
          /\ Orderly => \A mem \in Memory : MeantInv(mem, q) /\ HandlerInv(mem, q, h)
    BY <2>1, HandlerRequest
  <2>3. PICK gone : gone = "lost"
    BY Zenon
  <2>4. PICK p : p = [q EXCEPT !.state = gone, !.headerSent = TRUE]
    OBVIOUS
  <2>5. Becomes(p)
    BY <1>8, <2>2, <2>3, <2>4, Zenon DEF EndGateway, EndUnscoped
  <2>6. /\ p.name = q.name /\ p.version = q.version /\ p.vHost = q.vHost
        /\ p.group = q.group
    BY <2>4, RequestMade
  <2>7. Orderly => \A mem \in Memory :
          MeantInv(mem, q) /\ Group(mem, q) = Means(mem, q.name, q.version)
    BY <2>2 DEF HandlerInv, MeantInv
  <2> QED BY <1>1, <1>2, <2>5, <2>6, <2>7, BecomesServed
<1>9. CASE EndOutput /\ ~UNCHANGED requests
  <2>1. At("output")
    BY <1>9 DEF EndOutput
  <2>2. PICK q \in RequestRecord, h \in Handler :
          /\ h.stage = "output" /\ q = Current
          /\ Orderly => \A mem \in Memory : MeantInv(mem, q) /\ HandlerInv(mem, q, h)
    BY <2>1, HandlerRequest
  <2>3. PICK p : p = [q EXCEPT !.headerSent = TRUE]
    OBVIOUS
  <2>4. Becomes(p)
    BY <1>9, <2>2, <2>3 DEF EndOutput
  <2>5. /\ p.name = q.name /\ p.version = q.version /\ p.vHost = q.vHost
        /\ p.group = q.group
    BY <2>3, RequestMade
  <2>6. Orderly => \A mem \in Memory :
          MeantInv(mem, q) /\ Group(mem, q) = Means(mem, q.name, q.version)
    BY <2>2 DEF HandlerInv, MeantInv
  <2> QED BY <1>1, <1>2, <2>4, <2>5, <2>6, BecomesServed
<1>10. Exception \/ AlreadyFinished \/ EndAnswer => Becomes(NULL)
  BY DEF Exception, AlreadyFinished, EndAnswer, EndUnscoped
<1>11. EndClientRead => UNCHANGED requests
  BY DEF EndClientRead
<1> QED BY <1>4, <1>5, <1>6, <1>7, <1>8, <1>9, <1>10, <1>11

(* What there is between handlers is what the server means.                *)
LEMMA BetweenHandlers ==
  ASSUME IInv, phase = "running", handler = NULL, ~left
  PROVE  \A s \in Setting \ Listed : memory[s] = RootMeans[s]
BY DEF IInv, MemoryInv, RootInv, NoScope

(* A handler begins for a request that was served before.                  *)
LEMMA BeginServed ==
  ASSUME IInv, CompileInv, ServedInv,
         NEW r \in Request, NEW states, MayBeginFor(r, states), "parser" \notin states,
         NEW stage \in {"output", "read", "hangup", "answer", "gateway"},
         Begin(r, stage), UNCHANGED requests,
         memory' = IF stage \in {"answer", "gateway"} THEN memory
                   ELSE ActivateScopeGroup(memory, requests[r].group)
  PROVE  ServedInv'
<1>1. phase = "running" /\ handler = NULL /\ requests[r] # NULL /\ requests[r].state \in states
  BY DEF MayBeginFor, MayBegin
<1>2. PICK q \in RequestRecord : q = requests[r]
  BY <1>1 DEF IInv, RequestInv, IsRequest
<1>3. /\ handler' \in Handler /\ handler'.request = r /\ handler'.stage = stage
      /\ handler'.found = memory
      /\ UNCHANGED <<scopes, haveValue, haveScopedValue, phase, loading, left>>
  BY Begins DEF Stage
<1>4. PICK g \in Handler : g = handler' /\ g.request = r /\ g.stage = stage /\ g.found = memory
  BY <1>3
<1>5. Fixed
  BY <1>3 DEF Fixed, loading
<1>6. /\ stage \in {"answer", "gateway"} => memory' = g.found
      /\ stage \notin {"answer", "gateway"} => memory' = Group(g.found, q)
  BY <1>2, <1>4 DEF Group
<1>7. ~left' => \A s \in Setting \ Listed : g.found[s] = RootMeans[s]
  BY <1>1, <1>3, <1>4, BetweenHandlers
<1>8. Found(memory', left', q, g)
  BY <1>4, <1>6, <1>7 DEF Found
<1>9. Orderly => \A mem \in Memory : MeantInv(mem, q)
  BY <1>1, <1>2 DEF ServedInv
<1>10. \A mem : HandlerInv(mem, q, g)
  BY <1>1, <1>2, <1>4 DEF HandlerInv
<1>11. requests'[r] = q /\ (\A x \in Request \ {r} : requests'[x] = requests[x])
  BY <1>2
<1> QED BY <1>4, <1>5, <1>8, <1>9, <1>10, <1>11, GoesOnServed

LEMMA BeginScopedServed ==
  ASSUME IInv, CompileInv, ServedInv,
         NEW r \in Request, NEW states, MayBeginFor(r, states), "parser" \notin states,
         NEW stage \in {"output", "read", "hangup"}, BeginScoped(r, stage)
  PROVE  ServedInv'
BY BeginServed DEF BeginScoped

LEMMA BeginUnscopedServed ==
  ASSUME IInv, CompileInv, ServedInv,
         NEW r \in Request, NEW states, MayBeginFor(r, states), "parser" \notin states,
         NEW stage \in {"answer", "gateway"}, BeginUnscoped(r, stage)
  PROVE  ServedInv'
BY BeginServed DEF BeginUnscoped

LEMMA UnscopedServed ==
  ASSUME IInv, ServedInv, NEW r \in Request, NEW states, MayBeginFor(r, states),
         NEW p, Unscoped(r, p), p = NULL \/ (Orderly => \A mem \in Memory : MeantInv(mem, p))
  PROVE  ServedInv'
<1>1. handler' = NULL /\ phase = "running" /\ requests' = [requests EXCEPT ![r] = p] /\ Fixed
  BY DEF Unscoped, MayBeginFor, MayBegin, Fixed, loading, configurationVars
<1>2. requests'[r] = p /\ (\A x \in Request \ {r} : requests'[x] = requests[x])
  <2>1. DOMAIN requests = Request
    BY DEF IInv, RequestInv
  <2> QED BY <1>1, <2>1
<1>3. \A x \in RequestRecord : x # NULL
  BY NullAssumption
<1> QED BY <1>1, <1>2, <1>3, EndServed

LEMMA EndRequestServed ==
  ASSUME IInv, CompileInv, ServedInv, NEW r \in Request, EndRequest(r) PROVE ServedInv'
<1>1. MayBeginFor(r, {"FastCGI", "aborted"})
      /\ (Unscoped(r, NULL) \/ BeginUnscoped(r, "answer"))
  BY DEF EndRequest
<1> QED BY <1>1, UnscopedServed, BeginUnscopedServed

LEMMA RemoteHangupServed ==
  ASSUME IInv, CompileInv, ServedInv, NEW r \in Request, OnRemoteHangup(r) PROVE ServedInv'
<1>1. MayBeginFor(r, {"FastCGI"})
  BY DEF OnRemoteHangup
<1>2. CASE requests[r].headerSent
  <2>1. phase = "running" /\ requests[r] # NULL /\ requests[r].state = "FastCGI"
    BY <1>1 DEF MayBeginFor, MayBegin
  <2>2. PICK q \in RequestRecord : q = requests[r]
    BY <2>1 DEF IInv, RequestInv, IsRequest
  <2>3. PICK p : p = [q EXCEPT !.state = "lost"]
    OBVIOUS
  <2>4. /\ p.name = q.name /\ p.version = q.version /\ p.vHost = q.vHost
        /\ p.group = q.group
    BY <2>3, RequestMade
  <2>5. \A mem : Group(mem, p) = Group(mem, q)
    BY <2>4 DEF Group
  <2>6. Orderly => \A mem \in Memory : MeantInv(mem, q)
    BY <2>1, <2>2 DEF ServedInv
  <2>7. Orderly => \A mem \in Memory : MeantInv(mem, p)
    BY <2>1, <2>2, <2>4, <2>5, <2>6, MeantAgain DEF MeantInv
  <2>8. Unscoped(r, p)
    BY <1>2, <2>2, <2>3 DEF OnRemoteHangup
  <2> QED BY <1>1, <2>7, <2>8, UnscopedServed
<1>3. CASE ~requests[r].headerSent
  <2>1. BeginUnscoped(r, "gateway")
    BY <1>3 DEF OnRemoteHangup
  <2> QED BY <1>1, <2>1, BeginUnscopedServed
<1> QED BY <1>2, <1>3

LEMMA ServeServed == ASSUME IInv, CompileInv, ServedInv, Serve PROVE ServedInv'
<1>1. ASSUME NEW r \in Request, Output(r) \/ OnClientRead(r) \/ OnClientHangup(r)
      PROVE  ServedInv'
  <2>1. CASE Output(r)
    BY <2>1, BeginScopedServed DEF Output
  <2>2. CASE OnClientRead(r)
    BY <2>2, BeginScopedServed DEF OnClientRead
  <2>3. CASE OnClientHangup(r)
    BY <2>3, BeginScopedServed DEF OnClientHangup
  <2> QED BY <1>1, <2>1, <2>2, <2>3
<1>2. ASSUME NEW r \in Request, AnswerWritten(r) PROVE ServedInv'
  BY <1>2, UnscopedServed DEF AnswerWritten
<1>3. ASSUME NEW r \in Request, NEW name \in 0..Len(vhosts), NEW version \in Versions,
             HandleHeader(r, name, version)
      PROVE  ServedInv'
  BY <1>3, HandleHeaderServed
<1> QED BY <1>1, <1>2, <1>3, ExecuteServed, ReturnServed, EndRequestServed, RemoteHangupServed
        DEF Serve

LEMMA NobodyServed ==
  ASSUME phase' # "running", handler' = NULL PROVE ServedInv'
BY NullAssumption DEF ServedInv

LEMMA LoadServed == ASSUME IInv, Load PROVE ServedInv'
<1>1. phase \in {"load", "loaded"} /\ UNCHANGED <<requests, handler>>
  <2>1. ASSUME NEW places, MayRead(places), (\E now : Read(now)) \/ Fail
        PROVE  phase \in {"load", "loaded"} /\ UNCHANGED <<requests, handler>>
    BY <2>1 DEF MayRead, Read, Fail, serving
  <2>2. ASSUME NEW s, RootSetting(s) \/ VirtualHostSetting(s) \/ RulesetSetting(s)
        PROVE  phase \in {"load", "loaded"} /\ UNCHANGED <<requests, handler>>
    BY <2>1, <2>2, Zenon DEF RootSetting, VirtualHostSetting, RulesetSetting
  <2>3. ASSUME NEW named, NEW default, VirtualHost(named, default)
        PROVE  phase \in {"load", "loaded"} /\ UNCHANGED <<requests, handler>>
    BY <2>1, <2>3, Zenon DEF VirtualHost
  <2>4. ASSUME NEW o, Condition(o) \/ Statement(o) \/ SetReadOnly(o)
        PROVE  phase \in {"load", "loaded"} /\ UNCHANGED <<requests, handler>>
    BY <2>1, <2>4, Zenon DEF Condition, Statement, SetReadOnly
  <2>5. ASSUME Ruleset \/ SecondDefault
        PROVE  phase \in {"load", "loaded"} /\ UNCHANGED <<requests, handler>>
    BY <2>1, <2>5, Zenon DEF Ruleset, SecondDefault
  <2>6. ASSUME EndOfFile \/ CheckConfiguration \/ NoDefault
        PROVE  phase \in {"load", "loaded"} /\ UNCHANGED <<requests, handler>>
    BY <2>6 DEF EndOfFile, CheckConfiguration, NoDefault, Fail, serving
  <2> QED BY <2>2, <2>3, <2>4, <2>5, <2>6, Zenon DEF Load
<1>2. requests = [r \in Request |-> NULL] /\ handler = NULL
  BY <1>1 DEF IInv, RequestInv
<1>3. \A r \in Request : requests'[r] = NULL
  BY <1>1, <1>2
<1> QED BY <1>1, <1>2, <1>3, NullAssumption DEF ServedInv

LEMMA StutterServed == ASSUME ServedInv, UNCHANGED vars PROVE ServedInv'
<1>1. Fixed /\ UNCHANGED <<memory, requests, handler, left>>
  BY DEF vars, configurationVars, loading, serving, Fixed
<1> QED BY <1>1, ServedKeeps DEF ServedInv

LEMMA InitServed == Init => ServedInv
BY NullAssumption DEF Init, ServedInv

LEMMA ServedInvariance == Spec => []ServedInv
<1>1. IInv /\ CompileInv /\ ServedInv /\ [Next]_vars => ServedInv'
  <2>1. ASSUME IInv, Unload PROVE ServedInv'
    <3>1. phase' = "unloaded" /\ handler' = NULL
      BY <2>1 DEF Unload, MayBegin, serving
    <3> QED BY <3>1, NobodyServed
  <2> QED BY <2>1, LoadServed, ServeServed, StutterServed DEF Next
<1> QED BY <1>1, InitServed, Invariance, CompileInvariance, PTL DEF Spec

(* What the file gives a host and its rulesets is in force whenever content *)
(* is served for it, and whenever a handler of FastCGI activates the scopes *)
(* of its request later, over what the handler found, which is what the     *)
(* server means (but for settings of lists) unless the handler before left  *)
(* a scope behind: the rulesets do what they say although they are compiled *)
(* to opcodes and scopes (PancakeHTTPRewrite.c:163).                        *)
THEOREM SettingsCorrect == Spec => []SettingsMean
<1>1. ASSUME IInv, ServedInv PROVE SettingsMean
  <2> SUFFICES ASSUME handler # NULL, Orderly
               PROVE  /\ handler.stage \in {"serve", "output", "read", "hangup"} =>
                           memory = Means(handler.found, Current.name, Current.version)
                      /\ handler.stage = "exception" =>
                           memory["ServerHeader"]
                             = HostMeans(handler.found, Current.name)["ServerHeader"]
                      /\ handler.stage \in {"answer", "gateway"} => memory = handler.found
                      /\ ~left => \A s \in Setting \ Listed : handler.found[s] = RootMeans[s]
    BY DEF SettingsMean
  <2>1. At(handler.stage)
    BY DEF At
  <2>2. PICK q \in RequestRecord, h \in Handler :
          /\ handler = h /\ q = Current /\ Found(memory, left, q, h)
          /\ \A mem \in Memory : MeantInv(mem, q) /\ HandlerInv(mem, q, h)
    BY <1>1, <2>1, HandlerRequest
  <2>3. PICK found : found = h.found
    OBVIOUS
  <2>4. found \in Memory
    BY <2>3 DEF Handler, Memory
  <2>5. MeantInv(found, q) /\ HandlerInv(found, q, h)
    BY <2>2, <2>4
  <2>6. /\ h.stage \in {"answer", "gateway"} => memory = found
        /\ h.stage \notin {"answer", "gateway"} => memory = Group(found, q)
        /\ ~left => \A s \in Setting \ Listed : found[s] = RootMeans[s]
    BY <2>2, <2>3 DEF Found
  <2>7. Group(found, q)["ServerHeader"] = HostMeans(found, q.name)["ServerHeader"]
    BY <2>5 DEF MeantInv
  <2>8. h.stage \in {"serve", "output", "read", "hangup"} =>
          Group(found, q) = Means(found, q.name, q.version)
    BY <2>5 DEF MeantInv, HandlerInv
  <2> QED BY <2>2, <2>3, <2>6, <2>7, <2>8
<1> QED BY <1>1, Invariance, ServedInvariance, PTL

=============================================================================
