------------------------ MODULE PancakeConfiguration ------------------------
(***************************************************************************)
(* The configuration of Pancake as src/PancakeConfiguration.c keeps it.    *)
(* A setting has one place in memory, which the whole program reads.  The  *)
(* values a file gives it are kept in scopes: the root scope for what is   *)
(* said once for the server, other scopes for what is said for a virtual   *)
(* host or for a ruleset.  A handler that works for a request ACTIVATES    *)
(* the scopes of the request, which copies their values into memory, and   *)
(* UNSCOPES when it is done, which copies the values of the root scope.    *)
(*                                                                         *)
(* A scope is a function from the settings it has values for; within one   *)
(* group of a file no name appears twice, so a scope has one value of a    *)
(* setting at most.  A value is a number: Zero is memory nobody wrote,     *)
(* Default the default of a setting, and every value in the file has a     *)
(* number of its own.                                                      *)
(***************************************************************************)
EXTENDS Naturals, Sequences

CONSTANTS
  Setting,          \* the settings that have a place in memory
  Listed            \* those that only the groups of lists have

VARIABLES
  scopes,           \* the scopes in the order they were added, root first
  haveValue,        \* the settings with a value anywhere in the file
  haveScopedValue,  \* the settings with a value in a scope other than root
  memory            \* what the program reads

configurationVars == <<scopes, haveValue, haveScopedValue, memory>>

Zero == 0
Default == 1

\* The index of the root scope.
rootScope == 1

Empty == [s \in {} |-> Zero]

-----------------------------------------------------------------------------
(* Scopes.  The operators take and return what they change, because one    *)
(* call may add a scope and a value in it.                                 *)

ForgetsScope(all) == all  \* A bug: the scope is not kept
AddScope(all) == Append(all, Empty)

With(scope, s, v) ==
  [t \in DOMAIN scope \union {s} |-> IF t = s THEN v ELSE scope[t]]

\* CheckValue adds a value to the scope it was given.
AddValue(all, i, s, v) == [all EXCEPT ![i] = With(@, s, v)]

HaveValue(i, s) ==
  /\ haveValue' = haveValue \union {s}
  /\ haveScopedValue' = haveScopedValue \union (IF i = rootScope THEN {} ELSE {s})

ActivateScope(mem, scope) ==
  [s \in Setting |-> IF s \in DOMAIN scope THEN scope[s] ELSE mem[s]]

\* A bug: the first scope with a value decides
FirstOfScopeGroup(mem, group) ==
  [s \in Setting |->
     LET having == {i \in DOMAIN group : s \in DOMAIN scopes[group[i]]}
     IN IF having = {} THEN mem[s]
        ELSE LET first == CHOOSE i \in having : \A j \in having : i <= j
             IN scopes[group[first]][s]]

\* A scope group is activated in its order: the last scope with a value of
\* a setting decides.
ActivateScopeGroup(mem, group) ==
  [s \in Setting |->
     LET having == {i \in DOMAIN group : s \in DOMAIN scopes[group[i]]}
     IN IF having = {} THEN mem[s]
        ELSE LET last == CHOOSE i \in having : \A j \in having : j <= i
             IN scopes[group[last]][s]]

Unscope(mem) == ActivateScope(mem, scopes[rootScope])

-----------------------------------------------------------------------------
(* Load.                                                                   *)

ConfigurationInit ==
  /\ scopes = <<Empty>>
  /\ haveValue = {}
  /\ haveScopedValue = {}
  /\ memory = [s \in Setting |-> Zero]

\* A bug: a value in another scope is taken for a value in the root scope
LoadsMissingDefaults ==
  LET root == scopes[rootScope]
  IN [s \in DOMAIN root \union {s \in Setting \ Listed : s \notin haveValue} |->
        IF s \in DOMAIN root THEN root[s] ELSE Default]

\* The root scope gets the default of every setting the file says nothing
\* of, and of those it gives a value only in another scope, as far as groups
\* and their children have them: the groups of lists are not visited, their
\* settings get no default and unscoping never writes them.
LoadGroupDefaultValues ==
  LET root == scopes[rootScope]
      defaults == {s \in Setting \ Listed : s \notin haveValue \/ s \in haveScopedValue}
  IN [s \in DOMAIN root \union defaults |->
        IF s \in DOMAIN root THEN root[s] ELSE Default]

\* What unscoping need not write is removed from the root scope.
Unnecessary(s) == s \notin haveValue \/ s \notin haveScopedValue

\* The end of Load, when every element of the file was checked.
LoadRootScope ==
  LET root == LoadGroupDefaultValues
      kept == {s \in DOMAIN root : ~Unnecessary(s)}
  IN /\ memory' = ActivateScope(memory, root)
     /\ scopes' = [scopes EXCEPT ![rootScope] = [s \in kept |-> root[s]]]
     /\ UNCHANGED <<haveValue, haveScopedValue>>

-----------------------------------------------------------------------------
ConfigurationTypeOK ==
  /\ DOMAIN scopes = 1..Len(scopes) /\ Len(scopes) > 0
  /\ \A i \in 1..Len(scopes) :
       /\ DOMAIN scopes[i] \subseteq Setting
       /\ scopes[i] \in [DOMAIN scopes[i] -> Nat]
  /\ haveValue \in SUBSET Setting
  /\ haveScopedValue \in SUBSET haveValue
  /\ memory \in [Setting -> Nat]
=============================================================================
