-------------------------- MODULE SessionRegistry --------------------------
(***************************************************************************)
(* What a ServerSessionStore promises to the threads that call it: every   *)
(* call takes effect at one instant between its invocation and its return, *)
(* a registration is given a handle above all the handles in use for as    *)
(* long as one is left, and a lookup returns what was registered.          *)
(***************************************************************************)
EXTENDS SessionKeys, FiniteSets

CONSTANTS
  Callers      \* threads that share the store

VARIABLES
  table,    \* handle -> packing keys, for the handles in use
  call,     \* call[t]: the call thread t is in, or NoCall
  answer    \* answer[t]: what that call returns, once it has taken effect

registryVars == <<table, call, answer>>

\* A handle above every handle in use, while there is one; any handle after.
Allocatable(tbl, h) ==
  \/ \A g \in DOMAIN tbl : g < h
  \/ DOMAIN tbl = Handles
-----------------------------------------------------------------------------
RegistryInit ==
  /\ table = EmptyTable
  /\ call = [t \in Callers |-> NoCall]
  /\ answer = [t \in Callers |-> NoAnswer]

Pending(t) == call[t] # NoCall /\ answer[t] = NoAnswer

Invoke(t, c) ==
  /\ call[t] = NoCall
  /\ call' = [call EXCEPT ![t] = c]
  /\ UNCHANGED <<table, answer>>

Register(t) ==
  /\ Pending(t) /\ Registers(call[t]) /\ ~Refused(call[t])
  /\ \E h \in Handles :
       /\ Allocatable(table, h)
       /\ table' = Inserted(table, h, StoredKeys(call[t]))
       /\ answer' = [answer EXCEPT ![t] = HandleAnswer(h)]
  /\ UNCHANGED call

Refuse(t) ==
  /\ Pending(t) /\ Refused(call[t])
  /\ answer' = [answer EXCEPT ![t] = RefusedAnswer]
  /\ UNCHANGED <<table, call>>

Get(t) ==
  /\ Pending(t) /\ call[t].op = "get"
  /\ answer' = [answer EXCEPT ![t] = Lookup(table, call[t].handle)]
  /\ UNCHANGED <<table, call>>

Size(t) ==
  /\ Pending(t) /\ call[t].op = "len"
  /\ answer' = [answer EXCEPT ![t] = LenAnswer(Cardinality(DOMAIN table))]
  /\ UNCHANGED <<table, call>>

Finish(t) ==
  /\ answer[t] # NoAnswer
  /\ call' = [call EXCEPT ![t] = NoCall]
  /\ answer' = [answer EXCEPT ![t] = NoAnswer]
  /\ UNCHANGED table

RegistryNext ==
  \E t \in Callers :
    \/ \E c \in Call : Invoke(t, c)
    \/ Register(t) \/ Refuse(t) \/ Get(t) \/ Size(t)
    \/ Finish(t)

RegistrySpec == RegistryInit /\ [][RegistryNext]_registryVars
=============================================================================
