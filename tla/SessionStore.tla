---------------------------- MODULE SessionStore ----------------------------
(***************************************************************************)
(* ServerSessionStore: a map from handles to client packing keys behind a  *)
(* RwLock, called by the threads of a server. Each statement that touches  *)
(* the shared state is a step of its own, so that what holds of the store  *)
(* holds because of the lock. The store never evicts, and the next handle  *)
(* wraps to zero after the last value, where an insertion overwrites.      *)
(***************************************************************************)
EXTENDS SessionKeys, FiniteSets

CONSTANTS
  Callers,      \* threads that share the store
  Requests,     \* the calls the threads make
  MaxCalls      \* bound on the calls of one thread

VARIABLES
  byHandle,    \* Inner::by_handle
  nextHandle,  \* Inner::next_handle
  writers,     \* threads that hold the write guard
  readers,     \* threads that hold a read guard
  pc,          \* where each thread is
  call,        \* the call each thread is in
  answer,      \* what that call will return, once known
  slot,        \* the local h of register
  issued,      \* history: handles allocated so far
  granted,     \* history: handles returned to callers, with the keys they name
  calls        \* number of calls each thread has made, for the bound

vars == <<byHandle, nextHandle, writers, readers, pc, call, answer, slot,
          issued, granted, calls>>

\* The promise of the store. A registration takes effect when the keys are
\* inserted; the counter and the lock have no counterpart in the promise.
Registry == INSTANCE SessionRegistry WITH table <- byHandle

ASSUME StoreAssumption ==
  /\ Requests \subseteq Call
  /\ MaxCalls \in Nat

Init ==
  /\ byHandle = EmptyTable
  /\ nextHandle = 0
  /\ writers = {} /\ readers = {}
  /\ pc = [t \in Callers |-> "idle"]
  /\ call = [t \in Callers |-> NoCall]
  /\ answer = [t \in Callers |-> NoAnswer]
  /\ slot = [t \in Callers |-> 0]
  /\ issued = 0
  /\ granted = {}
  /\ calls = [t \in Callers |-> 0]

Goto(t, from, to) == pc[t] = from /\ pc' = [pc EXCEPT ![t] = to]

\* The first thing each operation of the store does.
Entry(c) ==
  CASE c.op = "register_server_side" -> "guard"
    [] c.op = "register" -> "wantWrite"
    [] OTHER -> "wantRead"

CallStore(t, c) ==
  /\ calls[t] < MaxCalls
  /\ Goto(t, "idle", Entry(c))
  /\ call' = [call EXCEPT ![t] = c]
  /\ calls' = [calls EXCEPT ![t] = @ + 1]
  /\ UNCHANGED <<byHandle, nextHandle, writers, readers, answer, slot, issued, granted>>

\* register_server_side refuses keys of another geometry before it locks.
RefuseKeys(t) ==
  /\ Goto(t, "guard", "done")
  /\ Refused(call[t])
  /\ answer' = [answer EXCEPT ![t] = RefusedAnswer]
  /\ UNCHANGED <<byHandle, nextHandle, writers, readers, call, slot, issued, granted, calls>>

\* The rotations are derived on the caller's own copy, outside the lock.
DeriveKeys(t) ==
  /\ Goto(t, "guard", "wantWrite")
  /\ ~Refused(call[t])
  /\ UNCHANGED <<byHandle, nextHandle, writers, readers, call, answer, slot, issued, granted, calls>>

AcquireWriteUnguarded(t) ==   \* mutated form: a read guard is taken in its place
  /\ Goto(t, "wantWrite", "allocate")
  /\ writers' = writers \cup {t}
  /\ UNCHANGED <<byHandle, nextHandle, readers, call, answer, slot, issued, granted, calls>>

AcquireWrite(t) ==
  /\ Goto(t, "wantWrite", "allocate")
  /\ writers = {} /\ readers = {}
  /\ writers' = {t}
  /\ UNCHANGED <<byHandle, nextHandle, readers, call, answer, slot, issued, granted, calls>>

SuccessorUnwrapped(h) == h + 1   \* mutated form: no wrap at the last handle

\* next_handle.checked_add(1).unwrap_or(0)
Successor(h) == IF h + 1 < HandleSpace THEN h + 1 ELSE 0

\* let h = inner.next_handle
ReadCounter(t) ==
  /\ Goto(t, "allocate", "advance")
  /\ slot' = [slot EXCEPT ![t] = nextHandle]
  /\ UNCHANGED <<byHandle, nextHandle, writers, readers, call, answer, issued, granted, calls>>

AdvanceCounter(t) ==
  /\ Goto(t, "advance", "insert")
  /\ nextHandle' = Successor(nextHandle)
  /\ issued' = issued + 1
  /\ UNCHANGED <<byHandle, writers, readers, call, answer, slot, granted, calls>>

InsertKeys(t) ==
  /\ Goto(t, "insert", "unlockWrite")
  /\ byHandle' = Inserted(byHandle, slot[t], StoredKeys(call[t]))
  /\ answer' = [answer EXCEPT ![t] = HandleAnswer(slot[t])]
  /\ UNCHANGED <<nextHandle, writers, readers, call, slot, issued, granted, calls>>

ReleaseWrite(t) ==
  /\ Goto(t, "unlockWrite", "done")
  /\ writers' = writers \ {t}
  /\ UNCHANGED <<byHandle, nextHandle, readers, call, answer, slot, issued, granted, calls>>

AcquireRead(t) ==
  /\ Goto(t, "wantRead", "read")
  /\ writers = {}
  /\ readers' = readers \cup {t}
  /\ UNCHANGED <<byHandle, nextHandle, writers, call, answer, slot, issued, granted, calls>>

LookupKeysWaiting(t) ==   \* mutated form: waits for the keys under the read guard
  /\ pc[t] = "read" /\ call[t].op = "get"
  /\ LET found == call[t].handle \in DOMAIN byHandle
     IN  /\ pc' = [pc EXCEPT ![t] = IF found THEN "unlockRead" ELSE "read"]
         /\ answer' = IF found THEN [answer EXCEPT ![t] = Lookup(byHandle, call[t].handle)]
                      ELSE answer
  /\ UNCHANGED <<byHandle, nextHandle, writers, readers, call, slot, issued, granted, calls>>

LookupKeys(t) ==
  /\ Goto(t, "read", "unlockRead")
  /\ call[t].op = "get"
  /\ answer' = [answer EXCEPT ![t] = Lookup(byHandle, call[t].handle)]
  /\ UNCHANGED <<byHandle, nextHandle, writers, readers, call, slot, issued, granted, calls>>

CountSessions(t) ==
  /\ Goto(t, "read", "unlockRead")
  /\ call[t].op = "len"
  /\ answer' = [answer EXCEPT ![t] = LenAnswer(Cardinality(DOMAIN byHandle))]
  /\ UNCHANGED <<byHandle, nextHandle, writers, readers, call, slot, issued, granted, calls>>

ReleaseRead(t) ==
  /\ Goto(t, "unlockRead", "done")
  /\ readers' = readers \ {t}
  /\ UNCHANGED <<byHandle, nextHandle, writers, call, answer, slot, issued, granted, calls>>

Return(t) ==
  /\ Goto(t, "done", "idle")
  /\ call' = [call EXCEPT ![t] = NoCall]
  /\ answer' = [answer EXCEPT ![t] = NoAnswer]
  /\ granted' = IF answer[t].kind = "handle"
                THEN granted \cup {[handle |-> answer[t].handle,
                                    keys |-> StoredKeys(call[t])]}
                ELSE granted
  /\ UNCHANGED <<byHandle, nextHandle, writers, readers, slot, issued, calls>>

\* What thread t does inside a call.
Step(t) ==
  \/ RefuseKeys(t) \/ DeriveKeys(t)
  \/ AcquireWrite(t) \/ ReadCounter(t) \/ AdvanceCounter(t) \/ InsertKeys(t)
  \/ ReleaseWrite(t)
  \/ AcquireRead(t) \/ LookupKeys(t) \/ CountSessions(t) \/ ReleaseRead(t)
  \/ Return(t)

\* Every thread has made its last call and returned.
Quiescent ==
  /\ \A t \in Callers : pc[t] = "idle" /\ calls[t] = MaxCalls
  /\ UNCHANGED vars

Next ==
  \/ \E t \in Callers : Step(t) \/ \E c \in Requests : CallStore(t, c)
  \/ Quiescent

Spec == Init /\ [][Next]_vars

\* A thread inside a call keeps running whenever the lock lets it.
FairSpec == Spec /\ \A t \in Callers : WF_vars(Step(t))
-----------------------------------------------------------------------------
Locations == {"idle", "guard", "wantWrite", "allocate", "advance", "insert",
              "unlockWrite", "wantRead", "read", "unlockRead", "done"}

Answers ==
  {NoAnswer, AbsentAnswer, RefusedAnswer}
    \cup {HandleAnswer(h) : h \in Handles}
    \cup {KeysAnswer(k) : k \in KeySet}
    \cup {LenAnswer(Cardinality(S)) : S \in SUBSET Handles}

\* Types of the store's state and of the calls in progress (session.rs, Inner).
TypeOK ==
  /\ DOMAIN byHandle \subseteq Handles
  /\ \A h \in DOMAIN byHandle : byHandle[h] \in KeySet
  /\ nextHandle \in Handles
  /\ writers \subseteq Callers /\ readers \subseteq Callers
  /\ pc \in [Callers -> Locations]
  /\ call \in [Callers -> Requests \cup {NoCall}]
  /\ answer \in [Callers -> Answers]
  /\ slot \in [Callers -> Handles]
  /\ issued \in Nat
  /\ granted \subseteq [handle : Handles, keys : KeySet]
  /\ calls \in [Callers -> 0 .. MaxCalls]

\* A handle returned by register names the keys that were registered under it,
\* whatever other threads register meanwhile, until the handle space has been
\* used up and next_handle has wrapped (session.rs, register).
HandleBinding ==
  issued <= HandleSpace =>
    \A g \in granted : g.handle \in DOMAIN byHandle /\ byHandle[g.handle] = g.keys

\* The store is linearizable: its calls behave like the atomic operations of
\* SessionRegistry, in particular register allocates a handle above all those
\* in use and get sees every registration that returned before it was called.
RegistryRefinement == Registry!RegistrySpec

\* Every call returns: no thread waits for ever for the lock, and register,
\* get and len release it on every path (session.rs, guards dropped on return).
CallsReturn == \A t \in Callers : call[t] # NoCall ~> call[t] = NoCall
=============================================================================
