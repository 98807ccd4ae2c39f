------------------------- MODULE SessionStoreProofs -------------------------
(***************************************************************************)
(* Proofs about SessionStore for every set of threads, every set of calls, *)
(* and every size of the handle space.                                     *)
(***************************************************************************)
EXTENDS SessionStore, TLAPS

\* The store a call leaves behind is again a map from handles to keys.
LEMMA StoredKeysType ==
  ASSUME NEW c \in Call, Registers(c)
  PROVE  StoredKeys(c) \in KeySet
<1>1. c.keys \in KeySet /\ c.keys.width \in Widths
  BY DEF Call, Registers, KeySet
<1>2. EnsureServerDerivatives(c.keys) \in KeySet
  BY <1>1, GeometryAssumption DEF EnsureServerDerivatives, KeySet
<1>3. QED
  BY <1>1, <1>2 DEF StoredKeys

\* Where a call is told apart by the operation it performs: a thread is in the
\* code of the operation it called, and has an answer once that is known.
CallInv ==
  \A t \in Callers :
    /\ pc[t] = "idle" <=> call[t] = NoCall
    /\ answer[t] # NoAnswer <=> pc[t] \in {"unlockWrite", "unlockRead", "done"}
    /\ pc[t] = "guard" => call[t].op = "register_server_side"
    /\ pc[t] \in {"wantWrite", "allocate", "advance", "insert", "unlockWrite"} =>
         Registers(call[t]) /\ ~Refused(call[t])
    /\ pc[t] \in {"wantRead", "read", "unlockRead"} => call[t].op \in {"get", "len"}
    /\ answer[t].kind = "handle" => Registers(call[t])

\* Init and every step keep the types of the variables and the control state
\* of the calls.
THEOREM TypeCorrect == Spec => [](TypeOK /\ CallInv)
<1>1. Init => TypeOK /\ CallInv
  BY StoreAssumption, HandleSpaceAssumption DEF Init, TypeOK, CallInv, Handles, EmptyTable,
     Answers, Locations, NoCall, NoAnswer
<1>2. TypeOK /\ CallInv /\ [Next]_vars => TypeOK' /\ CallInv'
  <2> SUFFICES ASSUME TypeOK, CallInv, [Next]_vars
               PROVE  TypeOK' /\ CallInv'
    OBVIOUS
  <2> USE StoreAssumption, HandleSpaceAssumption DEF Goto
  <2>1. ASSUME NEW t \in Callers, NEW c \in Requests, CallStore(t, c)
        PROVE  TypeOK' /\ CallInv'
    <3>1. c \in Call
      OBVIOUS
    <3>2. c # NoCall
      BY <3>1 DEF Call, NoCall
    <3>3. /\ Entry(c) \in Locations
          /\ Entry(c) \notin {"idle", "unlockWrite", "unlockRead", "done", "allocate", "advance", "insert", "read"}
          /\ Entry(c) = "guard" => c.op = "register_server_side"
          /\ Entry(c) = "wantWrite" => Registers(c) /\ ~Refused(c)
          /\ Entry(c) = "wantRead" => c.op \in {"get", "len"}
      BY <3>1 DEF Entry, Locations, Call, Registers, Refused
    <3>4. TypeOK'
      BY <2>1, <3>3 DEF TypeOK, CallStore
    <3>5. CallInv'
      <4>1. pc' = [pc EXCEPT ![t] = Entry(c)] /\ pc[t] = "idle"
        BY <2>1 DEF CallStore
      <4>2. call' = [call EXCEPT ![t] = c] /\ answer' = answer
        BY <2>1 DEF CallStore
      <4>3. answer[t] = NoAnswer /\ answer[t].kind # "handle"
        BY <4>1 DEF CallInv, NoAnswer
      <4>4. QED
        BY <3>2, <3>3, <4>1, <4>2, <4>3 DEF TypeOK, CallInv
    <3>6. QED BY <3>4, <3>5
  <2>2. ASSUME NEW t \in Callers, RefuseKeys(t)
        PROVE  TypeOK' /\ CallInv'
    BY <2>2 DEF TypeOK, CallInv, RefuseKeys, Answers, Locations, NoAnswer,
       RefusedAnswer
  <2>3. ASSUME NEW t \in Callers, DeriveKeys(t)
        PROVE  TypeOK' /\ CallInv'
    BY <2>3 DEF TypeOK, CallInv, DeriveKeys, Locations, Registers
  <2>4. ASSUME NEW t \in Callers, AcquireWrite(t)
        PROVE  TypeOK' /\ CallInv'
    BY <2>4 DEF TypeOK, CallInv, AcquireWrite, Locations
  <2>5. ASSUME NEW t \in Callers, ReadCounter(t)
        PROVE  TypeOK' /\ CallInv'
    BY <2>5 DEF TypeOK, CallInv, ReadCounter, Locations
  <2>5a. ASSUME NEW t \in Callers, AdvanceCounter(t)
        PROVE  TypeOK' /\ CallInv'
    <3>1. Successor(nextHandle) \in Handles
      BY DEF TypeOK, Successor, Handles
    <3>2. QED
      BY <2>5a, <3>1 DEF TypeOK, CallInv, AdvanceCounter, Locations
  <2>6. ASSUME NEW t \in Callers, InsertKeys(t)
        PROVE  TypeOK' /\ CallInv'
    <3>1. call[t] \in Call /\ Registers(call[t])
      BY <2>6 DEF InsertKeys, TypeOK, CallInv, Registers, NoCall
    <3>2. StoredKeys(call[t]) \in KeySet
      BY <3>1, StoredKeysType
    <3>3. slot[t] \in Handles
      BY DEF TypeOK
    <3>4. HandleAnswer(slot[t]) \in Answers /\ HandleAnswer(slot[t]) # NoAnswer
      BY <3>3 DEF Answers, HandleAnswer, NoAnswer
    <3>5. TypeOK'
      BY <2>6, <3>2, <3>3, <3>4 DEF TypeOK, InsertKeys, Locations, Inserted
    <3>6. CallInv'
      BY <2>6, <3>1, <3>4 DEF TypeOK, CallInv, InsertKeys
    <3>7. QED BY <3>5, <3>6
  <2>7. ASSUME NEW t \in Callers, ReleaseWrite(t)
        PROVE  TypeOK' /\ CallInv'
    BY <2>7 DEF TypeOK, CallInv, ReleaseWrite, Locations
  <2>8. ASSUME NEW t \in Callers, AcquireRead(t)
        PROVE  TypeOK' /\ CallInv'
    BY <2>8 DEF TypeOK, CallInv, AcquireRead, Locations
  <2>9. ASSUME NEW t \in Callers, LookupKeys(t)
        PROVE  TypeOK' /\ CallInv'
    <3> DEFINE a == Lookup(byHandle, call[t].handle)
    <3>1. a \in Answers /\ a # NoAnswer /\ a.kind # "handle"
      BY DEF Lookup, Answers, KeysAnswer, AbsentAnswer,
         NoAnswer, TypeOK
    <3> HIDE DEF a
    <3>2. answer' = [answer EXCEPT ![t] = a]
      BY <2>9 DEF LookupKeys, a
    <3>3. QED
      BY <2>9, <3>1, <3>2 DEF TypeOK, CallInv, LookupKeys, Locations
  <2>10. ASSUME NEW t \in Callers, CountSessions(t)
         PROVE  TypeOK' /\ CallInv'
    <3> DEFINE a == LenAnswer(Cardinality(DOMAIN byHandle))
    <3>1. a \in Answers /\ a # NoAnswer /\ a.kind # "handle"
      BY DEF Answers, LenAnswer, NoAnswer, TypeOK
    <3> HIDE DEF a
    <3>2. answer' = [answer EXCEPT ![t] = a]
      BY <2>10 DEF CountSessions, a
    <3>3. QED
      BY <2>10, <3>1, <3>2 DEF TypeOK, CallInv, CountSessions, Locations
  <2>11. ASSUME NEW t \in Callers, ReleaseRead(t)
         PROVE  TypeOK' /\ CallInv'
    BY <2>11 DEF TypeOK, CallInv, ReleaseRead, Locations
  <2>12. ASSUME NEW t \in Callers, Return(t)
         PROVE  TypeOK' /\ CallInv'
    <3>1. granted' \subseteq [handle : Handles, keys : KeySet]
      <4>1. CASE answer[t].kind = "handle"
        <5>1. answer[t].handle \in Handles
          BY <4>1 DEF TypeOK, Answers, HandleAnswer, KeysAnswer,
             LenAnswer, NoAnswer, AbsentAnswer,
             RefusedAnswer
        <5>2. call[t] \in Call /\ Registers(call[t])
          BY <2>12, <4>1 DEF TypeOK, CallInv, Registers, NoCall
        <5>3. QED
          BY <2>12, <4>1, <5>1, <5>2, StoredKeysType DEF Return, TypeOK
      <4>2. CASE answer[t].kind # "handle"
        BY <2>12, <4>2 DEF Return, TypeOK
      <4>3. QED BY <4>1, <4>2
    <3>2. TypeOK'
      BY <2>12, <3>1 DEF TypeOK, Return, Locations, Answers
    <3>3. CallInv'
      BY <2>12 DEF TypeOK, CallInv, Return, NoAnswer
    <3>4. QED BY <3>2, <3>3
  <2>13. CASE UNCHANGED vars
    BY <2>13 DEF TypeOK, CallInv, vars
  <2>14. QED
    BY <2>1, <2>2, <2>3, <2>4, <2>5, <2>5a, <2>6, <2>7, <2>8, <2>9, <2>10, <2>11, <2>12, <2>13
       DEF Next, Step, Quiescent
<1>3. QED
  BY <1>1, <1>2, PTL DEF Spec
-----------------------------------------------------------------------------
\* The lock: whoever is in a critical section holds the guard for it, and a
\* write guard excludes every other guard.
LockInv ==
  /\ \A t \in Callers : t \in writers <=> pc[t] \in {"allocate", "advance", "insert", "unlockWrite"}
  /\ \A t \in Callers : t \in readers <=> pc[t] \in {"read", "unlockRead"}
  /\ \A s, t \in writers : s = t
  /\ writers = {} \/ readers = {}

\* The counter and the table: handles are used up in order, the one a thread is
\* about to insert under is the last one allocated and not in the table yet;
\* once the space is used up every handle is in the table.
AllocInv ==
  /\ issued < HandleSpace => nextHandle = issued
  /\ \A t \in Callers : pc[t] = "advance" => slot[t] = nextHandle
  /\ \A t \in Callers : pc[t] = "insert" =>
       IF issued <= HandleSpace
       THEN issued > 0 /\ slot[t] = issued - 1 /\ DOMAIN byHandle = 0 .. issued - 2
       ELSE DOMAIN byHandle = Handles
  /\ (\A t \in Callers : pc[t] # "insert") =>
       DOMAIN byHandle = IF issued < HandleSpace THEN 0 .. issued - 1 ELSE Handles

\* An answered registration is in the table, and so is a returned one.
BindingInv ==
  issued <= HandleSpace =>
    /\ HandleBinding
    /\ \A t \in Callers : answer[t].kind = "handle" =>
         /\ answer[t].handle \in DOMAIN byHandle
         /\ byHandle[answer[t].handle] = StoredKeys(call[t])

StoreInv == LockInv /\ AllocInv /\ BindingInv

LEMMA StoreInvInductive ==
  TypeOK /\ CallInv /\ StoreInv /\ [Next]_vars => StoreInv'
<1> SUFFICES ASSUME TypeOK, CallInv, StoreInv, [Next]_vars
             PROVE  StoreInv'
  OBVIOUS
<1> USE HandleSpaceAssumption DEF Goto
\* Steps outside the write lock's critical section touch neither the table nor
\* the counter.
<1>1. ASSUME NEW t \in Callers, NEW c \in Requests, CallStore(t, c)
      PROVE  StoreInv'
  <2>1. Entry(c) \in {"guard", "wantWrite", "wantRead"}
    BY DEF Entry
  <2>2. answer[t].kind # "handle"
    BY <1>1 DEF CallStore, CallInv, NoAnswer
  <2>3. LockInv'
    BY <1>1, <2>1 DEF StoreInv, LockInv, CallStore, TypeOK
  <2>4. AllocInv'
    BY <1>1, <2>1 DEF StoreInv, AllocInv, CallStore, TypeOK
  <2>5. BindingInv'
    BY <1>1, <2>2 DEF StoreInv, BindingInv, HandleBinding, CallStore, TypeOK
  <2>6. QED BY <2>3, <2>4, <2>5 DEF StoreInv
<1>2. ASSUME NEW t \in Callers, RefuseKeys(t)
      PROVE  StoreInv'
  <2>1. RefusedAnswer.kind # "handle"
    BY DEF RefusedAnswer
  <2>2. QED
    BY <1>2, <2>1 DEF StoreInv, LockInv, AllocInv, BindingInv, HandleBinding, RefuseKeys, TypeOK
<1>3. ASSUME NEW t \in Callers, DeriveKeys(t)
      PROVE  StoreInv'
  BY <1>3 DEF StoreInv, LockInv, AllocInv, BindingInv, HandleBinding, DeriveKeys, TypeOK
<1>4. ASSUME NEW t \in Callers, AcquireWrite(t)
      PROVE  StoreInv'
  BY <1>4 DEF StoreInv, LockInv, AllocInv, BindingInv, HandleBinding, AcquireWrite, TypeOK
<1>5. ASSUME NEW t \in Callers, ReadCounter(t)
      PROVE  StoreInv'
  <2>1. LockInv' /\ AllocInv'
    BY <1>5 DEF StoreInv, LockInv, AllocInv, ReadCounter, TypeOK
  <2>2. BindingInv'
    BY <1>5 DEF StoreInv, BindingInv, HandleBinding, ReadCounter, TypeOK
  <2>3. QED BY <2>1, <2>2 DEF StoreInv
<1>5a. ASSUME NEW t \in Callers, AdvanceCounter(t)
      PROVE  StoreInv'
  <2>1. \A s \in Callers : pc[s] # "insert" /\ (s # t => pc[s] # "advance")
    BY <1>5a DEF StoreInv, LockInv, AdvanceCounter, TypeOK
  <2>2. LockInv'
    BY <1>5a DEF StoreInv, LockInv, AdvanceCounter, TypeOK
  <2>3. AllocInv'
    BY <1>5a, <2>1 DEF StoreInv, AllocInv, AdvanceCounter, Successor, TypeOK, Handles
  <2>4. BindingInv'
    BY <1>5a DEF StoreInv, BindingInv, HandleBinding, AdvanceCounter, TypeOK
  <2>5. QED BY <2>2, <2>3, <2>4 DEF StoreInv
<1>6. ASSUME NEW t \in Callers, InsertKeys(t)
      PROVE  StoreInv'
  <2>1. \A s \in Callers : s # t => pc[s] # "insert"
    BY <1>6 DEF StoreInv, LockInv, InsertKeys, TypeOK
  <2>2. /\ byHandle' = Inserted(byHandle, slot[t], StoredKeys(call[t]))
        /\ DOMAIN byHandle' = DOMAIN byHandle \cup {slot[t]}
        /\ byHandle'[slot[t]] = StoredKeys(call[t])
        /\ \A g \in DOMAIN byHandle : g # slot[t] => byHandle'[g] = byHandle[g]
    BY <1>6 DEF InsertKeys, Inserted
  <2>3. issued <= HandleSpace => slot[t] \notin DOMAIN byHandle
    BY <1>6 DEF InsertKeys, StoreInv, AllocInv, TypeOK
  <2>4. LockInv'
    BY <1>6 DEF StoreInv, LockInv, InsertKeys, TypeOK
  <2>5. AllocInv'
    BY <1>6, <2>1, <2>2 DEF StoreInv, AllocInv, InsertKeys, TypeOK, Handles
  <2>6. BindingInv'
    <3>1. answer' = [answer EXCEPT ![t] = HandleAnswer(slot[t])]
      BY <1>6 DEF InsertKeys
    <3>2. answer'[t].handle = slot[t] /\ \A s \in Callers : s # t => answer'[s] = answer[s]
      BY <3>1 DEF TypeOK, HandleAnswer
    <3>3. QED
      BY <1>6, <2>2, <2>3, <3>2 DEF StoreInv, BindingInv, HandleBinding, InsertKeys
  <2>7. QED BY <2>4, <2>5, <2>6 DEF StoreInv
<1>7. ASSUME NEW t \in Callers, ReleaseWrite(t)
      PROVE  StoreInv'
  BY <1>7 DEF StoreInv, LockInv, AllocInv, BindingInv, HandleBinding, ReleaseWrite, TypeOK
<1>8. ASSUME NEW t \in Callers, AcquireRead(t)
      PROVE  StoreInv'
  BY <1>8 DEF StoreInv, LockInv, AllocInv, BindingInv, HandleBinding, AcquireRead, TypeOK
<1>9. ASSUME NEW t \in Callers, LookupKeys(t) \/ CountSessions(t)
      PROVE  StoreInv'
  <2>1. PICK a : answer' = [answer EXCEPT ![t] = a] /\ a.kind # "handle"
    <3>1. CASE LookupKeys(t)
      <4>1. Lookup(byHandle, call[t].handle).kind # "handle"
        BY DEF Lookup, KeysAnswer, AbsentAnswer
      <4>2. QED BY <3>1, <4>1 DEF LookupKeys
    <3>2. CASE CountSessions(t)
      <4>1. LenAnswer(Cardinality(DOMAIN byHandle)).kind # "handle"
        BY DEF LenAnswer
      <4>2. QED BY <3>2, <4>1 DEF CountSessions
    <3>3. QED BY <1>9, <3>1, <3>2
  <2>2. LockInv' /\ AllocInv'
    BY <1>9 DEF StoreInv, LockInv, AllocInv, LookupKeys, CountSessions, TypeOK
  <2>3. BindingInv'
    BY <1>9, <2>1 DEF StoreInv, BindingInv, HandleBinding, LookupKeys, CountSessions, TypeOK
  <2>4. QED BY <2>2, <2>3 DEF StoreInv
<1>10. ASSUME NEW t \in Callers, ReleaseRead(t)
       PROVE  StoreInv'
  BY <1>10 DEF StoreInv, LockInv, AllocInv, BindingInv, HandleBinding, ReleaseRead, TypeOK
<1>11. ASSUME NEW t \in Callers, Return(t)
       PROVE  StoreInv'
  <2>1. LockInv' /\ AllocInv'
    BY <1>11 DEF StoreInv, LockInv, AllocInv, Return, TypeOK
  <2>2. NoAnswer.kind # "handle"
    BY DEF NoAnswer
  <2>3. BindingInv'
    <3>1. SUFFICES ASSUME issued <= HandleSpace
                   PROVE  /\ \A g \in granted' : g.handle \in DOMAIN byHandle
                                               /\ byHandle[g.handle] = g.keys
                          /\ \A s \in Callers : answer'[s].kind = "handle" =>
                               /\ answer'[s].handle \in DOMAIN byHandle
                               /\ byHandle[answer'[s].handle] = StoredKeys(call'[s])
      BY <1>11 DEF BindingInv, HandleBinding, Return
    <3>2. /\ \A g \in granted : g.handle \in DOMAIN byHandle /\ byHandle[g.handle] = g.keys
          /\ \A s \in Callers : answer[s].kind = "handle" =>
               /\ answer[s].handle \in DOMAIN byHandle
               /\ byHandle[answer[s].handle] = StoredKeys(call[s])
      BY <3>1 DEF StoreInv, BindingInv, HandleBinding
    <3>3. ASSUME NEW g \in granted'
          PROVE  g.handle \in DOMAIN byHandle /\ byHandle[g.handle] = g.keys
      BY <1>11, <3>2 DEF Return
    <3>4. answer'[t] = NoAnswer /\ \A s \in Callers : s # t => answer'[s] = answer[s] /\ call'[s] = call[s]
      BY <1>11 DEF Return, TypeOK
    <3>5. QED
      BY <2>2, <3>2, <3>3, <3>4
  <2>4. QED BY <2>1, <2>3 DEF StoreInv
<1>12. CASE UNCHANGED vars
  BY <1>12 DEF StoreInv, LockInv, AllocInv, BindingInv, HandleBinding, vars
<1>13. QED
  BY <1>1, <1>2, <1>3, <1>4, <1>5, <1>5a, <1>6, <1>7, <1>8, <1>9, <1>10, <1>11, <1>12
     DEF Next, Step, Quiescent

LEMMA StoreInvariant == Spec => []StoreInv
<1>1. Init => StoreInv
  BY HandleSpaceAssumption DEF Init, StoreInv, LockInv, AllocInv, BindingInv, HandleBinding,
     EmptyTable, NoAnswer
<1>2. QED
  BY <1>1, StoreInvInductive, TypeCorrect, PTL DEF Spec

\* A handle that register returned keeps naming the keys registered under it,
\* for any number of threads and registrations, up to the wrap of the counter.
THEOREM HandlesStayBound == Spec => []HandleBinding
<1>1. StoreInv => HandleBinding
  BY DEF StoreInv, BindingInv, HandleBinding
<1>2. QED
  BY <1>1, StoreInvariant, PTL
-----------------------------------------------------------------------------
\* Every step of the store is a step of the registry or leaves what the
\* registry sees unchanged.
LEMMA StepsRefine ==
  TypeOK /\ CallInv /\ StoreInv /\ [Next]_vars =>
    [Registry!RegistryNext]_(Registry!registryVars)
<1> SUFFICES ASSUME TypeOK, CallInv, StoreInv, [Next]_vars
             PROVE  Registry!RegistryNext \/ UNCHANGED Registry!registryVars
  OBVIOUS
<1> USE StoreAssumption DEF Goto, Registry!registryVars
<1>1. ASSUME NEW t \in Callers, NEW c \in Requests, CallStore(t, c)
      PROVE  Registry!RegistryNext
  <2>1. Registry!Invoke(t, c)
    BY <1>1 DEF CallStore, CallInv, Registry!Invoke, Registry!NoCall, NoCall
  <2>2. c \in Registry!Call
    BY DEF Registry!Call, Call, Registry!KeySet, KeySet, Registry!PackGeometry, PackGeometry,
       Registry!Handles, Handles
  <2>3. QED BY <2>1, <2>2 DEF Registry!RegistryNext
<1>2. ASSUME NEW t \in Callers, RefuseKeys(t)
      PROVE  Registry!RegistryNext
  <2>1. call[t] # NoCall /\ answer[t] = NoAnswer
    BY <1>2 DEF RefuseKeys, CallInv
  <2>2. Registry!Refuse(t)
    BY <1>2, <2>1 DEF RefuseKeys, Registry!Refuse, Registry!Pending, Registry!Refused, Refused,
       Registry!PackingWidthMatches, PackingWidthMatches, Registry!RefusedAnswer, RefusedAnswer,
       Registry!NoCall, NoCall, Registry!NoAnswer, NoAnswer
  <2>3. QED BY <2>2 DEF Registry!RegistryNext
<1>3. ASSUME NEW t \in Callers, DeriveKeys(t) \/ AcquireWrite(t) \/ ReadCounter(t)
                                  \/ AdvanceCounter(t) \/ ReleaseWrite(t) \/ AcquireRead(t) \/ ReleaseRead(t)
      PROVE  UNCHANGED Registry!registryVars
  BY <1>3 DEF DeriveKeys, AcquireWrite, ReadCounter, AdvanceCounter, ReleaseWrite, AcquireRead, ReleaseRead
<1>4. ASSUME NEW t \in Callers, InsertKeys(t)
      PROVE  Registry!RegistryNext
  <2>1. /\ call[t] # NoCall /\ answer[t] = NoAnswer
        /\ Registers(call[t]) /\ ~Refused(call[t])
    BY <1>4 DEF InsertKeys, CallInv
  <2>2. Registry!Pending(t) /\ Registry!Registers(call[t]) /\ ~Registry!Refused(call[t])
    BY <2>1 DEF Registry!Pending, Registry!Registers, Registers, Registry!Refused, Refused,
       Registry!PackingWidthMatches, PackingWidthMatches,
       Registry!NoCall, NoCall, Registry!NoAnswer, NoAnswer
  <2>3. slot[t] \in Registry!Handles
    BY DEF TypeOK, Handles, Registry!Handles
  <2>4. Registry!Allocatable(byHandle, slot[t])
    BY <1>4 DEF InsertKeys, StoreInv, AllocInv, TypeOK, Registry!Allocatable, Handles,
       Registry!Handles
  <2>5. /\ byHandle' = Registry!Inserted(byHandle, slot[t], Registry!StoredKeys(call[t]))
        /\ answer' = [answer EXCEPT ![t] = Registry!HandleAnswer(slot[t])]
        /\ call' = call
    BY <1>4 DEF InsertKeys, Registry!Inserted, Inserted, Registry!StoredKeys, StoredKeys,
       Registry!EnsureServerDerivatives, EnsureServerDerivatives,
       Registry!HandleAnswer, HandleAnswer
  <2>6. Registry!Register(t)
    BY <2>2, <2>3, <2>4, <2>5 DEF Registry!Register
  <2>7. QED BY <2>6 DEF Registry!RegistryNext
<1>5. ASSUME NEW t \in Callers, LookupKeys(t)
      PROVE  Registry!RegistryNext
  <2>1. call[t] # NoCall /\ answer[t] = NoAnswer
    BY <1>5 DEF LookupKeys, CallInv, NoCall
  <2>2. Registry!Get(t)
    BY <1>5, <2>1 DEF LookupKeys, Registry!Get, Registry!Pending, Registry!Lookup, Lookup,
       Registry!KeysAnswer, KeysAnswer, Registry!AbsentAnswer, AbsentAnswer,
       Registry!NoCall, NoCall, Registry!NoAnswer, NoAnswer
  <2>3. QED BY <2>2 DEF Registry!RegistryNext
<1>6. ASSUME NEW t \in Callers, CountSessions(t)
      PROVE  Registry!RegistryNext
  <2>1. call[t] # NoCall /\ answer[t] = NoAnswer
    BY <1>6 DEF CountSessions, CallInv, NoCall
  <2>2. Registry!Size(t)
    <3>1. Registry!Pending(t)
      BY <2>1 DEF Registry!Pending, Registry!NoCall, NoCall, Registry!NoAnswer, NoAnswer
    <3>2. Registry!LenAnswer(Cardinality(DOMAIN byHandle)) = LenAnswer(Cardinality(DOMAIN byHandle))
      BY DEF Registry!LenAnswer, LenAnswer
    <3>3. answer' = [answer EXCEPT ![t] = LenAnswer(Cardinality(DOMAIN byHandle))]
      BY <1>6 DEF CountSessions
    <3>4. answer' = [answer EXCEPT ![t] = Registry!LenAnswer(Cardinality(DOMAIN byHandle))]
      BY <3>2, <3>3, Zenon
    <3>5. Registry!Cardinality(DOMAIN byHandle) = Cardinality(DOMAIN byHandle)
      BY DEF Registry!Cardinality, Cardinality
    <3>6. answer' = [answer EXCEPT ![t] = Registry!LenAnswer(Registry!Cardinality(DOMAIN byHandle))]
      BY <3>4, <3>5, Zenon
    <3>7. QED
      BY <1>6, <3>1, <3>6 DEF CountSessions, Registry!Size
  <2>3. QED BY <2>2 DEF Registry!RegistryNext
<1>7. ASSUME NEW t \in Callers, Return(t)
      PROVE  Registry!RegistryNext
  <2>1. answer[t] # NoAnswer
    BY <1>7 DEF Return, CallInv
  <2>2. Registry!Finish(t)
    BY <1>7, <2>1 DEF Return, Registry!Finish, Registry!NoCall, NoCall, Registry!NoAnswer, NoAnswer
  <2>3. QED BY <2>2 DEF Registry!RegistryNext
<1>8. CASE UNCHANGED vars
  BY <1>8 DEF vars
<1>9. QED
  BY <1>1, <1>2, <1>3, <1>4, <1>5, <1>6, <1>7, <1>8 DEF Next, Step, Quiescent

\* The store is linearizable: whatever the threads do, what they observe is
\* what the atomic registry of SessionRegistry could have answered.
THEOREM StoreImplementsRegistry == Spec => RegistryRefinement
<1>1. Init => Registry!RegistryInit
  BY DEF Init, Registry!RegistryInit, Registry!EmptyTable, EmptyTable,
     Registry!NoCall, NoCall, Registry!NoAnswer, NoAnswer
<1>2. QED
  BY <1>1, StepsRefine, StoreInvariant, TypeCorrect, PTL
     DEF Spec, RegistryRefinement, Registry!RegistrySpec
=============================================================================
