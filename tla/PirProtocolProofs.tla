------------------------- MODULE PirProtocolProofs -------------------------
(***************************************************************************)
(* Proofs about PirProtocol, for every number of clients, setups, restarts *)
(* and handles.                                                            *)
(***************************************************************************)
EXTENDS PirProtocol, ArithmeticLemmas, SequenceTheorems, TLAPS

\* What packing keys have in common before and after serialization.
LEMMA KeysType ==
  ASSUME NEW g \in Seeds, NEW sk \in SecretKeys
  PROVE  /\ NoKeys \notin KeySet
         /\ GenerateKeys(g, sk) \in KeySet \cup {NoKeys}
         /\ \A k \in KeySet : /\ StripDerived(k) \in KeySet
                              /\ EnsureServerDerivatives(k) \in KeySet
                              /\ OnTheWire(k) \in KeySet
                              /\ OnTheWire(OnTheWire(k)) = OnTheWire(k)
                              /\ OnTheWire(EnsureServerDerivatives(StripDerived(k))) = OnTheWire(k)
<1>1. NoKeys \notin KeySet
  BY GeometryAssumption, SMT DEF NoKeys, KeySet
<1>2. \A k \in KeySet : /\ StripDerived(k) \in KeySet
                        /\ EnsureServerDerivatives(k) \in KeySet
                        /\ StripDerived(StripDerived(k)) = StripDerived(k)
                        /\ StripDerived(EnsureServerDerivatives(StripDerived(k))) = StripDerived(k)
  <2> SUFFICES ASSUME NEW k \in KeySet
               PROVE  /\ StripDerived(k) \in KeySet
                      /\ EnsureServerDerivatives(k) \in KeySet
                      /\ StripDerived(StripDerived(k)) = StripDerived(k)
                      /\ StripDerived(EnsureServerDerivatives(StripDerived(k))) = StripDerived(k)
    OBVIOUS
  <2>1. StripDerived(k) \in KeySet /\ StripDerived(k).width = k.width
    BY DEF KeySet, StripDerived
  <2>2. EnsureServerDerivatives(k) = [k EXCEPT !.derived = (k.derived \/ k.width > 1)]
    BY DEF EnsureServerDerivatives
  <2>3. (k.derived \/ k.width > 1) \in BOOLEAN
    BY DEF KeySet
  <2>4. EnsureServerDerivatives(k) \in KeySet
    BY <2>2, <2>3, Zenon DEF KeySet
  <2>5. StripDerived(StripDerived(k)) = StripDerived(k)
    BY DEF KeySet, StripDerived
  <2>6. \A b : StripDerived([StripDerived(k) EXCEPT !.derived = b]) = StripDerived(k)
    BY DEF KeySet, StripDerived
  <2>. QED
    BY <2>1, <2>4, <2>5, <2>6 DEF EnsureServerDerivatives
<1>3. GenerateKeys(g, sk) \in KeySet \cup {NoKeys}
  BY SetupAssumption, SMT DEF GenerateKeys, KeySet
<1>. QED
  BY <1>1, <1>2, <1>3 DEF OnTheWire
-----------------------------------------------------------------------------
(* The answers are responses: their coefficients are plaintexts or Junk.    *)

\* A record has a plaintext for each of its columns.
LEMMA RecordType ==
  ASSUME NEW g \in Seeds
  PROVE  /\ Record[g] \in Seq(Plaintexts)
         /\ Columns[g] \in Nat \ {0}
         /\ \A k \in Coeffs : k < Columns[g] => Record[g][k + 1] \in Plain
<1>1. Record[g] \in Seq(Plain) /\ Len(Record[g]) = Columns[g]
  BY SetupAssumption DEF Plain
<1>2. Columns[g] \in Nat \ {0}
  BY SetupAssumption, GeometryAssumption
<1>3. \A i \in 1 .. Len(Record[g]) : Record[g][i] \in Plain
  BY <1>1
<1>4. Record[g] \in Seq(Plaintexts)
  BY <1>1, <1>3, SeqDef DEF Plaintexts
<1>5. \A k \in Coeffs : k < Columns[g] => k + 1 \in 1 .. Len(Record[g])
  BY <1>1, <1>2, SetupAssumption DEF Coeffs
<1>. QED
  BY <1>2, <1>3, <1>4, <1>5

\* Every respond function returns a response or a failure.
LEMMA RespondType ==
  ASSUME NEW g \in Seeds, NEW pack \in Seeds, NEW q
  PROVE  /\ Respond(q, g) \in ServerResponse
         /\ RespondOnePacking(q, g) \in ServerResponse
         /\ \A keys : PackInspiring(q, keys, pack, g) \in ServerResponse
         /\ \A why \in Refusals : Failure(why) \in ServerResponse
<1>1. \A coeffs, columns, tag :
        coeffs \in [Coeffs -> Plaintexts] /\ columns \in Seq(Plaintexts)
        /\ tag \in {"none", "inspiring"}
        => Response(coeffs, columns, tag) \in ServerResponse
  BY DEF Response, ServerResponse
<1>2. \A why \in Refusals : Failure(why) \in ServerResponse
  BY DEF Failure, ServerResponse
<1>3. Record[g] \in Seq(Plaintexts) /\ <<>> \in Seq(Plaintexts)
  BY RecordType
<1>4. AllJunk \in [Coeffs -> Plaintexts]
  BY DEF AllJunk, Plaintexts
<1>5. OneColumn(g) \in [Coeffs -> Plaintexts]
  BY RecordType DEF OneColumn, Plaintexts, Coeffs
<1>6. TreePacked(q, g) \in [Coeffs -> Plaintexts]
  <2>1. \A v \in Plain : Scaled(v, RingDim) \in Plain
    BY SetupAssumption DEF Scaled, Plain, Junk
  <2>2. 0 \in Plain
    BY SetupAssumption DEF Plain
  <2>. QED
    BY <1>4, <1>5, <2>1, <2>2, RecordType DEF TreePacked, Plaintexts
<1>7. ASSUME NEW keys
      PROVE  InspiringPacked(q, keys, pack, g) \in [Coeffs -> Plaintexts]
  <2>1. 0 \in Plain
    BY SetupAssumption DEF Plain
  <2>. QED
    BY <1>4, <2>1, RecordType DEF InspiringPacked, Plaintexts
<1>8. ASSUME NEW keys
      PROVE  PackInspiring(q, keys, pack, g) \in ServerResponse
  BY <1>1, <1>2, <1>3, <1>7 DEF PackInspiring, Refusals
<1>. QED
  BY <1>1, <1>2, <1>3, <1>4, <1>5, <1>6, <1>8 DEF Respond, RespondOnePacking

\* So does every route, against a cache where it needs one.
LEMMA AnsweredType ==
  ASSUME serving \in Seeds, NEW route \in Routes, NEW q,
         route \notin Variants => cache \in Seeds
  PROVE  Answered(q, route) \in ServerResponse
<1>1. CASE route \in Variants
  BY <1>1, RespondType DEF Answered, RespondWithVariant, RespondInspiring, Variants, Refusals
<1>2. CASE route = "cached"
  BY <1>2, RespondType DEF Answered, RespondInspiring, Variants, Refusals
<1>3. CASE route = "session"
  <2>1. cache \in Seeds
    BY <1>3 DEF Variants
  <2>2. RespondWithSession(q, cache, table, serving) \in ServerResponse
    BY <2>1, RespondType DEF RespondWithSession, Refusals
  <2>. QED
    BY <1>3, <2>2 DEF Answered
<1>. QED
  BY <1>1, <1>2, <1>3 DEF Routes
-----------------------------------------------------------------------------
(* Types                                                                    *)

\* A registration extends the table by the next handle.
LEMMA RegisterType ==
  ASSUME TypeOK, NEW keys \in KeySet, Register(keys)
  PROVE  /\ nextHandle \in Handles /\ nextHandle' \in 0 .. HandleSpace
         /\ DOMAIN table' = 0 .. nextHandle' - 1
         /\ \A h \in DOMAIN table' : table'[h] \in KeySet
         /\ nextHandle \in DOMAIN table' /\ table'[nextHandle] = keys
         /\ \A h \in DOMAIN table : h \in DOMAIN table' /\ table'[h] = table[h]
<1>1. nextHandle \in 0 .. HandleSpace - 1 /\ nextHandle' = nextHandle + 1
  BY HandleSpaceAssumption DEF TypeOK, Register
<1>2. /\ table' = [h \in DOMAIN table \cup {nextHandle} |->
                     IF h = nextHandle THEN keys ELSE table[h]]
      /\ DOMAIN table = 0 .. nextHandle - 1
  BY DEF TypeOK, Register, Inserted
<1>3. DOMAIN table' = 0 .. nextHandle' - 1
  BY <1>1, <1>2
<1>. QED
  BY <1>1, <1>2, <1>3, HandleSpaceAssumption DEF Handles, TypeOK

\* A session with keys has keys of the type.
LEMMA SessionHasType ==
  ASSUME TypeOK, NEW c \in Clients, session[c] # NoSession
  PROVE  session[c] \in Sessions
BY DEF TypeOK

\* Init and every step keep the types of the server's state, of the sessions
\* and of the query on its way.
THEOREM TypeCorrect == Spec => []TypeOK
<1>1. Init => TypeOK
  BY HandleSpaceAssumption, ProtocolAssumption
  DEF Init, TypeOK, EmptyTable, Exchanges
<1>2. TypeOK /\ [Next]_vars => TypeOK'
  <2> SUFFICES ASSUME TypeOK, [Next]_vars
               PROVE  TypeOK'
    OBVIOUS
  <2>1. ASSUME NEW g \in Seeds, ChangeSetup(g) \/ RestoreCache(g)
        PROVE  TypeOK'
    BY <2>1 DEF ChangeSetup, RestoreCache, TypeOK
  <2>2. CASE BuildCache
    BY <2>2 DEF BuildCache, TypeOK
  <2>3. CASE Restart
    <3>1. DOMAIN table' = 0 .. nextHandle' - 1 /\ nextHandle' \in 0 .. HandleSpace
      BY <2>3, HandleSpaceAssumption DEF Restart, EmptyTable
    <3>2. DOMAIN table' = {}
      BY <2>3 DEF Restart, EmptyTable
    <3>3. epoch' \in 0 .. MaxRestarts
      BY <2>3, ProtocolAssumption DEF Restart, TypeOK
    <3>. QED
      BY <2>3, <3>1, <3>2, <3>3 DEF Restart, TypeOK
  <2>4. ASSUME NEW c \in Clients, NEW sk \in SecretKeys, Connect(c, sk)
        PROVE  TypeOK'
    <3>1. [crs |-> serving, sk |-> sk, params |-> Published[serving] > 0,
           keys |-> GenerateKeys(serving, sk), handle |-> NoHandle, issuer |-> 0] \in Sessions
      <4>1. GenerateKeys(serving, sk) \in KeySet \cup {NoKeys}
        BY KeysType DEF TypeOK
      <4>2. (Published[serving] > 0) \in BOOLEAN
        OBVIOUS
      <4>3. 0 \in 0 .. MaxRestarts /\ serving \in Seeds
        BY ProtocolAssumption DEF TypeOK
      <4>. QED
        BY <4>1, <4>2, <4>3, Zenon DEF Sessions
    <3>2. session' \in [Clients -> Sessions \cup {NoSession}]
      BY <2>4, <3>1, Zenon DEF Connect, TypeOK
    <3>. QED
      BY <2>4, <3>2 DEF Connect, TypeOK
  <2>5. ASSUME NEW c \in Clients, session[c] # NoSession, NEW keys \in KeySet, Register(keys),
               session' = [session EXCEPT ![c].handle = nextHandle, ![c].issuer = epoch],
               UNCHANGED <<serving, cache, epoch, exchange>>
        PROVE  TypeOK'
    <3>1. session[c] \in Sessions
      BY <2>5, SessionHasType
    <3>2. nextHandle \in Handles /\ epoch \in 0 .. MaxRestarts
      BY <2>5, RegisterType DEF TypeOK
    <3>3. [session[c] EXCEPT !.handle = nextHandle, !.issuer = epoch] \in Sessions
      BY <3>1, <3>2, Zenon DEF Sessions
    <3>4. session' \in [Clients -> Sessions \cup {NoSession}]
      BY <2>5, <3>3, Zenon DEF TypeOK
    <3>. QED
      BY <2>5, <3>4, RegisterType DEF TypeOK
  <2>6. ASSUME NEW c \in Clients, RegisterWith(c)
        PROVE  TypeOK'
    <3>1. session[c].keys \in KeySet
      BY <2>6, SessionHasType DEF RegisterWith, Sessions
    <3>. QED
      BY <2>5, <2>6, <3>1, Zenon DEF RegisterWith
  <2>7. ASSUME NEW c \in Clients, RegisterWithServerDerivation(c)
        PROVE  TypeOK'
    <3>1. session[c].keys \in KeySet /\ session[c].crs \in Seeds /\ session[c].sk \in SecretKeys
      BY <2>7, SessionHasType DEF RegisterWithServerDerivation, Sessions
    <3>2. EnsureServerDerivatives(StripDerived(session[c].keys)) \in KeySet
      BY <3>1, KeysType
    <3>. QED
      BY <2>5, <2>7, <3>2, Zenon DEF RegisterWithServerDerivation
  <2>8. ASSUME NEW c \in Clients, Rehydrate(c)
        PROVE  TypeOK'
    <3>1. session[c] \in Sessions
      BY <2>8, SessionHasType DEF Rehydrate
    <3>2. OnTheWire(session[c].keys) \in KeySet \cup {NoKeys}
      BY <3>1, KeysType, Zenon DEF Sessions, OnTheWire
    <3>3. 0 \in 0 .. MaxRestarts
      BY ProtocolAssumption
    <3>4. ASSUME NEW s \in Sessions, NEW keys \in KeySet \cup {NoKeys}
          PROVE  [s EXCEPT !.params = FALSE, !.keys = keys, !.handle = NoHandle, !.issuer = 0]
                   \in Sessions
      BY <3>3, Zenon DEF Sessions
    <3>5. session' = [session EXCEPT ![c] =
            [session[c] EXCEPT !.params = FALSE, !.keys = OnTheWire(session[c].keys),
                               !.handle = NoHandle, !.issuer = 0]]
      BY <2>8 DEF Rehydrate
    <3>6. session' \in [Clients -> Sessions \cup {NoSession}]
      BY <3>1, <3>2, <3>4, <3>5, Zenon DEF TypeOK
    <3>. QED
      BY <2>8, <3>6 DEF Rehydrate, TypeOK
  <2>9. ASSUME NEW sk \in SecretKeys, NEW keys \in KeySet \cup {NoKeys},
               NEW handle \in Handles \cup {NoHandle}, NEW seeded \in BOOLEAN,
               NEW crs \in Seeds, NEW issuer \in 0 .. MaxRestarts,
               exchange' = Sent(Query(sk, keys, handle, seeded), crs, issuer),
               UNCHANGED <<serving, cache, table, nextHandle, epoch, session>>
        PROVE  TypeOK'
    <3>1. OnTheWire(keys) \in KeySet \cup {NoKeys}
      BY KeysType, Zenon DEF OnTheWire
    <3>2. Query(sk, keys, handle, seeded) \in Queries
      BY <3>1 DEF Query, Queries
    <3>3. exchange' \in Exchanges
      BY <2>9, <3>2 DEF Sent, Exchanges
    <3>. QED
      BY <2>9, <3>3 DEF TypeOK
  <2>10. ASSUME NEW c \in Clients, NEW seeded \in BOOLEAN, Ask(c, seeded)
         PROVE  TypeOK'
    <3>1. session[c] \in Sessions
      BY <2>10, SessionHasType DEF Ask
    <3>. QED
      BY <2>9, <2>10, <3>1 DEF Ask, Sessions
  <2>11. ASSUME NEW sk \in SecretKeys, NEW seeded \in BOOLEAN, AskSessionless(sk, seeded)
         PROVE  TypeOK'
    <3>1. GenerateKeys(serving, sk) \in KeySet \cup {NoKeys} /\ serving \in Seeds
      BY KeysType DEF TypeOK
    <3>. QED
      BY <2>9, <2>11, <3>1, ProtocolAssumption DEF AskSessionless
  <2>12. CASE PreferTree
    <3>1. /\ exchange.query \in Queries /\ exchange.crs \in Seeds
          /\ exchange.issuer \in 0 .. MaxRestarts
          /\ exchange \in [phase : {"sent"}, query : Queries, crs : Seeds, issuer : 0 .. MaxRestarts]
      BY <2>12 DEF PreferTree, TypeOK, Exchanges, NoExchange
    <3>2. [exchange.query EXCEPT !.mode = "tree"] \in Queries
      BY <3>1, Zenon DEF Queries
    <3>3. exchange' \in Exchanges
      BY <2>12, <3>1, <3>2, Zenon DEF PreferTree, Exchanges
    <3>. QED
      BY <2>12, <3>3 DEF PreferTree, TypeOK
  <2>13. ASSUME NEW route \in Routes, Answer(route)
         PROVE  TypeOK'
    <3>1. route \notin Variants => cache \in Seeds
      BY <2>13 DEF Answer, TypeOK
    <3>2. Answered(exchange.query, route) \in ServerResponse
      BY <3>1, AnsweredType DEF TypeOK
    <3>3. exchange' \in Exchanges
      BY <2>13, <3>2 DEF Answer, Exchanges
    <3>. QED
      BY <2>13, <3>3 DEF Answer, TypeOK
  <2>14. CASE UNCHANGED vars
    BY <2>14 DEF vars, TypeOK
  <2>. QED
    BY <2>1, <2>2, <2>3, <2>4, <2>6, <2>7, <2>8, <2>10, <2>11, <2>12, <2>13, <2>14 DEF Next
<1>. QED
  BY <1>1, <1>2, PTL DEF Spec
-----------------------------------------------------------------------------
(* Handles                                                                  *)

\* What is known of a session: its keys are those of its CRS and secret key, its
\* handle is of this store or an earlier one, and resolves if it is of this one.
SessionBound(s, tbl, ep) ==
  /\ OnTheWire(s.keys) = OnTheWire(GenerateKeys(s.crs, s.sk))
  /\ s.issuer <= ep
  /\ s.handle # NoHandle /\ s.issuer = ep => Resolves(tbl, s.handle, s.crs, s.sk)

\* The same of a query on its way, which has taken a copy of the session's handle.
QueryBound(x, tbl, ep) ==
  /\ x.query.keys = IF x.query.handle = NoHandle
                    THEN OnTheWire(GenerateKeys(x.crs, x.query.sk)) ELSE NoKeys
  /\ x.issuer <= ep
  /\ x.query.handle # NoHandle /\ x.issuer = ep
       => Resolves(tbl, x.query.handle, x.crs, x.query.sk)

BindingInv ==
  /\ \A c \in Clients : session[c] # NoSession => SessionBound(session[c], table, epoch)
  /\ exchange.phase = "sent" => QueryBound(exchange, table, epoch)

\* Registering keys disturbs no handle issued before, and binds the new one.
LEMMA RegisterBinds ==
  ASSUME TypeOK, NEW keys \in KeySet, Register(keys), epoch' = epoch
  PROVE  /\ \A h, g, sk : Resolves(table, h, g, sk) => Resolves(table', h, g, sk)
         /\ \A g, sk : OnTheWire(keys) = OnTheWire(GenerateKeys(g, sk))
                         => Resolves(table', nextHandle, g, sk)
BY RegisterType, Zenon DEF Resolves

\* Every reachable state satisfies the binding.
THEOREM BindingInvariant == Spec => []BindingInv
<1>1. Init => BindingInv
  BY DEF Init, BindingInv, NoExchange
<1>2. TypeOK /\ BindingInv /\ [Next]_vars => BindingInv'
  <2> SUFFICES ASSUME TypeOK, BindingInv, [Next]_vars
               PROVE  BindingInv'
    OBVIOUS
  <2>1. ASSUME UNCHANGED <<table, epoch, session, exchange>>
        PROVE  BindingInv'
    BY <2>1 DEF BindingInv
  <2>2. CASE Restart
    <3>1. epoch \in Nat /\ epoch' = epoch + 1 /\ UNCHANGED <<session, exchange>>
      BY <2>2, ProtocolAssumption DEF Restart, TypeOK
    <3>2. ASSUME NEW c \in Clients, session[c] # NoSession
          PROVE  SessionBound(session'[c], table', epoch')
      <4>1. session[c].issuer \in Nat
        BY <3>2, SessionHasType DEF Sessions
      <4>. QED
        BY <3>1, <3>2, <4>1 DEF BindingInv, SessionBound
    <3>3. ASSUME exchange.phase = "sent"
          PROVE  QueryBound(exchange', table', epoch')
      <4>1. exchange.issuer \in Nat
        BY <3>3 DEF TypeOK, Exchanges, NoExchange
      <4>. QED
        BY <3>1, <3>3, <4>1 DEF BindingInv, QueryBound
    <3>. QED
      BY <3>1, <3>2, <3>3 DEF BindingInv
  <2>3. ASSUME NEW c \in Clients, NEW s, SessionBound(s, table', epoch'), session' = [session EXCEPT ![c] = s],
               UNCHANGED <<table, epoch, exchange>>
        PROVE  BindingInv'
    <3>1. \A b \in Clients : b # c => session'[b] = session[b]
      BY <2>3 DEF TypeOK
    <3>2. session'[c] = s
      BY <2>3 DEF TypeOK
    <3>. QED
      BY <2>3, <3>1, <3>2 DEF BindingInv
  <2>4. ASSUME NEW c \in Clients, NEW sk \in SecretKeys, Connect(c, sk)
        PROVE  BindingInv'
    <3>. DEFINE s == [crs |-> serving, sk |-> sk, params |-> Published[serving] > 0,
                      keys |-> GenerateKeys(serving, sk), handle |-> NoHandle, issuer |-> 0]
    <3>1. session' = [session EXCEPT ![c] = s] /\ UNCHANGED <<table, epoch, exchange>>
      BY <2>4 DEF Connect
    <3>2. epoch' \in Nat
      BY <3>1 DEF TypeOK
    <3>3. SessionBound(s, table', epoch')
      BY <3>1, <3>2, <2>4 DEF SessionBound, Connect
    <3>. QED
      BY <2>3, <3>1, <3>3
  <2>5. ASSUME NEW c \in Clients, session[c] # NoSession, NEW keys \in KeySet, Register(keys),
               OnTheWire(keys) = OnTheWire(session[c].keys),
               session' = [session EXCEPT ![c].handle = nextHandle, ![c].issuer = epoch],
               UNCHANGED <<epoch, exchange>>
        PROVE  BindingInv'
    <3>1. \A h, g, sk : Resolves(table, h, g, sk) => Resolves(table', h, g, sk)
      BY <2>5, RegisterBinds
    <3>2. session[c] \in Sessions /\ SessionBound(session[c], table, epoch)
      BY <2>5, SessionHasType DEF BindingInv
    <3>3. /\ session'[c].handle = nextHandle /\ session'[c].issuer = epoch
          /\ session'[c].keys = session[c].keys
          /\ session'[c].crs = session[c].crs /\ session'[c].sk = session[c].sk
      BY <2>5, <3>2 DEF Sessions, TypeOK
    <3>4. OnTheWire(keys) = OnTheWire(GenerateKeys(session[c].crs, session[c].sk))
      BY <2>5, <3>2 DEF SessionBound
    <3>5. Resolves(table', nextHandle, session[c].crs, session[c].sk)
      BY <2>5, <3>4, RegisterBinds
    <3>6. epoch' = epoch /\ epoch \in Nat
      BY <2>5 DEF TypeOK
    <3>7. SessionBound(session'[c], table', epoch')
      BY <3>2, <3>3, <3>5, <3>6 DEF SessionBound, Resolves
    <3>8. \A b \in Clients : b # c /\ session[b] # NoSession => SessionBound(session'[b], table', epoch')
      <4>1. \A b \in Clients : b # c => session'[b] = session[b]
        BY <2>5 DEF TypeOK
      <4>. QED
        BY <3>1, <3>6, <4>1 DEF BindingInv, SessionBound
    <3>9. exchange.phase = "sent" => QueryBound(exchange', table', epoch')
      BY <2>5, <3>1 DEF BindingInv, QueryBound
    <3>. QED
      BY <2>5, <3>7, <3>8, <3>9 DEF BindingInv, TypeOK
  <2>6. ASSUME NEW c \in Clients, RegisterWith(c)
        PROVE  BindingInv'
    <3>1. session[c].keys \in KeySet
      BY <2>6, SessionHasType DEF RegisterWith, Sessions
    <3>. QED
      BY <2>5, <2>6, <3>1, Zenon DEF RegisterWith
  <2>7. ASSUME NEW c \in Clients, RegisterWithServerDerivation(c)
        PROVE  BindingInv'
    <3>1. session[c].keys \in KeySet /\ session[c].crs \in Seeds /\ session[c].sk \in SecretKeys
      BY <2>7, SessionHasType DEF RegisterWithServerDerivation, Sessions
    <3>. DEFINE derived == EnsureServerDerivatives(StripDerived(session[c].keys))
    <3>2. derived \in KeySet /\ OnTheWire(derived) = OnTheWire(session[c].keys)
      BY <3>1, KeysType
    <3>. QED
      BY <2>5, <2>7, <3>2, Zenon DEF RegisterWithServerDerivation
  <2>8. ASSUME NEW c \in Clients, Rehydrate(c)
        PROVE  BindingInv'
    <3>1. session[c] \in Sessions /\ SessionBound(session[c], table, epoch)
      BY <2>8, SessionHasType DEF Rehydrate, BindingInv
    <3>. DEFINE s == [session[c] EXCEPT !.params = FALSE, !.keys = OnTheWire(session[c].keys),
                                        !.handle = NoHandle, !.issuer = 0]
    <3>2. session' = [session EXCEPT ![c] = s] /\ UNCHANGED <<table, epoch, exchange>>
      BY <2>8 DEF Rehydrate
    <3>3. /\ s.keys = OnTheWire(session[c].keys) /\ s.handle = NoHandle /\ s.issuer = 0
          /\ s.crs = session[c].crs /\ s.sk = session[c].sk
      BY <3>1 DEF Sessions
    <3>4. OnTheWire(OnTheWire(session[c].keys)) = OnTheWire(session[c].keys)
      BY <3>1, KeysType DEF Sessions, OnTheWire
    <3>5. epoch' \in Nat
      BY <3>2 DEF TypeOK
    <3>6. SessionBound(s, table', epoch')
      BY <3>1, <3>2, <3>3, <3>4, <3>5 DEF SessionBound
    <3>. HIDE DEF s
    <3>. QED
      BY <2>3, <3>2, <3>6
  <2>9. ASSUME NEW x, exchange' = x, QueryBound(x, table, epoch), UNCHANGED <<table, epoch, session>>
        PROVE  BindingInv'
    BY <2>9 DEF BindingInv
  <2>10. ASSUME NEW c \in Clients, NEW seeded \in BOOLEAN, Ask(c, seeded)
         PROVE  BindingInv'
    <3>. DEFINE s == session[c]
                x == Sent(Query(s.sk, s.keys, s.handle, seeded), s.crs, s.issuer)
    <3>1. SessionBound(s, table, epoch)
      BY <2>10 DEF Ask, BindingInv
    <3>2. /\ x.query.keys = IF s.handle = NoHandle THEN OnTheWire(s.keys) ELSE NoKeys
          /\ x.query.handle = s.handle /\ x.query.sk = s.sk
          /\ x.crs = s.crs /\ x.issuer = s.issuer
      BY DEF Sent, Query
    <3>3. exchange' = x /\ UNCHANGED <<table, epoch, session>>
      BY <2>10 DEF Ask
    <3>. HIDE DEF x
    <3>4. QueryBound(x, table, epoch)
      BY <3>1, <3>2 DEF SessionBound, QueryBound
    <3>. QED
      BY <2>9, <3>3, <3>4
  <2>11. ASSUME NEW sk \in SecretKeys, NEW seeded \in BOOLEAN, AskSessionless(sk, seeded)
         PROVE  BindingInv'
    <3>. DEFINE x == Sent(Query(sk, GenerateKeys(serving, sk), NoHandle, seeded), serving, 0)
    <3>1. /\ x.query.keys = OnTheWire(GenerateKeys(serving, sk))
          /\ x.query.handle = NoHandle /\ x.query.sk = sk
          /\ x.crs = serving /\ x.issuer = 0
      BY DEF Sent, Query
    <3>2. exchange' = x /\ UNCHANGED <<table, epoch, session>> /\ epoch \in Nat
      BY <2>11 DEF AskSessionless, TypeOK
    <3>. HIDE DEF x
    <3>3. QueryBound(x, table, epoch)
      BY <3>1, <3>2 DEF QueryBound
    <3>. QED
      BY <2>9, <3>2, <3>3
  <2>12. CASE PreferTree
    <3>1. /\ exchange.query \in Queries
          /\ exchange \in [phase : {"sent"}, query : Queries, crs : Seeds, issuer : 0 .. MaxRestarts]
      BY <2>12 DEF PreferTree, TypeOK, Exchanges, NoExchange
    <3>2. /\ exchange'.query.keys = exchange.query.keys
          /\ exchange'.query.handle = exchange.query.handle
          /\ exchange'.query.sk = exchange.query.sk
          /\ exchange'.crs = exchange.crs /\ exchange'.issuer = exchange.issuer
      BY <2>12, <3>1 DEF PreferTree, Queries
    <3>3. QueryBound(exchange, table, epoch)
      BY <2>12 DEF PreferTree, BindingInv
    <3>4. QueryBound(exchange', table, epoch)
      BY <3>2, <3>3 DEF QueryBound
    <3>. QED
      BY <2>9, <2>12, <3>4 DEF PreferTree
  <2>13. ASSUME NEW route \in Routes, Answer(route)
         PROVE  BindingInv'
    BY <2>13 DEF Answer, BindingInv
  <2>14. ASSUME NEW g \in Seeds, ChangeSetup(g) \/ RestoreCache(g)
         PROVE  BindingInv'
    BY <2>1, <2>14 DEF ChangeSetup, RestoreCache
  <2>15. CASE BuildCache
    BY <2>1, <2>15 DEF BuildCache
  <2>16. CASE UNCHANGED vars
    BY <2>1, <2>16 DEF vars
  <2>. QED
    BY <2>2, <2>4, <2>6, <2>7, <2>8, <2>10, <2>11, <2>12, <2>13, <2>14, <2>15, <2>16 DEF Next
<1>. QED
  BY <1>1, <1>2, TypeCorrect, PTL DEF Spec

\* A handle of the store in use resolves to the keys of the session that was given
\* it, for the session and for its queries on their way.
THEOREM HandlesAlwaysResolve == Spec => []HandlesResolve
<1>1. BindingInv => HandlesResolve
  BY DEF BindingInv, SessionBound, QueryBound, HandlesResolve
<1>. QED
  BY <1>1, BindingInvariant, PTL
-----------------------------------------------------------------------------
(* What clients read                                                        *)

\* The keys an InspiRING route packs with, when the query's own can be found.
PackingKeys(q) == IF q.keys # NoKeys THEN q.keys ELSE table[q.handle]

\* A query on its way with a handle of this store or none finds its own keys.
LEMMA OwnKeys ==
  ASSUME TypeOK, BindingInv, exchange.phase = "sent",
         HasKeys(exchange.query), HandleIsLive(exchange)
  PROVE  LET x == exchange
             keys == PackingKeys(x.query)
         IN  /\ x.crs \in Seeds /\ x.query.sk \in SecretKeys
             /\ x.query.keys # NoKeys <=> x.query.handle = NoHandle
             /\ x.query.handle # NoHandle => x.query.handle \in DOMAIN table
             /\ keys \in KeySet
             /\ keys.sk = x.query.sk /\ keys.seed = x.crs
             /\ keys.width = Columns[x.crs] /\ keys.digits = GadgetLen[x.crs]
<1>. DEFINE x == exchange
            made == GenerateKeys(x.crs, x.query.sk)
            keys == PackingKeys(x.query)
<1>1. x.crs \in Seeds /\ x.query \in Queries
  BY DEF TypeOK, Exchanges, NoExchange
<1>2. x.query.sk \in SecretKeys
  BY <1>1 DEF Queries
<1>3. QueryBound(x, table, epoch)
  BY DEF BindingInv
<1>4. /\ x.query.keys # NoKeys <=> x.query.handle = NoHandle
      /\ x.query.handle # NoHandle => x.query.handle \in DOMAIN table
      /\ keys \in KeySet
      /\ OnTheWire(keys) = OnTheWire(made)
  <2>1. CASE x.query.handle = NoHandle
    <3>1. x.query.keys = OnTheWire(made) /\ x.query.keys # NoKeys
      BY <1>3, <2>1 DEF QueryBound, HasKeys
    <3>2. made \in KeySet
      BY <1>1, <1>2, <3>1, KeysType DEF OnTheWire
    <3>. QED
      BY <1>1, <1>2, <2>1, <3>1, <3>2, KeysType DEF PackingKeys
  <2>2. CASE x.query.handle # NoHandle
    <3>1. x.query.keys = NoKeys /\ Resolves(table, x.query.handle, x.crs, x.query.sk)
      BY <1>3, <2>2 DEF QueryBound, HandleIsLive
    <3>. QED
      BY <2>2, <3>1 DEF PackingKeys, Resolves, TypeOK
  <2>. QED
    BY <2>1, <2>2
<1>5. \A k \in KeySet : /\ OnTheWire(k) # NoKeys
                        /\ OnTheWire(k).sk = k.sk /\ OnTheWire(k).seed = k.seed
                        /\ OnTheWire(k).width = k.width /\ OnTheWire(k).digits = k.digits
  <2>1. \A k \in KeySet : k # NoKeys /\ OnTheWire(k) \in KeySet /\ NoKeys \notin KeySet
    BY <1>1, <1>2, KeysType
  <2>2. \A k \in KeySet : /\ StripDerived(k).sk = k.sk /\ StripDerived(k).seed = k.seed
                          /\ StripDerived(k).width = k.width /\ StripDerived(k).digits = k.digits
    BY DEF StripDerived, KeySet
  <2>. QED
    BY <2>1, <2>2 DEF OnTheWire
<1>6. made # NoKeys
  BY <1>4, <1>5 DEF OnTheWire
<1>7. made \in KeySet
  BY <1>1, <1>2, <1>6, KeysType
<1>8. /\ made.sk = x.query.sk /\ made.seed = x.crs
      /\ made.width = Columns[x.crs] /\ made.digits = GadgetLen[x.crs]
  BY <1>6 DEF GenerateKeys
<1>. QED
  BY <1>1, <1>2, <1>4, <1>5, <1>7, <1>8

\* Packing that is aligned, and as wide as the database, leaves the record where
\* extract_inspiring reads it.
LEMMA AlignedReadsRight ==
  ASSUME NEW g \in Seeds, NEW pack \in Seeds, NEW q, NEW keys,
         Columns[g] = Columns[pack], Aligned(q, keys, pack),
         PackingWidthMatches(keys, PackParams(pack))
  PROVE  LET r == PackInspiring(q, keys, pack, g)
         IN  r.ok /\ ExtractInspiring(r, Columns[g]) = Record[g]
<1>. DEFINE r == PackInspiring(q, keys, pack, g)
            coeffs == InspiringPacked(q, keys, pack, g)
<1>1. r = Response(coeffs, <<>>, "inspiring")
  BY DEF PackInspiring
<1>2. r.ok /\ r.coeffs = coeffs
  BY <1>1 DEF Response
<1>3. Columns[g] \in Nat /\ Columns[g] <= RingDim /\ RingDim \in Nat
  BY SetupAssumption, GeometryAssumption
<1>4. \A k \in Coeffs : k < Columns[g] => coeffs[k] = Record[g][k + 1]
  BY <1>3 DEF InspiringPacked
<1>5. \A i \in 1 .. Columns[g] : coeffs[i - 1] = Record[g][i]
  <2>1. \A i \in 1 .. Columns[g] : i - 1 \in Coeffs /\ i - 1 < Columns[g] /\ (i - 1) + 1 = i
    BY <1>3 DEF Coeffs
  <2>. QED
    BY <1>4, <2>1
<1>6. ExtractInspiring(r, Columns[g]) = [i \in 1 .. Columns[g] |-> Record[g][i]]
  BY <1>2, <1>5 DEF ExtractInspiring
<1>7. Record[g] = [i \in 1 .. Columns[g] |-> Record[g][i]]
  BY SetupAssumption
<1>. QED
  BY <1>2, <1>6, <1>7

\* Every InspiRING answer comes from packing with the keys the query names.
LEMMA InspiringAnswers ==
  ASSUME NEW q, NEW route \in Routes,
         Answered(q, route).ok, Answered(q, route).tag = "inspiring"
  PROVE  /\ HasKeys(q)
         /\ Answered(q, route) = PackInspiring(q, PackingKeys(q), PackedWith(route), serving)
         /\ PackingWidthMatches(PackingKeys(q), PackParams(PackedWith(route)))
<1>1. \A why : ~Failure(why).ok
  BY DEF Failure
<1>2. \A coeffs, columns : Response(coeffs, columns, "none").tag # "inspiring"
  BY DEF Response
<1>3. \A pack : RespondInspiring(q, pack, serving).ok =>
        q.keys # NoKeys
        /\ RespondInspiring(q, pack, serving) = PackInspiring(q, PackingKeys(q), pack, serving)
  BY <1>1 DEF RespondInspiring, PackingKeys
<1>4. CASE route \in Variants
  BY <1>1, <1>2, <1>3, <1>4
  DEF Answered, RespondWithVariant, Respond, RespondOnePacking, Variants, PackedWith, HasKeys,
      PackInspiring
<1>5. CASE route = "cached"
  BY <1>1, <1>3, <1>5 DEF Answered, Variants, PackedWith, HasKeys, PackInspiring
<1>6. CASE route = "session"
  BY <1>1, <1>6
  DEF Answered, RespondWithSession, Variants, PackedWith, HasKeys, PackInspiring, PackingKeys
<1>. QED
  BY <1>4, <1>5, <1>6 DEF Routes

\* A query made under the setup served, with the cache of that setup, is answered
\* and read right.
THEOREM CurrentClientsReadRight == Spec => CurrentReadsRight
<1>1. ASSUME TypeOK, BindingInv,
             Answers("session"), HasKeys(exchange.query), HandleIsLive(exchange),
             exchange.crs = serving, cache = serving
      PROVE  /\ exchange'.response.ok
             /\ IsRecord(ExtractInspiring(exchange'.response, Columns[serving]))
  <2>. DEFINE q == exchange.query
              keys == PackingKeys(q)
  <2>1. /\ exchange.phase = "sent" /\ serving \in Seeds
        /\ exchange'.response = RespondWithSession(q, cache, table, serving)
    BY <1>1 DEF Answers, Answer, Answered, TypeOK
  <2>2. /\ q.keys # NoKeys <=> q.handle = NoHandle
        /\ q.handle # NoHandle => q.handle \in DOMAIN table
        /\ keys.sk = q.sk /\ keys.seed = serving
        /\ keys.width = Columns[serving] /\ keys.digits = GadgetLen[serving]
    BY <1>1, <2>1, OwnKeys
  <2>3. exchange'.response = PackInspiring(q, keys, serving, serving)
    BY <1>1, <2>1, <2>2 DEF RespondWithSession, PackingKeys
  <2>4. Aligned(q, keys, serving) /\ PackingWidthMatches(keys, PackParams(serving))
    BY <2>2 DEF Aligned, PackingWidthMatches, PackParams
  <2>. QED
    BY <2>1, <2>3, <2>4, AlignedReadsRight DEF IsRecord
<1>2. TypeOK /\ BindingInv /\ [Next]_vars =>
        [ /\ Answers("session")
          /\ HasKeys(exchange.query) /\ HandleIsLive(exchange)
          /\ exchange.crs = serving /\ cache = serving
          => /\ exchange'.response.ok
             /\ IsRecord(ExtractInspiring(exchange'.response, Columns[serving])) ]_vars
  BY <1>1
<1>. QED
  BY <1>2, TypeCorrect, BindingInvariant, PTL DEF Spec, CurrentReadsRight

\* An InspiRING answer read wrong has one of the three causes.
THEOREM WrongAnswersHaveACause == Spec => WrongAnswersExplained
<1>1. ASSUME TypeOK, BindingInv, NEW route \in Routes, Answers(route),
             exchange'.response.ok, exchange'.response.tag = "inspiring",
             HandleIsLive(exchange),
             exchange.crs = PackedWith(route)
               \/ PackParams(exchange.crs) # PackParams(PackedWith(route)),
             Columns[PackedWith(route)] = Columns[serving]
      PROVE  IsRecord(ExtractInspiring(exchange'.response, Columns[exchange.crs]))
  <2>. DEFINE q == exchange.query
              keys == PackingKeys(q)
              pack == PackedWith(route)
  <2>1. /\ exchange.phase = "sent" /\ serving \in Seeds /\ pack \in Seeds
        /\ exchange'.response = Answered(q, route)
    BY <1>1 DEF Answers, Answer, TypeOK, PackedWith
  <2>2. /\ HasKeys(q)
        /\ exchange'.response = PackInspiring(q, keys, pack, serving)
        /\ PackingWidthMatches(keys, PackParams(pack))
    BY <1>1, <2>1, InspiringAnswers
  <2>3. /\ keys.sk = q.sk /\ keys.seed = exchange.crs
        /\ keys.width = Columns[exchange.crs] /\ keys.digits = GadgetLen[exchange.crs]
    BY <1>1, <2>1, <2>2, OwnKeys
  <2>4. exchange.crs = pack
    BY <1>1, <2>2, <2>3 DEF PackingWidthMatches, PackParams
  <2>5. Aligned(q, keys, pack)
    BY <2>3, <2>4 DEF Aligned
  <2>. QED
    BY <1>1, <2>1, <2>2, <2>4, <2>5, AlignedReadsRight DEF IsRecord
<1>2. TypeOK /\ BindingInv /\ [Next]_vars =>
        [\A route \in Routes :
           LET r == exchange'.response
               pack == PackedWith(route)
           IN  /\ Answers(route)
               /\ r.ok /\ r.tag = "inspiring"
               /\ ~IsRecord(ExtractInspiring(r, Columns[exchange.crs]))
               => \/ ~HandleIsLive(exchange)
                  \/ exchange.crs # pack /\ PackParams(exchange.crs) = PackParams(pack)
                  \/ Columns[pack] # Columns[serving]]_vars
  BY <1>1
<1>. QED
  BY <1>2, TypeCorrect, BindingInvariant, PTL DEF Spec, WrongAnswersExplained
-----------------------------------------------------------------------------
(* What extract_with_variant reads                                          *)

\* Without packing, each column comes as a ciphertext of its own.
LEMMA ColumnsReadRight ==
  ASSUME NEW g \in Seeds, NEW q
  PROVE  Extract(Respond(q, g), Columns[g]) = Record[g]
<1>1. Record[g] \in Seq(Plain) /\ Len(Record[g]) = Columns[g] /\ Columns[g] \in Nat \ {0}
  BY SetupAssumption, RecordType DEF Plain
<1>2. Respond(q, g).columns = Record[g] /\ Record[g] # <<>>
  BY <1>1 DEF Respond, Response
<1>3. Extract(Respond(q, g), Columns[g]) = [i \in 1 .. Columns[g] |-> Record[g][i]]
  BY <1>1, <1>2 DEF Extract
<1>. QED
  BY <1>1, <1>3

\* What the tree multiplies by d, the inverse of d undoes.
LEMMA InverseUndoes ==
  ASSUME NEW v \in Plain, NEW x \in Plain, IsInverse(x)
  PROVE  Scaled(Scaled(v, RingDim), x) = v
<1> DEFINE d == RingDim  p == PlainMod
<1>1. d \in Nat \ {0} /\ p \in Nat \ {0} /\ v \in Nat /\ x \in Nat /\ v < p
  BY SetupAssumption DEF Plain
<1>2. (x * d) % p = 1 % p
  BY DEF IsInverse
<1> HIDE DEF d, p
<1>3. v * d \in Nat /\ x * d \in Nat /\ (v * d) * x = (x * d) * v
  BY <1>1
<1>4. (((v * d) % p) * x) % p = ((v * d) * x) % p
  BY ONLY <1>1, <1>3, ReducedFactors
<1>5. (((x * d) % p) * v) % p = ((x * d) * v) % p
  BY ONLY <1>1, <1>3, ReducedFactors
<1>6. ((1 % p) * v) % p = (1 * v) % p
  BY ONLY <1>1, ReducedFactors
<1>7. (1 * v) % p = v
  BY ONLY <1>1
<1>8. (((v * d) % p) * x) % p = v
  BY ONLY <1>2, <1>3, <1>4, <1>5, <1>6, <1>7
<1>9. (v * d) % p \in 0 .. p - 1
  BY ONLY <1>1, <1>3
<1>10. (v * d) % p # Junk /\ v # Junk
  BY <1>1, <1>9 DEF Junk, p
<1>. QED
  BY <1>8, <1>10 DEF Scaled, d, p

\* Tree packing of two columns or more, with the key of the setup.
LEMMA TreeReadsRight ==
  ASSUME NEW g \in Seeds, NEW q, Columns[g] # 1, q.sk = SetupKey[g],
         ExtractPacked(RespondOnePacking(q, g), Columns[g]) # NotInvertible
  PROVE  ExtractPacked(RespondOnePacking(q, g), Columns[g]) = Record[g]
<1> DEFINE r == RespondOnePacking(q, g)
<1>1. \E x \in Plain : IsInverse(x)
  BY DEF ExtractPacked
<1>2. PICK dInv : dInv = CHOOSE x \in Plain : IsInverse(x)
  OBVIOUS
<1>3. dInv \in Plain /\ IsInverse(dInv)
  BY <1>1, <1>2
<1>4. ExtractPacked(r, Columns[g]) = [i \in 1 .. Columns[g] |-> Scaled(r.coeffs[i - 1], dInv)]
  BY <1>1, <1>2 DEF ExtractPacked
<1>5. Columns[g] \in Nat /\ Columns[g] <= RingDim /\ RingDim \in Nat
  BY SetupAssumption, GeometryAssumption
<1>6. r.coeffs = [k \in Coeffs |-> IF k < Columns[g] THEN Scaled(Record[g][k + 1], RingDim) ELSE 0]
  BY DEF RespondOnePacking, Response, TreePacked
<1>7. ASSUME NEW i \in 1 .. Columns[g]
      PROVE  Scaled(r.coeffs[i - 1], dInv) = Record[g][i]
  <2>1. i - 1 \in Coeffs /\ i - 1 < Columns[g] /\ (i - 1) + 1 = i
    BY <1>5 DEF Coeffs
  <2>2. Record[g][i] \in Plain
    BY <2>1, RecordType
  <2>3. r.coeffs[i - 1] = Scaled(Record[g][i], RingDim)
    BY <1>6, <2>1
  <2>. QED
    BY <1>3, <2>2, <2>3, InverseUndoes
<1>8. ExtractPacked(r, Columns[g]) = [i \in 1 .. Columns[g] |-> Record[g][i]]
  BY <1>4, <1>7
<1>9. Record[g] = [i \in 1 .. Columns[g] |-> Record[g][i]]
  BY SetupAssumption
<1>. QED
  BY <1>8, <1>9

\* What the server answers under a variant, the client reads under it.
THEOREM VariantsAlwaysReadBack == Spec => VariantsReadBack
<1>1. ASSUME TypeOK, BindingInv, NEW route \in Variants, Answers(route), exchange'.response.ok,
             IF route = "NoPacking" THEN Columns[exchange.crs] = Columns[serving]
                                    ELSE exchange.crs = serving,
             KeyFits(exchange.query, exchange'.response, route),
             ~HasNoReader(exchange'.response, route)
      PROVE  LET values == ExtractWithVariant(exchange'.response, Columns[exchange.crs], route)
             IN  IsRecord(values) \/ values = NotInvertible
  <2>. DEFINE q == exchange.query
              r == exchange'.response
              n == Columns[exchange.crs]
  <2>1. /\ exchange.phase = "sent" /\ serving \in Seeds
        /\ r = RespondWithVariant(q, route, serving) /\ n = Columns[serving]
    BY <1>1 DEF Answers, Answer, Answered, TypeOK, Variants
  <2>2. \A why : ~Failure(why).ok
    BY DEF Failure
  <2>3. ASSUME route # "NoPacking"
        PROVE  r = IF q.mode = "tree" THEN RespondOnePacking(q, serving)
                   ELSE RespondInspiring(q, serving, serving)
    <3>1. \/ \E why : r = Failure(why)
          \/ r = IF q.mode = "tree" THEN RespondOnePacking(q, serving)
                 ELSE RespondInspiring(q, serving, serving)
      BY <2>1, <2>3, Zenon DEF RespondWithVariant, Variants
    <3>. QED
      BY <1>1, <2>2, <3>1
  <2>4. CASE route = "NoPacking"
    <3>1. r = Respond(q, serving)
      BY <2>1, <2>4 DEF RespondWithVariant
    <3>2. ExtractWithVariant(r, n, route) = Record[serving]
      BY <2>1, <2>4, <3>1, ColumnsReadRight DEF ExtractWithVariant
    <3>. QED
      BY <3>2 DEF IsRecord
  <2>5. CASE route # "NoPacking" /\ q.mode = "tree"
    <3>1. r = RespondOnePacking(q, serving)
      BY <2>3, <2>5
    <3>2. r.tag = "none"
      BY <3>1 DEF RespondOnePacking, Response
    <3>3. Columns[serving] # 1 /\ q.sk = SetupKey[serving]
      BY <1>1, <2>5, <3>2 DEF HasNoReader, KeyFits
    <3>4. ExtractWithVariant(r, n, route) = ExtractPacked(r, n)
      BY <2>5, <3>2 DEF ExtractWithVariant, ExtractTwoPacking, Variants
    <3>. QED
      BY <2>1, <3>1, <3>3, <3>4, TreeReadsRight DEF IsRecord
  <2>6. CASE route # "NoPacking" /\ q.mode # "tree"
    <3>1. r = RespondInspiring(q, serving, serving)
      BY <2>3, <2>6
    <3>2. /\ q.keys # NoKeys
          /\ r = PackInspiring(q, q.keys, serving, serving)
          /\ PackingWidthMatches(q.keys, PackParams(serving))
      <4>1. \/ \E why : r = Failure(why)
            \/ /\ q.keys # NoKeys
               /\ r = PackInspiring(q, q.keys, serving, serving)
               /\ PackingWidthMatches(q.keys, PackParams(serving))
        BY <3>1, Zenon DEF RespondInspiring, PackInspiring
      <4>. QED
        BY <1>1, <2>2, <4>1
    <3>3. r.tag = "inspiring"
      BY <3>2 DEF PackInspiring, Response
    <3>4. exchange.crs = serving /\ route = "TwoPacking"
      BY <1>1, <2>6, <3>3 DEF HasNoReader, Variants
    <3>5. q.handle = NoHandle
      BY <1>1, <2>1, <3>2 DEF BindingInv, QueryBound
    <3>6. PackingKeys(q) = q.keys /\ HasKeys(q) /\ HandleIsLive(exchange)
      BY <3>2, <3>5 DEF PackingKeys, HasKeys, HandleIsLive
    <3>7. q.keys.sk = q.sk /\ q.keys.seed = serving
      BY <1>1, <2>1, <3>4, <3>6, OwnKeys
    <3>8. Aligned(q, q.keys, serving)
      BY <3>7 DEF Aligned
    <3>9. ExtractInspiring(r, Columns[serving]) = Record[serving]
      BY <2>1, <3>2, <3>8, AlignedReadsRight
    <3>10. ExtractWithVariant(r, n, route) = ExtractInspiring(r, n)
      BY <3>3, <3>4 DEF ExtractWithVariant, ExtractTwoPacking
    <3>. QED
      BY <2>1, <3>9, <3>10 DEF IsRecord
  <2>. QED
    BY <2>4, <2>5, <2>6
<1>2. TypeOK /\ BindingInv /\ [Next]_vars =>
        [\A route \in Variants :
           LET r == exchange'.response
               values == ExtractWithVariant(r, Columns[exchange.crs], route)
           IN  /\ Answers(route) /\ r.ok
               /\ IF route = "NoPacking" THEN Columns[exchange.crs] = Columns[serving]
                                         ELSE exchange.crs = serving
               /\ KeyFits(exchange.query, r, route)
               /\ ~HasNoReader(r, route)
               => IsRecord(values) \/ values = NotInvertible]_vars
  BY <1>1
<1>. QED
  BY <1>2, TypeCorrect, BindingInvariant, PTL DEF Spec, VariantsReadBack
=============================================================================
