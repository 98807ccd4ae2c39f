---------------------------- MODULE PirProtocol ----------------------------
(***************************************************************************)
(* Clients that keep a ClientSession against a server that keeps a CRS and *)
(* its database, a ServerInspiringCache and a ServerSessionStore, while    *)
(* the server changes setups, rebuilds or restores its cache late, and     *)
(* restarts. The store is the atomic registry that SessionStore is shown   *)
(* to implement; a query may be answered late, and answered again.         *)
(***************************************************************************)
EXTENDS Responses

CONSTANTS
  Clients,      \* client processes, each with at most one session
  MaxRestarts   \* bound on the number of times the store is created again

ASSUME ProtocolAssumption == MaxRestarts \in Nat

VARIABLES
  serving,   \* the setup whose CRS and database the server serves
  cache,     \* the setup whose parts are in the ServerInspiringCache, or NoSetup
  table,     \* by_handle of the session store
  nextHandle,      \* next_handle of the session store
  epoch,     \* history: which store this is, counting from 0
  session,   \* session[c]: the ClientSession of c, or NoSession
  exchange   \* a query on its way, with its answer once there is one

vars == <<serving, cache, table, nextHandle, epoch, session, exchange>>

NoSession == [crs |-> NoSetup]
NoExchange == [phase |-> "none"]

Init ==
  /\ serving \in Seeds
  /\ cache = NoSetup
  /\ table = EmptyTable /\ nextHandle = 0 /\ epoch = 0
  /\ session = [c \in Clients |-> NoSession]
  /\ exchange = NoExchange
-----------------------------------------------------------------------------
(* The server                                                              *)

\* The server takes up the CRS and database of another setup. The cache is a value
\* of its own and stays what it was.
ChangeSetup(g) ==
  /\ g # serving
  /\ serving' = g
  /\ UNCHANGED <<cache, table, nextHandle, epoch, session, exchange>>

\* ServerInspiringCache::new, from the CRS and database served.
BuildCache ==
  /\ cache' = serving
  /\ UNCHANGED <<serving, table, nextHandle, epoch, session, exchange>>

\* ServerInspiringCache::from_parts, which checks nothing, with the parts
\* serialised under some setup.
RestoreCache(g) ==
  /\ cache' = g
  /\ UNCHANGED <<serving, table, nextHandle, epoch, session, exchange>>

\* The process starts again: an empty store, no cache.
Restart ==
  /\ epoch < MaxRestarts
  /\ epoch' = epoch + 1
  /\ table' = EmptyTable /\ nextHandle' = 0
  /\ cache' = NoSetup
  /\ UNCHANGED <<serving, session, exchange>>

RegisterInPlace(keys) ==   \* mutated form: the counter stays
  /\ nextHandle < HandleSpace
  /\ table' = Inserted(table, nextHandle, keys)
  /\ UNCHANGED nextHandle

RegisterPastLast(keys) ==   \* mutated form: one handle too many
  /\ nextHandle <= HandleSpace
  /\ table' = Inserted(table, nextHandle, keys)
  /\ nextHandle' = nextHandle + 1

\* register, while there is a handle left (SessionStore has what happens after).
Register(keys) ==
  /\ nextHandle < HandleSpace
  /\ table' = Inserted(table, nextHandle, keys)
  /\ nextHandle' = nextHandle + 1
-----------------------------------------------------------------------------
(* The clients                                                             *)

ConnectKeepingHandle(c, sk) ==   \* mutated form: a handle held before is kept
  /\ LET old == session[c]
         fresh == old = NoSession
     IN  session' = [session EXCEPT ![c] =
           [crs |-> serving, sk |-> sk, params |-> Published[serving] > 0,
            keys |-> GenerateKeys(serving, sk),
            handle |-> IF fresh THEN NoHandle ELSE old.handle,
            issuer |-> IF fresh THEN 0 ELSE old.issuer]]
  /\ UNCHANGED <<serving, cache, table, nextHandle, epoch, exchange>>

\* ClientSession::new against the CRS served, with the setup's secret key or one
\* of the client's own. params: whether pack_params is there.
Connect(c, sk) ==
  /\ session' = [session EXCEPT ![c] =
       [crs |-> serving, sk |-> sk, params |-> Published[serving] > 0,
        keys |-> GenerateKeys(serving, sk), handle |-> NoHandle, issuer |-> 0]]
  /\ UNCHANGED <<serving, cache, table, nextHandle, epoch, exchange>>

\* register_with hands over the keys as they are.
RegisterWith(c) ==
  /\ session[c] # NoSession /\ session[c].keys # NoKeys
  /\ Register(session[c].keys)
  /\ session' = [session EXCEPT ![c].handle = nextHandle, ![c].issuer = epoch]
  /\ UNCHANGED <<serving, cache, epoch, exchange>>

\* register_with_server_derivation sends them as serialized, and the server derives
\* the rotations again, under the geometry of the session's pack_params. Without
\* pack_params it does nothing.
RegisterWithServerDerivation(c) ==
  /\ session[c] # NoSession /\ session[c].keys # NoKeys /\ session[c].params
  /\ PackingWidthMatches(session[c].keys, PackParams(session[c].crs))
  /\ Register(EnsureServerDerivatives(StripDerived(session[c].keys)))
  /\ session' = [session EXCEPT ![c].handle = nextHandle, ![c].issuer = epoch]
  /\ UNCHANGED <<serving, cache, epoch, exchange>>

\* The client stops and comes back from the residue it kept: to_residue, the
\* serialized form, from_residue.
Rehydrate(c) ==
  /\ session[c] # NoSession
  /\ LET s == session[c]
     IN  session' = [session EXCEPT ![c] = [s EXCEPT !.params = FALSE, !.keys = OnTheWire(s.keys),
                                                     !.handle = NoHandle, !.issuer = 0]]
  /\ UNCHANGED <<serving, cache, table, nextHandle, epoch, exchange>>

\* A query, what the client remembers of it (its CRS, and for the properties the
\* store its handle is of), and no answer yet.
Sent(query, crs, issuer) ==
  [phase |-> "sent", query |-> query, crs |-> crs, issuer |-> issuer]

\* ClientSession::query and query_seeded. The query before may still be unanswered.
Ask(c, seeded) ==
  /\ session[c] # NoSession
  /\ LET s == session[c]
     IN  exchange' = Sent(Query(s.sk, s.keys, s.handle, seeded), s.crs, s.issuer)
  /\ UNCHANGED <<serving, cache, table, nextHandle, epoch, session>>

\* query and query_seeded without a session: keys generated for this query alone.
AskSessionless(sk, seeded) ==
  /\ exchange' = Sent(Query(sk, GenerateKeys(serving, sk), NoHandle, seeded), serving, 0)
  /\ UNCHANGED <<serving, cache, table, nextHandle, epoch, session>>
\* packing_mode is a public field of the query, which a client that wants tree
\* packing sets before sending.
PreferTree ==
  /\ exchange.phase = "sent"
  /\ exchange' = [exchange EXCEPT !.query.mode = "tree"]
  /\ UNCHANGED <<serving, cache, table, nextHandle, epoch, session>>
-----------------------------------------------------------------------------
(* Answers                                                                 *)

Routes == Variants \cup {"cached", "session"}

\* The respond functions a server may route a query to: by variant, and the two
\* that use the cache (respond_inspiring_cached, ..._with_session).
Answered(q, route) ==
  CASE route = "session" -> RespondWithSession(q, cache, table, serving)
    [] route = "cached" -> RespondInspiring(q, cache, serving)
    [] OTHER -> RespondWithVariant(q, route, serving)

\* The server answers the query on its way, at once or after any of the above.
\* An answer changes nothing on the server, so a query sent again is one that waited.
Answer(route) ==
  /\ exchange.phase = "sent"
  /\ route \notin Variants => cache # NoSetup
  /\ exchange' = [phase |-> "answered", response |-> Answered(exchange.query, route)]
  /\ UNCHANGED <<serving, cache, table, nextHandle, epoch, session>>

Next ==
  \/ \E g \in Seeds : ChangeSetup(g) \/ RestoreCache(g)
  \/ BuildCache
  \/ Restart
  \/ \E c \in Clients :
       \/ \E sk \in SecretKeys : Connect(c, sk)
       \/ RegisterWith(c)
       \/ RegisterWithServerDerivation(c)
       \/ Rehydrate(c)
       \/ \E seeded \in BOOLEAN : Ask(c, seeded)
  \/ \E sk \in SecretKeys, seeded \in BOOLEAN : AskSessionless(sk, seeded)
  \/ PreferTree
  \/ \E route \in Routes : Answer(route)

Spec == Init /\ [][Next]_vars
-----------------------------------------------------------------------------
(* Properties                                                              *)

Sessions ==
  [crs : Seeds, sk : SecretKeys, params : BOOLEAN, keys : KeySet \cup {NoKeys},
   handle : Handles \cup {NoHandle}, issuer : 0 .. MaxRestarts]

Queries ==
  [sk : SecretKeys, mode : {"tree", "inspiring"}, keys : KeySet \cup {NoKeys},
   handle : Handles \cup {NoHandle}, seeded : BOOLEAN]

Plaintexts == Plain \cup {Junk}

ServerResponse ==
  [ok : {FALSE}, why : Refusals]
    \cup [ok : {TRUE}, coeffs : [Coeffs -> Plaintexts], columns : Seq(Plaintexts),
          tag : {"none", "inspiring"}]

Exchanges ==
  {NoExchange}
    \cup [phase : {"sent"}, query : Queries, crs : Seeds, issuer : 0 .. MaxRestarts]
    \cup [phase : {"answered"}, response : ServerResponse]

\* Types of the server's state, the sessions and the query on its way.
TypeOK ==
  /\ serving \in Seeds
  /\ cache \in Seeds \cup {NoSetup}
  /\ nextHandle \in 0 .. HandleSpace
  /\ DOMAIN table = 0 .. nextHandle - 1
  /\ \A h \in DOMAIN table : table[h] \in KeySet
  /\ epoch \in 0 .. MaxRestarts
  /\ session \in [Clients -> Sessions \cup {NoSession}]
  /\ exchange \in Exchanges

\* In the table tbl, the keys under handle h are those made from the secret key sk
\* under setup g.
Resolves(tbl, h, g, sk) ==
  /\ h \in DOMAIN tbl
  /\ OnTheWire(tbl[h]) = OnTheWire(GenerateKeys(g, sk))

\* A handle the store in use has issued resolves to the keys of the session that
\* registered it, for the session and for its queries still on their way, through
\* other registrations, changes of setup and rehydrations; a session or a query
\* that outlives the store holds a handle nothing is said of (session.rs,
\* to_residue: "it is only valid against the issuing store").
HandlesResolve ==
  /\ \A c \in Clients :
       LET s == session[c]
       IN  s # NoSession /\ s.handle # NoHandle /\ s.issuer = epoch
             => Resolves(table, s.handle, s.crs, s.sk)
  /\ LET x == exchange
     IN  x.phase = "sent" /\ x.query.handle # NoHandle /\ x.issuer = epoch
           => Resolves(table, x.query.handle, x.crs, x.query.sk)

\* A step in which a query is answered by that route.
Answers(route) == exchange'.phase = "answered" /\ Answer(route)

HasKeys(q) == q.keys # NoKeys \/ q.handle # NoHandle
HandleIsLive(x) == x.query.handle = NoHandle \/ x.issuer = epoch

\* Whether the values read are those of the record the server serves.
IsRecord(values) == values = Record[serving]

\* A query made under the setup served now, through the cache of that setup, and
\* with inlined keys or a handle of the store in use, is answered without an error
\* and extracts to the record, however long the query waited, and from a rehydrated
\* session too (respond_inspiring_cached_with_session).
CurrentReadsRight ==
  [][ /\ Answers("session")
      /\ HasKeys(exchange.query) /\ HandleIsLive(exchange)
      /\ exchange.crs = serving /\ cache = serving
      => /\ exchange'.response.ok
         /\ IsRecord(ExtractInspiring(exchange'.response, Columns[serving])) ]_vars

\* The setup whose parameters and masks a route packs with.
PackedWith(route) == IF route \in Variants THEN serving ELSE cache

\* An InspiRING answer that extracts to something else than the record has one of
\* three causes, none of which the server can see: the handle is of another store,
\* the session's CRS is of another setup with the same geometry, or the cache is of
\* a setup with another number of columns than the database. Every other mismatch
\* of key, width or gadget is refused (ensure_packing_width_matches and its callers).
WrongAnswersExplained ==
  [][\A route \in Routes :
       LET r == exchange'.response
           pack == PackedWith(route)
       IN  /\ Answers(route)
           /\ r.ok /\ r.tag = "inspiring"
           /\ ~IsRecord(ExtractInspiring(r, Columns[exchange.crs]))
           => \/ ~HandleIsLive(exchange)
              \/ exchange.crs # pack /\ PackParams(exchange.crs) = PackParams(pack)
              \/ Columns[pack] # Columns[serving]]_vars

\* The two shapes of answer extract_with_variant has no reader for: InspiRING under
\* OnePacking, and one tree-packed column. The findings are about these.
HasNoReader(r, route) ==
  \/ route = "OnePacking" /\ r.tag = "inspiring"
  \/ route # "NoPacking" /\ r.tag = "none" /\ Columns[serving] = 1

\* Tree packing needs the secret key the Galois keys were made from.
KeyFits(q, r, route) ==
  route # "NoPacking" /\ r.tag = "none" => q.sk = SetupKey[serving]

\* What respond_with_variant answers under a variant, extract_with_variant under the
\* same variant reads back, or reports that d has no inverse. Without packing this
\* needs no more than that client and server agree on the column count, whatever
\* the client's keys, its handle, and the setup they are of.
VariantsReadBack ==
  [][\A route \in Variants :
       LET r == exchange'.response
           values == ExtractWithVariant(r, Columns[exchange.crs], route)
       IN  /\ Answers(route) /\ r.ok
           /\ IF route = "NoPacking" THEN Columns[exchange.crs] = Columns[serving]
                                     ELSE exchange.crs = serving
           /\ KeyFits(exchange.query, r, route)
           /\ ~HasNoReader(r, route)
           => IsRecord(values) \/ values = NotInvertible]_vars

\* extract_packed reads "columns ... at coefficients 0.. scaled by d" (extract.rs),
\* where pack_lwes says it leaves them, for a record of any number of columns.
TreePackingReadBack ==
  [][ LET r == exchange'.response
      IN  /\ Answers("OnePacking") /\ r.ok /\ r.tag = "none"
          /\ exchange.crs = serving /\ exchange.query.sk = SetupKey[serving]
          => IsRecord(ExtractWithVariant(r, Columns[serving], "OnePacking")) ]_vars

\* extract_with_variant dispatches "on the variant the server responded with"
\* (extract.rs), for a OnePacking answer to a client with packing keys too.
OnePackingReadBack ==
  [][ LET r == exchange'.response
      IN  /\ Answers("OnePacking") /\ r.ok /\ r.tag = "inspiring"
          /\ exchange.crs = serving
          => IsRecord(ExtractWithVariant(r, Columns[serving], "OnePacking")) ]_vars
=============================================================================
