--------------------------- MODULE SemanticSearch ---------------------------
(***************************************************************************)
(* GET /venues/search/semantic (src/axis/api/v1/search.py): a request      *)
(* decodes its token, then takes a connection of the pool to find out who  *)
(* the caller is (Principals), keeps it while it waits for the embedding   *)
(* model (ModelLoader), and then queries the vectors                       *)
(* (src/axis/db/queries/search.py).                                        *)
(***************************************************************************)
EXTENDS Principals, ModelLoader, Integers

CONSTANT Pool  \* bound of the engine's pool: db_pool_size + db_max_overflow

ASSUME PoolAssumption == Pool \in Nat \ {0}

VARIABLE req  \* by task: [pc, cred, decoded], its request; decoded is auxiliary

vars == <<principalVars, loaderVars, req>>

\* Requests that have a connection: their session has begun a transaction.
Connected == { t \in Tasks : req[t].pc \in {"embed", "query"} }

NoCred == [kind |-> "none", scopes |-> {}, exp |-> Never, read |-> Never]
Request(pc, cred, decoded) == [pc |-> pc, cred |-> cred, decoded |-> decoded]

Init ==
  /\ PrincipalInit /\ LoaderInit
  /\ req = [t \in Tasks |-> Request("unsent", NoCred, Never)]

\* Who the caller is does not matter any more; at the end the dependency's exit
\* gives the connection back to the pool.
Goes(t, pc) == req' = [req EXCEPT ![t] = Request(pc, NoCred, Never)]
Ends(t)     == Goes(t, "ended")

\* Requests are numbered as they are sent; the caller uses the token it has, or the key.
Send(t) ==
  /\ req[t].pc = "unsent" /\ \A u \in 1..(t - 1) : req[u].pc # "unsent"
  /\ \E cred \in {token, ApiKey} : req' = [req EXCEPT ![t] = Request("sent", cred, Never)]
  /\ UNCHANGED <<principalVars, loaderVars>>

\* get_principal: a token that has expired by now is answered 401, any other
\* asks for a connection.
Decode(t) ==
  /\ req[t].pc = "sent"
  /\ IF Unexpired(req[t].cred)
     THEN req' = [req EXCEPT ![t] = Request("auth", req[t].cred, now)]
     ELSE Ends(t)
  /\ UNCHANGED <<principalVars, loaderVars>>

\* Everyone with a connection waits, the pool is used up, and the wait for one
\* is over: TimeoutError, 500.
PoolTimeout(t) ==
  /\ req[t].pc = "auth" /\ Cardinality(Connected) >= Pool
  /\ Ends(t)
  /\ UNCHANGED <<principalVars, loaderVars>>

\* With a connection, however long it has waited for one, the request goes on,
\* or is answered 401 or 403: the date of its token is not looked at again.
Authorise(t) ==
  /\ req[t].pc = "auth" /\ Cardinality(Connected) < Pool
  /\ \E standing \in BOOLEAN :
       IF Allowed(req[t].cred, standing) THEN Goes(t, "embed") ELSE Ends(t)
  /\ UNCHANGED <<principalVars, loaderVars>>

Embed(t) ==
  /\ req[t].pc = "embed"
  /\ EmbedStep(t)
  /\ UNCHANGED <<principalVars, req>>

\* The vector is there, or the embedder has raised: 500.
Embedded(t) ==
  /\ req[t].pc = "embed"
  /\ \/ stage[t] = "embedded" /\ Goes(t, "query")
     \/ stage[t] = "failed" /\ Ends(t)
  /\ Returns(t)
  /\ UNCHANGED principalVars

\* semantic_search_venues, one statement; then the commit.
Query(t) ==
  /\ req[t].pc = "query"
  /\ Ends(t)
  /\ UNCHANGED <<principalVars, loaderVars>>

\* The caller goes away while its embedding is awaited.
Cancel(t) ==
  /\ req[t].pc = "embed" /\ CancelEmbed(t)
  /\ Ends(t)
  /\ UNCHANGED principalVars

Handle(t) ==
  \/ Decode(t) \/ Authorise(t) \/ PoolTimeout(t) \/ Embed(t) \/ Embedded(t) \/ Query(t)

Environment == (Tick \/ ReadScopes \/ Mint \/ Administer) /\ UNCHANGED <<loaderVars, req>>

Next ==
  \/ \E t \in Tasks : Send(t) \/ Handle(t) \/ Cancel(t)
  \/ OrphanEnds /\ UNCHANGED <<principalVars, req>>
  \/ Environment

\* The event loop runs every coroutine that can run, and threads end.  Nothing
\* is assumed of the pool's timeout: Authorise alone is fair.
Fairness ==
  \A t \in Tasks : WF_vars(Decode(t) \/ Authorise(t) \/ Embed(t) \/ Embedded(t) \/ Query(t))

Spec     == Init /\ [][Next]_vars
FairSpec == Spec /\ Fairness

-----------------------------------------------------------------------------
TypeOK ==
  /\ PrincipalTypeOK /\ LoaderTypeOK
  /\ req \in [Tasks -> [pc : {"unsent", "sent", "auth", "embed", "query", "ended"},
                        cred : Creds({"none", "user", "api_key"}), decoded : 0..MaxTime]]

\* How long the login took from reading the scopes to signing them, and how
\* long a request has been waiting since its token was decoded.
LoginTook(cred) == (cred.exp - TTL) - cred.read
Waited(t) == now - req[t].decoded

\* A request by a user is let through only if the user has the scope now or
\* lost it less than a token's lifetime ago, not counting the time its login
\* and it itself spent waiting for the database: scopes signed into a token are
\* never stale for longer, whatever was granted, withdrawn, minted and kept in
\* between (deps.py _principal_from_jwt, auth.py login, refresh_tokens).
StaleForTTL ==
  [][\A t \in Tasks :
       req[t].pc = "auth" /\ req'[t].pc = "embed" /\ req[t].cred.kind = "user" =>
         \/ Needed \in roles
         \/ now - held < TTL + LoginTook(req[t].cred) + Waited(t)]_vars

\* A model once loaded is kept: no later load, however it was begun, replaces
\* it (local.py _get_model, "double-checked locking").
ModelKept == [][model # NoModel => model' = model]_vars

\* Every search ends, so that at last none is under way: a load that fails or is
\* cancelled leaves the lock to the next, and requests that hold connections
\* while they wait for the model do not wait for those that wait for one.
SearchesEnd == <>[](\A t \in Tasks : req[t].pc \in {"unsent", "ended"})
=============================================================================
