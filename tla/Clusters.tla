------------------------------ MODULE Clusters ------------------------------
(***************************************************************************)
(* The cluster registry: registration, rotation, update and deletion       *)
(* (app/clusterapp) over the registry table (repo/mysql/cluster_registry)  *)
(* and the home cluster's credential Secrets (k8s/credential), the check   *)
(* of an engine pod's ingest token (httpapi/ingest_handlers), and the      *)
(* client cache each control-plane process keeps (k8s/factory).            *)
(*                                                                         *)
(* A credential is the generation of the target's credential it holds and  *)
(* which of its parts are present.  A token is its mint number, and its    *)
(* hash is itself.                                                         *)
(***************************************************************************)
EXTENDS Integers, FiniteSets

CONSTANTS
    Names,         \* cluster names registrations use
    Executions,    \* [execution -> [own: its cluster, fanOut: its target list]]
    Requests,      \* concurrent requests to the registry's handlers
    Workers,       \* goroutines of one process that call a cluster's API
    Kubeconfigs,   \* the shapes of kubeconfig a registrant may send
    Namespaces,    \* settings an entry may carry
    EngineToken,   \* the deployment-wide ingest token
    MaxCreds,      \* generations of a target's credential
    MaxTokens,     \* tokens minted
    MaxRequests,   \* requests made
    MaxFaults,     \* calls to the database or to the home cluster that fail
    MaxHangups,    \* clients that hang up, which cancels the request's context
    None

VARIABLES
    registry,  \* cluster_registry
    secrets,   \* the home cluster's credential Secrets
    accepts,   \* the credential generation each target accepts
    active,    \* executions with an execution_run row
    req,       \* the requests in flight
    minted,    \* tokens minted so far
    shown,     \* <<token, name>> pairs handed to a registrant
    cache,     \* ClientFactory.cache
    call,      \* the workers' routed calls
    made, faults,
    tangled,   \* history: names on which two requests overlapped
    halved,    \* history: names whose deletion stopped after the Secret
    hungUp     \* history: names a client gave up on in the middle of a request

table == <<registry, secrets>>
clients == <<cache, call>>
history == <<tangled, halved, hungUp>>
vars == <<registry, secrets, accepts, active, req, minted, shown, cache, call,
          made, faults, tangled, halved, hungUp>>

Idle == [at |-> "idle"]
Free == [at |-> "free"]

SecretNames == {"byoc", "operator"} \X Names

CredentialSecretName(n) == <<"byoc", n>>

Init ==
    /\ registry = [n \in Names |-> None]
    /\ secrets = [s \in SecretNames |->
                    IF s[1] = "operator"
                      THEN [generation |-> 1, token |-> TRUE, cert |-> FALSE, key |-> FALSE]
                      ELSE None]
    /\ accepts = [n \in Names |-> 1]
    /\ active = {} /\ minted = 0 /\ shown = {}
    /\ req = [a \in Requests |-> Idle]
    /\ cache = [n \in Names |-> None] /\ call = [w \in Workers |-> Free]
    /\ made = 0 /\ faults = 0 /\ tangled = {} /\ halved = {} /\ hungUp = {}

----------------------------------------------------------------------------
(* Credentials: kubeconfig.go, credential.go, prober.go.                   *)

\* What the parser takes: one context, no plugin, nothing on disk, a server, an
\* embedded CA, and a token or a certificate with its key.
ParseSelfContainedKubeconfig(k) ==
    /\ k.context /\ k.plugin = None /\ ~k.file /\ k.server /\ k.ca
    /\ k.token \/ (k.cert /\ k.key)

\* The parts a Secret keeps of a parsed kubeconfig.
credentialToData(k, generation) ==
    [generation |-> generation, token |-> k.token, cert |-> k.cert, key |-> k.key]

\* A client can be built: the token, or the certificate with its key.
RestConfigFromCredential(c) == c.token \/ (c.cert /\ c.key)

RestConfigFromSecret(s) == secrets[s] # None /\ RestConfigFromCredential(secrets[s])

\* The target answers, takes the credential and allows the six verbs; any other
\* answer is a ProbeError, and nothing is stored.
Probe(c, n) == RestConfigFromCredential(c) /\ c.generation = accepts[n]

----------------------------------------------------------------------------
(* A request makes one call at a time.  A call fails when a fault strikes, *)
(* or when the client has hung up.                                         *)

Works(a) == ~req[a].cancelled /\ UNCHANGED faults
Fails(a) ==
    \/ req[a].cancelled /\ UNCHANGED faults
    \/ ~req[a].cancelled /\ faults < MaxFaults /\ faults' = faults + 1

InFlight(n) == {a \in DOMAIN req : req[a].at # "idle" /\ req[a].n = n}

Begin(a, n, at, entry, secret, token) ==
    /\ req[a] = Idle /\ made < MaxRequests
    /\ made' = made + 1
    /\ req' = [req EXCEPT ![a] = [at |-> at, n |-> n, entry |-> entry, secret |-> secret,
                                  token |-> token, late |-> {}, cancelled |-> FALSE]]
    /\ tangled' = IF InFlight(n) = {} THEN tangled ELSE tangled \cup {n}
    /\ UNCHANGED <<table, accepts, active, shown, clients, faults, halved, hungUp>>

Goes(a, at) == req' = [req EXCEPT ![a].at = at]
Done(a) == req' = [req EXCEPT ![a] = Idle]

mintToken == minted < MaxTokens /\ minted' = minted + 1

RegisterOperator(a, n, ns) ==
    LET s == <<"operator", n>>
    IN  /\ RestConfigFromSecret(s) /\ Probe(secrets[s], n)
        /\ Begin(a, n, "create", [origin |-> "operator", ref |-> s, ns |-> ns], None, None)
        /\ UNCHANGED minted

\* Up to the first write: the kubeconfig parses, the entry is valid, the probe
\* passes, and only then is a token minted.
RegisterBYOC(a, n, ns, k) ==
    LET c == credentialToData(k, accepts[n])
    IN  /\ ParseSelfContainedKubeconfig(k) /\ Probe(c, n)
        /\ mintToken
        /\ Begin(a, n, "create",
                 [origin |-> "byoc", ref |-> CredentialSecretName(n), ns |-> ns], c, minted')

\* Mutant: the insert replaces an entry of the same name.
CreateReplaces(a, n) ==
    registry' = [registry EXCEPT ![n] = [entry |-> req[a].entry, hash |-> None, sealed |-> None]]

\* INSERT; ErrClusterExists when the name is taken.
CreateCluster(a, n) ==
    /\ registry[n] = None
    /\ registry' = [registry EXCEPT ![n] = [entry |-> req[a].entry, hash |-> None, sealed |-> None]]

Create(a) ==
    LET n == req[a].n
    IN  /\ req[a].at = "create"
        /\ \/ /\ Works(a) /\ CreateCluster(a, n)
              /\ IF req[a].entry.origin = "byoc" THEN Goes(a, "hash") ELSE Done(a)
           \/ Works(a) /\ registry[n] # None /\ Done(a) /\ UNCHANGED registry
           \/ Fails(a) /\ Done(a) /\ UNCHANGED registry
        /\ UNCHANGED <<secrets, accepts, active, minted, shown, clients, made, history>>

\* UPDATE ... SET ingest_token_hash; an absent row is ErrNotFound.
SetClusterIngestTokenHash(n, token) ==
    /\ registry[n] # None
    /\ registry' = [registry EXCEPT ![n].hash = token]

StoreHash(a) ==
    LET n == req[a].n
    IN  /\ req[a].at = "hash"
        /\ \/ Works(a) /\ SetClusterIngestTokenHash(n, req[a].token) /\ Goes(a, "materialize")
           \/ /\ (Works(a) /\ registry[n] = None) \/ Fails(a)
              /\ Goes(a, "undoRow") /\ UNCHANGED registry
        /\ UNCHANGED <<secrets, accepts, active, minted, shown, clients, made, history>>

\* Create the Secret, or reconcile the one that is there.
MaterializeCredential(s, c) == secrets' = [secrets EXCEPT ![s] = c]

Materialize(a) ==
    /\ req[a].at = "materialize"
    /\ \/ Works(a) /\ MaterializeCredential(req[a].entry.ref, req[a].secret) /\ Goes(a, "seal")
       \/ Fails(a) /\ Goes(a, "undoRow") /\ UNCHANGED secrets
    /\ UNCHANGED <<registry, accepts, active, minted, shown, clients, made, history>>

\* UPDATE ... SET byoc_credential; an absent row is ErrNotFound.
SetClusterCredential(n, c) ==
    /\ registry[n] # None
    /\ registry' = [registry EXCEPT ![n].sealed = c]

StoreCredential(a) ==
    LET n == req[a].n
    IN  /\ req[a].at = "seal"
        /\ \/ /\ Works(a) /\ SetClusterCredential(n, req[a].secret) /\ Done(a)
              /\ shown' = shown \cup {<<req[a].token, n>>}
              /\ halved' = halved \ {n}
           \/ /\ (Works(a) /\ registry[n] = None) \/ Fails(a)
              /\ Goes(a, "undoSecret") /\ UNCHANGED <<registry, shown, halved>>
        /\ UNCHANGED <<secrets, accepts, active, minted, clients, made, tangled, hungUp>>

\* Mutant: only the row is rolled back.
UndoNoSecret(a) ==
    /\ req[a].at = "undoSecret"
    /\ Goes(a, "undoRow")
    /\ UNCHANGED <<table, accepts, active, minted, shown, clients, made, faults, history>>

\* The two best-effort calls of the rollback, in the request's own context.
UndoSecret(a) ==
    /\ req[a].at = "undoSecret"
    /\ \/ Works(a) /\ secrets' = [secrets EXCEPT ![req[a].entry.ref] = None]
       \/ Fails(a) /\ UNCHANGED secrets
    /\ Goes(a, "undoRow")
    /\ UNCHANGED <<registry, accepts, active, minted, shown, clients, made, history>>

UndoRow(a) ==
    /\ req[a].at = "undoRow"
    /\ \/ Works(a) /\ registry' = [registry EXCEPT ![req[a].n] = None]
       \/ Fails(a) /\ UNCHANGED registry
    /\ Done(a)
    /\ UNCHANGED <<secrets, accepts, active, minted, shown, clients, made, history>>

----------------------------------------------------------------------------
(* Rotation, update, deletion.                                             *)

RotateIngestToken(a, n) ==
    /\ registry[n] # None /\ mintToken
    /\ Begin(a, n, "rotate", None, None, minted')

\* Mutant: a row that has a token keeps it.
RotateFirstOnly(a) ==
    LET n == req[a].n
    IN  /\ req[a].at = "rotate"
        /\ Works(a) /\ registry[n] # None /\ Done(a)
        /\ registry' = [registry EXCEPT ![n].hash = IF @ = None THEN req[a].token ELSE @]
        /\ shown' = shown \cup {<<req[a].token, n>>}
        /\ UNCHANGED <<secrets, accepts, active, minted, clients, made, history>>

StoreRotated(a) ==
    LET n == req[a].n
    IN  /\ req[a].at = "rotate"
        /\ \/ /\ Works(a) /\ SetClusterIngestTokenHash(n, req[a].token)
              /\ shown' = shown \cup {<<req[a].token, n>>}
           \/ /\ (Works(a) /\ registry[n] = None) \/ Fails(a)
              /\ UNCHANGED <<registry, shown>>
        /\ Done(a)
        /\ UNCHANGED <<secrets, accepts, active, minted, clients, made, history>>

\* GetCluster; the entry it read is written back with the new settings.
Update(a, n, ns) ==
    /\ registry[n] # None
    /\ Begin(a, n, "update", [registry[n].entry EXCEPT !.ns = ns], None, None)
    /\ UNCHANGED minted

\* The UPDATE names neither byoc_credential nor ingest_token_hash.
UpdateCluster(n, entry) ==
    /\ registry[n] # None
    /\ registry' = [registry EXCEPT ![n].entry = entry]

UpdateRow(a) ==
    LET n == req[a].n
    IN  /\ req[a].at = "update"
        /\ \/ Works(a) /\ UpdateCluster(n, req[a].entry)
           \/ (Works(a) /\ registry[n] = None) /\ UNCHANGED registry
           \/ Fails(a) /\ UNCHANGED registry
        /\ Done(a)
        /\ UNCHANGED <<secrets, accepts, active, minted, shown, clients, made, history>>

Delete(a, n) ==
    /\ registry[n] # None
    /\ Begin(a, n, "guard", registry[n].entry, None, None)
    /\ UNCHANGED minted

Routed(e, n) == Executions[e].own = n \/ n \in Executions[e].fanOut

ExecutionsWithActiveRunOnCluster(n) == {e \in active : Routed(e, n)}

DeleteGuard(a) ==
    LET n == req[a].n
    IN  /\ req[a].at = "guard"
        /\ \/ /\ Works(a) /\ ExecutionsWithActiveRunOnCluster(n) = {}
              /\ Goes(a, IF req[a].entry.origin = "byoc" THEN "deleteSecret" ELSE "deleteRow")
           \/ Works(a) /\ ExecutionsWithActiveRunOnCluster(n) # {} /\ Done(a)
           \/ Fails(a) /\ Done(a)
        /\ UNCHANGED <<table, accepts, active, minted, shown, clients, made, history>>

\* Credentials.Delete: a Secret already gone is no error.
DeleteSecret(a) ==
    /\ req[a].at = "deleteSecret"
    /\ \/ /\ Works(a) /\ secrets' = [secrets EXCEPT ![req[a].entry.ref] = None]
          /\ Goes(a, "deleteRow")
       \/ Fails(a) /\ Done(a) /\ UNCHANGED secrets
    /\ UNCHANGED <<registry, accepts, active, minted, shown, clients, made, history>>

DeleteCluster(a) ==
    LET n == req[a].n
    IN  /\ req[a].at = "deleteRow"
        /\ \/ /\ Works(a) /\ registry' = [registry EXCEPT ![n] = None]
              /\ halved' = halved \ {n}
           \/ /\ Fails(a) /\ UNCHANGED registry
              /\ halved' = IF req[a].entry.origin = "byoc" THEN halved \cup {n} ELSE halved
        /\ Done(a)
        /\ UNCHANGED <<secrets, accepts, active, minted, shown, clients, made, tangled, hungUp>>

Cancel(a) ==
    /\ req[a].at # "idle" /\ Cardinality(hungUp) < MaxHangups
    /\ req' = [req EXCEPT ![a].cancelled = TRUE]
    /\ hungUp' = hungUp \cup {req[a].n}
    /\ UNCHANGED <<table, accepts, active, minted, shown, clients, made, faults, tangled, halved>>

----------------------------------------------------------------------------
(* Runs, and the target clusters' own administrators.                      *)

Running(n) == {e \in active : Routed(e, n)}

\* A run starts once each of its registered clusters can be reached.
StartRun(e) ==
    /\ e \notin active /\ \E n \in Names : Routed(e, n)
    /\ \A n \in Names : Routed(e, n) =>
         registry[n] # None /\ RestConfigFromSecret(registry[n].entry.ref)
    /\ active' = active \cup {e}
    /\ req' = [a \in Requests |->
                 IF req[a].at \notin {"idle", "guard"} /\ Routed(e, req[a].n)
                   THEN [req[a] EXCEPT !.late = @ \cup {e}] ELSE req[a]]
    /\ UNCHANGED <<table, accepts, minted, shown, clients, made, faults, history>>

EndRun(e) ==
    /\ e \in active
    /\ active' = active \ {e}
    /\ UNCHANGED <<table, accepts, req, minted, shown, clients, made, faults, history>>

\* The target's credential is rotated, and with it the Secret an operator keeps.
CredentialRotates(n) ==
    /\ accepts[n] < MaxCreds
    /\ accepts' = [accepts EXCEPT ![n] = @ + 1]
    /\ secrets' = [secrets EXCEPT ![<<"operator", n>>].generation = @ + 1]
    /\ UNCHANGED <<registry, active, req, minted, shown, clients, made, faults, history>>

----------------------------------------------------------------------------
(* ClientFactory and Router: one process's cache of clients.               *)

Calls(w, n) ==
    /\ call[w] = Free /\ registry[n] # None
    /\ call' = [call EXCEPT ![w] = [at |-> "lookup", n |-> n, tries |-> 1,
                                    entry |-> None, client |-> None]]
    /\ UNCHANGED <<table, accepts, active, req, minted, shown, cache, made, faults, history>>

Moves(w, r) == call' = [call EXCEPT ![w] = r]

\* The cache under the lock.
Lookup(w) ==
    LET c == call[w]
    IN  /\ c.at = "lookup"
        /\ Moves(w, IF cache[c.n] # None THEN [c EXCEPT !.at = "call", !.client = cache[c.n]]
                                         ELSE [c EXCEPT !.at = "entry"])
        /\ UNCHANGED <<table, accepts, active, req, minted, shown, cache, made, faults, history>>

\* Without the lock: the entry, then its Secret; a failure answers the call.
ResolveEntry(w) ==
    LET c == call[w]
    IN  /\ c.at = "entry"
        /\ Moves(w, IF registry[c.n] = None THEN Free
                    ELSE [c EXCEPT !.at = "build", !.entry = registry[c.n].entry])
        /\ UNCHANGED <<table, accepts, active, req, minted, shown, cache, made, faults, history>>

Build(w) ==
    LET c == call[w]
    IN  /\ c.at = "build"
        /\ Moves(w, IF RestConfigFromSecret(c.entry.ref)
                      THEN [c EXCEPT !.at = "keep",
                                     !.client = [generation |-> secrets[c.entry.ref].generation,
                                                 ns |-> c.entry.ns]]
                      ELSE Free)
        /\ UNCHANGED <<table, accepts, active, req, minted, shown, cache, made, faults, history>>

\* Under the lock again: the first to store wins.
Keep(w) ==
    LET c == call[w]
        kept == IF cache[c.n] # None THEN cache[c.n] ELSE c.client
    IN  /\ c.at = "keep"
        /\ cache' = [cache EXCEPT ![c.n] = kept]
        /\ Moves(w, [c EXCEPT !.at = "call", !.client = kept])
        /\ UNCHANGED <<table, accepts, active, req, minted, shown, made, faults, history>>

\* fn(s); the first Unauthorized invalidates the client and tries once more.
routed(w) ==
    LET c == call[w]
    IN  /\ c.at = "call"
        /\ IF c.client.generation # accepts[c.n] /\ c.tries = 1
             THEN /\ cache' = [cache EXCEPT ![c.n] = None]
                  /\ Moves(w, [c EXCEPT !.at = "lookup", !.tries = 2,
                                        !.entry = None, !.client = None])
             ELSE Moves(w, Free) /\ UNCHANGED cache
        /\ UNCHANGED <<table, accepts, active, req, minted, shown, made, faults, history>>

----------------------------------------------------------------------------
(* A pod's push: checkIngestCredentials.                                   *)

\* The cluster a push is stamped with, or why it is refused.
checkIngestCredentials(token, e) ==
    IF token = EngineToken THEN "home"
    ELSE LET bearers == {n \in Names : registry[n] # None /\ registry[n].hash = token}
         IN  IF bearers = {} THEN "unauthorized"
             ELSE LET n == CHOOSE n \in bearers : TRUE
                  IN  IF Routed(e, n) THEN n ELSE "forbidden"

----------------------------------------------------------------------------
Next ==
    \/ \E a \in Requests, n \in Names :
          \/ \E ns \in Namespaces :
                \/ RegisterOperator(a, n, ns)
                \/ \E k \in Kubeconfigs : RegisterBYOC(a, n, ns, k)
                \/ Update(a, n, ns)
          \/ RotateIngestToken(a, n)
          \/ Delete(a, n)
    \/ \E a \in Requests :
          \/ Create(a) \/ StoreHash(a) \/ Materialize(a) \/ StoreCredential(a)
          \/ UndoSecret(a) \/ UndoRow(a)
          \/ StoreRotated(a) \/ UpdateRow(a)
          \/ DeleteGuard(a) \/ DeleteSecret(a) \/ DeleteCluster(a)
          \/ Cancel(a)
    \/ \E e \in DOMAIN Executions : StartRun(e) \/ EndRun(e)
    \/ \E n \in Names : CredentialRotates(n)
    \/ \E w \in Workers :
          \/ \E n \in Names : Calls(w, n)
          \/ Lookup(w) \/ ResolveEntry(w) \/ Build(w) \/ Keep(w) \/ routed(w)

Spec == Init /\ [][Next]_vars

\* Calls go on: the collection loop and the status reads poll every cluster, and
\* a goroutine that has begun a call makes its steps.
WorkerStep(w) ==
    \/ \E n \in Names : Calls(w, n)
    \/ Lookup(w) \/ ResolveEntry(w) \/ Build(w) \/ Keep(w) \/ routed(w)

FairSpec == Spec /\ \A w \in Workers : WF_vars(WorkerStep(w))

----------------------------------------------------------------------------
(* Properties.                                                             *)

AtRest(n) == InFlight(n) = {} /\ n \notin tangled

Whole(n) ==
    registry[n] # None /\ registry[n].entry.origin = "byoc" =>
      /\ registry[n].hash # None /\ registry[n].sealed # None
      /\ n \notin halved => /\ secrets[CredentialSecretName(n)] = registry[n].sealed
                            /\ RestConfigFromSecret(CredentialSecretName(n))

\* RegisterBYOC rolls a failed registration back: when no request works on a BYOC
\* entry it has its token's hash, its sealed kubeconfig and the Secret a client is
\* built from, unless a deletion stopped after the Secret and waits for its retry,
\* or a client hung up.
RegistrationWhole == \A n \in Names : AtRest(n) /\ n \notin hungUp => Whole(n)

\* Rollback and Delete: "no orphaned Secret is left behind": when no request works
\* on a name that has no entry, the home cluster holds no Secret for it, even when a
\* client hung up.
NoOrphanSecret ==
    \A n \in Names : AtRest(n) /\ registry[n] = None =>
      secrets[CredentialSecretName(n)] = None

\* Delete: "An operator entry's Secret is never touched": the Secrets operators
\* keep are there whatever is registered, rolled back or deleted.
OperatorSecretsStay == \A n \in Names : secrets[<<"operator", n>>] # None

\* RotateIngestToken: "the previous token dies with the hash overwrite": between
\* requests, the last token shown for a registered cluster is the one its pods are
\* heard with, and no earlier one is good anywhere; a token is never heard once
\* its cluster is deregistered.
OnlyLatestToken ==
    \A n \in Names : AtRest(n) =>
      \A t \in {s[1] : s \in {s \in shown : s[2] = n}}, e \in DOMAIN Executions :
        LET heard == checkIngestCredentials(t, e)
            last == \A s \in shown : s[2] = n => s[1] <= t
            live == registry[n] # None /\ registry[n].hash # None /\ last
        IN  (heard # "unauthorized") <=> (live /\ registry[n].hash = t)

\* A registered BYOC cluster's pods always hold a way in: the hash in its row is of
\* a token its registrant has been shown.
LiveTokenKnown ==
    \A n \in Names : InFlight(n) = {} /\ registry[n] # None /\ registry[n].entry.origin = "byoc" =>
      n \in tangled \cup hungUp \/ <<registry[n].hash, n>> \in shown

\* checkIngestCredentials: "A cluster token never speaks for the default fleet or for
\* a rival cluster's executions", and every cluster of a fan-out execution is heard:
\* a push is taken as a cluster's exactly when the execution is routed there.
PushesScoped ==
    \A s \in shown, e \in DOMAIN Executions :
      LET heard == checkIngestCredentials(s[1], e)
          n == s[2]
      IN  /\ heard \in {n, "unauthorized", "forbidden"}
          /\ heard = n => Routed(e, n)
          /\ heard = "forbidden" => n # Executions[e].own /\ n \notin Executions[e].fanOut

\* RegisterBYOC, Rollback and Delete taken together: between requests the Secrets in
\* the home cluster are those of the entries that are registered, and those only.
SecretsMatchEntries == RegistrationWhole /\ NoOrphanSecret /\ OperatorSecretsStay

\* RegisterBYOC, RotateIngestToken and the check of a push taken together: a cluster
\* is heard by the last token shown for it, and for its own executions only.
TokensScoped == OnlyLatestToken /\ LiveTokenKnown /\ PushesScoped

\* Delete: "it is rejected with ErrClusterInUse while any execution bound to it has an
\* active run": an entry that goes while a run holds the cluster goes only under a
\* run that started after the check.
InUseGuarded ==
    [][\A a \in DOMAIN req : req[a].at = "deleteRow" /\ registry' # registry =>
         Running(req[a].n) \subseteq req[a].late \/ req[a].n \in tangled]_vars

\* CreateCluster: a name that is taken is never taken over; an entry changes origin
\* only through a deletion.
NameTakenOnce ==
    [][\A n \in Names : registry[n] # None /\ registry'[n] # None /\ n \notin tangled =>
         registry'[n].entry.origin = registry[n].entry.origin]_vars

\* Resolve: "no caller ever gets a client that a concurrent build is about to
\* replace": a cached client leaves the cache only when it is invalidated.
ClientNeverDisplaced ==
    [][\A n \in Names : cache[n] # None => cache'[n] \in {cache[n], None}]_vars

\* An entry and the client built from it are not pulled from under those who use
\* them: not by a deletion, not by a second registration, not by a second build.
EntriesGuarded == InUseGuarded /\ NameTakenOnce /\ ClientNeverDisplaced

\* routed: the retry "recovers from a rotated credential without a restart": a cached
\* client the target refuses does not stay in the cache of a process that goes on
\* calling the cluster.
RotationRecovers ==
    \A n \in Names :
      (cache[n] # None /\ cache[n].generation # accepts[n])
        ~> (cache[n] = None \/ cache[n].generation = accepts[n] \/ registry[n] = None)
=============================================================================
