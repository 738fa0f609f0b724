---------------------------- MODULE Registration ----------------------------
(* enable_inspector (adapters/fastapi/__init__.py): how the Inspector is    *)
(* attached to a FastAPI application, all of it or nothing, with the docs   *)
(* route of adapters/fastapi/docs.py and the checks of config.py.           *)
(*                                                                          *)
(* Every application is set up by one thread; what several applications     *)
(* share is the registry of engines, whose operations are atomic (see       *)
(* EngineRegistry).                                                         *)
(*                                                                          *)
(* A path is a page under one of the prefixes, or the docs page.  A route   *)
(* answers some paths; what the check of the prefix sees of it is something *)
(* else: the prefixes its path text lies under, and the probes its matcher  *)
(* accepts (a matcher that raises accepts none).                            *)
EXTENDS EventSeqs, FiniteSets, SequencesExt

CONSTANTS
    Apps,
    Stores, NoStore,       \* RingBuffer objects; None
    DEFAULT_CAPACITY, Capacities,
    Engines, NoEngine,     \* SQLAlchemy engines; None
    NotAnEngine,           \* an object register_sqlalchemy_inspector refuses
    PathPrefixes,          \* the path prefixes tried
    Pages,                 \* the Inspector's paths behind its prefix
    Environments,          \* the environments tried
    HostRoutes,            \* the routes the host may add
    Tried,                 \* the arguments enable_inspector is called with
    Raises,                \* the steps of the registration that may raise
    MaxRoutes              \* bound of the model: routes the host adds

\* The arguments of a call: the configuration it asks for and the objects it
\* passes.  store_capacity 0 stands for None.
Args ==
    [enabled: BOOLEAN, environment: Environments, allow_in_production: BOOLEAN,
     access_check: BOOLEAN, dependencies: BOOLEAN, path_prefix: PathPrefixes,
     store_capacity: Capacities \cup {0}, store: Stores \cup {NoStore},
     engine: Engines \cup {NoEngine, NotAnEngine}]

Docs == <<"docs", "">>
Paths == (PathPrefixes \X Pages) \cup {Docs}

\* The pages _ensure_prefix_is_available probes.
Probed == {"", "/health"}
Probes(prefix) == {prefix} \X Probed

RouteType ==
    [name: {"host", "swagger_ui_html", "tailora_swagger_ui_html", "inspector"},
     under: SUBSET PathPrefixes,          \* its path text lies under these
     accepts: SUBSET (PathPrefixes \X Probed),  \* the probes its matcher accepts
     answers: SUBSET Paths]               \* the paths of requests it answers

Route(name, under, accepts, answers) ==
    [name |-> name, under |-> under, accepts |-> accepts, answers |-> answers]

ASSUME RegistrationAssumption ==
    /\ NoStore \notin Stores /\ NoEngine \notin Engines
    /\ NotAnEngine \notin Engines \cup {NoEngine}
    /\ Capacities \subseteq Nat \ {0} /\ DEFAULT_CAPACITY \in Capacities
    /\ "docs" \notin PathPrefixes /\ Probed \subseteq Pages
    /\ Environments \subseteq {"local", "shared", "production"}
    /\ HostRoutes \subseteq {r \in RouteType : r.name = "host"}
    /\ Tried \subseteq Args
    /\ Raises \subseteq {"router", "add_docs", "engine"}
    /\ MaxRoutes \in Nat

VARIABLES
    routes,             \* per app: app.router.routes
    host,               \* per app: the routes it would have without the Inspector
    user_middleware,    \* per app: outermost first
    middleware_stack,   \* per app: has it been built (the app was started)?
    registration,       \* per app: the _RegistrationState in app.state, or None
    pc, args, snapshot, \* per app: the enable_inspector call it is in
    returned,           \* per app: the store its last successful call returned
    passed,             \* per app: the store its caller passed then
    capacity,           \* per store: its capacity, 0 when it does not exist yet
    hooked,             \* the engines with listeners
    unhooked            \* the engines the host unregistered since they were used

app == <<routes, host, user_middleware, middleware_stack>>
call == <<pc, args, snapshot, returned, passed>>
vars == <<app, registration, call, capacity, hooked, unhooked>>

DefaultDocs == Route("swagger_ui_html", {}, {}, {Docs})
TailoraDocs == Route("tailora_swagger_ui_html", {}, {}, {Docs})

\* The routes of the Inspector's router.  They follow each other, and the last
\* one takes any path behind the prefix: together they answer all of its pages.
Inspector(prefix) == Route("inspector", {prefix}, Probes(prefix), {prefix} \X Pages)

None == [enabled |-> FALSE]
NoArgs == [engine |-> NoEngine]
NoSnapshot == [routes |-> <<>>]

\* An application comes with FastAPI's docs route, or without.
Init ==
    /\ routes \in [Apps -> {<<DefaultDocs>>, <<>>}]
    /\ host = routes
    /\ user_middleware = [a \in Apps |-> <<>>]
    /\ middleware_stack = [a \in Apps |-> FALSE]
    /\ registration = [a \in Apps |-> None]
    /\ pc = [a \in Apps |-> "idle"]
    /\ args = [a \in Apps |-> NoArgs]
    /\ snapshot = [a \in Apps |-> NoSnapshot]
    /\ returned = [a \in Apps |-> NoStore]
    /\ passed = [a \in Apps |-> NoStore]
    /\ capacity = [s \in Stores |-> 0]
    /\ hooked = {} /\ unhooked = {}

-----------------------------------------------------------------------------
(* The host application *)

HostsIn(s) == {i \in DOMAIN s : s[i].name = "host"}

AddRoute(a) ==
    /\ pc[a] = "idle"
    /\ Cardinality(HostsIn(routes[a])) < MaxRoutes
    /\ \E r \in HostRoutes :
          /\ routes' = [routes EXCEPT ![a] = Append(@, r)]
          /\ host' = [host EXCEPT ![a] = Append(@, r)]
    /\ UNCHANGED <<user_middleware, middleware_stack, registration, call, capacity,
                   hooked, unhooked>>

\* The first request, or the lifespan of the app, builds its middleware stack.
Start(a) ==
    /\ pc[a] = "idle"
    /\ middleware_stack' = [middleware_stack EXCEPT ![a] = TRUE]
    /\ UNCHANGED <<routes, host, user_middleware, registration, call, capacity, hooked,
                   unhooked>>

MakeStore(s) ==
    /\ capacity[s] = 0
    /\ \E c \in Capacities : capacity' = [capacity EXCEPT ![s] = c]
    /\ UNCHANGED <<app, registration, call, hooked, unhooked>>

\* unregister_sqlalchemy_inspector
Unregister(e) ==
    /\ hooked' = hooked \ {e}
    /\ unhooked' = unhooked \cup {e}
    /\ UNCHANGED <<app, registration, call, capacity>>

-----------------------------------------------------------------------------
(* The checks, none of which changes anything *)

\* Mutant: no capacity is passed on as no capacity.
Mutant_resolve_capacity(x) == x.store_capacity

\* _resolve_capacity
_resolve_capacity(x) ==
    IF x.store_capacity # 0 THEN x.store_capacity
    ELSE IF x.store # NoStore THEN capacity[x.store] ELSE DEFAULT_CAPACITY

\* InspectorConfig.__post_init__ and _require_access_control: an enabled
\* Inspector needs a confirmation in production and access control outside
\* local environments.
IsAllowed(x) ==
    x.enabled =>
        /\ x.environment = "production" => x.allow_in_production
        /\ x.environment # "local" => x.access_check \/ x.dependencies

\* The InspectorConfig of a call.
Config(x) ==
    [enabled |-> x.enabled, environment |-> x.environment,
     allow_in_production |-> x.allow_in_production, access_check |-> x.access_check,
     path_prefix |-> x.path_prefix, store_capacity |-> _resolve_capacity(x)]

IsRegistered(a) == registration[a] # None

\* _get_existing_registration
IsSame(a, x) ==
    LET r == registration[a] IN
    /\ r.config = Config(x)
    /\ x.store \in {NoStore, r.store}
    /\ r.engine = x.engine
    /\ r.dependencies = x.dependencies

\* What the check finds in the way: a path text under the prefix, or a matcher
\* that accepts the prefix or its health page.  No other page is tried.
Conflicts(r, prefix) == prefix \in r.under \/ r.accepts \cap Probes(prefix) # {}

\* Mutant: only the texts of paths are compared.
MutantPrefixIsAvailable(a, prefix) ==
    \A i \in DOMAIN routes[a] : prefix \notin routes[a][i].under

\* _ensure_prefix_is_available
PrefixIsAvailable(a, prefix) ==
    \A i \in DOMAIN routes[a] : ~Conflicts(routes[a][i], prefix)

\* Mutant: a store without events counts as none.
MutantMakesStore(x) == TRUE

\* store or RingBuffer(...): is a new store made?
MakesStore(x) == x.store = NoStore

\* The store of the call: the caller's, or a fresh one.
Resolved(x, s) == IF MakesStore(x) THEN capacity[s] = 0 ELSE s = x.store

CapacityWith(x, s) ==
    IF MakesStore(x) THEN [capacity EXCEPT ![s] = _resolve_capacity(x)] ELSE capacity

\* A call of enable_inspector whose arguments exist.
Calls(a, x) ==
    /\ pc[a] = "idle"
    /\ x.store # NoStore => capacity[x.store] # 0
    /\ IsAllowed(x)

Returns(a, s) == returned' = [returned EXCEPT ![a] = s]

\* The same registration again: the store of the first one.
Reuse(a, x) ==
    /\ Calls(a, x) /\ IsRegistered(a) /\ IsSame(a, x)
    /\ Returns(a, registration[a].store)
    /\ passed' = [passed EXCEPT ![a] = x.store]
    /\ UNCHANGED <<app, registration, pc, args, snapshot, capacity, hooked, unhooked>>

\* A disabled Inspector only gives the caller a store.
Disabled(a, x) ==
    /\ Calls(a, x) /\ ~IsRegistered(a) /\ ~x.enabled
    /\ \E s \in Stores :
          /\ Resolved(x, s)
          /\ capacity' = CapacityWith(x, s)
          /\ Returns(a, s)
    /\ passed' = [passed EXCEPT ![a] = x.store]
    /\ UNCHANGED <<app, registration, pc, args, snapshot, hooked, unhooked>>

\* Every check passed: the application is copied and the registration begins.
\* (Otherwise the call raises here, and nothing has changed.)
Begin(a, x) ==
    /\ Calls(a, x) /\ ~IsRegistered(a) /\ x.enabled
    /\ PrefixIsAvailable(a, x.path_prefix)
    /\ \E s \in Stores :
          /\ Resolved(x, s)
          /\ CapacityWith(x, s)[s] = _resolve_capacity(x)
          /\ capacity' = CapacityWith(x, s)
          /\ args' = [args EXCEPT ![a] =
                         [config |-> Config(x), store |-> s, engine |-> x.engine,
                          dependencies |-> x.dependencies]]
    /\ pc' = [pc EXCEPT ![a] = "middleware"]
    /\ passed' = [passed EXCEPT ![a] = x.store]
    /\ snapshot' = [snapshot EXCEPT ![a] =
                       [routes |-> routes[a], user_middleware |-> user_middleware[a],
                        middleware_stack |-> middleware_stack[a]]]
    /\ UNCHANGED <<app, registration, returned, hooked, unhooked>>

-----------------------------------------------------------------------------
(* _register_components, _record_registration and the way back *)

Goto(a, from, to) ==
    /\ pc[a] = from
    /\ pc' = [pc EXCEPT ![a] = to]

\* A started application takes no more middleware.
AddMiddleware(a) ==
    /\ Goto(a, "middleware", "router")
    /\ ~middleware_stack[a]
    /\ user_middleware' = [user_middleware EXCEPT ![a] = <<"tailora">> \o @]
    /\ UNCHANGED <<routes, host, middleware_stack, registration, args, snapshot,
                   returned, passed, capacity, hooked, unhooked>>

IncludeRouter(a) ==
    /\ Goto(a, "router", "docs")
    /\ routes' = [routes EXCEPT ![a] = Append(@, Inspector(args[a].config.path_prefix))]
    /\ UNCHANGED <<host, user_middleware, middleware_stack, registration, args, snapshot,
                   returned, passed, capacity, hooked, unhooked>>

\* install_tailora_docs: FastAPI's docs route, when it is there, goes first.
RemoveDefaultDocs(a) ==
    /\ Goto(a, "docs", "add_docs")
    /\ DefaultDocs \in ToSet(routes[a])
    /\ routes' = [routes EXCEPT ![a] = RemoveFirst(@, DefaultDocs)]
    /\ UNCHANGED <<host, user_middleware, middleware_stack, registration, args, snapshot,
                   returned, passed, capacity, hooked, unhooked>>

NoDefaultDocs(a) ==
    /\ Goto(a, "docs", "engine")
    /\ DefaultDocs \notin ToSet(routes[a])
    /\ UNCHANGED <<app, registration, args, snapshot, returned, passed, capacity, hooked,
                   unhooked>>

AddDocs(a) ==
    /\ Goto(a, "add_docs", "engine")
    /\ routes' = [routes EXCEPT ![a] = Append(@, TailoraDocs)]
    /\ UNCHANGED <<host, user_middleware, middleware_stack, registration, args, snapshot,
                   returned, passed, capacity, hooked, unhooked>>

\* Mutant: the registration is recorded before the engine is hooked.
MutantRegisterEngine(a) ==
    /\ Goto(a, "engine", "record")
    /\ args[a].engine # NotAnEngine
    /\ UNCHANGED <<app, registration, args, snapshot, returned, passed, capacity, hooked,
                   unhooked>>

\* _register_engine, for an engine that is given.
RegisterEngine(a) ==
    /\ Goto(a, "engine", "record")
    /\ args[a].engine # NotAnEngine
    /\ hooked' = hooked \cup ({args[a].engine} \ {NoEngine})
    /\ unhooked' = unhooked \ {args[a].engine}
    /\ UNCHANGED <<app, registration, args, snapshot, returned, passed, capacity>>

RecordRegistration(a) ==
    /\ Goto(a, "record", "idle")
    /\ registration' = [registration EXCEPT ![a] = args[a]]
    /\ Returns(a, args[a].store)
    /\ args' = [args EXCEPT ![a] = NoArgs]
    /\ snapshot' = [snapshot EXCEPT ![a] = NoSnapshot]
    /\ UNCHANGED <<app, passed, capacity, hooked, unhooked>>

\* What makes the step a is at raise.
StepRaises(a) ==
    \/ pc[a] = "middleware" /\ middleware_stack[a]
    \/ pc[a] = "engine" /\ args[a].engine = NotAnEngine
    \/ pc[a] \in Raises /\ (pc[a] = "engine" => args[a].engine # NoEngine)

\* Mutant: the routes are not put back.
MutantRestored(a) == routes[a]

Restored(a) == snapshot[a].routes

\* Mutant: the middleware stays.
MutantRestore(a) ==
    /\ StepRaises(a)
    /\ pc' = [pc EXCEPT ![a] = "idle"]
    /\ routes' = [routes EXCEPT ![a] = Restored(a)]
    /\ args' = [args EXCEPT ![a] = NoArgs]
    /\ snapshot' = [snapshot EXCEPT ![a] = NoSnapshot]
    /\ UNCHANGED <<host, user_middleware, middleware_stack, registration, returned,
                   passed, capacity, hooked, unhooked>>

\* The exception: _restore_application, and the call raises.
Restore(a) ==
    /\ StepRaises(a)
    /\ pc' = [pc EXCEPT ![a] = "idle"]
    /\ routes' = [routes EXCEPT ![a] = Restored(a)]
    /\ user_middleware' = [user_middleware EXCEPT ![a] = snapshot[a].user_middleware]
    /\ middleware_stack' = [middleware_stack EXCEPT ![a] = snapshot[a].middleware_stack]
    /\ args' = [args EXCEPT ![a] = NoArgs]
    /\ snapshot' = [snapshot EXCEPT ![a] = NoSnapshot]
    /\ UNCHANGED <<host, registration, returned, passed, capacity, hooked, unhooked>>

Next ==
    \/ \E a \in Apps :
        \/ AddRoute(a) \/ Start(a)
        \/ \E x \in Tried : Reuse(a, x) \/ Disabled(a, x) \/ Begin(a, x)
        \/ AddMiddleware(a) \/ IncludeRouter(a)
        \/ RemoveDefaultDocs(a) \/ NoDefaultDocs(a) \/ AddDocs(a)
        \/ RegisterEngine(a) \/ RecordRegistration(a) \/ Restore(a)
    \/ \E s \in Stores : MakeStore(s)
    \/ \E e \in Engines : Unregister(e)

Spec == Init /\ [][Next]_vars

-----------------------------------------------------------------------------
ConfigType ==
    [enabled: {TRUE}, environment: Environments, allow_in_production: BOOLEAN,
     access_check: BOOLEAN, path_prefix: PathPrefixes, store_capacity: Capacities]
RegistrationType ==
    [config: ConfigType, store: Stores, engine: Engines \cup {NoEngine, NotAnEngine},
     dependencies: BOOLEAN]
SnapshotType == [routes: Seq(RouteType), user_middleware: Seq({"tailora"}),
                 middleware_stack: BOOLEAN]

\* Every variable holds a value the code can give it.
TypeOK ==
    /\ routes \in [Apps -> Seq(RouteType)] /\ host \in [Apps -> Seq(RouteType)]
    /\ user_middleware \in [Apps -> Seq({"tailora"})]
    /\ middleware_stack \in [Apps -> BOOLEAN]
    /\ registration \in [Apps -> RegistrationType \cup {None}]
    /\ pc \in [Apps -> {"idle", "middleware", "router", "docs", "add_docs", "engine",
                        "record"}]
    /\ args \in [Apps -> RegistrationType \cup {NoArgs}]
    /\ snapshot \in [Apps -> SnapshotType \cup {NoSnapshot}]
    /\ returned \in [Apps -> Stores \cup {NoStore}]
    /\ passed \in [Apps -> Stores \cup {NoStore}]
    /\ capacity \in [Stores -> Capacities \cup {0}]
    /\ hooked \subseteq Engines /\ unhooked \subseteq Engines

Named(a, name) == {i \in DOMAIN routes[a] : routes[a][i].name = name}

\* Between calls an application either has the middleware, once, and the routes
\* of its registration, once, and says so; or it has none of them and says so:
\* whatever was enabled twice, refused or failed half-way before.
AllOrNothing ==
    \A a \in Apps : pc[a] = "idle" =>
        LET times == IF registration[a] = None THEN 0 ELSE 1 IN
        /\ Len(user_middleware[a]) = times
        /\ Cardinality(Named(a, "inspector")) = times
        /\ registration[a] # None =>
              Inspector(registration[a].config.path_prefix) \in ToSet(routes[a])

\* t has the host's routes that s has, in the same order.
SameHosts(s, t) ==
    \E f \in [HostsIn(s) -> HostsIn(t)] :
        /\ {f[i] : i \in HostsIn(s)} = HostsIn(t)
        /\ \A i \in HostsIn(s) : t[f[i]] = s[i]
        /\ \A i, j \in HostsIn(s) : i < j => f[i] < f[j]

\* The Inspector takes no route from the host, in particular when registering it
\* fails after the docs route was removed; it replaces the docs route if and
\* only if the application has one.
RoutesAreKept ==
    \A a \in Apps : pc[a] = "idle" =>
        IF registration[a] = None THEN routes[a] = host[a]
        ELSE
        /\ SameHosts(host[a], routes[a])
        /\ DefaultDocs \notin ToSet(routes[a])
        /\ TailoraDocs \in ToSet(routes[a]) <=> DefaultDocs \in ToSet(host[a])

\* The route that answers a path: the first one that matches it.
Answering(a, path) ==
    LET matching == {i \in DOMAIN routes[a] : path \in routes[a][i].answers}
    IN  {routes[a][i] : i \in {i \in matching : \A j \in matching : i <= j}}

\* Every page of a registered Inspector is answered by the Inspector, whatever
\* the host adds before, between two calls or after, but for a page that a route
\* of the host matches in which the check finds no conflict (as
\* "/{section}/requests", which no probe meets).  In particular the Inspector
\* answers its prefix and its health page wherever matchers accept in the check
\* what they accept of a request.
InspectorAnswers ==
    \A a \in Apps : registration[a] # None =>
        LET prefix == registration[a].config.path_prefix IN
        \A page \in Pages : \E r \in Answering(a, <<prefix, page>>) :
            \/ r.name = "inspector"
            \/ r.name = "host" /\ ~Conflicts(r, prefix)

\* The engine of a registered Inspector is listened to until the host
\* unregisters it, and no registration that fails leaves an engine behind.
EnginesAreHooked ==
    /\ \A a \in Apps : registration[a] # None /\ registration[a].engine # NoEngine =>
          registration[a].engine \in hooked \cup unhooked
    /\ \A e \in hooked : \E a \in Apps :
          \/ registration[a] # None /\ registration[a].engine = e
          \/ pc[a] = "record" /\ args[a].engine = e

\* The store the caller passes and gets back is the one the middleware writes
\* to, with the capacity that was asked for.
StoreIsCaptured ==
    \A a \in Apps : registration[a] # None =>
        /\ returned[a] = registration[a].store
        /\ passed[a] \in {NoStore, registration[a].store}
        /\ capacity[registration[a].store] = registration[a].config.store_capacity

-----------------------------------------------------------------------------
(* The inductive invariant of these properties *)

\* No route but the host's own, FastAPI's docs route among them.
Unrouted(s) == \A i \in DOMAIN s : s[i].name = "host" \/ s[i] = DefaultDocs
DocsFirst(s) == \A i \in DOMAIN s : s[i] = DefaultDocs => i = 1
Free(s, prefix) == \A i \in DOMAIN s : ~Conflicts(s[i], prefix)

\* The Inspector's router is in s, once, and what comes before it is the host's
\* and passed the check.
Routed(s, prefix) ==
    \E k \in DOMAIN s :
        /\ s[k] = Inspector(prefix)
        /\ \A i \in DOMAIN s : s[i].name = "inspector" => i = k
        /\ \A i \in DOMAIN s : i < k =>
              ~Conflicts(s[i], prefix) /\ (s[i].name = "host" \/ s[i] = DefaultDocs)

\* The store a registration writes to.
IsSound(a, r) ==
    /\ r \in RegistrationType
    /\ passed[a] \in {NoStore, r.store}
    /\ capacity[r.store] = r.config.store_capacity

\* Between calls.
Settled(a) ==
    /\ Unrouted(host[a]) /\ DocsFirst(host[a])
    /\ IF registration[a] = None
       THEN pc[a] = "idle" => routes[a] = host[a] /\ user_middleware[a] = <<>>
       ELSE /\ pc[a] = "idle"
            /\ IsSound(a, registration[a]) /\ returned[a] = registration[a].store
            /\ Routed(routes[a], registration[a].config.path_prefix)
            /\ user_middleware[a] = <<"tailora">>

\* On the way through the registration, with everything to go back.
UnderWay(a) ==
    pc[a] # "idle" =>
        /\ IsSound(a, args[a])
        /\ snapshot[a] \in SnapshotType
        /\ snapshot[a].routes = host[a] /\ snapshot[a].user_middleware = <<>>
        /\ user_middleware[a] = IF pc[a] = "middleware" THEN <<>> ELSE <<"tailora">>
        /\ IF pc[a] \in {"middleware", "router"}
           THEN routes[a] = host[a] /\ Free(host[a], args[a].config.path_prefix)
           ELSE /\ pc[a] = "docs" => DocsFirst(routes[a])
                /\ Routed(routes[a], args[a].config.path_prefix)
        /\ pc[a] = "record" => args[a].engine \in hooked \cup unhooked \cup {NoEngine}

IInv == TypeOK /\ EnginesAreHooked /\ \A a \in Apps : Settled(a) /\ UnderWay(a)

\* The routes of the host from the moment the Inspector's are among them, and
\* how far the docs route has been replaced.
Kept(a) ==
    /\ TailoraDocs \notin ToSet(host[a])
    /\ registration[a] # None \/ pc[a] \in {"docs", "add_docs", "engine", "record"} =>
        /\ SameHosts(host[a], routes[a])
        /\ pc[a] = "add_docs" => DefaultDocs \in ToSet(host[a])
        /\ DefaultDocs \in ToSet(routes[a]) <=> pc[a] = "docs" /\ DefaultDocs \in ToSet(host[a])
        /\ TailoraDocs \in ToSet(routes[a]) <=>
              pc[a] \notin {"docs", "add_docs"} /\ DefaultDocs \in ToSet(host[a])

KeptInv == IInv /\ \A a \in Apps : Kept(a)

-----------------------------------------------------------------------------
\* The docs page answers under its URL as it did before (docs.py:34: the default
\* route is replaced by one with the plugin).
DocsAnswer ==
    \A a \in Apps : pc[a] = "idle" /\ DefaultDocs \in ToSet(host[a]) =>
        \A r \in Answering(a, Docs) : r.name \in {"swagger_ui_html", "tailora_swagger_ui_html"}
=============================================================================
