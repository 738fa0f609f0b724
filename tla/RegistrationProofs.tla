------------------------- MODULE RegistrationProofs -------------------------
(* Registration's invariants for any applications, stores, engines, host    *)
(* routes and arguments.                                                    *)
EXTENDS Registration, FiniteSetTheorems, WellFoundedInduction, TLAPS

-----------------------------------------------------------------------------
(* What the steps do to the sequence of routes *)

\* Adding a route at the end leaves the others in their places.
LEMMA Appended ==
    ASSUME NEW s \in Seq(RouteType), NEW r \in RouteType
    PROVE  /\ Append(s, r) \in Seq(RouteType)
           /\ DOMAIN Append(s, r) = 1..Len(s) + 1
           /\ DOMAIN s = 1..Len(s) /\ Len(s) \in Nat
           /\ \A i \in DOMAIN s : Append(s, r)[i] = s[i]
           /\ Append(s, r)[Len(s) + 1] = r
OBVIOUS

\* The routes of the model are routes, and told apart by their names.
LEMMA NamedRoutes ==
    /\ DefaultDocs \in RouteType /\ DefaultDocs.name = "swagger_ui_html"
    /\ TailoraDocs \in RouteType /\ TailoraDocs.name = "tailora_swagger_ui_html"
    /\ \A prefix \in PathPrefixes :
          Inspector(prefix) \in RouteType /\ Inspector(prefix).name = "inspector"
<1>1. Docs \in Paths
    BY DEF Paths
<1>2. DefaultDocs \in RouteType /\ TailoraDocs \in RouteType
    BY <1>1 DEF DefaultDocs, TailoraDocs, Route, RouteType
<1>3. ASSUME NEW prefix \in PathPrefixes
      PROVE  Inspector(prefix) \in RouteType
    <2>1. Probes(prefix) \subseteq PathPrefixes \X Probed
        BY DEF Probes
    <2>2. {prefix} \X Pages \subseteq Paths
        BY DEF Paths
    <2> QED
        BY <2>1, <2>2 DEF Inspector, Route, RouteType
<1> QED
    BY <1>2, <1>3 DEF DefaultDocs, TailoraDocs, Inspector, Route

\* A router that is included behind routes that do not accept its paths.
LEMMA RoutedByAppend ==
    ASSUME NEW s \in Seq(RouteType), NEW prefix \in PathPrefixes,
           Unrouted(s), Free(s, prefix)
    PROVE  Routed(Append(s, Inspector(prefix)), prefix)
<1>1. Inspector(prefix) \in RouteType /\ Inspector(prefix).name = "inspector"
    BY NamedRoutes
<1>2. DefaultDocs.name # "inspector"
    BY NamedRoutes
<1> DEFINE r == Inspector(prefix)
           t == Append(s, r)
<1>3. /\ DOMAIN t = 1..Len(s) + 1 /\ DOMAIN s = 1..Len(s) /\ Len(s) \in Nat
      /\ \A i \in DOMAIN s : t[i] = s[i]
      /\ t[Len(s) + 1] = r
    BY <1>1, Appended
<1> HIDE DEF t, r
<1>4. \A i \in DOMAIN s : /\ t[i].name # "inspector" /\ ~Conflicts(t[i], prefix)
                          /\ t[i].name = "host" \/ t[i] = DefaultDocs
    BY <1>2, <1>3 DEF Unrouted, Free
<1>5. /\ Len(s) + 1 \in DOMAIN t /\ t[Len(s) + 1] = r
      /\ \A i \in DOMAIN t : t[i].name = "inspector" => i = Len(s) + 1
      /\ \A i \in DOMAIN t : i < Len(s) + 1 =>
            ~Conflicts(t[i], prefix) /\ (t[i].name = "host" \/ t[i] = DefaultDocs)
    BY <1>3, <1>4
<1> QED
    BY <1>5 DEF Routed, r, t

\* Any other route behind it changes nothing.
LEMMA RoutedStays ==
    ASSUME NEW s \in Seq(RouteType), NEW r \in RouteType, NEW prefix,
           Routed(s, prefix), r.name # "inspector"
    PROVE  Routed(Append(s, r), prefix)
<1> DEFINE t == Append(s, r)
<1>1. /\ DOMAIN t = 1..Len(s) + 1 /\ DOMAIN s = 1..Len(s) /\ Len(s) \in Nat
      /\ \A i \in DOMAIN s : t[i] = s[i]
      /\ t[Len(s) + 1] = r
    BY Appended
<1> HIDE DEF t
<1>2. PICK k \in DOMAIN s :
        /\ s[k] = Inspector(prefix)
        /\ \A i \in DOMAIN s : s[i].name = "inspector" => i = k
        /\ \A i \in DOMAIN s : i < k =>
              ~Conflicts(s[i], prefix) /\ (s[i].name = "host" \/ s[i] = DefaultDocs)
    BY DEF Routed
<1>3. /\ k \in DOMAIN t /\ t[k] = Inspector(prefix)
      /\ \A i \in DOMAIN t : t[i].name = "inspector" => i = k
      /\ \A i \in DOMAIN t : i < k =>
            ~Conflicts(t[i], prefix) /\ (t[i].name = "host" \/ t[i] = DefaultDocs)
    BY <1>1, <1>2
<1> QED
    BY <1>3 DEF Routed, t

\* FastAPI's docs route, the first one, is taken out.
LEMMA DocsRemoved ==
    ASSUME NEW s \in Seq(RouteType), DocsFirst(s), DefaultDocs \in ToSet(s)
    PROVE  /\ RemoveFirst(s, DefaultDocs) \in Seq(RouteType)
           /\ Len(RemoveFirst(s, DefaultDocs)) = Len(s) - 1
           /\ \A i \in 1..Len(s) - 1 : RemoveFirst(s, DefaultDocs)[i] = s[i + 1]
           /\ Len(s) \in Nat \ {0} /\ s[1] = DefaultDocs
<1>1. Len(s) \in Nat /\ DOMAIN s = 1..Len(s)
    OBVIOUS
<1>2. Len(s) >= 1 /\ s[1] = DefaultDocs
    BY <1>1 DEF ToSet, DocsFirst
<1>3. {i \in 1..Len(s) : s[i] = DefaultDocs} = {1}
    BY <1>1, <1>2 DEF DocsFirst
<1>4. Min({i \in 1..Len(s) : s[i] = DefaultDocs}) = 1
    BY <1>3 DEF Min
<1>5. RemoveFirst(s, DefaultDocs) = SubSeq(s, 1, 1 - 1) \o SubSeq(s, 1 + 1, Len(s))
    BY <1>1, <1>2, <1>3, <1>4 DEF RemoveFirst, RemoveAt, SelectInSeq
<1>6. /\ SubSeq(s, 1, 0) = <<>>
      /\ SubSeq(s, 2, Len(s)) \in Seq(RouteType)
      /\ Len(SubSeq(s, 2, Len(s))) = Len(s) - 1
      /\ \A i \in 1..Len(s) - 1 : SubSeq(s, 2, Len(s))[i] = s[i + 1]
    BY <1>1, <1>2
<1>7. RemoveFirst(s, DefaultDocs) = SubSeq(s, 2, Len(s))
    BY <1>5, <1>6
<1> QED
    BY <1>1, <1>2, <1>6, <1>7

\* The router stays where it is among the routes that are left.
LEMMA RoutedWithoutDocs ==
    ASSUME NEW s \in Seq(RouteType), NEW prefix, DocsFirst(s),
           DefaultDocs \in ToSet(s), Routed(s, prefix)
    PROVE  Routed(RemoveFirst(s, DefaultDocs), prefix)
<1> DEFINE t == RemoveFirst(s, DefaultDocs)
<1>1. /\ t \in Seq(RouteType) /\ Len(t) = Len(s) - 1
      /\ \A i \in 1..Len(s) - 1 : t[i] = s[i + 1]
      /\ Len(s) \in Nat \ {0} /\ s[1] = DefaultDocs
    BY DocsRemoved
<1> HIDE DEF t
<1>2. DOMAIN s = 1..Len(s) /\ DOMAIN t = 1..Len(s) - 1
    BY <1>1
<1>3. PICK k \in DOMAIN s :
        /\ s[k] = Inspector(prefix)
        /\ \A i \in DOMAIN s : s[i].name = "inspector" => i = k
        /\ \A i \in DOMAIN s : i < k =>
              ~Conflicts(s[i], prefix) /\ (s[i].name = "host" \/ s[i] = DefaultDocs)
    BY DEF Routed
<1>4. k # 1
    <2>1. Inspector(prefix).name # DefaultDocs.name
        BY DEF Inspector, DefaultDocs, Route
    <2> QED
        BY <2>1, <1>1, <1>3
<1>5. k - 1 \in DOMAIN t /\ t[k - 1] = Inspector(prefix)
    BY <1>1, <1>2, <1>3, <1>4
<1>6. ASSUME NEW i \in DOMAIN t
      PROVE  /\ t[i].name = "inspector" => i = k - 1
             /\ i < k - 1 => /\ ~Conflicts(t[i], prefix)
                             /\ t[i].name = "host" \/ t[i] = DefaultDocs
    <2>1. i \in Int /\ i + 1 \in DOMAIN s /\ t[i] = s[i + 1]
        BY <1>1, <1>2
    <2>2. k \in Int
        BY <1>2
    <2>3. t[i].name = "inspector" => i + 1 = k
        BY <2>1, <1>3
    <2>4. i + 1 < k => /\ ~Conflicts(t[i], prefix)
                       /\ t[i].name = "host" \/ t[i] = DefaultDocs
        BY <2>1, <1>3
    <2> QED
        BY <2>1, <2>2, <2>3, <2>4
<1> QED
    BY <1>5, <1>6 DEF Routed, t

\* A route of the host changes nothing about the docs route and the router.
LEMMA HostStays ==
    ASSUME NEW s \in Seq(RouteType), NEW r \in RouteType,
           r.name = "host"
    PROVE  /\ Unrouted(s) => Unrouted(Append(s, r))
           /\ DocsFirst(s) => DocsFirst(Append(s, r))
<1>1. r # DefaultDocs
    BY NamedRoutes
<1> QED
    BY <1>1, Appended DEF Unrouted, DocsFirst

LEMMA DocsFirstWithRouter ==
    ASSUME NEW s \in Seq(RouteType), NEW prefix \in PathPrefixes, DocsFirst(s)
    PROVE  DocsFirst(Append(s, Inspector(prefix)))
<1>1. Inspector(prefix) \in RouteType /\ Inspector(prefix).name # DefaultDocs.name
    BY NamedRoutes
<1> QED
    BY <1>1, Appended DEF DocsFirst

-----------------------------------------------------------------------------
(* What the steps of one application mean for the others *)

\* No store loses its capacity, and no engine leaves both sets.
Grows ==
    /\ \A s \in Stores : capacity[s] # 0 => capacity'[s] = capacity[s]
    /\ hooked \cup unhooked \subseteq hooked' \cup unhooked'

\* A sound registration stays sound.
LEMMA SoundStays ==
    ASSUME NEW a \in Apps, NEW r, IsSound(a, r), Grows, passed'[a] = passed[a]
    PROVE  /\ r \in RegistrationType
           /\ passed'[a] \in {NoStore, r.store}
           /\ capacity'[r.store] = r.config.store_capacity
<1>1. r.store \in Stores /\ r.config.store_capacity \in Nat \ {0}
    BY RegistrationAssumption DEF IsSound, RegistrationType, ConfigType
<1> QED
    BY <1>1 DEF IsSound, Grows

\* An application that takes no step keeps its part of the invariant.
LEMMA OthersStay ==
    ASSUME NEW b \in Apps, Settled(b), UnderWay(b), Grows,
           routes'[b] = routes[b], host'[b] = host[b],
           user_middleware'[b] = user_middleware[b],
           registration'[b] = registration[b], pc'[b] = pc[b], args'[b] = args[b],
           snapshot'[b] = snapshot[b], returned'[b] = returned[b], passed'[b] = passed[b]
    PROVE  Settled(b)' /\ UnderWay(b)'
<1>1. Settled(b)'
    <2>1. CASE registration[b] = None
        BY <2>1 DEF Settled
    <2>2. CASE registration[b] # None
        <3>1. IsSound(b, registration[b])'
            BY <2>2, SoundStays DEF Settled, IsSound
        <3> QED
            BY <2>2, <3>1 DEF Settled
    <2> QED
        BY <2>1, <2>2
<1>2. UnderWay(b)'
    <2> SUFFICES ASSUME pc[b] # "idle" PROVE UnderWay(b)'
        BY DEF UnderWay
    <2>1. IsSound(b, args[b])'
        BY SoundStays DEF UnderWay, IsSound
    <2>2. pc[b] = "record" => args[b].engine \in hooked' \cup unhooked' \cup {NoEngine}
        BY DEF UnderWay, Grows
    <2> QED
        BY <2>1, <2>2 DEF UnderWay
<1> QED
    BY <1>1, <1>2

\* The engines in use are told by the registrations and by the calls that are
\* about to be recorded.
LEMMA EnginesStay ==
    ASSUME EnginesAreHooked, UNCHANGED <<registration, hooked, unhooked>>,
           \A a \in Apps : pc[a] = "record" => pc'[a] = "record" /\ args'[a] = args[a]
    PROVE  EnginesAreHooked'
BY DEF EnginesAreHooked

LEMMA CapacityOfCall ==
    ASSUME TypeOK, NEW x \in Tried, x.store # NoStore => capacity[x.store] # 0
    PROVE  /\ x \in Args
           /\ _resolve_capacity(x) \in Capacities
<1>1. /\ x \in Args
      /\ x.store_capacity \in Capacities \cup {0}
      /\ x.store \in Stores \cup {NoStore}
    BY RegistrationAssumption DEF Args
<1> QED
    BY <1>1, RegistrationAssumption DEF _resolve_capacity, TypeOK

\* Whichever store a call takes, no other one changes.
LEMMA CapacityGrows ==
    ASSUME TypeOK, NEW x \in Tried, x.store # NoStore => capacity[x.store] # 0,
           NEW s \in Stores, Resolved(x, s), capacity' = CapacityWith(x, s)
    PROVE  /\ capacity' \in [Stores -> Capacities \cup {0}]
           /\ \A t \in Stores : capacity[t] # 0 => capacity'[t] = capacity[t]
BY CapacityOfCall DEF CapacityWith, Resolved, MakesStore, TypeOK

-----------------------------------------------------------------------------
(* The invariant, action by action *)

\* What is left to show of an application's step: its own part.
LEMMA OneStep ==
    ASSUME IInv, NEW a \in Apps, TypeOK', EnginesAreHooked', Settled(a)', UnderWay(a)',
           Grows,
           \A b \in Apps \ {a} :
               /\ routes'[b] = routes[b] /\ host'[b] = host[b]
               /\ user_middleware'[b] = user_middleware[b]
               /\ registration'[b] = registration[b] /\ pc'[b] = pc[b]
               /\ args'[b] = args[b] /\ snapshot'[b] = snapshot[b]
               /\ returned'[b] = returned[b] /\ passed'[b] = passed[b]
    PROVE  IInv'
<1>1. ASSUME NEW b \in Apps, b # a
      PROVE  Settled(b)' /\ UnderWay(b)'
    BY <1>1, OthersStay DEF IInv
<1> QED
    BY <1>1 DEF IInv

LEMMA HostStep ==
    ASSUME IInv, NEW a \in Apps, AddRoute(a) \/ Start(a)
    PROVE  IInv'
<1>1. CASE AddRoute(a)
    <2> USE <1>1
    <2>1. PICK r \in HostRoutes :
            /\ routes' = [routes EXCEPT ![a] = Append(@, r)]
            /\ host' = [host EXCEPT ![a] = Append(@, r)]
        BY DEF AddRoute
    <2>2. r \in RouteType /\ r.name = "host"
        BY RegistrationAssumption
    <2>3. routes[a] \in Seq(RouteType) /\ host[a] \in Seq(RouteType)
        BY DEF IInv, TypeOK
    <2>4. routes'[a] = Append(routes[a], r) /\ host'[a] = Append(host[a], r)
        BY <2>1 DEF IInv, TypeOK
    <2>5. routes'[a] \in Seq(RouteType) /\ host'[a] \in Seq(RouteType)
        BY <2>2, <2>3, <2>4
    <2>6. TypeOK'
        BY <2>1, <2>2, <2>3, <2>5, <2>4 DEF IInv, TypeOK, AddRoute, call
    <2>7. EnginesAreHooked'
        BY EnginesStay DEF IInv, AddRoute, call
    <2>8. Settled(a)'
        <3>1. Unrouted(host'[a]) /\ DocsFirst(host'[a])
            BY <2>2, <2>3, <2>4, HostStays DEF IInv, Settled
        <3>2. CASE registration[a] = None
            BY <2>4, <3>1, <3>2 DEF IInv, Settled, AddRoute, call
        <3>3. CASE registration[a] # None
            <4>1. Routed(routes'[a], registration[a].config.path_prefix)
                BY <3>3, <2>2, <2>3, <2>4, RoutedStays DEF IInv, Settled
            <4> QED
                BY <3>1, <3>3, <4>1 DEF IInv, Settled, AddRoute, call, IsSound
        <3> QED
            BY <3>2, <3>3
    <2>9. UnderWay(a)'
        BY DEF UnderWay, AddRoute, call
    <2>10. Grows
        BY DEF Grows, AddRoute
    <2> QED
        BY <2>1, <2>6, <2>7, <2>8, <2>9, <2>10, OneStep DEF IInv, TypeOK, AddRoute, call
<1>2. CASE Start(a)
    <2> USE <1>2 DEF Start, call
    <2>1. TypeOK'
        BY DEF IInv, TypeOK
    <2>2. EnginesAreHooked'
        BY EnginesStay DEF IInv
    <2>3. Settled(a)' /\ UnderWay(a)' /\ Grows
        BY DEF IInv, Settled, UnderWay, IsSound, Grows
    <2> QED
        BY <2>1, <2>2, <2>3, OneStep
<1> QED
    BY <1>1, <1>2

LEMMA MakeStoreStep ==
    ASSUME IInv, NEW s \in Stores, MakeStore(s)
    PROVE  IInv'
<1> USE DEF MakeStore, app, call
<1>1. TypeOK'
    BY DEF IInv, TypeOK
<1>2. EnginesAreHooked'
    BY EnginesStay DEF IInv
<1>3. Grows
    BY DEF IInv, TypeOK, Grows
<1>4. \A b \in Apps : Settled(b)' /\ UnderWay(b)'
    BY <1>3, OthersStay DEF IInv
<1> QED
    BY <1>1, <1>2, <1>4 DEF IInv

LEMMA UnregisterStep ==
    ASSUME IInv, NEW e \in Engines, Unregister(e)
    PROVE  IInv'
<1> USE DEF Unregister, app, call
<1>1. TypeOK'
    BY DEF IInv, TypeOK
<1>2. EnginesAreHooked'
    BY DEF IInv, EnginesAreHooked
<1>3. Grows
    BY DEF Grows
<1>4. \A b \in Apps : Settled(b)' /\ UnderWay(b)'
    BY <1>3, OthersStay DEF IInv
<1> QED
    BY <1>1, <1>2, <1>4 DEF IInv

LEMMA ReuseStep ==
    ASSUME IInv, NEW a \in Apps, NEW x \in Tried, Reuse(a, x)
    PROVE  IInv'
<1> USE DEF Reuse, Calls, Returns, app
<1>1. /\ registration[a] # None /\ pc[a] = "idle"
      /\ IsSound(a, registration[a])
      /\ x.store \in {NoStore, registration[a].store}
      /\ registration[a].store \in Stores
    BY DEF IInv, Settled, IsRegistered, IsSame, IsSound, RegistrationType
<1>2. returned'[a] = registration[a].store /\ passed'[a] = x.store
    BY DEF IInv, TypeOK
<1>3. TypeOK'
    BY <1>1 DEF IInv, TypeOK
<1>4. EnginesAreHooked'
    BY EnginesStay DEF IInv
<1>5. Settled(a)' /\ UnderWay(a)' /\ Grows
    BY <1>1, <1>2 DEF IInv, Settled, UnderWay, IsSound, Grows
<1> QED
    BY <1>3, <1>4, <1>5, OneStep DEF IInv, TypeOK

LEMMA DisabledStep ==
    ASSUME IInv, NEW a \in Apps, NEW x \in Tried, Disabled(a, x)
    PROVE  IInv'
<1> USE DEF Disabled, Calls, Returns, app
<1>1. PICK s \in Stores : /\ Resolved(x, s)
                          /\ capacity' = CapacityWith(x, s)
                          /\ returned' = [returned EXCEPT ![a] = s]
    OBVIOUS
<1>2. /\ capacity' \in [Stores -> Capacities \cup {0}]
      /\ \A t \in Stores : capacity[t] # 0 => capacity'[t] = capacity[t]
    BY <1>1, CapacityGrows DEF IInv
<1>3. x.store \in Stores \cup {NoStore}
    BY RegistrationAssumption DEF Args
<1>4. TypeOK'
    BY <1>1, <1>2, <1>3 DEF IInv, TypeOK
<1>5. EnginesAreHooked'
    BY EnginesStay DEF IInv
<1>6. Settled(a)' /\ UnderWay(a)' /\ Grows
    BY <1>2 DEF IInv, Settled, UnderWay, Grows, IsRegistered
<1> QED
    BY <1>1, <1>4, <1>5, <1>6, OneStep DEF IInv, TypeOK

LEMMA BeginStep ==
    ASSUME IInv, NEW a \in Apps, NEW x \in Tried, Begin(a, x)
    PROVE  IInv'
<1> USE DEF Begin, Calls, app
<1>1. PICK s \in Stores :
        /\ Resolved(x, s) /\ CapacityWith(x, s)[s] = _resolve_capacity(x)
        /\ capacity' = CapacityWith(x, s)
        /\ args' = [args EXCEPT ![a] =
                       [config |-> Config(x), store |-> s, engine |-> x.engine,
                        dependencies |-> x.dependencies]]
    OBVIOUS
<1> DEFINE r == [config |-> Config(x), store |-> s, engine |-> x.engine,
                 dependencies |-> x.dependencies]
<1>2. /\ capacity' \in [Stores -> Capacities \cup {0}]
      /\ \A t \in Stores : capacity[t] # 0 => capacity'[t] = capacity[t]
    BY <1>1, CapacityGrows DEF IInv
<1>3. x \in Args /\ _resolve_capacity(x) \in Capacities
    BY CapacityOfCall DEF IInv
<1>4. r \in RegistrationType /\ r.config = Config(x) /\ r.store = s
    BY <1>3 DEF Args, RegistrationType, ConfigType, Config
<1>5. passed'[a] = x.store /\ passed'[a] \in {NoStore, r.store}
    BY <1>1 DEF Resolved, MakesStore, IInv, TypeOK
<1>6. capacity'[r.store] = r.config.store_capacity
    BY <1>1 DEF Config
<1>7. r.config.path_prefix = x.path_prefix
    BY DEF Config
<1> HIDE DEF r
<1>8. /\ registration[a] = None /\ pc[a] = "idle" /\ pc'[a] = "middleware"
      /\ routes[a] = host[a] /\ user_middleware[a] = <<>> /\ args'[a] = r
      /\ snapshot'[a] = [routes |-> host[a], user_middleware |-> <<>>,
                         middleware_stack |-> middleware_stack[a]]
    BY <1>1 DEF IInv, TypeOK, Settled, IsRegistered, r
<1>9. snapshot'[a] \in SnapshotType
    BY <1>8 DEF IInv, TypeOK, SnapshotType
<1>10. TypeOK'
    <2>1. passed'[a] \in Stores \cup {NoStore}
        BY <1>3, <1>5 DEF Args
    <2>2. passed' \in [Apps -> Stores \cup {NoStore}]
        BY <1>5, <2>1 DEF IInv, TypeOK
    <2>3. args' \in [Apps -> RegistrationType \cup {NoArgs}]
        BY <1>1, <1>4, <1>8 DEF IInv, TypeOK
    <2>4. snapshot' \in [Apps -> SnapshotType \cup {NoSnapshot}]
        BY <1>9 DEF IInv, TypeOK
    <2> QED
        BY <1>2, <2>2, <2>3, <2>4 DEF IInv, TypeOK
<1>11. EnginesAreHooked'
    BY <1>8, EnginesStay DEF IInv, TypeOK
<1>12. IsSound(a, args[a])'
    BY <1>4, <1>5, <1>6, <1>8 DEF IsSound
<1>13. Free(host'[a], args'[a].config.path_prefix)
    BY <1>7, <1>8 DEF PrefixIsAvailable, Free
<1>14. Settled(a)'
    BY <1>8 DEF IInv, Settled
<1>15. UnderWay(a)'
    BY <1>8, <1>9, <1>12, <1>13 DEF UnderWay
<1>16. Grows
    BY <1>2 DEF Grows
<1> QED
    BY <1>1, <1>10, <1>11, <1>14, <1>15, <1>16, OneStep DEF IInv, TypeOK

LEMMA AddMiddlewareStep ==
    ASSUME IInv, NEW a \in Apps, AddMiddleware(a)
    PROVE  IInv'
<1> USE DEF AddMiddleware, Goto
<1>1. /\ pc[a] = "middleware" /\ pc'[a] = "router" /\ user_middleware[a] = <<>>
      /\ user_middleware'[a] = <<"tailora">>
    <2>1. pc[a] = "middleware" /\ pc'[a] = "router" /\ user_middleware[a] = <<>>
        BY DEF IInv, TypeOK, UnderWay
    <2>2. user_middleware'[a] = <<"tailora">> \o user_middleware[a]
        BY DEF IInv, TypeOK
    <2>3. <<"tailora">> \o <<>> = <<"tailora">>
        OBVIOUS
    <2> QED
        BY <2>1, <2>2, <2>3
<1>2. TypeOK'
    BY <1>1 DEF IInv, TypeOK
<1>3. EnginesAreHooked'
    BY EnginesStay DEF IInv, TypeOK
<1>4. Settled(a)' /\ UnderWay(a)' /\ Grows
    BY <1>1 DEF IInv, Settled, UnderWay, IsSound, Grows
<1> QED
    BY <1>2, <1>3, <1>4, OneStep DEF IInv, TypeOK

\* A step that puts the routes of an application in other ones, in which the
\* router is.
LEMMA RoutesStep ==
    ASSUME IInv, NEW a \in Apps, NEW s, NEW from, NEW to,
           Goto(a, from, to), from \in {"router", "docs", "add_docs"},
           to \in {"docs", "add_docs", "engine"},
           routes' = [routes EXCEPT ![a] = s], s \in Seq(RouteType),
           to = "docs" => DocsFirst(s),
           Routed(s, args[a].config.path_prefix),
           UNCHANGED <<host, user_middleware, middleware_stack, registration, args,
                       snapshot, returned, passed, capacity, hooked, unhooked>>
    PROVE  IInv'
<1> USE DEF Goto
<1>1. pc[a] = from /\ pc'[a] = to /\ routes'[a] = s
    BY DEF IInv, TypeOK
<1>2. TypeOK'
    BY <1>1 DEF IInv, TypeOK
<1>3. EnginesAreHooked'
    BY <1>1, EnginesStay DEF IInv, TypeOK
<1>4. Settled(a)' /\ UnderWay(a)' /\ Grows
    BY <1>1 DEF IInv, Settled, UnderWay, IsSound, Grows
<1> QED
    BY <1>2, <1>3, <1>4, OneStep DEF IInv, TypeOK

LEMMA RouterStep ==
    ASSUME IInv, NEW a \in Apps,
           \/ IncludeRouter(a) \/ RemoveDefaultDocs(a) \/ AddDocs(a)
    PROVE  IInv'
<1> DEFINE prefix == args[a].config.path_prefix
<1>1. pc[a] # "idle" /\ routes[a] \in Seq(RouteType) /\ prefix \in PathPrefixes
    BY DEF IInv, TypeOK, UnderWay, IsSound, RegistrationType, ConfigType, IncludeRouter,
           RemoveDefaultDocs, AddDocs, Goto
<1> HIDE DEF prefix
<1>2. CASE IncludeRouter(a)
    <2> USE <1>2 DEF IncludeRouter
    <2> DEFINE s == Append(routes[a], Inspector(prefix))
    <2>1. /\ Unrouted(routes[a]) /\ DocsFirst(routes[a]) /\ Free(routes[a], prefix)
        BY DEF IInv, UnderWay, Settled, Goto, prefix
    <2>2. Inspector(prefix) \in RouteType
        BY <1>1, NamedRoutes
    <2>3. s \in Seq(RouteType) /\ DocsFirst(s) /\ Routed(s, prefix)
        BY <1>1, <2>1, <2>2, RoutedByAppend, DocsFirstWithRouter
    <2>4. routes' = [routes EXCEPT ![a] = s]
        BY DEF prefix
    <2> HIDE DEF s
    <2> QED
        BY <2>3, <2>4, RoutesStep DEF prefix
<1>3. CASE RemoveDefaultDocs(a)
    <2> USE <1>3 DEF RemoveDefaultDocs
    <2> DEFINE s == RemoveFirst(routes[a], DefaultDocs)
    <2>1. DocsFirst(routes[a]) /\ Routed(routes[a], prefix)
        BY DEF IInv, UnderWay, Goto, prefix
    <2>2. s \in Seq(RouteType) /\ Routed(s, prefix)
        BY <1>1, <2>1, DocsRemoved, RoutedWithoutDocs
    <2>3. routes' = [routes EXCEPT ![a] = s]
        OBVIOUS
    <2> HIDE DEF s
    <2> QED
        BY <2>2, <2>3, RoutesStep DEF prefix
<1>4. CASE AddDocs(a)
    <2> USE <1>4 DEF AddDocs
    <2> DEFINE s == Append(routes[a], TailoraDocs)
    <2>1. Routed(routes[a], prefix)
        BY DEF IInv, UnderWay, Goto, prefix
    <2>2. TailoraDocs \in RouteType /\ TailoraDocs.name # "inspector"
        BY NamedRoutes
    <2>3. s \in Seq(RouteType) /\ Routed(s, prefix)
        BY <1>1, <2>1, <2>2, RoutedStays
    <2>4. routes' = [routes EXCEPT ![a] = s]
        OBVIOUS
    <2> HIDE DEF s
    <2> QED
        BY <2>3, <2>4, RoutesStep DEF prefix
<1> QED
    BY <1>2, <1>3, <1>4

LEMMA NoDefaultDocsStep ==
    ASSUME IInv, NEW a \in Apps, NoDefaultDocs(a)
    PROVE  IInv'
<1> USE DEF NoDefaultDocs, Goto, app
<1>1. pc[a] = "docs" /\ pc'[a] = "engine"
    BY DEF IInv, TypeOK
<1>2. TypeOK'
    BY <1>1 DEF IInv, TypeOK
<1>3. EnginesAreHooked'
    BY <1>1, EnginesStay DEF IInv, TypeOK
<1>4. Settled(a)' /\ UnderWay(a)' /\ Grows
    BY <1>1 DEF IInv, Settled, UnderWay, IsSound, Grows
<1> QED
    BY <1>2, <1>3, <1>4, OneStep DEF IInv, TypeOK

LEMMA RegisterEngineStep ==
    ASSUME IInv, NEW a \in Apps, RegisterEngine(a)
    PROVE  IInv'
<1> USE DEF RegisterEngine, Goto, app
<1>1. pc[a] = "engine" /\ pc'[a] = "record" /\ args'[a] = args[a]
    BY DEF IInv, TypeOK
<1>2. args[a].engine \in Engines \cup {NoEngine}
    BY <1>1 DEF IInv, UnderWay, IsSound, RegistrationType
<1>3. TypeOK'
    BY <1>1, <1>2 DEF IInv, TypeOK
<1>4. EnginesAreHooked'
    <2>1. \A b \in Apps : pc[b] = "record" => pc'[b] = "record" /\ args'[b] = args[b]
        BY <1>1 DEF IInv, TypeOK
    <2>2. ASSUME NEW e \in hooked'
          PROVE  \E b \in Apps : \/ registration'[b] # None /\ registration'[b].engine = e
                                 \/ pc'[b] = "record" /\ args'[b].engine = e
        <3>1. CASE e \in hooked
            BY <3>1, <2>1 DEF IInv, EnginesAreHooked
        <3>2. CASE e = args[a].engine
            BY <3>2, <1>1
        <3> QED
            BY <2>2, <3>1, <3>2
    <2>3. hooked \cup unhooked \subseteq hooked' \cup unhooked' \cup {NoEngine}
        OBVIOUS
    <2> QED
        BY <2>2, <2>3 DEF IInv, EnginesAreHooked
<1>5. Grows
    BY RegistrationAssumption DEF Grows, IInv, TypeOK
<1>6. Settled(a)' /\ UnderWay(a)'
    BY <1>1, <1>2 DEF IInv, Settled, UnderWay, IsSound
<1> QED
    BY <1>3, <1>4, <1>5, <1>6, OneStep DEF IInv, TypeOK

LEMMA RecordStep ==
    ASSUME IInv, NEW a \in Apps, RecordRegistration(a)
    PROVE  IInv'
<1> USE DEF RecordRegistration, Goto, Returns, app
<1>1. /\ pc[a] = "record" /\ pc'[a] = "idle" /\ registration[a] = None
      /\ registration'[a] = args[a] /\ returned'[a] = args[a].store
    BY DEF IInv, TypeOK, Settled
<1>2. /\ IsSound(a, args[a]) /\ Routed(routes[a], args[a].config.path_prefix)
      /\ user_middleware[a] = <<"tailora">>
      /\ args[a].engine \in hooked \cup unhooked \cup {NoEngine}
    BY <1>1 DEF IInv, UnderWay
<1>3. args[a] \in RegistrationType /\ args[a].store \in Stores
    BY <1>2 DEF IsSound, RegistrationType
<1>4. args[a] # None
    BY <1>3 DEF RegistrationType, None
<1>5. TypeOK'
    BY <1>3 DEF IInv, TypeOK
<1>6. EnginesAreHooked'
    <2>1. \A b \in Apps : b # a => /\ registration'[b] = registration[b]
                                   /\ pc'[b] = pc[b] /\ args'[b] = args[b]
        BY DEF IInv, TypeOK
    <2>2. ASSUME NEW b \in Apps, registration'[b] # None,
                 registration'[b].engine # NoEngine
          PROVE  registration'[b].engine \in hooked' \cup unhooked'
        BY <2>1, <2>2, <1>1, <1>2 DEF IInv, EnginesAreHooked
    <2>3. ASSUME NEW e \in hooked'
          PROVE  \E b \in Apps : \/ registration'[b] # None /\ registration'[b].engine = e
                                 \/ pc'[b] = "record" /\ args'[b].engine = e
        <3>1. PICK b \in Apps : \/ registration[b] # None /\ registration[b].engine = e
                                \/ pc[b] = "record" /\ args[b].engine = e
            BY <2>3 DEF IInv, EnginesAreHooked
        <3>2. CASE b = a
            BY <3>1, <3>2, <1>1, <1>4
        <3>3. CASE b # a
            BY <3>1, <3>3, <2>1
        <3> QED
            BY <3>2, <3>3
    <2> QED
        BY <2>2, <2>3 DEF EnginesAreHooked
<1>7. Settled(a)'
    BY <1>1, <1>2, <1>4 DEF IInv, Settled, IsSound
<1>8. UnderWay(a)' /\ Grows
    BY <1>1 DEF UnderWay, Grows
<1> QED
    BY <1>5, <1>6, <1>7, <1>8, OneStep DEF IInv, TypeOK

LEMMA RestoreStep ==
    ASSUME IInv, NEW a \in Apps, Restore(a)
    PROVE  IInv'
<1> USE DEF Restore
<1>1. pc[a] \notin {"idle", "record"}
    BY RegistrationAssumption DEF StepRaises
<1>2. /\ pc'[a] = "idle" /\ routes'[a] = host[a] /\ user_middleware'[a] = <<>>
      /\ registration[a] = None /\ snapshot[a] \in SnapshotType
    BY <1>1 DEF IInv, TypeOK, UnderWay, Settled, Restored
<1>3. snapshot[a].middleware_stack \in BOOLEAN
    BY <1>2 DEF SnapshotType
<1>4. TypeOK'
    <2>1. routes' \in [Apps -> Seq(RouteType)]
        BY <1>2 DEF IInv, TypeOK
    <2>2. user_middleware' \in [Apps -> Seq({"tailora"})]
        <3>1. snapshot[a].user_middleware \in Seq({"tailora"})
            BY <1>2 DEF SnapshotType
        <3> QED
            BY <3>1 DEF IInv, TypeOK
    <2>3. middleware_stack' \in [Apps -> BOOLEAN]
        BY <1>3 DEF IInv, TypeOK
    <2> QED
        BY <2>1, <2>2, <2>3 DEF IInv, TypeOK
<1>5. EnginesAreHooked'
    BY <1>1, EnginesStay DEF IInv, TypeOK
<1>6. Settled(a)' /\ UnderWay(a)' /\ Grows
    BY <1>2 DEF IInv, Settled, UnderWay, Grows
<1> QED
    BY <1>4, <1>5, <1>6, OneStep DEF IInv, TypeOK

-----------------------------------------------------------------------------
LEMMA InitIsGood == Init => IInv
<1> SUFFICES ASSUME Init PROVE IInv
    OBVIOUS
<1> USE DEF Init
<1>1. DefaultDocs \in RouteType /\ DefaultDocs.name = "swagger_ui_html"
    BY NamedRoutes
<1>2. \A a \in Apps : routes[a] = <<DefaultDocs>> \/ routes[a] = <<>>
    OBVIOUS
<1>3. /\ <<DefaultDocs>> \in Seq(RouteType) /\ <<>> \in Seq(RouteType)
      /\ DOMAIN <<DefaultDocs>> = {1} /\ <<DefaultDocs>>[1] = DefaultDocs
      /\ DOMAIN <<>> = {}
    BY <1>1
<1>4. TypeOK
    <2>1. routes \in [Apps -> Seq(RouteType)] /\ host \in [Apps -> Seq(RouteType)]
        BY <1>3
    <2>2. user_middleware \in [Apps -> Seq({"tailora"})]
        OBVIOUS
    <2> QED
        BY <2>1, <2>2 DEF TypeOK
<1>5. EnginesAreHooked
    BY DEF EnginesAreHooked
<1>6. ASSUME NEW a \in Apps PROVE Settled(a) /\ UnderWay(a)
    <2>1. Unrouted(host[a]) /\ DocsFirst(host[a])
        BY <1>1, <1>2, <1>3 DEF Unrouted, DocsFirst
    <2> QED
        BY <2>1 DEF Settled, UnderWay
<1> QED
    BY <1>4, <1>5, <1>6 DEF IInv

LEMMA StutterIsGood == IInv /\ UNCHANGED vars => IInv'
<1> SUFFICES ASSUME IInv, UNCHANGED vars PROVE IInv'
    OBVIOUS
<1> USE DEF vars, app, call
<1>1. TypeOK' /\ EnginesAreHooked'
    BY DEF IInv, TypeOK, EnginesAreHooked
<1>2. Grows
    BY DEF Grows
<1>3. \A b \in Apps : Settled(b)' /\ UnderWay(b)'
    BY <1>2, OthersStay DEF IInv
<1> QED
    BY <1>1, <1>3 DEF IInv

\* The inductive invariant holds in every state, whatever the applications ask
\* for and wherever a registration fails (_enable_with_config).
THEOREM Inductive == Spec => []IInv
<1>1. IInv /\ [Next]_vars => IInv'
    <2> SUFFICES ASSUME IInv, [Next]_vars PROVE IInv'
        OBVIOUS
    <2>1. ASSUME NEW a \in Apps, AddRoute(a) \/ Start(a) PROVE IInv'
        BY <2>1, HostStep
    <2>2. ASSUME NEW a \in Apps, NEW x \in Tried,
                 Reuse(a, x) \/ Disabled(a, x) \/ Begin(a, x)
          PROVE  IInv'
        BY <2>2, ReuseStep, DisabledStep, BeginStep
    <2>3. ASSUME NEW a \in Apps, AddMiddleware(a) PROVE IInv'
        BY <2>3, AddMiddlewareStep
    <2>4. ASSUME NEW a \in Apps, IncludeRouter(a) \/ RemoveDefaultDocs(a) \/ AddDocs(a)
          PROVE  IInv'
        BY <2>4, RouterStep
    <2>5. ASSUME NEW a \in Apps, NoDefaultDocs(a) PROVE IInv'
        BY <2>5, NoDefaultDocsStep
    <2>6. ASSUME NEW a \in Apps, RegisterEngine(a) PROVE IInv'
        BY <2>6, RegisterEngineStep
    <2>7. ASSUME NEW a \in Apps, RecordRegistration(a) PROVE IInv'
        BY <2>7, RecordStep
    <2>8. ASSUME NEW a \in Apps, Restore(a) PROVE IInv'
        BY <2>8, RestoreStep
    <2>9. ASSUME NEW s \in Stores, MakeStore(s) PROVE IInv'
        BY <2>9, MakeStoreStep
    <2>10. ASSUME NEW e \in Engines, Unregister(e) PROVE IInv'
        BY <2>10, UnregisterStep
    <2>11. CASE UNCHANGED vars
        BY <2>11, StutterIsGood
    <2> QED
        BY <2>1, <2>2, <2>3, <2>4, <2>5, <2>6, <2>7, <2>8, <2>9, <2>10, <2>11 DEF Next
<1> QED
    BY InitIsGood, <1>1, PTL DEF Spec

-----------------------------------------------------------------------------
(* What follows from it *)

\* Every variable keeps its type (the state enable_inspector keeps of an app).
THEOREM TypeCorrect == Spec => []TypeOK
<1>1. IInv => TypeOK
    BY DEF IInv
<1> QED
    BY <1>1, Inductive, PTL

\* _register_components and _restore_application: between calls an application
\* has middleware, router and registration, once each, or none of them.
THEOREM RegistersWhollyOrNot == Spec => []AllOrNothing
<1>1. IInv => AllOrNothing
    <2> SUFFICES ASSUME IInv, NEW a \in Apps, pc[a] = "idle"
                 PROVE  LET times == IF registration[a] = None THEN 0 ELSE 1 IN
                        /\ Len(user_middleware[a]) = times
                        /\ Cardinality(Named(a, "inspector")) = times
                        /\ registration[a] # None =>
                              Inspector(registration[a].config.path_prefix)
                                  \in ToSet(routes[a])
        BY DEF AllOrNothing
    <2>1. Settled(a)
        BY DEF IInv
    <2>2. CASE registration[a] = None
        <3>1. Named(a, "inspector") = {}
            BY <2>1, <2>2, NamedRoutes DEF Settled, Unrouted, Named
        <3>2. Len(user_middleware[a]) = 0
            BY <2>1, <2>2 DEF Settled
        <3> QED
            BY <2>2, <3>1, <3>2, FS_EmptySet
    <2>3. CASE registration[a] # None
        <3> DEFINE prefix == registration[a].config.path_prefix
        <3>1. Routed(routes[a], prefix) /\ user_middleware[a] = <<"tailora">>
            BY <2>1, <2>3 DEF Settled
        <3> HIDE DEF prefix
        <3>2. PICK k \in DOMAIN routes[a] :
                /\ routes[a][k] = Inspector(prefix)
                /\ \A i \in DOMAIN routes[a] : routes[a][i].name = "inspector" => i = k
            BY <3>1 DEF Routed
        <3>3. routes[a][k].name = "inspector"
            BY <3>2 DEF Inspector, Route
        <3>4. Named(a, "inspector") = {k}
            BY <3>2, <3>3 DEF Named
        <3>5. Len(user_middleware[a]) = 1
            BY <3>1
        <3>6. Inspector(prefix) \in ToSet(routes[a])
            BY <3>2 DEF ToSet
        <3> QED
            BY <2>3, <3>4, <3>5, <3>6, FS_Singleton DEF prefix
    <2> QED
        BY <2>2, <2>3
<1> QED
    BY <1>1, Inductive, PTL

\* There is a first one among positions.
LEMMA LeastOne ==
    ASSUME NEW S, S \subseteq Nat, S # {}
    PROVE  \E m \in S : \A j \in S : m <= j
<1> DEFINE R == {p \in Nat \X Nat : p[1] < p[2]}
<1>1. IsWellFoundedOn(R, Nat)
    BY NatLessThanWellFounded DEF OpToRel
<1>2. \A j, m \in Nat : j < m => <<j, m>> \in R
    OBVIOUS
<1> HIDE DEF R
<1>3. PICK m \in S : \A j \in S : <<j, m>> \notin R
    BY <1>1, WFMin
<1>4. ASSUME NEW j \in S PROVE m <= j
    <2>1. j \in Nat /\ m \in Nat /\ ~(j < m)
        BY <1>2, <1>3
    <2> QED
        BY <2>1
<1> QED
    BY <1>4

\* _ensure_prefix_is_available: every page of the Inspector is answered by the
\* Inspector, whatever routes the host adds before or after, but for pages that an
\* earlier route matches in which the check finds no conflict (__init__.py:130-144).
THEOREM InspectorIsReached == Spec => []InspectorAnswers
<1>1. IInv => InspectorAnswers
    <2> SUFFICES ASSUME IInv, NEW a \in Apps, registration[a] # None, NEW page \in Pages
                 PROVE  LET prefix == registration[a].config.path_prefix IN
                        \E r \in Answering(a, <<prefix, page>>) :
                            \/ r.name = "inspector"
                            \/ r.name = "host" /\ ~Conflicts(r, prefix)
        BY DEF InspectorAnswers
    <2> DEFINE prefix == registration[a].config.path_prefix
               path == <<prefix, page>>
               matching == {i \in DOMAIN routes[a] : path \in routes[a][i].answers}
    <2>1. Routed(routes[a], prefix) /\ routes[a] \in Seq(RouteType) /\ prefix \in PathPrefixes
        BY DEF IInv, Settled, TypeOK, IsSound, RegistrationType, ConfigType
    <2>2. path # Docs
        BY <2>1, RegistrationAssumption DEF Docs
    <2> HIDE DEF prefix
    <2>3. PICK k \in DOMAIN routes[a] :
            /\ routes[a][k] = Inspector(prefix)
            /\ \A i \in DOMAIN routes[a] : i < k =>
                  /\ ~Conflicts(routes[a][i], prefix)
                  /\ routes[a][i].name = "host" \/ routes[a][i] = DefaultDocs
        BY <2>1 DEF Routed
    <2>4. path \in routes[a][k].answers /\ routes[a][k].name = "inspector"
        BY <2>3 DEF Inspector, Route
    <2>5. DefaultDocs.answers = {Docs}
        BY DEF DefaultDocs, Route
    <2>6. DOMAIN routes[a] \subseteq Nat /\ k \in matching
        BY <2>1, <2>4
    <2> HIDE DEF path
    <2>7. PICK m \in matching : \A j \in matching : m <= j
        BY <2>6, LeastOne
    <2>8. m \in DOMAIN routes[a] /\ path \in routes[a][m].answers /\ m <= k
        BY <2>6, <2>7
    <2>9. routes[a][m] \in Answering(a, path)
        BY <2>7 DEF Answering
    <2>10. CASE m = k
        <3>1. routes[a][m].name = "inspector"
            BY <2>4, <2>10
        <3> QED
            BY <2>9, <3>1 DEF prefix, path
    <2>11. CASE m # k
        <3>1. m < k
            BY <2>6, <2>8, <2>11
        <3>2. routes[a][m] # DefaultDocs
            BY <2>2, <2>5, <2>8 DEF path
        <3>3. routes[a][m].name = "host" /\ ~Conflicts(routes[a][m], prefix)
            BY <2>3, <2>8, <3>1, <3>2
        <3> QED
            BY <2>9, <3>3 DEF prefix, path
    <2> QED
        BY <2>10, <2>11
<1> QED
    BY <1>1, Inductive, PTL

\* _register_engine: the engine of a registered Inspector stays hooked until the
\* host unregisters it, and a failed registration leaves none behind.
THEOREM EnginesStayHooked == Spec => []EnginesAreHooked
<1>1. IInv => EnginesAreHooked
    BY DEF IInv
<1> QED
    BY <1>1, Inductive, PTL

\* _enable_with_config: the caller's store is the one that is written and given
\* back, with the capacity asked for.
THEOREM StoreIsTheCallers == Spec => []StoreIsCaptured
<1>1. IInv => StoreIsCaptured
    BY DEF IInv, Settled, IsSound, StoreIsCaptured
<1> QED
    BY <1>1, Inductive, PTL

-----------------------------------------------------------------------------
(* The routes of the host *)

LEMMA SameAlready == ASSUME NEW s PROVE SameHosts(s, s)
<1> DEFINE f == [i \in HostsIn(s) |-> i]
<1>1. /\ f \in [HostsIn(s) -> HostsIn(s)] /\ {f[i] : i \in HostsIn(s)} = HostsIn(s)
      /\ \A i \in HostsIn(s) : s[f[i]] = s[i]
      /\ \A i, j \in HostsIn(s) : i < j => f[i] < f[j]
    OBVIOUS
<1> HIDE DEF f
<1> QED
    BY <1>1 DEF SameHosts

\* A route that is not the host's goes to the end.
LEMMA SameWithOther ==
    ASSUME NEW s \in Seq(RouteType), NEW t \in Seq(RouteType), NEW r \in RouteType,
           r.name # "host", SameHosts(s, t)
    PROVE  SameHosts(s, Append(t, r))
<1> DEFINE u == Append(t, r)
<1>1. /\ DOMAIN u = 1..Len(t) + 1 /\ DOMAIN t = 1..Len(t) /\ Len(t) \in Nat
      /\ \A i \in DOMAIN t : u[i] = t[i]
      /\ u[Len(t) + 1] = r
    BY Appended
<1> HIDE DEF u
<1>2. HostsIn(u) = HostsIn(t)
    BY <1>1 DEF HostsIn
<1>3. PICK f \in [HostsIn(s) -> HostsIn(t)] :
        /\ {f[i] : i \in HostsIn(s)} = HostsIn(t)
        /\ \A i \in HostsIn(s) : t[f[i]] = s[i]
        /\ \A i, j \in HostsIn(s) : i < j => f[i] < f[j]
    BY DEF SameHosts
<1>4. \A i \in HostsIn(s) : u[f[i]] = s[i]
    BY <1>1, <1>3 DEF HostsIn
<1>5. SameHosts(s, u)
    BY <1>2, <1>3, <1>4 DEF SameHosts
<1> QED
    BY <1>5 DEF u

\* The host adds a route: the same one with the Inspector as without.
LEMMA SameWithHost ==
    ASSUME NEW s \in Seq(RouteType), NEW t \in Seq(RouteType), NEW r \in RouteType,
           r.name = "host", SameHosts(s, t)
    PROVE  SameHosts(Append(s, r), Append(t, r))
<1> DEFINE m == Len(s) + 1
           n == Len(t) + 1
           v == Append(s, r)
           u == Append(t, r)
<1>1. /\ DOMAIN v = 1..m /\ DOMAIN s = 1..Len(s) /\ Len(s) \in Nat
      /\ \A i \in DOMAIN s : v[i] = s[i]
      /\ v[m] = r
    BY Appended
<1>2. /\ DOMAIN u = 1..n /\ DOMAIN t = 1..Len(t) /\ Len(t) \in Nat
      /\ \A i \in DOMAIN t : u[i] = t[i]
      /\ u[n] = r
    BY Appended
<1> HIDE DEF u, v
<1>3. /\ HostsIn(v) = HostsIn(s) \cup {m} /\ \A i \in HostsIn(s) : i \in Int /\ i < m
      /\ HostsIn(u) = HostsIn(t) \cup {n} /\ \A i \in HostsIn(t) : i \in Int /\ i < n
      /\ \A i \in HostsIn(s) : v[i] = s[i]
      /\ \A i \in HostsIn(t) : u[i] = t[i]
      /\ m \in Int /\ n \in Int
    BY <1>1, <1>2 DEF HostsIn
<1> HIDE DEF m, n
<1>4. PICK f \in [HostsIn(s) -> HostsIn(t)] :
        /\ {f[i] : i \in HostsIn(s)} = HostsIn(t)
        /\ \A i \in HostsIn(s) : t[f[i]] = s[i]
        /\ \A i, j \in HostsIn(s) : i < j => f[i] < f[j]
    BY DEF SameHosts
<1> DEFINE g == [i \in HostsIn(v) |-> IF i = m THEN n ELSE f[i]]
<1>5. /\ g \in [HostsIn(v) -> HostsIn(u)] /\ g[m] = n
      /\ \A i \in HostsIn(s) : g[i] = f[i]
    BY <1>3, <1>4
<1> HIDE DEF g
<1>6. {g[i] : i \in HostsIn(v)} = HostsIn(u)
    <2>1. {g[i] : i \in HostsIn(v)} = {g[i] : i \in HostsIn(s)} \cup {n}
        BY <1>3, <1>5
    <2>2. {g[i] : i \in HostsIn(s)} = {f[i] : i \in HostsIn(s)}
        BY <1>5
    <2> QED
        BY <1>3, <1>4, <2>1, <2>2
<1>7. \A i \in HostsIn(v) : u[g[i]] = v[i]
    BY <1>1, <1>2, <1>3, <1>4, <1>5
<1>8. \A i, j \in HostsIn(v) : i < j => g[i] < g[j]
    <2> SUFFICES ASSUME NEW i \in HostsIn(v), NEW j \in HostsIn(v), i < j
                 PROVE  g[i] < g[j]
        OBVIOUS
    <2>1. i \in HostsIn(s) /\ g[i] = f[i] /\ f[i] \in HostsIn(t)
        BY <1>3, <1>4, <1>5
    <2>2. CASE j = m
        BY <1>3, <1>5, <2>1, <2>2
    <2>3. CASE j # m
        BY <1>3, <1>4, <1>5, <2>1, <2>3
    <2> QED
        BY <2>2, <2>3
<1>9. SameHosts(v, u)
    BY <1>5, <1>6, <1>7, <1>8 DEF SameHosts
<1> QED
    BY <1>9 DEF u, v

\* The docs route is taken out from before them.
LEMMA SameWithoutDocs ==
    ASSUME NEW s \in Seq(RouteType), NEW t \in Seq(RouteType), DocsFirst(t),
           DefaultDocs \in ToSet(t), SameHosts(s, t)
    PROVE  SameHosts(s, RemoveFirst(t, DefaultDocs))
<1> DEFINE u == RemoveFirst(t, DefaultDocs)
<1>1. /\ u \in Seq(RouteType) /\ Len(u) = Len(t) - 1
      /\ \A i \in 1..Len(t) - 1 : u[i] = t[i + 1]
      /\ Len(t) \in Nat \ {0} /\ t[1] = DefaultDocs
    BY DocsRemoved
<1> HIDE DEF u
<1>2. DOMAIN t = 1..Len(t) /\ DOMAIN u = 1..Len(t) - 1 /\ DOMAIN s \subseteq Int
    BY <1>1
<1>3. 1 \notin HostsIn(t)
    BY <1>1, NamedRoutes DEF HostsIn
<1>4. ASSUME NEW i \in HostsIn(t)
      PROVE  i \in Int /\ i - 1 \in HostsIn(u) /\ u[i - 1] = t[i]
    <2>1. i \in 1..Len(t) /\ t[i].name = "host" /\ i # 1
        BY <1>2, <1>3 DEF HostsIn
    <2>2. i \in Int /\ i - 1 \in 1..Len(t) - 1 /\ (i - 1) + 1 = i
        BY <1>1, <2>1
    <2>3. u[i - 1] = t[i]
        BY <1>1, <2>2
    <2> QED
        BY <1>2, <2>1, <2>2, <2>3 DEF HostsIn
<1>5. ASSUME NEW k \in HostsIn(u)
      PROVE  k + 1 \in HostsIn(t) /\ k = (k + 1) - 1
    <2>1. k \in 1..Len(t) - 1 /\ u[k].name = "host"
        BY <1>2 DEF HostsIn
    <2>2. k + 1 \in 1..Len(t) /\ k = (k + 1) - 1
        BY <1>1, <2>1
    <2> QED
        BY <1>1, <1>2, <2>1, <2>2 DEF HostsIn
<1>6. PICK f \in [HostsIn(s) -> HostsIn(t)] :
        /\ {f[i] : i \in HostsIn(s)} = HostsIn(t)
        /\ \A i \in HostsIn(s) : t[f[i]] = s[i]
        /\ \A i, j \in HostsIn(s) : i < j => f[i] < f[j]
    BY DEF SameHosts
<1> DEFINE g == [i \in HostsIn(s) |-> f[i] - 1]
<1>7. g \in [HostsIn(s) -> HostsIn(u)] /\ \A i \in HostsIn(s) : g[i] = f[i] - 1
    BY <1>4, <1>6
<1> HIDE DEF g
<1>8. {g[i] : i \in HostsIn(s)} = HostsIn(u)
    <2>1. ASSUME NEW k \in HostsIn(u)
          PROVE  \E i \in HostsIn(s) : g[i] = k
        <3>1. PICK i \in HostsIn(s) : f[i] = k + 1
            BY <1>5, <1>6
        <3> QED
            BY <1>5, <1>7, <3>1
    <2> QED
        BY <1>7, <2>1
<1>9. \A i \in HostsIn(s) : u[g[i]] = s[i]
    BY <1>4, <1>6, <1>7
<1>10. \A i, j \in HostsIn(s) : i < j => g[i] < g[j]
    BY <1>4, <1>6, <1>7
<1>11. SameHosts(s, u)
    BY <1>7, <1>8, <1>9, <1>10 DEF SameHosts
<1> QED
    BY <1>11 DEF u

LEMMA SetOfAppended ==
    ASSUME NEW s \in Seq(RouteType), NEW r \in RouteType
    PROVE  ToSet(Append(s, r)) = ToSet(s) \cup {r}
<1> DEFINE t == Append(s, r)
<1>1. /\ DOMAIN t = 1..Len(s) + 1 /\ DOMAIN s = 1..Len(s) /\ Len(s) \in Nat
      /\ \A i \in DOMAIN s : t[i] = s[i]
      /\ t[Len(s) + 1] = r
    BY Appended
<1> HIDE DEF t
<1>2. DOMAIN t = DOMAIN s \cup {Len(s) + 1}
    BY <1>1
<1>3. {t[i] : i \in DOMAIN t} = {s[i] : i \in DOMAIN s} \cup {r}
    BY <1>1, <1>2
<1> QED
    BY <1>3 DEF ToSet, t

LEMMA SetWithoutDocs ==
    ASSUME NEW t \in Seq(RouteType), DocsFirst(t), DefaultDocs \in ToSet(t)
    PROVE  ToSet(RemoveFirst(t, DefaultDocs)) = ToSet(t) \ {DefaultDocs}
<1> DEFINE u == RemoveFirst(t, DefaultDocs)
<1>1. /\ u \in Seq(RouteType) /\ Len(u) = Len(t) - 1
      /\ \A i \in 1..Len(t) - 1 : u[i] = t[i + 1]
      /\ Len(t) \in Nat \ {0} /\ t[1] = DefaultDocs
    BY DocsRemoved
<1> HIDE DEF u
<1>2. DOMAIN t = 1..Len(t) /\ DOMAIN u = 1..Len(t) - 1
    BY <1>1
<1>3. ASSUME NEW i \in DOMAIN u
      PROVE  u[i] \in ToSet(t) \ {DefaultDocs}
    <2>1. i + 1 \in DOMAIN t /\ i + 1 # 1 /\ u[i] = t[i + 1]
        BY <1>1, <1>2
    <2> QED
        BY <2>1 DEF ToSet, DocsFirst
<1>4. ASSUME NEW i \in DOMAIN t, t[i] # DefaultDocs
      PROVE  \E k \in DOMAIN u : u[k] = t[i]
    <2>1. i # 1
        BY <1>1, <1>4
    <2>2. i - 1 \in DOMAIN u /\ (i - 1) + 1 = i
        BY <1>1, <1>2, <2>1
    <2> QED
        BY <1>1, <1>2, <2>2
<1>5. ToSet(u) = ToSet(t) \ {DefaultDocs}
    BY <1>3, <1>4 DEF ToSet
<1> QED
    BY <1>5 DEF u

\* The docs routes are told apart from each other and from the host's.
LEMMA RoutesDiffer ==
    /\ DefaultDocs # TailoraDocs /\ TailoraDocs.name # "host"
    /\ \A r \in HostRoutes : r.name = "host" /\ r \notin {DefaultDocs, TailoraDocs}
    /\ \A prefix \in PathPrefixes :
          Inspector(prefix) \notin {DefaultDocs, TailoraDocs} /\ Inspector(prefix).name # "host"
BY NamedRoutes, RegistrationAssumption

\* A step that leaves an application's routes and registration alone.
LEMMA KeptStays ==
    ASSUME NEW b \in Apps, Kept(b), routes'[b] = routes[b], host'[b] = host[b],
           registration'[b] = registration[b], pc'[b] = pc[b]
    PROVE  Kept(b)'
BY DEF Kept

LEMMA KeptByRouter ==
    ASSUME IInv, NEW a \in Apps, Kept(a), IncludeRouter(a)
    PROVE  Kept(a)'
<1> DEFINE r == Inspector(args[a].config.path_prefix)
<1>1. /\ pc[a] = "router" /\ pc'[a] = "docs" /\ UNCHANGED <<host, registration>>
      /\ routes'[a] = Append(routes[a], r)
    BY DEF IInv, TypeOK, IncludeRouter, Goto
<1>2. routes[a] = host[a] /\ host[a] \in Seq(RouteType) /\ r \in RouteType
    <2>1. routes[a] = host[a] /\ host[a] \in Seq(RouteType) /\ args[a] \in RegistrationType
        BY <1>1 DEF IInv, TypeOK, UnderWay, IsSound
    <2>2. args[a].config.path_prefix \in PathPrefixes
        BY <2>1 DEF RegistrationType, ConfigType
    <2> QED
        BY <2>1, <2>2, NamedRoutes
<1>3. r.name # "host" /\ r # DefaultDocs /\ r # TailoraDocs
    <2>1. args[a].config.path_prefix \in PathPrefixes
        BY <1>1 DEF IInv, UnderWay, IsSound, RegistrationType, ConfigType
    <2> QED
        BY <2>1, RoutesDiffer
<1> HIDE DEF r
<1>4. SameHosts(host'[a], routes'[a])
    BY <1>1, <1>2, <1>3, SameAlready, SameWithOther
<1>5. ToSet(routes'[a]) = ToSet(host[a]) \cup {r}
    BY <1>1, <1>2, SetOfAppended
<1> QED
    BY <1>1, <1>3, <1>4, <1>5 DEF Kept

LEMMA KeptByDocs ==
    ASSUME IInv, NEW a \in Apps, Kept(a),
           RemoveDefaultDocs(a) \/ NoDefaultDocs(a) \/ AddDocs(a)
    PROVE  Kept(a)'
<1> USE DEF Goto
<1>1. routes[a] \in Seq(RouteType) /\ host[a] \in Seq(RouteType)
    BY DEF IInv, TypeOK
<1>2. TailoraDocs # DefaultDocs /\ TailoraDocs.name # "host"
    BY RoutesDiffer
<1>3. CASE RemoveDefaultDocs(a)
    <2>1. /\ pc[a] = "docs" /\ pc'[a] = "add_docs" /\ UNCHANGED <<host, registration>>
          /\ routes'[a] = RemoveFirst(routes[a], DefaultDocs)
          /\ DefaultDocs \in ToSet(routes[a])
        BY <1>3 DEF IInv, TypeOK, RemoveDefaultDocs
    <2>2. DocsFirst(routes[a])
        BY <2>1 DEF IInv, UnderWay
    <2>3. SameHosts(host'[a], routes'[a])
        BY <1>1, <2>1, <2>2, SameWithoutDocs DEF Kept
    <2>4. ToSet(routes'[a]) = ToSet(routes[a]) \ {DefaultDocs}
        BY <1>1, <2>1, <2>2, SetWithoutDocs
    <2> QED
        BY <1>2, <2>1, <2>3, <2>4 DEF Kept
<1>4. CASE NoDefaultDocs(a)
    <2>1. /\ pc[a] = "docs" /\ pc'[a] = "engine" /\ UNCHANGED <<host, registration, routes>>
          /\ DefaultDocs \notin ToSet(routes[a])
        BY <1>4 DEF IInv, TypeOK, NoDefaultDocs, app
    <2> QED
        BY <2>1 DEF Kept
<1>5. CASE AddDocs(a)
    <2>1. /\ pc[a] = "add_docs" /\ pc'[a] = "engine" /\ UNCHANGED <<host, registration>>
          /\ routes'[a] = Append(routes[a], TailoraDocs)
        BY <1>5 DEF IInv, TypeOK, AddDocs
    <2>2. TailoraDocs \in RouteType
        BY NamedRoutes
    <2>3. SameHosts(host'[a], routes'[a])
        BY <1>1, <1>2, <2>1, <2>2, SameWithOther DEF Kept
    <2>4. ToSet(routes'[a]) = ToSet(routes[a]) \cup {TailoraDocs}
        BY <1>1, <2>1, <2>2, SetOfAppended
    <2> QED
        BY <1>2, <2>1, <2>3, <2>4 DEF Kept
<1> QED
    BY <1>3, <1>4, <1>5

LEMMA KeptByHost ==
    ASSUME IInv, NEW a \in Apps, Kept(a), AddRoute(a)
    PROVE  Kept(a)'
<1>1. PICK r \in HostRoutes :
        /\ routes' = [routes EXCEPT ![a] = Append(@, r)]
        /\ host' = [host EXCEPT ![a] = Append(@, r)]
    BY DEF AddRoute
<1>2. r \in RouteType /\ r.name = "host" /\ r # DefaultDocs /\ r # TailoraDocs
    BY RegistrationAssumption, RoutesDiffer
<1>3. /\ routes'[a] = Append(routes[a], r) /\ host'[a] = Append(host[a], r)
      /\ routes[a] \in Seq(RouteType) /\ host[a] \in Seq(RouteType)
    BY <1>1 DEF IInv, TypeOK
<1>4. /\ ToSet(routes'[a]) = ToSet(routes[a]) \cup {r}
      /\ ToSet(host'[a]) = ToSet(host[a]) \cup {r}
    BY <1>2, <1>3, SetOfAppended
<1>5. SameHosts(host[a], routes[a]) => SameHosts(host'[a], routes'[a])
    BY <1>2, <1>3, SameWithHost
<1>6. UNCHANGED <<registration, pc>>
    BY DEF AddRoute, call
<1> QED
    BY <1>2, <1>4, <1>5, <1>6 DEF Kept

LEMMA KeptStep == KeptInv /\ [Next]_vars => (\A a \in Apps : Kept(a))'
<1> SUFFICES ASSUME KeptInv, [Next]_vars, NEW b \in Apps
             PROVE  Kept(b)'
    OBVIOUS
<1> USE DEF Goto, app, call
<1>0. IInv /\ TypeOK /\ Kept(b) /\ Settled(b)
    BY DEF KeptInv, IInv
<1>1. ASSUME NEW a \in Apps, AddRoute(a)
      PROVE  Kept(b)'
    <2>1. CASE a # b
        BY <1>0, <1>1, <2>1, KeptStays DEF AddRoute, TypeOK
    <2>2. CASE a = b
        BY <1>0, <1>1, <2>2, KeptByHost
    <2> QED
        BY <2>1, <2>2
<1>2. ASSUME NEW a \in Apps, NEW x \in Tried, Reuse(a, x) \/ Disabled(a, x)
      PROVE  Kept(b)'
    BY <1>0, <1>2, KeptStays DEF Reuse, Disabled
<1>3. ASSUME NEW a \in Apps, (\E x \in Tried : Begin(a, x)) \/ AddMiddleware(a) \/ Restore(a)
      PROVE  Kept(b)'
    <2>1. CASE a # b
        BY <1>0, <1>3, <2>1, KeptStays DEF Begin, AddMiddleware, Restore, TypeOK
    <2>2. CASE a = b
        <3>1. /\ UNCHANGED <<host, registration>>
              /\ pc'[b] \in {"middleware", "router", "idle"}
            BY <1>0, <1>3, <2>2 DEF Begin, AddMiddleware, Restore, TypeOK
        <3>2. registration[b] = None
            BY <1>0, <1>3, <2>2, RegistrationAssumption
               DEF Begin, AddMiddleware, Restore, StepRaises, IsRegistered, Settled
        <3> QED
            BY <1>0, <3>1, <3>2 DEF Kept
    <2> QED
        BY <2>1, <2>2
<1>4. ASSUME NEW a \in Apps,
             IncludeRouter(a) \/ RemoveDefaultDocs(a) \/ NoDefaultDocs(a) \/ AddDocs(a)
      PROVE  Kept(b)'
    <2>1. CASE a # b
        BY <1>0, <1>4, <2>1, KeptStays
           DEF IncludeRouter, RemoveDefaultDocs, NoDefaultDocs, AddDocs, TypeOK
    <2>2. CASE a = b
        BY <1>0, <1>4, <2>2, KeptByRouter, KeptByDocs
    <2> QED
        BY <2>1, <2>2
<1>5. ASSUME NEW a \in Apps, RegisterEngine(a) \/ RecordRegistration(a)
      PROVE  Kept(b)'
    <2>1. CASE a # b
        BY <1>0, <1>5, <2>1, KeptStays DEF RegisterEngine, RecordRegistration, TypeOK
    <2>2. CASE a = b
        <3>1. /\ pc[b] \in {"engine", "record"} /\ pc'[b] \in {"record", "idle"}
              /\ UNCHANGED <<routes, host>>
            BY <1>0, <1>5, <2>2 DEF RegisterEngine, RecordRegistration, TypeOK
        <3> QED
            BY <1>0, <3>1 DEF Kept
    <2> QED
        BY <2>1, <2>2
<1>6. CASE \/ \E a \in Apps : Start(a)
           \/ \E s \in Stores : MakeStore(s)
           \/ \E e \in Engines : Unregister(e)
           \/ UNCHANGED vars
    BY <1>0, <1>6, KeptStays DEF Start, MakeStore, Unregister, vars
<1> QED
    BY <1>1, <1>2, <1>3, <1>4, <1>5, <1>6 DEF Next

\* install_tailora_docs and _restore_application: the host keeps its routes, in
\* their order, and has a docs page if and only if it had one, whatever step of
\* the registration fails and whatever it adds later (docs.py:29-61,
\* __init__.py:308-313).
THEOREM HostKeepsItsRoutes == Spec => []RoutesAreKept
<1>1. Init => \A a \in Apps : Kept(a)
    <2> SUFFICES ASSUME Init, NEW a \in Apps
                 PROVE  Kept(a)
        OBVIOUS
    <2>1. host[a] = <<DefaultDocs>> \/ host[a] = <<>>
        BY DEF Init
    <2>2. ToSet(<<DefaultDocs>>) = {DefaultDocs} /\ ToSet(<<>>) = {}
        BY DEF ToSet
    <2>3. TailoraDocs \notin ToSet(host[a])
        BY <2>1, <2>2, RoutesDiffer
    <2> QED
        BY <2>3 DEF Init, Kept
<1>2. KeptInv => RoutesAreKept
    <2> SUFFICES ASSUME KeptInv, NEW a \in Apps, pc[a] = "idle"
                 PROVE  IF registration[a] = None THEN routes[a] = host[a]
                        ELSE /\ SameHosts(host[a], routes[a])
                             /\ DefaultDocs \notin ToSet(routes[a])
                             /\ TailoraDocs \in ToSet(routes[a])
                                    <=> DefaultDocs \in ToSet(host[a])
        BY DEF RoutesAreKept
    <2>1. Settled(a) /\ Kept(a)
        BY DEF KeptInv, IInv
    <2> QED
        BY <2>1 DEF Settled, Kept
<1> QED
    BY Inductive, <1>1, <1>2, KeptStep, PTL DEF Spec, KeptInv
=============================================================================
