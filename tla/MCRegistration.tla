--------------------------- MODULE MCRegistration ---------------------------
(* Registration for TLC: the routes the host adds, the calls that are tried *)
(* and a bound on how much of them is combined.                             *)
EXTENDS Registration, TLC

Host(under, accepts, answers) == Route("host", under, accepts, answers)
List == PathPrefixes \X {"/requests"}

\* One route away from the Inspector, one at a page of it, one that takes every
\* path, and "/{section}/requests", of which the check sees nothing.
AroundInspector ==
    {Host({}, {}, {}), Host(PathPrefixes, {}, List),
     Host({}, PathPrefixes \X Probed, Paths), Host({}, {}, List)}

\* With the docs page at "/developer/docs": one route that answers its URL too,
\* as "/developer/{page}" does.
AcceptsDocs == {Host({}, {}, {Docs})}

\* The calls of a developer's machine, with every object they may share, and
\* what decides whether an Inspector is allowed, without objects.
Local(x) == x.environment = "local" /\ ~x.allow_in_production /\ ~x.access_check
            /\ ~x.dependencies
Plain(x) == x.store = NoStore /\ x.engine = NoEngine /\ x.store_capacity = 0

LocalCalls == {x \in Args : Local(x) /\ x.store_capacity = 0}
Tries == {x \in Args : Local(x) \/ Plain(x)}

\* Either one application is set up while nothing has been asked of the others, or
\* they share stores and the engine on a developer's machine, without host routes.
Asked(a) == {args[a], registration[a]} \ {NoArgs, None}
IsIdle(a) == routes[a] = <<>> /\ Asked(a) = {} /\ {passed[a], returned[a]} = {NoStore}
             /\ ~middleware_stack[a]

Bound ==
    \/ \E a \in Apps : \A b \in Apps \ {a} : IsIdle(b)
    \/ \A a \in Apps :
          /\ HostsIn(host[a]) = {}
          /\ \A r \in Asked(a) : /\ r.config.environment = "local"
                                /\ ~r.config.access_check /\ ~r.dependencies

Symmetry == Permutations(Apps) \cup Permutations(Stores)
=============================================================================
