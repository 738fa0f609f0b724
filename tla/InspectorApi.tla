---------------------------- MODULE InspectorApi ----------------------------
(* adapters/fastapi/api.py and security.py: a client of the Inspector's     *)
(* HTTP API, while the application goes on recording requests.              *)
(*                                                                          *)
(* The handlers only read the event store, so the answers to one client do  *)
(* not depend on those to another: there is one client, which sends one     *)
(* request after the other.  Each handler runs in a worker thread: what it  *)
(* reads of the store in one critical section is one action, and the store  *)
(* may change between two.                                                  *)
(*                                                                          *)
(* A scenario says what the application does, how the Inspector is set up   *)
(* and what the client asks for.  The requests of the application are       *)
(* numbered in the order in which they end; the number is the request id.   *)
EXTENDS EventSeqs, Signals

CONSTANTS
    Scenarios,       \* what may happen: see ScenarioType
    Capacity,        \* the store's capacity
    MaxLimit,        \* api_max_limit
    DefaultLength,   \* max_statement_length of the default redaction policy
    Routes           \* route templates of the application

Guards == {"dependency", "hook"}

\* A statement is a sequence of segments of SQL, each with its text and with
\* what may be shown of it.
Segments == [text: Seq(STRING), safe: Seq(STRING)]
Queries == [sql: Seq(Segments), dialect: STRING, duration_ms: Nat]
\* The statement itself.
Text(query) == FlattenSeq([k \in DOMAIN query.sql |-> query.sql[k].text])

Captures == [route_template: Routes, duration_ms: Nat, queries: Seq(Queries)]

Requests ==
    [kind: {"health", "docs"}]
    \cup [kind: {"list", "aggregates"}, limit: Int]
    \cup [kind: {"detail"}, request_id: Nat]       \* 0: an id nobody has
    \cup [kind: {"asset"}, known: BOOLEAN]

ThresholdNames == {"slow_request_ms", "slow_query_ms", "duplicate_query_threshold",
                   "query_heavy_count", "query_heavy_time_ms"}

ScenarioType ==
    [captures: Seq(Captures), requests: SUBSET Requests, guards: SUBSET Guards,
     policy: [max_statement_length: Nat, max_queries_per_request: Nat],
     thresholds: [ThresholdNames -> Nat]]

ASSUME ApiAssumption ==
    /\ Capacity \in Nat \ {0} /\ MaxLimit \in Nat \ {0}
    /\ DefaultLength \in Nat /\ DefaultLength >= Len(TRUNCATION_MARKER)
    /\ \A s \in Scenarios :
        /\ s \in ScenarioType
        /\ s.policy.max_statement_length >= Len(TRUNCATION_MARKER)
        /\ \A n \in DOMAIN s.captures : \A i \in DOMAIN s.captures[n].queries :
                IsNonBlank(Text(s.captures[n].queries[i]))

VARIABLES
    scenario,
    events, recorded,   \* the store, oldest first; how many requests have ended
    phase,              \* where the client's request is
    request, verdict,   \* it, and what access control said of it
    selected,           \* list_requests: what it read first
    response,           \* the last answer
    seen                \* the stores there were since the request came

app == <<events, recorded>>
vars == <<scenario, app, phase, request, verdict, selected, response, seen>>

NoRequest == [kind |-> "none"]
NoVerdict == [dependency |-> "none", hook |-> "none"]
NoResponse == [status |-> 0, body |-> [kind |-> "none"]]

Init ==
    /\ scenario \in Scenarios
    /\ events = <<>> /\ recorded = 0
    /\ phase = "idle" /\ request = NoRequest /\ verdict = NoVerdict
    /\ selected = <<>> /\ response = NoResponse /\ seen = <<>>

-----------------------------------------------------------------------------
(* The application *)

\* What the hooks and the request context collected of a request: its first
\* queries, and the totals of all of them.
RequestEvent(n) ==
    LET c == scenario.captures[n]
        kept == Min({Len(c.queries), scenario.policy.max_queries_per_request})
    IN  [request_id     |-> n,
         route_template |-> c.route_template,
         duration_ms    |-> c.duration_ms,
         queries |-> [i \in 1..kept |->
            CapturedQuery(Text(c.queries[i]), c.queries[i].dialect,
                          c.queries[i].duration_ms, DefaultLength)],
         total_query_count   |-> Len(c.queries),
         total_query_time_ms |-> Total(c.queries, LAMBDA q : q.duration_ms)]

\* _safe_store_event
StoredEvent(n) == redact_event(RequestEvent(n), scenario.policy)

\* The client's request has seen the store that there is now.
Seen == seen' = IF phase = "idle" THEN seen ELSE Append(seen, events')

\* The next request of the application ends.
Record ==
    /\ recorded < Len(scenario.captures)
    /\ recorded' = recorded + 1
    /\ events' = Newest(Append(events, StoredEvent(recorded + 1)), Capacity)
    /\ Seen
    /\ UNCHANGED <<scenario, phase, request, verdict, selected, response>>

\* The host application clears the store.
Clear ==
    /\ events # <<>>
    /\ events' = <<>>
    /\ Seen
    /\ UNCHANGED <<scenario, recorded, phase, request, verdict, selected, response>>

-----------------------------------------------------------------------------
(* Access control: the router's dependencies in their order, the user's     *)
(* before the hook; the docs page asks the hook alone.                      *)

Ask(r) ==
    /\ phase = "idle"
    /\ phase' = IF r.kind = "docs" THEN "hook" ELSE "dependency"
    /\ request' = r
    /\ verdict' = NoVerdict /\ selected' = <<>> /\ response' = NoResponse
    /\ seen' = <<events>>
    /\ UNCHANGED <<scenario, app>>

Answered(status, body) ==
    /\ phase' = "idle"
    /\ response' = [status |-> status, body |-> body]
    /\ UNCHANGED <<scenario, app, request, selected, seen>>

GoesOn(next) ==
    /\ phase' = next
    /\ UNCHANGED <<scenario, app, request, selected, response, seen>>

Refused == [kind |-> "refused"]

\* The guard is asked, and its outcome is o.
Judged(guard, o) ==
    /\ phase = guard /\ guard \in scenario.guards
    /\ verdict' = [verdict EXCEPT ![guard] = o]

\* There is no such guard.
NoDependency ==
    /\ phase = "dependency" /\ "dependency" \notin scenario.guards
    /\ GoesOn("hook") /\ UNCHANGED verdict

NoHook ==
    /\ phase = "hook" /\ "hook" \notin scenario.guards
    /\ GoesOn("handler") /\ UNCHANGED verdict

DependencyPasses == Judged("dependency", "True") /\ GoesOn("hook")

\* Parameters of the dependency's own are wrong: FastAPI does not call it, goes
\* on with the hook, and answers with what is wrong when all of them are through.
DependencyInvalid == Judged("dependency", "invalid") /\ GoesOn("hook")

\* A user's dependency answers in its own name; an error of it is a 500.
DependencyRefuses ==
    /\ Judged("dependency", "refused")
    /\ \E status \in {401, 403, 404, 500} : Answered(status, Refused)

\* What the hook returns or raises.
HookOutcomes == {"True", "False", "truthy", "HTTP 401", "HTTP 403", "HTTP 404", "raises"}

\* Mutant: the result is taken for a condition.
MutantGranted(o) == o \in {"True", "truthy"}

\* enforce_inspector_access: nothing but True is a yes.
Granted(o) == o = "True"

\* _safe_access_error
SafeStatus(o) == IF o = "HTTP 401" THEN 401 ELSE 403

HookGrants(o) == Granted(o) /\ Judged("hook", o) /\ GoesOn("handler")

HookDenies(o) ==
    /\ ~Granted(o) /\ Judged("hook", o)
    /\ request.kind # "docs"
    /\ Answered(SafeStatus(o), Refused)

\* is_inspector_access_allowed: the docs page comes without the tab.
DocsWithout(o) ==
    /\ ~Granted(o) /\ Judged("hook", o)
    /\ request.kind = "docs"
    /\ Answered(200, [kind |-> "docs", inspector |-> FALSE])

-----------------------------------------------------------------------------
(* The handlers *)

ValidLimit == request.limit \in 1..MaxLimit

\* The parameters FastAPI has found wrong: those of the user's dependency, and
\* the limit out of its bounds.
Wrong ==
    {p \in {"dependency"} : verdict.dependency = "invalid"}
    \cup {p \in {"limit"} : request.kind \in {"list", "aggregates"} /\ ~ValidLimit}

\* No handler is called with wrong parameters.
Handles(kind) == phase = "handler" /\ request.kind = kind /\ Wrong = {}

Respond(status, body) == Answered(status, body) /\ UNCHANGED verdict

\* All that is wrong is listed, once access is granted.
InvalidParameters ==
    /\ phase = "handler" /\ Wrong # {}
    /\ Respond(422, [kind |-> "invalid", names |-> Wrong])

health_check ==
    /\ Handles("health")
    /\ Respond(200, [kind |-> "health", stored_requests |-> Len(events),
                     capacity |-> Capacity])

Redacted(s) == [i \in DOMAIN s |-> redact_event(s[i], scenario.policy)]

_summarize_request(event) ==
    [request_id  |-> event.request_id,
     query_count |-> event.total_query_count,
     query_time_ms |-> event.total_query_time_ms,
     analyzed_query_count |-> Len(event.queries),
     is_queries_truncated |-> is_queries_truncated(event),
     signals |-> summarize_request_signals(event, scenario.thresholds)]

\* Mutant: the limit is left to the caller.
MutantReadList ==
    /\ Handles("list")
    /\ selected' = LatestFirst(events, Capacity)
    /\ phase' = "counting"
    /\ UNCHANGED <<scenario, app, request, verdict, response, seen>>

\* list_requests: store.list
ReadList ==
    /\ Handles("list")
    /\ selected' = LatestFirst(events, request.limit)
    /\ phase' = "counting"
    /\ UNCHANGED <<scenario, app, request, verdict, response, seen>>

\* Mutant: the number of requests recorded, not stored.
Mutantsize == recorded

size == Len(events)

\* list_requests: store.size, and the answer.
list_requests ==
    /\ phase = "counting"
    /\ LET redacted == Redacted(selected)
       IN  Respond(200, [kind  |-> "list",
                         items |-> [i \in DOMAIN redacted |->
                                        _summarize_request(redacted[i])],
                         limit |-> request.limit,
                         total_stored_requests |-> size,
                         is_truncated |-> size > request.limit])

get_request_detail ==
    /\ Handles("detail")
    /\ \E i \in DOMAIN events :
        /\ events[i].request_id = request.request_id
        /\ LET event == redact_event(events[i], scenario.policy)
           IN  Respond(200, [kind |-> "detail", event |-> event,
                             signals |-> analyze_request_signals(event, scenario.thresholds)])

DetailMissing ==
    /\ Handles("detail")
    /\ request.request_id \notin IdsOf(events)
    /\ Respond(404, [kind |-> "missing"])

\* Mutant: all the queries of the request.
MutantAnalyzed(event) == event.total_query_count

\* RequestEvent.query_count: the queries that were kept.
Analyzed(event) == Len(event.queries)

_analysis_scope(s) ==
    [request_count        |-> Len(s),
     analyzed_query_count |-> Total(s, Analyzed),
     total_query_count    |-> Total(s, LAMBDA e : e.total_query_count),
     is_queries_truncated |-> \E i \in DOMAIN s : is_queries_truncated(s[i])]

\* The first rows of a table.
Cut(rows, limit) == SubSeq(rows, 1, Min({limit, Len(rows)}))

get_aggregates ==
    LET view == Redacted(LatestFirst(events, Capacity))
        routes == _aggregate_routes(view)
        fingerprints == _aggregate_fingerprints(view)
    IN  /\ Handles("aggregates")
        /\ Respond(200,
            [kind |-> "aggregates",
             routes       |-> Cut(routes, request.limit),
             fingerprints |-> Cut(fingerprints, request.limit),
             total_stored_requests |-> Len(view),
             analysis_scope |-> _analysis_scope(view),
             is_routes_truncated       |-> Len(routes) > request.limit,
             is_fingerprints_truncated |-> Len(fingerprints) > request.limit])

\* inspector_ui_index and inspector_ui_asset
Asset ==
    /\ Handles("asset")
    /\ IF request.known THEN Respond(200, [kind |-> "asset"])
                        ELSE Respond(404, [kind |-> "missing"])

\* tailora_swagger_ui: the page has the Inspector's tab.
Docs ==
    /\ Handles("docs")
    /\ Respond(200, [kind |-> "docs", inspector |-> TRUE])

Handle ==
    \/ InvalidParameters \/ health_check \/ ReadList \/ list_requests
    \/ get_request_detail \/ DetailMissing \/ get_aggregates \/ Asset \/ Docs

Next ==
    \/ Record \/ Clear
    \/ \E r \in scenario.requests : Ask(r)
    \/ NoDependency \/ DependencyPasses \/ DependencyInvalid \/ DependencyRefuses
    \/ NoHook \/ \E o \in HookOutcomes : HookGrants(o) \/ HookDenies(o) \/ DocsWithout(o)
    \/ Handle

Spec == Init /\ [][Next]_vars

-----------------------------------------------------------------------------
(* What the answers are measured by *)

Answer(kind) == phase = "idle" /\ response.status = 200 /\ response.body.kind = kind

\* What may be shown of a query's statement, and of it without its blanks.
Safe(query) == FlattenSeq([k \in DOMAIN query.sql |-> query.sql[k].safe])
Pattern(query) == CollapseBlanks(Safe(query))

\* The statement fits every limit it meets on its way.
IsWhole(query) ==
    Len(Safe(query)) <= Min({DefaultLength, scenario.policy.max_statement_length})

\* Behind an answered event, the queries the application made.
Executed(event) == scenario.captures[event.request_id].queries

Ids(s) == [i \in DOMAIN s |-> s[i].request_id]

\* Access control has let the client's request through.
HookGranted == "hook" \in scenario.guards => verdict.hook = "True"
Admitted ==
    /\ "dependency" \in scenario.guards /\ request.kind # "docs" =>
            verdict.dependency = "True"
    /\ HookGranted

-----------------------------------------------------------------------------
\* Every variable holds a value the code can give it, and what a handler reads
\* keeps to its limits.
TypeOK ==
    /\ scenario \in Scenarios /\ recorded \in 0..Len(scenario.captures)
    /\ Len(events) <= Capacity
    /\ \A i \in DOMAIN events : events[i].request_id \in 1..recorded
    /\ phase \in {"idle", "handler", "counting"} \cup Guards
    /\ request \in scenario.requests \cup {NoRequest}
    /\ verdict \in [Guards -> {"none", "refused", "invalid"} \cup HookOutcomes]
    /\ phase = "counting" => Len(selected) <= request.limit
    /\ response.status \in {0, 200, 401, 403, 404, 422, 500}
    /\ phase # "idle" => seen # <<>>

\* GET /requests is put together from two readings (api.py:163): the items are
\* the newest requests at one instant between question and answer, and the
\* number of stored requests is that of the same or a later instant.  When
\* nothing happened in between, the answer is one consistent picture.
ListIsASnapshot ==
    Answer("list") =>
        /\ \E i, j \in DOMAIN seen :
            /\ i <= j
            /\ Ids(response.body.items) = Ids(LatestFirst(seen[i], request.limit))
            /\ response.body.total_stored_requests = Len(seen[j])
        /\ Len(seen) = 1 =>
            (response.body.is_truncated <=>
                Len(response.body.items) < response.body.total_stored_requests)

\* Whoever is not let through gets a refusal with one of two statuses of the
\* hook or the one of the dependency's own, whatever was asked: no data, no
\* hint whether a request exists or a limit is valid, no tab on the docs page.
\* There is one exception, which is FastAPI's: when parameters of the dependency
\* are wrong and the hook grants, the answer lists them, and the limit with them.
DeniedSeesNothing ==
    phase = "idle" /\ request # NoRequest /\ ~Admitted =>
        \/ /\ response.body = Refused
           /\ verdict.hook = "none" \/ response.status \in {401, 403}
        \/ response.body = [kind |-> "docs", inspector |-> FALSE]
        \/ /\ verdict.dependency = "invalid" /\ HookGranted
           /\ response.status = 422 /\ "dependency" \in response.body.names

-----------------------------------------------------------------------------
(* The inductive invariant of the two properties above *)

IsSeq(s) == s \in Seq({s[i] : i \in DOMAIN s})

\* A store: its events have ids.
IsStore(s) == IsSeq(s) /\ \A i \in DOMAIN s : "request_id" \in DOMAIN s[i]

\* The user's dependency has not refused.
DependencyIsThrough ==
    "dependency" \in scenario.guards /\ request.kind # "docs" =>
        verdict.dependency \in {"True", "invalid"}

\* What has been decided before each phase.
Controlled ==
    /\ phase = "dependency" => verdict = NoVerdict /\ request.kind # "docs"
    /\ phase = "hook" =>
        /\ verdict.hook = "none"
        /\ DependencyIsThrough
    /\ phase = "handler" => DependencyIsThrough /\ HookGranted
    /\ phase = "counting" => Admitted

\* The last store seen is the present one, and a list was read from one of them.
Sighted ==
    /\ IsStore(events)
    /\ IsSeq(seen) /\ \A n \in DOMAIN seen : IsStore(seen[n])
    /\ phase # "idle" => seen[Len(seen)] = events
    /\ phase = "counting" =>
        /\ ValidLimit
        /\ \E i \in DOMAIN seen : selected = LatestFirst(seen[i], request.limit)

IInv == TypeOK /\ ListIsASnapshot /\ DeniedSeesNothing /\ Controlled /\ Sighted

-----------------------------------------------------------------------------
(* Properties of what the handlers compute *)

\* The scanner, once over a statement, leaves what may be shown of it: no literal
\* and no comment, and all the rest.  A statement is a sequence of segments, so each
\* construct is read where it is and as far as it goes, whatever it stands next to.
OnePassIsExact ==
    \A n \in DOMAIN scenario.captures : \A i \in DOMAIN scenario.captures[n].queries :
        LET query == scenario.captures[n].queries[i]
        IN  _redact_sql_fragments(Text(query), query.dialect) = Safe(query)

\* A statement passes redaction three times, with two limits: nothing that is
\* not code ever comes out, and of a statement that fits all of its code does.
RedactionIsExact ==
    Answer("detail") =>
        LET event == response.body.event IN
        \A i \in DOMAIN event.queries :
            LET query == Executed(event)[i]
                shown == event.queries[i].statement
            IN  /\ Len(shown) <= scenario.policy.max_statement_length
                /\ \/ shown = Strip(Safe(query))
                   \/ ~IsWhole(query) /\ IsCutOf(shown, Safe(query))

\* The fingerprint is computed three times, at first from the statement and
\* then from what redaction has left of it: it stays the statement's pattern.
FingerprintIsKept ==
    Answer("detail") =>
        LET event == response.body.event IN
        \A i \in DOMAIN event.queries :
            IsWhole(Executed(event)[i]) =>
                event.queries[i].fingerprint = Pattern(Executed(event)[i])

\* A reported duplicate is a statement the request did execute that often, and
\* every statement executed that often among the analysed ones is reported.
DuplicatesAreRepeats ==
    Answer("detail") =>
        LET event == response.body.event
            executed == SubSeq(Executed(event), 1, Len(event.queries))
            Repeats(i) == {j \in DOMAIN executed :
                            Pattern(executed[j]) = Pattern(executed[i])}
            least == scenario.thresholds.duplicate_query_threshold
            rows == response.body.signals.duplicate_queries
        IN  (\A i \in DOMAIN executed : IsWhole(executed[i])) =>
                {rows[k].sequences : k \in DOMAIN rows} =
                    {S \in {Repeats(i) : i \in DOMAIN executed} :
                        least # NoThreshold /\ Cardinality(S) >= least}

\* The routes of an answer are those of one of the stores: a row counts the
\* stored requests of its route, a route without a row is no busier than those
\* that have one, and when no row is cut off, counts and queries of the rows are
\* those of the scope, which is counted from the events themselves.
RoutesAreOf(body, stores) ==
    LET scope == body.analysis_scope
        shown == {body.routes[i].route_template : i \in DOMAIN body.routes}
    IN  /\ \E n \in DOMAIN stores :
            /\ scope.request_count = Len(stores[n])
            /\ \A i \in DOMAIN body.routes :
                LET row == body.routes[i] IN
                /\ row.count = Cardinality(EventsOf(stores[n], row.route_template))
                /\ \A r \in Routes \ shown :
                        Cardinality(EventsOf(stores[n], r)) <= row.count
        /\ ~body.is_routes_truncated =>
            /\ Total(body.routes, LAMBDA r : r.count) = scope.request_count
            /\ Total(body.routes, LAMBDA r : r.total_queries) = scope.total_query_count

\* The table of routes of GET /aggregates is that of the store at one instant
\* between question and answer, whatever is recorded, evicted and cleared.
RoutesAddUp == Answer("aggregates") => RoutesAreOf(response.body, seen)

\* What the tables are made from, and the inductive invariant of the routes.
EventFields == {"request_id", "route_template", "duration_ms", "total_query_count"}
IsMeasured(s) ==
    /\ IsSeq(s)
    /\ \A i \in DOMAIN s :
        /\ EventFields \subseteq DOMAIN s[i]
        /\ s[i].duration_ms \in Nat /\ s[i].total_query_count \in Nat

TablesInv == IInv /\ IsMeasured(events) /\ RoutesAddUp

\* Its fingerprints: what the rows count are all the analysed queries, but those
\* of the rows that are cut off, and no pattern has more requests than queries.
PatternsAreOf(body) ==
    LET scope == body.analysis_scope
        counted == Total(body.fingerprints, LAMBDA r : r.count)
    IN  /\ IF body.is_fingerprints_truncated
           THEN counted < scope.analyzed_query_count
           ELSE counted = scope.analyzed_query_count
        /\ \A i \in DOMAIN body.fingerprints :
                body.fingerprints[i].request_count <=
                    Minimum(body.fingerprints[i].count, scope.request_count)

\* No answer to GET /aggregates leaves an analysed query out of its patterns
\* without saying so, or counts one twice.
PatternsAddUp == Answer("aggregates") => PatternsAreOf(response.body)
=============================================================================
