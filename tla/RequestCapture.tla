--------------------------- MODULE RequestCapture ---------------------------
(* How a request becomes a stored event: the ASGI middleware                *)
(* (adapters/fastapi/middleware.py), the request context in its ContextVar  *)
(* (core/context.py) and the SQLAlchemy hooks (adapters/fastapi/            *)
(* sqlalchemy.py) that record queries into it.                              *)
(*                                                                          *)
(* Tasks are the asyncio tasks that serve requests; Workers are the threads *)
(* an application hands work to.  A worker starts with a copy of its        *)
(* parent's context variables, so it records into the same RequestContext   *)
(* object as its parent, between whose statements the interpreter may       *)
(* switch threads.  Two requests share nothing but the store, so the model  *)
(* leaves out that the tasks of one event loop also take turns.             *)
(*                                                                          *)
(* The store is the atomic log RingBuffer implements; its add is one step.  *)
EXTENDS EventSeqs, FiniteSets

CONSTANTS
    Tasks, Workers,
    Requests,       \* the request ids (uuid4) the middleware can draw
    NoRequest,      \* None: no request context
    MaxQueries,     \* policy.max_queries_per_request
    Capacity,       \* the store's capacity
    Detached,       \* do workers run beside their task, or does it await them?
    Faults,         \* the database errors that happen
    Statuses,       \* the classes of status codes the application answers
    MaxDepth,       \* bound of the model: captures within one another
    MaxExecutions   \* bound of the model: hook calls of one request

FaultKinds == {"execute", "fetch", "connection"}

\* Classes of HTTP status codes; "other" is above 599.
StatusClasses == {"success", "client_error", "server_error", "other"}

ASSUME CaptureAssumption ==
    /\ NoRequest \notin Requests
    /\ Tasks \cap Workers = {}
    /\ IsFiniteSet(Tasks) /\ IsFiniteSet(Workers)
    /\ {MaxQueries, Capacity, MaxDepth, MaxExecutions} \subseteq Nat \ {0}
    /\ Detached \in BOOLEAN
    /\ Faults \subseteq FaultKinds
    /\ Statuses \subseteq StatusClasses

Runners == Tasks \cup Workers

VARIABLES
    pc,             \* per runner: what it is about to execute
    _CURRENT_CONTEXT,  \* per runner: the value of the context variable
    stack,          \* per task: the captures it is in, innermost last
    parent,         \* per worker: the task that started it
    serving,        \* per worker: the request it was started for
    execution,      \* per runner: the state its last execution context holds
    hook,           \* per runner: the locals of the query hook
    totals,         \* per task: the totals _finalize_request has read
    phase,          \* per request: "unused", "open" or "ended"
    status_code, error_summary,   \* per request: _CaptureState
    queries, total_query_count, total_query_time_ms,  \* per request: RequestContext
    store,          \* the event log
    observed,       \* per request: how often a hook began to record a query
    executions      \* per request: how many statements it handed to a cursor

control == <<pc, _CURRENT_CONTEXT, stack, parent, serving>>
database == <<execution, executions, observed>>
response == <<phase, status_code, error_summary>>
context == <<queries, total_query_count, total_query_time_ms>>
vars == <<control, database, hook, totals, response, context, store>>

NoHook == [sequence |-> 0, duration |-> 0, time |-> 0, owner |-> NoRequest]
NoTotals == [count |-> 0, time |-> 0]

Init ==
    /\ pc = [x \in Runners |-> IF x \in Tasks THEN "run" ELSE "idle"]
    /\ _CURRENT_CONTEXT = [x \in Runners |-> NoRequest]
    /\ stack = [t \in Tasks |-> <<>>]
    /\ parent = [w \in Workers |-> w]
    /\ serving = [w \in Workers |-> NoRequest]
    /\ execution = [x \in Runners |-> "none"]
    /\ hook = [x \in Runners |-> NoHook]
    /\ totals = [t \in Tasks |-> NoTotals]
    /\ phase = [r \in Requests |-> "unused"]
    /\ status_code = [r \in Requests |-> "server_error"]
    /\ error_summary = [r \in Requests |-> FALSE]
    /\ queries = [r \in Requests |-> <<>>]
    /\ total_query_count = [r \in Requests |-> 0]
    /\ total_query_time_ms = [r \in Requests |-> 0]
    /\ store = <<>>
    /\ observed = [r \in Requests |-> 0]
    /\ executions = [r \in Requests |-> 0]

\* The innermost capture a task is in.
Top(t) == stack[t][Len(stack[t])]

\* The request a runner works for: what its context variable should say.
Serves(x) ==
    IF x \in Workers THEN serving[x]
    ELSE IF stack[x] = <<>> THEN NoRequest ELSE Top(x).request

\* A task that awaits its worker does nothing until the worker is done.
Runs(x) ==
    /\ pc[x] = "run"
    /\ x \in Tasks /\ ~Detached => \A w \in Workers : pc[w] # "idle" => parent[w] # x

Goto(x, from, to) ==
    /\ pc[x] = from
    /\ pc' = [pc EXCEPT ![x] = to]

-----------------------------------------------------------------------------
(* The middleware: a request starts *)

\* __call__ and _start_capture: a captured request gets a fresh id, an empty
\* context and the token that restores the previous one.  (A disabled inspector,
\* a non-HTTP scope or an excluded path calls the application and changes nothing:
\* it runs in whatever context there is.)
StartCapture(t, r) ==
    /\ Runs(t) /\ Len(stack[t]) < MaxDepth
    /\ phase[r] = "unused"
    /\ phase' = [phase EXCEPT ![r] = "open"]
    /\ stack' = [stack EXCEPT ![t] =
                    Append(@, [request |-> r, token |-> _CURRENT_CONTEXT[t]])]
    /\ _CURRENT_CONTEXT' = [_CURRENT_CONTEXT EXCEPT ![t] = r]
    /\ UNCHANGED <<pc, parent, serving, database, hook, totals, status_code,
                   error_summary, context, store>>

\* wrapped_send sees http.response.start: the send of a nested application is
\* wrapped by every capture around it.
SendResponseStart(t, status) ==
    LET within == {stack[t][i].request : i \in DOMAIN stack[t]} IN
    /\ Runs(t) /\ stack[t] # <<>>
    /\ status_code' = [r \in Requests |-> IF r \in within THEN status ELSE status_code[r]]
    /\ error_summary' = [r \in Requests |->
                            error_summary[r] \/ (r \in within /\ status # "success")]
    /\ UNCHANGED <<control, database, hook, totals, phase, context, store>>

-----------------------------------------------------------------------------
(* Workers *)

\* run_in_threadpool, asyncio.to_thread: the worker runs in a copy of the
\* task's context variables.
Spawn(t, w) ==
    /\ Runs(t)
    /\ Goto(w, "idle", "run")
    /\ parent' = [parent EXCEPT ![w] = t]
    /\ serving' = [serving EXCEPT ![w] = Serves(t)]
    /\ _CURRENT_CONTEXT' = [_CURRENT_CONTEXT EXCEPT ![w] = _CURRENT_CONTEXT[t]]
    /\ UNCHANGED <<stack, database, hook, totals, response, context, store>>

WorkerEnds(w) ==
    /\ Goto(w, "run", "idle")
    /\ parent' = [parent EXCEPT ![w] = w]
    /\ serving' = [serving EXCEPT ![w] = NoRequest]
    /\ _CURRENT_CONTEXT' = [_CURRENT_CONTEXT EXCEPT ![w] = NoRequest]
    /\ execution' = [execution EXCEPT ![w] = "none"]
    /\ UNCHANGED <<stack, executions, observed, hook, totals, response, context, store>>

-----------------------------------------------------------------------------
(* The database, as SQLAlchemy calls the hooks *)

MayExecute(x) ==
    /\ Runs(x)
    /\ Serves(x) # NoRequest =>
          /\ observed[Serves(x)] < MaxExecutions
          /\ executions[Serves(x)] < MaxExecutions

Counted(f, x) ==
    IF Serves(x) = NoRequest THEN f ELSE [f EXCEPT ![Serves(x)] = @ + 1]

\* _on_before_cursor_execute: the start time goes to the execution context,
\* unless there is no request.
BeforeCursorExecute(x) ==
    /\ MayExecute(x)
    /\ Goto(x, "run", "executing")
    /\ execution' = [execution EXCEPT ![x] =
                        IF _CURRENT_CONTEXT[x] = NoRequest THEN "untimed" ELSE "timed"]
    /\ executions' = Counted(executions, x)
    /\ UNCHANGED <<_CURRENT_CONTEXT, stack, parent, serving, observed, hook, totals,
                   response, context, store>>

\* A hook that has a request context goes on to record a query, with the
\* sequence number it reads from the context now.
BeginRecord(x, from, duration) ==
    /\ Goto(x, from, "count")
    /\ _CURRENT_CONTEXT[x] # NoRequest
    /\ hook' = [hook EXCEPT ![x] =
                   [sequence |-> total_query_count[_CURRENT_CONTEXT[x]] + 1,
                    duration |-> duration, time |-> 0, owner |-> Serves(x)]]
    /\ observed' = Counted(observed, x)

\* _on_after_cursor_execute. The state stays on the execution context.
AfterCursorExecute(x) ==
    /\ execution[x] = "timed"
    /\ BeginRecord(x, "executing", 1)
    /\ UNCHANGED <<_CURRENT_CONTEXT, stack, parent, serving, execution, executions,
                   totals, response, context, store>>

\* _on_handle_error with an execution context: its state gives the duration.
ErrorOfExecution(x, from) ==
    /\ execution[x] = "timed"
    /\ BeginRecord(x, from, 1)
    /\ execution' = [execution EXCEPT ![x] = "none"]
    /\ UNCHANGED <<_CURRENT_CONTEXT, stack, parent, serving, executions, totals,
                   response, context, store>>

ExecuteFails(x) == "execute" \in Faults /\ ErrorOfExecution(x, "executing")

\* Fetching rows fails after the statement itself succeeded: SQLAlchemy reports
\* it with the execution context of that statement.
FetchFails(x) ==
    /\ "fetch" \in Faults /\ MayExecute(x)
    /\ ErrorOfExecution(x, "run")

\* Connecting or committing fails: there is no execution context.
ConnectionFails(x) ==
    /\ "connection" \in Faults /\ MayExecute(x)
    /\ BeginRecord(x, "run", 0)
    /\ UNCHANGED <<_CURRENT_CONTEXT, stack, parent, serving, execution, executions,
                   totals, response, context, store>>

\* The hooks return early when there is no state or no request.
Unrecorded(x) ==
    /\ execution[x] = "untimed" \/ _CURRENT_CONTEXT[x] = NoRequest
    /\ Goto(x, "executing", "run")
    /\ execution' = [execution EXCEPT ![x] = "none"]
    /\ UNCHANGED <<_CURRENT_CONTEXT, stack, parent, serving, executions, observed,
                   hook, totals, response, context, store>>

-----------------------------------------------------------------------------
(* record_query.  The calls of round() and len() are points at which the    *)
(* interpreter may switch to another thread.                                *)

\* Mutant: the hook writes back the sequence number it computed before.
MutantCountedTotal(x) == hook[x].sequence

\* Mutant: only the queries that are kept are counted.
MutantCountedIfKept(x) ==
    LET r == _CURRENT_CONTEXT[x]
    IN total_query_count[r] + IF Len(queries[r]) < MaxQueries THEN 1 ELSE 0

\* total_query_count += 1
CountedTotal(x) == total_query_count[_CURRENT_CONTEXT[x]] + 1

\* The increment, and the first half of the next statement: the read
\* of total_query_time_ms that is passed to round().
CountQuery(x) ==
    LET r == _CURRENT_CONTEXT[x] IN
    /\ Goto(x, "count", "time")
    /\ total_query_count' = [total_query_count EXCEPT ![r] = CountedTotal(x)]
    /\ hook' = [hook EXCEPT ![x].time = total_query_time_ms[r]]
    /\ UNCHANGED <<_CURRENT_CONTEXT, stack, parent, serving, database, totals, response,
                   queries, total_query_time_ms, store>>

\* Mutant: the limit is compared with the count, which includes this query.
MutantKeeps(r) == total_query_count[r] < MaxQueries

\* Mutant: the limit may be reached once more.
MutantKeepsOneMore(r) == Len(queries[r]) <= MaxQueries

\* len(context.queries) < limit.
Keeps(r) == Len(queries[r]) < MaxQueries

\* The store of the rounded sum, and the check of the limit.
AddTime(x) ==
    LET r == _CURRENT_CONTEXT[x] IN
    /\ Goto(x, "time", IF Keeps(r) THEN "append" ELSE "run")
    /\ hook' = IF Keeps(r) THEN hook ELSE [hook EXCEPT ![x] = NoHook]
    /\ total_query_time_ms' =
          [total_query_time_ms EXCEPT ![r] = hook[x].time + hook[x].duration]
    /\ UNCHANGED <<_CURRENT_CONTEXT, stack, parent, serving, database, totals,
                   response, queries, total_query_count, store>>

Query(x) == [owner |-> hook[x].owner, sequence |-> hook[x].sequence,
             duration |-> hook[x].duration]

AppendQuery(x) ==
    /\ Goto(x, "append", "run")
    /\ queries' = [queries EXCEPT ![_CURRENT_CONTEXT[x]] = Append(@, Query(x))]
    /\ hook' = [hook EXCEPT ![x] = NoHook]
    /\ UNCHANGED <<_CURRENT_CONTEXT, stack, parent, serving, database, totals,
                   response, total_query_count, total_query_time_ms, store>>

-----------------------------------------------------------------------------
(* The middleware: the application is done *)

Outcomes == {"return", "cancelled", "exception", "http_exception"}

\* The call of the application returns or raises: an HTTPException carries its
\* status, any other Exception is a 500; a cancellation (BaseException) passes
\* through the finally clause only.
AppEnds(t, outcome, status) ==
    /\ Runs(t) /\ stack[t] # <<>>
    /\ Goto(t, "run", "finalize")
    /\ LET r == Top(t).request IN
          CASE outcome = "http_exception" ->
                  /\ status_code' = [status_code EXCEPT ![r] = status]
                  /\ error_summary' = [error_summary EXCEPT ![r] = TRUE]
            [] outcome = "exception" ->
                  /\ status = "server_error"
                  /\ status_code' = [status_code EXCEPT ![r] = status]
                  /\ error_summary' = [error_summary EXCEPT ![r] = TRUE]
            [] outcome \in {"return", "cancelled"} ->
                  /\ status = status_code[r]
                  /\ UNCHANGED <<status_code, error_summary>>
    /\ UNCHANGED <<_CURRENT_CONTEXT, stack, parent, serving, database, hook, totals,
                   phase, context, store>>

\* _finalize_request evaluates the arguments of _create_request_event: the two
\* totals, and the context's own list of queries.
ReadTotals(t) ==
    LET r == Top(t).request IN
    /\ Goto(t, "finalize", "store")
    /\ totals' = [totals EXCEPT ![t] =
                     [count |-> total_query_count[r], time |-> total_query_time_ms[r]]]
    /\ UNCHANGED <<_CURRENT_CONTEXT, stack, parent, serving, database, hook, response,
                   context, store>>

\* Mutant: the numbers start at 0.
Mutant_safe_normalize_queries(qs) == [i \in DOMAIN qs |-> [qs[i] EXCEPT !.sequence = i - 1]]

\* _safe_normalize_queries numbers the queries of the list 1, 2, ...
_safe_normalize_queries(qs) == [i \in DOMAIN qs |-> [qs[i] EXCEPT !.sequence = i]]

\* The sum of the durations: each of them is 0 or 1.
TimeOf(qs) == Cardinality({i \in DOMAIN qs : qs[i].duration = 1})

\* Mutant: a request whose queries are all kept is refused.
MutantValidEvent(status, qs, total) ==
    /\ status # "other"
    /\ total.count > Len(qs)
    /\ total.time >= TimeOf(qs)

\* What RequestEvent's validation accepts.
ValidEvent(status, qs, total) ==
    /\ status # "other"
    /\ total.count >= Len(qs)
    /\ total.time >= TimeOf(qs)

\* Mutant: redaction does not cut the queries again.
MutantRequestEvent(r, qs, total) ==
    [request_id |-> r, status_code |-> status_code[r], error |-> error_summary[r],
     queries |-> qs, total_query_count |-> total.count, total_query_time_ms |-> total.time]

\* The redacted event: redact_event keeps the totals and cuts the queries.
RequestEvent(r, qs, total) ==
    [request_id |-> r, status_code |-> status_code[r], error |-> error_summary[r],
     queries |-> SubSeq(qs, 1, Minimum(Len(qs), MaxQueries)),
     total_query_count |-> total.count, total_query_time_ms |-> total.time]

\* Mutant: the context variable is cleared instead of restored.
MutantRestored(t) == NoRequest

\* Mutant: the context variable is not restored.
MutantNotRestored(t) == _CURRENT_CONTEXT[t]

\* reset_current_context(state.token): what the context variable held before.
Restored(t) == Top(t).token

\* The rest of _finalize_request: the list is walked now, the event built,
\* validated, redacted and added, and the context restored whatever happened.
\* An invalid event is dropped with a warning.
StoreEvent(t) ==
    LET r == Top(t).request
        qs == _safe_normalize_queries(queries[r])
    IN
    /\ Goto(t, "store", "run")
    /\ store' = IF ValidEvent(status_code[r], qs, totals[t])
                THEN Newest(Append(store, RequestEvent(r, qs, totals[t])), Capacity)
                ELSE store
    /\ _CURRENT_CONTEXT' = [_CURRENT_CONTEXT EXCEPT ![t] = Restored(t)]
    /\ stack' = [stack EXCEPT ![t] = SubSeq(@, 1, Len(@) - 1)]
    /\ phase' = [phase EXCEPT ![r] = "ended"]
    /\ totals' = [totals EXCEPT ![t] = NoTotals]
    /\ execution' = [execution EXCEPT ![t] = "none"]
    /\ UNCHANGED <<hook, parent, serving, executions, observed, status_code, error_summary,
                   context>>

Hooks(x) ==
    \/ BeforeCursorExecute(x) \/ AfterCursorExecute(x) \/ ExecuteFails(x)
    \/ FetchFails(x) \/ ConnectionFails(x) \/ Unrecorded(x)
    \/ CountQuery(x) \/ AddTime(x) \/ AppendQuery(x)

Next ==
    \/ \E t \in Tasks :
        \/ \E r \in Requests : StartCapture(t, r)
        \/ \E s \in Statuses : SendResponseStart(t, s)
        \/ \E w \in Workers : Spawn(t, w)
        \/ \E o \in Outcomes, s \in Statuses : AppEnds(t, o, s)
        \/ ReadTotals(t) \/ StoreEvent(t)
    \/ \E w \in Workers : WorkerEnds(w)
    \/ \E x \in Runners : Hooks(x)

Spec == Init /\ [][Next]_vars

-----------------------------------------------------------------------------
Labels == {"idle", "run", "executing", "count", "time", "append", "finalize", "store"}
MaybeRequest == Requests \cup {NoRequest}
FrameType == [request: MaybeRequest, token: MaybeRequest]
HookType == [sequence: Nat, duration: {0, 1}, time: Nat, owner: MaybeRequest]
TotalsType == [count: Nat, time: Nat]
QueryType == [owner: MaybeRequest, sequence: Nat \ {0},
              duration: {0, 1}]
EventType == [request_id: Requests, status_code: StatusClasses, error: BOOLEAN,
              queries: Seq(QueryType), total_query_count: Nat, total_query_time_ms: Nat]

\* Every variable holds a value the code can give it.
TypeOK ==
    /\ pc \in [Runners -> Labels]
    /\ _CURRENT_CONTEXT \in [Runners -> MaybeRequest]
    /\ stack \in [Tasks -> Seq(FrameType)]
    /\ parent \in [Workers -> Runners]
    /\ serving \in [Workers -> MaybeRequest]
    /\ execution \in [Runners -> {"none", "untimed", "timed"}]
    /\ hook \in [Runners -> HookType]
    /\ totals \in [Tasks -> TotalsType]
    /\ phase \in [Requests -> {"unused", "open", "ended"}]
    /\ status_code \in [Requests -> StatusClasses]
    /\ error_summary \in [Requests -> BOOLEAN]
    /\ queries \in [Requests -> Seq(QueryType)]
    /\ total_query_count \in [Requests -> Nat]
    /\ total_query_time_ms \in [Requests -> Nat]
    /\ store \in Seq(EventType)
    /\ observed \in [Requests -> Nat]
    /\ executions \in [Requests -> Nat]

\* The context variable of a task is that of the innermost capture it is in,
\* whatever nested, failed or cancelled before; that of a worker is the one it
\* was started with (tokens: middleware.py:214, 277).
ContextIsOwn == \A x \in Runners : _CURRENT_CONTEXT[x] = Serves(x)

\* No query of one request is ever recorded, or stored, under another one.
OnlyOwnQueries ==
    /\ \A r \in Requests : \A i \in DOMAIN queries[r] : queries[r][i].owner = r
    /\ \A e \in DOMAIN store : \A i \in DOMAIN store[e].queries :
          store[e].queries[i].owner = store[e].request_id

\* A stored event is one the readers can rely on: at most one per request, once
\* it has ended, with no more queries than the policy allows, numbered from 1,
\* and a count that is not below theirs.
StoredAreSound ==
    /\ DistinctIds(store) /\ Len(store) <= Capacity
    /\ \A e \in DOMAIN store :
        LET ev == store[e] IN
        /\ phase[ev.request_id] = "ended"
        /\ Len(ev.queries) <= MaxQueries
        /\ \A i \in DOMAIN ev.queries : ev.queries[i].sequence = i
        /\ ev.total_query_count >= Len(ev.queries)

At(r, label) == {x \in Runners : pc[x] = label /\ _CURRENT_CONTEXT[x] = r}

\* However the threads of a request interleave, no query escapes its count.
CountIsExact ==
    \A r \in Requests : total_query_count[r] + Cardinality(At(r, "count")) = observed[r]

\* The list of kept queries never stays short of the limit while queries are
\* counted, and the unlocked check of the limit lets it grow past the limit by
\* at most one query per worker.
KeptIsBounded ==
    \A r \in Requests :
        LET n == Len(queries[r]) + Cardinality(At(r, "append"))
        IN  /\ n <= MaxQueries + Cardinality(Workers)
            /\ n + Cardinality(At(r, "time")) >= Minimum(MaxQueries, total_query_count[r])

-----------------------------------------------------------------------------
(* What holds between any two statements, from which the isolation of       *)
(* requests follows.                                                        *)

Chained(frames) ==
    \A i \in DOMAIN frames :
        /\ frames[i].request \in Requests
        /\ frames[i].token = IF i = 1 THEN NoRequest ELSE frames[i - 1].request

\* The token of a capture is the request of the capture around it, and a task
\* that finalizes is inside one.
TokensChain ==
    \A t \in Tasks :
        /\ Chained(stack[t])
        /\ pc[t] \in {"finalize", "store"} => stack[t] # <<>>

\* A hook that records works for the request its context variable names.
RecordsOwn ==
    \A x \in Runners :
        pc[x] \in {"count", "time", "append"} =>
            /\ _CURRENT_CONTEXT[x] # NoRequest
            /\ hook[x].owner = _CURRENT_CONTEXT[x]
            /\ hook[x].sequence # 0

IInv == TypeOK /\ TokensChain /\ RecordsOwn /\ ContextIsOwn /\ OnlyOwnQueries

\* A request is captured once, by one task.
CapturedOnce ==
    \A t \in Tasks : \A i \in DOMAIN stack[t] :
        /\ phase[stack[t][i].request] = "open"
        /\ \A u \in Tasks : \A j \in DOMAIN stack[u] :
              stack[t][i].request = stack[u][j].request => t = u /\ i = j

\* From which follow how far the list of kept queries can grow and what is stored.
CountInv == IInv /\ CapturedOnce /\ CountIsExact /\ KeptIsBounded /\ StoredAreSound

-----------------------------------------------------------------------------
(* When a task awaits the workers it starts (synchronous endpoints and      *)
(* dependencies), a request is recorded exactly.                            *)

\* A task does nothing while its worker is active, and has one at a time.
Awaited ==
    \A w \in Workers : pc[w] # "idle" =>
        /\ parent[w] \in Tasks /\ pc[parent[w]] = "run"
        /\ serving[w] = Serves(parent[w])
        /\ \A v \in Workers : pc[v] # "idle" /\ parent[v] = parent[w] => v = w

\* What the context of a request holds when n queries have been recorded in it.
Settled(r, n) ==
    /\ Len(queries[r]) = Minimum(MaxQueries, n)
    /\ total_query_time_ms[r] >= TimeOf(queries[r])
    /\ n <= MaxQueries => total_query_time_ms[r] = TimeOf(queries[r])

\* A hook between its statements has recorded a part of its query.
RecordsAreSettled ==
    \A r \in Requests :
        /\ At(r, "time") \cup At(r, "append") = {} => Settled(r, total_query_count[r])
        /\ \A x \in At(r, "time") :
              /\ Settled(r, total_query_count[r] - 1)
              /\ hook[x].time = total_query_time_ms[r]
        /\ \A x \in At(r, "append") :
              /\ Len(queries[r]) = total_query_count[r] - 1
              /\ Len(queries[r]) < MaxQueries
              /\ total_query_time_ms[r] = TimeOf(queries[r]) + hook[x].duration

\* The totals a task has read are still those of its request.
TotalsAreCurrent ==
    \A t \in Tasks : pc[t] = "store" =>
        totals[t] = [count |-> total_query_count[Top(t).request],
                     time |-> total_query_time_ms[Top(t).request]]

\* An event's totals are those of all its request's queries, and its queries
\* the first ones up to the limit.
EventIsExact ==
    \A e \in DOMAIN store :
        LET ev == store[e] IN
        /\ ev.total_query_count = observed[ev.request_id]
        /\ Len(ev.queries) = Minimum(MaxQueries, ev.total_query_count)
        /\ ev.total_query_count <= MaxQueries =>
              ev.total_query_time_ms = TimeOf(ev.queries)

\* Every capture that ended with a valid status left its event in the store,
\* unless the store was full since: middleware.py:164, "stored as RequestEvent
\* on completion".
EndedIsStored ==
    \A r \in Requests :
        phase[r] = "ended" /\ status_code[r] # "other" =>
            r \in IdsOf(store) \/ Len(store) = Capacity

\* The number a hook has computed is that of its query, and so is that of each
\* kept query.
NumbersAreCurrent ==
    \A r \in Requests :
        /\ \A i \in DOMAIN queries[r] : queries[r][i].sequence = i
        /\ \A x \in At(r, "count") : hook[x].sequence = total_query_count[r] + 1
        /\ \A x \in At(r, "time") \cup At(r, "append") :
              hook[x].sequence = total_query_count[r]

\* From which follows that what is stored is exact.
ExactInv ==
    /\ CountInv /\ Awaited /\ RecordsAreSettled /\ TotalsAreCurrent /\ NumbersAreCurrent
    /\ EventIsExact /\ EndedIsStored

\* The queries recorded completely, and their time: the last statement of
\* record_query is where a query is recorded.
CountDone(r) ==
    total_query_count[r] - IF At(r, "time") \cup At(r, "append") = {} THEN 0 ELSE 1
TimeDone(r) == IF At(r, "append") = {} THEN total_query_time_ms[r] ELSE TimeOf(queries[r])

Log == INSTANCE RequestLog WITH
    count <- [r \in Requests |-> CountDone(r)],
    time <- [r \in Requests |-> TimeDone(r)]

\* Though the hooks and the end of a request read and write its context in many
\* steps, what becomes of it is what it would be if each query were recorded in
\* one step and the request ended in one (record_query, context.py:103).
RecordsAtomically == Log!Spec

\* A query event stands for one executed statement (events.py:100): there are
\* never more than the statements a request handed to a cursor.
OneEventPerExecution ==
    \A r \in Requests : total_query_count[r] <= executions[r]
=============================================================================
