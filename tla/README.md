# Tailora Inspector: TLA+ models

Tailora records what a FastAPI application does: every HTTP request becomes an
event with the SQL it executed, kept in a bounded in-memory store, and a page
under `/__tailora` shows the latest ones. These modules model the parts of that
in which something is hard to get right: threads that share a request, a store
that evicts while it is read, a registration that fails half-way, answers that
reach the page out of order, statements that are redacted again and again on
their way out. TLC checks small instances; the TLA+ proof system
proves the central invariants for every value of the constants.

Paths below are relative to `src/src/tailora/`.

## The system

| Part | State it keeps | Operations | Talks to |
|---|---|---|---|
| Event store, `core/store.py` | a deque of events, a dict by request id, an RLock | `add`, `list`/`latest_view`, `get`, `clear`, `size` | called by middleware (event loop) and by API handlers (worker threads) |
| Request context, `core/context.py` | a ContextVar; per request a list of queries, a count, a total time | set, reset, `record_query` | middleware sets it, hooks read it |
| Middleware, `adapters/fastapi/middleware.py` | per request: id, token, status, error | `__call__`, wrapped `send`, `_finalize_request` | the application, the store |
| SQLAlchemy hooks, `adapters/fastapi/sqlalchemy.py` | a start time on each execution context | before, after, error hook | SQLAlchemy calls them on any thread |
| Engine registry, same file | `_REGISTERED_ENGINES` under `_REGISTRATION_LOCK`, listeners on engines | register, unregister | `enable_inspector`, the host |
| Registration, `adapters/fastapi/__init__.py`, `docs.py`, `config.py` | routes, middleware and state of the application | `enable_inspector` | application, registry, store |
| HTTP API, `adapters/fastapi/api.py`, `security.py` | none of its own | health, list, detail, aggregates | store |
| Inspector page, `ui/inspector/app.js` | status, list, selection, a race token | load, refresh, select | HTTP API |
| Redaction, signals, aggregates, serialisation (`core/`) | none | pure functions | all of the above |
| Swagger plugin, assets (`ui/`) | the selected tab | | the browser |

What is hard:

* **Threads of one request.** A worker thread starts with a copy of the
  request's context variables, hence with the same `RequestContext` object.
  `record_query` has no lock: the total time is read, rounded and written back
  (`context.py:113`), the limit is checked and then used (`context.py:118`),
  the sequence number is read long before the count changes
  (`sqlalchemy.py:121`), and `_finalize_request` walks the live list after it
  read the totals (`middleware.py:268`).
* **Nesting and unwinding.** A mounted application may have the middleware too;
  captures end by return, exception or cancellation and must restore the context
  they found.
* **Two structures, one truth.** Deque and dict are updated one after the other.
* **Failure in the middle.** A registration or the attaching of listeners raises
  after half of its steps.
* **Order of answers.** Refreshes, selections and evictions overlap.
* **Several readings for one answer.** `GET /requests` reads the list and then the
  number of stored requests (`api.py:163`); the application goes on in between.
* **Repeated conversions.** A statement is redacted by the hook, by the store's
  writer and by the reader, with two different limits, and its fingerprint is made
  anew from what the redaction before has left (`privacy.py:316`).

`PROJECT.json` lists each hazard at its line with the properties aimed at it.

## Modules

```
EventSeqs ── StoreOps ─┬─ EventLog  (the contract of the store)
                       └─ RingBuffer (its implementation)    RingBufferProofs
EventSeqs ── RequestCapture                                  RequestCaptureProofs
      └─ RequestLog (its contract, workers awaited)          └─ RequestExactProofs
             EngineRegistry                                  EngineRegistryProofs
EventSeqs ── Registration                                    RegistrationProofs
EventSeqs ── InspectorUI                                     InspectorUIProofs
Redaction ── Signals ─┐                                      RedactionProofs
EventSeqs ────────────┴─ InspectorApi                        └─ InspectorApiProofs
```

`MC*.tla` add what TLC needs: symmetry sets and values for structured constants.

**RingBuffer** has one action per statement that runs under the lock. `_lock` is
the thread that holds it, `pc` the statement a thread is about to execute.
Argument checks happen before the lock (`Reject`); the deep copies of `add` and
the readers are outside it and are values here. Request ids are normalised by
event validation before they get here, so they are compared as they are.

**EventLog** is what the store promises: each operation takes effect at one
instant between its call and its return. `RingBuffer!ImplementsLog` is
`Log!Spec` under the mapping `kept <- Newest(_events, Capacity)`: an add takes
effect when the event enters the deque, a clear when the deque is emptied. Since
the store is linearizable, the other modules use it as one atomic step.

**RequestCapture** has tasks (which serve requests, with a stack of captures
each) and workers (threads that copy the context of the task that starts them).
The steps of a hook end where the interpreter may switch threads: at the calls
of `round` and `len` and between statements. `total_query_count += 1` contains
no call and is one step, as on CPython builds with the GIL. `Detached` says
whether a task goes on while its worker runs (a thread of its own,
`asyncio.to_thread` that is not awaited) or waits for it (`run_in_threadpool`,
synchronous endpoints and dependencies). Query durations are 0 (errors without an
execution context) or 1, ids abstract, status codes are classes, `other` standing for codes that
`RequestEvent` refuses. Requests share nothing but the store, so tasks are not
forced to take turns on the event loop: the model has more interleavings than
the loop allows, not fewer. A disabled inspector, a non-HTTP scope or an
excluded path changes no state and has no action.

**RequestLog** is what capturing promises when tasks await their workers: a query
is recorded in one step, in its own request and before that ends, and the event of
a request is all that was recorded in it. `RequestCapture!RecordsAtomically` is
`Log!Spec` under a mapping that lets a query take effect with the last statement
of `record_query`: the abstract `count` and `time` leave out a query that is
counted but not yet recorded (`CountDone`, `TimeDone`). What the application
answers, and when, is left open.

**EngineRegistry** has one action per statement under `_REGISTRATION_LOCK`, with
one step per listener that is attached or removed. `ListenFails` lets
`event.listen` raise at any of the three. Removing a listener that is attached
succeeds: nobody else holds these closures.

**Registration** models `enable_inspector`: its checks, which change nothing (a
refused call has no action), then one action per step of `_register_components`
and the way back (`Restore`). Setup code runs in one thread per application. A
route is its name, the paths it answers, and what the check of the prefix sees of it,
which is something else: whether its path text lies under a prefix, and which of the two
probed pages (`Probed`: the prefix itself and `/health`) its matcher accepts. So there
are routes the check lets through although they answer another page of the Inspector,
and matchers that raise in the check and answer later. The Inspector's own routes stand
together and the last one takes every path behind the prefix (`api.py:264`), so one entry
in the list, which answers all `Pages`, is as good as the seven there are. Routes answer
in order, as Starlette's router does. The environment is one of three classes: local,
shared, production.

**InspectorUI** is the page's single JavaScript thread, one action per stretch of
code between two awaits, and a server that records, evicts and clears. A call in
flight is a record with the token it started with; each fetch is answered (at
the time the server handles it) or fails, in any order. Requests are numbered
as they are recorded. `HealthStatuses` contains a status other than `ok`, which
the page handles although this server never sends it.

**Redaction** is the scanner of `core/privacy.py` with what surrounds it:
truncation, fingerprints, and the three places at which a query event is redacted. A text is a
sequence of the characters the scanner tells apart, one of each kind; what redaction
writes is one character each. The scanner is a recursive function over positions,
as the code is a loop over them. A backslash takes the next character with it in
every dialect, because the code does not ask for the dialect there; that is the code, and
what the dialects say is in the scenarios (below). `IsCutOf` says
what may come out of a statement that is too long: redaction replaces, cuts and marks
(`limits.py:22-27`), then the record strips blanks (`events.py:11-17`), and the next pass
reads what is left as a statement of its own. So the blanks before a cut may be gone, a
comment may have swallowed the marker, and a name cut behind its leading digits has become
a number; nothing else happens to it.

**Signals** holds `core/analysis.py` and `core/aggregation.py` as set
expressions: the positions with a fingerprint, and rows in the one order in which
each precedes the next (`Precedes`, the keys of the Python sort and, as it is
stable, the first appearance). A sum is the number of its units (`SumOver`), which is
the same number and, unlike a fold, one that can be reasoned about.

**InspectorApi** composes both with the store: one client, the application that records, the
host that clears. One action is what a handler does in one critical section of the store, or one
question to one guard. A *scenario* is the part of the state that never changes: what the
application executes, which guards there are, the policy, the thresholds and what the client may
ask. When parameters of the user's dependency are wrong, FastAPI goes on with the hook and then
lists all that is wrong, the limit too (`DependencyInvalid`, `InvalidParameters`):
`DeniedSeesNothing` names this answer as the one a client gets without being let through. `seen`
collects the stores there have been since the question, which is what an answer is measured by.
An application statement is a sequence of segments, each with its text and with what may be
shown of it: the reference that redaction is checked against is written from the dialects, not
from how the scanner works. `OnePassIsExact` says that one pass of the scanner over the
statements of the scenario leaves that reference. The three properties of what a detail shows
(`RedactionIsExact`, `FingerprintIsKept`, `DuplicatesAreRepeats`) are about what two more
passes, cuts and the signals do afterwards.

## What the runs check

| Run | Question | Bounds |
|---|---|---|
| `ringbuffer` | do deque and dict agree whenever the lock is free; does an eviction always find its entry; is the store linearizable; is the lock always released | 2 threads, 3 ids, capacity 2: eviction, duplicates, re-adding an evicted id and clear all happen |
| `capture_awaited` | when tasks await their workers: is the context always one's own, are queries attributed to their own request, is every finished request stored, exactly; is it all as if queries were recorded and requests ended in one step | 2 tasks, 1 worker, 2 requests nested or side by side, limit 1 and up to 2 executions, so truncation happens; all database errors |
| `capture_detached` | when workers run beside their task: is what is stored sound, is every query counted, how far can the list exceed its limit | 1 task, 2 workers, 4 executions, limit 1: the list may hold 3 queries, and there is a fourth to be left out |
| `capture_completion` (violation) | is every finished request stored even then? No | 1 worker |
| `capture_fetch` (violation) | is there at most one query event per execution? No, when a fetch fails | |
| `engine_registry` | does an engine have all listeners of one registration or none, never two of a kind | 3 threads, 2 engines |
| `registration` | all or nothing, routes kept and restored, pages reached; do engines stay hooked, is the caller's store the one that is written, with its capacity | 2 applications, 2 stores of capacity 1 or 2, 1 engine, failures at each step; either all combinations of arguments and up to two host routes, before or after, on one of them while the other rests, or both set up side by side in local environments without host routes (`Bound`) |
| `registration_docs` (violation) | does the docs URL still show the docs? Not if the host has a route that also accepts it | |
| `ui` | do panes and state agree, does a late answer never replace a newer one, does the page come to rest once user and server do | capacity 2, 2 recorded requests, a clear, 2 user actions, every fetch may fail |
| `ui_retry` (violation) | does a click on a request that failed to load try again? Not if the details of another one are still there | as `ui` |
| `inspector_api` | is a list the newest requests at one instant; does a client that is refused learn nothing; does one pass over a statement hide every value and comment and nothing else; do three passes with two limits, and is the pattern kept; are duplicates right; is the table of routes that of one instant, and do the tables add up to the scope | see below |
| `redaction_backslash` (violation) | does a value of PostgreSQL that ends with a backslash end where PostgreSQL says? No | one statement of two values and something between them |

The bounds keep every action enabled and every limit reachable (eviction at
capacity, queries at `MaxQueries`, a stack of two captures). A third user action
or recorded request adds states of the same shape: a token compares with the
newest one only, whatever lies between.

`inspector_api` has two kinds of scenarios. More than three thousand *text* scenarios put one
statement each through capture, store and detail answer, under a limit that cuts most of them
(5) and one that cuts none (20; the hook's own limit is 8, so either of the two may be the one
that cuts first): every segment alone, every pair of segments and every triple of the delicate
ones, except neighbours that together read as something else (`Glued`). Half of them are
MySQL's, with `#` comments, a blank behind the dashes of a comment and `\'` inside values; half
are PostgreSQL's, with dollar quotes and with backslashes that escape nothing. Where the
scanner, which knows one syntax for all dialects, reads a statement differently than its dialect
does, the run does not have it: an odd number of backslashes before a quote in PostgreSQL
(`redaction_backslash` has that), comments within comments in PostgreSQL, dashes without a blank
and `$$` in MySQL. The *traffic* scenarios let four requests of the application end around each
request of the client: capacity 3 evicts, `MaxLimit` 2 makes limits 0 and 3 invalid and
truncates lists and tables, requests with 3 queries are truncated at 2 and whole at 3; no guard,
the dependency, or both; with and without thresholds. A scanner that forgets where it is, or one
that is confused by what it wrote itself, needs two segments to show it and at most three. The
run has 416623 distinct states from 6795 initial ones. Names in quotes count as values, as the
scanner takes them: two statements that differ in nothing else have one pattern, and
`DuplicatesAreRepeats` does not tell them apart either.

`SpinnersHaveACall` states an exception of the code: a refresh that overtakes a
selection and then fails leaves the spinner in the detail pane, because
`renderLoadError` does not touch it. `EnginesAreHooked` states another: when the host has
unregistered an engine, a repeated `enable_inspector` returns before it would hook it again.
These two say how far the code goes; they do not catch the exception itself.
`InspectorAnswers` leaves out exactly the pages that a host route answers in which the check finds no
conflict, and `DetailIsSelected` says which id the copy button holds while the details are loading.
When two workers lose one of their times and the event stays valid, its total time
is too low; nothing in the repository promises it then, and no property speaks of it.

### Disagreements with the documentation

1. `middleware.py:268`: a worker that records between the read of the totals and
   the walk of the list makes `RequestEvent` invalid, and the finished request is
   dropped, against "measured and stored on completion" (`middleware.py:164`).
2. `sqlalchemy.py:147`: a fetch error after a successful statement records it
   again, against "a query executed once" (`core/events.py:100`).
3. `docs.py:43`: the docs route moves behind the host's routes, against
   "replaces the default docs route" (`docs.py:34`).
4. `app.js:662`: after the details of a request failed to load, those of the
   request selected before are still held, and another click on the request is taken
   for a repeated one and ignored, against "click or select a request in the list
   to see its details" (`app.js:227`).
5. `privacy.py:227`: a backslash is taken for an escape in every dialect. In PostgreSQL's
   ordinary strings it is not one, so a value that ends with a backslash is joined with the next,
   and what the next one holds is kept, against "SQL literals are masked before they are
   stored and again before the API answers" (`docs/security.md:43`). In `E''` strings of
   PostgreSQL, and in MySQL, the scanner is right.

The example of 3 is not a route for every path: the check of the prefix refuses that
one. It takes a docs page in a place of its own, as `docs_url="/developer/docs"`, and a host route
`/developer/{page}`.

Five observations outside the runs. The check of the prefix tries two of the Inspector's paths
(`__init__.py:132`): a host route `/{section}/requests` that is there before passes it and
answers `/__tailora/requests` afterwards. While the details of another request load, the button
beside them still copies the id of the one before (`app.js:232`), for good when a refresh
overtakes the load and fails. An application whose docs page is at `/` records nothing: the docs
URL becomes an excluded prefix (`docs.py:25`, `__init__.py:152`), and the prefix `/` excludes
every path (`middleware.py:52`), though `config.py` refuses `/` when the user asks for it. The
page's card of the query-heavy signal shows the analysed count (`app.js:474`) although the
signal compares the total (`analysis.py:82`). A policy with a statement limit above the default
4096 shows no more of a statement than the default does, because the hooks redact with the
default policy (`sqlalchemy.py:51`).

### Fairness

`RingBuffer!FairSpec` is weak fairness of each thread's next statement: the
interpreter runs every thread that can go on. An RLock is not fair, so nothing is
claimed about a thread that waits among others, only that the lock is released. A
thread need not call the store.

`InspectorUI!FairSpec`: the page is opened, a fetch is answered or fails in the
end (browsers time out), the browser runs continuations. Neither the user nor
the recording server is fair. Deadlock is not checked in the page's runs because a
page whose user and server are done does stop.

`InspectorApi` claims no liveness: every handler is a straight line.

## What is proved

Every theorem holds for all values of the constants that satisfy the modules'
`ASSUME`s (capacities and limits are positive, "none" values differ from real
ones, tasks and workers are finite sets, a truncation limit holds at least the marker, as
`policies.py:168` requires, and a statement is not blank, which `events.py:11-17` refuses).

*RingBufferProofs.* `IInv` adds to the types: a thread is inside a `with` block
exactly when it holds the lock (`Exclusive`), it executes the method it called
(`InMethod`), the deque exceeds the capacity only between append and eviction
(`Bounded`), and the dict lags behind by exactly the last event, and only then
(`Indexed`). `Consistent` alone is not inductive: it says nothing while the lock
is held. From `IInv` follow `TypeCorrect`, `ConsistentWhenFree`,
`EvictionNeverFails`, and step by step `Linearizable`, the refinement of
`EventLog`.

*RequestCaptureProofs.* `ContextIsOwn` is inductive together with the fact that
the token of each capture is the request of the capture around it
(`TokensChain`), since ending a capture restores the token. With that a hook that
records works for the request whose context it writes (`RecordsOwn`), hence
`OnlyOwnQueries`. The theorems are `TypeCorrect`, `ContextsDoNotLeak`,
`RequestsAreIsolated`.

The same module counts. `CountIsExact` is inductive by itself once `ContextIsOwn` says
that the hook counts where it began to record. The upper bound of
`KeptIsBounded` needs to know how many runners can record into one request at
once: its workers and one task, since a request is captured by one task
(`CapturedOnce`); the rest is counting the runners at each statement, of which a
step moves one. `StoredAreSound` needs `CapturedOnce` again: a request that is stored has
ended, one that a task is about to store is open, so no event is stored twice.
`CountInv` is the conjunction; `EveryQueryCounts`, `KeptQueriesAreBounded` and
`StoredEventsAreSound` follow. `CountInv` was checked by TLC under the constants
of `capture_detached` and of `capture_awaited`.

*RequestExactProofs.* All is for tasks that await their workers
(`~Detached`), and `ExactInv` says what awaiting gives: a task with a busy worker
rests at the statement that started it, and has no other (`Awaited`), so at most one
runner of a request is within a hook; the time that hook has read is still the time
when it writes, and count, time and list of the request differ by no more than
the query it is about to record (`RecordsAreSettled`, by the statement it is at); its
number is still the next (`NumbersAreCurrent`); and no query comes between the totals a
task has read and the list it then walks (`TotalsAreCurrent`). Without these,
`EventIsExact` and `EndedIsStored` are not inductive: they speak of the store alone. From
`ExactInv` follow `StoredEventsAreExact`, `EndedRequestsAreStored` and, step by step,
`RecordingIsAtomic`, the refinement of `RequestLog`. A query lasts 0 or 1, so the sum
of a list is the number of its long queries and needs no induction. TLC checked
`ExactInv` under the constants of `capture_awaited` before it was proved.

*EngineRegistryProofs.* What an engine has attached is determined by the registry
and by how far the thread that holds the lock has come (`Settled`); with mutual
exclusion (`Exclusive`) and the threads' locals (`Progress`) this is
inductive. `TypeCorrect`, `RegistryIsConsistent` and `QueriesAreSeenOnce` follow.

*RegistrationProofs.* Between calls an application without a registration has the host's routes
and no middleware, one with a registration has the Inspector's router exactly once, behind
nothing in which the check found a conflict (`Settled`, `Routed`); during a call the snapshot is
what to go back to, and how much is done follows from `pc` (`UnderWay`). None of the properties
is inductive: they say nothing about the steps in between, from which a failure returns. For
`RoutesAreKept` every step is shown to keep the host's routes in their order (`Kept`, which
during a call also says which docs route is there): two sequences of routes have the same ones
(`SameHosts`) when an increasing function takes the places of the one to those of the other. For
`InspectorIsReached` the route that answers a page is the first that matches it, and one in
front of the router that does is the host's and passed the check. TLC checked `KeptInv` under
the constants of `registration`. Theorems: `TypeCorrect`, `RegistersWhollyOrNot`,
`InspectorIsReached`, `EnginesStayHooked`, `StoreIsTheCallers`, `HostKeepsItsRoutes`.

*InspectorUIProofs.* A token is given out once, so at most one call is current
(`OneCurrent`); what a current call carries is not older than the last refresh
and asks for the selected request (`CallsAreSound`); with `Progress`, which ties the
panes to the status, the four properties are inductive:
`DetailsAreOfTheSelection`, `ListIsOfTheState`, `NewestRefreshWins`,
`SpinnersEnd`, for any number of requests, refreshes and clicks. That the copy button is
that of the details last loaded (`ButtonOfLoaded`) is what keeps its id known through a spinner.

*InspectorApiProofs.* `Controlled` says what has been decided before each phase, `Sighted`
that the last store seen is the present one and that a list was read from one of them.
`ListIsConsistent` and `AccessIsControlled` follow for all scenarios, stores
and limits. `RoutesAddUp` needs to know in addition that what is stored has
durations and counts (`TablesInv`), and the operators of the table: rows of which
any two are in order can be listed in that order (`ListedInOrder`, `OrderIs`), the
events of different routes are disjoint and together all events, and the sizes of
disjoint sets add up to that of their union (`SumOfSizes`), so the rows' counts
and queries add up to the scope's; the view and the store have as many events of
each route (`SameNumber`), so a row is true of the store. TLC checked `TablesInv` under
the constants of `inspector_api`.

`PatternsAddUp` rests on every stored query having a fingerprint, since a query without
one is in no row: `PatternsInv` adds to `TablesInv` that neither statement nor
fingerprint of a stored query is blank (`AreQueried`), and that redaction
keeps this is a lemma on the scanner (`FragmentsInk`, `NumbersInk`). The executions of all events,
which the code walks as one list, are one flattened sequence, and a row's requests are
the events among its executions (`PatternsAreCounted`).

The detail of a request is what the hook's pass, the store's and the reader's have left of its
statements. `ShownInv` says of every stored event and of the detail under way that each query's
statement is what passes make of the redacted one (`MayShow`: that text itself, or a cut of it
of a form that the next pass leaves in one of the same forms), and that of a statement that fits
both text and fingerprint are whole. The three properties are not inductive: they speak of the
answer alone, and would allow a stored statement that the next pass reads differently.
`PassesStayExact`, `FingerprintsStay` and `DuplicatesAreReal` state them under `OnePassIsExact`,
for any scenarios, policies and limits. The condition is about constants: it relates what a
scenario says may be shown of a statement to what one pass makes of it, without which no
statement about the passes after it means anything; TLC checks it for every statement of the
run. `PatternsInv` and `ShownInv` quantify over all texts, which TLC cannot enumerate: of them
it has checked the properties they strengthen.

*RedactionProofs.* What holds of every text. The scanner (`Scan`) and `FlattenSeq` are recursive
functions; that they satisfy their equations is shown by constructing a solution (`Recursion`,
`FlattenRecursion`), and what holds at every position by taking the least, or the greatest, at
which it fails (`Ascending`, `Descending`, `Induction`): the library's induction theorems, which
take a predicate as a parameter, are not needed. Then:

* Something is left of every text that is not blank (`FragmentsInk` … `StatementIs`).
* A text is *steady* when the scanner leaves it alone, and *settled* when it also holds no number. What
  one pass makes of any text is settled (`RedactedSettles`), with the blanks around
  it or without (`StrippedSettles`). This is `RedactionSettles`: redaction is idempotent, in every dialect.
* A cut can be read in two new ways by the next pass: digits at the end of what was a name
  have become a number (`CutNumber`), and the marker behind an opened comment is
  swallowed by it (`SwallowsIs`, `SwallowedFollows`). `TruncatedCut` and `NextShows` go
  through them: what a pass leaves is again the redacted statement, or a cut of *that*, whatever
  the two limits. This is `PassesCutOnly`. The case analysis showed that an earlier `IsCutOf`, over the
  stripped statement, was wrong for cuts beside blanks.

Only model-checked:

* `OnePassIsExact`: what may be shown of a segment is given with each scenario, by hand, so
  this is a statement about the statements of the run. What is proved of the scanner for
  every text is what its own output does in further passes, not that it
  finds each literal of SQL.
* All liveness: the prover does not reason about fairness or ENABLED.

## Not modelled

* In `Redaction`: letter case, decimal points, exponents and hexadecimal numbers
  (`_NUMBER_LITERAL` on words of digits only); headers and query parameters
  (`redact_headers` and `redact_query_params` have no caller outside the
  tests); the truncation of routes, error types and database names. Statements of
  blanks only do not occur, `QueryEvent` refuses them. A disabled policy does
  not occur either, `config.py:176` and `middleware.py:159` refuse it. Dialect names are
  normalised by the record's validation, so an odd name (dialect None) is left out.
* Excluded paths, prefix normalisation, route templates and the HTML of the pages:
  strings. Where they decide something (a prefix that is taken, an excluded request) the
  decision is modelled.
* The texts of errors, the no-store headers and the configuration of the API's UI assets.
* The hooks' fallback to `conn.info`: SQLAlchemy hands an execution context to every
  cursor execution.
* Free-threaded builds, on which `+= 1` is not atomic.
* Serialisation, assets, the Swagger plugin, and the field validation of records,
  policies and thresholds: no decisions that outlive a call.

## Plan

Done: the store with its refinement, capture, engine registry, registration, page,
API, redaction, signals; the inductive invariants of each state machine, the
refinements of the store and of recording, both tables, and the passes of redaction. Every safety
property of a passing run is a theorem but `OnePassIsExact`. What is left:

1. Excluded paths and prefix normalisation (`config.py`, `middleware.py`,
   `docs.py`) as operators on sequences of path segments, with root paths and docs
   URLs of every form, checked against a reference: what is recorded is what neither
   the Inspector nor the docs page answers.
2. Letter case and the remaining number literals in `Redaction`; header and
   parameter redaction, if the code comes to use them.
3. The page against `InspectorApi`'s answers instead of its own server.
