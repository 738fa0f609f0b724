------------------------- MODULE RequestExactProofs -------------------------
(* What a stored event says of its request: it is exact when a task awaits  *)
(* the workers it starts.                                                   *)
EXTENDS RequestCaptureProofs

-----------------------------------------------------------------------------
(* The time of a list of queries *)

Timed(qs) == {i \in DOMAIN qs : qs[i].duration = 1}

LEMMA TimeOfType ==
    ASSUME NEW S, NEW qs \in Seq(S)
    PROVE  /\ IsFiniteSet(Timed(qs)) /\ Timed(qs) \subseteq 1..Len(qs)
           /\ TimeOf(qs) = Cardinality(Timed(qs)) /\ TimeOf(qs) \in Nat
<1>1. Timed(qs) \subseteq 1..Len(qs) /\ Len(qs) \in Nat
    BY DEF Timed
<1>2. IsFiniteSet(1..Len(qs))
    BY <1>1, FS_Interval
<1>3. IsFiniteSet(Timed(qs))
    BY <1>1, <1>2, FS_Subset
<1> QED
    BY <1>1, <1>3, FS_CardinalityType DEF TimeOf, Timed

\* A query adds its duration.
LEMMA TimeOfAppend ==
    ASSUME NEW qs \in Seq(QueryType), NEW q \in QueryType
    PROVE  TimeOf(Append(qs, q)) = TimeOf(qs) + q.duration
<1> DEFINE n == Len(qs) + 1
<1>1. /\ Append(qs, q) \in Seq(QueryType) /\ DOMAIN qs = 1..Len(qs) /\ Len(qs) \in Nat
      /\ DOMAIN Append(qs, q) = 1..n /\ Append(qs, q)[n] = q
      /\ \A i \in 1..Len(qs) : Append(qs, q)[i] = qs[i]
    OBVIOUS
<1>2. q.duration \in {0, 1}
    BY DEF QueryType
<1>3. /\ TimeOf(qs) = Cardinality(Timed(qs)) /\ TimeOf(qs) \in Nat /\ IsFiniteSet(Timed(qs))
      /\ TimeOf(Append(qs, q)) = Cardinality(Timed(Append(qs, q)))
    BY <1>1, TimeOfType
<1>4. n \notin Timed(qs)
    BY <1>1 DEF Timed
<1>5. CASE q.duration = 1
    <2>1. Timed(Append(qs, q)) = Timed(qs) \cup {n}
        BY <1>1, <1>5 DEF Timed
    <2>2. Cardinality(Timed(qs) \cup {n}) = Cardinality(Timed(qs)) + 1
        BY <1>3, <1>4, FS_AddElement
    <2> QED
        BY <1>3, <1>5, <2>1, <2>2
<1>6. CASE q.duration = 0
    <2>1. Timed(Append(qs, q)) = Timed(qs)
        BY <1>1, <1>6 DEF Timed
    <2> QED
        BY <1>3, <1>6, <2>1
<1> QED
    BY <1>2, <1>5, <1>6

\* Numbering the queries keeps how many there are and their times; cutting the
\* list takes no time away from those that stay.
LEMMA EventQueriesAre ==
    ASSUME TypeOK, NEW r \in Requests, NEW total \in TotalsType
    PROVE  LET qs == _safe_normalize_queries(queries[r])
               ev == RequestEvent(r, qs, total)
           IN  /\ Len(qs) = Len(queries[r]) /\ TimeOf(qs) = TimeOf(queries[r])
               /\ Len(ev.queries) = Minimum(Len(queries[r]), MaxQueries)
               /\ TimeOf(ev.queries) \in Nat /\ TimeOf(ev.queries) <= TimeOf(queries[r])
               /\ Len(queries[r]) <= MaxQueries => TimeOf(ev.queries) = TimeOf(queries[r])
<1> DEFINE qs == _safe_normalize_queries(queries[r])
           n == Minimum(Len(qs), MaxQueries)
           cut == SubSeq(qs, 1, n)
           ev == RequestEvent(r, qs, total)
<1>1. queries[r] \in Seq(QueryType) /\ MaxQueries \in Nat
    BY CaptureAssumption DEF TypeOK
<1>2. /\ qs = [i \in 1..Len(queries[r]) |-> [queries[r][i] EXCEPT !.sequence = i]]
      /\ DOMAIN queries[r] = 1..Len(queries[r]) /\ Len(queries[r]) \in Nat
    BY <1>1 DEF _safe_normalize_queries
<1>3. \A i \in 1..Len(queries[r]) : qs[i].duration = queries[r][i].duration
    <2>1. ASSUME NEW q \in QueryType, NEW i
          PROVE  [q EXCEPT !.sequence = i].duration = q.duration
        BY DEF QueryType
    <2>2. \A i \in 1..Len(queries[r]) : queries[r][i] \in QueryType
        BY <1>1
    <2> QED
        BY <1>2, <2>1, <2>2
<1>4. Len(qs) = Len(queries[r]) /\ DOMAIN qs = 1..Len(queries[r])
    BY <1>2
<1>5. qs \in Seq({qs[i] : i \in 1..Len(queries[r])})
    BY <1>2
<1>6. ev.queries = cut
    BY DEF RequestEvent
<1> HIDE DEF qs, ev
<1>7. Timed(qs) = Timed(queries[r])
    BY <1>2, <1>3, <1>4 DEF Timed
<1>8. /\ TimeOf(qs) = TimeOf(queries[r]) /\ TimeOf(qs) = Cardinality(Timed(qs))
      /\ IsFiniteSet(Timed(qs))
    BY <1>1, <1>5, <1>7, TimeOfType
<1>9. n \in Nat /\ n <= Len(qs) /\ n = Minimum(Len(queries[r]), MaxQueries)
    BY <1>1, <1>2, <1>4 DEF Minimum
<1>10. Len(queries[r]) <= MaxQueries => n = Len(qs)
    BY <1>1, <1>2, <1>4 DEF Minimum
<1> HIDE DEF n
<1>11. /\ cut \in Seq({qs[i] : i \in 1..Len(queries[r])})
       /\ DOMAIN cut = 1..n /\ Len(cut) = n /\ \A i \in 1..n : cut[i] = qs[i]
    BY <1>5, <1>9
<1> HIDE DEF cut
<1>12. TimeOf(cut) = Cardinality(Timed(cut)) /\ TimeOf(cut) \in Nat
    BY <1>11, TimeOfType
<1>13. Timed(cut) \subseteq Timed(qs) /\ (n = Len(qs) => Timed(cut) = Timed(qs))
    <2>1. DOMAIN cut \subseteq DOMAIN qs /\ \A i \in DOMAIN cut : cut[i] = qs[i]
        <3>1. DOMAIN cut = 1..n /\ DOMAIN qs = 1..Len(qs) /\ Len(qs) \in Nat
            BY <1>2, <1>4, <1>11
        <3>2. 1..n \subseteq 1..Len(qs)
            BY <1>9, <3>1
        <3> QED
            BY <1>11, <3>1, <3>2
    <2>2. n = Len(qs) => DOMAIN cut = DOMAIN qs
        BY <1>4, <1>11
    <2> QED
        BY <2>1, <2>2 DEF Timed
<1>14. Cardinality(Timed(cut)) <= Cardinality(Timed(qs))
    BY <1>8, <1>13, FS_Subset
<1>15. /\ Len(ev.queries) = Minimum(Len(queries[r]), MaxQueries)
       /\ TimeOf(ev.queries) \in Nat /\ TimeOf(ev.queries) <= TimeOf(queries[r])
       /\ Len(queries[r]) <= MaxQueries => TimeOf(ev.queries) = TimeOf(queries[r])
    BY <1>6, <1>8, <1>9, <1>10, <1>11, <1>12, <1>13, <1>14
<1> QED
    BY <1>4, <1>8, <1>15 DEF qs, ev

-----------------------------------------------------------------------------
(* Adding to the store *)

\* The new event is the last one, the others are older ones, and none of them
\* is lost while there is room.
LEMMA NewestKeeps ==
    ASSUME NEW S, NEW s \in Seq(S), NEW e \in S, Len(s) <= Capacity
    PROVE  LET kept == Newest(Append(s, e), Capacity) IN
           /\ Len(kept) \in DOMAIN kept /\ kept[Len(kept)] = e
           /\ \A k \in DOMAIN kept : kept[k] = e \/ \E j \in DOMAIN s : kept[k] = s[j]
           /\ IF Len(s) < Capacity
              THEN \A j \in DOMAIN s : j \in DOMAIN kept /\ kept[j] = s[j]
              ELSE Len(kept) = Capacity
<1> DEFINE a == Append(s, e)
           kept == Newest(a, Capacity)
<1>1. Capacity \in Nat \ {0} /\ Len(s) \in Nat /\ DOMAIN s = 1..Len(s)
    BY CaptureAssumption
<1>2. /\ a \in Seq(S) /\ DOMAIN a = 1..Len(s) + 1 /\ Len(a) = Len(s) + 1
      /\ a[Len(s) + 1] = e /\ \A j \in 1..Len(s) : a[j] = s[j]
    OBVIOUS
<1> HIDE DEF a
<1>3. \A k \in DOMAIN kept : kept[k] = e \/ \E j \in DOMAIN s : kept[k] = s[j]
    <2>1. \A j \in DOMAIN a : a[j] = e \/ \E m \in DOMAIN s : a[j] = s[m]
        BY <1>1, <1>2
    <2> QED
        BY <1>2, <2>1, NewestAreOf
<1>4. CASE Len(s) < Capacity
    <2>1. kept = a
        BY <1>1, <1>2, <1>4 DEF Newest
    <2> HIDE DEF kept
    <2>2. Len(kept) \in DOMAIN kept /\ kept[Len(kept)] = e
        BY <1>1, <1>2, <2>1
    <2>3. \A j \in DOMAIN s : j \in DOMAIN kept /\ kept[j] = s[j]
        BY <1>1, <1>2, <2>1
    <2> QED
        BY <1>3, <1>4, <2>2, <2>3 DEF kept, a
<1>5. CASE ~(Len(s) < Capacity)
    <2>1. Len(s) = Capacity /\ ~(Len(a) <= Capacity)
        <3>1. Len(s) = Capacity
            <4>1. Capacity \in Nat /\ Len(s) \in Nat
                BY <1>1
            <4>2. \A m, n \in Nat : m <= n /\ ~(m < n) => m = n
                OBVIOUS
            <4> QED
                BY <1>5, <4>1, <4>2
        <3>2. Len(a) = Capacity + 1
            BY <1>2, <3>1
        <3> QED
            BY <1>1, <3>1, <3>2
    <2>2. kept = SubSeq(a, 2, Capacity + 1) /\ 2 <= Capacity + 1
        <3>1. Len(a) - Capacity + 1 = 2 /\ Len(a) = Capacity + 1 /\ 2 <= Capacity + 1
            BY <1>1, <1>2, <2>1
        <3> QED
            BY <2>1, <3>1 DEF Newest
    <2> HIDE DEF kept
    <2>3. /\ DOMAIN SubSeq(a, 2, Capacity + 1) = 1..Capacity
          /\ Len(SubSeq(a, 2, Capacity + 1)) = Capacity
          /\ SubSeq(a, 2, Capacity + 1)[Capacity] = a[Capacity + 1]
        BY <1>1, <1>2, <2>1
    <2>4. Len(kept) \in DOMAIN kept /\ kept[Len(kept)] = e /\ Len(kept) = Capacity
        BY <1>1, <1>2, <2>1, <2>2, <2>3
    <2> QED
        BY <1>3, <1>5, <2>4 DEF kept, a
<1> QED
    BY <1>4, <1>5

\* What the end of a capture stores.
LEMMA Stores ==
    ASSUME TypeOK, TokensChain, CapturedOnce, StoredAreSound, NEW t \in Tasks, StoreEvent(t)
    PROVE  LET r == Top(t).request
               qs == _safe_normalize_queries(queries[r])
               ev == RequestEvent(r, qs, totals[t])
           IN  /\ r \in Requests /\ phase[r] = "open" /\ totals[t] \in TotalsType
               /\ phase' = [phase EXCEPT ![r] = "ended"]
               /\ store \in Seq(EventType) /\ ev \in EventType /\ ev.request_id = r
               /\ IF ValidEvent(status_code[r], qs, totals[t])
                  THEN store' = Newest(Append(store, ev), Capacity)
                  ELSE store' = store
               /\ \A k \in DOMAIN store' :
                    \/ \E j \in DOMAIN store : store'[k] = store[j]
                    \/ store'[k] = ev /\ ValidEvent(status_code[r], qs, totals[t])
<1> DEFINE r == Top(t).request
           qs == _safe_normalize_queries(queries[r])
           ev == RequestEvent(r, qs, totals[t])
<1>1. stack[t] # <<>>
    BY DEF StoreEvent, Goto, TokensChain
<1>2. r \in Requests /\ totals[t] \in TotalsType /\ phase[r] = "open"
    BY <1>1, TopIs DEF Top, TokensChain, Chained, CapturedOnce, TypeOK
<1>3. phase' = [phase EXCEPT ![r] = "ended"]
    BY DEF StoreEvent
<1>4. store \in Seq(EventType) /\ ev \in EventType /\ ev.request_id = r
    BY <1>2, EventOf DEF TypeOK, RequestEvent
<1>5. IF ValidEvent(status_code[r], qs, totals[t])
      THEN store' = Newest(Append(store, ev), Capacity)
      ELSE store' = store
    BY DEF StoreEvent
<1>6. Len(store) <= Capacity
    BY DEF StoredAreSound
<1>7. \A k \in DOMAIN store' :
        \/ \E j \in DOMAIN store : store'[k] = store[j]
        \/ store'[k] = ev /\ ValidEvent(status_code[r], qs, totals[t])
    <2> HIDE DEF ev, qs, r
    <2>1. CASE ValidEvent(status_code[r], qs, totals[t])
        BY <1>4, <1>5, <1>6, <2>1, NewestKeeps
    <2>2. CASE ~ValidEvent(status_code[r], qs, totals[t])
        BY <1>5, <2>2
    <2> QED
        BY <2>1, <2>2
<1> QED
    BY <1>2, <1>3, <1>4, <1>5, <1>7

LEMMA StoreKeeps ==
    ASSUME [Next]_vars, \A t \in Tasks : ~StoreEvent(t)
    PROVE  UNCHANGED store
<1> USE DEF control, database, response, context
<1>1. ASSUME NEW x \in Runners, Hooks(x)
      PROVE  UNCHANGED store
    BY <1>1 DEF Hooks, BeforeCursorExecute, AfterCursorExecute, ExecuteFails, FetchFails,
                ErrorOfExecution, ConnectionFails, Unrecorded, CountQuery, AddTime, AppendQuery
<1> QED
    BY <1>1 DEF Next, vars, StartCapture, SendResponseStart, Spawn, AppEnds, ReadTotals,
                WorkerEnds

-----------------------------------------------------------------------------
(* Workers that are awaited *)

\* A hook runs in an active runner, and a task that begins one awaits no worker.
LEMMA HooksRun ==
    ASSUME NEW x \in Runners, Hooks(x)
    PROVE  pc[x] # "idle" /\ pc'[x] # "idle" /\ (pc[x] = "run" => Runs(x))
<1>1. CASE BeforeCursorExecute(x)
    BY <1>1 DEF BeforeCursorExecute, MayExecute, Goto
<1>2. CASE AfterCursorExecute(x)
    BY <1>2 DEF AfterCursorExecute, BeginRecord, Goto
<1>3. CASE ExecuteFails(x)
    BY <1>3 DEF ExecuteFails, ErrorOfExecution, BeginRecord, Goto
<1>4. CASE FetchFails(x)
    BY <1>4 DEF FetchFails, MayExecute, ErrorOfExecution, BeginRecord, Goto
<1>5. CASE ConnectionFails(x)
    BY <1>5 DEF ConnectionFails, MayExecute, BeginRecord, Goto
<1>6. CASE Unrecorded(x)
    BY <1>6 DEF Unrecorded, Goto
<1>7. CASE CountQuery(x)
    BY <1>7 DEF CountQuery, Goto
<1>8. CASE AddTime(x)
    BY <1>8 DEF AddTime, Goto
<1>9. CASE AppendQuery(x)
    BY <1>9 DEF AppendQuery, Goto
<1> QED
    BY <1>1, <1>2, <1>3, <1>4, <1>5, <1>6, <1>7, <1>8, <1>9 DEF Hooks

\* An active worker works for what its task serves, which waits in its place.
LEMMA AwaitedStep ==
    ~Detached /\ TypeOK /\ Awaited /\ [Next]_vars => Awaited'
<1> SUFFICES ASSUME ~Detached, TypeOK, Awaited, [Next]_vars
             PROVE  Awaited'
    OBVIOUS
<1> USE RunnersAre DEF control, database, response, context
\* What has to be shown of every active worker.
<1>w. ASSUME \A v \in Workers : pc'[v] # "idle" =>
                \E u \in Tasks : /\ parent'[v] = u /\ pc'[u] = "run"
                                /\ serving'[v] = Serves(u)',
             \A u, v \in Workers :
                pc'[u] # "idle" /\ pc'[v] # "idle" /\ parent'[u] = parent'[v] => u = v
      PROVE  Awaited'
    BY <1>w DEF Awaited, Serves, Top
\* A task that has no active worker may do anything.
<1>a. ASSUME NEW t \in Tasks, \A w \in Workers : pc[w] # "idle" => parent[w] # t,
             \A u \in Tasks \ {t} : pc'[u] = pc[u] /\ stack'[u] = stack[u],
             \A w \in Workers : pc'[w] = pc[w],
             UNCHANGED <<parent, serving>>
      PROVE  Awaited'
    <2>1. \A u \in Tasks \ {t} : Serves(u)' = Serves(u)
        BY <1>a, TaskIsNoWorker DEF Serves, Top
    <2>2. ASSUME NEW v \in Workers, pc'[v] # "idle"
          PROVE  \E u \in Tasks : /\ parent'[v] = u /\ pc'[u] = "run"
                                  /\ serving'[v] = Serves(u)'
        <3>1. PICK u \in Tasks \ {t} : parent[v] = u /\ pc[u] = "run" /\ serving[v] = Serves(u)
            BY <1>a, <2>2 DEF Awaited
        <3>2. parent'[v] = u /\ pc'[u] = "run" /\ serving'[v] = Serves(u)'
            BY <1>a, <2>1, <3>1
        <3> QED
            BY <3>2
    <2>3. \A u, v \in Workers :
            pc'[u] # "idle" /\ pc'[v] # "idle" /\ parent'[u] = parent'[v] => u = v
        BY <1>a DEF Awaited
    <2> QED
        BY <1>w, <2>2, <2>3
\* A worker that stays active does not disturb its task.
<1>b. ASSUME NEW w \in Workers, pc[w] # "idle",
             \A x \in Runners \ {w} : pc'[x] = pc[x], UNCHANGED <<parent, serving, stack>>
      PROVE  Awaited'
    <2>1. \A u \in Tasks : Serves(u)' = Serves(u) /\ pc'[u] = pc[u]
        BY <1>b, TaskIsNoWorker DEF Serves, Top
    <2>2. ASSUME NEW v \in Workers, pc'[v] # "idle"
          PROVE  \E u \in Tasks : /\ parent'[v] = u /\ pc'[u] = "run"
                                  /\ serving'[v] = Serves(u)'
        <3>1. pc[v] # "idle"
            BY <1>b, <2>2
        <3>2. PICK u \in Tasks : parent[v] = u /\ pc[u] = "run" /\ serving[v] = Serves(u)
            BY <3>1 DEF Awaited
        <3>3. parent'[v] = u /\ pc'[u] = "run" /\ serving'[v] = Serves(u)'
            BY <1>b, <2>1, <3>2
        <3> QED
            BY <3>3
    <2>3. \A u, v \in Workers :
            pc'[u] # "idle" /\ pc'[v] # "idle" /\ parent'[u] = parent'[v] => u = v
        BY <1>b DEF Awaited
    <2> QED
        BY <1>w, <2>2, <2>3
<1>1. CASE UNCHANGED <<pc, parent, serving, stack>>
    BY <1>1 DEF Awaited, Serves, Top
<1>2. ASSUME NEW t \in Tasks, NEW r \in Requests, StartCapture(t, r)
      PROVE  Awaited'
    BY <1>2, <1>a DEF StartCapture, Runs, TypeOK
<1>3. ASSUME NEW t \in Tasks, NEW s \in Statuses, SendResponseStart(t, s)
      PROVE  Awaited'
    BY <1>1, <1>3 DEF SendResponseStart
<1>4. ASSUME NEW t \in Tasks, NEW w \in Workers, Spawn(t, w)
      PROVE  Awaited'
    <2>1. /\ pc[w] = "idle" /\ pc'[w] = "run" /\ \A y \in Runners \ {w} : pc'[y] = pc[y]
          /\ parent'[w] = t /\ serving'[w] = Serves(t) /\ UNCHANGED stack
          /\ \A v \in Workers \ {w} : parent'[v] = parent[v] /\ serving'[v] = serving[v]
          /\ pc[t] = "run" /\ \A v \in Workers : pc[v] # "idle" => parent[v] # t
        BY <1>4, GotoOnly DEF Spawn, Runs, TypeOK
    <2>2. \A u \in Tasks : u \notin Workers /\ Serves(u)' = Serves(u) /\ pc'[u] = pc[u]
        BY <2>1, TaskIsNoWorker DEF Serves, Top
    <2>3. ASSUME NEW v \in Workers, pc'[v] # "idle"
          PROVE  \E u \in Tasks : /\ parent'[v] = u /\ pc'[u] = "run"
                                  /\ serving'[v] = Serves(u)'
        <3>1. CASE v = w
            BY <2>1, <2>2, <3>1
        <3>2. CASE v # w
            <4>1. /\ parent[v] \in Tasks /\ pc[parent[v]] = "run"
                  /\ serving[v] = Serves(parent[v])
                BY <2>1, <2>3, <3>2 DEF Awaited
            <4>2. PICK u \in Tasks : u = parent[v]
                BY <4>1
            <4>3. parent'[v] = u /\ pc'[u] = "run" /\ serving'[v] = Serves(u)'
                BY <2>1, <2>2, <3>2, <4>1, <4>2
            <4> QED
                BY <4>3
        <3> QED
            BY <3>1, <3>2
    <2>4. ASSUME NEW u \in Workers, NEW v \in Workers, pc'[u] # "idle", pc'[v] # "idle",
                 parent'[u] = parent'[v]
          PROVE  u = v
        BY <2>1, <2>4 DEF Awaited
    <2> QED
        BY <1>w, <2>3, <2>4
<1>5. ASSUME NEW t \in Tasks, NEW o \in Outcomes, NEW s \in Statuses, AppEnds(t, o, s)
      PROVE  Awaited'
    <2>1. \A y \in Runners \ {t} : pc'[y] = pc[y]
        BY <1>5, GotoOnly DEF AppEnds
    <2>2. /\ \A w \in Workers : pc[w] # "idle" => parent[w] # t
          /\ UNCHANGED <<stack, parent, serving>>
        BY <1>5 DEF AppEnds, Runs
    <2> QED
        BY <1>a, <2>1, <2>2, TaskIsNoWorker
<1>6. ASSUME NEW t \in Tasks, ReadTotals(t) \/ StoreEvent(t)
      PROVE  Awaited'
    <2>1. \A y \in Runners \ {t} : pc'[y] = pc[y]
        BY <1>6, GotoOnly DEF ReadTotals, StoreEvent
    <2>2. \A w \in Workers : pc[w] # "idle" => parent[w] # t
        BY <1>6 DEF ReadTotals, StoreEvent, Goto, Awaited
    <2>3. UNCHANGED <<parent, serving>> /\ \A u \in Tasks \ {t} : stack'[u] = stack[u]
        BY <1>6 DEF ReadTotals, StoreEvent, TypeOK
    <2> QED
        BY <1>a, <2>1, <2>2, <2>3, TaskIsNoWorker
<1>7. ASSUME NEW w \in Workers, WorkerEnds(w)
      PROVE  Awaited'
    <2>1. /\ pc[w] = "run" /\ pc'[w] = "idle" /\ \A y \in Runners \ {w} : pc'[y] = pc[y]
          /\ \A v \in Workers \ {w} : parent'[v] = parent[v] /\ serving'[v] = serving[v]
          /\ UNCHANGED stack
        BY <1>7, GotoOnly DEF WorkerEnds, TypeOK
    <2>2. \A u \in Tasks : u \notin Workers /\ Serves(u)' = Serves(u) /\ pc'[u] = pc[u]
        BY <2>1, TaskIsNoWorker DEF Serves, Top
    <2>3. ASSUME NEW v \in Workers, pc'[v] # "idle"
          PROVE  /\ v # w /\ pc[v] # "idle"
                 /\ \E u \in Tasks : /\ parent'[v] = u /\ pc'[u] = "run"
                                     /\ serving'[v] = Serves(u)'
        <3>1. v # w /\ pc[v] # "idle"
            BY <2>1, <2>3
        <3>2. PICK u \in Tasks : parent[v] = u /\ pc[u] = "run" /\ serving[v] = Serves(u)
            BY <3>1 DEF Awaited
        <3>3. parent'[v] = u /\ pc'[u] = "run" /\ serving'[v] = Serves(u)'
            BY <2>1, <2>2, <3>1, <3>2
        <3> QED
            BY <3>1, <3>3
    <2>4. ASSUME NEW u \in Workers, NEW v \in Workers, pc'[u] # "idle", pc'[v] # "idle",
                 parent'[u] = parent'[v]
          PROVE  u = v
        BY <2>1, <2>3, <2>4 DEF Awaited
    <2> QED
        BY <1>w, <2>3, <2>4
<1>8. ASSUME NEW x \in Runners, Hooks(x)
      PROVE  Awaited'
    <2>1. /\ \A y \in Runners \ {x} : pc'[y] = pc[y]
          /\ UNCHANGED <<stack, parent, serving>>
        BY <1>8, HooksMove, GotoOnly DEF HookMoves
    <2>2. CASE x \in Workers
        BY <1>8, <1>b, <2>1, <2>2, HooksRun
    <2>3. CASE x \in Tasks
        <3>1. \A w \in Workers : pc[w] # "idle" => parent[w] # x
            BY <1>8, <2>3, HooksRun DEF Awaited, Runs
        <3> QED
            BY <1>a, <2>1, <2>3, <3>1, TaskIsNoWorker
    <2> QED
        BY <2>2, <2>3 DEF Runners
<1>9. CASE UNCHANGED vars
    BY <1>1, <1>9 DEF vars
<1> QED
    BY <1>2, <1>3, <1>4, <1>5, <1>6, <1>7, <1>8, <1>9 DEF Next

-----------------------------------------------------------------------------
(* One runner at a time *)

\* An active runner works in the capture of a task: its own, or that of the task
\* that awaits it.
LEMMA WorksIn ==
    ASSUME IInv, Awaited, NEW x \in Runners, pc[x] # "idle", _CURRENT_CONTEXT[x] # NoRequest
    PROVE  \E t \in Tasks :
              /\ IF x \in Workers THEN parent[x] = t /\ pc[t] = "run" ELSE x = t
              /\ \E i \in DOMAIN stack[t] : stack[t][i].request = _CURRENT_CONTEXT[x]
<1>1. TypeOK /\ _CURRENT_CONTEXT[x] = Serves(x)
    BY DEF IInv, ContextIsOwn
<1>2. ASSUME NEW t \in Tasks, Serves(t) = _CURRENT_CONTEXT[x]
      PROVE  \E i \in DOMAIN stack[t] : stack[t][i].request = _CURRENT_CONTEXT[x]
    <2>1. stack[t] # <<>> /\ Top(t).request = _CURRENT_CONTEXT[x]
        BY <1>2, TaskIsNoWorker DEF Serves
    <2> QED
        BY <1>1, <2>1, TopIs DEF Top
<1>3. CASE x \in Workers
    <2>1. PICK t \in Tasks : parent[x] = t /\ pc[t] = "run" /\ serving[x] = Serves(t)
        BY <1>3 DEF Awaited
    <2>2. Serves(t) = _CURRENT_CONTEXT[x]
        BY <1>1, <1>3, <2>1 DEF Serves
    <2> QED
        BY <1>2, <1>3, <2>1, <2>2
<1>4. CASE x \notin Workers
    <2>1. x \in Tasks
        BY <1>4 DEF Runners
    <2> QED
        BY <1>1, <1>2, <1>4, <2>1
<1> QED
    BY <1>3, <1>4

\* The request an active runner works for has not ended.
LEMMA ServedIsOpen ==
    ASSUME IInv, CapturedOnce, Awaited, NEW x \in Runners, pc[x] # "idle",
           _CURRENT_CONTEXT[x] # NoRequest
    PROVE  phase[_CURRENT_CONTEXT[x]] = "open"
BY WorksIn DEF CapturedOnce

\* Of the runners that work for one request, at most one is within a hook or
\* finalizes it.
LEMMA OneAtWork ==
    ASSUME IInv, CapturedOnce, Awaited, NEW x \in Runners, NEW y \in Runners,
           pc[x] \notin {"idle", "run"}, pc[y] \notin {"idle", "run"},
           _CURRENT_CONTEXT[x] = _CURRENT_CONTEXT[y], _CURRENT_CONTEXT[x] # NoRequest
    PROVE  x = y
<1>1. PICK t \in Tasks :
        /\ IF x \in Workers THEN parent[x] = t /\ pc[t] = "run" ELSE x = t
        /\ \E i \in DOMAIN stack[t] : stack[t][i].request = _CURRENT_CONTEXT[x]
    BY WorksIn
<1>2. PICK u \in Tasks :
        /\ IF y \in Workers THEN parent[y] = u /\ pc[u] = "run" ELSE y = u
        /\ \E i \in DOMAIN stack[u] : stack[u][i].request = _CURRENT_CONTEXT[y]
    BY WorksIn
<1>3. t = u
    BY <1>1, <1>2 DEF CapturedOnce
<1> QED
    BY <1>1, <1>2, <1>3 DEF Awaited

\* What is written to a request's context, its time or the locals of a hook
\* that is past the count comes from the hook itself.
LEMMA OnlyHooksWrite ==
    ASSUME TypeOK, [Next]_vars
    PROVE  /\ UNCHANGED total_query_count \/ \E x \in Runners : CountQuery(x)
           /\ UNCHANGED total_query_time_ms \/ \E x \in Runners : AddTime(x)
           /\ \A y \in Runners :
                pc[y] \in Recording =>
                    hook'[y] = hook[y] \/ CountQuery(y) \/ AddTime(y) \/ AppendQuery(y)
<1> USE DEF control, database, response, context, Recording
<1>1. ASSUME NEW x \in Runners, NEW from \in {"run", "executing"}, NEW d,
             BeginRecord(x, from, d)
      PROVE  \A y \in Runners : pc[y] \in Recording => hook'[y] = hook[y]
    BY <1>1 DEF BeginRecord, Goto, TypeOK
<1>2. ASSUME NEW x \in Runners, CountQuery(x) \/ AddTime(x) \/ AppendQuery(x),
             NEW y \in Runners, pc[y] \in Recording
      PROVE  hook'[y] = hook[y] \/ CountQuery(y) \/ AddTime(y) \/ AppendQuery(y)
    BY <1>2 DEF CountQuery, AddTime, AppendQuery, Goto, TypeOK
<1>3. ASSUME NEW x \in Runners, Hooks(x)
      PROVE  /\ UNCHANGED total_query_count \/ CountQuery(x)
             /\ UNCHANGED total_query_time_ms \/ AddTime(x)
             /\ UNCHANGED hook
                \/ CountQuery(x) \/ AddTime(x) \/ AppendQuery(x)
                \/ \E from \in {"run", "executing"}, d \in {0, 1} : BeginRecord(x, from, d)
    <2>1. CASE BeforeCursorExecute(x) \/ Unrecorded(x)
        BY <2>1 DEF BeforeCursorExecute, Unrecorded
    <2>2. CASE AfterCursorExecute(x)
        BY <2>2 DEF AfterCursorExecute
    <2>3. CASE ExecuteFails(x) \/ FetchFails(x)
        BY <2>3 DEF ExecuteFails, FetchFails, ErrorOfExecution
    <2>4. CASE ConnectionFails(x)
        BY <2>4 DEF ConnectionFails
    <2>5. CASE CountQuery(x) \/ AddTime(x) \/ AppendQuery(x)
        BY <2>5 DEF CountQuery, AddTime, AppendQuery
    <2> QED
        BY <1>3, <2>1, <2>2, <2>3, <2>4, <2>5 DEF Hooks
<1>4. CASE \E x \in Runners : Hooks(x)
    BY <1>1, <1>2, <1>3, <1>4
<1>5. CASE \A x \in Runners : ~Hooks(x)
    <2>1. UNCHANGED <<hook, total_query_count, total_query_time_ms>>
        BY <1>5 DEF Next, vars, StartCapture, SendResponseStart, Spawn, AppEnds,
                    ReadTotals, StoreEvent, WorkerEnds
    <2> QED
        BY <2>1
<1> QED
    BY <1>4, <1>5

LEMMA TotalsStep ==
    IInv /\ CapturedOnce /\ Awaited /\ TotalsAreCurrent /\ [Next]_vars => TotalsAreCurrent'
<1> SUFFICES ASSUME IInv, CapturedOnce, Awaited, TotalsAreCurrent, [Next]_vars,
                    NEW t \in Tasks, pc'[t] = "store"
             PROVE  (totals[t] = [count |-> total_query_count[Top(t).request],
                                  time |-> total_query_time_ms[Top(t).request]])'
    BY DEF TotalsAreCurrent
<1> USE DEF control, database, response, context
<1> DEFINE r == Top(t).request
<1>0. TypeOK /\ TokensChain /\ t \in Runners
    BY RunnersAre DEF IInv
<1>1. CASE ReadTotals(t)
    <2>1. /\ totals'[t] = [count |-> total_query_count[r], time |-> total_query_time_ms[r]]
          /\ UNCHANGED <<stack, total_query_count, total_query_time_ms>>
        BY <1>0, <1>1 DEF ReadTotals, TypeOK
    <2> QED
        BY <2>1 DEF Top
<1>2. CASE ~ReadTotals(t)
    <2>1. pc[t] = "store" /\ stack'[t] = stack[t] /\ totals'[t] = totals[t]
        <3>1. ASSUME NEW x \in Runners, Hooks(x)
              PROVE  pc[t] = "store" /\ UNCHANGED <<stack, totals>>
            <4>1. UNCHANGED stack /\ \E from, to \in Labels \ {"finalize", "store"} : Goto(x, from, to)
                BY <3>1, HooksMove DEF HookMoves
            <4>2. pc[t] = "store"
                BY <1>0, <4>1, GotoOnly
            <4>3. UNCHANGED totals
                BY <3>1 DEF Hooks, BeforeCursorExecute, AfterCursorExecute, ExecuteFails,
                            FetchFails, ErrorOfExecution, ConnectionFails, Unrecorded,
                            CountQuery, AddTime, AppendQuery
            <4> QED
                BY <4>1, <4>2, <4>3
        <3>2. ASSUME NEW u \in Tasks, NEW q \in Requests, StartCapture(u, q)
              PROVE  pc[t] = "store" /\ stack'[t] = stack[t] /\ totals'[t] = totals[t]
            BY <1>0, <3>2 DEF StartCapture, Runs, TypeOK
        <3>3. ASSUME NEW u \in Tasks, NEW s \in Statuses, SendResponseStart(u, s)
              PROVE  pc[t] = "store" /\ stack'[t] = stack[t] /\ totals'[t] = totals[t]
            BY <3>3 DEF SendResponseStart
        <3>4. ASSUME NEW u \in Tasks, NEW w \in Workers, Spawn(u, w)
              PROVE  pc[t] = "store" /\ stack'[t] = stack[t] /\ totals'[t] = totals[t]
            <4>1. w \in Runners /\ Goto(w, "idle", "run") /\ UNCHANGED <<stack, totals>>
                BY <3>4, RunnersAre DEF Spawn
            <4> QED
                BY <1>0, <4>1, GotoOnly
        <3>5. ASSUME NEW u \in Tasks, NEW o \in Outcomes, NEW s \in Statuses, AppEnds(u, o, s)
              PROVE  pc[t] = "store" /\ stack'[t] = stack[t] /\ totals'[t] = totals[t]
            <4>1. u \in Runners /\ Goto(u, "run", "finalize") /\ UNCHANGED <<stack, totals>>
                BY <3>5, RunnersAre DEF AppEnds
            <4> QED
                BY <1>0, <4>1, GotoOnly
        <3>6. ASSUME NEW u \in Tasks, ReadTotals(u)
              PROVE  pc[t] = "store" /\ stack'[t] = stack[t] /\ totals'[t] = totals[t]
            <4>1. u # t /\ u \in Runners /\ Goto(u, "finalize", "store") /\ UNCHANGED stack
                BY <1>2, <3>6, RunnersAre DEF ReadTotals
            <4>2. totals'[t] = totals[t]
                BY <1>0, <3>6, <4>1 DEF ReadTotals, TypeOK
            <4> QED
                BY <1>0, <4>1, <4>2, GotoOnly
        <3>7. ASSUME NEW u \in Tasks, StoreEvent(u)
              PROVE  pc[t] = "store" /\ stack'[t] = stack[t] /\ totals'[t] = totals[t]
            <4>1. u \in Runners /\ Goto(u, "store", "run")
                BY <3>7, RunnersAre DEF StoreEvent
            <4>2. u # t /\ pc[t] = "store"
                BY <1>0, <4>1, GotoOnly
            <4> QED
                BY <1>0, <3>7, <4>2 DEF StoreEvent, TypeOK
        <3>8. ASSUME NEW w \in Workers, WorkerEnds(w)
              PROVE  pc[t] = "store" /\ stack'[t] = stack[t] /\ totals'[t] = totals[t]
            <4>1. w \in Runners /\ Goto(w, "run", "idle") /\ UNCHANGED <<stack, totals>>
                BY <3>8, RunnersAre DEF WorkerEnds
            <4> QED
                BY <1>0, <4>1, GotoOnly
        <3>9. CASE UNCHANGED vars
            BY <3>9 DEF vars
        <3> QED
            BY <3>1, <3>2, <3>3, <3>4, <3>5, <3>6, <3>7, <3>8, <3>9 DEF Next
    <2>2. r \in Requests /\ _CURRENT_CONTEXT[t] = r /\ r # NoRequest /\ Top(t)' = Top(t)
        <3>1. stack[t] # <<>>
            BY <2>1 DEF IInv, TokensChain
        <3>2. r \in Requests /\ Serves(t) = r
            BY <1>0, <3>1, TopIs, TaskIsNoWorker DEF Top, TokensChain, Chained, Serves
        <3> QED
            BY <1>0, <2>1, <3>2, CaptureAssumption DEF IInv, ContextIsOwn, Top
    <2>3. ASSUME NEW x \in Runners, pc[x] \in {"count", "time"}
          PROVE  _CURRENT_CONTEXT[x] # r
        BY <1>0, <2>1, <2>2, <2>3, OneAtWork
    <2>4. total_query_count'[r] = total_query_count[r]
        <3>1. ASSUME NEW x \in Runners, CountQuery(x)
              PROVE  total_query_count'[r] = total_query_count[r]
            BY <1>0, <2>2, <2>3, <3>1 DEF CountQuery, Goto, TypeOK
        <3> QED
            BY <1>0, <3>1, OnlyHooksWrite
    <2>5. total_query_time_ms'[r] = total_query_time_ms[r]
        <3>1. ASSUME NEW x \in Runners, AddTime(x)
              PROVE  total_query_time_ms'[r] = total_query_time_ms[r]
            BY <1>0, <2>2, <2>3, <3>1 DEF AddTime, Goto, TypeOK
        <3> QED
            BY <1>0, <3>1, OnlyHooksWrite
    <2>6. totals[t] = [count |-> total_query_count[r], time |-> total_query_time_ms[r]]
        BY <2>1 DEF TotalsAreCurrent
    <2> QED
        BY <2>1, <2>2, <2>4, <2>5, <2>6
<1> QED
    BY <1>1, <1>2

-----------------------------------------------------------------------------
(* What a request has recorded *)

\* A hook that moves on changes the sets of its own request only.
LEMMA AtAfter ==
    ASSUME TypeOK, NEW x \in Runners, NEW from, NEW to, Goto(x, from, to),
           UNCHANGED _CURRENT_CONTEXT, NEW r, NEW l
    PROVE  At(r, l)' = IF _CURRENT_CONTEXT[x] # r THEN At(r, l)
                       ELSE IF l = to THEN At(r, l) \cup {x} ELSE At(r, l) \ {x}
<1>1. pc[x] = from /\ pc'[x] = to /\ \A y \in Runners \ {x} : pc'[y] = pc[y]
    BY GotoOnly
<1>2. CASE _CURRENT_CONTEXT[x] # r
    BY <1>1, <1>2 DEF At
<1>3. CASE _CURRENT_CONTEXT[x] = r /\ l = to
    BY <1>1, <1>3 DEF At
<1>4. CASE _CURRENT_CONTEXT[x] = r /\ l # to
    BY <1>1, <1>4 DEF At
<1> QED
    BY <1>2, <1>3, <1>4

\* Of the hooks of a request one is at its statements.
LEMMA OneRecords ==
    ASSUME IInv, CapturedOnce, Awaited, NEW r \in Requests, NEW l \in Recording,
           NEW x \in At(r, l)
    PROVE  \A k \in Recording : At(r, k) = IF k = l THEN {x} ELSE {}
<1>1. /\ x \in Runners /\ pc[x] = l /\ _CURRENT_CONTEXT[x] = r /\ r # NoRequest
      /\ \A k \in Recording : k \notin {"idle", "run"}
    BY CaptureAssumption DEF At, Recording
<1>2. \A y \in Runners : pc[y] \in Recording /\ _CURRENT_CONTEXT[y] = r => y = x
    BY <1>1, OneAtWork
<1> QED
    BY <1>1, <1>2 DEF At

\* What a hook that works for request r finds in its context, and what is there
\* after its step.
LEMMA HookTypes ==
    ASSUME IInv, NEW x \in Runners
    PROVE  /\ hook[x] \in HookType /\ hook[x].duration \in {0, 1} /\ hook[x].sequence \in Nat
           /\ hook[x].time \in Nat
           /\ CountQuery(x) \/ AddTime(x) \/ AppendQuery(x) \/ Begins(x) =>
                /\ UNCHANGED _CURRENT_CONTEXT /\ _CURRENT_CONTEXT[x] \in Requests
                /\ \A y \in Runners \ {x} : hook'[y] = hook[y]
<1>1. TypeOK /\ RecordsOwn
    BY DEF IInv
<1>2. hook[x] \in HookType
    BY <1>1 DEF TypeOK
<1>3. /\ hook[x].duration \in {0, 1} /\ hook[x].sequence \in Nat /\ hook[x].time \in Nat
    BY <1>2 DEF HookType
<1>4. ASSUME CountQuery(x) \/ AddTime(x) \/ AppendQuery(x) \/ Begins(x)
      PROVE  /\ UNCHANGED _CURRENT_CONTEXT /\ _CURRENT_CONTEXT[x] \in Requests
             /\ \A y \in Runners \ {x} : hook'[y] = hook[y]
    <2>1. UNCHANGED _CURRENT_CONTEXT /\ _CURRENT_CONTEXT[x] \in Requests
        BY <1>1, <1>4 DEF Begins, CountQuery, AddTime, AppendQuery, Goto, RecordsOwn,
                          TypeOK, MaybeRequest
    <2>2. \A y \in Runners \ {x} : hook'[y] = hook[y]
        BY <1>1, <1>4 DEF Begins, CountQuery, AddTime, AppendQuery, TypeOK
    <2> QED
        BY <2>1, <2>2
<1> QED
    BY <1>2, <1>3, <1>4

\* A request that a step of a hook, or a quiet step, leaves alone.
Rests(r) ==
    /\ \A l \in Recording : At(r, l)' = At(r, l)
    /\ queries'[r] = queries[r] /\ total_query_count'[r] = total_query_count[r]
    /\ total_query_time_ms'[r] = total_query_time_ms[r]
    /\ \A l \in Recording : \A x \in At(r, l) : hook'[x] = hook[x]

LEMMA OthersRest ==
    ASSUME IInv, NEW r \in Requests, NEW x \in Runners, _CURRENT_CONTEXT[x] # r,
           CountQuery(x) \/ AddTime(x) \/ AppendQuery(x) \/ Begins(x)
    PROVE  Rests(r)
<1> USE DEF context
<1>1. TypeOK
    BY DEF IInv
<1>2. UNCHANGED _CURRENT_CONTEXT /\ \E from, to \in Labels : Goto(x, from, to)
    BY <1>1, HookTypes DEF CountQuery, AddTime, AppendQuery, Begins, Goto, Labels, TypeOK
<1>3. \A l \in Recording : At(r, l)' = At(r, l)
    BY <1>1, <1>2, AtAfter
<1>4. /\ queries'[r] = queries[r] /\ total_query_count'[r] = total_query_count[r]
      /\ total_query_time_ms'[r] = total_query_time_ms[r]
    BY <1>1 DEF CountQuery, AddTime, AppendQuery, Begins, TypeOK
<1>5. \A l \in Recording : \A y \in At(r, l) : hook'[y] = hook[y]
    BY HookTypes DEF At
<1> QED
    BY <1>3, <1>4, <1>5 DEF Rests

LEMMA QuietRests ==
    ASSUME IInv, [Next]_vars, Quiet, NEW r \in Requests
    PROVE  Rests(r)
<1>1. TypeOK
    BY DEF IInv
<1>2. \A l \in Recording : At(r, l)' = At(r, l)
    BY QuietKeepsAt
<1>3. \A x \in Runners : ~CountQuery(x) /\ ~AddTime(x) /\ ~AppendQuery(x)
    <2>1. \A x \in Runners : pc[x] \in Recording => pc'[x] = pc[x]
        BY DEF Quiet, Recording
    <2> QED
        BY <1>1, <2>1, GotoOnly DEF CountQuery, AddTime, AppendQuery, Recording
<1>4. \A l \in Recording : \A x \in At(r, l) : hook'[x] = hook[x]
    BY <1>1, <1>3, OnlyHooksWrite DEF At, Recording
<1> QED
    BY <1>1, <1>2, <1>3, <1>4, OnlyHooksWrite DEF Quiet, Rests

\* A hook begins: its number is the next one.
LEMMA HookBegins ==
    ASSUME IInv, NEW x \in Runners, Begins(x), NEW r \in Requests, _CURRENT_CONTEXT[x] = r
    PROVE  /\ At(r, "time")' = At(r, "time") /\ At(r, "append")' = At(r, "append")
           /\ At(r, "count")' = At(r, "count") \cup {x} /\ x \notin At(r, "count")
           /\ x \notin At(r, "time") \cup At(r, "append")
           /\ UNCHANGED <<queries, total_query_count, total_query_time_ms>>
           /\ hook'[x].sequence = total_query_count[r] + 1
<1>1. TypeOK /\ \E from \in {"run", "executing"} : Goto(x, from, "count")
    BY DEF IInv, Begins
<1>2. PICK from \in {"run", "executing"} : Goto(x, from, "count")
    BY <1>1
<1>3. x \notin At(r, "count") /\ x \notin At(r, "time") /\ x \notin At(r, "append")
    BY <1>2 DEF At, Goto
<1>4. /\ At(r, "time")' = At(r, "time") /\ At(r, "append")' = At(r, "append")
      /\ At(r, "count")' = At(r, "count") \cup {x}
    <2>1. UNCHANGED _CURRENT_CONTEXT
        BY HookTypes
    <2>2. /\ At(r, "time")' = At(r, "time") \ {x} /\ At(r, "append")' = At(r, "append") \ {x}
          /\ At(r, "count")' = At(r, "count") \cup {x}
        BY <1>1, <1>2, <2>1, AtAfter
    <2> QED
        BY <1>3, <2>2
<1>5. UNCHANGED <<queries, total_query_count, total_query_time_ms>>
    BY DEF Begins, context
<1>6. hook'[x].sequence = total_query_count[r] + 1
    BY <1>1 DEF Begins, TypeOK
<1> QED
    BY <1>3, <1>4, <1>5, <1>6

LEMMA HookCounts ==
    ASSUME IInv, CapturedOnce, Awaited, NEW x \in Runners, CountQuery(x),
           NEW r \in Requests, _CURRENT_CONTEXT[x] = r
    PROVE  /\ At(r, "count") = {x} /\ At(r, "time") = {} /\ At(r, "append") = {}
           /\ At(r, "count")' = {} /\ At(r, "time")' = {x} /\ At(r, "append")' = {}
           /\ UNCHANGED <<queries, total_query_time_ms>>
           /\ total_query_count' = [total_query_count EXCEPT ![r] = @ + 1]
           /\ hook'[x].time = total_query_time_ms[r] /\ hook'[x].sequence = hook[x].sequence
           /\ hook'[x].duration = hook[x].duration
<1>1. TypeOK /\ Goto(x, "count", "time") /\ x \in At(r, "count")
    BY DEF IInv, CountQuery, Goto, At
<1>2. At(r, "count") = {x} /\ At(r, "time") = {} /\ At(r, "append") = {}
    BY <1>1, OneRecords DEF Recording
<1>3. At(r, "count")' = {} /\ At(r, "time")' = {x} /\ At(r, "append")' = {}
    BY <1>1, <1>2, AtAfter, HookTypes
<1>4. /\ UNCHANGED <<queries, total_query_time_ms>>
      /\ total_query_count' = [total_query_count EXCEPT ![r] = @ + 1]
    BY <1>1 DEF CountQuery, CountedTotal, TypeOK
<1>5. hook[x] \in HookType /\ hook' = [hook EXCEPT ![x].time = total_query_time_ms[r]]
    BY HookTypes DEF CountQuery
<1>6. /\ hook'[x].time = total_query_time_ms[r] /\ hook'[x].sequence = hook[x].sequence
      /\ hook'[x].duration = hook[x].duration
    BY <1>1, <1>5 DEF TypeOK, HookType
<1> QED
    BY <1>2, <1>3, <1>4, <1>6

LEMMA HookAddsTime ==
    ASSUME IInv, CapturedOnce, Awaited, NEW x \in Runners, AddTime(x),
           NEW r \in Requests, _CURRENT_CONTEXT[x] = r
    PROVE  /\ At(r, "count") = {} /\ At(r, "time") = {x} /\ At(r, "append") = {}
           /\ At(r, "count")' = {} /\ At(r, "time")' = {}
           /\ UNCHANGED <<queries, total_query_count>>
           /\ total_query_time_ms' =
                 [total_query_time_ms EXCEPT ![r] = hook[x].time + hook[x].duration]
           /\ IF Keeps(r) THEN At(r, "append")' = {x} /\ UNCHANGED hook
              ELSE At(r, "append")' = {}
<1>1. TypeOK /\ Goto(x, "time", IF Keeps(r) THEN "append" ELSE "run") /\ x \in At(r, "time")
    BY DEF IInv, AddTime, Goto, At
<1>2. At(r, "count") = {} /\ At(r, "time") = {x} /\ At(r, "append") = {}
    BY <1>1, OneRecords DEF Recording
<1>3. At(r, "count")' = {} /\ At(r, "time")' = {}
    BY <1>1, <1>2, AtAfter, HookTypes
<1>4. At(r, "append")' = IF Keeps(r) THEN {x} ELSE {}
    BY <1>1, <1>2, AtAfter, HookTypes
<1>5. /\ UNCHANGED <<queries, total_query_count>>
      /\ total_query_time_ms' =
            [total_query_time_ms EXCEPT ![r] = hook[x].time + hook[x].duration]
      /\ Keeps(r) => UNCHANGED hook
    BY DEF AddTime
<1> QED
    BY <1>2, <1>3, <1>4, <1>5

LEMMA HookAppends ==
    ASSUME IInv, CapturedOnce, Awaited, NEW x \in Runners, AppendQuery(x),
           NEW r \in Requests, _CURRENT_CONTEXT[x] = r
    PROVE  /\ At(r, "count") = {} /\ At(r, "time") = {} /\ At(r, "append") = {x}
           /\ \A l \in Recording : At(r, l)' = {}
           /\ UNCHANGED <<total_query_count, total_query_time_ms>>
           /\ queries' = [queries EXCEPT ![r] = Append(@, Query(x))]
           /\ Query(x) = [owner |-> r, sequence |-> hook[x].sequence,
                          duration |-> hook[x].duration]
           /\ Query(x) \in QueryType
<1>1. TypeOK /\ RecordsOwn /\ Goto(x, "append", "run") /\ x \in At(r, "append")
    BY DEF IInv, AppendQuery, Goto, At
<1>2. At(r, "count") = {} /\ At(r, "time") = {} /\ At(r, "append") = {x}
    BY <1>1, OneRecords DEF Recording
<1>3. \A l \in Recording : At(r, l)' = {}
    BY <1>1, <1>2, AtAfter, HookTypes DEF Recording
<1>4. /\ UNCHANGED <<total_query_count, total_query_time_ms>>
      /\ queries' = [queries EXCEPT ![r] = Append(@, Query(x))]
    BY DEF AppendQuery
<1>5. hook[x].owner = r /\ hook[x].sequence # 0
    BY <1>1 DEF RecordsOwn, Goto
<1>6. Query(x) \in QueryType
    BY <1>5, HookTypes DEF Query, QueryType, MaybeRequest
<1> QED
    BY <1>2, <1>3, <1>4, <1>5, <1>6 DEF Query

LEMMA SettledStep ==
    IInv /\ CapturedOnce /\ Awaited /\ RecordsAreSettled /\ [Next]_vars => RecordsAreSettled'
<1> DEFINE Fine(r) ==
              /\ At(r, "time") \cup At(r, "append") = {} => Settled(r, total_query_count[r])
              /\ \A x \in At(r, "time") :
                    /\ Settled(r, total_query_count[r] - 1)
                    /\ hook[x].time = total_query_time_ms[r]
              /\ \A x \in At(r, "append") :
                    /\ Len(queries[r]) = total_query_count[r] - 1
                    /\ Len(queries[r]) < MaxQueries
                    /\ total_query_time_ms[r] = TimeOf(queries[r]) + hook[x].duration
<1> SUFFICES ASSUME IInv, CapturedOnce, Awaited, RecordsAreSettled, [Next]_vars,
                    NEW r \in Requests
             PROVE  Fine(r)'
    BY DEF RecordsAreSettled
<1> DEFINE n == total_query_count[r]
           time == total_query_time_ms[r]
           len == Len(queries[r])
<1>0. TypeOK
    BY DEF IInv
<1>1. /\ queries[r] \in Seq(QueryType) /\ len \in Nat /\ n \in Nat /\ time \in Nat
      /\ TimeOf(queries[r]) \in Nat /\ MaxQueries \in Nat \ {0}
    BY <1>0, TimeOfType, CaptureAssumption DEF TypeOK
<1>2. Fine(r)
    BY DEF RecordsAreSettled
<1>3. ASSUME At(r, "time")' = At(r, "time"), At(r, "append")' = At(r, "append"),
             queries'[r] = queries[r], total_query_count'[r] = n,
             total_query_time_ms'[r] = time,
             \A x \in At(r, "time") \cup At(r, "append") : hook'[x] = hook[x]
      PROVE  Fine(r)'
    <2>1. Settled(r, total_query_count[r])' <=> Settled(r, n)
        BY <1>3 DEF Settled
    <2>2. Settled(r, total_query_count[r] - 1)' <=> Settled(r, n - 1)
        BY <1>3 DEF Settled
    <2>3. (At(r, "time") \cup At(r, "append") = {})' <=> At(r, "time") \cup At(r, "append") = {}
        BY <1>3
    <2> QED
        BY <1>2, <1>3, <2>1, <2>2, <2>3
<1>4. CASE Rests(r)
    BY <1>3, <1>4 DEF Rests, Recording
<1>5. ASSUME NEW x \in Runners, Begins(x), _CURRENT_CONTEXT[x] = r
      PROVE  Fine(r)'
    <2>1. /\ At(r, "time")' = At(r, "time") /\ At(r, "append")' = At(r, "append")
          /\ x \notin At(r, "time") \cup At(r, "append")
          /\ UNCHANGED <<queries, total_query_count, total_query_time_ms>>
        BY <1>5, HookBegins
    <2>2. \A y \in At(r, "time") \cup At(r, "append") : hook'[y] = hook[y]
        BY <1>5, <2>1, HookTypes DEF At
    <2> QED
        BY <1>3, <2>1, <2>2
<1>6. ASSUME NEW x \in Runners, CountQuery(x), _CURRENT_CONTEXT[x] = r
      PROVE  Fine(r)'
    <2>1. /\ At(r, "time") = {} /\ At(r, "append") = {}
          /\ At(r, "time")' = {x} /\ At(r, "append")' = {}
          /\ UNCHANGED <<queries, total_query_time_ms>>
          /\ total_query_count'[r] = n + 1 /\ hook'[x].time = time
        BY <1>0, <1>6, HookCounts DEF TypeOK
    <2>2. total_query_count'[r] - 1 = n
        BY <1>1, <2>1
    <2>3. Settled(r, n)
        BY <1>2, <2>1
    <2>4. Settled(r, total_query_count[r] - 1)'
        BY <2>1, <2>2, <2>3 DEF Settled
    <2> QED
        BY <2>1, <2>4
<1>7. ASSUME NEW x \in Runners, AddTime(x), _CURRENT_CONTEXT[x] = r
      PROVE  Fine(r)'
    <2>1. /\ At(r, "time") = {x} /\ At(r, "time")' = {}
          /\ UNCHANGED <<queries, total_query_count>>
          /\ total_query_time_ms'[r] = hook[x].time + hook[x].duration
          /\ IF len < MaxQueries THEN At(r, "append")' = {x} /\ UNCHANGED hook
             ELSE At(r, "append")' = {}
        BY <1>0, <1>7, HookAddsTime DEF TypeOK, Keeps
    <2>2. Settled(r, n - 1) /\ hook[x].time = time /\ hook[x].duration \in {0, 1}
        BY <1>2, <2>1, HookTypes
    <2>3. CASE len < MaxQueries
        <3>1. n - 1 <= MaxQueries /\ len = n - 1
            BY <1>1, <2>2, <2>3 DEF Settled, Minimum
        <3>2. time = TimeOf(queries[r])
            BY <2>2, <3>1 DEF Settled
        <3> QED
            BY <2>1, <2>2, <2>3, <3>1, <3>2
    <2>4. CASE ~(len < MaxQueries)
        <3>1. ~(n <= MaxQueries) /\ len = Minimum(MaxQueries, n)
            BY <1>1, <2>2, <2>4 DEF Settled, Minimum
        <3>2. time + hook[x].duration >= TimeOf(queries[r])
            BY <1>1, <2>2 DEF Settled
        <3>3. Settled(r, total_query_count[r])'
            BY <2>1, <2>2, <3>1, <3>2 DEF Settled
        <3> QED
            BY <2>1, <2>4, <3>3
    <2> QED
        BY <2>3, <2>4
<1>8. ASSUME NEW x \in Runners, AppendQuery(x), _CURRENT_CONTEXT[x] = r
      PROVE  Fine(r)'
    <2>1. /\ At(r, "append") = {x} /\ At(r, "time")' = {} /\ At(r, "append")' = {}
          /\ UNCHANGED <<total_query_count, total_query_time_ms>>
          /\ queries'[r] = Append(queries[r], Query(x))
          /\ Query(x) \in QueryType /\ Query(x).duration = hook[x].duration
        BY <1>0, <1>8, HookAppends DEF TypeOK, Recording
    <2>2. hook[x].duration \in {0, 1}
        BY HookTypes, <1>8
    <2>3. TimeOf(queries'[r]) = TimeOf(queries[r]) + hook[x].duration
        BY <1>1, <2>1, TimeOfAppend
    <2>4. Len(queries'[r]) = len + 1
        BY <1>1, <2>1
    <2>5. len = n - 1 /\ len < MaxQueries /\ time = TimeOf(queries[r]) + hook[x].duration
        BY <1>2, <2>1
    <2>6. Len(queries'[r]) = Minimum(MaxQueries, n)
        BY <1>1, <2>4, <2>5 DEF Minimum
    <2>7. total_query_time_ms'[r] = TimeOf(queries'[r]) /\ TimeOf(queries'[r]) \in Nat
        BY <1>1, <2>1, <2>2, <2>3, <2>5
    <2>8. Settled(r, total_query_count[r])'
        BY <2>1, <2>6, <2>7 DEF Settled
    <2> QED
        BY <2>1, <2>8
<1>9. ASSUME NEW x \in Runners, Begins(x) \/ CountQuery(x) \/ AddTime(x) \/ AppendQuery(x)
      PROVE  Fine(r)'
    <2>1. CASE _CURRENT_CONTEXT[x] # r
        BY <1>4, <1>9, <2>1, OthersRest
    <2>2. CASE _CURRENT_CONTEXT[x] = r
        BY <1>5, <1>6, <1>7, <1>8, <1>9, <2>2
    <2> QED
        BY <2>1, <2>2
<1> HIDE DEF Fine
<1> QED
    BY <1>0, <1>4, <1>9, StepIs, QuietRests

LEMMA NumbersStep ==
    /\ IInv /\ CapturedOnce /\ Awaited /\ RecordsAreSettled /\ NumbersAreCurrent
    /\ [Next]_vars
    => NumbersAreCurrent'
<1> DEFINE Fine(r) ==
              /\ \A i \in DOMAIN queries[r] : queries[r][i].sequence = i
              /\ \A x \in At(r, "count") : hook[x].sequence = total_query_count[r] + 1
              /\ \A x \in At(r, "time") \cup At(r, "append") :
                    hook[x].sequence = total_query_count[r]
<1> SUFFICES ASSUME IInv, CapturedOnce, Awaited, RecordsAreSettled, NumbersAreCurrent,
                    [Next]_vars, NEW r \in Requests
             PROVE  Fine(r)'
    BY DEF NumbersAreCurrent
<1> DEFINE n == total_query_count[r]
           len == Len(queries[r])
<1>0. TypeOK
    BY DEF IInv
<1>1. queries[r] \in Seq(QueryType) /\ len \in Nat /\ n \in Nat
    BY <1>0 DEF TypeOK
<1>2. Fine(r)
    BY DEF NumbersAreCurrent
<1>3. CASE Rests(r)
    BY <1>2, <1>3 DEF Rests, Recording
<1>4. ASSUME NEW x \in Runners, Begins(x), _CURRENT_CONTEXT[x] = r
      PROVE  Fine(r)'
    <2>1. /\ At(r, "time")' = At(r, "time") /\ At(r, "append")' = At(r, "append")
          /\ At(r, "count")' = At(r, "count") \cup {x} /\ x \notin At(r, "count")
          /\ x \notin At(r, "time") \cup At(r, "append")
          /\ UNCHANGED <<queries, total_query_count>>
          /\ hook'[x].sequence = n + 1
        BY <1>4, HookBegins
    <2>2. \A l \in Recording : \A y \in At(r, l) : y # x => hook'[y] = hook[y]
        BY <1>4, HookTypes DEF At
    <2> QED
        BY <1>2, <2>1, <2>2 DEF Recording
<1>5. ASSUME NEW x \in Runners, CountQuery(x), _CURRENT_CONTEXT[x] = r
      PROVE  Fine(r)'
    <2>1. /\ At(r, "count") = {x}
          /\ At(r, "count")' = {} /\ At(r, "time")' = {x} /\ At(r, "append")' = {}
          /\ UNCHANGED queries
          /\ total_query_count'[r] = n + 1 /\ hook'[x].sequence = hook[x].sequence
        BY <1>0, <1>5, HookCounts DEF TypeOK
    <2> QED
        BY <1>2, <2>1
<1>6. ASSUME NEW x \in Runners, AddTime(x), _CURRENT_CONTEXT[x] = r
      PROVE  Fine(r)'
    <2>1. /\ At(r, "time") = {x} /\ At(r, "count")' = {} /\ At(r, "time")' = {}
          /\ UNCHANGED <<queries, total_query_count>>
          /\ (At(r, "append")' = {x} /\ UNCHANGED hook) \/ At(r, "append")' = {}
        BY <1>6, HookAddsTime
    <2> QED
        BY <1>2, <2>1
<1>7. ASSUME NEW x \in Runners, AppendQuery(x), _CURRENT_CONTEXT[x] = r
      PROVE  Fine(r)'
    <2>1. /\ At(r, "append") = {x}
          /\ At(r, "count")' = {} /\ At(r, "time")' = {} /\ At(r, "append")' = {}
          /\ queries'[r] = Append(queries[r], Query(x))
          /\ Query(x).sequence = hook[x].sequence
        BY <1>0, <1>7, HookAppends DEF TypeOK, Recording
    <2>2. hook[x].sequence = n /\ len = n - 1
        BY <1>2, <2>1 DEF RecordsAreSettled
    <2>3. Query(x).sequence = len + 1
        BY <1>1, <2>1, <2>2
    <2>4. /\ DOMAIN queries'[r] = 1..(len + 1) /\ queries'[r][len + 1] = Query(x)
          /\ \A i \in 1..len : i \in DOMAIN queries[r] /\ queries'[r][i] = queries[r][i]
        BY <1>1, <2>1
    <2>5. \A i \in DOMAIN queries'[r] : queries'[r][i].sequence = i
        <3>1. ASSUME NEW i \in 1..(len + 1)
              PROVE  i \in 1..len \/ i = len + 1
            BY <1>1
        <3> QED
            BY <1>2, <2>3, <2>4, <3>1
    <2> QED
        BY <2>1, <2>5
<1>8. ASSUME NEW x \in Runners, Begins(x) \/ CountQuery(x) \/ AddTime(x) \/ AppendQuery(x)
      PROVE  Fine(r)'
    <2>1. CASE _CURRENT_CONTEXT[x] # r
        BY <1>3, <1>8, <2>1, OthersRest
    <2>2. CASE _CURRENT_CONTEXT[x] = r
        BY <1>4, <1>5, <1>6, <1>7, <1>8, <2>2
    <2> QED
        BY <2>1, <2>2
<1> HIDE DEF Fine
<1> QED
    BY <1>0, <1>3, <1>8, StepIs, QuietRests

-----------------------------------------------------------------------------
(* What is stored *)

\* Nothing is counted for a request that has ended, and its status stays.
LEMMA EndedRests ==
    ASSUME IInv, CapturedOnce, Awaited, [Next]_vars, NEW r \in Requests, phase[r] = "ended"
    PROVE  observed'[r] = observed[r] /\ status_code'[r] = status_code[r] /\ phase'[r] = "ended"
<1> USE DEF control, database, response, context
<1>0. TypeOK /\ TokensChain /\ ContextIsOwn
    BY DEF IInv
<1>1. observed'[r] = observed[r]
    <2>1. CASE Quiet
        BY <2>1 DEF Quiet
    <2>2. ASSUME NEW x \in Runners, Begins(x)
          PROVE  observed'[r] = observed[r]
        <3>1. pc[x] # "idle" /\ _CURRENT_CONTEXT[x] # NoRequest
            BY <2>2 DEF Begins, Goto
        <3>2. phase[Serves(x)] = "open"
            BY <1>0, <3>1, ServedIsOpen DEF ContextIsOwn
        <3>3. Serves(x) # r
            BY <3>2
        <3> QED
            BY <1>0, <2>2, <3>3 DEF Begins, Counted, TypeOK
    <2>3. ASSUME NEW x \in Runners, CountQuery(x) \/ AddTime(x) \/ AppendQuery(x)
          PROVE  observed'[r] = observed[r]
        BY <2>3 DEF CountQuery, AddTime, AppendQuery
    <2> QED
        BY <1>0, <2>1, <2>2, <2>3, StepIs
<1>2. \A t \in Tasks : \A i \in DOMAIN stack[t] : stack[t][i].request # r
    BY DEF CapturedOnce
<1>3. status_code'[r] = status_code[r]
    <2>1. ASSUME NEW t \in Tasks, NEW s \in Statuses, SendResponseStart(t, s)
          PROVE  status_code'[r] = status_code[r]
        BY <1>2, <2>1 DEF SendResponseStart
    <2>2. ASSUME NEW t \in Tasks, NEW o \in Outcomes, NEW s \in Statuses, AppEnds(t, o, s)
          PROVE  status_code'[r] = status_code[r]
        <3>1. Top(t).request # r
            BY <1>0, <1>2, <2>2, TopIs DEF AppEnds, Top
        <3> QED
            BY <1>0, <2>2, <3>1 DEF AppEnds, Outcomes, TypeOK
    <2>3. ASSUME NEW x \in Runners, Hooks(x)
          PROVE  UNCHANGED status_code
        BY <2>3 DEF Hooks, BeforeCursorExecute, AfterCursorExecute, ExecuteFails, FetchFails,
                    ErrorOfExecution, ConnectionFails, Unrecorded, CountQuery, AddTime,
                    AppendQuery
    <2> QED
        BY <2>1, <2>2, <2>3
           DEF Next, vars, StartCapture, Spawn, ReadTotals, StoreEvent, WorkerEnds
<1>4. phase'[r] = "ended"
    <2>1. ASSUME NEW x \in Runners, Hooks(x)
          PROVE  UNCHANGED phase
        BY <1>0, <2>1, HookIs DEF Begins, CountQuery, AddTime, AppendQuery
    <2> QED
        BY <1>0, <2>1
           DEF Next, vars, StartCapture, SendResponseStart, AppEnds, Spawn, ReadTotals,
               StoreEvent, WorkerEnds, TypeOK
<1> QED
    BY <1>1, <1>3, <1>4

\* What a task stores of its request: all that was observed, with the queries up
\* to the limit, unless its status is invalid.
LEMMA StoredIsExact ==
    ASSUME CountInv, Awaited, RecordsAreSettled, TotalsAreCurrent, NumbersAreCurrent,
           NEW t \in Tasks, StoreEvent(t)
    PROVE  LET r == Top(t).request
               qs == _safe_normalize_queries(queries[r])
               ev == RequestEvent(r, qs, totals[t])
           IN  /\ ev.total_query_count = observed[r]
               /\ Len(ev.queries) = Minimum(MaxQueries, ev.total_query_count)
               /\ ev.total_query_count <= MaxQueries =>
                     ev.total_query_time_ms = TimeOf(ev.queries)
               /\ ValidEvent(status_code[r], qs, totals[t]) <=> status_code[r] # "other"
               /\ ev = [request_id |-> r, status_code |-> status_code[r],
                         error |-> error_summary[r], queries |-> queries[r],
                         total_query_count |-> total_query_count[r],
                         total_query_time_ms |-> total_query_time_ms[r]]
               /\ r \in Requests /\ \A l \in Recording : At(r, l) = {}
<1> DEFINE r == Top(t).request
           qs == _safe_normalize_queries(queries[r])
           ev == RequestEvent(r, qs, totals[t])
           n == total_query_count[r]
           time == total_query_time_ms[r]
           len == Len(queries[r])
<1>1. IInv /\ TypeOK /\ TokensChain /\ ContextIsOwn /\ CapturedOnce /\ t \in Runners
    BY RunnersAre DEF CountInv, IInv
<1>2. pc[t] = "store" /\ stack[t] # <<>>
    BY <1>1 DEF StoreEvent, Goto, TokensChain
<1>3. r \in Requests /\ r # NoRequest /\ _CURRENT_CONTEXT[t] = r
    <2>1. r \in Requests /\ Serves(t) = r
        BY <1>1, <1>2, TopIs, TaskIsNoWorker DEF Top, TokensChain, Chained, Serves
    <2> QED
        BY <1>1, <2>1, CaptureAssumption DEF ContextIsOwn
<1>4. \A l \in Recording : At(r, l) = {}
    <2>1. ASSUME NEW l \in Recording, NEW x \in At(r, l)
          PROVE  FALSE
        <3>1. x \in Runners /\ pc[x] = l /\ l \notin {"idle", "run", "store"}
              /\ _CURRENT_CONTEXT[x] = r
            BY DEF At, Recording
        <3> QED
            BY <1>1, <1>2, <1>3, <3>1, OneAtWork
    <2> QED
        BY <2>1
<1>5. n = observed[r]
    <2>1. n + Cardinality(At(r, "count")) = observed[r]
        BY <1>3 DEF CountInv, CountIsExact
    <2>2. Cardinality(At(r, "count")) = 0
        BY <1>4, FS_EmptySet DEF Recording
    <2> QED
        BY <1>1, <1>3, <2>1, <2>2 DEF TypeOK
<1>6. Settled(r, n)
    BY <1>3, <1>4 DEF RecordsAreSettled, Recording
<1>7. totals[t] \in TotalsType /\ totals[t].count = n /\ totals[t].time = time
    BY <1>1, <1>2 DEF TotalsAreCurrent, TypeOK
<1>8. /\ Len(qs) = len /\ TimeOf(qs) = TimeOf(queries[r])
      /\ Len(ev.queries) = Minimum(len, MaxQueries)
      /\ TimeOf(ev.queries) \in Nat /\ TimeOf(ev.queries) <= TimeOf(queries[r])
      /\ len <= MaxQueries => TimeOf(ev.queries) = TimeOf(queries[r])
    BY <1>1, <1>3, <1>7, EventQueriesAre
<1>9. ev.total_query_count = n /\ ev.total_query_time_ms = time
    BY <1>7 DEF RequestEvent
<1>10. n \in Nat /\ time \in Nat /\ len \in Nat /\ MaxQueries \in Nat
    BY <1>1, <1>3, CaptureAssumption DEF TypeOK
<1>11. len = Minimum(MaxQueries, n) /\ len <= MaxQueries /\ len <= n
    BY <1>6, <1>10 DEF Settled, Minimum
<1>12. ev = [request_id |-> r, status_code |-> status_code[r], error |-> error_summary[r],
             queries |-> queries[r], total_query_count |-> n, total_query_time_ms |-> time]
    <2>1. queries[r] \in Seq(QueryType) /\ DOMAIN queries[r] = 1..len
        BY <1>1, <1>3 DEF TypeOK
    <2>2. \A i \in DOMAIN queries[r] : [queries[r][i] EXCEPT !.sequence = i] = queries[r][i]
        <3>1. ASSUME NEW q \in QueryType
              PROVE  [q EXCEPT !.sequence = q.sequence] = q
            BY DEF QueryType
        <3>2. \A i \in DOMAIN queries[r] :
                queries[r][i] \in QueryType /\ queries[r][i].sequence = i
            BY <1>3, <2>1 DEF NumbersAreCurrent
        <3> QED
            BY <3>1, <3>2
    <2>3. qs = queries[r]
        <3>1. queries[r] = [i \in DOMAIN queries[r] |-> queries[r][i]]
            BY <2>1
        <3>2. ASSUME NEW q, q = [i \in DOMAIN q |-> q[i]],
                     \A i \in DOMAIN q : [q[i] EXCEPT !.sequence = i] = q[i]
              PROVE  _safe_normalize_queries(q) = q
            BY <3>2 DEF _safe_normalize_queries
        <3> QED
            BY <2>2, <3>1, <3>2
    <2>4. SubSeq(queries[r], 1, len) = queries[r]
        BY <1>10, <2>1
    <2>5. Minimum(len, MaxQueries) = len
        BY <1>10, <1>11 DEF Minimum
    <2> QED
        BY <1>7, <2>3, <2>4, <2>5 DEF RequestEvent
<1> HIDE DEF ev, qs
<1>13. Len(ev.queries) = Minimum(MaxQueries, n)
    BY <1>8, <1>10, <1>11 DEF Minimum
<1>14. ValidEvent(status_code[r], qs, totals[t]) <=> status_code[r] # "other"
    <2>1. totals[t].count >= Len(qs)
        BY <1>7, <1>8, <1>10, <1>11
    <2>2. totals[t].time >= TimeOf(qs)
        BY <1>6, <1>7, <1>8 DEF Settled
    <2> QED
        BY <2>1, <2>2 DEF ValidEvent
<1>15. n <= MaxQueries => time = TimeOf(ev.queries)
    BY <1>6, <1>8, <1>11 DEF Settled
<1>16. /\ ev.total_query_count = observed[r]
       /\ Len(ev.queries) = Minimum(MaxQueries, ev.total_query_count)
       /\ ev.total_query_count <= MaxQueries => ev.total_query_time_ms = TimeOf(ev.queries)
    BY <1>5, <1>9, <1>13, <1>15
<1> QED
    BY <1>3, <1>4, <1>12, <1>14, <1>16 DEF ev, qs

LEMMA ExactStep ==
    /\ CountInv /\ Awaited /\ RecordsAreSettled /\ TotalsAreCurrent /\ NumbersAreCurrent
    /\ EventIsExact /\ EndedIsStored /\ [Next]_vars
    => EventIsExact' /\ EndedIsStored'
<1> SUFFICES ASSUME CountInv, Awaited, RecordsAreSettled, TotalsAreCurrent, NumbersAreCurrent,
                    EventIsExact, EndedIsStored, [Next]_vars
             PROVE  EventIsExact' /\ EndedIsStored'
    OBVIOUS
<1>1. IInv /\ TypeOK /\ TokensChain /\ CapturedOnce /\ StoredAreSound
    BY DEF CountInv, IInv
<1>2. store \in Seq(EventType) /\ \A e \in DOMAIN store : store[e].request_id \in Requests
    <2>1. store \in Seq(EventType)
        BY <1>1 DEF TypeOK
    <2>2. \A e \in DOMAIN store : store[e] \in EventType
        BY <2>1
    <2>3. \A ev \in EventType : ev.request_id \in Requests
        BY DEF EventType
    <2> QED
        BY <2>1, <2>2, <2>3
<1>3. \A e \in DOMAIN store : observed'[store[e].request_id] = observed[store[e].request_id]
    BY <1>1, <1>2, EndedRests DEF StoredAreSound
<1>4. ASSUME UNCHANGED store, \A r \in Requests : phase'[r] = "ended" => phase[r] = "ended"
      PROVE  EventIsExact' /\ EndedIsStored'
    <2>1. EventIsExact'
        BY <1>3, <1>4 DEF EventIsExact
    <2>2. ASSUME NEW r \in Requests, phase'[r] = "ended", status_code'[r] # "other"
          PROVE  r \in IdsOf(store') \/ Len(store') = Capacity
        <3>1. phase[r] = "ended" /\ status_code[r] # "other"
            BY <1>1, <1>4, <2>2, EndedRests
        <3> QED
            BY <1>4, <3>1 DEF EndedIsStored
    <2> QED
        BY <2>1, <2>2 DEF EndedIsStored
<1>5. ASSUME NEW t \in Tasks, StoreEvent(t)
      PROVE  EventIsExact' /\ EndedIsStored'
    <2> DEFINE r == Top(t).request
               qs == _safe_normalize_queries(queries[r])
               ev == RequestEvent(r, qs, totals[t])
    <2>1. /\ r \in Requests /\ phase' = [phase EXCEPT ![r] = "ended"]
          /\ ev \in EventType /\ ev.request_id = r
          /\ IF ValidEvent(status_code[r], qs, totals[t])
             THEN store' = Newest(Append(store, ev), Capacity)
             ELSE store' = store
          /\ \A k \in DOMAIN store' :
                \/ \E j \in DOMAIN store : store'[k] = store[j]
                \/ store'[k] = ev
        BY <1>1, <1>5, Stores
    <2>2. /\ ev.total_query_count = observed[r]
          /\ Len(ev.queries) = Minimum(MaxQueries, ev.total_query_count)
          /\ ev.total_query_count <= MaxQueries => ev.total_query_time_ms = TimeOf(ev.queries)
          /\ ValidEvent(status_code[r], qs, totals[t]) <=> status_code[r] # "other"
        BY <1>5, StoredIsExact
    <2>3. UNCHANGED <<observed, status_code>>
        BY <1>5 DEF StoreEvent
    <2> HIDE DEF ev, qs, r
    <2>4. EventIsExact'
        BY <2>1, <2>2, <2>3 DEF EventIsExact
    <2>5. ASSUME NEW q \in Requests, phase'[q] = "ended", status_code'[q] # "other"
          PROVE  q \in IdsOf(store') \/ Len(store') = Capacity
        <3>1. Len(store) <= Capacity /\ Len(store) \in Nat /\ Capacity \in Nat
            BY <1>1, <1>2, CaptureAssumption DEF StoredAreSound
        <3>2. CASE q = r
            <4>1. store' = Newest(Append(store, ev), Capacity)
                BY <2>1, <2>2, <2>3, <2>5, <3>2
            <4>2. Len(store') \in DOMAIN store' /\ store'[Len(store')] = ev
                BY <1>2, <2>1, <3>1, <4>1, NewestKeeps
            <4> QED
                BY <2>1, <3>2, <4>2 DEF IdsOf
        <3>3. CASE q # r
            <4>1. phase[q] = "ended" /\ status_code[q] # "other"
                BY <1>1, <2>1, <2>3, <2>5, <3>3 DEF TypeOK
            <4>2. q \in IdsOf(store) \/ Len(store) = Capacity
                BY <4>1 DEF EndedIsStored
            <4>3. CASE store' = store
                BY <4>2, <4>3
            <4>4. CASE store' = Newest(Append(store, ev), Capacity)
                <5>1. IF Len(store) < Capacity
                      THEN \A j \in DOMAIN store : j \in DOMAIN store' /\ store'[j] = store[j]
                      ELSE Len(store') = Capacity
                    BY <1>2, <2>1, <3>1, <4>4, NewestKeeps
                <5>2. CASE Len(store) < Capacity
                    BY <3>1, <4>2, <5>1, <5>2 DEF IdsOf
                <5> QED
                    BY <5>1, <5>2
            <4> QED
                BY <2>1, <4>3, <4>4
        <3> QED
            BY <3>2, <3>3
    <2> QED
        BY <2>4, <2>5 DEF EndedIsStored
<1>6. CASE \A t \in Tasks : ~StoreEvent(t)
    <2>1. \A r \in Requests : phase'[r] = "ended" => phase[r] = "ended"
        <3> USE DEF control, database, response, context
        <3>1. ASSUME NEW x \in Runners, Hooks(x)
              PROVE  UNCHANGED phase
            BY <1>1, <3>1, HookIs DEF Begins, CountQuery, AddTime, AppendQuery
        <3> QED
            BY <1>1, <1>6, <3>1
               DEF Next, vars, StartCapture, SendResponseStart, AppEnds, Spawn, ReadTotals,
                   WorkerEnds, TypeOK
    <2> QED
        BY <1>4, <1>6, <2>1, StoreKeeps
<1> QED
    BY <1>5, <1>6

-----------------------------------------------------------------------------
(* The specification, when tasks await their workers *)

LEMMA InitExact == Init => ExactInv
<1> SUFFICES ASSUME Init
             PROVE  ExactInv
    OBVIOUS
<1>1. CountInv
    BY InitCount
<1>2. Awaited /\ TotalsAreCurrent
    BY CaptureAssumption DEF Init, Awaited, TotalsAreCurrent, Runners
<1>3. RecordsAreSettled
    <2>1. \A r \in Requests : \A l \in Recording : At(r, l) = {}
        BY DEF Init, At, Recording
    <2>2. ASSUME NEW r \in Requests
          PROVE  Settled(r, total_query_count[r])
        <3>1. queries[r] = <<>> /\ total_query_count[r] = 0 /\ total_query_time_ms[r] = 0
            BY DEF Init
        <3>2. Timed(<<>>) = {}
            BY DEF Timed
        <3>3. TimeOf(<<>>) = 0
            BY <3>2, FS_EmptySet DEF TimeOf, Timed
        <3> QED
            BY <3>1, <3>3, CaptureAssumption DEF Settled, Minimum
    <2> QED
        BY <2>1, <2>2 DEF RecordsAreSettled, Recording
<1>4. EventIsExact /\ EndedIsStored
    BY DEF Init, EventIsExact, EndedIsStored
<1>5. NumbersAreCurrent
    <2>1. \A r \in Requests : \A l \in Recording : At(r, l) = {}
        BY DEF Init, At, Recording
    <2>2. \A r \in Requests : DOMAIN queries[r] = {}
        BY DEF Init
    <2> QED
        BY <2>1, <2>2 DEF NumbersAreCurrent, Recording
<1> QED
    BY <1>1, <1>2, <1>3, <1>4, <1>5 DEF ExactInv

\* The inductive invariant for tasks that await their workers: one runner of a
\* request is within a hook at a time, so that what a hook reads is still so when
\* it writes (context.py:110-119, middleware.py:249-277).
THEOREM ExactInductive == ~Detached => (Spec => []ExactInv)
<1> SUFFICES ASSUME ~Detached
             PROVE  Spec => []ExactInv
    OBVIOUS
<1>1. ExactInv /\ [Next]_vars => ExactInv'
    <2> SUFFICES ASSUME ExactInv, [Next]_vars
                 PROVE  ExactInv'
        OBVIOUS
    <2>1. /\ CountInv /\ IInv /\ CapturedOnce /\ TypeOK
          /\ Awaited /\ RecordsAreSettled /\ TotalsAreCurrent /\ NumbersAreCurrent
          /\ EventIsExact /\ EndedIsStored
        BY DEF ExactInv, CountInv, IInv
    <2>2. CountInv'
        BY <2>1, CountInvStep
    <2>3. Awaited'
        BY <2>1, AwaitedStep
    <2>4. RecordsAreSettled' /\ TotalsAreCurrent'
        BY <2>1, SettledStep, TotalsStep
    <2>5. EventIsExact' /\ EndedIsStored'
        BY <2>1, ExactStep
    <2>6. NumbersAreCurrent'
        BY <2>1, NumbersStep
    <2> QED
        BY <2>2, <2>3, <2>4, <2>5, <2>6 DEF ExactInv
<1> QED
    BY InitExact, <1>1, PTL DEF Spec

\* When a task awaits its workers, the event of a request carries the number of
\* all queries its hooks saw, the queries up to the limit, and, when none was
\* left out, exactly their time (context.py:110-119, middleware.py:249-277).
THEOREM StoredEventsAreExact == ~Detached => (Spec => []EventIsExact)
<1> SUFFICES ASSUME ~Detached
             PROVE  Spec => []EventIsExact
    OBVIOUS
<1>1. ExactInv => EventIsExact
    BY DEF ExactInv
<1> QED
    BY ExactInductive, <1>1, PTL

\* No capture with a valid status is dropped by the event's validation: its event
\* is stored until newer ones replace it (middleware.py:164, 262-275).
THEOREM EndedRequestsAreStored == ~Detached => (Spec => []EndedIsStored)
<1> SUFFICES ASSUME ~Detached
             PROVE  Spec => []EndedIsStored
    OBVIOUS
<1>1. ExactInv => EndedIsStored
    BY DEF ExactInv
<1> QED
    BY ExactInductive, <1>1, PTL

-----------------------------------------------------------------------------
(* Recording a query, and ending a request, are atomic *)

LogUnchanged ==
    /\ UNCHANGED <<phase, status_code, error_summary, queries, store>>
    /\ \A r \in Requests : CountDone(r)' = CountDone(r) /\ TimeDone(r)' = TimeDone(r)

LEMMA LogStutters == ASSUME LogUnchanged PROVE UNCHANGED Log!vars
<1>1. /\ [r \in Requests |-> CountDone(r)]' = [r \in Requests |-> CountDone(r)]
      /\ [r \in Requests |-> TimeDone(r)]' = [r \in Requests |-> TimeDone(r)]
    BY DEF LogUnchanged
<1> QED
    BY <1>1 DEF LogUnchanged, Log!vars, Log!answered, Log!recorded

LEMMA DoneRests ==
    ASSUME NEW r \in Requests, Rests(r)
    PROVE  CountDone(r)' = CountDone(r) /\ TimeDone(r)' = TimeDone(r)
BY DEF Rests, CountDone, TimeDone, Recording

\* One step of the abstract record, as it looks from the totals of one request.
LEMMA LogRecords ==
    ASSUME NEW r \in Requests, NEW d \in {0, 1}, phase[r] = "open",
           CountDone(r)' = CountDone(r) + 1, TimeDone(r)' = TimeDone(r) + d,
           \A q \in Requests \ {r} : CountDone(q)' = CountDone(q) /\ TimeDone(q)' = TimeDone(q),
           queries' = IF Len(queries[r]) < MaxQueries
                      THEN [queries EXCEPT ![r] = Append(@,
                              [owner |-> r, sequence |-> CountDone(r) + 1, duration |-> d])]
                      ELSE queries,
           UNCHANGED <<phase, status_code, error_summary, store>>
    PROVE  Log!Record(r, d)
<1> DEFINE counts == [q \in Requests |-> CountDone(q)]
           times == [q \in Requests |-> TimeDone(q)]
<1>1. [q \in Requests |-> CountDone(q)]' = [counts EXCEPT ![r] = @ + 1]
    OBVIOUS
<1>2. [q \in Requests |-> TimeDone(q)]' = [times EXCEPT ![r] = @ + d]
    OBVIOUS
<1>3. counts[r] = CountDone(r)
    OBVIOUS
<1> QED
    BY <1>1, <1>2, <1>3 DEF Log!Record, Log!answered

\* The hooks: recording is done with the last statement of record_query.
LEMMA HookRefines ==
    ASSUME ExactInv, NEW x \in Runners,
           Begins(x) \/ CountQuery(x) \/ AddTime(x) \/ AppendQuery(x),
           NEW r \in Requests, _CURRENT_CONTEXT[x] = r
    PROVE  LogUnchanged \/ \E d \in {0, 1} : Log!Record(r, d)
<1> DEFINE n == total_query_count[r]
           d == hook[x].duration
<1>1. /\ IInv /\ TypeOK /\ CapturedOnce /\ Awaited /\ RecordsAreSettled /\ NumbersAreCurrent
    BY DEF ExactInv, CountInv, IInv
<1>2. r # NoRequest /\ pc[x] # "idle"
    BY CaptureAssumption DEF Begins, CountQuery, AddTime, AppendQuery, Goto
<1>3. phase[r] = "open"
    BY <1>1, <1>2, ServedIsOpen
<1>4. UNCHANGED <<phase, status_code, error_summary, store>>
    BY DEF Begins, CountQuery, AddTime, AppendQuery, response
<1>5. \A q \in Requests \ {r} : CountDone(q)' = CountDone(q) /\ TimeDone(q)' = TimeDone(q)
    BY <1>1, OthersRest, DoneRests
<1>6. /\ queries[r] \in Seq(QueryType) /\ Len(queries[r]) \in Nat /\ n \in Nat
      /\ MaxQueries \in Nat /\ total_query_time_ms[r] \in Nat /\ d \in {0, 1}
    BY <1>1, <1>2, HookTypes, CaptureAssumption DEF TypeOK
<1>7. ASSUME UNCHANGED queries, CountDone(r)' = CountDone(r), TimeDone(r)' = TimeDone(r)
      PROVE  LogUnchanged
    BY <1>4, <1>5, <1>7 DEF LogUnchanged
<1>8. CASE Begins(x)
    <2>1. /\ At(r, "time")' = At(r, "time") /\ At(r, "append")' = At(r, "append")
          /\ UNCHANGED <<queries, total_query_count, total_query_time_ms>>
        BY <1>1, <1>2, <1>8, HookBegins
    <2> QED
        BY <1>7, <2>1 DEF CountDone, TimeDone
<1>9. CASE CountQuery(x)
    <2>1. /\ At(r, "time") = {} /\ At(r, "append") = {}
          /\ At(r, "time")' = {x} /\ At(r, "append")' = {}
          /\ UNCHANGED <<queries, total_query_time_ms>> /\ total_query_count'[r] = n + 1
        BY <1>1, <1>2, <1>9, HookCounts DEF TypeOK
    <2>2. CountDone(r) = n /\ CountDone(r)' = n
        <3>1. CountDone(r)' = (n + 1) - 1
            BY <2>1 DEF CountDone
        <3>2. CountDone(r) = n - 0
            BY <2>1 DEF CountDone
        <3> QED
            BY <1>6, <3>1, <3>2
    <2>3. TimeDone(r)' = TimeDone(r)
        BY <2>1 DEF TimeDone
    <2> QED
        BY <1>7, <2>1, <2>2, <2>3
<1>10. CASE AddTime(x)
    <2>1. /\ At(r, "time") = {x} /\ At(r, "append") = {} /\ At(r, "time")' = {}
          /\ UNCHANGED <<queries, total_query_count>>
          /\ total_query_time_ms'[r] = hook[x].time + d
          /\ At(r, "append")' = IF Keeps(r) THEN {x} ELSE {}
        BY <1>1, <1>2, <1>10, HookAddsTime DEF TypeOK
    <2>2. hook[x].time = total_query_time_ms[r] /\ Settled(r, n - 1)
        BY <1>2, <1>1, <2>1 DEF RecordsAreSettled
    <2>3. CountDone(r) = n - 1 /\ TimeDone(r) = total_query_time_ms[r]
        BY <2>1 DEF CountDone, TimeDone
    <2>4. CASE Keeps(r)
        <3>1. CountDone(r)' = n - 1 /\ TimeDone(r)' = TimeOf(queries[r])
            BY <2>1, <2>4 DEF CountDone, TimeDone
        <3>2. n - 1 <= MaxQueries
            BY <1>6, <2>2, <2>4 DEF Settled, Minimum, Keeps
        <3>3. total_query_time_ms[r] = TimeOf(queries[r])
            BY <2>2, <3>2 DEF Settled
        <3> QED
            BY <1>7, <2>1, <2>3, <3>1, <3>3
    <2>5. CASE ~Keeps(r)
        <3>1. CountDone(r)' = n /\ TimeDone(r)' = total_query_time_ms[r] + d
            BY <1>6, <2>1, <2>2, <2>5 DEF CountDone, TimeDone
        <3>2. CountDone(r)' = CountDone(r) + 1 /\ TimeDone(r)' = TimeDone(r) + d
            BY <1>6, <2>3, <3>1
        <3>3. Log!Record(r, d)
            BY <1>2, <1>3, <1>4, <1>5, <1>6, <2>1, <2>5, <3>2, LogRecords DEF Keeps
        <3> QED
            BY <1>2, <1>6, <3>3
    <2> QED
        BY <2>4, <2>5
<1>11. CASE AppendQuery(x)
    <2>1. /\ At(r, "time") = {} /\ At(r, "append") = {x}
          /\ At(r, "time")' = {} /\ At(r, "append")' = {}
          /\ UNCHANGED <<total_query_count, total_query_time_ms>>
          /\ queries' = [queries EXCEPT ![r] = Append(@, Query(x))]
          /\ Query(x) = [owner |-> r, sequence |-> hook[x].sequence, duration |-> d]
        BY <1>1, <1>2, <1>11, HookAppends DEF Recording
    <2>2. /\ Len(queries[r]) < MaxQueries /\ hook[x].sequence = n
          /\ total_query_time_ms[r] = TimeOf(queries[r]) + d
        BY <1>1, <1>2, <2>1 DEF RecordsAreSettled, NumbersAreCurrent
    <2>3. CountDone(r) = n - 1 /\ TimeDone(r) = TimeOf(queries[r])
        BY <2>1 DEF CountDone, TimeDone
    <2>4. CountDone(r)' = n /\ TimeDone(r)' = total_query_time_ms[r]
        BY <1>6, <2>1 DEF CountDone, TimeDone
    <2>5. CountDone(r)' = CountDone(r) + 1 /\ TimeDone(r)' = TimeDone(r) + d
        BY <1>6, <2>2, <2>3, <2>4
    <2>6. Query(x) = [owner |-> r, sequence |-> CountDone(r) + 1, duration |-> d]
        <3>1. hook[x].sequence = CountDone(r) + 1
            BY <1>6, <2>2, <2>3
        <3> QED
            BY <2>1, <3>1
    <2>7. Log!Record(r, d)
        BY <1>2, <1>3, <1>4, <1>5, <1>6, <2>1, <2>2, <2>5, <2>6, LogRecords
    <2> QED
        BY <1>2, <1>6, <2>7
<1> QED
    BY <1>8, <1>9, <1>10, <1>11

\* The steps of the middleware: each is one of the log, or none.
LEMMA MiddlewareRefines ==
    ASSUME ExactInv, [Next]_vars, \A x \in Runners : ~Hooks(x)
    PROVE  [Log!Next]_(Log!vars)
<1> USE DEF control, database, response, context
<1>1. /\ IInv /\ TypeOK /\ TokensChain /\ CapturedOnce /\ StoredAreSound /\ CountInv
      /\ Awaited /\ RecordsAreSettled /\ TotalsAreCurrent /\ NumbersAreCurrent
    BY DEF ExactInv, CountInv, IInv
<1>2. /\ \A r \in Requests : CountDone(r)' = CountDone(r) /\ TimeDone(r)' = TimeDone(r)
      /\ UNCHANGED queries
    <2>1. Quiet
        BY <1>1, OthersAreQuiet
    <2> QED
        BY <1>1, <2>1, QuietRests, DoneRests DEF Quiet
<1>3. UNCHANGED Log!recorded
    BY <1>2 DEF Log!recorded
<1>4. ASSUME NEW t \in Tasks, NEW r \in Requests, StartCapture(t, r)
      PROVE  Log!Next
    <2>1. Log!Begin(r)
        BY <1>3, <1>4 DEF StartCapture, Log!Begin, Log!answered
    <2> QED
        BY <2>1 DEF Log!Next
<1>5. ASSUME NEW t \in Tasks, NEW s \in Statuses, SendResponseStart(t, s)
      PROVE  Log!Next
    <2> DEFINE within == {stack[t][i].request : i \in DOMAIN stack[t]}
    <2>1. within \in SUBSET Requests /\ \A r \in within : phase[r] = "open"
        BY <1>1 DEF TokensChain, Chained, CapturedOnce
    <2>2. Log!Answer(within, s, s # "success")
        BY <1>3, <1>5, <2>1 DEF SendResponseStart, Log!Answer
    <2>3. s \in StatusClasses /\ (s # "success") \in BOOLEAN
        BY CaptureAssumption
    <2> QED
        BY <2>1, <2>2, <2>3 DEF Log!Next
<1>6. ASSUME NEW t \in Tasks, NEW o \in Outcomes, NEW s \in Statuses, AppEnds(t, o, s)
      PROVE  Log!Next \/ LogUnchanged
    <2> DEFINE r == Top(t).request
    <2>1. stack[t] # <<>> /\ UNCHANGED <<phase, queries, store>>
        BY <1>6 DEF AppEnds
    <2>2. r \in Requests /\ phase[r] = "open"
        BY <1>1, <2>1, TopIs DEF Top, TokensChain, Chained, CapturedOnce
    <2>3. s \in StatusClasses
        BY CaptureAssumption
    <2>4. CASE o \in {"exception", "http_exception"}
        <3>1. /\ status_code' = [status_code EXCEPT ![r] = s]
              /\ error_summary' = [error_summary EXCEPT ![r] = TRUE]
            BY <1>6, <2>4 DEF AppEnds
        <3> HIDE DEF r
        <3>2. status_code' = [q \in Requests |-> IF q \in {r} THEN s ELSE status_code[q]]
            BY <1>1, <3>1 DEF TypeOK
        <3>3. error_summary' = [q \in Requests |-> error_summary[q] \/ (q \in {r} /\ TRUE)]
            <4>1. \A q \in Requests :
                    error_summary'[q] = (error_summary[q] \/ (q \in {r} /\ TRUE))
                BY <1>1, <3>1 DEF TypeOK
            <4> QED
                BY <1>1, <3>1, <4>1 DEF TypeOK
        <3>4. Log!Answer({r}, s, TRUE)
            BY <1>3, <2>1, <2>2, <3>2, <3>3 DEF Log!Answer
        <3> QED
            BY <2>2, <2>3, <3>4 DEF Log!Next
    <2>5. CASE o \in {"return", "cancelled"}
        BY <1>2, <1>6, <2>1, <2>5 DEF AppEnds, LogUnchanged
    <2> QED
        BY <2>4, <2>5 DEF Outcomes
<1>7. ASSUME NEW t \in Tasks, StoreEvent(t)
      PROVE  Log!Next
    <2> DEFINE r == Top(t).request
               qs == _safe_normalize_queries(queries[r])
               ev == RequestEvent(r, qs, totals[t])
    <2>1. /\ r \in Requests /\ phase[r] = "open" /\ phase' = [phase EXCEPT ![r] = "ended"]
          /\ IF ValidEvent(status_code[r], qs, totals[t])
             THEN store' = Newest(Append(store, ev), Capacity)
             ELSE store' = store
        BY <1>1, <1>7, Stores
    <2>2. /\ ValidEvent(status_code[r], qs, totals[t]) <=> status_code[r] # "other"
          /\ ev = [request_id |-> r, status_code |-> status_code[r],
                   error |-> error_summary[r], queries |-> queries[r],
                   total_query_count |-> total_query_count[r],
                   total_query_time_ms |-> total_query_time_ms[r]]
          /\ \A l \in Recording : At(r, l) = {}
        BY <1>1, <1>7, StoredIsExact
    <2>3. UNCHANGED <<status_code, error_summary>>
        BY <1>7 DEF StoreEvent
    <2> HIDE DEF ev, qs, r
    <2>4. CountDone(r) = total_query_count[r] /\ TimeDone(r) = total_query_time_ms[r]
        BY <1>1, <2>1, <2>2 DEF CountDone, TimeDone, Recording, TypeOK
    <2>5. ev = Log!Event(r)
        BY <2>1, <2>2, <2>4 DEF Log!Event
    <2>6. Log!End(r)
        BY <1>3, <2>1, <2>2, <2>3, <2>5 DEF Log!End, Log!answered, Newest, Log!Newest
    <2> QED
        BY <2>1, <2>6 DEF Log!Next
<1>8. ASSUME \/ \E t \in Tasks : ReadTotals(t) \/ \E w \in Workers : Spawn(t, w)
             \/ \E w \in Workers : WorkerEnds(w)
             \/ UNCHANGED vars
      PROVE  LogUnchanged
    BY <1>2, <1>8 DEF ReadTotals, Spawn, WorkerEnds, vars, LogUnchanged
<1> QED
    BY <1>4, <1>5, <1>6, <1>7, <1>8, LogStutters DEF Next

LEMMA StepRefines == ExactInv /\ [Next]_vars => [Log!Next]_(Log!vars)
<1> SUFFICES ASSUME ExactInv, [Next]_vars
             PROVE  [Log!Next]_(Log!vars)
    OBVIOUS
<1>1. TypeOK /\ IInv
    BY DEF ExactInv, CountInv, IInv
<1>2. ASSUME NEW x \in Runners,
             Begins(x) \/ CountQuery(x) \/ AddTime(x) \/ AppendQuery(x)
      PROVE  [Log!Next]_(Log!vars)
    <2>1. _CURRENT_CONTEXT[x] \in Requests
        BY <1>1, <1>2, HookTypes
    <2> QED
        BY <1>2, <2>1, HookRefines, LogStutters DEF Log!Next
<1>3. ASSUME NEW x \in Runners, Hooks(x), Quiet
      PROVE  [Log!Next]_(Log!vars)
    <2>1. \A r \in Requests : CountDone(r)' = CountDone(r) /\ TimeDone(r)' = TimeDone(r)
        BY <1>1, <1>3, QuietRests, DoneRests
    <2>2. UNCHANGED <<response, store>>
        BY <1>3 DEF Hooks, BeforeCursorExecute, AfterCursorExecute, ExecuteFails, FetchFails,
                    ErrorOfExecution, ConnectionFails, Unrecorded, CountQuery, AddTime,
                    AppendQuery
    <2>3. LogUnchanged
        BY <1>3, <2>1, <2>2 DEF Quiet, response, LogUnchanged
    <2> QED
        BY <2>3, LogStutters
<1>4. CASE \E x \in Runners : Hooks(x)
    BY <1>1, <1>2, <1>3, <1>4, HookIs
<1>5. CASE \A x \in Runners : ~Hooks(x)
    BY <1>5, MiddlewareRefines
<1> QED
    BY <1>4, <1>5

LEMMA InitRefines == Init => Log!Init
<1> SUFFICES ASSUME Init
             PROVE  Log!Init
    OBVIOUS
<1>1. \A r \in Requests : At(r, "time") = {} /\ At(r, "append") = {}
    BY DEF Init, At
<1>2. \A r \in Requests : CountDone(r) = 0 /\ TimeDone(r) = 0
    BY <1>1 DEF Init, CountDone, TimeDone
<1> QED
    BY <1>2 DEF Init, Log!Init

\* When tasks await their workers, capturing a request implements the log in
\* which each query is recorded in one step, in its own request and before that
\* ends, and the event is all that was recorded (record_query, context.py:103;
\* _finalize_request, middleware.py:249).
THEOREM RecordingIsAtomic == ~Detached => (Spec => RecordsAtomically)
<1> SUFFICES ASSUME ~Detached
             PROVE  Spec => RecordsAtomically
    OBVIOUS
<1> QED
    BY ExactInductive, InitRefines, StepRefines, PTL DEF Spec, RecordsAtomically, Log!Spec
=============================================================================
