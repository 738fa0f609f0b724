------------------------ MODULE RequestCaptureProofs ------------------------
(* Proofs about RequestCapture for any number of tasks, workers, requests   *)
(* and queries: types, the isolation of requests from one another, how many *)
(* queries a request counts and keeps however many threads record into it   *)
(* at once, and what is stored of it.                                       *)
EXTENDS RequestCapture, FiniteSetTheorems, TLAPS

-----------------------------------------------------------------------------
(* The helpers of the model *)

LEMMA RunnersAre == Tasks \subseteq Runners /\ Workers \subseteq Runners
BY DEF Runners

\* A step of the program counter of one runner leaves the others in place.
LEMMA GotoOnly ==
    ASSUME TypeOK, NEW x \in Runners, NEW from, NEW to, Goto(x, from, to)
    PROVE  /\ pc[x] = from /\ pc'[x] = to
           /\ \A y \in Runners \ {x} : pc'[y] = pc[y]
           /\ to \in Labels => pc' \in [Runners -> Labels]
BY DEF Goto, TypeOK

\* The innermost capture of a task that is in one.
LEMMA TopIs ==
    ASSUME TypeOK, NEW t \in Tasks, stack[t] # <<>>
    PROVE  /\ Len(stack[t]) \in DOMAIN stack[t] /\ Len(stack[t]) \in Nat \ {0}
           /\ Top(t) \in FrameType
           /\ Top(t).request \in MaybeRequest /\ Top(t).token \in MaybeRequest
<1>1. stack[t] \in Seq(FrameType)
    BY DEF TypeOK
<1>2. Len(stack[t]) \in DOMAIN stack[t] /\ Len(stack[t]) \in Nat \ {0}
    BY <1>1
<1>3. Top(t) \in FrameType
    BY <1>1, <1>2 DEF Top
<1> QED
    BY <1>2, <1>3 DEF FrameType

\* A runner works for a request or for none.
LEMMA ServesType ==
    ASSUME TypeOK, NEW x \in Runners
    PROVE  Serves(x) \in MaybeRequest
<1>1. CASE x \in Workers
    BY <1>1 DEF Serves, TypeOK
<1>2. CASE x \notin Workers /\ stack[x] = <<>>
    BY <1>2 DEF Serves, MaybeRequest
<1>3. CASE x \notin Workers /\ stack[x] # <<>>
    BY <1>3, TopIs DEF Serves, Runners
<1> QED
    BY <1>1, <1>2, <1>3

\* Counting for a request keeps the counters natural numbers.
LEMMA CountedType ==
    ASSUME NEW f \in [Requests -> Nat], NEW x
    PROVE  Counted(f, x) \in [Requests -> Nat]
<1> DEFINE r == Serves(x)
<1>1. [f EXCEPT ![r] = @ + 1] \in [Requests -> Nat]
    <2> HIDE DEF r
    <2>1. \A q \in Requests : [f EXCEPT ![r] = @ + 1][q] \in Nat
        OBVIOUS
    <2> QED
        BY <2>1
<1> QED
    BY <1>1 DEF Counted

\* The locals of a hook that begins to record.
LEMMA BeginRecordType ==
    ASSUME TypeOK, NEW x \in Runners, NEW from, NEW d \in {0, 1}, BeginRecord(x, from, d)
    PROVE  /\ pc' \in [Runners -> Labels]
           /\ hook' \in [Runners -> HookType]
           /\ observed' \in [Requests -> Nat]
<1>1. _CURRENT_CONTEXT[x] \in Requests
    BY DEF BeginRecord, TypeOK, MaybeRequest
<1>2. [sequence |-> total_query_count[_CURRENT_CONTEXT[x]] + 1, duration |-> d,
       time |-> 0, owner |-> Serves(x)] \in HookType
    <2>1. total_query_count[_CURRENT_CONTEXT[x]] + 1 \in Nat
        BY <1>1 DEF TypeOK
    <2>2. Serves(x) \in MaybeRequest
        BY ServesType
    <2>3. ASSUME NEW n \in Nat, NEW o \in MaybeRequest
          PROVE  [sequence |-> n, duration |-> d, time |-> 0, owner |-> o] \in HookType
        BY DEF HookType
    <2> QED
        BY <2>1, <2>2, <2>3
<1>3. hook' \in [Runners -> HookType]
    BY <1>2 DEF BeginRecord, TypeOK
<1>4. pc' \in [Runners -> Labels]
    BY GotoOnly DEF BeginRecord, Labels
<1>5. observed' \in [Requests -> Nat]
    BY CountedType DEF BeginRecord, TypeOK
<1> QED
    BY <1>3, <1>4, <1>5

-----------------------------------------------------------------------------
(* Types *)

LEMMA InitType == Init => TypeOK
BY CaptureAssumption
   DEF Init, TypeOK, Labels, Runners, StatusClasses, NoHook, NoTotals, MaybeRequest,
       HookType, TotalsType, FrameType

\* The event a capture stores.
LEMMA EventOf ==
    ASSUME TypeOK, NEW r \in Requests, NEW total \in TotalsType
    PROVE  RequestEvent(r, _safe_normalize_queries(queries[r]), total) \in EventType
<1> DEFINE qs == _safe_normalize_queries(queries[r])
           n == Minimum(Len(qs), MaxQueries)
<1>1. queries[r] \in Seq(QueryType)
    BY DEF TypeOK
<1>2. qs \in Seq(QueryType)
    <2>1. DOMAIN queries[r] = 1..Len(queries[r]) /\ Len(queries[r]) \in Nat
        BY <1>1
    <2>2. \A i \in DOMAIN queries[r] : [queries[r][i] EXCEPT !.sequence = i] \in QueryType
        <3>1. ASSUME NEW q \in QueryType, NEW i \in Nat \ {0}
              PROVE  [q EXCEPT !.sequence = i] \in QueryType
            BY DEF QueryType
        <3>2. \A i \in DOMAIN queries[r] : queries[r][i] \in QueryType /\ i \in Nat \ {0}
            BY <1>1, <2>1
        <3> QED
            BY <3>1, <3>2
    <2>3. qs = [i \in 1..Len(queries[r]) |-> [queries[r][i] EXCEPT !.sequence = i]]
        BY <2>1 DEF _safe_normalize_queries
    <2> HIDE DEF qs
    <2> QED
        BY <2>1, <2>2, <2>3
<1>3. n \in Nat /\ n <= Len(qs)
    BY <1>2, CaptureAssumption DEF Minimum
<1>4. SubSeq(qs, 1, n) \in Seq(QueryType)
    BY <1>2, <1>3
<1> QED
    BY <1>4 DEF RequestEvent, EventType, TypeOK, TotalsType

\* The store never holds anything but events.
LEMMA NewestType ==
    ASSUME NEW s \in Seq(EventType), NEW e \in EventType
    PROVE  Newest(Append(s, e), Capacity) \in Seq(EventType)
<1>1. Append(s, e) \in Seq(EventType) /\ Len(Append(s, e)) \in Nat
    OBVIOUS
<1> QED
    BY <1>1, CaptureAssumption DEF Newest

LEMMA TypeStep == TypeOK /\ TokensChain /\ RecordsOwn /\ [Next]_vars => TypeOK'
<1> SUFFICES ASSUME TypeOK, TokensChain, RecordsOwn, [Next]_vars PROVE TypeOK'
    OBVIOUS
<1> USE CaptureAssumption, RunnersAre
    DEF control, database, response, context
<1>1. CASE UNCHANGED vars
    BY <1>1 DEF TypeOK, vars
<1>2. ASSUME NEW t \in Tasks, NEW r \in Requests, StartCapture(t, r) PROVE TypeOK'
    <2>1. [request |-> r, token |-> _CURRENT_CONTEXT[t]] \in FrameType
        BY DEF TypeOK, FrameType, MaybeRequest
    <2>2. stack' \in [Tasks -> Seq(FrameType)]
        BY <1>2, <2>1 DEF StartCapture, TypeOK
    <2>3. /\ _CURRENT_CONTEXT' \in [Runners -> MaybeRequest]
          /\ phase' \in [Requests -> {"unused", "open", "ended"}]
        BY <1>2 DEF StartCapture, TypeOK, MaybeRequest
    <2> QED
        BY <1>2, <2>2, <2>3 DEF StartCapture, TypeOK
<1>3. ASSUME NEW t \in Tasks, NEW s \in Statuses, SendResponseStart(t, s) PROVE TypeOK'
    <2>1. /\ status_code' \in [Requests -> StatusClasses]
          /\ error_summary' \in [Requests -> BOOLEAN]
        BY <1>3 DEF SendResponseStart, TypeOK
    <2> QED
        BY <1>3, <2>1 DEF SendResponseStart, TypeOK
<1>4. ASSUME NEW t \in Tasks, NEW w \in Workers, Spawn(t, w) PROVE TypeOK'
    <2>1. pc' \in [Runners -> Labels]
        BY <1>4, GotoOnly DEF Spawn, Labels
    <2>2. /\ parent' \in [Workers -> Runners]
          /\ serving' \in [Workers -> MaybeRequest]
          /\ _CURRENT_CONTEXT' \in [Runners -> MaybeRequest]
        BY <1>4, ServesType DEF Spawn, TypeOK
    <2> QED
        BY <1>4, <2>1, <2>2 DEF Spawn, TypeOK
<1>5. ASSUME NEW t \in Tasks, NEW o \in Outcomes, NEW s \in Statuses, AppEnds(t, o, s)
      PROVE  TypeOK'
    <2>1. pc' \in [Runners -> Labels]
        BY <1>5, GotoOnly DEF AppEnds, Labels
    <2>2. /\ status_code' \in [Requests -> StatusClasses]
          /\ error_summary' \in [Requests -> BOOLEAN]
        BY <1>5 DEF AppEnds, Outcomes, TypeOK
    <2> QED
        BY <1>5, <2>1, <2>2 DEF AppEnds, TypeOK
<1>6. ASSUME NEW t \in Tasks, ReadTotals(t) PROVE TypeOK'
    <2>1. pc' \in [Runners -> Labels] /\ stack[t] # <<>>
        BY <1>6, GotoOnly DEF ReadTotals, Labels, TokensChain
    <2>2. Top(t).request \in Requests
        BY <2>1, TopIs DEF Top, TokensChain, Chained
    <2>3. totals' \in [Tasks -> TotalsType]
        BY <1>6, <2>2 DEF ReadTotals, TypeOK, TotalsType
    <2> QED
        BY <1>6, <2>1, <2>3 DEF ReadTotals, TypeOK
<1>7. ASSUME NEW t \in Tasks, StoreEvent(t) PROVE TypeOK'
    <2>1. pc' \in [Runners -> Labels] /\ stack[t] # <<>>
        BY <1>7, GotoOnly DEF StoreEvent, Labels, TokensChain
    <2>2. Top(t).request \in Requests /\ Restored(t) \in MaybeRequest
        BY <2>1, TopIs DEF Top, TokensChain, Chained, Restored
    <2>3. store' \in Seq(EventType)
        <3>1. RequestEvent(Top(t).request, _safe_normalize_queries(queries[Top(t).request]),
                           totals[t]) \in EventType
            BY <2>2, EventOf DEF TypeOK
        <3> QED
            BY <1>7, <3>1, NewestType DEF StoreEvent, TypeOK
    <2>4. stack' \in [Tasks -> Seq(FrameType)]
        <3>1. SubSeq(stack[t], 1, Len(stack[t]) - 1) \in Seq(FrameType)
            BY <2>1, TopIs DEF TypeOK
        <3> QED
            BY <1>7, <3>1 DEF StoreEvent, TypeOK
    <2>5. /\ _CURRENT_CONTEXT' \in [Runners -> MaybeRequest]
          /\ phase' \in [Requests -> {"unused", "open", "ended"}]
          /\ totals' \in [Tasks -> TotalsType]
          /\ execution' \in [Runners -> {"none", "untimed", "timed"}]
        BY <1>7, <2>2 DEF StoreEvent, TypeOK, TotalsType, NoTotals
    <2> QED
        BY <1>7, <2>1, <2>3, <2>4, <2>5 DEF StoreEvent, TypeOK
<1>8. ASSUME NEW w \in Workers, WorkerEnds(w) PROVE TypeOK'
    <2>1. pc' \in [Runners -> Labels]
        BY <1>8, GotoOnly DEF WorkerEnds, Labels
    <2> QED
        BY <1>8, <2>1 DEF WorkerEnds, TypeOK, MaybeRequest
<1>9. ASSUME NEW x \in Runners, BeforeCursorExecute(x) PROVE TypeOK'
    <2>1. pc' \in [Runners -> Labels]
        BY <1>9, GotoOnly DEF BeforeCursorExecute, Labels
    <2>2. executions' \in [Requests -> Nat]
        BY <1>9, CountedType DEF BeforeCursorExecute, TypeOK
    <2> QED
        BY <1>9, <2>1, <2>2 DEF BeforeCursorExecute, TypeOK
<1>10. ASSUME NEW x \in Runners, AfterCursorExecute(x) PROVE TypeOK'
    <2>1. BeginRecord(x, "executing", 1)
        BY <1>10 DEF AfterCursorExecute
    <2> QED
        BY <1>10, <2>1, BeginRecordType DEF AfterCursorExecute, TypeOK
<1>11. ASSUME NEW x \in Runners, ExecuteFails(x) \/ FetchFails(x) PROVE TypeOK'
    <2>1. PICK from : ErrorOfExecution(x, from)
        BY <1>11 DEF ExecuteFails, FetchFails
    <2>2. execution' \in [Runners -> {"none", "untimed", "timed"}]
        BY <2>1 DEF ErrorOfExecution, TypeOK
    <2> QED
        BY <2>1, <2>2, BeginRecordType DEF ErrorOfExecution, TypeOK
<1>12. ASSUME NEW x \in Runners, ConnectionFails(x) PROVE TypeOK'
    BY <1>12, BeginRecordType DEF ConnectionFails, TypeOK
<1>13. ASSUME NEW x \in Runners, Unrecorded(x) PROVE TypeOK'
    <2>1. pc' \in [Runners -> Labels]
        BY <1>13, GotoOnly DEF Unrecorded, Labels
    <2> QED
        BY <1>13, <2>1 DEF Unrecorded, TypeOK
<1>14. ASSUME NEW x \in Runners, CountQuery(x) PROVE TypeOK'
    <2>1. pc' \in [Runners -> Labels] /\ _CURRENT_CONTEXT[x] \in Requests
        BY <1>14, GotoOnly DEF CountQuery, Labels, RecordsOwn, TypeOK, MaybeRequest
    <2>2. CountedTotal(x) \in Nat /\ total_query_time_ms[_CURRENT_CONTEXT[x]] \in Nat
        BY <2>1 DEF CountedTotal, TypeOK
    <2>3. total_query_count' \in [Requests -> Nat]
        BY <1>14, <2>2 DEF CountQuery, TypeOK
    <2>4. hook' \in [Runners -> HookType]
        <3>1. ASSUME NEW h \in HookType, NEW n \in Nat
              PROVE  [h EXCEPT !.time = n] \in HookType
            BY DEF HookType
        <3>2. hook' = [hook EXCEPT ![x] = [hook[x] EXCEPT !.time =
                                               total_query_time_ms[_CURRENT_CONTEXT[x]]]]
            BY <1>14 DEF CountQuery
        <3> QED
            BY <2>2, <3>1, <3>2 DEF TypeOK
    <2> QED
        BY <1>14, <2>1, <2>3, <2>4 DEF CountQuery, TypeOK
<1>15. ASSUME NEW x \in Runners, AddTime(x) PROVE TypeOK'
    <2>1. pc' \in [Runners -> Labels]
        BY <1>15, GotoOnly DEF AddTime, Labels
    <2>2. hook[x].time + hook[x].duration \in Nat
        <3>1. hook[x] \in HookType
            BY DEF TypeOK
        <3>2. hook[x].time \in Nat /\ hook[x].duration \in {0, 1}
            BY <3>1 DEF HookType
        <3> QED
            BY <3>2
    <2>3. total_query_time_ms' \in [Requests -> Nat]
        BY <1>15, <2>2 DEF AddTime, TypeOK
    <2>4. hook' \in [Runners -> HookType]
        BY <1>15 DEF AddTime, TypeOK, HookType, NoHook, MaybeRequest
    <2> QED
        BY <1>15, <2>1, <2>3, <2>4 DEF AddTime, TypeOK
<1>16. ASSUME NEW x \in Runners, AppendQuery(x) PROVE TypeOK'
    <2>1. pc' \in [Runners -> Labels] /\ pc[x] = "append"
        BY <1>16, GotoOnly DEF AppendQuery, Labels
    <2>2. Query(x) \in QueryType
        BY <2>1 DEF Query, QueryType, TypeOK, HookType, RecordsOwn
    <2>3. queries' \in [Requests -> Seq(QueryType)]
        <3>1. ASSUME NEW r \in Requests PROVE Append(queries[r], Query(x)) \in Seq(QueryType)
            BY <2>2 DEF TypeOK
        <3> QED
            BY <1>16, <3>1 DEF AppendQuery, TypeOK
    <2>4. hook' \in [Runners -> HookType]
        BY <1>16 DEF AppendQuery, TypeOK, HookType, NoHook, MaybeRequest
    <2> QED
        BY <1>16, <2>1, <2>3, <2>4 DEF AppendQuery, TypeOK
<1> QED
    BY <1>1, <1>2, <1>3, <1>4, <1>5, <1>6, <1>7, <1>8, <1>9, <1>10, <1>11, <1>12,
       <1>13, <1>14, <1>15, <1>16 DEF Next, Hooks

-----------------------------------------------------------------------------
(* Captures and the context variable *)

\* Every step of Next, but for the steps that open, close or finalize a capture
\* and the worker steps, is a step of one hook: it moves the program counter of
\* its runner and leaves the captures and context variables alone.
HookMoves(x) ==
    /\ \E from \in Labels \ {"finalize", "store"}, to \in Labels \ {"finalize", "store"} :
          Goto(x, from, to)
    /\ UNCHANGED <<_CURRENT_CONTEXT, stack, parent, serving>>

LEMMA HooksMove ==
    ASSUME NEW x \in Runners, Hooks(x)
    PROVE  HookMoves(x)
<1> USE DEF HookMoves, Labels
<1>1. CASE BeforeCursorExecute(x)
    BY <1>1 DEF BeforeCursorExecute
<1>2. CASE AfterCursorExecute(x)
    BY <1>2 DEF AfterCursorExecute, BeginRecord
<1>3. CASE ExecuteFails(x)
    BY <1>3 DEF ExecuteFails, ErrorOfExecution, BeginRecord
<1>4. CASE FetchFails(x)
    BY <1>4 DEF FetchFails, ErrorOfExecution, BeginRecord
<1>5. CASE ConnectionFails(x)
    BY <1>5 DEF ConnectionFails, BeginRecord
<1>6. CASE Unrecorded(x)
    BY <1>6 DEF Unrecorded
<1>7. CASE CountQuery(x)
    BY <1>7 DEF CountQuery
<1>8. CASE AddTime(x)
    BY <1>8 DEF AddTime
<1>9. CASE AppendQuery(x)
    BY <1>9 DEF AppendQuery
<1> QED
    BY <1>1, <1>2, <1>3, <1>4, <1>5, <1>6, <1>7, <1>8, <1>9 DEF Hooks

\* Opening a capture pushes its frame, closing one pops it.
LEMMA PushPop ==
    ASSUME TypeOK, NEW t \in Tasks, NEW f \in FrameType
    PROVE  /\ Len(Append(stack[t], f)) = Len(stack[t]) + 1
           /\ DOMAIN Append(stack[t], f) = 1..(Len(stack[t]) + 1)
           /\ Append(stack[t], f)[Len(stack[t]) + 1] = f
           /\ \A i \in DOMAIN stack[t] : Append(stack[t], f)[i] = stack[t][i]
           /\ DOMAIN stack[t] = 1..Len(stack[t]) /\ Len(stack[t]) \in Nat
           /\ stack[t] # <<>> =>
                 LET s == SubSeq(stack[t], 1, Len(stack[t]) - 1) IN
                 /\ Len(s) = Len(stack[t]) - 1 /\ DOMAIN s = 1..(Len(stack[t]) - 1)
                 /\ \A i \in DOMAIN s : s[i] = stack[t][i]
<1>1. stack[t] \in Seq(FrameType)
    BY DEF TypeOK
<1> QED
    BY <1>1

\* A step that changes no capture and lets no task begin to finalize.
LEMMA SameStack ==
    ASSUME TypeOK, TokensChain, NEW x \in Runners, NEW from, NEW to,
           Goto(x, from, to), to \notin {"finalize", "store"}, UNCHANGED stack
    PROVE  TokensChain'
BY GotoOnly, RunnersAre DEF TokensChain

LEMMA TokensStep == TypeOK /\ TokensChain /\ ContextIsOwn /\ [Next]_vars => TokensChain'
<1> SUFFICES ASSUME TypeOK, TokensChain, ContextIsOwn, [Next]_vars PROVE TokensChain'
    OBVIOUS
<1> USE RunnersAre DEF control, Labels
<1>1. CASE UNCHANGED vars
    BY <1>1 DEF TokensChain, vars
<1>2. ASSUME NEW t \in Tasks, NEW r \in Requests, StartCapture(t, r) PROVE TokensChain'
    <2> DEFINE f == [request |-> r, token |-> _CURRENT_CONTEXT[t]]
    <2>1. f \in FrameType /\ f.request = r /\ f.token = Serves(t)
        BY DEF TypeOK, FrameType, MaybeRequest, ContextIsOwn
    <2>2. /\ stack'[t] = Append(stack[t], f)
          /\ \A u \in Tasks \ {t} : stack'[u] = stack[u]
          /\ UNCHANGED pc /\ pc[t] = "run"
        BY <1>2 DEF StartCapture, Runs, TypeOK
    <2>3. f.token = IF stack[t] = <<>> THEN NoRequest ELSE stack[t][Len(stack[t])].request
        BY <2>1, CaptureAssumption DEF Serves, Top
    <2>4. stack[t] = <<>> <=> Len(stack[t]) = 0
        BY DEF TypeOK
    <2>5. Chained(stack'[t])
        <3> SUFFICES ASSUME NEW i \in DOMAIN stack'[t]
                     PROVE  /\ stack'[t][i].request \in Requests
                            /\ stack'[t][i].token =
                                   IF i = 1 THEN NoRequest ELSE stack'[t][i - 1].request
            BY DEF Chained
        <3> HIDE DEF f
        <3>1. CASE i = Len(stack[t]) + 1
            <4>1. stack'[t][i] = f
                BY <2>1, <2>2, <3>1, PushPop
            <4>2. CASE stack[t] = <<>>
                BY <2>1, <2>3, <2>4, <3>1, <4>1, <4>2
            <4>3. CASE stack[t] # <<>>
                <5>1. i # 1 /\ i - 1 \in DOMAIN stack[t] /\ i - 1 = Len(stack[t])
                    BY <2>1, <2>4, <3>1, <4>3, PushPop
                <5>2. stack'[t][i - 1] = stack[t][Len(stack[t])]
                    BY <2>1, <2>2, <5>1, PushPop
                <5> QED
                    BY <2>1, <2>3, <4>1, <4>3, <5>1, <5>2
            <4> QED
                BY <4>2, <4>3
        <3>2. CASE i \in DOMAIN stack[t]
            <4>1. stack'[t][i] = stack[t][i]
                BY <2>1, <2>2, <3>2, PushPop
            <4>2. i # 1 => i - 1 \in DOMAIN stack[t] /\ stack'[t][i - 1] = stack[t][i - 1]
                <5>1. i # 1 => i - 1 \in DOMAIN stack[t]
                    BY <2>1, <3>2, PushPop
                <5> QED
                    BY <2>1, <2>2, <5>1, PushPop
            <4> QED
                BY <3>2, <4>1, <4>2 DEF TokensChain, Chained
        <3> QED
            BY <2>1, <2>2, <3>1, <3>2, PushPop
    <2> QED
        BY <2>2, <2>5 DEF TokensChain
<1>3. ASSUME NEW t \in Tasks, NEW s \in Statuses, SendResponseStart(t, s) PROVE TokensChain'
    BY <1>3 DEF SendResponseStart, TokensChain
<1>4. ASSUME NEW t \in Tasks, NEW w \in Workers, Spawn(t, w) PROVE TokensChain'
    BY <1>4, SameStack DEF Spawn
<1>5. ASSUME NEW t \in Tasks, NEW o \in Outcomes, NEW s \in Statuses, AppEnds(t, o, s)
      PROVE  TokensChain'
    BY <1>5, GotoOnly DEF AppEnds, TokensChain
<1>6. ASSUME NEW t \in Tasks, ReadTotals(t) PROVE TokensChain'
    BY <1>6, GotoOnly DEF ReadTotals, TokensChain
<1>7. ASSUME NEW t \in Tasks, StoreEvent(t) PROVE TokensChain'
    <2>1. /\ stack[t] # <<>> /\ pc'[t] = "run"
          /\ \A u \in Tasks \ {t} : pc'[u] = pc[u] /\ stack'[u] = stack[u]
          /\ stack'[t] = SubSeq(stack[t], 1, Len(stack[t]) - 1)
        BY <1>7, GotoOnly DEF StoreEvent, TokensChain, TypeOK
    <2>2. PICK f : f \in FrameType
        BY <2>1, TopIs
    <2>3. \A i \in DOMAIN stack'[t] :
              /\ i \in DOMAIN stack[t] /\ stack'[t][i] = stack[t][i]
              /\ i # 1 => i - 1 \in DOMAIN stack'[t] /\ stack'[t][i - 1] = stack[t][i - 1]
        BY <2>1, <2>2, PushPop
    <2>4. Chained(stack[t])
        BY DEF TokensChain
    <2>5. Chained(stack'[t])
        BY <2>3, <2>4 DEF Chained
    <2> QED
        BY <2>1, <2>5 DEF TokensChain
<1>8. ASSUME NEW w \in Workers, WorkerEnds(w) PROVE TokensChain'
    BY <1>8, SameStack DEF WorkerEnds
<1>9. ASSUME NEW x \in Runners, Hooks(x) PROVE TokensChain'
    BY <1>9, HooksMove, SameStack DEF HookMoves
<1> QED
    BY <1>1, <1>2, <1>3, <1>4, <1>5, <1>6, <1>7, <1>8, <1>9 DEF Next

\* A task is not a worker.
LEMMA TaskIsNoWorker == ASSUME NEW t \in Tasks PROVE t \notin Workers
BY CaptureAssumption

LEMMA ContextStep == TypeOK /\ TokensChain /\ ContextIsOwn /\ [Next]_vars => ContextIsOwn'
<1> SUFFICES ASSUME TypeOK, TokensChain, ContextIsOwn, [Next]_vars PROVE ContextIsOwn'
    OBVIOUS
<1> USE RunnersAre DEF control
<1>1. CASE UNCHANGED vars
    BY <1>1 DEF ContextIsOwn, Serves, Top, vars
<1>2. ASSUME NEW t \in Tasks, NEW r \in Requests, StartCapture(t, r) PROVE ContextIsOwn'
    <2> DEFINE f == [request |-> r, token |-> _CURRENT_CONTEXT[t]]
    <2>1. f \in FrameType /\ f.request = r
        BY DEF TypeOK, FrameType, MaybeRequest
    <2>2. /\ stack'[t] = Append(stack[t], f) /\ _CURRENT_CONTEXT'[t] = r
          /\ \A x \in Runners \ {t} : _CURRENT_CONTEXT'[x] = _CURRENT_CONTEXT[x]
          /\ \A u \in Tasks \ {t} : stack'[u] = stack[u]
          /\ UNCHANGED serving
        BY <1>2 DEF StartCapture, TypeOK
    <2> HIDE DEF f
    <2>3. stack'[t] # <<>> /\ stack'[t][Len(stack'[t])] = f
        BY <2>1, <2>2, PushPop
    <2>4. Serves(t)' = r
        BY <2>1, <2>3, TaskIsNoWorker DEF Serves, Top
    <2>5. \A x \in Runners \ {t} : Serves(x)' = Serves(x)
        BY <2>2 DEF Serves, Top, Runners
    <2> QED
        BY <2>2, <2>4, <2>5 DEF ContextIsOwn
<1>3. ASSUME NEW t \in Tasks, NEW s \in Statuses, SendResponseStart(t, s) PROVE ContextIsOwn'
    BY <1>3 DEF SendResponseStart, ContextIsOwn, Serves, Top
<1>4. ASSUME NEW t \in Tasks, NEW w \in Workers, Spawn(t, w) PROVE ContextIsOwn'
    <2>1. /\ serving'[w] = Serves(t) /\ _CURRENT_CONTEXT'[w] = Serves(t)
          /\ \A x \in Runners \ {w} : _CURRENT_CONTEXT'[x] = _CURRENT_CONTEXT[x]
          /\ \A v \in Workers \ {w} : serving'[v] = serving[v]
          /\ UNCHANGED stack
        BY <1>4 DEF Spawn, TypeOK, ContextIsOwn
    <2>2. Serves(w)' = Serves(t)
        BY <2>1 DEF Serves
    <2>3. \A x \in Runners \ {w} : Serves(x)' = Serves(x)
        BY <2>1 DEF Serves, Top, Runners
    <2> QED
        BY <2>1, <2>2, <2>3 DEF ContextIsOwn
<1>5. ASSUME NEW t \in Tasks, NEW o \in Outcomes, NEW s \in Statuses, AppEnds(t, o, s)
      PROVE  ContextIsOwn'
    BY <1>5 DEF AppEnds, ContextIsOwn, Serves, Top
<1>6. ASSUME NEW t \in Tasks, ReadTotals(t) PROVE ContextIsOwn'
    BY <1>6 DEF ReadTotals, ContextIsOwn, Serves, Top
<1>7. ASSUME NEW t \in Tasks, StoreEvent(t) PROVE ContextIsOwn'
    <2> DEFINE n == Len(stack[t])
    <2>1. /\ stack[t] # <<>> /\ _CURRENT_CONTEXT'[t] = Top(t).token
          /\ \A x \in Runners \ {t} : _CURRENT_CONTEXT'[x] = _CURRENT_CONTEXT[x]
          /\ \A u \in Tasks \ {t} : stack'[u] = stack[u]
          /\ stack'[t] = SubSeq(stack[t], 1, n - 1)
          /\ UNCHANGED serving
        BY <1>7 DEF StoreEvent, Restored, Goto, TokensChain, TypeOK
    <2>2. n \in DOMAIN stack[t] /\ n \in Nat \ {0} /\ Top(t) \in FrameType
        BY <2>1, TopIs
    <2>3. /\ Len(stack'[t]) = n - 1
          /\ n # 1 => stack'[t] # <<>> /\ stack'[t][n - 1] = stack[t][n - 1]
        <3>1. /\ Len(stack'[t]) = n - 1 /\ DOMAIN stack'[t] = 1..(n - 1)
              /\ \A i \in DOMAIN stack'[t] : stack'[t][i] = stack[t][i]
            BY <2>1, <2>2, PushPop
        <3>2. ASSUME NEW k \in Nat \ {0}, k # 1 PROVE k - 1 \in 1..(k - 1) /\ k - 1 # 0
            BY <3>2
        <3>3. n # 1 => n - 1 \in 1..(n - 1) /\ n - 1 # 0
            BY <2>2, <3>2
        <3>4. n # 1 => stack'[t] # <<>>
            BY <3>1, <3>3
        <3> QED
            BY <3>1, <3>3, <3>4
    <2>4. Top(t).token = IF n = 1 THEN NoRequest ELSE stack[t][n - 1].request
        BY <2>2 DEF TokensChain, Chained, Top
    <2>5. Serves(t)' = Top(t).token
        <3>1. CASE n = 1
            <4>1. stack'[t] = <<>>
                BY <2>1, <3>1
            <4> QED
                BY <2>4, <3>1, <4>1, TaskIsNoWorker DEF Serves
        <3>2. CASE n # 1
            BY <2>3, <2>4, <3>2, TaskIsNoWorker DEF Serves, Top
        <3> QED
            BY <3>1, <3>2
    <2>6. \A x \in Runners \ {t} : Serves(x)' = Serves(x)
        BY <2>1 DEF Serves, Top, Runners
    <2> QED
        BY <2>1, <2>5, <2>6 DEF ContextIsOwn
<1>8. ASSUME NEW w \in Workers, WorkerEnds(w) PROVE ContextIsOwn'
    <2>1. /\ serving'[w] = NoRequest /\ _CURRENT_CONTEXT'[w] = NoRequest
          /\ \A x \in Runners \ {w} : _CURRENT_CONTEXT'[x] = _CURRENT_CONTEXT[x]
          /\ \A v \in Workers \ {w} : serving'[v] = serving[v]
          /\ UNCHANGED stack
        BY <1>8 DEF WorkerEnds, TypeOK
    <2>2. Serves(w)' = NoRequest
        BY <2>1 DEF Serves
    <2>3. \A x \in Runners \ {w} : Serves(x)' = Serves(x)
        BY <2>1 DEF Serves, Top, Runners
    <2> QED
        BY <2>1, <2>2, <2>3 DEF ContextIsOwn
<1>9. ASSUME NEW x \in Runners, Hooks(x) PROVE ContextIsOwn'
    BY <1>9, HooksMove DEF HookMoves, ContextIsOwn, Serves, Top
<1> QED
    BY <1>1, <1>2, <1>3, <1>4, <1>5, <1>6, <1>7, <1>8, <1>9 DEF Next

-----------------------------------------------------------------------------
(* Queries *)

\* A runner that is in the middle of a hook is the only one to touch its locals
\* and its context variable.
LEMMA RecordsStep == TypeOK /\ RecordsOwn /\ ContextIsOwn /\ [Next]_vars => RecordsOwn'
<1> SUFFICES ASSUME TypeOK, RecordsOwn, ContextIsOwn, [Next]_vars PROVE RecordsOwn'
    OBVIOUS
<1> DEFINE Recording == {"count", "time", "append"}
<1> USE RunnersAre DEF control, database, RecordsOwn
<1>1. CASE UNCHANGED vars
    BY <1>1 DEF vars
\* One runner moves, to where it does not record, and no context variable of
\* another runner, and no other hook, changes.
<1>a. ASSUME NEW x \in Runners, NEW from, NEW to, Goto(x, from, to), to \notin Recording,
             \A y \in Runners \ {x} : /\ _CURRENT_CONTEXT'[y] = _CURRENT_CONTEXT[y]
                                     /\ hook'[y] = hook[y]
      PROVE  RecordsOwn'
    BY <1>a, GotoOnly
\* A hook begins to record.
<1>b. ASSUME NEW x \in Runners, NEW from, NEW d \in {0, 1}, BeginRecord(x, from, d),
             UNCHANGED _CURRENT_CONTEXT
      PROVE  RecordsOwn'
    <2>1. /\ _CURRENT_CONTEXT[x] # NoRequest /\ hook'[x].owner = Serves(x)
          /\ hook'[x].sequence = total_query_count[_CURRENT_CONTEXT[x]] + 1
          /\ \A y \in Runners \ {x} : hook'[y] = hook[y] /\ pc'[y] = pc[y]
        BY <1>b, GotoOnly DEF BeginRecord, TypeOK
    <2>2. total_query_count[_CURRENT_CONTEXT[x]] \in Nat
        BY <2>1 DEF TypeOK, MaybeRequest
    <2>3. hook'[x].sequence # 0
        BY <2>1, <2>2
    <2> QED
        BY <1>b, <2>1, <2>3 DEF ContextIsOwn
<1>2. ASSUME NEW t \in Tasks, NEW r \in Requests, StartCapture(t, r) PROVE RecordsOwn'
    BY <1>2 DEF StartCapture, Runs, TypeOK
<1>3. ASSUME NEW t \in Tasks, NEW s \in Statuses, SendResponseStart(t, s) PROVE RecordsOwn'
    BY <1>3 DEF SendResponseStart
<1>4. ASSUME NEW t \in Tasks, NEW w \in Workers, Spawn(t, w) PROVE RecordsOwn'
    BY <1>4, <1>a DEF Spawn, TypeOK
<1>5. ASSUME NEW t \in Tasks, NEW o \in Outcomes, NEW s \in Statuses, AppEnds(t, o, s)
      PROVE  RecordsOwn'
    BY <1>5, <1>a DEF AppEnds
<1>6. ASSUME NEW t \in Tasks, ReadTotals(t) PROVE RecordsOwn'
    BY <1>6, <1>a DEF ReadTotals
<1>7. ASSUME NEW t \in Tasks, StoreEvent(t) PROVE RecordsOwn'
    BY <1>7, <1>a DEF StoreEvent, TypeOK
<1>8. ASSUME NEW w \in Workers, WorkerEnds(w) PROVE RecordsOwn'
    BY <1>8, <1>a DEF WorkerEnds, TypeOK
<1>9. ASSUME NEW x \in Runners, BeforeCursorExecute(x) PROVE RecordsOwn'
    BY <1>9, <1>a DEF BeforeCursorExecute
<1>10. ASSUME NEW x \in Runners, AfterCursorExecute(x) PROVE RecordsOwn'
    BY <1>10, <1>b DEF AfterCursorExecute
<1>11. ASSUME NEW x \in Runners, ExecuteFails(x) \/ FetchFails(x) PROVE RecordsOwn'
    BY <1>11, <1>b DEF ExecuteFails, FetchFails, ErrorOfExecution
<1>12. ASSUME NEW x \in Runners, ConnectionFails(x) PROVE RecordsOwn'
    BY <1>12, <1>b DEF ConnectionFails
<1>13. ASSUME NEW x \in Runners, Unrecorded(x) PROVE RecordsOwn'
    BY <1>13, <1>a DEF Unrecorded
<1>14. ASSUME NEW x \in Runners, CountQuery(x) PROVE RecordsOwn'
    <2>1. /\ pc[x] = "count" /\ \A y \in Runners \ {x} : pc'[y] = pc[y] /\ hook'[y] = hook[y]
          /\ hook'[x].owner = hook[x].owner /\ hook'[x].sequence = hook[x].sequence
          /\ UNCHANGED _CURRENT_CONTEXT
        BY <1>14, GotoOnly DEF CountQuery, TypeOK, HookType
    <2> QED
        BY <2>1
<1>15. ASSUME NEW x \in Runners, AddTime(x) PROVE RecordsOwn'
    <2>1. /\ pc[x] = "time"
          /\ \A y \in Runners \ {x} : pc'[y] = pc[y] /\ hook'[y] = hook[y]
          /\ pc'[x] = "run" \/ hook'[x] = hook[x]
          /\ UNCHANGED _CURRENT_CONTEXT
        BY <1>15, GotoOnly DEF AddTime, TypeOK
    <2> QED
        BY <2>1
<1>16. ASSUME NEW x \in Runners, AppendQuery(x) PROVE RecordsOwn'
    BY <1>16, <1>a DEF AppendQuery, TypeOK
<1> QED
    BY <1>1, <1>2, <1>3, <1>4, <1>5, <1>6, <1>7, <1>8, <1>9, <1>10, <1>11, <1>12,
       <1>13, <1>14, <1>15, <1>16 DEF Next, Hooks

\* What is among the newest events of a sequence is one of its events.
LEMMA NewestAreOf ==
    ASSUME NEW S, NEW s \in Seq(S), NEW k \in DOMAIN Newest(s, Capacity)
    PROVE  \E j \in DOMAIN s : Newest(s, Capacity)[k] = s[j]
<1>1. Len(s) \in Nat /\ DOMAIN s = 1..Len(s)
    OBVIOUS
<1>2. CASE Len(s) <= Capacity
    BY <1>2 DEF Newest
<1>3. CASE ~(Len(s) <= Capacity)
    <2> DEFINE m == Len(s) - Capacity
    <2>1. Capacity \in Nat \ {0}
        BY CaptureAssumption
    <2>2. m \in Nat /\ m + 1 <= Len(s) /\ Len(s) - (m + 1) + 1 = Capacity
        BY <1>1, <1>3, <2>1
    <2>3. Newest(s, Capacity) = SubSeq(s, m + 1, Len(s))
        BY <1>3 DEF Newest
    <2> HIDE DEF m
    <2>4. /\ DOMAIN SubSeq(s, m + 1, Len(s)) = 1..(Len(s) - (m + 1) + 1)
          /\ \A i \in 1..(Len(s) - (m + 1) + 1) : SubSeq(s, m + 1, Len(s))[i] = s[m + 1 + i - 1]
        BY <1>1, <2>2
    <2>5. k \in 1..Capacity /\ Newest(s, Capacity)[k] = s[m + 1 + k - 1]
        BY <2>2, <2>3, <2>4
    <2>6. m + 1 + k - 1 \in 1..Len(s)
        BY <1>1, <2>1, <2>2, <2>5
    <2> QED
        BY <1>1, <2>5, <2>6
<1> QED
    BY <1>2, <1>3

\* A request's list grows by a query of that request only.
LEMMA OwnStep == TypeOK /\ RecordsOwn /\ TokensChain /\ OnlyOwnQueries /\ [Next]_vars => OnlyOwnQueries'
<1> SUFFICES ASSUME TypeOK, RecordsOwn, TokensChain, OnlyOwnQueries, [Next]_vars
             PROVE  OnlyOwnQueries'
    OBVIOUS
<1> USE RunnersAre DEF context
<1>1. ASSUME UNCHANGED <<queries, store>> PROVE OnlyOwnQueries'
    BY <1>1 DEF OnlyOwnQueries
<1>2. ASSUME NEW x \in Runners, AppendQuery(x) PROVE OnlyOwnQueries'
    <2> DEFINE r == _CURRENT_CONTEXT[x]
    <2>1. /\ r \in Requests /\ Query(x).owner = r /\ UNCHANGED store
          /\ queries' = [queries EXCEPT ![r] = Append(@, Query(x))]
        BY <1>2 DEF AppendQuery, Goto, RecordsOwn, Query, TypeOK, MaybeRequest
    <2>2. \A q \in Requests : queries[q] \in Seq(QueryType)
        BY DEF TypeOK
    <2>3. /\ queries'[r] = Append(queries[r], Query(x))
          /\ \A q \in Requests \ {r} : queries'[q] = queries[q]
        BY <2>1 DEF TypeOK
    <2>4. ASSUME NEW i \in DOMAIN queries'[r] PROVE queries'[r][i].owner = r
        <3>1. /\ i \in DOMAIN queries[r] \/ i = Len(queries[r]) + 1
              /\ i \in DOMAIN queries[r] => queries'[r][i] = queries[r][i]
              /\ queries'[r][Len(queries[r]) + 1] = Query(x)
            BY <2>1, <2>2, <2>3
        <3> QED
            BY <2>1, <3>1 DEF OnlyOwnQueries
    <2> QED
        BY <2>1, <2>3, <2>4 DEF OnlyOwnQueries
<1>3. ASSUME NEW t \in Tasks, StoreEvent(t) PROVE OnlyOwnQueries'
    <2> DEFINE r == Top(t).request
               qs == _safe_normalize_queries(queries[r])
               ev == RequestEvent(r, qs, totals[t])
    <2>1. stack[t] # <<>>
        BY <1>3 DEF StoreEvent, Goto, TokensChain
    <2>2. r \in Requests /\ totals[t] \in TotalsType
        BY <2>1, TopIs DEF Top, TokensChain, Chained, TypeOK
    <2>3. ev \in EventType /\ ev.request_id = r
        BY <2>2, EventOf DEF RequestEvent
    <2>4. \A i \in DOMAIN qs : qs[i].owner = r
        <3>1. \A i \in DOMAIN queries[r] : queries[r][i] \in QueryType /\ queries[r][i].owner = r
            BY <2>2 DEF TypeOK, OnlyOwnQueries
        <3>2. ASSUME NEW q \in QueryType, NEW i PROVE [q EXCEPT !.sequence = i].owner = q.owner
            BY DEF QueryType
        <3> QED
            BY <3>1, <3>2 DEF _safe_normalize_queries
    <2>5. \A i \in DOMAIN ev.queries : ev.queries[i].owner = r
        <3> DEFINE n == Minimum(Len(qs), MaxQueries)
        <3>1. queries[r] \in Seq(QueryType)
            BY <2>2 DEF TypeOK
        <3>2. DOMAIN qs = 1..Len(queries[r]) /\ Len(queries[r]) \in Nat /\ Len(qs) = Len(queries[r])
            BY <3>1 DEF _safe_normalize_queries
        <3>3. n \in Nat /\ n <= Len(qs) /\ 1..n \subseteq DOMAIN qs
            BY <3>2, CaptureAssumption DEF Minimum
        <3>4. ev.queries = SubSeq(qs, 1, n)
            BY DEF RequestEvent
        <3> HIDE DEF qs, n, ev
        <3>5. DOMAIN SubSeq(qs, 1, n) = 1..n /\ \A i \in 1..n : SubSeq(qs, 1, n)[i] = qs[i]
            BY <3>3
        <3> QED
            BY <2>4, <3>3, <3>4, <3>5
    <2>6. store \in Seq(EventType) /\ UNCHANGED queries
        BY <1>3 DEF StoreEvent, TypeOK
    <2>7. store' = store \/ store' = Newest(Append(store, ev), Capacity)
        BY <1>3 DEF StoreEvent
    <2> HIDE DEF ev
    <2>8. ASSUME NEW k \in DOMAIN store'
          PROVE  store'[k] = ev \/ \E j \in DOMAIN store : store'[k] = store[j]
        <3>1. CASE store' = store
            BY <3>1
        <3>2. CASE store' = Newest(Append(store, ev), Capacity)
            <4> DEFINE s == Append(store, ev)
            <4>1. /\ s \in Seq(EventType) /\ DOMAIN s = 1..(Len(store) + 1) /\ Len(s) = Len(store) + 1
                  /\ s[Len(store) + 1] = ev /\ Len(store) \in Nat
                  /\ \A j \in 1..Len(store) : s[j] = store[j] /\ j \in DOMAIN store
                BY <2>3, <2>6
            <4> HIDE DEF s
            <4>2. \A j \in DOMAIN s : s[j] = ev \/ \E m \in DOMAIN store : s[j] = store[m]
                BY <4>1
            <4>3. \E j \in DOMAIN s : store'[k] = s[j]
                BY <3>2, <4>1, NewestAreOf DEF s
            <4> QED
                BY <4>2, <4>3
        <3> QED
            BY <2>7, <3>1, <3>2
    <2> QED
        BY <2>3, <2>5, <2>6, <2>8 DEF OnlyOwnQueries
<1>4. ASSUME NEW x \in Runners, Hooks(x), ~AppendQuery(x) PROVE UNCHANGED <<queries, store>>
    BY <1>4 DEF Hooks, BeforeCursorExecute, AfterCursorExecute, ExecuteFails, FetchFails,
                ErrorOfExecution, ConnectionFails, Unrecorded, CountQuery, AddTime
<1> QED
    BY <1>1, <1>2, <1>3, <1>4
       DEF Next, vars, StartCapture, SendResponseStart, Spawn, AppEnds, ReadTotals, WorkerEnds

-----------------------------------------------------------------------------
(* The theorems *)

LEMMA InitInv == Init => IInv
<1> SUFFICES ASSUME Init PROVE IInv
    OBVIOUS
<1> USE CaptureAssumption DEF Init
<1>1. TypeOK
    BY InitType
<1>2. TokensChain /\ RecordsOwn
    BY DEF TokensChain, Chained, RecordsOwn, Runners
<1>3. ContextIsOwn
    BY DEF ContextIsOwn, Serves, Runners
<1>4. OnlyOwnQueries
    BY DEF OnlyOwnQueries
<1> QED
    BY <1>1, <1>2, <1>3, <1>4 DEF IInv

\* IInv holds in every reachable state.
THEOREM Inductive == Spec => []IInv
<1>1. IInv /\ [Next]_vars => IInv'
    BY TypeStep, TokensStep, ContextStep, RecordsStep, OwnStep DEF IInv
<1> QED
    BY InitInv, <1>1, PTL DEF Spec

\* Type correctness of every reachable state.
THEOREM TypeCorrect == Spec => []TypeOK
<1>1. IInv => TypeOK
    BY DEF IInv
<1> QED
    BY Inductive, <1>1, PTL

\* Every task and every worker always records for the request it serves.
THEOREM ContextsDoNotLeak == Spec => []ContextIsOwn
<1>1. IInv => ContextIsOwn
    BY DEF IInv
<1> QED
    BY Inductive, <1>1, PTL

\* No query is ever recorded or stored under another request, for any number of
\* tasks, threads, nested captures and requests.
THEOREM RequestsAreIsolated == Spec => []OnlyOwnQueries
<1>1. IInv => OnlyOwnQueries
    BY DEF IInv
<1> QED
    BY Inductive, <1>1, PTL

-----------------------------------------------------------------------------
(* What is counted, kept and stored *)

Recording == {"count", "time", "append"}

\* A step that has nothing to do with what is counted and kept.
Quiet ==
    /\ UNCHANGED <<queries, total_query_count, observed>>
    /\ \A x \in Runners : \A l \in Recording :
        /\ pc'[x] = l <=> pc[x] = l
        /\ pc[x] = l => _CURRENT_CONTEXT'[x] = _CURRENT_CONTEXT[x]

\* A hook begins to record.
Begins(x) ==
    /\ \E from \in {"run", "executing"} : Goto(x, from, "count")
    /\ _CURRENT_CONTEXT[x] # NoRequest
    /\ observed' = Counted(observed, x)
    /\ \E d \in {0, 1} :
          hook' = [hook EXCEPT ![x] =
                      [sequence |-> total_query_count[_CURRENT_CONTEXT[x]] + 1,
                       duration |-> d, time |-> 0, owner |-> Serves(x)]]
    /\ UNCHANGED <<_CURRENT_CONTEXT, stack, response, context, store>>

\* What a step of a hook can be.
LEMMA HookIs ==
    ASSUME TypeOK, NEW x \in Runners, Hooks(x)
    PROVE  \/ Quiet /\ UNCHANGED <<stack, phase>>
           \/ Begins(x) \/ CountQuery(x) \/ AddTime(x) \/ AppendQuery(x)
<1> USE DEF database, response, context
<1>1. CASE BeforeCursorExecute(x)
    <2>1. pc[x] = "run" /\ pc'[x] = "executing" /\ \A y \in Runners \ {x} : pc'[y] = pc[y]
        BY <1>1, GotoOnly DEF BeforeCursorExecute
    <2> QED
        BY <1>1, <2>1 DEF BeforeCursorExecute, Quiet, Recording
<1>2. CASE Unrecorded(x)
    <2>1. pc[x] = "executing" /\ pc'[x] = "run" /\ \A y \in Runners \ {x} : pc'[y] = pc[y]
        BY <1>2, GotoOnly DEF Unrecorded
    <2> QED
        BY <1>2, <2>1 DEF Unrecorded, Quiet, Recording
<1>3. CASE AfterCursorExecute(x)
    BY <1>3 DEF AfterCursorExecute, BeginRecord, Begins
<1>4. CASE ExecuteFails(x)
    BY <1>4 DEF ExecuteFails, ErrorOfExecution, BeginRecord, Begins
<1>5. CASE FetchFails(x)
    BY <1>5 DEF FetchFails, ErrorOfExecution, BeginRecord, Begins
<1>6. CASE ConnectionFails(x)
    BY <1>6 DEF ConnectionFails, BeginRecord, Begins
<1> QED
    BY <1>1, <1>2, <1>3, <1>4, <1>5, <1>6 DEF Hooks

\* Every other step is quiet.
LEMMA OthersAreQuiet ==
    ASSUME TypeOK, [Next]_vars, \A x \in Runners : ~Hooks(x)
    PROVE  Quiet
<1> USE RunnersAre DEF control, database, response, context, Recording
<1>1. CASE UNCHANGED vars
    BY <1>1 DEF vars, Quiet
<1>2. ASSUME NEW t \in Tasks, NEW r \in Requests, StartCapture(t, r)
      PROVE  Quiet
    BY <1>2 DEF StartCapture, Runs, Quiet, TypeOK
<1>3. ASSUME NEW t \in Tasks, NEW s \in Statuses, SendResponseStart(t, s)
      PROVE  Quiet
    BY <1>3 DEF SendResponseStart, Quiet
<1>4. ASSUME NEW t \in Tasks, NEW w \in Workers, Spawn(t, w)
      PROVE  Quiet
    <2>1. pc[w] = "idle" /\ pc'[w] = "run" /\ \A y \in Runners \ {w} : pc'[y] = pc[y]
        BY <1>4, GotoOnly DEF Spawn
    <2> QED
        BY <1>4, <2>1 DEF Spawn, Quiet, TypeOK
<1>5. ASSUME NEW t \in Tasks, NEW o \in Outcomes, NEW s \in Statuses, AppEnds(t, o, s)
      PROVE  Quiet
    <2>1. pc[t] = "run" /\ pc'[t] = "finalize" /\ \A y \in Runners \ {t} : pc'[y] = pc[y]
        BY <1>5, GotoOnly DEF AppEnds
    <2> QED
        BY <1>5, <2>1 DEF AppEnds, Quiet
<1>6. ASSUME NEW t \in Tasks, ReadTotals(t)
      PROVE  Quiet
    <2>1. pc[t] = "finalize" /\ pc'[t] = "store" /\ \A y \in Runners \ {t} : pc'[y] = pc[y]
        BY <1>6, GotoOnly DEF ReadTotals
    <2> QED
        BY <1>6, <2>1 DEF ReadTotals, Quiet
<1>7. ASSUME NEW t \in Tasks, StoreEvent(t)
      PROVE  Quiet
    <2>1. pc[t] = "store" /\ pc'[t] = "run" /\ \A y \in Runners \ {t} : pc'[y] = pc[y]
        BY <1>7, GotoOnly DEF StoreEvent
    <2>2. /\ _CURRENT_CONTEXT' = [_CURRENT_CONTEXT EXCEPT ![t] = Restored(t)]
          /\ UNCHANGED <<queries, total_query_count, observed>>
        BY <1>7 DEF StoreEvent
    <2> QED
        BY <2>1, <2>2 DEF Quiet, TypeOK
<1>8. ASSUME NEW w \in Workers, WorkerEnds(w)
      PROVE  Quiet
    <2>1. pc[w] = "run" /\ pc'[w] = "idle" /\ \A y \in Runners \ {w} : pc'[y] = pc[y]
        BY <1>8, GotoOnly DEF WorkerEnds
    <2> QED
        BY <1>8, <2>1 DEF WorkerEnds, Quiet, TypeOK
<1> QED
    BY <1>1, <1>2, <1>3, <1>4, <1>5, <1>6, <1>7, <1>8 DEF Next

-----------------------------------------------------------------------------
(* How many runners are at a statement *)

LEMMA AtIsFinite ==
    ASSUME NEW r, NEW l
    PROVE  /\ IsFiniteSet(At(r, l)) /\ Cardinality(At(r, l)) \in Nat
           /\ IsFiniteSet(Runners)
<1>1. IsFiniteSet(Runners)
    BY CaptureAssumption, FS_Union DEF Runners
<1>2. At(r, l) \subseteq Runners
    BY DEF At
<1>3. IsFiniteSet(At(r, l))
    BY <1>1, <1>2, FS_Subset
<1> QED
    BY <1>1, <1>3, FS_CardinalityType

LEMMA QuietKeepsAt ==
    ASSUME Quiet, NEW r, NEW l \in Recording
    PROVE  At(r, l)' = At(r, l)
BY DEF Quiet, At

\* A runner that goes on leaves one set and enters another.
LEMMA AtMoves ==
    ASSUME TypeOK, NEW x \in Runners, NEW from, NEW to, Goto(x, from, to), from # to,
           UNCHANGED _CURRENT_CONTEXT, NEW r, NEW l
    PROVE  Cardinality(At(r, l))' =
              IF _CURRENT_CONTEXT[x] = r /\ l = to THEN Cardinality(At(r, l)) + 1
              ELSE IF _CURRENT_CONTEXT[x] = r /\ l = from THEN Cardinality(At(r, l)) - 1
              ELSE Cardinality(At(r, l))
<1>1. pc[x] = from /\ pc'[x] = to /\ \A y \in Runners \ {x} : pc'[y] = pc[y]
    BY GotoOnly
<1>2. CASE _CURRENT_CONTEXT[x] = r /\ l = to
    <2>1. At(r, l)' = At(r, l) \cup {x} /\ x \notin At(r, l)
        BY <1>1, <1>2 DEF At
    <2>2. IsFiniteSet(At(r, l))
        BY AtIsFinite
    <2>3. Cardinality(At(r, l) \cup {x}) = Cardinality(At(r, l)) + 1
        BY <2>1, <2>2, FS_AddElement
    <2>4. Cardinality(At(r, l))' = Cardinality(At(r, l)')
        OBVIOUS
    <2> QED
        BY <1>2, <2>1, <2>3, <2>4
<1>3. CASE _CURRENT_CONTEXT[x] = r /\ l = from
    <2>1. At(r, l)' = At(r, l) \ {x} /\ x \in At(r, l)
        BY <1>1, <1>3 DEF At
    <2>2. IsFiniteSet(At(r, l))
        BY AtIsFinite
    <2>3. Cardinality(At(r, l) \ {x}) = Cardinality(At(r, l)) - 1
        BY <2>1, <2>2, FS_RemoveElement
    <2>4. Cardinality(At(r, l))' = Cardinality(At(r, l)')
        OBVIOUS
    <2> QED
        BY <1>3, <2>1, <2>3, <2>4
<1>4. CASE ~(_CURRENT_CONTEXT[x] = r /\ l \in {from, to})
    <2>1. At(r, l)' = At(r, l)
        BY <1>1, <1>4 DEF At
    <2> QED
        BY <1>4, <2>1
<1> QED
    BY <1>2, <1>3, <1>4

-----------------------------------------------------------------------------
(* One step *)

LEMMA StepIs ==
    ASSUME TypeOK, [Next]_vars
    PROVE  \/ Quiet
           \/ \E x \in Runners : Begins(x) \/ CountQuery(x) \/ AddTime(x) \/ AppendQuery(x)
BY HookIs, OthersAreQuiet

LEMMA OnceStep == TypeOK /\ TokensChain /\ CapturedOnce /\ [Next]_vars => CapturedOnce'
<1> SUFFICES ASSUME TypeOK, TokensChain, CapturedOnce, [Next]_vars
             PROVE  CapturedOnce'
    OBVIOUS
<1> USE DEF control, database, response, context
<1>1. CASE UNCHANGED <<stack, phase>>
    BY <1>1 DEF CapturedOnce
<1>2. ASSUME NEW t \in Tasks, NEW r \in Requests, StartCapture(t, r)
      PROVE  CapturedOnce'
    <2>1. stack[t] \in Seq(FrameType) /\ stack \in [Tasks -> Seq(FrameType)]
        BY DEF TypeOK
    <2> DEFINE frame == [request |-> r, token |-> _CURRENT_CONTEXT[t]]
    <2>0. frame \in FrameType /\ frame.request = r
        BY RunnersAre DEF TypeOK, FrameType, MaybeRequest
    <2>2. /\ stack'[t] = Append(stack[t], frame)
          /\ \A u \in Tasks \ {t} : stack'[u] = stack[u]
          /\ phase[r] = "unused" /\ phase' = [phase EXCEPT ![r] = "open"]
        BY <1>2, <2>1 DEF StartCapture
    <2> HIDE DEF frame
    <2>3. ASSUME NEW u \in Tasks, NEW j \in DOMAIN stack'[u]
          PROVE  \/ u = t /\ j = Len(stack[t]) + 1 /\ stack'[u][j].request = r
                 \/ /\ j \in DOMAIN stack[u] /\ stack'[u][j] = stack[u][j]
                    /\ stack'[u][j].request # r
                    /\ phase[stack'[u][j].request] = "open"
        <3>1. CASE u = t /\ j = Len(stack[t]) + 1
            BY <2>0, <2>1, <2>2, <3>1
        <3>2. CASE ~(u = t /\ j = Len(stack[t]) + 1)
            <4>1. CASE u = t
                <5>1. j \in 1 .. Len(stack[t]) + 1
                    BY <2>0, <2>1, <2>2, <2>3, <4>1
                <5> QED
                    BY <2>0, <2>1, <2>2, <3>2, <4>1, <5>1 DEF CapturedOnce
            <4>2. CASE u # t
                BY <2>2, <2>3, <4>2 DEF CapturedOnce
            <4> QED
                BY <4>1, <4>2
        <3> QED
            BY <3>1, <3>2
    <2>4. ASSUME NEW u \in Tasks, NEW j \in DOMAIN stack'[u]
          PROVE  phase'[stack'[u][j].request] = "open"
        BY <2>2, <2>3, <2>4 DEF TypeOK
    <2>5. ASSUME NEW u \in Tasks, NEW i \in DOMAIN stack'[u],
                 NEW v \in Tasks, NEW j \in DOMAIN stack'[v],
                 stack'[u][i].request = stack'[v][j].request
          PROVE  u = v /\ i = j
        BY <2>3, <2>5 DEF CapturedOnce
    <2> QED
        BY <2>4, <2>5 DEF CapturedOnce
<1>3. ASSUME NEW t \in Tasks, StoreEvent(t)
      PROVE  CapturedOnce'
    <2>1. stack[t] \in Seq(FrameType) /\ stack[t] # <<>> /\ stack \in [Tasks -> Seq(FrameType)]
        BY <1>3 DEF TypeOK, StoreEvent, Goto, TokensChain
    <2>2. /\ stack'[t] = SubSeq(stack[t], 1, Len(stack[t]) - 1)
          /\ \A u \in Tasks \ {t} : stack'[u] = stack[u]
        BY <1>3, <2>1 DEF StoreEvent
    <2>3. phase' = [phase EXCEPT ![Top(t).request] = "ended"]
        BY <1>3 DEF StoreEvent
    <2>4. ASSUME NEW u \in Tasks, NEW j \in DOMAIN stack'[u]
          PROVE  j \in DOMAIN stack[u] /\ stack'[u][j] = stack[u][j]
        BY <2>1, <2>2, <2>4
    <2>5. \A u \in Tasks : \A j \in DOMAIN stack'[u] :
            /\ phase[stack'[u][j].request] = "open"
            /\ stack'[u][j].request \in Requests
            /\ stack'[u][j].request # Top(t).request
        <3>1. ASSUME NEW u \in Tasks, NEW j \in DOMAIN stack'[u]
              PROVE  ~(u = t /\ j = Len(stack[t]))
            BY <2>1, <2>2, <3>1
        <3> QED
            BY <2>1, <2>4, <3>1, TopIs DEF CapturedOnce, TokensChain, Chained, Top
    <2>6. \A u \in Tasks : \A j \in DOMAIN stack'[u] : phase'[stack'[u][j].request] = "open"
        BY <2>3, <2>5 DEF TypeOK
    <2> QED
        BY <2>4, <2>6 DEF CapturedOnce
<1>4. ASSUME NEW x \in Runners, Hooks(x)
      PROVE  UNCHANGED <<stack, phase>>
    BY <1>4, HookIs DEF Begins, CountQuery, AddTime, AppendQuery
<1>5. ASSUME NEW t \in Tasks,
             \/ \E s \in Statuses : SendResponseStart(t, s)
             \/ \E w \in Workers : Spawn(t, w)
             \/ \E o \in Outcomes, s \in Statuses : AppEnds(t, o, s)
             \/ ReadTotals(t)
      PROVE  UNCHANGED <<stack, phase>>
    BY <1>5 DEF SendResponseStart, Spawn, AppEnds, ReadTotals
<1>6. ASSUME NEW w \in Workers, WorkerEnds(w)
      PROVE  UNCHANGED <<stack, phase>>
    BY <1>6 DEF WorkerEnds
<1>7. CASE UNCHANGED vars
    BY <1>1, <1>7 DEF vars
<1> QED
    BY <1>1, <1>2, <1>3, <1>4, <1>5, <1>6, <1>7 DEF Next

\* A request is served by the task that captured it and by workers.
LEMMA CrewIsBounded ==
    ASSUME IInv, CapturedOnce, NEW r \in Requests
    PROVE  LET crew == {x \in Runners : _CURRENT_CONTEXT[x] = r}
           IN  IsFiniteSet(crew) /\ Cardinality(crew) <= Cardinality(Workers) + 1
<1> DEFINE crew == {x \in Runners : _CURRENT_CONTEXT[x] = r}
<1>1. IsFiniteSet(Workers) /\ Cardinality(Workers) \in Nat /\ r # NoRequest
    BY CaptureAssumption, FS_CardinalityType
<1>2. ASSUME NEW t \in Tasks, t \in crew
      PROVE  \E i \in DOMAIN stack[t] : stack[t][i].request = r
    <2>1. Serves(t) = r /\ t \notin Workers
        BY <1>2, TaskIsNoWorker DEF IInv, ContextIsOwn
    <2>2. stack[t] # <<>> /\ Top(t).request = r
        BY <1>1, <2>1 DEF Serves
    <2> QED
        BY <2>2, TopIs DEF IInv, Top
<1>3. \A t, u \in Tasks : t \in crew /\ u \in crew => t = u
    BY <1>2 DEF CapturedOnce
<1>4. CASE crew \subseteq Workers
    <2>1. IsFiniteSet(crew) /\ Cardinality(crew) <= Cardinality(Workers)
        BY <1>1, <1>4, FS_Subset
    <2>2. Cardinality(crew) \in Nat
        BY <2>1, FS_CardinalityType
    <2> QED
        BY <1>1, <2>1, <2>2
<1>5. ASSUME NEW t \in Tasks, t \in crew
      PROVE  IsFiniteSet(crew) /\ Cardinality(crew) <= Cardinality(Workers) + 1
    <2>1. crew \subseteq Workers \cup {t}
        BY <1>3, <1>5 DEF Runners
    <2>2. /\ IsFiniteSet(Workers \cup {t})
          /\ Cardinality(Workers \cup {t}) = Cardinality(Workers) + 1
        BY <1>1, FS_AddElement, TaskIsNoWorker
    <2> QED
        BY <2>1, <2>2, FS_Subset
<1>6. crew \subseteq Workers \/ \E t \in Tasks : t \in crew
    BY DEF Runners
<1> QED
    BY <1>4, <1>5, <1>6

-----------------------------------------------------------------------------
(* The count *)

LEMMA CountStep == IInv /\ CountIsExact /\ [Next]_vars => CountIsExact'
<1> SUFFICES ASSUME IInv, CountIsExact, [Next]_vars, NEW r \in Requests
             PROVE  total_query_count'[r] + Cardinality(At(r, "count"))' = observed'[r]
    BY DEF CountIsExact
<1> DEFINE n == Cardinality(At(r, "count"))
<1>1. TypeOK /\ RecordsOwn /\ ContextIsOwn /\ total_query_count[r] + n = observed[r]
    BY DEF IInv, CountIsExact
<1>2. n \in Nat /\ total_query_count[r] \in Nat /\ observed[r] \in Nat
    BY <1>1, AtIsFinite DEF TypeOK
<1>3. CASE Quiet
    BY <1>1, <1>3, QuietKeepsAt DEF Quiet, Recording
<1>4. ASSUME NEW x \in Runners, Begins(x)
      PROVE  total_query_count'[r] + n' = observed'[r]
    <2>1. PICK from \in {"run", "executing"} : Goto(x, from, "count")
        BY <1>4 DEF Begins
    <2>2. n' = IF _CURRENT_CONTEXT[x] = r THEN n + 1 ELSE n
        BY <1>1, <1>4, <2>1, AtMoves DEF Begins
    <2>3. observed'[r] = IF _CURRENT_CONTEXT[x] = r THEN observed[r] + 1 ELSE observed[r]
        BY <1>1, <1>4 DEF Begins, Counted, ContextIsOwn, TypeOK
    <2> QED
        BY <1>1, <1>2, <1>4, <2>2, <2>3 DEF Begins, context
<1>5. ASSUME NEW x \in Runners, CountQuery(x)
      PROVE  total_query_count'[r] + n' = observed'[r]
    <2>1. n' = IF _CURRENT_CONTEXT[x] = r THEN n - 1 ELSE n
        BY <1>1, <1>5, AtMoves DEF CountQuery
    <2>2. total_query_count'[r] =
            IF _CURRENT_CONTEXT[x] = r THEN total_query_count[r] + 1 ELSE total_query_count[r]
        BY <1>1, <1>5 DEF CountQuery, CountedTotal, TypeOK
    <2> QED
        BY <1>1, <1>2, <1>5, <2>1, <2>2 DEF CountQuery, database
<1>6. ASSUME NEW x \in Runners, AddTime(x)
      PROVE  total_query_count'[r] + n' = observed'[r]
    <2>1. PICK to \in {"append", "run"} : Goto(x, "time", to)
        BY <1>6 DEF AddTime
    <2>2. n' = n
        BY <1>1, <1>6, <2>1, AtMoves DEF AddTime
    <2> QED
        BY <1>1, <1>6, <2>2 DEF AddTime, database
<1>7. ASSUME NEW x \in Runners, AppendQuery(x)
      PROVE  total_query_count'[r] + n' = observed'[r]
    <2>1. n' = n
        BY <1>1, <1>7, AtMoves DEF AppendQuery
    <2> QED
        BY <1>1, <1>7, <2>1 DEF AppendQuery, database
<1> QED
    BY <1>1, <1>3, <1>4, <1>5, <1>6, <1>7, StepIs

-----------------------------------------------------------------------------
(* The list *)

LEMMA KeptStep ==
    IInv /\ CapturedOnce /\ KeptIsBounded /\ [Next]_vars => KeptIsBounded'
<1> DEFINE kept(r) == Len(queries[r]) + Cardinality(At(r, "append"))
           waiting(r) == Cardinality(At(r, "time"))
<1> SUFFICES ASSUME IInv, CapturedOnce, KeptIsBounded, [Next]_vars, NEW r \in Requests
             PROVE  /\ kept(r)' <= MaxQueries + Cardinality(Workers)
                    /\ kept(r)' + waiting(r)' >= Minimum(MaxQueries, total_query_count'[r])
    BY DEF KeptIsBounded, Minimum
<1> DEFINE appending == Cardinality(At(r, "append"))
           timing == Cardinality(At(r, "time"))
           len == Len(queries[r])
           count == total_query_count[r]
<1>1. /\ TypeOK /\ RecordsOwn
      /\ len + appending <= MaxQueries + Cardinality(Workers)
      /\ len + appending + timing >= Minimum(MaxQueries, count)
    BY DEF IInv, KeptIsBounded
<1>2. /\ len \in Nat /\ appending \in Nat /\ timing \in Nat /\ count \in Nat
      /\ MaxQueries \in Nat \ {0} /\ Cardinality(Workers) \in Nat
    BY <1>1, AtIsFinite, CaptureAssumption, FS_CardinalityType DEF TypeOK
<1> SUFFICES /\ len' + appending' <= MaxQueries + Cardinality(Workers)
             /\ len' + appending' + timing' >= Minimum(MaxQueries, count')
    BY DEF Minimum
<1>3. CASE Quiet
    <2>1. appending' = appending /\ timing' = timing
        BY <1>3, QuietKeepsAt DEF Recording
    <2> QED
        BY <1>1, <1>3, <2>1 DEF Quiet, Minimum
<1>4. ASSUME NEW x \in Runners, Begins(x)
      PROVE  /\ len' = len /\ count' = count
             /\ appending' = appending /\ timing' = timing
    <2>1. PICK from \in {"run", "executing"} : Goto(x, from, "count")
        BY <1>4 DEF Begins
    <2> QED
        BY <1>1, <1>4, <2>1, AtMoves DEF Begins, context
<1>5. ASSUME NEW x \in Runners, CountQuery(x)
      PROVE  /\ len' = len /\ appending' = appending
             /\ IF _CURRENT_CONTEXT[x] = r THEN count' = count + 1 /\ timing' = timing + 1
                ELSE count' = count /\ timing' = timing
    <2>1. appending' = appending
        BY <1>1, <1>5, AtMoves DEF CountQuery
    <2>2. timing' = IF _CURRENT_CONTEXT[x] = r THEN timing + 1 ELSE timing
        BY <1>1, <1>5, AtMoves DEF CountQuery
    <2>3. count' = IF _CURRENT_CONTEXT[x] = r THEN count + 1 ELSE count
        BY <1>1, <1>5 DEF CountQuery, CountedTotal, TypeOK
    <2> QED
        BY <1>5, <2>1, <2>2, <2>3 DEF CountQuery
<1>6. ASSUME NEW x \in Runners, AddTime(x)
      PROVE  /\ len' = len /\ count' = count
             /\ IF _CURRENT_CONTEXT[x] = r
                THEN /\ timing' = timing - 1
                     /\ IF len < MaxQueries
                        THEN /\ appending' = appending + 1
                             /\ appending' <= Cardinality(Workers) + 1
                        ELSE appending' = appending
                ELSE timing' = timing /\ appending' = appending
             /\ timing' \in Nat
    <2> DEFINE to == IF Keeps(_CURRENT_CONTEXT[x]) THEN "append" ELSE "run"
    <2>1. Goto(x, "time", to) /\ UNCHANGED _CURRENT_CONTEXT /\ len' = len /\ count' = count
        BY <1>6 DEF AddTime
    <2>2. to \in {"append", "run"} /\ (to = "append" <=> Keeps(_CURRENT_CONTEXT[x]))
        OBVIOUS
    <2> HIDE DEF to
    <2>3. timing' = IF _CURRENT_CONTEXT[x] = r THEN timing - 1 ELSE timing
        BY <1>1, <2>1, <2>2, AtMoves
    <2>4. appending' = IF _CURRENT_CONTEXT[x] = r /\ to = "append" THEN appending + 1
                       ELSE appending
        BY <1>1, <2>1, <2>2, AtMoves
    <2> DEFINE crew == {y \in Runners : _CURRENT_CONTEXT[y] = r}
    <2>5. IsFiniteSet(crew) /\ Cardinality(crew) <= Cardinality(Workers) + 1
        BY CrewIsBounded
    <2>6. At(r, "append")' \subseteq crew
        BY <2>1 DEF At
    <2>7. IsFiniteSet(At(r, "append")') /\ Cardinality(At(r, "append")') <= Cardinality(crew)
        BY <2>5, <2>6, FS_Subset
    <2>8. Cardinality(crew) \in Nat /\ Cardinality(At(r, "append")') \in Nat
        BY <2>5, <2>7, FS_CardinalityType
    <2>9. appending' <= Cardinality(Workers) + 1
        BY <1>2, <2>5, <2>7, <2>8
    <2>10. At(r, "time")' \subseteq crew
        BY <2>1 DEF At
    <2>11. timing' \in Nat
        BY <2>5, <2>10, FS_Subset, FS_CardinalityType
    <2> QED
        BY <2>1, <2>2, <2>3, <2>4, <2>9, <2>11 DEF Keeps
<1>7. ASSUME NEW x \in Runners, AppendQuery(x)
      PROVE  /\ count' = count /\ timing' = timing
             /\ IF _CURRENT_CONTEXT[x] = r THEN len' = len + 1 /\ appending' = appending - 1
                ELSE len' = len /\ appending' = appending
    <2>1. timing' = timing
        BY <1>1, <1>7, AtMoves DEF AppendQuery
    <2>2. appending' = IF _CURRENT_CONTEXT[x] = r THEN appending - 1 ELSE appending
        BY <1>1, <1>7, AtMoves DEF AppendQuery
    <2>3. len' = IF _CURRENT_CONTEXT[x] = r THEN len + 1 ELSE len
        BY <1>1, <1>7 DEF AppendQuery, TypeOK
    <2> QED
        BY <1>7, <2>1, <2>2, <2>3 DEF AppendQuery
<1> HIDE DEF appending, timing, len, count
<1>8. CASE \E x \in Runners : Begins(x) \/ CountQuery(x) \/ AddTime(x) \/ AppendQuery(x)
    <2>1. PICK x \in Runners : Begins(x) \/ CountQuery(x) \/ AddTime(x) \/ AppendQuery(x)
        BY <1>8
    <2>2. CASE Begins(x)
        BY <1>1, <1>4, <2>2
    <2>3. CASE CountQuery(x)
        BY <1>1, <1>2, <1>5, <2>3 DEF Minimum
    <2>4. CASE AddTime(x)
        BY <1>1, <1>2, <1>6, <2>4 DEF Minimum
    <2>5. CASE AppendQuery(x)
        BY <1>1, <1>2, <1>7, <2>5 DEF Minimum
    <2> QED
        BY <2>1, <2>2, <2>3, <2>4, <2>5
<1> QED
    BY <1>1, <1>3, <1>8, StepIs

-----------------------------------------------------------------------------
(* The store *)

\* Every event that is kept keeps its place relative to the others.
LEMMA NewestShifts ==
    ASSUME NEW S, NEW s \in Seq(S)
    PROVE  /\ Len(Newest(s, Capacity)) <= Capacity
           /\ \E m \in Nat : \A k \in DOMAIN Newest(s, Capacity) :
                k \in Nat /\ k + m \in DOMAIN s /\ Newest(s, Capacity)[k] = s[k + m]
<1>1. Len(s) \in Nat /\ DOMAIN s = 1..Len(s) /\ Capacity \in Nat \ {0}
    BY CaptureAssumption
<1>2. CASE Len(s) <= Capacity
    <2>1. Newest(s, Capacity) = s /\ 0 \in Nat
        BY <1>2 DEF Newest
    <2>2. \A k \in DOMAIN s : k \in Nat /\ k + 0 = k
        BY <1>1
    <2> QED
        BY <1>2, <2>1, <2>2
<1>3. CASE ~(Len(s) <= Capacity)
    <2> DEFINE m == Len(s) - Capacity
    <2>1. m \in Nat /\ m + 1 <= Len(s) /\ Len(s) - (m + 1) + 1 = Capacity
        BY <1>1, <1>3
    <2>2. Newest(s, Capacity) = SubSeq(s, m + 1, Len(s))
        BY <1>3 DEF Newest
    <2> HIDE DEF m
    <2>3. /\ DOMAIN SubSeq(s, m + 1, Len(s)) = 1..(Len(s) - (m + 1) + 1)
          /\ Len(SubSeq(s, m + 1, Len(s))) = Len(s) - (m + 1) + 1
          /\ \A k \in 1..(Len(s) - (m + 1) + 1) :
                SubSeq(s, m + 1, Len(s))[k] = s[m + 1 + k - 1]
        BY <1>1, <2>1
    <2>4. \A k \in 1..Capacity : k \in Nat /\ k + m \in 1..Len(s) /\ m + 1 + k - 1 = k + m
        BY <1>1, <2>1
    <2>5. \A k \in DOMAIN Newest(s, Capacity) :
            k \in Nat /\ k + m \in DOMAIN s /\ Newest(s, Capacity)[k] = s[k + m]
        BY <1>1, <2>1, <2>2, <2>3, <2>4
    <2>6. Len(Newest(s, Capacity)) <= Capacity
        BY <1>1, <2>1, <2>2, <2>3
    <2> QED
        BY <2>1, <2>5, <2>6
<1> QED
    BY <1>2, <1>3

\* What _finalize_request makes of a request that RequestEvent accepts.
LEMMA EventIsSound ==
    ASSUME TypeOK, NEW r \in Requests, NEW total \in TotalsType,
           ValidEvent(status_code[r], _safe_normalize_queries(queries[r]), total)
    PROVE  LET ev == RequestEvent(r, _safe_normalize_queries(queries[r]), total) IN
           /\ ev.request_id = r
           /\ Len(ev.queries) <= MaxQueries
           /\ \A i \in DOMAIN ev.queries : ev.queries[i].sequence = i
           /\ ev.total_query_count >= Len(ev.queries)
<1> DEFINE qs == _safe_normalize_queries(queries[r])
           n == Minimum(Len(qs), MaxQueries)
           ev == RequestEvent(r, qs, total)
<1>1. queries[r] \in Seq(QueryType) /\ total.count \in Nat
    BY DEF TypeOK, TotalsType
<1>2. /\ qs = [i \in 1..Len(queries[r]) |-> [queries[r][i] EXCEPT !.sequence = i]]
      /\ Len(queries[r]) \in Nat
    BY <1>1 DEF _safe_normalize_queries
<1>3. \A i \in 1..Len(queries[r]) : qs[i].sequence = i
    <2>1. ASSUME NEW q \in QueryType, NEW i
          PROVE  [q EXCEPT !.sequence = i].sequence = i
        BY DEF QueryType
    <2>2. \A i \in 1..Len(queries[r]) : queries[r][i] \in QueryType
        BY <1>1
    <2> QED
        BY <1>2, <2>1, <2>2
<1>4. total.count >= Len(qs)
    BY DEF ValidEvent
<1>5. ev.queries = SubSeq(qs, 1, n) /\ ev.request_id = r /\ ev.total_query_count = total.count
    BY DEF RequestEvent
<1>6. Len(qs) = Len(queries[r])
    BY <1>2
<1> HIDE DEF qs, ev
<1>7. n \in Nat /\ n <= Len(qs) /\ n <= MaxQueries /\ MaxQueries \in Nat
    BY <1>2, <1>6, CaptureAssumption DEF Minimum
<1> HIDE DEF n
<1>8. /\ DOMAIN SubSeq(qs, 1, n) = 1..n /\ Len(SubSeq(qs, 1, n)) = n
      /\ \A i \in 1..n : SubSeq(qs, 1, n)[i] = qs[i]
    BY <1>7
<1>9. \A i \in 1..n : qs[i].sequence = i
    BY <1>2, <1>3, <1>6, <1>7
<1>10. /\ ev.request_id = r
       /\ Len(ev.queries) <= MaxQueries
       /\ \A i \in DOMAIN ev.queries : ev.queries[i].sequence = i
       /\ ev.total_query_count >= Len(ev.queries)
    <2>1. Len(qs) \in Nat
        BY <1>2, <1>6
    <2> QED
        BY <1>1, <1>4, <1>5, <1>7, <1>8, <1>9, <2>1
<1> QED
    BY <1>10 DEF ev, qs

LEMMA StoredStep ==
    TypeOK /\ TokensChain /\ CapturedOnce /\ StoredAreSound /\ [Next]_vars => StoredAreSound'
<1> SUFFICES ASSUME TypeOK, TokensChain, CapturedOnce, StoredAreSound, [Next]_vars
             PROVE  StoredAreSound'
    OBVIOUS
<1> USE DEF control, database, response, context
<1>1. CASE UNCHANGED <<store, phase>>
    BY <1>1 DEF StoredAreSound
<1>2. ASSUME NEW t \in Tasks, NEW r \in Requests, StartCapture(t, r)
      PROVE  StoredAreSound'
    <2>1. UNCHANGED store /\ phase[r] = "unused" /\ phase' = [phase EXCEPT ![r] = "open"]
        BY <1>2 DEF StartCapture
    <2>2. \A e \in DOMAIN store : phase'[store[e].request_id] = "ended"
        BY <2>1 DEF StoredAreSound, TypeOK
    <2> QED
        BY <2>1, <2>2 DEF StoredAreSound
<1>3. ASSUME NEW t \in Tasks, StoreEvent(t)
      PROVE  StoredAreSound'
    <2> DEFINE r == Top(t).request
               qs == _safe_normalize_queries(queries[r])
               ev == RequestEvent(r, qs, totals[t])
               s == Append(store, ev)
    <2>1. stack[t] # <<>>
        BY <1>3 DEF StoreEvent, Goto, TokensChain
    <2>2. r \in Requests /\ totals[t] \in TotalsType /\ phase[r] = "open"
        BY <2>1, TopIs DEF Top, TokensChain, Chained, CapturedOnce, TypeOK
    <2>3. phase' = [phase EXCEPT ![r] = "ended"]
        BY <1>3 DEF StoreEvent
    <2>4. store \in Seq(EventType) /\ ev \in EventType
        BY <2>2, EventOf DEF TypeOK
    <2>5. \A e \in DOMAIN store : /\ store[e].request_id # r
                                  /\ phase'[store[e].request_id] = "ended"
        BY <2>2, <2>3 DEF StoredAreSound, TypeOK
    <2>6. CASE store' = store
        BY <2>5, <2>6 DEF StoredAreSound
    <2>7. CASE ValidEvent(status_code[r], qs, totals[t]) /\ store' = Newest(s, Capacity)
        <3>1. /\ ev.request_id = r /\ phase'[r] = "ended"
              /\ Len(ev.queries) <= MaxQueries
              /\ \A i \in DOMAIN ev.queries : ev.queries[i].sequence = i
              /\ ev.total_query_count >= Len(ev.queries)
            BY <2>2, <2>3, <2>7, EventIsSound DEF TypeOK
        <3> HIDE DEF ev
        <3>2. /\ s \in Seq(EventType) /\ DOMAIN s = 1..Len(store) + 1 /\ Len(store) \in Nat
              /\ s[Len(store) + 1] = ev
              /\ \A j \in 1..Len(store) : j \in DOMAIN store /\ s[j] = store[j]
            BY <2>4
        <3> HIDE DEF s
        <3>3. \A e \in DOMAIN s :
                /\ phase'[s[e].request_id] = "ended"
                /\ Len(s[e].queries) <= MaxQueries
                /\ \A i \in DOMAIN s[e].queries : s[e].queries[i].sequence = i
                /\ s[e].total_query_count >= Len(s[e].queries)
            BY <2>5, <3>1, <3>2 DEF StoredAreSound
        <3>4. \A i, j \in DOMAIN s : s[i].request_id = s[j].request_id => i = j
            BY <2>5, <3>1, <3>2 DEF StoredAreSound, DistinctIds
        <3>5. PICK m \in Nat : \A k \in DOMAIN store' :
                k \in Nat /\ k + m \in DOMAIN s /\ store'[k] = s[k + m]
            BY <2>7, <3>2, NewestShifts
        <3>6. Len(store') <= Capacity
            BY <2>7, <3>2, NewestShifts
        <3>7. ASSUME NEW i \in DOMAIN store', NEW j \in DOMAIN store',
                     store'[i].request_id = store'[j].request_id
              PROVE  i = j
            <4>1. i + m = j + m
                BY <3>4, <3>5, <3>7
            <4> QED
                BY <3>5, <4>1
        <3>8. DistinctIds(store')
            BY <3>7 DEF DistinctIds
        <3> QED
            BY <3>3, <3>5, <3>6, <3>8 DEF StoredAreSound, DistinctIds
    <2> QED
        BY <1>3, <2>6, <2>7 DEF StoreEvent
<1>4. ASSUME NEW x \in Runners, Hooks(x)
      PROVE  UNCHANGED <<store, phase>>
    BY <1>4 DEF Hooks, BeforeCursorExecute, AfterCursorExecute, ExecuteFails, FetchFails,
                ErrorOfExecution, ConnectionFails, Unrecorded, CountQuery, AddTime, AppendQuery
<1>5. ASSUME NEW t \in Tasks,
             \/ \E c \in Statuses : SendResponseStart(t, c)
             \/ \E w \in Workers : Spawn(t, w)
             \/ \E o \in Outcomes, c \in Statuses : AppEnds(t, o, c)
             \/ ReadTotals(t)
      PROVE  UNCHANGED <<store, phase>>
    BY <1>5 DEF SendResponseStart, Spawn, AppEnds, ReadTotals
<1>6. ASSUME NEW w \in Workers, WorkerEnds(w)
      PROVE  UNCHANGED <<store, phase>>
    BY <1>6 DEF WorkerEnds
<1>7. CASE UNCHANGED vars
    BY <1>1, <1>7 DEF vars
<1> QED
    BY <1>1, <1>2, <1>3, <1>4, <1>5, <1>6, <1>7 DEF Next

-----------------------------------------------------------------------------
(* The specification *)

LEMMA InitCount == Init => CountInv
<1> SUFFICES ASSUME Init
             PROVE  CountInv
    OBVIOUS
<1>1. IInv
    BY InitInv
<1>2. CapturedOnce
    BY DEF Init, CapturedOnce
<1>3. \A r \in Requests : \A l \in Recording : Cardinality(At(r, l)) = 0
    <2>1. \A r \in Requests : \A l \in Recording : At(r, l) = {}
        BY DEF Init, At, Recording
    <2> QED
        BY <2>1, FS_EmptySet
<1>4. Cardinality(Workers) \in Nat /\ MaxQueries \in Nat
    BY CaptureAssumption, FS_CardinalityType
<1>5. ASSUME NEW r \in Requests
      PROVE  /\ Cardinality(At(r, "count")) = 0
             /\ Cardinality(At(r, "time")) = 0
             /\ Cardinality(At(r, "append")) = 0
             /\ total_query_count[r] = 0 /\ observed[r] = 0 /\ Len(queries[r]) = 0
    BY <1>3 DEF Init, Recording
<1>6. CountIsExact /\ KeptIsBounded
    BY <1>4, <1>5 DEF CountIsExact, KeptIsBounded, Minimum
<1>7. StoredAreSound
    BY CaptureAssumption DEF Init, StoredAreSound, DistinctIds
<1> QED
    BY <1>1, <1>2, <1>6, <1>7 DEF CountInv

LEMMA CountInvStep == CountInv /\ [Next]_vars => CountInv'
<1> SUFFICES ASSUME CountInv, [Next]_vars
             PROVE  CountInv'
    OBVIOUS
<1>1. IInv'
    BY TypeStep, TokensStep, ContextStep, RecordsStep, OwnStep DEF CountInv, IInv
<1>2. CapturedOnce'
    BY OnceStep DEF CountInv, IInv
<1>3. CountIsExact' /\ KeptIsBounded'
    BY CountStep, KeptStep DEF CountInv
<1>4. StoredAreSound'
    BY StoredStep DEF CountInv, IInv
<1> QED
    BY <1>1, <1>2, <1>3, <1>4 DEF CountInv

\* The inductive invariant: whose context a runner works in, which task a
\* request belongs to, and from these what is counted, kept and stored
\* (context.py:110-119, middleware.py:208-214, 249-277).
THEOREM CountsInductive == Spec => []CountInv
BY InitCount, CountInvStep, PTL DEF Spec

\* However many threads record into a request at once, no query escapes its
\* count (context.py:112).
THEOREM EveryQueryCounts == Spec => []CountIsExact
<1>1. CountInv => CountIsExact
    BY DEF CountInv
<1> QED
    BY CountsInductive, <1>1, PTL

\* The unlocked check of the limit lets the list of kept queries grow past it
\* by at most one query per worker, and never leaves it short while queries are
\* counted (context.py:118-119).
THEOREM KeptQueriesAreBounded == Spec => []KeptIsBounded
<1>1. CountInv => KeptIsBounded
    BY DEF CountInv
<1> QED
    BY CountsInductive, <1>1, PTL

\* Whatever threads, errors and cancellations a request met, the store holds at
\* most one event of it, once it has ended, with its queries cut and numbered
\* as readers expect them (middleware.py:86-96, privacy.py:310-321).
THEOREM StoredEventsAreSound == Spec => []StoredAreSound
<1>1. CountInv => StoredAreSound
    BY DEF CountInv
<1> QED
    BY CountsInductive, <1>1, PTL
=============================================================================
