-------------------------- MODULE RingBufferProofs --------------------------
(* Proofs about RingBuffer for every capacity and every set of threads,     *)
(* ids and bodies: the inductive invariant IInv, the invariants the runs    *)
(* check, and that the buffer implements EventLog.                          *)
EXTENDS RingBuffer, TLAPS

-----------------------------------------------------------------------------
(* The operations and sequences of events *)

\* The operation named "add" carries an event.
LEMMA AddOpEvent ==
    ASSUME NEW o \in {NoOp} \cup Ops, o.name = "add"
    PROVE  o.event \in Events
BY DEF Ops, NoOp, AddOps, ViewOps, GetOps, PlainOps

\* The operation named "latest_view" carries a limit.
LEMMA ViewOpLimit ==
    ASSUME NEW o \in {NoOp} \cup Ops, o.name = "latest_view"
    PROVE  o.limit \in {NoLimit} \cup 0..MaxLimit
BY DEF Ops, NoOp, AddOps, ViewOps, GetOps, PlainOps

\* The newest events of the deque, newest first, are a sequence of events.
LEMMA LatestFirstType ==
    ASSUME NEW s \in Seq(Events), NEW n \in Nat
    PROVE  LatestFirst(s, n) \in Seq(Events)
<1> DEFINE k == Minimum(n, Len(s))
<1>1. k \in Nat /\ k <= Len(s)
    BY DEF Minimum
<1>2. \A i \in 1..k : s[Len(s) - i + 1] \in Events
    BY <1>1
<1>3. LatestFirst(s, n) = [i \in 1..k |-> s[Len(s) - i + 1]]
    BY DEF LatestFirst
<1> HIDE DEF k
<1>4. [i \in 1..k |-> s[Len(s) - i + 1]] \in [1..k -> Events]
    BY <1>2
<1> QED
    BY <1>1, <1>3, <1>4

\* A limit a caller passes resolves to a number of events.
LEMMA ResolvedLimit ==
    ASSUME NEW l \in {NoLimit} \cup 0..MaxLimit
    PROVE  _resolve_limit(l) \in Nat /\ _resolve_limit(l) <= Capacity
BY StoreAssumption DEF _resolve_limit, NoLimit, Minimum

\* Appending an event whose id is new keeps the ids different.
LEMMA AppendDistinct ==
    ASSUME NEW s \in Seq(Events), NEW e \in Events,
           DistinctIds(s), e.request_id \notin IdsOf(s)
    PROVE  DistinctIds(Append(s, e))
<1>1. DOMAIN Append(s, e) = 1..(Len(s) + 1) /\ DOMAIN s = 1..Len(s)
    OBVIOUS
<1>2. \A i \in 1..Len(s) : Append(s, e)[i] = s[i]
    OBVIOUS
<1>3. Append(s, e)[Len(s) + 1] = e
    OBVIOUS
<1> QED
    BY <1>1, <1>2, <1>3 DEF DistinctIds, IdsOf

\* Dropping the oldest event keeps the ids different.
LEMMA TailDistinct ==
    ASSUME NEW s \in Seq(Events), s # <<>>, DistinctIds(s)
    PROVE  /\ DistinctIds(Tail(s))
           /\ \A i \in 1..Len(Tail(s)) : Tail(s)[i].request_id # Head(s).request_id
<1>1. /\ Len(s) \in Nat \ {0} /\ Head(s) = s[1]
      /\ DOMAIN Tail(s) = 1..(Len(s) - 1) /\ DOMAIN s = 1..Len(s)
      /\ Len(Tail(s)) = Len(s) - 1
    OBVIOUS
<1>2. \A i \in 1..(Len(s) - 1) : Tail(s)[i] = s[i + 1]
    OBVIOUS
<1>3. \A i \in 1..(Len(s) - 1) : i + 1 \in 1..Len(s) /\ i + 1 # 1
    BY <1>1
<1> QED
    BY <1>1, <1>2, <1>3 DEF DistinctIds

-----------------------------------------------------------------------------
(* The answers *)

\* Whatever a method reads or raises is a result.
LEMMA ResultTypes ==
    /\ NoResult \in Results
    /\ \A e \in {"TypeError", "ValueError"} : ErrorResult(e) \in Results
    /\ \A e \in Events : EventResult(e) \in Results
    /\ \A q \in Seq(Events) : ViewResult(q) \in Results
    /\ \A n \in Nat : SizeResult(n) \in Results
BY DEF Results, NoResult, ErrorResult, EventResult, ViewResult, SizeResult

\* A rejection is a result.
LEMMA RejectionType == \A o : Rejection(o) \in Results
BY ResultTypes DEF Rejection

-----------------------------------------------------------------------------
(* The inductive invariant *)

LEMMA InitInv == Init => IInv
<1> SUFFICES ASSUME Init PROVE IInv
    OBVIOUS
<1> USE DEF Init
<1>1. TypeOK
    BY ThreadAssumption, ResultTypes DEF TypeOK, PCs, NoEntries
<1>2. Exclusive
    BY ThreadAssumption DEF Exclusive, Holding, PCs
<1>3. InMethod
    BY DEF InMethod, Holding, PCs
<1>4. Bounded /\ DistinctIds(_events)
    BY StoreAssumption DEF Bounded, DistinctIds
<1>5. Indexed
    BY DEF Indexed, IndexesFirst, NoEntries
<1> QED
    BY <1>1, <1>2, <1>3, <1>4, <1>5 DEF IInv

\* A step of the program counter of one thread leaves the others in place.
LEMMA GotoOnly ==
    ASSUME TypeOK, NEW t \in Threads, NEW from, NEW to, Goto(t, from, to)
    PROVE  /\ pc[t] = from /\ pc'[t] = to
           /\ \A u \in Threads \ {t} : pc'[u] = pc[u]
           /\ to \in PCs => pc' \in [Threads -> PCs]
BY DEF Goto, TypeOK

LEMMA TypeStep == TypeOK /\ Exclusive /\ InMethod /\ Indexed /\ [Next]_vars => TypeOK'
<1> SUFFICES ASSUME TypeOK, Exclusive, InMethod, Indexed, [Next]_vars PROVE TypeOK'
    OBVIOUS
<1> USE DEF buffer, PCs
<1>1. CASE UNCHANGED vars
    BY <1>1 DEF TypeOK, vars
<1>2. ASSUME NEW t \in Threads, Call(t) PROVE TypeOK'
    BY <1>2, GotoOnly DEF Call, TypeOK
<1>3. ASSUME NEW t \in Threads, Reject(t) PROVE TypeOK'
    <2>1. pc' \in [Threads -> PCs]
        BY <1>3, GotoOnly DEF Reject
    <2> QED
        BY <1>3, <2>1, RejectionType DEF Reject, TypeOK
<1>4. ASSUME NEW t \in Threads, Acquire(t) PROVE TypeOK'
    <2>1. op[t].name \in PCs
        BY <1>4 DEF Acquire, LockFree, InMethod, Goto, Rejected, Ops, AddOps, ViewOps, GetOps, PlainOps
    <2>2. pc' \in [Threads -> PCs]
        BY <1>4, <2>1, GotoOnly DEF Acquire, LockFree
    <2> QED
        BY <1>4, <2>2 DEF Acquire, LockFree, TypeOK
<1>5. ASSUME NEW t \in Threads, Release(t) PROVE TypeOK'
    BY <1>5, GotoOnly DEF Release, TypeOK
<1>6. ASSUME NEW t \in Threads, Return(t) PROVE TypeOK'
    BY <1>6, GotoOnly, ResultTypes DEF Return, TypeOK
<1>7. ASSUME NEW t \in Threads, RefuseDuplicate(t) PROVE TypeOK'
    BY <1>7, GotoOnly, ResultTypes DEF RefuseDuplicate, IsDuplicate, TypeOK
<1>8. ASSUME NEW t \in Threads, AppendEvent(t) PROVE TypeOK'
    <2>1. op[t].event \in Events
        BY <1>8, AddOpEvent DEF AppendEvent, IsDuplicate, Goto, InMethod, TypeOK
    <2> QED
        BY <1>8, <2>1, GotoOnly DEF AppendEvent, IsDuplicate, TypeOK
<1>9. ASSUME NEW t \in Threads, IndexEvent(t) PROVE TypeOK'
    <2>1. op[t].event \in Events
        BY <1>9, AddOpEvent DEF IndexEvent, Goto, InMethod, TypeOK
    <2>2. op[t].event.request_id \in RequestIds
        BY <2>1 DEF Events
    <2> QED
        BY <1>9, <2>1, <2>2, GotoOnly DEF IndexEvent, TypeOK
<1>10. ASSUME NEW t \in Threads, EvictOldest(t) PROVE TypeOK'
    <2>1. _events # <<>>
        BY <1>10 DEF EvictOldest, IndexWithout, Goto, Indexed
    <2>2. _events' \in Seq(Events)
        BY <1>10, <2>1 DEF EvictOldest, IndexWithout, TypeOK
    <2> QED
        BY <1>10, <2>2, GotoOnly DEF EvictOldest, IndexWithout, TypeOK, Restrict
<1>11. ASSUME NEW t \in Threads, KeepAll(t) PROVE TypeOK'
    BY <1>11, GotoOnly DEF KeepAll, TypeOK
<1>12. ASSUME NEW t \in Threads, ReadLatest(t) PROVE TypeOK'
    <2>1. ViewResult(LatestFirst(_events, _resolve_limit(op[t].limit))) \in Results
        BY <1>12, ViewOpLimit, ResolvedLimit, LatestFirstType, ResultTypes
           DEF ReadLatest, Goto, InMethod, TypeOK
    <2> QED
        BY <1>12, <2>1, GotoOnly DEF ReadLatest, TypeOK
<1>13. ASSUME NEW t \in Threads, ReadById(t) PROVE TypeOK'
    <2>1. LookUp(op[t].request_id) \in Results
        BY ResultTypes DEF LookUp, TypeOK
    <2> QED
        BY <1>13, <2>1, GotoOnly DEF ReadById, TypeOK
<1>14. ASSUME NEW t \in Threads, ReadSize(t) PROVE TypeOK'
    <2>1. SizeResult(Len(_events)) \in Results
        BY ResultTypes DEF TypeOK
    <2> QED
        BY <1>14, <2>1, GotoOnly DEF ReadSize, TypeOK
<1>15. ASSUME NEW t \in Threads, ClearEvents(t) PROVE TypeOK'
    BY <1>15, GotoOnly DEF ClearEvents, TypeOK
<1>16. ASSUME NEW t \in Threads, ClearIndex(t) PROVE TypeOK'
    BY <1>16, GotoOnly DEF ClearIndex, TypeOK, NoEntries
<1> QED
    BY <1>1, <1>2, <1>3, <1>4, <1>5, <1>6, <1>7, <1>8, <1>9, <1>10, <1>11, <1>12,
       <1>13, <1>14, <1>15, <1>16 DEF Next, Step

\* Every statement keeps the lock exclusive and stays in its method.
LEMMA ControlStep ==
    TypeOK /\ Exclusive /\ InMethod /\ [Next]_vars => Exclusive' /\ InMethod'
<1> SUFFICES ASSUME TypeOK, Exclusive, InMethod, [Next]_vars
             PROVE  Exclusive' /\ InMethod'
    OBVIOUS
<1> USE ThreadAssumption DEF TypeOK, PCs, Holding, Exclusive, InMethod, Goto, Rejected
<1>1. CASE UNCHANGED vars
    BY <1>1 DEF vars
<1>2. ASSUME NEW t \in Threads, Call(t) PROVE Exclusive' /\ InMethod'
    BY <1>2 DEF Call
<1>3. ASSUME NEW t \in Threads, Reject(t) PROVE Exclusive' /\ InMethod'
    BY <1>3 DEF Reject
<1>4. ASSUME NEW t \in Threads, Acquire(t) PROVE Exclusive' /\ InMethod'
    BY <1>4 DEF Acquire, LockFree, Ops, NoOp, AddOps, ViewOps, GetOps, PlainOps
<1>5. ASSUME NEW t \in Threads, Release(t) PROVE Exclusive' /\ InMethod'
    BY <1>5 DEF Release
<1>6. ASSUME NEW t \in Threads, Return(t) PROVE Exclusive' /\ InMethod'
    BY <1>6 DEF Return
<1>7. ASSUME NEW t \in Threads, RefuseDuplicate(t) PROVE Exclusive' /\ InMethod'
    BY <1>7 DEF RefuseDuplicate, IsDuplicate
<1>8. ASSUME NEW t \in Threads, AppendEvent(t) PROVE Exclusive' /\ InMethod'
    BY <1>8 DEF AppendEvent, IsDuplicate
<1>9. ASSUME NEW t \in Threads, IndexEvent(t) PROVE Exclusive' /\ InMethod'
    BY <1>9 DEF IndexEvent
<1>10. ASSUME NEW t \in Threads, EvictOldest(t) PROVE Exclusive' /\ InMethod'
    BY <1>10 DEF EvictOldest, IndexWithout
<1>11. ASSUME NEW t \in Threads, KeepAll(t) PROVE Exclusive' /\ InMethod'
    BY <1>11 DEF KeepAll
<1>12. ASSUME NEW t \in Threads, ReadLatest(t) PROVE Exclusive' /\ InMethod'
    BY <1>12 DEF ReadLatest
<1>13. ASSUME NEW t \in Threads, ReadById(t) PROVE Exclusive' /\ InMethod'
    BY <1>13 DEF ReadById
<1>14. ASSUME NEW t \in Threads, ReadSize(t) PROVE Exclusive' /\ InMethod'
    BY <1>14 DEF ReadSize
<1>15. ASSUME NEW t \in Threads, ClearEvents(t) PROVE Exclusive' /\ InMethod'
    BY <1>15 DEF ClearEvents
<1>16. ASSUME NEW t \in Threads, ClearIndex(t) PROVE Exclusive' /\ InMethod'
    BY <1>16 DEF ClearIndex
<1> QED
    BY <1>1, <1>2, <1>3, <1>4, <1>5, <1>6, <1>7, <1>8, <1>9, <1>10, <1>11, <1>12, <1>13, <1>14, <1>15, <1>16 DEF Next, Step

\* While one thread is inside a with block no other thread is.
LEMMA Alone ==
    ASSUME Exclusive, NEW t \in Threads, pc[t] \in Holding
    PROVE  \A u \in Threads \ {t} : pc[u] \notin Holding
BY DEF Exclusive

\* A step that touches neither the deque nor the dict, and neither enters nor
\* leaves the statements between their updates, keeps them in step.
LEMMA UntouchedData ==
    ASSUME IInv, NEW t \in Threads, UNCHANGED <<buffer, op>>,
           NEW from, NEW to, Goto(t, from, to),
           from \notin {"index", "clear_index", "trim"},
           to \notin {"index", "clear_index", "trim"}
    PROVE  Bounded' /\ DistinctIds(_events)' /\ Indexed'
<1>1. /\ pc[t] = from /\ pc'[t] = to
      /\ \A u \in Threads \ {t} : pc'[u] = pc[u]
    BY GotoOnly DEF IInv
<1>2. UNCHANGED <<_events, _events_by_request_id, op>>
    BY DEF buffer
<1>3. \A n : IndexesFirst(n)' <=> IndexesFirst(n)
    BY <1>2 DEF IndexesFirst
<1>4. Bounded'
    BY <1>1, <1>2 DEF IInv, Bounded
<1>5. DistinctIds(_events)'
    BY <1>2 DEF IInv, DistinctIds
<1>6. Indexed'
    BY <1>1, <1>2, <1>3 DEF IInv, Indexed
<1> QED
    BY <1>4, <1>5, <1>6

LEMMA DataStep == IInv /\ [Next]_vars => Bounded' /\ DistinctIds(_events)' /\ Indexed'
<1> SUFFICES ASSUME IInv, [Next]_vars
             PROVE  Bounded' /\ DistinctIds(_events)' /\ Indexed'
    OBVIOUS
<1> DEFINE Goal == Bounded' /\ DistinctIds(_events)' /\ Indexed'
<1>1. CASE UNCHANGED vars
    <2>1. UNCHANGED <<_events, _events_by_request_id, pc, op>>
        BY <1>1 DEF vars
    <2>2. \A n : IndexesFirst(n)' <=> IndexesFirst(n)
        BY <2>1 DEF IndexesFirst
    <2> QED
        BY <2>1, <2>2 DEF IInv, Bounded, DistinctIds, Indexed
<1>2. ASSUME NEW t \in Threads, Call(t) PROVE Goal
    <2>1. /\ pc[t] = "idle" /\ pc'[t] = "enter"
          /\ \A u \in Threads \ {t} : pc'[u] = pc[u] /\ op'[u] = op[u]
          /\ UNCHANGED <<_events, _events_by_request_id>>
        BY <1>2, GotoOnly DEF Call, IInv, TypeOK, buffer
    <2>2. \A n : IndexesFirst(n)' <=> IndexesFirst(n)
        BY <2>1 DEF IndexesFirst
    <2> QED
        BY <2>1, <2>2 DEF IInv, Bounded, DistinctIds, Indexed
<1>3. ASSUME NEW t \in Threads, Reject(t) PROVE Goal
    BY <1>3, UntouchedData DEF Reject
<1>4. ASSUME NEW t \in Threads, Acquire(t) PROVE Goal
    <2>1. op[t].name \notin {"index", "clear_index", "trim"}
        BY <1>4 DEF Acquire, LockFree, Goto, IInv, InMethod, Ops, AddOps, ViewOps, GetOps, PlainOps
    <2> QED
        BY <1>4, <2>1, UntouchedData DEF Acquire, LockFree
<1>5. ASSUME NEW t \in Threads, Release(t) PROVE Goal
    BY <1>5, UntouchedData DEF Release
<1>6. ASSUME NEW t \in Threads, Return(t) PROVE Goal
    <2>1. /\ pc[t] = "return" /\ pc'[t] = "idle"
          /\ \A u \in Threads \ {t} : pc'[u] = pc[u] /\ op'[u] = op[u]
          /\ UNCHANGED <<_events, _events_by_request_id>>
        BY <1>6, GotoOnly DEF Return, IInv, TypeOK, buffer
    <2>2. \A n : IndexesFirst(n)' <=> IndexesFirst(n)
        BY <2>1 DEF IndexesFirst
    <2> QED
        BY <2>1, <2>2 DEF IInv, Bounded, DistinctIds, Indexed
<1>7. ASSUME NEW t \in Threads, RefuseDuplicate(t) PROVE Goal
    BY <1>7, UntouchedData DEF RefuseDuplicate, IsDuplicate
<1>8. ASSUME NEW t \in Threads, AppendEvent(t) PROVE Goal
    <2> DEFINE e == op[t].event
    <2> PICK n \in Nat : n = Len(_events)
        BY DEF IInv, TypeOK
    <2>1. /\ pc[t] = "add" /\ pc'[t] = "index"
          /\ \A u \in Threads \ {t} : pc'[u] = pc[u] /\ pc[u] \notin Holding
          /\ e \in Events /\ _events \in Seq(Events)
        BY <1>8, GotoOnly, Alone, AddOpEvent
           DEF AppendEvent, IsDuplicate, IInv, InMethod, Goto, Holding, PCs, TypeOK
    <2>2. IndexesFirst(n) /\ n <= Capacity
        BY <2>1, StoreAssumption DEF IInv, Indexed, Bounded, Holding, PCs
    <2>3. /\ _events' = Append(_events, e) /\ Len(_events') = n + 1
          /\ \A i \in 1..n : _events'[i] = _events[i]
          /\ _events'[n + 1] = e
          /\ UNCHANGED <<_events_by_request_id, op>>
        BY <1>8, <2>1 DEF AppendEvent, IsDuplicate
    <2>4. IndexesFirst(n)'
        BY <2>2, <2>3 DEF IndexesFirst
    <2>5. DistinctIds(_events')
        BY <1>8, <2>1, <2>2, <2>3, AppendDistinct
           DEF AppendEvent, IsDuplicate, IndexesFirst, IdsOf, IInv
    <2>6. Bounded'
        BY <2>1, <2>2, <2>3, StoreAssumption DEF Bounded
    <2>7. Indexed'
        BY <2>1, <2>3, <2>4 DEF Indexed, Holding, PCs
    <2> QED
        BY <2>5, <2>6, <2>7
<1>9. ASSUME NEW t \in Threads, IndexEvent(t) PROVE Goal
    <2> DEFINE e == op[t].event
               n == Len(_events)
    <2>1. /\ pc[t] = "index" /\ pc'[t] = "trim"
          /\ \A u \in Threads \ {t} : pc'[u] = pc[u] /\ pc[u] \notin Holding
          /\ _events \in Seq(Events)
        BY <1>9, GotoOnly, Alone DEF IndexEvent, IInv, Goto, Holding, PCs, TypeOK
    <2>2. /\ n \in Nat \ {0} /\ _events # <<>> /\ _events[n] = e
          /\ IndexesFirst(n - 1) /\ DistinctIds(_events)
        BY <2>1 DEF IInv, Indexed
    <2>3. /\ UNCHANGED <<_events, op>>
          /\ DOMAIN _events_by_request_id' = DOMAIN _events_by_request_id \cup {e.request_id}
          /\ _events_by_request_id'[e.request_id] = e
          /\ \A id \in DOMAIN _events_by_request_id \ {e.request_id} :
                 _events_by_request_id'[id] = _events_by_request_id[id]
        BY <1>9 DEF IndexEvent
    <2>4. \A i \in 1..(n - 1) : _events[i].request_id # e.request_id
        BY <2>1, <2>2 DEF DistinctIds
    <2>5. IndexesFirst(n)'
        <3>1. DOMAIN _events_by_request_id' = {_events[i].request_id : i \in 1..n}
            <4>1. 1..n = (1..(n - 1)) \cup {n}
                BY <2>2
            <4> QED
                BY <2>2, <2>3, <4>1 DEF IndexesFirst
        <3>2. ASSUME NEW i \in 1..n
              PROVE  _events_by_request_id'[_events[i].request_id] = _events[i]
            <4>1. CASE i = n
                BY <2>2, <2>3, <4>1
            <4>2. CASE i \in 1..(n - 1)
                BY <2>2, <2>3, <2>4, <4>2 DEF IndexesFirst
            <4> QED
                BY <2>2, <4>1, <4>2
        <3> QED
            BY <2>3, <3>1, <3>2 DEF IndexesFirst
    <2>6. Bounded' /\ DistinctIds(_events)'
        BY <2>1, <2>2, <2>3 DEF IInv, Bounded
    <2>7. Indexed'
        BY <2>1, <2>2, <2>3, <2>5 DEF Indexed, Holding, PCs
    <2> QED
        BY <2>6, <2>7
<1>10. ASSUME NEW t \in Threads, EvictOldest(t) PROVE Goal
    <2> DEFINE n == Len(_events)
               gone == Head(_events).request_id
    <2>1. /\ pc[t] = "trim" /\ pc'[t] = "release"
          /\ \A u \in Threads \ {t} : pc'[u] = pc[u] /\ pc[u] \notin Holding
          /\ _events \in Seq(Events)
        BY <1>10, GotoOnly, Alone DEF EvictOldest, IndexWithout, IInv, Goto, Holding, PCs, TypeOK
    <2>2. /\ _events # <<>> /\ n = Capacity + 1 /\ IndexesFirst(n) /\ DistinctIds(_events)
        BY <1>10, <2>1, StoreAssumption
           DEF EvictOldest, IndexWithout, IInv, Indexed, Bounded, Holding, PCs
    <2>3. /\ _events' = Tail(_events) /\ Len(_events') = Capacity
          /\ \A i \in 1..Capacity : _events'[i] = _events[i + 1]
          /\ _events[1].request_id = gone
          /\ DOMAIN _events_by_request_id' = DOMAIN _events_by_request_id \ {gone}
          /\ \A id \in DOMAIN _events_by_request_id \ {gone} :
                 _events_by_request_id'[id] = _events_by_request_id[id]
        BY <1>10, <2>1, <2>2, StoreAssumption DEF EvictOldest, IndexWithout, Restrict
    <2>4. /\ DistinctIds(_events')
          /\ \A i \in 1..Capacity : _events'[i].request_id # gone
        BY <2>1, <2>2, <2>3, TailDistinct
    <2>5. IndexesFirst(Capacity)'
        <3>1. \A i \in 1..Capacity : i + 1 \in 1..n
            BY <2>2, StoreAssumption
        <3>2. \A i \in 1..n : i = 1 \/ i - 1 \in 1..Capacity
            BY <2>2, StoreAssumption
        <3>3. \A i \in 1..n : i # 1 => _events[i] = _events'[i - 1]
            BY <2>3, <3>2
        <3>4. ASSUME NEW i \in 1..Capacity
              PROVE  /\ _events_by_request_id'[_events'[i].request_id] = _events'[i]
                     /\ _events'[i].request_id \in DOMAIN _events_by_request_id'
            <4>1. /\ i + 1 \in 1..n /\ _events'[i] = _events[i + 1]
                  /\ _events'[i].request_id # gone
                BY <2>3, <2>4, <3>1
            <4>2. /\ _events[i + 1].request_id \in DOMAIN _events_by_request_id
                  /\ _events_by_request_id[_events[i + 1].request_id] = _events[i + 1]
                BY <2>2, <4>1 DEF IndexesFirst
            <4> QED
                BY <2>3, <4>1, <4>2
        <3>5. DOMAIN _events_by_request_id' \subseteq {_events'[i].request_id : i \in 1..Capacity}
            BY <2>2, <2>3, <3>2, <3>3 DEF IndexesFirst
        <3>6. {_events'[i].request_id : i \in 1..Capacity} \subseteq DOMAIN _events_by_request_id'
            BY <3>4
        <3> QED
            BY <3>4, <3>5, <3>6 DEF IndexesFirst
    <2>6. Bounded'
        BY <2>3, StoreAssumption DEF Bounded
    <2>7. Indexed'
        BY <2>1, <2>3, <2>5 DEF Indexed, Holding, PCs
    <2> QED
        BY <2>4, <2>6, <2>7
<1>11. ASSUME NEW t \in Threads, KeepAll(t) PROVE Goal
    <2>1. /\ pc[t] = "trim" /\ pc'[t] = "release"
          /\ \A u \in Threads \ {t} : pc'[u] = pc[u]
          /\ UNCHANGED <<_events, _events_by_request_id, op>>
          /\ Len(_events) <= Capacity /\ Len(_events) \in Nat
        BY <1>11, GotoOnly DEF KeepAll, IInv, TypeOK, buffer
    <2>2. \A n : IndexesFirst(n)' <=> IndexesFirst(n)
        BY <2>1 DEF IndexesFirst
    <2> QED
        BY <2>1, <2>2, StoreAssumption DEF IInv, Bounded, DistinctIds, Indexed
<1>12. ASSUME NEW t \in Threads, ReadLatest(t) PROVE Goal
    BY <1>12, UntouchedData DEF ReadLatest
<1>13. ASSUME NEW t \in Threads, ReadById(t) PROVE Goal
    BY <1>13, UntouchedData DEF ReadById
<1>14. ASSUME NEW t \in Threads, ReadSize(t) PROVE Goal
    BY <1>14, UntouchedData DEF ReadSize
<1>15. ASSUME NEW t \in Threads, ClearEvents(t) PROVE Goal
    <2>1. /\ pc'[t] = "clear_index" /\ _events' = <<>>
          /\ \A u \in Threads \ {t} : pc'[u] = pc[u] /\ pc[u] \notin Holding
        BY <1>15, GotoOnly, Alone DEF ClearEvents, IInv, Goto, Holding, PCs
    <2> QED
        BY <2>1, StoreAssumption DEF Bounded, DistinctIds, Indexed, Holding, PCs
<1>16. ASSUME NEW t \in Threads, ClearIndex(t) PROVE Goal
    <2>1. /\ pc'[t] = "release" /\ _events' = <<>> /\ _events_by_request_id' = NoEntries
          /\ \A u \in Threads \ {t} : pc'[u] = pc[u] /\ pc[u] \notin Holding
        BY <1>16, GotoOnly, Alone DEF ClearIndex, IInv, Indexed, Goto, Holding, PCs
    <2> QED
        BY <2>1, StoreAssumption
           DEF Bounded, DistinctIds, Indexed, IndexesFirst, NoEntries, Holding, PCs
<1> QED
    BY <1>1, <1>2, <1>3, <1>4, <1>5, <1>6, <1>7, <1>8, <1>9, <1>10, <1>11, <1>12,
       <1>13, <1>14, <1>15, <1>16 DEF Next, Step

\* IInv holds in every reachable state of the buffer.
THEOREM Inductive == Spec => []IInv
<1>1. IInv /\ [Next]_vars => IInv'
    BY TypeStep, ControlStep, DataStep DEF IInv
<1> QED
    BY InitInv, <1>1, PTL DEF Spec

\* Type correctness of every reachable state.
THEOREM TypeCorrect == Spec => []TypeOK
<1>1. IInv => TypeOK
    BY DEF IInv
<1> QED
    BY Inductive, <1>1, PTL

-----------------------------------------------------------------------------
(* The deque and the dict *)

\* Whenever the lock is free, the deque is bounded by the capacity, free of
\* duplicate ids, and indexed exactly by the dict.
THEOREM ConsistentWhenFree == Spec => []Consistent
<1>1. IInv => Consistent
    <2> SUFFICES ASSUME IInv, _lock = NoThread
                 PROVE  /\ Len(_events) <= Capacity
                        /\ DistinctIds(_events)
                        /\ IndexesFirst(Len(_events))
        BY DEF Consistent
    <2>1. \A t \in Threads : pc[t] \notin Holding
        BY ThreadAssumption DEF IInv, Exclusive
    <2>2. Len(_events) \in Nat
        BY DEF IInv, TypeOK
    <2> QED
        BY <2>1, <2>2, StoreAssumption DEF IInv, Bounded, Indexed, Holding, PCs
<1> QED
    BY Inductive, <1>1, PTL

\* The id an add is about to evict is always in the dict: no KeyError.
THEOREM EvictionNeverFails == Spec => []EvictedIsIndexed
<1>1. IInv => EvictedIsIndexed
    <2> SUFFICES ASSUME IInv, NEW t \in Threads, pc[t] = "trim"
                 PROVE  Head(_events).request_id \in DOMAIN _events_by_request_id
        BY DEF EvictedIsIndexed
    <2>1. \A u \in Threads \ {t} : pc[u] \notin Holding
        BY Alone DEF IInv, Holding, PCs
    <2>2. IndexesFirst(Len(_events)) /\ _events # <<>> /\ _events \in Seq(Events)
        BY <2>1 DEF IInv, Indexed, TypeOK, Holding, PCs
    <2>3. 1 \in 1..Len(_events) /\ Head(_events) = _events[1]
        BY <2>2
    <2> QED
        BY <2>2, <2>3 DEF IndexesFirst
<1> QED
    BY Inductive, <1>1, PTL

-----------------------------------------------------------------------------
(* The refinement *)

\* A deque within the capacity is its own newest part.
LEMMA NewestWhole ==
    ASSUME NEW s, Len(s) <= Capacity
    PROVE  Newest(s, Capacity) = s
BY DEF Newest

\* One event too many: the newest part is the deque without its oldest event.
LEMMA NewestTail ==
    ASSUME NEW s \in Seq(Events), Len(s) = Capacity + 1
    PROVE  Newest(s, Capacity) = Tail(s) /\ Newest(Tail(s), Capacity) = Tail(s)
<1>1. Newest(s, Capacity) = SubSeq(s, 2, Len(s))
    BY StoreAssumption DEF Newest
<1>2. SubSeq(s, 2, Len(s)) = Tail(s)
    BY StoreAssumption
<1>3. Len(Tail(s)) = Capacity
    BY StoreAssumption
<1>4. Newest(Tail(s), Capacity) = Tail(s)
    BY <1>3, StoreAssumption DEF Newest
<1> QED
    BY <1>1, <1>2, <1>4

\* One step of pc is one step of the phase of the same thread.
LEMMA PhaseStep ==
    ASSUME TypeOK, NEW t \in Threads, NEW from, NEW to, Goto(t, from, to)
    PROVE  [u \in Threads |-> PhaseOf(u)]' =
               [[u \in Threads |-> PhaseOf(u)] EXCEPT ![t] = PhaseOf(t)']
BY GotoOnly DEF PhaseOf

\* The abstract module's own copies of the request and answer operators.
LEMMA SameRequests ==
    /\ Log!NoOp = NoOp /\ Log!Ops = Ops /\ Log!NoResult = NoResult
    /\ \A o : (Log!Rejected(o) <=> Rejected(o)) /\ Log!Rejection(o) = Rejection(o)
    /\ \A l : Log!_resolve_limit(l) = _resolve_limit(l)
    /\ \A s, n : Log!LatestFirst(s, n) = LatestFirst(s, n) /\ Log!Newest(s, n) = Newest(s, n)
    /\ \A s : Log!IdsOf(s) = IdsOf(s)
    /\ \A e : Log!ErrorResult(e) = ErrorResult(e) /\ Log!EventResult(e) = EventResult(e)
    /\ \A q : Log!ViewResult(q) = ViewResult(q) /\ Log!SizeResult(q) = SizeResult(q)
BY DEF Log!NoOp, NoOp, Log!Ops, Ops, Log!AddOps, AddOps, Log!ViewOps, ViewOps,
       Log!GetOps, GetOps, Log!PlainOps, PlainOps, Log!Events, Events,
       Log!NoLimit, NoLimit, Log!NoResult, NoResult, Log!Rejected, Rejected,
       Log!Rejection, Rejection, Log!_resolve_limit, _resolve_limit,
       Log!Minimum, Minimum, Log!LatestFirst, LatestFirst, Log!Newest, Newest,
       Log!IdsOf, IdsOf, Log!ErrorResult, ErrorResult, Log!EventResult, EventResult,
       Log!ViewResult, ViewResult, Log!SizeResult, SizeResult

LEMMA InitRefines == Init => Log!Init
<1> SUFFICES ASSUME Init PROVE Log!Init
    OBVIOUS
<1>1. Newest(_events, Capacity) = <<>>
    BY StoreAssumption DEF Init, Newest
<1>2. [t \in Threads |-> PhaseOf(t)] = [t \in Threads |-> "idle"]
    BY DEF Init, PhaseOf
<1> QED
    BY <1>1, <1>2, SameRequests DEF Init, Log!Init

\* Inside a with block, before anything is updated, the deque is the log's
\* content and the dict indexes all of it.
LEMMA Settled ==
    ASSUME IInv, NEW t \in Threads, pc[t] \in {"add", "latest_view", "get", "size"}
    PROVE  /\ Newest(_events, Capacity) = _events /\ _events \in Seq(Events)
           /\ IndexesFirst(Len(_events))
           /\ IdsOf(_events) = DOMAIN _events_by_request_id
<1>1. /\ \A u \in Threads : pc[u] \notin {"index", "trim", "clear_index"}
      /\ _events \in Seq(Events)
    BY Alone DEF IInv, Holding, PCs, TypeOK
<1>2. IndexesFirst(Len(_events))
    BY <1>1 DEF IInv, Indexed
<1>3. Len(_events) <= Capacity
    BY <1>1, StoreAssumption DEF IInv, Bounded
<1>4. Newest(_events, Capacity) = _events
    BY <1>3, NewestWhole
<1>5. DOMAIN _events = 1..Len(_events)
    BY <1>1
<1>6. IdsOf(_events) = DOMAIN _events_by_request_id
    BY <1>2, <1>5 DEF IndexesFirst, IdsOf
<1> QED
    BY <1>1, <1>2, <1>4, <1>6

\* A statement that is not one of the instants at which operations take effect
\* is a stuttering step of the log.
LEMMA Stutter ==
    ASSUME IInv, NEW t \in Threads, UNCHANGED <<op, result>>,
           NEW from, NEW to, Goto(t, from, to), PhaseOf(t)' = PhaseOf(t),
           Newest(_events, Capacity)' = Newest(_events, Capacity)
    PROVE  UNCHANGED Log!vars
<1>1. [u \in Threads |-> PhaseOf(u)]' = [u \in Threads |-> PhaseOf(u)]
    BY PhaseStep DEF IInv
<1> QED
    BY <1>1 DEF Log!vars

\* The statement at which an operation takes effect answers it in the log.
LEMMA Answers ==
    ASSUME IInv, NEW t \in Threads, UNCHANGED op,
           NEW from, NEW to, Goto(t, from, to), PhaseOf(t) = "called", PhaseOf(t)' = "done",
           NEW r, result' = [result EXCEPT ![t] = r]
    PROVE  Log!Answer(t, r)
BY PhaseStep DEF IInv, Log!Answer

LEMMA NextRefines == IInv /\ [Next]_vars => [Log!Next]_(Log!vars)
<1> SUFFICES ASSUME IInv, [Next]_vars PROVE [Log!Next]_(Log!vars)
    OBVIOUS
<1> DEFINE Goal == [Log!Next]_(Log!vars)
           kept == Newest(_events, Capacity)
<1>1. CASE UNCHANGED vars
    <2>1. [u \in Threads |-> PhaseOf(u)]' = [u \in Threads |-> PhaseOf(u)]
        BY <1>1 DEF vars, PhaseOf
    <2> QED
        BY <1>1, <2>1 DEF vars, Log!vars, Newest
<1>2. ASSUME NEW t \in Threads, Call(t) PROVE Goal
    <2>1. [u \in Threads |-> PhaseOf(u)]' =
              [[u \in Threads |-> PhaseOf(u)] EXCEPT ![t] = PhaseOf(t)']
        BY <1>2, PhaseStep DEF Call, IInv
    <2>2. PhaseOf(t) = "idle" /\ PhaseOf(t)' = "called"
        BY <1>2, GotoOnly DEF Call, PhaseOf, TookEffect, IInv
    <2>3. UNCHANGED <<kept, result>> /\ \E o \in Ops : op' = [op EXCEPT ![t] = o]
        BY <1>2 DEF Call, buffer
    <2>4. Log!Call(t)
        BY <2>1, <2>2, <2>3, SameRequests DEF Log!Call
    <2> QED
        BY <2>4 DEF Log!Next
<1>3. ASSUME NEW t \in Threads, Reject(t) PROVE Goal
    <2>1. PhaseOf(t) = "called" /\ PhaseOf(t)' = "done"
        BY <1>3, GotoOnly DEF Reject, PhaseOf, TookEffect, IInv
    <2>2. Log!Answer(t, Rejection(op[t])) /\ UNCHANGED kept
        BY <1>3, <2>1, Answers DEF Reject, buffer
    <2>3. Log!Reject(t)
        BY <1>3, <2>2, SameRequests DEF Reject, Log!Reject
    <2> QED
        BY <2>3 DEF Log!Next
<1>4. ASSUME NEW t \in Threads, Acquire(t) PROVE Goal
    <2>1. op[t].name \notin TookEffect \cup {"idle"}
        BY <1>4 DEF Acquire, LockFree, Goto, IInv, InMethod, TookEffect, Ops, AddOps, ViewOps,
                    GetOps, PlainOps
    <2>2. PhaseOf(t)' = PhaseOf(t)
        BY <1>4, <2>1, GotoOnly DEF Acquire, LockFree, PhaseOf, TookEffect, IInv
    <2> QED
        BY <1>4, <2>2, Stutter DEF Acquire, LockFree, buffer
<1>5. ASSUME NEW t \in Threads, Release(t) PROVE Goal
    <2>1. PhaseOf(t)' = PhaseOf(t)
        BY <1>5, GotoOnly DEF Release, PhaseOf, TookEffect, IInv
    <2> QED
        BY <1>5, <2>1, Stutter DEF Release, buffer
<1>6. ASSUME NEW t \in Threads, Return(t) PROVE Goal
    <2>1. [u \in Threads |-> PhaseOf(u)]' =
              [[u \in Threads |-> PhaseOf(u)] EXCEPT ![t] = PhaseOf(t)']
        BY <1>6, PhaseStep DEF Return, IInv
    <2>2. PhaseOf(t) = "done" /\ PhaseOf(t)' = "idle"
        BY <1>6, GotoOnly DEF Return, PhaseOf, TookEffect, IInv
    <2>3. Log!Return(t)
        BY <1>6, <2>1, <2>2, SameRequests DEF Return, Log!Return, buffer
    <2> QED
        BY <2>3 DEF Log!Next
<1>7. ASSUME NEW t \in Threads, RefuseDuplicate(t) PROVE Goal
    <2>1. PhaseOf(t) = "called" /\ PhaseOf(t)' = "done"
        BY <1>7, GotoOnly DEF RefuseDuplicate, IsDuplicate, PhaseOf, TookEffect, IInv
    <2>2. Log!Answer(t, ErrorResult("ValueError")) /\ UNCHANGED kept
        BY <1>7, <2>1, Answers DEF RefuseDuplicate, IsDuplicate, buffer
    <2>3. op[t].name = "add" /\ op[t].event.request_id \in IdsOf(kept)
        BY <1>7, Settled DEF RefuseDuplicate, IsDuplicate, Goto, IInv, InMethod
    <2>4. Log!RefuseDuplicate(t)
        BY <2>2, <2>3, SameRequests DEF Log!RefuseDuplicate
    <2> QED
        BY <2>4 DEF Log!Next
<1>8. ASSUME NEW t \in Threads, AppendEvent(t) PROVE Goal
    <2>1. /\ pc[t] = "add" /\ PhaseOf(t) = "called" /\ PhaseOf(t)' = "done"
          /\ op[t].name = "add" /\ result[t] = NoResult
        BY <1>8, GotoOnly
           DEF AppendEvent, IsDuplicate, PhaseOf, TookEffect, IInv, InMethod, Goto, Holding, PCs
    <2>2. result' = [result EXCEPT ![t] = NoResult]
        BY <1>8, <2>1 DEF AppendEvent, IsDuplicate, IInv, TypeOK
    <2>3. Log!Answer(t, NoResult)
        BY <1>8, <2>1, <2>2, Answers DEF AppendEvent, IsDuplicate
    <2>4. op[t].event.request_id \notin IdsOf(kept) /\ kept = _events
        BY <1>8, <2>1, Settled DEF AppendEvent, IsDuplicate
    <2>5. kept' = Newest(Append(kept, op[t].event), Capacity)
        BY <1>8, <2>4 DEF AppendEvent, IsDuplicate
    <2>6. Log!Add(t)
        BY <2>1, <2>3, <2>4, <2>5, SameRequests DEF Log!Add
    <2> QED
        BY <2>6 DEF Log!Next
<1>9. ASSUME NEW t \in Threads, IndexEvent(t) PROVE Goal
    <2>1. PhaseOf(t)' = PhaseOf(t)
        BY <1>9, GotoOnly DEF IndexEvent, PhaseOf, TookEffect, IInv
    <2> QED
        BY <1>9, <2>1, Stutter DEF IndexEvent
<1>10. ASSUME NEW t \in Threads, EvictOldest(t) PROVE Goal
    <2>1. PhaseOf(t)' = PhaseOf(t)
        BY <1>10, GotoOnly DEF EvictOldest, IndexWithout, PhaseOf, TookEffect, IInv
    <2>2. Len(_events) = Capacity + 1 /\ _events \in Seq(Events)
        BY <1>10, StoreAssumption DEF EvictOldest, IndexWithout, IInv, Bounded, TypeOK
    <2>3. kept' = kept
        BY <1>10, <2>2, NewestTail DEF EvictOldest, IndexWithout
    <2> QED
        BY <1>10, <2>1, <2>3, Stutter DEF EvictOldest, IndexWithout
<1>11. ASSUME NEW t \in Threads, KeepAll(t) PROVE Goal
    <2>1. PhaseOf(t)' = PhaseOf(t)
        BY <1>11, GotoOnly DEF KeepAll, PhaseOf, TookEffect, IInv
    <2> QED
        BY <1>11, <2>1, Stutter DEF KeepAll, buffer
<1>12. ASSUME NEW t \in Threads, ReadLatest(t) PROVE Goal
    <2> DEFINE r == ViewResult(LatestFirst(_events, _resolve_limit(op[t].limit)))
    <2>0. pc[t] = "latest_view" /\ op[t].name = "latest_view" /\ ~Rejected(op[t])
        BY <1>12 DEF ReadLatest, Goto, IInv, InMethod
    <2>1. PhaseOf(t) = "called" /\ PhaseOf(t)' = "done"
        BY <1>12, GotoOnly DEF ReadLatest, PhaseOf, TookEffect, IInv
    <2>2. Log!Answer(t, r) /\ UNCHANGED kept
        BY <1>12, <2>1, Answers DEF ReadLatest, buffer
    <2>3. kept = _events
        BY <2>0, <2>1, Settled
    <2>4. Log!LatestView(t)
        BY <2>0, <2>1, <2>2, <2>3, SameRequests DEF Log!LatestView
    <2> QED
        BY <2>4 DEF Log!Next
<1>13. ASSUME NEW t \in Threads, ReadById(t) PROVE Goal
    <2> DEFINE id == op[t].request_id
    <2>0. pc[t] = "get" /\ op[t].name = "get" /\ ~Rejected(op[t])
        BY <1>13 DEF ReadById, Goto, IInv, InMethod
    <2>1. PhaseOf(t) = "called" /\ PhaseOf(t)' = "done"
        BY <1>13, GotoOnly DEF ReadById, PhaseOf, TookEffect, IInv
    <2>2. Log!Answer(t, LookUp(id)) /\ UNCHANGED kept
        BY <1>13, <2>1, Answers DEF ReadById, buffer
    <2>3. /\ kept = _events /\ DOMAIN _events = 1..Len(_events)
          /\ IndexesFirst(Len(_events)) /\ IdsOf(_events) = DOMAIN _events_by_request_id
        BY <2>0, <2>1, Settled
    <2>4. CASE id \in DOMAIN _events_by_request_id
        <3>1. PICK i \in DOMAIN _events : _events[i].request_id = id
            BY <2>3, <2>4 DEF IdsOf
        <3>2. LookUp(id) = EventResult(_events[i])
            BY <2>3, <2>4, <3>1 DEF LookUp, IndexesFirst
        <3>3. Log!GetFound(t)
            BY <2>0, <2>1, <2>2, <2>3, <3>1, <3>2, SameRequests DEF Log!GetFound
        <3> QED
            BY <3>3 DEF Log!Next
    <2>5. CASE id \notin DOMAIN _events_by_request_id
        <3>1. Log!GetMissing(t)
            BY <2>0, <2>1, <2>2, <2>3, <2>5, SameRequests DEF Log!GetMissing, LookUp
        <3> QED
            BY <3>1 DEF Log!Next
    <2> QED
        BY <2>4, <2>5
<1>14. ASSUME NEW t \in Threads, ReadSize(t) PROVE Goal
    <2>0. pc[t] = "size" /\ op[t].name = "size" /\ ~Rejected(op[t])
        BY <1>14 DEF ReadSize, Goto, IInv, InMethod
    <2>1. PhaseOf(t) = "called" /\ PhaseOf(t)' = "done"
        BY <1>14, GotoOnly DEF ReadSize, PhaseOf, TookEffect, IInv
    <2>2. Log!Answer(t, SizeResult(Len(_events))) /\ UNCHANGED kept
        BY <1>14, <2>1, Answers DEF ReadSize, buffer
    <2>3. Log!Size(t)
        BY <2>0, <2>1, <2>2, Settled, SameRequests DEF Log!Size
    <2> QED
        BY <2>3 DEF Log!Next
<1>15. ASSUME NEW t \in Threads, ClearEvents(t) PROVE Goal
    <2>1. /\ PhaseOf(t) = "called" /\ PhaseOf(t)' = "done"
          /\ op[t].name = "clear" /\ result[t] = NoResult
        BY <1>15, GotoOnly
           DEF ClearEvents, PhaseOf, TookEffect, IInv, InMethod, Goto, Holding, PCs
    <2>2. result' = [result EXCEPT ![t] = NoResult]
        BY <1>15, <2>1 DEF ClearEvents, IInv, TypeOK
    <2>3. Log!Answer(t, NoResult)
        BY <1>15, <2>1, <2>2, Answers DEF ClearEvents
    <2>4. kept' = <<>>
        BY <1>15, StoreAssumption DEF ClearEvents, Newest
    <2>5. Log!Clear(t)
        BY <2>1, <2>3, <2>4, SameRequests DEF Log!Clear
    <2> QED
        BY <2>5 DEF Log!Next
<1>16. ASSUME NEW t \in Threads, ClearIndex(t) PROVE Goal
    <2>1. PhaseOf(t)' = PhaseOf(t)
        BY <1>16, GotoOnly DEF ClearIndex, PhaseOf, TookEffect, IInv
    <2> QED
        BY <1>16, <2>1, Stutter DEF ClearIndex
<1> QED
    BY <1>1, <1>2, <1>3, <1>4, <1>5, <1>6, <1>7, <1>8, <1>9, <1>10, <1>11, <1>12,
       <1>13, <1>14, <1>15, <1>16 DEF Next, Step

\* Every behaviour of the buffer, for any number of threads, is a behaviour of
\* the atomic bounded log.
THEOREM Linearizable == Spec => ImplementsLog
<1>1. Spec => []IInv
    BY Inductive
<1> QED
    BY <1>1, InitRefines, NextRefines, PTL DEF Spec, ImplementsLog, Log!Spec
=============================================================================
