----------------------------- MODULE RingBuffer -----------------------------
(* core/store.py: the RingBuffer class, statement by statement under its    *)
(* lock.  Threads is whatever calls it: the event loop's thread (middleware *)
(* and API) and the worker threads of synchronous code.                     *)
(*                                                                          *)
(* Values are immutable here, so the deep copies add() makes on the way in  *)
(* and the readers make on the way out, both outside the lock, are the      *)
(* values themselves.                                                       *)
EXTENDS StoreOps, Functions

CONSTANTS
    Threads,
    NoThread      \* the lock is free

ASSUME ThreadAssumption == NoThread \notin Threads

VARIABLES
    _events,                \* the deque, oldest event first
    _events_by_request_id,  \* the dict from request ids to events
    _lock,                  \* the thread that holds the RLock, or NoThread
    pc,                     \* per thread: the statement it is about to execute
    op,                     \* per thread: the method it is in and its arguments
    result                  \* per thread: what the method has read, or raises

vars == <<_events, _events_by_request_id, _lock, pc, op, result>>
buffer == <<_events, _events_by_request_id>>

NoEntries == [id \in {} |-> NoOp]

Init ==
    /\ _events = <<>>
    /\ _events_by_request_id = NoEntries
    /\ _lock = NoThread
    /\ pc = [t \in Threads |-> "idle"]
    /\ op = [t \in Threads |-> NoOp]
    /\ result = [t \in Threads |-> NoResult]

Goto(t, from, to) ==
    /\ pc[t] = from
    /\ pc' = [pc EXCEPT ![t] = to]

Call(t) ==
    /\ Goto(t, "idle", "enter")
    /\ \E o \in Ops : op' = [op EXCEPT ![t] = o]
    /\ UNCHANGED <<buffer, _lock, result>>

Reject(t) ==
    /\ Rejected(op[t])
    /\ Goto(t, "enter", "return")
    /\ result' = [result EXCEPT ![t] = Rejection(op[t])]
    /\ UNCHANGED <<buffer, _lock, op>>

\* Mutant: the lock does not exclude anybody.
MutantLockFree == TRUE

LockFree == _lock = NoThread

\* with self._lock: the method waits until no other thread holds it.
Acquire(t) ==
    /\ ~Rejected(op[t])
    /\ LockFree
    /\ Goto(t, "enter", op[t].name)
    /\ _lock' = t
    /\ UNCHANGED <<buffer, op, result>>

\* Leaving the with block, by its end or by the exception add() raises.
Release(t) ==
    /\ Goto(t, "release", "return")
    /\ _lock' = NoThread
    /\ UNCHANGED <<buffer, op, result>>

Return(t) ==
    /\ Goto(t, "return", "idle")
    /\ op' = [op EXCEPT ![t] = NoOp]
    /\ result' = [result EXCEPT ![t] = NoResult]
    /\ UNCHANGED <<buffer, _lock>>

-----------------------------------------------------------------------------
(* add *)

\* Mutant: nobody looks for an event of the same id.
MutantIsDuplicate(id) == FALSE

IsDuplicate(id) == id \in DOMAIN _events_by_request_id

\* Mutant: the exception leaves add without releasing the lock.
MutantRefuseDuplicate(t) ==
    /\ Goto(t, "add", "return")
    /\ IsDuplicate(op[t].event.request_id)
    /\ result' = [result EXCEPT ![t] = ErrorResult("ValueError")]
    /\ UNCHANGED <<buffer, _lock, op>>

RefuseDuplicate(t) ==
    /\ Goto(t, "add", "release")
    /\ IsDuplicate(op[t].event.request_id)
    /\ result' = [result EXCEPT ![t] = ErrorResult("ValueError")]
    /\ UNCHANGED <<buffer, _lock, op>>

AppendEvent(t) ==
    /\ Goto(t, "add", "index")
    /\ ~IsDuplicate(op[t].event.request_id)
    /\ _events' = Append(_events, op[t].event)
    /\ UNCHANGED <<_events_by_request_id, _lock, op, result>>

IndexEvent(t) ==
    /\ Goto(t, "index", "trim")
    /\ _events_by_request_id' =
          [id \in DOMAIN _events_by_request_id \cup {op[t].event.request_id} |->
              IF id = op[t].event.request_id THEN op[t].event
              ELSE _events_by_request_id[id]]
    /\ UNCHANGED <<_events, _lock, op, result>>

\* Mutant: the dict keeps the evicted event's id.
MutantIndexWithout(id) == _events_by_request_id

IndexWithout(id) ==
    Restrict(_events_by_request_id, DOMAIN _events_by_request_id \ {id})

EvictOldest(t) ==
    /\ Goto(t, "trim", "release")
    /\ Len(_events) > Capacity
    /\ _events' = Tail(_events)
    /\ _events_by_request_id' = IndexWithout(Head(_events).request_id)
    /\ UNCHANGED <<_lock, op, result>>

KeepAll(t) ==
    /\ Goto(t, "trim", "release")
    /\ Len(_events) <= Capacity
    /\ UNCHANGED <<buffer, _lock, op, result>>

-----------------------------------------------------------------------------
(* latest_view (and list, which returns the same events), get, size, clear *)

ReadLatest(t) ==
    /\ Goto(t, "latest_view", "release")
    /\ result' = [result EXCEPT ![t] =
                     ViewResult(LatestFirst(_events, _resolve_limit(op[t].limit)))]
    /\ UNCHANGED <<buffer, _lock, op>>

\* Mutant: get copies a missing event instead of returning None.
MutantLookUp(id) ==
    IF id \in DOMAIN _events_by_request_id
    THEN EventResult(_events_by_request_id[id])
    ELSE EventResult(NoOp)

LookUp(id) ==
    IF id \in DOMAIN _events_by_request_id
    THEN EventResult(_events_by_request_id[id])
    ELSE NoResult

ReadById(t) ==
    /\ Goto(t, "get", "release")
    /\ result' = [result EXCEPT ![t] = LookUp(op[t].request_id)]
    /\ UNCHANGED <<buffer, _lock, op>>

ReadSize(t) ==
    /\ Goto(t, "size", "release")
    /\ result' = [result EXCEPT ![t] = SizeResult(Len(_events))]
    /\ UNCHANGED <<buffer, _lock, op>>

ClearEvents(t) ==
    /\ Goto(t, "clear", "clear_index")
    /\ _events' = <<>>
    /\ UNCHANGED <<_events_by_request_id, _lock, op, result>>

ClearIndex(t) ==
    /\ Goto(t, "clear_index", "release")
    /\ _events_by_request_id' = NoEntries
    /\ UNCHANGED <<_events, _lock, op, result>>

Step(t) ==
    \/ Reject(t) \/ Acquire(t) \/ Release(t) \/ Return(t)
    \/ RefuseDuplicate(t) \/ AppendEvent(t) \/ IndexEvent(t)
    \/ EvictOldest(t) \/ KeepAll(t)
    \/ ReadLatest(t) \/ ReadById(t) \/ ReadSize(t)
    \/ ClearEvents(t) \/ ClearIndex(t)

Next == \E t \in Threads : Call(t) \/ Step(t)

Spec == Init /\ [][Next]_vars

\* A thread that can take its next step eventually does; whether it calls the
\* store again is its own choice.
FairSpec == Spec /\ \A t \in Threads : WF_vars(Step(t))

-----------------------------------------------------------------------------
PCs == {"idle", "enter", "add", "index", "trim", "latest_view", "get", "size",
        "clear", "clear_index", "release", "return"}

\* The statements inside a with block.
Holding == PCs \ {"idle", "enter", "return"}

\* Every variable holds a value the code can give it.
TypeOK ==
    /\ _events \in Seq(Events)
    /\ DOMAIN _events_by_request_id \subseteq RequestIds
    /\ \A id \in DOMAIN _events_by_request_id : _events_by_request_id[id] \in Events
    /\ _lock \in Threads \cup {NoThread}
    /\ pc \in [Threads -> PCs]
    /\ op \in [Threads -> {NoOp} \cup Ops]
    /\ result \in [Threads -> Results]

\* The dict maps exactly the ids of the n oldest events of the deque to them.
IndexesFirst(n) ==
    /\ DOMAIN _events_by_request_id = {_events[i].request_id : i \in 1..n}
    /\ \A i \in 1..n : _events_by_request_id[_events[i].request_id] = _events[i]

\* Whenever the lock is free the deque holds at most capacity events with
\* different ids and the dict indexes exactly these: the two structures add
\* and clear update one after the other agree for every reader.
Consistent ==
    _lock = NoThread =>
        /\ Len(_events) <= Capacity
        /\ DistinctIds(_events)
        /\ IndexesFirst(Len(_events))

\* Deleting the evicted event's id from the dict never raises KeyError, which
\* would leave the deque and the dict out of step (store.py:67).
EvictedIsIndexed ==
    \A t \in Threads :
        pc[t] = "trim" => Head(_events).request_id \in DOMAIN _events_by_request_id

-----------------------------------------------------------------------------
(* What holds at every statement, from which the above follow.              *)

\* A thread is inside a with block exactly when it holds the lock.
Exclusive == \A t \in Threads : pc[t] \in Holding <=> _lock = t

\* A thread executes the statements of the method it called, with arguments
\* that passed the checks.
InMethod ==
    \A t \in Threads :
        /\ pc[t] \in {"add", "index", "trim"} => op[t].name = "add"
        /\ pc[t] \in {"clear", "clear_index"} => op[t].name = "clear"
        /\ pc[t] \in {"latest_view", "get", "size"} =>
              op[t].name = pc[t] /\ ~Rejected(op[t])
        /\ pc[t] = "enter" => op[t] \in Ops
        /\ pc[t] \in Holding \ {"release"} => result[t] = NoResult
        /\ pc[t] \in {"idle", "enter"} => result[t] = NoResult

Bounded ==
    /\ Len(_events) <= Capacity + 1
    /\ Len(_events) = Capacity + 1 => \E t \in Threads : pc[t] \in {"index", "trim"}

\* The dict lags behind the deque only between the two updates of an add or a clear.
Indexed ==
    /\ (\A t \in Threads : pc[t] \notin {"index", "clear_index"}) =>
          IndexesFirst(Len(_events))
    /\ \A t \in Threads :
        /\ pc[t] = "index" =>
              /\ _events # <<>>
              /\ _events[Len(_events)] = op[t].event
              /\ IndexesFirst(Len(_events) - 1)
        /\ pc[t] = "clear_index" => _events = <<>>
        /\ pc[t] = "trim" => _events # <<>>

IInv == TypeOK /\ Exclusive /\ InMethod /\ Bounded /\ DistinctIds(_events) /\ Indexed

-----------------------------------------------------------------------------
(* The refinement: an add takes effect when the event enters the deque, a   *)
(* clear when the deque is emptied, a reader when it reads.                 *)

TookEffect == {"index", "trim", "clear_index", "release", "return"}

PhaseOf(t) ==
    IF pc[t] = "idle" THEN "idle"
    ELSE IF pc[t] \in TookEffect THEN "done" ELSE "called"

Log == INSTANCE EventLog WITH
    kept <- Newest(_events, Capacity),
    phase <- [t \in Threads |-> PhaseOf(t)]

\* Every behaviour of the buffer is one of a bounded log whose operations are
\* atomic: what concurrent callers of add, list, get, clear and size see is
\* what they would see if the calls ran one at a time.
ImplementsLog == Log!Spec

\* No method keeps the lock: whoever waits for it sees it released.
LockIsReleased == \A t \in Threads : _lock = t ~> _lock # t
=============================================================================
