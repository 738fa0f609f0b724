------------------------------ MODULE EventLog ------------------------------
(* What the event store promises its callers: a log of at most Capacity     *)
(* events, oldest first, on which every operation of every thread takes     *)
(* effect at one instant between its call and its return.  RingBuffer is    *)
(* shown to implement this module; the request collector and the HTTP API   *)
(* are modelled over it.                                                    *)
EXTENDS StoreOps

CONSTANT Threads

VARIABLES
    kept,       \* the events the store holds, oldest first
    phase,      \* per thread: "idle", "called" or "done"
    op,         \* per thread: the operation it is in
    result      \* per thread: what the operation returns or raises

vars == <<kept, phase, op, result>>

Init ==
    /\ kept = <<>>
    /\ phase = [t \in Threads |-> "idle"]
    /\ op = [t \in Threads |-> NoOp]
    /\ result = [t \in Threads |-> NoResult]

Call(t) ==
    /\ phase[t] = "idle"
    /\ phase' = [phase EXCEPT ![t] = "called"]
    /\ \E o \in Ops : op' = [op EXCEPT ![t] = o]
    /\ UNCHANGED <<kept, result>>

\* The instant at which t's operation takes effect and answers r.
Answer(t, r) ==
    /\ phase[t] = "called"
    /\ phase' = [phase EXCEPT ![t] = "done"]
    /\ result' = [result EXCEPT ![t] = r]
    /\ UNCHANGED op

Reject(t) ==
    /\ Rejected(op[t])
    /\ Answer(t, Rejection(op[t]))
    /\ UNCHANGED kept

\* A second event of a request id is refused and changes nothing.
RefuseDuplicate(t) ==
    /\ op[t].name = "add"
    /\ op[t].event.request_id \in IdsOf(kept)
    /\ Answer(t, ErrorResult("ValueError"))
    /\ UNCHANGED kept

\* A new event is the newest; the oldest one leaves a full log.
Add(t) ==
    /\ op[t].name = "add"
    /\ op[t].event.request_id \notin IdsOf(kept)
    /\ Answer(t, NoResult)
    /\ kept' = Newest(Append(kept, op[t].event), Capacity)

LatestView(t) ==
    /\ op[t].name = "latest_view" /\ ~Rejected(op[t])
    /\ Answer(t, ViewResult(LatestFirst(kept, _resolve_limit(op[t].limit))))
    /\ UNCHANGED kept

GetFound(t) ==
    /\ op[t].name = "get" /\ ~Rejected(op[t])
    /\ \E i \in DOMAIN kept :
          /\ kept[i].request_id = op[t].request_id
          /\ Answer(t, EventResult(kept[i]))
    /\ UNCHANGED kept

GetMissing(t) ==
    /\ op[t].name = "get" /\ ~Rejected(op[t])
    /\ op[t].request_id \notin IdsOf(kept)
    /\ Answer(t, NoResult)
    /\ UNCHANGED kept

Clear(t) ==
    /\ op[t].name = "clear"
    /\ Answer(t, NoResult)
    /\ kept' = <<>>

Size(t) ==
    /\ op[t].name = "size"
    /\ Answer(t, SizeResult(Len(kept)))
    /\ UNCHANGED kept

Return(t) ==
    /\ phase[t] = "done"
    /\ phase' = [phase EXCEPT ![t] = "idle"]
    /\ op' = [op EXCEPT ![t] = NoOp]
    /\ result' = [result EXCEPT ![t] = NoResult]
    /\ UNCHANGED kept

Next ==
    \E t \in Threads :
        \/ Call(t) \/ Reject(t) \/ RefuseDuplicate(t) \/ Add(t) \/ LatestView(t)
        \/ GetFound(t) \/ GetMissing(t) \/ Clear(t) \/ Size(t) \/ Return(t)

Spec == Init /\ [][Next]_vars
=============================================================================
