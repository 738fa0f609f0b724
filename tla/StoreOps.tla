------------------------------ MODULE StoreOps ------------------------------
(* The requests a client can make of the event store                        *)
(* (src/src/tailora/core/store.py), and what the store answers.             *)
(* An event is its request id and an opaque body; ids are already           *)
(* normalised (stripped, non-empty) by the event's own validation.          *)
EXTENDS EventSeqs

CONSTANTS
    RequestIds,   \* the ids of the requests that produce events
    Bodies,       \* what else an event carries, as far as it is told apart
    Capacity,     \* RingBuffer's capacity
    MaxLimit,     \* the largest limit a caller passes (a bound of the model)
    BlankId       \* an id that is empty once stripped

ASSUME StoreAssumption ==
    /\ Capacity \in Nat \ {0}
    /\ MaxLimit \in Nat
    /\ BlankId \notin RequestIds

Events == [request_id: RequestIds, body: Bodies]

NoLimit == -1     \* limit=None

NoOp    == [name |-> "none"]
AddOps  == [name: {"add"}, event: Events]
ViewOps == [name: {"latest_view"}, limit: {NoLimit} \cup 0..MaxLimit]
GetOps  == [name: {"get"}, request_id: RequestIds \cup {BlankId}]
\* add() of something that is not a RequestEvent, clear() and size().
PlainOps == [name: {"add_other", "clear", "size"}]
Ops == AddOps \cup ViewOps \cup GetOps \cup PlainOps

NoResult        == [kind |-> "none"]
ErrorResult(e)  == [kind |-> "error", error |-> e]
EventResult(e)  == [kind |-> "event", event |-> e]
ViewResult(s)   == [kind |-> "view", events |-> s]
SizeResult(n)   == [kind |-> "size", size |-> n]
Results ==
    {NoResult} \cup [kind: {"error"}, error: {"TypeError", "ValueError"}]
    \cup [kind: {"event"}, event: Events] \cup [kind: {"view"}, events: Seq(Events)]
    \cup [kind: {"size"}, size: Nat]

\* The argument checks of add, latest_view and get, which come before the lock.
Rejected(o) ==
    \/ o.name = "add_other"
    \/ o.name = "latest_view" /\ o.limit = 0
    \/ o.name = "get" /\ o.request_id = BlankId

Rejection(o) ==
    ErrorResult(IF o.name = "add_other" THEN "TypeError" ELSE "ValueError")

\* _resolve_limit: no limit means the capacity, a larger one is cut to it.
_resolve_limit(limit) == IF limit = NoLimit THEN Capacity ELSE Minimum(limit, Capacity)
=============================================================================
