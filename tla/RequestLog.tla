----------------------------- MODULE RequestLog -----------------------------
(* What the capture of requests promises when tasks await their workers:    *)
(* every query a hook sees is recorded in one step, in the request it       *)
(* belongs to and before that one ends, and the end of a request logs all   *)
(* that was recorded in it.  RequestCapture is shown to implement this.     *)
EXTENDS EventSeqs

CONSTANTS Requests, MaxQueries, Capacity, StatusClasses

VARIABLES phase, status_code, error_summary,  \* per request, as the application answers
    queries, count, time,                     \* per request: what has been recorded
    store                                     \* the events of the requests that ended

answered == <<status_code, error_summary>>
recorded == <<queries, count, time>>
vars == <<phase, answered, recorded, store>>

Init ==
    /\ phase = [r \in Requests |-> "unused"]
    /\ status_code = [r \in Requests |-> "server_error"]
    /\ error_summary = [r \in Requests |-> FALSE]
    /\ queries = [r \in Requests |-> <<>>]
    /\ count = [r \in Requests |-> 0]
    /\ time = [r \in Requests |-> 0]
    /\ store = <<>>

Begin(r) ==
    /\ phase[r] = "unused"
    /\ phase' = [phase EXCEPT ![r] = "open"]
    /\ UNCHANGED <<answered, recorded, store>>

\* The application answers the requests of a nesting of captures.
Answer(rs, status, error) ==
    /\ \A r \in rs : phase[r] = "open"
    /\ status_code' = [r \in Requests |-> IF r \in rs THEN status ELSE status_code[r]]
    /\ error_summary' = [r \in Requests |-> error_summary[r] \/ (r \in rs /\ error)]
    /\ UNCHANGED <<phase, recorded, store>>

\* A query is counted and timed, and kept while there is room, under its number.
Record(r, duration) ==
    /\ phase[r] = "open"
    /\ count' = [count EXCEPT ![r] = @ + 1]
    /\ time' = [time EXCEPT ![r] = @ + duration]
    /\ queries' =
          IF Len(queries[r]) < MaxQueries
          THEN [queries EXCEPT ![r] =
                   Append(@, [owner |-> r, sequence |-> count[r] + 1, duration |-> duration])]
          ELSE queries
    /\ UNCHANGED <<phase, answered, store>>

Event(r) ==
    [request_id |-> r, status_code |-> status_code[r], error |-> error_summary[r],
     queries |-> queries[r], total_query_count |-> count[r], total_query_time_ms |-> time[r]]

\* A request with an invalid status leaves no event.
End(r) ==
    /\ phase[r] = "open"
    /\ phase' = [phase EXCEPT ![r] = "ended"]
    /\ store' = IF status_code[r] = "other" THEN store
                ELSE Newest(Append(store, Event(r)), Capacity)
    /\ UNCHANGED <<answered, recorded>>

Next ==
    \/ \E r \in Requests : Begin(r) \/ End(r) \/ \E d \in {0, 1} : Record(r, d)
    \/ \E rs \in SUBSET Requests, s \in StatusClasses, e \in BOOLEAN : Answer(rs, s, e)

Spec == Init /\ [][Next]_vars
=============================================================================
