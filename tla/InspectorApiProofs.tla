-------------------------- MODULE InspectorApiProofs --------------------------
(* Proofs about the Inspector's API for any scenarios, capacity and limits: *)
(* access control cannot be walked around; GET /requests, which reads the   *)
(* store twice, answers with two of its states in order; the tables of      *)
(* GET /aggregates are those of the store; and GET /requests/{id} shows of  *)
(* a query what may be shown of it, however often it has been redacted.     *)
EXTENDS InspectorApi, RedactionProofs

-----------------------------------------------------------------------------
(* Events keep their ids *)

LEMMA RedactionKeepsId ==
    ASSUME NEW event, "request_id" \in DOMAIN event, NEW policy
    PROVE  /\ "request_id" \in DOMAIN redact_event(event, policy)
           /\ redact_event(event, policy).request_id = event.request_id
BY DEF redact_event

LEMMA StoredId ==
    ASSUME NEW n
    PROVE  /\ "request_id" \in DOMAIN StoredEvent(n)
           /\ StoredEvent(n).request_id = n
<1>1. "request_id" \in DOMAIN RequestEvent(n) /\ RequestEvent(n).request_id = n
    BY DEF RequestEvent
<1> QED
    BY <1>1, RedactionKeepsId DEF StoredEvent

\* An item of the list has the id of its event.
LEMMA SummaryId ==
    ASSUME NEW event
    PROVE  _summarize_request(event).request_id = event.request_id
BY DEF _summarize_request

-----------------------------------------------------------------------------
(* Stores *)

LEMMA SeqOfOwn ==
    ASSUME NEW S, NEW s \in Seq(S)
    PROVE  IsSeq(s)
BY DEF IsSeq

LEMMA AppendSeq ==
    ASSUME NEW s, IsSeq(s), NEW x
    PROVE  /\ IsSeq(Append(s, x))
           /\ Len(s) \in Nat /\ DOMAIN s = 1..Len(s)
           /\ Len(Append(s, x)) = Len(s) + 1
           /\ Append(s, x)[Len(s) + 1] = x
           /\ \A i \in DOMAIN s : Append(s, x)[i] = s[i]
<1> DEFINE S == {s[i] : i \in DOMAIN s} \cup {x}
<1>1. s \in Seq(S)
    BY DEF IsSeq
<1>2. Append(s, x) \in Seq(S)
    BY <1>1
<1>3. IsSeq(Append(s, x))
    BY <1>2, SeqOfOwn
<1> QED
    BY <1>1, <1>3

\* The newest events of a store are a store, of events it had.
LEMMA NewestStore ==
    ASSUME NEW s, IsStore(s), NEW n \in Nat
    PROVE  /\ IsStore(Newest(s, n)) /\ Len(Newest(s, n)) <= n
           /\ \A i \in DOMAIN Newest(s, n) : \E j \in DOMAIN s : Newest(s, n)[i] = s[j]
<1> DEFINE S == {s[i] : i \in DOMAIN s}
<1>1. s \in Seq(S) /\ Len(s) \in Nat /\ DOMAIN s = 1..Len(s)
    BY DEF IsStore, IsSeq
<1> HIDE DEF S
<1>2. CASE Len(s) <= n
    BY <1>1, <1>2 DEF Newest
<1>3. CASE ~(Len(s) <= n)
    <2> DEFINE m == Len(s) - n + 1
    <2>1. Newest(s, n) = SubSeq(s, m, Len(s)) /\ m \in 1..Len(s) + 1
        BY <1>1, <1>3 DEF Newest
    <2>2. /\ SubSeq(s, m, Len(s)) \in Seq(S) /\ Len(SubSeq(s, m, Len(s))) = n
          /\ \A i \in 1..n : SubSeq(s, m, Len(s))[i] = s[m + i - 1] /\ m + i - 1 \in 1..Len(s)
        BY <1>1, <1>3
    <2>3. IsSeq(Newest(s, n)) /\ DOMAIN Newest(s, n) = 1..n /\ Len(Newest(s, n)) = n
        <3>1. IsSeq(Newest(s, n))
            BY <2>1, <2>2, SeqOfOwn
        <3> QED
            BY <2>1, <2>2, <3>1
    <2>4. \A i \in DOMAIN Newest(s, n) : \E j \in DOMAIN s : Newest(s, n)[i] = s[j]
        BY <1>1, <2>1, <2>2, <2>3
    <2> QED
        BY <2>3, <2>4 DEF IsStore
<1> QED
    BY <1>2, <1>3

LEMMA AppendStore ==
    ASSUME NEW s, IsStore(s), NEW x, "request_id" \in DOMAIN x
    PROVE  IsStore(Append(s, x))
<1>1. IsSeq(s)
    BY DEF IsStore
<1> QED
    BY <1>1, AppendSeq DEF IsStore

\* The newest first: as many as asked for, at most all.
LEMMA LatestStore ==
    ASSUME NEW s, IsStore(s), NEW n \in Nat
    PROVE  /\ Len(LatestFirst(s, n)) = Minimum(n, Len(s)) /\ Len(s) \in Nat
           /\ DOMAIN LatestFirst(s, n) = 1..Minimum(n, Len(s))
           /\ Len(LatestFirst(s, n)) <= n
           /\ \A i \in DOMAIN LatestFirst(s, n) : "request_id" \in DOMAIN LatestFirst(s, n)[i]
<1>1. Len(s) \in Nat /\ DOMAIN s = 1..Len(s)
    BY DEF IsStore, IsSeq
<1> DEFINE m == Minimum(n, Len(s))
<1>2. m \in Nat /\ m <= n /\ m <= Len(s)
    BY <1>1 DEF Minimum
<1>3. LatestFirst(s, n) = [i \in 1..m |-> s[Len(s) - i + 1]]
    BY DEF LatestFirst
<1> HIDE DEF m
<1>4. Len(LatestFirst(s, n)) = m
    BY <1>2, <1>3
<1>5. \A i \in 1..m : Len(s) - i + 1 \in DOMAIN s
    BY <1>1, <1>2
<1> QED
    BY <1>1, <1>2, <1>3, <1>4, <1>5 DEF IsStore, m

-----------------------------------------------------------------------------
(* The steps, as far as the invariant tells them apart *)

\* A list or tables are made for a valid limit.
LEMMA LimitIsValid ==
    ASSUME Handles("list") \/ Handles("aggregates")
    PROVE  ValidLimit
BY DEF Handles, Wrong

\* A handler's step reads the list, answers it, or answers something else; the
\* answer to wrong parameters says which.
LEMMA HandleIs ==
    ASSUME Handle
    PROVE  \/ ReadList
           \/ list_requests
           \/ \E body : \E status \in {200, 404, 422} :
                /\ phase = "handler" /\ body.kind # "list"
                /\ Respond(status, body)
                /\ \/ verdict.dependency # "invalid"
                   \/ status = 422 /\ "dependency" \in body.names
<1>1. CASE InvalidParameters
    <2>1. verdict.dependency = "invalid" => "dependency" \in Wrong
        BY DEF Wrong
    <2> QED
        BY <1>1, <2>1 DEF InvalidParameters
<1> USE DEF Wrong
<1>2. CASE health_check
    BY <1>2 DEF health_check, Handles
<1>3. CASE get_request_detail
    BY <1>3 DEF get_request_detail, Handles
<1>4. CASE DetailMissing
    BY <1>4 DEF DetailMissing, Handles
<1>5. CASE get_aggregates
    BY <1>5 DEF get_aggregates, Handles
<1>6. CASE Asset
    BY <1>6 DEF Asset, Handles
<1>7. CASE Docs
    BY <1>7 DEF Docs, Handles
<1> QED
    BY <1>1, <1>2, <1>3, <1>4, <1>5, <1>6, <1>7 DEF Handle

\* The answer to GET /requests.
LEMMA ListResponds ==
    ASSUME IInv, list_requests
    PROVE  \E body :
            /\ phase = "counting" /\ Respond(200, body) /\ body.kind = "list"
            /\ Ids(body.items) = Ids(selected) /\ Len(body.items) = Len(selected)
            /\ body.total_stored_requests = Len(events)
            /\ body.is_truncated = (Len(events) > request.limit)
<1> DEFINE redacted == Redacted(selected)
           items == [i \in DOMAIN redacted |-> _summarize_request(redacted[i])]
<1>1. PICK i \in DOMAIN seen : selected = LatestFirst(seen[i], request.limit)
    BY DEF IInv, Sighted, list_requests
<1>2. IsStore(seen[i]) /\ request.limit \in Nat
    BY ApiAssumption DEF IInv, Sighted, list_requests, ValidLimit
<1>3. PICK m \in Nat : DOMAIN selected = 1..m /\ Len(selected) = m
    BY <1>1, <1>2, LatestStore DEF Minimum
<1>4. \A k \in DOMAIN selected : "request_id" \in DOMAIN selected[k]
    BY <1>1, <1>2, LatestStore
<1>5. DOMAIN redacted = 1..m
      /\ \A k \in 1..m : redacted[k] = redact_event(selected[k], scenario.policy)
    BY <1>3 DEF Redacted
<1>6. DOMAIN items = 1..m /\ \A k \in 1..m : items[k] = _summarize_request(redacted[k])
    BY <1>5
<1>7. Len(items) = m
    BY <1>5
<1>8. \A k \in 1..m : items[k].request_id = selected[k].request_id
    BY <1>3, <1>4, <1>5, <1>6, SummaryId, RedactionKeepsId
<1>9. Ids(items) = Ids(selected)
    <2> HIDE DEF items
    <2> QED
        BY <1>3, <1>6, <1>8 DEF Ids
<1>10. Respond(200, [kind |-> "list", items |-> items, limit |-> request.limit,
                     total_stored_requests |-> Len(events),
                     is_truncated |-> Len(events) > request.limit])
    BY DEF list_requests, size
<1>11. phase = "counting"
    BY DEF list_requests
<1> HIDE DEF items
<1> QED
    BY <1>3, <1>7, <1>9, <1>10, <1>11

\* A guard that is asked leaves the other one's verdict.
LEMMA VerdictAfter ==
    ASSUME TypeOK, NEW guard \in Guards, NEW o \in {"refused", "invalid"} \cup HookOutcomes, Judged(guard, o)
    PROVE  /\ verdict' \in [Guards -> {"none", "refused", "invalid"} \cup HookOutcomes]
           /\ verdict'[guard] = o
           /\ \A g \in Guards \ {guard} : verdict'[g] = verdict[g]
           /\ phase = guard /\ guard \in scenario.guards
BY DEF TypeOK, Judged

\* Recording and clearing change the store, and what the client has seen of it.
LEMMA AppSteps ==
    ASSUME IInv, Record \/ Clear
    PROVE  /\ UNCHANGED <<scenario, phase, request, verdict, selected, response>>
           /\ IsStore(events') /\ Len(events') <= Capacity
           /\ recorded' \in 0..Len(scenario.captures)
           /\ \A i \in DOMAIN events' : events'[i].request_id \in 1..recorded'
           /\ seen' = IF phase = "idle" THEN seen ELSE Append(seen, events')
<1>1. CASE Record
    <2>1. recorded \in Nat /\ recorded < Len(scenario.captures) /\ recorded' = recorded + 1
        BY <1>1 DEF IInv, TypeOK, Record
    <2> DEFINE new == StoredEvent(recorded + 1)
               longer == Append(events, new)
    <2>2. "request_id" \in DOMAIN new /\ new.request_id = recorded + 1
        BY StoredId
    <2> HIDE DEF new
    <2>3. IsStore(events) /\ IsStore(longer)
        BY <2>2, AppendStore DEF IInv, Sighted
    <2>4. \A i \in DOMAIN longer : longer[i].request_id \in 1..recorded + 1
        <3>1. IsSeq(events) /\ IsSeq(longer)
            BY <2>3 DEF IsStore
        <3>2. /\ DOMAIN events = 1..Len(events) /\ Len(events) \in Nat
              /\ Len(longer) = Len(events) + 1 /\ longer[Len(events) + 1] = new
              /\ \A i \in DOMAIN events : longer[i] = events[i]
            BY <3>1, AppendSeq
        <3>3. DOMAIN longer = 1..Len(events) + 1
            BY <3>1, <3>2 DEF IsSeq
        <3>4. \A i \in DOMAIN events : events[i].request_id \in 1..recorded
            BY DEF IInv, TypeOK
        <3> QED
            BY <2>1, <2>2, <3>2, <3>3, <3>4
    <2>5. events' = Newest(longer, Capacity) /\ Capacity \in Nat
        BY <1>1, ApiAssumption DEF Record, new
    <2> HIDE DEF longer
    <2>6. /\ IsStore(events') /\ Len(events') <= Capacity
          /\ \A i \in DOMAIN events' : \E j \in DOMAIN longer : events'[i] = longer[j]
        BY <2>3, <2>5, NewestStore
    <2>7. \A i \in DOMAIN events' : events'[i].request_id \in 1..recorded'
        BY <2>1, <2>4, <2>6
    <2>8. recorded' \in 0..Len(scenario.captures)
        BY <1>1, <2>1 DEF IInv, TypeOK
    <2> QED
        BY <1>1, <2>6, <2>7, <2>8 DEF Record, Seen
<1>2. CASE Clear
    <2>1. events' = <<>> /\ IsStore(<<>>) /\ Len(<<>>) <= Capacity
        BY <1>2, ApiAssumption DEF Clear, IsStore, IsSeq
    <2> QED
        BY <1>2, <2>1 DEF Clear, Seen, IInv, TypeOK
<1> QED
    BY <1>1, <1>2

-----------------------------------------------------------------------------
(* Types *)

LEMMA InitInv == Init => IInv
<1> SUFFICES ASSUME Init PROVE IInv
    OBVIOUS
<1>1. scenario.captures \in Seq(Captures)
    BY ApiAssumption DEF Init, ScenarioType
<1>2. TypeOK
    BY <1>1, ApiAssumption DEF Init, TypeOK, Guards, NoVerdict, NoResponse
<1>3. ListIsASnapshot /\ DeniedSeesNothing /\ Controlled
    BY DEF Init, ListIsASnapshot, Answer, NoResponse, DeniedSeesNothing, Controlled
<1>4. Sighted
    BY DEF Init, Sighted, IsStore, IsSeq
<1> QED
    BY <1>2, <1>3, <1>4 DEF IInv

LEMMA TypeStep == IInv /\ [Next]_vars => TypeOK'
<1> SUFFICES ASSUME IInv, [Next]_vars PROVE TypeOK'
    OBVIOUS
<1> USE DEF app
<1>1. TypeOK /\ Sighted
    BY DEF IInv
<1>2. CASE Record \/ Clear
    <2>1. phase # "idle" => seen' # <<>>
        <3>1. ASSUME phase # "idle" PROVE seen' # <<>>
            <4>1. IsSeq(seen) /\ seen' = Append(seen, events')
                BY <1>1, <1>2, <3>1, AppSteps DEF Sighted
            <4>2. Len(seen') = Len(seen) + 1 /\ Len(seen) \in Nat
                BY <4>1, AppendSeq
            <4> QED
                BY <4>2
        <3> QED
            BY <3>1
    <2> QED
        BY <1>1, <1>2, <2>1, AppSteps DEF TypeOK
<1>3. CASE \E r \in scenario.requests : Ask(r)
    <2>1. PICK r \in scenario.requests : Ask(r)
        BY <1>3
    <2> QED
        BY <1>1, <2>1 DEF TypeOK, Ask, NoVerdict, NoResponse, Guards
<1>4. CASE NoDependency \/ NoHook
    BY <1>1, <1>4 DEF TypeOK, NoDependency, NoHook, GoesOn, Guards
<1>5. CASE DependencyPasses \/ DependencyInvalid
    <2>1. /\ verdict' \in [Guards -> {"none", "refused", "invalid"} \cup HookOutcomes]
          /\ phase = "dependency"
        BY <1>1, <1>5, VerdictAfter DEF DependencyPasses, DependencyInvalid, Guards, HookOutcomes
    <2> QED
        BY <1>1, <1>5, <2>1 DEF TypeOK, DependencyPasses, DependencyInvalid, GoesOn, Guards
<1>6. CASE DependencyRefuses
    BY <1>1, <1>6, VerdictAfter DEF TypeOK, DependencyRefuses, Answered, Guards
<1>7. CASE \E o \in HookOutcomes : HookGrants(o) \/ HookDenies(o) \/ DocsWithout(o)
    <2>1. PICK o \in HookOutcomes : HookGrants(o) \/ HookDenies(o) \/ DocsWithout(o)
        BY <1>7
    <2>2. /\ verdict' \in [Guards -> {"none", "refused", "invalid"} \cup HookOutcomes]
          /\ phase = "hook"
        BY <1>1, <2>1, VerdictAfter DEF HookGrants, HookDenies, DocsWithout, Guards
    <2>3. CASE HookGrants(o)
        BY <1>1, <2>2, <2>3 DEF TypeOK, HookGrants, GoesOn
    <2>4. CASE HookDenies(o)
        <3>1. SafeStatus(o) \in {401, 403}
            BY DEF SafeStatus
        <3>2. /\ phase' = "idle" /\ response'.status \in {401, 403}
              /\ UNCHANGED <<scenario, events, recorded, request, selected, seen>>
            BY <2>4, <3>1 DEF HookDenies, Answered
        <3> QED
            BY <1>1, <2>2, <3>2 DEF TypeOK
    <2>5. CASE DocsWithout(o)
        BY <1>1, <2>2, <2>5 DEF TypeOK, DocsWithout, Answered
    <2> QED
        BY <2>1, <2>3, <2>4, <2>5
<1>8. CASE ReadList
    <2>1. IsStore(events) /\ request.limit \in Nat
        BY <1>1, <1>8, ApiAssumption, LimitIsValid DEF Sighted, ReadList, ValidLimit
    <2>2. Len(selected') <= request.limit
        BY <1>8, <2>1, LatestStore DEF ReadList
    <2> QED
        BY <1>1, <1>8, <2>2 DEF TypeOK, ReadList, Handles
<1>9. CASE list_requests
    BY <1>1, <1>9, ListResponds DEF TypeOK, Respond, Answered
<1>10. CASE Handle /\ ~ReadList /\ ~list_requests
    BY <1>1, <1>10, HandleIs DEF TypeOK, Respond, Answered
<1>11. CASE UNCHANGED vars
    BY <1>1, <1>11 DEF TypeOK, vars
<1> QED
    BY <1>2, <1>3, <1>4, <1>5, <1>6, <1>7, <1>8, <1>9, <1>10, <1>11 DEF Next

-----------------------------------------------------------------------------
(* Access control *)

\* Admission depends on the verdict, the guards and the kind of request alone.
LEMMA ControlStep == IInv /\ [Next]_vars => Controlled' /\ DeniedSeesNothing'
<1> SUFFICES ASSUME IInv, [Next]_vars PROVE Controlled' /\ DeniedSeesNothing'
    OBVIOUS
<1> USE DEF app, DependencyIsThrough, HookGranted
<1>1. TypeOK /\ Controlled /\ DeniedSeesNothing
    BY DEF IInv
<1>2. CASE Record \/ Clear
    BY <1>1, <1>2, AppSteps DEF Controlled, DeniedSeesNothing, Admitted
<1>3. CASE \E r \in scenario.requests : Ask(r)
    <2>1. PICK r \in scenario.requests : Ask(r)
        BY <1>3
    <2> QED
        BY <2>1 DEF Ask, Controlled, DeniedSeesNothing, NoVerdict
<1>4. CASE NoDependency
    BY <1>1, <1>4 DEF NoDependency, GoesOn, Controlled, DeniedSeesNothing, NoVerdict
<1>5. CASE DependencyPasses \/ DependencyInvalid
    <2>1. /\ verdict'["dependency"] \in {"True", "invalid"}
          /\ verdict'["hook"] = verdict["hook"] /\ phase = "dependency"
        BY <1>1, <1>5, VerdictAfter DEF DependencyPasses, DependencyInvalid, Guards, HookOutcomes
    <2> QED
        BY <1>1, <1>5, <2>1 DEF DependencyPasses, DependencyInvalid, GoesOn, Controlled,
                               DeniedSeesNothing, NoVerdict
<1>6. CASE DependencyRefuses
    <2>1. verdict'["hook"] = verdict["hook"] /\ phase = "dependency"
        BY <1>1, <1>6, VerdictAfter DEF DependencyRefuses, Guards
    <2> QED
        BY <1>1, <1>6, <2>1 DEF DependencyRefuses, Answered, Controlled, DeniedSeesNothing,
                               NoVerdict
<1>7. CASE NoHook
    BY <1>1, <1>7 DEF NoHook, GoesOn, Controlled, DeniedSeesNothing, Admitted
<1>8. CASE \E o \in HookOutcomes : HookGrants(o) \/ HookDenies(o) \/ DocsWithout(o)
    <2>1. PICK o \in HookOutcomes : HookGrants(o) \/ HookDenies(o) \/ DocsWithout(o)
        BY <1>8
    <2>2. /\ verdict'["hook"] = o /\ verdict'["dependency"] = verdict["dependency"]
          /\ phase = "hook"
        BY <1>1, <2>1, VerdictAfter DEF HookGrants, HookDenies, DocsWithout, Guards
    <2>3. CASE HookGrants(o)
        BY <1>1, <2>2, <2>3 DEF HookGrants, Granted, GoesOn, Controlled, DeniedSeesNothing,
                               Admitted
    <2>4. CASE HookDenies(o)
        BY <1>1, <2>2, <2>4 DEF HookDenies, Answered, SafeStatus, Controlled, DeniedSeesNothing
    <2>5. CASE DocsWithout(o)
        BY <1>1, <2>2, <2>5 DEF DocsWithout, Answered, Controlled, DeniedSeesNothing
    <2> QED
        BY <2>1, <2>3, <2>4, <2>5
<1>9. CASE ReadList
    <2>1. verdict.dependency # "invalid"
        BY <1>9 DEF ReadList, Handles, Wrong
    <2> QED
        BY <1>1, <1>9, <2>1 DEF ReadList, Handles, Controlled, DeniedSeesNothing, Admitted
<1>10. CASE list_requests
    BY <1>1, <1>10, ListResponds DEF Respond, Answered, Controlled, DeniedSeesNothing, Admitted
<1>11. CASE Handle /\ ~ReadList /\ ~list_requests
    BY <1>1, <1>11, HandleIs DEF Respond, Answered, Controlled, DeniedSeesNothing, Admitted
<1>12. CASE UNCHANGED vars
    BY <1>1, <1>12 DEF vars, Controlled, DeniedSeesNothing, Admitted
<1> QED
    BY <1>2, <1>3, <1>4, <1>5, <1>6, <1>7, <1>8, <1>9, <1>10, <1>11, <1>12 DEF Next

-----------------------------------------------------------------------------
(* What the client has seen *)

LEMMA SightStep == IInv /\ [Next]_vars => Sighted'
<1> SUFFICES ASSUME IInv, [Next]_vars PROVE Sighted'
    OBVIOUS
<1> USE DEF app
<1>1. TypeOK /\ Sighted
    BY DEF IInv
<1>2. CASE Record \/ Clear
    <2>1. CASE phase = "idle"
        BY <1>1, <1>2, <2>1, AppSteps DEF Sighted
    <2>2. CASE phase # "idle"
        <3>1. IsSeq(seen) /\ seen' = Append(seen, events') /\ IsStore(events')
            BY <1>1, <1>2, <2>2, AppSteps DEF Sighted
        <3>2. /\ IsSeq(seen') /\ DOMAIN seen = 1..Len(seen) /\ Len(seen) \in Nat
              /\ Len(seen') = Len(seen) + 1 /\ seen'[Len(seen')] = events'
              /\ \A i \in DOMAIN seen : seen'[i] = seen[i]
            BY <3>1, AppendSeq
        <3>3. DOMAIN seen' = 1..Len(seen')
            BY <3>2 DEF IsSeq
        <3>4. \A i \in DOMAIN seen' : IsStore(seen'[i])
            <4>1. \A i \in DOMAIN seen' : i \in DOMAIN seen \/ i = Len(seen')
                BY <3>2, <3>3
            <4> QED
                BY <1>1, <3>1, <3>2, <4>1 DEF Sighted
        <3>5. DOMAIN seen \subseteq DOMAIN seen'
            BY <3>2, <3>3
        <3>6. phase' = "counting" =>
                /\ ValidLimit'
                /\ \E i \in DOMAIN seen' : selected' = LatestFirst(seen'[i], request'.limit)
            <4>1. UNCHANGED <<phase, request, selected>>
                BY <1>2, AppSteps
            <4>2. phase = "counting" =>
                    /\ ValidLimit
                    /\ \E i \in DOMAIN seen : selected = LatestFirst(seen[i], request.limit)
                BY <1>1 DEF Sighted
            <4> QED
                BY <3>2, <3>5, <4>1, <4>2 DEF ValidLimit
        <3> QED
            BY <3>1, <3>2, <3>4, <3>6 DEF Sighted
    <2> QED
        BY <2>1, <2>2
<1>3. CASE \E r \in scenario.requests : Ask(r)
    <2>1. seen' = <<events>> /\ phase' # "counting" /\ UNCHANGED events
        BY <1>3 DEF Ask
    <2>2. /\ IsSeq(<<events>>) /\ Len(<<events>>) = 1 /\ DOMAIN <<events>> = {1}
          /\ <<events>>[1] = events
        BY DEF IsSeq
    <2> QED
        BY <1>1, <2>1, <2>2 DEF Sighted
<1>4. CASE \E next : GoesOn(next) /\ next # "counting" /\ phase # "idle"
    BY <1>1, <1>4 DEF GoesOn, Sighted
<1>5. CASE \E status, body : Answered(status, body)
    BY <1>1, <1>5 DEF Answered, Sighted
<1>6. CASE ReadList
    <2>1. /\ IsSeq(seen) /\ seen # <<>> /\ phase = "handler"
          /\ selected' = LatestFirst(events, request.limit) /\ ValidLimit
          /\ UNCHANGED <<seen, events, request>>
        BY <1>1, <1>6, LimitIsValid DEF TypeOK, Sighted, ReadList, Handles
    <2>2. Len(seen) \in DOMAIN seen /\ seen[Len(seen)] = events
        BY <1>1, <2>1 DEF IsSeq, Sighted
    <2> QED
        BY <1>1, <2>1, <2>2 DEF Sighted, ValidLimit
<1>7. CASE UNCHANGED vars
    BY <1>1, <1>7 DEF vars, Sighted, ValidLimit
<1>8. CASE NoDependency \/ NoHook \/ DependencyPasses \/ DependencyInvalid
    BY <1>4, <1>8 DEF NoDependency, NoHook, DependencyPasses, DependencyInvalid, Judged
<1>9. CASE DependencyRefuses
    BY <1>5, <1>9 DEF DependencyRefuses
<1>10. CASE \E o \in HookOutcomes : HookGrants(o) \/ HookDenies(o) \/ DocsWithout(o)
    BY <1>4, <1>5, <1>10 DEF HookGrants, HookDenies, DocsWithout, Judged
<1>11. CASE list_requests
    BY <1>5, <1>11, ListResponds DEF Respond
<1>12. CASE Handle /\ ~ReadList /\ ~list_requests
    BY <1>5, <1>12, HandleIs DEF Respond
<1> QED
    BY <1>2, <1>3, <1>6, <1>7, <1>8, <1>9, <1>10, <1>11, <1>12 DEF Next

-----------------------------------------------------------------------------
(* GET /requests *)

\* The answer to a list request that began when only one state had been seen,
\* or several.
LEMMA ListAnswered == IInv /\ list_requests => ListIsASnapshot'
<1> SUFFICES ASSUME IInv, list_requests PROVE ListIsASnapshot'
    OBVIOUS
<1>1. PICK body :
        /\ phase = "counting" /\ Respond(200, body) /\ body.kind = "list"
        /\ Ids(body.items) = Ids(selected) /\ Len(body.items) = Len(selected)
        /\ body.total_stored_requests = Len(events)
        /\ body.is_truncated = (Len(events) > request.limit)
    BY ListResponds
<1>2. response'.body = body /\ UNCHANGED <<request, seen>>
    BY <1>1 DEF Respond, Answered
<1>3. PICK i \in DOMAIN seen : selected = LatestFirst(seen[i], request.limit)
    BY <1>1 DEF IInv, Sighted
<1>4. /\ IsSeq(seen) /\ seen # <<>> /\ seen[Len(seen)] = events /\ IsStore(seen[i])
      /\ request.limit \in Nat
    BY <1>1, ApiAssumption DEF IInv, TypeOK, Sighted, ValidLimit
<1>5. DOMAIN seen = 1..Len(seen) /\ Len(seen) \in Nat /\ Len(seen) \in DOMAIN seen
    BY <1>4 DEF IsSeq
<1>6. \E m, n \in DOMAIN seen :
        /\ m <= n
        /\ Ids(body.items) = Ids(LatestFirst(seen[m], request.limit))
        /\ body.total_stored_requests = Len(seen[n])
    BY <1>1, <1>3, <1>4, <1>5
<1>7. Len(seen) = 1 => (body.is_truncated <=> Len(body.items) < body.total_stored_requests)
    <2>1. ASSUME Len(seen) = 1
          PROVE  Len(body.items) = Minimum(request.limit, Len(events)) /\ Len(events) \in Nat
        <3>1. seen[i] = events
            BY <1>4, <1>5, <2>1
        <3> QED
            BY <1>1, <1>3, <1>4, <3>1, LatestStore
    <2>2. ASSUME Len(seen) = 1
          PROVE  Len(events) > request.limit <=> Len(body.items) < Len(events)
        BY <1>4, <2>1, <2>2 DEF Minimum
    <2> QED
        BY <1>1, <2>2, Zenon
<1> QED
    BY <1>2, <1>6, <1>7 DEF ListIsASnapshot

LEMMA SnapshotStep == IInv /\ [Next]_vars => ListIsASnapshot'
<1> SUFFICES ASSUME IInv, [Next]_vars PROVE ListIsASnapshot'
    OBVIOUS
<1>1. ListIsASnapshot
    BY DEF IInv
<1>2. CASE Record \/ Clear
    <2>1. UNCHANGED <<phase, request, response>> /\ (phase = "idle" => seen' = seen)
        BY <1>2, AppSteps
    <2> QED
        BY <1>1, <2>1 DEF ListIsASnapshot, Answer
<1>3. CASE \E r \in scenario.requests : Ask(r)
    BY <1>3 DEF Ask, ListIsASnapshot, Answer
<1>4. CASE \E next : GoesOn(next) /\ next # "idle"
    BY <1>4 DEF GoesOn, ListIsASnapshot, Answer
<1>5. CASE \E status, body : Answered(status, body) /\ body.kind # "list"
    BY <1>5 DEF Answered, ListIsASnapshot, Answer
<1>6. CASE ReadList
    BY <1>6 DEF ReadList, ListIsASnapshot, Answer
<1>7. CASE list_requests
    BY <1>7, ListAnswered
<1>8. CASE Handle /\ ~ReadList /\ ~list_requests
    BY <1>5, <1>8, HandleIs DEF Respond
<1>9. CASE NoDependency \/ NoHook \/ DependencyPasses \/ DependencyInvalid
    BY <1>4, <1>9 DEF NoDependency, NoHook, DependencyPasses, DependencyInvalid
<1>10. CASE DependencyRefuses
    BY <1>5, <1>10 DEF DependencyRefuses, Refused
<1>11. CASE \E o \in HookOutcomes : HookGrants(o) \/ HookDenies(o) \/ DocsWithout(o)
    BY <1>4, <1>5, <1>11 DEF HookGrants, HookDenies, DocsWithout, Refused
<1>12. CASE UNCHANGED vars
    BY <1>1, <1>12 DEF vars, ListIsASnapshot, Answer
<1> QED
    BY <1>2, <1>3, <1>6, <1>7, <1>8, <1>9, <1>10, <1>11, <1>12 DEF Next

-----------------------------------------------------------------------------
(* Rows in order *)

\* Ordered lists every row once, in the order of Precedes: no two of them first
\* appear at the same place, so the order leaves nothing open.
LEMMA OrderIs ==
    ASSUME NEW rows, IsFiniteSet(rows),
           \A r \in rows : r.count \in Nat /\ r.weight \in Nat /\ r.first \in Nat,
           \A r, q \in rows : r.first = q.first => r = q,
           NEW n, n = Cardinality(rows), NEW s, s = Ordered(rows)
    PROVE  /\ n \in Nat /\ s \in [1..n -> rows]
           /\ \A i, j \in 1..n : i < j => Precedes(s[i], s[j])
           /\ \A i, j \in 1..n : s[i] = s[j] => i = j
           /\ \A r \in rows : \E i \in 1..n : s[i] = r
<1> DEFINE R == {p \in rows \X rows : Precedes(p[1], p[2])}
<1>1. n \in Nat /\ IsFiniteSet(1..n) /\ Cardinality(1..n) = n
    BY FS_CardinalityType, FS_Interval
<1>2. \A x, y \in rows : <<x, y>> \in R <=> Precedes(x, y)
    OBVIOUS
<1> HIDE DEF R
<1>3. \A x, y \in rows : x # y => Precedes(x, y) \/ Precedes(y, x)
    BY DEF Precedes
<1>4. \A x, y \in rows : Precedes(x, y) => ~Precedes(y, x)
    BY DEF Precedes
<1>5. \A x, y, z \in rows : Precedes(x, y) /\ Precedes(y, z) => Precedes(x, z)
    BY DEF Precedes
<1>6. PICK g : IsListing(g, rows, R)
    <2>1. IsStrictOrder(R, rows)
        BY <1>2, <1>3, <1>4, <1>5 DEF IsStrictOrder
    <2> QED
        BY <2>1, ListedInOrder
<1>7. g \in [1..n -> rows] /\ \A i, j \in 1..n : i < j => Precedes(g[i], g[j])
    <2>1. \A i \in 1..n : g[i] \in rows
        BY <1>6 DEF IsListing
    <2> QED
        BY <1>2, <1>6, <2>1 DEF IsListing
<1>8. /\ s \in [1..n -> rows]
      /\ \A i, j \in 1..n : i < j => Precedes(s[i], s[j])
    BY <1>7 DEF Ordered
<1>9. \A i, j \in 1..n : s[i] = s[j] => i = j
    <2> SUFFICES ASSUME NEW i \in 1..n, NEW j \in 1..n, s[i] = s[j], i # j PROVE FALSE
        OBVIOUS
    <2>1. s[i] \in rows /\ s[j] \in rows
        BY <1>8
    <2>2. i < j \/ j < i
        BY <1>1
    <2> QED
        BY <1>4, <1>8, <2>1, <2>2
<1>10. s \in Surjection(1..n, rows)
    <2>1. s \in Injection(1..n, rows)
        BY <1>8, <1>9, Fun_IsInj
    <2> QED
        BY <1>1, <2>1, FS_Injection
<1> QED
    BY <1>1, <1>8, <1>9, <1>10 DEF Surjection

-----------------------------------------------------------------------------
(* The table of routes *)

LEMMA SeqIs ==
    ASSUME NEW s, IsSeq(s)
    PROVE  /\ Len(s) \in Nat /\ DOMAIN s = 1..Len(s) /\ IsFiniteSet(DOMAIN s)
           /\ Cardinality(DOMAIN s) = Len(s) /\ DOMAIN s \subseteq Nat
<1>1. Len(s) \in Nat /\ DOMAIN s = 1..Len(s)
    BY DEF IsSeq
<1>2. IsFiniteSet(1..Len(s)) /\ Cardinality(1..Len(s)) = Len(s)
    BY <1>1, IntervalIs
<1> QED
    BY <1>1, <1>2

\* A sum over a sequence, by its units.
LEMMA TotalIs ==
    ASSUME NEW s
    PROVE  /\ Total(s, LAMBDA e : e.total_query_count) =
                Cardinality(Units(DOMAIN s, [i \in DOMAIN s |-> s[i].total_query_count]))
           /\ Total(s, LAMBDA r : r.count) =
                Cardinality(Units(DOMAIN s, [i \in DOMAIN s |-> s[i].count]))
           /\ Total(s, LAMBDA r : r.total_queries) =
                Cardinality(Units(DOMAIN s, [i \in DOMAIN s |-> s[i].total_queries]))
<1>1. UNION {{i} \X (1..s[i].total_query_count) : i \in DOMAIN s} =
        Units(DOMAIN s, [i \in DOMAIN s |-> s[i].total_query_count])
    BY DEF Units
<1>2. UNION {{i} \X (1..s[i].count) : i \in DOMAIN s} =
        Units(DOMAIN s, [i \in DOMAIN s |-> s[i].count])
    BY DEF Units
<1>3. UNION {{i} \X (1..s[i].total_queries) : i \in DOMAIN s} =
        Units(DOMAIN s, [i \in DOMAIN s |-> s[i].total_queries])
    BY DEF Units
<1> QED
    BY <1>1, <1>2, <1>3 DEF Total, SumOver

QueryCounts(s) == [i \in DOMAIN s |-> s[i].total_query_count]

\* What a row says of its route.
LEMMA RowIs ==
    ASSUME NEW view, IsMeasured(view), NEW k \in DOMAIN view,
           NEW r, r = view[k].route_template, NEW row, row = RouteRow(view, r)
    PROVE  /\ row.route_template = r
           /\ row.count = Cardinality(EventsOf(view, r)) /\ row.count \in Nat
           /\ row.weight \in Nat
           /\ row.total_queries = Cardinality(Units(EventsOf(view, r), QueryCounts(view)))
           /\ row.total_queries \in Nat
           /\ row.first \in EventsOf(view, r) /\ row.first \in Nat
<1> DEFINE E == EventsOf(view, r)
           durations == [i \in DOMAIN view |-> view[i].duration_ms]
<1>1. /\ E \in SUBSET DOMAIN view /\ k \in E /\ IsFiniteSet(DOMAIN view)
      /\ DOMAIN view \subseteq Nat
    BY SeqIs DEF EventsOf, IsMeasured
<1>2. IsFiniteSet(E) /\ Cardinality(E) \in Nat /\ E \subseteq Nat /\ E # {}
    BY <1>1, FS_Subset, FS_CardinalityType
<1>3. Min(E) \in E
    BY <1>2, LeastIs
<1>4. \A i \in E : durations[i] \in Nat /\ QueryCounts(view)[i] \in Nat
    BY <1>1 DEF IsMeasured, QueryCounts
<1>5. /\ UNION {{i} \X (1..view[i].duration_ms) : i \in E} = Units(E, durations)
      /\ UNION {{i} \X (1..view[i].total_query_count) : i \in E} = Units(E, QueryCounts(view))
    BY <1>1 DEF Units, QueryCounts
<1> HIDE DEF durations, E
<1>6. /\ Cardinality(Units(E, durations)) \in Nat
      /\ Cardinality(Units(E, QueryCounts(view))) \in Nat
    BY <1>2, <1>4, FiniteUnits
<1>7. /\ row.route_template = r /\ row.count = Cardinality(E) /\ row.first = Min(E)
      /\ row.weight = Cardinality(Units(E, durations))
      /\ row.total_queries = Cardinality(Units(E, QueryCounts(view)))
    BY <1>5 DEF RouteRow, SumOver, E
<1> QED
    BY <1>2, <1>3, <1>6, <1>7 DEF E

\* One row for each route, with what is its own, the busiest first.
LEMMA RoutesAre ==
    ASSUME NEW view, IsMeasured(view), NEW routes, routes = _aggregate_routes(view)
    PROVE  /\ IsSeq(routes)
           /\ \A k \in DOMAIN routes : \E i \in DOMAIN view :
                routes[k] = RouteRow(view, view[i].route_template)
           /\ \A j, k \in DOMAIN routes :
                routes[j].route_template = routes[k].route_template => j = k
           /\ \A i \in DOMAIN view : \E k \in DOMAIN routes :
                routes[k].route_template = view[i].route_template
           /\ \A j, k \in DOMAIN routes : j < k => routes[j].count >= routes[k].count
<1> DEFINE rows == {RouteRow(view, view[i].route_template) : i \in DOMAIN view}
           n == Cardinality(rows)
           row == [i \in DOMAIN view |-> RouteRow(view, view[i].route_template)]
<1>1. IsFiniteSet(DOMAIN view)
    BY SeqIs DEF IsMeasured
<1>2. IsFiniteSet(rows)
    <2>1. row \in Surjection(DOMAIN view, rows)
        BY Fun_IsSurj
    <2> QED
        BY <1>1, <2>1, FS_Surjection
<1>3. \A r \in rows : /\ r.count \in Nat /\ r.weight \in Nat /\ r.first \in Nat
                      /\ r.first \in EventsOf(view, r.route_template)
                      /\ r = RouteRow(view, r.route_template)
    BY RowIs
<1>4. routes = Ordered(rows)
    BY DEF _aggregate_routes
<1>5. \A i \in DOMAIN view : /\ RouteRow(view, view[i].route_template) \in rows
                             /\ RouteRow(view, view[i].route_template).route_template =
                                    view[i].route_template
    BY RowIs
<1>6. \A r \in rows : \E i \in DOMAIN view : r = RouteRow(view, view[i].route_template)
    OBVIOUS
<1> HIDE DEF rows
<1>7. \A r, q \in rows : r.route_template = q.route_template => r = q
    BY <1>3
<1>8. \A r, q \in rows : r.first = q.first => r = q
    BY <1>3, <1>7 DEF EventsOf
<1>9. /\ n \in Nat /\ routes \in [1..n -> rows]
      /\ \A i, j \in 1..n : i < j => Precedes(routes[i], routes[j])
      /\ \A i, j \in 1..n : routes[i] = routes[j] => i = j
      /\ \A r \in rows : \E i \in 1..n : routes[i] = r
    BY <1>2, <1>3, <1>4, <1>8, OrderIs
<1>10. DOMAIN routes = 1..n /\ IsSeq(routes)
    <2>1. routes \in Seq(rows)
        BY <1>9
    <2> QED
        BY <1>9, <2>1, SeqOfOwn
<1>11. \A k \in 1..n : routes[k] \in rows
    BY <1>9
<1>12. \A j, k \in 1..n : j < k => routes[j].count >= routes[k].count
    BY <1>3, <1>9, <1>11 DEF Precedes
<1>13. \A i \in DOMAIN view : \E k \in 1..n : routes[k].route_template = view[i].route_template
    <2> SUFFICES ASSUME NEW i \in DOMAIN view
                 PROVE  \E k \in 1..n : routes[k].route_template = view[i].route_template
        OBVIOUS
    <2>1. PICK k \in 1..n : routes[k] = RouteRow(view, view[i].route_template)
        BY <1>5, <1>9
    <2> QED
        BY <1>5, <2>1
<1>14. \A j, k \in 1..n : routes[j].route_template = routes[k].route_template => j = k
    BY <1>7, <1>9, <1>11
<1> QED
    BY <1>6, <1>10, <1>11, <1>12, <1>13, <1>14

\* The counts of the rows are those of all events, and so are their queries.
LEMMA RoutesSum ==
    ASSUME NEW view, IsMeasured(view), NEW routes, routes = _aggregate_routes(view)
    PROVE  /\ Total(routes, LAMBDA r : r.count) = Len(view)
           /\ Total(routes, LAMBDA r : r.total_queries) =
                Total(view, LAMBDA e : e.total_query_count)
<1> DEFINE K == DOMAIN routes
           N == DOMAIN view
           Of == [k \in K |-> EventsOf(view, routes[k].route_template)]
           units == [k \in K |-> Units(Of[k], QueryCounts(view))]
           count == [k \in K |-> routes[k].count]
           total == [k \in K |-> routes[k].total_queries]
<1>1. /\ IsFiniteSet(K) /\ IsFiniteSet(N) /\ Cardinality(N) = Len(view)
      /\ \A i \in N : QueryCounts(view)[i] \in Nat
    BY RoutesAre, SeqIs DEF IsMeasured, QueryCounts
<1>2. \A k \in K : /\ count[k] = Cardinality(Of[k])
                   /\ total[k] = Cardinality(units[k])
    <2> SUFFICES ASSUME NEW k \in K
                 PROVE  /\ routes[k].count = Cardinality(Of[k])
                        /\ routes[k].total_queries = Cardinality(units[k])
        OBVIOUS
    <2>1. PICK i \in N : routes[k] = RouteRow(view, view[i].route_template)
        BY RoutesAre
    <2> QED
        BY <2>1, RowIs
<1>3. \A k \in K : Of[k] \in SUBSET N
    BY DEF EventsOf
<1>4. \A k \in K : IsFiniteSet(Of[k])
    BY <1>1, <1>3, FS_Subset
<1>5. \A j, k \in K : j # k => Of[j] \cap Of[k] = {}
    BY RoutesAre DEF EventsOf
<1>6. UNION {Of[k] : k \in K} = N
    <2>1. \A i \in N : \E k \in K : i \in Of[k]
        BY RoutesAre DEF EventsOf
    <2> QED
        BY <1>3, <2>1
<1>7. \A k \in K : units[k] = Units(Of[k], QueryCounts(view))
    OBVIOUS
<1>8. count = [i \in DOMAIN routes |-> routes[i].count]
      /\ total = [i \in DOMAIN routes |-> routes[i].total_queries]
    OBVIOUS
<1> HIDE DEF Of, units, count, total, K, N
<1>9. \A k \in K : IsFiniteSet(units[k])
    <2> SUFFICES ASSUME NEW k \in K PROVE IsFiniteSet(units[k])
        OBVIOUS
    <2>1. IsFiniteSet(Of[k]) /\ \A i \in Of[k] : QueryCounts(view)[i] \in Nat
        BY <1>1, <1>3, <1>4
    <2> QED
        BY <1>7, <2>1, FiniteUnits
<1>10. \A j, k \in K : j # k => units[j] \cap units[k] = {}
    <2> SUFFICES ASSUME NEW j \in K, NEW k \in K, j # k, NEW p, p \in units[j], p \in units[k]
                 PROVE  FALSE
        OBVIOUS
    <2>1. PICK i \in Of[j] : \E n \in 1..QueryCounts(view)[i] : p = <<i, n>>
        BY <1>7, UnitsAre
    <2>2. PICK l \in Of[k] : \E n \in 1..QueryCounts(view)[l] : p = <<l, n>>
        BY <1>7, UnitsAre
    <2>3. i = l
        BY <2>1, <2>2
    <2> QED
        BY <1>5, <2>3
<1>11. UNION {units[k] : k \in K} = Units(N, QueryCounts(view))
    <2>1. ASSUME NEW k \in K PROVE units[k] \subseteq Units(N, QueryCounts(view))
        BY <1>3, <1>7 DEF Units
    <2>2. ASSUME NEW p \in Units(N, QueryCounts(view)) PROVE \E k \in K : p \in units[k]
        <3>1. PICK i \in N : \E n \in 1..QueryCounts(view)[i] : p = <<i, n>>
            BY UnitsAre
        <3>2. PICK k \in K : i \in Of[k]
            BY <1>6
        <3> QED
            BY <1>7, <3>1, <3>2, UnitsAre
    <2> QED
        BY <2>1, <2>2
<1>12. Cardinality(Units(K, count)) = Cardinality(N)
    BY <1>1, <1>2, <1>4, <1>5, <1>6, SumOfSizes
<1>13. Cardinality(Units(K, total)) = Cardinality(Units(N, QueryCounts(view)))
    BY <1>1, <1>2, <1>9, <1>10, <1>11, SumOfSizes
<1>14. /\ Total(routes, LAMBDA r : r.count) = Cardinality(Units(K, count))
       /\ Total(routes, LAMBDA r : r.total_queries) = Cardinality(Units(K, total))
       /\ Total(view, LAMBDA e : e.total_query_count) =
            Cardinality(Units(N, QueryCounts(view)))
    BY <1>8, TotalIs DEF K, N, QueryCounts
<1> QED
    BY <1>1, <1>12, <1>13, <1>14

LEMMA MinimumIs ==
    ASSUME NEW a \in Nat, NEW b \in Nat
    PROVE  /\ Minimum(a, b) \in Nat /\ Minimum(a, b) \in {a, b}
           /\ Minimum(a, b) <= a /\ Minimum(a, b) <= b
           /\ b <= a => Minimum(a, b) = b
BY DEF Minimum

\* The first rows of a table.
LEMMA CutIs ==
    ASSUME NEW rows, IsSeq(rows), NEW limit \in Nat
    PROVE  /\ DOMAIN Cut(rows, limit) = 1..Minimum(limit, Len(rows))
           /\ Minimum(limit, Len(rows)) \in Nat
           /\ \A i \in DOMAIN Cut(rows, limit) :
                i \in DOMAIN rows /\ Cut(rows, limit)[i] = rows[i]
           /\ ~(Len(rows) > limit) => Cut(rows, limit) = rows
<1> DEFINE m == Minimum(limit, Len(rows))
<1>1. Len(rows) \in Nat /\ DOMAIN rows = 1..Len(rows)
    BY SeqIs
<1>2. m \in Nat /\ m <= Len(rows) /\ m \in {limit, Len(rows)} /\ m <= limit
    BY <1>1, MinimumIs
<1>3. Min({limit, Len(rows)}) = m
    BY <1>1, <1>2 DEF Min
<1> DEFINE S == {rows[i] : i \in DOMAIN rows}
<1>4. rows \in Seq(S)
    BY DEF IsSeq
<1> HIDE DEF S
<1>5. Cut(rows, limit) = SubSeq(rows, 1, m)
    BY <1>3 DEF Cut
<1>6. /\ SubSeq(rows, 1, m) \in Seq(S) /\ Len(SubSeq(rows, 1, m)) = m
      /\ \A i \in 1..m : SubSeq(rows, 1, m)[i] = rows[i]
    BY <1>1, <1>2, <1>4
<1>7. ~(Len(rows) > limit) => SubSeq(rows, 1, m) = rows
    <2>1. ASSUME ~(Len(rows) > limit) PROVE m = Len(rows)
        BY <1>1, <2>1, MinimumIs
    <2>2. SubSeq(rows, 1, Len(rows)) = rows
        BY <1>1, <1>4
    <2> QED
        BY <2>1, <2>2
<1> QED
    BY <1>1, <1>2, <1>5, <1>6, <1>7

\* What GET /aggregates sees: the stored events, the newest first.
LEMMA ViewIs ==
    ASSUME NEW s, IsMeasured(s), NEW n \in Nat, Len(s) <= n,
           NEW view, view = Redacted(LatestFirst(s, n))
    PROVE  /\ IsMeasured(view) /\ Len(view) = Len(s) /\ DOMAIN view = 1..Len(s)
           /\ \A i \in 1..Len(s) :
                /\ Len(s) - i + 1 \in 1..Len(s)
                /\ view[i].route_template = s[Len(s) - i + 1].route_template
<1> DEFINE L == Len(s)
           latest == LatestFirst(s, n)
           back(i) == s[L - i + 1]
<1>1. L \in Nat /\ DOMAIN s = 1..L
    BY SeqIs DEF IsMeasured
<1>2. Minimum(n, L) = L
    BY <1>1, MinimumIs
<1>3. latest = [i \in 1..L |-> back(i)]
    BY <1>2 DEF LatestFirst
<1>4. \A i \in 1..L : L - i + 1 \in 1..L
    BY <1>1
<1>5. DOMAIN view = 1..L /\ \A i \in 1..L : view[i] = redact_event(back(i), scenario.policy)
    BY <1>3 DEF Redacted
<1>6. \A i \in 1..L :
        /\ DOMAIN view[i] = DOMAIN back(i)
        /\ view[i].route_template = back(i).route_template
        /\ view[i].duration_ms = back(i).duration_ms
        /\ view[i].total_query_count = back(i).total_query_count
    <2> SUFFICES ASSUME NEW i \in 1..L
                 PROVE  /\ DOMAIN view[i] = DOMAIN back(i)
                        /\ view[i].route_template = back(i).route_template
                        /\ view[i].duration_ms = back(i).duration_ms
                        /\ view[i].total_query_count = back(i).total_query_count
        OBVIOUS
    <2>1. EventFields \subseteq DOMAIN back(i)
        BY <1>1, <1>4 DEF IsMeasured
    <2>2. \A event, policy : EventFields \subseteq DOMAIN event =>
            /\ DOMAIN redact_event(event, policy) = DOMAIN event
            /\ redact_event(event, policy).route_template = event.route_template
            /\ redact_event(event, policy).duration_ms = event.duration_ms
            /\ redact_event(event, policy).total_query_count = event.total_query_count
        BY DEF redact_event, EventFields
    <2> HIDE DEF back
    <2> QED
        BY <1>5, <2>1, <2>2
<1>7. IsSeq(view) /\ Len(view) = L
    <2> DEFINE S == {view[i] : i \in DOMAIN view}
    <2>1. view \in [1..L -> S]
        <3>1. view = [i \in 1..L |-> redact_event(back(i), scenario.policy)]
            BY <1>3 DEF Redacted
        <3> QED
            BY <1>5, <3>1
    <2>2. view \in Seq(S)
        BY <1>1, <2>1
    <2> QED
        BY <1>1, <1>5, <2>2, SeqOfOwn
<1>8. \A i \in 1..L : /\ EventFields \subseteq DOMAIN view[i]
                      /\ view[i].duration_ms \in Nat /\ view[i].total_query_count \in Nat
    BY <1>1, <1>4, <1>6 DEF IsMeasured
<1> QED
    BY <1>4, <1>5, <1>6, <1>7, <1>8 DEF IsMeasured

-----------------------------------------------------------------------------
(* GET /aggregates *)

\* No handler but one answers with tables.
LEMMA HandleAnswers ==
    ASSUME IInv, Handle
    PROVE  \/ ReadList
           \/ get_aggregates
           \/ \E status, body : Respond(status, body) /\ body.kind # "aggregates"
<1>1. CASE InvalidParameters
    BY <1>1 DEF InvalidParameters
<1>2. CASE health_check
    BY <1>2 DEF health_check
<1>3. CASE get_request_detail
    BY <1>3 DEF get_request_detail
<1>4. CASE DetailMissing
    BY <1>4 DEF DetailMissing
<1>5. CASE list_requests
    BY <1>5, ListResponds
<1>6. CASE Asset
    BY <1>6 DEF Asset
<1>7. CASE Docs
    BY <1>7 DEF Docs
<1> QED
    BY <1>1, <1>2, <1>3, <1>4, <1>5, <1>6, <1>7 DEF Handle

\* The answer to GET /aggregates, as far as the routes are concerned.
LEMMA AggregatesRespond ==
    ASSUME get_aggregates,
           NEW view, view = Redacted(LatestFirst(events, Capacity)),
           NEW routes, routes = _aggregate_routes(view)
    PROVE  \E body :
            /\ Respond(200, body) /\ ValidLimit /\ phase = "handler"
            /\ body.routes = Cut(routes, request.limit)
            /\ body.is_routes_truncated = (Len(routes) > request.limit)
            /\ body.analysis_scope.request_count = Len(view)
            /\ body.analysis_scope.total_query_count =
                    Total(view, LAMBDA e : e.total_query_count)
<1> DEFINE scope == _analysis_scope(view)
           fingerprints == _aggregate_fingerprints(view)
           body == [kind |-> "aggregates",
                    routes       |-> Cut(routes, request.limit),
                    fingerprints |-> Cut(fingerprints, request.limit),
                    total_stored_requests |-> Len(view),
                    analysis_scope |-> scope,
                    is_routes_truncated       |-> Len(routes) > request.limit,
                    is_fingerprints_truncated |-> Len(fingerprints) > request.limit]
<1>1. /\ scope.request_count = Len(view)
      /\ scope.total_query_count = Total(view, LAMBDA e : e.total_query_count)
    BY DEF _analysis_scope
<1>2. Respond(200, body) /\ ValidLimit /\ phase = "handler"
    BY LimitIsValid DEF get_aggregates, Handles
<1> HIDE DEF scope, fingerprints
<1>3. /\ body.routes = Cut(routes, request.limit)
      /\ body.is_routes_truncated = (Len(routes) > request.limit)
      /\ body.analysis_scope = scope
    OBVIOUS
<1> HIDE DEF body
<1> QED
    BY <1>1, <1>2, <1>3

\* The view has as many events of a route as the store.
LEMMA SameNumber ==
    ASSUME NEW s, IsMeasured(s), NEW n \in Nat, Len(s) <= n,
           NEW view, view = Redacted(LatestFirst(s, n)), NEW r
    PROVE  /\ Cardinality(EventsOf(view, r)) = Cardinality(EventsOf(s, r))
           /\ Cardinality(EventsOf(s, r)) \in Nat
<1> DEFINE L == Len(s)
           S == EventsOf(view, r)
           T == EventsOf(s, r)
           F == [i \in S |-> L - i + 1]
<1>1. L \in Nat /\ DOMAIN s = 1..L /\ IsFiniteSet(1..L)
    BY SeqIs DEF IsMeasured
<1>2. /\ DOMAIN view = 1..L
      /\ \A i \in 1..L : /\ L - i + 1 \in 1..L
                         /\ view[i].route_template = s[L - i + 1].route_template
    BY ViewIs
<1> HIDE DEF L
<1>3. F \in [S -> T]
    BY <1>1, <1>2 DEF EventsOf
<1>4. \A a, b \in S : F[a] = F[b] => a = b
    BY <1>1, <1>2 DEF EventsOf
<1>5. \A t \in T : \E a \in S : F[a] = t
    <2> SUFFICES ASSUME NEW t \in T PROVE \E a \in S : F[a] = t
        OBVIOUS
    <2>1. t \in 1..L /\ s[t].route_template = r
        BY <1>1 DEF EventsOf
    <2>2. L - t + 1 \in 1..L /\ L - (L - t + 1) + 1 = t
        BY <1>1, <2>1
    <2>3. L - t + 1 \in S
        BY <1>2, <2>1, <2>2 DEF EventsOf
    <2> QED
        BY <2>2, <2>3
<1>6. IsFiniteSet(S)
    BY <1>1, <1>2, FS_Subset DEF EventsOf
<1> HIDE DEF S, T, F
<1>7. IsFiniteSet(T) /\ Cardinality(T) = Cardinality(S)
    BY <1>3, <1>4, <1>5, <1>6, Counts
<1> QED
    BY <1>7, FS_CardinalityType DEF S, T

\* A row counts the stored requests of its route, which a route that is cut off
\* does not exceed.
LEMMA RowsAreBusiest ==
    ASSUME NEW s, IsMeasured(s), NEW n \in Nat, Len(s) <= n,
           NEW routes, routes = _aggregate_routes(Redacted(LatestFirst(s, n))),
           NEW limit \in Nat, NEW rows, rows = Cut(routes, limit), NEW i \in DOMAIN rows
    PROVE  /\ rows[i].count = Cardinality(EventsOf(s, rows[i].route_template))
           /\ \A r : r \notin {rows[k].route_template : k \in DOMAIN rows} =>
                Cardinality(EventsOf(s, r)) <= rows[i].count
<1> DEFINE view == Redacted(LatestFirst(s, n))
           m == Minimum(limit, Len(routes))
           L == Len(s)
<1>1. IsMeasured(view) /\ DOMAIN view = 1..L
    BY ViewIs
<1>2. \A r : /\ Cardinality(EventsOf(view, r)) = Cardinality(EventsOf(s, r))
             /\ Cardinality(EventsOf(s, r)) \in Nat
    BY SameNumber
<1> HIDE DEF view
<1>3. routes = _aggregate_routes(view)
    BY DEF view
<1>4. /\ IsSeq(routes)
      /\ \A k \in DOMAIN routes : \E j \in DOMAIN view :
            routes[k] = RouteRow(view, view[j].route_template)
      /\ \A j \in DOMAIN view : \E k \in DOMAIN routes :
            routes[k].route_template = view[j].route_template
      /\ \A j, k \in DOMAIN routes : j < k => routes[j].count >= routes[k].count
    BY <1>1, <1>3, RoutesAre
<1>5. /\ m \in Nat /\ DOMAIN rows = 1..m
      /\ \A k \in 1..m : k \in DOMAIN routes /\ rows[k] = routes[k]
    <2>1. /\ DOMAIN rows = 1..m /\ m \in Nat
          /\ \A k \in DOMAIN rows : k \in DOMAIN routes /\ rows[k] = routes[k]
        BY <1>4, CutIs
    <2> QED
        BY <2>1
<1>6. \A k \in DOMAIN routes :
        routes[k].count = Cardinality(EventsOf(s, routes[k].route_template))
    <2> SUFFICES ASSUME NEW k \in DOMAIN routes
                 PROVE  routes[k].count =
                            Cardinality(EventsOf(s, routes[k].route_template))
        OBVIOUS
    <2>1. PICK j \in DOMAIN view : routes[k] = RouteRow(view, view[j].route_template)
        BY <1>4
    <2> QED
        BY <1>1, <1>2, <2>1, RowIs
<1>7. rows[i] = routes[i] /\ i \in DOMAIN routes /\ i \in 1..m
    BY <1>5
<1>8. ASSUME NEW r, r \notin {rows[k].route_template : k \in DOMAIN rows}
      PROVE  Cardinality(EventsOf(s, r)) <= rows[i].count
    <2>1. CASE EventsOf(view, r) = {}
        BY <1>2, <1>6, <1>7, <2>1, FS_EmptySet
    <2>2. CASE EventsOf(view, r) # {}
        <3>1. PICK j \in DOMAIN view : view[j].route_template = r
            BY <2>2 DEF EventsOf
        <3>2. PICK k \in DOMAIN routes : routes[k].route_template = r
            BY <1>4, <3>1
        <3>3. k \notin 1..m
            BY <1>5, <1>8, <3>2
        <3>4. k \in Nat /\ k >= 1
            BY <1>4, SeqIs
        <3>5. i < k
            BY <1>5, <1>7, <3>3, <3>4
        <3>6. routes[i].count >= routes[k].count
            BY <1>4, <1>7, <3>5
        <3> QED
            BY <1>2, <1>6, <1>7, <3>2, <3>6
    <2> QED
        BY <2>1, <2>2
<1> QED
    BY <1>6, <1>7, <1>8

\* The answer is true of the store that there is when it is given.
LEMMA AggregatesAnswered == TablesInv /\ get_aggregates => RoutesAddUp'
<1> SUFFICES ASSUME TablesInv, get_aggregates PROVE RoutesAddUp'
    OBVIOUS
<1> DEFINE view == Redacted(LatestFirst(events, Capacity))
           routes == _aggregate_routes(view)
           n == Len(seen)
<1>1. PICK body :
        /\ Respond(200, body) /\ ValidLimit /\ phase = "handler"
        /\ body.routes = Cut(routes, request.limit)
        /\ body.is_routes_truncated = (Len(routes) > request.limit)
        /\ body.analysis_scope.request_count = Len(view)
        /\ body.analysis_scope.total_query_count = Total(view, LAMBDA e : e.total_query_count)
    BY AggregatesRespond
<1>2. /\ IsMeasured(events) /\ Capacity \in Nat /\ Len(events) <= Capacity
      /\ request.limit \in Nat
    BY <1>1, ApiAssumption DEF TablesInv, IInv, TypeOK, ValidLimit
<1>3. IsSeq(seen) /\ seen # <<>> /\ seen[n] = events
    BY <1>1 DEF TablesInv, IInv, TypeOK, Sighted
<1>4. n \in DOMAIN seen
    BY <1>3 DEF IsSeq
<1>5. response'.body = body /\ seen' = seen
    BY <1>1 DEF Respond, Answered
<1>6. IsMeasured(view) /\ Len(view) = Len(events)
    BY <1>2, ViewIs
<1>7. \A i \in DOMAIN body.routes :
        /\ body.routes[i].count =
                Cardinality(EventsOf(events, body.routes[i].route_template))
        /\ \A r : r \notin {body.routes[k].route_template : k \in DOMAIN body.routes} =>
                Cardinality(EventsOf(events, r)) <= body.routes[i].count
    <2> DEFINE rows == Cut(routes, request.limit)
    <2>1. \A i \in DOMAIN rows :
            /\ rows[i].count = Cardinality(EventsOf(events, rows[i].route_template))
            /\ \A r : r \notin {rows[k].route_template : k \in DOMAIN rows} =>
                    Cardinality(EventsOf(events, r)) <= rows[i].count
        BY <1>2, RowsAreBusiest
    <2> HIDE DEF rows
    <2>2. body.routes = rows
        BY <1>1 DEF rows
    <2> QED
        BY <2>1, <2>2
<1> HIDE DEF view
<1>8. IsSeq(routes)
    BY <1>6, RoutesAre
<1>9. /\ Total(routes, LAMBDA r : r.count) = Len(view)
      /\ Total(routes, LAMBDA r : r.total_queries) = Total(view, LAMBDA e : e.total_query_count)
    BY <1>6, RoutesSum
<1> HIDE DEF routes
<1>10. ~body.is_routes_truncated => body.routes = routes
    BY <1>1, <1>2, <1>8, CutIs
<1>11. ~body.is_routes_truncated =>
        /\ Total(body.routes, LAMBDA r : r.count) = body.analysis_scope.request_count
        /\ Total(body.routes, LAMBDA r : r.total_queries) =
                body.analysis_scope.total_query_count
    BY <1>1, <1>9, <1>10
<1>12. RoutesAreOf(body, seen)
    <2>1. /\ body.analysis_scope.request_count = Len(seen[n])
          /\ \A i \in DOMAIN body.routes :
                /\ body.routes[i].count =
                        Cardinality(EventsOf(seen[n], body.routes[i].route_template))
                /\ \A r \in Routes \ {body.routes[k].route_template : k \in DOMAIN body.routes} :
                        Cardinality(EventsOf(seen[n], r)) <= body.routes[i].count
        BY <1>1, <1>3, <1>6, <1>7
    <2> QED
        BY <1>4, <1>11, <2>1 DEF RoutesAreOf
<1> QED
    BY <1>5, <1>12 DEF RoutesAddUp

\* Redaction leaves alone what was measured of a request.
LEMMA StoredIsMeasured ==
    ASSUME TypeOK, NEW n \in 1..Len(scenario.captures)
    PROVE  /\ EventFields \subseteq DOMAIN StoredEvent(n)
           /\ StoredEvent(n).duration_ms \in Nat /\ StoredEvent(n).total_query_count \in Nat
<1> DEFINE c == scenario.captures[n]
<1>1. c \in Captures
    BY ApiAssumption DEF TypeOK, ScenarioType
<1>2. c.duration_ms \in Nat /\ Len(c.queries) \in Nat
    BY <1>1 DEF Captures
<1>3. /\ EventFields \subseteq DOMAIN RequestEvent(n)
      /\ RequestEvent(n).duration_ms = c.duration_ms
      /\ RequestEvent(n).total_query_count = Len(c.queries)
    BY DEF RequestEvent, EventFields
<1>4. \A event, policy : EventFields \subseteq DOMAIN event =>
        /\ DOMAIN redact_event(event, policy) = DOMAIN event
        /\ redact_event(event, policy).duration_ms = event.duration_ms
        /\ redact_event(event, policy).total_query_count = event.total_query_count
    BY DEF redact_event, EventFields
<1> QED
    BY <1>2, <1>3, <1>4 DEF StoredEvent

\* An event of the store was there before, or is that of the request that ends.
LEMMA EventsCome ==
    ASSUME IInv, [Next]_vars
    PROVE  \A i \in DOMAIN events' :
            \/ \E j \in DOMAIN events : events'[i] = events[j]
            \/ /\ recorded + 1 \in 1..Len(scenario.captures)
               /\ events'[i] = StoredEvent(recorded + 1)
<1>1. TypeOK /\ IsStore(events) /\ IsSeq(events)
    BY DEF IInv, Sighted, IsStore
<1>2. CASE Record
    <2> DEFINE new == StoredEvent(recorded + 1)
               longer == Append(events, new)
    <2>1. recorded + 1 \in 1..Len(scenario.captures)
        <3>1. Len(scenario.captures) \in Nat
            BY <1>1, ApiAssumption DEF TypeOK, ScenarioType
        <3> QED
            BY <1>1, <1>2, <3>1 DEF TypeOK, Record
    <2>2. "request_id" \in DOMAIN new
        BY StoredId
    <2>3. events' = Newest(longer, Capacity) /\ Capacity \in Nat
        BY <1>2, ApiAssumption DEF Record
    <2> HIDE DEF new
    <2>4. IsStore(longer)
        BY <1>1, <2>2, AppendStore
    <2>5. \A i \in DOMAIN longer : longer[i] = new \/ \E j \in DOMAIN events : longer[i] = events[j]
        <3>1. /\ IsSeq(longer) /\ Len(longer) = Len(events) + 1 /\ Len(events) \in Nat
              /\ DOMAIN events = 1..Len(events) /\ longer[Len(events) + 1] = new
              /\ \A i \in DOMAIN events : longer[i] = events[i]
            BY <1>1, AppendSeq
        <3>2. DOMAIN longer = 1..Len(events) + 1
            BY <3>1, SeqIs
        <3> QED
            BY <3>1, <3>2
    <2> HIDE DEF longer
    <2>6. \A i \in DOMAIN Newest(longer, Capacity) : \E j \in DOMAIN longer :
                Newest(longer, Capacity)[i] = longer[j]
        BY <2>3, <2>4, NewestStore
    <2> DEFINE newest == Newest(longer, Capacity)
    <2>7. \A i \in DOMAIN newest : newest[i] = new \/ \E j \in DOMAIN events : newest[i] = events[j]
        BY <2>5, <2>6
    <2> HIDE DEF newest
    <2> QED
        BY <2>1, <2>3, <2>7 DEF new, newest
<1>3. CASE Clear
    BY <1>3 DEF Clear
<1>4. CASE UNCHANGED events
    BY <1>4
<1>5. CASE Handle
    BY <1>1, <1>4, <1>5, HandleIs, ListResponds DEF ReadList, Respond, Answered, app
<1>6. CASE NoDependency \/ NoHook \/ DependencyPasses \/ DependencyInvalid \/ DependencyRefuses
    BY <1>4, <1>6 DEF NoDependency, NoHook, DependencyPasses, DependencyInvalid, DependencyRefuses, GoesOn,
                      Answered, app
<1>7. CASE \E o \in HookOutcomes : HookGrants(o) \/ HookDenies(o) \/ DocsWithout(o)
    BY <1>4, <1>7 DEF HookGrants, HookDenies, DocsWithout, GoesOn, Answered, app
<1>8. CASE \E r \in scenario.requests : Ask(r)
    BY <1>4, <1>8 DEF Ask, app
<1>9. CASE UNCHANGED vars
    BY <1>4, <1>9 DEF vars, app
<1> QED
    BY <1>2, <1>3, <1>5, <1>6, <1>7, <1>8, <1>9 DEF Next

\* What is stored stays measured.
LEMMA MeasuredStep == TablesInv /\ [Next]_vars => IsMeasured(events)'
<1> SUFFICES ASSUME TablesInv, [Next]_vars PROVE IsMeasured(events)'
    OBVIOUS
<1>1. IInv /\ TypeOK /\ IsMeasured(events)
    BY DEF TablesInv, IInv
<1>2. IsSeq(events)'
    BY <1>1, SightStep DEF Sighted, IsStore
<1>3. ASSUME NEW i \in DOMAIN events'
      PROVE  /\ EventFields \subseteq DOMAIN events'[i]
             /\ events'[i].duration_ms \in Nat /\ events'[i].total_query_count \in Nat
    <2>1. CASE \E j \in DOMAIN events : events'[i] = events[j]
        BY <1>1, <2>1 DEF IsMeasured
    <2>2. CASE /\ recorded + 1 \in 1..Len(scenario.captures)
               /\ events'[i] = StoredEvent(recorded + 1)
        BY <1>1, <2>2, StoredIsMeasured
    <2> QED
        BY <1>1, <2>1, <2>2, EventsCome
<1> QED
    BY <1>2, <1>3 DEF IsMeasured

\* No other step changes an answer, or what had been seen when it was given.
LEMMA RoutesStep == TablesInv /\ [Next]_vars => RoutesAddUp'
<1> SUFFICES ASSUME TablesInv, [Next]_vars PROVE RoutesAddUp'
    OBVIOUS
<1>1. RoutesAddUp /\ IInv
    BY DEF TablesInv
<1>2. CASE Record \/ Clear
    <2>1. UNCHANGED <<phase, request, response>> /\ (phase = "idle" => seen' = seen)
        BY <1>1, <1>2, AppSteps
    <2> QED
        BY <1>1, <2>1 DEF RoutesAddUp, Answer
<1>3. CASE \E r \in scenario.requests : Ask(r)
    BY <1>3 DEF Ask, RoutesAddUp, Answer
<1>4. CASE \E next : GoesOn(next) /\ next # "idle"
    BY <1>4 DEF GoesOn, RoutesAddUp, Answer
<1>5. CASE \E status, body : Answered(status, body) /\ body.kind # "aggregates"
    BY <1>5 DEF Answered, RoutesAddUp, Answer
<1>6. CASE ReadList
    BY <1>6 DEF ReadList, RoutesAddUp, Answer
<1>7. CASE get_aggregates
    BY <1>7, AggregatesAnswered
<1>8. CASE Handle /\ ~ReadList /\ ~get_aggregates
    BY <1>1, <1>5, <1>8, HandleAnswers DEF Respond
<1>9. CASE NoDependency \/ NoHook \/ DependencyPasses \/ DependencyInvalid
    BY <1>4, <1>9 DEF NoDependency, NoHook, DependencyPasses, DependencyInvalid
<1>10. CASE DependencyRefuses
    BY <1>5, <1>10 DEF DependencyRefuses, Refused
<1>11. CASE \E o \in HookOutcomes : HookGrants(o) \/ HookDenies(o) \/ DocsWithout(o)
    BY <1>4, <1>5, <1>11 DEF HookGrants, HookDenies, DocsWithout, Refused
<1>12. CASE UNCHANGED vars
    BY <1>1, <1>12 DEF vars, app, RoutesAddUp, Answer
<1> QED
    BY <1>2, <1>3, <1>6, <1>7, <1>8, <1>9, <1>10, <1>11, <1>12 DEF Next

-----------------------------------------------------------------------------
(* The table of fingerprints *)

\* What redaction leaves of a query: neither statement nor fingerprint is blank.
Inked == {t \in Texts : IsNonBlank(t)}
KeptQueries == [statement: Inked, fingerprint: Inked, dialect: STRING, duration_ms: Nat]
AreQueried(s) ==
    \A i \in DOMAIN s : "queries" \in DOMAIN s[i] /\ s[i].queries \in Seq(KeptQueries)

\* The inductive invariant of the table of fingerprints.
PatternsInv == TablesInv /\ AreQueried(events) /\ PatternsAddUp

LEMMA RedactedQuery ==
    ASSUME NEW q \in KeptQueries, NEW policy, policy.max_statement_length \in Nat,
           policy.max_statement_length >= Len(TRUNCATION_MARKER)
    PROVE  _redact_query_event(q, policy) \in KeptQueries
<1> DEFINE m == policy.max_statement_length
           statement == Strip(redact_sql_statement(q.statement, q.dialect, m))
           made == make_sql_fingerprint(q.statement, q.dialect)
           fingerprint == Strip(truncate_str(made, m))
<1>1. q.statement \in Texts /\ IsNonBlank(q.statement)
    BY DEF KeptQueries, Inked
<1>2. statement \in Inked
    BY <1>1, StatementIs DEF Inked
<1>3. fingerprint \in Inked
    <2>1. made \in Texts /\ IsNonBlank(made)
        BY <1>1, FingerprintIs
    <2> HIDE DEF made
    <2>2. truncate_str(made, m) \in Texts /\ IsNonBlank(truncate_str(made, m))
        BY <2>1, TruncatedIs
    <2> QED
        BY <2>2, StripIs DEF Inked
<1>4. _redact_query_event(q, policy) =
        [q EXCEPT !.statement = statement, !.fingerprint = fingerprint]
    BY DEF _redact_query_event
<1> HIDE DEF statement, fingerprint
<1> QED
    BY <1>2, <1>3, <1>4 DEF KeptQueries

LEMMA RedactedQueries ==
    ASSUME NEW event, "queries" \in DOMAIN event, event.queries \in Seq(KeptQueries),
           NEW policy, policy.max_statement_length \in Nat,
           policy.max_statement_length >= Len(TRUNCATION_MARKER),
           policy.max_queries_per_request \in Nat
    PROVE  /\ "queries" \in DOMAIN redact_event(event, policy)
           /\ redact_event(event, policy).queries \in Seq(KeptQueries)
<1> DEFINE L == Len(event.queries)
           m == Min({L, policy.max_queries_per_request})
           kept == SubSeq(event.queries, 1, m)
           redacted == [i \in DOMAIN kept |-> _redact_query_event(kept[i], policy)]
<1>1. L \in Nat
    OBVIOUS
<1>2. m \in 0..L
    BY <1>1 DEF Min
<1> HIDE DEF m
<1>3. kept \in Seq(KeptQueries)
    BY <1>1, <1>2
<1> HIDE DEF kept
<1>4. redacted \in Seq(KeptQueries)
    <2>1. DOMAIN kept = 1..Len(kept) /\ Len(kept) \in Nat
        BY <1>3
    <2>2. \A i \in DOMAIN kept : _redact_query_event(kept[i], policy) \in KeptQueries
        BY <1>3, RedactedQuery
    <2> QED
        BY <2>1, <2>2
<1> HIDE DEF redacted
<1>5. redact_event(event, policy) = [event EXCEPT !.queries = redacted]
    BY DEF redact_event, kept, m, redacted
<1> QED
    BY <1>4, <1>5

\* The statement of a query of the application is a text with ink.
LEMMA TextIs ==
    ASSUME TypeOK, NEW n \in DOMAIN scenario.captures,
           NEW i \in DOMAIN scenario.captures[n].queries
    PROVE  /\ Text(scenario.captures[n].queries[i]) \in Inked
           /\ scenario.captures[n].queries[i].dialect \in STRING
           /\ scenario.captures[n].queries[i].duration_ms \in Nat
<1> DEFINE q == scenario.captures[n].queries[i]
           texts == [k \in DOMAIN q.sql |-> q.sql[k].text]
<1>1. q \in Queries
    <2>1. scenario.captures \in Seq(Captures)
        BY ApiAssumption DEF TypeOK, ScenarioType
    <2>2. scenario.captures[n] \in Captures
        BY <2>1
    <2> QED
        BY <2>2 DEF Captures
<1>2. q.sql \in Seq(Segments) /\ q.dialect \in STRING /\ q.duration_ms \in Nat
    BY <1>1 DEF Queries
<1>3. IsNonBlank(Text(q))
    BY ApiAssumption DEF TypeOK
<1> HIDE DEF q
<1>4. \A k \in DOMAIN q.sql : q.sql[k].text \in Texts
    <2> SUFFICES ASSUME NEW k \in DOMAIN q.sql PROVE q.sql[k].text \in Texts
        OBVIOUS
    <2>1. q.sql[k] \in Segments
        BY <1>2
    <2>2. q.sql[k].text \in Seq(STRING)
        BY <2>1 DEF Segments
    <2> QED
        BY <2>2, StringsAreTexts, Zenon
<1>5. texts \in Seq(Seq(Chars))
    BY <1>2, <1>4 DEF Texts
<1> HIDE DEF texts
<1>6. FlattenSeq(texts) \in Texts
    BY <1>5, Flattened DEF Collects, Texts
<1>7. Text(q) = FlattenSeq(texts)
    BY DEF Text, texts
<1> QED
    BY <1>2, <1>3, <1>6, <1>7 DEF Inked, q

LEMMA StoredIsQueried ==
    ASSUME TypeOK, NEW n \in 1..Len(scenario.captures)
    PROVE  "queries" \in DOMAIN StoredEvent(n) /\ StoredEvent(n).queries \in Seq(KeptQueries)
<1> DEFINE c == scenario.captures[n]
           kept == Min({Len(c.queries), scenario.policy.max_queries_per_request})
           captured(i) == CapturedQuery(Text(c.queries[i]), c.queries[i].dialect,
                                        c.queries[i].duration_ms, DefaultLength)
           event == RequestEvent(n)
<1>1. /\ scenario \in ScenarioType
      /\ scenario.policy.max_statement_length >= Len(TRUNCATION_MARKER)
      /\ DefaultLength \in Nat /\ DefaultLength >= Len(TRUNCATION_MARKER)
    BY ApiAssumption DEF TypeOK
<1>2. /\ scenario.captures \in Seq(Captures)
      /\ scenario.policy.max_statement_length \in Nat
      /\ scenario.policy.max_queries_per_request \in Nat
    BY <1>1 DEF ScenarioType
<1>3. n \in DOMAIN scenario.captures /\ c.queries \in Seq(Queries)
    <2>1. n \in DOMAIN scenario.captures
        BY <1>2
    <2>2. c \in Captures
        BY <1>2, <2>1
    <2> QED
        BY <2>1, <2>2 DEF Captures
<1>4. kept \in 0..Len(c.queries)
    BY <1>2, <1>3 DEF Min
<1>5. event.queries = [i \in 1..kept |-> captured(i)] /\ "queries" \in DOMAIN event
    BY DEF RequestEvent
<1>6. ASSUME NEW i \in 1..kept PROVE captured(i) \in KeptQueries
    <2> DEFINE q == c.queries[i]
    <2>1. i \in DOMAIN c.queries
        BY <1>3, <1>4
    <2>2. Text(q) \in Texts /\ IsNonBlank(Text(q)) /\ q.dialect \in STRING /\ q.duration_ms \in Nat
        BY <1>3, <2>1, TextIs DEF Inked
    <2> HIDE DEF q
    <2>3. Strip(redact_sql_statement(Text(q), q.dialect, DefaultLength)) \in Inked
        BY <1>1, <2>2, StatementIs DEF Inked
    <2>4. make_sql_fingerprint(Text(q), q.dialect) \in Inked
        BY <2>2, FingerprintIs DEF Inked
    <2>5. CapturedQuery(Text(q), q.dialect, q.duration_ms, DefaultLength) \in KeptQueries
        BY <2>2, <2>3, <2>4 DEF CapturedQuery, KeptQueries
    <2> QED
        BY <2>5 DEF q
<1> HIDE DEF kept, captured, c
<1>7. event.queries \in Seq(KeptQueries)
    <2>1. kept \in Nat
        BY <1>3, <1>4
    <2> HIDE DEF event
    <2> QED
        BY <1>5, <1>6, <2>1
<1>8. StoredEvent(n) = redact_event(event, scenario.policy)
    BY DEF StoredEvent
<1> HIDE DEF event
<1> QED
    BY <1>1, <1>2, <1>5, <1>7, <1>8, RedactedQueries

\* Every analysed query is executed once, under the id of its event.
IsExecutions(x, view) ==
    /\ IsSeq(x) /\ Len(x) = Total(view, Analyzed)
    /\ \A k \in DOMAIN x :
        /\ x[k].fingerprint # <<>> /\ x[k].duration_ms \in Nat
        /\ \E i \in DOMAIN view : x[k].request_id = view[i].request_id

LEMMA ExecutionsAre ==
    ASSUME NEW view, IsSeq(view), AreQueried(view)
    PROVE  IsExecutions(Executions(view), view)
<1> DEFINE ids == {view[i].request_id : i \in DOMAIN view}
           T == [request_id: ids, fingerprint: Inked, duration_ms: Nat]
           one(i, j) == [request_id  |-> view[i].request_id,
                         fingerprint |-> view[i].queries[j].fingerprint,
                         duration_ms |-> view[i].queries[j].duration_ms]
           lists == [i \in DOMAIN view |-> [j \in DOMAIN view[i].queries |-> one(i, j)]]
           x == Executions(view)
<1>1. Len(view) \in Nat /\ DOMAIN view = 1..Len(view)
    BY SeqIs
<1>2. \A i \in DOMAIN view : view[i].queries \in Seq(KeptQueries)
    BY DEF AreQueried
<1>3. \A i \in DOMAIN view : \A j \in DOMAIN view[i].queries : one(i, j) \in T
    <2> SUFFICES ASSUME NEW i \in DOMAIN view, NEW j \in DOMAIN view[i].queries
                 PROVE  one(i, j) \in T
        OBVIOUS
    <2>1. view[i].queries[j] \in KeptQueries
        BY <1>2
    <2>2. view[i].queries[j].fingerprint \in Inked /\ view[i].queries[j].duration_ms \in Nat
        BY <2>1 DEF KeptQueries
    <2>3. view[i].request_id \in ids
        OBVIOUS
    <2> QED
        BY <2>2, <2>3
<1> HIDE DEF T, one
<1>4. \A i \in DOMAIN view : lists[i] \in Seq(T) /\ Len(lists[i]) = Len(view[i].queries)
    <2> SUFFICES ASSUME NEW i \in DOMAIN view
                 PROVE  lists[i] \in Seq(T) /\ Len(lists[i]) = Len(view[i].queries)
        OBVIOUS
    <2>1. DOMAIN view[i].queries = 1..Len(view[i].queries) /\ Len(view[i].queries) \in Nat
        BY <1>2
    <2> QED
        BY <1>3, <2>1
<1>5. lists \in Seq(Seq(T)) /\ Len(lists) = Len(view) /\ DOMAIN lists = 1..Len(view)
    BY <1>1, <1>4
<1>6. x = FlattenSeq(lists)
    BY DEF Executions, one
<1>7. Lengths(lists) = [i \in DOMAIN view |-> Len(view[i].queries)]
    BY <1>1, <1>4, <1>5 DEF Lengths
<1> HIDE DEF lists
<1>8. Collects(x, T, lists, Len(view))
    BY <1>5, <1>6, Flattened
<1> HIDE DEF x
<1>9. x \in Seq(T) /\ Len(x) = Cardinality(Units(DOMAIN view, Lengths(lists)))
    BY <1>1, <1>8 DEF Collects
<1>10. Total(view, Analyzed) = Cardinality(Units(DOMAIN view, Lengths(lists)))
    <2>1. UNION {{i} \X (1..Len(view[i].queries)) : i \in DOMAIN view} =
            Units(DOMAIN view, [i \in DOMAIN view |-> Len(view[i].queries)])
        BY DEF Units
    <2> QED
        BY <1>7, <2>1 DEF Total, SumOver, Analyzed
<1>11. \A k \in DOMAIN x :
        /\ x[k].fingerprint # <<>> /\ x[k].duration_ms \in Nat
        /\ \E i \in DOMAIN view : x[k].request_id = view[i].request_id
    <2> SUFFICES ASSUME NEW k \in DOMAIN x
                 PROVE  /\ x[k].fingerprint # <<>> /\ x[k].duration_ms \in Nat
                        /\ \E i \in DOMAIN view : x[k].request_id = view[i].request_id
        OBVIOUS
    <2>1. x[k] \in T
        BY <1>9
    <2>2. x[k].request_id \in ids /\ x[k].fingerprint \in Inked /\ x[k].duration_ms \in Nat
        BY <2>1 DEF T
    <2> QED
        BY <2>2 DEF Inked, IsNonBlank
<1>12. IsSeq(x)
    BY <1>9, SeqOfOwn
<1> QED
    BY <1>9, <1>10, <1>11, <1>12 DEF IsExecutions, x

\* What a row says of its fingerprint.
LEMMA FingerprintRowIs ==
    ASSUME NEW view, IsSeq(view), NEW x, IsExecutions(x, view),
           NEW fp \in Fingerprints(x)
    PROVE  LET row == FingerprintRow(x, fp)
               At == WithFingerprint(x, fp)
           IN  /\ row.fingerprint = fp /\ IsFiniteSet(At)
               /\ row.count = Cardinality(At) /\ row.count \in Nat
               /\ row.weight \in Nat
               /\ row.first \in At /\ row.first \in Nat
               /\ row.request_count \in Nat /\ row.request_count <= row.count
               /\ row.request_count <= Len(view)
<1> DEFINE At == WithFingerprint(x, fp)
           row == FingerprintRow(x, fp)
           durations == [i \in DOMAIN x |-> x[i].duration_ms]
           ids == {x[i].request_id : i \in At}
           all == {view[i].request_id : i \in DOMAIN view}
<1>1. /\ IsSeq(x) /\ Len(x) \in Nat /\ DOMAIN x = 1..Len(x) /\ IsFiniteSet(DOMAIN x)
      /\ DOMAIN x \subseteq Nat
    BY SeqIs DEF IsExecutions
<1>2. At \in SUBSET DOMAIN x /\ At # {}
    BY DEF WithFingerprint, Fingerprints
<1>3. IsFiniteSet(At) /\ Cardinality(At) \in Nat /\ At \subseteq Nat
    BY <1>1, <1>2, FS_Subset, FS_CardinalityType
<1>4. \A i \in At : durations[i] \in Nat
    BY <1>2 DEF IsExecutions
<1>5. UNION {{i} \X (1..x[i].duration_ms) : i \in At} = Units(At, durations)
    BY <1>2 DEF Units
<1> HIDE DEF durations, At
<1>6. Cardinality(Units(At, durations)) \in Nat
    BY <1>3, <1>4, FiniteUnits
<1>7. Min(At) \in At
    BY <1>2, <1>3, LeastIs
<1>8. /\ row.fingerprint = fp /\ row.count = Cardinality(At) /\ row.first = Min(At)
      /\ row.weight = Cardinality(Units(At, durations))
      /\ row.request_count = Cardinality(ids)
    BY <1>5 DEF FingerprintRow, SumOver, At
<1>9. IsFiniteSet(ids) /\ Cardinality(ids) <= Cardinality(At)
    <2> DEFINE F == [i \in At |-> x[i].request_id]
    <2>1. F \in Surjection(At, ids)
        BY Fun_IsSurj
    <2> HIDE DEF ids
    <2> QED
        BY <1>3, <2>1, FS_Surjection
<1>10. IsFiniteSet(all) /\ Cardinality(all) <= Len(view)
    <2> DEFINE F == [i \in DOMAIN view |-> view[i].request_id]
    <2>1. F \in Surjection(DOMAIN view, all)
        BY Fun_IsSurj
    <2> HIDE DEF all
    <2>2. IsFiniteSet(DOMAIN view) /\ Cardinality(DOMAIN view) = Len(view)
        BY SeqIs
    <2> QED
        BY <2>1, <2>2, FS_Surjection
<1>11. Cardinality(ids) <= Cardinality(all)
    <2>1. ids \in SUBSET all
        BY <1>2 DEF IsExecutions
    <2> HIDE DEF ids, all
    <2> QED
        BY <1>10, <2>1, FS_Subset
<1>12. Cardinality(ids) \in Nat /\ Cardinality(all) \in Nat /\ Len(view) \in Nat
    BY <1>9, <1>10, FS_CardinalityType, SeqIs
<1>13. Cardinality(ids) <= Len(view)
    BY <1>10, <1>11, <1>12
<1> HIDE DEF ids, all, row
<1> QED
    BY <1>2, <1>3, <1>6, <1>7, <1>8, <1>9, <1>12, <1>13 DEF At, row

\* One row for each fingerprint, with what is its own.
LEMMA PatternsAre ==
    ASSUME NEW view, IsSeq(view), AreQueried(view),
           NEW x, x = Executions(view), NEW rows, rows = _aggregate_fingerprints(view)
    PROVE  /\ IsSeq(rows)
           /\ \A k \in DOMAIN rows :
                rows[k].fingerprint \in Fingerprints(x)
                /\ rows[k] = FingerprintRow(x, rows[k].fingerprint)
           /\ \A j, k \in DOMAIN rows : rows[j].fingerprint = rows[k].fingerprint => j = k
           /\ \A fp \in Fingerprints(x) : \E k \in DOMAIN rows : rows[k].fingerprint = fp
<1> DEFINE R == {FingerprintRow(x, fp) : fp \in Fingerprints(x)}
           n == Cardinality(R)
<1>1. IsExecutions(x, view) /\ IsSeq(x)
    BY ExecutionsAre DEF IsExecutions
<1>2. IsFiniteSet(R)
    <2> DEFINE row == [fp \in Fingerprints(x) |-> FingerprintRow(x, fp)]
               prints == {x[i].fingerprint : i \in DOMAIN x}
               print == [i \in DOMAIN x |-> x[i].fingerprint]
    <2>1. IsFiniteSet(DOMAIN x) /\ print \in Surjection(DOMAIN x, prints)
        BY <1>1, SeqIs, Fun_IsSurj
    <2>2. Fingerprints(x) \in SUBSET prints
        BY DEF Fingerprints
    <2>3. row \in Surjection(Fingerprints(x), R)
        BY Fun_IsSurj
    <2> HIDE DEF R, row, prints, print
    <2>4. IsFiniteSet(prints)
        BY <2>1, FS_Surjection
    <2>5. IsFiniteSet(Fingerprints(x))
        BY <2>2, <2>4, FS_Subset
    <2> QED
        BY <2>3, <2>5, FS_Surjection
<1>3. \A fp \in Fingerprints(x) :
        /\ FingerprintRow(x, fp).fingerprint = fp
        /\ FingerprintRow(x, fp).count \in Nat /\ FingerprintRow(x, fp).weight \in Nat
        /\ FingerprintRow(x, fp).first \in Nat
        /\ FingerprintRow(x, fp).first \in WithFingerprint(x, fp)
    BY <1>1, FingerprintRowIs
<1>4. \A r \in R : /\ r.count \in Nat /\ r.weight \in Nat /\ r.first \in Nat
                   /\ r.first \in WithFingerprint(x, r.fingerprint)
                   /\ r.fingerprint \in Fingerprints(x)
                   /\ r = FingerprintRow(x, r.fingerprint)
    BY <1>3
<1>5. \A fp \in Fingerprints(x) : FingerprintRow(x, fp) \in R
    OBVIOUS
<1>6. rows = Ordered(R)
    BY DEF _aggregate_fingerprints
<1> HIDE DEF R
<1>7. \A r, q \in R : r.first = q.first => r = q
    BY <1>4 DEF WithFingerprint
<1>8. /\ n \in Nat /\ rows \in [1..n -> R]
      /\ \A i, j \in 1..n : rows[i] = rows[j] => i = j
      /\ \A r \in R : \E i \in 1..n : rows[i] = r
    BY <1>2, <1>4, <1>6, <1>7, OrderIs
<1>9. DOMAIN rows = 1..n /\ IsSeq(rows)
    <2>1. rows \in Seq(R)
        BY <1>8
    <2> QED
        BY <1>8, <2>1, SeqOfOwn
<1>10. \A k \in 1..n : rows[k] \in R
    BY <1>8
<1>11. \A j, k \in 1..n : rows[j].fingerprint = rows[k].fingerprint => j = k
    BY <1>4, <1>8, <1>10
<1>12. \A fp \in Fingerprints(x) : \E k \in 1..n : rows[k].fingerprint = fp
    BY <1>3, <1>5, <1>8
<1> QED
    BY <1>4, <1>9, <1>10, <1>11, <1>12

\* The counts of the first m rows are together the number of the executions with their
\* fingerprints: all of them when no row is left out, fewer when one is.
LEMMA PatternsSum ==
    ASSUME NEW view, IsSeq(view), AreQueried(view), NEW rows,
           rows = _aggregate_fingerprints(view), NEW m \in 0..Len(rows)
    PROVE  LET counted == Cardinality(Units(1..m, [k \in 1..m |-> rows[k].count]))
           IN  IF m = Len(rows) THEN counted = Total(view, Analyzed)
                                ELSE counted < Total(view, Analyzed)
<1> DEFINE x == Executions(view)
           N == DOMAIN x
           K == 1..m
           At == [k \in K |-> WithFingerprint(x, rows[k].fingerprint)]
           count == [k \in K |-> rows[k].count]
           U == UNION {At[k] : k \in K}
<1>1. /\ IsExecutions(x, view) /\ IsFiniteSet(N) /\ Cardinality(N) = Len(x)
      /\ Len(x) = Total(view, Analyzed) /\ Len(x) \in Nat
    BY ExecutionsAre, SeqIs DEF IsExecutions
<1>2. /\ IsSeq(rows)
      /\ \A k \in DOMAIN rows : /\ rows[k].fingerprint \in Fingerprints(x)
                                /\ rows[k] = FingerprintRow(x, rows[k].fingerprint)
      /\ \A j, k \in DOMAIN rows : rows[j].fingerprint = rows[k].fingerprint => j = k
      /\ \A fp \in Fingerprints(x) : \E k \in DOMAIN rows : rows[k].fingerprint = fp
    BY PatternsAre
<1> HIDE DEF x
<1>3. Len(rows) \in Nat /\ DOMAIN rows = 1..Len(rows) /\ m \in Nat
      /\ \A k \in K : k \in DOMAIN rows
    BY <1>2, SeqIs
<1>4. \A k \in K : IsFiniteSet(At[k]) /\ count[k] = Cardinality(At[k])
    <2> SUFFICES ASSUME NEW k \in K
                 PROVE  /\ IsFiniteSet(WithFingerprint(x, rows[k].fingerprint))
                        /\ rows[k].count = Cardinality(WithFingerprint(x, rows[k].fingerprint))
        OBVIOUS
    <2>1. k \in DOMAIN rows
        BY <1>3
    <2> QED
        BY <1>1, <1>2, <2>1, FingerprintRowIs
<1>5. \A j, k \in K : j # k => At[j] \cap At[k] = {}
    BY <1>2, <1>3 DEF WithFingerprint
<1>6. U \in SUBSET N
    BY DEF WithFingerprint
<1>7. m = Len(rows) => U = N
    <2> SUFFICES ASSUME m = Len(rows), NEW i \in N PROVE i \in U
        BY <1>6
    <2>1. x[i].fingerprint \in Fingerprints(x)
        BY <1>1 DEF IsExecutions, Fingerprints
    <2>2. PICK k \in K : rows[k].fingerprint = x[i].fingerprint
        BY <1>2, <1>3, <2>1
    <2>3. i \in At[k]
        BY <2>2 DEF WithFingerprint
    <2> QED
        BY <2>3
<1>8. m # Len(rows) => U # N
    <2> SUFFICES ASSUME m # Len(rows) PROVE \E i \in N : i \notin U
        OBVIOUS
    <2>1. m + 1 \in DOMAIN rows /\ m + 1 \notin K
        <3>1. \A l, k \in Nat : k \in 0..l /\ k # l => k + 1 \in 1..l /\ k + 1 \notin 1..k
            OBVIOUS
        <3>2. m + 1 \in 1..Len(rows) /\ m + 1 \notin 1..m
            BY <1>3, <3>1, Zenon
        <3> QED
            BY <1>3, <3>2
    <2>2. PICK i \in N : x[i].fingerprint = rows[m + 1].fingerprint
        BY <1>2, <2>1 DEF Fingerprints
    <2>3. ASSUME NEW k \in K, i \in At[k] PROVE FALSE
        <3>1. rows[k].fingerprint = rows[m + 1].fingerprint
            BY <2>2, <2>3 DEF WithFingerprint
        <3>2. k = m + 1
            BY <1>2, <1>3, <2>1, <3>1
        <3> QED
            BY <2>1, <3>2
    <2> QED
        BY <2>3
<1> HIDE DEF At, count, U, N, K
<1>9. IsFiniteSet(K)
    BY <1>3, IntervalIs DEF K
<1>10. Cardinality(Units(K, count)) = Cardinality(U)
    BY <1>4, <1>5, <1>9, SumOfSizes DEF U
<1>11. IsFiniteSet(U) /\ Cardinality(U) <= Cardinality(N) /\ Cardinality(U) \in Nat
       /\ (U # N => Cardinality(U) # Cardinality(N))
    BY <1>1, <1>6, FS_Subset, FS_CardinalityType
<1>12. CASE m = Len(rows)
    BY <1>1, <1>7, <1>10, <1>12 DEF K, count
<1>13. CASE m # Len(rows)
    <2>1. Cardinality(U) < Len(x)
        BY <1>1, <1>8, <1>11, <1>13
    <2> QED
        BY <1>1, <1>10, <1>13, <2>1 DEF K, count
<1> QED
    BY <1>12, <1>13

\* What is answered of the rows, when there may be more than the client asked for.
LEMMA PatternsCut ==
    ASSUME NEW view, IsSeq(view), AreQueried(view), NEW rows,
           rows = _aggregate_fingerprints(view),
           NEW limit \in Nat, NEW cut, cut = Cut(rows, limit)
    PROVE  /\ IF Len(rows) > limit
              THEN Total(cut, LAMBDA r : r.count) < Total(view, Analyzed)
              ELSE Total(cut, LAMBDA r : r.count) = Total(view, Analyzed)
           /\ \A i \in DOMAIN cut : cut[i].request_count <= Minimum(cut[i].count, Len(view))
<1> DEFINE m == Minimum(limit, Len(rows))
           x == Executions(view)
<1>1. /\ IsSeq(rows)
      /\ \A k \in DOMAIN rows : /\ rows[k].fingerprint \in Fingerprints(x)
                                /\ rows[k] = FingerprintRow(x, rows[k].fingerprint)
    BY PatternsAre
<1>2. IsExecutions(x, view)
    BY ExecutionsAre
<1> HIDE DEF x
<1>3. /\ DOMAIN cut = 1..m /\ m \in Nat
      /\ \A i \in DOMAIN cut : i \in DOMAIN rows /\ cut[i] = rows[i]
    BY <1>1, CutIs
<1>4. Len(rows) \in Nat /\ m <= Len(rows) /\ (Len(rows) > limit <=> m # Len(rows))
    <2>1. Len(rows) \in Nat
        BY <1>1, SeqIs
    <2>2. m \in {limit, Len(rows)} /\ m <= limit /\ m <= Len(rows)
        BY <2>1, MinimumIs
    <2> QED
        BY <2>1, <2>2
<1> HIDE DEF m
<1>5. Total(cut, LAMBDA r : r.count) = Cardinality(Units(1..m, [k \in 1..m |-> rows[k].count]))
    <2>1. [i \in DOMAIN cut |-> cut[i].count] = [k \in 1..m |-> rows[k].count]
        BY <1>3
    <2>2. Total(cut, LAMBDA r : r.count) =
            Cardinality(Units(DOMAIN cut, [i \in DOMAIN cut |-> cut[i].count]))
        BY TotalIs
    <2> QED
        BY <1>3, <2>1, <2>2
<1>6. m \in 0..Len(rows)
    BY <1>3, <1>4
<1>7. IF m = Len(rows)
      THEN Total(cut, LAMBDA r : r.count) = Total(view, Analyzed)
      ELSE Total(cut, LAMBDA r : r.count) < Total(view, Analyzed)
    BY <1>5, <1>6, PatternsSum
<1>8. ASSUME NEW i \in DOMAIN cut
      PROVE  cut[i].request_count <= Minimum(cut[i].count, Len(view))
    <2> DEFINE row == cut[i]
    <2>1. i \in DOMAIN rows /\ row = rows[i]
        BY <1>3
    <2>2. /\ row.fingerprint \in Fingerprints(x)
          /\ row = FingerprintRow(x, row.fingerprint)
        BY <1>1, <2>1
    <2> HIDE DEF row
    <2>3. /\ row.count \in Nat /\ row.request_count \in Nat
          /\ row.request_count <= row.count /\ row.request_count <= Len(view)
        <3>1. row.count = Cardinality(WithFingerprint(x, row.fingerprint))
            BY <1>2, <2>2, FingerprintRowIs
        <3> QED
            BY <1>2, <2>2, FingerprintRowIs
    <2>4. Len(view) \in Nat
        BY SeqIs
    <2>5. row.request_count <= Minimum(row.count, Len(view))
        <3>1. Minimum(row.count, Len(view)) \in {row.count, Len(view)}
            BY <2>3, <2>4, MinimumIs
        <3> QED
            BY <2>3, <3>1
    <2> QED
        BY <2>5 DEF row
<1> QED
    BY <1>4, <1>7, <1>8

\* What GET /aggregates sees is as redacted as what is stored.
LEMMA ViewIsQueried ==
    ASSUME TypeOK, IsMeasured(events), AreQueried(events),
           NEW view, view = Redacted(LatestFirst(events, Capacity))
    PROVE  AreQueried(view)
<1> DEFINE L == Len(events)
           back(i) == events[L - i + 1]
<1>1. /\ scenario.policy.max_statement_length \in Nat
      /\ scenario.policy.max_statement_length >= Len(TRUNCATION_MARKER)
      /\ scenario.policy.max_queries_per_request \in Nat
    BY ApiAssumption DEF TypeOK, ScenarioType
<1>2. L \in Nat /\ DOMAIN events = 1..L /\ Capacity \in Nat /\ L <= Capacity
    BY ApiAssumption, SeqIs DEF IsMeasured, TypeOK
<1>3. LatestFirst(events, Capacity) = [i \in 1..L |-> back(i)]
    BY <1>2, MinimumIs DEF LatestFirst
<1>4. DOMAIN view = 1..L /\ \A i \in 1..L : view[i] = redact_event(back(i), scenario.policy)
    BY <1>3 DEF Redacted
<1>5. ASSUME NEW i \in 1..L
      PROVE  "queries" \in DOMAIN view[i] /\ view[i].queries \in Seq(KeptQueries)
    <2>1. L - i + 1 \in 1..L
        BY <1>2
    <2>2. "queries" \in DOMAIN back(i) /\ back(i).queries \in Seq(KeptQueries)
        BY <1>2, <2>1 DEF AreQueried
    <2>3. view[i] = redact_event(back(i), scenario.policy)
        BY <1>4
    <2> HIDE DEF back
    <2> QED
        BY <1>1, <2>2, <2>3, RedactedQueries
<1> QED
    BY <1>4, <1>5 DEF AreQueried

\* The answer to GET /aggregates, as far as the fingerprints are concerned.
LEMMA PatternsRespond ==
    ASSUME get_aggregates,
           NEW view, view = Redacted(LatestFirst(events, Capacity)),
           NEW rows, rows = _aggregate_fingerprints(view)
    PROVE  \E body :
            /\ Respond(200, body) /\ ValidLimit
            /\ body.fingerprints = Cut(rows, request.limit)
            /\ body.is_fingerprints_truncated = (Len(rows) > request.limit)
            /\ body.analysis_scope.request_count = Len(view)
            /\ body.analysis_scope.analyzed_query_count = Total(view, Analyzed)
<1> DEFINE scope == _analysis_scope(view)
           routes == _aggregate_routes(view)
           body == [kind |-> "aggregates",
                    routes       |-> Cut(routes, request.limit),
                    fingerprints |-> Cut(rows, request.limit),
                    total_stored_requests |-> Len(view),
                    analysis_scope |-> scope,
                    is_routes_truncated       |-> Len(routes) > request.limit,
                    is_fingerprints_truncated |-> Len(rows) > request.limit]
<1>1. /\ scope.request_count = Len(view)
      /\ scope.analyzed_query_count = Total(view, Analyzed)
    BY DEF _analysis_scope
<1>2. Respond(200, body) /\ ValidLimit
    BY LimitIsValid DEF get_aggregates
<1> HIDE DEF scope, routes
<1>3. /\ body.fingerprints = Cut(rows, request.limit)
      /\ body.is_fingerprints_truncated = (Len(rows) > request.limit)
      /\ body.analysis_scope = scope
    OBVIOUS
<1> HIDE DEF body
<1> QED
    BY <1>1, <1>2, <1>3

\* The answer counts every analysed query that its rows stand for.
LEMMA PatternsAnswered == PatternsInv /\ get_aggregates => PatternsAddUp'
<1> SUFFICES ASSUME PatternsInv, get_aggregates PROVE PatternsAddUp'
    OBVIOUS
<1> DEFINE view == Redacted(LatestFirst(events, Capacity))
           rows == _aggregate_fingerprints(view)
<1>1. PICK body :
        /\ Respond(200, body) /\ ValidLimit
        /\ body.fingerprints = Cut(rows, request.limit)
        /\ body.is_fingerprints_truncated = (Len(rows) > request.limit)
        /\ body.analysis_scope.request_count = Len(view)
        /\ body.analysis_scope.analyzed_query_count = Total(view, Analyzed)
    BY PatternsRespond
<1>2. /\ TypeOK /\ IsMeasured(events) /\ AreQueried(events)
      /\ Capacity \in Nat /\ Len(events) <= Capacity /\ request.limit \in Nat
    BY <1>1, ApiAssumption DEF PatternsInv, TablesInv, IInv, TypeOK, ValidLimit
<1>3. IsSeq(view)
    BY <1>2, ViewIs DEF IsMeasured
<1>4. AreQueried(view)
    BY <1>2, ViewIsQueried
<1>5. response'.body = body
    BY <1>1 DEF Respond, Answered
<1> HIDE DEF view
<1>6. /\ IF Len(rows) > request.limit
         THEN Total(body.fingerprints, LAMBDA r : r.count) < Total(view, Analyzed)
         ELSE Total(body.fingerprints, LAMBDA r : r.count) = Total(view, Analyzed)
      /\ \A i \in DOMAIN body.fingerprints :
            body.fingerprints[i].request_count <=
                Minimum(body.fingerprints[i].count, Len(view))
    BY <1>1, <1>2, <1>3, <1>4, PatternsCut
<1> HIDE DEF rows
<1>7. PatternsAreOf(body)
    BY <1>1, <1>6 DEF PatternsAreOf
<1> QED
    BY <1>5, <1>7 DEF PatternsAddUp

\* What is stored has been through redaction.
LEMMA QueriedStep == PatternsInv /\ [Next]_vars => AreQueried(events)'
<1> SUFFICES ASSUME PatternsInv, [Next]_vars, NEW i \in DOMAIN events'
             PROVE  "queries" \in DOMAIN events'[i] /\ events'[i].queries \in Seq(KeptQueries)
    BY DEF AreQueried
<1>1. IInv /\ TypeOK /\ AreQueried(events)
    BY DEF PatternsInv, TablesInv, IInv
<1>2. CASE \E j \in DOMAIN events : events'[i] = events[j]
    BY <1>1, <1>2 DEF AreQueried
<1>3. CASE /\ recorded + 1 \in 1..Len(scenario.captures)
           /\ events'[i] = StoredEvent(recorded + 1)
    BY <1>1, <1>3, StoredIsQueried
<1> QED
    BY <1>1, <1>2, <1>3, EventsCome

\* No other step changes an answer.
LEMMA PatternsStep == PatternsInv /\ [Next]_vars => PatternsAddUp'
<1> SUFFICES ASSUME PatternsInv, [Next]_vars PROVE PatternsAddUp'
    OBVIOUS
<1>1. PatternsAddUp /\ IInv
    BY DEF PatternsInv, TablesInv
<1>2. CASE Record \/ Clear
    <2>1. UNCHANGED <<phase, request, response>>
        BY <1>1, <1>2, AppSteps
    <2> QED
        BY <1>1, <2>1 DEF PatternsAddUp, Answer
<1>3. CASE \E r \in scenario.requests : Ask(r)
    BY <1>3 DEF Ask, PatternsAddUp, Answer
<1>4. CASE \E next : GoesOn(next) /\ next # "idle"
    BY <1>4 DEF GoesOn, PatternsAddUp, Answer
<1>5. CASE \E status, body : Answered(status, body) /\ body.kind # "aggregates"
    BY <1>5 DEF Answered, PatternsAddUp, Answer
<1>6. CASE ReadList
    BY <1>6 DEF ReadList, PatternsAddUp, Answer
<1>7. CASE get_aggregates
    BY <1>7, PatternsAnswered
<1>8. CASE Handle /\ ~ReadList /\ ~get_aggregates
    BY <1>1, <1>5, <1>8, HandleAnswers DEF Respond
<1>9. CASE NoDependency \/ NoHook \/ DependencyPasses \/ DependencyInvalid
    BY <1>4, <1>9 DEF NoDependency, NoHook, DependencyPasses, DependencyInvalid
<1>10. CASE DependencyRefuses
    BY <1>5, <1>10 DEF DependencyRefuses, Refused
<1>11. CASE \E o \in HookOutcomes : HookGrants(o) \/ HookDenies(o) \/ DocsWithout(o)
    BY <1>4, <1>5, <1>11 DEF HookGrants, HookDenies, DocsWithout, Refused
<1>12. CASE UNCHANGED vars
    BY <1>1, <1>12 DEF vars, app, PatternsAddUp, Answer
<1> QED
    BY <1>2, <1>3, <1>6, <1>7, <1>8, <1>9, <1>10, <1>11, <1>12 DEF Next

-----------------------------------------------------------------------------
(* What is shown of a query *)

\* A query of the application whose statement one pass redacts exactly.
IsExact(query) ==
    /\ Text(query) \in Inked
    /\ Safe(query) = _redact_sql_fragments(Text(query), query.dialect)

\* What is kept of a query is what may be shown of it.
IsShown(kept, query) ==
    /\ kept \in KeptQueries /\ kept.dialect = query.dialect
    /\ MayShow(kept.statement, Safe(query), query.dialect)
    /\ IsWhole(query) => /\ kept.statement = Strip(Safe(query))
                         /\ kept.fingerprint = Pattern(query)

LEMMA LimitsAre ==
    ASSUME TypeOK, NEW m, m = scenario.policy.max_statement_length
    PROVE  /\ m \in Nat /\ m >= 2 /\ m >= Len(TRUNCATION_MARKER)
           /\ DefaultLength \in Nat /\ DefaultLength >= 2
           /\ DefaultLength >= Len(TRUNCATION_MARKER)
           /\ scenario.policy.max_queries_per_request \in Nat
           /\ \A query : IsWhole(query) /\ Len(Safe(query)) \in Nat =>
                Len(Safe(query)) <= m /\ Len(Safe(query)) <= DefaultLength
<1>1. Len(TRUNCATION_MARKER) = 2
    BY MarkerIs
<1>2. /\ m \in Nat /\ m >= Len(TRUNCATION_MARKER)
      /\ DefaultLength \in Nat /\ DefaultLength >= Len(TRUNCATION_MARKER)
      /\ scenario.policy.max_queries_per_request \in Nat
    BY ApiAssumption DEF TypeOK, ScenarioType
<1>3. m >= 2 /\ DefaultLength >= 2
    BY <1>1, <1>2
<1> DEFINE least == Min({DefaultLength, m})
<1>4. least \in Nat /\ least <= m /\ least <= DefaultLength
    <2> DEFINE S == {DefaultLength, m}
    <2>1. \E x \in S : \A y \in S : x <= y
        BY <1>2
    <2>2. least \in S /\ \A y \in S : least <= y
        BY <2>1 DEF Min
    <2> QED
        BY <1>2, <2>2
<1> HIDE DEF least
<1>5. ASSUME NEW query, IsWhole(query), Len(Safe(query)) \in Nat
      PROVE  Len(Safe(query)) <= m /\ Len(Safe(query)) <= DefaultLength
    <2>1. Len(Safe(query)) <= least
        BY <1>5 DEF IsWhole, least
    <2> QED
        BY <1>2, <1>4, <1>5, <2>1
<1> QED
    BY <1>2, <1>3, <1>5

LEMMA ExactIs ==
    ASSUME NEW query, IsExact(query), NEW safe, safe = Safe(query)
    PROVE  /\ safe \in Texts /\ IsNonBlank(safe) /\ Len(safe) \in Nat
           /\ IsSettled(safe, query.dialect)
<1>1. Text(query) \in Texts /\ IsNonBlank(Text(query))
    BY DEF IsExact, Inked
<1>2. safe = _redact_sql_fragments(Text(query), query.dialect)
    BY DEF IsExact
<1>3. safe \in Texts /\ IsNonBlank(safe) /\ IsSettled(safe, query.dialect)
    BY <1>1, <1>2, RedactedIs, RedactedSettles
<1> QED
    BY <1>3 DEF Texts

LEMMA CapturedShows ==
    ASSUME TypeOK, NEW query, IsExact(query), query.dialect \in STRING,
           query.duration_ms \in Nat
    PROVE  IsShown(CapturedQuery(Text(query), query.dialect, query.duration_ms, DefaultLength),
                   query)
<1> DEFINE d == query.dialect
           safe == Safe(query)
           statement == Strip(redact_sql_statement(Text(query), d, DefaultLength))
           fingerprint == make_sql_fingerprint(Text(query), d)
           kept == CapturedQuery(Text(query), d, query.duration_ms, DefaultLength)
<1>1. Text(query) \in Texts /\ IsNonBlank(Text(query))
      /\ safe = _redact_sql_fragments(Text(query), d)
    BY DEF IsExact, Inked
<1>2. /\ DefaultLength \in Nat /\ DefaultLength >= 2
      /\ DefaultLength >= Len(TRUNCATION_MARKER)
      /\ IsWhole(query) /\ Len(safe) \in Nat => Len(safe) <= DefaultLength
    BY LimitsAre
<1>3. safe \in Texts /\ IsNonBlank(safe) /\ Len(safe) \in Nat
    BY ExactIs
<1>4. fingerprint = Pattern(query)
    BY <1>1 DEF make_sql_fingerprint, Pattern
<1>5. MayShow(statement, safe, d)
    <2>1. statement = Strip(truncate_str(safe, DefaultLength))
        BY <1>1 DEF redact_sql_statement
    <2> QED
        BY <1>2, <1>3, <2>1, FirstShows
<1>6. IsWhole(query) => statement = Strip(safe)
    BY <1>1, <1>2, <1>3, WholePasses
<1>7. statement \in Inked /\ fingerprint \in Inked
    BY <1>1, <1>2, StatementIs, FingerprintIs DEF Inked
<1>8. kept = [statement |-> statement, fingerprint |-> fingerprint, dialect |-> d,
              duration_ms |-> query.duration_ms]
    BY DEF CapturedQuery
<1> HIDE DEF statement, fingerprint, kept
<1>9. kept \in KeptQueries /\ kept.dialect = query.dialect
    BY <1>7, <1>8 DEF KeptQueries
<1>10. kept.statement = statement /\ kept.fingerprint = fingerprint
    BY <1>8
<1>11. IsShown(kept, query)
    BY <1>4, <1>5, <1>6, <1>9, <1>10 DEF IsShown
<1> QED
    BY <1>11 DEF kept

LEMMA RedactedShows ==
    ASSUME TypeOK, NEW query, IsExact(query), NEW kept, IsShown(kept, query),
           NEW new, new = _redact_query_event(kept, scenario.policy)
    PROVE  /\ IsShown(new, query)
           /\ Len(new.statement) <= scenario.policy.max_statement_length
<1> DEFINE d == query.dialect
           safe == Safe(query)
           m == scenario.policy.max_statement_length
           statement == Strip(redact_sql_statement(kept.statement, d, m))
           fingerprint == Strip(truncate_str(make_sql_fingerprint(kept.statement, d), m))
<1>1. /\ m \in Nat /\ m >= 2 /\ m >= Len(TRUNCATION_MARKER)
      /\ IsWhole(query) /\ Len(safe) \in Nat => Len(safe) <= m
    BY LimitsAre
<1>2. safe \in Texts /\ IsNonBlank(safe) /\ Len(safe) \in Nat /\ IsSettled(safe, d)
    BY ExactIs
<1>3. Text(query) \in Texts /\ IsNonBlank(Text(query))
      /\ safe = _redact_sql_fragments(Text(query), d)
    BY DEF IsExact, Inked
<1>4. /\ kept \in KeptQueries /\ kept.dialect = d /\ MayShow(kept.statement, safe, d)
      /\ IsWhole(query) => kept.statement = Strip(safe)
    BY DEF IsShown
<1>5. kept.statement \in Texts
    BY <1>4 DEF KeptQueries, Inked
<1>6. new = [kept EXCEPT !.statement = statement, !.fingerprint = fingerprint]
    BY <1>4 DEF _redact_query_event
<1>7. new \in KeptQueries
    BY <1>1, <1>4, RedactedQuery
<1>8. MayShow(statement, safe, d)
    BY <1>1, <1>2, <1>4, NextShows
<1>9. IsWhole(query) => statement = Strip(safe) /\ fingerprint = Pattern(query)
    <2> SUFFICES ASSUME IsWhole(query) PROVE statement = Strip(safe) /\ fingerprint = Pattern(query)
        OBVIOUS
    <2>1. kept.statement = Strip(safe) /\ Len(safe) <= m
        BY <1>1, <1>2, <1>4
    <2>2. /\ Strip(redact_sql_statement(Strip(safe), d, m)) = Strip(safe)
          /\ Strip(truncate_str(make_sql_fingerprint(Strip(safe), d), m))
                = CollapseBlanks(safe)
        BY <1>1, <1>3, <2>1, WholePasses
    <2> QED
        BY <2>1, <2>2 DEF Pattern
<1>10. Len(statement) <= m
    <2> DEFINE t == _redact_sql_fragments(kept.statement, d)
    <2>1. t \in Texts
        BY <1>5, RedactedIs
    <2> HIDE DEF t
    <2>2. Len(Strip(truncate_str(t, m))) <= m
        BY <1>1, <2>1, TruncatedFits
    <2> QED
        BY <2>2 DEF redact_sql_statement, t
<1> HIDE DEF statement, fingerprint
<1>11. new.statement = statement /\ new.fingerprint = fingerprint /\ new.dialect = d
    BY <1>4, <1>6 DEF KeptQueries
<1>12. IsShown(new, query)
    BY <1>7, <1>8, <1>9, <1>11 DEF IsShown
<1> QED
    BY <1>10, <1>11, <1>12

\* The queries of an event are the first of those the application made.
IsShownEvent(event) ==
    /\ event.request_id \in DOMAIN scenario.captures
    /\ "queries" \in DOMAIN event /\ event.queries \in Seq(KeptQueries)
    /\ Len(event.queries) <= Len(Executed(event))
    /\ \A k \in 1..Len(event.queries) : IsShown(event.queries[k], Executed(event)[k])

\* The queries of a request.
LEMMA ExecutedAre ==
    ASSUME TypeOK, OnePassIsExact, NEW n \in DOMAIN scenario.captures,
           NEW queries, queries = scenario.captures[n].queries
    PROVE  /\ queries \in Seq(Queries) /\ Len(queries) \in Nat /\ DOMAIN queries = 1..Len(queries)
           /\ \A i \in 1..Len(queries) :
                /\ IsExact(queries[i])
                /\ queries[i].dialect \in STRING /\ queries[i].duration_ms \in Nat
<1>1. queries \in Seq(Queries)
    <2>1. scenario.captures \in Seq(Captures)
        BY ApiAssumption DEF TypeOK, ScenarioType
    <2>2. scenario.captures[n] \in Captures
        BY <2>1
    <2> QED
        BY <2>2 DEF Captures
<1>2. Len(queries) \in Nat /\ DOMAIN queries = 1..Len(queries)
    BY <1>1
<1>3. ASSUME NEW i \in 1..Len(queries)
      PROVE  /\ IsExact(queries[i])
             /\ queries[i].dialect \in STRING /\ queries[i].duration_ms \in Nat
    <2>1. i \in DOMAIN scenario.captures[n].queries
        BY <1>2
    <2>2. /\ Text(queries[i]) \in Inked
          /\ queries[i].dialect \in STRING /\ queries[i].duration_ms \in Nat
        BY <2>1, TextIs
    <2>3. _redact_sql_fragments(Text(queries[i]), queries[i].dialect) = Safe(queries[i])
        BY <2>1 DEF OnePassIsExact
    <2> QED
        BY <2>2, <2>3 DEF IsExact
<1> QED
    BY <1>1, <1>2, <1>3

\* One more pass over an event leaves what may be shown, and it fits.
LEMMA EventShows ==
    ASSUME TypeOK, OnePassIsExact, NEW event, IsShownEvent(event), "request_id" \in DOMAIN event,
           NEW new, new = redact_event(event, scenario.policy)
    PROVE  /\ IsShownEvent(new) /\ new.request_id = event.request_id
           /\ \A k \in 1..Len(new.queries) :
                Len(new.queries[k].statement) <= scenario.policy.max_statement_length
<1> DEFINE queries == event.queries
           executed == Executed(event)
           L == Len(queries)
           most == scenario.policy.max_queries_per_request
           m == Min({L, most})
           kept == SubSeq(queries, 1, m)
           redacted == [i \in DOMAIN kept |-> _redact_query_event(kept[i], scenario.policy)]
<1>1. /\ event.request_id \in DOMAIN scenario.captures
      /\ "queries" \in DOMAIN event /\ queries \in Seq(KeptQueries) /\ L <= Len(executed)
      /\ \A k \in 1..L : IsShown(queries[k], executed[k])
    BY DEF IsShownEvent
<1>2. most \in Nat /\ L \in Nat
    BY <1>1, LimitsAre
<1>3. Len(executed) \in Nat /\ \A i \in 1..Len(executed) : IsExact(executed[i])
    BY <1>1, ExecutedAre DEF Executed
<1>4. m \in 0..L
    <2> DEFINE S == {L, most}
    <2>1. \E x \in S : \A y \in S : x <= y
        BY <1>2
    <2>2. m \in S /\ \A y \in S : m <= y
        BY <2>1 DEF Min
    <2> QED
        BY <1>2, <2>2
<1>5. new = [event EXCEPT !.queries = redacted]
    BY DEF redact_event
<1> HIDE DEF m, queries
<1>6. kept \in Seq(KeptQueries) /\ Len(kept) = m /\ DOMAIN kept = 1..m
      /\ \A k \in 1..m : kept[k] = queries[k]
    BY <1>1, <1>2, <1>4
<1> HIDE DEF kept
<1>7. ASSUME NEW k \in 1..m
      PROVE  /\ IsShown(redacted[k], executed[k])
             /\ Len(redacted[k].statement) <= scenario.policy.max_statement_length
    <2>1. k \in 1..L /\ k \in 1..Len(executed)
        BY <1>1, <1>2, <1>3, <1>4
    <2>2. IsExact(executed[k]) /\ IsShown(kept[k], executed[k])
        BY <1>1, <1>3, <1>6, <2>1
    <2>3. redacted[k] = _redact_query_event(kept[k], scenario.policy)
        BY <1>6
    <2> HIDE DEF redacted, executed
    <2> QED
        BY <2>2, <2>3, RedactedShows
<1>8. redacted \in Seq(KeptQueries) /\ Len(redacted) = m
    <2>1. redacted = [k \in 1..m |-> redacted[k]]
        BY <1>6
    <2>2. \A k \in 1..m : redacted[k] \in KeptQueries
        <3> HIDE DEF redacted
        <3> QED
            BY <1>7 DEF IsShown
    <2>3. m \in Nat
        BY <1>2, <1>4
    <2> HIDE DEF redacted
    <2>4. [k \in 1..m |-> redacted[k]] \in Seq(KeptQueries) /\ Len([k \in 1..m |-> redacted[k]]) = m
        BY <2>2, <2>3
    <2> QED
        BY <2>1, <2>4
<1> HIDE DEF redacted
<1>9. new.queries = redacted /\ "queries" \in DOMAIN new /\ new.request_id = event.request_id
    BY <1>1, <1>5
<1>10. Executed(new) = executed
    BY <1>9 DEF Executed
<1> HIDE DEF executed
<1>11. m <= Len(executed)
    BY <1>1, <1>2, <1>3, <1>4
<1>12. IsShownEvent(new)
    BY <1>1, <1>7, <1>8, <1>9, <1>10, <1>11 DEF IsShownEvent
<1> QED
    BY <1>7, <1>8, <1>9, <1>12

\* What is stored of a request is what may be shown of it.
LEMMA StoredShows ==
    ASSUME TypeOK, OnePassIsExact, NEW n \in 1..Len(scenario.captures)
    PROVE  IsShownEvent(StoredEvent(n))
<1> DEFINE queries == scenario.captures[n].queries
           L == Len(queries)
           most == scenario.policy.max_queries_per_request
           kept == Min({L, most})
           captured(i) == CapturedQuery(Text(queries[i]), queries[i].dialect,
                                        queries[i].duration_ms, DefaultLength)
           event == RequestEvent(n)
<1>1. n \in DOMAIN scenario.captures
    <2>1. scenario.captures \in Seq(Captures)
        BY ApiAssumption DEF TypeOK, ScenarioType
    <2> QED
        BY <2>1
<1>2. /\ L \in Nat
      /\ \A i \in 1..L : /\ IsExact(queries[i])
                         /\ queries[i].dialect \in STRING /\ queries[i].duration_ms \in Nat
    BY <1>1, ExecutedAre
<1>3. most \in Nat
    BY LimitsAre
<1>4. kept \in 0..L
    <2> DEFINE S == {L, most}
    <2>1. \E x \in S : \A y \in S : x <= y
        BY <1>2, <1>3
    <2>2. kept \in S /\ \A y \in S : kept <= y
        BY <2>1 DEF Min
    <2> QED
        BY <1>2, <1>3, <2>2
<1>5. event.queries = [i \in 1..kept |-> captured(i)] /\ "queries" \in DOMAIN event
      /\ event.request_id = n /\ "request_id" \in DOMAIN event
    BY DEF RequestEvent
<1>6. Executed(event) = queries
    BY <1>5 DEF Executed
<1> HIDE DEF kept, event
<1>7. ASSUME NEW i \in 1..kept PROVE IsShown(captured(i), queries[i])
    <2>1. i \in 1..L
        BY <1>2, <1>4
    <2> HIDE DEF queries, L
    <2> QED
        BY <1>2, <2>1, CapturedShows
<1> HIDE DEF captured, queries
<1>8. event.queries \in Seq(KeptQueries) /\ Len(event.queries) = kept
      /\ \A i \in 1..kept : event.queries[i] = captured(i)
    <2>1. \A i \in 1..kept : captured(i) \in KeptQueries
        BY <1>7 DEF IsShown
    <2>2. kept \in Nat
        BY <1>2, <1>4
    <2> QED
        BY <1>5, <2>1, <2>2
<1>9. kept <= L
    BY <1>2, <1>4
<1>10. IsShownEvent(event)
    BY <1>1, <1>5, <1>6, <1>7, <1>8, <1>9 DEF IsShownEvent
<1>11. StoredEvent(n) = redact_event(event, scenario.policy)
    BY DEF StoredEvent, event
<1> QED
    BY <1>5, <1>10, <1>11, EventShows

\* What the detail of a request shows, and the inductive invariant of the answers to
\* GET /requests/{id}: as far as one pass is exact, so is all that is stored and shown.
DetailIsShown ==
    Answer("detail") =>
        LET body == response.body IN
        /\ IsShownEvent(body.event)
        /\ \A k \in 1..Len(body.event.queries) :
                Len(body.event.queries[k].statement) <= scenario.policy.max_statement_length
        /\ body.signals = analyze_request_signals(body.event, scenario.thresholds)

AreShown(s) == \A i \in DOMAIN s : IsShownEvent(s[i])

ShownInv == IInv /\ (OnePassIsExact => AreShown(events) /\ DetailIsShown)

\* The scenario stays as it is.
LEMMA ScenarioStays ==
    ASSUME IInv, [Next]_vars
    PROVE  scenario' = scenario
<1>1. CASE Record \/ Clear
    BY <1>1, AppSteps
<1>2. CASE \E r \in scenario.requests : Ask(r)
    BY <1>2 DEF Ask
<1>3. CASE Handle
    BY <1>3, HandleIs, ListResponds DEF ReadList, Respond, Answered
<1>4. CASE NoDependency \/ NoHook \/ DependencyPasses \/ DependencyInvalid \/ DependencyRefuses
    BY <1>4 DEF NoDependency, NoHook, DependencyPasses, DependencyInvalid, DependencyRefuses, GoesOn, Answered
<1>5. CASE \E o \in HookOutcomes : HookGrants(o) \/ HookDenies(o) \/ DocsWithout(o)
    BY <1>5 DEF HookGrants, HookDenies, DocsWithout, GoesOn, Answered
<1>6. CASE UNCHANGED vars
    BY <1>6 DEF vars
<1> QED
    BY <1>1, <1>2, <1>3, <1>4, <1>5, <1>6 DEF Next

\* What is stored stays what may be shown.
LEMMA ShownStep ==
    ASSUME IInv, [Next]_vars, OnePassIsExact, AreShown(events)
    PROVE  AreShown(events)'
<1>1. TypeOK /\ scenario' = scenario
    BY ScenarioStays DEF IInv
<1>2. ASSUME NEW i \in DOMAIN events' PROVE IsShownEvent(events'[i])
    <2>1. CASE \E j \in DOMAIN events : events'[i] = events[j]
        BY <2>1 DEF AreShown
    <2>2. CASE /\ recorded + 1 \in 1..Len(scenario.captures)
               /\ events'[i] = StoredEvent(recorded + 1)
        BY <1>1, <2>2, StoredShows
    <2> QED
        BY <2>1, <2>2, EventsCome
<1> QED
    BY <1>1, <1>2 DEF AreShown, IsShownEvent, IsShown, Executed, IsWhole

\* No handler but one answers with the detail of a request.
LEMMA DetailAnswers ==
    ASSUME IInv, Handle
    PROVE  \/ ReadList
           \/ get_request_detail
           \/ \E status, body : Respond(status, body) /\ body.kind # "detail"
<1>1. CASE InvalidParameters
    BY <1>1 DEF InvalidParameters
<1>2. CASE health_check
    BY <1>2 DEF health_check
<1>3. CASE get_aggregates
    BY <1>3 DEF get_aggregates
<1>4. CASE DetailMissing
    BY <1>4 DEF DetailMissing
<1>5. CASE list_requests
    BY <1>5, ListResponds
<1>6. CASE Asset
    BY <1>6 DEF Asset
<1>7. CASE Docs
    BY <1>7 DEF Docs
<1> QED
    BY <1>1, <1>2, <1>3, <1>4, <1>5, <1>6, <1>7 DEF Handle

\* The answer to GET /requests/{id} has been through one more pass.
LEMMA DetailAnswered ==
    ASSUME IInv, OnePassIsExact, AreShown(events), get_request_detail
    PROVE  DetailIsShown'
<1>1. PICK i \in DOMAIN events :
        LET event == redact_event(events[i], scenario.policy)
        IN  Respond(200, [kind |-> "detail", event |-> event,
                          signals |-> analyze_request_signals(event, scenario.thresholds)])
    BY DEF get_request_detail
<1> DEFINE event == redact_event(events[i], scenario.policy)
           signals == analyze_request_signals(event, scenario.thresholds)
           body == [kind |-> "detail", event |-> event, signals |-> signals]
<1>2. Respond(200, body)
    BY <1>1
<1>3. TypeOK /\ IsShownEvent(events[i]) /\ "request_id" \in DOMAIN events[i]
    BY DEF IInv, AreShown, Sighted, IsStore
<1>4. /\ IsShownEvent(event)
      /\ \A k \in 1..Len(event.queries) :
            Len(event.queries[k].statement) <= scenario.policy.max_statement_length
    BY <1>3, EventShows
<1> HIDE DEF event, signals
<1>5. body.event = event /\ body.signals = signals
    OBVIOUS
<1> HIDE DEF body
<1>6. response'.body = body /\ scenario' = scenario
    BY <1>2 DEF Respond, Answered
<1>7. signals = analyze_request_signals(event, scenario.thresholds)
    BY DEF signals
<1>8. /\ IsShownEvent(body.event)
      /\ \A k \in 1..Len(body.event.queries) :
            Len(body.event.queries[k].statement) <= scenario.policy.max_statement_length
      /\ body.signals = analyze_request_signals(body.event, scenario.thresholds)
    BY <1>4, <1>5, <1>7
<1> QED
    BY <1>6, <1>8 DEF DetailIsShown, IsShownEvent, IsShown, Executed, IsWhole

\* No other step changes an answer.
LEMMA DetailStep ==
    ASSUME IInv, [Next]_vars, OnePassIsExact, AreShown(events), DetailIsShown
    PROVE  DetailIsShown'
<1>0. scenario' = scenario
    BY ScenarioStays
<1>1. CASE response' = response /\ (phase' = "idle" => phase = "idle")
    BY <1>0, <1>1 DEF DetailIsShown, Answer, IsShownEvent, IsShown, Executed, IsWhole
<1>2. CASE Record \/ Clear
    BY <1>1, <1>2, AppSteps
<1>3. CASE \E r \in scenario.requests : Ask(r)
    BY <1>3 DEF Ask, DetailIsShown, Answer
<1>4. CASE \E next : GoesOn(next) /\ next # "idle"
    BY <1>4 DEF GoesOn, DetailIsShown, Answer
<1>5. CASE \E status, body : Answered(status, body) /\ body.kind # "detail"
    BY <1>5 DEF Answered, DetailIsShown, Answer
<1>6. CASE ReadList
    BY <1>6 DEF ReadList, DetailIsShown, Answer
<1>7. CASE get_request_detail
    BY <1>7, DetailAnswered
<1>8. CASE Handle /\ ~ReadList /\ ~get_request_detail
    BY <1>5, <1>8, DetailAnswers DEF Respond
<1>9. CASE NoDependency \/ NoHook \/ DependencyPasses \/ DependencyInvalid
    BY <1>4, <1>9 DEF NoDependency, NoHook, DependencyPasses, DependencyInvalid
<1>10. CASE DependencyRefuses
    BY <1>5, <1>10 DEF DependencyRefuses, Refused
<1>11. CASE \E o \in HookOutcomes : HookGrants(o) \/ HookDenies(o)
    BY <1>4, <1>5, <1>11 DEF HookGrants, HookDenies, Refused
<1>12. CASE \E o \in HookOutcomes : DocsWithout(o)
    BY <1>5, <1>12 DEF DocsWithout
<1>13. CASE UNCHANGED vars
    BY <1>1, <1>13 DEF vars, app
<1> QED
    BY <1>2, <1>3, <1>6, <1>7, <1>8, <1>9, <1>10, <1>11, <1>12, <1>13 DEF Next

LEMMA ShownInvariant == Spec => []ShownInv
<1>1. Init => ShownInv
    <2>1. Init => AreShown(events) /\ DetailIsShown
        BY DEF Init, AreShown, DetailIsShown, Answer, NoResponse
    <2> QED
        BY <2>1, InitInv DEF ShownInv
<1>2. ShownInv /\ [Next]_vars => ShownInv'
    <2> SUFFICES ASSUME ShownInv, [Next]_vars PROVE ShownInv'
        OBVIOUS
    <2>1. IInv /\ IInv'
        BY TypeStep, ControlStep, SightStep, SnapshotStep DEF IInv, ShownInv
    <2>2. ASSUME OnePassIsExact' PROVE AreShown(events)' /\ DetailIsShown'
        <3>1. OnePassIsExact
            BY <2>1, <2>2, ScenarioStays DEF OnePassIsExact
        <3> QED
            BY <2>1, <3>1, ShownStep, DetailStep DEF ShownInv
    <2> QED
        BY <2>1, <2>2 DEF ShownInv
<1> QED
    BY <1>1, <1>2, PTL DEF Spec

\* The rows of the duplicates stand for the fingerprints that come up often enough.
SequencesOf(rows) == {rows[k].sequences : k \in DOMAIN rows}
Repeated(queries, least) ==
    {WithFingerprint(queries, fp) :
        fp \in {f \in Fingerprints(queries) :
                    Reached(Cardinality(WithFingerprint(queries, f)), least)}}

LEMMA DuplicatesAre ==
    ASSUME NEW queries \in Seq(KeptQueries), NEW least,
           NEW rows, rows = _find_duplicate_queries(queries, least)
    PROVE  SequencesOf(rows) = Repeated(queries, least)
<1> DEFINE N == Len(queries)
           At(fp) == WithFingerprint(queries, fp)
           F == {f \in Fingerprints(queries) : Reached(Cardinality(At(f)), least)}
           row(fp) == [fingerprint |-> fp, sequences |-> At(fp),
                       count  |-> Cardinality(At(fp)), weight |-> 0, first |-> Min(At(fp))]
           R == {row(fp) : fp \in F}
           n == Cardinality(R)
<1>1. N \in Nat /\ DOMAIN queries = 1..N
    OBVIOUS
<1>2. ASSUME NEW fp \in F
      PROVE  /\ At(fp) \subseteq 1..N /\ Cardinality(At(fp)) \in Nat
             /\ Min(At(fp)) \in At(fp) /\ Min(At(fp)) \in Nat
             /\ \A i \in At(fp) : queries[i].fingerprint = fp
    <2>1. At(fp) \subseteq 1..N /\ \A i \in At(fp) : queries[i].fingerprint = fp
        BY <1>1 DEF WithFingerprint
    <2>2. IsFiniteSet(At(fp))
        <3>1. IsFiniteSet(1..N)
            BY <1>1, FS_Interval
        <3> HIDE DEF At
        <3> QED
            BY <2>1, <3>1, FS_Subset
    <2>3. Cardinality(At(fp)) \in Nat
        BY <2>2, FS_CardinalityType
    <2>4. \E i \in At(fp) : TRUE
        BY <1>1 DEF Fingerprints, WithFingerprint
    <2> HIDE DEF At
    <2>5. At(fp) \in SUBSET Nat /\ At(fp) # {}
        BY <1>1, <2>1, <2>4
    <2>6. Min(At(fp)) \in At(fp)
        BY <2>2, <2>5, LeastIs
    <2> QED
        BY <2>1, <2>3, <2>5, <2>6
<1>3. IsFiniteSet(R)
    <2> DEFINE prints == {queries[i].fingerprint : i \in DOMAIN queries}
               print == [i \in DOMAIN queries |-> queries[i].fingerprint]
               rowOf == [fp \in F |-> row(fp)]
    <2>6. IsFiniteSet(DOMAIN queries)
        BY <1>1, FS_Interval
    <2>1. print \in Surjection(DOMAIN queries, prints)
        BY Fun_IsSurj
    <2>2. F \in SUBSET prints
        BY DEF Fingerprints
    <2>3. rowOf \in Surjection(F, R)
        <3> HIDE DEF F, row
        <3> QED
            BY Fun_IsSurj
    <2> HIDE DEF R, F, rowOf, prints, print
    <2>4. IsFiniteSet(prints)
        BY <2>1, <2>6, FS_Surjection
    <2>5. IsFiniteSet(F)
        BY <2>2, <2>4, FS_Subset
    <2> QED
        BY <2>3, <2>5, FS_Surjection
<1>4. rows = Ordered(R)
    BY DEF _find_duplicate_queries
<1>5. \A fp \in F : /\ row(fp).fingerprint = fp /\ row(fp).sequences = At(fp)
                    /\ row(fp).count = Cardinality(At(fp)) /\ row(fp).weight = 0
                    /\ row(fp).first = Min(At(fp))
    OBVIOUS
<1>6. \A r \in R : \E fp \in F : r = row(fp)
    OBVIOUS
<1>7. \A fp \in F : row(fp) \in R
    OBVIOUS
<1> HIDE DEF R, F, row, At
<1>8. \A r \in R : /\ r.count \in Nat /\ r.weight \in Nat /\ r.first \in Nat
                   /\ \E fp \in F : r = row(fp) /\ queries[r.first].fingerprint = fp
    BY <1>2, <1>5, <1>6
<1>9. \A r, q \in R : r.first = q.first => r = q
    BY <1>8
<1>10. /\ n \in Nat /\ rows \in [1..n -> R]
       /\ \A r \in R : \E i \in 1..n : rows[i] = r
    BY <1>3, <1>4, <1>8, <1>9, OrderIs
<1>11. DOMAIN rows = 1..n /\ \A k \in 1..n : rows[k] \in R
    BY <1>10
<1>12. ASSUME NEW k \in DOMAIN rows PROVE \E fp \in F : rows[k].sequences = At(fp)
    <2>1. PICK fp \in F : rows[k] = row(fp)
        BY <1>6, <1>11
    <2> QED
        BY <1>5, <2>1
<1>13. ASSUME NEW fp \in F PROVE \E k \in DOMAIN rows : rows[k].sequences = At(fp)
    <2>1. PICK k \in 1..n : rows[k] = row(fp)
        BY <1>7, <1>10
    <2> QED
        BY <1>5, <1>11, <2>1
<1>14. {rows[k].sequences : k \in DOMAIN rows} = {At(fp) : fp \in F}
    BY <1>12, <1>13
<1> QED
    BY <1>14 DEF F, At, SequencesOf, Repeated

\* The duplicates of a detail that shows whole statements are the statements repeated.
LEMMA RepeatsAre ==
    ASSUME IInv, OnePassIsExact, DetailIsShown
    PROVE  DuplicatesAreRepeats
<1> DEFINE event == response.body.event
           queries == event.queries
           N == Len(queries)
           executed == SubSeq(Executed(event), 1, N)
           Repeats(i) == {j \in DOMAIN executed : Pattern(executed[j]) = Pattern(executed[i])}
           least == scenario.thresholds.duplicate_query_threshold
           rows == response.body.signals.duplicate_queries
<1> SUFFICES ASSUME Answer("detail"), \A i \in DOMAIN executed : IsWhole(executed[i])
             PROVE  {rows[k].sequences : k \in DOMAIN rows} =
                        {S \in {Repeats(i) : i \in DOMAIN executed} :
                            least # NoThreshold /\ Cardinality(S) >= least}
    BY DEF DuplicatesAreRepeats
<1>1. /\ IsShownEvent(event)
      /\ response.body.signals = analyze_request_signals(event, scenario.thresholds)
    BY DEF DetailIsShown
<1>2. /\ event.request_id \in DOMAIN scenario.captures
      /\ queries \in Seq(KeptQueries) /\ N <= Len(Executed(event))
      /\ \A k \in 1..N : IsShown(queries[k], Executed(event)[k])
    BY <1>1 DEF IsShownEvent
<1>3. N \in Nat /\ DOMAIN queries = 1..N /\ \A k \in 1..N : queries[k] \in KeptQueries
    BY <1>2
<1>4. Executed(event) \in Seq(Queries) /\ Len(Executed(event)) \in Nat
    BY <1>2, ExecutedAre DEF IInv, Executed
<1>5. DOMAIN executed = 1..N /\ \A k \in 1..N : executed[k] = Executed(event)[k]
    <2> HIDE DEF event
    <2> QED
        BY <1>2, <1>3, <1>4
<1>6. rows = _find_duplicate_queries(queries, least)
    BY <1>1 DEF analyze_request_signals
<1> HIDE DEF queries, rows, executed, least, event, N
<1>7. \A k \in 1..N : /\ queries[k].fingerprint = Pattern(executed[k])
                      /\ queries[k].fingerprint # <<>>
    <2> SUFFICES ASSUME NEW k \in 1..N
                 PROVE  /\ queries[k].fingerprint = Pattern(executed[k])
                        /\ queries[k].fingerprint # <<>>
        OBVIOUS
    <2>1. IsShown(queries[k], executed[k]) /\ IsWhole(executed[k])
        BY <1>2, <1>5
    <2>2. queries[k].fingerprint \in Inked
        BY <1>3 DEF KeptQueries
    <2>3. queries[k].fingerprint # <<>>
        BY <2>2 DEF Inked, IsNonBlank
    <2> QED
        BY <2>1, <2>3 DEF IsShown
<1>8. \A i \in 1..N : Repeats(i) = WithFingerprint(queries, queries[i].fingerprint)
    BY <1>3, <1>5, <1>7 DEF WithFingerprint
<1>9. Fingerprints(queries) = {queries[i].fingerprint : i \in 1..N}
    BY <1>3, <1>7 DEF Fingerprints
<1> DEFINE often(S) == Reached(Cardinality(S), least)
<1>10. {rows[k].sequences : k \in DOMAIN rows} =
            {WithFingerprint(queries, fp) :
                fp \in {f \in Fingerprints(queries) : often(WithFingerprint(queries, f))}}
    <2> HIDE DEF often
    <2>1. \A fp : often(WithFingerprint(queries, fp))
                    <=> Reached(Cardinality(WithFingerprint(queries, fp)), least)
        BY DEF often
    <2>2. {rows[k].sequences : k \in DOMAIN rows} =
                {WithFingerprint(queries, fp) :
                    fp \in {f \in Fingerprints(queries) :
                                Reached(Cardinality(WithFingerprint(queries, f)), least)}}
        <3>1. SequencesOf(rows) = Repeated(queries, least)
            BY <1>2, <1>6, DuplicatesAre
        <3> QED
            BY <3>1 DEF SequencesOf, Repeated
    <2>3. {f \in Fingerprints(queries) : often(WithFingerprint(queries, f))} =
          {f \in Fingerprints(queries) :
                Reached(Cardinality(WithFingerprint(queries, f)), least)}
        BY <2>1
    <2> QED
        BY <2>2, <2>3
<1>11. \A S : often(S) <=> least # NoThreshold /\ Cardinality(S) >= least
    BY DEF Reached
<1> HIDE DEF often, Repeats
<1>12. {S \in {Repeats(i) : i \in 1..N} : often(S)} =
            {WithFingerprint(queries, fp) :
                fp \in {f \in Fingerprints(queries) : often(WithFingerprint(queries, f))}}
    BY <1>8, <1>9
<1>13. {S \in {Repeats(i) : i \in 1..N} : often(S)} =
            {S \in {Repeats(i) : i \in 1..N} : least # NoThreshold /\ Cardinality(S) >= least}
    BY <1>11
<1>14. {rows[k].sequences : k \in DOMAIN rows} =
            {S \in {Repeats(i) : i \in DOMAIN executed} :
                least # NoThreshold /\ Cardinality(S) >= least}
    BY <1>5, <1>10, <1>12, <1>13
<1> QED
    BY <1>14 DEF Repeats, rows, executed, least, event, queries, N

-----------------------------------------------------------------------------
(* The theorems *)

\* The invariant, from which the theorems below follow.
THEOREM Inductive == Spec => []IInv
<1>1. Init => IInv
    BY InitInv
<1>2. IInv /\ [Next]_vars => IInv'
    BY TypeStep, ControlStep, SightStep, SnapshotStep DEF IInv
<1> QED
    BY <1>1, <1>2, PTL DEF Spec

\* Every variable keeps its type, the store its capacity, and a list its limit.
THEOREM TypeCorrect == Spec => []TypeOK
<1>1. IInv => TypeOK
    BY DEF IInv
<1> QED
    BY <1>1, Inductive, PTL

\* GET /requests answers with one state of the store, and with the size of the
\* same or a later one, however many requests are recorded in between.
THEOREM ListIsConsistent == Spec => []ListIsASnapshot
<1>1. IInv => ListIsASnapshot
    BY DEF IInv
<1> QED
    BY <1>1, Inductive, PTL

\* No request reaches a handler but through every guard that is set up: whoever
\* is refused learns nothing, whatever the hook returns or raises.
THEOREM AccessIsControlled == Spec => []DeniedSeesNothing
<1>1. IInv => DeniedSeesNothing
    BY DEF IInv
<1> QED
    BY <1>1, Inductive, PTL

\* Whatever was recorded, evicted and asked for, the table of routes is that of the
\* store when it was answered: get_aggregates and _aggregate_routes
\* (api.py:233-245, aggregation.py:9-46).
THEOREM RoutesAreCounted == Spec => []RoutesAddUp
<1>1. Init => TablesInv
    <2>1. Init => RoutesAddUp /\ IsMeasured(events)
        BY DEF Init, RoutesAddUp, Answer, NoResponse, IsMeasured, IsSeq
    <2> QED
        BY <2>1, InitInv DEF TablesInv
<1>2. TablesInv /\ [Next]_vars => TablesInv'
    BY TypeStep, ControlStep, SightStep, SnapshotStep, MeasuredStep, RoutesStep
       DEF IInv, TablesInv
<1>3. TablesInv => RoutesAddUp
    BY DEF TablesInv
<1> QED
    BY <1>1, <1>2, <1>3, PTL DEF Spec

\* Whatever was recorded, evicted and asked for, the rows of the table of patterns
\* account for every analysed query, and for fewer exactly when rows are cut off; no
\* row has more requests than executions or than are stored: get_aggregates and
\* _aggregate_fingerprints (api.py:233-245, aggregation.py:49-83).
THEOREM PatternsAreCounted == Spec => []PatternsAddUp
<1>1. Init => PatternsInv
    <2>1. Init => /\ RoutesAddUp /\ PatternsAddUp
                  /\ IsMeasured(events) /\ AreQueried(events)
        BY DEF Init, RoutesAddUp, PatternsAddUp, Answer, NoResponse, IsMeasured, IsSeq, AreQueried
    <2> QED
        BY <2>1, InitInv DEF PatternsInv, TablesInv
<1>2. PatternsInv /\ [Next]_vars => PatternsInv'
    BY TypeStep, ControlStep, SightStep, SnapshotStep, MeasuredStep, RoutesStep,
       QueriedStep, PatternsStep DEF IInv, TablesInv, PatternsInv
<1>3. PatternsInv => PatternsAddUp
    BY DEF PatternsInv
<1> QED
    BY <1>1, <1>2, <1>3, PTL DEF Spec

\* As far as one pass over a statement is exact, so are the three passes of every query
\* that GET /requests/{id} shows, whatever the two limits: what is shown fits, and is the
\* redacted statement, or a cut of it when that does not fit: privacy.py:96-115 and 248-279,
\* with the validation of events.py:11-17.
THEOREM PassesStayExact == Spec => [](OnePassIsExact => RedactionIsExact)
<1>1. ASSUME ShownInv, OnePassIsExact PROVE RedactionIsExact
    <2> DEFINE event == response.body.event
    <2> SUFFICES ASSUME Answer("detail"), NEW i \in DOMAIN event.queries
                 PROVE  LET query == Executed(event)[i]
                            shown == event.queries[i].statement
                        IN  /\ Len(shown) <= scenario.policy.max_statement_length
                            /\ \/ shown = Strip(Safe(query))
                               \/ ~IsWhole(query) /\ IsCutOf(shown, Safe(query))
        BY DEF RedactionIsExact
    <2>1. /\ IsShownEvent(event)
          /\ \A k \in 1..Len(event.queries) :
                Len(event.queries[k].statement) <= scenario.policy.max_statement_length
        BY <1>1 DEF ShownInv, DetailIsShown
    <2>2. i \in 1..Len(event.queries)
        BY <2>1 DEF IsShownEvent
    <2>3. IsShown(event.queries[i], Executed(event)[i])
        BY <2>1, <2>2 DEF IsShownEvent
    <2> HIDE DEF event
    <2> QED
        BY <2>1, <2>2, <2>3, ShownIsCut DEF IsShown
<1>2. ShownInv => (OnePassIsExact => RedactionIsExact)
    BY <1>1
<1> QED
    BY <1>2, ShownInvariant, PTL

\* As far as one pass over a statement is exact, the fingerprint of a whole statement is
\* its pattern, although it is computed three times and at last from what redaction has
\* left: _redact_query_event and _safe_query_fingerprint (privacy.py:248-293).
THEOREM FingerprintsStay == Spec => [](OnePassIsExact => FingerprintIsKept)
<1>1. ASSUME ShownInv, OnePassIsExact PROVE FingerprintIsKept
    <2> DEFINE event == response.body.event
    <2> SUFFICES ASSUME Answer("detail"), NEW i \in DOMAIN event.queries,
                        IsWhole(Executed(event)[i])
                 PROVE  event.queries[i].fingerprint = Pattern(Executed(event)[i])
        BY DEF FingerprintIsKept
    <2>1. IsShownEvent(event)
        BY <1>1 DEF ShownInv, DetailIsShown
    <2>2. i \in 1..Len(event.queries)
        BY <2>1 DEF IsShownEvent
    <2>3. IsShown(event.queries[i], Executed(event)[i])
        BY <2>1, <2>2 DEF IsShownEvent
    <2> HIDE DEF event
    <2> QED
        BY <2>3 DEF IsShown
<1>2. ShownInv => (OnePassIsExact => FingerprintIsKept)
    BY <1>1
<1> QED
    BY <1>2, ShownInvariant, PTL

\* As far as one pass over a statement is exact, the duplicates reported for a request
\* are the statements it executed often enough, each with all its executions, when its
\* statements are whole: _find_duplicate_queries (analysis.py:20-44).
THEOREM DuplicatesAreReal == Spec => [](OnePassIsExact => DuplicatesAreRepeats)
<1>1. ShownInv => (OnePassIsExact => DuplicatesAreRepeats)
    BY RepeatsAre DEF ShownInv
<1> QED
    BY <1>1, ShownInvariant, PTL
=============================================================================
