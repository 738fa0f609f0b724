---------------------------- MODULE InspectorUI ----------------------------
(* ui/inspector/app.js: the Inspector page, against a server whose event    *)
(* store keeps recording and evicting requests.                             *)
(*                                                                          *)
(* The page is one JavaScript thread: what runs between two awaits is one   *)
(* action.  loadData and loadDetail wait for fetches, which the server      *)
(* answers at any time and whose answers arrive in any order.  Every such   *)
(* call carries the value state.token had when it started and gives up when *)
(* the token has moved on.                                                  *)
(*                                                                          *)
(* A request is its number in the order of recording.                       *)
EXTENDS EventSeqs, Functions

CONSTANTS
    Capacity,      \* the store's capacity
    ListLimit,     \* how many requests GET /requests lists (default_limit)
    HealthStatuses,  \* what GET /health says: this server only ever says "ok"
    Faults,        \* the fetches that may fail (network, access control)
    MaxRecorded,   \* bound of the model: requests the server records
    MaxActions     \* bound of the model: clicks and keys of the user

FetchNames == {"health", "requests", "aggregates", "detail"}

ASSUME PageAssumption ==
    /\ {Capacity, ListLimit} \subseteq Nat \ {0}
    /\ MaxRecorded \in Nat /\ MaxActions \in Nat
    /\ HealthStatuses \subseteq {"ok", "other"}
    /\ Faults \subseteq FetchNames

NoRequest == 0     \* null

VARIABLES
    store, recorded,         \* the server: the stored requests, how many ever
    status, requests, selectedRequestId, selectedRequestDetail, token,  \* state
    calls,                   \* the calls of loadData and loadDetail that wait
    list, detail, aggregates, copyId,  \* what the panes show
    actions,                 \* how often the user acted
    asked,                   \* recorded when the last loadData began
    shown                    \* recorded when the rendered list was answered

server == <<store, recorded>>
selection == <<selectedRequestId, selectedRequestDetail>>
state == <<status, requests, selection, token>>
panes == <<list, detail, aggregates, copyId>>
vars == <<server, state, calls, panes, actions, asked, shown>>

Init ==
    /\ store = <<>> /\ recorded = 0
    /\ status = "idle" /\ requests = <<>>
    /\ selectedRequestId = NoRequest /\ selectedRequestDetail = NoRequest
    /\ token = 0
    /\ calls = {}
    /\ list = "loading"       \* index.html starts with the spinner
    /\ detail = "placeholder" /\ aggregates = "loading" /\ copyId = NoRequest
    /\ actions = 0 /\ asked = 0 /\ shown = 0

-----------------------------------------------------------------------------
(* The server *)

\* The middleware stores another request; a full store drops its oldest.
Record ==
    /\ recorded < MaxRecorded
    /\ recorded' = recorded + 1
    /\ store' = Newest(Append(store, recorded + 1), Capacity)
    /\ UNCHANGED <<state, calls, panes, actions, asked, shown>>

\* The host application clears the store, or is restarted.
Clear ==
    /\ store # <<>>
    /\ store' = <<>>
    /\ UNCHANGED <<recorded, state, calls, panes, actions, asked, shown>>

Failed == [kind |-> "failed"]

\* fetchRequestDetail: a 404 becomes null.
DetailOf(id) == [kind |-> IF id \in Range(store) THEN "detail" ELSE "missing"]

\* What the API answers to the fetch of a call.  What a call that the page has
\* moved on from is answered, nobody looks at: one answer stands for all.
Replies(c, fetch) ==
    IF c.token # token THEN {Failed} ELSE
    (IF fetch \in Faults THEN {Failed} ELSE {}) \cup
    CASE fetch = "health"     -> [kind: HealthStatuses]
      [] fetch = "requests"   -> {[kind |-> "items", at |-> recorded,
                                   items |-> LatestFirst(store, ListLimit)]}
      [] fetch = "aggregates" -> {[kind |-> "aggregates"]}
      [] fetch = "detail"     -> {DetailOf(c.id)}

\* The fetches a call waits for, all of them started at once.
Fetches(stage) ==
    CASE stage = "health"    -> {"health"}
      [] stage = "dashboard" -> {"requests", "aggregates"}
      [] stage = "detail"    -> {"detail"}

Call(stage, tok, id) ==
    [stage |-> stage, token |-> tok, id |-> id, answers |-> [f \in {} |-> Failed]]

\* The server handles a fetch, or it fails; its answer waits to be taken up.
Answer ==
    /\ \E c \in calls : \E f \in Fetches(c.stage) \ DOMAIN c.answers :
       \E reply \in Replies(c, f) :
          calls' = (calls \ {c}) \cup
                   {[c EXCEPT !.answers =
                        [g \in DOMAIN c.answers \cup {f} |->
                            IF g = f THEN reply ELSE c.answers[g]]]}
    /\ UNCHANGED <<server, state, panes, actions, asked, shown>>

-----------------------------------------------------------------------------
(* loadData and selectRequest, up to their first await *)

\* Mutant: currentToken = state.token++.
MutantStartLoad(rest) ==
    /\ token' = token + 1
    /\ calls' = rest \cup {Call("health", token, NoRequest)}
    /\ status' = "loading"
    /\ list' = "loading" /\ aggregates' = "loading"
    /\ asked' = recorded

\* loadData: rest are the calls that go on waiting.
StartLoad(rest) ==
    /\ token' = token + 1
    /\ calls' = rest \cup {Call("health", token + 1, NoRequest)}
    /\ status' = "loading"
    /\ list' = "loading" /\ aggregates' = "loading"
    /\ asked' = recorded

\* init
Open ==
    /\ status = "idle"
    /\ StartLoad(calls)
    /\ UNCHANGED <<server, requests, selection, detail, copyId, actions, shown>>

UserActs ==
    /\ status # "idle" /\ actions < MaxActions
    /\ actions' = actions + 1

\* The refresh and retry buttons and the r key.
Reload ==
    /\ UserActs
    /\ StartLoad(calls)
    /\ UNCHANGED <<server, requests, selection, detail, copyId, shown>>

\* selectRequest's early return: the click is ignored.
IsLoaded(id) == selectedRequestId = id /\ selectedRequestDetail # NoRequest

\* Mutant: the selection does not invalidate the calls under way.
MutantselectRequest(id) ==
    /\ UserActs
    /\ list = "items"
    /\ ~IsLoaded(id)
    /\ selectedRequestId' = id
    /\ calls' = calls \cup {Call("detail", token, id)}
    /\ detail' = "loading"
    /\ UNCHANGED <<server, status, requests, selectedRequestDetail, token, list,
                   aggregates, copyId, asked, shown>>

\* A click, Enter, Space or an arrow key on a rendered item: nothing happens
\* when its details are there, otherwise they are loaded.
selectRequest(id) ==
    /\ UserActs
    /\ list = "items"
    /\ ~IsLoaded(id)
    /\ selectedRequestId' = id
    /\ token' = token + 1
    /\ calls' = calls \cup {Call("detail", token + 1, id)}
    /\ detail' = "loading"
    /\ UNCHANGED <<server, status, requests, selectedRequestDetail, list, aggregates,
                   copyId, asked, shown>>

-----------------------------------------------------------------------------
(* What the calls do once their fetches are answered *)

Arrived(c, stage) ==
    /\ c \in calls /\ c.stage = stage
    /\ DOMAIN c.answers = Fetches(stage)

\* Mutant: nobody looks at the token.
MutantCurrent(c) == TRUE

Current(c) == c.token = token

\* A call the page has moved on from ends without a trace.
GiveUp(c) ==
    /\ Arrived(c, c.stage) /\ ~Current(c)
    /\ calls' = calls \ {c}
    /\ UNCHANGED <<server, state, panes, actions, asked, shown>>

Ends(c, stage) ==
    /\ Arrived(c, stage) /\ Current(c)
    /\ calls' = calls \ {c}

\* loadHealth: the server is there.
HealthOk(c) ==
    /\ Arrived(c, "health") /\ Current(c)
    /\ c.answers["health"].kind = "ok"
    /\ calls' = (calls \ {c}) \cup {Call("dashboard", c.token, NoRequest)}
    /\ UNCHANGED <<server, state, panes, actions, asked, shown>>

\* loadHealth: the server says that it is not well; only the list tells.
HealthOther(c) ==
    /\ Ends(c, "health")
    /\ c.answers["health"].kind = "other"
    /\ status' = "disabled" /\ list' = "disabled"
    /\ UNCHANGED <<server, requests, selection, token, detail, aggregates, copyId,
                   actions, asked, shown>>

\* renderDisabledState
HealthFails(c) ==
    /\ Ends(c, "health")
    /\ c.answers["health"] = Failed
    /\ status' = "disabled" /\ list' = "disabled"
    /\ aggregates' = "error" /\ detail' = "placeholder" /\ copyId' = NoRequest
    /\ UNCHANGED <<server, requests, selection, token, actions, asked, shown>>

\* renderLoadError: without the list there is nothing to show.
ListFails(c) ==
    /\ Ends(c, "dashboard")
    /\ c.answers["requests"] = Failed
    /\ status' = "error" /\ list' = "error" /\ aggregates' = "error"
    /\ UNCHANGED <<server, requests, selection, token, detail, copyId, actions, asked,
                   shown>>

\* renderDashboardData, its part for both cases: the aggregates may have failed.
RenderDashboard(c) ==
    LET answer == c.answers["requests"] IN
    /\ Arrived(c, "dashboard") /\ Current(c)
    /\ answer # Failed
    /\ requests' = answer.items
    /\ shown' = answer.at
    /\ aggregates' = IF c.answers["aggregates"] = Failed THEN "error" ELSE "shown"

ListEmpty(c) ==
    /\ RenderDashboard(c)
    /\ requests' = <<>>
    /\ calls' = calls \ {c}
    /\ status' = "empty" /\ list' = "empty"
    /\ selectedRequestId' = NoRequest /\ selectedRequestDetail' = NoRequest
    /\ detail' = "placeholder" /\ copyId' = NoRequest
    /\ UNCHANGED <<server, token, actions, asked>>

\* Mutant: the selection is kept although its request is gone.
MutantSelectAvailable(items) ==
    IF selectedRequestId # NoRequest THEN selectedRequestId ELSE items[1]

\* selectAvailableRequest
SelectAvailable(items) ==
    IF selectedRequestId \in Range(items) THEN selectedRequestId ELSE items[1]

ListFilled(c) ==
    /\ RenderDashboard(c)
    /\ requests' # <<>>
    /\ status' = "ready" /\ list' = "items"
    /\ selectedRequestId' = SelectAvailable(requests')
    /\ detail' = "loading"
    /\ calls' = (calls \ {c}) \cup {Call("detail", c.token, selectedRequestId')}
    /\ UNCHANGED <<server, selectedRequestDetail, token, copyId, actions, asked>>

\* loadDetail: the details are shown, with a button that copies the id.
DetailFound(c) ==
    /\ Ends(c, "detail")
    /\ c.answers["detail"].kind = "detail"
    /\ selectedRequestDetail' = c.id
    /\ detail' = "shown" /\ copyId' = c.id
    /\ UNCHANGED <<server, status, requests, selectedRequestId, token, list, aggregates,
                   actions, asked, shown>>

\* Mutant: after a 404 the first request of the list that is there is tried.
MutantDetailMissing(c) ==
    /\ Arrived(c, "detail") /\ Current(c)
    /\ c.answers["detail"].kind = "missing"
    /\ selectedRequestId' = requests[1] /\ selectedRequestDetail' = NoRequest
    /\ calls' = (calls \ {c}) \cup {Call("detail", c.token, requests[1])}
    /\ detail' = "loading" /\ copyId' = NoRequest
    /\ UNCHANGED <<server, status, requests, token, list, aggregates, actions, asked,
                   shown>>

\* loadDetail after a 404: the request left the store since it was listed, so
\* the list is loaded again.
DetailMissing(c) ==
    /\ Arrived(c, "detail") /\ Current(c)
    /\ c.answers["detail"].kind = "missing"
    /\ selectedRequestId' = NoRequest /\ selectedRequestDetail' = NoRequest
    /\ detail' = "placeholder" /\ copyId' = NoRequest
    /\ StartLoad(calls \ {c})
    /\ UNCHANGED <<server, requests, actions, shown>>

\* Mutant: the pane keeps its spinner.
MutantDetailFails(c) ==
    /\ Ends(c, "detail")
    /\ c.answers["detail"] = Failed
    /\ UNCHANGED <<server, state, panes, actions, asked, shown>>

\* loadDetail: the error takes the place of the details.
DetailFails(c) ==
    /\ Ends(c, "detail")
    /\ c.answers["detail"] = Failed
    /\ detail' = "placeholder" /\ copyId' = NoRequest
    /\ UNCHANGED <<server, state, list, aggregates, actions, asked, shown>>

Continue ==
    \E c \in calls :
        \/ GiveUp(c)
        \/ HealthOk(c) \/ HealthOther(c) \/ HealthFails(c)
        \/ ListFails(c) \/ ListEmpty(c) \/ ListFilled(c)
        \/ DetailFound(c) \/ DetailMissing(c) \/ DetailFails(c)

Next ==
    \/ Record \/ Clear \/ Answer
    \/ Open \/ Reload \/ \E id \in Range(requests) : selectRequest(id)
    \/ Continue

Spec == Init /\ [][Next]_vars

\* The page is opened, every fetch is answered or fails in the end, and the
\* browser runs what can go on.
FairSpec == Spec /\ WF_vars(Open) /\ WF_vars(Answer) /\ WF_vars(Continue)

-----------------------------------------------------------------------------
Ids == Nat \ {0}
MaybeId == Ids \cup {NoRequest}

\* Every variable holds a value the code can give it.
TypeOK ==
    /\ recorded \in Nat /\ store \in Seq(1..recorded)
    /\ status \in {"idle", "loading", "ready", "empty", "error", "disabled"}
    /\ requests \in Seq(1..recorded)
    /\ selectedRequestId \in MaybeId /\ selectedRequestDetail \in MaybeId
    /\ token \in Nat /\ actions \in Nat /\ asked \in Nat /\ shown \in Nat
    /\ \A c \in calls :
        /\ c.stage \in {"health", "dashboard", "detail"}
        /\ c.token \in 1..token /\ c.id \in MaybeId
        /\ DOMAIN c.answers \subseteq Fetches(c.stage)
        /\ c.stage = "detail" => c.id # NoRequest
    /\ list \in {"loading", "items", "empty", "error", "disabled"}
    /\ detail \in {"placeholder", "loading", "shown"}
    /\ aggregates \in {"loading", "shown", "error"}
    /\ copyId \in MaybeId

\* The details on the page are those of the selected request, whatever was clicked
\* while other details were on their way.  The button beside them copies the id of
\* the details last loaded: of the selected request when its details are shown, of
\* none when there is a message instead.  While the spinner turns the previous
\* button stays (renderDetailLoading, app.js:232, leaves it alone), so it may copy
\* the id of the request selected before, for good when a refresh then fails.
DetailIsSelected ==
    /\ detail = "shown" =>
          selectedRequestDetail = selectedRequestId /\ copyId = selectedRequestId
    /\ detail = "loading" =>
          selectedRequestId # NoRequest /\ copyId \in {NoRequest, selectedRequestDetail}
    /\ detail = "placeholder" => copyId = NoRequest

\* The list pane shows what the state says: in "ready" the listed requests with
\* a selected one among them, in "empty" no request and no selection.
ListMatchesState ==
    /\ status \notin {"idle", "ready"} => list = status
    /\ status = "ready" =>
          list = "items" /\ requests # <<>> /\ selectedRequestId \in Range(requests)
    /\ status = "empty" => requests = <<>> /\ selectedRequestId = NoRequest

\* The list on the page was answered after the last refresh began: the answer
\* to an earlier one never replaces it (app.js:36, the race token).
NewestWins == status \in {"ready", "empty"} => shown >= asked

\* A spinner has a call that will replace it.  The one exception is the detail
\* spinner of a selection that a refresh overtook when that refresh fails
\* (ListFails, HealthOther), and the aggregates' in HealthOther: the code leaves
\* those panes alone.
SpinnersHaveACall ==
    LET loads == {c \in calls : Current(c)} IN
    /\ status = "loading" => \E c \in loads : c.stage \in {"health", "dashboard"}
    /\ aggregates = "loading" => status \in {"idle", "loading", "disabled"}
    /\ detail = "loading" =>
          \/ status \in {"loading", "error", "disabled"}
          \/ \E c \in loads : c.stage = "detail" /\ c.id = selectedRequestId

-----------------------------------------------------------------------------
(* The inductive invariant *)

\* What a call holds: an answer to it is not older than it, and the details a
\* current call asks for are those of the selection.
CallsAreSound ==
    \A c \in calls :
        /\ c = [stage |-> c.stage, token |-> c.token, id |-> c.id, answers |-> c.answers]
        /\ "requests" \in DOMAIN c.answers /\ c.answers["requests"] # Failed =>
            /\ c.answers["requests"].items \in Seq(1..recorded)
            /\ c.answers["requests"].at \in Nat
            /\ Current(c) => c.answers["requests"].at >= asked
        /\ Current(c) /\ c.stage = "detail" => c.id = selectedRequestId

\* Every load and every selection takes a token of its own.
OneCurrent == \A c, d \in calls : Current(c) /\ Current(d) => c = d

Progress ==
    /\ status = "idle" => calls = {} /\ detail = "placeholder"
    /\ list = "items" => status = "ready"
    /\ asked <= recorded

IInv ==
    /\ TypeOK /\ DetailIsSelected /\ ListMatchesState /\ NewestWins
    /\ SpinnersHaveACall /\ CallsAreSound /\ OneCurrent /\ Progress

\* While the pane asks for a request to be selected, or says that its details
\* could not be loaded, a click on any listed request loads its details.  A load
\* that fails leaves the previous request's details in selectedRequestDetail, so
\* the early return of selectRequest takes the new selection for a loaded one.
ClickLoads ==
    list = "items" /\ detail = "placeholder" =>
        \A id \in Range(requests) : ~IsLoaded(id)

\* When the user and the server are done, so is the page: reloading after a 404
\* does not go on forever.
Settles == <>[](calls = {} /\ status # "idle")
=============================================================================
