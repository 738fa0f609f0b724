-------------------------- MODULE InspectorUIProofs --------------------------
(* Proofs about the Inspector page for any store, any number of refreshes,  *)
(* clicks and recorded requests, and any fetches failing: the panes agree   *)
(* with the state whatever order the answers arrive in.                     *)
EXTENDS InspectorUI, TLAPS

\* What TypeOK and CallsAreSound ask of one call.
Sound(c) ==
    /\ c = [stage |-> c.stage, token |-> c.token, id |-> c.id, answers |-> c.answers]
    /\ c.stage \in {"health", "dashboard", "detail"}
    /\ c.token \in 1..token /\ c.id \in MaybeId
    /\ DOMAIN c.answers \subseteq Fetches(c.stage)
    /\ c.stage = "detail" => c.id # NoRequest
    /\ "requests" \in DOMAIN c.answers /\ c.answers["requests"] # Failed =>
        /\ c.answers["requests"].items \in Seq(1..recorded)
        /\ c.answers["requests"].at \in Nat
        /\ Current(c) => c.answers["requests"].at >= asked
    /\ Current(c) /\ c.stage = "detail" => c.id = selectedRequestId

\* The conjuncts of TypeOK that are not about the calls.
StateType ==
    /\ recorded \in Nat /\ store \in Seq(1..recorded)
    /\ status \in {"idle", "loading", "ready", "empty", "error", "disabled"}
    /\ requests \in Seq(1..recorded)
    /\ selectedRequestId \in MaybeId /\ selectedRequestDetail \in MaybeId
    /\ token \in Nat /\ actions \in Nat /\ asked \in Nat /\ shown \in Nat
    /\ list \in {"loading", "items", "empty", "error", "disabled"}
    /\ detail \in {"placeholder", "loading", "shown"}
    /\ aggregates \in {"loading", "shown", "error"}
    /\ copyId \in MaybeId

\* The part of the invariant about the state and the panes.
Panes == DetailIsSelected /\ ListMatchesState /\ NewestWins /\ Progress

\* SpinnersHaveACall without its local name.
Waited ==
    /\ status = "loading" =>
          \E c \in calls : Current(c) /\ c.stage \in {"health", "dashboard"}
    /\ aggregates = "loading" => status \in {"idle", "loading", "disabled"}
    /\ detail = "loading" =>
          \/ status \in {"loading", "error", "disabled"}
          \/ \E c \in calls : Current(c) /\ c.stage = "detail" /\ c.id = selectedRequestId

LEMMA IInvIs ==
    ASSUME IInv
    PROVE  StateType /\ Panes /\ Waited /\ OneCurrent /\ \A c \in calls : Sound(c)
<1>1. Waited
    BY DEF IInv, SpinnersHaveACall, Waited
<1> QED
    BY <1>1 DEF IInv, TypeOK, StateType, Panes, CallsAreSound, Sound

LEMMA IInvFrom ==
    ASSUME StateType, Panes, Waited, OneCurrent, \A c \in calls : Sound(c)
    PROVE  IInv
<1>1. SpinnersHaveACall
    BY DEF SpinnersHaveACall, Waited
<1> QED
    BY <1>1 DEF IInv, TypeOK, StateType, Panes, CallsAreSound, Sound

LEMMA IInvNext ==
    ASSUME StateType', Panes', Waited', OneCurrent', \A c \in calls' : Sound(c)'
    PROVE  IInv'
<1>1. SpinnersHaveACall'
    BY DEF SpinnersHaveACall, Waited
<1> QED
    BY <1>1 DEF IInv, TypeOK, StateType, Panes, CallsAreSound, Sound

-----------------------------------------------------------------------------
(* Sequences of requests *)

\* A longer range of numbers: what was a sequence of requests still is.
LEMMA SeqGrows ==
    ASSUME NEW m \in Nat, NEW n \in Nat, m <= n, NEW s \in Seq(1..m)
    PROVE  s \in Seq(1..n)
<1>1. 1..m \subseteq 1..n
    OBVIOUS
<1> QED
    BY <1>1

LEMMA NewestType ==
    ASSUME NEW S, NEW s \in Seq(S), NEW n \in Nat
    PROVE  Newest(s, n) \in Seq(S)
BY DEF Newest

LEMMA LatestFirstType ==
    ASSUME NEW S, NEW s \in Seq(S), NEW n \in Nat
    PROVE  LatestFirst(s, n) \in Seq(S)
<1> DEFINE m == Minimum(n, Len(s))
<1>1. Len(s) \in Nat /\ m \in Nat /\ m <= Len(s)
    BY DEF Minimum
<1>2. \A i \in 1..m : s[Len(s) - i + 1] \in S
    BY <1>1
<1> QED
    BY <1>1, <1>2 DEF LatestFirst

\* A member of a sequence of requests is a request.
LEMMA ListedIsId ==
    ASSUME NEW n \in Nat, NEW s \in Seq(1..n), NEW id \in Range(s)
    PROVE  id \in Ids /\ id \in MaybeId /\ id # NoRequest
<1>1. PICK i \in DOMAIN s : id = s[i]
    BY DEF Range
<1>2. s[i] \in 1..n
    BY <1>1
<1> QED
    BY <1>1, <1>2 DEF Ids, MaybeId, NoRequest

LEMMA FirstIsListed ==
    ASSUME NEW S, NEW s \in Seq(S), s # <<>>
    PROVE  s[1] \in Range(s)
<1>1. 1 \in DOMAIN s
    OBVIOUS
<1> QED
    BY <1>1 DEF Range

-----------------------------------------------------------------------------
(* Calls *)

\* A call that begins.
LEMMA NewCall ==
    ASSUME NEW s, NEW t, NEW i
    PROVE  /\ Call(s, t, i).stage = s /\ Call(s, t, i).token = t /\ Call(s, t, i).id = i
           /\ DOMAIN Call(s, t, i).answers = {}
           /\ Call(s, t, i) = [stage |-> Call(s, t, i).stage, token |-> Call(s, t, i).token,
                               id |-> Call(s, t, i).id, answers |-> Call(s, t, i).answers]
BY DEF Call

\* A call of which one more fetch is answered.
LEMMA MoreAnswers ==
    ASSUME NEW s, NEW t, NEW i, NEW a, NEW b, NEW c,
           c = [stage |-> s, token |-> t, id |-> i, answers |-> a]
    PROVE  [c EXCEPT !.answers = b] = [stage |-> s, token |-> t, id |-> i, answers |-> b]
OBVIOUS

LEMMA Fields ==
    ASSUME NEW s, NEW t, NEW i, NEW a
    PROVE  LET c == [stage |-> s, token |-> t, id |-> i, answers |-> a]
           IN  c.stage = s /\ c.token = t /\ c.id = i /\ c.answers = a
OBVIOUS

\* A new load takes a token of its own: it is the only current call.
LEMMA LoadStarts ==
    ASSUME IInv, NEW rest, rest \subseteq calls, StartLoad(rest),
           recorded' = recorded
    PROVE  /\ \A c \in calls' : Sound(c)'
           /\ OneCurrent'
           /\ \E c \in calls' : Current(c)' /\ c.stage = "health"
           /\ token' \in Nat /\ asked' = recorded
<1> PICK new : new = Call("health", token + 1, NoRequest)
    OBVIOUS
<1>1. token \in Nat /\ recorded \in Nat
    BY IInvIs DEF StateType
<1>2. \A c \in rest : c.token \in 1..token /\ c.token # token'
    BY <1>1, IInvIs DEF StartLoad, Sound
<1>3. calls' = rest \cup {new} /\ token' = token + 1 /\ asked' = recorded
    BY DEF StartLoad
<1>4. ASSUME NEW c \in rest PROVE Sound(c)'
    BY <1>1, <1>2, <1>3, <1>4, IInvIs DEF Sound, Current
<1>5. Sound(new)'
    <2>1. NoRequest \in MaybeId
        BY DEF MaybeId
    <2> QED
        BY <1>1, <1>3, <2>1, NewCall DEF Sound, Current
<1>6. new.token = token' /\ new.stage = "health"
    BY <1>3, NewCall
<1>7. OneCurrent'
    BY <1>2, <1>3, <1>6 DEF OneCurrent, Current
<1> QED
    BY <1>1, <1>3, <1>4, <1>5, <1>6, <1>7 DEF Current

\* A call ends, and another of the same token may take its place.
LEMMA CallEnds ==
    ASSUME IInv, NEW c \in calls, calls' = calls \ {c},
           UNCHANGED <<recorded, token, asked>>
    PROVE  OneCurrent'
BY IInvIs DEF OneCurrent, Current

LEMMA CallGoesOn ==
    ASSUME IInv, NEW c \in calls, NEW d, calls' = (calls \ {c}) \cup {d},
           d.token = c.token, UNCHANGED token
    PROVE  OneCurrent'
BY IInvIs DEF OneCurrent, Current

\* Where the only current call ends, none is left.
LEMMA NoneLeft ==
    ASSUME IInv, NEW c \in calls, Current(c), NEW d \in calls \ {c}
    PROVE  ~Current(d)
BY IInvIs DEF OneCurrent

\* A call stays sound while nothing it speaks of changes.
LEMMA StaysSound ==
    ASSUME NEW c, Sound(c), UNCHANGED <<token, asked, recorded>>,
           Current(c) /\ c.stage = "detail" => UNCHANGED selectedRequestId
    PROVE  Sound(c)'
BY DEF Sound, Current

-----------------------------------------------------------------------------
(* The server's steps *)

LEMMA InitInv == Init => IInv
<1> SUFFICES ASSUME Init PROVE IInv
    OBVIOUS
<1>1. StateType
    BY DEF Init, StateType, MaybeId
<1>2. Panes
    BY DEF Init, Panes, DetailIsSelected, ListMatchesState, NewestWins, Progress
<1>3. Waited /\ OneCurrent /\ \A c \in calls : Sound(c)
    BY DEF Init, Waited, OneCurrent
<1> QED
    BY <1>1, <1>2, <1>3, IInvFrom

LEMMA RecordStep == IInv /\ Record => IInv'
<1> SUFFICES ASSUME IInv, Record PROVE IInv'
    OBVIOUS
<1> USE DEF state, selection, panes
<1>1. StateType /\ Panes /\ Waited /\ OneCurrent /\ \A c \in calls : Sound(c)
    BY IInvIs
<1>2. recorded \in Nat /\ recorded' = recorded + 1 /\ Capacity \in Nat
    BY <1>1, PageAssumption DEF StateType, Record
<1>3. store' \in Seq(1..recorded')
    <2>1. store \in Seq(1..recorded + 1)
        BY <1>1, <1>2, SeqGrows DEF StateType
    <2>2. Append(store, recorded + 1) \in Seq(1..recorded + 1)
        BY <1>2, <2>1
    <2> QED
        BY <1>2, <2>2, NewestType DEF Record
<1>4. requests' \in Seq(1..recorded')
    BY <1>1, <1>2, SeqGrows DEF StateType, Record
<1>5. StateType'
    BY <1>1, <1>2, <1>3, <1>4 DEF StateType, Record
<1>6. Panes'
    BY <1>1, <1>2 DEF Panes, StateType, Record, DetailIsSelected, ListMatchesState,
                      NewestWins, Progress
<1>7. Waited' /\ OneCurrent'
    BY <1>1 DEF Record, Waited, OneCurrent, Current
<1>8. ASSUME NEW c \in calls' PROVE Sound(c)'
    <2>1. c \in calls /\ Sound(c)
        BY <1>1, <1>8 DEF Record
    <2>2. ASSUME "requests" \in DOMAIN c.answers, c.answers["requests"] # Failed
          PROVE  c.answers["requests"].items \in Seq(1..recorded')
        BY <1>2, <2>1, <2>2, SeqGrows DEF Sound
    <2> QED
        BY <2>1, <2>2 DEF Sound, Current, Record
<1> QED
    BY <1>5, <1>6, <1>7, <1>8, IInvNext

LEMMA ClearStep == IInv /\ Clear => IInv'
<1> SUFFICES ASSUME IInv, Clear PROVE IInv'
    OBVIOUS
<1> USE DEF state, selection, panes
<1>1. StateType /\ Panes /\ Waited /\ OneCurrent /\ \A c \in calls : Sound(c)
    BY IInvIs
<1>2. StateType'
    BY <1>1 DEF StateType, Clear
<1>3. Panes'
    BY <1>1 DEF Panes, Clear, DetailIsSelected, ListMatchesState, NewestWins, Progress
<1>4. Waited' /\ OneCurrent' /\ \A c \in calls' : Sound(c)'
    BY <1>1 DEF Clear, Waited, OneCurrent, Current, Sound
<1> QED
    BY <1>2, <1>3, <1>4, IInvNext

\* What the list request of a current call is answered.
LEMMA ListReply ==
    ASSUME IInv, NEW c \in calls, NEW reply \in Replies(c, "requests")
    PROVE  \/ reply = Failed
           \/ /\ reply.items \in Seq(1..recorded)
              /\ reply.at \in Nat /\ reply.at >= asked
<1>1. StateType /\ asked <= recorded
    BY IInvIs DEF Panes, Progress
<1>2. LatestFirst(store, ListLimit) \in Seq(1..recorded)
    BY <1>1, LatestFirstType, PageAssumption DEF StateType
<1>3. \/ reply = Failed
      \/ reply = [kind |-> "items", at |-> recorded, items |-> LatestFirst(store, ListLimit)]
    BY DEF Replies
<1> QED
    BY <1>1, <1>2, <1>3 DEF StateType

LEMMA AnswerStep == IInv /\ Answer => IInv'
<1> SUFFICES ASSUME IInv, Answer PROVE IInv'
    OBVIOUS
<1> USE DEF server, state, selection, panes
<1>1. StateType /\ Panes /\ Waited /\ OneCurrent /\ \A c \in calls : Sound(c)
    BY IInvIs
<1>2. PICK c \in calls : \E f \in Fetches(c.stage) \ DOMAIN c.answers :
        \E reply \in Replies(c, f) :
            calls' = (calls \ {c}) \cup
                     {[c EXCEPT !.answers =
                        [g \in DOMAIN c.answers \cup {f} |->
                            IF g = f THEN reply ELSE c.answers[g]]]}
    BY DEF Answer
<1>3. PICK f \in Fetches(c.stage) \ DOMAIN c.answers : \E reply \in Replies(c, f) :
        calls' = (calls \ {c}) \cup
                 {[c EXCEPT !.answers =
                    [g \in DOMAIN c.answers \cup {f} |->
                        IF g = f THEN reply ELSE c.answers[g]]]}
    BY <1>2
<1>a. PICK reply \in Replies(c, f) :
        calls' = (calls \ {c}) \cup
                 {[c EXCEPT !.answers =
                    [g \in DOMAIN c.answers \cup {f} |->
                        IF g = f THEN reply ELSE c.answers[g]]]}
    BY <1>3
<1>b. PICK b : b = [g \in DOMAIN c.answers \cup {f} |->
                        IF g = f THEN reply ELSE c.answers[g]]
    OBVIOUS
<1>4. PICK d : d = [stage |-> c.stage, token |-> c.token, id |-> c.id, answers |-> b]
    OBVIOUS
<1>5. calls' = (calls \ {c}) \cup {d}
    <2>1. c = [stage |-> c.stage, token |-> c.token, id |-> c.id, answers |-> c.answers]
        BY <1>1 DEF Sound
    <2>2. [c EXCEPT !.answers = b] = d
        BY <2>1, <1>4, MoreAnswers
    <2> QED
        BY <1>a, <1>b, <2>2
<1>6. d.stage = c.stage /\ d.token = c.token /\ d.id = c.id /\ d.answers = b
    BY <1>4
<1>7. UNCHANGED <<recorded, token, asked, selectedRequestId>>
    BY DEF Answer
<1>8. Sound(d)
    <2>1. d = [stage |-> d.stage, token |-> d.token, id |-> d.id, answers |-> d.answers]
        BY <1>4, <1>6
    <2>2. DOMAIN d.answers \subseteq Fetches(d.stage)
        BY <1>1, <1>b, <1>6 DEF Sound
    <2>3. ASSUME "requests" \in DOMAIN d.answers, d.answers["requests"] # Failed
          PROVE  /\ d.answers["requests"].items \in Seq(1..recorded)
                 /\ d.answers["requests"].at \in Nat
                 /\ Current(d) => d.answers["requests"].at >= asked
        <3>1. CASE f = "requests"
            <4>1. d.answers["requests"] = reply
                BY <1>b, <1>6, <3>1
            <4> QED
                BY <1>a, <2>3, <3>1, <4>1, ListReply
        <3>2. CASE f # "requests"
            <4>1. "requests" \in DOMAIN c.answers /\ d.answers["requests"] = c.answers["requests"]
                BY <1>b, <1>6, <2>3, <3>2
            <4> QED
                BY <1>1, <1>6, <2>3, <4>1 DEF Sound, Current
        <3> QED
            BY <3>1, <3>2
    <2> QED
        BY <1>1, <1>6, <2>1, <2>2, <2>3 DEF Sound, Current
<1>9. \A x \in calls' : Sound(x)'
    BY <1>1, <1>5, <1>7, <1>8, StaysSound
<1>10. OneCurrent'
    BY <1>5, <1>6, <1>7, CallGoesOn
<1>11. StateType' /\ Panes'
    <2>1. StateType'
        BY <1>1 DEF StateType, Answer
    <2>2. status # "idle"
        BY <1>1 DEF Panes, Progress
    <2> QED
        BY <1>1, <2>1, <2>2 DEF Panes, Answer, DetailIsSelected, ListMatchesState, NewestWins,
                             Progress
<1>12. Waited'
    <2>1. \A x \in calls : \E y \in calls' :
            y.stage = x.stage /\ y.token = x.token /\ y.id = x.id
        BY <1>5, <1>6
    <2>2. UNCHANGED <<status, aggregates, detail, token, selectedRequestId>>
        BY DEF Answer
    <2>3. \A x \in calls : Current(x) => \E y \in calls' :
            Current(y)' /\ y.stage = x.stage /\ y.id = x.id
        BY <2>1, <2>2 DEF Current
    <2> QED
        BY <1>1, <2>2, <2>3 DEF Waited
<1> QED
    BY <1>9, <1>10, <1>11, <1>12, IInvNext

-----------------------------------------------------------------------------
(* The user's steps *)

\* Facts of a state that the invariant holds in.
Known == StateType /\ Panes /\ Waited /\ OneCurrent /\ \A c \in calls : Sound(c)

\* Whatever the pane shows, the button is that of the details last loaded.
LEMMA ButtonOfLoaded ==
    ASSUME Known
    PROVE  copyId \in {NoRequest, selectedRequestDetail}
BY DEF Known, StateType, Panes, DetailIsSelected

\* After StartLoad nothing but the two spinners and the call is new.
LEMMA LoadWaits ==
    ASSUME IInv, NEW rest, rest \subseteq calls, StartLoad(rest), recorded' = recorded
    PROVE  Waited'
<1>1. \E c \in calls' : Current(c)' /\ c.stage = "health"
    BY LoadStarts
<1> QED
    BY <1>1 DEF Waited, StartLoad

LEMMA OpenStep == IInv /\ Open => IInv'
<1> SUFFICES ASSUME IInv, Open PROVE IInv'
    OBVIOUS
<1> USE DEF server, selection
<1>1. Known
    BY IInvIs DEF Known
<1>2. StartLoad(calls) /\ recorded' = recorded
    BY DEF Open
<1>3. (\A c \in calls' : Sound(c)') /\ OneCurrent' /\ token' \in Nat /\ asked' = recorded
    BY <1>2, LoadStarts
<1>4. Waited'
    BY <1>2, LoadWaits
<1>5. StateType'
    BY <1>1, <1>3 DEF Known, StateType, Open, StartLoad
<1>6. Panes'
    BY <1>1, <1>3 DEF Known, StateType, Panes, Open, StartLoad, DetailIsSelected,
                      ListMatchesState, NewestWins, Progress
<1> QED
    BY <1>3, <1>4, <1>5, <1>6, IInvNext

LEMMA ReloadStep == IInv /\ Reload => IInv'
<1> SUFFICES ASSUME IInv, Reload PROVE IInv'
    OBVIOUS
<1> USE DEF server, selection
<1>1. Known
    BY IInvIs DEF Known
<1>2. StartLoad(calls) /\ recorded' = recorded
    BY DEF Reload
<1>3. (\A c \in calls' : Sound(c)') /\ OneCurrent' /\ token' \in Nat /\ asked' = recorded
    BY <1>2, LoadStarts
<1>4. Waited'
    BY <1>2, LoadWaits
<1>5. StateType'
    BY <1>1, <1>3 DEF Known, StateType, Reload, StartLoad, UserActs
<1>6. Panes'
    BY <1>1, <1>3 DEF Known, StateType, Panes, Reload, StartLoad, DetailIsSelected,
                      ListMatchesState, NewestWins, Progress
<1> QED
    BY <1>3, <1>4, <1>5, <1>6, IInvNext

LEMMA SelectStep ==
    ASSUME IInv, NEW id \in Range(requests), selectRequest(id)
    PROVE  IInv'
<1> USE DEF server, selection
<1>1. Known
    BY IInvIs DEF Known
<1>2. id \in MaybeId /\ id # NoRequest
    BY <1>1, ListedIsId DEF Known, StateType
<1>3. status = "ready" /\ aggregates # "loading" /\ token \in Nat
    BY <1>1 DEF Known, StateType, Panes, Progress, Waited, selectRequest
<1> PICK new : new = Call("detail", token + 1, id)
    OBVIOUS
<1>4. /\ new.stage = "detail" /\ new.token = token + 1 /\ new.id = id
      /\ DOMAIN new.answers = {}
      /\ new = [stage |-> new.stage, token |-> new.token, id |-> new.id,
                answers |-> new.answers]
    BY NewCall
<1>5. /\ calls' = calls \cup {new} /\ token' = token + 1 /\ selectedRequestId' = id
      /\ detail' = "loading"
      /\ UNCHANGED <<store, recorded, status, requests, selectedRequestDetail, list,
                     aggregates, copyId, asked, shown>>
    BY DEF selectRequest
<1>6. \A c \in calls : c.token \in 1..token /\ c.token # token'
    BY <1>1, <1>3, <1>5 DEF Known, Sound
<1>7. ASSUME NEW c \in calls PROVE Sound(c)'
    BY <1>1, <1>3, <1>5, <1>6, <1>7 DEF Known, Sound, Current
<1>8. Sound(new)'
    BY <1>2, <1>3, <1>4, <1>5 DEF Sound, Current
<1>9. OneCurrent'
    BY <1>5, <1>6, <1>4 DEF OneCurrent, Current
<1>10. Waited'
    BY <1>3, <1>4, <1>5 DEF Waited, Current
<1>11. StateType'
    BY <1>1, <1>2, <1>3, <1>5 DEF Known, StateType, selectRequest, UserActs
<1>12. Panes'
    <2>1. DetailIsSelected' /\ NewestWins' /\ Progress'
        BY <1>1, <1>2, <1>3, <1>5, ButtonOfLoaded DEF Known, Panes, DetailIsSelected, NewestWins,
                                                     Progress
    <2>2. ListMatchesState'
        BY <1>1, <1>3, <1>5 DEF Known, Panes, ListMatchesState
    <2> QED
        BY <2>1, <2>2 DEF Panes
<1> QED
    BY <1>5, <1>7, <1>8, <1>9, <1>10, <1>11, <1>12, IInvNext

-----------------------------------------------------------------------------
(* The calls' steps *)

LEMMA GiveUpStep ==
    ASSUME IInv, NEW c \in calls, GiveUp(c)
    PROVE  IInv'
<1> USE DEF server, state, selection, panes
<1>1. Known
    BY IInvIs DEF Known
<1>2. /\ calls' = calls \ {c} /\ ~Current(c)
      /\ UNCHANGED <<store, recorded, status, requests, selectedRequestId,
                     selectedRequestDetail, token, list, detail, aggregates, copyId,
                     actions, asked, shown>>
    BY DEF GiveUp
<1>3. \A d \in calls' : Sound(d)'
    BY <1>1, <1>2, StaysSound DEF Known
<1>4. OneCurrent'
    BY <1>2, CallEnds
<1>5. Waited'
    BY <1>1, <1>2 DEF Known, Waited, Current
<1>6. StateType'
    BY <1>1, <1>2 DEF Known, StateType
<1>7. Panes'
    BY <1>1, <1>2 DEF Known, Panes, DetailIsSelected, ListMatchesState, NewestWins, Progress
<1> QED
    BY <1>3, <1>4, <1>5, <1>6, <1>7, IInvNext

LEMMA HealthOkStep ==
    ASSUME IInv, NEW c \in calls, HealthOk(c)
    PROVE  IInv'
<1> USE DEF server, state, selection, panes
<1>1. Known
    BY IInvIs DEF Known
<1> PICK new : new = Call("dashboard", c.token, NoRequest)
    OBVIOUS
<1>2. /\ new.stage = "dashboard" /\ new.token = c.token /\ new.id = NoRequest
      /\ DOMAIN new.answers = {}
      /\ new = [stage |-> new.stage, token |-> new.token, id |-> new.id,
                answers |-> new.answers]
    BY NewCall
<1>3. /\ calls' = (calls \ {c}) \cup {new} /\ Current(c) /\ c.stage = "health"
      /\ UNCHANGED <<store, recorded, status, requests, selectedRequestId,
                     selectedRequestDetail, token, list, detail, aggregates, copyId,
                     actions, asked, shown>>
    BY DEF HealthOk, Arrived
<1>4. Sound(new)'
    BY <1>1, <1>2, <1>3 DEF Known, Sound, MaybeId
<1>5. \A d \in calls' : Sound(d)'
    BY <1>1, <1>3, <1>4, StaysSound DEF Known
<1>6. OneCurrent'
    BY <1>2, <1>3, CallGoesOn
<1>7. Waited'
    BY <1>1, <1>2, <1>3 DEF Known, Waited, Current, OneCurrent
<1>8. StateType'
    BY <1>1, <1>3 DEF Known, StateType
<1>9. Panes'
    BY <1>1, <1>3 DEF Known, Panes, DetailIsSelected, ListMatchesState, NewestWins, Progress
<1> QED
    BY <1>5, <1>6, <1>7, <1>8, <1>9, IInvNext

\* The steps in which a current call ends and no other begins.
LEMMA LastCall ==
    ASSUME IInv, NEW c \in calls, NEW stage, Ends(c, stage),
           UNCHANGED <<recorded, token, asked>>,
           stage = "detail" => UNCHANGED selectedRequestId
    PROVE  /\ OneCurrent' /\ c.stage = stage
           /\ \A d \in calls' : ~Current(d)' /\ d \in calls /\ Sound(d)'
<1>1. Known
    BY IInvIs DEF Known
<1>2. calls' = calls \ {c} /\ Current(c) /\ c.stage = stage
    BY DEF Ends, Arrived
<1>3. \A d \in calls' : ~Current(d)
    BY <1>2, NoneLeft
<1>4. \A d \in calls' : ~Current(d)' /\ d \in calls
    BY <1>2, <1>3 DEF Current
<1>5. \A d \in calls' : Sound(d)'
    BY <1>1, <1>3, <1>4, StaysSound DEF Known
<1> QED
    BY <1>2, <1>4, <1>5, CallEnds

LEMMA HealthOtherStep ==
    ASSUME IInv, NEW c \in calls, HealthOther(c)
    PROVE  IInv'
<1> USE DEF server, selection
<1>1. Known
    BY IInvIs DEF Known
<1>2. OneCurrent' /\ \A d \in calls' : Sound(d)'
    BY LastCall DEF HealthOther
<1>3. Waited' /\ StateType'
    BY <1>1 DEF Known, Waited, StateType, HealthOther
<1>4. Panes'
    BY <1>1 DEF Known, Panes, HealthOther, DetailIsSelected, ListMatchesState, NewestWins,
                Progress
<1> QED
    BY <1>2, <1>3, <1>4, IInvNext

LEMMA HealthFailsStep ==
    ASSUME IInv, NEW c \in calls, HealthFails(c)
    PROVE  IInv'
<1> USE DEF server, selection
<1>1. Known
    BY IInvIs DEF Known
<1>2. OneCurrent' /\ \A d \in calls' : Sound(d)'
    BY LastCall DEF HealthFails
<1>3. Waited' /\ StateType'
    BY <1>1 DEF Known, Waited, StateType, HealthFails, MaybeId
<1>4. Panes'
    BY <1>1 DEF Known, Panes, HealthFails, DetailIsSelected, ListMatchesState, NewestWins,
                Progress
<1> QED
    BY <1>2, <1>3, <1>4, IInvNext

LEMMA ListFailsStep ==
    ASSUME IInv, NEW c \in calls, ListFails(c)
    PROVE  IInv'
<1> USE DEF server, selection
<1>1. Known
    BY IInvIs DEF Known
<1>2. OneCurrent' /\ \A d \in calls' : Sound(d)'
    BY LastCall DEF ListFails
<1>3. Waited' /\ StateType'
    BY <1>1 DEF Known, Waited, StateType, ListFails
<1>4. Panes'
    BY <1>1 DEF Known, Panes, ListFails, DetailIsSelected, ListMatchesState, NewestWins,
                Progress
<1> QED
    BY <1>2, <1>3, <1>4, IInvNext

\* The list that a current call has been answered.
LEMMA ListAnswer ==
    ASSUME IInv, NEW c \in calls, RenderDashboard(c)
    PROVE  /\ Current(c) /\ c.stage = "dashboard"
           /\ requests' \in Seq(1..recorded)
           /\ shown' \in Nat /\ shown' >= asked
           /\ aggregates' \in {"error", "shown"}
<1>1. Sound(c) /\ Current(c) /\ c.stage = "dashboard" /\ "requests" \in DOMAIN c.answers
    BY IInvIs DEF RenderDashboard, Arrived, Fetches
<1> QED
    BY <1>1 DEF RenderDashboard, Sound

LEMMA ListEmptyStep ==
    ASSUME IInv, NEW c \in calls, ListEmpty(c)
    PROVE  IInv'
<1> USE DEF server
<1>1. Known
    BY IInvIs DEF Known
<1>2. /\ Current(c) /\ c.stage = "dashboard" /\ shown' \in Nat /\ shown' >= asked
      /\ aggregates' \in {"error", "shown"}
    BY ListAnswer DEF ListEmpty
<1>3. Ends(c, "dashboard") /\ UNCHANGED <<recorded, token, asked>>
    BY DEF ListEmpty, RenderDashboard, Ends
<1>4. OneCurrent' /\ \A d \in calls' : Sound(d)'
    BY <1>3, LastCall
<1>5. StateType'
    <2>1. <<>> \in Seq(1..recorded)
        OBVIOUS
    <2> QED
        BY <1>1, <1>2, <2>1 DEF Known, StateType, ListEmpty, MaybeId
<1>6. Waited'
    BY <1>1, <1>2 DEF Known, Waited, ListEmpty
<1>7. Panes'
    BY <1>1, <1>2 DEF Known, Panes, ListEmpty, DetailIsSelected, ListMatchesState, NewestWins,
                      Progress
<1> QED
    BY <1>4, <1>5, <1>6, <1>7, IInvNext

LEMMA ListFilledStep ==
    ASSUME IInv, NEW c \in calls, ListFilled(c)
    PROVE  IInv'
<1> USE DEF server
<1>1. Known
    BY IInvIs DEF Known
<1>2. /\ Current(c) /\ c.stage = "dashboard" /\ shown' \in Nat /\ shown' >= asked
      /\ aggregates' \in {"error", "shown"} /\ requests' \in Seq(1..recorded)
    BY ListAnswer DEF ListFilled
<1>3. /\ requests' # <<>> /\ status' = "ready" /\ list' = "items" /\ detail' = "loading"
      /\ selectedRequestId' = SelectAvailable(requests')
      /\ calls' = (calls \ {c}) \cup {Call("detail", c.token, selectedRequestId')}
      /\ UNCHANGED <<store, recorded, selectedRequestDetail, token, copyId, actions, asked>>
    BY DEF ListFilled
<1>4. selectedRequestId' \in Range(requests')
    BY <1>2, <1>3, FirstIsListed DEF SelectAvailable
<1>5. selectedRequestId' \in MaybeId /\ selectedRequestId' # NoRequest
    BY <1>1, <1>2, <1>4, ListedIsId DEF Known, StateType
<1> PICK new : new = Call("detail", c.token, selectedRequestId')
    OBVIOUS
<1>6. /\ new.stage = "detail" /\ new.token = c.token /\ new.id = selectedRequestId'
      /\ DOMAIN new.answers = {}
      /\ new = [stage |-> new.stage, token |-> new.token, id |-> new.id,
                answers |-> new.answers]
    BY NewCall
<1>7. calls' = (calls \ {c}) \cup {new}
    BY <1>3
<1>8. Sound(new)'
    BY <1>1, <1>3, <1>5, <1>6 DEF Known, Sound, Current
<1>9. \A d \in calls' : Sound(d)'
    <2>1. ASSUME NEW d \in calls \ {c} PROVE Sound(d)'
        BY <1>1, <1>2, <1>3, <2>1, NoneLeft, StaysSound DEF Known
    <2> QED
        BY <1>7, <1>8, <2>1
<1>10. OneCurrent'
    BY <1>3, <1>6, <1>7, CallGoesOn
<1>11. Waited'
    BY <1>2, <1>3, <1>6, <1>7 DEF Waited, Current
<1>12. StateType'
    BY <1>1, <1>2, <1>3, <1>5 DEF Known, StateType
<1>13. Panes'
    <2>1. DetailIsSelected'
        BY <1>1, <1>3, <1>5, ButtonOfLoaded DEF DetailIsSelected
    <2> QED
        BY <1>1, <1>2, <1>3, <1>4, <1>5, <2>1 DEF Known, Panes, ListMatchesState, NewestWins,
                                                 Progress
<1> QED
    BY <1>9, <1>10, <1>11, <1>12, <1>13, IInvNext

\* A state in which a current call for details waits.
LEMMA DetailWaits ==
    ASSUME IInv, NEW c \in calls, Current(c), c.stage = "detail"
    PROVE  /\ status \notin {"idle", "loading"}
           /\ c.id = selectedRequestId /\ c.id \in MaybeId
<1>1. Known
    BY IInvIs DEF Known
<1>2. status # "idle"
    BY <1>1 DEF Known, Panes, Progress
<1>3. status # "loading"
    BY <1>1 DEF Known, Waited, OneCurrent
<1> QED
    BY <1>1, <1>2, <1>3 DEF Known, Sound

LEMMA DetailFoundStep ==
    ASSUME IInv, NEW c \in calls, DetailFound(c)
    PROVE  IInv'
<1> USE DEF server
<1>1. Known
    BY IInvIs DEF Known
<1>2. Current(c) /\ c.stage = "detail"
    BY DEF DetailFound, Ends, Arrived
<1>3. status \notin {"idle", "loading"} /\ c.id = selectedRequestId /\ c.id \in MaybeId
    BY <1>2, DetailWaits
<1>4. OneCurrent' /\ \A d \in calls' : Sound(d)'
    BY LastCall DEF DetailFound
<1>5. Waited'
    BY <1>1, <1>3 DEF Known, Waited, DetailFound
<1>6. StateType'
    BY <1>1, <1>3 DEF Known, StateType, DetailFound
<1>7. Panes'
    BY <1>1, <1>3 DEF Known, Panes, DetailFound, DetailIsSelected, ListMatchesState,
                      NewestWins, Progress
<1> QED
    BY <1>4, <1>5, <1>6, <1>7, IInvNext

LEMMA DetailMissingStep ==
    ASSUME IInv, NEW c \in calls, DetailMissing(c)
    PROVE  IInv'
<1> USE DEF server
<1>1. Known
    BY IInvIs DEF Known
<1>2. StartLoad(calls \ {c}) /\ recorded' = recorded
    BY DEF DetailMissing
<1>3. (\A d \in calls' : Sound(d)') /\ OneCurrent' /\ token' \in Nat /\ asked' = recorded
    BY <1>2, LoadStarts
<1>4. Waited'
    BY <1>2, LoadWaits
<1>5. StateType'
    BY <1>1, <1>3 DEF Known, StateType, DetailMissing, StartLoad, MaybeId
<1>6. Panes'
    BY <1>1, <1>3 DEF Known, StateType, Panes, DetailMissing, StartLoad, DetailIsSelected,
                      ListMatchesState, NewestWins, Progress
<1> QED
    BY <1>3, <1>4, <1>5, <1>6, IInvNext

LEMMA DetailFailsStep ==
    ASSUME IInv, NEW c \in calls, DetailFails(c)
    PROVE  IInv'
<1> USE DEF server, state, selection
<1>1. Known
    BY IInvIs DEF Known
<1>2. Current(c) /\ c.stage = "detail"
    BY DEF DetailFails, Ends, Arrived
<1>3. status \notin {"idle", "loading"}
    BY <1>2, DetailWaits
<1>4. OneCurrent' /\ \A d \in calls' : Sound(d)'
    BY LastCall DEF DetailFails
<1>5. Waited'
    BY <1>1, <1>3 DEF Known, Waited, DetailFails
<1>6. StateType'
    BY <1>1 DEF Known, StateType, DetailFails, MaybeId
<1>7. Panes'
    BY <1>1, <1>3 DEF Known, Panes, DetailFails, DetailIsSelected, ListMatchesState,
                      NewestWins, Progress
<1> QED
    BY <1>4, <1>5, <1>6, <1>7, IInvNext

LEMMA StutterStep == IInv /\ UNCHANGED vars => IInv'
<1> SUFFICES ASSUME IInv, UNCHANGED vars PROVE IInv'
    OBVIOUS
<1>1. /\ UNCHANGED <<store, recorded, status, requests, selectedRequestId,
                     selectedRequestDetail, token, calls, list, detail, aggregates,
                     copyId, actions, asked, shown>>
    BY DEF vars, server, state, selection, panes
<1>2. Known
    BY IInvIs DEF Known
<1>3. StateType' /\ Panes'
    BY <1>1, <1>2 DEF Known, StateType, Panes, DetailIsSelected, ListMatchesState,
                      NewestWins, Progress
<1>4. Waited' /\ OneCurrent' /\ \A c \in calls' : Sound(c)'
    BY <1>1, <1>2 DEF Known, Waited, OneCurrent, Sound, Current
<1> QED
    BY <1>3, <1>4, IInvNext

-----------------------------------------------------------------------------
(* The theorems *)

LEMMA NextStep == IInv /\ [Next]_vars => IInv'
<1> SUFFICES ASSUME IInv, Next PROVE IInv'
    BY StutterStep
<1>1. CASE Record \/ Clear \/ Answer \/ Open \/ Reload
    BY <1>1, RecordStep, ClearStep, AnswerStep, OpenStep, ReloadStep
<1>2. CASE \E id \in Range(requests) : selectRequest(id)
    BY <1>2, SelectStep
<1>3. CASE Continue
    <2>1. PICK c \in calls :
            \/ GiveUp(c)
            \/ HealthOk(c) \/ HealthOther(c) \/ HealthFails(c)
            \/ ListFails(c) \/ ListEmpty(c) \/ ListFilled(c)
            \/ DetailFound(c) \/ DetailMissing(c) \/ DetailFails(c)
        BY <1>3 DEF Continue
    <2>2. CASE GiveUp(c) \/ HealthOk(c) \/ HealthOther(c) \/ HealthFails(c)
        BY <2>2, GiveUpStep, HealthOkStep, HealthOtherStep, HealthFailsStep
    <2>3. CASE ListFails(c) \/ ListEmpty(c) \/ ListFilled(c)
        BY <2>3, ListFailsStep, ListEmptyStep, ListFilledStep
    <2>4. CASE DetailFound(c) \/ DetailMissing(c) \/ DetailFails(c)
        BY <2>4, DetailFoundStep, DetailMissingStep, DetailFailsStep
    <2> QED
        BY <2>1, <2>2, <2>3, <2>4
<1> QED
    BY <1>1, <1>2, <1>3 DEF Next

\* The invariant of the page, from which the theorems below follow.
THEOREM Inductive == Spec => []IInv
<1>1. Init => IInv
    BY InitInv
<1>2. IInv /\ [Next]_vars => IInv'
    BY NextStep
<1> QED
    BY <1>1, <1>2, PTL DEF Spec

\* Every variable of the page keeps its type (app.js, state and renderer).
THEOREM TypeCorrect == Spec => []TypeOK
<1>1. IInv => TypeOK
    BY DEF IInv
<1> QED
    BY <1>1, Inductive, PTL

\* The details shown, and the id the copy button copies, are those of the
\* selected request, for any number of selections and any order of answers.
THEOREM DetailsAreOfTheSelection == Spec => []DetailIsSelected
<1>1. IInv => DetailIsSelected
    BY DEF IInv
<1> QED
    BY <1>1, Inductive, PTL

\* The list pane says what the state says, and the selection is in the list.
THEOREM ListIsOfTheState == Spec => []ListMatchesState
<1>1. IInv => ListMatchesState
    BY DEF IInv
<1> QED
    BY <1>1, Inductive, PTL

\* The race token works: an answer to an earlier refresh never replaces a
\* later one, for any number of refreshes under way.
THEOREM NewestRefreshWins == Spec => []NewestWins
<1>1. IInv => NewestWins
    BY DEF IInv
<1> QED
    BY <1>1, Inductive, PTL

\* Every spinner has a current call that will replace it, but for the ones
\* that ListFails and HealthOther leave alone.
THEOREM SpinnersEnd == Spec => []SpinnersHaveACall
<1>1. IInv => SpinnersHaveACall
    BY DEF IInv
<1> QED
    BY <1>1, Inductive, PTL
=============================================================================
