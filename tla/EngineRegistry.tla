--------------------------- MODULE EngineRegistry ---------------------------
(* Which SQLAlchemy engines the collector listens to: register and          *)
(* unregister_sqlalchemy_inspector (adapters/fastapi/sqlalchemy.py), called *)
(* by any thread, statement by statement under _REGISTRATION_LOCK.          *)
(*                                                                          *)
(* A registration makes three listeners, closures over the engine's names,  *)
(* and attaches them one after the other; attaching may fail.  Removing a   *)
(* listener that is attached does not.  The engine keeps what is attached.  *)
EXTENDS Integers, FiniteSets

CONSTANTS
    Threads, NoThread,
    Engines, NoEngine,
    Sets, NoSet,       \* the dicts of listeners that _create_event_listeners makes
    ListenFails        \* does event.listen ever raise?

ASSUME RegistryAssumption ==
    /\ NoThread \notin Threads
    /\ NoEngine \notin Engines
    /\ NoSet \notin Sets
    /\ ListenFails \in BOOLEAN

\* The order of the dict: 1 before_cursor_execute, 2 after_cursor_execute,
\* 3 handle_error.
Events == 1..3

VARIABLES
    attached,              \* per engine: the <<event, listeners>> SQLAlchemy calls
    _REGISTERED_ENGINES,   \* per engine: its listeners, or NoSet
    _REGISTRATION_LOCK,    \* the thread that holds it, or NoThread
    pc,                    \* per thread: the statement it is about to execute
    method, engine,        \* per thread: the function it is in, its argument
    listeners,             \* per thread: the dict it attaches or removes
    event                  \* per thread: the event the loop is at

locals == <<method, engine, listeners, event>>
vars == <<attached, _REGISTERED_ENGINES, _REGISTRATION_LOCK, pc, locals>>

Methods == {"register", "unregister"}

Init ==
    /\ attached = [e \in Engines |-> {}]
    /\ _REGISTERED_ENGINES = [e \in Engines |-> NoSet]
    /\ _REGISTRATION_LOCK = NoThread
    /\ pc = [t \in Threads |-> "idle"]
    /\ method = [t \in Threads |-> "none"]
    /\ engine = [t \in Threads |-> NoEngine]
    /\ listeners = [t \in Threads |-> NoSet]
    /\ event = [t \in Threads |-> 1]

Goto(t, from, to) ==
    /\ pc[t] = from
    /\ pc' = [pc EXCEPT ![t] = to]

\* An argument that is not an Engine raises before the lock and changes nothing.
Call(t, e, m) ==
    /\ Goto(t, "idle", "enter")
    /\ method' = [method EXCEPT ![t] = m]
    /\ engine' = [engine EXCEPT ![t] = e]
    /\ UNCHANGED <<attached, _REGISTERED_ENGINES, _REGISTRATION_LOCK, listeners, event>>

\* Mutant: the lock does not exclude anybody.
MutantLockFree == TRUE

LockFree == _REGISTRATION_LOCK = NoThread

Acquire(t) ==
    /\ LockFree
    /\ Goto(t, "enter", method[t])
    /\ _REGISTRATION_LOCK' = t
    /\ UNCHANGED <<attached, _REGISTERED_ENGINES, locals>>

\* Leaving the with block, by return or by the exception.
Release(t) ==
    /\ Goto(t, "release", "idle")
    /\ _REGISTRATION_LOCK' = NoThread
    /\ method' = [method EXCEPT ![t] = "none"]
    /\ engine' = [engine EXCEPT ![t] = NoEngine]
    /\ listeners' = [listeners EXCEPT ![t] = NoSet]
    /\ event' = [event EXCEPT ![t] = 1]
    /\ UNCHANGED <<attached, _REGISTERED_ENGINES>>

-----------------------------------------------------------------------------
(* register_sqlalchemy_inspector *)

IsRegistered(t) == _REGISTERED_ENGINES[engine[t]] # NoSet

AlreadyRegistered(t) ==
    /\ Goto(t, "register", "release")
    /\ IsRegistered(t)
    /\ UNCHANGED <<attached, _REGISTERED_ENGINES, _REGISTRATION_LOCK, locals>>

InUse ==
    {_REGISTERED_ENGINES[e] : e \in Engines} \cup {listeners[t] : t \in Threads}
    \cup UNION {{x[2] : x \in attached[e]} : e \in Engines}

\* A new dict of closures, different from every other there is.
CreateListeners(t) ==
    /\ Goto(t, "register", "listen")
    /\ ~IsRegistered(t)
    /\ \E s \in Sets \ InUse : listeners' = [listeners EXCEPT ![t] = s]
    /\ UNCHANGED <<attached, _REGISTERED_ENGINES, _REGISTRATION_LOCK, method, engine,
                   event>>

Listen(t) ==
    /\ Goto(t, "listen", IF event[t] = 3 THEN "record" ELSE "listen")
    /\ attached' = [attached EXCEPT ![engine[t]] = @ \cup {<<event[t], listeners[t]>>}]
    /\ event' = [event EXCEPT ![t] = IF @ = 3 THEN 1 ELSE @ + 1]
    /\ UNCHANGED <<_REGISTERED_ENGINES, _REGISTRATION_LOCK, method, engine,
                   listeners>>

\* event.listen raises: what was attached before is removed again, last first.
ListenRaises(t) ==
    /\ ListenFails
    /\ Goto(t, "listen", IF event[t] = 1 THEN "release" ELSE "rollback")
    /\ event' = [event EXCEPT ![t] = IF @ = 1 THEN 1 ELSE @ - 1]
    /\ UNCHANGED <<attached, _REGISTERED_ENGINES, _REGISTRATION_LOCK, method, engine,
                   listeners>>

\* Mutant: the exception leaves the first listener attached.
MutantRollBack(t) ==
    /\ Goto(t, "rollback", "release")
    /\ attached' = [attached EXCEPT ![engine[t]] = @ \ {<<event[t], listeners[t]>>}]
    /\ event' = [event EXCEPT ![t] = 1]
    /\ UNCHANGED <<_REGISTERED_ENGINES, _REGISTRATION_LOCK, method, engine,
                   listeners>>

RollBack(t) ==
    /\ Goto(t, "rollback", IF event[t] = 1 THEN "release" ELSE "rollback")
    /\ attached' = [attached EXCEPT ![engine[t]] = @ \ {<<event[t], listeners[t]>>}]
    /\ event' = [event EXCEPT ![t] = IF @ = 1 THEN 1 ELSE @ - 1]
    /\ UNCHANGED <<_REGISTERED_ENGINES, _REGISTRATION_LOCK, method, engine,
                   listeners>>

Record(t) ==
    /\ Goto(t, "record", "release")
    /\ _REGISTERED_ENGINES' = [_REGISTERED_ENGINES EXCEPT ![engine[t]] = listeners[t]]
    /\ UNCHANGED <<attached, _REGISTRATION_LOCK, locals>>

-----------------------------------------------------------------------------
(* unregister_sqlalchemy_inspector *)

NotRegistered(t) ==
    /\ Goto(t, "unregister", "release")
    /\ ~IsRegistered(t)
    /\ UNCHANGED <<attached, _REGISTERED_ENGINES, _REGISTRATION_LOCK, locals>>

Pop(t) ==
    /\ Goto(t, "unregister", "remove")
    /\ IsRegistered(t)
    /\ listeners' = [listeners EXCEPT ![t] = _REGISTERED_ENGINES[engine[t]]]
    /\ _REGISTERED_ENGINES' = [_REGISTERED_ENGINES EXCEPT ![engine[t]] = NoSet]
    /\ UNCHANGED <<attached, _REGISTRATION_LOCK, method, engine, event>>

\* Mutant: the loop goes one listener too far.
MutantRemove(t) ==
    /\ Goto(t, "remove", IF event[t] = 4 THEN "release" ELSE "remove")
    /\ attached' = [attached EXCEPT ![engine[t]] = @ \ {<<event[t], listeners[t]>>}]
    /\ event' = [event EXCEPT ![t] = IF @ = 4 THEN 1 ELSE @ + 1]
    /\ UNCHANGED <<_REGISTERED_ENGINES, _REGISTRATION_LOCK, method, engine,
                   listeners>>

Remove(t) ==
    /\ Goto(t, "remove", IF event[t] = 3 THEN "release" ELSE "remove")
    /\ attached' = [attached EXCEPT ![engine[t]] = @ \ {<<event[t], listeners[t]>>}]
    /\ event' = [event EXCEPT ![t] = IF @ = 3 THEN 1 ELSE @ + 1]
    /\ UNCHANGED <<_REGISTERED_ENGINES, _REGISTRATION_LOCK, method, engine,
                   listeners>>

Step(t) ==
    \/ Acquire(t) \/ Release(t)
    \/ AlreadyRegistered(t) \/ CreateListeners(t) \/ Listen(t) \/ ListenRaises(t)
    \/ RollBack(t) \/ Record(t)
    \/ NotRegistered(t) \/ Pop(t) \/ Remove(t)

Next ==
    \E t \in Threads :
        \/ \E e \in Engines, m \in Methods : Call(t, e, m)
        \/ Step(t)

Spec == Init /\ [][Next]_vars

-----------------------------------------------------------------------------
PCs == {"idle", "enter", "register", "listen", "rollback", "record",
        "unregister", "remove", "release"}

\* The statements inside a with block.
Holding == PCs \ {"idle", "enter"}

\* Every variable holds a value the code can give it.
TypeOK ==
    /\ attached \in [Engines -> SUBSET (Events \X Sets)]
    /\ _REGISTERED_ENGINES \in [Engines -> Sets \cup {NoSet}]
    /\ _REGISTRATION_LOCK \in Threads \cup {NoThread}
    /\ pc \in [Threads -> PCs]
    /\ method \in [Threads -> Methods \cup {"none"}]
    /\ engine \in [Threads -> Engines \cup {NoEngine}]
    /\ listeners \in [Threads -> Sets \cup {NoSet}]
    /\ event \in [Threads -> Events]

\* A registered engine has exactly its three listeners attached, at every
\* moment; whenever the lock is free, any other engine has none, however a
\* registration failed and whoever unregistered meanwhile.
Consistent ==
    \A e \in Engines :
        IF _REGISTERED_ENGINES[e] = NoSet
        THEN _REGISTRATION_LOCK = NoThread => attached[e] = {}
        ELSE attached[e] = Events \X {_REGISTERED_ENGINES[e]}

\* A query is never seen by two listeners of one kind, which would record it
\* twice: not even while other threads register its engine.
SeenOnce ==
    \A e \in Engines : \A x, y \in attached[e] : x[1] = y[1] => x = y

-----------------------------------------------------------------------------
(* What holds at every statement, from which the above follow.              *)

\* A thread is inside a with block exactly when it holds the lock.
Exclusive == \A t \in Threads : pc[t] \in Holding <=> _REGISTRATION_LOCK = t

\* Has t, at work under the lock, attached the listener of event n of a set s?
Attaches(t, n, s) ==
    /\ listeners[t] = s
    /\ \/ pc[t] = "listen" /\ n < event[t]
       \/ pc[t] = "rollback" /\ n <= event[t]
       \/ pc[t] = "record"
       \/ pc[t] = "remove" /\ n >= event[t]

\* The thread that holds the lock works on its engine, the others are settled.
Progress ==
    \A t \in Threads :
        /\ pc[t] # "idle" => engine[t] \in Engines /\ method[t] \in Methods
        /\ pc[t] \notin {"listen", "rollback", "remove"} => event[t] = 1
        /\ pc[t] \in {"listen", "rollback", "record", "remove"} =>
              listeners[t] # NoSet /\ _REGISTERED_ENGINES[engine[t]] = NoSet

\* Attached are the sets of the registered engines and what the holder of the
\* lock has attached to its own.
Settled ==
    \A e \in Engines : \A n \in Events, s \in Sets :
        <<n, s>> \in attached[e] <=>
            \/ _REGISTERED_ENGINES[e] = s
            \/ \E t \in Threads : engine[t] = e /\ Attaches(t, n, s)

IInv == TypeOK /\ Exclusive /\ Progress /\ Settled
=============================================================================
