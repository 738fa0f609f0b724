------------------------ MODULE EngineRegistryProofs ------------------------
(* EngineRegistry's invariants for any number of threads and engines.       *)
EXTENDS EngineRegistry, TLAPS

\* At most one thread is inside a with block.
LEMMA OneHolder ==
    ASSUME IInv, NEW t \in Threads, NEW u \in Threads,
           pc[t] \in Holding, pc[u] \in Holding
    PROVE  t = u
PROOF BY DEF IInv, Exclusive

\* A step that changes neither the registry nor what is attached keeps the
\* engines settled when each thread counts as having attached the same.
LEMMA SettledStays ==
    ASSUME Settled, UNCHANGED <<attached, _REGISTERED_ENGINES>>,
           \A e \in Engines, n \in Events, s \in Sets, t \in Threads :
               (engine[t] = e /\ Attaches(t, n, s)) <=>
               (engine[t] = e /\ Attaches(t, n, s))'
    PROVE  Settled'
PROOF
<1> SUFFICES ASSUME NEW e \in Engines, NEW n \in Events, NEW s \in Sets
             PROVE  (<<n, s>> \in attached[e] <=>
                        \/ _REGISTERED_ENGINES[e] = s
                        \/ \E t \in Threads : engine[t] = e /\ Attaches(t, n, s))'
    BY DEF Settled, Events
<1>1. <<n, s>> \in attached[e] <=>
          \/ _REGISTERED_ENGINES[e] = s
          \/ \E t \in Threads : engine[t] = e /\ Attaches(t, n, s)
    BY DEF Settled
<1>2. \A t \in Threads : (engine[t] = e /\ Attaches(t, n, s)) <=>
                          (engine[t] = e /\ Attaches(t, n, s))'
    OBVIOUS
<1> QED
    BY <1>1, <1>2

LEMMA Inductive == Spec => []IInv
PROOF
<1>1. Init => IInv
    BY RegistryAssumption
       DEF Init, IInv, TypeOK, Exclusive, Progress, Settled, Attaches, Holding, PCs, Events
<1>2. IInv /\ [Next]_vars => IInv'
    <2> SUFFICES ASSUME IInv, [Next]_vars PROVE IInv'
        OBVIOUS
    <2>0. CASE UNCHANGED vars
        BY <2>0 DEF vars, locals, IInv, TypeOK, Exclusive, Progress, Settled, Attaches
    <2>1. ASSUME NEW t \in Threads, NEW e \in Engines, NEW m \in Methods, Call(t, e, m)
          PROVE  IInv'
        <3> USE <2>1 DEF Call, Goto
        <3>1. TypeOK' /\ Exclusive' /\ Progress'
            BY DEF IInv, TypeOK, Exclusive, Progress, PCs, Holding, Methods
        <3>2. Settled'
            BY SettledStays DEF IInv, TypeOK, Attaches
        <3> QED
            BY <3>1, <3>2 DEF IInv
    <2>2. ASSUME NEW t \in Threads, Acquire(t)
          PROVE  IInv'
        <3> USE <2>2 DEF Acquire, Goto
        <3>1. TypeOK' /\ Exclusive' /\ Progress'
            BY RegistryAssumption
               DEF IInv, TypeOK, Exclusive, Progress, PCs, Holding, Methods, LockFree, locals
        <3>2. Settled'
            BY SettledStays DEF IInv, TypeOK, Attaches, Progress, Methods, locals
        <3> QED
            BY <3>1, <3>2 DEF IInv
    <2>3. ASSUME NEW t \in Threads, Release(t)
          PROVE  IInv'
        <3> USE <2>3 DEF Release, Goto
        <3>1. TypeOK' /\ Exclusive' /\ Progress'
            BY RegistryAssumption
               DEF IInv, TypeOK, Exclusive, Progress, PCs, Holding, Methods, Events
        <3>2. Settled'
            BY SettledStays DEF IInv, TypeOK, Attaches
        <3> QED
            BY <3>1, <3>2 DEF IInv
    <2>4. ASSUME NEW t \in Threads, AlreadyRegistered(t) \/ NotRegistered(t)
          PROVE  IInv'
        <3> USE <2>4 DEF AlreadyRegistered, NotRegistered, Goto
        <3>1. TypeOK' /\ Exclusive' /\ Progress'
            BY DEF IInv, TypeOK, Exclusive, Progress, PCs, Holding, Methods, locals
        <3>2. Settled'
            BY SettledStays DEF IInv, TypeOK, Attaches, locals
        <3> QED
            BY <3>1, <3>2 DEF IInv
    <2>5. ASSUME NEW t \in Threads, CreateListeners(t)
          PROVE  IInv'
        <3> USE <2>5 DEF CreateListeners, Goto, IsRegistered
        <3>1. TypeOK' /\ Exclusive' /\ Progress'
            BY RegistryAssumption
               DEF IInv, TypeOK, Exclusive, Progress, PCs, Holding, Methods, Events
        <3>2. Settled'
            BY SettledStays DEF IInv, TypeOK, Attaches, Progress, Events
        <3> QED
            BY <3>1, <3>2 DEF IInv
    <2>6. ASSUME NEW t \in Threads, Listen(t)
          PROVE  IInv'
        <3> USE <2>6 DEF Listen, Goto
        <3>1. TypeOK' /\ Exclusive' /\ Progress'
            BY DEF IInv, TypeOK, Exclusive, Progress, PCs, Holding, Methods, Events
        <3>2. Settled'
            BY OneHolder, RegistryAssumption
               DEF IInv, TypeOK, Attaches, Progress, Events, Settled, Holding, PCs
        <3> QED
            BY <3>1, <3>2 DEF IInv
    <2>7. ASSUME NEW t \in Threads, ListenRaises(t)
          PROVE  IInv'
        <3> USE <2>7 DEF ListenRaises, Goto
        <3>1. TypeOK' /\ Exclusive' /\ Progress'
            BY DEF IInv, TypeOK, Exclusive, Progress, PCs, Holding, Methods, Events
        <3>2. Settled'
            BY SettledStays DEF IInv, TypeOK, Attaches, Progress, Events
        <3> QED
            BY <3>1, <3>2 DEF IInv
    <2>8. ASSUME NEW t \in Threads, RollBack(t)
          PROVE  IInv'
        <3> USE <2>8 DEF RollBack, Goto
        <3>1. TypeOK' /\ Exclusive' /\ Progress'
            BY DEF IInv, TypeOK, Exclusive, Progress, PCs, Holding, Methods, Events
        <3>2. Settled'
            <4> SUFFICES ASSUME NEW e \in Engines, NEW n \in Events, NEW s \in Sets
                         PROVE  (<<n, s>> \in attached[e] <=>
                                    \/ _REGISTERED_ENGINES[e] = s
                                    \/ \E u \in Threads : engine[u] = e /\ Attaches(u, n, s))'
                BY DEF Settled, Events
            <4>1. \A u \in Threads \ {t} : ~Attaches(u, n, s) /\ ~Attaches(u, n, s)'
                BY OneHolder DEF IInv, TypeOK, Attaches, Holding, PCs
            <4>2. Attaches(t, n, s)' <=> Attaches(t, n, s) /\ n # event[t]
                BY DEF IInv, TypeOK, Attaches, Events
            <4>3. /\ listeners[t] # NoSet /\ _REGISTERED_ENGINES[engine[t]] = NoSet
                  /\ engine[t] \in Engines
                BY DEF IInv, Progress
            <4>4. <<n, s>> \in attached'[e] <=>
                      <<n, s>> \in attached[e]
                      /\ ~(e = engine[t] /\ n = event[t] /\ s = listeners[t])
                BY <4>3 DEF IInv, TypeOK
            <4>5. Attaches(t, n, s) => s = listeners[t]
                BY DEF Attaches
            <4>6. <<n, s>> \in attached[e] <=>
                      _REGISTERED_ENGINES[e] = s \/ (engine[t] = e /\ Attaches(t, n, s))
                BY <4>1 DEF IInv, Settled
            <4> QED
                BY <4>1, <4>2, <4>3, <4>4, <4>5, <4>6, RegistryAssumption
        <3> QED
            BY <3>1, <3>2 DEF IInv
    <2>9. ASSUME NEW t \in Threads, Record(t)
          PROVE  IInv'
        <3> USE <2>9 DEF Record, Goto
        <3>0. TypeOK' /\ Exclusive'
            BY DEF IInv, TypeOK, Exclusive, Progress, PCs, Holding, locals
        <3>1. TypeOK' /\ Exclusive' /\ Progress'
            <4>1. \A u \in Threads \ {t} : pc[u] \notin Holding
                BY OneHolder DEF Holding, PCs
            <4> QED
                BY <3>0, <4>1 DEF IInv, TypeOK, Progress, PCs, Holding, locals
        <3>2. Settled'
            BY OneHolder, RegistryAssumption
               DEF IInv, TypeOK, Attaches, Progress, Events, Settled, Holding, PCs, locals
        <3> QED
            BY <3>1, <3>2 DEF IInv
    <2>10. ASSUME NEW t \in Threads, Pop(t)
          PROVE  IInv'
        <3> USE <2>10 DEF Pop, Goto, IsRegistered
        <3>1. TypeOK' /\ Exclusive' /\ Progress'
            BY OneHolder DEF IInv, TypeOK, Exclusive, Progress, PCs, Holding, Methods, Events
        <3>2. Settled'
            BY OneHolder, RegistryAssumption
               DEF IInv, TypeOK, Attaches, Progress, Events, Settled, Holding, PCs
        <3> QED
            BY <3>1, <3>2 DEF IInv
    <2>11. ASSUME NEW t \in Threads, Remove(t)
          PROVE  IInv'
        <3> USE <2>11 DEF Remove, Goto
        <3>1. TypeOK' /\ Exclusive' /\ Progress'
            BY DEF IInv, TypeOK, Exclusive, Progress, PCs, Holding, Methods, Events
        <3>2. Settled'
            BY OneHolder, RegistryAssumption
               DEF IInv, TypeOK, Attaches, Progress, Events, Settled, Holding, PCs
        <3> QED
            BY <3>1, <3>2 DEF IInv
    <2> QED
        BY <2>0, <2>1, <2>2, <2>3, <2>4, <2>5, <2>6, <2>7, <2>8, <2>9, <2>10, <2>11
           DEF Next, Step
<1> QED
    BY <1>1, <1>2, PTL DEF Spec

\* Every variable of the registry keeps its type.
THEOREM TypeCorrect == Spec => []TypeOK
PROOF
<1>1. IInv => TypeOK
    BY DEF IInv
<1> QED
    BY <1>1, Inductive, PTL

\* An engine that counts as registered has exactly the three listeners of its
\* registration, and any other engine none once the lock is free: no failed,
\* repeated or concurrent call leaves a listener behind or takes one away.
THEOREM RegistryIsConsistent == Spec => []Consistent
PROOF
<1>1. IInv => Consistent
    <2> SUFFICES ASSUME IInv, NEW e \in Engines
                 PROVE  IF _REGISTERED_ENGINES[e] = NoSet
                        THEN _REGISTRATION_LOCK = NoThread => attached[e] = {}
                        ELSE attached[e] = Events \X {_REGISTERED_ENGINES[e]}
        BY DEF Consistent
    <2>0. attached[e] \subseteq Events \X Sets
        BY DEF IInv, TypeOK
    <2>1. CASE _REGISTERED_ENGINES[e] = NoSet
        <3> SUFFICES ASSUME _REGISTRATION_LOCK = NoThread PROVE attached[e] = {}
            BY <2>1
        <3>1. \A t \in Threads, n \in Events, s \in Sets : ~Attaches(t, n, s)
            BY RegistryAssumption DEF IInv, Exclusive, Attaches, Holding, PCs
        <3>2. \A n \in Events, s \in Sets : <<n, s>> \notin attached[e]
            BY <2>1, <3>1, RegistryAssumption DEF IInv, Settled
        <3> QED
            BY <2>0, <3>2
    <2>2. CASE _REGISTERED_ENGINES[e] # NoSet
        <3>1. _REGISTERED_ENGINES[e] \in Sets
            BY <2>2 DEF IInv, TypeOK
        <3>2. \A t \in Threads, n \in Events, s \in Sets :
                 ~(engine[t] = e /\ Attaches(t, n, s))
            BY <2>2 DEF IInv, Progress, Attaches
        <3>3. \A n \in Events, s \in Sets :
                 <<n, s>> \in attached[e] <=> s = _REGISTERED_ENGINES[e]
            BY <3>2 DEF IInv, Settled
        <3> QED
            BY <2>0, <2>2, <3>1, <3>3
    <2> QED
        BY <2>1, <2>2
<1> QED
    BY <1>1, Inductive, PTL

\* No engine ever has two listeners of one kind: no query is recorded twice
\* because its engine was registered by several threads.
THEOREM QueriesAreSeenOnce == Spec => []SeenOnce
PROOF
<1>1. IInv => SeenOnce
    <2> SUFFICES ASSUME IInv, NEW e \in Engines,
                        NEW x \in attached[e], NEW y \in attached[e], x[1] = y[1]
                 PROVE  x = y
        BY DEF SeenOnce
    <2>1. PICK n \in Events, s \in Sets : x = <<n, s>>
        BY DEF IInv, TypeOK
    <2>2. PICK k \in Events, r \in Sets : y = <<k, r>>
        BY DEF IInv, TypeOK
    <2>3. s = r
        <3>1. \A t \in Threads, u \in Threads :
                 Attaches(t, n, s) /\ Attaches(u, k, r) => t = u
            BY OneHolder DEF Attaches, Holding, PCs
        <3>2. \A t \in Threads : \A m \in Events, q \in Sets :
                 Attaches(t, m, q) /\ engine[t] = e => _REGISTERED_ENGINES[e] = NoSet
            BY DEF IInv, Progress, Attaches
        <3> QED
            BY <2>1, <2>2, <3>1, <3>2, RegistryAssumption DEF IInv, Settled, Attaches
    <2> QED
        BY <2>1, <2>2, <2>3
<1> QED
    BY <1>1, Inductive, PTL
=============================================================================
