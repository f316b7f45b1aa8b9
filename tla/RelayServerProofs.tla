-------------------------- MODULE RelayServerProofs --------------------------
(***************************************************************************)
(* Proofs about RelayServer, for any devices, connections and messages and *)
(* whatever leaves, expires or is closed: registrations are never mixed    *)
(* up, the handlers' assertions hold, keys reach their owners and admit    *)
(* once, and only accepted sessions relay.                                 *)
(***************************************************************************)
EXTENDS RelayServerTypes

\* The seconds each prover may take for a step.
USE SMTT(15), ZenonT(15)

-----------------------------------------------------------------------------
(* Registrations                                                           *)

\* A step that touches neither the clients nor their goroutines.
LEMMA ClientKept == ASSUME ClientInv, UNCHANGED <<clients, handler>> PROVE ClientInv'
  BY DEF ClientInv, HandledIsRegistered, At

\* A goroutine goes on with a connection that stays registered.
LEMMA ClientMoves ==
    ASSUME TypeOK, ClientInv, NEW c \in Conns, NEW h \in Handlers, Go(c, h),
           UNCHANGED clients,
           h.at \in Registered => handler[c].at \in Registered,
           h.at = "create" => Owner[h.conn] = h.peer
    PROVE  ClientInv'
  <1>1. handler'[c] = h /\ \A x \in Conns \ {c} : handler'[x] = handler[x]
    BY GoTypes
  <1>2. ASSUME NEW x \in Conns, handler'[x].at \in Registered PROVE clients'[Owner[x]] = x
    BY <1>1, <1>2 DEF ClientInv, HandledIsRegistered
  <1>3. ASSUME NEW x \in Conns, handler'[x].at = "create"
        PROVE  Owner[handler'[x].conn] = handler'[x].peer
    BY <1>1, <1>3 DEF ClientInv, At
  <1>4. \A d \in Devices : clients'[d] # NoConn => Owner[clients'[d]] = d
    BY DEF ClientInv, HandledIsRegistered
  <1>. QED  BY <1>2, <1>3, <1>4 DEF ClientInv, HandledIsRegistered, At

\* clientHandler registers a connection whose identity is free, and deletes
\* the entry of the goroutine that asks for it.
LEMMA RegistrationSteps ==
    ASSUME TypeOK, ClientInv, ~panicked, NEW c \in Conns, NewClient(c) \/ DeleteClient(c)
    PROVE  ClientInv' /\ ~panicked'
  <1>0. Owner \in [Conns -> Devices] /\ NoConn \notin Conns  BY RelayAssumption
  <1>1. CASE NewClient(c)
    <2>1. CASE Taken(Owner[c])
      <3>1. Go(c, [at |-> "refuse"]) /\ UNCHANGED clients  BY <1>1, <2>1 DEF NewClient
      <3>2. [at |-> "refuse"] \in Handlers  BY HandlerShape
      <3>3. ClientInv'  BY <3>1, <3>2, ClientMoves DEF Registered
      <3>. QED  BY <1>1, <3>3 DEF NewClient
    <2>2. CASE ~Taken(Owner[c])
      <3>1. Go(c, [at |-> "greet"]) /\ clients' = [clients EXCEPT ![Owner[c]] = c]
        BY <1>1, <2>2 DEF NewClient
      <3>2. [at |-> "greet"] \in Handlers  BY HandlerShape
      <3>3. /\ handler'[c] = [at |-> "greet"]
            /\ \A x \in Conns \ {c} : handler'[x] = handler[x]
        BY <3>1, <3>2, GoTypes
      <3>4. clients[Owner[c]] = NoConn  BY <2>2 DEF Taken
      <3>5. \A d \in Devices : clients'[d] = IF d = Owner[c] THEN c ELSE clients[d]
        BY <3>1 DEF TypeOK
      <3>6. ASSUME NEW x \in Conns, handler'[x].at \in Registered
            PROVE  clients'[Owner[x]] = x
        <4>1. CASE x = c  BY <1>0, <3>5, <4>1
        <4>2. CASE x # c
          <5>1. clients[Owner[x]] = x
            BY <3>3, <3>6, <4>2 DEF ClientInv, HandledIsRegistered
          <5>. QED  BY <1>0, <3>4, <3>5, <5>1
        <4>. QED  BY <4>1, <4>2
      <3>7. \A d \in Devices : clients'[d] # NoConn => Owner[clients'[d]] = d
        BY <3>5 DEF ClientInv, HandledIsRegistered
      <3>8. ASSUME NEW x \in Conns, handler'[x].at = "create"
            PROVE  Owner[handler'[x].conn] = handler'[x].peer
        BY <3>3, <3>8 DEF ClientInv, At
      <3>9. ClientInv'  BY <3>6, <3>7, <3>8 DEF ClientInv, HandledIsRegistered, At
      <3>. QED  BY <1>1, <3>9 DEF NewClient
    <2>. QED  BY <2>1, <2>2
  <1>2. CASE DeleteClient(c)
    <2>1. clients[Owner[c]] = c
      BY <1>2 DEF DeleteClient, At, ClientInv, HandledIsRegistered, Registered, HandlerStates
    <2>2. Go(c, [at |-> "close"]) /\ clients' = [clients EXCEPT ![Owner[c]] = NoConn]
      BY <1>2 DEF DeleteClient
    <2>3. [at |-> "close"] \in Handlers  BY HandlerShape
    <2>4. /\ handler'[c] = [at |-> "close"]
          /\ \A x \in Conns \ {c} : handler'[x] = handler[x]
      BY <2>2, <2>3, GoTypes
    <2>5. \A d \in Devices : clients'[d] = IF d = Owner[c] THEN NoConn ELSE clients[d]
      BY <2>2 DEF TypeOK
    <2>6. ASSUME NEW x \in Conns, handler'[x].at \in Registered
          PROVE  clients'[Owner[x]] = x
      <3>1. x # c  BY <2>4, <2>6 DEF Registered
      <3>2. clients[Owner[x]] = x
        BY <2>4, <2>6, <3>1 DEF ClientInv, HandledIsRegistered
      <3>. QED  BY <1>0, <2>1, <2>5, <3>1, <3>2
    <2>7. \A d \in Devices : clients'[d] # NoConn => Owner[clients'[d]] = d
      BY <2>5 DEF ClientInv, HandledIsRegistered
    <2>8. ASSUME NEW x \in Conns, handler'[x].at = "create"
          PROVE  Owner[handler'[x].conn] = handler'[x].peer
      BY <2>4, <2>8 DEF ClientInv, At
    <2>9. ~panicked'  BY <1>0, <1>2, <2>1, Zenon DEF DeleteClient
    <2>. QED  BY <2>6, <2>7, <2>8, <2>9 DEF ClientInv, HandledIsRegistered, At
  <1>. QED  BY <1>1, <1>2

\* The other steps of handleClient.
LEMMA HandleSteps ==
    ASSUME TypeOK, ClientInv, NEW c \in Conns, ClientStep(c),
           ~NewClient(c), ~DeleteClient(c)
    PROVE  ClientInv'
  <1> DEFINE h == handler[c]
  <1>1. PICK g \in Handlers :
           /\ Go(c, g) /\ UNCHANGED clients
           /\ g.at \in Registered => handler[c].at \in Registered
           /\ g.at = "create" => Owner[g.conn] = g.peer
    <2> DEFINE Fits(g) == /\ g \in Handlers /\ Go(c, g) /\ UNCHANGED clients
                          /\ g.at \in Registered => handler[c].at \in Registered
                          /\ g.at = "create" => Owner[g.conn] = g.peer
    <2>1. CASE HandshakeFails(c) \/ Refuse(c) \/ HandleClientEnds(c) \/ CloseClient(c)
      <3>1. Fits([at |-> "gone"]) \/ Fits([at |-> "leave"])
        BY <2>1, HandlerShape
        DEF HandshakeFails, Refuse, HandleClientEnds, CloseClient, At, Registered,
            HandlerStates
      <3>. QED  BY <3>1
    <2>2. CASE Greet(c)
      <3>1. Fits([at |-> "gone"]) \/ Fits([at |-> "read"])
        BY <2>2, HandlerShape DEF Greet, Reading, At, Registered, HandlerStates
      <3>. QED  BY <3>1
    <2>3. CASE HandleClient(c)
      <3>1. inbox[c] \in Seq(Questions) /\ inbox[c] # <<>>
        BY <2>3 DEF HandleClient, TypeOK
      <3>2. Head(inbox[c]) \in Questions  BY <3>1
      <3>3. Head(inbox[c]) # Unexpected => Head(inbox[c]).peer \in Devices
        BY <3>2 DEF Questions, Unexpected
      <3> DEFINE p == Head(inbox[c]).peer
      <3>4. \/ Go(c, [at |-> "leave"])
            \/ /\ p \in Devices
               /\ \/ Go(c, [at |-> "request", peer |-> p]) \/ Go(c, [at |-> "accept", peer |-> p])
        BY <2>3, <3>3 DEF HandleClient
      <3> HIDE DEF p
      <3>5. \/ Fits([at |-> "leave"]) \/ Fits([at |-> "request", peer |-> p])
            \/ Fits([at |-> "accept", peer |-> p])
        BY <2>3, <3>4, HandlerShape
        DEF HandleClient, At, Registered, HandlerStates
      <3>. QED  BY <3>5
    <2>4. CASE RequestLooksUp(c)
      <3>1. h.peer \in Devices  BY <2>4, HandlerOf DEF RequestLooksUp, At
      <3>2. CASE Unavailable(h.peer)
        <4>1. Fits([at |-> "read"])
          BY <2>4, <3>2, HandlerShape
          DEF RequestLooksUp, Reading, At, Registered, HandlerStates
        <4>. QED  BY <4>1
      <3>3. CASE ~Unavailable(h.peer)
        <4> DEFINE x == clients[h.peer]
        <4>1. x \in Conns /\ Owner[x] = h.peer
          BY <3>1, <3>3 DEF Unavailable, TypeOK, ClientInv, HandledIsRegistered
        <4>2. Go(c, [at |-> "create", peer |-> h.peer, conn |-> x])
          BY <2>4, <3>3 DEF RequestLooksUp
        <4> HIDE DEF x
        <4>3. Fits([at |-> "create", peer |-> h.peer, conn |-> x])
          BY <2>4, <3>1, <4>1, <4>2, HandlerShape
          DEF RequestLooksUp, At, Registered, HandlerStates
        <4>. QED  BY <4>3
      <3>. QED  BY <3>2, <3>3
    <2>5. CASE RequestCreates(c) \/ AcceptNotifies(c)
      <3>1. Fits([at |-> "read"])
        BY <2>5, HandlerShape, Zenon
        DEF RequestCreates, AcceptNotifies, Reading, At, Registered, HandlerStates
      <3>. QED  BY <3>1
    <2>6. CASE AcceptAccepts(c)
      <3>1. h.peer \in Devices  BY <2>6, HandlerOf DEF AcceptAccepts, At
      <3>2. Go(c, [at |-> "read"]) \/ Go(c, [at |-> "notify", peer |-> h.peer])
        BY <2>6 DEF AcceptAccepts, Reading
      <3>3. Fits([at |-> "read"]) \/ Fits([at |-> "notify", peer |-> h.peer])
        BY <2>6, <3>1, <3>2, HandlerShape
        DEF AcceptAccepts, At, Registered, HandlerStates
      <3>. QED  BY <3>3
    <2>. QED  BY <2>1, <2>2, <2>3, <2>4, <2>5, <2>6 DEF ClientStep
  <1>. QED  BY <1>1, ClientMoves

-----------------------------------------------------------------------------
(* Keys                                                                    *)

\* Sessions are never forgotten and keep their initiator and their target.
OwnersKept ==
    \A n \in DOMAIN sessions :
        /\ n \in DOMAIN sessions'
        /\ sessions'[n].initiator = sessions[n].initiator
        /\ sessions'[n].target = sessions[n].target

\* A step sends no key.
SendsNoKey == \A c \in Conns : \A m \in Said(c)' : m \in Said(c) \/ m.type \notin Keyed

\* Where no key is sent and the owners stay, every key stays with its owner.
LEMMA KeysKept == ASSUME KeyInv, OwnersKept, SendsNoKey PROVE KeyInv'
  <1> SUFFICES ASSUME NEW c \in Conns, NEW m \in Said(c)', m.type \in Keyed
               PROVE  /\ m.key[1] \in DOMAIN sessions'
                      /\ (IF m.key[2] = 1 THEN sessions'[m.key[1]].initiator
                                          ELSE sessions'[m.key[1]].target) = Owner[c]
    BY DEF KeyInv, KeyOwner, Said
  <1>1. m \in Said(c)  BY DEF SendsNoKey
  <1>2. /\ m.key[1] \in DOMAIN sessions
        /\ (IF m.key[2] = 1 THEN sessions[m.key[1]].initiator
                            ELSE sessions[m.key[1]].target) = Owner[c]
    BY <1>1 DEF KeyInv, KeyOwner, Said
  <1>. QED  BY <1>2 DEF OwnersKept

\* A step that neither starts nor ends a write sends no key.
LEMMA NothingSaid == ASSUME UNCHANGED <<writes, got>> PROVE SendsNoKey
  BY DEF SendsNoKey, Said

\* Nor does the start of a write of something else.
LEMMA SpawnsNoKey ==
    ASSUME TypeOK, NEW c \in Conns, NEW m, Spawn(c, m), m.type \notin Keyed, UNCHANGED got
    PROVE  SendsNoKey
  BY SpawnSays DEF SendsNoKey, Said

\* Nor does the end of a write that was started before.
LEMMA ResultIsNoKey ==
    ASSUME TypeOK, NEW c \in Conns, NEW m, NEW ok \in BOOLEAN, WriteResult(c, m, ok),
           m \in Said(c) \/ m.type \notin Keyed,
           \A x \in Conns : BagToSet(writes'[x]) \subseteq BagToSet(writes[x])
    PROVE  SendsNoKey
  <1>1. ASSUME NEW x \in Conns, NEW k \in Said(x)'
        PROVE  k \in Said(x) \/ k.type \notin Keyed
    <2>1. k \in BagToSet(writes'[x]) \/ k \in BagToSet(got'[x])  BY <1>1 DEF Said
    <2>2. BagToSet(got'[x]) \subseteq BagToSet(got[x]) \cup (IF x = c THEN {m} ELSE {})
      BY ResultSays
    <2>. QED  BY <2>1, <2>2 DEF Said
  <1>. QED  BY <1>1 DEF SendsNoKey

\* SessionFailed carries no key.
LEMMA FailedIsNoKey == \A r, d : Failed(r, d).type \notin Keyed
  BY DEF Failed, Keyed

\* The steps of the server that write, but for the creation of a session.
LEMMA ClientSendsNoKey ==
    ASSUME TypeOK, NEW c \in Conns, ClientStep(c) \/ Write(c), ~RequestCreates(c)
    PROVE  SendsNoKey
  <1>1. CASE \/ NewClient(c) \/ HandshakeFails(c) \/ HandleClient(c)
             \/ HandleClientEnds(c) \/ DeleteClient(c) \/ CloseClient(c)
    BY <1>1, NothingSaid
    DEF NewClient, HandshakeFails, HandleClient, HandleClientEnds, DeleteClient, CloseClient
  <1>2. CASE Refuse(c)
    <2>1. \/ got' = got
          \/ got' = [x \in Conns |-> IF x = c THEN got[c] (+) SetToBag({AlreadyConnected})
                                              ELSE got[x]]
      BY <1>2, Zenon DEF Refuse, TypeOK
    <2>2. UNCHANGED writes  BY <1>2 DEF Refuse
    <2>3. ASSUME NEW x \in Conns
          PROVE  BagToSet(got'[x]) \subseteq BagToSet(got[x]) \cup {AlreadyConnected}
      <3>1. got'[x] = got[x] \/ got'[x] = got[x] (+) SetToBag({AlreadyConnected})
        BY <2>1
      <3>. QED  BY <3>1, AddElements, Zenon
    <2>. QED  BY <2>2, <2>3, MessageShape, Zenon DEF SendsNoKey, Said
  <1>3. CASE Greet(c)
    <2>1. PICK ok \in BOOLEAN : WriteResult(c, Connected, ok)  BY <1>3 DEF Greet
    <2>2. UNCHANGED writes  BY <1>3 DEF Greet
    <2>. QED  BY <2>1, <2>2, ResultIsNoKey, MessageShape
  <1>4. CASE Write(c)
    <2>1. PICK m \in BagToSet(writes[c]), ok \in BOOLEAN :
             /\ WriteResult(c, m, ok)
             /\ writes' = [writes EXCEPT ![c] = @ (-) SetToBag({m})]
      BY <1>4, Zenon DEF Write
    <2>2. ASSUME NEW x \in Conns PROVE BagToSet(writes'[x]) \subseteq BagToSet(writes[x])
      <3>1. writes'[x] = writes[x] \/ writes'[x] = writes[x] (-) SetToBag({m})
        BY <2>1 DEF TypeOK
      <3>. QED  BY <3>1, RemoveElements
    <2>3. m \in Said(c)  BY DEF Said
    <2>. QED  BY <2>1, <2>2, <2>3, ResultIsNoKey
  <1>5. CASE RequestLooksUp(c)
    <2>1. \/ UNCHANGED <<writes, got>>
          \/ Spawn(c, Failed("TargetUnavailable", handler[c].peer)) /\ UNCHANGED got
      BY <1>5 DEF RequestLooksUp
    <2>. QED  BY <2>1, NothingSaid, SpawnsNoKey, FailedIsNoKey
  <1>6. CASE AcceptAccepts(c)
    <2>1. \/ UNCHANGED <<writes, got>>
          \/ Spawn(c, Failed("UnknownSession", handler[c].peer)) /\ UNCHANGED got
          \/ Spawn(c, Failed("SessionAlreadyAccepted", handler[c].peer)) /\ UNCHANGED got
      BY <1>6 DEF AcceptAccepts
    <2>. QED  BY <2>1, NothingSaid, SpawnsNoKey, FailedIsNoKey
  <1>7. CASE AcceptNotifies(c)
    <2> DEFINE a == handler[c].peer
    <2>0. a \in Devices /\ Owner[c] \in Devices
      BY <1>7, HandlerOf, RelayAssumption DEF AcceptNotifies, At
    <2>1. \/ Spawn(c, Failed("InitiatorUnavailable", a)) /\ UNCHANGED got
          \/ /\ writes' = [x \in Conns |->
                   writes[x] (+) If(x = clients[a], Accepted(Owner[c]))
                             (+) If(x = c, Established(a))]
             /\ UNCHANGED got
      BY <1>7 DEF AcceptNotifies
    <2>2. CASE Spawn(c, Failed("InitiatorUnavailable", a)) /\ UNCHANGED got
      BY <2>2, SpawnsNoKey, FailedIsNoKey
    <2>3. CASE /\ writes' = [x \in Conns |->
                   writes[x] (+) If(x = clients[a], Accepted(Owner[c]))
                             (+) If(x = c, Established(a))]
               /\ UNCHANGED got
      <3>1. SpawnTwo(clients[a], Accepted(Owner[c]), c, Established(a))
        BY <2>3 DEF SpawnTwo
      <3>2. \A x \in Conns : BagToSet(writes'[x]) = BagToSet(writes[x])
                 \cup (IF x = clients[a] THEN {Accepted(Owner[c])} ELSE {})
                 \cup (IF x = c THEN {Established(a)} ELSE {})
        <4>1. TwoSaid(clients[a], Accepted(Owner[c]), c, Established(a))
          BY <3>1, TwoSay, Zenon
        <4>. QED  BY <4>1, Zenon DEF TwoSaid
      <3>3. Accepted(Owner[c]).type \notin Keyed /\ Established(a).type \notin Keyed
        BY <2>0, MessageShape
      <3> HIDE DEF a
      <3>. QED  BY <2>3, <3>2, <3>3 DEF SendsNoKey, Said
    <2>. QED  BY <2>1, <2>2, <2>3
  <1>. QED  BY <1>1, <1>2, <1>3, <1>4, <1>5, <1>6, <1>7 DEF ClientStep

-----------------------------------------------------------------------------
(* Sessions and session connections                                        *)

\* A step that creates no session and admits no connection.
Calm ==
    \/ UNCHANGED sessions
    \/ \E n \in DOMAIN sessions, s \in Sessions :
          sessions' = [sessions EXCEPT ![n] = s] /\ Quiet(sessions[n], s)

\* What such a step does to one session.
LEMMA CalmSession ==
    ASSUME TypeOK, Calm
    PROVE  /\ DOMAIN sessions' = DOMAIN sessions
           /\ \A n \in DOMAIN sessions :
                 sessions'[n] = sessions[n] \/ Quiet(sessions[n], sessions'[n])
  <1>1. CASE UNCHANGED sessions  BY <1>1
  <1>2. ASSUME NEW n \in DOMAIN sessions, NEW s \in Sessions,
               sessions' = [sessions EXCEPT ![n] = s], Quiet(sessions[n], s)
        PROVE  /\ DOMAIN sessions' = DOMAIN sessions
               /\ \A k \in DOMAIN sessions :
                     sessions'[k] = sessions[k] \/ Quiet(sessions[k], sessions'[k])
    <2>1. sessions \in Seq(Sessions)  BY DEF TypeOK
    <2>. QED  BY <1>2, <2>1, Update
  <1>. QED  BY <1>1, <1>2 DEF Calm

\* Such a step keeps the owners of the keys,
LEMMA CalmOwners == ASSUME TypeOK, Calm PROVE OwnersKept
  BY CalmSession DEF OwnersKept, Quiet

\* the progress and the uniqueness of the sessions,
LEMMA CalmSessions == ASSUME TypeOK, SessionInv, Calm PROVE SessionInv'
  <1>1. DOMAIN sessions' = DOMAIN sessions  BY CalmSession
  <1>2. ASSUME NEW n \in DOMAIN sessions
        PROVE  /\ sessions'[n].initiator = sessions[n].initiator
               /\ sessions'[n].target = sessions[n].target
               /\ sessions'[n].live => sessions[n].live
               /\ PhaseInv(sessions'[n])
    BY CalmSession DEF Quiet, SessionInv
  <1>3. OneSessionPerPair'
    BY <1>1, <1>2 DEF SessionInv, OneSessionPerPair
  <1>. QED  BY <1>1, <1>2, <1>3 DEF SessionInv, PhaseInv

\* and the connections the sessions hold,
LEMMA CalmHolds ==
    ASSUME TypeOK, Calm
    PROVE  \A n \in DOMAIN sessions : \A i \in 1 .. 2 : \A j \in Joins :
              Holds(sessions'[n].slot[i], j) <=> Holds(sessions[n].slot[i], j)
  BY CalmSession DEF Quiet

\* so that these agree with what AddSessionClient answered.
LEMMA CalmJoins == ASSUME TypeOK, JoinInv, Calm, UNCHANGED join PROVE JoinInv'
  <1>1. DOMAIN sessions' = DOMAIN sessions  BY CalmSession
  <1>. QED  BY <1>1, CalmHolds DEF JoinInv, Holds

\* The steps of the server that change the sessions calmly.
LEMMA CalmSteps ==
    ASSUME TypeOK, SessionInv, [Next]_vars,
           \A c \in Conns : ~RequestCreates(c),
           \A j \in Joins : ~JoinOffers(j)
    PROVE  Calm
  <1>1. ASSUME NEW n \in DOMAIN sessions, SessionStep(n) \/ Expire(n) PROVE Calm
    BY <1>1, QuietSteps DEF Calm
  <1>2. ASSUME NEW c \in Conns, AcceptAccepts(c) PROVE Calm
    <2>1. CASE UNCHANGED sessions  BY <2>1 DEF Calm
    <2>2. CASE ~UNCHANGED sessions
      <3>1. PICK n \in SessionOf(handler[c].peer, Owner[c]) :
               sessions' = [sessions EXCEPT ![n].accepted = TRUE]
        BY <1>2, <2>2 DEF AcceptAccepts
      <3>2. n \in DOMAIN sessions  BY DEF SessionOf
      <3>3. sessions[n] \in Sessions  BY <3>2 DEF TypeOK
      <3> DEFINE s == [sessions[n] EXCEPT !.accepted = TRUE]
      <3>4. Quiet(sessions[n], s)  BY <3>3, QuietAccept, Zenon
      <3>5. s \in Sessions  BY <3>4 DEF Quiet
      <3>6. sessions' = [sessions EXCEPT ![n] = s]  BY <3>1
      <3>. QED  BY <3>2, <3>4, <3>5, <3>6, Zenon DEF Calm
    <2>. QED  BY <2>1, <2>2
  <1>3. ASSUME NEW c \in Conns, ClientStep(c) \/ Write(c), ~AcceptAccepts(c) PROVE Calm
    BY <1>3, Zenon
    DEF Calm, ClientStep, NewClient, HandshakeFails, Refuse, Greet, Write, HandleClient,
        HandleClientEnds, DeleteClient, CloseClient, RequestLooksUp, AcceptNotifies
  <1>4. ASSUME NEW j \in Joins, JoinStep(j) PROVE Calm
    BY <1>4 DEF Calm, JoinStep, JoinLooksUp
  <1>5. CASE ClientHandlerStops \/ SessionHandlerStops \/ Close \/ DeviceStep
    BY <1>5
    DEF Calm, ClientHandlerStops, SessionHandlerStops, Close, DeviceStep, DeviceAsks,
        DeviceLeaves, DeviceJoins
  <1>6. CASE UNCHANGED vars  BY <1>6 DEF Calm, vars
  <1>. QED  BY <1>1, <1>2, <1>3, <1>4, <1>5, <1>6 DEF Next, ServerStep

\* A session is created.
LEMMA CreationKeeps ==
    ASSUME TypeOK, RelayInv, NEW c \in Conns, RequestCreates(c)
    PROVE  KeyInv' /\ JoinInv' /\ SessionInv'
  <1> DEFINE a == Owner[c]
             b == handler[c].peer
             x == handler[c].conn
             n == Len(sessions) + 1
             s == NewSession(a, b)
  <1>0. /\ a \in Devices /\ b \in Devices /\ x \in Conns /\ Owner[x] = b
        /\ sessions \in Seq(Sessions)
    BY HandlerOf, RelayAssumption, Zenon DEF RequestCreates, At, RelayInv, ClientInv, TypeOK
  <1>1. CASE Spawn(c, Failed("SessionExists", b)) /\ UNCHANGED sessions
    <2>1. SendsNoKey /\ Calm /\ UNCHANGED join
      BY <1>1, SpawnsNoKey, FailedIsNoKey DEF RequestCreates, Calm
    <2>. QED  BY <2>1, CalmOwners, CalmSessions, CalmJoins, KeysKept DEF RelayInv
  <1>2. CASE /\ ~Has(a, b) /\ n <= MaxSessions
             /\ sessions' = Append(Replaced(SessionOf(a, b)), s)
             /\ writes' = [y \in Conns |->
                   writes[y] (+) If(y = c, Created(Key(n, 1), b))
                             (+) If(y = x, Invitation(Key(n, 2), a))]
    <2>1. s \in Sessions /\ s.initiator = a /\ s.target = b /\ PhaseInv(s)
      BY <1>0, NewSessionFacts
    <2>2. \A i \in 1 .. 2 : \A j \in Joins : ~Holds(s.slot[i], j)
      BY <1>0, NewSessionFacts
    <2>3. UNCHANGED <<got, join>>  BY Zenon DEF RequestCreates
    <2>4. SpawnTwo(c, Created(Key(n, 1), b), x, Invitation(Key(n, 2), a))
      BY <1>2 DEF SpawnTwo
    <2>5. \A y \in Conns : BagToSet(writes'[y]) = BagToSet(writes[y])
                 \cup (IF y = c THEN {Created(Key(n, 1), b)} ELSE {})
                 \cup (IF y = x THEN {Invitation(Key(n, 2), a)} ELSE {})
      <3>1. TwoSaid(c, Created(Key(n, 1), b), x, Invitation(Key(n, 2), a))
        BY <2>4, TwoSay, Zenon
      <3>. QED  BY <3>1, Zenon DEF TwoSaid
    <2>6. /\ Created(Key(n, 1), b).key = <<n, 1>>
          /\ Invitation(Key(n, 2), a).key = <<n, 2>>
      BY DEF Created, Invitation, Key
    <2>7. sessions' = Append(sessions, s)  BY <1>2, NothingReplaced, Zenon
    <2>8. SessionOf(a, b) = {}  BY <1>2, Zenon DEF Has
    <2> HIDE DEF s
    <2>9. /\ DOMAIN sessions' = DOMAIN sessions \cup {n} /\ sessions'[n] = s
          /\ \A k \in DOMAIN sessions : sessions'[k] = sessions[k]
          /\ n \notin DOMAIN sessions
      BY <1>0, <2>1, <2>7, Creation
    <2> HIDE DEF a, b, x, n
    <2>10. ASSUME NEW y \in Conns, NEW m \in Said(y)', m.type \in Keyed
           PROVE  /\ m.key[1] \in DOMAIN sessions'
                  /\ (IF m.key[2] = 1 THEN sessions'[m.key[1]].initiator
                                      ELSE sessions'[m.key[1]].target) = Owner[y]
      <3>1. CASE m \in Said(y)
        <4>1. /\ m.key[1] \in DOMAIN sessions
              /\ (IF m.key[2] = 1 THEN sessions[m.key[1]].initiator
                                  ELSE sessions[m.key[1]].target) = Owner[y]
          BY <2>10, <3>1 DEF RelayInv, KeyInv, KeyOwner, Said
        <4>. QED  BY <2>9, <4>1
      <3>2. CASE y = c /\ m = Created(Key(n, 1), b)
        <4>1. m.key[1] = n /\ m.key[2] = 1  BY <2>6, <3>2
        <4>2. n \in DOMAIN sessions' /\ sessions'[n].initiator = Owner[y]
          BY <2>1, <2>9, <3>2, Zenon DEF a
        <4>. QED  BY <4>1, <4>2
      <3>3. CASE y = x /\ m = Invitation(Key(n, 2), a)
        <4>1. m.key[1] = n /\ m.key[2] = 2  BY <2>6, <3>3
        <4>2. Owner[y] = b  BY <1>0, <3>3, Zenon
        <4>3. n \in DOMAIN sessions' /\ sessions'[n].target = Owner[y]
          BY <2>1, <2>9, <4>2, Zenon
        <4>. QED  BY <4>1, <4>3
      <3>. QED  BY <2>3, <2>5, <3>1, <3>2, <3>3, Zenon DEF Said
    <2>11. KeyInv'  BY <2>10 DEF KeyInv, KeyOwner, Said
    <2>12. JoinInv'
      <3>1. \A j \in Joins : join'[j].at # "idle" => join'[j].key[1] \in DOMAIN sessions'
        BY <2>3, <2>9 DEF RelayInv, JoinInv
      <3>2. ASSUME NEW j \in Joins, NEW k \in DOMAIN sessions', NEW i \in 1 .. 2
            PROVE  Holds(sessions'[k].slot[i], j)
                      <=> join'[j].at = "taken" /\ join'[j].key = Key(k, i)
        <4>1. CASE k \in DOMAIN sessions
          BY <2>3, <2>9, <4>1 DEF RelayInv, JoinInv
        <4>2. CASE k = n
          <5>1. ~Holds(sessions'[k].slot[i], j)  BY <2>2, <2>9, <4>2
          <5>2. join[j].at = "taken" => join[j].key[1] # n
            BY <2>9 DEF RelayInv, JoinInv
          <5>. QED  BY <2>3, <4>2, <5>1, <5>2 DEF Key
        <4>. QED  BY <2>9, <4>1, <4>2
      <3>. QED  BY <3>1, <3>2 DEF JoinInv, Holds
    <2>13. ASSUME NEW k \in DOMAIN sessions
           PROVE  ~(sessions[k].live /\ sessions[k].initiator = a /\ sessions[k].target = b)
      BY <2>8 DEF SessionOf
    <2>14. OneSessionPerPair'
      BY <2>1, <2>9, <2>13, Zenon DEF RelayInv, SessionInv, OneSessionPerPair
    <2>15. \A k \in DOMAIN sessions' : PhaseInv(sessions'[k])
      BY <2>1, <2>9 DEF RelayInv, SessionInv
    <2>. QED  BY <2>11, <2>12, <2>14, <2>15 DEF SessionInv, PhaseInv
  <1>. QED  BY <1>1, <1>2, Zenon DEF RequestCreates

\* A session connection that is in no slot moves on, and gets in none.
LEMMA JoinAnswered ==
    ASSUME JoinInv, UNCHANGED sessions, NEW j \in Joins, join[j].at # "taken",
           join'[j].at # "taken", join'[j].key[1] \in DOMAIN sessions,
           \A k \in Joins : k # j => join'[k] = join[k]
    PROVE  JoinInv'
  <1>1. \A k \in Joins : join'[k].at # "idle" => join'[k].key[1] \in DOMAIN sessions
    BY Zenon DEF JoinInv
  <1>2. ASSUME NEW k \in Joins, NEW m \in DOMAIN sessions, NEW e \in 1 .. 2
        PROVE  Holds(sessions[m].slot[e], k)
                  <=> join'[k].at = "taken" /\ join'[k].key = Key(m, e)
    <2>1. Holds(sessions[m].slot[e], k) <=> join[k].at = "taken" /\ join[k].key = Key(m, e)
      BY Zenon DEF JoinInv
    <2>. QED  BY <2>1, Zenon
  <1>3. DOMAIN sessions' = DOMAIN sessions  BY Zenon
  <1>4. ASSUME NEW k \in Joins, NEW m \in DOMAIN sessions', NEW e \in 1 .. 2
        PROVE  Holds(sessions'[m].slot[e], k)
                  <=> join'[k].at = "taken" /\ join'[k].key = Key(m, e)
    <2>1. m \in DOMAIN sessions /\ sessions'[m].slot[e] = sessions[m].slot[e]  BY <1>3, Zenon
    <2>. QED  BY <1>2, <2>1, Zenon
  <1>. QED  BY <1>1, <1>3, <1>4, Zenon DEF JoinInv, Holds

\* A connection is refused, or admitted on the slot of its key, which held
\* nobody.
LEMMA OfferKeeps ==
    ASSUME TypeOK, RelayInv, NEW j \in Joins, JoinOffers(j)
    PROVE  OwnersKept /\ JoinInv' /\ SessionInv'
  <1> DEFINE n == join[j].key[1]
             i == join[j].key[2]
             v == [at |-> "greet", join |-> j]
             s == [sessions[n] EXCEPT !.slot[i] = v]
  <1>0. join[j].at = "offer" /\ join \in [Joins -> JoinStates]
    BY DEF JoinOffers, TypeOK
  <1>1. CASE ~Receiving(n, i)
    <2>1. Response(j, "AlreadyConnected") /\ UNCHANGED sessions
      BY <1>1 DEF JoinOffers
    <2>2. Calm  BY <2>1 DEF Calm
    <2>3. /\ join'[j] = [at |-> "AlreadyConnected", key |-> join[j].key]
          /\ \A k \in Joins : k # j => join'[k] = join[k]
      BY <1>0, <2>1 DEF Response
    <2>4. JoinInv'
      <3>1. join'[j].at = "AlreadyConnected" /\ join'[j].key = join[j].key  BY <2>3
      <3>2. JoinInv  BY Zenon DEF RelayInv
      <3>3. join[j].key[1] \in DOMAIN sessions  BY <1>0, <3>2, Zenon DEF JoinInv
      <3>. QED  BY <1>0, <2>1, <2>3, <3>1, <3>2, <3>3, JoinAnswered, Zenon
    <2>. QED  BY <2>2, <2>4, CalmOwners, CalmSessions DEF RelayInv
  <1>2. CASE Receiving(n, i)
    <2>1. /\ n \in DOMAIN sessions /\ i \in 1 .. 2 /\ sessions[n] \in Sessions
          /\ join[j].key = Key(n, i) /\ sessions[n].slot[i].at = "waiting"
          /\ s \in Sessions /\ sessions' = [sessions EXCEPT ![n] = s]
          /\ s.initiator = sessions[n].initiator /\ s.target = sessions[n].target
          /\ s.live = sessions[n].live
          /\ PhaseInv(sessions[n]) => PhaseInv(s)
          /\ s.slot = [sessions[n].slot EXCEPT ![i] = v]
      BY <1>2, Admission, Zenon DEF RelayInv
    <2>2. Response(j, "taken")  BY <1>2 DEF JoinOffers
    <2>3. /\ join'[j] = [at |-> "taken", key |-> join[j].key]
          /\ \A k \in Joins : k # j => join'[k] = join[k]
      BY <1>0, <2>2 DEF Response
    <2>taken. join'[j].at = "taken" /\ join'[j].key = join[j].key  BY <2>3
    <2> HIDE DEF s
    <2>4. /\ DOMAIN sessions' = DOMAIN sessions /\ sessions'[n] = s
          /\ \A k \in DOMAIN sessions : k # n => sessions'[k] = sessions[k]
      <3>1. sessions \in Seq(Sessions)  BY DEF TypeOK
      <3> HIDE DEF n
      <3>. QED  BY <2>1, <3>1, Update
    <2>5. OwnersKept  BY <2>1, <2>4, Zenon DEF OwnersKept
    <2>6. OneSessionPerPair'
      <3>1. \A k \in DOMAIN sessions :
               /\ sessions'[k].live = sessions[k].live
               /\ sessions'[k].initiator = sessions[k].initiator
               /\ sessions'[k].target = sessions[k].target
        BY <2>1, <2>4, Zenon
      <3>2. OneSessionPerPair  BY DEF RelayInv, SessionInv
      <3>. QED  BY <3>1, <3>2, <2>4 DEF OneSessionPerPair
    <2>7. \A k \in DOMAIN sessions' : PhaseInv(sessions'[k])
      <3>1. \A k \in DOMAIN sessions : PhaseInv(sessions[k])  BY DEF RelayInv, SessionInv
      <3>2. PhaseInv(sessions'[n])  BY <2>1, <2>4, <3>1, Zenon
      <3>3. \A k \in DOMAIN sessions : k # n => PhaseInv(sessions'[k])  BY <2>4, <3>1, Zenon
      <3>. QED  BY <2>4, <3>2, <3>3, Zenon
    <2>8. sessions[n].slot \in [1 .. 2 -> SlotStates]  BY <2>1, SessionFields, Zenon
    <2>9. /\ s.slot[i] = v
          /\ \A k \in 1 .. 2 : k # i => s.slot[k] = sessions[n].slot[k]
      BY <2>1, <2>8, Zenon
    <2>10. "join" \notin DOMAIN sessions[n].slot[i]
      BY <2>1, <2>8, SlotShape, Zenon
    <2> HIDE DEF n, i
    <2>11. ASSUME NEW k \in Joins, NEW m \in DOMAIN sessions, NEW e \in 1 .. 2
           PROVE  Holds(sessions'[m].slot[e], k)
                     <=> join'[k].at = "taken" /\ join'[k].key = Key(m, e)
      <3>0. Holds(sessions[m].slot[e], k) <=> join[k].at = "taken" /\ join[k].key = Key(m, e)
        BY DEF RelayInv, JoinInv
      <3>1. CASE m = n /\ e = i
        <4>1. Holds(sessions'[m].slot[e], k) <=> k = j
          <5>1. sessions'[m].slot[e] = v  BY <2>4, <2>9, <3>1, Zenon
          <5>2. Holds(v, k) <=> k = j  BY DEF Holds
          <5> HIDE DEF v
          <5>. QED  BY <5>1, <5>2, Zenon
        <4>2. ~Holds(sessions[m].slot[e], k)  BY <2>10, <3>1 DEF Holds
        <4>3. CASE k = j  BY <2>1, <2>taken, <3>1, <4>1, <4>3, Zenon
        <4>4. CASE k # j  BY <2>3, <3>0, <4>1, <4>2, <4>4, Zenon
        <4>. QED  BY <4>3, <4>4
      <3>2. CASE ~(m = n /\ e = i)
        <4>1. sessions'[m].slot[e] = sessions[m].slot[e]  BY <2>4, <2>9, <3>2
        <4>2. CASE k = j
          <5>1. Key(m, e) # Key(n, i)  BY <3>2 DEF Key
          <5>2. join[k].at # "taken"  BY <1>0, <4>2
          <5>. QED  BY <2>1, <2>taken, <3>0, <4>1, <4>2, <5>1, <5>2, Zenon
        <4>3. CASE k # j  BY <2>3, <3>0, <4>1, <4>3, Zenon
        <4>. QED  BY <4>2, <4>3
      <3>. QED  BY <3>1, <3>2
    <2>12. \A k \in Joins : join'[k].at # "idle" => join'[k].key[1] \in DOMAIN sessions'
      <3>1. \A k \in Joins : join[k].at # "idle" => join[k].key[1] \in DOMAIN sessions
        BY Zenon DEF RelayInv, JoinInv
      <3>2. join[j].key[1] \in DOMAIN sessions  BY <1>0, <3>1, Zenon
      <3>. QED  BY <2>3, <2>taken, <2>4, <3>1, <3>2, Zenon
    <2>13. JoinInv'
      <3>1. \A k \in Joins : \A m \in DOMAIN sessions' : \A e \in 1 .. 2 :
               Holds(sessions'[m].slot[e], k)
                  <=> join'[k].at = "taken" /\ join'[k].key = Key(m, e)
        BY <2>4, <2>11, Zenon
      <3>. QED  BY <2>12, <3>1, Zenon DEF JoinInv, Holds
    <2>. QED  BY <2>5, <2>6, <2>7, <2>13 DEF SessionInv, PhaseInv
  <1>. QED  BY <1>1, <1>2

\* A session connection starts with a key a device was sent, and keeps it.
LEMMA JoinKeeps ==
    ASSUME TypeOK, RelayInv, NEW j \in Joins, JoinLooksUp(j) \/ DeviceJoins(j)
    PROVE  JoinInv'
  <1>0. join \in [Joins -> JoinStates] /\ UNCHANGED sessions
    BY Zenon DEF TypeOK, JoinLooksUp, DeviceJoins
  <1>1. /\ join[j].at # "taken" /\ join'[j].at # "taken"
        /\ join'[j].key[1] \in DOMAIN sessions
        /\ \A k \in Joins : k # j => join'[k] = join[k]
    <2>1. CASE JoinLooksUp(j)
      <3>1. /\ join[j].at = "lookup"
            /\ \/ Response(j, "offer") \/ Response(j, "InvalidKey")
        BY <2>1 DEF JoinLooksUp
      <3>2. join[j].key[1] \in DOMAIN sessions  BY <3>1 DEF RelayInv, JoinInv
      <3>. QED  BY <1>0, <3>1, <3>2 DEF Response
    <2>2. CASE DeviceJoins(j)
      <3>1. PICK c \in Conns : \E key \in Keys(c) :
               join' = [join EXCEPT ![j] = [at |-> "lookup", key |-> key]]
        BY <2>2, Zenon DEF DeviceJoins
      <3>2. PICK key \in Keys(c) :
               join' = [join EXCEPT ![j] = [at |-> "lookup", key |-> key]]
        BY <3>1, Zenon
      <3>3. PICK m \in BagToSet(got[c]) : m.type \in Keyed /\ m.key = key
        BY DEF Keys, Received, Keyed
      <3>4. key[1] \in DOMAIN sessions  BY <3>3 DEF RelayInv, KeyInv
      <3>5. join[j].at = "idle"  BY <2>2 DEF DeviceJoins
      <3>. QED  BY <1>0, <3>2, <3>4, <3>5
    <2>. QED  BY <2>1, <2>2
  <1>2. JoinInv  BY Zenon DEF RelayInv
  <1>. QED  BY <1>0, <1>1, <1>2, JoinAnswered, Zenon

-----------------------------------------------------------------------------
(* The inductive invariant                                                 *)

\* Only these steps touch the clients, what is sent, the joins or the flag.
LEMMA Untouched ==
    ASSUME [Next]_vars
    PROVE  /\ \/ \E c \in Conns : ClientStep(c)
              \/ UNCHANGED <<clients, handler>>
           /\ \/ \E c \in Conns : ClientStep(c) \/ Write(c)
              \/ UNCHANGED <<writes, got>>
           /\ \/ \E j \in Joins : JoinLooksUp(j) \/ JoinOffers(j) \/ DeviceJoins(j)
              \/ UNCHANGED join
           /\ \/ \E c \in Conns : DeleteClient(c)
              \/ \E n \in DOMAIN sessions : DeleteSession(n)
              \/ UNCHANGED panicked
  <1>1. ASSUME NEW c \in Conns, ClientStep(c) \/ Write(c)
        PROVE  /\ UNCHANGED join
               /\ ClientStep(c) \/ UNCHANGED <<clients, handler>>
               /\ DeleteClient(c) \/ UNCHANGED panicked
    BY <1>1, Zenon
    DEF ClientStep, NewClient, HandshakeFails, Refuse, Greet, Write, HandleClient,
        HandleClientEnds, DeleteClient, CloseClient, RequestLooksUp, RequestCreates,
        AcceptAccepts, AcceptNotifies
  <1>2. ASSUME NEW n \in DOMAIN sessions, SessionStep(n) \/ Expire(n)
        PROVE  /\ UNCHANGED <<clients, handler, writes, got, join>>
               /\ DeleteSession(n) \/ UNCHANGED panicked
    BY <1>2, Zenon
    DEF clientVars, SessionStep, SlotStep, SlotStarts, SlotGreets, SlotExpires, Expire,
        SessionJoined, SessionRelays, RelayEnds, DeleteSession, RelayStops
  <1>3. ASSUME NEW j \in Joins, JoinStep(j) \/ DeviceJoins(j)
        PROVE  UNCHANGED <<clients, handler, writes, got, panicked>>
    BY <1>3, Zenon DEF clientVars, JoinStep, JoinLooksUp, JoinOffers, DeviceJoins
  <1>4. ASSUME \/ ClientHandlerStops \/ SessionHandlerStops \/ Close
               \/ \E c \in Conns : DeviceAsks(c)
               \/ \E x \in Conns \cup Joins : DeviceLeaves(x)
        PROVE  UNCHANGED <<clients, handler, writes, got, join, panicked>>
    BY <1>4, Zenon
    DEF clientVars, ClientHandlerStops, SessionHandlerStops, Close, DeviceAsks, DeviceLeaves
  <1>5. CASE UNCHANGED vars  BY <1>5 DEF vars, clientVars
  <1>. QED  BY <1>1, <1>2, <1>3, <1>4, <1>5 DEF Next, ServerStep, DeviceStep, JoinStep

\* RelayInv holds of a server nobody has talked to.
LEMMA Initially == ASSUME Init PROVE TypeOK /\ RelayInv
  <1>1. \A c \in Conns : BagToSet(writes[c]) = {} /\ BagToSet(got[c]) = {}
    BY EmptyElements DEF Init
  <1>2. sessions = <<>> /\ DOMAIN sessions = {}  BY DEF Init
  <1>3. \A c \in Conns : handler[c] = [at |-> "new"]  BY DEF Init
  <1>4. TypeOK
    <2>1. handler \in [Conns -> Handlers]  BY HandlerShape DEF Init
    <2>2. join \in [Joins -> JoinStates]  BY DEF Init, JoinStates
    <2>3. sessions \in Seq(Sessions) /\ Len(sessions) <= MaxSessions
      BY <1>2, RelayAssumption
    <2>4. inbox \in [Conns -> Seq(Questions)]  BY DEF Init
    <2>5. asked \in [Conns -> Nat] /\ \A c \in Conns : asked[c] <= MaxAsks[c]
      BY RelayAssumption DEF Init
    <2>6. /\ clients \in [Devices -> Conns \cup {NoConn}]
          /\ link \in [Conns \cup Joins -> {"open", "left", "closed"}]
          /\ DOMAIN writes = Conns /\ DOMAIN got = Conns
          /\ panicked \in BOOLEAN /\ done \subseteq {"close", "clients", "sessions"}
      BY Zenon DEF Init
    <2>. QED  BY <1>1, <2>1, <2>2, <2>3, <2>4, <2>5, <2>6 DEF TypeOK
  <1>5. ClientInv
    BY <1>3 DEF Init, ClientInv, HandledIsRegistered, At, Registered
  <1>6. KeyInv  BY <1>1 DEF KeyInv
  <1>7. JoinInv  BY <1>2 DEF Init, JoinInv
  <1>8. SessionInv  BY <1>2 DEF SessionInv, OneSessionPerPair
  <1>. QED  BY <1>4, <1>5, <1>6, <1>7, <1>8 DEF RelayInv, Init

\* Every step keeps it.
LEMMA Step == ASSUME TypeOK, RelayInv, [Next]_vars PROVE TypeOK' /\ RelayInv'
  <1>0. ~panicked /\ ClientInv /\ KeyInv /\ JoinInv /\ SessionInv  BY DEF RelayInv
  <1>1. TypeOK'  BY <1>0, Types
  <1>2. ClientInv'
    BY <1>0, Untouched, ClientKept, RegistrationSteps, HandleSteps
  <1>3. ~panicked'
    <2>1. ASSUME NEW c \in Conns, DeleteClient(c) PROVE ~panicked'
      BY <1>0, <2>1, RegistrationSteps
    <2>2. ASSUME NEW n \in DOMAIN sessions, DeleteSession(n) PROVE ~panicked'
      BY <1>0, <2>2, DeletesItself, Zenon
    <2>. QED  BY <1>0, <2>1, <2>2, Untouched
  <1>4. KeyInv' /\ JoinInv' /\ SessionInv'
    <2>1. ASSUME NEW c \in Conns, RequestCreates(c)
          PROVE  KeyInv' /\ JoinInv' /\ SessionInv'
      BY <2>1, CreationKeeps
    <2>2. ASSUME NEW j \in Joins, JoinOffers(j)
          PROVE  KeyInv' /\ JoinInv' /\ SessionInv'
      <3>1. OwnersKept /\ JoinInv' /\ SessionInv'  BY <2>2, OfferKeeps
      <3>2. SendsNoKey  BY <2>2, NothingSaid DEF JoinOffers, clientVars
      <3>. QED  BY <1>0, <3>1, <3>2, KeysKept
    <2>3. ASSUME \A c \in Conns : ~RequestCreates(c), \A j \in Joins : ~JoinOffers(j)
          PROVE  KeyInv' /\ JoinInv' /\ SessionInv'
      <3>1. Calm  BY <1>0, <2>3, CalmSteps
      <3>2. SendsNoKey  BY <2>3, Untouched, NothingSaid, ClientSendsNoKey
      <3>3. KeyInv'  BY <1>0, <3>1, <3>2, CalmOwners, KeysKept
      <3>4. SessionInv'  BY <1>0, <3>1, CalmSessions
      <3>5. JoinInv'  BY <1>0, <2>3, <3>1, Untouched, CalmJoins, JoinKeeps
      <3>. QED  BY <3>3, <3>4, <3>5
    <2>. QED  BY <2>1, <2>2, <2>3
  <1>. QED  BY <1>1, <1>2, <1>3, <1>4 DEF RelayInv

\* The map of clients, the keys that are sent, the connections that are
\* admitted and the progress of the sessions agree in every reachable state
\* of clientHandler, sessionHandler and the goroutines of handleSession.
THEOREM RelayHolds == Spec => [](TypeOK /\ RelayInv)
  <1>1. Init => TypeOK /\ RelayInv  BY Initially
  <1>2. TypeOK /\ RelayInv /\ [Next]_vars => (TypeOK /\ RelayInv)'  BY Step
  <1>. QED  BY <1>1, <1>2, PTL DEF Spec

-----------------------------------------------------------------------------
(* What the server promises                                                *)

\* While handleClient runs for a connection, clientHandler's map holds that
\* connection for its identity, however connects and disconnects of the same
\* device interleave.
THEOREM ClientsStayRegistered == Spec => []HandledIsRegistered
  <1>1. RelayInv => HandledIsRegistered  BY DEF RelayInv, ClientInv
  <1>. QED  BY <1>1, RelayHolds, PTL

\* The panics of clientHandler and of sessionHandler are unreachable.
THEOREM NeverPanics == Spec => []ServerNeverPanics
  <1>1. TypeOK /\ RelayInv => ServerNeverPanics  BY DEF RelayInv, ServerNeverPanics
  <1>. QED  BY <1>1, RelayHolds, PTL

\* While a session's handleSession gathers the two parties or relays, its pair's
\* entry in sessionHandler's map is this very session, whatever the pair
\* requests, and its keys are good for exactly as long as it is in the map.
THEOREM EntriesKept == Spec => []SessionKeepsItsEntry
  <1>1. ASSUME RelayInv PROVE SessionKeepsItsEntry
    <2> SUFFICES ASSUME NEW n \in DOMAIN sessions
                 PROVE  /\ sessions[n].phase \in {"joining", "accepting", "relaying", "ending"}
                             => SessionOf(sessions[n].initiator, sessions[n].target) = {n}
                        /\ sessions[n].keys <=> sessions[n].live
      BY Zenon DEF SessionKeepsItsEntry
    <2>1. SessionInv /\ PhaseInv(sessions[n])  BY <1>1, Zenon DEF RelayInv, SessionInv
    <2>2. sessions[n].live \/ sessions[n].phase = "ended"  BY <2>1, Zenon DEF PhaseInv
    <2>3. sessions[n].keys <=> sessions[n].live  BY <2>1, Zenon DEF PhaseInv
    <2>4. sessions[n].live => SessionOf(sessions[n].initiator, sessions[n].target) = {n}
      BY <2>1, OwnEntry, Zenon
    <2>5. sessions[n].phase \in {"joining", "accepting", "relaying", "ending"}
            => sessions[n].phase # "ended"
      OBVIOUS
    <2>. QED  BY <2>2, <2>3, <2>4, <2>5, Zenon
  <1>. QED  BY <1>1, RelayHolds, PTL

\* handleSessionRequest sends each key of a session only to connections of the
\* device it belongs to, although the target's connection is looked up before
\* the session is created.
THEOREM KeysAreDelivered == Spec => []KeysReachTheirOwners
  <1>1. ASSUME RelayInv PROVE KeysReachTheirOwners
    <2> SUFFICES ASSUME NEW c \in Conns, NEW key \in Keys(c)
                 PROVE  Owner[c] = IF key[2] = 1 THEN sessions[key[1]].initiator
                                                 ELSE sessions[key[1]].target
      BY DEF KeysReachTheirOwners
    <2>1. PICK m \in BagToSet(got[c]) : m.type \in Keyed /\ m.key = key
      BY DEF Keys, Received, Keyed
    <2>. QED  BY <1>1, <2>1 DEF RelayInv, KeyInv, KeyOwner
  <1>. QED  BY <1>1, RelayHolds, PTL

\* A key admits one connection, whatever number of them AddSessionClient is
\* called with, and handleSession holds each that was admitted.
THEOREM AdmittedOnce == Spec => []KeyAdmitsOnce
  <1>1. ASSUME TypeOK, RelayInv PROVE KeyAdmitsOnce
    <2> SUFFICES ASSUME NEW j \in Joins, join[j].at = "taken"
                 PROVE  /\ \A k \in Joins \ {j} :
                              join[k].at = "taken" => join[k].key # join[j].key
                        /\ Holds(sessions[join[j].key[1]].slot[join[j].key[2]], j)
      BY Zenon DEF KeyAdmitsOnce, Holds
    <2> DEFINE n == join[j].key[1]
               i == join[j].key[2]
    <2>1. join[j].key \in SessionKeys  BY <1>1, JoinShape, Zenon DEF TypeOK
    <2>2. i \in 1 .. 2 /\ join[j].key = Key(n, i)  BY <2>1 DEF SessionKeys, Key
    <2>3. n \in DOMAIN sessions  BY <1>1 DEF RelayInv, JoinInv
    <2> HIDE DEF n, i
    <2>4. \A k \in Joins : Holds(sessions[n].slot[i], k)
                              <=> join[k].at = "taken" /\ join[k].key = Key(n, i)
      BY <1>1, <2>2, <2>3 DEF RelayInv, JoinInv
    <2>5. Holds(sessions[n].slot[i], j)  BY <2>2, <2>4
    <2>6. \A k \in Joins : Holds(sessions[n].slot[i], k) => k = j
      BY <2>5 DEF Holds
    <2>. QED  BY <2>2, <2>4, <2>5, <2>6, Zenon DEF n, i
  <1>. QED  BY <1>1, RelayHolds, PTL

\* handleSession relays only after the target accepted, and between the two
\* connections that were admitted with the session's own two keys.
THEOREM RelaysAccepted == Spec => []RelayOnlyAccepted
  <1>1. ASSUME TypeOK, RelayInv PROVE RelayOnlyAccepted
    <2> SUFFICES ASSUME NEW n \in DOMAIN sessions,
                        sessions[n].phase \in {"relaying", "ending", "ended"}
                 PROVE  /\ sessions[n].accepted
                        /\ \A i \in 1 .. 2 :
                              /\ sessions[n].slot[i].at = "joined"
                              /\ join[sessions[n].slot[i].join].key = Key(n, i)
      BY DEF RelayOnlyAccepted
    <2>1. PhaseInv(sessions[n])  BY <1>1 DEF RelayInv, SessionInv
    <2>2. sessions[n].accepted /\ \A i \in 1 .. 2 : sessions[n].slot[i].at = "joined"
      BY <2>1 DEF PhaseInv
    <2>3. ASSUME NEW i \in 1 .. 2 PROVE join[sessions[n].slot[i].join].key = Key(n, i)
      <3>1. sessions[n].slot[i] \in SlotStates
        <4>1. sessions[n].slot \in [1 .. 2 -> SlotStates]
          BY <1>1, SessionAt, SessionFields, Zenon
        <4>. QED  BY <4>1
      <3>2. /\ "join" \in DOMAIN sessions[n].slot[i]
            /\ sessions[n].slot[i].join \in Joins
        BY <2>2, <3>1 DEF SlotStates
      <3>3. Holds(sessions[n].slot[i], sessions[n].slot[i].join)  BY <3>2 DEF Holds
      <3>. QED  BY <1>1, <3>2, <3>3 DEF RelayInv, JoinInv
    <2>. QED  BY <2>2, <2>3
  <1>. QED  BY <1>1, RelayHolds, PTL
=============================================================================
