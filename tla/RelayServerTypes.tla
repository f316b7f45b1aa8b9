-------------------------- MODULE RelayServerTypes --------------------------
(***************************************************************************)
(* Type correctness of RelayServer, the facts about bags and records that  *)
(* the proofs about it use, and which steps leave the sessions alone.      *)
(***************************************************************************)
EXTENDS RelayServer, TLAPS

\* The seconds each prover may take for a step.
USE SMTT(15), ZenonT(15)

-----------------------------------------------------------------------------
(* Bags, of which only the elements matter here                            *)

\* What is in a bag after the operations that the server uses.
LEMMA EmptyElements == BagToSet(EmptyBag) = {}
  BY DEF BagToSet, EmptyBag, SetToBag

\* Adding a message to a bag adds it to the elements.
LEMMA AddElements ==
    ASSUME NEW a, NEW m PROVE BagToSet(a (+) SetToBag({m})) = BagToSet(a) \cup {m}
  BY DEF BagToSet, (+), SetToBag

\* Removing a message from a bag adds no element.
LEMMA RemoveElements ==
    ASSUME NEW a, NEW b PROVE BagToSet(a (-) b) \subseteq BagToSet(a)
  BY DEF BagToSet, (-)

\* The elements of the union of two bags are those of either.
LEMMA UnionElements ==
    ASSUME NEW a, NEW b PROVE BagToSet(a (+) b) = BagToSet(a) \cup BagToSet(b)
  BY DEF BagToSet, (+)

\* If(test, m) holds m, or nothing.
LEMMA IfElements ==
    ASSUME NEW condition \in BOOLEAN, NEW m
    PROVE  BagToSet(If(condition, m)) = IF condition THEN {m} ELSE {}
  BY DEF BagToSet, If, SetToBag, EmptyBag

\* The messages that were sent, or are being sent, to a connection.
Said(c) == BagToSet(writes[c]) \cup BagToSet(got[c])

\* `go s.write` adds its message on one connection.
LEMMA SpawnSays ==
    ASSUME TypeOK, NEW c \in Conns, NEW m, Spawn(c, m)
    PROVE  /\ DOMAIN writes' = Conns
           /\ \A x \in Conns : BagToSet(writes'[x]) =
                 BagToSet(writes[x]) \cup (IF x = c THEN {m} ELSE {})
  <1>1. writes' = [x \in Conns |-> IF x = c THEN writes[c] (+) SetToBag({m}) ELSE writes[x]]
    BY Zenon DEF TypeOK, Spawn
  <1>2. DOMAIN writes' = Conns  BY <1>1
  <1>3. ASSUME NEW x \in Conns
        PROVE  BagToSet(writes'[x]) = BagToSet(writes[x]) \cup (IF x = c THEN {m} ELSE {})
    <2>1. CASE x = c
      <3>1. writes'[x] = writes[x] (+) SetToBag({m})  BY <1>1, <2>1
      <3>2. BagToSet(writes[x] (+) SetToBag({m})) = BagToSet(writes[x]) \cup {m}
        BY AddElements, Zenon
      <3>. QED  BY <3>1, <3>2, <2>1
    <2>2. CASE x # c  BY <1>1, <2>2
    <2>. QED  BY <2>1, <2>2
  <1>. QED  BY <1>2, <1>3

\* s.write moves a message at most.
LEMMA ResultSays ==
    ASSUME TypeOK, NEW c \in Conns, NEW m, NEW ok \in BOOLEAN, WriteResult(c, m, ok)
    PROVE  /\ DOMAIN got' = Conns
           /\ link' \in [Conns \cup Joins -> {"open", "left", "closed"}]
           /\ \A x \in Conns : BagToSet(got'[x]) \subseteq
                 BagToSet(got[x]) \cup (IF x = c THEN {m} ELSE {})
  <1>1. \/ got' = got
        \/ got' = [x \in Conns |-> IF x = c THEN got[c] (+) SetToBag({m}) ELSE got[x]]
    BY DEF TypeOK, WriteResult
  <1>2. link' \in [Conns \cup Joins -> {"open", "left", "closed"}]
    BY DEF TypeOK, WriteResult
  <1>3. DOMAIN got' = Conns  BY <1>1 DEF TypeOK
  <1>4. ASSUME NEW x \in Conns
        PROVE  BagToSet(got'[x]) \subseteq BagToSet(got[x]) \cup (IF x = c THEN {m} ELSE {})
    <2>1. got'[x] = got[x] \/ (x = c /\ got'[x] = got[x] (+) SetToBag({m}))  BY <1>1
    <2>2. BagToSet(got[x] (+) SetToBag({m})) = BagToSet(got[x]) \cup {m}  BY AddElements, Zenon
    <2>. QED  BY <2>1, <2>2
  <1>. QED  BY <1>2, <1>3, <1>4

-----------------------------------------------------------------------------
(* Shapes of the records                                                   *)

\* What a goroutine that handles a connection knows.
LEMMA HandlerShape ==
    /\ \A h \in Handlers :
          /\ h.at \in HandlerStates
          /\ h.at \in {"request", "accept", "notify", "create"} => h.peer \in Devices
          /\ h.at = "create" => h.conn \in Conns
    /\ \A s \in {"new", "refuse", "greet", "read", "leave", "close", "gone"} :
          [at |-> s] \in Handlers
    /\ \A s \in {"request", "accept", "notify"}, d \in Devices :
          [at |-> s, peer |-> d] \in Handlers
    /\ \A d \in Devices, x \in Conns :
          [at |-> "create", peer |-> d, conn |-> x] \in Handlers
  BY DEF Handlers, HandlerStates

\* The connection handed to handleSession.
LEMMA SlotShape ==
    /\ \A s \in SlotStates :
          /\ s.at \in {"starting", "waiting", "greet", "joined", "failed"}
          /\ s.at \in {"starting", "waiting"} => "join" \notin DOMAIN s
          /\ s.at \in {"greet", "joined"} => "join" \in DOMAIN s
          /\ "join" \in DOMAIN s => s.join \in Joins
    /\ \A s \in {"starting", "waiting", "failed"} : [at |-> s] \in SlotStates
    /\ \A j \in Joins : [at |-> "greet", join |-> j] \in SlotStates
  BY DEF SlotStates

\* A slot that has a connection keeps it.
LEMMA SlotMoves ==
    ASSUME NEW s \in SlotStates, s.at = "greet", NEW a \in {"joined", "failed"}
    PROVE  /\ [s EXCEPT !.at = a] \in SlotStates
           /\ [s EXCEPT !.at = a].at = a
           /\ "join" \in DOMAIN [s EXCEPT !.at = a] /\ [s EXCEPT !.at = a].join = s.join
  BY DEF SlotStates

\* The keys a device can have.
LEMMA MessageShape ==
    /\ \A m \in Messages :
          /\ m.type \in Keyed => m.key \in SessionKeys /\ m.peer \in Devices
    /\ Connected \in Messages /\ Connected.type \notin Keyed
    /\ AlreadyConnected \in Messages /\ AlreadyConnected.type \notin Keyed
    /\ \A d \in Devices : /\ Accepted(d) \in Messages /\ Accepted(d).type \notin Keyed
                          /\ Established(d) \in Messages /\ Established(d).type \notin Keyed
    /\ \A d \in Devices, key \in SessionKeys :
          /\ Created(key, d) \in Messages /\ Invitation(key, d) \in Messages
          /\ Created(key, d).key = key /\ Invitation(key, d).key = key
    /\ \A d \in Devices :
          \A r \in {"TargetUnavailable", "SessionExists", "UnknownSession",
                    "SessionAlreadyAccepted", "InitiatorUnavailable"} :
             Failed(r, d) \in Messages /\ Failed(r, d).type \notin Keyed
  BY DEF Messages, Keyed, Connected, AlreadyConnected, Accepted, Established,
         Created, Invitation, Failed

-----------------------------------------------------------------------------
(* Steps of a session                                                      *)

\* The types of the fields of a session.
LEMMA SessionFields ==
    ASSUME NEW o \in Sessions
    PROVE  /\ o.initiator \in Devices /\ o.target \in Devices
           /\ o.live \in BOOLEAN /\ o.keys \in BOOLEAN
           /\ o.accepted \in BOOLEAN /\ o.expired \in BOOLEAN
           /\ o.phase \in Phases /\ o.slot \in [1 .. 2 -> SlotStates]
  BY DEF Sessions

\* What sessionHandler holds are sessions.
LEMMA SessionAt ==
    ASSUME TypeOK, NEW n \in DOMAIN sessions PROVE sessions[n] \in Sessions
  <1>1. sessions \in Seq(Sessions)  BY Zenon DEF TypeOK
  <1>. QED  BY <1>1

\* What every step of a session but the admission of a connection keeps.
Quiet(o, s) ==
    /\ s \in Sessions /\ s.initiator = o.initiator /\ s.target = o.target
    /\ s.live => o.live
    /\ PhaseInv(o) => PhaseInv(s)
    /\ \A i \in 1 .. 2 : \A j \in Joins : Holds(s.slot[i], j) <=> Holds(o.slot[i], j)

\* A slot that is not joined changes.
LEMMA SlotChange ==
    ASSUME NEW o \in Sessions, NEW i \in 1 .. 2, NEW v \in SlotStates,
           o.slot[i].at # "joined"
    PROVE  LET s == [o EXCEPT !.slot[i] = v]
           IN /\ s \in Sessions /\ s.initiator = o.initiator /\ s.target = o.target
              /\ s.live = o.live
              /\ PhaseInv(o) => PhaseInv(s)
              /\ s.slot = [o.slot EXCEPT ![i] = v]
  <1> DEFINE s == [o EXCEPT !.slot[i] = v]
  <1>1. /\ s \in Sessions /\ s.initiator = o.initiator /\ s.target = o.target
        /\ s.live = o.live /\ s.keys = o.keys
        /\ s.accepted = o.accepted /\ s.phase = o.phase
        /\ s.slot = [o.slot EXCEPT ![i] = v]
    BY DEF Sessions
  <1> HIDE DEF s
  <1>2. PhaseInv(o) => PhaseInv(s)  BY <1>1 DEF PhaseInv
  <1>. QED  BY <1>1, <1>2 DEF s

\* A slot changes and goes on holding what it held.
LEMMA QuietSlot ==
    ASSUME NEW o \in Sessions, NEW i \in 1 .. 2, NEW v \in SlotStates,
           o.slot[i].at # "joined",
           \A j \in Joins : Holds(v, j) <=> Holds(o.slot[i], j)
    PROVE  Quiet(o, [o EXCEPT !.slot[i] = v])
  <1> DEFINE s == [o EXCEPT !.slot[i] = v]
  <1>1. /\ s \in Sessions /\ s.initiator = o.initiator /\ s.target = o.target
        /\ s.live = o.live
        /\ PhaseInv(o) => PhaseInv(s)
        /\ s.slot = [o.slot EXCEPT ![i] = v]
    BY SlotChange
  <1> HIDE DEF s
  <1>2. o.slot \in [1 .. 2 -> SlotStates]  BY SessionFields
  <1>3. \A k \in 1 .. 2 : \A j \in Joins : Holds(s.slot[k], j) <=> Holds(o.slot[k], j)
    BY <1>1, <1>2
  <1>4. Quiet(o, s)  BY <1>1, <1>3 DEF Quiet
  <1>. QED  BY <1>4 DEF s

\* The two lookups of a session after one of them changed.
LEMMA Update ==
    ASSUME sessions \in Seq(Sessions), NEW n \in DOMAIN sessions, NEW s \in Sessions,
           sessions' = [sessions EXCEPT ![n] = s]
    PROVE  /\ sessions' \in Seq(Sessions) /\ Len(sessions') = Len(sessions)
           /\ DOMAIN sessions' = DOMAIN sessions /\ sessions'[n] = s
           /\ \A k \in DOMAIN sessions : k # n => sessions'[k] = sessions[k]
  OBVIOUS

\* newSession appends a session.
LEMMA Creation ==
    ASSUME sessions \in Seq(Sessions), NEW s \in Sessions,
           sessions' = Append(sessions, s)
    PROVE  /\ sessions' \in Seq(Sessions) /\ Len(sessions') = Len(sessions) + 1
           /\ DOMAIN sessions' = DOMAIN sessions \cup {Len(sessions) + 1}
           /\ sessions'[Len(sessions) + 1] = s
           /\ \A k \in DOMAIN sessions : sessions'[k] = sessions[k]
  OBVIOUS

\* newSession replaces no entry when the pair has none.
LEMMA NothingReplaced ==
    ASSUME TypeOK, NEW a, NEW b, ~Has(a, b) PROVE Replaced(SessionOf(a, b)) = sessions
  <1>1. SessionOf(a, b) = {}  BY Zenon DEF Has
  <1>2. sessions \in Seq(Sessions)  BY Zenon DEF TypeOK
  <1>. QED  BY <1>1, <1>2 DEF Replaced

\* A new session holds nobody and has its two devices.
LEMMA NewSessionFacts ==
    ASSUME NEW a \in Devices, NEW b \in Devices
    PROVE  /\ NewSession(a, b) \in Sessions
           /\ NewSession(a, b).initiator = a /\ NewSession(a, b).target = b
           /\ PhaseInv(NewSession(a, b))
           /\ \A i \in 1 .. 2 : \A j \in Joins : ~Holds(NewSession(a, b).slot[i], j)
  <1>1. \A i \in 1 .. 2 : NewSession(a, b).slot[i] = [at |-> "starting"]  BY DEF NewSession
  <1>2. [at |-> "starting"] \in SlotStates /\ "join" \notin DOMAIN [at |-> "starting"]
    BY SlotShape
  <1>3. NewSession(a, b) \in Sessions
    BY <1>2 DEF NewSession, Sessions, Phases
  <1>4. PhaseInv(NewSession(a, b))  BY DEF NewSession, PhaseInv
  <1>5. NewSession(a, b).initiator = a /\ NewSession(a, b).target = b  BY DEF NewSession
  <1>. QED  BY <1>1, <1>2, <1>3, <1>4, <1>5 DEF Holds

\* handleSession goes on, and the target's accept.
LEMMA QuietAccept ==
    ASSUME NEW o \in Sessions
    PROVE  Quiet(o, [o EXCEPT !.accepted = TRUE]) /\ Quiet(o, [o EXCEPT !.expired = TRUE])
  BY Zenon DEF Quiet, Sessions, PhaseInv

\* handleSession reaches a next phase.
LEMMA QuietPhase ==
    ASSUME NEW o \in Sessions, NEW p \in Phases, PhaseInv(o) => PhaseInv([o EXCEPT !.phase = p])
    PROVE  Quiet(o, [o EXCEPT !.phase = p])
  BY DEF Quiet, Sessions

\* A session that is in the map is the entry of its pair.
LEMMA OwnEntry ==
    ASSUME SessionInv, NEW n \in DOMAIN sessions, sessions[n].live
    PROVE  SessionOf(sessions[n].initiator, sessions[n].target) = {n}
  BY DEF SessionInv, OneSessionPerPair, SessionOf

\* deleteSession finds the session whose handleSession asks for it.
LEMMA DeletesItself ==
    ASSUME TypeOK, SessionInv, NEW n \in DOMAIN sessions, DeleteSession(n)
    PROVE  /\ ~panicked'
           /\ sessions' = [sessions EXCEPT ![n] =
                 [@ EXCEPT !.live = FALSE, !.keys = FALSE, !.phase = "ended"]]
  <1>1. sessions[n].live  BY Zenon DEF DeleteSession, SessionInv, PhaseInv
  <1>2. SessionOf(sessions[n].initiator, sessions[n].target) = {n}  BY <1>1, OwnEntry, Zenon
  <1>3. panicked' = ({n} = {}) /\ sessions' = Deleted(n, {n})
    BY <1>2, Zenon DEF DeleteSession
  <1>4. sessions \in Seq(Sessions)  BY Zenon DEF TypeOK
  <1>5. ~panicked'  BY <1>3, Zenon
  <1> DEFINE s == [sessions[n] EXCEPT !.live = FALSE, !.keys = FALSE, !.phase = "ended"]
  <1>6. Deleted(n, {n}) = [m \in DOMAIN sessions |-> IF m = n THEN s ELSE sessions[m]]
    BY DEF Deleted
  <1> HIDE DEF s
  <1>7. sessions' = [sessions EXCEPT ![n] = s]  BY <1>3, <1>4, <1>6
  <1>. QED  BY <1>5, <1>7 DEF s

\* Every step of handleSession and its timeout is quiet.
LEMMA QuietSteps ==
    ASSUME TypeOK, SessionInv, NEW n \in DOMAIN sessions, SessionStep(n) \/ Expire(n)
    PROVE  \E s \in Sessions : /\ sessions' = [sessions EXCEPT ![n] = s]
                               /\ Quiet(sessions[n], s)
  <1> DEFINE o == sessions[n]
  <1>1. o \in Sessions /\ o.slot \in [1 .. 2 -> SlotStates]
    BY SessionAt, SessionFields, Zenon
  <1>2. \E s : sessions' = [sessions EXCEPT ![n] = s] /\ Quiet(o, s)
    <2>2. ASSUME NEW i \in 1 .. 2, SlotStep(n, i)
          PROVE  \E s : sessions' = [sessions EXCEPT ![n] = s] /\ Quiet(o, s)
      <3>0. o.slot[i] \in SlotStates  BY <1>1
      <3>1. ASSUME NEW v \in SlotStates, o.slot[i].at # "joined",
                   \A j \in Joins : Holds(v, j) <=> Holds(o.slot[i], j),
                   sessions' = [sessions EXCEPT ![n].slot[i] = v]
            PROVE  \E s : sessions' = [sessions EXCEPT ![n] = s] /\ Quiet(o, s)
        <4>1. Quiet(o, [o EXCEPT !.slot[i] = v])  BY <1>1, <3>1, QuietSlot
        <4>2. sessions' = [sessions EXCEPT ![n] = [o EXCEPT !.slot[i] = v]]  BY <3>1
        <4>. QED  BY <4>1, <4>2, Zenon
      <3>2. CASE SlotStarts(n, i)
        <4>1. [at |-> "waiting"] \in SlotStates /\ "join" \notin DOMAIN [at |-> "waiting"]
          BY SlotShape
        <4>2. "join" \notin DOMAIN o.slot[i]  BY <3>0, <3>2, SlotShape DEF SlotStarts
        <4>. QED  BY <3>1, <3>2, <4>1, <4>2, Zenon DEF SlotStarts, Holds
      <3>3. CASE SlotExpires(n, i)
        <4>1. [at |-> "failed"] \in SlotStates /\ "join" \notin DOMAIN [at |-> "failed"]
          BY SlotShape
        <4>2. "join" \notin DOMAIN o.slot[i]  BY <3>0, <3>3, SlotShape DEF SlotExpires
        <4>. QED  BY <3>1, <3>3, <4>1, <4>2, Zenon DEF SlotExpires, Holds
      <3>4. CASE SlotGreets(n, i)
        <4>1. PICK a \in {"joined", "failed"} :
                 sessions' = [sessions EXCEPT ![n].slot[i].at = a]
          BY <3>4 DEF SlotGreets
        <4> DEFINE v == [o.slot[i] EXCEPT !.at = a]
        <4>2. sessions' = [sessions EXCEPT ![n].slot[i] = v]  BY <4>1
        <4>3. o.slot[i].at = "greet"  BY <3>4 DEF SlotGreets
        <4>4. v \in SlotStates /\ "join" \in DOMAIN v /\ v.join = o.slot[i].join
          BY <3>0, <4>3, SlotMoves, Zenon
        <4>5. "join" \in DOMAIN o.slot[i]  BY <3>0, <4>3, SlotShape
        <4> HIDE DEF v
        <4>. QED  BY <3>1, <4>2, <4>3, <4>4, <4>5, Zenon DEF Holds
      <3>. QED  BY <2>2, <3>2, <3>3, <3>4 DEF SlotStep
    <2>3. ASSUME NEW p \in Phases, sessions' = [sessions EXCEPT ![n].phase = p],
                 PhaseInv(o) => PhaseInv([o EXCEPT !.phase = p])
          PROVE  \E s : sessions' = [sessions EXCEPT ![n] = s] /\ Quiet(o, s)
      <3>1. Quiet(o, [o EXCEPT !.phase = p])  BY <1>1, <2>3, QuietPhase
      <3>2. sessions' = [sessions EXCEPT ![n] = [o EXCEPT !.phase = p]]  BY <2>3
      <3>. QED  BY <3>1, <3>2, Zenon
    <2>4. CASE SessionJoined(n)
      <3>1. CASE sessions' = [sessions EXCEPT ![n].phase = "given up"]
        <4>1. PhaseInv(o) => PhaseInv([o EXCEPT !.phase = "given up"])
          BY <1>1, <2>4, Zenon DEF SessionJoined, PhaseInv, Sessions
        <4>. QED  BY <2>3, <3>1, <4>1, Zenon DEF Phases
      <3>2. CASE /\ sessions' = [sessions EXCEPT ![n].phase = "accepting"]
                 /\ \A i \in 1 .. 2 : o.slot[i].at # "failed"
        <4>1. PhaseInv(o) => PhaseInv([o EXCEPT !.phase = "accepting"])
          BY <1>1, <2>4, <3>2, Zenon DEF SessionJoined, PhaseInv, Sessions
        <4>. QED  BY <2>3, <3>2, <4>1, Zenon DEF Phases
      <3>. QED  BY <2>4, <3>1, <3>2, Zenon DEF SessionJoined
    <2>5. CASE SessionRelays(n)
      <3>1. PhaseInv(o) => PhaseInv([o EXCEPT !.phase = "relaying"])
        BY <1>1, <2>5 DEF SessionRelays, TargetAccepted, PhaseInv, Sessions
      <3>. QED  BY <2>3, <2>5, <3>1, Zenon DEF SessionRelays, Phases
    <2>6. CASE RelayEnds(n)
      <3>1. PhaseInv(o) => PhaseInv([o EXCEPT !.phase = "ending"])
        BY <1>1, <2>6 DEF RelayEnds, PhaseInv, Sessions
      <3>. QED  BY <2>3, <2>6, <3>1, Zenon DEF RelayEnds, Phases
    <2>7. CASE RelayStops(n)
      <3>1. PhaseInv(o) => PhaseInv([o EXCEPT !.phase = "ended"])
        BY <1>1, <2>7 DEF RelayStops, PhaseInv, Sessions
      <3>. QED  BY <2>3, <2>7, <3>1, Zenon DEF RelayStops, Phases
    <2>8. CASE DeleteSession(n)
      <3> DEFINE s == [o EXCEPT !.live = FALSE, !.keys = FALSE, !.phase = "ended"]
      <3>1. Quiet(o, s)
        BY <1>1, <2>8, Zenon DEF DeleteSession, PhaseInv, Quiet, Sessions, Phases
      <3>2. sessions' = [sessions EXCEPT ![n] = s]  BY <2>8, DeletesItself, Zenon
      <3>. QED  BY <3>1, <3>2, Zenon
    <2>9. CASE Expire(n)
      <3>1. Quiet(o, [o EXCEPT !.expired = TRUE])  BY <1>1, QuietAccept, Zenon
      <3>2. sessions' = [sessions EXCEPT ![n] = [o EXCEPT !.expired = TRUE]]
        BY <2>9 DEF Expire
      <3>. QED  BY <3>1, <3>2, Zenon
    <2>. QED  BY <2>2, <2>4, <2>5, <2>6, <2>7, <2>8, <2>9 DEF SessionStep
  <1>. QED  BY <1>2, Zenon DEF Quiet

-----------------------------------------------------------------------------
(* Types                                                                   *)

\* A goroutine moves on alone.
LEMMA GoTypes ==
    ASSUME TypeOK, NEW c \in Conns, NEW h \in Handlers, Go(c, h)
    PROVE  /\ handler' \in [Conns -> Handlers] /\ handler'[c] = h
           /\ \A x \in Conns \ {c} : handler'[x] = handler[x]
  BY DEF TypeOK, Go

\* A goroutine that is at its select, or asked a handler, and what it knows.
LEMMA HandlerOf ==
    ASSUME TypeOK, NEW c \in Conns
    PROVE  /\ handler[c] \in Handlers /\ Owner[c] \in Devices
           /\ handler[c].at \in {"request", "accept", "notify", "create"}
                 => handler[c].peer \in Devices
           /\ handler[c].at = "create" => handler[c].conn \in Conns
  BY RelayAssumption, HandlerShape DEF TypeOK

\* The types that only the writing of messages concerns.
SaidType == /\ DOMAIN writes = Conns /\ DOMAIN got = Conns
            /\ \A c \in Conns : Said(c) \subseteq Messages

\* `go s.write` keeps the messages typed.
LEMMA SpawnTypes ==
    ASSUME TypeOK, NEW c \in Conns, NEW m \in Messages, Spawn(c, m), UNCHANGED got
    PROVE  SaidType'
  BY SpawnSays DEF TypeOK, SaidType, Said

\* So does the end of a write.
LEMMA ResultTypes ==
    ASSUME TypeOK, NEW c \in Conns, NEW m \in Messages, NEW ok \in BOOLEAN,
           WriteResult(c, m, ok), DOMAIN writes' = Conns,
           \A x \in Conns : BagToSet(writes'[x]) \subseteq BagToSet(writes[x])
    PROVE  SaidType'
  BY ResultSays DEF TypeOK, SaidType, Said

\* What RequestCreates and AcceptNotifies write on two connections.
SpawnTwo(p, k, q, m) ==
    /\ DOMAIN writes' = Conns
    /\ \A x \in Conns : writes'[x] = writes[x] (+) If(x = p, k) (+) If(x = q, m)

\* What is being written afterwards.
TwoSaid(p, k, q, m) ==
    /\ DOMAIN writes' = Conns
    /\ \A x \in Conns : BagToSet(writes'[x]) = BagToSet(writes[x])
           \cup (IF x = p THEN {k} ELSE {}) \cup (IF x = q THEN {m} ELSE {})

\* Two writes are started at once.
LEMMA TwoSay ==
    ASSUME NEW p, NEW k, NEW q, NEW m, SpawnTwo(p, k, q, m)
    PROVE  TwoSaid(p, k, q, m)
  <1>1. ASSUME NEW x \in Conns
        PROVE  BagToSet(writes'[x]) = BagToSet(writes[x])
                 \cup (IF x = p THEN {k} ELSE {}) \cup (IF x = q THEN {m} ELSE {})
    <2> DEFINE A == If(x = p, k)
               B == If(x = q, m)
    <2>1. BagToSet(A) = IF x = p THEN {k} ELSE {}  BY IfElements, Zenon
    <2>2. BagToSet(B) = IF x = q THEN {m} ELSE {}  BY IfElements, Zenon
    <2>3. writes'[x] = (writes[x] (+) A) (+) B  BY DEF SpawnTwo
    <2> HIDE DEF A, B
    <2>4. BagToSet(writes[x] (+) A) = BagToSet(writes[x]) \cup BagToSet(A)
      BY UnionElements
    <2>5. BagToSet((writes[x] (+) A) (+) B) = BagToSet(writes[x] (+) A) \cup BagToSet(B)
      BY UnionElements
    <2>. QED  BY <2>1, <2>2, <2>3, <2>4, <2>5
  <1>. QED  BY <1>1, Zenon DEF SpawnTwo, TwoSaid

\* They keep the messages typed.
LEMMA TwoTypes ==
    ASSUME TypeOK, NEW p, NEW k \in Messages, NEW q, NEW m \in Messages,
           SpawnTwo(p, k, q, m), UNCHANGED got
    PROVE  SaidType'
  <1>1. /\ DOMAIN writes' = Conns
        /\ \A x \in Conns : BagToSet(writes'[x]) = BagToSet(writes[x])
              \cup (IF x = p THEN {k} ELSE {}) \cup (IF x = q THEN {m} ELSE {})
    <2>1. TwoSaid(p, k, q, m)  BY TwoSay, Zenon
    <2>. QED  BY <2>1, Zenon DEF TwoSaid
  <1>2. \A x \in Conns : BagToSet(writes[x]) \subseteq Messages  BY Zenon DEF TypeOK
  <1>3. \A x \in Conns : BagToSet(writes'[x]) \subseteq Messages  BY <1>1, <1>2
  <1>. QED  BY <1>1, <1>3 DEF SaidType, Said, TypeOK

\* So does a step that says nothing.
LEMMA SaidKept ==
    ASSUME TypeOK, UNCHANGED <<writes, got>> PROVE SaidType'
  BY DEF TypeOK, SaidType, Said

\* The steps of clientHandler, of the goroutines that write and of handleClient
\* while it reads and ends.
LEMMA ClientTypes ==
    ASSUME TypeOK, NEW c \in Conns,
           \/ NewClient(c) \/ HandshakeFails(c) \/ Refuse(c) \/ Greet(c) \/ Write(c)
           \/ HandleClient(c) \/ HandleClientEnds(c) \/ DeleteClient(c) \/ CloseClient(c)
    PROVE  TypeOK'
  <1>0. handler[c] \in Handlers /\ Owner[c] \in Devices  BY HandlerOf
  <1>1. CASE NewClient(c)
    <2>1. handler' \in [Conns -> Handlers]  BY <1>1, GoTypes, HandlerShape DEF NewClient
    <2>2. clients' \in [Devices -> Conns \cup {NoConn}]  BY <1>0, <1>1, Zenon DEF NewClient, TypeOK
    <2>3. SaidType'  BY <1>1, SaidKept DEF NewClient
    <2>. QED  BY <1>1, <2>1, <2>2, <2>3, Zenon DEF NewClient, TypeOK, SaidType, Said
  <1>2. CASE HandshakeFails(c)
    <2>1. handler' \in [Conns -> Handlers]  BY <1>2, GoTypes, HandlerShape, Zenon DEF HandshakeFails
    <2>2. SaidType'  BY <1>2, SaidKept DEF HandshakeFails
    <2>. QED  BY <1>2, <2>1, <2>2, Zenon DEF HandshakeFails, TypeOK, SaidType, Said
  <1>3. CASE Refuse(c)
    <2>1. handler' \in [Conns -> Handlers]  BY <1>3, GoTypes, HandlerShape, Zenon DEF Refuse
    <2>2. \/ UNCHANGED got
          \/ got' = [x \in Conns |-> IF x = c THEN got[c] (+) SetToBag({AlreadyConnected})
                                              ELSE got[x]]
      BY <1>3, Zenon DEF Refuse, TypeOK
    <2>3. BagToSet(got[c] (+) SetToBag({AlreadyConnected}))
             = BagToSet(got[c]) \cup {AlreadyConnected}
      BY AddElements, Zenon
    <2>4. SaidType'
      <3>1. CASE UNCHANGED got  BY <1>3, <3>1, SaidKept DEF Refuse
      <3>2. CASE got' = [x \in Conns |->
                           IF x = c THEN got[c] (+) SetToBag({AlreadyConnected})
                                    ELSE got[x]]
        <4>1. AlreadyConnected \in Messages  BY MessageShape
        <4>2. \A x \in Conns : BagToSet(got'[x]) \subseteq BagToSet(got[x]) \cup {AlreadyConnected}
          BY <2>3, <3>2
        <4>3. UNCHANGED writes /\ DOMAIN got' = Conns  BY <1>3, <3>2 DEF Refuse
        <4>. QED  BY <4>1, <4>2, <4>3 DEF TypeOK, SaidType, Said
      <3>. QED  BY <2>2, <3>1, <3>2
    <2>. QED  BY <1>3, <2>1, <2>4, Zenon DEF Refuse, TypeOK, SaidType, Said
  <1>4. CASE Greet(c)
    <2>1. PICK ok \in BOOLEAN : /\ WriteResult(c, Connected, ok)
                                /\ Go(c, IF ok THEN Reading ELSE [at |-> "gone"])
      BY <1>4 DEF Greet
    <2>2. handler' \in [Conns -> Handlers]  BY <2>1, GoTypes, HandlerShape, Zenon DEF Reading
    <2>3. writes' = writes /\ DOMAIN writes = Conns  BY <1>4, Zenon DEF Greet, TypeOK
    <2>4. SaidType'  BY <2>1, <2>3, MessageShape, ResultTypes
    <2>5. link' \in [Conns \cup Joins -> {"open", "left", "closed"}]  BY <2>1, ResultSays, Zenon
    <2>. QED  BY <1>4, <2>2, <2>4, <2>5, Zenon DEF Greet, TypeOK, SaidType, Said
  <1>5. CASE Write(c)
    <2>1. PICK m \in BagToSet(writes[c]), ok \in BOOLEAN :
             /\ WriteResult(c, m, ok)
             /\ writes' = [writes EXCEPT ![c] = @ (-) SetToBag({m})]
      BY <1>5, Zenon DEF Write
    <2>2. m \in Messages  BY DEF TypeOK
    <2>3. writes' = [x \in Conns |-> IF x = c THEN writes[c] (-) SetToBag({m}) ELSE writes[x]]
      BY <2>1, Zenon DEF TypeOK
    <2>4. BagToSet(writes[c] (-) SetToBag({m})) \subseteq BagToSet(writes[c])
      BY RemoveElements
    <2>5. \A x \in Conns : BagToSet(writes'[x]) \subseteq BagToSet(writes[x])
      BY <2>3, <2>4
    <2>6. SaidType'  BY <2>1, <2>2, <2>3, <2>5, ResultTypes
    <2>7. link' \in [Conns \cup Joins -> {"open", "left", "closed"}]  BY <2>1, ResultSays
    <2>. QED  BY <1>5, <2>6, <2>7, Zenon DEF Write, TypeOK, SaidType, Said
  <1>6. CASE HandleClient(c)
    <2>1. inbox[c] \in Seq(Questions) /\ inbox[c] # <<>>
      BY <1>6, Zenon DEF HandleClient, TypeOK
    <2>2. Head(inbox[c]) \in Questions /\ Tail(inbox[c]) \in Seq(Questions)
      BY <2>1
    <2>3. Head(inbox[c]) # Unexpected => Head(inbox[c]).peer \in Devices
      BY <2>2 DEF Questions, Unexpected
    <2>4. handler' \in [Conns -> Handlers]  BY <1>6, <2>3, GoTypes, HandlerShape DEF HandleClient
    <2>5. inbox' \in [Conns -> Seq(Questions)]  BY <1>6, <2>2, Zenon DEF HandleClient, TypeOK
    <2>6. SaidType'  BY <1>6, SaidKept, Zenon DEF HandleClient
    <2>. QED  BY <1>6, <2>4, <2>5, <2>6, Zenon DEF HandleClient, TypeOK, SaidType, Said
  <1>7. CASE HandleClientEnds(c)
    <2>1. handler' \in [Conns -> Handlers]  BY <1>7, GoTypes, HandlerShape, Zenon DEF HandleClientEnds
    <2>2. SaidType'  BY <1>7, SaidKept DEF HandleClientEnds
    <2>. QED  BY <1>7, <2>1, <2>2, Zenon DEF HandleClientEnds, TypeOK, SaidType, Said
  <1>8. CASE DeleteClient(c)
    <2>1. handler' \in [Conns -> Handlers]  BY <1>8, GoTypes, HandlerShape, Zenon DEF DeleteClient
    <2>2. clients' \in [Devices -> Conns \cup {NoConn}]  BY <1>8, Zenon DEF DeleteClient, TypeOK
    <2>3. SaidType'  BY <1>8, SaidKept DEF DeleteClient
    <2>. QED  BY <1>8, <2>1, <2>2, <2>3, Zenon DEF DeleteClient, TypeOK, SaidType, Said
  <1>9. CASE CloseClient(c)
    <2>1. handler' \in [Conns -> Handlers]  BY <1>9, GoTypes, HandlerShape, Zenon DEF CloseClient
    <2>2. SaidType'  BY <1>9, SaidKept DEF CloseClient
    <2>. QED  BY <1>9, <2>1, <2>2, Zenon DEF CloseClient, TypeOK, SaidType, Said
  <1>. QED  BY <1>1, <1>2, <1>3, <1>4, <1>5, <1>6, <1>7, <1>8, <1>9

\* A session is created for the two devices, or the target accepts one.
LEMMA RequestTypes ==
    ASSUME TypeOK, NEW c \in Conns, RequestLooksUp(c) \/ RequestCreates(c)
    PROVE  TypeOK'
  <1>1. CASE RequestLooksUp(c)
    <2>1. handler[c].peer \in Devices  BY <1>1, HandlerOf, Zenon DEF RequestLooksUp, At
    <2>2. CASE Unavailable(handler[c].peer)
      <3>1. Spawn(c, Failed("TargetUnavailable", handler[c].peer)) /\ Go(c, Reading)
        BY <1>1, <2>2 DEF RequestLooksUp
      <3>2. handler' \in [Conns -> Handlers]  BY <3>1, GoTypes, HandlerShape DEF Reading
      <3>3. Failed("TargetUnavailable", handler[c].peer) \in Messages
        BY <2>1, MessageShape
      <3>4. SaidType'  BY <1>1, <3>1, <3>3, SpawnTypes DEF RequestLooksUp
      <3>. QED  BY <1>1, <3>2, <3>4, Zenon DEF RequestLooksUp, TypeOK, SaidType, Said
    <2>3. CASE ~Unavailable(handler[c].peer)
      <3>1. clients[handler[c].peer] \in Conns  BY <2>1, <2>3, Zenon DEF TypeOK, Unavailable
      <3>2. handler' \in [Conns -> Handlers]
        BY <1>1, <2>1, <2>3, <3>1, GoTypes, HandlerShape, Zenon DEF RequestLooksUp
      <3>3. SaidType'  BY <1>1, <2>3, SaidKept DEF RequestLooksUp
      <3>. QED  BY <1>1, <3>2, <3>3, Zenon DEF RequestLooksUp, TypeOK, SaidType, Said
    <2>. QED  BY <2>2, <2>3
  <1>2. CASE RequestCreates(c)
    <2> DEFINE a == Owner[c]
               b == handler[c].peer
               n == Len(sessions) + 1
    <2>1. a \in Devices /\ b \in Devices  BY <1>2, HandlerOf, Zenon DEF RequestCreates, At
    <2>2. handler' \in [Conns -> Handlers]
      BY <1>2, GoTypes, HandlerShape, Zenon DEF RequestCreates, Reading
    <2>3. CASE Spawn(c, Failed("SessionExists", b)) /\ UNCHANGED sessions
      <3>1. Failed("SessionExists", b) \in Messages  BY <2>1, MessageShape
      <3>2. SaidType'  BY <1>2, <2>3, <3>1, SpawnTypes, Zenon DEF RequestCreates
      <3>. QED  BY <1>2, <2>2, <2>3, <3>2, Zenon DEF RequestCreates, TypeOK, SaidType, Said
    <2>4. CASE /\ ~Has(a, b) /\ n <= MaxSessions
               /\ sessions' = Append(Replaced(SessionOf(a, b)), NewSession(a, b))
               /\ writes' = [x \in Conns |->
                     writes[x] (+) If(x = c, Created(Key(n, 1), b))
                               (+) If(x = handler[c].conn, Invitation(Key(n, 2), a))]
      <3>0. sessions \in Seq(Sessions)  BY DEF TypeOK
      <3>1. n \in 1 .. MaxSessions /\ sessions \in Seq(Sessions)  BY <2>4, <3>0
      <3>2. Key(n, 1) \in SessionKeys /\ Key(n, 2) \in SessionKeys
        BY <3>1 DEF Key, SessionKeys
      <3>3. Created(Key(n, 1), b) \in Messages /\ Invitation(Key(n, 2), a) \in Messages
        BY <2>1, <3>2, MessageShape
      <3>4. UNCHANGED got  BY <1>2, Zenon DEF RequestCreates
      <3>5. SpawnTwo(c, Created(Key(n, 1), b), handler[c].conn, Invitation(Key(n, 2), a))
        BY <2>4, Zenon DEF SpawnTwo
      <3>7. SaidType'  BY <3>3, <3>4, <3>5, TwoTypes
      <3>8. sessions' = Append(sessions, NewSession(a, b))  BY <2>4, NothingReplaced, Zenon
      <3>6. sessions' \in Seq(Sessions) /\ Len(sessions') <= MaxSessions
        BY <2>1, <2>4, <3>1, <3>8, NewSessionFacts, Creation, Zenon
      <3>. QED  BY <1>2, <2>2, <3>6, <3>7, Zenon DEF RequestCreates, TypeOK, SaidType, Said
    <2>. QED  BY <1>2, <2>3, <2>4, Zenon DEF RequestCreates
  <1>. QED  BY <1>1, <1>2

\* The two halves of handleSessionAccept keep the types.
LEMMA AcceptTypes ==
    ASSUME TypeOK, NEW c \in Conns, AcceptAccepts(c) \/ AcceptNotifies(c)
    PROVE  TypeOK'
  <1> DEFINE a == handler[c].peer
  <1>0. a \in Devices /\ Owner[c] \in Devices
    BY HandlerOf DEF AcceptAccepts, AcceptNotifies, At
  <1>1. CASE AcceptAccepts(c)
    <2>1. CASE \E r \in {"UnknownSession", "SessionAlreadyAccepted"} :
                  Spawn(c, Failed(r, a)) /\ Go(c, Reading) /\ UNCHANGED sessions
      <3>1. PICK r \in {"UnknownSession", "SessionAlreadyAccepted"} :
               Spawn(c, Failed(r, a)) /\ Go(c, Reading) /\ UNCHANGED sessions
        BY <2>1
      <3>2. handler' \in [Conns -> Handlers]  BY <3>1, GoTypes, HandlerShape, Zenon DEF Reading
      <3>3. Failed(r, a) \in Messages  BY <1>0, MessageShape
      <3>4. SaidType'  BY <1>1, <3>1, <3>3, SpawnTypes DEF AcceptAccepts
      <3>. QED  BY <1>1, <3>1, <3>2, <3>4 DEF AcceptAccepts, TypeOK, SaidType, Said
    <2>2. CASE \E n \in SessionOf(a, Owner[c]) :
                  /\ sessions' = [sessions EXCEPT ![n].accepted = TRUE]
                  /\ Go(c, [at |-> "notify", peer |-> a]) /\ UNCHANGED writes
      <3>1. PICK n \in SessionOf(a, Owner[c]) :
                  /\ sessions' = [sessions EXCEPT ![n].accepted = TRUE]
                  /\ Go(c, [at |-> "notify", peer |-> a]) /\ UNCHANGED writes
        BY <2>2, Zenon
      <3>2. n \in DOMAIN sessions /\ sessions \in Seq(Sessions) /\ sessions[n] \in Sessions
        BY DEF SessionOf, TypeOK
      <3>3. [sessions[n] EXCEPT !.accepted = TRUE] \in Sessions  BY <3>2, Zenon DEF Sessions
      <3>4. sessions' = [sessions EXCEPT ![n] = [sessions[n] EXCEPT !.accepted = TRUE]]
        BY <3>1
      <3>5. sessions' \in Seq(Sessions) /\ Len(sessions') = Len(sessions)
        BY <3>2, <3>3, <3>4, Update
      <3>6. handler' \in [Conns -> Handlers]  BY <1>0, <3>1, GoTypes, HandlerShape
      <3>7. SaidType'  BY <1>1, <3>1, SaidKept DEF AcceptAccepts
      <3>. QED  BY <1>1, <3>5, <3>6, <3>7 DEF AcceptAccepts, TypeOK, SaidType, Said
    <2>. QED  BY <1>1, <2>1, <2>2 DEF AcceptAccepts
  <1>2. CASE AcceptNotifies(c)
    <2>1. handler' \in [Conns -> Handlers]
      BY <1>2, GoTypes, HandlerShape, Zenon DEF AcceptNotifies, Reading
    <2>2. SaidType'
      <3>1. CASE Unavailable(a)
        <4>1. Failed("InitiatorUnavailable", a) \in Messages  BY <1>0, MessageShape
        <4>. QED  BY <1>2, <3>1, <4>1, SpawnTypes, Zenon DEF AcceptNotifies
      <3>2. CASE ~Unavailable(a)
        <4>1. SpawnTwo(clients[a], Accepted(Owner[c]), c, Established(a))
          BY <1>2, <3>2, Zenon DEF AcceptNotifies, SpawnTwo
        <4>2. Accepted(Owner[c]) \in Messages /\ Established(a) \in Messages
          BY <1>0, MessageShape, Zenon
        <4>. QED  BY <1>2, <4>1, <4>2, TwoTypes, Zenon DEF AcceptNotifies
      <3>. QED  BY <3>1, <3>2
    <2>. QED  BY <1>2, <2>1, <2>2, Zenon DEF AcceptNotifies, TypeOK, SaidType, Said
  <1>. QED  BY <1>1, <1>2

\* A join knows its key from the message that brought it.
LEMMA JoinShape ==
    /\ \A x \in JoinStates : x.at # "idle" => x.key \in SessionKeys
    /\ \A x \in JoinStates :
          x.at \in {"idle", "lookup", "offer", "taken", "InvalidKey", "AlreadyConnected"}
    /\ \A a \in {"lookup", "offer", "taken", "InvalidKey", "AlreadyConnected"} :
          \A key \in SessionKeys : [at |-> a, key |-> key] \in JoinStates
  BY DEF JoinStates

\* The answers to AddSessionClient keep the types.
LEMMA ResponseTypes ==
    ASSUME TypeOK, NEW j \in Joins, join[j].at # "idle",
           NEW a \in {"offer", "taken", "InvalidKey", "AlreadyConnected"}, Response(j, a)
    PROVE  /\ join' \in [Joins -> JoinStates]
           /\ join'[j] = [at |-> a, key |-> join[j].key]
           /\ \A k \in Joins \ {j} : join'[k] = join[k]
  <1>1. [at |-> a, key |-> join[j].key] \in JoinStates  BY JoinShape DEF TypeOK
  <1>. QED  BY <1>1 DEF Response, TypeOK

\* AddSessionClient: the nonblocking send, when it finds its receiver.
LEMMA Admission ==
    ASSUME TypeOK, JoinInv, NEW j \in Joins, JoinOffers(j),
           Receiving(join[j].key[1], join[j].key[2])
    PROVE  LET n == join[j].key[1]
               i == join[j].key[2]
               s == [sessions[n] EXCEPT !.slot[i] = [at |-> "greet", join |-> j]]
           IN /\ n \in DOMAIN sessions /\ i \in 1 .. 2 /\ sessions[n] \in Sessions
              /\ join[j].key = Key(n, i) /\ sessions[n].slot[i].at = "waiting"
              /\ s \in Sessions /\ sessions' = [sessions EXCEPT ![n] = s]
              /\ s.initiator = sessions[n].initiator /\ s.target = sessions[n].target
              /\ s.live = sessions[n].live
              /\ PhaseInv(sessions[n]) => PhaseInv(s)
              /\ s.slot = [sessions[n].slot EXCEPT ![i] = [at |-> "greet", join |-> j]]
  <1> DEFINE n == join[j].key[1]
             i == join[j].key[2]
             v == [at |-> "greet", join |-> j]
             s == [sessions[n] EXCEPT !.slot[i] = v]
  <1>1. join[j].at = "offer" /\ sessions' = [sessions EXCEPT ![n].slot[i] = v]
    BY Zenon DEF JoinOffers
  <1>2. n \in DOMAIN sessions  BY <1>1, Zenon DEF JoinInv
  <1>3. join[j].key \in SessionKeys  BY <1>1, JoinShape DEF TypeOK
  <1>4. i \in 1 .. 2 /\ join[j].key = Key(n, i)  BY <1>3 DEF SessionKeys, Key
  <1>5. sessions[n] \in Sessions  BY <1>2 DEF TypeOK
  <1>6. sessions[n].slot[i].at = "waiting"  BY Zenon DEF Receiving
  <1>7. v \in SlotStates  BY SlotShape
  <1>8. sessions' = [sessions EXCEPT ![n] = s]  BY <1>1, Zenon
  <1>9. /\ s \in Sessions /\ s.initiator = sessions[n].initiator
        /\ s.target = sessions[n].target /\ s.live = sessions[n].live
        /\ PhaseInv(sessions[n]) => PhaseInv(s)
        /\ s.slot = [sessions[n].slot EXCEPT ![i] = v]
    <2> HIDE DEF v, n, i
    <2>. QED  BY <1>4, <1>5, <1>6, <1>7, SlotChange
  <1>. QED  BY <1>2, <1>4, <1>5, <1>6, <1>8, <1>9, Zenon

\* AddSessionClient keeps the types.
LEMMA JoinTypes ==
    ASSUME TypeOK, JoinInv, NEW j \in Joins, JoinStep(j)
    PROVE  TypeOK'
  <1>1. join' \in [Joins -> JoinStates]
    BY ResponseTypes, Zenon DEF JoinStep, JoinLooksUp, JoinOffers
  <1>2. sessions' \in Seq(Sessions) /\ Len(sessions') <= MaxSessions
    <2>1. CASE UNCHANGED sessions  BY <2>1, Zenon DEF TypeOK
    <2>2. CASE JoinOffers(j) /\ Receiving(join[j].key[1], join[j].key[2])
      <3> DEFINE n == join[j].key[1]
                 i == join[j].key[2]
                 s == [sessions[n] EXCEPT !.slot[i] = [at |-> "greet", join |-> j]]
      <3>1. n \in DOMAIN sessions /\ s \in Sessions /\ sessions' = [sessions EXCEPT ![n] = s]
        BY <2>2, Admission, Zenon
      <3> HIDE DEF n, s
      <3>2. sessions \in Seq(Sessions) /\ Len(sessions) <= MaxSessions  BY Zenon DEF TypeOK
      <3>. QED  BY <3>1, <3>2, Update
    <2>. QED  BY <2>1, <2>2, Zenon DEF JoinStep, JoinLooksUp, JoinOffers
  <1>3. UNCHANGED <<clientVars, link, writes, panicked, done>>
    BY Zenon DEF JoinStep, JoinLooksUp, JoinOffers
  <1>. QED  BY <1>1, <1>2, <1>3, Zenon DEF TypeOK, clientVars

\* Closing the connections of a session keeps the type of the links.
LEMMA CloseBothTypes ==
    ASSUME TypeOK, NEW n, CloseBoth(n)
    PROVE  link' \in [Conns \cup Joins -> {"open", "left", "closed"}]
  BY DEF CloseBoth, TypeOK

\* handleSession keeps the types.
LEMMA SessionTypes ==
    ASSUME TypeOK, SessionInv, NEW n \in DOMAIN sessions, SessionStep(n) \/ Expire(n)
    PROVE  TypeOK'
  <1>1. sessions' \in Seq(Sessions) /\ Len(sessions') <= MaxSessions
    BY QuietSteps, Update DEF TypeOK
  <1>2. link' \in [Conns \cup Joins -> {"open", "left", "closed"}]
    <2>1. link \in [Conns \cup Joins -> {"open", "left", "closed"}]  BY Zenon DEF TypeOK
    <2>2. UNCHANGED link \/ CloseBoth(n)
      BY Zenon DEF SessionStep, SlotStep, SlotStarts, SlotGreets, SlotExpires, Expire,
             SessionJoined, SessionRelays, RelayEnds, DeleteSession, RelayStops
    <2>. QED  BY <2>1, <2>2, CloseBothTypes
  <1>3. panicked' \in BOOLEAN
    <2>1. panicked \in BOOLEAN  BY Zenon DEF TypeOK
    <2>. QED
      BY <2>1, Zenon
      DEF SessionStep, SlotStep, SlotStarts, SlotGreets, SlotExpires, Expire,
          SessionJoined, SessionRelays, RelayEnds, DeleteSession, RelayStops
  <1>4. UNCHANGED <<clientVars, writes, join, done>>
    BY Zenon DEF SessionStep, SlotStep, SlotStarts, SlotGreets, SlotExpires, Expire,
           SessionJoined, SessionRelays, RelayEnds, DeleteSession, RelayStops
  <1>. QED  BY <1>1, <1>2, <1>3, <1>4 DEF TypeOK, clientVars

\* Close, and what the devices do.
LEMMA OtherTypes ==
    ASSUME TypeOK, ClientHandlerStops \/ SessionHandlerStops \/ Close \/ DeviceStep
    PROVE  TypeOK'
  <1>1. CASE ClientHandlerStops
    <2>1. link' \in [Conns \cup Joins -> {"open", "left", "closed"}]
      BY <1>1, Zenon DEF ClientHandlerStops, CloseClients, TypeOK
    <2>. QED  BY <1>1, <2>1, Zenon DEF ClientHandlerStops, TypeOK, clientVars
  <1>2. CASE SessionHandlerStops  BY <1>2, Zenon DEF SessionHandlerStops, TypeOK, clientVars
  <1>3. CASE Close  BY <1>3, Zenon DEF Close, TypeOK, clientVars
  <1>4. ASSUME NEW c \in Conns, DeviceAsks(c) PROVE TypeOK'
    <2>1. PICK m \in Asks(c) : inbox' = [inbox EXCEPT ![c] = Append(@, m)]
      BY <1>4, Zenon DEF DeviceAsks
    <2>2. m \in Questions
      <3>1. \A x \in Received(c, "SessionInvitation") : x.peer \in Devices
        BY MessageShape, Zenon DEF Received, TypeOK, Keyed
      <3>2. /\ \A d \in Devices : Request(d) \in Questions /\ Accept(d) \in Questions
            /\ Unexpected \in Questions
        BY DEF Request, Accept, Unexpected, Questions
      <3>. QED  BY <3>1, <3>2 DEF Asks
    <2>3. inbox' \in [Conns -> Seq(Questions)]
      <3>1. inbox \in [Conns -> Seq(Questions)]  BY Zenon DEF TypeOK
      <3>. QED  BY <2>1, <2>2, <3>1
    <2>4. asked' \in [Conns -> Nat] /\ \A x \in Conns : asked'[x] <= MaxAsks[x]
      <3>1. asked' = [asked EXCEPT ![c] = @ + 1] /\ asked[c] < MaxAsks[c]
        BY <1>4 DEF DeviceAsks
      <3>2. asked \in [Conns -> Nat] /\ \A x \in Conns : asked[x] <= MaxAsks[x]
        BY Zenon DEF TypeOK
      <3>3. MaxAsks \in [Conns -> Nat]  BY RelayAssumption
      <3>. QED  BY <3>1, <3>2, <3>3
    <2>. QED  BY <1>4, <2>3, <2>4, Zenon DEF DeviceAsks, TypeOK
  <1>5. ASSUME NEW x \in Conns \cup Joins, DeviceLeaves(x) PROVE TypeOK'
    BY <1>5 DEF DeviceLeaves, TypeOK, clientVars
  <1>6. ASSUME NEW j \in Joins, DeviceJoins(j) PROVE TypeOK'
    <2>0. PICK c \in Conns : \E key \in Keys(c) :
             join' = [join EXCEPT ![j] = [at |-> "lookup", key |-> key]]
      BY <1>6, Zenon DEF DeviceJoins
    <2>1. PICK key \in Keys(c) :
             join' = [join EXCEPT ![j] = [at |-> "lookup", key |-> key]]
      BY <2>0, Zenon
    <2>2. key \in SessionKeys
      <3>1. BagToSet(got[c]) \subseteq Messages  BY Zenon DEF TypeOK
      <3>. QED  BY <2>1, <3>1, MessageShape DEF Keys, Received, Keyed
    <2>3. [at |-> "lookup", key |-> key] \in JoinStates  BY <2>2, JoinShape
    <2>4. join' \in [Joins -> JoinStates]  BY <2>1, <2>3, Zenon DEF TypeOK
    <2>. QED  BY <1>6, <2>4, Zenon DEF DeviceJoins, TypeOK, clientVars
  <1>. QED  BY <1>1, <1>2, <1>3, <1>4, <1>5, <1>6 DEF DeviceStep

\* Type correctness of a step.
LEMMA Types == ASSUME TypeOK, JoinInv, SessionInv, [Next]_vars PROVE TypeOK'
  <1>1. CASE UNCHANGED vars  BY <1>1, Zenon DEF vars, clientVars, TypeOK
  <1>2. CASE ServerStep
    <2>1. ASSUME NEW c \in Conns, ClientStep(c) \/ Write(c) PROVE TypeOK'
      BY <2>1, ClientTypes, RequestTypes, AcceptTypes DEF ClientStep
    <2>. QED  BY <1>2, <2>1, JoinTypes, SessionTypes, OtherTypes DEF ServerStep
  <1>3. CASE Close \/ DeviceStep  BY <1>3, OtherTypes
  <1>. QED  BY <1>1, <1>2, <1>3 DEF Next
=============================================================================
