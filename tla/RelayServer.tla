----------------------------- MODULE RelayServer -----------------------------
(***************************************************************************)
(* relay.ServerProtocol: devices register with the relay over a client     *)
(* connection, request a session with another device, accept an invitation *)
(* and join the session with the key they were given over a second         *)
(* connection; then the server copies bytes between the two.               *)
(*                                                                         *)
(* clientHandler and sessionHandler are goroutines that own the maps of    *)
(* clients and of sessions; a request to one of them and its answer is one *)
(* step.  Every connection has a handleClient goroutine, every session a   *)
(* handleSession goroutine with one more for each side, every message to a *)
(* client is written by a goroutine of its own.  The devices send what the *)
(* protocol lets them, on some connections anything else too, leave        *)
(* whenever they like and join with a key they were given.                 *)
(***************************************************************************)
EXTENDS Sequences, MessageBags

CONSTANTS Devices,     \* identities
          Conns,       \* client connections (over TLS) made in the run
          Joins,       \* session connections made in the run
          Owner,       \* the device at the other end of a client connection
          Requesters,  \* the client connections on which sessions are requested
          Strays,      \* those on which anything is sent, called for or not
          MaxAsks,     \* messages a device sends on each client connection
          MaxSessions, \* sessions the server creates
          Leavers,     \* the connections, of both kinds, that may be closed
          MayExpire,   \* whether the 30 seconds of SessionTimeout may pass
          MayClose,    \* whether ServerProtocol.Close may be called
          MayMix       \* whether Close and time go with each other, with what
                       \* is sent after a first message, and Close with leaving

NoConn == "none"

ASSUME RelayAssumption ==
    /\ Owner \in [Conns -> Devices] /\ NoConn \notin Conns
    /\ Requesters \subseteq Conns /\ Strays \subseteq Conns
    /\ MaxAsks \in [Conns -> Nat] /\ MaxSessions \in Nat
    /\ Leavers \subseteq Conns \cup Joins
    /\ {MayExpire, MayClose, MayMix} \subseteq BOOLEAN

VARIABLES
    clients,  \* clientHandler's clients
    handler,  \* where the goroutine of each client connection is
    link,     \* of each connection: "open", "left" by the device, "closed"
    inbox,    \* messages on their way from the device on a connection
    writes,   \* the bag of messages of the running `go s.write(conn, ...)`
    got,      \* the bag of what the device has received on a connection
    asked,    \* messages the device has sent on a connection
    sessions, \* sessionHandler's sessions and their handleSession, by creation
    join,     \* where AddSessionClient is for each session connection
    panicked, \* whether an assertion of the two handlers failed
    done      \* what Close did: "close" called, "clients", "sessions" stopped

clientVars == <<clients, handler, inbox, got, asked>>
vars == <<clientVars, link, writes, sessions, join, panicked, done>>

Request(d) == [type |-> "RequestSession", peer |-> d]
Accept(d)  == [type |-> "AcceptSession", peer |-> d]
Unexpected == [type |-> "Unexpected"]
Connected  == [type |-> "Connected"]
AlreadyConnected == [type |-> "AlreadyConnected"]
Failed(reason, d)   == [type |-> "SessionFailed", reason |-> reason, peer |-> d]
Created(key, d)     == [type |-> "SessionCreated", key |-> key, peer |-> d]
Invitation(key, d)  == [type |-> "SessionInvitation", key |-> key, peer |-> d]
Accepted(d)         == [type |-> "SessionAccepted", peer |-> d]
Established(d)      == [type |-> "SessionEstablished", peer |-> d]

\* The loop of handleClient, at DecodeFrom.
ReadingNoMore == [at |-> "gone"]
Reading == [at |-> "read"]

Init ==
    /\ clients = [d \in Devices |-> NoConn]
    /\ handler = [c \in Conns |-> [at |-> "new"]]
    /\ link = [c \in Conns \cup Joins |-> "open"]
    /\ inbox = [c \in Conns |-> <<>>] /\ writes = [c \in Conns |-> EmptyBag]
    /\ got = [c \in Conns |-> EmptyBag] /\ asked = [c \in Conns |-> 0]
    /\ sessions = <<>>
    /\ join = [j \in Joins |-> [at |-> "idle"]]
    /\ panicked = FALSE
    /\ done = {}

-----------------------------------------------------------------------------
(* What the actions share                                                  *)

\* clientHandler and sessionHandler answer until they see s.done.
ClientHandlerUp  == "clients" \notin done /\ ~panicked
SessionHandlerUp == "sessions" \notin done /\ ~panicked

At(c, state) == handler[c].at = state
Go(c, h) == handler' = [handler EXCEPT ![c] = h]

\* go s.write(conn, message)
SpawnLatest(c, m) == writes' = [writes EXCEPT ![c] = SetToBag({m})]
Spawn(c, m) == writes' = [writes EXCEPT ![c] = @ (+) SetToBag({m})]

If(condition, m) == IF condition THEN SetToBag({m}) ELSE EmptyBag

\* s.write: the message arrives, is lost because the device left, or fails;
\* then the server closes the connection.
WriteResult(c, m, ok) ==
    \/ /\ ok /\ link[c] = "open"
       /\ got' = [got EXCEPT ![c] = @ (+) SetToBag({m})]
       /\ UNCHANGED link
    \/ /\ ok /\ link[c] = "left"
       /\ UNCHANGED <<got, link>>
    \/ /\ ~ok /\ link[c] # "open"
       /\ link' = [link EXCEPT ![c] = "closed"]
       /\ UNCHANGED got

\* The entry of this initiator with this target in the sessions map.
SessionOf(a, b) == {n \in DOMAIN sessions : /\ sessions[n].initiator = a
                                            /\ sessions[n].target = b
                                            /\ sessions[n].live}

-----------------------------------------------------------------------------
(* clientHandler and the goroutines it starts                              *)

\* _, has := clients[id]
TakenNever(d) == FALSE
Taken(d) == clients[d] # NoConn

\* AddClient, received by clientHandler: an identity has one connection.
NewClient(c) ==
    /\ ClientHandlerUp /\ At(c, "new")
    /\ IF Taken(Owner[c])
       THEN Go(c, [at |-> "refuse"]) /\ UNCHANGED clients
       ELSE Go(c, [at |-> "greet"]) /\ clients' = [clients EXCEPT ![Owner[c]] = c]
    /\ UNCHANGED <<link, inbox, got, asked, writes, sessions, join, panicked, done>>

\* handleConn: the device leaves during the TLS handshake.
HandshakeFails(c) ==
    /\ At(c, "new") /\ link[c] = "left"
    /\ link' = [link EXCEPT ![c] = "closed"]
    /\ Go(c, [at |-> "gone"])
    /\ UNCHANGED <<clients, inbox, got, asked, writes, sessions, join, panicked, done>>

Refuse(c) ==
    /\ At(c, "refuse")
    /\ got' = IF link[c] = "open"
              THEN [got EXCEPT ![c] = @ (+) SetToBag({AlreadyConnected})] ELSE got
    /\ link' = [link EXCEPT ![c] = "closed"]
    /\ Go(c, [at |-> "gone"])
    /\ UNCHANGED <<clients, inbox, asked, writes, sessions, join, panicked, done>>

\* Connected is written; without success nobody handles the client, which
\* stays in the map.
Greet(c) ==
    /\ At(c, "greet")
    /\ \E ok \in BOOLEAN :
          /\ WriteResult(c, Connected, ok)
          /\ Go(c, IF ok THEN Reading ELSE [at |-> "gone"])
    /\ UNCHANGED <<clients, inbox, asked, writes, sessions, join, panicked, done>>

\* One of the goroutines started with go s.write.
Write(c) ==
    /\ \E m \in BagToSet(writes[c]), ok \in BOOLEAN :
          /\ WriteResult(c, m, ok)
          /\ writes' = [writes EXCEPT ![c] = @ (-) SetToBag({m})]
    /\ UNCHANGED <<clients, handler, inbox, asked, sessions, join, panicked, done>>

-----------------------------------------------------------------------------
(* handleClient                                                            *)

\* DecodeFrom returns a message, and handleMessage starts on it; a message of
\* another type, or any after Close, ends handleClient.
HandleClient(c) ==
    /\ At(c, "read") /\ inbox[c] # <<>> /\ link[c] # "closed"
    /\ inbox' = [inbox EXCEPT ![c] = Tail(@)]
    /\ LET m == Head(inbox[c]) IN
       Go(c, IF "close" \in done \/ m = Unexpected THEN [at |-> "leave"]
             ELSE [at |-> IF m.type = "RequestSession" THEN "request" ELSE "accept",
                   peer |-> m.peer])
    /\ UNCHANGED <<clients, got, asked, link, writes, sessions, join, panicked, done>>

\* DecodeFrom fails: everything is read and the device left, or the server
\* closed the connection.
HandleClientEnds(c) ==
    /\ At(c, "read")
    /\ \/ link[c] = "left" /\ inbox[c] = <<>>
       \/ link[c] = "closed"
    /\ Go(c, [at |-> "leave"])
    /\ UNCHANGED <<clients, inbox, got, asked, link, writes, sessions, join, panicked, done>>

\* The deferred function: deleteClient, then the connection is closed.
DeleteClient(c) ==
    /\ ClientHandlerUp /\ At(c, "leave")
    /\ panicked' = (clients[Owner[c]] = NoConn)
    /\ clients' = [clients EXCEPT ![Owner[c]] = NoConn]
    /\ Go(c, [at |-> "close"])
    /\ UNCHANGED <<link, inbox, got, asked, writes, sessions, join, done>>

CloseClient(c) ==
    /\ At(c, "close")
    /\ link' = [link EXCEPT ![c] = "closed"]
    /\ Go(c, [at |-> "gone"])
    /\ UNCHANGED <<clients, inbox, got, asked, writes, sessions, join, panicked, done>>

\* getClient answers nil.
Unavailable(d) == clients[d] = NoConn

\* handleSessionRequest, first half: who is the target's connection?
RequestLooksUp(c) ==
    /\ ClientHandlerUp /\ At(c, "request")
    /\ LET d == handler[c].peer IN
       IF Unavailable(d)
       THEN Spawn(c, Failed("TargetUnavailable", d)) /\ Go(c, Reading)
       ELSE /\ Go(c, [at |-> "create", peer |-> d, conn |-> clients[d]])
            /\ UNCHANGED writes
    /\ UNCHANGED <<clients, inbox, got, asked, link, sessions, join, panicked, done>>

\* The keys of the initiator, 1, and the target, 2, of the nth session.
KeyShared(n, i) == <<n, 1>>
Key(n, i) == <<n, i>>

\* A session and its handleSession; live: it is its pair's entry in the sessions
\* map, keys: the keys map has its keys.
NewSession(a, b) ==
    [initiator |-> a, target |-> b, live |-> TRUE, keys |-> TRUE, accepted |-> FALSE,
     expired |-> FALSE, phase |-> "joining",
     slot |-> [i \in 1 .. 2 |-> [at |-> "starting"]]]

\* _, has := sessions[id]
HasNever(a, b) == FALSE
Has(a, b) == SessionOf(a, b) # {}

\* sessions[id] = handle: the pair's entry, if there is one, is replaced.
Replaced(found) ==
    [m \in DOMAIN sessions |->
        IF m \in found THEN [sessions[m] EXCEPT !.live = FALSE] ELSE sessions[m]]

\* Second half: newSession, answered by sessionHandler; the invitation goes
\* to the connection found in the first half.
RequestCreates(c) ==
    /\ SessionHandlerUp /\ At(c, "create")
    /\ LET a == Owner[c]
           b == handler[c].peer
           n == Len(sessions) + 1
       IN \/ /\ Has(a, b)
             /\ Spawn(c, Failed("SessionExists", b))
             /\ UNCHANGED sessions
          \/ /\ ~Has(a, b) /\ n <= MaxSessions
             /\ sessions' = Append(Replaced(SessionOf(a, b)), NewSession(a, b))
             /\ writes' = [x \in Conns |->
                   writes[x] (+) If(x = c, Created(Key(n, 1), b))
                             (+) If(x = handler[c].conn, Invitation(Key(n, 2), a))]
    /\ Go(c, Reading)
    /\ UNCHANGED <<clients, inbox, got, asked, link, join, panicked, done>>

\* select on handle.accepted
MayAcceptAgain(n) == TRUE
MayAccept(n) == ~sessions[n].accepted

\* handleSessionAccept, first half: acceptSession, answered by sessionHandler.
AcceptAccepts(c) ==
    /\ SessionHandlerUp /\ At(c, "accept")
    /\ LET a == handler[c].peer
           open == SessionOf(a, Owner[c])
       IN \/ /\ open = {}
             /\ Spawn(c, Failed("UnknownSession", a)) /\ Go(c, Reading)
             /\ UNCHANGED sessions
          \/ \E n \in open :
                IF MayAccept(n)
                THEN /\ sessions' = [sessions EXCEPT ![n].accepted = TRUE]
                     /\ Go(c, [at |-> "notify", peer |-> a])
                     /\ UNCHANGED writes
                ELSE /\ Spawn(c, Failed("SessionAlreadyAccepted", a)) /\ Go(c, Reading)
                     /\ UNCHANGED sessions
    /\ UNCHANGED <<clients, inbox, got, asked, link, join, panicked, done>>

\* Second half: tell both.
AcceptNotifies(c) ==
    /\ ClientHandlerUp /\ At(c, "notify")
    /\ LET a == handler[c].peer IN
       IF Unavailable(a)
       THEN Spawn(c, Failed("InitiatorUnavailable", a))
       ELSE writes' = [x \in Conns |->
               writes[x] (+) If(x = clients[a], Accepted(Owner[c]))
                         (+) If(x = c, Established(a))]
    /\ Go(c, Reading)
    /\ UNCHANGED <<clients, inbox, got, asked, link, sessions, join, panicked, done>>

-----------------------------------------------------------------------------
(* AddSessionClient                                                        *)

Response(j, state) == join' = [join EXCEPT ![j] = [at |-> state, key |-> join[j].key]]

\* handle, ok := keys[key]
Known(key) == sessions[key[1]].keys

\* getSessionChan, answered by sessionHandler: an unknown key is refused.
JoinLooksUp(j) ==
    /\ SessionHandlerUp /\ join[j].at = "lookup"
    /\ Response(j, IF Known(join[j].key) THEN "offer" ELSE "InvalidKey")
    /\ UNCHANGED <<clientVars, link, writes, sessions, panicked, done>>

\* A goroutine receives on the channel of this key.
ReceivingTwice(n, i) == sessions[n].slot[i].at \in {"waiting", "greet"}
Receiving(n, i) == sessions[n].slot[i].at = "waiting"

\* The nonblocking send on the channel of this key: it succeeds only while
\* the goroutine of this side waits for a connection.
JoinOffers(j) ==
    /\ join[j].at = "offer"
    /\ LET n == join[j].key[1]
           i == join[j].key[2]
       IN IF Receiving(n, i)
          THEN /\ sessions' = [sessions EXCEPT ![n].slot[i] = [at |-> "greet", join |-> j]]
               /\ Response(j, "taken")
          ELSE Response(j, "AlreadyConnected") /\ UNCHANGED sessions
    /\ UNCHANGED <<clientVars, link, writes, panicked, done>>

-----------------------------------------------------------------------------
(* handleSession                                                           *)

\* The goroutine of one side reaches its select.
SlotStarts(n, i) ==
    /\ sessions[n].slot[i].at = "starting"
    /\ sessions' = [sessions EXCEPT ![n].slot[i] = [at |-> "waiting"]]
    /\ UNCHANGED <<clientVars, link, writes, join, panicked, done>>

\* It answers the connection it was given; the write fails if the device left.
SlotGreets(n, i) ==
    /\ sessions[n].slot[i].at = "greet"
    /\ LET j == sessions[n].slot[i].join IN
       \/ sessions' = [sessions EXCEPT ![n].slot[i].at = "joined"]
       \/ link[j] # "open" /\ sessions' = [sessions EXCEPT ![n].slot[i].at = "failed"]
    /\ UNCHANGED <<clientVars, link, writes, join, panicked, done>>

NoneAsksAgain == \A c \in Conns : asked[c] <= 1
NoneExpired   == \A n \in DOMAIN sessions : ~sessions[n].expired

\* SessionTimeout passes, and the goroutine sees it.
Expire(n) ==
    /\ MayExpire /\ ~sessions[n].expired /\ sessions[n].phase = "joining"
    /\ MayMix \/ (done = {} /\ NoneAsksAgain)
    /\ sessions' = [sessions EXCEPT ![n].expired = TRUE]
    /\ UNCHANGED <<clientVars, link, writes, join, panicked, done>>

SlotExpires(n, i) ==
    /\ sessions[n].expired /\ sessions[n].slot[i].at = "waiting"
    /\ sessions' = [sessions EXCEPT ![n].slot[i] = [at |-> "failed"]]
    /\ UNCHANGED <<clientVars, link, writes, join, panicked, done>>

\* The session connections handleSession holds.
HeldBy(n) == {j \in Joins : \E i \in 1 .. 2 : /\ "join" \in DOMAIN sessions[n].slot[i]
                                              /\ sessions[n].slot[i].join = j}

CloseBoth(n) == link' = [x \in DOMAIN link |-> IF x \in HeldBy(n) THEN "closed" ELSE link[x]]

\* eg.Wait returns: after an error the connections are closed, and nothing
\* tells sessionHandler; otherwise handleSession waits for the target.
SessionJoined(n) ==
    /\ sessions[n].phase = "joining"
    /\ \A i \in 1 .. 2 : sessions[n].slot[i].at \in {"joined", "failed"}
    /\ IF \E i \in 1 .. 2 : sessions[n].slot[i].at = "failed"
       THEN CloseBoth(n) /\ sessions' = [sessions EXCEPT ![n].phase = "given up"]
       ELSE sessions' = [sessions EXCEPT ![n].phase = "accepting"] /\ UNCHANGED link
    /\ UNCHANGED <<clientVars, writes, join, panicked, done>>

\* <-accepted; then the two relay goroutines copy.
TargetAcceptedAlways(n) == TRUE
TargetAccepted(n) == sessions[n].accepted

SessionRelays(n) ==
    /\ sessions[n].phase = "accepting" /\ TargetAccepted(n)
    /\ sessions' = [sessions EXCEPT ![n].phase = "relaying"]
    /\ UNCHANGED <<clientVars, link, writes, join, panicked, done>>

\* A relay goroutine fails to read or to write.
RelayFailsBoth(n) == \A j \in HeldBy(n) : link[j] # "open"
RelayFails(n) == \E j \in HeldBy(n) : link[j] # "open"

RelayEnds(n) ==
    /\ sessions[n].phase = "relaying" /\ RelayFails(n)
    /\ sessions' = [sessions EXCEPT ![n].phase = "ending"]
    /\ UNCHANGED <<clientVars, link, writes, join, panicked, done>>

\* The entry that the pair of the nth session has goes, and its keys.
Deleted(n, found) ==
    [m \in DOMAIN sessions |->
        LET s == IF m \in found THEN [sessions[m] EXCEPT !.live = FALSE, !.keys = FALSE]
                                ELSE sessions[m]
        IN IF m = n THEN [s EXCEPT !.phase = "ended"] ELSE s]

\* deleteSession, received by sessionHandler, finds the session by its pair;
\* both connections are closed.
DeleteSession(n) ==
    /\ SessionHandlerUp /\ sessions[n].phase = "ending"
    /\ LET found == SessionOf(sessions[n].initiator, sessions[n].target) IN
       /\ panicked' = (found = {})
       /\ sessions' = Deleted(n, found)
    /\ CloseBoth(n)
    /\ UNCHANGED <<clientVars, writes, join, done>>

-----------------------------------------------------------------------------
(* ServerProtocol.Close                                                    *)

Close ==
    /\ MayClose /\ "close" \notin done
    /\ MayMix \/ /\ \A x \in DOMAIN link : link[x] = "open"
                 /\ NoneExpired /\ NoneAsksAgain
    /\ done' = done \cup {"close"}
    /\ UNCHANGED <<clientVars, link, writes, sessions, join, panicked>>

\* go client.conn.Close() for each registered client.
KeepClients == UNCHANGED link
CloseClients ==
    link' = [x \in DOMAIN link |-> IF \E d \in Devices : clients[d] = x THEN "closed" ELSE link[x]]

ClientHandlerStops ==
    /\ "close" \in done /\ ClientHandlerUp
    /\ done' = done \cup {"clients"}
    /\ CloseClients
    /\ UNCHANGED <<clientVars, writes, sessions, join, panicked>>

SessionHandlerStops ==
    /\ "close" \in done /\ SessionHandlerUp
    /\ done' = done \cup {"sessions"}
    /\ UNCHANGED <<clientVars, link, writes, sessions, join, panicked>>

\* case <-s.done: the session ends without deleteSession.
RelayStops(n) ==
    /\ "close" \in done /\ sessions[n].phase = "relaying"
    /\ sessions' = [sessions EXCEPT ![n].phase = "ended"]
    /\ CloseBoth(n)
    /\ UNCHANGED <<clientVars, writes, join, panicked, done>>

-----------------------------------------------------------------------------
(* The devices                                                             *)

Received(c, type) == {m \in BagToSet(got[c]) : m.type = type}

\* Once connected, a device requests sessions and accepts invitations.
Asks(c) ==
    UNION {IF c \in Requesters THEN {Request(d) : d \in Devices \ {Owner[c]}} ELSE {},
           {Accept(x.peer) : x \in Received(c, "SessionInvitation")},
           IF c \in Strays THEN {Accept(d) : d \in Devices} \cup {Unexpected} ELSE {}}

DeviceAsks(c) ==
    /\ link[c] = "open" /\ Connected \in BagToSet(got[c]) /\ asked[c] < MaxAsks[c]
    /\ MayMix \/ asked[c] = 0 \/ (done = {} /\ NoneExpired)
    /\ \E m \in Asks(c) : inbox' = [inbox EXCEPT ![c] = Append(@, m)]
    /\ asked' = [asked EXCEPT ![c] = @ + 1]
    /\ UNCHANGED <<clients, handler, got, link, writes, sessions, join, panicked, done>>

\* It closes a connection, or its network goes away.
DeviceLeaves(x) ==
    /\ x \in Leavers /\ link[x] = "open" /\ (MayMix \/ done = {})
    /\ link' = [link EXCEPT ![x] = "left"]
    /\ UNCHANGED <<clientVars, writes, sessions, join, panicked, done>>

\* It authenticates a session connection with a key it was given.
Keys(c) == {m.key : m \in Received(c, "SessionCreated") \cup Received(c, "SessionInvitation")}

DeviceJoins(j) ==
    /\ join[j].at = "idle" /\ link[j] = "open"
    /\ \E c \in Conns : \E key \in Keys(c) :
          join' = [join EXCEPT ![j] = [at |-> "lookup", key |-> key]]
    /\ UNCHANGED <<clientVars, link, writes, sessions, panicked, done>>

-----------------------------------------------------------------------------
ClientStep(c) ==
    \/ NewClient(c) \/ HandshakeFails(c) \/ Refuse(c) \/ Greet(c)
    \/ HandleClient(c) \/ HandleClientEnds(c)
    \/ DeleteClient(c) \/ CloseClient(c) \/ RequestLooksUp(c) \/ RequestCreates(c)
    \/ AcceptAccepts(c) \/ AcceptNotifies(c)

JoinStep(j) == JoinLooksUp(j) \/ JoinOffers(j)

SlotStep(n, i) == SlotStarts(n, i) \/ SlotGreets(n, i) \/ SlotExpires(n, i)

SessionStep(n) ==
    \/ \E i \in 1 .. 2 : SlotStep(n, i)
    \/ SessionJoined(n) \/ SessionRelays(n) \/ RelayEnds(n) \/ DeleteSession(n)
    \/ RelayStops(n)

DeviceStep ==
    \/ \E c \in Conns : DeviceAsks(c)
    \/ \E x \in Conns \cup Joins : DeviceLeaves(x)
    \/ \E j \in Joins : DeviceJoins(j)

ServerStep ==
    \/ \E c \in Conns : ClientStep(c) \/ Write(c)
    \/ \E j \in Joins : JoinStep(j)
    \/ \E n \in DOMAIN sessions : SessionStep(n) \/ Expire(n)
    \/ ClientHandlerStops \/ SessionHandlerStops

Next == ServerStep \/ Close \/ DeviceStep

Spec == Init /\ [][Next]_vars

\* The server goes on while one of its goroutines can, and a started timeout
\* passes; nothing is assumed of the devices.  As the devices do a bounded
\* number of things, this weak assumption is all the properties need of the
\* scheduler, which does not starve any goroutine.
Fairness == WF_vars(ServerStep)

FairSpec == Spec /\ Fairness

-----------------------------------------------------------------------------
(* Properties                                                              *)

HandlerStates == {"new", "refuse", "greet", "read", "request", "create", "accept",
                  "notify", "leave", "close", "gone"}
Handlers ==
    [at : {"new", "refuse", "greet", "read", "leave", "close", "gone"}]
      \cup [at : {"request", "accept", "notify"}, peer : Devices]
      \cup [at : {"create"}, peer : Devices, conn : Conns]

SlotStates ==
    [at : {"starting", "waiting", "failed"}]
      \cup [at : {"greet", "joined", "failed"}, join : Joins]
Phases == {"joining", "given up", "accepting", "relaying", "ending", "ended"}
Sessions ==
    [initiator : Devices, target : Devices, live : BOOLEAN, keys : BOOLEAN,
     accepted : BOOLEAN, expired : BOOLEAN, phase : Phases, slot : [1 .. 2 -> SlotStates]]

SessionKeys == (1 .. MaxSessions) \X (1 .. 2)
JoinStates ==
    [at : {"idle"}]
      \cup [at : {"lookup", "offer", "taken", "InvalidKey", "AlreadyConnected"},
            key : SessionKeys]

Questions ==
    [type : {"RequestSession", "AcceptSession"}, peer : Devices] \cup [type : {"Unexpected"}]
Messages ==
    [type : {"Connected", "AlreadyConnected"}]
      \cup [type : {"SessionCreated", "SessionInvitation"}, key : SessionKeys, peer : Devices]
      \cup [type : {"SessionAccepted", "SessionEstablished"}, peer : Devices]
      \cup [type : {"SessionFailed"}, peer : Devices,
            reason : {"TargetUnavailable", "SessionExists", "UnknownSession",
                      "SessionAlreadyAccepted", "InitiatorUnavailable"}]

\* Types of the state of the two handlers, of the goroutines and of the devices.
TypeOK ==
    /\ clients \in [Devices -> Conns \cup {NoConn}]
    /\ handler \in [Conns -> Handlers]
    /\ link \in [Conns \cup Joins -> {"open", "left", "closed"}]
    /\ inbox \in [Conns -> Seq(Questions)]
    /\ DOMAIN writes = Conns /\ DOMAIN got = Conns
    /\ \A c \in Conns : BagToSet(writes[c]) \cup BagToSet(got[c]) \subseteq Messages
    /\ asked \in [Conns -> Nat] /\ \A c \in Conns : asked[c] <= MaxAsks[c]
    /\ sessions \in Seq(Sessions) /\ Len(sessions) <= MaxSessions
    /\ join \in [Joins -> JoinStates]
    /\ panicked \in BOOLEAN /\ done \subseteq {"close", "clients", "sessions"}

Registered == HandlerStates \ {"new", "refuse", "close", "gone"}

\* While a goroutine handles a connection, the map of clients holds that very
\* connection for its identity: no other connection of the same device takes
\* its place, and deleteClient removes nobody else's entry.
HandledIsRegistered ==
    /\ \A c \in Conns : handler[c].at \in Registered => clients[Owner[c]] = c
    /\ \A d \in Devices : clients[d] # NoConn => Owner[clients[d]] = d

\* The state stays well-formed, and the panics of clientHandler and
\* sessionHandler, on the deletion of what is not there, are unreachable.
ServerNeverPanics == TypeOK /\ ~panicked

\* sessionHandler finds a session by its pair, to create it and to delete it,
\* and still no session loses its entry to another one of the pair: while its
\* handleSession gathers the two parties or relays, the map holds that very
\* session, and a key is good for exactly as long as its session is in the map.
SessionKeepsItsEntry ==
    \A n \in DOMAIN sessions :
        /\ sessions[n].phase \in {"joining", "accepting", "relaying", "ending"} =>
              SessionOf(sessions[n].initiator, sessions[n].target) = {n}
        /\ sessions[n].keys <=> sessions[n].live

\* The key of a session's initiator reaches only connections of the device
\* that requested it, the other key only connections of the requested device.
KeysReachTheirOwners ==
    \A c \in Conns : \A key \in Keys(c) :
        LET session == sessions[key[1]]
        IN Owner[c] = IF key[2] = 1 THEN session.initiator ELSE session.target

\* A key admits one connection, whatever else tries it, and handleSession
\* holds every connection that was admitted under its own key.
KeyAdmitsOnce ==
    \A j \in Joins : join[j].at = "taken" =>
        /\ \A k \in Joins \ {j} : join[k].at = "taken" => join[k].key # join[j].key
        /\ LET slot == sessions[join[j].key[1]].slot[join[j].key[2]]
           IN "join" \in DOMAIN slot /\ slot.join = j

\* Bytes are relayed only in sessions the target accepted and between two
\* connections that were greeted, one for each of the session's keys.
RelayOnlyAccepted ==
    \A n \in DOMAIN sessions : sessions[n].phase \in {"relaying", "ending", "ended"} =>
        /\ sessions[n].accepted
        /\ \A i \in 1 .. 2 : /\ sessions[n].slot[i].at = "joined"
                             /\ join[sessions[n].slot[i].join].key = Key(n, i)

\* Until Close, the server comes to rest on every connection that stays open,
\* whatever the other devices do: all is read, handled and written, and so, by
\* AskedIsAnswered, answered.  No goroutine waits for another one forever.
AnswerArrives ==
    []<>\A c \in Conns :
           \/ inbox[c] = <<>> /\ handler[c].at = "read" /\ writes[c] = EmptyBag
           \/ link[c] # "open" \/ done # {}

\* When one of the relayed connections ends, the session is taken out of the
\* maps and the other connection is closed, so that the pair may meet again.
BrokenSessionEnds ==
    \A n \in 1 .. MaxSessions :
        (/\ n \in DOMAIN sessions /\ sessions[n].phase = "relaying"
         /\ \E j \in HeldBy(n) : link[j] # "open")
          ~> \/ done # {}
             \/ /\ n \in DOMAIN sessions /\ ~sessions[n].live
                /\ \A j \in HeldBy(n) : link[j] = "closed"

\* Close reaches everybody that is connected: the connections of registered
\* clients are closed, and no session goes on relaying.
CloseDisconnects ==
    "close" \in done
      ~> /\ \A d \in Devices : clients[d] # NoConn => link[clients[d]] = "closed"
         /\ \A n \in DOMAIN sessions : sessions[n].phase # "relaying"

-----------------------------------------------------------------------------
(* What comments of the repository say, and the server does not do         *)

\* relay.proto: the server closes a session whose parties did not connect in
\* time.  handleSession gives up, but the session stays in the map.
TimeoutClosesSession ==
    \A n \in 1 .. MaxSessions :
        (n \in DOMAIN sessions /\ sessions[n].phase = "given up")
          ~> (n \in DOMAIN sessions /\ ~sessions[n].live)

\* AddSessionClient: without a receiver, the client for this key is already
\* connected.  The receiver may not have started, or has given up.
RefusedIsConnected ==
    \A j \in Joins : join[j].at = "AlreadyConnected" =>
        \E k \in Joins : join[k].at = "taken" /\ join[k].key = join[j].key

\* relay.proto: AlreadyConnected is for a client that is connected with this
\* identity.  After a failed greeting the identity stays taken by nobody.
IdentityIsFreed ==
    \A c \in Conns : (clients[Owner[c]] = c /\ link[c] = "closed") ~> clients[Owner[c]] # c

-----------------------------------------------------------------------------
(* Inductive invariants, the strengthenings the proofs rest on             *)

\* The map of clients agrees with the goroutines, and an invitation goes to a
\* connection of the device that was asked for.
ClientInv ==
    /\ HandledIsRegistered
    /\ \A c \in Conns : At(c, "create") => Owner[handler[c].conn] = handler[c].peer

\* The device a key belongs to.
KeyOwner(key) ==
    IF key[2] = 1 THEN sessions[key[1]].initiator ELSE sessions[key[1]].target

\* A key that was sent, or is being sent, is that of a session and on a
\* connection of its owner.
Keyed == {"SessionCreated", "SessionInvitation"}
KeyInv ==
    \A c \in Conns : \A m \in BagToSet(writes[c]) \cup BagToSet(got[c]) :
        m.type \in Keyed => m.key[1] \in DOMAIN sessions /\ KeyOwner(m.key) = Owner[c]

\* handleSession holds, for each of its keys, the connection admitted with it.
Holds(slot, j) == "join" \in DOMAIN slot /\ slot.join = j
JoinInv ==
    /\ \A j \in Joins : join[j].at # "idle" => join[j].key[1] \in DOMAIN sessions
    /\ \A j \in Joins : \A n \in DOMAIN sessions : \A i \in 1 .. 2 :
          Holds(sessions[n].slot[i], j) <=> join[j].at = "taken" /\ join[j].key = Key(n, i)

\* The sessions map has one entry for a pair.
OneSessionPerPair ==
    \A m, n \in DOMAIN sessions :
        /\ sessions[m].live /\ sessions[n].live
        /\ sessions[m].initiator = sessions[n].initiator
        /\ sessions[m].target = sessions[n].target
        => m = n

\* A session is in the maps until it is deleted, and got as far as its target
\* and the two connections let it.
PhaseInv(session) ==
    /\ session.live \/ session.phase = "ended"
    /\ session.keys = session.live
    /\ session.phase \in {"relaying", "ending", "ended"} => session.accepted
    /\ session.phase \in {"accepting", "relaying", "ending", "ended"} =>
          \A i \in 1 .. 2 : session.slot[i].at = "joined"
SessionInv == OneSessionPerPair /\ \A n \in DOMAIN sessions : PhaseInv(sessions[n])

RelayInv == ~panicked /\ ClientInv /\ KeyInv /\ JoinInv /\ SessionInv
=============================================================================
