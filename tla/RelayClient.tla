----------------------------- MODULE RelayClient -----------------------------
(***************************************************************************)
(* relay.ClientProtocol and its user relay.Client, on one connection to a  *)
(* relay server.  messageHandler reads the connection and hands messages   *)
(* to requestHandler, which owns the requests in progress, and to          *)
(* sessionHandler, which owns the calls that wait for an accept or for a   *)
(* result.  A send on an unbuffered Go channel and its receive are one     *)
(* step; a nonblocking send succeeds only while somebody receives.         *)
(*                                                                         *)
(* A user is one call of Client.Request (Request, ReadAccept and the join) *)
(* or of Client.Accept (ReadInvitation, Accept and the join), a record     *)
(* [op, peer, n].  The server answers what it is sent as ServerProtocol    *)
(* does; it writes each message from a goroutine of its own, so `inbox` is *)
(* a bag.                                                                  *)
(***************************************************************************)
EXTENDS MessageBags

CONSTANTS Users,          \* the calls of Client.Request and Client.Accept
          Peers,          \* the identities of other devices
          Trusted,        \* those in the trust store
          Overlap,        \* whether like calls may overlap
          MaxInvitations, \* invitations the server sends
          MayCancel,      \* whether the context of a request may be done
          MayBreak,       \* whether the connection may be lost
          MayClose        \* whether Close may be called

Nobody == [op |-> "nobody"]

ASSUME ClientAssumption ==
    /\ \A u \in Users : u.op \in {"request", "accept"} /\ u.peer \in Peers
    /\ Trusted \subseteq Peers /\ MaxInvitations \in Nat
    /\ {Overlap, MayCancel, MayBreak, MayClose} \subseteq BOOLEAN

VARIABLES
    status,   \* "new", "up" or "error" by what Start returned, or the panic
    user,     \* where each user is, its peer, whether it has a SessionInfo
    requests, \* requestHandler's requests, by target
    accepts,  \* sessionHandler's accepts, by target
    results,  \* sessionHandler's results, by initiator
    handler,  \* where requestHandler is
    session,  \* where sessionHandler is
    reader,   \* where messageHandler is, with the message it holds
    writing,  \* the users whose writeRequest goroutine is running
    closer,   \* where each goroutine is that closes the protocol
    done,     \* whether c.done is closed
    link,     \* the connection: "open", "left" by the server, "closed"
    inbox,    \* the bag of messages the server writes
    invited,  \* invitations sent so far
    granted   \* the calls whose session the target has accepted

requestVars == <<requests, handler, writing>>
sessionVars == <<accepts, results, session>>
connVars    == <<closer, done, link>>
serverVars  == <<inbox, invited, granted>>
vars == <<status, user, requestVars, sessionVars, connVars, serverVars, reader>>

Failed(p)        == [type |-> "SessionFailed", peer |-> p]
Created(p)       == [type |-> "SessionCreated", peer |-> p]
Accepted(p)      == [type |-> "SessionAccepted", peer |-> p]
Established(p)   == [type |-> "SessionEstablished", peer |-> p]
Invitation(p)    == [type |-> "SessionInvitation", peer |-> p]

Selecting == [at |-> "select"]
Reading   == [at |-> "read"]
Offering(u, info) == [at |-> "offer", user |-> u, info |-> info]
App       == [op |-> "Close"]
Handler   == [op |-> "messageHandler"]
Closers   == {App, Handler} \cup Users

Init ==
    /\ status = "new"
    /\ user = [u \in Users |-> [at |-> "idle", peer |-> u.peer, info |-> FALSE]]
    /\ requests = [p \in Peers |-> Nobody] /\ accepts = [p \in Peers |-> Nobody]
    /\ results = [p \in Peers |-> Nobody]
    /\ handler = Selecting /\ session = Selecting /\ reader = Reading
    /\ writing = {} /\ closer = [x \in Closers |-> "idle"]
    /\ done = FALSE /\ link = "open"
    /\ inbox = EmptyBag /\ invited = 0 /\ granted = {}

-----------------------------------------------------------------------------
(* What the actions share                                                  *)

\* The handlers run once Start has seen Connected; a panic ends the process.
Up == status = "up"

At(u, state) == user[u].at = state
Go(u, state) == user' = [user EXCEPT ![u].at = state]
Panic(assertion) == status' = assertion

\* A call returns, with a connection or with an error, and its locals are gone.
Return(u) == user' = [user EXCEPT ![u] = [at |-> "returned", peer |-> u.peer, info |-> FALSE]]

\* offerRequestOutput: the outcome of a request, a SessionInfo or an error,
\* reaches its Request only if that is at its select.
Offer(u, info) ==
    IF At(u, "select")
    THEN [user EXCEPT ![u].at = "delete", ![u].info = info] ELSE user

-----------------------------------------------------------------------------
(* Start                                                                   *)

\* The first message is Connected, or it is AlreadyConnected, the connection
\* fails or the context is done; then no handler is started.
Start ==
    /\ status = "new"
    /\ status' \in {"up", "error"}
    /\ UNCHANGED <<user, requestVars, sessionVars, connVars, serverVars, reader>>

-----------------------------------------------------------------------------
(* Request and requestHandler                                              *)

InProgress(u) == user[u].at \notin {"idle", "returned"}

\* Calls that do not overlap: Requests for one target, and Accepts, which an
\* application makes in a loop.
Alike(u, v) == u.op = v.op /\ (u.op = "request" => u.peer = v.peer)

\* Client.Request submits a request, Client.Accept reads an invitation.
Begin(u) ==
    /\ Up /\ At(u, "idle")
    /\ Overlap \/ \A v \in Users \ {u} : Alike(u, v) => ~InProgress(v)
    /\ Go(u, IF u.op = "request" THEN "submit" ELSE "invite")
    /\ UNCHANGED <<status, requestVars, sessionVars, connVars, serverVars, reader>>

\* c.newRequest <- ..., received by requestHandler; the Request is not at its
\* select yet.
NewRequest(u) ==
    /\ Up /\ At(u, "submit") /\ handler = Selecting
    /\ Go(u, "sent")
    /\ IF requests[u.peer] # Nobody
       THEN handler' = Offering(u, FALSE) /\ UNCHANGED <<requests, writing>>
       ELSE /\ requests' = [requests EXCEPT ![u.peer] = u]
            /\ writing' = writing \cup {u}
            /\ UNCHANGED handler
    /\ UNCHANGED <<status, sessionVars, connVars, serverVars, reader>>

\* offerRequestOutput in requestHandler.
OfferOutput ==
    /\ Up /\ handler.at = "offer"
    /\ user' = Offer(handler.user, handler.info)
    /\ handler' = Selecting
    /\ UNCHANGED <<status, requests, writing, sessionVars, connVars, serverVars,
                   reader>>

\* Request gets to its select, Client.Accept back to ReadInvitation.
Await(u) ==
    /\ Up
    /\ \/ At(u, "sent") /\ Go(u, "select")
       \/ At(u, "continue") /\ Go(u, "invite")
    /\ UNCHANGED <<status, requestVars, sessionVars, connVars, serverVars, reader>>

\* What the server may do about a RequestSession: refuse it, or create a
\* session, which the target accepts or not.
Answers(p) == {{Failed(p)}, {Created(p)}, {Created(p), Accepted(p)}}

\* The goroutine go c.writeRequest(...): the request reaches the server, gets
\* lost with the connection, or an error is offered and handled.
WriteRequest(u) ==
    /\ Up /\ u \in writing
    /\ writing' = writing \ {u}
    /\ \/ /\ link = "open"
          /\ \E answer \in Answers(u.peer) :
                /\ inbox' = inbox (+) SetToBag(answer)
                /\ granted' = IF Accepted(u.peer) \in answer THEN granted \cup {u} ELSE granted
          /\ UNCHANGED <<user, closer>>
       \/ link = "left" /\ UNCHANGED <<user, closer, inbox, granted>>
       \/ /\ link # "open"
          /\ user' = Offer(u, FALSE)
          /\ closer' = IF link = "closed" THEN [closer EXCEPT ![u] = "check"] ELSE closer
          /\ UNCHANGED <<inbox, granted>>
    /\ UNCHANGED <<status, requests, handler, sessionVars, done, link, invited, reader>>

\* case <-ctx.Done() in Request, and where Request goes from there.
CancelledReturns == "returned"
Cancelled == "delete"

Cancel(u) ==
    /\ Up /\ MayCancel /\ At(u, "select")
    /\ Go(u, Cancelled)
    /\ UNCHANGED <<status, requestVars, sessionVars, connVars, serverVars, reader>>

\* c.deleteRequest <- ..., received by requestHandler; Request returns.
DeleteRequest(u) ==
    /\ Up /\ At(u, "delete") /\ handler = Selecting
    /\ IF requests[u.peer] = Nobody
       THEN Panic("request does not exist") /\ UNCHANGED <<requests, user>>
       ELSE /\ requests' = [requests EXCEPT ![u.peer] = Nobody]
            /\ IF user[u].info THEN Go(u, "register") ELSE Return(u)
            /\ UNCHANGED status
    /\ UNCHANGED <<handler, writing, sessionVars, connVars, serverVars, reader>>

RequestHandlerStops ==
    /\ Up /\ done /\ handler = Selecting
    /\ handler' = [at |-> "stopped"]
    /\ UNCHANGED <<status, user, requests, writing, sessionVars, connVars, serverVars,
                   reader>>

-----------------------------------------------------------------------------
(* ReadAccept, ReadInvitation, Accept and sessionHandler                   *)

\* c.waitAccept <- ... and c.waitResult <- ..., received by sessionHandler.
WaitAccept(u) ==
    /\ Up /\ u.op = "request" /\ At(u, "register") /\ session = Selecting
    /\ IF accepts[u.peer] # Nobody
       THEN Panic("already waiting for an accept") /\ UNCHANGED <<accepts, user>>
       ELSE /\ accepts' = [accepts EXCEPT ![u.peer] = u]
            /\ Go(u, "await")
            /\ UNCHANGED status
    /\ UNCHANGED <<requestVars, results, session, connVars, serverVars, reader>>

WaitResult(u) ==
    /\ Up /\ u.op = "accept" /\ At(u, "register") /\ session = Selecting
    /\ IF results[user[u].peer] # Nobody
       THEN Panic("already waiting for a result") /\ UNCHANGED <<results, user>>
       ELSE /\ results' = [results EXCEPT ![user[u].peer] = u]
            /\ Go(u, "write")
            /\ UNCHANGED status
    /\ UNCHANGED <<requestVars, accepts, session, connVars, serverVars, reader>>

\* AcceptSession is written, and answered by the server; after an error Accept
\* returns, and its entry stays.
WriteAccept(u) ==
    /\ Up /\ At(u, "write")
    /\ \/ /\ link = "open" /\ Go(u, "await")
          /\ \/ inbox' = inbox (+) SetToBag({Failed(user[u].peer)}) /\ UNCHANGED granted
             \/ /\ inbox' = inbox (+) SetToBag({Established(user[u].peer)})
                /\ granted' = granted \cup {u}
       \/ link = "left" /\ Go(u, "await") /\ UNCHANGED <<inbox, granted>>
       \/ link # "open" /\ Return(u) /\ UNCHANGED <<inbox, granted>>
    /\ UNCHANGED <<status, requestVars, sessionVars, connVars, invited, reader>>

\* case <-c.done: the calls that return ErrClosed.  Client.Request then fails
\* in the handshake, for want of a message.
GiveUp(u) ==
    /\ Up /\ done /\ user[u].at \in {"await", "invite"}
    /\ Return(u)
    /\ UNCHANGED <<status, requestVars, sessionVars, connVars, serverVars, reader>>

\* delete(accepts, id), delete(results, id).
Kept(calls, p) == calls
Without(calls, p) == [calls EXCEPT ![p] = Nobody]

\* if result.failed != nil
RefusedNever(type) == FALSE
Refused(type) == type = "SessionFailed"

\* out <- accept and out <- result: the call receives when it is at its select;
\* there is no way out when it is not there any more.
SendOut ==
    /\ Up /\ session.at = "out" /\ At(session.user, "await")
    /\ LET u == session.user IN
       /\ IF Refused(session.type) THEN Return(u) ELSE Go(u, "join")
       /\ IF u.op = "request"
          THEN accepts' = Without(accepts, u.peer) /\ UNCHANGED results
          ELSE results' = Without(results, user[u].peer) /\ UNCHANGED accepts
    /\ session' = Selecting
    /\ UNCHANGED <<status, requestVars, connVars, serverVars, reader>>

\* The session is dialled and SessionClientProtocol.Authenticate sends its key:
\* the server says Connected, or one of these fails.
Authenticate(u) ==
    /\ Up /\ At(u, "join")
    /\ Return(u)
    /\ UNCHANGED <<status, requestVars, sessionVars, connVars, serverVars, reader>>

-----------------------------------------------------------------------------
(* messageHandler                                                          *)

\* What handleMessage does first with a message.
FirstStop(type) ==
    CASE type \in {"SessionFailed", "SessionCreated"} -> "response"
      [] type = "SessionAccepted"    -> "accept"
      [] type = "SessionEstablished" -> "result"
      [] type = "SessionInvitation"  -> "invitation"

\* The deferred Close.
DeferredNothing == "idle"
DeferredClose == "check"

Leave == /\ reader' = [at |-> "gone"]
         /\ closer' = [closer EXCEPT ![Handler] = DeferredClose]

ReadMessage ==
    /\ Up /\ reader = Reading /\ link # "closed"
    /\ \E m \in BagToSet(inbox) :
          /\ inbox' = inbox (-) SetToBag({m})
          /\ IF done THEN Leave
             ELSE reader' = [at |-> FirstStop(m.type), m |-> m] /\ UNCHANGED closer
    /\ UNCHANGED <<status, user, requestVars, sessionVars, done, link, invited,
                   granted>>

\* DecodeFrom fails.
ReadFails ==
    /\ Up /\ reader = Reading /\ link # "open"
    /\ Leave
    /\ UNCHANGED <<status, user, requestVars, sessionVars, done, link, serverVars>>

\* if out, ok := requests[id]; ok { offerRequestOutput(out, ...) }
Respond(u, info) == IF u = Nobody THEN Selecting ELSE Offering(u, info)

\* c.requestResponse <- ..., received by requestHandler, which offers it to
\* the request for this target.  SessionFailed then goes on to sessionHandler:
\* it does not say what it answers.
HandResponse ==
    /\ Up /\ reader.at = "response" /\ handler = Selecting
    /\ LET m == reader.m IN
       /\ handler' = Respond(requests[m.peer], m.type = "SessionCreated")
       /\ reader' = IF m.type = "SessionFailed" THEN [at |-> "result", m |-> m] ELSE Reading
    /\ UNCHANGED <<status, user, requests, writing, sessionVars, connVars, serverVars>>

\* The call sessionHandler passes a message to: accepts[id] or results[id].
WaitingFor(m) == IF m.type = "SessionAccepted" THEN accepts[m.peer] ELSE results[m.peer]

\* c.newAccept <- m and c.newResult <- ..., received by sessionHandler, which
\* drops what nobody waits for.
HandToSession ==
    /\ Up /\ reader.at \in {"accept", "result"} /\ session = Selecting
    /\ LET u == WaitingFor(reader.m) IN
       session' = IF u = Nobody THEN session
                  ELSE [at |-> "out", user |-> u, type |-> reader.m.type]
    /\ reader' = Reading
    /\ UNCHANGED <<status, user, requestVars, accepts, results, connVars, serverVars>>

\* c.newInvitation <- m, or nobody receives and it is discarded.  Client.Accept
\* ignores devices it does not trust and reads the next invitation; the
\* handshake with a device it trusts may fail.
HandInvitation ==
    /\ Up /\ reader.at = "invitation"
    /\ LET p == reader.m.peer
           receivers == {u \in Users : At(u, "invite")}
       IN \/ receivers = {} /\ UNCHANGED user
          \/ \E u \in receivers :
                \/ p \notin Trusted /\ Go(u, "continue")
                \/ /\ p \in Trusted
                   /\ user' = [user EXCEPT ![u].at = "register", ![u].peer = p]
                \/ p \in Trusted /\ Return(u)
    /\ reader' = Reading
    /\ UNCHANGED <<status, requestVars, sessionVars, connVars, serverVars>>

-----------------------------------------------------------------------------
(* Close, by the application, by messageHandler and, without closing the   *)
(* connection, by handleConnErr                                            *)

Close ==
    /\ Up /\ MayClose /\ closer[App] = "idle"
    /\ closer' = [closer EXCEPT ![App] = "check"]
    /\ UNCHANGED <<status, user, requestVars, sessionVars, done, link, serverVars,
                   reader>>

Then(x) == IF x \in Users THEN "finished" ELSE "conn"

\* select { case <-c.done: default: ... }
CheckDone(x) ==
    /\ Up /\ closer[x] = "check"
    /\ closer' = [closer EXCEPT ![x] = IF done THEN Then(x) ELSE "close"]
    /\ UNCHANGED <<status, user, requestVars, sessionVars, done, link, serverVars,
                   reader>>

\* close(c.done), which panics if another goroutine was faster.
CloseDone(x) ==
    /\ Up /\ closer[x] = "close"
    /\ done' = TRUE
    /\ closer' = [closer EXCEPT ![x] = Then(x)]
    /\ IF done THEN Panic("close of closed channel") ELSE UNCHANGED status
    /\ UNCHANGED <<user, requestVars, sessionVars, link, serverVars, reader>>

CloseConn(x) ==
    /\ Up /\ closer[x] = "conn"
    /\ link' = "closed"
    /\ closer' = [closer EXCEPT ![x] = "finished"]
    /\ UNCHANGED <<status, user, requestVars, sessionVars, done, serverVars, reader>>

-----------------------------------------------------------------------------
(* The server                                                              *)

Invite(p) ==
    /\ Up /\ link = "open" /\ invited < MaxInvitations
    /\ invited' = invited + 1
    /\ inbox' = inbox (+) SetToBag({Invitation(p)})
    /\ UNCHANGED <<status, user, requestVars, sessionVars, connVars, granted, reader>>

Break ==
    /\ Up /\ MayBreak /\ link = "open"
    /\ link' = "left"
    /\ UNCHANGED <<status, user, requestVars, sessionVars, closer, done, serverVars,
                   reader>>

-----------------------------------------------------------------------------
UserStep(u) ==
    \/ Begin(u) \/ NewRequest(u) \/ Await(u) \/ DeleteRequest(u) \/ WaitAccept(u)
    \/ WaitResult(u) \/ WriteAccept(u) \/ GiveUp(u) \/ Authenticate(u)

ReaderStep == ReadMessage \/ ReadFails \/ HandResponse \/ HandToSession \/ HandInvitation

CloserStep(x) == CheckDone(x) \/ CloseDone(x) \/ CloseConn(x)

Next ==
    \/ Start
    \/ \E u \in Users : UserStep(u) \/ WriteRequest(u) \/ Cancel(u)
    \/ OfferOutput \/ RequestHandlerStops \/ SendOut
    \/ ReaderStep
    \/ \E x \in Closers : CloserStep(x)
    \/ Close
    \/ \E p \in Peers : Invite(p)
    \/ Break

Spec == Init /\ [][Next]_vars

\* Every goroutine that can go on does.  Nothing makes a context end, the
\* application close, the server invite or the connection break.
Fairness ==
    /\ \A u \in Users : WF_vars(UserStep(u)) /\ WF_vars(WriteRequest(u))
    /\ WF_vars(OfferOutput \/ RequestHandlerStops) /\ WF_vars(SendOut)
    /\ WF_vars(ReaderStep)
    /\ \A x \in Closers : WF_vars(CloserStep(x))

FairSpec == Spec /\ Fairness

-----------------------------------------------------------------------------
(* Properties                                                              *)

Panics == {"request does not exist", "already waiting for an accept",
           "already waiting for a result", "close of closed channel"}
Calls  == [Peers -> Users \cup {Nobody}]
Locals == [at : {"idle", "submit", "sent", "select", "delete", "invite", "continue",
                 "register", "write", "await", "join", "returned"},
           peer : Peers, info : BOOLEAN]

Results  == {"SessionFailed", "SessionEstablished"}
Messages == [type : Results \cup {"SessionCreated", "SessionAccepted", "SessionInvitation"},
             peer : Peers]

HandlerStates == {Selecting, [at |-> "stopped"]}
    \cup [at : {"offer"}, user : Users, info : BOOLEAN]
SessionStates == {Selecting}
    \cup [at : {"out"}, user : Users, type : Results \cup {"SessionAccepted"}]
ReaderStates == {Reading, [at |-> "gone"]}
    \cup {r \in [at : {"response", "accept", "result", "invitation"}, m : Messages] :
             r.at = FirstStop(r.m.type) \/ (r.at = "result" /\ r.m.type = "SessionFailed")}

\* Every variable has a value of its type: each map of the handlers holds at most
\* one call per device, messageHandler goes only where its message is handled,
\* and a handler sends only on a channel that exists.
TypeOK ==
    /\ status \in {"new", "up", "error"} \cup Panics
    /\ user \in [Users -> Locals]
    /\ requests \in Calls /\ accepts \in Calls /\ results \in Calls
    /\ handler \in HandlerStates /\ session \in SessionStates /\ reader \in ReaderStates
    /\ writing \subseteq Users /\ granted \subseteq Users
    /\ closer \in [Closers -> {"idle", "check", "close", "conn", "finished"}]
    /\ done \in BOOLEAN /\ link \in {"open", "left", "closed"}
    /\ IsABag(inbox) /\ BagToSet(inbox) \subseteq Messages
    /\ invited \in 0 .. MaxInvitations

\* The assertion of requestHandler, panic("attempting to close a request which
\* does not exist"), never fails: every Request deletes its own entry.
RequestExists == status # "request does not exist"

\* As long as no two Requests for one device overlap, that assertion does not fail,
\* whatever is cancelled, lost or closed in between, and sessionHandler's
\* panic("already waiting for an accept for this identity") only when c.done is
\* closed: then ReadAccept leaves its entry behind, and the late answer to a
\* cancelled Request can bring the next one there.  The state stays well-formed.
AssertionsHold ==
    /\ TypeOK
    /\ status # "request does not exist"
    /\ status = "already waiting for an accept" => done

\* As long as no two Requests for one device overlap, an entry of requests or of
\* accepts belongs to a call that is still going to remove it; only the entries
\* of ReadAccept stay behind, when c.done ends it.
EntriesAreLive ==
    \A p \in Peers :
        /\ requests[p] # Nobody => user[requests[p]].at \in {"sent", "select", "delete"}
        /\ accepts[p] # Nobody => At(accepts[p], "await") \/ done

\* An Accept that ends without its result leaves its entry behind, and the next
\* Accept for the device fails panic("already waiting for a result for this
\* identity").  Accepts that follow one another get there only after the protocol
\* was closed or the connection lost.
ResultAssertionHolds ==
    status = "already waiting for a result" => done \/ link # "open"

\* SessionEstablished names only a device.  Still Accept returns nil only if the
\* server has established the session that this very call accepted, unless a
\* Request for the same device was made, whose SessionFailed goes to both.
ResultIsOwn ==
    \A u \in Users :
        u.op = "accept" /\ At(u, "join") =>
            \/ u \in granted
            \/ \E v \in Users : v.op = "request" /\ v.peer = user[u].peer /\ ~At(v, "idle")

\* sessionHandler sends on the channel of a call without watching c.done: it gets
\* back to its select as long as the protocol is not closed and the connection
\* not lost, because a call that is waited on does not leave.
SessionHandlerIsFreed ==
    session.at = "out" ~>
        session = Selecting \/ done \/ link # "open" \/ ~Up

Waiting(u) == user[u].at \in {"invite", "await"}

\* "ReadInvitation blocks until an invitation for a session has been received
\* from the server, an error occurs or the protocol or underlying connection is
\* closed": when the connection is lost messageHandler stops and closes c.done,
\* and this ends the calls that wait for an invitation, an accept or a result.
LostConnectionEndsCalls ==
    Up /\ link # "open" ~> ~Up \/ \A u \in Users : ~Waiting(u)

\* The one obstacle to that: sessionHandler sends to a call that is gone, and
\* messageHandler waits for sessionHandler.
LostConnectionReleases ==
    Up /\ link # "open" ~>
        \/ ~Up \/ \A u \in Users : ~Waiting(u)
        \/ session.at = "out" /\ ~InProgress(session.user)

\* "ReadAccept blocks until the target device of a Request has accepted that
\* request": once it has, on a connection that stays up, ReadAccept returns.
ReadAcceptReturns ==
    \A u \in Users :
        u.op = "request" /\ u \in granted /\ At(u, "await") ~>
            ~At(u, "await") \/ link # "open" \/ done \/ ~Up

-----------------------------------------------------------------------------
(* The inductive invariant behind these properties, when like calls do not *)
(* overlap                                                                 *)

\* A call is where its kind can be, and only one of several like calls is in
\* progress; a request that is being written has begun.
CallInv ==
    /\ \A u \in Users :
          /\ u.op = "request" => /\ user[u].at \notin {"invite", "continue", "write"}
                                 /\ user[u].peer = u.peer
          /\ u.op = "accept" => user[u].at \notin {"submit", "sent", "select", "delete"}
          /\ u \in writing => u.op = "request" /\ ~At(u, "idle")
    /\ \A u, v \in Users : u # v /\ Alike(u, v) /\ InProgress(u) => ~InProgress(v)

\* requests holds exactly the Requests between newRequest and deleteRequest.
RequestInv ==
    /\ \A p \in Peers : requests[p] # Nobody =>
          requests[p].peer = p /\ user[requests[p]].at \in {"sent", "select", "delete"}
    /\ \A u \in Users :
          user[u].at \in {"sent", "select", "delete"} => requests[u.peer] = u

\* An entry of accepts belongs to a ReadAccept, which waits or has seen c.done.
AcceptInv ==
    \A p \in Peers : accepts[p] # Nobody =>
        /\ accepts[p].op = "request" /\ accepts[p].peer = p
        /\ At(accepts[p], "await") \/ done

\* results holds every Accept between waitResult and its result, and those that
\* ended without one.
ResultInv ==
    /\ \A p \in Peers : results[p] # Nobody =>
          /\ results[p].op = "accept"
          /\ \/ user[results[p]].at \in {"write", "await"} /\ user[results[p]].peer = p
             \/ At(results[p], "returned") /\ (done \/ link # "open")
          /\ \A q \in Peers : results[q] = results[p] => q = p
    /\ \A u \in Users :
          u.op = "accept" /\ user[u].at \in {"write", "await"} => results[user[u].peer] = u

\* sessionHandler sends to the call that the message is for.
OutInv ==
    session.at = "out" =>
        /\ session.type = "SessionAccepted" <=> session.user.op = "request"
        /\ session.user.op = "accept" => \E p \in Peers : results[p] = session.user

\* No Request for this device was made: SessionFailed can only answer an Accept.
Unasked(p) == \A v \in Users : v.op = "request" /\ v.peer = p => At(v, "idle")

\* The places a result from this device can be: on the connection, with
\* messageHandler or with sessionHandler.
Coming(m)  == m \in BagToSet(inbox)
Handled(m) == reader.at \in {"response", "result"} /\ reader.m = m
Leaving(p) == session.at = "out" /\ session.user = results[p]
ResultsOf(p) == {Failed(p), Established(p)}

\* A result from a device of which nothing was requested is the only one, and it
\* answers what the Accept that waits for it, or has given up, has written.
Own(p) ==
    /\ \A m \in ResultsOf(p) :
          /\ Coming(m) \/ Handled(m) =>
                results[p] # Nobody /\ ~At(results[p], "write") /\ ~Leaving(p)
          /\ Coming(m) =>
                inbox[m] = 1 /\ \A k \in ResultsOf(p) : ~Handled(k) /\ (Coming(k) => k = m)
    /\ Coming(Established(p)) \/ Handled(Established(p)) => results[p] \in granted
    /\ Leaving(p) => ~At(results[p], "write")
    /\ Leaving(p) /\ session.type = "SessionEstablished" => results[p] \in granted

OwnInv == \A p \in Peers : Unasked(p) => Own(p)

\* The panics that are reached, and when.
PanicInv ==
    /\ status # "request does not exist"
    /\ status = "already waiting for an accept" => done
    /\ status = "already waiting for a result" => done \/ link # "open"

ClientInv ==
    /\ CallInv /\ RequestInv /\ AcceptInv /\ ResultInv /\ OutInv /\ OwnInv
    /\ PanicInv /\ ResultIsOwn
=============================================================================
