---------------------------- MODULE RelayAnswers ----------------------------
(***************************************************************************)
(* What the server says how often: properties of RelayServer that count    *)
(* the messages to a device.                                               *)
(***************************************************************************)
EXTENDS RelayServer, FiniteSetsExt

\* How often m was sent, or is being sent, to the connections of a device.
SentTo(d, m) ==
    MapThenSumSet(LAMBDA c : CopiesIn(m, got[c]) + CopiesIn(m, writes[c]),
                  {c \in Conns : Owner[c] = d})

\* A session is announced as accepted to its initiator, and as established to
\* its target, at most once and only after sessionHandler accepted it.
AnnouncedOnce ==
    \A a, b \in Devices :
        LET n == Cardinality({k \in DOMAIN sessions : /\ sessions[k].initiator = a
                                                      /\ sessions[k].target = b
                                                      /\ sessions[k].accepted})
        IN SentTo(a, Accepted(b)) <= n /\ SentTo(b, Established(a)) <= n

\* What answers a device's own RequestSession or AcceptSession.
IsAnswer(m) == m.type \in {"SessionFailed", "SessionCreated", "SessionEstablished"}
Answers(bag) == MapThenSumSet(LAMBDA m : CopiesIn(m, bag), {m \in BagToSet(bag) : IsAnswer(m)})
Working == {"request", "create", "accept", "notify"}

\* While handleClient serves a connection that is open and the server runs,
\* every message the device sent is still unread, being handled, or has exactly
\* one answer, written or being written on that connection.
AskedIsAnswered ==
    \A c \in Conns : link[c] = "open" /\ handler[c].at \notin {"leave", "close"} /\ done = {} =>
        asked[c] = Len(inbox[c]) + (IF handler[c].at \in Working THEN 1 ELSE 0)
                     + Answers(writes[c]) + Answers(got[c])
=============================================================================
