----------------------------- MODULE MCSession -----------------------------
(***************************************************************************)
(* Model checking of Session: the runs differ in who opens and accepts     *)
(* channels, in what is written and in what is closed.                     *)
(***************************************************************************)
EXTENDS Session

Call(side, op, protocol, n) == [side |-> side, op |-> op, protocol |-> protocol, n |-> n]

Opener   == Call("initiator", "open", 1, 1)
Acceptor == Call("responder", "accept", 1, 1)

\* The program: cmd/send opens the transfer channel, cmd/receive accepts it.
OneChannel == {Opener, Acceptor}

\* The initiator opens two channels concurrently, which the responder accepts
\* one after the other; the responder opens one that nobody accepts.
ThreeOpens == OneChannel \cup
              {Call("initiator", "open", 1, 2), Call("responder", "accept", 1, 2),
               Call("responder", "open", 1, 1)}

\* Messages from the first opening side only, or in both directions.
TwoOneWay  == [c \in Calls |-> IF c = Opener THEN 2 ELSE 0]
TwoAndBack == [c \in Calls |-> IF c = Opener THEN 2 ELSE IF c = Acceptor THEN 1 ELSE 0]
=============================================================================
