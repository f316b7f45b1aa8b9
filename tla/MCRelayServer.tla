--------------------------- MODULE MCRelayServer ---------------------------
(***************************************************************************)
(* Model checking of RelayServer with the devices A and B: the runs differ *)
(* in the connections they make and in what may go wrong.                  *)
(***************************************************************************)
EXTENDS RelayServer, RelayAnswers

\* One connection of each device; A may ask a second time.
TwoConns == [a |-> "A", b |-> "B"]
TwiceByA == [a |-> 2, b |-> 1]

\* A connects a second time, and B may send two messages.
Reconnecting == [a |-> "A", a2 |-> "A", b |-> "B"]
TwoByB       == [a |-> 1, a2 |-> 1, b |-> 2]
=============================================================================
