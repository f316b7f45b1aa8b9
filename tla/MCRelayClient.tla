--------------------------- MODULE MCRelayClient ---------------------------
(***************************************************************************)
(* Model checking of RelayClient with the devices A, which is trusted, and *)
(* B, which is not.                                                        *)
(***************************************************************************)
EXTENDS RelayClient

Request(n) == [op |-> "request", peer |-> "A", n |-> n]
Accept(n)  == [op |-> "accept", peer |-> "A", n |-> n]

TwoRequests == {Request(1), Request(2)}
ThreeRequests == TwoRequests \cup {Request(3)}
RequestAndTwoAccepts == {Request(1), Accept(1), Accept(2)}
=============================================================================
