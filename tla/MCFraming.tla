------------------------------ MODULE MCFraming ------------------------------
(***************************************************************************)
(* Model checking of Framing with three values of a byte: lengths go up to *)
(* 8, payloads of a secure connection, with a tag of two bytes, up to 6.   *)
(***************************************************************************)
EXTENDS Framing

\* An empty message, a short one that could be taken for a length, the
\* largest that fits both codecs, the largest Packet, and one that fits none.
Messages == [a |-> <<>>, b |-> <<0, 1>>, c |-> <<2, 1, 0, 0, 1, 2>>,
             d |-> <<0, 2, 0, 1, 0, 1, 2, 2>>, e |-> <<1, 0, 1, 0, 1, 0, 1, 0, 1>>]
=============================================================================
