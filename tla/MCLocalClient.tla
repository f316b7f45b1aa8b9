---------------------------- MODULE MCLocalClient ----------------------------
(***************************************************************************)
(* Model checking of LocalClient.                                          *)
(***************************************************************************)
EXTENDS LocalClient, TLC

\* One request that arrives up to twice, while anything may end, or two
\* Connects at the same time, whose requests arrive up to once each and one of
\* which may be cancelled.
TwiceOrTwo ==
    [trusted : BOOLEAN, networks : {1 :> 2 @@ 2 :> 0},
     endings : {Endings}]
    \cup [trusted : {TRUE}, networks : {1 :> 1 @@ 2 :> 1}, endings : {{"context"}}]
==============================================================================
