-------------------------- MODULE ReliableTransfer --------------------------
(***************************************************************************)
(* What a file transfer promises its two users, without messages: blocks   *)
(* arrive one by one and undamaged, the sending side learns of a block     *)
(* only after it arrived, the receiving side succeeds only with the whole  *)
(* file, and the sending side succeeds only after the receiving side did.  *)
(* Either side may fail at any time.                                       *)
(***************************************************************************)
CONSTANT Blocks

VARIABLES delivered,  \* blocks in the receiving side's file
          confirmed,  \* blocks the sending side knows to be there
          result      \* what each side's user was told

vars == <<delivered, confirmed, result>>

Init ==
    /\ delivered = {} /\ confirmed = {}
    /\ result = [side \in {"sender", "receiver"} |-> "pending"]

Deliver(block) ==
    /\ result["receiver"] = "pending"
    /\ block \notin delivered
    /\ delivered' = delivered \cup {block}
    /\ UNCHANGED <<confirmed, result>>

Confirm(block) ==
    /\ result["sender"] = "pending"
    /\ block \in delivered \ confirmed
    /\ confirmed' = confirmed \cup {block}
    /\ UNCHANGED <<delivered, result>>

ReceiverSucceeds ==
    /\ result["receiver"] = "pending"
    /\ delivered = Blocks
    /\ result' = [result EXCEPT !["receiver"] = "success"]
    /\ UNCHANGED <<delivered, confirmed>>

SenderSucceeds ==
    /\ result["sender"] = "pending"
    /\ result["receiver"] = "success"
    /\ confirmed = Blocks
    /\ result' = [result EXCEPT !["sender"] = "success"]
    /\ UNCHANGED <<delivered, confirmed>>

Fail(side) ==
    /\ result[side] = "pending"
    /\ result' = [result EXCEPT ![side] = "failure"]
    /\ UNCHANGED <<delivered, confirmed>>

Next ==
    \/ \E block \in Blocks : Deliver(block) \/ Confirm(block)
    \/ ReceiverSucceeds
    \/ SenderSucceeds
    \/ \E side \in {"sender", "receiver"} : Fail(side)

Spec == Init /\ [][Next]_vars
=============================================================================
