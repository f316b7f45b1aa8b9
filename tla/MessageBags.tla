---------------------------- MODULE MessageBags ----------------------------
(***************************************************************************)
(* Bags of messages, for messages that different goroutines write and that *)
(* arrive in any order: the few operations that RelayServer and            *)
(* RelayClient need, with the meaning they have in the standard module     *)
(* Bags.  That module is not extended because each step of a proof about a *)
(* module that extends it takes the prover several times as long.          *)
(***************************************************************************)
EXTENDS Integers

\* A bag is a function to the number of copies, with what is in it as its domain.
BagToSet(bag) == DOMAIN bag
IsABag(bag)   == bag \in [BagToSet(bag) -> Nat \ {0}]

CopiesIn(m, bag) == IF m \in BagToSet(bag) THEN bag[m] ELSE 0

SetToBag(messages) == [m \in messages |-> 1]
EmptyBag           == SetToBag({})

a (+) b == [m \in BagToSet(a) \cup BagToSet(b) |-> CopiesIn(m, a) + CopiesIn(m, b)]

a (-) b ==
    [m \in {n \in BagToSet(a) : CopiesIn(n, b) < a[n]} |-> a[m] - CopiesIn(m, b)]
=============================================================================
