----------------------------- MODULE AtLeastOnce -----------------------------
(***************************************************************************)
(* What a store-and-forward queue promises: an item that was put stays     *)
(* until the receiver answered for it, and the receiver sees only items    *)
(* that were put.                                                          *)
(***************************************************************************)
CONSTANT Items

VARIABLES
    put,        \* items put in the queue
    waiting,    \* items in the queue
    answered    \* items the receiver answered for

Init == put = {} /\ waiting = {} /\ answered = {}

Put(x) ==
    /\ x \notin put
    /\ put' = put \cup {x} /\ waiting' = waiting \cup {x}
    /\ UNCHANGED answered

\* An item may be taken again after it left: a repeated delivery.
Take(xs) ==
    /\ xs \subseteq put
    /\ answered' = answered \cup xs
    /\ UNCHANGED <<put, waiting>>

Forget(xs) ==
    /\ xs \subseteq waiting \cap answered
    /\ waiting' = waiting \ xs
    /\ UNCHANGED <<put, answered>>

Next ==
    \/ \E x \in Items : Put(x)
    \/ \E xs \in SUBSET Items : Take(xs) \/ Forget(xs)

Spec == Init /\ [][Next]_<<put, waiting, answered>>
=============================================================================
