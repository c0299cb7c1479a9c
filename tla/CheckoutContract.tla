------------------------- MODULE CheckoutContract -------------------------
(***************************************************************************)
(* What the idempotency of the payment handlers promises, without intents   *)
(* and without requests in progress: a key is charged once, and from then   *)
(* on it is answered with forms of that payment, to posts of the body it    *)
(* was charged for.                                                         *)
(***************************************************************************)
CONSTANTS Key, Payment, Body, Null

VARIABLES
    charged,   \* the payment of each key and the body it was made from
    answered   \* the forms that were answered for a key

vars == <<charged, answered>>

(* A payment of an earlier release was recorded without its body.           *)
Init ==
    /\ charged \in [Key -> [payment : Payment, body : {Null}] \cup {Null}]
    /\ answered = {}

Charge(k, p, b) ==
    /\ charged[k] = Null
    /\ charged' = [charged EXCEPT ![k] = [payment |-> p, body |-> b]]
    /\ UNCHANGED answered

Answer(k, b) ==
    /\ charged[k] # Null
    /\ charged[k].body \in {b, Null}
    /\ answered' = answered \cup
         {[key |-> k, body |-> b, payment |-> charged[k].payment]}
    /\ UNCHANGED charged

Next == \E k \in Key, b \in Body :
          Answer(k, b) \/ \E p \in Payment : Charge(k, p, b)

Spec == Init /\ [][Next]_vars
===========================================================================
