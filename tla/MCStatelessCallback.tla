------------------------ MODULE MCStatelessCallback ------------------------
(* Small instances of StatelessCallback for TLC.                            *)
EXTENDS StatelessCallback

CONSTANTS Asked, Other, OtherPosId

(* What a post asks for, and two answers a resolver may give instead.       *)
MCExpected ==
    {[amount |-> Asked, currency |-> "132", transactionCode |-> "1"],
     [amount |-> Unparsable, currency |-> Absent, transactionCode |-> Absent]}

Callback(p, type, signed, amount, posID) ==
    [pair |-> p, messageType |-> type, signed |-> signed, amount |-> amount,
     currency |-> "132", transactionCode |-> Absent, posID |-> posID]

(* Success with the amount asked for, and with another; declines without an *)
(* amount, with one that is no number and for another terminal; neither     *)
(* success nor error; and a forged success.                                 *)
MCPayload ==
    {Callback(p, "8", TRUE, Asked, OwnPosId) : p \in Pair}
      \cup {Callback(p, "8", TRUE, Other, OwnPosId) : p \in Post}
      \cup {Callback(p, "6", TRUE, a, Absent) : p \in Post, a \in {Absent, Unparsable}}
      \cup {Callback(p, "6", TRUE, Absent, OtherPosId) : p \in Post}
      \cup {Callback(p, "A0", TRUE, Asked, OwnPosId) : p \in Post}
      \cup {Callback(p, "8", FALSE, Asked, OwnPosId) : p \in Post}
============================================================================
