------------------------ MODULE MCPaymentLifecycle ------------------------
(* Small instances of PaymentLifecycle for TLC.                             *)
EXTENDS PaymentLifecycle, TLC

Notification(session, message, gateway) ==
    [session |-> session, message |-> message, gateway |-> gateway,
     route |-> "http", signed |-> TRUE, matches |-> TRUE]

Successes == {Notification(s, "success", g) : s \in Session, g \in GatewayId}
Errors == {Notification(s, "error", Blank) : s \in Session}

(* The verified outcomes of every submission, posted by the gateway.        *)
Outcomes == Successes \cup Errors

(* Every outcome posted to the route, and an undocumented message type for  *)
(* the first submission; its success may also be handed to the API.         *)
MatchingCallbacks ==
    LET other == Notification(FirstSession, "other", Blank)
        success == {cb \in Successes : cb.session = FirstSession}
    IN Outcomes \cup {other} \cup {[cb EXCEPT !.route = "api"] : cb \in success}

(* Everything the route may be posted: also notifications whose fingerprint *)
(* does not verify, or whose details do not match the row.                  *)
RouteCallbacks ==
    Outcomes \cup {Notification(s, "other", Blank) : s \in Session}
      \cup {[cb EXCEPT !.signed = FALSE] : cb \in Errors}
      \cup {[cb EXCEPT !.matches = FALSE] : cb \in Outcomes}

HandlerSymmetry == Permutations(Handler)
===========================================================================
