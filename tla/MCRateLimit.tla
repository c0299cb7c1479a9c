---------------------------- MODULE MCRateLimit ----------------------------
(* Rules and a signed action that are used up, and expire, within a few     *)
(* instants.  A second has two halves; the signed action expires at 4.  It  *)
(* is opened at a fraction of a second (1, 3) or at its last instant (4).   *)
EXTENDS RateLimit, TLC

CONSTANTS ip, user, nonce

MCLimit == (ip :> 2) @@ (user :> 1)
MCWindow == (ip :> 1) @@ (user :> 2)
MCExpires == (nonce :> 2)
(* A payment; a refund or status request makes the first of its hits only. *)
MCRoutes == {<<ip, user>>}
===========================================================================
