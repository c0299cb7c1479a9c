---------------------------- MODULE MCCheckout ----------------------------
(* Small instances of Checkout for TLC.                                     *)
EXTENDS Checkout, TLC

(* The posts are interchangeable, and so are the bodies.                    *)
PostSymmetry == Permutations(Request) \cup Permutations(Body)
===========================================================================
