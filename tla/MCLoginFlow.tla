---------------------------- MODULE MCLoginFlow ----------------------------
(* LoginFlow with model values for logins, requests and keys.  Keys are    *)
(* interchangeable, and so are requests, in runs without a liveness        *)
(* property.                                                               *)
EXTENDS LoginFlow, TLC

Symmetry == Permutations(Key) \cup Permutations(Request)
=============================================================================
