---------------------------- MODULE MCHttpClient ----------------------------
(* The two button tasks of HttpClient are interchangeable.                 *)
EXTENDS HttpClient, TLC

ButtonSymmetry == Permutations(Buttons)
=============================================================================
