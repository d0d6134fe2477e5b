---------------------------- MODULE MCInatProxy ----------------------------
(* InatProxy on small instances.                                           *)
EXTENDS InatProxy, TLC

\* Requests are interchangeable and so are questions.
Symmetry == Permutations(Caller) \cup Permutations(Url)
=============================================================================
