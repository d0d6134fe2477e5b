--------------------------- MODULE MCMarketplace ---------------------------
(* Marketplace on small instances.                                         *)
EXTENDS Marketplace, TLC

CONSTANTS r1, outsider

\* One user on the reviewer list and, in some runs, one who is not.
MCReviewer == {r1}
MCUser == {r1, outsider}

\* Who could be recorded as having decided.
MCDecider == {r1, outsider, Cli}
MCDeciderInside == {r1, Cli}

\* The ids are interchangeable in every formula that is checked under it.
Symmetry == Permutations(Submission) \cup Permutations(Worker)
              \cup Permutations(Report)
=============================================================================
