------------------------------ MODULE MCSession ------------------------------
(* Session with threads, keys and listens that are interchangeable, and the  *)
(* paths and choices of files that transfers are given.                      *)
EXTENDS Session

SessionSymmetry == Permutations(Threads) \cup Permutations(Keys) \cup Permutations(Listens)

CallPlaces == {<<"d">>, <<"x">>, <<"d", "x">>}

Asked(path, glob, recursive, depth) ==
  [at |-> path, glob |-> glob, recursive |-> recursive, depth |-> depth]

\* d, d/* and */ with and without their descendants, and the file d/x.
CallSpecs ==
  {Asked(<<"d">>, FALSE, FALSE, 0), Asked(<<"d">>, FALSE, TRUE, 9),
   Asked(<<"d">>, TRUE, FALSE, 0), Asked(<<"d">>, TRUE, TRUE, 9),
   Asked(<<>>, TRUE, TRUE, 1), Asked(<<"d", "x">>, FALSE, FALSE, 0)}
=============================================================================
