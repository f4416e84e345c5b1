---------------------------- MODULE MCListening ----------------------------
(* Listening with topics that are model values and interchangeable. *)
EXTENDS Listening, TLC

TopicSymmetry == Permutations(Topics)
=============================================================================
