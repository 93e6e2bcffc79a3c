------------------------------ MODULE MCRelay ------------------------------
(* Instances of Relay for TLC.                                             *)
EXTENDS Relay, TLC

\* Publishers are interchangeable.
PublisherSymmetry == Permutations(Publishers)
=============================================================================
