-------------------------- MODULE MCArchiveClient --------------------------
(* Instances of ArchiveClient for TLC.                                     *)
EXTENDS ArchiveClient, TLC

\* Update threads are interchangeable.
ThreadSymmetry == Permutations(Threads)
=============================================================================
