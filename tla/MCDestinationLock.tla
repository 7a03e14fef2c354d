-------------------------- MODULE MCDestinationLock -------------------------
(* Instances of DestinationLock for TLC. *)
EXTENDS DestinationLock, TLC

Processes == Permutations(Procs)

\* Everywhere but between the creation of the lock file and its first line.
AfterThePid == Points \ (Ended \cup {"new", "write"})

=============================================================================
