----------------------------- MODULE MCRdmaCopy -----------------------------
(* Instances of RdmaCopy for TLC. *)
EXTENDS RdmaCopy

=============================================================================
