--------------------------- MODULE MCDeltaTransfer --------------------------
(* Instances of DeltaTransfer for TLC.  With two bytes, a modulus of three *)
(* and blocks of three bytes, the windows 000 and 222 have the same weak *)
(* hash; a basis has up to two whole blocks, or is all tail. *)
EXTENDS DeltaTransfer

Files(lengths) == UNION {[1..n -> {0, 2}] : n \in lengths}

SomeBases   == Files({0, 2, 3, 6})
SomeSources == Files({0, 2, 4, 7})

=============================================================================
