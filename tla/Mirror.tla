------------------------------- MODULE Mirror -------------------------------
(***************************************************************************)
(* What a file's destination goes through, for whoever reads it while      *)
(* parsync runs, is killed and is run again: it is replaced in one step,   *)
(* by a file that has been read from the source in full and is nowhere     *)
(* older than what it replaces; and it is given the modification time of   *)
(* a version only when no part of it is older than that version, which is  *)
(* what lets a later run skip it.                                          *)
(***************************************************************************)
EXTENDS Integers, Sequences

CONSTANTS
    LastVersion,  \* the source goes through versions 1 .. LastVersion
    SizeOf,       \* size, in units, of each source version
    MtimeOf,      \* modification time of each version
    Now           \* the local clock, which a new file is stamped with

VARIABLES
    src,   \* the version the source file has now
    dest   \* the destination file

vars == <<src, dest>>

Init ==
    /\ src = 1
    /\ dest = [there |-> FALSE, data |-> <<>>, mtime |-> 0]

SourceMoves ==
    /\ src < LastVersion
    /\ src' = src + 1
    /\ UNCHANGED dest

\* A run that has listed version v puts a file in place.
Replace ==
    /\ \E v \in 1 .. src :
         /\ \A u \in DOMAIN dest.data : dest.data[u] <= v
         /\ \A u \in DOMAIN dest'.data : dest'.data[u] \in v .. src
         /\ \E w \in v .. src : Len(dest'.data) = SizeOf[w]
    /\ dest'.there
    /\ dest'.mtime = Now
    /\ UNCHANGED src

Stamp ==
    /\ dest.there
    /\ \E v \in 1 .. src :
         /\ \A u \in DOMAIN dest.data : dest.data[u] >= v
         /\ dest' = [dest EXCEPT !.mtime = MtimeOf[v]]
    /\ UNCHANGED src

Next == SourceMoves \/ Replace \/ Stamp

Spec == Init /\ [][Next]_vars

=============================================================================
