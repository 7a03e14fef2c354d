----------------------------- MODULE MCFileSync -----------------------------
(* Instances of FileSync for TLC. *)
EXTENDS FileSync

\* The options a user gets by default, with small files in one chunk.
Default ==
    [resume |-> TRUE, dry |-> FALSE, strict |-> FALSE, verify |-> FALSE, update |-> FALSE,
     ssh |-> TRUE, rdma |-> "off", rdmaMin |-> 1, threshold |-> 9, chunk |-> 1,
     delta |-> FALSE, deltaMin |-> 1, fallback |-> TRUE]

Chunked   == [Default EXCEPT !.threshold = 1]
Strict    == [Chunked EXCEPT !.strict = TRUE]
Verify    == [Chunked EXCEPT !.verify = TRUE]
Update    == [Chunked EXCEPT !.update = TRUE]
NoResume  == [Strict  EXCEPT !.resume = FALSE, !.ssh = FALSE]
Rdma      == [Default EXCEPT !.rdma = "auto"]
RdmaStrict == [Strict EXCEPT !.rdma = "require"]
Local     == [Default EXCEPT !.ssh = FALSE, !.resume = FALSE]
LocalRequire == [Local EXCEPT !.rdma = "require"]
Dry       == [Default EXCEPT !.dry = TRUE]

Delta     == [Default EXCEPT !.delta = TRUE]
DeltaOnly == [Strict  EXCEPT !.delta = TRUE, !.fallback = FALSE, !.rdma = "auto"]
DeltaFresh == [Delta EXCEPT !.resume = FALSE]

AllOptions == {Default, Chunked, Strict, Verify, Update, NoResume, Rdma,
               RdmaStrict, Local, LocalRequire, Delta, DeltaOnly}

FreshRdma == [RdmaStrict EXCEPT !.rdma = "auto", !.resume = FALSE]
FreshOptions == {Default, Verify, NoResume, FreshRdma, Dry, Delta, DeltaFresh}

ResumeOptions == {Default}
DryOptions    == {Default, Dry}

AllPoints  == Points \ {"idle"}
SafePoints == Points \ (Windows \cup {"idle"})

Sizes3  == <<2, 2, 1>>
Mtimes3 == <<1, 2, 3>>
Sizes2  == <<2, 2>>
Mtimes2 == <<1, 2>>

=============================================================================
