---------------------------- MODULE DeltaTransfer ---------------------------
(***************************************************************************)
(* Bringing a file up to date from the old version at the destination, the *)
(* basis: the signature of the basis (delta/signature.rs), the helper that *)
(* matches the source against it (delta/matcher.rs, with the checksums of  *)
(* delta/checksum.rs), the patch (delta/patch.rs), and the order in which  *)
(* transfer_one_delta (sync.rs) calls them.  Positions count bytes from 0, *)
(* as in the code; a strong hash is the bytes it is of (no collisions).    *)
(***************************************************************************)
EXTENDS Integers, Sequences, FiniteSetsExt

CONSTANTS
    Bases,           \* what the destination may hold
    Sources,         \* what the source may hold
    Modulus,         \* MOD of checksum.rs, 2^16
    BlockSize,       \* block_size
    MaxLiterals,     \* options.delta_max_literals
    MaxDisturbances  \* edits of the basis and short reads, together

Bytes == 0 .. Modulus - 1

ASSUME DeltaAssumption ==
    /\ Modulus \in Nat \ {0}
    /\ Bases \subseteq Seq(Bytes)
    /\ Sources \subseteq Seq(Bytes)
    /\ BlockSize \in Nat \ {0}
    /\ MaxLiterals \in Nat
    /\ MaxDisturbances \in Nat

VARIABLES
    source,        \* what the helper reads, at once
    basis,         \* the destination
    pc,            \* "sign", "match", "review", "open", "patch", "verify", "end"
    pos,           \* where the signature or the patch reads the basis
    blocks,        \* the signature
    i,             \* the position of the matcher
    literalStart,  \* what follows this position is not yet in ops
    rolling,       \* the rolling checksum, or NoChecksum
    copyBytes,     \* how many bytes are copied
    ops,           \* the plan
    basisLen,      \* the length of the basis when the patch opened it
    next,          \* how many ops have been applied
    out,           \* the partial file
    outcome,       \* how the transfer has ended
    disturbances   \* edits and short reads so far

signatureVars == <<pos, blocks>>
matcherVars   == <<i, literalStart, rolling, copyBytes, ops>>
patchVars     == <<basisLen, next, out>>
vars == <<source, basis, pc, signatureVars, matcherVars, patchVars, outcome,
          disturbances>>

NoChecksum == [a |-> 0, b |-> 0, len |-> 0]

Slice(buf, from, to) == SubSeq(buf, from + 1, to)

-----------------------------------------------------------------------------
(* checksum.rs.  Modulus divides 2^32, so that u32 arithmetic that wraps   *)
(* (block sizes over 2^24) has the same remainders.                        *)

\* The loops of RollingChecksum::new: after k terms, the sum of these, reduced.
Sums(terms) ==
    LET sum[k \in 0 .. Len(terms)] ==
            IF k = 0 THEN 0 ELSE (sum[k - 1] + terms[k]) % Modulus
    IN  sum

Weighted(buf) == [k \in DOMAIN buf |-> (Len(buf) - k + 1) * buf[k]]

Checksum(buf) ==
    [a |-> Sums(buf)[Len(buf)], b |-> Sums(Weighted(buf))[Len(buf)], len |-> Len(buf)]

\* Mutant: a is reduced, b is not.
RollUnreduced(r, old, new) ==
    LET a == (Modulus + r.a + new - old) % Modulus
    IN  [r EXCEPT !.a = a, !.b = Modulus + r.b + a - ((r.len * old) % Modulus)]

\* Mutant: b takes the a from before.
RollOldA(r, old, new) ==
    [r EXCEPT !.a = (Modulus + r.a + new - old) % Modulus,
              !.b = (Modulus + r.b + r.a - ((r.len * old) % Modulus)) % Modulus]

Roll(r, old, new) ==
    LET a == (Modulus + r.a + new - old) % Modulus
    IN  [r EXCEPT !.a = a,
                  !.b = (Modulus + r.b + a - ((r.len * old) % Modulus)) % Modulus]

\* (b << 16) | a
WeakOf(r) == r.b * Modulus + r.a

WeakHash(buf) == WeakOf(Checksum(buf))

-----------------------------------------------------------------------------
(* build_signature, at the destination.                                    *)

Finish(result) ==
    /\ pc' = "end"
    /\ outcome' = result

Disturb ==
    /\ disturbances < MaxDisturbances
    /\ disturbances' = disturbances + 1

BlockSig(buf) ==
    [index |-> Len(blocks), len |-> Len(buf), weak |-> WeakHash(buf), strong |-> buf]

\* One read of n bytes.
SignBlock(n) ==
    /\ pc = "sign"
    /\ pos + n <= Len(basis)
    /\ blocks' = Append(blocks, BlockSig(Slice(basis, pos, pos + n)))
    /\ pos' = pos + n
    /\ UNCHANGED <<source, basis, pc, matcherVars, patchVars, outcome>>

\* A read returns what it is asked for, or what is left of the file ...
ReadBlock ==
    /\ pos < Len(basis)
    /\ SignBlock(Min({BlockSize, Len(basis) - pos}))
    /\ UNCHANGED disturbances

\* ... but it may return less.
ReadShort ==
    /\ \E n \in 1 .. Min({BlockSize, Len(basis) - pos}) - 1 : SignBlock(n)
    /\ Disturb

\* The source is big enough for a first window or it is not.
ChecksumAt(from) ==
    IF from + BlockSize <= Len(source)
    THEN Checksum(Slice(source, from, from + BlockSize))
    ELSE NoChecksum

\* The end of the basis; the request goes to the helper.
Signed ==
    /\ pc = "sign"
    /\ pos >= Len(basis)
    /\ IF blocks = <<>>
       THEN Finish("empty") /\ UNCHANGED rolling
       ELSE pc' = "match" /\ rolling' = ChecksumAt(0) /\ UNCHANGED outcome
    /\ UNCHANGED <<source, basis, signatureVars, i, literalStart, copyBytes, ops,
                   patchVars, disturbances>>

-----------------------------------------------------------------------------
(* build_delta_ops, in the helper.                                         *)

Copy(block) == [kind |-> "copy", index |-> block.index, len |-> block.len]

\* The literal from one position to another, if there is anything in it.
Literal(from, to) ==
    IF from < to
    THEN << [kind |-> "literal", data |-> Slice(source, from, to)] >>
    ELSE <<>>

MoreWindows == i + BlockSize <= Len(source)

Window(from) == Slice(source, from, from + BlockSize)

Weak == IF rolling = NoChecksum THEN WeakHash(Window(i)) ELSE WeakOf(rolling)

\* The blocks that are the same as a window of the source.
Candidates(weak, window) ==
    {k \in DOMAIN blocks : /\ blocks[k].weak = weak
                           /\ blocks[k].len = BlockSize
                           /\ blocks[k].strong = window}

\* Mutant: the last one of by_weak is taken.
LastCandidate(weak, window) == blocks[Max(Candidates(weak, window))]

\* The first one of by_weak's list, which has the order of the blocks.
Matched(weak, window) == blocks[Min(Candidates(weak, window))]

\* Mutant: the checksum is not computed anew behind a match.
MatchBlockKeepingChecksum ==
    /\ pc = "match"
    /\ MoreWindows
    /\ Candidates(Weak, Window(i)) # {}
    /\ ops' = ops \o Literal(literalStart, i) \o <<Copy(Matched(Weak, Window(i)))>>
    /\ copyBytes' = copyBytes + BlockSize
    /\ i' = i + BlockSize
    /\ literalStart' = i + BlockSize
    /\ UNCHANGED <<source, basis, pc, signatureVars, rolling, patchVars, outcome,
                   disturbances>>

MatchBlock ==
    /\ pc = "match"
    /\ MoreWindows
    /\ Candidates(Weak, Window(i)) # {}
    /\ ops' = ops \o Literal(literalStart, i) \o <<Copy(Matched(Weak, Window(i)))>>
    /\ copyBytes' = copyBytes + BlockSize
    /\ i' = i + BlockSize
    /\ literalStart' = i + BlockSize
    /\ rolling' = ChecksumAt(i + BlockSize)
    /\ UNCHANGED <<source, basis, pc, signatureVars, patchVars, outcome,
                   disturbances>>

Slide ==
    /\ pc = "match"
    /\ MoreWindows
    /\ Candidates(Weak, Window(i)) = {}
    /\ i' = i + 1
    /\ rolling' = IF rolling # NoChecksum /\ i + 1 + BlockSize <= Len(source)
                  THEN Roll(rolling, source[i + 1], source[i + 1 + BlockSize])
                  ELSE rolling
    /\ UNCHANGED <<source, basis, pc, signatureVars, literalStart, copyBytes, ops,
                   patchVars, outcome, disturbances>>

\* Mutant: what follows the last match is left out.
MatchedUpToTheTail ==
    /\ pc = "match"
    /\ ~MoreWindows
    /\ pc' = "review"
    /\ UNCHANGED <<source, basis, signatureVars, matcherVars, patchVars, outcome,
                   disturbances>>

MatchedAll ==
    /\ pc = "match"
    /\ ~MoreWindows
    /\ ops' = ops \o Literal(literalStart, Len(source))
    /\ pc' = "review"
    /\ UNCHANGED <<source, basis, signatureVars, i, literalStart, rolling, copyBytes,
                   patchVars, outcome, disturbances>>

LiteralBytes == Len(source) - copyBytes

\* The plan is refused: too much of it is literal, or the source is not as
\* listed.
Refuse ==
    /\ pc = "review"
    /\ Finish("refused")
    /\ UNCHANGED <<source, basis, signatureVars, matcherVars, patchVars, disturbances>>

Agree ==
    /\ pc = "review"
    /\ LiteralBytes <= MaxLiterals
    /\ pc' = "open"
    /\ UNCHANGED <<source, basis, signatureVars, matcherVars, patchVars, outcome,
                   disturbances>>

-----------------------------------------------------------------------------
(* apply_delta_ops, at the destination.                                    *)

\* File::create; start_op_index is 0, because upsert_delta_session has just
\* reset the session it is read from.
OpenFiles ==
    /\ pc = "open"
    /\ basisLen' = Len(basis)
    /\ out' = <<>>
    /\ next' = 0
    /\ pc' = "patch"
    /\ UNCHANGED <<source, basis, signatureVars, matcherVars, outcome, disturbances>>

Op == ops[next + 1]

Write(buf) ==
    /\ out' = out \o buf
    /\ next' = next + 1
    /\ UNCHANGED <<source, basis, pc, signatureVars, matcherVars, basisLen, outcome,
                   disturbances>>

CopyStart == Op.index * BlockSize
CopyEnd   == CopyStart + Op.len

ApplyCopy ==
    /\ Op.kind = "copy"
    /\ CopyEnd <= basisLen
    /\ CopyEnd <= Len(basis)
    /\ Write(Slice(basis, CopyStart, CopyEnd))

ApplyLiteral ==
    /\ Op.kind = "literal"
    /\ Write(Op.data)

\* The range is beyond the basis, or read_exact_at comes to its end.
CopyFails ==
    /\ Op.kind = "copy"
    /\ CopyEnd > basisLen \/ CopyEnd > Len(basis)
    /\ Finish("broken")
    /\ UNCHANGED <<source, basis, signatureVars, matcherVars, patchVars, disturbances>>

Apply ==
    /\ pc = "patch"
    /\ next < Len(ops)
    /\ ApplyCopy \/ ApplyLiteral \/ CopyFails

Applied ==
    /\ pc = "patch"
    /\ next = Len(ops)
    /\ pc' = "verify"
    /\ UNCHANGED <<source, basis, signatureVars, matcherVars, patchVars, outcome,
                   disturbances>>

\* The digest of what was written against the final digest of the plan.
DigestAgrees == out = source

Accept ==
    /\ pc = "verify"
    /\ DigestAgrees
    /\ Finish("patched")
    /\ UNCHANGED <<source, basis, signatureVars, matcherVars, patchVars, disturbances>>

\* The partial file is removed.
Reject ==
    /\ pc = "verify"
    /\ ~DigestAgrees
    /\ Finish("mismatch")
    /\ out' = <<>>
    /\ UNCHANGED <<source, basis, signatureVars, matcherVars, basisLen, next,
                   disturbances>>

-----------------------------------------------------------------------------
(* The owner of the destination.  It makes no difference when in between   *)
(* the signature and the patch the basis changes.                          *)

Shortened(buf) == IF buf = <<>> THEN {} ELSE {Slice(buf, 0, Len(buf) - 1)}
Changed(buf)   == {[buf EXCEPT ![k] = b] : k \in DOMAIN buf \cap {1}, b \in Bytes}

EditBasis ==
    /\ pc \in {"sign", "open", "patch"}
    /\ basis' \in Shortened(basis) \cup Changed(basis)
    /\ Disturb
    /\ UNCHANGED <<source, pc, signatureVars, matcherVars, patchVars, outcome>>

-----------------------------------------------------------------------------
Init ==
    /\ source \in Sources
    /\ basis \in Bases
    /\ pc = "sign"
    /\ pos = 0
    /\ blocks = <<>>
    /\ i = 0
    /\ literalStart = 0
    /\ rolling = NoChecksum
    /\ copyBytes = 0
    /\ ops = <<>>
    /\ basisLen = 0
    /\ next = 0
    /\ out = <<>>
    /\ outcome = "none"
    /\ disturbances = 0

Next ==
    \/ ReadBlock \/ ReadShort \/ Signed
    \/ MatchBlock \/ Slide \/ MatchedAll
    \/ Refuse \/ Agree
    \/ OpenFiles \/ Apply \/ Applied \/ Accept \/ Reject
    \/ EditBasis

Spec == Init /\ [][Next]_vars

-----------------------------------------------------------------------------
(* Properties.                                                             *)

Block   == [index : Nat, len : Nat, weak : Nat, strong : Seq(Bytes)]
DeltaOp == [kind : {"copy"}, index : Nat, len : Nat]
             \cup [kind : {"literal"}, data : Seq(Bytes)]

\* Every variable has its type; checksums are reduced.
TypeOK ==
    /\ source \in Seq(Bytes) /\ basis \in Seq(Bytes)
    /\ pc \in {"sign", "match", "review", "open", "patch", "verify", "end"}
    /\ pos \in Nat /\ blocks \in Seq(Block)
    /\ i \in 0 .. Len(source) /\ literalStart \in 0 .. i
    /\ rolling \in [a : Bytes, b : Bytes, len : Nat]
    /\ copyBytes \in 0 .. literalStart
    /\ ops \in Seq(DeltaOp)
    /\ basisLen \in Nat /\ next \in 0 .. Len(ops) /\ out \in Seq(Bytes)
    /\ outcome \in {"none", "empty", "refused", "broken", "mismatch", "patched"}
    /\ disturbances \in 0 .. MaxDisturbances

\* The checksum the matcher rolls from byte to byte is that of the window it
\* stands for; if it were not, blocks would silently go unmatched.
RollingIsWeakHash ==
    pc = "match" /\ MoreWindows => Weak = WeakHash(Window(i))

\* No literal of a finished plan holds a whole block of the basis: the
\* matcher overlooks none, at no offset.
NoBlockMissed ==
    pc = "review" =>
        \A k \in DOMAIN ops : ops[k].kind = "literal" =>
            \A from \in 0 .. Len(ops[k].data) - BlockSize :
                \A b \in DOMAIN blocks :
                    blocks[b].strong # Slice(ops[k].data, from, from + BlockSize)

\* The script that takes the helper's place when its command cannot be run: what it
\* makes of the source from a position on, by where the next literal starts.
Script[from \in 0 .. Len(source)] ==
    [start \in 0 .. Len(source) |->
        IF from + BlockSize > Len(source) THEN Literal(start, Len(source))
        ELSE LET found == Candidates(WeakHash(Window(from)), Window(from))
             IN  IF found # {}
                 THEN Literal(start, from) \o <<Copy(blocks[Min(found)])>>
                        \o Script[from + BlockSize][from + BlockSize]
                 ELSE Script[from + 1][start]]

FallbackOps == Script[0][0]

\* The helper and the script make the same plan.
FallbackAgrees == pc = "review" => ops = FallbackOps

\* The patch fails only when the basis has changed or a read was short:
\* otherwise every copy is within the basis and the digest agrees.
UndisturbedFits == outcome \in {"broken", "mismatch"} => disturbances > 0

-----------------------------------------------------------------------------
(* The inductive invariants behind them.                                   *)

\* Until the signature is made, nothing is planned.
NothingPlanned == pc = "sign" => i = 0 /\ ops = <<>>

\* The blocks of the signature are numbered, and are what their hashes are of.
SignatureFits ==
    \A k \in DOMAIN blocks :
        /\ blocks[k].index = k - 1
        /\ blocks[k].len = Len(blocks[k].strong)
        /\ blocks[k].weak = WeakHash(blocks[k].strong)

RollingFits ==
    pc = "match" /\ MoreWindows => rolling \in {NoChecksum, Checksum(Window(i))}

IsBlock(window) == \E k \in DOMAIN blocks : blocks[k].strong = window

\* The windows the matcher has gone past since the last match are no blocks.
Scanned ==
    pc = "match" =>
        \A from \in literalStart .. i - 1 :
            from + BlockSize <= Len(source) => ~IsBlock(Window(from))

\* No literal of the plan holds a whole block.
Clean(op) ==
    op.kind = "literal" =>
        \A from \in 0 .. Len(op.data) - BlockSize :
            ~IsBlock(Slice(op.data, from, from + BlockSize))

LiteralsClean == \A k \in DOMAIN ops : Clean(ops[k])

\* What the script would add to the plan so far makes its own plan of it.
PlanAgrees ==
    /\ pc = "match" => ops \o Script[i][literalStart] = FallbackOps
    /\ pc = "review" => ops = FallbackOps

MatcherInv ==
    /\ TypeOK
    /\ NothingPlanned
    /\ SignatureFits
    /\ RollingFits
    /\ Scanned
    /\ LiteralsClean
    /\ PlanAgrees

\* As long as nobody has disturbed the transfer, a whole block is where its number
\* says ...
BlocksInPlace ==
    /\ pc = "sign" =>
         pos <= Len(basis) /\ (pos = Len(blocks) * BlockSize \/ pos = Len(basis))
    /\ \A k \in DOMAIN blocks : blocks[k].len = BlockSize =>
         /\ blocks[k].index * BlockSize + BlockSize <= Len(basis)
         /\ blocks[k].strong =
              Slice(basis, blocks[k].index * BlockSize, blocks[k].index * BlockSize + BlockSize)

\* ... an op spells a piece of the source ...
Spelled(op) ==
    IF op.kind = "copy"
    THEN Slice(basis, op.index * BlockSize, op.index * BlockSize + op.len)
    ELSE op.data

InBasis(op) == op.kind = "copy" => op.index * BlockSize + op.len <= Len(basis)

\* ... the plan spells it from its beginning, cut into these pieces ...
Spells(cut) ==
    /\ cut[0] = 0
    /\ \A k \in DOMAIN ops :
         /\ InBasis(ops[k])
         /\ cut[k - 1] <= cut[k]
         /\ Spelled(ops[k]) = Slice(source, cut[k - 1], cut[k])

\* ... and what was written are the first of them.
PlanSpells ==
    \E cut \in [0 .. Len(ops) -> 0 .. Len(source)] :
        /\ Spells(cut)
        /\ pc \in {"sign", "match"} => cut[Len(ops)] = literalStart
        /\ pc \in {"review", "open", "patch"} => cut[Len(ops)] = Len(source)
        /\ pc = "patch" => out = Slice(source, 0, cut[next])

PatchInv ==
    /\ outcome # "none" => pc = "end"
    /\ UndisturbedFits
    /\ disturbances = 0 =>
         /\ BlocksInPlace /\ PlanSpells
         /\ pc = "patch" => basisLen = Len(basis)
         /\ pc = "verify" => out = source

=============================================================================
