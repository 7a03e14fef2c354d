----------------------------- MODULE SourceSpec -----------------------------
(***************************************************************************)
(* How the source argument is read: a local path, [user@]host[:port]:path, *)
(* or an error.  A string is a sequence of characters.                     *)
(***************************************************************************)
EXTENDS Integers, SequencesExt

CONSTANTS
    Letters,  \* characters of names
    Digits,   \* decimal digits: a function from characters to 0 .. 9
    MaxPort   \* u16::MAX

ASSUME SourceAssumption ==
    /\ Digits \in [DOMAIN Digits -> 0 .. 9]
    /\ MaxPort \in Nat /\ MaxPort >= 22

Invalid == [kind |-> "invalid"]

-----------------------------------------------------------------------------
(* Strings.                                                                *)

IsText(s) == s \in Seq(Range(s))

Has(s, c) == \E i \in DOMAIN s : s[i] = c

\* str::split_once.
CutAt(s, c)  == SelectInSeq(s, LAMBDA x : x = c)
BeforeCut(s, c) == SubSeq(s, 1, CutAt(s, c) - 1)
AfterCut(s, c)  == SubSeq(s, CutAt(s, c) + 1, Len(s))

\* str::trim_end_matches.
TrimEnd(s, c) == SubSeq(s, 1, SelectLastInSeq(s, LAMBDA x : x # c))

IsNumber(s)  == s # <<>> /\ \A i \in DOMAIN s : s[i] \in DOMAIN Digits
NumberOf(s)  ==
    LET number[k \in 0 .. Len(s)] ==
            IF k = 0 THEN 0 ELSE 10 * number[k - 1] + Digits[s[k]]
    IN  number[Len(s)]

Glob(s) == \E c \in {"*", "?", "[", "]"} : Has(s, c)
Star(s) == IsSuffix(<<"/", "*">>, s)

\* normalize_source_path, normalize_local_source_path: the only pattern is
\* a trailing /*, for the children of a directory.
Trimmed(raw)     == TrimEnd(TrimEnd(raw, "*"), "/")
ValidPath(raw)   == IF Star(raw) THEN Trimmed(raw) # <<>> ELSE ~Glob(raw)
Normalized(raw)  == IF Star(raw) THEN Trimmed(raw) ELSE raw

-----------------------------------------------------------------------------
(* parse_source_spec.                                                      *)

LooksLocal(s) ==
    \/ s # <<>> /\ s[1] \in {"/", "~", "\\"}
    \/ IsPrefix(<<".", "/">>, s) \/ IsPrefix(<<".", ".", "/">>, s)
    \/ Len(s) >= 3 /\ s[1] \in Letters /\ s[2] = ":" /\ s[3] \in {"\\", "/"}
    \/ ~Has(s, ":")

\* Mutant: whatever is before a second colon is the port.
ColonIsPort(rest) == Has(rest, ":")

HasPort(rest) == Has(rest, ":") /\ IsNumber(BeforeCut(rest, ":"))

\* RemoteSpec::parse: [user@]host[:port]:path.
ParseRemote(s) ==
    LET user == IF Has(s, "@") THEN BeforeCut(s, "@") ELSE <<>>
        tail == IF Has(s, "@") THEN AfterCut(s, "@") ELSE s
        host == BeforeCut(tail, ":")
        rest == AfterCut(tail, ":")
        port == NumberOf(BeforeCut(rest, ":"))
        path == IF HasPort(rest) THEN AfterCut(rest, ":") ELSE rest
    IN  IF \/ Has(s, "@") /\ (user = <<>> \/ tail = <<>>)
           \/ ~Has(tail, ":") \/ host = <<>> \/ rest = <<>>
           \/ HasPort(rest) /\ port > MaxPort
           \/ path = <<>> \/ ~ValidPath(path)
        THEN Invalid
        ELSE [kind |-> "remote", user |-> user, host |-> host, explicit |-> HasPort(rest),
              port |-> IF HasPort(rest) THEN port ELSE 22,
              path |-> Normalized(path), star |-> Star(path)]

\* What is in the local file system under the argument's path: nothing, a
\* file or a directory.  Being there comes first, however it looks.
ParseSource(s, there) ==
    CASE ~ValidPath(s) -> Invalid
      [] ValidPath(s) /\ there = "dir" ->
           [kind |-> "local", path |-> Normalized(s), star |-> Star(s)]
      [] ValidPath(s) /\ there = "file" ->
           IF Star(s) THEN Invalid ELSE [kind |-> "local", path |-> s, star |-> FALSE]
      [] OTHER -> IF LooksLocal(s) THEN Invalid ELSE ParseRemote(s)

=============================================================================
