----------------------------- MODULE MCStartup -----------------------------
(* Instances of Startup for TLC: characters and names are few, arguments   *)
(* and patterns are all the short ones.                                    *)
EXTENDS Startup

Strings(chars, n) == UNION {[1 .. k -> chars] : k \in 1 .. n}

MCDigits == [c \in {"0", "7"} |-> IF c = "7" THEN 7 ELSE 0]

\* Short arguments of all kinds of characters, and one longer than most.
MCTexts ==
    Strings({"a", "@", ":", "/", "*", "7", ".", "~"}, 3) \cup
    {<<"a", "@", "a", ":", "7", ":", "/", "a", "/", "*">>, <<"a", "*", "/", "*">>}

MCUsers     == {<<"a">>}
MCHosts     == {<<"a">>, <<"b", "a">>}
MCPortTexts == {<<"0">>, <<"7">>, <<"7", "7">>}
MCPaths     == Strings({"a", "/", "@", ":", "7"}, 3) \cup {<<"a", "/", "*">>, <<"/", "*">>, <<"*">>}

\* A file with one pattern, files that include one another, a second port
\* and a negated pattern, a directory where a file is expected.
Line(key, value) == [key |-> key, value |-> value]
Key(v)           == Line("identityfile", v)
Hosts_(patterns) == Line("host", patterns)
AnyHost          == {<<"*">>}

MCPatterns == Strings({"a", "b", "*", "?"}, 3)
OnePattern == {("config" :> <<Hosts_({p}), Key(1)>>) : p \in MCPatterns}
Graph      == {[f \in {"config", "c1", "c2"} |->
                  IF f = "config" THEN <<Key(1), Line("include", i)>>
                  ELSE IF f = "c1" THEN <<Line("include", j), Hosts_({<<"b", "*">>}), Key(2)>>
                  ELSE IF k = <<"none">> THEN Unreadable
                  ELSE <<Line("include", k), Hosts_({<<"*">>, <<"!", "a">>}), Key(3), Line("port", 7),
                         Line("hostname", <<"b">>)>>]
               : i, j, k \in {<<>>, <<"c1", "c2">>, <<"c2">>, <<"config">>, <<"none">>}}
MCConfigs ==
    {<<>>} \cup OnePattern \cup
    {g \in Graph : \A f \in {"config", "c1"} : \A l \in DOMAIN g[f] :
         g[f][l].key = "include" => g[f][l].value # <<"none">>} \cup
    {"config" :> <<Hosts_(AnyHost), Line("port", 7), Line("user", <<"b">>), Line("port", 99), Line("match", <<>>)>>}

MCLoginNames == {<<>>, <<<<"c">>>>}

\* An empty root, a directory with one of its own name and what is in it,
\* hidden and special files and a link, two directories.
MCTrees ==
    { <<>>,
      (<<"d">> :> "dir" @@ <<"d", ".h">> :> "file" @@ <<"d", "d">> :> "dir"),
      (<<".h">> :> "dir" @@ <<".h", "d">> :> "other" @@ <<".h", ".h">> :> "file" @@ <<"d">> :> "link"),
      (<<"d">> :> "dir" @@ <<".h">> :> "dir" @@ <<".h", "d">> :> "dir"
         @@ <<".h", "d", ".h">> :> "file" @@ <<"d", ".h">> :> "file") }

=============================================================================
