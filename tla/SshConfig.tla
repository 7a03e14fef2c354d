----------------------------- MODULE SshConfig -----------------------------
(***************************************************************************)
(* What parsync takes from ~/.ssh/config.  A configuration is a function   *)
(* from file names to what they hold: a sequence of lines, each a keyword  *)
(* with a value, or the name of something that cannot be read as a file    *)
(* (a directory an Include pattern matches).                               *)
(***************************************************************************)
EXTENDS SourceSpec

CONSTANTS
    UserConfig,  \* the name of ~/.ssh/config
    Unreadable   \* what is there and is not a readable file

-----------------------------------------------------------------------------
(* Patterns.                                                               *)

\* Where glob_match is: pi and ti are its positions (from 1), star is that
\* of the last *, 0 for none, and mark where what it stands for ends.
Scans(p, t) ==
    {s \in [pi : 1 .. Len(p) + 1, ti : 1 .. Len(t) + 1,
            star : 0 .. Len(p), mark : 1 .. Len(t) + 1] : s.mark <= s.ti}

GlobMatch(p, t) ==
    LET loop[s \in Scans(p, t)] ==
            IF s.ti > Len(t) THEN \A k \in s.pi .. Len(p) : p[k] = "*"
            ELSE IF s.pi <= Len(p) /\ p[s.pi] \in {"?", t[s.ti]}
            THEN loop[[s EXCEPT !.pi = @ + 1, !.ti = @ + 1]]
            ELSE IF s.pi <= Len(p) /\ p[s.pi] = "*"
            THEN loop[[s EXCEPT !.pi = @ + 1, !.star = s.pi, !.mark = s.ti]]
            ELSE s.star # 0 /\ loop[[s EXCEPT !.pi = s.star + 1, !.ti = s.mark + 1, !.mark = @ + 1]]
    IN  loop[[pi |-> 1, ti |-> 1, star |-> 0, mark |-> 1]]

\* What a pattern stands for, from one of its positions on and for the text
\* from one of its positions on.
Denotes(p, t) ==
    LET rest[pi \in 1 .. Len(p) + 1] ==
            [ti \in 1 .. Len(t) + 1 |->
                IF pi > Len(p) THEN ti > Len(t)
                ELSE IF p[pi] = "*" THEN \E n \in ti .. Len(t) + 1 : rest[pi + 1][n]
                ELSE ti <= Len(t) /\ p[pi] \in {"?", t[ti]} /\ rest[pi + 1][ti + 1]]
    IN  rest[1][1]

\* matches_host_patterns: one that matches, none of the negated ones.
MatchesHost(host, patterns) ==
    /\ \A p \in patterns : p[1] = "!" => ~GlobMatch(Tail(p), host)
    /\ \E p \in patterns : p[1] # "!" /\ GlobMatch(p, host)

-----------------------------------------------------------------------------
(* Files.                                                                  *)

\* What files of a configuration hold: what follows Host is patterns, and
\* what an Include pattern expands to is there.
IsConfig(files) ==
    /\ IsFiniteSet(DOMAIN files)
    /\ \A f \in DOMAIN files : files[f] # Unreadable =>
          /\ IsText(files[f])
          /\ \A i \in DOMAIN files[f] :
                LET line == files[f][i]
                IN  /\ line.key = "include" => line.value \in Seq(DOMAIN files)
                    /\ line.key = "host" => \A p \in line.value : p # <<>> /\ IsText(p)

\* parse_ssh_config: a Host line opens a stanza; what precedes the first is
\* for every host; any other line, of Match and Include too, is an option
\* of the stanza it stands in.  (The code leaves out an empty first stanza.)
Parsed(lines) ==
    LET Take(stanzas, line) ==
            IF line.key = "host"
            THEN Append(stanzas, [patterns |-> line.value, options |-> <<>>])
            ELSE [stanzas EXCEPT ![Len(stanzas)].options = Append(@, line)]
        taken[k \in 0 .. Len(lines)] ==
            IF k = 0 THEN <<[patterns |-> {<<"*">>}, options |-> <<>>]>>
            ELSE Take(taken[k - 1], lines[k])
    IN  taken[Len(lines)]

\* extract_include_patterns, expand_include_pattern: in the order of lines,
\* those of a pattern sorted; what is not there is not in the expansion.  A
\* pattern that is no glob fails the load just as a file that cannot be read,
\* and the name of such a file stands for it.
Includes(lines) ==
    FlattenSeq([i \in DOMAIN lines |-> IF lines[i].key = "include" THEN lines[i].value ELSE <<>>])

\* How far the files are loaded: their names in this order.
Loads(files) ==
    [ok : BOOLEAN, loaded : Seq(DOMAIN files), visited : SUBSET DOMAIN files]

\* Mutant: each file has a copy of the set of its own, so that only what
\* includes it is remembered.
LoadPathPerBranch(files, name, state) ==
    LET load[x \in [name : DOMAIN files, state : Loads(files)]] ==
            LET s == x.state
                names == Includes(files[x.name])
                from[k \in 0 .. Len(names)] ==
                    IF k = 0
                    THEN [s EXCEPT !.loaded = Append(@, x.name), !.visited = @ \cup {x.name}]
                    ELSE LET before == from[k - 1]
                         IN  [load[[name |-> names[k], state |-> before]]
                                 EXCEPT !.visited = before.visited]
            IN  IF ~s.ok \/ x.name \in s.visited THEN s
                ELSE IF files[x.name] = Unreadable THEN [s EXCEPT !.ok = FALSE]
                ELSE from[Len(names)]
    IN  load[[name |-> name, state |-> state]]

\* load_ssh_config_path: a file is loaded once, its stanzas come before
\* those it includes, and one that cannot be read fails the whole.
LoadPath(files, name, state) ==
    LET load[x \in [name : DOMAIN files, state : Loads(files)]] ==
            LET s == x.state
                names == Includes(files[x.name])
                from[k \in 0 .. Len(names)] ==
                    IF k = 0
                    THEN [s EXCEPT !.loaded = Append(@, x.name), !.visited = @ \cup {x.name}]
                    ELSE load[[name |-> names[k], state |-> from[k - 1]]]
            IN  IF ~s.ok \/ x.name \in s.visited THEN s
                ELSE IF files[x.name] = Unreadable THEN [s EXCEPT !.ok = FALSE]
                ELSE from[Len(names)]
    IN  load[[name |-> name, state |-> state]]

Nothing == [ok |-> TRUE, loaded |-> <<>>, visited |-> {}]

\* load_user_ssh_config().unwrap_or_default(): a failure is not reported.
Loaded(files) ==
    IF UserConfig \notin DOMAIN files THEN <<>>
    ELSE LET all == LoadPath(files, UserConfig, Nothing)
         IN  IF all.ok
             THEN FlattenSeq([k \in DOMAIN all.loaded |-> Parsed(files[all.loaded[k]])])
             ELSE <<>>

-----------------------------------------------------------------------------
(* resolve_for_host and resolve_connect_target.  An option is <<>> or the  *)
(* sequence of its value.                                                  *)

OptionsFor(stanzas, alias) ==
    FlattenSeq([i \in DOMAIN stanzas |->
        IF MatchesHost(alias, stanzas[i].patterns) THEN stanzas[i].options ELSE <<>>])

Values(options, key) ==
    FlattenSeq([i \in DOMAIN options |->
        IF options[i].key = key THEN <<options[i].value>> ELSE <<>>])

\* The last one given; a port that is none (too large) is passed over.
LastOf(values) == IF values = <<>> THEN <<>> ELSE <<Last(values)>>
Ports(values)  == SelectSeq(values, LAMBDA v : v <= MaxPort)

Or(a, b) == IF a # <<>> THEN a ELSE b

\* Mutant: the configuration's port wins over the default and the explicit.
ConnectTargetOfConfig(spec, stanzas, loginName) ==
    LET options == OptionsFor(stanzas, spec.host)
        user == Or(IF spec.user = <<>> THEN <<>> ELSE <<spec.user>>,
                   Or(LastOf(Values(options, "user")), loginName))
    IN  IF user = <<>> THEN Invalid
        ELSE [kind |-> "target", user |-> user[1],
              host |-> Or(LastOf(Values(options, "hostname")), <<spec.host>>)[1],
              port |-> Or(LastOf(Ports(Values(options, "port"))), <<spec.port>>)[1],
              keys |-> Values(options, "identityfile")]

ConnectTarget(spec, stanzas, loginName) ==
    LET options == OptionsFor(stanzas, spec.host)
        user == Or(IF spec.user = <<>> THEN <<>> ELSE <<spec.user>>,
                   Or(LastOf(Values(options, "user")), loginName))
        port == IF spec.explicit THEN <<spec.port>>
                ELSE Or(LastOf(Ports(Values(options, "port"))), <<spec.port>>)
    IN  IF user = <<>> THEN Invalid
        ELSE [kind |-> "target", user |-> user[1], port |-> port[1],
              host |-> Or(LastOf(Values(options, "hostname")), <<spec.host>>)[1],
              keys |-> Values(options, "identityfile")]

=============================================================================
