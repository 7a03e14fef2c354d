------------------------------ MODULE Startup ------------------------------
(***************************************************************************)
(* What a process does before it plans a transfer: run_sync resolves each  *)
(* setting from the command line, the environment, the configuration file  *)
(* and its default, reads the source argument, resolves the ssh host and   *)
(* lists the source.  Settings are resolved independently of one another,  *)
(* so a behaviour follows one of them.                                     *)
(***************************************************************************)
EXTENDS SshConfig, Listing

CONSTANTS
    Numbers,        \* values of numbers, texts and addresses (those as indices)
    Default,        \* the default of a number
    Malformed,      \* a text of the environment that is no value
    SmallestBlock,  \* smallest block of a delta
    Texts,          \* source arguments
    Users, Hosts, PortTexts, Paths,  \* parts of [user@]host[:port]:path
    Configs,        \* what the files of the ssh configuration hold
    LoginNames      \* the environment's USER, <<>> when it is not set

ASSUME StartupAssumption ==
    /\ Numbers \subseteq Nat /\ Default \in Numbers \ {0}
    /\ SmallestBlock \in Nat \ {0} /\ Malformed \notin Numbers \cup {0, 1, 2}
    /\ \A s \in Texts \cup Users \cup Hosts \cup PortTexts \cup Paths : IsText(s)
    /\ \A config \in Configs : IsConfig(config)

\* Characters with a meaning of their own in a source argument, which are
\* none of a user's, a host's or a port's.
Reserved == {"@", ":", "/", "\\", "~", "*", "?", "[", "]"}

ASSUME WrittenAssumption ==
    /\ \A name \in Users \cup Hosts : name # <<>> /\ \A i \in DOMAIN name : name[i] \notin Reserved
    /\ \A port \in PortTexts : IsNumber(port)
    /\ \A path \in Paths : path # <<>>
    /\ DOMAIN Digits \cap Reserved = {}

VARIABLES
    stage,    \* "started", "configured", "parsed", "resolved", "connected", "failed"
    setting,  \* the setting the behaviour follows, and who gives what for it
    written,  \* the parts the source argument was put together from
    spec,     \* the SourceSpec
    files,    \* what the files of the ssh configuration hold
    target    \* the ConnectTarget

vars == <<stage, setting, written, spec, files, target, listingVars>>

None == [kind |-> "none"]

-----------------------------------------------------------------------------
(* Settings.  What a layer gives is <<>> or the sequence of its value; of  *)
(* flags 0 is false and 1 is true.                                         *)

\* Options of a number, of anything without a bound, and without a default.
Number(floor, default) ==
    [range |-> Numbers, floor |-> floor, default |-> default, flag |-> Numbers]

\* A flag, with what the command line can say.
Flag(default, flag) ==
    [range |-> {0, 1}, floor |-> 0, default |-> <<default>>, flag |-> flag]

\* ResolvedConfig.  The block size is the one choose_block_size uses, which
\* depends on the file when none is given; the modes of RDMA are 0 for off
\* (also --no-rdma), 1 for auto and 2 for require.
Settings ==
    [ jobs |-> Number(1, <<Default>>), chunk_size |-> Number(1, <<Default>>),
      chunk_threshold |-> Number(1, <<Default>>), retries |-> Number(1, <<Default>>),
      resume |-> Flag(1, {0, 1}), state_dir |-> Number(0, <<>>),
      delta_enabled |-> Flag(0, {1}), delta_min_size |-> Number(1, <<Default>>),
      delta_block_size |-> Number(SmallestBlock, <<>>),
      delta_max_literals |-> Number(0, <<Default>>), delta_helper |-> Number(0, <<Default>>),
      delta_fallback |-> Flag(1, {0}), strict_durability |-> Flag(0, {1}),
      verify_existing |-> Flag(0, {1}), sftp_read_concurrency |-> Number(1, <<Default>>),
      sftp_read_chunk_size |-> Number(1, <<Default>>),
      rdma_mode |-> [Flag(1, 0 .. 2) EXCEPT !.range = 0 .. 2],
      rdma_bind |-> Number(0, <<>>), rdma_min_size |-> Number(0, <<Default>>),
      rdma_helper |-> Number(0, <<Default>>), strict_windows_metadata |-> Flag(0, {1}) ]

\* Settings whose text of the environment is their value as it stands.
Plain == {"state_dir", "delta_helper", "rdma_helper"}

Given(values) == {<<>>} \cup {<<v>> : v \in values}

\* env_parse: what does not parse is as good as not there.
FromEnv(env) == IF env = <<Malformed>> THEN <<>> ELSE env

\* Mutant: what the configuration file gives is taken as it is.
ResolveUnclamped(s, cli, env, file) ==
    LET given == Or(cli, FromEnv(env))
    IN  IF given # <<>> THEN <<Max({given[1], Settings[s].floor})>>
        ELSE Or(file, Settings[s].default)

\* ResolvedConfig::from_cli, for one setting.
Resolve(s, cli, env, file) ==
    LET value == Or(cli, Or(FromEnv(env), Or(file, Settings[s].default)))
    IN  IF value = <<>> THEN <<>> ELSE <<Max({value[1], Settings[s].floor})>>

-----------------------------------------------------------------------------
Init ==
    /\ stage = "started"
    /\ setting = None
    /\ written = None
    /\ spec = None
    /\ files = None
    /\ target = None
    /\ ListingInit

Configure(s, cli, env, file) ==
    /\ stage = "started"
    /\ setting' = [kind |-> "setting", name |-> s, cli |-> cli,
                   value |-> Resolve(s, cli, env, file)]
    /\ stage' = "configured"
    /\ UNCHANGED <<written, spec, files, target, listingVars>>

\* load_file_config: a configuration file that is there and cannot be read
\* or does not parse ends the process, whatever the command line gives.
ConfigFileBroken ==
    /\ stage = "started"
    /\ stage' = "failed"
    /\ UNCHANGED <<setting, written, spec, files, target, listingVars>>

ParseAs(parsed) ==
    /\ stage = "configured"
    /\ spec' = parsed
    /\ stage' = IF parsed = Invalid THEN "failed" ELSE "parsed"
    /\ setting' = None

\* The source argument is any text, and there is what is in the local file
\* system under its path.
Parse(text, there) ==
    /\ ParseAs(ParseSource(text, there))
    /\ UNCHANGED <<written, files, target, listingVars>>

Format(w) ==
    (IF w.user = <<>> THEN <<>> ELSE Append(w.user, "@")) \o Append(w.host, ":")
    \o (IF w.port = <<>> THEN <<>> ELSE Append(w.port, ":")) \o w.path

\* It is a remote source someone wrote down, and no local path.
ParseWritten(w) ==
    /\ ParseAs(ParseSource(Format(w), "nothing"))
    /\ written' = w
    /\ UNCHANGED <<files, target, listingVars>>

\* SshRemote::connect begins with resolve_connect_target.
ResolveTarget(config, loginName) ==
    LET resolved == ConnectTarget(spec, Loaded(config), loginName)
    IN  /\ stage = "parsed"
        /\ spec.kind = "remote"
        /\ files' = config
        /\ target' = resolved
        /\ stage' = IF resolved = Invalid THEN "failed" ELSE "resolved"
        /\ spec' = [spec EXCEPT !.path = <<>>]
        /\ written' = None
        /\ UNCHANGED <<setting, listingVars>>

\* The connection is open, or the local source is there, and its root's
\* kind is known.  A local /* was checked to be a directory, or a link to
\* one.
Connect(src, t) ==
    /\ \/ stage = "resolved" /\ src.remote
       \/ stage = "parsed" /\ spec.kind = "local" /\ ~src.remote
          /\ (spec.star => src.kind # "file")
    /\ src.star = spec.star
    /\ BeginListing(src, t)
    /\ stage' = "connected"
    /\ spec' = None
    /\ files' = None
    /\ target' = None
    /\ UNCHANGED <<setting, written>>

\* No connection, or nothing under the path.
ConnectFails ==
    /\ stage = "resolved" \/ (stage = "parsed" /\ spec.kind = "local")
    /\ stage' = "failed"
    /\ UNCHANGED <<setting, written, spec, files, target, listingVars>>

List ==
    /\ stage = "connected"
    /\ ListingNext
    /\ UNCHANGED <<stage, setting, written, spec, files, target>>

Next ==
    \/ \E s \in DOMAIN Settings : \E cli \in Given(Settings[s].flag),
          env \in Given(Settings[s].range \cup (IF s \in Plain THEN {} ELSE {Malformed})),
          file \in Given(Settings[s].range) : Configure(s, cli, env, file)
    \/ ConfigFileBroken
    \/ \E text \in Texts, there \in {"nothing", "file", "dir"} : Parse(text, there)
    \/ \E w \in [kind : {"written"}, user : Users \cup {<<>>}, host : Hosts,
                 port : PortTexts \cup {<<>>}, path : Paths] : ParseWritten(w)
    \/ \E config \in Configs, loginName \in LoginNames : ResolveTarget(config, loginName)
    \/ \E src \in Sources, t \in Trees : Connect(src, t)
    \/ ConnectFails
    \/ List

Spec == Init /\ [][Next]_vars

-----------------------------------------------------------------------------
\* The type invariant.  What is resolved is what the parts of the program
\* assume of their options: no count, chunk or block is empty, however an
\* option is given (ResolvedConfig::from_cli, choose_block_size).
TypeOK ==
    /\ stage \in {"started", "configured", "parsed", "resolved", "connected", "failed"}
    /\ setting.kind # "none" =>
          \A v \in Range(setting.value) :
              v \in Settings[setting.name].range \cup {Settings[setting.name].floor}
              /\ v >= Settings[setting.name].floor
    /\ spec.kind \in {"none", "local", "remote", "invalid"}
    /\ spec.kind = "remote" => spec.host # <<>> /\ spec.port \in 0 .. MaxPort
    /\ target.kind \in {"none", "target", "invalid"}
    /\ ListingTypeOK

\* What the command line says is not undone by what is read after it: by
\* the environment or the configuration file for a setting (up to its
\* smallest value), by the ssh configuration, wherever its stanzas come
\* from, for the user and the port of the source argument
\* (ResolvedConfig::from_cli, resolve_connect_target).
CommandLineDecides ==
    /\ setting.kind = "setting" /\ setting.cli # <<>> =>
          setting.value[1] \in {setting.cli[1], Settings[setting.name].floor}
    /\ target.kind = "target" =>
          /\ spec.user # <<>> => target.user = spec.user
          /\ spec.explicit => target.port = spec.port

\* Sources that cannot be written so: the @ of a path is taken for that of
\* a user, one letter before :/ for a Windows drive, digits at the beginning
\* of a path for a port.
Ambiguous(w) ==
    \/ w.user = <<>> /\ Has(w.path, "@")
    \/ w.user = <<>> /\ w.port = <<>> /\ Len(w.host) = 1 /\ w.path[1] \in {"/", "\\"}
    \/ w.port = <<>> /\ IsNumber(BeforeCut(w.path, ":"))

\* A remote source put together from a user, a host, a port and a path, as
\* the usage says, is read as these: whatever colons, digits and letters
\* its path holds, and but for the sources that are ambiguous
\* (parse_source_spec, RemoteSpec::parse).
ParsesBack ==
    written.kind = "written" /\ ~Ambiguous(written) =>
        spec = IF ~ValidPath(written.path) \/ (written.port # <<>> /\ NumberOf(written.port) > MaxPort)
               THEN Invalid
               ELSE [kind |-> "remote", user |-> written.user, host |-> written.host,
                     explicit |-> written.port # <<>>,
                     port |-> IF written.port = <<>> THEN 22 ELSE NumberOf(written.port),
                     path |-> Normalized(written.path), star |-> Star(written.path)]

\* The user's file is one of them, and what one of them includes is.
Closed(config, names) ==
    /\ UserConfig \in DOMAIN config => UserConfig \in names
    /\ \A f \in names : config[f] # Unreadable =>
          \A i \in DOMAIN config[f] :
              config[f][i].key = "include" => Range(config[f][i].value) \subseteq names

\* Files that are to be read, along whatever way they are included.
Reached(config) ==
    {f \in DOMAIN config :
        \A names \in SUBSET DOMAIN config : Closed(config, names) => f \in names}

\* The patterns a line stands under: those of the last Host line before it.
Governing(lines, i) ==
    LET hosts == {j \in 1 .. i - 1 : lines[j].key = "host"}
    IN  IF hosts = {} THEN {<<"*">>} ELSE lines[Max(hosts)].value

\* The lines of a file that give a key for a host.
Offers(lines, host) ==
    {i \in DOMAIN lines :
        LET patterns == Governing(lines, i)
        IN  /\ lines[i].key = "identityfile"
            /\ \E p \in patterns : p[1] # "!" /\ Denotes(p, host)
            /\ \A p \in patterns : p[1] = "!" => ~Denotes(Tail(p), host)}

\* The keys of a configuration for a host: a file and a line of it each.
Offered(config, host) ==
    IF \E f \in Reached(config) : config[f] = Unreadable THEN {}
    ELSE UNION {{f} \X Offers(config[f], host) : f \in Reached(config)}

\* The keys tried for a host are those of all files that are read, each as
\* often as it is written there though files may include each other, from
\* the lines whose patterns stand for the host and no negated one does; and
\* none at all when one of the files cannot be read.  No host has a * in its
\* name, which glob_match would take for that of a pattern
\* (load_ssh_config_path, parse_ssh_config, matches_host_patterns, glob_match).
IdentitiesOffered ==
    LET keys == Offered(files, spec.host)
    IN  target.kind = "target" /\ ~Has(spec.host, "*") =>
          /\ Len(target.keys) = Cardinality(keys)
          /\ Range(target.keys) = {files[k[1]][k[2]].value : k \in keys}

-----------------------------------------------------------------------------
(* The inductive invariant behind the types, the listing, what the command *)
(* line decides, what a source is read as and which keys are offered.      *)

\* What is resolved is of the remote source, until it is connected to.
TargetFits ==
    /\ spec.kind = "remote" =>
          {"kind", "user", "host", "explicit", "port"} \subseteq DOMAIN spec /\ IsText(spec.host)
    /\ stage \in {"started", "configured", "parsed"} => target.kind = "none"

\* A source argument is written once, and forgotten when it is resolved.
WrittenFits == stage \in {"started", "configured", "resolved"} => written.kind = "none"

IInv ==
    /\ TypeOK
    /\ CommandLineDecides
    /\ ParsesBack
    /\ IdentitiesOffered
    /\ TargetFits
    /\ WrittenFits
    /\ ListingInv

=============================================================================
