------------------------------ MODULE Listing ------------------------------
(***************************************************************************)
(* The listing of a source, by find on the remote host or directory by     *)
(* directory, while others may change the tree that is listed, and the     *)
(* way back from a listed entry to the source it is read from.  A path     *)
(* below the source's root is a sequence of names, <<>> is the root.       *)
(***************************************************************************)
EXTENDS Integers, SequencesExt

CONSTANTS
    Names,      \* names in directories, and of the root itself
    Hidden,     \* those that begin with a dot
    Trees,      \* what can be below a root, or below what a link leads to
    MaxChanges, \* bound on what others change in a tree while it is listed
    MaxDepth    \* bound on the length of the paths they create

ASSUME ListingAssumption ==
    Names # {} /\ Hidden \subseteq Names /\ MaxChanges \in Nat /\ MaxDepth \in Nat

VARIABLES
    source,   \* what the client knows of the source
    tree,     \* what is below its root: from paths to kinds
    stack,    \* directories still to be read by walk_dir, <<>> when it is done
    out,      \* what is listed
    listing,  \* "none", "begun", "walking", "done" or "failed"
    stayed,   \* paths that have been in the tree all the time
    seen,     \* paths that have been in the tree at some time
    linked,   \* paths where others have made a link meanwhile
    changes

listingVars == <<source, tree, stack, out, listing, stayed, seen, linked, changes>>

\* What can be below a root: "other" are the special files.
Kinds == {"file", "dir", "link", "other"}

\* What is below a root: everything in it is in a directory.
IsTree(t) ==
    /\ t \in [DOMAIN t -> Kinds]
    /\ DOMAIN t \subseteq Seq(Names) \ {<<>>}
    /\ IsFiniteSet(DOMAIN t)
    /\ \A path \in DOMAIN t :
          Front(path) = <<>> \/ (Front(path) \in DOMAIN t /\ t[Front(path)] = "dir")

ASSUME TreesAssumption == \A t \in Trees : IsTree(t)

\* LocalFsRemote and SshRemote: the root's kind is that of lstat, star is
\* star_children_mode, base the last name of its path.
Sources == [remote : BOOLEAN, star : BOOLEAN, recursive : BOOLEAN,
            kind : {"file", "dir", "link"}, base : Names]

Entries == [full : Seq(Names), relative : Seq(Names), kind : {"file", "dir", "link"}]

IsDirIn(t, path) == path = <<>> \/ (path \in DOMAIN t /\ t[path] = "dir")
IsDir(path) == IsDirIn(tree, path)

ChildrenIn(t, dir) == {path \in DOMAIN t : path # <<>> /\ Front(path) = dir}
Children(dir) == ChildrenIn(tree, dir)

\* The directory is above the path.
Above(dir, path) == Len(dir) < Len(path) /\ SubSeq(path, 1, Len(dir)) = dir

\* entry_kind_from_metadata, entry_kind_from_perm: what is neither a
\* directory nor a link is taken for a file.
KindOf(kind) == IF kind = "other" THEN "file" ELSE kind

-----------------------------------------------------------------------------
(* Relative paths: what the destination and the rows of the state use.     *)

\* A local directory is listed with its name, any other one without.
Relative(src, path) ==
    IF ~src.remote /\ ~src.star THEN <<src.base>> \o path ELSE path

Entry(path, kind) ==
    [full |-> path, relative |-> Relative(source, path), kind |-> KindOf(kind)]

\* Mutant: the root's name is stripped when it is not there as well.
StripAlways(src, relative) ==
    IF src.kind # "dir" THEN <<>>
    ELSE IF ~src.remote /\ IsPrefix(<<src.base>>, relative) THEN Tail(relative)
    ELSE relative

\* remote_path_for and local_path_for: where an entry is read.
PathFor(src, relative) ==
    IF src.kind # "dir" THEN <<>>
    ELSE IF ~src.remote /\ ~src.star /\ IsPrefix(<<src.base>>, relative) THEN Tail(relative)
    ELSE relative

-----------------------------------------------------------------------------
ListingInit ==
    /\ source = [remote |-> FALSE, star |-> FALSE, recursive |-> FALSE, kind |-> "file",
                 base |-> CHOOSE n \in Names : TRUE]
    /\ tree = <<>>
    /\ stack = <<>>
    /\ out = {}
    /\ listing = "none"
    /\ stayed = {}
    /\ seen = {}
    /\ linked = {}
    /\ changes = 0

\* The client is connected to a source whose tree is t.
BeginListing(src, t) ==
    /\ listing = "none"
    /\ source' = src
    /\ tree' = IF src.kind = "dir" THEN t ELSE <<>>
    /\ stayed' = DOMAIN tree'
    /\ seen' = DOMAIN tree'
    /\ listing' = "begun"
    /\ UNCHANGED <<stack, out, linked, changes>>

\* collect_single_root_entry of a source that is no directory.
ListRoot ==
    /\ listing = "begun"
    /\ source.kind # "dir"
    /\ out' = {[full |-> <<>>, relative |-> <<source.base>>, kind |-> source.kind]}
    /\ listing' = "done"
    /\ UNCHANGED <<source, tree, stack, stayed, seen, linked, changes>>

\* stream_find_entries: the find of the remote host, taken as one reading
\* of the tree.  Special files and, for /*, what is hidden are left out.
ListByFind ==
    /\ listing = "begun"
    /\ source.kind = "dir"
    /\ source.remote
    /\ out' = {Entry(path, tree[path]) : path \in {p \in DOMAIN tree :
                  /\ source.recursive \/ Len(p) = 1
                  /\ tree[p] # "other"
                  /\ ~(source.star /\ p[1] \in Hidden)}}
    /\ listing' = "done"
    /\ UNCHANGED <<source, tree, stack, stayed, seen, linked, changes>>

\* walk_dir begins: always for a local source, for a remote one when find
\* failed.
BeginWalk ==
    /\ listing = "begun"
    /\ source.kind = "dir"
    /\ stack' = <<<<>>>>
    /\ out' = IF source.remote \/ source.star THEN {} ELSE {Entry(<<>>, "dir")}
    /\ listing' = "walking"
    /\ UNCHANGED <<source, tree, stayed, seen, linked, changes>>

\* Mutant: a directory read takes the place of what was still to be read.
ReadForgetful(found) ==
    LET below == {e.full : e \in {f \in found : source.recursive /\ f.kind = "dir"}}
    IN  /\ listing = "walking"
        /\ out' = out \cup found
        /\ \E order \in SetToSeqs(below) :
              stack' = IF below = {} THEN Front(stack) ELSE order
        /\ listing' = IF stack' = <<>> THEN "done" ELSE "walking"
        /\ UNCHANGED <<source, tree, stayed, seen, linked, changes>>

\* One iteration of walk_dir that finds these entries: the last path is popped,
\* and the directories among them are pushed, in the order of the names (local)
\* or in any.
Read(found) ==
    LET below == {e.full : e \in {f \in found : source.recursive /\ f.kind = "dir"}}
    IN  /\ listing = "walking"
        /\ out' = out \cup found
        /\ \E order \in SetToSeqs(below) : stack' = Front(stack) \o order
        /\ listing' = IF stack' = <<>> THEN "done" ELSE "walking"
        /\ UNCHANGED <<source, tree, stayed, seen, linked, changes>>

\* The path is that of a directory, as when it was pushed, ...
WalkDir ==
    LET dir == Last(stack)
    IN  /\ listing = "walking"
        /\ IsDir(dir)
        /\ Read({Entry(c, tree[c]) : c \in Children(dir)})

\* ... or leads through a link by now: read_dir and readdir follow it, and what
\* is listed below the path is that of some directory elsewhere.
WalkLink ==
    LET dir == Last(stack)
    IN  /\ listing = "walking"
        /\ \E n \in 1 .. Len(dir), t \in Trees :
             LET link == SubSeq(dir, 1, n)
                 at   == SubSeq(dir, n + 1, Len(dir))
             IN  /\ link \in DOMAIN tree /\ tree[link] = "link"
                 /\ IsDirIn(t, at)
                 /\ Read({Entry(Append(dir, Last(c)), t[c]) : c \in ChildrenIn(t, at)})

\* A path is no directory any more, nor leads to one, an entry is gone, something
\* cannot be read, or the connection is lost: the listing fails as a whole.
WalkFails ==
    /\ listing = "walking"
    /\ listing' = "failed"
    /\ UNCHANGED <<source, tree, stack, out, stayed, seen, linked, changes>>

\* Others remove a path with all below it, or create one.  The root stays.
RemovePath(path) ==
    LET gone == {p \in DOMAIN tree : IsPrefix(path, p)}
    IN  /\ listing \in {"begun", "walking"}
        /\ changes < MaxChanges
        /\ path \in DOMAIN tree
        /\ tree' = Restrict(tree, DOMAIN tree \ gone)
        /\ stayed' = stayed \ gone
        /\ changes' = changes + 1
        /\ UNCHANGED <<source, stack, out, listing, seen, linked>>

CreatePath(path, kind) ==
    /\ listing \in {"begun", "walking"}
    /\ changes < MaxChanges
    /\ source.kind = "dir"
    /\ path \notin DOMAIN tree
    /\ IsDir(Front(path))
    /\ tree' = [p \in DOMAIN tree \cup {path} |-> IF p = path THEN kind ELSE tree[p]]
    /\ seen' = seen \cup {path}
    /\ linked' = IF kind = "link" THEN linked \cup {path} ELSE linked
    /\ changes' = changes + 1
    /\ UNCHANGED <<source, stack, out, listing, stayed>>

ListingNext ==
    \/ ListRoot \/ ListByFind \/ BeginWalk \/ WalkDir \/ WalkLink \/ WalkFails
    \/ \E path \in DOMAIN tree : RemovePath(path)
    \/ \E dir \in {p \in DOMAIN tree \cup {<<>>} : Len(p) < MaxDepth}, n \in Names,
          kind \in {"file", "dir", "link"} : CreatePath(Append(dir, n), kind)

-----------------------------------------------------------------------------
ListingTypeOK ==
    /\ source \in Sources
    /\ IsTree(tree)
    /\ stack \in Seq(Seq(Names))
    /\ out \subseteq Entries
    /\ listing \in {"none", "begun", "walking", "done", "failed"}
    /\ stayed \subseteq DOMAIN tree /\ DOMAIN tree \subseteq seen
    /\ linked \subseteq seen
    /\ changes \in 0 .. MaxChanges

\* Directories that have been listed and where others have made a link.
Replaced == {q \in linked : \E e \in out : e.full = q /\ e.kind = "dir"}

\* Whatever is created and removed while the directories are read one after
\* the other, a listing that does not fail holds what was there all the time:
\* the run prunes the rows of all files that are not in it.  Left out are only
\* what find leaves out for /* and special files.  It holds nothing that never
\* was in the tree, but for what a link shows that has taken the place of a
\* directory listed before (walk_dir, stream_find_entries, parse_find_record).
ListsWhatStayed ==
    LET listed == {e.full : e \in out} \ {<<>>}
    IN  listing = "done" =>
          /\ \A p \in listed : p \in seen \/ \E q \in Replaced : Above(q, p)
          /\ \A p \in stayed : \/ p \in listed
                               \/ ~source.recursive /\ Len(p) > 1
                               \/ source.remote /\ tree[p] = "other"
                               \/ source.remote /\ source.star /\ p[1] \in Hidden

\* Each entry is read from the path it was listed for, and no two entries
\* share a relative path, which is the key of their rows and the name of
\* their destination: also when a directory holds one of its own name
\* (remote_path_for, local_path_for against walk_dir, connect).
ReadsWhatItListed ==
    \A e, f \in out :
        /\ PathFor(source, e.relative) = e.full
        /\ e.relative = f.relative => e.full = f.full

-----------------------------------------------------------------------------
(* The inductive invariant behind them.                                    *)

Listed == {e.full : e \in out} \ {<<>>}

\* Nothing is listed before the listing begins, and below what is no directory.
Unlisted ==
    /\ listing \in {"none", "begun"} => out = {}
    /\ listing = "none" => linked = {}
    /\ source.kind # "dir" => DOMAIN tree = {} /\ listing # "walking"
    /\ listing = "walking" => stack # <<>>

\* What has stayed and is not listed is below a directory still to be read.
Pending ==
    listing = "walking" =>
        \A p \in stayed : \/ p \in Listed
                          \/ ~source.recursive /\ Len(p) > 1
                          \/ \E k \in DOMAIN stack : Above(stack[k], p)

\* An entry is keyed by where it was found.
Keyed ==
    \A e \in out : IF source.kind = "dir" THEN e.relative = Relative(source, e.full)
                                          ELSE e.full = <<>>

\* What is listed was in the tree, or is below what a link has replaced.
WasThere == \A p \in Listed : p \in seen \/ \E q \in Replaced : Above(q, p)

\* Each directory on the way to one still to be read has been listed as such;
\* if it is a link now, that has been made since.
OnStack ==
    \A k \in DOMAIN stack : \A n \in 1 .. Len(stack[k]) :
        \E e \in out : e.full = SubSeq(stack[k], 1, n) /\ e.kind = "dir"
LinksAreNew ==
    \A e \in out : e.kind = "dir" /\ e.full \in DOMAIN tree /\ tree[e.full] = "link" =>
        e.full \in linked

ListingInv ==
    /\ ListingTypeOK
    /\ Unlisted
    /\ WasThere
    /\ OnStack
    /\ LinksAreNew
    /\ Pending
    /\ Keyed
    /\ ListsWhatStayed

=============================================================================
