# parsync in TLA+

A model of parsync (`src/` of the repository; paths below are relative to
`src/src/`), the model-checking runs that exercise it, and machine-checked
proofs of what matters most.  `PROJECT.json` lists, in machine-readable form, the
components, the runs, a mutant for each property, the source lines each
definition stands for, the hazards and the theorems.

## 1. The system

parsync copies a tree from an SSH remote, or from a local directory, to a local
destination.  A run lists the source, takes a lock on the destination, decides
file by file what to transfer, transfers with several worker threads, and cleans
up.  What survives a run that failed or died is the directory
`.parsync/` at the destination: a SQLite database, partial files, a lock file.

| component | state | operations | talks to |
|---|---|---|---|
| start (`main.rs`, `cli.rs`, `config.rs`, `sync.rs` `run_sync`) | settings | resolve each setting, read the source argument, connect | command line, environment, configuration files |
| run (`sync.rs` `run_sync_with_client`) | queue of jobs, errors, interrupt flag, the flag that disables RDMA | list, plan, work, apply metadata, finish, clean up | everything |
| file transfer (`sync.rs` `transfer_one`, `try_rdma_transfer`, `try_fast_copy_transfer`, `transfer_one_delta`) | destination and partial file | choose a route, copy, check, rename, stamp | state store, remote, RDMA, delta |
| state store (`state.rs` `StateStore`) | rows `files`, `file_chunks`, `delta_sessions` | upsert, mark chunks, reset, mark finished, clear, prune; each SQL statement commits by itself | the database |
| destination lock (`state.rs` `acquire_destination_lock`) | the lock file with a pid | create, recover from a dead owner, drop | other processes |
| connection pool (`remote.rs` `ConnectionPool`) | idle connections, how many were created | checkout, checkin; `read_range` replaces a broken one | the workers, the SSH server |
| RDMA copy (`remote.rs` `try_rdma_copy`, `rdma.rs`) | receiver thread, cancel flag, data connection | receive to the partial file; the helper on the source host sends | helper process, pool |
| delta (`delta/*.rs`, `remote_helper.rs`) | signature, plan, output | sign the basis, match, patch, verify | helper process, or a Python script in its place |
| source argument and ssh target (`remote.rs` `parse_source_spec`, `resolve_connect_target`) | `~/.ssh/config` and what it includes | parse, match hosts, merge | file system |
| remote and local source (`remote.rs`) | open SFTP handle per connection | list, stat, read range, metadata | SSH server, file system |
| metadata, progress display, hashing, scripts | | | |

What is hard here, and where:

* **Crashes between two steps.** `upsert_file`, `reset_progress` and `clear_all`
  are several transactions; renaming, stamping the mtime and marking the row are
  three steps; so a process can leave a row that says more than the disk holds.
* **Stale knowledge.** A row or a chunk is believed in a later run, when the
  destination or the partial file may have gone; the source changes under a
  transfer; a connection keeps an old file handle; the basis of a delta changes;
  the destination still has what an entry was before its kind changed.
* **Interleaving.** Workers share the pool, the error list and the RDMA flag;
  signals come at any time; the source changes while it is listed; processes share the lock and the
  state directory; receiver thread, client and helper of an RDMA copy race with
  timeouts and a cancel flag.
* **Layers and corners of input.** A setting has four sources; a source argument
  has colons, digits and `@` in places where they mean different things; files of
  the ssh configuration include each other.
* **Long sequences.** Runs with different options (`--no-resume`, `--dry-run`,
  `--strict-durability`, RDMA or not) follow each other on the same state.

The properties that make each part correct: the destination never shows bytes
nobody wrote; a file reported as synced is; strict runs do not mix versions;
`--no-resume` owes nothing to the past; repeated runs converge; one process works
on a destination at a time and a lone process gets its lock; the pool's count is
exact, no wake-up is lost, reads heal it; an RDMA copy is whole or unavailable and
always ends; a delta finds every block and puts in place what its planner read of the
source, nothing else;
a run that succeeds has done what it was asked for every entry, one that fails had
a reason; nothing is written through a link; a listing has whatever was there all
the time, and is read from where it was found; what the command line says is what happens.
The hazards in `PROJECT.json` name the line where each could go wrong.

## 2. Modules

| module | models |
|---|---|
| `TreeSync` | a run over a whole tree, repeated: signals, listing, planning, workers, end |
| `FileSync` | one file over many runs and processes: planning, the RDMA, fast-copy, delta and chunked routes, the row and its chunks, the partial file, the end of a run |
| `Mirror` | abstract: what the destination of one file goes through; implemented by `FileSync`, and by each file of `TreeSync` |
| `Startup` | what happens before a run: settings, source argument, ssh target, listing |
| `SourceSpec`, `SshConfig` | `parse_source_spec` character by character; the ssh configuration and the target it gives (operators, used by `Startup`) |
| `Listing` | the listing of a source that changes meanwhile, and where its entries are read from (used by `Startup`) |
| `DestinationLock` | processes on one destination: lock file, recovery, drop and removal of the state directory |
| `ConnectionPool` | workers, the pool's mutex and condition variable, broken connections, the server's ups and downs |
| `RdmaContract` | abstract: what `try_rdma_copy` promises its caller |
| `RdmaCopy` | `try_rdma_copy`, the receiver thread, the helper, the packets; implements `RdmaContract` |
| `DeltaTransfer` | signature, rolling checksum, matcher, patch, digest; the Python script as an operator |
| `..._proofs` | theorems about `FileSync`, `TreeSync`, `ConnectionPool`, `DestinationLock`, `RdmaCopy`, `DeltaTransfer` and `Startup`, and their proofs |
| `Induction` | induction over numbers for sets, that what is computed step by step from a first value is a function, and that a recursion which reaches only lesser ranks defines one; the proofs rest on them |
| `MC...` | constants for TLC |

How they fit together: `Startup` ends where `TreeSync` begins, with the list of
entries.  A step `Copy` of `TreeSync` is a whole life of `FileSync`; what it may
take for granted of it is `Mirror`, which `FileSync` is shown to implement, and
`TreeSync` is shown to keep the promise of `Mirror` for the tree's files.  The RDMA
actions of `FileSync` rest on `RdmaContract` in the same way, and its delta actions
(`DeltaPlanned`, `DeltaApply`, `DeltaCheck`) on what `delta` shows of
`DeltaTransfer`: a plan followed on an unchanged basis gives the bytes the planner has
read, and any other result is refused by the digest.  `DeltaTransfer` takes those bytes
as given; how they come about while the source changes is in `FileSync` (`DeltaRead`).

### TreeSync

*State.* `src` counts the states the source goes through, `dest` is the tree at the
destination, a function from paths to nodes (kind, version, mtime, mode); `part`
the version in each partial file; `phase`, `opt`, `seen` (the listed tree), `at` (how
far each path is), `flag`, `signals`, `disabled` belong to the process.  Paths are
numbered as the sorted list has them, so that planning in order of the list is
planning in order of the numbers.

*Actions.* `Start` installs the handlers and `ClearFlag` clears the flag: a signal
between the two is forgotten.  `ListEntries`; `PlanDir`, `SkipLink`, `PlanUnlink`,
`PlanLink`, `PlanFile` are an iteration of the planning loop by kind, `PlanRefused`
what `validate_destination_path`, a missing write permission or an interrupt makes of
it.  `Begin`, `RdmaUnavailable`, `RdmaDeclined`, `Copy`, `CopyGivesUp`, `Place`, `Stamp`,
`Finish`, `JobFails` are the steps of a job, taken by up to `Jobs` workers in any
order; `WorkDone` looks at the errors, `Cleanup` removes the state directory.
`Interrupt`, `Kill`, `RunBreaks` and `SourceChange` are the environment.  The listing
is one step here (`Listing` has its interleavings); the user is not root, so that
a directory without write permission keeps files out of it.  `hurt` is history: an
error, a signal or a change of the source hit this run.

### Mirror

The destination of one file is replaced in one step by something read from the
source in full and nowhere older than what it replaces, and gets a version's mtime
only when no part of it is older than that version: what `should_transfer` believes
in later runs.  It does not say that a file is of one version; without
`--strict-durability` the code does not promise it.

### Startup, SourceSpec, SshConfig, Listing

A behaviour of `Startup` follows one setting through its four layers, since they
are resolved one independently of the other, then one source argument, one ssh
configuration, and one listing.  Strings are sequences of characters.  A
configuration is a function from file names to lines; `GlobMatch` is `glob_match`, a
recursive function over the positions of its loop (`Scans`), `Denotes` what a pattern
means.  The two say the same of every host without a `*` in its name
(`GlobMatchesDenoted`); a `*` in the text the loop takes for a literal first, and may
then refuse what the pattern stands for, so that `IdentitiesOffered` is about hosts
without one.  `LoadPath` is `load_ssh_config_path`, a recursive function of a file and of
how far the files are loaded, the set of visited files among it; `IdentitiesOffered`
speaks of the files that are reached in words of its own: they are the least set that
has the user's file and all its files include (`Closed`, `Reached`).  In `Listing`,
`walk_dir` takes one path at a time off a stack (`Read`) while `RemovePath` and
`CreatePath` change the tree below the root; `find` is one reading.  A path on the stack
is read whatever it is by then.  While it is still a directory, its children are found
(`WalkDir`).  If it, or a directory above it, has become a link, `read_dir` and `readdir`
follow it (`remote.rs` 358, 588), and what is found is that of some tree elsewhere
(`WalkLink`, which may end in any of `Trees`): it is listed below the path, where it
never was.  If it is neither, the listing fails (`WalkFails`).  An Include pattern that
is no valid glob (`remote.rs` 2104) drops the configuration as an unreadable file does,
and is modelled as one.

### FileSync

*State.* `src` is the version the source has, `dest` and `part` the two files,
`row` the rows of the file in `files` and `file_chunks`; `pc`, `opt`, `seen`,
`route`, `attempt`, `todo` belong to the process that runs: its place, its
options, the version its listing saw, the route, `change_retry`, and the chunks
it has still to copy.  A file is a sequence of units; a unit holds the version it
was read from, `Hole` for bytes `set_len` allocated and nobody wrote, or `Edited`.
A digest is the content.

*Actions* follow the code in its order; each SQL statement and each file
operation is an action, because a process may stop between any two (`Abort`, at
the points of the constant `AbortPoints`).  `StartRun`, `ForgetChunks`,
`ForgetRow`, `Plan` are the start of a run; `StartUnlisted`, `PruneRow`, `PrunePart` one
that does not find the file in its listing (the constant `MayBeUnlisted`) and so removes
what is known of it, the row before the partial file; `SkipRdma`, `RdmaUnsupported`,
`StartRdma`, `FastCopy`, `SkipFastCopy` choose the route; `UpsertRow`,
`ClearChunks`, `ClearFlags` are `upsert_file`; `RdmaDrop`, `RdmaOpen`,
`RdmaPacket`, `RdmaCopied`, `RdmaUnavailable` the RDMA route; `BeginAttempt`,
`SizeChanged`, `OpenPart`, `ReadChunk`, `ShortRead`, `ReadDone`, `MarkChunks` the
chunked one; `DeltaSign`, `DeltaRead`, `DeltaScript`, `DeltaPlanned`,
`DeltaOpen`, `DeltaApply`, `DeltaCheck`, `DeltaDrop`, `LeaveDelta` and their failures the delta
route, with its fallback to the chunked one; `Check`, `DropPart`, `ResetChunks`, `ResetFlags` the change check;
`Rename`, `ApplyMtime`, `DestGone`, `MarkFinished` put the file in place;
`RunFailed`, `RunSucceeded`, `RemoveState`, `StateRemoved` end the run.  Other
files of the run appear as choices: a run may fail because of them, and any of
them may disable RDMA for the run.

The planner of a delta, like the chunked copy and the RDMA helper, reads the source
unit by unit (`DeltaRead`), and the source may change between two units.  The helper, and
the client for a local source, stat the source after the reading (`remote_helper.rs` 23,
25); the script, which takes over and begins anew when the command of the helper
cannot be run (`DeltaScript`), repeats the mtime it was asked for (`remote.rs` 511).  `DeltaPlanned`
compares the plan's size and mtime with the listed ones as `sync.rs` 1288 does, and
`DeltaCheck` the digest of what has been read: it says nothing of the source at any one time.

### DestinationLock

Every system call of `acquire_destination_lock` is an action; `lock` says whose
file is at the path, `inked` who has written a pid into his.  `Serial` restricts
the model to processes that do not overlap while they acquire or clean up; what
happens without that restriction is finding 4 and trace e below.

### ConnectionPool

A critical section of the mutex is an action; connecting and using a connection
happen between them.  `NotifyAndGo` is `notify_one`, `SpuriousWakeup` what a
condition variable may do.  `Break`, `ServerDown`, `ServerUp` are the faults.

### RdmaContract and RdmaCopy

`RdmaContract` is what `FileSync` takes for granted in its four RDMA actions: the
partial file is made anew, grows from the front by what this call's own helper
reads, is whole when the call returns `Copied`, and is not touched after the call
has returned.  `RdmaCopy` has the three parties of each call: the client
(`Call`, `Exec`, `ExecReturns`, `ExecFails`, `ReportGarbled`, `Join`), the receiver thread
(`OpenPart`, `Accept`, `Receive` with its four kinds of packet, `TimesOut`,
`Cancelled`, `PeerCloses`) and the helper (`StatSource`, `Connect`, `SendUnit`,
`SendDone`, and its failures).  A connection is a bounded sequence of packets.  A
helper whose SSH channel broke goes on; if its own receiver has ended, it may
reach any other receiver, since ports are given out again.  The refinement maps
`client` to `phase` and `part` to itself.

A packet carries one unit and is received whole: a connection that ends inside a
packet is `PeerCloses`.  Sizes of payloads against `chunk_size`, magic and version
are not modelled, since both ends are the same program with the same constant.

### DeltaTransfer

One transfer, byte by byte, from the signature of the basis to the digest.  The
matcher's loop is three actions (`MatchBlock`, `Slide`, `MatchedAll`) on its own
variables `i`, `literalStart`, `rolling`, `ops`.  The strong hash is the bytes
themselves; the weak hash is computed as in the code with a small modulus, so
that different windows collide.  The owner of the destination may edit the basis
between the two times it is read, and `File::read` may return less than asked.
`FallbackOps` is the matcher of the Python script.  `start_op_index` is 0 in the
model as it is in the code: `upsert_delta_session` resets the session just
before it is read (`sync.rs` 1261 and 1297), so an interrupted patch is never
resumed.

## 3. Runs

| run | instance | shows |
|---|---|---|
| `tree_sync` | five paths (a hidden entry that turns from file to link, a directory with a file and a link, a file beside it), three destinations to begin with, four sets of options, 2 workers, 2 faults | `TypeOK`, `NothingThroughLinks`, `SuccessMeansSynced`, `FailsForAReason`, `RdmaProbes`, `EventuallyMirrored`, `FilesKeepPromise` |
| `file_safe` | 3 versions of the source (the third of another size), 12 sets of options in any order, runs that list the file and runs that do not, 2 processes stopped, anywhere but in a window | `TypeOK`, `IInv`, `NoHoles`, `SyncedMeansCurrent`, `StrictSingleVersion`, `KeepsPromise`, `EventuallyCurrent` |
| `file_fresh` | 2 versions, 2 processes stopped *everywhere*, the owner edits or deletes the destination | `NoResumeIsClean`, `DeltaFromSource` |
| `file_deleted_dest` | the owner deletes the destination once | violates `NoHoles` (finding 1) |
| `file_torn_upsert` | a process stops inside `upsert_file` | violates `SyncedMeansCurrent` (finding 2) |
| `file_dry_run` | a dry run after an interrupted one | violates `DryRunKeepsDisk` (finding 3) |
| `startup` | 21 settings with each value in each layer; every argument of up to three of eight characters, every source of some users, hosts, ports and paths; every pattern of up to three characters; three configuration files that include each other in all ways; four trees, with two changes that remove, or create a file, a directory or a link | `TypeOK`, `CommandLineDecides`, `ParsesBack`, `IdentitiesOffered`, `ListsWhatStayed`, `ReadsWhatItListed` |
| `pool_safe` | 3 workers, 2 connections, 1 fault, reads and other calls without end | `TypeOK`, `Accounted`, `NoLostWakeup`, `AllServed`, `ReadsHeal` |
| `lock_serial` | 4 processes, `Serial`, killed anywhere but at `write` | `TypeOK`, `MutualExclusion`, `HolderKeepsLock`, `AloneGetsLock` |
| `lock_stale_race` | 3 processes, free | violates `MutualExclusion` (finding 4) |
| `rdma_copy` | 2 calls at once, 2 units, 3 packets per connection, 2 faults | `TypeOK`, `ImplementsContract`, `EverythingEnds` |
| `delta` | every basis of 0, 2, 3 or 6 and every source of 0, 2, 4 or 7 bytes over two bytes, blocks of 3, modulus 3, one edit or short read | `TypeOK`, `RollingIsWeakHash`, `NoBlockMissed`, `FallbackAgrees`, `UndisturbedFits` |

*Why the bounds suffice.*  A file of two units has one chunk or two, so a partial
file can be half written and can mix versions; three versions give a change
before, during and after a run, and a change of size; two stopped processes give
a recovery from a recovery.  In `tree_sync` two workers and three files put one
job behind another and two side by side; two faults give a signal in a run after
a killed one, or a second signal; two states of the source give a change of kind, of
mode and of content; the destinations to begin with are empty, have a link where a
directory comes, or have a directory where a file comes and a read-only one.  In
`startup` three characters are enough for a user, a host or a path that ends in
each kind of separator, and for a pattern with two stars; ports 0, 7 and 77 lie on
both sides of `MaxPort` = 50; numbers 0 to 3 on both sides of each smallest value.
Two changes move an entry from a directory still to be read to one already read, or put
a link in the place of a directory that is listed and still to be read.
Three workers on two connections have one that waits while two others fail or
return, and the server may go down and come up as often as it likes.  Four processes give a dead owner, a recoverer, a holder
and a newcomer.  In `rdma_copy`, two faults let a helper lose its SSH channel and then
stall in front of another receiver, and three packets are all of a file, so that
a sender can succeed although nobody reads.  In `delta`, six bytes are two whole
blocks, which may be equal; two and zero bytes are a basis that is all tail or
empty; the windows 000 and 222 have the same weak hash; seven bytes of source
allow two matches with a literal before, between or after them.

*Fairness.*  `file_safe`: a process that runs goes on (weak fairness of `Step`), and
somebody starts parsync again and again, now and then with options that transfer
(`Productive`; strong fairness of such a `StartRun`, since other starts may come
between); `EventuallyCurrent` needs that the source stays as it is, which its own
hypothesis says.  `tree_sync`: the process goes on, its workers are served and the
command is run again (`WF_vars(Proceed)`); no fairness for errors, signals or the
source, which are bounded.  `pool_safe`: weak fairness of each worker's step,
which is the scheduler's; none for faults, spurious wake-ups or the server.
`rdma_copy`: weak fairness of each thread and of the helper, but for no step that is
a fault; the receiver's timeouts are steps of the receiver, which justifies that a
wait ends.

*Deadlock* is checked in `tree_sync` and the file runs.  In the others the system
does stop: the source is listed, the workers have made their calls, each process
and each copy takes part once.

## 4. Findings

1. `file_deleted_dest`: nothing crashes.  A file is transferred, another file of
   the run fails, so the state is kept.  The owner deletes the destination.  The
   next run plans the file (no destination), finds its row unchanged with all
   chunks complete (`sync.rs` 736), makes an empty partial file, allocates it to
   full size, reads nothing and renames zeros into place.
2. `file_torn_upsert`: a process dies in `upsert_file` after its first statement.
   The row has the new version's size and mtime and the old one's finished flag;
   the next run skips the file.
3. `file_dry_run`: a dry run removes the state directory like any successful run,
   and the partial files of an interrupted run with it.
4. `lock_stale_race`: A reads a dead pid and probes it; B recovers the lock and
   works; A removes the lock at the path, which is B's, and works too.

Further traces TLC finds when a run's restriction is lifted; the hazards refer to
them.

* a. `AbortPoints` with `"stamp"`: a process dies after the rename, before the
  mtime.  The destination has the time of the copy, the row its chunks.  The next
  run sees another mtime and an unfinished row, opens a new partial file, finds
  all chunks complete and renames zeros over the good file.
* b. `AbortPoints` with `"rdma_open"` or `"rdma_copy"`: an interrupted chunked
  transfer has left completed chunks; an RDMA transfer removes the partial file
  and dies; the next run, without RDMA, believes the chunks.
* c. `AbortPoints` with `"drop_part"` or `"reset_chunks"`: the partial file is
  gone, or the chunks are, and the flags are not.
* d. `CrashPoints` of the lock with `"write"`: the lock file is empty, no pid can be
  read from it, and the destination is locked for good.
* e. `Serial = FALSE` with successful ends: A drops its lock; B takes it and works;
  A's cleanup removes the state directory with B's lock; C takes the lock too.
* f. `AbortPoints` with `"delta_apply"`: an interrupted chunked transfer has left
  completed chunks; a delta transfer truncates the partial file and its process is
  killed; the next run without delta believes the chunks and renames zeros.
* g. The same within one run: the patch fails after the truncation (`DeltaBreaks` at
  `"delta_apply"`), or the digest differs because the owner has edited the basis
  (`Edits`), and the partial file is removed (`DeltaDrop`).  The chunked route follows
  with the old chunks.
* h. `--update` compares mtimes while planning; the destination may become newer
  before it is replaced.
* i. `DeltaFromSource` without `delta.planner = "helper"`: the source changes while the
  script reads it, and keeps its size.  Size and the repeated mtime are the listed ones,
  the digest is that of the mixture, and the mixture is renamed into place, with
  `--strict-durability` too, since the delta route does not stat the source once more.
  Without `LaterTimes` the helper does the same: its stat has whole seconds.
* j. `ListsWhatStayed` without `Replaced`: a directory is listed, others remove it and make
  a link of its name, `walk_dir` reads the path: what the link leads to is listed, and
  later transferred, below the directory's path.

## 5. What is proved

The proofs are for all values of the constants that satisfy the ASSUMEs of the
modules.

*FileSync_proofs.*  `Typing`.  `Invariance`: `Sheltered => (Spec => []IInv)`.
`Sheltered` says that no process stops in a window (`Windows`), that no dry run is
stopped while it removes the state, that the owner leaves the destination alone,
and that later versions have later mtimes.  None of the four can be dropped: findings 1
to 3 and traces a to c are their counterexamples (the last one is the whole-second
mtime).  From `IInv`: `NoHolesHolds`, `SyncedMeansCurrentHolds`,
`StrictSingleVersionHolds`.

`NoHoles` alone is not inductive: whether a rename shows a hole depends on the
partial file, and that on the chunks the row claims, which earlier processes wrote.
`IInv` therefore says at each point how far the row may be believed about the
partial file (`RowHonest`, `Backed`, `Cleared`, `RowClaimed`), the partial file
about the source (`PartGrows`, `StrictPart`, `NoneFromTheFuture`), and the
destination about both (`DestHonest`, `InPlace`, `Done`).  The proof has a lemma
per action (`...Keeps`); lemmas on `SetLen`, chunks and files come first.

`NoResumeIsCleanHolds`: `Spec => []NoResumeIsClean`, without `Sheltered`: whoever
died where, whatever the owner did.  Its invariant `FreshInv` needs only that a
`--no-resume` run has emptied the chunks before it opens the partial file
(`Emptied`).

`DeltaFromSourceHolds`, also without `Sheltered` and from `FreshInv`: what the delta
route puts in place has the listed size and is what its planner read, each unit at the
listed version or later, whatever became of the basis; and if the helper made the plan
and later versions have later mtimes (`LaterTimes`), it is the listed version, whole.
Nothing between the digest check and the rename touches the partial file
(`DeltaBasis`), and a stat after the reading that gives the listed mtime says that no
unit was read of a later version (`DeltaPlan`).  Trace i shows both conditions needed.

`KeepsPromiseHolds`: `Sheltered => (Spec => KeepsPromise)`, the refinement of `Mirror`.
The initial states agree, `Rename` is `Replace` and `ApplyMtime` is `Stamp`, and every
other step leaves the destination alone; that what is put in place was read in full
and is nowhere older than what it replaces is what `IInv` says of the partial file at
these two points.

*TreeSync_proofs.*  `TypeCorrect`, for every tree, sequence of sources, number of
workers and of faults.  `NothingThroughLinksHolds`: the destination is always
well-formed, which is not inductive alone: a job puts its file in place long after
its path was validated, beside whatever other workers and the planner do.  `TreeInv`
adds that the listed tree is well-formed, that directories are planned before what
they hold, and that a directory that is planned is there and stays one; so that
what validation found at planning still holds at the rename.  `RdmaProbesHolds`: in auto
mode each probe that failed leaves the flag set, and a worker that has looked at
the flag before may probe once more; the invariant counts jobs at `rdma` together
with the probes, and rests on the lemma `Counts` on active jobs.
`FailsForAReasonHolds`: `FailInv` follows a file whose job has failed to the end of
the run, since what stood in its way must still be there then, although other workers
go on (`BlockedKept`, `OthersKept`).  `SuccessMeansSyncedHolds`: `TimesTell => (Spec =>
[]SuccessMeansSynced)`.  `TimesTell` says that the versions of a file in the source go
forward and that what is at its place from the beginning, if it has the time of a
version, is that version: whether a file is current is judged by size and mtime, and a
destination that lies about it is believed.  The invariant (`AllAchieved`) says for
every path, stage by stage of its job, what has been read (`Read`) and what of the
destination is achieved; no step of another path undoes it (`AchievedStays`), and what
is skipped as unchanged is the listed version by its time (`TimesTellVersions`).  `FilesKeepPromiseHolds`: each file whose kind stays implements `Mirror`,
whatever the workers, the planner and later runs do beside it.

*DestinationLock_proofs.*  `TypeCorrect`; `MutualExclusionHolds` and
`HolderKeepsLockHolds` under `Serial`, for every set of processes and every point
where they may be killed; `AloneGetsLockHolds` if also nobody is killed between the
creation of its lock file and its first line.  `LockInv` says what the process that
acquires or cleans up knows: the pid it has read is that of the lock at the path,
whoever it found dead has ended, there is no file where it is about to create one;
nobody else touches the file meanwhile, which is what `Serial` gives, and what finding
4 and trace e lack.  `AloneInv` adds that the file found by a process that came
alone is a dead one's, with a pid in it.

*ConnectionPool_proofs.*  `Invariance`, and from it `Typing`, `AccountedHolds`,
`NoLostWakeupHolds` and `NobodyWaitsHolds`, for every finite set of workers and
every size of the pool.  The invariant is `TypeOK`, `Accounted` and
`NoLostWakeup`; the work is in the cardinalities of sets of workers (`Moved`,
`Counts`, `Notified`).

*RdmaCopy_proofs.*  `Invariance` and `Refinement`: `Spec => ImplementsContract`, for every
size of file, number of calls at once, length of a connection and number of faults.
That the copy is whole when `Copied` is returned depends on three parties:
`PacketsAreOwn` says that what is on the way was read by the helper of the same call
and is in order, `StreamIsAccepted` and `PartIsFilled` that the receiver, whoever has
connected to it, has written only what it has counted, and `ReceiverIsJoined` that it
does not outlive its call.  Each step then is one of the contract or leaves its
variables alone.

*DeltaTransfer_proofs.*  For every source, basis, block size, modulus and number of
disturbances.  `RollingIsWeakHashHolds`: `Roll` takes a byte from the sums and adds one;
that it is the checksum of the shifted window is an induction over the window, modulo
the modulus (`Weighted`, `Sums`).  `NoBlockMissedHolds`: the windows behind the matcher
since the last match are no blocks (`Scanned`), and a literal is made of them.
`FallbackAgreesHolds`: what the matcher has planned, followed by what the script would
make of the rest, is at each step the script's plan (`PlanAgrees`).
`UndisturbedFitsHolds`, that the digest need not refuse anything, from `PlanSpells`: the operations, one after the other, spell
pieces of the source that begin where the last one ends, as long as the basis is as it
was signed (`BlocksInPlace`).

*Startup_proofs.*  `Invariance`, for every set of texts, configurations and trees that
satisfy the assumptions of `Startup` and `Listing`: `StartupAssumption` types them,
that of the files of an ssh configuration there are finitely many, that what they include
is there and that the patterns of a `Host` line are not empty (`IsConfig`: the code
leaves out what is not there, and splits patterns at spaces);
`WrittenAssumption` says that the names of users and hosts that are put together to a
source are without the characters that separate them (`Reserved`); `TreesAssumption`, that a
tree is finite and what it holds is in directories.
`CommandLineDecidesHolds` goes through the settings.  `ParsesBackHolds` takes a source
apart as `RemoteSpec::parse` does: where `@` and `:` are first found is where they were
written (`FormatIs`, `NotReserved`), for names of any length; the arguments that do not
come back are those `Ambiguous` lists.  `ListsWhatStayedHolds`: what has been there all
the time and is not listed yet is below a directory still on the stack (`Pending`),
whatever is created in between, and what is removed, or has a directory above it
removed, has not been there all the time.  The other half, that what is listed was in
the tree but for what such a link shows (`WasThere`), needs that every directory on the way
to one on the stack has been listed (`OnStack`), so that a link found on that way has been
made since (`LinksAreNew`).  The lemma `ReadKeeps` is what both kinds of reading share;
`WalkDirStep` and `WalkLinkStep` say what each finds.  `ReadsWhatItListedHolds` follows
from `Keyed`.

`GlobMatchesDenoted` is about `glob_match` alone, for patterns and texts of any length:
going back to the *last* `*` only is enough.  `ScanFits` says what the loop knows at a
position: the last `*` stands for the text up to `mark`, and between it and the position
there is no other.  A match with an earlier `*` standing for more would be one with the
last `*` standing for more (`FoundLater`), so the loop loses nothing.  Loop and meaning are
recursive functions; that they exist is `RecursionExists` with a rank, the distance to
the end (`NearerIsLess`), and the induction runs over the same rank.
`MatchesHostDenoted` is the consequence for a Host line.

`IdentitiesOfferedHolds`: the state machine adds little, the host of a parsed source is a
text and stays the one the target was resolved for (`TargetFits`, `ResolveTargetStep`);
what is proved is about the operators, for every finite set of files, as `KeysOffered`,
in three parts.

* *Files.*  `LoadsReached`: each file that is reached is loaded once, nothing else is, and
  the whole fails just when one of them cannot be read, cycles or not.  The recursion is
  well-founded although its argument is the state of a loop inside it: of the files
  `Left` to visit there are fewer at each call, since a call never forgets a visited file
  (`LoadGrows`), and it is a function because of that (`LoadExists`).  A call for the files
  a file includes leaves those it has visited with everything they include visited, but
  for the files whose loading had begun before the call (`Progress`); the first call has
  none, so that what is visited at the end is closed, and not more than the least closed
  set.
* *Lines.*  `ParsedFits`: each line that is no `Host` is an option of one stanza, whose
  patterns are those of the last `Host` line before it (`TakenFits`, line by line).
* *Counting.*  `Enumerates` says that a sequence gives each of a set once; sequences for
  disjoint sets put together enumerate their union (`FlattenEnumerates`,
  `SpreadEnumerates`).  From files to stanzas, from stanzas to options and from options to
  keys it is used three times, and tells in the end that a key is offered as often as it
  is written.

*Induction over data* is done with `SetInduction` (a set that has 0 and the successor of each
of its numbers has all numbers), applied to the set of the numbers for which a claim
holds; the library's induction theorems take the claim as an operator, which the
provers cannot instantiate.

The hypotheses are satisfiable: the constants of `file_safe` satisfy `Sheltered`, those
of `tree_sync` `TimesTell`, those of `lock_serial` `Serial`; the ASSUMEs are evaluated by
every run.

*Only model-checked.*  Liveness (`EventuallyCurrent`, `EventuallyMirrored`, `AllServed`,
`ReadsHeal`, `EverythingEnds`): temporal reasoning with fairness is out of the prover's
reach.  Every other property of the runs that pass is a theorem, under the hypotheses
named above; the properties of the runs that expect a violation are false.

## 6. Not modelled

* The table `delta_sessions`, whose index is always 0 where it is used; rows of several
  files, which share nothing but the database.  Keys are the paths made printable
  (`state.rs` 196): names that are no UTF-8 may share one, and so do destinations that
  are given the same `--state-dir`, whose finished rows are then believed.
* Power loss: the model loses processes, not caches of the operating system.
* Pids that are given out again (`state.rs` 127): a stale lock then stays; strong
  hashes that collide; time, apart from timeouts that may happen.  The 5 s timeout of
  an SSH session (`remote.rs` 1132) is one of them; it also limits the delta helper,
  which is silent until it is done.
* Owners, ACLs, xattrs, hard links, special files as they are opened (a local FIFO is
  listed as a file, and opening it waits for a writer); `chmod` comes before `chown`
  (`sync.rs` 1784), which clears setuid bits.  In `TreeSync` `--update` and the entry of the
  source directory itself; a directory that is newer than the file whose place it
  has taken counts, with `--update`, as the newer file.
* Parsing of the command line (clap) and of TOML; `~` and relative names in Include
  patterns; authentication and host keys; display.

What the code does and no document speaks of, so that no property does either:

* a link that is there already is removed and made anew in every run, so that a
  directory with a link never keeps its mtime; other directories get theirs from the
  second run on;
* an entry whose kind has changed (but for a file that is a link now) is never
  replaced, and with `-p` a read-only directory keeps its files out in every run:
  `Obstacle` lists what no run gets past;
* of several errors the one pushed last is reported (`sync.rs` 496), whatever file it
  is of;
* after a failed run a finished row is believed over the destination (`sync.rs` 598),
  although its owner may have changed it;
* chunk progress is written once, after the last chunk (`sync.rs` 820): a transfer
  interrupted while it reads starts over;
* of several values in the ssh configuration the last one wins (`remote.rs` 2014), where
  ssh takes the first; `Match` is an option like any other; one file that cannot be
  read, as a directory that `config.d/*` matches, drops the whole configuration;
* `PARSYNC_RESUME=0` counts as not given: only `true` and `false` are read
  (`config.rs` 245);
* a host of one letter followed by `:/` is a Windows drive, an `@` in the path of a
  source without a user ends the user (`Ambiguous` in `Startup`);
* `link/*`, where the link points to a directory, lists the link.

## 7. Plan

1. *(done)* `FileSync` with all four routes, `Mirror`, `TreeSync`, `Startup` with its
   parts, `ConnectionPool`, `DestinationLock`, `RdmaContract`, `RdmaCopy`,
   `DeltaTransfer`, with runs; proofs of `FileSync`, `TreeSync`, `ConnectionPool` and
   `DestinationLock`.
2. *(done)* Proofs of the remaining safety properties of `TreeSync`, of the refinements
   of `Mirror` and `RdmaContract`, of `DeltaTransfer` and of `Startup` with `Listing`,
   `SourceSpec`, `glob_match` and the ssh configuration.
3. Models: rows of several files in one database; owners and ACLs if the code comes to
   decide about them.

## 8. Running it

    tlc -config FileSync_safe.cfg MCFileSync.tla
    tlc -config RdmaCopy.cfg MCRdmaCopy.tla
    tlapm FileSync_proofs.tla

On two cores a run takes at most about two minutes, a module of proofs between one and
six.  `PROJECT.json` names the
module and the configuration of every run.  A comment that begins with "Mutant"
marks an operator that no specification uses: it is a plausible bug, put in the
place of the definition below it to see that a property notices.
