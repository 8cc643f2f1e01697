# A verification project for Mosaic Archive

TLA+ models of the parts of Mosaic Archive whose correctness depends on order,
interleaving and failure, TLC configurations that check them on small instances,
and TLAPS proofs for every instance. `PROJECT.json` maps each definition to the
lines it models and lists runs, mutants, hazards, findings and theorems.

## 1. Inventory

| Component | State | Operations | Interaction |
|---|---|---|---|
| Source session (`source_identity.py`) | captured identity per path | discover, `open_file`, `verify_bindings` | used by every encoder; other processes change the tree meanwhile |
| MSC6 dedup archive (`dedup_archive.py`) | manifest, chunk table, temporary file, chunk cache | encode (two passes), decode, inspect | source session, file system, progress callback |
| MSC2 stream archive (`stream_archive.py`) | manifest, frames, temporary output | encode, decode, inspect | shares `_scan_input` with MSC6 |
| MSC1 archive (`archive.py`), API dispatch (`archive_api.py`) | records in memory, temporary output | encode, decode, choice of format | all formats |
| MSR1/MSR2 solid archives (`solid_*.py`) | three lanes of chunks spooled beside the destination, framed and compressed as wholes | encode, decode, inspect | source session, chunking, the MSC6 manifest |
| MSC7 core (`native/msc7-core`) and its binding and preview | bounded pipeline, authenticated container, transactional file output | encode, decode, inspect | file system, Python |
| Native supervisor (`native/binding-supervisor`) | session cgroup, control socket, signalfd, `RevocationState` | create, configure, ready, handoff, barrier, cleanup; clone3 probe | coordinator over a `SOCK_SEQPACKET` channel; kernel cgroups |
| Coordinator capability (`competitive_binding_supervisor.py`) | root and channel descriptors, `_closed`, issuance records, locks | inherit, locked access, close, fork handlers | supervisor; leases; threads and forked children |
| Leaf lease, host qualification (`competitive_binding_cgroup.py`, `_qualification`, `_io`, `_policy`) | leaf state machine, `_closed` | create, attach, read, kill, await, cleanup | capability, kernel cgroups |
| Corpus preparation (`competitive_corpus_prep.py`) | descriptors, anonymous output file, publication state, record | verify, prepare, reopen | plan and source files that others change, the destination directory |
| Process runner (`competitive_runner.py`) | known process identities, samples of `/proc` | run, sample, time out, kill | the kernel's process table |
| Corpus inventory, contract, reports, readiness (`competitive_*`, `release_readiness.py`) | records of evidence | validate, digest, format | file system |
| Pure algorithms (`cdc.py`, `padding.py`, `modes/`, frame and header formats) | none | encode, decode, parse | all formats |
| CLI, benchmarks, fuzzing, scripts | none | presentation | everything |

What is hard in this code, in the order of its weight:

1. *Authority over a session shared by two programs.* The supervisor may clean up
   only when no process of the coordinator still holds the session root, and it
   learns of that only through poll and recv results on a channel whose end may be
   forked, half-closed, killed, or written to out of turn.
2. *Reading a tree that others change.* Identities are captured once, files are read
   twice, the tree is walked again; the archive must be the tree at one moment.
3. *Publication.* Everything is written beside the destination and renamed; errors,
   kills and power loss may come at any step.
4. *Decoding what someone else wrote*: counts, references, limits and the end of file
   have to agree exactly.
5. *Telling the caller the truth about a commit* that an exception may interrupt at any
   statement, and killing only processes whose numbers may be taken over meanwhile.
6. *Locks* between operations, nested operations, `close()` and `fork()`.

`PROJECT.json` lists each hazard at its line with the properties that cover it.

## 2. Modules

| Module | Models | Composes |
|---|---|---|
| `AtomicPublication` | abstract: a path goes from its previous content to one whole result in one step or not at all | |
| `SourceSession` | `SourceSession`, with the file system as an inode and a name table and the changes of other processes | |
| `DedupManifest`, `StreamManifest` | the manifests of MSC6 and MSC2, their parsers' rules, the reference reading of an archive | |
| `EncodeCommon` | what every encoder does before and around its passes: alias and option checks, names, the session, failure, kill, power loss | `SourceSession` |
| `DedupEncode` | `encode_dedup_archive`, `_scan_manifest`, `_scan_input` | `EncodeCommon`, `DedupManifest` |
| `StreamEncode` | `encode_stream_archive` (MSC2) and `encode_archive` (MSC1) | `EncodeCommon`, `StreamManifest` |
| `SolidLanes` | the lanes, frames and metadata of MSR1 and MSR2 and the reading of each | `DedupManifest` |
| `SolidEncode` | `encode_solid_archive_v2` | `EncodeCommon`, `SolidLanes` |
| `Encoders` | the five encoders as the API offers them, and their properties | the encoders; implements `AtomicPublication` |
| `DecodeCommon` | what the decoders share: limits, the sink, directories and metadata, the publication of the result, failure | |
| `DedupDecode`, `StreamDecode`, `SolidDecode` | decode and inspect of MSC6, of MSC2 and MSC1, of MSR2 and MSR1 | `DecodeCommon` and the modules of the formats |
| `Decoders` | `decode_path`, `inspect_path` and the MSR1 entry point, and their properties | the decoders; implements `AtomicPublication` |
| `BindingHandoff` | the supervisor's `run`, `wait_for_ready`, `send_handoff`, `wait_for_post_handoff_eof` and the coordinator's inheritance, use, close and fork | |
| `SessionCgroup` | the supervisor's `qualify_parent`, `create_session`, `configure_session`, `Session::cleanup` and `finish_lifecycle`, over several runs on one parent | |
| `LeafLease` | `BindingCgroupLease` and `create_binding_cgroup` over the pinned-descriptor backend | |
| `CapabilityLocks` | the three locks of a capability inside one process | |
| `SecureFiles` | the files corpus preparation works on: names, inodes, links, timestamps, what is on disk, other programs, power loss | |
| `CorpusPrep` | `verify_local_source`, `prepare_local_source`, the two reopen functions, `load_acquisition_plan` | `SecureFiles`; implements `AtomicPublication` |
| `ProcessRunner` | `run_provisional_process` with the process table | |
| `*_proofs` | the theorems | the module they are named after |

`MC*` modules give the constants their values. A definition marked `\* faulty` is a
plausible bug; nothing uses it but the mutants of `PROJECT.json`, each of which
replaces the definition of the code by the faulty one and must break the named
property.

### Source session and encoders

A stat result is kind, inode, one stamp (mode, mtime, ctime) and size. A file's bytes
are the sequence of its content-defined chunks, all of size 1, so that a file of three
equal chunks is a file with two duplicates; a digest is the content itself. Each
system call that looks at the tree is a step and other processes act between any two
(`Write`, `Replace`, `Remove`, `Create`). Two groups of calls are one step: the stats
of a file's ancestors, and an open with the fstat that follows it. A change between the
calls of a group touches only objects already looked at, and then acts as one after
the group, or one still to be looked at, and then as one before it. With
`CoarseClock = TRUE` a change may leave the timestamps as they were, as on a file
system with coarse ticks or after `utime`.

An encoder follows its code's order. MSC6: alias and option checks, session, the second
look at the root, validation of names, first pass (chunk table), frame limit, temporary
file, second pass (each chunk against the table), flush, count check, verification
walk, rename. MSC2 has the same frame but compares only size and digest of each file,
when it is closed. MSC1 reads its one file once, verifies, and writes afterwards. MSR2
spools the second pass into three lanes in a directory of its own, frames and compresses
each lane as one stream, and removes the directory after the rename. `FailWith` and
`SessionRaised` stand for every exception with its `finally` clause; `Fault` is an
exception of any call without a modelled cause (I/O, the progress callback, the size
limit of a manifest payload); `Kill` and `PowerLoss` stop it anywhere, the latter losing
an unsynced suffix and possibly undoing the rename.

Names are normalized by `Normal` and folded by `Fold`. `Portable` are the paths that
`validate_relative_path` returns as they are; a name whose normal form is not among them is
refused (`Unsafe`), and a parser accepts none but them: it compares what the archive says with
what the validation returns. Which characters make a path portable is left to the constant, and
a path is a place in a tree, so that spellings such as `a//b` do not occur. MSC1 stores the one
name of its file without validating it, and its decoder asks only that it is a plain one.

### Solid lanes

A compressed lane is a sequence of tokens: `open`, units of data, `end`; a raw lane has
none but units. What frames do to a lane, and what a reader must not be fooled by (a
stream that ends in an earlier frame, does not end at all, or yields more than it
declares), is visible in the tokens. Both metadata encodings of MSR2 are modelled, the
legacy and the compact one, whose derived fields are recomputed as the parser does.

### Decoders

The input is a set of archives of five formats: well-formed ones, and each of those
changed in one way (a frame missing, repeated, swapped, damaged, or with another
occurrence; a count, a size or a path changed; a lane cut, lengthened or framed
otherwise; a stream that decompresses to more; an unsafe path or root; a file before its
directory; bytes appended), for MSC6 every small chunk table, well-formed or not. "Sealed" frames are authentic; the cipher itself is not
modelled. `decode_path` reads the magic with an open of its own, so `Swap` may put
another archive in place before the decoder opens it. The destination may be anything
and other processes rebind it between steps.

The reference reading has two parts, because the code has. `Intact` is what the manifest
parsers and the checks of frames, lanes and digests must establish, with paths that are portable
and distinct (`PathsUsable`). `InOrder` says that no entry comes before its directory. No parser
asks for that: a restore makes missing directories as it goes (`mkdir(parents=True)`) and then
fails with `FileExistsError` at the entry of one that is there. So an archive is restored, and
by MSR2 inspected, exactly when it is both; the inspections of MSC2 and MSC6, which make no
directory, accept it when it is `Intact` alone (section 4).

### Corpus preparation

`CorpusPrep` follows the statements of the four functions: a file is looked at by name,
opened, read block by block and looked at again, while other programs rewrite it in
place, replace it, link it or move the directory, with or without new timestamps. A plan must
be of at most `max_plan_bytes`, itself at most `MAX_PLAN_BYTES`. `plan` is a history of its text:
what the file held when it was opened and holds now, how often it was rewritten in between, and
what the call goes by.
`prepare` writes an anonymous file, flushes it, sets `publication_attempted`, calls
`linkat`, and advances `publication_state` statement by statement; `Fault` raises
`OSError`, another exception or an interruption between any two, and `Handle` and `Close`
are the code that turns all of this into what the caller is told. `PowerLoss` loses what
was not flushed: contents and names separately. One fault happens per call: a second
interruption inside the handler is not modelled. Descriptors are closed in one step.

### Process runner

A process is its identifier and start time; identifiers are reused, groups outlive their
leaders, orphans go to init. A sample is a listing followed by one read per process. No
identifier is reused within the reading of one sample, nor while a group has it. A
process that forks and ends between listing and reading is seen by nobody, in the code as
in the model; so `ResultMeansQuiet` speaks of the processes the run knew of.

`SpawnRaises` is an exception of `Popen`, before the fork or between it and the assignment of
`process`; `Interrupted` one at any later statement, the except clause and what it calls
included, whether a failed call or a `KeyboardInterrupt`. `lost` notes the two moments at which
that leaves the measured process without a signal. A failed signal is passed over inside
`_kill_measured_processes`, which tries the others, and ends the loops over what a last sample
found, which do not.

### Handoff and barrier

`spc` follows `run()`; `hup` and `rdhup` are the poll results the code acts on later.
The kernel's part is modelled from how the code uses it: a hangup is reported when the
last copy of the peer's end is closed; closing it with records unread makes the other
side read `ECONNRESET` once; a send to a closed peer fails; a short send count leaves
open what was queued. Each process of the coordinator has a state `cpc` and holds the
channel (`control`) and the root (`root`) or not; `Fork` copies both and the child's
handler closes them, `Exit` is the end of a process at any point. `Misuse` sends what
the protocol does not know, or shuts the write side down. "Holding the root" means that
Python code of the process can use it: the window in which a `subprocess` child has
copies of close-on-exec descriptors before `exec` is not a separate process here.
`shutdown(SHUT_RDWR)`, which the coordinator never calls, also reports a hangup and is
left out.

### Session cgroup

The parent is a table from session names to inodes; a session has children, some with a
live workload. Run `r` makes inode `r`, so "its own session" is a comparison. `pc`
follows `run()` and the body of `Session::cleanup`; what a step reads and checks in
control files is one condition, what it writes is its effect. `MayFail` (any call of the
step) and `MayTimeOut` are switched by `failing`, which a behaviour chooses at its start. `HandOff` and `Barrier`
stand for `BindingHandoff`: there `NoAuthorityDuringCleanup` is proved, here it is the
guard `holder[ident] # "held"`. The supervisor may be killed anywhere and started again.
`Swap` replaces an empty session directory by another; the code compares identities
before it removes a name, and between that comparison and the removal (and between
`mkdirat` and the first open) only the exclusive delegation of the parent protects the
name, so `OutsiderAt` leaves those two points out; `MaxMeddling` bounds such acts. `Drop` finds `cleanup_attempted` set on
every path but a panic and is not a step.

### Leaf lease

The lease's lock lets one operation run at a time, so `pc` is where that one is; the
workload, a `Joiner` placed in the leaf by someone else, and the channel move between
its backend calls. `memory.peak` is a counter, `workUsed` the value it had when the
workload last ran. A production lease ("native") re-checks its capability on entering
each operation, nested ones included, and refuses `attach_process`; a test lease has no
capability. `Raise` is the failure of any call.

### Locks

Each operation takes the lease's lock, passes through the issuance lock and keeps the
capability's lock; `cleanup` and `read_memory_peak_bytes` call operations inside and
pass through again. `close` takes the capability's lock, `fork` the issuance lock and
then the capability's.

## 3. Runs

| Run | Shows | Bounds |
|---|---|---|
| `encode` | a published archive of any format is whole, is the tree at one moment when the clock moves, is not inside it, appears in one step; failures leave nothing | root with a file, a directory and a file in it, or a single file of up to five chunks over four; changes write up to two chunks over two; up to 2 changes, chosen per start; at most 5 frames, lanes of 4 frames of 2 units |
| `encode_names` | unsafe and clashing names never reach a published manifest of MSC2, MSC6, MSR1 or MSR2; encoding ends once others leave the tree alone | four flat names, one unsafe, two that fold together, one not normalized, and 1 change; or an empty directory below the root that others fill, remove or make again, 2 changes (MSC2) |
| `encode_lookup` | *violation*: a name that is not in normal form ends in `KeyError` | as above |
| `decode` | accepted exactly when whole, with usable names and within limits; late directories refused where directories are made; cache always hit; output bounded; atomic publication, clean failures, termination | MSC6: every chunk table of up to three records over two chunks, sizes 1 and 2, with right and wrong entries and frames; the other formats: sound archives and each changed in one field; at most 3 units of output, 3 frames, 2 for a legacy archive; lanes of 3 frames of one unit; five kinds of destination, 2 rebindings, one swap |
| `handoff` | no cleanup while authority is held; the inductive invariant; no use after revocation; signals end the hold; closing ends the barrier | two processes, one may inherit, 2 stray records |
| `session` | success leaves nothing; only its own session is changed; a failed run's workloads never meet the next one's; without failures cleanup removes everything; cleanup ends although workloads do not | two runs, two names, two attempts, one leaf, one act of an outsider, at most one entry listed |
| `session_visible` | *violation*: a recorded cleanup failure does not keep the session visible | one run |
| `lease` | a peak is returned for one finished workload that was not killed, and covers it; failed creations clean up or say so; nothing happens after the capability is closed | two processes to attach, one joiner, a peak of at most 3 |
| `locks_fork` | fork never in the middle of an operation | three threads, one nested operation |
| `locks_nested` | *violation*: fork and a nested operation wait for each other | two threads |
| `prep` | what is said of a publication is true; durable survives power loss if timestamps move; a snapshot is exactly the announced bytes; the plan is the text at the opening if timestamps move, and else the text before or after a single rewrite; the destination appears whole | two calls and one change of another program, or one call and two changes; files of two blocks, two directories, clock moving or standing still |
| `runner` | only measured processes are killed; a result means quiet; the root is not left, with two exceptions; leftovers known before the end of the root are killed | three identifiers; four births and no failure, three and one, or two and two |

Why the bounds are enough: two changes are what it takes to change an object and to
hide or undo it, or to change two objects on either side of a read; a tree of depth two
has an ancestor that is neither root nor parent of all; three occurrences over two
chunks give a duplicate, a reference chain and a forward reference; a lane of three frames
has a first, a middle and a last one; two processes give a copy of each descriptor that
outlives the other; two stray records can be queued before and after a poll; two runs and
two names give a collision and a free name; one child of an outsider beside a leaf exceeds
the bound of the listing, and alone does not; a peak of 3 can grow before, between and
after two reads; two calls are a preparation and a reopening of what it made; four births
are a root, a child, a grandchild and a stranger that takes a number over; two failures are one
that leads to the except clause and one in it; a directory that others fill while it is listed
is the one thing that makes the walks longer than they were. Bounds that the
code does not have as limits (`MaxFrameCount`, `MaxLaneFrames`, `MaxOutput`, `SnapshotLimit`
are limits of the code, at other values) cut other programs and faults, never the code. The
proofs remove the bounds of every module, for all but the liveness properties; the encoders keep
`MaxLaneFrames` as the hypothesis of one theorem (section 5).

Deadlock is checked in `encode*`, `decode` and `handoff`, where `Stopped` and `Done` are
the states in which the program has ended. `locks_fork` does not check for it, because the
code has the one that `locks_nested` shows; the session, lease, prep and runner runs do
not, because the last run, call or lease ends and nothing more need happen.

Type invariants are stated in every module. `TypeOK` is checked by `handoff`, where it
bounds the supervisor's queue, and proved for the handoff and the lease.

### Fairness

`encode_names`: weak fairness of the encoder's and the session's steps (one thread that
keeps running); none for other processes, faults or kills. That encoding ends rests on the bound
on the changes of other processes: the code has none, and a process that keeps adding directories
ahead of the walk (`source_identity.py:286`) keeps it from ending. What is shown is that it ends
once the tree is left alone, through any of the changes before. `decode`: weak fairness of the
decoder's steps, none for whoever rebinds the destination. `handoff`: weak fairness of the supervisor's steps
(a loop around a blocking poll) and of each process's steps; for the coordinator this
says that a process that holds a capability keeps starting operations, and so keeps
looking at its channel, and that a running one ends. A coordinator that never looks
would keep the session for ever, by design. `session`: weak fairness of the
supervisor, none for the death of workloads. With a second claimant blocked in
`recvmsg`, that one could take the REVOKE byte away, so this run has one claimant, as
the service starts one; the proofs allow any number.

## 4. Findings

* `encode_lookup`: the encoder looks a normalized path up in a table keyed by the names
  on disk. A file whose name is not NFC raises `KeyError`, which the CLI does not
  catch, where `paths.py` and `docs/FORMAT.md` have it normalized or refused with
  `ValueError`.
* `locks_nested`: `_lock_capabilities_before_fork` takes the issuance lock and then the
  capability's; a nested lease operation holds the capability's and takes the issuance
  lock. A fork in one thread during `lease.cleanup()` in another stops both.

* `session_visible`: `docs/NATIVE_SUPERVISOR_PROTOCOL.md` says that a cleanup failure
  leaves the session visible for recovery. A failed write of `cgroup.kill`, or a wait
  that timed out shortly before the last workload died, is recorded and passed over; the
  root is then removed and the run reports the failure with nothing left to recover.

Seen while modelling, without a run of their own:

* `dedup_archive.py:538`: a last file that grows between the passes raises `IndexError`
  instead of `OSError`; the `RuntimeError` branches after the passes are dead.
* An archive of MSC2 or MSC6 that lists a file before its directory passes its parser and is
  reported as verified by `inspect`, and `decode` refuses it with `FileExistsError`
  (`dedup_archive.py:717`, `stream_archive.py:784`; MSR2, `solid_archive_v2.py:914`, refuses it
  in both). No encoder writes one.
* MSC2 has the same lookup by normalized name (`stream_archive.py:548`), MSC1 does not
  validate the one name it stores.
* `solid_archive_v2.py`: a failure to remove the directory of lanes raises although the
  archive is published, a kill leaves that directory; `except Exception` leaves the temporary output
  behind when restoring is interrupted from the keyboard.
* `solid_archive_v2.py:436`: the encoder publishes whatever number of frames a lane has; the
  parser of the metadata (line 645) refuses a lane of more than `DEFAULT_MAX_FRAME_COUNT` frames,
  which no argument of `decode` raises. With the smallest `frame_payload_size`, 1 KiB, a lane of
  more than about 1 GB is published and cannot be restored, where `CONTRIBUTING.md:21` asks for
  exact round trips within the parser's bounds. `MaxLaneFrames` is set so that the checked
  instances stay below it.
* The reader of a lane accepts an empty final frame, which no writer produces.
* `competitive_corpus_prep.py:1975`: if issuing the record raises, the record of the attempt
  lags one state behind; the `AssertionError` at line 2087 is unreachable; the second look at
  a descriptor (line 1444) never finds what parsing let pass;
  `CorpusPublicationNameUnavailableError` (line 191) is also raised when the name could not
  be inspected.
* `competitive_runner.py:498`: with both escaped processes and leftovers in the last sample
  only the escaped ones are killed; an exception after the root was reaped leaves members of
  its group running.
* `competitive_runner.py:444`: an interruption inside `Popen` after the fork leaves the measured
  process running, with nothing bound to `process` that the except clause could kill; a second
  interruption in that clause before `killpg` does the same.
* `competitive_runner.py:508`: a descendant that only the sample after the end of the root shows is
  reported as daemonization and left running: by then the identifier of the root, and its group,
  may be a stranger's.
* `competitive_corpus_prep.py:606`: a plan rewritten twice within one tick of its timestamps, once
  during each read, may be accepted as a mixture of the versions.
* `docs/NATIVE_SUPERVISOR_PROTOCOL.md:36` bounds the whole exchange to 30 seconds while the
  timeout applies to each socket operation; the limits `docs/THREAT_MODEL.md` states
  (restored timestamps, no durability of the rename, an alias check that is not atomic with
  the rename) are limits of the models too.

## 5. Proofs

`BindingHandoff_proofs` proves, for any set of processes, any claimants and any number
of stray records, from `HandoffAssumption` alone:

* `HandoffInvariant`: `Spec => []HandoffInv`;
* `TypeCorrect`: `Spec => []TypeOK`, with the bound on the coordinator's queue;
* `NoAuthorityDuringCleanupHolds` and `BarrierSoundHolds`.

`NoAuthorityDuringCleanup` is not inductive: it speaks of the moment of cleanup, and
what makes it true was decided when the supervisor read a hangup, a reset or an empty
queue. `BarrierSound` adds why those mean what they are taken for: whoever holds the
root holds the channel (the root is closed first, a fork copies both), nothing is
queued for an end nobody holds, a reset and a reported hangup imply that nobody does,
and before the handoff there is nothing to hold. `HandoffInv` is their conjunction with
`TypeOK`; `SupervisorInv`, `ProcessInv` and `ForkInv` show that each action keeps it,
`RevocationLemma` and `CloseLemma` say what a revocation and a close do to the queues.

It also proves `NoUseAfterRevocation` for any number of processes of
which at most one is a claimant (`OneClaimant`, as the service starts one). The invariant
says that once the REVOKE byte is sent, it is the last record of the queue for as long as
the claimant has not let go: a handoff is taken from before it, and the queue is only
dropped with the last copy of the channel, when no claimant is left.

`LeafLease_proofs` proves, for any processes and any bound on memory, type correctness, the
lease's properties that the run checks, and two it does not list (`ClosedMeansGone`,
`OthersKept`). Besides the types, the inductive invariant has four
parts: which state an operation under way may
find the lease in (`Staged`), that one process is ever placed (`Placed`), that no workload
runs from the check that the leaf is empty on and that the peak read covers it (`Quiet`), and
what the leaf's name stands for at each point (`Located`).

It also proves `ForkSerialized` of `CapabilityLocks`, the locks that a lease's operations take,
for any number of threads and any nesting: an operation in its backend, `close` and `fork` hold
the capability's lock. (So that both modules can be extended together, what `CapabilityLocks`
defines has names of its own: `LocksSpec`, `capClosed`.)

`SessionCgroup_proofs` proves `SuccessLeavesNothing`, `NoOverlap` and `OwnSessionOnly` for any
names, children, faults, limits and number of runs, from `SessionAssumption` and
`OpenedAsMade`: nobody swaps the directory between its creation and its first open, where only
the exclusive parent protects the name; `OwnSessionOnly` also needs that for the moment between
the last check of the name and its removal. The runs make the same two exceptions
(`Interference`). `SuccessLeavesNothing` speaks of ended runs only; what makes it inductive is
that the name stands for the run's own directory when its identity was checked, or the
directory is already empty and gone (`Owned`), that a session can be filled only while it is
visible, and that only a run under way gets an outcome (`Ended`). `NoOverlap` rests on who may
still start workloads (`Held`) and on what `qualify_parent` found (`Apart`).

`CleanupRemovesAll` is proved for every behaviour in which no session holds more leaves than
`MAX_DIRECT_SESSION_ENTRIES` (`FewLeaves`): cleanup refuses to list more, and would leave the
session. Its invariant follows cleanup stage by stage (`Clearing`): the name is lost only with an
empty session, after the wait nothing runs, after the listing every leaf left is on the list, and
after the loop none is. It also needs that a session made later starts empty (`Unused`).
`SessionAssumption` says for this that a valid leaf name is neither malformed nor another child,
as the tests of `is_valid_leaf_name` and of the fixed prefix exclude each other.

`Encoders_proofs` proves what the sessions and the encoders
promise, in all five formats, for any tree, any contents, any number of changes by other
processes between any two system calls, and any fault, kill or power cut. It assumes
`SourceAssumption` (paths form a tree and sort after their directories, which the key of
`sorted` at `source_identity.py:123` gives), `EncodeAssumption` (normalising twice is
normalising once and makes no name empty; a session starts on a tree), the assumption of
the manifests, and for the last theorem `FormatAssumption` (the normal form acts on each component
of a path; a block of file data is one chunk long, every chunk has a lane).

* `NothingLeftBehindHolds`, and `PublishesAtomicallyHolds`, the refinement of
  `AtomicPublication`. `Staged` says what temporary, destination, handle and spools are at each
  stage; `StepKinds` sorts the steps of the five encoders into five kinds (work, clean failure,
  publication, removal of the spools, stop), of which the rest of the proof speaks.
* The argument for the capture, about `SourceSession` alone: `FreshlyChanged` says what a change that
  is not coarse leaves behind: a new stamp on every inode it alters and on every directory a
  name comes to or goes from. So an identity that was lost never returns (`BoundBefore`: what is
  bound after a change was bound before it, the same inode, the same names). `SessionInv` says
  that a directory which is bound *now* holds exactly what was recorded in it (`Listed`), though
  it was listed and its names examined at many moments.
* `PublishedIsSnapshotHolds` and `NeverInsideSourceHolds`. The moment is
  the end of the capture: `Snapped` says that a path bound now is what it was then. From there
  the digests (`Reading`, `Manifested`), the lookups by normalised name (`LookupFinds`), the
  compact metadata of MSR2 (`ExpandedKeepsTree`) and the final walk (`Verifying`) are followed;
  `VerifiedTree` turns "everything recorded was found bound" into "nothing else was there", by
  the first path, in sort order, that would be an exception.
* `PublishedWholeHolds`: what the five encoders publish is an archive that the reference
  reading of the decoders finds good. Its one hypothesis, `WithinLaneLimit`, is the limit of frames
  in a lane that section 4 speaks of: the encoder of MSR2 writes lanes of any length
  (`solid_archive_v2.py:436`), the parser refuses some (`solid_archive_v2.py:645`). `ContentInv` says at each step how far the archive has come:
  the manifest is the record of what has been read (`TableOK`, `RowsOK`: the ranges of the entries
  follow one another, each row of the chunk table holds a digest read, and refers, if at all, to
  the *first* row that stores it), the temporary file holds the frames of what was read again
  (`DedupWritten`, `StreamWritten`, `SingleOK`) or of the lanes written (`SolidOK`, `LanesOK`). The
  second pass finds the chunks of the first
  because its digests were compared with the manifest, file by file; that its frames are as many
  as the header, written before them, announces is a count of the first occurrences. The order of the
  entries (`DirectoriesFirst`), the names that validation returned (`SafeNames`) and that do not
  clash after folding (`ClashFree`) give the rules on paths.
* For MSR1 and MSR2 it is also a proof that what the reader does with lanes undoes what the writer
  does, for any chunks: a compressed lane ends its stream once, with the last token (`Compressed`),
  its frames are the pieces of that payload, of which only the last has the end of the stream
  (`ClosedPieces`, `LaneCut`), the frames lie lane after lane (`Laid`, `LaneReadBack`), four lane
  numbers go into a byte and come back (`PackedBack`), the compact metadata stand for the manifest
  they were made of (`CompactBack`), and every chunk is found where the sizes of the chunks before
  it in its lane say (`ChunksFound`). `SolidStored` and `LanesStored` put this together.

`Decoders_proofs` proves what the decoders promise, in all five formats and for decoding and
inspection alike: for any archive whose fields have their types (true or not, in any number),
any other archive that takes its place before it is opened, any limits, any destination and
what it becomes, and any fault, interrupt or kill. They assume `PathAssumption` (the parent of
a path is shorter, so no set of paths holds the parents of all its members) and
`DecodeAssumption` (the types of fields and limits; the headers are parsed with a chunk size of
at least 1, `stream_format.py:102`, `dedup_format.py:88`).

* `FailureCleansHolds` rests on `Staged`: what temporary output, cache and spool are at each
  stage of each format.
* `CacheHitHolds`: the parser has established that a reference is direct and points backward
  (`Parsed`), the occurrences restored so far are those of the entries before and part of the
  file at hand (`Placed`, `Counted`), and what a later one refers to was kept (`Cached`).
* `AcceptsOnlyWholeHolds` and `RefusesOnlyDamagedHolds`: a decoder that goes through an archive
  once, frame by frame, accepts exactly those that the reference reading of the whole archive
  finds good. Neither is inductive; what makes them so is `Verified`, a statement of how far the
  checks made so far agree with that reading. It has a part per format: the manifest in use is
  the one the archive holds (`Known`) and passed its parser (`TableChecked`); the frames read by
  MSC6 are those of as many unique chunks, each where the reading looks for it
  (`UniquesChecked`); likewise the blocks of MSC2 (`BlocksChecked`), the records of MSC1
  (`RecordsChecked`) and the frames of each lane of MSR2 with what they hold (`LanesChecked`,
  `LanesHeld`); and at the end nothing is left over (`EndsWhole`). That the frames of MSC6 are
  *all* the frames is a counting argument (`FramesUnique`). For the other direction, `Refusing`
  sorts the steps that raise an `ArchiveFormatError`, and one lemma per kind of check
  (`HeaderPasses` to `EndPasses`, `LanePasses`) shows that an archive the reference reading finds
  good (`Faultless`) passes it. The order of the directories is a matter of the restore alone
  (`OrderedHolds`): of the entries passed so far none came before its directory (`NoneLate`), the
  directory of each is there (`Rooted`), and if the archive is in order no other is (`Listed`); so a
  directory is found already there only when one comes late, and a restore that reaches the end
  has seen none.
* `OutputBoundedHolds` (MSR1 has no such limit): `Metered` follows what was written through the lanes, the records of MSC1
  and the entries. The checks are local (a range starts where the last one ended, a file's
  chunks add up to its size, the total is within the limit), so that the bound of all writes
  needs sums over the whole table: the chunks take no more than the entries (`ChunksSum`), the
  unique ones no more than all (`UniqueFits`), the lanes together no more than those
  (`LanesFit`).
* `PublishesAtomicallyHolds`, the refinement of `AtomicPublication`: the output that is renamed
  is the whole of the manifest (`Restoring`), with no directory that the manifest does not list,
  though `mkdir(parents=True)` makes whatever is missing (`MissingFound`).

`CorpusPrep_proofs` proves every property of corpus preparation that the run checks, for any
directories, names, files and block sequences, any tree they form at first, any number of calls
and of changes by other programs between two system calls, and an exception or a power loss at
any point. It assumes `FilesAssumption` (finitely many directories and names, so that a link
count is a number, and no name for a file that does not exist) and `PrepAssumption`.
`ChangeEffect` says once what other programs can do: who writes to a file, or gives a name to
it, needs a name that it has already, and leaves a new stamp unless the clock stands still. The
invariant, `PrepInv`, has one part per question; each statement of the process has a lemma.

* `Held`: which descriptors are open at each statement, and on what. The anonymous file cannot
  be reached by others as long as nothing has linked it (the last part of `Truthful`); what was
  copied and flushed is therefore what is linked.
* `Truthful` gives `StateIsTruthful`: from `publication_attempted` to `publication_state`, each
  pair of values says what an interruption there may find, and the link count decides where
  they do not.
* `Lasting` gives `DurableDoesSurvive`. The stamps of the stat after the link (`base`) are older
  than any later change; so if the last look finds the same stamps under the name, the name was
  there throughout, also when the directory was flushed, and the bytes are the flushed ones. With a
  clock that may stand still this fails, as a rewrite after the second hash can leave the stamps as
  they were; the property excludes it.
* `Copied` gives `SnapshotIsExact`, without any assumption on the clock: the digest is that of
  the bytes that went to the memory file.
* `PlanHeld` gives `PlanIsAsRead`. While the clock moves, what was read so far starts the text at
  the opening as long as the stamp is the same. When it stands still, the two equal reads do the
  work: a single rewrite leaves at least one of the reads wholly on one side of it.
* `PublicationIsAtomic` is the refinement of `AtomicPublication`, by `OutputMade` and
  `OutputKept`.

`ProcessRunner_proofs` proves every property of the runner that the run checks, for any set of
process identifiers, any number of processes started (the bound `MaxBirths` is a parameter),
any number of failing system calls, and any interleaving of the call with processes that fork,
exit, leave the group, are killed and have their identifiers used again. It assumes
`RunnerAssumption` only. What the table says of a process is lost when it ends, while the call
goes on knowing it; so none of the properties is inductive. `RunnerInv` has these parts:

* `Table`: a child is younger than its running parent and of its descent, and no group is named
  after a process that is in another one. `Rooted`: until the measured process is reaped, its
  zombie keeps its identifier and its group from being used again, so that whoever is in the
  group descends from it.
* `Sampled`: how the records read so far fit the table and those still to be read, though every
  one is from another moment: an identifier is not used again while the sample is read (which the
  model assumes, `Available`), and who left a group does not come back.
* `Descended`: there is a record of descent, `m`, that says of every start time whether the
  process started then descends from the measured one, also when that process is gone
  (`Descent(m)`). All that the call knows agrees with it as long as the measured process is not
  reaped, and what it may kill (`before`, `todo`) always does. This is what the code keeps
  `identities_known_before_root_exit` for: after the reaping, `known` may hold strangers. With
  `ClosureDescends` (what a sample adds is of the same descent) it gives `OnlyMeasuredKilledHolds`.
* `Quiet` gives `ResultMeansQuietHolds`: a process that was known and runs is in the last sample
  (the last part of `Sampled`), so a sample with nobody outside the group and nobody in it
  shows that none does (`SampleShowsAll`). `Dealt` gives `LeftoversKilledHolds`, for those that
  `before` holds, and with the except clause `RootNotLeftHolds`, where `lost` is what its two
  exceptions leave behind.

`Closure`, the loop that adds the children of known processes until nothing changes, is written
as the least set closed under `Children`, for which no induction is needed.

`Manifest_proofs` holds the lemmas on sums, concatenations and ranges, and that the compact
metadata of MSR2 stand for a manifest (`ExpandedIsManifest`), and the round trips of chunk tables
and lanes from the writers to the readers.

The prover cannot instantiate the library's induction theorems. Where induction is needed, on
the sort order, on `Entries`, `Sum` and `Concat`, the proofs take the smallest counterexample
(`SmallestNat`, from the well-foundedness of the naturals) and show that a table of
partial results satisfies the recursive definition. `Entries`, `Sum` and `Concat` are written
as recursive functions for that reason.

The proof of `NeverInsideSource` failed in its first form, which spoke of what the source was at
the end of the capture: four coarse changes can turn a file into a directory and back between
the two looks at it. What the code ensures, and what is stated now, is about what was archived:
a single file.

Only model-checked: every liveness property, as fairness and ENABLED are out of the prover's
reach, and `PublishedWhole` without `WithinLaneLimit`, which only instances with short lanes have.

## 6. Plan

1. MSC7: pipeline, authenticated container and transactional file output.
2. Pure algorithms as operators against references: padding, varints and headers,
   content-defined chunking, run-length and delta modes.
3. The native clone3 probe and the qualification of a host.

## 7. Not modelled

The cryptography and the codecs of libraries, the exact bytes of headers and
statistics, Windows, the command line, benchmarks, the corpus inventory, contract and
reports (validation and formatting of records), scripts and fuzzing harnesses: pure I/O or
presentation, or outside what a small instance can show. The MSC7 core is a second,
experimental implementation that no service path reaches. The stat of the destination after
a published decode, and the events of the progress callback, have no effect on any state and
are left out. `PROJECT.json` gives the reason for each component.
