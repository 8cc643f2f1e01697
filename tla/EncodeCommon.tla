---------------------------- MODULE EncodeCommon -----------------------------
(* What encode_file, encode_stream_archive, encode_dedup_archive and the two *)
(* encode_solid_archive functions have in common: the request is checked, a  *)
(* SourceSession captures the source, the format's own passes fill a         *)
(* temporary file beside the destination, and the file is renamed over the   *)
(* destination once it is on disk and the whole tree was found unchanged.    *)
(* Other processes change the tree meanwhile; any step may fail, and the     *)
(* process or the machine may stop.                                          *)
EXTENDS SourceSession, DedupManifest

CONSTANTS
    Starts,         \* what an encoder may be started on: a source tree, the calls made for
                    \* it, and how many changes other processes may make to it
    Normal,         \* validate_relative_path: the NFC form of each path
    MaxFrameCount   \* the largest number of frames an archive may have

Format == {"MSC1", "MSC2", "MSC6", "MSR1", "MSR2"}
Request == {"outside", "inside", "same", "options"}

(* Normal form is idempotent, and only the root is called "".                *)
ASSUME EncodeAssumption ==
    /\ Normal \in [Path -> DOMAIN Fold]
    /\ \A p \in Path : Normal[p] \in Path => Normal[Normal[p]] = Normal[p]
    /\ \A p \in Path \ {Root} : Normal[p] # Root
    /\ \A s \in Starts : SourceTree(s) /\ s.requests \subseteq Request /\ s.formats \subseteq Format
    /\ MaxFrameCount \in Nat

(* The names validate_relative_path refuses. *)
Unsafe == {p \in Path : Normal[p] \notin Portable}

VARIABLES
    format,      \* the function that was called, by the format it writes
    request,     \* how the destination lies to the source, or wrong options
    wasDir,      \* source_is_directory, read before the session captured the root
    pc,          \* where the encoder is
    ix,          \* the manifest entry being scanned or encoded; the lane being written
    taken,       \* chunks read from the open file, file_digest
    manifest,    \* the manifest under construction
    occurrence,  \* chunks of the second pass
    temp,        \* the temporary file beside the destination
    dest,        \* the destination path; absent stands for what it held before
    laneDir,     \* the temporary directory with the lanes is there (MSR2)
    snapshot     \* history: the tree when discovery ended

call    == <<format, request, wasDir, snapshot>>
work    == <<ix, taken, manifest, occurrence>>
output  == <<temp, dest, laneDir>>
encoder == <<call, pc, work, output>>
vars    == <<fileSystem, session, encoder>>

NoManifest == [kind |-> "folder", root |-> Normal[Root], entries |-> <<>>, chunks |-> <<>>]
NoFile == [state |-> "absent",
           archive |-> [frameCount |-> 0, manifest |-> NoManifest, frames |-> <<>>]]

Running == pc \notin {"done", "failed", "killed", "off"}

(* The except and finally clauses: the stream, the temporary file and the    *)
(* directory of the lanes go, and the exception leaves the function.         *)
Cleanup ==
    /\ handle' = NoIno
    /\ temp' = NoFile /\ laneDir' = FALSE
    /\ pc' = "failed"

FailWith(error) ==
    /\ spc' = "raised" /\ cause' = error
    /\ Cleanup
    /\ UNCHANGED <<fileSystem, captured, walk, call, work, dest>>

-----------------------------------------------------------------------------
(* Up to the captured tree. *)

RequestRefused ==
    \/ request \in {"same", "options"}
    \/ request = "inside" /\ Stat(Root).kind = "dir"

Start ==
    /\ pc = "start"
    /\ \/ RequestRefused /\ FailWith("ValueError")
       \/ /\ ~RequestRefused
          /\ wasDir' = (Stat(Root).kind = "dir")
          /\ pc' = "session"
          /\ UNCHANGED <<fileSystem, session, format, request, snapshot, work, output>>

NotLookedAtAgain == FALSE   \* faulty: the captured root is not compared

BecameDirectory == ~wasDir /\ captured[Root].kind = "dir" /\ request = "inside"

Tree == [p \in Path |-> IF name[p] = NoIno THEN [kind |-> "absent", data |-> <<>>]
                        ELSE [kind |-> inode[name[p]].kind, data |-> inode[name[p]].data]]

SessionCaptured ==
    /\ pc = "session" /\ spc = "ready"
    /\ \/ BecameDirectory /\ FailWith("ValueError")
       \/ /\ ~BecameDirectory
          /\ pc' = "plan"
          /\ snapshot' = Tree
          /\ UNCHANGED <<fileSystem, session, format, request, wasDir, work, output>>

(* session.entries, in their sort order: the root itself when it is a file.  *)
RootIsFile == captured[Root].kind = "file"
Entries ==
    LET upTo[k \in 0 .. Len(PathOrder)] ==
            IF k <= 1 THEN <<>>
            ELSE IF PathOrder[k] \in Discovered THEN Append(upTo[k - 1], PathOrder[k])
            ELSE upTo[k - 1]
    IN  IF RootIsFile THEN <<Root>> ELSE upTo[Len(PathOrder)]

(* An entry carries its normalized path, and that is what the session is     *)
(* asked for; the root of a single-file archive is asked for as "".          *)
Lookup(p) == IF RootIsFile THEN Root ELSE Normal[p]

EmptyManifest == [kind |-> IF RootIsFile THEN "file" ELSE "folder",
                  root |-> Normal[Root], entries |-> <<>>, chunks |-> <<>>]

-----------------------------------------------------------------------------
(* The temporary file and what becomes of it. *)

OpenTemporary(archive, next, first) ==
    /\ pc = "create"
    /\ temp' = [state |-> "open", archive |-> archive]
    /\ pc' = next /\ ix' = first /\ occurrence' = 0
    /\ UNCHANGED <<fileSystem, session, call, taken, manifest, dest, laneDir>>

(* output.flush(); os.fsync(output.fileno()) *)
Synced ==
    /\ temp' = [temp EXCEPT !.state = "synced"]
    /\ pc' = "check"
    /\ UNCHANGED <<fileSystem, session, call, work, dest, laneDir>>

(* source_session.verify_bindings() *)
VerifyBindings ==
    /\ VerifyRoot
    /\ pc' = "verify"
    /\ UNCHANGED <<call, work, output>>

(* os.replace(temporary_name, destination) *)
Replaced(next) ==
    /\ pc = "verify" /\ spc = "verified"
    /\ dest' = temp /\ temp' = NoFile
    /\ pc' = next
    /\ UNCHANGED <<fileSystem, session, call, work, laneDir>>

-----------------------------------------------------------------------------
(* An exception of the session, or of any call of the encoder (an I/O error, *)
(* the progress callback), reaches the finally clause.                       *)
SessionRaised ==
    /\ Running /\ spc = "raised"
    /\ Cleanup
    /\ UNCHANGED <<fileSystem, captured, walk, spc, cause, call, work, dest>>

Fault == Running /\ pc \notin {"start", "unspool"} /\ spc # "raised" /\ FailWith("Exception")

(* The process is killed: nothing is cleaned up. *)
Kill ==
    /\ Running
    /\ pc' = "killed" /\ handle' = NoIno
    /\ UNCHANGED <<fileSystem, captured, walk, spc, cause, call, work, output>>

(* The machine stops: a file that was not flushed keeps any prefix of its    *)
(* frames, and the last rename may be undone.                                *)
Prefixes(file) ==
    IF file.state = "open"
    THEN {[file EXCEPT !.archive.frames = SubSeq(@, 1, n)] : n \in 0 .. Len(file.archive.frames)}
    ELSE {file}

PowerLoss ==
    /\ pc # "off"
    /\ temp' \in Prefixes(temp)
    /\ \/ dest' \in Prefixes(dest)
       \/ dest' = NoFile
    /\ pc' = "off" /\ handle' = NoIno
    /\ UNCHANGED <<fileSystem, captured, walk, spc, cause, call, work, laneDir>>
=============================================================================
