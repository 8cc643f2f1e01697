---------------------------- MODULE StreamEncode -----------------------------
(* encode_stream_archive (stream_archive.py, MSC2): every file is read once  *)
(* for its digest and once more for its blocks, each of which becomes a      *)
(* frame as soon as it is read.  encode_file (archive.py, MSC1): one file,   *)
(* read once into memory.                                                    *)
EXTENDS EncodeCommon, StreamManifest

(* _scan_input with hashing: entries are validated and hashed one by one.    *)
StreamPlan ==
    /\ pc = "plan"
    /\ \/ Root \in Unsafe /\ FailWith("ValueError")
       \/ /\ Root \notin Unsafe
          /\ pc' = "scan" /\ ix' = 1 /\ manifest' = EmptyManifest
          /\ UNCHANGED <<fileSystem, session, call, taken, occurrence, output>>

Earlier == {Entries[j] : j \in 1 .. ix - 1}

EntryRefused ==
    \/ Entries[ix] \in Unsafe
    \/ \E p \in Earlier : Fold[Normal[p]] = Fold[Normal[Entries[ix]]]

StreamScanRefused ==
    /\ pc = "scan" /\ spc = "ready" /\ ix <= Len(Entries)
    /\ EntryRefused /\ FailWith("ValueError")

StreamScanDirectory ==
    /\ pc = "scan" /\ spc = "ready" /\ ix <= Len(Entries)
    /\ ~EntryRefused /\ captured[Entries[ix]].kind = "dir"
    /\ manifest' = [manifest EXCEPT !.entries = Append(@, DirEntry(Normal[Entries[ix]]))]
    /\ ix' = ix + 1
    /\ UNCHANGED <<fileSystem, session, call, pc, taken, occurrence, output>>

HashOpen ==
    /\ pc = "scan" /\ spc = "ready" /\ ix <= Len(Entries)
    /\ ~EntryRefused /\ captured[Entries[ix]].kind = "file"
    /\ RequireAncestors(Entries[ix])
    /\ pc' = "scanning" /\ taken' = <<>>
    /\ UNCHANGED <<call, ix, manifest, occurrence, output>>

HashBlock ==
    /\ pc = "scanning" /\ spc = "reading" /\ Len(taken) < Len(Stream)
    /\ taken' = Append(taken, Stream[Len(taken) + 1])
    /\ UNCHANGED <<fileSystem, session, call, pc, ix, manifest, occurrence, output>>

(* The size read must be the size captured; the entry takes the next frames. *)
HashClose ==
    /\ pc = "scanning" /\ spc = "reading" /\ Len(taken) >= Len(Stream)
    /\ CloseHandle(Len(taken) = captured[cur].size)
    /\ pc' = "scan" /\ ix' = ix + 1
    /\ manifest' = [manifest EXCEPT !.entries = Append(@, FileEntry(Normal[Entries[ix]],
                       Len(taken), 1 + FramesBefore(manifest, ix), FramesFor(Len(taken)), taken))]
    /\ UNCHANGED <<call, taken, occurrence, output>>

DataFrames == FramesBefore(manifest, Len(manifest.entries) + 1)

StreamScanDone ==
    /\ pc = "scan" /\ spc = "ready" /\ ix > Len(Entries)
    /\ \/ 1 + DataFrames > MaxFrameCount /\ FailWith("ValueError")
       \/ /\ 1 + DataFrames <= MaxFrameCount
          /\ pc' = "create"
          /\ UNCHANGED <<fileSystem, session, call, work, output>>

-----------------------------------------------------------------------------
(* The second pass: every block becomes a frame, whatever the first pass     *)
(* found; the digest of the whole file is compared when it is read.          *)

StreamCreate ==
    OpenTemporary([frameCount |-> 1 + DataFrames, manifest |-> manifest, frames |-> <<>>],
                  "encode", 1)

StreamSkipDirectory ==
    /\ pc = "encode" /\ spc = "ready" /\ ix <= Len(Entries)
    /\ manifest.entries[ix].kind = "dir"
    /\ ix' = ix + 1
    /\ UNCHANGED <<fileSystem, session, call, pc, taken, manifest, occurrence, output>>

StreamOpen ==
    /\ pc = "encode" /\ spc = "ready" /\ ix <= Len(Entries)
    /\ manifest.entries[ix].kind = "file"
    /\ \/ Lookup(Entries[ix]) \notin Discovered /\ FailWith("KeyError")
       \/ /\ Lookup(Entries[ix]) \in Discovered
          /\ RequireAncestors(Lookup(Entries[ix]))
          /\ pc' = "encoding" /\ taken' = <<>>
          /\ UNCHANGED <<call, ix, manifest, occurrence, output>>

StreamBlock ==
    /\ pc = "encoding" /\ spc = "reading" /\ Len(taken) < Len(Stream)
    /\ LET block == Stream[Len(taken) + 1] IN
          /\ taken' = Append(taken, block)
          /\ temp' = [temp EXCEPT !.archive.frames =
                         Append(@, [entry |-> ix - 1, chunk |-> block, size |-> 1])]
    /\ UNCHANGED <<fileSystem, session, call, pc, ix, manifest, occurrence, dest, laneDir>>

StreamCloseSizeOnly ==   \* faulty: the digest of the second reading is not compared
    /\ pc = "encoding" /\ spc = "reading" /\ Len(taken) >= Len(Stream)
    /\ CloseHandle(Len(taken) = manifest.entries[ix].size)
    /\ pc' = "encode" /\ ix' = ix + 1
    /\ UNCHANGED <<call, taken, manifest, occurrence, output>>

StreamClose ==
    /\ pc = "encoding" /\ spc = "reading" /\ Len(taken) >= Len(Stream)
    /\ CloseHandle(Len(taken) = manifest.entries[ix].size /\ taken = manifest.entries[ix].digest)
    /\ pc' = "encode" /\ ix' = ix + 1
    /\ UNCHANGED <<call, taken, manifest, occurrence, output>>

(* The frame count is checked, then the file is flushed to the disk.         *)
StreamFlush ==
    /\ pc = "encode" /\ spc = "ready" /\ ix > Len(Entries)
    /\ \/ Len(temp.archive.frames) + 1 # temp.archive.frameCount /\ FailWith("RuntimeError")
       \/ Len(temp.archive.frames) + 1 = temp.archive.frameCount /\ Synced

StreamVerify == pc = "check" /\ VerifyBindings

StreamPublish == Replaced("done")

StreamStep ==
    \/ Start \/ SessionCaptured \/ StreamPlan
    \/ StreamScanRefused \/ StreamScanDirectory \/ HashOpen \/ HashBlock \/ HashClose
    \/ StreamScanDone \/ StreamCreate \/ StreamSkipDirectory
    \/ StreamOpen \/ StreamBlock \/ StreamClose
    \/ StreamFlush \/ StreamVerify \/ StreamPublish

-----------------------------------------------------------------------------
(* encode_file.  The name of the file is stored as it is: only the encoders  *)
(* of trees validate names.                                                  *)

SingleStart ==
    /\ pc = "start"
    /\ \/ Stat(Root).kind # "file" /\ FailWith("FileNotFoundError")
       \/ Stat(Root).kind = "file" /\ request = "same" /\ FailWith("ValueError")
       \/ /\ Stat(Root).kind = "file" /\ request # "same"
          /\ pc' = "session"
          /\ UNCHANGED <<fileSystem, session, call, work, output>>

SingleCaptured ==
    /\ pc = "session" /\ spc = "ready"
    /\ \/ ~RootIsFile /\ FailWith("FileNotFoundError")
       \/ RootIsFile /\ request = "options" /\ FailWith("ValueError")
       \/ /\ RootIsFile /\ request # "options"
          /\ RequireAncestors(Root)
          /\ pc' = "scanning" /\ taken' = <<>>
          /\ snapshot' = Tree
          /\ UNCHANGED <<format, request, wasDir, ix, manifest, occurrence, output>>

SingleRead ==
    /\ pc = "scanning" /\ spc = "reading" /\ Len(taken) < Len(Stream)
    /\ taken' = Append(taken, Stream[Len(taken) + 1])
    /\ UNCHANGED <<fileSystem, session, call, pc, ix, manifest, occurrence, output>>

SingleReadAll ==
    /\ pc = "scanning" /\ spc = "reading" /\ Len(taken) >= Len(Stream)
    /\ CloseHandle(TRUE)
    /\ pc' = "built"
    /\ UNCHANGED <<call, work, output>>

SingleManifest ==
    [EmptyManifest EXCEPT !.root = Root,
        !.entries = <<FileEntry(Root, Len(taken), 1, FramesFor(Len(taken)), taken)>>]

(* The rest of _build_inner_stream, padding and encryption, all in memory.   *)
BuildInnerStream ==
    /\ pc = "built" /\ spc = "ready"
    /\ \/ Len(taken) > MaxFrameCount /\ FailWith("ValueError")
       \/ /\ Len(taken) <= MaxFrameCount
          /\ manifest' = SingleManifest
          /\ pc' = "create"
          /\ UNCHANGED <<fileSystem, session, call, ix, taken, occurrence, output>>

(* _write_atomic *)
SingleWrite ==
    OpenTemporary([frameCount |-> Len(taken), manifest |-> manifest,
                   frames |-> [k \in DOMAIN taken |->
                                  [entry |-> 0, chunk |-> taken[k], size |-> 1]]], "flush", 1)

SingleFlush == pc = "flush" /\ Synced

SingleVerify == pc = "check" /\ VerifyBindings

SinglePublish == Replaced("done")

SingleStep ==
    \/ SingleStart \/ SingleCaptured \/ SingleRead \/ SingleReadAll \/ BuildInnerStream
    \/ SingleWrite \/ SingleFlush \/ SingleVerify \/ SinglePublish
=============================================================================
