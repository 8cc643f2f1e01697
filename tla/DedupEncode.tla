---------------------------- MODULE DedupEncode ------------------------------
(* encode_dedup_archive (dedup_archive.py): a first pass over the captured   *)
(* source tree builds the manifest and its chunk table, a second pass reads  *)
(* every file again, checks each chunk against the table and writes the      *)
(* unique ones as frames of the temporary file.                              *)
EXTENDS EncodeCommon

CollisionsRefused ==   \* faulty: the names are normalized and not validated
    \E i, j \in DOMAIN Entries :
        i # j /\ Fold[Normal[Entries[i]]] = Fold[Normal[Entries[j]]]

(* _scan_input without hashing: unsafe names and portable collisions are     *)
(* refused.                                                                  *)
PathsRefused ==
    \/ Root \in Unsafe
    \/ \E i \in DOMAIN Entries : Entries[i] \in Unsafe
    \/ \E i, j \in DOMAIN Entries :
          i # j /\ Fold[Normal[Entries[i]]] = Fold[Normal[Entries[j]]]

ScanInput ==
    /\ pc = "plan"
    /\ \/ PathsRefused /\ FailWith("ValueError")
       \/ /\ ~PathsRefused
          /\ pc' = "scan" /\ ix' = 1 /\ manifest' = EmptyManifest
          /\ UNCHANGED <<fileSystem, session, call, taken, occurrence, output>>

-----------------------------------------------------------------------------
(* _scan_manifest: the first pass. *)

ScanDirectoryEntry ==
    /\ pc = "scan" /\ spc = "ready" /\ ix <= Len(Entries)
    /\ captured[Entries[ix]].kind = "dir"
    /\ manifest' = [manifest EXCEPT !.entries = Append(@, DirEntry(Normal[Entries[ix]]))]
    /\ ix' = ix + 1
    /\ UNCHANGED <<fileSystem, session, call, pc, taken, occurrence, output>>

ScanOpen ==
    /\ pc = "scan" /\ spc = "ready" /\ ix <= Len(Entries)
    /\ captured[Entries[ix]].kind = "file"
    /\ \/ Lookup(Entries[ix]) \notin Discovered /\ FailWith("KeyError")
       \/ /\ Lookup(Entries[ix]) \in Discovered
          /\ RequireAncestors(Lookup(Entries[ix]))
          /\ pc' = "scanning" /\ taken' = <<>>
          /\ UNCHANGED <<call, ix, manifest, occurrence, output>>

ScanChunk ==
    /\ pc = "scanning" /\ spc = "reading" /\ Len(taken) < Len(Stream)
    /\ LET chunk == Stream[Len(taken) + 1] IN
          /\ taken' = Append(taken, chunk)
          /\ manifest' = [manifest EXCEPT !.chunks = Append(@, ChunkRecord(@, chunk, 1))]
    /\ UNCHANGED <<fileSystem, session, call, pc, ix, occurrence, output>>

ScanClose ==
    /\ pc = "scanning" /\ spc = "reading" /\ Len(taken) >= Len(Stream)
    /\ CloseHandle(Len(taken) = captured[cur].size)
    /\ pc' = "scan" /\ ix' = ix + 1
    /\ manifest' = [manifest EXCEPT !.entries = Append(@, FileEntry(Normal[Entries[ix]],
                       captured[Entries[ix]].size, Len(manifest.chunks) - Len(taken),
                       Len(taken), taken))]
    /\ UNCHANGED <<call, taken, occurrence, output>>

Scan == ScanInput \/ ScanDirectoryEntry \/ ScanOpen \/ ScanChunk \/ ScanClose

(* The header fixes the number of frames before any frame is written.        *)
FrameCount == Cardinality(Unique(manifest.chunks)) + 1

ScanDone ==
    /\ pc = "scan" /\ spc = "ready" /\ ix > Len(Entries)
    /\ \/ FrameCount > MaxFrameCount /\ FailWith("ValueError")
       \/ /\ FrameCount <= MaxFrameCount
          /\ pc' = "create"
          /\ UNCHANGED <<fileSystem, session, call, work, output>>

-----------------------------------------------------------------------------
(* The second pass. *)

CreateInPlace ==   \* faulty: the frames go straight to the destination
    /\ pc = "create"
    /\ temp' = [state |-> "open",
                archive |-> [frameCount |-> FrameCount, manifest |-> manifest, frames |-> <<>>]]
    /\ dest' = temp'
    /\ pc' = "encode" /\ ix' = 1 /\ occurrence' = 0
    /\ UNCHANGED <<fileSystem, session, call, taken, manifest, laneDir>>

CreateTemporary ==
    OpenTemporary([frameCount |-> FrameCount, manifest |-> manifest, frames |-> <<>>], "encode", 1)

EncodeSkipDirectory ==
    /\ pc = "encode" /\ spc = "ready" /\ ix <= Len(Entries)
    /\ manifest.entries[ix].kind = "dir"
    /\ ix' = ix + 1
    /\ UNCHANGED <<fileSystem, session, call, pc, taken, manifest, occurrence, output>>

EncodeOpen ==
    /\ pc = "encode" /\ spc = "ready" /\ ix <= Len(Entries)
    /\ manifest.entries[ix].kind = "file"
    /\ RequireAncestors(Lookup(Entries[ix]))
    /\ pc' = "encoding" /\ taken' = <<>>
    /\ UNCHANGED <<call, ix, manifest, occurrence, output>>

(* Each chunk read again must be the one the table has at this occurrence.   *)
SameChunk(record, chunk) == record.digest = chunk /\ record.size = 1

EncodeChunk ==
    /\ pc = "encoding" /\ spc = "reading" /\ Len(taken) < Len(Stream)
    /\ LET chunk == Stream[Len(taken) + 1] IN
       \/ occurrence >= Len(manifest.chunks) /\ FailWith("IndexError")
       \/ /\ occurrence < Len(manifest.chunks)
          /\ ~SameChunk(manifest.chunks[occurrence + 1], chunk)
          /\ FailWith("OSError")
       \/ /\ occurrence < Len(manifest.chunks)
          /\ SameChunk(manifest.chunks[occurrence + 1], chunk)
          /\ taken' = Append(taken, chunk)
          /\ temp' = IF manifest.chunks[occurrence + 1].source = occurrence
                     THEN [temp EXCEPT !.archive.frames =
                              Append(@, [occurrence |-> occurrence, chunk |-> chunk])]
                     ELSE temp
          /\ occurrence' = occurrence + 1
          /\ UNCHANGED <<fileSystem, session, call, pc, ix, manifest, dest, laneDir>>

EncodeClose ==
    /\ pc = "encoding" /\ spc = "reading" /\ Len(taken) >= Len(Stream)
    /\ CloseHandle(taken = manifest.entries[ix].digest)
    /\ pc' = "encode" /\ ix' = ix + 1
    /\ UNCHANGED <<call, taken, manifest, occurrence, output>>

Flush == pc = "encode" /\ spc = "ready" /\ ix > Len(Entries) /\ Synced

CountsDiffer ==
    \/ occurrence # Len(manifest.chunks)
    \/ Len(temp.archive.frames) + 1 # temp.archive.frameCount

VerifyUnchanged ==
    /\ pc = "check"
    /\ \/ CountsDiffer /\ FailWith("RuntimeError")
       \/ ~CountsDiffer /\ VerifyBindings

Publish == Replaced("done")

DedupStep ==
    \/ Start \/ SessionCaptured \/ Scan \/ ScanDone
    \/ CreateTemporary \/ EncodeSkipDirectory \/ EncodeOpen \/ EncodeChunk \/ EncodeClose
    \/ Flush \/ VerifyUnchanged \/ Publish
=============================================================================
