---------------------------- MODULE DedupDecode ------------------------------
(* _decode (dedup_archive.py), behind decode_dedup_archive and               *)
(* inspect_dedup_archive: a unique chunk comes from the next frame, a        *)
(* duplicate from the cache of the chunks that are referenced again.         *)
EXTENDS DecodeCommon

HeaderAcceptedStrict ==   \* faulty: the manifest frame counts against the limit
    archive.format = "MSC6" /\ archive.frameCount <= MaxFrames

HeaderAccepted == archive.format = "MSC6" /\ archive.frameCount - 1 <= MaxFrames

ReadHeader ==
    /\ pc = "header"
    /\ \/ ~HeaderAccepted /\ Fail("ArchiveFormatError")
       \/ /\ HeaderAccepted
          /\ pc' = "manifest"
          /\ UNCHANGED <<given, format, dest, rebinds, error, position, scratch, temp, published>>

ManifestGood ==
    /\ archive.sealed
    /\ ParseDedupManifest(archive.manifest, archive.frameCount)
    /\ TotalSize(archive.manifest) <= MaxOutput

ReadManifest ==
    /\ pc = "manifest"
    /\ \/ ~ManifestGood /\ Fail("ArchiveFormatError")
       \/ ManifestGood /\ ManifestAccepted(archive.manifest)

-----------------------------------------------------------------------------
Record == m.chunks[occurrence + 1]
InEntry == occurrence < m.entries[ix].first + m.entries[ix].count
Referenced == {m.chunks[i].source : i \in {j \in DOMAIN m.chunks : m.chunks[j].source # j - 1}}

(* _read_frame and the checks of its payload: there, in order, authentic,    *)
(* for this occurrence, and with the digest of the record.                   *)
FrameGood ==
    /\ frameIndex <= Len(archive.frames)
    /\ LET f == archive.frames[frameIndex] IN
          /\ f.sealed /\ f.index = frameIndex
          /\ f.occurrence = occurrence /\ f.size = Record.size
          /\ f.chunk = Record.digest

RestoreUnique ==
    /\ pc = "chunks" /\ InEntry /\ Record.source = occurrence
    /\ \/ ~FrameGood /\ Fail("ArchiveFormatError")
       \/ /\ FrameGood
          /\ Write(Record.digest, Record.size)
          /\ frameIndex' = frameIndex + 1
          /\ cache' = IF occurrence \in Referenced THEN cache \cup {occurrence} ELSE cache

(* A chunk file of the cache holds the chunk that was checked when it was    *)
(* written.                                                                  *)
RestoreDuplicate ==
    /\ pc = "chunks" /\ InEntry /\ Record.source # occurrence
    /\ \/ Record.source \notin cache /\ Fail("FileNotFoundError")
       \/ /\ Record.source \in cache
          /\ Write(m.chunks[Record.source + 1].digest, m.chunks[Record.source + 1].size)
          /\ UNCHANGED <<frameIndex, cache>>

(* Every frame was used, and nothing follows the last one. *)
Terminated == frameIndex = archive.frameCount /\ Len(archive.frames) < frameIndex /\ ~archive.trailing

DedupStep ==
    \/ ReadHeader \/ ReadManifest \/ PrepareOutput \/ RestoreDirectory
    \/ OpenSink(m.entries[ix].first)
    \/ RestoreUnique \/ RestoreDuplicate
    \/ pc = "chunks" /\ ~InEntry /\ CloseSink
    \/ Finish(Terminated) \/ Publish \/ RemoveScratch \/ ScratchNotRemoved
=============================================================================
