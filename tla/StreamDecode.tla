----------------------------- MODULE StreamDecode -----------------------------
(* _decode_or_inspect (stream_archive.py, MSC2): the blocks of the files     *)
(* come from the frames in order.  decode_file and inspect_archive           *)
(* (archive.py, MSC1): the whole archive is read, decrypted and parsed, then *)
(* its records are written out.                                              *)
EXTENDS DecodeCommon

StreamHeaderAccepted == archive.format = "MSC2" /\ archive.frameCount - 1 <= MaxFrames

StreamHeader ==
    /\ pc = "header"
    /\ \/ ~StreamHeaderAccepted /\ Fail("ArchiveFormatError")
       \/ /\ StreamHeaderAccepted
          /\ pc' = "manifest"
          /\ UNCHANGED <<given, format, dest, rebinds, error, position, scratch, temp, published>>

StreamManifestGood ==
    /\ archive.sealed
    /\ ParseManifest(archive.manifest, archive.frameCount)
    /\ TotalSize(archive.manifest) <= MaxOutput

StreamReadManifest ==
    /\ pc = "manifest"
    /\ \/ ~StreamManifestGood /\ Fail("ArchiveFormatError")
       \/ StreamManifestGood /\ ManifestAccepted(archive.manifest)

MoreBlocks == occurrence < m.entries[ix].count

BlockGood ==
    /\ frameIndex <= Len(archive.frames)
    /\ LET f == archive.frames[frameIndex] IN
          /\ f.sealed /\ f.index = frameIndex
          /\ f.entry = ix - 1 /\ f.size = BlockSize(m, ix, occurrence)

RestoreBlock ==
    /\ pc = "chunks" /\ MoreBlocks
    /\ \/ ~BlockGood /\ Fail("ArchiveFormatError")
       \/ /\ BlockGood
          /\ Write(archive.frames[frameIndex].chunk, archive.frames[frameIndex].size)
          /\ frameIndex' = frameIndex + 1
          /\ UNCHANGED cache

StreamTerminated ==
    frameIndex = archive.frameCount /\ Len(archive.frames) < frameIndex /\ ~archive.trailing

StreamStep ==
    \/ StreamHeader \/ StreamReadManifest \/ PrepareOutput \/ RestoreDirectory
    \/ OpenSink(0) \/ RestoreBlock
    \/ pc = "chunks" /\ ~MoreBlocks /\ CloseSink
    \/ Finish(StreamTerminated) \/ Publish

-----------------------------------------------------------------------------
(* _open_archive and _parse_inner. *)

SingleHeaderAccepted ==
    archive.format = "MSC1" /\ Len(archive.frames) <= MaxArchive /\ ~archive.trailing

SingleHeader ==
    /\ pc = "header"
    /\ \/ ~SingleHeaderAccepted /\ Fail("ArchiveFormatError")
       \/ /\ SingleHeaderAccepted
          /\ pc' = "inner"
          /\ UNCHANGED <<given, format, dest, rebinds, error, position, scratch, temp, published>>

InnerGood ==
    /\ archive.sealed
    /\ TotalSize(archive.manifest) <= MaxOutput
    /\ archive.frameCount <= MaxFrames
    /\ ParseInner(archive)

(* A file is restored whatever the destination is. *)
ReadInner ==
    /\ pc = "inner"
    /\ \/ ~InnerGood /\ Fail("ArchiveFormatError")
       \/ InnerGood /\ ManifestAccepted(archive.manifest)

(* _decode_records *)
RestoreRecord ==
    /\ pc = "chunks" /\ frameIndex <= Len(archive.frames)
    /\ Write(archive.frames[frameIndex].chunk, archive.frames[frameIndex].size)
    /\ frameIndex' = frameIndex + 1
    /\ UNCHANGED cache

SingleStep ==
    \/ SingleHeader \/ ReadInner \/ PrepareOutput
    \/ OpenSink(0) \/ RestoreRecord
    \/ pc = "chunks" /\ frameIndex > Len(archive.frames) /\ CloseSink
    \/ Finish(TRUE) \/ Publish
=============================================================================
