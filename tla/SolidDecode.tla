------------------------------ MODULE SolidDecode ------------------------------
(* decode_solid_archive (solid_archive.py, MSR1) reads and checks the whole  *)
(* archive in memory; decode_solid_archive_v2 and inspect_solid_archive_v2   *)
(* (solid_archive_v2.py, MSR2) decompress the lanes frame by frame into a    *)
(* spool directory and check every chunk there.  Both then restore the       *)
(* entries from the canonical chunks.                                        *)
EXTENDS DecodeCommon

UniqueOccurrences(manifest) == {i - 1 : i \in Unique(manifest.chunks)}

(* _read_archive *)
SolidAccepted ==
    /\ archive.format = "MSR1" /\ ~archive.trailing /\ archive.sealed
    /\ Len(archive.frames) = 1
    /\ ParseDedupManifest(archive.manifest, archive.unique + 1)
    /\ DecodeSolid(archive.frames[1], SizesOf(archive.manifest))

SolidChunksGood ==
    ChunksRestored(archive.manifest,
                   LAMBDA k : SolidChunk(archive.frames[1], SizesOf(archive.manifest), k))

ReadSolid ==
    /\ pc = "header"
    /\ \/ ~SolidAccepted /\ Fail("ArchiveFormatError")
       \/ SolidAccepted /\ ~SolidChunksGood /\ Fail("IntegrityError")
       \/ /\ SolidAccepted /\ SolidChunksGood
          /\ m' = archive.manifest
          /\ cache' = UniqueOccurrences(archive.manifest)
          /\ pc' = "prepare"
          /\ UNCHANGED <<given, format, dest, rebinds, error, ix, occurrence, frameIndex, taken,
                         written, spool, temp, published>>

-----------------------------------------------------------------------------
(* MSR2: the metadata, then the lanes. *)

MetadataAccepted ==
    /\ archive.format = "MSR2" /\ archive.sealed
    /\ ParseMetadata(archive.metadata, archive.unique)
    /\ TotalSize(ReadManifestOf(archive.metadata)) <= MaxOutput
    /\ Sum([l \in 1 .. 3 |-> archive.metadata.frameCounts[l - 1]]) <= MaxFrames

ReadMetadata ==
    /\ pc = "header"
    /\ \/ ~MetadataAccepted /\ Fail("ArchiveFormatError")
       \/ /\ MetadataAccepted
          /\ m' = ReadManifestOf(archive.metadata)
          /\ pc' = "lanes" /\ ix' = 0 /\ occurrence' = 0 /\ frameIndex' = 1
          /\ UNCHANGED <<given, format, dest, rebinds, error, taken, written, scratch, temp,
                         published>>

Assigned == ReadLanesOf(archive.metadata, archive.unique)
ExpectedSize(lane) == RawSize(m, Assigned, lane)
InLane == occurrence < archive.metadata.frameCounts[ix]
Final == occurrence = archive.metadata.frameCounts[ix] - 1

FitsInTheEnd(units) == TRUE   \* faulty: the size of a lane is only compared at its end

Fits(units) == Len(spool[ix]) + Len(units) <= ExpectedSize(ix)

LaneFrameGood ==
    /\ frameIndex <= Len(archive.frames)
    /\ LET f == archive.frames[frameIndex]
           codec == ReadCodecOf(archive.metadata, ix)
       IN  /\ f.sealed /\ HeaderGood(f, frameIndex, ix, Final) /\ PayloadSizeGood(f, Final)
           /\ Fits(FrameUnits(f, codec))
           /\ StreamEnds(f, codec, Final)

ReadLaneFrame ==
    /\ pc = "lanes" /\ ix \in Lanes /\ InLane
    /\ \/ ~LaneFrameGood /\ Fail("ArchiveFormatError")
       \/ /\ LaneFrameGood
          /\ LET units == FrameUnits(archive.frames[frameIndex], ReadCodecOf(archive.metadata, ix))
             IN  /\ spool' = [spool EXCEPT ![ix] = @ \o units]
                 /\ written' = written + Len(units)
          /\ frameIndex' = frameIndex + 1 /\ occurrence' = occurrence + 1
          /\ UNCHANGED <<given, format, dest, rebinds, pc, error, m, ix, taken, cache, temp,
                         published>>

LaneDone ==
    /\ pc = "lanes" /\ ix \in Lanes /\ ~InLane
    /\ \/ Len(spool[ix]) # ExpectedSize(ix) /\ Fail("ArchiveFormatError")
       \/ /\ Len(spool[ix]) = ExpectedSize(ix)
          /\ ix' = ix + 1 /\ occurrence' = 0
          /\ UNCHANGED <<given, format, dest, rebinds, pc, error, m, frameIndex, taken, written,
                         scratch, temp, published>>

NothingFollows == Len(archive.frames) < frameIndex /\ ~archive.trailing

LaneChunksGood == ChunksRestored(m, LAMBDA k : ChunkIn(spool, Assigned, SizesOf(m), k))

(* Every unique chunk is read from its lane, checked and copied.             *)
CopyCanonical ==
    /\ pc = "lanes" /\ ix \notin Lanes
    /\ \/ ~NothingFollows /\ Fail("ArchiveFormatError")
       \/ NothingFollows /\ ~LaneChunksGood /\ Fail("IntegrityError")
       \/ /\ NothingFollows /\ LaneChunksGood
          /\ cache' = UniqueOccurrences(m)
          /\ pc' = "prepare"
          /\ UNCHANGED <<given, format, dest, rebinds, error, position, spool, temp, published>>

-----------------------------------------------------------------------------
(* _restore, and the same loop of decode_solid_archive. *)

MoreChunks == occurrence < m.entries[ix].first + m.entries[ix].count

RestoreCanonical ==
    /\ pc = "chunks" /\ MoreChunks
    /\ LET at == m.chunks[occurrence + 1].source IN
          \/ at \notin cache /\ Fail("KeyError")
          \/ /\ at \in cache
             /\ Write(m.chunks[at + 1].digest, m.chunks[at + 1].size)
             /\ UNCHANGED <<frameIndex, cache>>

Restore ==
    \/ PrepareOutput \/ RestoreDirectory \/ OpenSink(m.entries[ix].first) \/ RestoreCanonical
    \/ pc = "chunks" /\ ~MoreChunks /\ CloseSink
    \/ Finish(TRUE) \/ Publish

SolidStep == ReadSolid \/ Restore

LanesStep ==
    \/ ReadMetadata \/ ReadLaneFrame \/ LaneDone \/ CopyCanonical \/ Restore
    \/ RemoveScratch \/ ScratchNotRemoved
=============================================================================
