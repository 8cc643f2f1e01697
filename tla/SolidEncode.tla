----------------------------- MODULE SolidEncode -----------------------------
(* encode_solid_archive (solid_archive.py, MSR1) and encode_solid_archive_v2 *)
(* (solid_archive_v2.py, MSR2): the first pass of encode_dedup_archive is    *)
(* the only one, and hands every unique chunk over as it finds it, to memory *)
(* (MSR1) or to lane files in a directory beside the destination (MSR2).     *)
EXTENDS DedupEncode, SolidLanes

UniqueCount == Cardinality(Unique(manifest.chunks))

ScanComplete == pc = "scan" /\ spc = "ready" /\ ix > Len(Entries)

(* MSR1: all of the archive is put together in memory, then written. *)
SolidBuilt ==
    /\ ScanComplete /\ pc' = "create"
    /\ UNCHANGED <<fileSystem, session, call, work, output>>

SolidWrite ==
    OpenTemporary([unique |-> UniqueCount, manifest |-> manifest,
                   frames |-> <<SolidPayload(manifest)>>], "flush", 0)

SolidFlush == pc = "flush" /\ Synced

SolidUnverified ==   \* faulty: the tree is not walked again
    /\ pc = "check" /\ spc = "ready"
    /\ pc' = "verify" /\ spc' = "verified"
    /\ UNCHANGED <<fileSystem, captured, walk, handle, cause, call, work, output>>

SolidVerify == pc = "check" /\ VerifyBindings

SolidPublish == Replaced("done")

(* The lanes' directory is made before the first pass. *)
CreateLanes ==
    /\ pc = "plan" /\ ~laneDir
    /\ laneDir' = TRUE
    /\ UNCHANGED <<fileSystem, session, call, pc, work, temp, dest>>

-----------------------------------------------------------------------------
(* MSR2: lanes are compressed, the metadata is sealed, and the lanes follow  *)
(* it frame by frame.                                                        *)

LaneContent(lane) == LaneUnits(manifest, Assignments(manifest), lane)
LaneCodec == [l \in Lanes |-> ChosenCodec(LaneContent(l), l)]
Payload(lane) == LanePayload(LaneContent(lane), LaneCodec[lane])
FrameCounts == [l \in Lanes |-> FrameTotal(Len(Payload(l)))]

CompressLanes ==
    /\ ScanComplete /\ pc' = "create"
    /\ UNCHANGED <<fileSystem, session, call, work, output>>

WriteMetadata ==
    OpenTemporary([unique |-> UniqueCount, frames |-> <<>>,
                   metadata |-> CompactMetadata(manifest, Assignments(manifest), FrameCounts,
                                                LaneCodec)], "lanes", 0)

WriteLane ==
    /\ pc = "lanes" /\ ix \in Lanes
    /\ temp' = [temp EXCEPT !.archive.frames =
                   @ \o LaneFrames(Payload(ix), ix, Len(@) + 1)]
    /\ ix' = ix + 1
    /\ UNCHANGED <<fileSystem, session, call, pc, taken, manifest, occurrence, dest, laneDir>>

LanesFlush == pc = "lanes" /\ ix \notin Lanes /\ Synced

LanesVerify == pc = "check" /\ VerifyBindings

LanesPublish == Replaced("unspool")

LanesRemain ==   \* faulty: the directory of the lanes is left
    /\ pc = "unspool"
    /\ pc' = "done"
    /\ UNCHANGED <<fileSystem, session, call, work, output>>

(* The with block of the lanes ends after the archive was published.         *)
RemoveLanes ==
    /\ pc = "unspool"
    /\ laneDir' = FALSE
    /\ pc' = "done"
    /\ UNCHANGED <<fileSystem, session, call, work, temp, dest>>

(* When that fails, so does the call, although the archive is published.     *)
LanesNotRemoved ==
    /\ pc = "unspool"
    /\ spc' = "raised" /\ cause' = "OSError" /\ pc' = "failed"
    /\ UNCHANGED <<fileSystem, captured, walk, handle, call, work, output>>

SolidStep ==
    \/ Start \/ SessionCaptured \/ Scan \/ SolidBuilt \/ SolidWrite \/ SolidFlush
    \/ SolidVerify \/ SolidPublish

LanesStep ==
    \/ Start \/ SessionCaptured \/ CreateLanes
    \/ laneDir /\ Scan
    \/ CompressLanes \/ WriteMetadata \/ WriteLane \/ LanesFlush
    \/ LanesVerify \/ LanesPublish \/ RemoveLanes \/ LanesNotRemoved
=============================================================================
