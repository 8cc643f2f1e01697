------------------------------- MODULE Encoders -------------------------------
(* The five encoders as encode_path (archive_api.py) dispatches to them, by  *)
(* the format asked for, each on a source tree that other processes change,  *)
(* with faults, kills and power losses between any two of its steps.         *)
EXTENDS StreamEncode, SolidEncode

(* What the constants of the manifests have to do with those of the source:  *)
(* normal form acts on every component of a path, so a normalized path is    *)
(* below its normalized parent; a block of file data is one chunk long, and  *)
(* every chunk has a lane.                                                   *)
ASSUME FormatAssumption ==
    /\ Normal \in [Path -> DOMAIN ParentOf] /\ Root \in DOMAIN ParentOf
    /\ ParentOf[Root] = Root
    /\ \A p \in Path :
          ParentOf[Normal[p]] = IF p = Root \/ Parent[p] = Root THEN Normal[p] ELSE Normal[Parent[p]]
    /\ MaxChunk = 1
    /\ Chunk \subseteq DOMAIN LaneOf

Init ==
    /\ \E start \in Starts :
          /\ SessionInit(start)
          /\ request \in start.requests /\ format \in start.formats
    /\ wasDir = FALSE /\ pc = "start"
    /\ ix = 0 /\ taken = <<>> /\ occurrence = 0 /\ manifest = NoManifest
    /\ temp = NoFile /\ dest = NoFile /\ laneDir = FALSE
    /\ snapshot = Tree

Mutation == Running /\ Mutate /\ UNCHANGED encoder

EncoderStep ==
    \/ format = "MSC6" /\ DedupStep
    \/ format = "MSC2" /\ StreamStep
    \/ format = "MSC1" /\ SingleStep
    \/ format = "MSR1" /\ SolidStep
    \/ format = "MSR2" /\ LanesStep
    \/ SessionRaised

SessionProgress == Running /\ pc # "start" /\ SessionStep /\ UNCHANGED encoder

Stopped == ~Running /\ UNCHANGED vars

Next ==
    \/ EncoderStep \/ SessionProgress
    \/ Mutation \/ Fault \/ Kill \/ PowerLoss \/ Stopped

Spec == Init /\ [][Next]_vars

FairSpec == Spec /\ WF_vars(EncoderStep) /\ WF_vars(SessionProgress)

-----------------------------------------------------------------------------
EntryPath == DOMAIN Fold
Manifest == [kind : {"file", "folder"}, root : EntryPath,
             entries : Seq([kind : {"file", "dir"}, path : EntryPath, size : Nat, first : Nat,
                            count : Nat, digest : Seq(Chunk) \cup {ZeroHash}]),
             chunks : Seq([digest : Chunk, size : {1}, source : Nat])]
FileState == {"absent", "open", "synced"}

(* Every variable of the encoder and of its session has its type. *)
TypeOK ==
    /\ SessionTypeOK
    /\ format \in Format /\ request \in Request /\ wasDir \in BOOLEAN
    /\ pc \in {"start", "session", "plan", "scan", "scanning", "built", "create", "encode",
               "encoding", "lanes", "flush", "check", "verify", "unspool",
               "done", "failed", "killed", "off"}
    /\ ix \in Nat /\ taken \in Seq(Chunk) /\ occurrence \in Nat
    /\ manifest \in Manifest
    /\ temp.state \in FileState /\ dest.state \in FileState
    /\ laneDir \in BOOLEAN

Published == dest.state # "absent"

WholeArchive(a) ==
    CASE format = "MSC1" -> SingleWhole(a)
      [] format = "MSC2" -> StreamWhole(a)
      [] format = "MSC6" -> Whole(a)
      [] format = "MSR1" -> SolidWhole(a)
      [] format = "MSR2" -> LanesWhole(a)

ManifestOf(a) == IF format = "MSR2" THEN Expanded(a.metadata) ELSE a.manifest

(* Whatever other processes do to the source, with or without a timestamp    *)
(* that shows it, and wherever the machine stops: an archive found at the    *)
(* destination is one its decoder reads, has every frame its header or its   *)
(* metadata announces, restores every file to the digest recorded for it,    *)
(* lists directories before what is in them, and names nothing that could    *)
(* not be made, or made apart from the others, on another platform.  The one *)
(* name in an MSC1 archive is the source's own: encode_file does not         *)
(* validate it.                                                              *)
PublishedWhole ==
    Published =>
        /\ WholeArchive(dest.archive)
        /\ ParentsFirst(ManifestOf(dest.archive))
        /\ format # "MSC1" => PathsUsable(ManifestOf(dest.archive))

(* The files and directories of an archive, by entry path; the name in an    *)
(* MSC1 archive is not normalized.                                           *)
ArchiveTree(m) ==
    {<<e.path, e.kind, IF e.kind = "file" THEN e.digest ELSE <<>> >> :
        e \in {m.entries[i] : i \in DOMAIN m.entries}}

SnapshotTree ==
    {<<IF format = "MSC1" THEN p ELSE Normal[p], snapshot[p].kind, snapshot[p].data>> :
        p \in {q \in Path : snapshot[q].kind # "absent" /\ (q # Root \/ snapshot[q].kind = "file")}}

(* When every change moves a timestamp, an archive that is published is the  *)
(* source tree as it stood at one single moment, although its files were     *)
(* stat'ed, read (by MSC2 and MSC6 twice) and stat'ed again at many: no      *)
(* change that another process makes between two system calls can be half in *)
(* the archive.                                                              *)
PublishedIsSnapshot ==
    Published /\ ~coarse => ArchiveTree(ManifestOf(dest.archive)) = SnapshotTree

(* The cleanup of the lanes' directory failed after the archive was there.   *)
LanesRefused == format = "MSR2" /\ pc = "failed" /\ Published

(* A return or an exception leaves no temporary file, no directory of lanes  *)
(* and no open stream.                                                       *)
NothingLeftBehind ==
    pc \in {"done", "failed"} =>
        temp = NoFile /\ handle = NoIno /\ (laneDir => LanesRefused)

(* An archive is never published inside the tree it holds, even when the     *)
(* source turns into a directory after it was looked at.                     *)
NeverInsideSource ==
    Published /\ request = "inside" => ManifestOf(dest.archive).kind = "file"

(* Every normalized path of a source tree the encoder accepts can be looked  *)
(* up again: no lookup of the session fails.                                 *)
LookupsSucceed == cause # "KeyError"

(* Encoding ends, with an archive, an exception or a stop of the machine,    *)
(* once other processes leave the tree alone: each walk works through what   *)
(* it finds until nothing is pending, with no bound of its own, and whoever  *)
(* adds to the tree as fast as it is listed keeps it going.  The changes of  *)
(* a behaviour are finitely many, and so are its paths; any of them may fall *)
(* between any two steps of a walk and put another directory before it.      *)
EncodingEnds == <>~Running

Phase ==
    CASE pc = "off" -> "off"
      [] pc \in {"done", "unspool"} -> "published"
      [] pc \in {"failed", "killed"} -> IF Published THEN "published" ELSE "abandoned"
      [] OTHER -> "working"

Publication == INSTANCE AtomicPublication WITH
    holds <- CASE dest.state = "absent" -> "previous" [] dest.state = "synced" -> "whole"
               [] dest.state = "open" -> "partial",
    phase <- Phase

(* The destination changes once, from what it held to an archive all of      *)
(* which is on the disk (and whole: PublishedWhole); after that it never     *)
(* changes, and an ending before that leaves it alone.                       *)
PublishesAtomically == Publication!Spec
=============================================================================
