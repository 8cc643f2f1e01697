------------------------------- MODULE Decoders -------------------------------
(* The decoders behind decode_path and inspect_path (archive_api.py), and    *)
(* decode_solid_archive, which is only called by its own name.               *)
EXTENDS DedupDecode, StreamDecode, SolidDecode

Init ==
    /\ \E start \in Starts :
          /\ archive = start.archive /\ swaps = start.swaps /\ called = start.called
          /\ inspect \in start.inspects /\ dest \in start.dests /\ rebinds = start.rebinds
    /\ format = "none" /\ pc = "call" /\ error = "none" /\ m = NoManifest
    /\ ix = 0 /\ occurrence = 0 /\ frameIndex = 0 /\ taken = <<>> /\ written = 0
    /\ spool = NoSpool /\ cache = {} /\ temp = NoOutput /\ published = NoOutput

DecoderStep ==
    \/ Dispatch \/ Open
    \/ format = "MSC1" /\ SingleStep
    \/ format = "MSC2" /\ StreamStep
    \/ format = "MSC6" /\ DedupStep
    \/ format = "MSR1" /\ SolidStep
    \/ format = "MSR2" /\ LanesStep

Stopped == ~Running /\ UNCHANGED vars

Next == DecoderStep \/ Fault \/ Interrupt \/ Kill \/ Rebind \/ Swap \/ Stopped

Spec == Init /\ [][Next]_vars /\ WF_vars(DecoderStep)

-----------------------------------------------------------------------------
(* Every variable has its type. *)
TypeOK ==
    /\ inspect \in BOOLEAN /\ format \in Format \cup {"none"}
    /\ dest \in Named /\ rebinds \in Nat
    /\ pc \in {"call", "open", "header", "manifest", "inner", "lanes", "prepare", "entry",
               "chunks", "replace", "unspool", "done", "failed", "killed"}
    /\ ix \in Nat /\ (pc \in {"entry", "chunks"} => ix \in 1 .. Len(m.entries) + 1)
    /\ occurrence \in Nat /\ frameIndex \in 0 .. Len(archive.frames) + 1
    /\ Len(taken) <= Len(archive.frames) + Len(m.chunks) /\ written \in Nat
    /\ cache \subseteq 0 .. Len(m.chunks)
    /\ temp.made \in BOOLEAN /\ published.made \in BOOLEAN

(* A manifest a parser accepts never sends the decoder to a chunk file that  *)
(* is not in the cache, or to a canonical chunk that is not there, whatever  *)
(* order its entries and references are in: the read of a duplicate cannot   *)
(* fail.                                                                     *)
CacheHit == error \notin {"FileNotFoundError", "KeyError"}

AllSealed(a) ==
    \A k \in DOMAIN a.frames : a.frames[k].sealed /\ a.frames[k].index = k

MetadataOf(a) == IF a.format = "MSR2" THEN ReadManifestOf(a.metadata) ELSE a.manifest

(* Authentic, every frame in its place and nothing after the last.           *)
Unaltered(a) ==
    /\ a.sealed /\ ~a.trailing
    /\ CASE a.format = "MSC1" -> SingleWhole(a)
         [] a.format = "MSC2" -> StreamWhole(a) /\ AllSealed(a)
         [] a.format = "MSC6" ->
               /\ Whole(a) /\ AllSealed(a)
               /\ \A k \in DOMAIN a.frames :
                     a.frames[k].size = a.manifest.chunks[a.frames[k].occurrence + 1].size
         [] a.format = "MSR1" -> SolidWhole(a)
         [] a.format = "MSR2" -> LanesWhole(a)
         [] OTHER -> FALSE

(* An archive as the reference definitions read it, with paths that can be   *)
(* made anywhere; the name in an MSC1 archive is only a plain one.           *)
Intact(a) == Unaltered(a) /\ (a.format # "MSC1" => PathsUsable(MetadataOf(a)))

(* Its directories come before what is in them.                              *)
InOrder(a) == ParentsFirst(MetadataOf(a))

(* Only an archive of the decoder's format that is whole, authentic to its   *)
(* last frame and complete is ever reported as verified or restored, even    *)
(* when another file takes its name after its magic was read.  An archive    *)
(* whose directories come late is not restored either; the inspections of    *)
(* MSC2 and MSC6, which make no directory, report it as verified.            *)
AcceptsOnlyWhole ==
    pc = "done" =>
        /\ archive.format = format /\ Intact(archive)
        /\ (~inspect \/ format = "MSR2") => InOrder(archive)

FramesAnnounced(a) ==
    CASE a.format = "MSC1" -> a.frameCount
      [] a.format = "MSR2" -> Sum([l \in 1 .. 3 |-> a.metadata.frameCounts[l - 1]])
      [] OTHER -> a.frameCount - 1

Limited(a) ==
    /\ a.format # "MSR1"
    /\ \/ TotalSize(MetadataOf(a)) > MaxOutput
       \/ FramesAnnounced(a) > MaxFrames
       \/ a.format = "MSC1" /\ Len(a.frames) > MaxArchive

(* An archive that is intact, within the limits and given to the decoder of  *)
(* its format is never refused for its contents: the incremental checks of a *)
(* decoder ask no more than the reference reading does.  The one refusal     *)
(* that the manifest parsers leave to the restoration, of a directory that   *)
(* is already there because something in it came first (mkdir with           *)
(* exist_ok=False), meets only archives whose directories come late; the     *)
(* same error also says that the destination of a folder exists.             *)
RefusesOnlyDamaged ==
    /\ error \in {"ArchiveFormatError", "IntegrityError", "FileNotFoundError", "KeyError"} =>
          \/ ~Intact(archive) \/ Limited(archive)
          \/ called = "api" /\ archive.format \notin Dispatched
          \/ format # "none" /\ archive.format # format
    /\ error = "FileExistsError" => ~InOrder(archive) \/ (~inspect /\ dest # "absent")

(* What is written out, to the lanes of the spool or to the restored files,  *)
(* never exceeds max_output_size, at no step and not even for an archive     *)
(* that is refused in the end.  MSR1 has no such limit.                      *)
OutputBounded == format # "MSR1" => written <= MaxOutput

(* The directories and files a complete restoration of the archive has.      *)
Complete ==
    LET entries == {m.entries[i] : i \in DOMAIN m.entries} IN
    [made |-> TRUE,
     dirs |-> {e.path : e \in {x \in entries : x.kind = "dir"}},
     files |-> {<<e.path, e.digest>> : e \in {x \in entries : x.kind = "file"}}]

Phase ==
    IF pc = "unspool" \/ (~Running /\ published # NoOutput) THEN "published"
    ELSE IF ~Running THEN "abandoned" ELSE "working"

Publication == INSTANCE AtomicPublication WITH
    holds <- CASE published = NoOutput -> "previous" [] published = Complete -> "whole"
               [] OTHER -> "partial",
    phase <- Phase

(* The destination receives the complete verified tree or file in one step,  *)
(* or nothing at all.                                                        *)
PublishesAtomically == Publication!Spec

Interrupted == error = "KeyboardInterrupt" /\ format \in {"MSR1", "MSR2"} /\ ~inspect

(* A return and any exception remove the temporary output, the chunk cache   *)
(* and the spool.  The two exceptions the code makes are named: an interrupt *)
(* leaves the temporary output of an MSR decoder, and a directory of         *)
(* scratch files that cannot be removed stays after the publication.         *)
FailureCleans ==
    pc \in {"done", "failed"} =>
        /\ temp = NoOutput \/ Interrupted
        /\ (spool = NoSpool /\ cache = {}) \/ (pc = "failed" /\ published # NoOutput)

(* Decoding ends. *)
DecodingEnds == <>~Running
=============================================================================
