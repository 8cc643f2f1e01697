--------------------------- MODULE Decoders_proofs ---------------------------
(* The decoders keep no residue of a failure, restore no chunk that they     *)
(* did not keep, write no more than MaxOutput (but in MSR1) and publish a    *)
(* whole output or none, for every archive of every format, every fault and  *)
(* every interruption.  They accept an archive only when it is intact by the *)
(* reference definitions, and refuse none that is and keeps to the limits,   *)
(* but for one whose directories come after what is in them.                 *)
EXTENDS Decoders, Manifest_proofs, FiniteSetTheorems

-----------------------------------------------------------------------------
(* The stages of a restore, and what each leaves on the disk.                *)

(* The stages before a manifest is accepted, with the lanes that are         *)
(* decoded to the spool.                                                     *)
Early == {"call", "open", "header", "manifest", "inner", "lanes"}

(* The stages that restore entries.                                          *)
Begun == {"entry", "chunks"}

(* The stage fits the format and the mode, and until the output is prepared  *)
(* the archive is of the format that was dispatched.                         *)
Stage ==
    /\ pc \in Early \cup Begun \cup {"prepare", "replace", "unspool", "done", "failed", "killed"}
    /\ pc = "call" => format = "none"
    /\ format = "none" => pc \in {"call", "failed", "killed"}
    /\ pc = "manifest" => format \in {"MSC2", "MSC6"}
    /\ pc = "inner" => format = "MSC1"
    /\ pc = "lanes" => format = "MSR2"
    /\ pc = "unspool" => HasScratch
    /\ pc = "replace" => ~inspect
    /\ pc \notin {"call", "open", "header", "failed", "killed", "done", "replace", "unspool"}
       => archive.format = format
    /\ inspect \in BOOLEAN /\ called \in Format \cup {"api"}

(* What the stage leaves in the temporary output, the cache and the spool,   *)
(* and what is published: what a failure would leave is FailureCleans.       *)
Clean ==
    /\ temp = [made |-> temp.made, dirs |-> temp.dirs, files |-> temp.files]
    /\ pc \in Early \cup {"prepare", "done", "unspool"} => temp = NoOutput
    /\ pc \in Early \cup {"done"} => cache = {}
    /\ format # "MSR2" \/ pc \in (Early \ {"lanes"}) \cup {"done"} => spool = NoSpool
    /\ format \in {"MSC1", "MSC2"} => cache = {}
    /\ Running => error = "none"
    /\ Running /\ pc # "unspool" => published = NoOutput
    /\ pc = "unspool" => published # NoOutput
    /\ pc \in Begun \cup {"replace"} => temp.made = (~inspect \/ format = "MSR2")
    /\ FailureCleans

(* The part of the invariant that speaks of the stages alone.                *)
Staged == Stage /\ Clean

(* It holds before the call.                                                 *)
LEMMA StagedInit == Init => Staged
  BY DecodeAssumption DEF Init, Staged, Stage, Clean, Early, Begun, NoOutput, Running,
     FailureCleans, Format

(* A failure cleans up whatever the stage had made.                          *)
LEMMA FailKeeps == ASSUME Staged, Running, pc # "unspool", NEW r, Fail(r) PROVE Staged'
  <1> USE DEF Staged, Stage, Clean, Early, Begun, NoOutput, Running, FailureCleans, Interrupted,
      Fail, given, position, HasScratch
  <1> QED OBVIOUS

(* Every step keeps the stages.                                              *)
LEMMA StagedStep == Staged /\ [Next]_vars => Staged'
  <1> SUFFICES ASSUME Staged, [Next]_vars PROVE Staged' OBVIOUS
  <1> USE DEF Staged, Stage, Clean, Early, Begun, NoOutput, Running, FailureCleans, Interrupted,
      given, position, scratch, HasScratch, Format, Dispatched, ManifestAccepted
  <1>1. CASE Dispatch
    BY <1>1, FailKeeps DEF Dispatch
  <1>2. CASE Open
    <2>1. CASE Fail("ValueError") BY <1>2, <2>1, FailKeeps DEF Open
    <2>2. CASE UNCHANGED <<given, format, dest, rebinds, error, position, scratch, temp, published>>
               /\ pc' = "header"
      BY <1>2, <2>2 DEF Open
    <2> QED BY <1>2, <2>1, <2>2 DEF Open
  <1>3. CASE format = "MSC6" /\ ReadHeader
    BY <1>3, FailKeeps DEF ReadHeader, HeaderAccepted
  <1>4. CASE format = "MSC6" /\ ReadManifest
    BY <1>4, FailKeeps DEF ReadManifest
  <1>5. CASE format = "MSC2" /\ StreamHeader
    BY <1>5, FailKeeps DEF StreamHeader, StreamHeaderAccepted
  <1>6. CASE format = "MSC2" /\ StreamReadManifest
    BY <1>6, FailKeeps DEF StreamReadManifest
  <1>7. CASE format = "MSC1" /\ SingleHeader
    BY <1>7, FailKeeps DEF SingleHeader, SingleHeaderAccepted
  <1>8. CASE format = "MSC1" /\ ReadInner
    BY <1>8, FailKeeps DEF ReadInner
  <1>9. CASE format = "MSR1" /\ ReadSolid
    BY <1>9, FailKeeps DEF ReadSolid, SolidAccepted
  <1>10. CASE format = "MSR2" /\ ReadMetadata
    BY <1>10, FailKeeps DEF ReadMetadata, MetadataAccepted
  <1>11. CASE format = "MSR2" /\ ReadLaneFrame
    BY <1>11, FailKeeps DEF ReadLaneFrame
  <1>12. CASE format = "MSR2" /\ LaneDone
    BY <1>12, FailKeeps DEF LaneDone
  <1>13. CASE format = "MSR2" /\ CopyCanonical
    BY <1>13, FailKeeps DEF CopyCanonical
  <1>14. CASE PrepareOutput
    BY <1>14, FailKeeps DEF PrepareOutput
  <1>15. CASE RestoreDirectory
    BY <1>15, FailKeeps DEF RestoreDirectory
  <1>16. CASE \E first : OpenSink(first)
    <2>1. PICK first : OpenSink(first) BY <1>16
    <2>2. temp'.made = temp.made /\ temp' = [made |-> temp'.made, dirs |-> temp'.dirs,
          files |-> temp'.files]
      BY <2>1 DEF OpenSink
    <2>3. pc = "entry" /\ pc' = "chunks" /\ UNCHANGED <<given, format, error, scratch, published>>
      BY <2>1 DEF OpenSink
    <2> QED BY <2>2, <2>3
  <1>17. CASE format = "MSC6" /\ RestoreUnique
    BY <1>17, FailKeeps DEF RestoreUnique, Write
  <1>18. CASE format = "MSC6" /\ RestoreDuplicate
    BY <1>18, FailKeeps DEF RestoreDuplicate, Write
  <1>19. CASE format = "MSC2" /\ RestoreBlock
    BY <1>19, FailKeeps DEF RestoreBlock, Write
  <1>20. CASE format = "MSC1" /\ RestoreRecord
    BY <1>20, FailKeeps DEF RestoreRecord, Write
  <1>21. CASE RestoreCanonical
    BY <1>21, FailKeeps DEF RestoreCanonical, Write
  <1>22. CASE CloseSink
    BY <1>22, FailKeeps DEF CloseSink
  <1>23. CASE \E t : Finish(t)
    BY <1>23, FailKeeps DEF Finish
  <1>24. CASE Publish
    <2>1. CASE Fail("OSError") BY <1>24, <2>1, FailKeeps DEF Publish
    <2>2. CASE /\ published' = temp /\ temp' = NoOutput
               /\ pc' = IF HasScratch THEN "unspool" ELSE "done"
               /\ cache' = IF HasScratch THEN cache ELSE {}
               /\ UNCHANGED <<given, format, rebinds, error, position, spool>>
      <3>0. pc = "replace" BY <1>24 DEF Publish
      <3>2. ~inspect /\ temp.made = (~inspect \/ format = "MSR2") BY <3>0
      <3>3. temp.made = TRUE BY <3>2
      <3>1. temp # NoOutput BY <3>3
      <3>4. CASE HasScratch BY <2>2, <3>0, <3>1, <3>4
      <3>5. CASE ~HasScratch BY <2>2, <3>0, <3>1, <3>5
      <3> QED BY <3>4, <3>5
    <2> QED BY <1>24, <2>1, <2>2 DEF Publish
  <1>25. CASE RemoveScratch
    BY <1>25, FailKeeps DEF RemoveScratch
  <1>26. CASE ScratchNotRemoved
    BY <1>26, FailKeeps DEF ScratchNotRemoved
  <1>27. CASE Fault
    BY <1>27, FailKeeps DEF Fault
  <1>28. CASE Interrupt
    BY <1>28, FailKeeps DEF Interrupt
  <1>29. CASE Kill
    BY <1>29, FailKeeps DEF Kill
  <1>30. CASE Rebind
    BY <1>30, FailKeeps DEF Rebind
  <1>31. CASE Swap
    BY <1>31, FailKeeps DEF Swap
  <1>32. CASE UNCHANGED vars
    BY <1>32, FailKeeps DEF vars
  <1> QED
    BY <1>1, <1>2, <1>3, <1>4, <1>5, <1>6, <1>7, <1>8, <1>9, <1>10, <1>11, <1>12, <1>13, <1>14,
       <1>15, <1>16, <1>17, <1>18, <1>19, <1>20, <1>21, <1>22, <1>23, <1>24, <1>25, <1>26, <1>27,
       <1>28, <1>29, <1>30, <1>31, <1>32, Zenon DEF Next, DecoderStep, SingleStep, StreamStep,
       DedupStep, SolidStep, LanesStep, Restore, Stopped

-----------------------------------------------------------------------------
(* The manifest that was read.                                               *)

(* The formats with a chunk table.                                           *)
Tabled == {"MSC6", "MSR1", "MSR2"}

(* The stages with an accepted manifest.                                     *)
Holding == {"lanes", "prepare", "entry", "chunks", "replace", "unspool"}

(* A single file, or entries whose parents are directories of the manifest.  *)
Shape(manifest) ==
    IF manifest.kind = "file" THEN SingleFile(manifest)
    ELSE \A i \in DOMAIN manifest.entries :
            LET parent == ParentOf[manifest.entries[i].path] IN
            \/ parent = manifest.entries[i].path
            \/ \E j \in DOMAIN manifest.entries :
                  manifest.entries[j].kind = "dir" /\ manifest.entries[j].path = parent

(* No two entries have the same path, and a single file is in no directory.  *)
Distinct(manifest) ==
    /\ \A i, j \in DOMAIN manifest.entries :
          manifest.entries[i].path = manifest.entries[j].path => i = j
    /\ manifest.kind = "file" =>
          ParentOf[manifest.entries[1].path] = manifest.entries[1].path

(* What the checks of the parser have established of a manifest, by format.  *)
Readable(manifest, kind) ==
    /\ manifest \in ManifestFields /\ Shape(manifest) /\ Distinct(manifest)
    /\ kind # "MSC1" => PathsUsable(manifest)
    /\ kind # "MSR1" => TotalSize(manifest) <= MaxOutput
    /\ kind \in Tabled => /\ RangesCover(manifest) /\ ReferencesDirect(manifest)
                          /\ SizesAddUp(manifest)
    /\ kind = "MSC2" => \A i \in DOMAIN manifest.entries :
                           manifest.entries[i].kind = "file" =>
                               manifest.entries[i].count = FramesFor(manifest.entries[i].size)

(* The archive, and those that may take its place, have the fields that      *)
(* their format gives them.                                                  *)
ArchiveOK == Fields(archive) /\ \A a \in swaps : Fields(a)

(* The manifest held is one that the parser accepted.                        *)
Parsed == pc \in Holding => Readable(m, format)

(* What the check of the paths and of the shape says of them.                *)
LEMMA PathsAccepted ==
    ASSUME NEW manifest, PathsCanonical(manifest), ShapeOK(manifest)
    PROVE  Distinct(manifest) /\ PathsUsable(manifest)
<1>1. Distinct(manifest) BY DEF PathsCanonical, ShapeOK, Distinct
<1>2. ASSUME NEW i \in DOMAIN manifest.entries
      PROVE  {j \in DOMAIN manifest.entries :
                 Fold[manifest.entries[j].path] = Fold[manifest.entries[i].path]} = {i}
  BY DEF PathsCanonical
<1>3. PathsUsable(manifest) BY <1>2 DEF PathsCanonical, PathsUsable
<1> QED BY <1>1, <1>3

(* The shared parser of the deduplicated formats establishes it.             *)
LEMMA ParsedIsReadable ==
    ASSUME NEW manifest \in ManifestFields, NEW n, ParseDedupManifest(manifest, n), NEW kind,
           kind \in Tabled, kind # "MSR1" => TotalSize(manifest) <= MaxOutput
    PROVE  Readable(manifest, kind)
<1>1. Shape(manifest) BY DEF ParseDedupManifest, ShapeOK, Shape, SingleFile
<1>2. Distinct(manifest) /\ PathsUsable(manifest) BY PathsAccepted DEF ParseDedupManifest
<1> QED BY <1>1, <1>2 DEF ParseDedupManifest, Readable, Tabled

(* An archive of every format but MSR2 carries a manifest.                   *)
LEMMA ManifestHeld ==
    ASSUME ArchiveOK, archive.format # "MSR2" PROVE archive.manifest \in ManifestFields
  BY DEF ArchiveOK, Fields

(* The metadata of MSR2, legacy or compact, stand for a manifest that the    *)
(* shared parser accepts.                                                    *)
LEMMA MetadataHeld ==
    ASSUME ArchiveOK, archive.format = "MSR2", ParseMetadata(archive.metadata, archive.unique)
    PROVE  /\ ReadManifestOf(archive.metadata) \in ManifestFields
           /\ ParseDedupManifest(ReadManifestOf(archive.metadata), archive.unique + 1)
<1> DEFINE md == archive.metadata
<1>1. md \in LegacyMetadata \cup CompactForm BY DEF ArchiveOK, Fields
<1>2. CASE IsLegacy(md)
  <2>1. md \in LegacyMetadata
    <3> SUFFICES ASSUME md \in CompactForm PROVE FALSE BY <1>1
    <3>1. DOMAIN md = {"kind", "root", "codecs", "frameCounts", "packed", "entries", "chunks"}
      <4> HIDE DEF md
      <4> QED BY DEF CompactForm
    <3> QED BY <1>2, <3>1 DEF IsLegacy
  <2>2. md.manifest \in ManifestFields
    <3> HIDE DEF md
    <3> QED BY <2>1 DEF LegacyMetadata
  <2> QED BY <1>2, <2>2 DEF ReadManifestOf, ParseMetadata, ParseLegacy
<1>3. CASE ~IsLegacy(md)
  <2>1. md \in CompactForm BY <1>1, <1>3 DEF IsLegacy, LegacyMetadata
  <2>2. ParseCompact(md, archive.unique) BY <1>3 DEF ParseMetadata
  <2>3. ChunksRead(md) /\ ChunksCovered(md) BY <2>2 DEF ParseCompact
  <2>4. Expanded(md) \in ManifestFields
    <3> HIDE DEF md
    <3> QED BY <2>1, <2>3, ExpandedIsManifest
  <2>5. ParseDedupManifest(Expanded(md), archive.unique + 1)
    <3> HIDE DEF md
    <3> QED BY <2>2 DEF ParseCompact
  <2> QED BY <1>3, <2>4, <2>5 DEF ReadManifestOf
<1> QED BY <1>2, <1>3

-----------------------------------------------------------------------------
(* The actions of the five formats, by what they do.                         *)

(* The steps that read a manifest, its metadata or a lane.                   *)
Reading ==
    \/ format = "MSC6" /\ ReadManifest
    \/ format = "MSC2" /\ StreamReadManifest
    \/ format = "MSC1" /\ ReadInner
    \/ format = "MSR1" /\ ReadSolid
    \/ format = "MSR2" /\ (ReadMetadata \/ ReadLaneFrame \/ LaneDone \/ CopyCanonical)

(* The steps before the header is accepted.                                  *)
Header ==
    \/ Dispatch \/ Open
    \/ format = "MSC6" /\ ReadHeader
    \/ format = "MSC2" /\ StreamHeader
    \/ format = "MSC1" /\ SingleHeader

(* The chunk at which a file starts, 0 where there is no table.              *)
First == CASE format \in Tabled -> m.entries[ix].first [] OTHER -> 0

(* The steps that restore one chunk, block or record.                        *)
WritingOne ==
    \/ format = "MSC6" /\ (RestoreUnique \/ RestoreDuplicate)
    \/ format = "MSC2" /\ RestoreBlock
    \/ format = "MSC1" /\ RestoreRecord
    \/ format \in {"MSR1", "MSR2"} /\ RestoreCanonical

(* The file has nothing more to restore.                                     *)
NoMore ==
    \/ format = "MSC6" /\ ~InEntry
    \/ format = "MSC2" /\ ~MoreBlocks
    \/ format = "MSC1" /\ frameIndex > Len(archive.frames)
    \/ format \in {"MSR1", "MSR2"} /\ ~MoreChunks

(* The checks of the end of the archive.                                     *)
Ending ==
    \/ format = "MSC6" /\ Finish(Terminated)
    \/ format = "MSC2" /\ Finish(StreamTerminated)
    \/ format \in {"MSC1", "MSR1", "MSR2"} /\ Finish(TRUE)

(* What is not a step of the decoder: a fault, an interrupt, a kill, a       *)
(* change of the archive.                                                    *)
Outside == Fault \/ Interrupt \/ Kill \/ Rebind \/ Swap \/ UNCHANGED vars

(* Every step is of one of these kinds, whatever the format.                 *)
LEMMA StepKinds ==
    [Next]_vars =>
        \/ Header \/ Reading \/ PrepareOutput \/ RestoreDirectory \/ OpenSink(First)
        \/ WritingOne \/ (NoMore /\ CloseSink)
        \/ Ending
        \/ Publish \/ RemoveScratch \/ ScratchNotRemoved \/ Outside
<1> SUFFICES ASSUME [Next]_vars PROVE
        \/ Header \/ Reading \/ PrepareOutput \/ RestoreDirectory \/ OpenSink(First)
        \/ WritingOne \/ (NoMore /\ CloseSink)
        \/ Ending
        \/ Publish \/ RemoveScratch \/ ScratchNotRemoved \/ Outside
  OBVIOUS
<1>1. CASE format = "MSC1" /\ SingleStep
  <2>1. First = 0 BY <1>1 DEF First, Tabled
  <2>3. OpenSink(0) => OpenSink(First) BY <2>1
  <2> QED BY <1>1, <2>3 DEF SingleStep, Header, Reading, WritingOne, NoMore, Ending
<1>2. CASE format = "MSC2" /\ StreamStep
  <2>1. First = 0 BY <1>2 DEF First, Tabled
  <2>3. OpenSink(0) => OpenSink(First) BY <2>1
  <2> QED BY <1>2, <2>3 DEF StreamStep, Header, Reading, WritingOne, NoMore, Ending
<1>3. CASE format = "MSC6" /\ DedupStep
  <2>1. First = m.entries[ix].first BY <1>3 DEF First, Tabled
  <2>3. OpenSink(m.entries[ix].first) => OpenSink(First) BY <2>1
  <2> QED BY <1>3, <2>3 DEF DedupStep, Header, Reading, WritingOne, NoMore, Ending
<1>4. CASE format = "MSR1" /\ SolidStep
  <2>1. First = m.entries[ix].first BY <1>4 DEF First, Tabled
  <2>2. format \in {"MSR1", "MSR2"} BY <1>4
  <2>3. OpenSink(m.entries[ix].first) => OpenSink(First) BY <2>1
  <2> QED BY <1>4, <2>3, <2>2 DEF SolidStep, Restore, Header, Reading, WritingOne, NoMore, Ending
<1>5. CASE format = "MSR2" /\ LanesStep
  <2>1. First = m.entries[ix].first BY <1>5 DEF First, Tabled
  <2>2. format \in {"MSR1", "MSR2"} BY <1>5
  <2>3. OpenSink(m.entries[ix].first) => OpenSink(First) BY <2>1
  <2> QED BY <1>5, <2>3, <2>2 DEF LanesStep, Restore, Header, Reading, WritingOne, NoMore, Ending
<1>6. CASE Dispatch \/ Open BY <1>6 DEF Header
<1>7. CASE Fault \/ Interrupt \/ Kill \/ Rebind \/ Swap \/ Stopped \/ UNCHANGED vars
  BY <1>7, Zenon DEF Outside, Stopped
<1> QED BY <1>1, <1>2, <1>3, <1>4, <1>5, <1>6, <1>7, Zenon DEF Next, DecoderStep

(* A swap replaces the archive by one that has its fields too.               *)
LEMMA ArchiveStep == ArchiveOK /\ [Next]_vars => ArchiveOK'
<1> SUFFICES ASSUME ArchiveOK, [Next]_vars PROVE ArchiveOK' OBVIOUS
<1> USE DEF Fail, given
<1>1. CASE Header
  BY <1>1 DEF Header, ArchiveOK, Dispatch, Open, ReadHeader, StreamHeader, SingleHeader
<1>2. CASE Reading
  BY <1>2 DEF Reading, ArchiveOK, ReadManifest, StreamReadManifest, ReadInner, ReadSolid,
     ReadMetadata,
              ReadLaneFrame, LaneDone, CopyCanonical, ManifestAccepted
<1>3. CASE WritingOne
  BY <1>3 DEF WritingOne, ArchiveOK, RestoreUnique, RestoreDuplicate, RestoreBlock, RestoreRecord,
              RestoreCanonical, Write
<1>4. CASE Outside
  BY <1>4 DEF Outside, ArchiveOK, Fault, Interrupt, Kill, Rebind, Swap, vars
<1>5. CASE \/ PrepareOutput \/ RestoreDirectory \/ OpenSink(First) \/ CloseSink
           \/ Ending
           \/ Publish \/ RemoveScratch \/ ScratchNotRemoved
  BY <1>5 DEF ArchiveOK, Ending, PrepareOutput, RestoreDirectory, OpenSink, CloseSink, Finish,
     Publish,
              RemoveScratch, ScratchNotRemoved
<1> QED BY <1>1, <1>2, <1>3, <1>4, <1>5, StepKinds, Zenon

(* No step holds a manifest that was not accepted.                           *)
LEMMA ParsedStep == Staged /\ ArchiveOK /\ Parsed /\ [Next]_vars => Parsed'
<1> SUFFICES ASSUME Staged, ArchiveOK, Parsed, [Next]_vars, pc' \in Holding
             PROVE  Readable(m', format')
  BY DEF Parsed
<1> USE DEF Fail, given, position, Holding
<1>0. SUFFICES ASSUME ~(UNCHANGED <<m, format>> /\ pc \in Holding) PROVE Readable(m', format')
  BY DEF Parsed
<1>1. CASE Header BY <1>1 DEF Header, Dispatch, Open, ReadHeader, StreamHeader, SingleHeader
<1>2. CASE Reading
  <2>1. CASE format = "MSC6" /\ ReadManifest /\ pc' = "prepare"
    <3>1. archive.format = "MSC6" BY <2>1 DEF ReadManifest, Staged, Stage
    <3>2. m' = archive.manifest /\ format' = format /\ ManifestGood
      BY <2>1 DEF ReadManifest, ManifestAccepted
    <3> QED BY <2>1, <3>1, <3>2, ManifestHeld, ParsedIsReadable DEF ManifestGood, Tabled
  <2>2. CASE format = "MSC2" /\ StreamReadManifest /\ pc' = "prepare"
    <3>1. archive.format = "MSC2" BY <2>2 DEF StreamReadManifest, Staged, Stage
    <3>2. m' = archive.manifest /\ format' = format /\ StreamManifestGood
      BY <2>2 DEF StreamReadManifest, ManifestAccepted
    <3>3. m' \in ManifestFields BY <3>1, <3>2, ManifestHeld
    <3>4. Shape(m') BY <3>2 DEF StreamManifestGood, ParseManifest, ShapeOK, Shape, SingleFile
    <3>5. Distinct(m') /\ PathsUsable(m')
      BY <3>2, PathsAccepted DEF StreamManifestGood, ParseManifest
    <3> QED
      BY <2>2, <3>2, <3>3, <3>4, <3>5 DEF StreamManifestGood, ParseManifest, RangesConsecutive,
         Tabled, Readable
  <2>3. CASE format = "MSC1" /\ ReadInner /\ pc' = "prepare"
    <3>1. archive.format = "MSC1" BY <2>3 DEF ReadInner, Staged, Stage
    <3>2. m' = archive.manifest /\ format' = format /\ InnerGood
      BY <2>3 DEF ReadInner, ManifestAccepted
    <3>3. m' \in ManifestFields BY <3>1, <3>2, ManifestHeld
    <3>4. Shape(m') BY <3>1, <3>2 DEF ArchiveOK, Fields, SingleFile, Shape
    <3>5. Distinct(m')
      <4>1. SingleFile(m') BY <3>1, <3>2 DEF ArchiveOK, Fields
      <4>2. DOMAIN m'.entries = 1 .. 1 BY <3>3, <4>1, EntriesListed DEF SingleFile
      <4> QED BY <3>2, <4>2 DEF InnerGood, ParseInner, Distinct
    <3> QED BY <2>3, <3>2, <3>3, <3>4, <3>5 DEF InnerGood, Tabled, Readable
  <2>4. CASE format = "MSR1" /\ ReadSolid /\ pc' = "prepare"
    <3>2. m' = archive.manifest /\ format' = format /\ SolidAccepted BY <2>4 DEF ReadSolid
    <3> QED BY <2>4, <3>2, ManifestHeld, ParsedIsReadable DEF SolidAccepted, Tabled
  <2>5. CASE format = "MSR2" /\ ReadMetadata /\ pc' = "lanes"
    <3>2. m' = ReadManifestOf(archive.metadata) /\ format' = format /\ MetadataAccepted
      BY <2>5 DEF ReadMetadata
    <3> QED BY <2>5, <3>2, MetadataHeld, ParsedIsReadable DEF MetadataAccepted, Tabled
  <2>6. CASE format = "MSR2" /\ (ReadLaneFrame \/ LaneDone \/ CopyCanonical)
    BY <1>0, <2>6 DEF ReadLaneFrame, LaneDone, CopyCanonical
  <2> QED BY <1>2, <2>1, <2>2, <2>3, <2>4, <2>5, <2>6
          DEF Reading, ReadManifest, StreamReadManifest, ReadInner, ReadSolid, ReadMetadata,
              ManifestAccepted
<1>3. CASE WritingOne
  BY <1>0, <1>3 DEF WritingOne, RestoreUnique, RestoreDuplicate, RestoreBlock, RestoreRecord,
              RestoreCanonical, Write
<1>4. CASE Outside
  BY <1>0, <1>4 DEF Outside, Fault, Interrupt, Kill, Rebind, Swap, vars
<1>5. CASE \/ PrepareOutput \/ RestoreDirectory \/ OpenSink(First) \/ CloseSink
           \/ Ending
           \/ Publish \/ RemoveScratch \/ ScratchNotRemoved
  BY <1>0, <1>5 DEF Ending, PrepareOutput, RestoreDirectory, OpenSink, CloseSink, Finish, Publish,
              RemoveScratch, ScratchNotRemoved
<1> QED BY <1>1, <1>2, <1>3, <1>4, <1>5, StepKinds, Zenon

-----------------------------------------------------------------------------
(* The place in the manifest, and the chunks restored so far.                *)

(* The entry and the lane stay within the manifest and the lanes.            *)
Placed ==
    /\ pc \in (Early \ {"lanes"}) \cup {"prepare"} => occurrence = 0
    /\ pc = "lanes" => ix \in 0 .. 3 /\ (ix = 3 => occurrence = 0)
    /\ pc = "entry" => ix \in 1 .. Len(m.entries) + 1
    /\ pc = "chunks" => ix \in 1 .. Len(m.entries) /\ m.entries[ix].kind = "file"

(* With a chunk table, the chunks restored are those of the entries before   *)
(* and part of the file's own.                                               *)
Counted ==
    format \in Tabled =>
        /\ pc = "entry" => occurrence = ChunksBefore(m.entries, ix)
        /\ pc = "chunks" =>
              occurrence \in ChunksBefore(m.entries, ix) .. ChunksBefore(m.entries, ix + 1)

(* MSC6 has cached every chunk that a later one refers to, once it was       *)
(* restored; the solid formats have placed all of them.                      *)
Cached ==
    /\ format = "MSC6" /\ pc \in Begun => \A o \in Referenced : o < occurrence => o \in cache
    /\ format \in {"MSR1", "MSR2"} /\ pc \in Begun \cup {"prepare"} => cache = UniqueOccurrences(m)

(* Every step keeps the place.                                               *)
LEMMA PlacedStep == Staged /\ Parsed /\ Placed /\ [Next]_vars => Placed'
<1> SUFFICES ASSUME Staged, Parsed, Placed, [Next]_vars PROVE Placed' OBVIOUS
<1> USE DEF Fail, given, position, Early, Begun
<1>0. \/ pc \notin Holding
      \/ Len(m.entries) \in Nat /\ \A i \in 1 .. Len(m.entries) : m.entries[i] \in EntryRecord
  BY EntriesListed DEF Parsed, Readable
<1>1. CASE Header BY <1>1 DEF Header, Placed, Dispatch, Open, ReadHeader, StreamHeader, SingleHeader
<1>2. CASE Reading
  <2>1. CASE UNCHANGED occurrence /\ pc' = "prepare" /\ pc \in Early \ {"lanes"} BY <2>1 DEF Placed
  <2>2. CASE pc' = "failed" BY <2>2 DEF Placed
  <2>3. CASE pc' = "lanes" /\ occurrence' = 0 /\ ix' = 0 BY <2>3 DEF Placed
  <2>4. CASE pc' = "lanes" /\ pc = "lanes" /\ ix' = ix /\ ix \in Lanes BY <2>4 DEF Placed, Lanes
  <2>5. CASE pc' = "lanes" /\ pc = "lanes" /\ ix' = ix + 1 /\ ix \in Lanes /\ occurrence' = 0
    <3>1. ix + 1 \in 0 .. 3 BY <2>5 DEF Lanes
    <3> QED BY <2>5, <3>1 DEF Placed
  <2>6. CASE pc' = "prepare" /\ pc = "lanes" /\ ix \notin Lanes /\ UNCHANGED occurrence
    <3>1. ix = 3 BY <2>6 DEF Placed, Lanes
    <3> QED BY <2>6, <3>1 DEF Placed
  <2> QED BY <1>2, <2>1, <2>2, <2>3, <2>4, <2>5, <2>6
          DEF Reading, ReadManifest, StreamReadManifest, ReadInner, ReadSolid, ReadMetadata,
              ReadLaneFrame, LaneDone, CopyCanonical, ManifestAccepted
<1>3. CASE WritingOne
  BY <1>3 DEF WritingOne, Placed, RestoreUnique, RestoreDuplicate, RestoreBlock, RestoreRecord,
              RestoreCanonical, Write
<1>4. CASE Outside
  BY <1>4 DEF Outside, Placed, Fault, Interrupt, Kill, Rebind, Swap, vars
<1>5. CASE PrepareOutput BY <1>0, <1>5 DEF PrepareOutput, Placed, Holding
<1>6. CASE RestoreDirectory BY <1>0, <1>6 DEF RestoreDirectory, Placed, Holding
<1>7. CASE OpenSink(First) BY <1>0, <1>7 DEF OpenSink, Placed, Holding
<1>8. CASE CloseSink BY <1>0, <1>8 DEF CloseSink, Placed, Holding
<1>9. CASE Ending \/ Publish \/ RemoveScratch \/ ScratchNotRemoved
  BY <1>9 DEF Placed, Ending, Finish, Publish, RemoveScratch, ScratchNotRemoved
<1> QED BY <1>1, <1>2, <1>3, <1>4, <1>5, <1>6, <1>7, <1>8, <1>9, StepKinds, Zenon

(* Every step keeps the count.                                               *)
LEMMA CountedStep ==
    Staged /\ Parsed /\ Placed /\ Counted /\ [Next]_vars => Counted'
<1> SUFFICES ASSUME Staged, Parsed, Placed, Counted, [Next]_vars, format' \in Tabled
             PROVE  Counted'
  BY DEF Counted
<1>k. SUFFICES ASSUME pc' \in Begun PROVE Counted' BY DEF Counted, Begun
<1> USE DEF Fail, given, position
<1> DEFINE B(i) == ChunksBefore(m.entries, i)
<1>0. pc \in Holding /\ format \in Tabled => RangesOf(m) BY RangesRead DEF Parsed, Readable
<1>1. CASE Header
  BY <1>1, <1>k DEF Header, Begun, Dispatch, Open, ReadHeader, StreamHeader, SingleHeader
<1>2. CASE Reading
  BY <1>2, <1>k DEF Begun, Reading, ReadManifest, StreamReadManifest, ReadInner, ReadSolid,
     ReadMetadata,
              ReadLaneFrame, LaneDone, CopyCanonical, ManifestAccepted
<1>3. CASE WritingOne
  <2>1. /\ pc = "chunks" /\ pc' = "chunks" /\ UNCHANGED <<format, m, ix>>
        /\ occurrence' = occurrence + 1
    BY <1>3, <1>k DEF Begun, WritingOne, RestoreUnique, RestoreDuplicate, RestoreBlock,
       RestoreRecord,
                RestoreCanonical, Write
  <2>2. occurrence < m.entries[ix].first + m.entries[ix].count
    BY <1>3, <2>1 DEF WritingOne, RestoreUnique, RestoreDuplicate, RestoreCanonical, InEntry,
       MoreChunks, Tabled
  <2>3. /\ ix \in 1 .. Len(m.entries) /\ m.entries[ix].kind = "file"
        /\ occurrence \in B(ix) .. B(ix + 1)
    BY <2>1 DEF Placed, Counted
  <2>4. /\ m.entries[ix].first + m.entries[ix].count = B(ix + 1)
        /\ B(ix) \in Nat /\ B(ix + 1) \in Nat
    BY <1>0, <2>1, <2>3 DEF RangesOf, Holding
  <2>5. occurrence + 1 \in B(ix) .. B(ix + 1) BY <2>2, <2>3, <2>4
  <2> QED BY <2>1, <2>5 DEF Counted
<1>4. CASE Outside
  BY <1>4, <1>k DEF Begun, Outside, Counted, Fault, Interrupt, Kill, Rebind, Swap, vars
<1>5. CASE PrepareOutput
  <2>1. /\ pc = "prepare" /\ pc' = "entry" /\ ix' = 1 /\ UNCHANGED <<m, format, occurrence>>
    BY <1>5, <1>k DEF PrepareOutput, Begun
  <2>2. occurrence = 0 /\ B(1) = 0 BY <1>0, <2>1 DEF Placed, RangesOf, Holding
  <2> QED BY <2>1, <2>2 DEF Counted
<1>6. CASE RestoreDirectory
  <2>1. /\ pc = "entry" /\ pc' = "entry" /\ ix' = ix + 1 /\ UNCHANGED <<m, format, occurrence>>
        /\ ix <= Len(m.entries) /\ m.entries[ix].kind = "dir"
    BY <1>6, <1>k DEF RestoreDirectory, Begun
  <2>2. ix \in 1 .. Len(m.entries) /\ occurrence = B(ix)
    BY <2>1, EntriesListed DEF Placed, Counted, Parsed, Readable, Holding
  <2>3. B(ix + 1) = B(ix) BY <1>0, <2>1, <2>2 DEF RangesOf, Holding
  <2> QED BY <2>1, <2>2, <2>3 DEF Counted
<1>7. CASE OpenSink(First)
  <2>1. /\ pc = "entry" /\ pc' = "chunks" /\ UNCHANGED <<m, format, ix>>
        /\ occurrence' = First /\ ix <= Len(m.entries) /\ m.entries[ix].kind = "file"
    BY <1>7, <1>k DEF OpenSink, Begun
  <2>2. ix \in 1 .. Len(m.entries)
    BY <2>1, EntriesListed DEF Placed, Parsed, Readable, Holding
  <2>3. First = B(ix) /\ B(ix) \in Nat /\ B(ix + 1) \in B(ix) .. Len(m.chunks)
    BY <1>0, <2>1, <2>2 DEF RangesOf, Holding, First
  <2>4. B(ix) \in B(ix) .. B(ix + 1)
    <3>1. Len(m.chunks) \in Nat BY <2>1, EntriesListed DEF Parsed, Readable, Holding
    <3> QED BY <2>3, <3>1
  <2> QED BY <2>1, <2>3, <2>4 DEF Counted
<1>8. CASE NoMore /\ CloseSink
  <2>1. /\ pc = "chunks" /\ pc' = "entry" /\ ix' = ix + 1 /\ UNCHANGED <<m, format, occurrence>>
    BY <1>8, <1>k DEF CloseSink, Begun
  <2>2. /\ ix \in 1 .. Len(m.entries) /\ m.entries[ix].kind = "file"
        /\ occurrence \in B(ix) .. B(ix + 1)
    BY <2>1 DEF Placed, Counted
  <2>3. ~(occurrence < m.entries[ix].first + m.entries[ix].count)
    BY <1>8, <2>1 DEF NoMore, InEntry, MoreChunks, Tabled
  <2>4. /\ m.entries[ix].first + m.entries[ix].count = B(ix + 1)
        /\ B(ix) \in Nat /\ B(ix + 1) \in Nat
    BY <1>0, <2>1, <2>2 DEF RangesOf, Holding
  <2>5. occurrence = B(ix + 1) BY <2>2, <2>3, <2>4
  <2> QED BY <2>1, <2>5 DEF Counted
<1>9. CASE Ending \/ Publish \/ RemoveScratch \/ ScratchNotRemoved
  BY <1>9, <1>k DEF Begun, Ending, Finish, Publish, RemoveScratch, ScratchNotRemoved
<1> QED BY <1>1, <1>2, <1>3, <1>4, <1>5, <1>6, <1>7, <1>8, <1>9, StepKinds, Zenon

(* While a file has chunks left, the next is in the table, and the chunk     *)
(* that it refers to was restored before.                                    *)
LEMMA AtChunk ==
    ASSUME Staged, Parsed, Placed, Counted, pc = "chunks", format \in Tabled,
           occurrence < m.entries[ix].first + m.entries[ix].count
    PROVE  /\ occurrence \in Nat /\ occurrence + 1 \in DOMAIN m.chunks
           /\ m.chunks[occurrence + 1] \in TableRecord
           /\ m.chunks[occurrence + 1].source # occurrence =>
                 /\ m.chunks[occurrence + 1].source \in Nat
                 /\ m.chunks[occurrence + 1].source < occurrence
                 /\ m.chunks[occurrence + 1].source + 1 \in DOMAIN m.chunks
                 /\ m.chunks[m.chunks[occurrence + 1].source + 1].source
                       = m.chunks[occurrence + 1].source
<1> DEFINE B(i) == ChunksBefore(m.entries, i)
           cs == m.chunks
<1>1. /\ m \in ManifestFields /\ RangesOf(m) /\ ReferencesDirect(m)
  BY RangesRead DEF Parsed, Readable, Holding
<1>2. ix \in 1 .. Len(m.entries) /\ m.entries[ix].kind = "file" /\ occurrence \in B(ix) .. B(ix + 1)
  BY DEF Placed, Counted
<1>3. /\ m.entries[ix].first + m.entries[ix].count = B(ix + 1)
      /\ B(ix) \in Nat /\ B(ix + 1) \in B(ix) .. Len(m.chunks)
  BY <1>1, <1>2 DEF RangesOf
<1>4. /\ Len(cs) \in Nat /\ DOMAIN cs = 1 .. Len(cs)
         /\ \A i \in 1 .. Len(cs) : cs[i] \in TableRecord
  BY <1>1, EntriesListed
<1>5. occurrence \in Nat /\ occurrence + 1 \in 1 .. Len(cs)
  <2> HIDE DEF B
  <2> QED BY <1>2, <1>3, <1>4
<1>6. cs[occurrence + 1] \in TableRecord BY <1>4, <1>5
<1>7. ASSUME cs[occurrence + 1].source # occurrence
      PROVE  /\ cs[occurrence + 1].source \in Nat
             /\ cs[occurrence + 1].source < occurrence
             /\ cs[occurrence + 1].source + 1 \in 1 .. Len(cs)
             /\ cs[cs[occurrence + 1].source + 1].source = cs[occurrence + 1].source
  <2>1. cs[occurrence + 1].source \in Nat BY <1>6 DEF TableRecord
  <2>2. (occurrence + 1) - 1 = occurrence BY <1>5
  <2>3. /\ cs[occurrence + 1].source < occurrence
        /\ cs[cs[occurrence + 1].source + 1].source = cs[occurrence + 1].source
    BY <1>1, <1>4, <1>5, <1>7, <2>2 DEF ReferencesDirect
  <2> HIDE DEF cs
  <2> QED BY <1>4, <1>5, <2>1, <2>3
<1> QED BY <1>4, <1>5, <1>6, <1>7

(* Every step keeps what later chunks refer to.                              *)
LEMMA CachedStep ==
    Staged /\ Parsed /\ Placed /\ Counted /\ Cached /\ [Next]_vars => Cached'
<1> SUFFICES ASSUME Staged, Parsed, Placed, Counted, Cached, [Next]_vars,
                    pc' \in Begun \cup {"prepare"}, format' \in Tabled
             PROVE Cached' BY DEF Cached, Tabled
<1> USE DEF Fail, given, position, Begun
<1>1. CASE Header BY <1>1 DEF Header, Dispatch, Open, ReadHeader, StreamHeader, SingleHeader
<1>2. CASE Reading
  <2>1. CASE ReadManifest /\ format = "MSC6"
    BY <2>1 DEF Cached, ReadManifest, ManifestAccepted
  <2>2. CASE ReadSolid /\ format = "MSR1" BY <2>2 DEF Cached, ReadSolid
  <2>3. CASE CopyCanonical /\ format = "MSR2" BY <2>3 DEF Cached, CopyCanonical
  <2> QED BY <1>2, <2>1, <2>2, <2>3
          DEF Reading, StreamReadManifest, ReadInner, ReadMetadata, ReadLaneFrame, LaneDone,
              ManifestAccepted, Tabled
<1>3. CASE WritingOne
  <2>0. /\ pc = "chunks" /\ pc' = "chunks" /\ UNCHANGED <<format, m, ix>>
        /\ occurrence' = occurrence + 1
    BY <1>3 DEF Begun, WritingOne, RestoreUnique, RestoreDuplicate, RestoreBlock, RestoreRecord,
                RestoreCanonical, Write
  <2>1. CASE format = "MSC6" /\ RestoreUnique
    <3>1. cache' = IF occurrence \in Referenced THEN cache \cup {occurrence} ELSE cache
      BY <2>0, <2>1 DEF RestoreUnique
    <3>2. occurrence \in Nat BY <2>0, <2>1, AtChunk DEF RestoreUnique, InEntry, Tabled
    <3>3. \A o \in Referenced : o \in Nat
      <4>1. \A i \in DOMAIN m.chunks : m.chunks[i].source \in Nat
        BY <2>0, EntriesListed DEF Parsed, Readable, Holding, TableRecord
      <4> QED BY <4>1 DEF Referenced
    <3>4. \A o \in Referenced : o < occurrence => o \in cache BY <2>0, <2>1 DEF Cached
    <3>5. \A o \in Referenced : o < occurrence + 1 => o \in cache' BY <3>1, <3>2, <3>3, <3>4
    <3>6. Referenced' = Referenced BY <2>0 DEF Referenced
    <3> QED BY <2>0, <2>1, <3>5, <3>6 DEF Cached
  <2>2. CASE format = "MSC6" /\ RestoreDuplicate
    <3>0. cache' = cache /\ Record.source # occurrence /\ InEntry
      BY <2>0, <2>2 DEF RestoreDuplicate
    <3>2. occurrence \in Nat BY <2>0, <2>2, <3>0, AtChunk DEF InEntry, Tabled
    <3>3. \A o \in Referenced : o \in Nat /\ o # occurrence
      <4>1. m \in ManifestFields /\ ReferencesDirect(m)
        BY <2>0, <2>2 DEF Parsed, Readable, Holding, Tabled
      <4>2. ASSUME NEW i \in DOMAIN m.chunks, m.chunks[i].source # i - 1
            PROVE  m.chunks[i].source \in Nat /\ m.chunks[i].source # occurrence
        <5>1. m.chunks[i].source \in Nat BY <4>1, EntriesListed DEF TableRecord
        <5>2. m.chunks[m.chunks[i].source + 1].source = m.chunks[i].source
          BY <4>1, <4>2 DEF ReferencesDirect
        <5> QED BY <3>0, <5>1, <5>2 DEF Record
      <4> QED BY <4>2 DEF Referenced
    <3>4. \A o \in Referenced : o < occurrence => o \in cache BY <2>0, <2>2 DEF Cached
    <3>5. \A o \in Referenced : o < occurrence + 1 => o \in cache' BY <3>0, <3>2, <3>3, <3>4
    <3>6. Referenced' = Referenced BY <2>0 DEF Referenced
    <3> QED BY <2>0, <2>2, <3>5, <3>6 DEF Cached
  <2>3. CASE format \in {"MSR1", "MSR2"} /\ RestoreCanonical
    <3>1. cache' = cache BY <2>0, <2>3 DEF RestoreCanonical
    <3>2. UniqueOccurrences(m') = UniqueOccurrences(m) BY <2>0
    <3> QED BY <2>0, <2>3, <3>1, <3>2 DEF Cached
  <2> QED BY <1>3, <2>0, <2>1, <2>2, <2>3 DEF WritingOne, Tabled
<1>4. CASE Outside
  <2>1. UNCHANGED <<format, m, occurrence, cache>> /\ pc' = pc
    BY <1>4 DEF Outside, Fault, Interrupt, Kill, Rebind, Swap, vars, scratch
  <2>2. Referenced' = Referenced BY <2>1 DEF Referenced
  <2> QED BY <2>1, <2>2 DEF Cached
<1>5. CASE PrepareOutput
  <2>1. UNCHANGED <<format, m, occurrence, cache>> /\ pc = "prepare" /\ pc' = "entry"
    BY <1>5 DEF PrepareOutput, scratch
  <2>2. ASSUME format = "MSC6" PROVE \A o \in Referenced' : o < occurrence' => o \in cache'
    <3>1. m \in ManifestFields /\ occurrence = 0 BY <2>1 DEF Parsed, Readable, Holding, Placed
    <3>2. \A i \in DOMAIN m.chunks : m.chunks[i].source \in Nat
      BY <3>1, EntriesListed DEF TableRecord
    <3>3. Referenced' = Referenced BY <2>1 DEF Referenced
    <3>4. \A o \in Referenced : o \in Nat BY <3>2 DEF Referenced
    <3> QED BY <2>1, <3>1, <3>3, <3>4
  <2>3. format \in {"MSR1", "MSR2"} => cache' = UniqueOccurrences(m') BY <2>1 DEF Cached
  <2> QED BY <2>1, <2>2, <2>3 DEF Cached
<1>6. CASE OpenSink(First)
  <2>1. UNCHANGED <<format, m, ix, cache>> /\ pc = "entry" /\ pc' = "chunks" /\ occurrence' = First
        /\ ix <= Len(m.entries) /\ m.entries[ix].kind = "file"
    BY <1>6 DEF OpenSink, scratch
  <2>2. First = occurrence
    <3>1. m \in ManifestFields /\ RangesOf(m) BY <2>1, RangesRead DEF Parsed, Readable, Holding
    <3>2. ix \in 1 .. Len(m.entries) BY <2>1, <3>1, EntriesListed DEF Placed
    <3> QED BY <2>1, <3>1, <3>2 DEF RangesOf, First, Counted
  <2>3. Referenced' = Referenced BY <2>1 DEF Referenced
  <2> QED BY <2>1, <2>2, <2>3 DEF Cached
<1>7. CASE RestoreDirectory \/ CloseSink
  <2>1. UNCHANGED <<format, m, cache, occurrence>> /\ pc' = "entry" /\ pc \in Begun
    BY <1>7 DEF RestoreDirectory, CloseSink, scratch
  <2>2. Referenced' = Referenced BY <2>1 DEF Referenced
  <2> QED BY <2>1, <2>2 DEF Cached
<1>8. CASE Ending \/ Publish \/ RemoveScratch \/ ScratchNotRemoved
  BY <1>8 DEF Ending, Finish, Publish, RemoveScratch, ScratchNotRemoved
<1> QED BY <1>1, <1>2, <1>3, <1>4, <1>5, <1>6, <1>7, <1>8, StepKinds, Zenon

(* Every step restores a reference from a cache that holds it, as            *)
(* restore_dedup_archive expects.                                            *)
LEMMA HitStep ==
    Staged /\ Parsed /\ Placed /\ Counted /\ Cached /\ CacheHit /\ [Next]_vars => CacheHit'
<1> SUFFICES ASSUME Staged, Parsed, Placed, Counted, Cached, CacheHit, [Next]_vars PROVE CacheHit'
  OBVIOUS
<1> USE DEF Fail, given, position, CacheHit
<1>1. CASE Header BY <1>1 DEF Header, Dispatch, Open, ReadHeader, StreamHeader, SingleHeader
<1>2. CASE Reading
  BY <1>2 DEF Reading, ReadManifest, StreamReadManifest, ReadInner, ReadSolid, ReadMetadata,
              ReadLaneFrame, LaneDone, CopyCanonical, ManifestAccepted
<1>3. CASE WritingOne
  <2>1. CASE format = "MSC6" /\ RestoreDuplicate
    <3>1. pc = "chunks" /\ InEntry /\ Record.source # occurrence BY <2>1 DEF RestoreDuplicate
    <3>2. /\ occurrence + 1 \in DOMAIN m.chunks /\ Record.source < occurrence /\ occurrence \in Nat
      BY <2>1, <3>1, AtChunk DEF InEntry, Record, Tabled
    <3>3. Record.source \in Referenced
      <4>1. (occurrence + 1) - 1 = occurrence BY <3>2
      <4> QED BY <3>1, <3>2, <4>1 DEF Referenced, Record
    <3>4. Record.source \in cache BY <2>1, <3>1, <3>2, <3>3 DEF Cached, Begun
    <3> QED BY <2>1, <3>4 DEF RestoreDuplicate, Write
  <2>2. CASE format \in {"MSR1", "MSR2"} /\ RestoreCanonical
    <3> DEFINE at == m.chunks[occurrence + 1].source
    <3>1. pc = "chunks" /\ MoreChunks BY <2>2 DEF RestoreCanonical
    <3>2. /\ occurrence + 1 \in DOMAIN m.chunks /\ occurrence \in Nat
          /\ at # occurrence => /\ at \in Nat /\ at + 1 \in DOMAIN m.chunks
                                /\ m.chunks[at + 1].source = at
      BY <2>2, <3>1, AtChunk DEF MoreChunks, Tabled
    <3>3. at \in UniqueOccurrences(m)
      <4>1. CASE at = occurrence
        <5>1. (occurrence + 1) - 1 = occurrence BY <3>2
        <5> QED BY <3>2, <4>1, <5>1 DEF UniqueOccurrences, Unique
      <4>2. CASE at # occurrence
        <5>1. (at + 1) - 1 = at BY <3>2, <4>2
        <5> QED BY <3>2, <4>2, <5>1 DEF UniqueOccurrences, Unique
      <4> QED BY <4>1, <4>2
    <3>4. at \in cache BY <2>2, <3>1, <3>3 DEF Cached, Begun
    <3> QED BY <2>2, <3>4 DEF RestoreCanonical, Write
  <2> QED BY <1>3, <2>1, <2>2 DEF WritingOne, RestoreUnique, RestoreBlock, RestoreRecord, Write
<1>4. CASE Outside
  BY <1>4 DEF Outside, Fault, Interrupt, Kill, Rebind, Swap, vars
<1>5. CASE \/ PrepareOutput \/ RestoreDirectory \/ OpenSink(First) \/ CloseSink
           \/ Ending \/ Publish \/ RemoveScratch \/ ScratchNotRemoved
  BY <1>5 DEF PrepareOutput, RestoreDirectory, OpenSink, CloseSink, Ending, Finish, Publish,
              RemoveScratch, ScratchNotRemoved
<1> QED BY <1>1, <1>2, <1>3, <1>4, <1>5, StepKinds, Zenon

-----------------------------------------------------------------------------
(* The directories above a path.                                             *)

(* The parent of a path, none for a root.                                    *)
Up(p) == IF ParentOf[p] = p THEN {} ELSE {ParentOf[p]}

(* S holds the parent of each of its members.                                *)
ClosedUp(S) == \A r \in S : Up(r) \subseteq S

(* The directories above p: the smallest set with the parent of p and of     *)
(* each of its members.                                                      *)
Above(p) == {q \in RecordPath : \A S \in SUBSET RecordPath : Up(p) \subseteq S
    /\ ClosedUp(S) => q \in S}

(* The directories above p are its parent and those above its parent: no     *)
(* path is above itself for ever.                                            *)
LEMMA AboveUnfolds ==
    ASSUME NEW p \in RecordPath
    PROVE  Above(p) = IF ParentOf[p] = p THEN {} ELSE {ParentOf[p]} \cup Above(ParentOf[p])
<1>0. ParentOf[p] \in RecordPath BY PathAssumption
<1>1. CASE ParentOf[p] = p
  <2>1. ASSUME NEW q \in Above(p) PROVE FALSE
    <3>1. {} \in SUBSET RecordPath /\ Up(p) \subseteq {} /\ ClosedUp({}) BY <1>1 DEF Up, ClosedUp
    <3> QED BY <3>1, <2>1 DEF Above
  <2> QED BY <1>1, <2>1
<1>2. CASE ParentOf[p] # p
  <2> DEFINE h == ParentOf[p]
  <2>0. Up(p) = {h} BY <1>2 DEF Up
  <2>1. h \in Above(p) BY <1>0, <2>0 DEF Above
  <2>2. ASSUME NEW q \in Above(h) PROVE q \in Above(p)
    <3>1. q \in RecordPath BY <2>2 DEF Above
    <3>2. ASSUME NEW S \in SUBSET RecordPath, Up(p) \subseteq S, ClosedUp(S) PROVE q \in S
      <4>1. h \in S BY <2>0, <3>2
      <4>2. Up(h) \subseteq S BY <4>1, <3>2 DEF ClosedUp
      <4> QED BY <2>2, <3>2, <4>2 DEF Above
    <3> QED BY <3>1, <3>2 DEF Above
  <2>3. ASSUME NEW q \in Above(p), q # h PROVE q \in Above(h)
    <3>1. q \in RecordPath BY <2>3 DEF Above
    <3>2. ASSUME NEW S \in SUBSET RecordPath, Up(h) \subseteq S, ClosedUp(S) PROVE q \in S
      <4> DEFINE T == S \cup {h}
      <4>1. T \in SUBSET RecordPath /\ Up(p) \subseteq T BY <1>0, <2>0
      <4>2. ClosedUp(T) BY <3>2 DEF ClosedUp
      <4>3. q \in T
        <5> HIDE DEF T
        <5> QED BY <2>3, <4>1, <4>2 DEF Above
      <4> QED BY <2>3, <4>3
    <3> QED BY <3>1, <3>2 DEF Above
  <2> QED BY <1>2, <2>1, <2>2, <2>3
<1> QED BY <1>1, <1>2

(* mkdir(parents=True) makes the parent of a path and what it makes for the  *)
(* parent.                                                                   *)
LEMMA MissingUnfolds ==
    \E f : /\ \A p \in RecordPath : Missing(p) = f[p]
          /\ \A p \in RecordPath :
                f[p] = IF ParentOf[p] = p THEN {} ELSE {ParentOf[p]} \cup f[ParentOf[p]]
<1> DEFINE Is(f) == f = [p \in DOMAIN ParentOf |-> IF ParentOf[p] = p THEN {}
                                                  ELSE {ParentOf[p]} \cup f[ParentOf[p]]]
<1>1. \E f : Is(f)
  <2> DEFINE g == [p \in RecordPath |-> Above(p)]
  <2>1. \A p \in RecordPath : g[p] = IF ParentOf[p] = p THEN {} ELSE {ParentOf[p]}
        \cup g[ParentOf[p]]
    BY AboveUnfolds, PathAssumption
  <2>2. g = [p \in RecordPath |-> g[p]] OBVIOUS
  <2> HIDE DEF g
  <2>3. Is(g) BY <2>1, <2>2 DEF RecordPath
  <2> HIDE DEF Is
  <2> QED BY <2>3
<1> DEFINE f == CHOOSE h : Is(h)
<1>2. Is(f)
  <2> HIDE DEF Is
  <2> QED BY <1>1
<1>3. \A p \in RecordPath : Missing(p) = f[p] BY DEF Missing
<1> HIDE DEF f
<1>4. \A p \in RecordPath : f[p] = IF ParentOf[p] = p THEN {} ELSE {ParentOf[p]} \cup f[ParentOf[p]]
  BY <1>2 DEF RecordPath
<1> HIDE DEF Is
<1> QED BY <1>3, <1>4

(* The parent of a path is among the directories made for it.                *)
LEMMA MissingParent ==
    ASSUME NEW q \in RecordPath, ParentOf[q] # q PROVE ParentOf[q] \in Missing(q)
<1>1. PICK f : /\ \A p \in RecordPath : Missing(p) = f[p]
               /\ \A p \in RecordPath :
                     f[p] = IF ParentOf[p] = p THEN {} ELSE {ParentOf[p]} \cup f[ParentOf[p]]
  BY MissingUnfolds
<1>2. f[q] = {ParentOf[q]} \cup f[ParentOf[q]] BY <1>1
<1> QED BY <1>1, <1>2

(* mkdir(parents=True) makes no directory outside D when the parents of all  *)
(* listed paths are in D.                                                    *)
LEMMA MissingWithin ==
    ASSUME NEW D, NEW S \in SUBSET RecordPath, D \subseteq S,
           \A p \in S : ParentOf[p] = p \/ ParentOf[p] \in D,
           NEW q \in S
    PROVE  Missing(q) \subseteq D
<1>1. PICK f : /\ \A p \in RecordPath : Missing(p) = f[p]
               /\ \A p \in RecordPath :
                     f[p] = IF ParentOf[p] = p THEN {} ELSE {ParentOf[p]} \cup f[ParentOf[p]]
  BY MissingUnfolds
<1> DEFINE bad == {p \in S : ~(f[p] \subseteq D)}
<1>2. ASSUME NEW p \in bad, ParentOf[p] = p \/ ParentOf[p] \notin bad PROVE FALSE
  <2>1. p \in S /\ p \in RecordPath OBVIOUS
  <2>2. CASE ParentOf[p] = p BY <1>1, <2>1, <2>2
  <2>3. CASE ParentOf[p] # p
    <3>1. ParentOf[p] \in D BY <2>1, <2>3
    <3>2. ParentOf[p] \in S BY <3>1
    <3>3. f[ParentOf[p]] \subseteq D BY <1>2, <2>3, <3>2
    <3> QED BY <1>1, <2>1, <2>3, <3>1, <3>3
  <2> QED BY <2>2, <2>3
<1>3. bad = {}
  <2>1. bad \in SUBSET RecordPath OBVIOUS
  <2> HIDE DEF bad
  <2> QED BY <1>2, <2>1, PathAssumption
<1> QED BY <1>1, <1>3

-----------------------------------------------------------------------------
(* What was restored so far.                                                 *)

(* The files of the first n entries with their digests.                      *)
FilesUpTo(manifest, n) ==
    {<<manifest.entries[i].path, manifest.entries[i].digest>> :
        i \in {k \in 1 .. n : manifest.entries[k].kind = "file"}}

(* The directories of the first n entries.                                   *)
DirsUpTo(manifest, n) ==
    {manifest.entries[i].path : i \in {k \in 1 .. n : manifest.entries[k].kind = "dir"}}

(* The temporary output holds the files of the first n entries, their        *)
(* directories, and no directory that the manifest does not list.            *)
Made(n) ==
    /\ temp.files = FilesUpTo(m, n)
    /\ DirsUpTo(m, n) \subseteq temp.dirs
    /\ temp.dirs \subseteq DirsUpTo(m, Len(m.entries))

(* The temporary output is what the entries so far make it; it is complete   *)
(* when it is published.                                                     *)
Restoring ==
    /\ pc \in Begun /\ temp.made => Made(ix - 1)
    /\ pc = "replace" => temp = Complete
    /\ published \in {NoOutput, Complete}

(* One entry more adds its file or its directory.                            *)
LEMMA UpToStep ==
    ASSUME NEW manifest, NEW i \in Nat, i > 0
    PROVE  /\ FilesUpTo(manifest, i) =
                IF manifest.entries[i].kind = "file"
                THEN FilesUpTo(manifest, i - 1) \cup {<<manifest.entries[i].path,
                    manifest.entries[i].digest>>}
                ELSE FilesUpTo(manifest, i - 1)
           /\ DirsUpTo(manifest, i) =
                IF manifest.entries[i].kind = "dir" THEN DirsUpTo(manifest, i - 1)
                    \cup {manifest.entries[i].path}
                ELSE DirsUpTo(manifest, i - 1)
<1>1. 1 .. i = (1 .. i - 1) \cup {i} OBVIOUS
<1>2. \A j \in 1 .. i - 1 : j \in 1 .. i OBVIOUS
<1> QED BY <1>1 DEF FilesUpTo, DirsUpTo

(* The parents of a listed path are directories that the manifest lists.     *)
LEMMA MissingFound ==
    ASSUME NEW manifest \in ManifestFields, Shape(manifest), manifest.kind = "folder",
           NEW i \in 1 .. Len(manifest.entries)
    PROVE  Missing(manifest.entries[i].path) \subseteq DirsUpTo(manifest, Len(manifest.entries))
<1> DEFINE D == DirsUpTo(manifest, Len(manifest.entries))
           S == {manifest.entries[k].path : k \in 1 .. Len(manifest.entries)}
<1>1. /\ DOMAIN manifest.entries = 1 .. Len(manifest.entries)
      /\ \A k \in 1 .. Len(manifest.entries) : manifest.entries[k].path \in RecordPath
  BY EntriesListed DEF EntryRecord
<1>2. S \in SUBSET RecordPath /\ D \subseteq S /\ manifest.entries[i].path \in S
  BY <1>1 DEF DirsUpTo
<1>3. ASSUME NEW p \in S PROVE ParentOf[p] = p \/ ParentOf[p] \in D
  <2>1. PICK k \in 1 .. Len(manifest.entries) : p = manifest.entries[k].path OBVIOUS
  <2> QED BY <1>1, <2>1 DEF Shape, DirsUpTo
<1> HIDE DEF D, S
<1>4. Missing(manifest.entries[i].path) \subseteq D BY <1>2, <1>3, MissingWithin
<1> QED BY <1>4 DEF D

(* Every step keeps the output as the entries make it.                       *)
LEMMA RestoringStep ==
    Staged /\ Parsed /\ Placed /\ Restoring /\ [Next]_vars => Restoring'
<1> SUFFICES ASSUME Staged, Parsed, Placed, Restoring, [Next]_vars PROVE Restoring' OBVIOUS
<1> USE DEF Fail, given, position
<1>k. /\ temp = [made |-> temp.made, dirs |-> temp.dirs, files |-> temp.files]
      /\ (Running /\ pc # "unspool" => published = NoOutput)
  BY DEF Staged, Clean
<1>l. m' = m => Complete' = Complete BY DEF Complete
<1>1. CASE Header
  <2>1. pc' \in Early \cup {"failed"} /\ UNCHANGED published /\ Running /\ pc # "unspool"
    BY <1>1 DEF Header, Dispatch, Open, ReadHeader, StreamHeader, SingleHeader, Early, Running
  <2> QED BY <1>k, <2>1 DEF Restoring, Begun, Early
<1>2. CASE Reading
  <2>1. pc' \in {"lanes", "prepare", "failed"} /\ UNCHANGED published /\ Running /\ pc # "unspool"
    BY <1>2 DEF Reading, ReadManifest, StreamReadManifest, ReadInner, ReadSolid, ReadMetadata,
              ReadLaneFrame, LaneDone, CopyCanonical, ManifestAccepted, Running
  <2> QED BY <1>k, <2>1 DEF Restoring, Begun
<1>3. CASE WritingOne
  <2>1. \/ UNCHANGED <<temp, published, ix, m>> /\ pc \in Begun /\ pc' \in Begun
        \/ pc' = "failed" /\ UNCHANGED <<published, m>>
    BY <1>3 DEF WritingOne, RestoreUnique, RestoreDuplicate, RestoreBlock, RestoreRecord,
              RestoreCanonical, Write, Begun
  <2> QED BY <1>l, <2>1 DEF Restoring, Made, Begun
<1>4. CASE Outside
  <2>1. UNCHANGED <<published, m>> /\ (pc' \in {"failed", "killed"} \/ UNCHANGED <<pc, temp, ix>>)
    BY <1>4 DEF Outside, Fault, Interrupt, Kill, Rebind, Swap, vars
  <2> QED BY <1>l, <2>1 DEF Restoring, Made, Begun
<1>5. CASE PrepareOutput
  <2>1. \/ pc' = "failed" /\ UNCHANGED <<published, m>>
        \/ pc' = "entry" /\ ix' = 1 /\ UNCHANGED <<published, m>>
           /\ temp' = [NoOutput EXCEPT !.made = ~inspect \/ format = "MSR2"]
    BY <1>5 DEF PrepareOutput
  <2>2. CASE pc' = "failed" /\ UNCHANGED <<published, m>> BY <1>l, <2>2 DEF Restoring, Begun
  <2>3. CASE pc' = "entry" /\ ix' = 1 /\ UNCHANGED <<published, m>>
           /\ temp' = [NoOutput EXCEPT !.made = ~inspect \/ format = "MSR2"]
    <3>1. temp'.dirs = {} /\ temp'.files = {} BY <2>3 DEF NoOutput
    <3>2. ix' - 1 = 0 /\ FilesUpTo(m, 0) = {} /\ DirsUpTo(m, 0) = {} BY <2>3 DEF FilesUpTo, DirsUpTo
    <3> QED BY <1>l, <2>3, <3>1, <3>2 DEF Restoring, Made, Begun
  <2> QED BY <2>1, <2>2, <2>3
<1>6. CASE RestoreDirectory
  <2>1. CASE pc' = "failed" /\ UNCHANGED <<published, m>> BY <1>l, <2>1 DEF Restoring, Begun
  <2>2. CASE /\ pc = "entry" /\ pc' = "entry" /\ ix' = ix + 1 /\ UNCHANGED <<published, m>>
             /\ ix <= Len(m.entries) /\ m.entries[ix].kind = "dir"
             /\ temp' = IF temp.made THEN [temp EXCEPT !.dirs = @ \cup {m.entries[ix].path}
                \cup Missing(m.entries[ix].path)]
                        ELSE temp
    <3>1. CASE ~temp.made BY <1>l, <2>2, <3>1 DEF Restoring, Begun
    <3>2. CASE temp.made
      <4> DEFINE path == m.entries[ix].path
      <4>1. /\ temp'.files = temp.files
            /\ temp'.dirs = temp.dirs \cup {path} \cup Missing(path)
        <5> HIDE DEF path
        <5>1. temp' = [temp EXCEPT !.dirs = @ \cup {path} \cup Missing(path)] BY <2>2, <3>2 DEF path
        <5> QED BY <1>k, <5>1
      <4>2. m \in ManifestFields /\ Shape(m) BY <2>2 DEF Parsed, Readable, Holding
      <4>3. ix \in 1 .. Len(m.entries) /\ Len(m.entries) \in Nat
        BY <2>2, <4>2, EntriesListed DEF Placed
      <4>4. m.kind = "folder"
        <5> SUFFICES ASSUME m.kind = "file" PROVE FALSE BY <4>2 DEF ManifestFields
        <5> QED BY <2>2, <4>2, <4>3 DEF Shape, SingleFile
      <4>5. Missing(path) \subseteq DirsUpTo(m, Len(m.entries)) BY <4>2, <4>3, <4>4, MissingFound
      <4>6. path \in DirsUpTo(m, Len(m.entries)) BY <2>2, <4>3 DEF DirsUpTo
      <4>7. FilesUpTo(m, ix) = FilesUpTo(m, ix - 1) /\ DirsUpTo(m, ix) = DirsUpTo(m, ix - 1)
            \cup {path}
        BY <2>2, <4>3, UpToStep
      <4>8. Made(ix - 1) BY <2>2, <3>2 DEF Restoring, Begun
      <4>9. /\ temp'.files = FilesUpTo(m, ix) /\ DirsUpTo(m, ix) \subseteq temp'.dirs
            /\ temp'.dirs \subseteq DirsUpTo(m, Len(m.entries))
        <5> HIDE DEF path
        <5> QED BY <4>1, <4>5, <4>6, <4>7, <4>8 DEF Made
      <4>10. ix' - 1 = ix /\ m' = m BY <2>2, <4>3
      <4> QED BY <1>l, <2>2, <4>9, <4>10 DEF Restoring, Made
    <3> QED BY <3>1, <3>2
  <2> QED BY <1>6, <2>1, <2>2 DEF RestoreDirectory
<1>7. CASE OpenSink(First)
  <2>1. /\ pc = "entry" /\ pc' = "chunks" /\ UNCHANGED <<published, m, ix>>
        /\ ix <= Len(m.entries)
        /\ temp' = IF temp.made /\ m.kind = "folder"
                   THEN [temp EXCEPT !.dirs = @ \cup Missing(m.entries[ix].path)] ELSE temp
    BY <1>7 DEF OpenSink
  <2>2. CASE ~(temp.made /\ m.kind = "folder") BY <1>l, <2>1, <2>2 DEF Restoring, Begun, Made
  <2>3. CASE temp.made /\ m.kind = "folder"
    <3> DEFINE path == m.entries[ix].path
    <3>1. /\ temp'.files = temp.files
          /\ temp'.dirs = temp.dirs \cup Missing(path)
      <4> HIDE DEF path
      <4>1. temp' = [temp EXCEPT !.dirs = @ \cup Missing(path)] BY <2>1, <2>3 DEF path
      <4> QED BY <1>k, <4>1
    <3>2. m \in ManifestFields /\ Shape(m) BY <2>1 DEF Parsed, Readable, Holding
    <3>3. ix \in 1 .. Len(m.entries) BY <2>1, <3>2, EntriesListed DEF Placed
    <3>4. Missing(path) \subseteq DirsUpTo(m, Len(m.entries)) BY <2>3, <3>2, <3>3, MissingFound
    <3>5. Made(ix - 1) BY <2>1, <2>3 DEF Restoring, Begun
    <3>6. /\ temp'.files = FilesUpTo(m, ix - 1) /\ DirsUpTo(m, ix - 1) \subseteq temp'.dirs
          /\ temp'.dirs \subseteq DirsUpTo(m, Len(m.entries))
      <4> HIDE DEF path
      <4> QED BY <3>1, <3>4, <3>5 DEF Made
    <3> QED BY <1>l, <2>1, <3>6 DEF Restoring, Made
  <2> QED BY <2>2, <2>3
<1>8. CASE CloseSink
  <2>1. CASE pc' = "failed" /\ UNCHANGED <<published, m>> BY <1>l, <2>1 DEF Restoring, Begun
  <2>2. CASE /\ pc = "chunks" /\ pc' = "entry" /\ ix' = ix + 1 /\ UNCHANGED <<published, m>>
             /\ taken = m.entries[ix].digest
             /\ temp' = IF temp.made
                        THEN [temp EXCEPT !.files = @ \cup {<<m.entries[ix].path,
                            taken>>}] ELSE temp
    <3>1. CASE ~temp.made BY <1>l, <2>2, <3>1 DEF Restoring, Begun
    <3>2. CASE temp.made
      <4> DEFINE pair == <<m.entries[ix].path, m.entries[ix].digest>>
      <4>1. /\ temp'.files = temp.files \cup {pair} /\ temp'.dirs = temp.dirs
        <5> HIDE DEF pair
        <5>1. temp' = [temp EXCEPT !.files = @ \cup {pair}] BY <2>2, <3>2 DEF pair
        <5> QED BY <1>k, <5>1
      <4>2. ix \in 1 .. Len(m.entries) /\ m.entries[ix].kind = "file" BY <2>2 DEF Placed
      <4>3. Len(m.entries) \in Nat BY <2>2, EntriesListed DEF Parsed, Readable, Holding
      <4>4. FilesUpTo(m, ix) = FilesUpTo(m, ix - 1) \cup {pair}
            /\ DirsUpTo(m, ix) = DirsUpTo(m, ix - 1)
        BY <4>2, <4>3, UpToStep
      <4>5. Made(ix - 1) BY <2>2, <3>2 DEF Restoring, Begun
      <4>6. ix' - 1 = ix BY <2>2, <4>2, <4>3
      <4> HIDE DEF pair
      <4> QED BY <1>l, <2>2, <4>1, <4>4, <4>5, <4>6 DEF Restoring, Made
    <3> QED BY <3>1, <3>2
  <2> QED BY <1>8, <2>1, <2>2 DEF CloseSink
<1>9. CASE Ending
  <2>1. \/ pc' \in {"failed", "done"} /\ UNCHANGED <<published, m>>
        \/ /\ pc = "entry" /\ ix > Len(m.entries) /\ pc' = "replace" /\ ~inspect
           /\ UNCHANGED <<temp, published, m>>
    BY <1>9 DEF Ending, Finish
  <2>2. CASE pc' \in {"failed", "done"} /\ UNCHANGED <<published, m>>
    BY <1>l, <2>2 DEF Restoring, Begun
  <2>3. CASE /\ pc = "entry" /\ ix > Len(m.entries) /\ pc' = "replace" /\ ~inspect
             /\ UNCHANGED <<temp, published, m>>
    <3> DEFINE N == Len(m.entries)
    <3>1. N \in Nat /\ DOMAIN m.entries = 1 .. N
      BY <2>3, EntriesListed DEF Parsed, Readable, Holding
    <3>2. ix - 1 = N BY <2>3, <3>1 DEF Placed
    <3>3. temp.made = (~inspect \/ format = "MSR2") BY <2>3 DEF Staged, Clean, Begun
    <3>3a. temp.made = TRUE BY <2>3, <3>3
    <3>4. Made(N) BY <2>3, <3>2, <3>3a DEF Restoring, Begun
    <3>5. temp.files = FilesUpTo(m, N) /\ temp.dirs = DirsUpTo(m, N) BY <3>4 DEF Made
    <3>6. Complete = [made |-> TRUE, dirs |-> DirsUpTo(m, N), files |-> FilesUpTo(m, N)]
      <4>1. DirsUpTo(m, N) = {e.path : e \in {x \in {m.entries[i] : i \in DOMAIN m.entries} :
            x.kind = "dir"}}
        <5> HIDE DEF N
        <5> QED BY <3>1 DEF DirsUpTo
      <4>2. FilesUpTo(m, N) = {<<e.path, e.digest>> : e \in {x \in {m.entries[i] :
            i \in DOMAIN m.entries} : x.kind = "file"}}
        <5> HIDE DEF N
        <5> QED BY <3>1 DEF FilesUpTo
      <4> HIDE DEF N
      <4> QED BY <4>1, <4>2 DEF Complete
    <3>7. temp = Complete
      <4> HIDE DEF N
      <4> QED BY <1>k, <3>3a, <3>5, <3>6
    <3> QED BY <1>l, <2>3, <3>7 DEF Restoring, Begun
  <2> QED BY <2>1, <2>2, <2>3
<1>10. CASE Publish
  <2>1. \/ pc' = "failed" /\ UNCHANGED <<published, m>>
        \/ pc = "replace" /\ pc' \in {"unspool", "done"} /\ published' = temp /\ m' = m
    BY <1>10 DEF Publish
  <2> QED BY <1>l, <2>1 DEF Restoring, Begun
<1>11. CASE RemoveScratch \/ ScratchNotRemoved
  BY <1>l, <1>11 DEF Restoring, Begun, RemoveScratch, ScratchNotRemoved
<1> QED BY <1>1, <1>2, <1>3, <1>4, <1>5, <1>6, <1>7, <1>8, <1>9, <1>10, <1>11, StepKinds, Zenon

-----------------------------------------------------------------------------
(* How much was written so far.                                              *)

(* The units in the spool.                                                   *)
LaneTotal == Len(spool[0]) + Len(spool[1]) + Len(spool[2])

(* The sizes that the records of MSC1 state.                                 *)
FrameSizes == [k \in 1 .. Len(archive.frames) |-> archive.frames[k].size]

(* The bytes of the records before the next.                                 *)
RecordsBefore == Sum(Prefix(FrameSizes, frameIndex - 1))

(* A lane of the spool holds no more than the manifest assigns to it, and    *)
(* the output is what the spool holds.                                       *)
LanesMetered ==
    pc = "lanes" =>
        /\ spool \in [Lanes -> Token]
        /\ \A l \in Lanes : Len(spool[l]) <= ExpectedSize(l)
        /\ written = LaneTotal

(* The records of MSC1 fit in the output, and what was written fits in the   *)
(* records read.                                                             *)
RecordsMetered ==
    format = "MSC1" /\ pc \in {"prepare"} \cup Begun =>
        /\ Sum(Prefix(FrameSizes, Len(archive.frames))) <= MaxOutput
        /\ pc \in Begun => /\ frameIndex \in 1 .. Len(archive.frames) + 1
                           /\ written <= RecordsBefore

(* What was written fits in the entries before, and in the part of the file  *)
(* restored so far.                                                          *)
EntriesMetered ==
    /\ pc = "entry" /\ format # "MSC1" => written <= SizesBefore(m, ix)
    /\ pc = "chunks" /\ format \in Tabled =>
          LET e == m.entries[ix] IN
          written <= SizesBefore(m, ix) + Sum(Prefix(SliceSizes(m, e), occurrence - e.first))
    /\ pc = "chunks" /\ format = "MSC2" =>
          /\ occurrence \in Nat
          /\ written <= SizesBefore(m, ix) + occurrence * MaxChunk
          /\ written <= SizesBefore(m, ix) + m.entries[ix].size

(* What was written, stage by stage; OutputBounded is its last part.         *)
Metered ==
    /\ written \in Nat
    /\ pc \in Early \ {"lanes"} => written = 0
    /\ pc \in Begun \cup {"lanes"} => frameIndex \in Nat \ {0}
    /\ LanesMetered /\ RecordsMetered /\ EntriesMetered
    /\ OutputBounded

(* The frames of an archive have the fields of its format.                   *)
LEMMA FramesRead ==
    ASSUME ArchiveOK
    PROVE  /\ archive.format \in {"MSC1", "MSC2"} =>
                 /\ Len(archive.frames) \in Nat
                 /\ \A k \in 1 .. Len(archive.frames) : archive.frames[k].size \in Nat
           /\ archive.format = "MSR2" =>
                 /\ Len(archive.frames) \in Nat
                 /\ \A k \in 1 .. Len(archive.frames) : archive.frames[k].payload \in Seq(Token)
<1> DEFINE fs == archive.frames
           One == [size : Nat, chunk : DOMAIN LaneOf]
           Two == [sealed : BOOLEAN, index : Nat, entry : Nat, size : Nat, chunk : DOMAIN LaneOf]
           Five == [sealed : BOOLEAN, index : Nat, lane : Nat, final : BOOLEAN, payload :
               Seq(Token)]
<1>1. fs \in FrameFields(archive.format) BY DEF ArchiveOK, Fields
<1>2. CASE archive.format = "MSC1"
  <2>1. fs \in Seq(One) BY <1>1, <1>2 DEF FrameFields
  <2> HIDE DEF fs, One
  <2>2. Len(fs) \in Nat /\ \A k \in 1 .. Len(fs) : fs[k] \in One BY <2>1
  <2>3. \A x \in One : x.size \in Nat BY DEF One
  <2> QED BY <1>2, <2>2, <2>3 DEF fs
<1>3. CASE archive.format = "MSC2"
  <2>1. fs \in Seq(Two) BY <1>1, <1>3 DEF FrameFields
  <2> HIDE DEF fs, Two
  <2>2. Len(fs) \in Nat /\ \A k \in 1 .. Len(fs) : fs[k] \in Two BY <2>1
  <2>3. \A x \in Two : x.size \in Nat BY DEF Two
  <2> QED BY <1>3, <2>2, <2>3 DEF fs
<1>4. CASE archive.format = "MSR2"
  <2>1. fs \in Seq(Five) BY <1>1, <1>4 DEF FrameFields
  <2> HIDE DEF fs, Five
  <2>2. Len(fs) \in Nat /\ \A k \in 1 .. Len(fs) : fs[k] \in Five BY <2>1
  <2>3. \A x \in Five : x.payload \in Seq(Token) BY DEF Five
  <2> QED BY <1>4, <2>2, <2>3 DEF fs
<1> QED BY <1>2, <1>3, <1>4

(* The payloads of the frames of a lane, joined, are a sequence of units.    *)
LEMMA UnitsOfTokens == ASSUME NEW p \in Seq(Token) PROVE Concat(p) \in Token
<1> DEFINE U == (DOMAIN LaneOf \cup {"end"}) \X Nat
<1>1. Token = Seq(U) BY DEF Token
<1> HIDE DEF U
<1>2. Len(p) \in Nat /\ p = [k \in 1 .. Len(p) |-> p[k]] /\ \A k \in 1 .. Len(p) : p[k] \in Seq(U)
  <2> DEFINE V == Seq(U)
  <2>1. p \in Seq(V) BY <1>1
  <2> HIDE DEF V
  <2>2. Len(p) \in Nat /\ p = [k \in 1 .. Len(p) |-> p[k]] /\ \A k \in 1 .. Len(p) : p[k] \in V
    BY <2>1
  <2> QED BY <2>2 DEF V
<1>3. IsRun(p, Len(p)) BY <1>2 DEF IsRun
<1>4. Concats(p, Len(p), U) BY <1>2, ConcatsUp
<1>5. Prefix(p, Len(p)) = p BY <1>3, WholePrefix
<1>6. Len(p) \in 0 .. Len(p) BY <1>2
<1> QED BY <1>1, <1>4, <1>5, <1>6 DEF Concats

(* What a frame decodes to is a sequence of units.                           *)
LEMMA FrameUnitsTyped ==
    ASSUME NEW f, f.payload \in Seq(Token), NEW codec PROVE FrameUnits(f, codec) \in Token
<1> DEFINE p == f.payload
           ends == {k \in DOMAIN p : p[k] = End}
           V == Token
<1>1. p \in Seq(V) OBVIOUS
<1>2. UpToEnd(p) \in Seq(V)
  <2>1. UpToEnd(p) = IF ends = {} THEN p ELSE SubSeq(p, 1, (CHOOSE k \in ends : \A j \in ends :
        k <= j) - 1)
    BY DEF UpToEnd
  <2> HIDE DEF V, p
  <2>2. CASE ends = {} BY <1>1, <2>1, <2>2
  <2>3. CASE ends # {}
    <3>1. ends \subseteq 1 .. Len(p) /\ Len(p) \in Nat BY <1>1
    <3>2. \E k \in ends : \A j \in ends : k <= j
      <4>1. ends \subseteq Nat BY <3>1
      <4> HIDE DEF ends
      <4> QED BY <2>3, <4>1, SmallestNat
    <3> DEFINE k == CHOOSE k \in ends : \A j \in ends : k <= j
    <3>3. k \in ends
      <4> HIDE DEF ends
      <4> QED BY <3>2
    <3>4. UpToEnd(p) = SubSeq(p, 1, k - 1) BY <2>1, <2>3
    <3> HIDE DEF k, ends
    <3>5. k \in 1 .. Len(p) BY <3>1, <3>3
    <3>6. SubSeq(p, 1, k - 1) \in Seq(V)
      <4>1. \A i \in 1 .. k - 1 : p[i] \in V BY <1>1, <3>5
      <4> QED BY <3>1, <3>5, <4>1, SubSeqProperties
    <3> QED BY <3>4, <3>6
  <2> QED BY <2>2, <2>3
<1>3. Concat(p) \in Token /\ Concat(UpToEnd(p)) \in Token
  <2> HIDE DEF p
  <2> QED BY <1>1, <1>2, UnitsOfTokens DEF V
<1> QED BY <1>3 DEF FrameUnits

(* The lanes of an accepted MSR2 manifest fit in the output.                 *)
LEMMA ExpectedFits ==
    ASSUME NEW manifest, Readable(manifest, "MSR2"), NEW lanes
    PROVE  /\ \A l \in Lanes : RawSize(manifest, lanes, l) \in Nat
           /\ RawSize(manifest, lanes, 0) + RawSize(manifest, lanes, 1) + RawSize(manifest, lanes,
              2)
                 <= MaxOutput
<1> DEFINE a == RawSize(manifest, lanes, 0)
           b == RawSize(manifest, lanes, 1)
           c == RawSize(manifest, lanes, 2)
           records == RecordSum(UniqueRecords(manifest))
           chunks == Sum(Prefix(ChunkSizes(manifest), Len(manifest.chunks)))
<1>1. /\ manifest \in ManifestFields /\ TotalSize(manifest) <= MaxOutput
      /\ RangesCover(manifest) /\ SizesAddUp(manifest)
  BY DEF Readable, Tabled
<1>2. RangesOf(manifest) BY <1>1, RangesRead
<1>3. ChunksBefore(manifest.entries, Len(manifest.entries) + 1) = Len(manifest.chunks)
  BY <1>1 DEF RangesCover
<1>4. chunks <= TotalSize(manifest) BY <1>1, <1>2, <1>3, ChunksSum
<1>5. records \in Nat /\ records <= chunks BY <1>1, UniqueFits
<1>6. (\A l \in Lanes : RawSize(manifest, lanes, l) \in Nat) /\ a + b + c <= records
  BY <1>1, LanesFit
<1>7. TotalSize(manifest) \in Nat /\ MaxOutput \in Nat BY <1>1, SizeSteps, DecodeAssumption
<1>8. chunks \in Nat
  <2>1. /\ Len(manifest.chunks) \in Nat
        /\ \A i \in 1 .. Len(manifest.chunks) : ChunkSizes(manifest)[i] \in Nat
    BY <1>1, EntriesListed DEF ChunkSizes, TableRecord
  <2>2. Len(manifest.chunks) \in 0 .. Len(manifest.chunks) BY <2>1
  <2>3. Sums(ChunkSizes(manifest), Len(manifest.chunks)) BY <2>1, SumsUp
  <2> QED BY <2>2, <2>3 DEF Sums
<1>9. a + b + c <= MaxOutput
  <2>1. a \in Nat /\ b \in Nat /\ c \in Nat BY <1>6 DEF Lanes
  <2> HIDE DEF a, b, c, records, chunks
  <2> QED BY <1>1, <1>4, <1>5, <1>6, <1>7, <1>8, <2>1
<1> QED BY <1>6, <1>9

(* A step that ends the restore and writes nothing keeps what was written.   *)
LEMMA Settles ==
    ASSUME Metered, UNCHANGED <<written, format>>, pc' \in {"failed", "killed", "done", "replace",
           "unspool"}
    PROVE  Metered'
<1>1. LanesMetered' /\ RecordsMetered' /\ EntriesMetered'
  BY DEF LanesMetered, RecordsMetered, EntriesMetered, Begun
<1> QED BY <1>1 DEF Metered, OutputBounded, Early, Begun

(* A step that leaves the place and the output alone keeps what was          *)
(* written.                                                                  *)
LEMMA Stays ==
    ASSUME Metered, UNCHANGED <<archive, format, pc, m, ix, occurrence, frameIndex, written, spool>>
    PROVE  Metered'
<1>1. LanesMetered'
  <2>1. LaneTotal' = LaneTotal /\ \A l \in Lanes : ExpectedSize(l)' = ExpectedSize(l)
    BY DEF LaneTotal, ExpectedSize, Assigned
  <2> QED BY <2>1 DEF Metered, LanesMetered
<1>2. RecordsMetered'
  <2>1. FrameSizes' = FrameSizes /\ RecordsBefore' = RecordsBefore BY DEF FrameSizes, RecordsBefore
  <2> QED BY <2>1 DEF Metered, RecordsMetered
<1>3. EntriesMetered' BY DEF Metered, EntriesMetered
<1> QED BY <1>1, <1>2, <1>3 DEF Metered, OutputBounded

(* Until the header is accepted nothing is written.                          *)
LEMMA MeteredHeader ==
    ASSUME Staged, Metered, Header PROVE Metered'
<1>1. \/ pc' = "failed" /\ UNCHANGED <<written, format>>
      \/ pc \in Early \ {"lanes"} /\ pc' \in Early \ {"lanes"} /\ UNCHANGED written
  BY DEF Header, Dispatch, Open, ReadHeader, StreamHeader, SingleHeader, Fail, position, Early
<1>2. CASE pc \in Early \ {"lanes"} /\ pc' \in Early \ {"lanes"} /\ UNCHANGED written
  <2>1. written' = 0 BY <1>2 DEF Metered
  <2>2. LanesMetered' /\ RecordsMetered' /\ EntriesMetered'
    BY <1>2 DEF LanesMetered, RecordsMetered, EntriesMetered, Begun, Early
  <2>3. pc' \notin Begun \cup {"lanes"} BY <1>2 DEF Early, Begun
  <2>4. written' \in Nat /\ written' <= MaxOutput BY <2>1, DecodeAssumption
  <2> QED BY <2>1, <2>2, <2>3, <2>4 DEF Metered, OutputBounded
<1> QED BY <1>1, <1>2, Settles

(* The records of an accepted MSC1 archive fit in the output.                *)
LEMMA RecordsFit ==
    ASSUME ArchiveOK, archive.format = "MSC1", InnerGood
    PROVE  Sum(Prefix(FrameSizes, Len(archive.frames))) <= MaxOutput
<1> DEFINE man == archive.manifest
<1>1. man \in ManifestFields /\ Len(man.entries) = 1
  BY ManifestHeld DEF ArchiveOK, Fields, SingleFile
<1>2. /\ SizesBefore(man, 1) = 0 /\ TotalSize(man) \in Nat
      /\ SizesBefore(man, 1 + 1) <= TotalSize(man)
      /\ SizesBefore(man, 1 + 1) = SizesBefore(man, 1) + man.entries[1].size
      /\ man.entries[1].size \in Nat
  <2>1. 1 \in 1 .. Len(man.entries) /\ 1 + 1 \in 1 .. Len(man.entries) + 1 BY <1>1
  <2> HIDE DEF man
  <2> QED BY <1>1, <2>1, SizeSteps
<1>3. TotalSize(man) <= MaxOutput BY DEF InnerGood
<1>4. Len(archive.frames) \in Nat BY FramesRead
<1>5. DOMAIN archive.frames = 1 .. Len(archive.frames)
  <2>1. archive.frames \in Seq([size : Nat, chunk : DOMAIN LaneOf])
    BY DEF ArchiveOK, Fields, FrameFields
  <2> DEFINE fs == archive.frames
             One == [size : Nat, chunk : DOMAIN LaneOf]
  <2> HIDE DEF fs, One
  <2>2. fs \in Seq(One) BY <2>1 DEF fs, One
  <2>3. DOMAIN fs = 1 .. Len(fs) BY <2>2
  <2> QED BY <2>3 DEF fs
<1>6. Sum(FrameSizes) = man.entries[1].size BY <1>5 DEF InnerGood, ParseInner, FrameSizes
<1>7. Prefix(FrameSizes, Len(archive.frames)) = FrameSizes
  <2>1. IsRun(FrameSizes, Len(archive.frames)) BY DEF IsRun, FrameSizes
  <2> QED BY <2>1, WholePrefix
<1> HIDE DEF man
<1> QED BY <1>2, <1>3, <1>6, <1>7, DecodeAssumption

(* Reading a manifest writes nothing; a lane takes no more than its          *)
(* expected size.                                                            *)
LEMMA MeteredReading ==
    ASSUME Staged, ArchiveOK, Parsed, Parsed', Metered, Reading PROVE Metered'
<1>1. CASE pc' = "failed" /\ UNCHANGED <<written, format>> BY <1>1, Settles
<1>2. CASE \/ format = "MSC6" /\ ReadManifest /\ pc' = "prepare"
           \/ format = "MSC2" /\ StreamReadManifest /\ pc' = "prepare"
           \/ format = "MSR1" /\ ReadSolid /\ pc' = "prepare"
           \/ format = "MSR2" /\ CopyCanonical /\ pc' = "prepare"
  <2>1. UNCHANGED <<written, format>> /\ format # "MSC1"
    BY <1>2 DEF ReadManifest, StreamReadManifest, ReadSolid, CopyCanonical, ManifestAccepted,
       Fail, position
  <2>2. LanesMetered' /\ RecordsMetered' /\ EntriesMetered'
    BY <1>2, <2>1 DEF LanesMetered, RecordsMetered, EntriesMetered, Begun
  <2> QED BY <1>2, <2>1, <2>2 DEF Metered, OutputBounded, Early, Begun
<1>3. CASE format = "MSC1" /\ ReadInner /\ pc' = "prepare"
  <2>1. UNCHANGED <<written, format, archive>> /\ InnerGood
    BY <1>3 DEF ReadInner, ManifestAccepted, Fail, position, given
  <2>2. archive.format = "MSC1" BY <1>3 DEF ReadInner, Staged, Stage
  <2>3. Sum(Prefix(FrameSizes, Len(archive.frames))) <= MaxOutput BY <2>1, <2>2, RecordsFit
  <2>4. FrameSizes' = FrameSizes BY <2>1 DEF FrameSizes
  <2>5. LanesMetered' /\ RecordsMetered' /\ EntriesMetered'
    BY <1>3, <2>1, <2>3, <2>4 DEF LanesMetered, RecordsMetered, EntriesMetered, Begun
  <2> QED BY <1>3, <2>1, <2>5 DEF Metered, OutputBounded, Early, Begun
<1>4. CASE format = "MSR2" /\ ReadMetadata /\ pc' = "lanes"
  <2>1. pc = "header" /\ UNCHANGED <<written, format, spool>>
    BY <1>4 DEF ReadMetadata, Fail, scratch
  <2>2. spool' = NoSpool BY <1>4, <2>1 DEF Staged, Clean, Early
  <2>3. written' = 0 BY <2>1 DEF Metered, Early
  <2>4. Readable(m', "MSR2") BY <1>4, <2>1 DEF Parsed, Holding
  <2>5. \A l \in Lanes : ExpectedSize(l)' \in Nat
    <3>1. \A l \in Lanes : RawSize(m', Assigned', l) \in Nat BY <2>4, ExpectedFits
    <3> QED BY <3>1 DEF ExpectedSize
  <2>6. \A l \in Lanes : spool'[l] = <<>> BY <2>2 DEF NoSpool
  <2>7. <<>> \in Token /\ Len(<<>>) = 0 BY DEF Token
  <2>11. spool' \in [Lanes -> Token] BY <2>2, <2>7 DEF NoSpool
  <2>12. frameIndex' = 1 BY <1>4 DEF ReadMetadata, Fail
  <2>8. LaneTotal' = 0
    <3>1. spool'[0] = <<>> /\ spool'[1] = <<>> /\ spool'[2] = <<>> BY <2>6 DEF Lanes
    <3> QED BY <3>1, <2>7 DEF LaneTotal
  <2>9. LanesMetered' BY <2>3, <2>5, <2>6, <2>7, <2>8, <2>11 DEF LanesMetered
  <2>10. RecordsMetered' /\ EntriesMetered' BY <1>4 DEF RecordsMetered, EntriesMetered, Begun
  <2> QED
    BY <1>4, <2>3, <2>9, <2>10, <2>12, DecodeAssumption DEF Metered, OutputBounded, Early, Begun
<1>5. CASE format = "MSR2" /\ LaneDone /\ pc' = "lanes"
  <2>1. pc = "lanes" /\ UNCHANGED <<format, written, spool, archive, m, frameIndex>>
    BY <1>5 DEF LaneDone, Fail, scratch, given
  <2>2. LaneTotal' = LaneTotal /\ \A l \in Lanes : ExpectedSize(l)' = ExpectedSize(l)
    BY <2>1 DEF LaneTotal, ExpectedSize, Assigned
  <2>3. LanesMetered' BY <2>1, <2>2 DEF Metered, LanesMetered
  <2>4. RecordsMetered' /\ EntriesMetered' BY <1>5 DEF RecordsMetered, EntriesMetered, Begun
  <2> QED BY <1>5, <2>1, <2>3, <2>4 DEF Metered, OutputBounded, Early, Begun
<1>6. CASE format = "MSR2" /\ ReadLaneFrame /\ pc' = "lanes"
  <2> DEFINE units == FrameUnits(archive.frames[frameIndex], ReadCodecOf(archive.metadata, ix))
  <2>1. /\ pc = "lanes" /\ ix \in Lanes /\ LaneFrameGood
        /\ spool' = [spool EXCEPT ![ix] = @ \o units] /\ written' = written + Len(units)
        /\ UNCHANGED <<format, archive, m>>
    BY <1>6 DEF ReadLaneFrame, Fail, given
  <2>2. \A l \in Lanes : ExpectedSize(l)' = ExpectedSize(l) BY <2>1 DEF ExpectedSize, Assigned
  <2>3. units \in Token
    <3>1. archive.format = "MSR2" BY <1>6, <2>1 DEF Staged, Stage
    <3>2. frameIndex \in Nat \ {0} /\ frameIndex <= Len(archive.frames)
      BY <2>1 DEF Metered, LanesMetered, LaneFrameGood
    <3>3. Len(archive.frames) \in Nat BY <3>1, FramesRead
    <3>4. frameIndex \in 1 .. Len(archive.frames) BY <3>2, <3>3
    <3>5. archive.frames[frameIndex].payload \in Seq(Token) BY <3>1, <3>4, FramesRead
    <3> QED BY <3>5, FrameUnitsTyped
  <2>4. Len(spool[ix]) + Len(units) <= ExpectedSize(ix) BY <2>1 DEF LaneFrameGood, Fits
  <2> HIDE DEF units
  <2>5. /\ spool \in [Lanes -> Token] /\ written = LaneTotal
        /\ frameIndex \in Nat \ {0} /\ frameIndex' = frameIndex + 1
        /\ \A l \in Lanes : Len(spool[l]) <= ExpectedSize(l)
    BY <1>6, <2>1 DEF Metered, LanesMetered, ReadLaneFrame, Fail
  <2>6. /\ Len(units) \in Nat /\ \A t \in Token : Len(t) \in Nat
        /\ \A t \in Token : t \o units \in Token /\ Len(t \o units) = Len(t) + Len(units)
    BY <2>3 DEF Token
  <2>7. /\ spool' \in [Lanes -> Token]
        /\ \A l \in Lanes : Len(spool'[l]) = Len(spool[l]) + IF l = ix THEN Len(units) ELSE 0
    <3>1. spool[ix] \in Token /\ spool[ix] \o units \in Token BY <2>1, <2>5, <2>6
    <3>2. \A l \in Lanes : spool'[l] = IF l = ix THEN spool[ix] \o units ELSE spool[l] BY <2>1, <2>5
    <3>3. spool' \in [Lanes -> Token] BY <2>1, <2>5, <3>1
    <3> QED BY <2>1, <2>5, <2>6, <3>1, <3>2, <3>3
  <2>8. \A l \in Lanes : Len(spool'[l]) <= ExpectedSize(l)
    <3> SUFFICES ASSUME NEW l \in Lanes PROVE Len(spool'[l]) <= ExpectedSize(l) OBVIOUS
    <3>1. Len(spool[l]) \in Nat BY <2>5, <2>6
    <3>2. CASE l = ix BY <2>4, <2>7, <3>2
    <3>3. CASE l # ix BY <2>5, <2>7, <3>1, <3>3
    <3> QED BY <3>2, <3>3
  <2>9. written' = LaneTotal' /\ LaneTotal' <= MaxOutput /\ LaneTotal' \in Nat
    <3> DEFINE a == Len(spool[0])
               b == Len(spool[1])
               c == Len(spool[2])
               a1 == Len(spool'[0])
               b1 == Len(spool'[1])
               c1 == Len(spool'[2])
               n == Len(units)
    <3>1. /\ a \in Nat /\ b \in Nat /\ c \in Nat /\ n \in Nat
          /\ a1 = a + IF ix = 0 THEN n ELSE 0
          /\ b1 = b + IF ix = 1 THEN n ELSE 0
          /\ c1 = c + IF ix = 2 THEN n ELSE 0
      <4>1. 0 \in Lanes /\ 1 \in Lanes /\ 2 \in Lanes BY DEF Lanes
      <4> QED BY <2>5, <2>6, <2>7, <4>1
    <3>2. LaneTotal = a + b + c /\ LaneTotal' = a1 + b1 + c1 BY DEF LaneTotal
    <3>3. ix \in {0, 1, 2} BY <2>1 DEF Lanes
    <3>4. a1 <= ExpectedSize(0) /\ b1 <= ExpectedSize(1) /\ c1 <= ExpectedSize(2) BY <2>8 DEF Lanes
    <3>5. /\ ExpectedSize(0) \in Nat /\ ExpectedSize(1) \in Nat /\ ExpectedSize(2) \in Nat
          /\ ExpectedSize(0) + ExpectedSize(1) + ExpectedSize(2) <= MaxOutput
      <4>1. Readable(m, "MSR2") BY <1>6, <2>1 DEF Parsed, Holding
      <4> QED BY <4>1, ExpectedFits DEF ExpectedSize, Lanes
    <3>6. MaxOutput \in Nat BY DecodeAssumption
    <3> HIDE DEF a, b, c, a1, b1, c1, n
    <3>7. a1 \in Nat /\ b1 \in Nat /\ c1 \in Nat BY <3>1
    <3>8. a1 + b1 + c1 = a + b + c + n BY <3>1, <3>3
    <3>9. a1 + b1 + c1 <= MaxOutput BY <3>4, <3>5, <3>6, <3>7
    <3>10. written' = a + b + c + n BY <2>1, <2>5, <3>2 DEF n
    <3> QED BY <3>2, <3>7, <3>8, <3>9, <3>10
  <2>10. LanesMetered' BY <2>2, <2>7, <2>8, <2>9 DEF LanesMetered
  <2>11. RecordsMetered' /\ EntriesMetered' BY <1>6 DEF RecordsMetered, EntriesMetered, Begun
  <2>12. frameIndex' \in Nat \ {0} BY <2>5
  <2> QED BY <1>6, <2>1, <2>9, <2>10, <2>11, <2>12 DEF Metered, OutputBounded, Early, Begun
<1> QED BY <1>1, <1>2, <1>3, <1>4, <1>5, <1>6
    DEF Reading, ReadManifest, StreamReadManifest, ReadInner, ReadSolid, ReadMetadata,
        ReadLaneFrame,
        LaneDone, CopyCanonical, ManifestAccepted, Fail, position

(* The bytes before the entry, and those of the entry, fit in the output.    *)
LEMMA AtEntry ==
    ASSUME Parsed, Placed, pc \in Begun
    PROVE  /\ Readable(m, format) /\ m \in ManifestFields /\ Len(m.entries) \in Nat
           /\ ix \in 1 .. Len(m.entries) + 1
           /\ SizesBefore(m, ix) \in Nat
           /\ ix \in 1 .. Len(m.entries) =>
                 /\ m.entries[ix].size \in Nat
                 /\ SizesBefore(m, ix + 1) = SizesBefore(m, ix) + m.entries[ix].size
                 /\ format # "MSR1" => SizesBefore(m, ix) + m.entries[ix].size <= MaxOutput
<1>1. Readable(m, format) /\ m \in ManifestFields BY DEF Parsed, Holding, Begun, Readable
<1>2. Len(m.entries) \in Nat BY <1>1, EntriesListed
<1>3. ix \in 1 .. Len(m.entries) + 1 BY <1>2 DEF Placed, Begun
<1>4. SizesBefore(m, ix) \in Nat BY <1>1, <1>3, SizeSteps
<1>5. ASSUME ix \in 1 .. Len(m.entries)
      PROVE  /\ m.entries[ix].size \in Nat
             /\ SizesBefore(m, ix + 1) = SizesBefore(m, ix) + m.entries[ix].size
             /\ format # "MSR1" => SizesBefore(m, ix) + m.entries[ix].size <= MaxOutput
  <2>1. m.entries[ix].size \in Nat /\ SizesBefore(m, ix + 1) = SizesBefore(m,
        ix) + m.entries[ix].size
    BY <1>1, <1>5, SizeSteps
  <2>2. ix + 1 \in 1 .. Len(m.entries) + 1 BY <1>2, <1>5
  <2>3. SizesBefore(m, ix + 1) <= TotalSize(m) /\ TotalSize(m) \in Nat BY <1>1, <2>2, SizeSteps
  <2>4. format # "MSR1" => TotalSize(m) <= MaxOutput BY <1>1 DEF Readable
  <2> QED BY <1>4, <2>1, <2>3, <2>4, DecodeAssumption
<1> QED BY <1>1, <1>2, <1>3, <1>4, <1>5

(* The sizes of the records of MSC1 add up.                                  *)
LEMMA SizesOfRecords ==
    ASSUME ArchiveOK, archive.format = "MSC1"
    PROVE  /\ Len(archive.frames) \in Nat /\ Sums(FrameSizes, Len(archive.frames))
           /\ \A k \in 1 .. Len(archive.frames) : /\ FrameSizes[k] = archive.frames[k].size
                                                  /\ FrameSizes[k] \in Nat
<1>1. Len(archive.frames) \in Nat /\ \A k \in 1 .. Len(archive.frames) :
      archive.frames[k].size \in Nat
  BY FramesRead
<1>2. \A k \in 1 .. Len(archive.frames) : FrameSizes[k] = archive.frames[k].size
      /\ FrameSizes[k] \in Nat
  BY <1>1 DEF FrameSizes
<1>3. Sums(FrameSizes, Len(archive.frames)) BY <1>1, <1>2, SumsUp
<1> QED BY <1>1, <1>2, <1>3

(* Preparing the output, making a directory and opening a file write         *)
(* nothing.                                                                  *)
LEMMA MeteredPlain ==
    ASSUME Staged, ArchiveOK, Parsed, Placed, Counted, Metered,
           PrepareOutput \/ RestoreDirectory \/ OpenSink(First)
    PROVE  Metered'
<1>1. CASE pc' = "failed" /\ UNCHANGED <<written, format>> BY <1>1, Settles
<1>2. CASE PrepareOutput /\ pc' = "entry"
  <2>1. /\ pc = "prepare" /\ ix' = 1 /\ frameIndex' = 1 /\ written' = 0
           /\ UNCHANGED <<format, archive, m>>
    BY <1>2 DEF PrepareOutput, Fail, given
  <2>2. Readable(m, format) /\ m \in ManifestFields BY <2>1 DEF Parsed, Holding, Readable
  <2>3. SizesBefore(m, 1) = 0 BY <2>2, SizeSteps
  <2>4. LanesMetered' BY <1>2 DEF LanesMetered
  <2>5. EntriesMetered' BY <1>2, <2>1, <2>3 DEF EntriesMetered
  <2>6. RecordsMetered'
    <3> SUFFICES ASSUME format = "MSC1" PROVE RecordsMetered' BY <2>1 DEF RecordsMetered
    <3>1. /\ FrameSizes' = FrameSizes /\ archive' = archive
          /\ Sum(Prefix(FrameSizes, Len(archive.frames))) <= MaxOutput
      BY <2>1 DEF FrameSizes, Metered, RecordsMetered
    <3>2. archive.format = "MSC1" BY <2>1 DEF Staged, Stage
    <3>3. Len(archive.frames) \in Nat /\ Sums(FrameSizes, Len(archive.frames))
      BY <3>2, SizesOfRecords
    <3>4. RecordsBefore' = 0 BY <2>1, <3>1, <3>3 DEF RecordsBefore, Sums
    <3> QED BY <2>1, <3>1, <3>3, <3>4 DEF RecordsMetered
  <2> QED BY <1>2, <2>1, <2>4, <2>5, <2>6, DecodeAssumption DEF Metered, OutputBounded, Early, Begun
<1>3. CASE RestoreDirectory /\ pc' # "failed"
  <2>1. /\ pc = "entry" /\ pc' = "entry" /\ ix <= Len(m.entries) /\ ix' = ix + 1
        /\ UNCHANGED <<format, archive, m, frameIndex, written>>
    BY <1>3 DEF RestoreDirectory, Fail, given
  <2>2. /\ ix \in 1 .. Len(m.entries) + 1 /\ SizesBefore(m, ix) \in Nat
           /\ m.entries[ix].size \in Nat
        /\ SizesBefore(m, ix + 1) = SizesBefore(m, ix) + m.entries[ix].size
    BY <2>1, AtEntry DEF Begun
  <2>3. written \in Nat BY DEF Metered
  <2>4. EntriesMetered'
    <3>1. format # "MSC1" => written <= SizesBefore(m, ix) BY <2>1 DEF Metered, EntriesMetered
    <3>2. format # "MSC1" => written <= SizesBefore(m, ix + 1) BY <2>2, <2>3, <3>1
    <3> QED BY <2>1, <3>2 DEF EntriesMetered
  <2>5. RecordsMetered'
    <3>1. FrameSizes' = FrameSizes /\ RecordsBefore' = RecordsBefore
      BY <2>1 DEF FrameSizes, RecordsBefore
    <3> QED BY <2>1, <3>1 DEF Metered, RecordsMetered, Begun
  <2>6. LanesMetered' BY <2>1 DEF LanesMetered
  <2> QED BY <2>1, <2>4, <2>5, <2>6 DEF Metered, OutputBounded, Early, Begun
<1>4. CASE OpenSink(First)
  <2>1. /\ pc = "entry" /\ pc' = "chunks" /\ ix <= Len(m.entries) /\ m.entries[ix].kind = "file"
        /\ occurrence' = First /\ UNCHANGED <<format, archive, m, ix, frameIndex, written>>
    BY <1>4 DEF OpenSink, given
  <2>2. /\ Readable(m, format) /\ m \in ManifestFields
        /\ ix \in 1 .. Len(m.entries) /\ SizesBefore(m, ix) \in Nat /\ m.entries[ix].size \in Nat
    BY <2>1, AtEntry DEF Begun
  <2>3. written \in Nat /\ (format # "MSC1" => written <= SizesBefore(m, ix))
    BY <2>1 DEF Metered, EntriesMetered
  <2>4. EntriesMetered'
    <3>1. ASSUME format \in Tabled
          PROVE  /\ First = m.entries[ix].first
                 /\ First \in Nat
                 /\ Sum(Prefix(SliceSizes(m, m.entries[ix]), 0)) = 0
      <4>1. RangesOf(m) /\ SizesAddUp(m) BY <2>2, <3>1, RangesRead DEF Readable
      <4> QED BY <2>1, <2>2, <3>1, <4>1, SliceSteps DEF First
    <3>2. ASSUME format \in Tabled
          PROVE  written <= SizesBefore(m, ix)
                    + Sum(Prefix(SliceSizes(m, m.entries[ix]), occurrence' - m.entries[ix].first))
      <4>1. occurrence' - m.entries[ix].first = 0 BY <2>1, <3>1, <3>2
      <4>2. format # "MSC1" BY <3>2 DEF Tabled
      <4> QED BY <2>2, <2>3, <3>1, <3>2, <4>1, <4>2
    <3>3. ASSUME format = "MSC2"
          PROVE  /\ occurrence' = 0
                 /\ written <= SizesBefore(m, ix) + occurrence' * MaxChunk
                 /\ written <= SizesBefore(m, ix) + m.entries[ix].size
      <4>1. occurrence' = 0 BY <2>1, <3>3 DEF First, Tabled
      <4>2. occurrence' * MaxChunk = 0 BY <4>1, DecodeAssumption
      <4> QED BY <2>2, <2>3, <3>3, <4>1, <4>2
    <3> QED BY <2>1, <3>2, <3>3 DEF EntriesMetered
  <2>5. RecordsMetered'
    <3>1. FrameSizes' = FrameSizes /\ RecordsBefore' = RecordsBefore
      BY <2>1 DEF FrameSizes, RecordsBefore
    <3> QED BY <2>1, <3>1 DEF Metered, RecordsMetered, Begun
  <2>6. LanesMetered' BY <2>1 DEF LanesMetered
  <2> QED BY <2>1, <2>4, <2>5, <2>6 DEF Metered, OutputBounded, Early, Begun
<1>5. \/ pc' = "failed" /\ UNCHANGED <<written, format>>
      \/ PrepareOutput /\ pc' = "entry"
      \/ RestoreDirectory /\ pc' # "failed"
      \/ OpenSink(First)
  BY DEF PrepareOutput, RestoreDirectory, Fail, position
<1> QED BY <1>1, <1>2, <1>3, <1>4, <1>5

(* A file that is closed has no more bytes than its entry.                   *)
LEMMA MeteredClose ==
    ASSUME Staged, Parsed, Placed, Counted, Metered, NoMore, CloseSink PROVE Metered'
<1>1. CASE pc' = "failed" /\ UNCHANGED <<written, format>> BY <1>1, Settles
<1>2. CASE pc' # "failed"
  <2>1. /\ pc = "chunks" /\ pc' = "entry" /\ ix' = ix + 1
        /\ UNCHANGED <<format, archive, m, frameIndex, written>>
    BY <1>2 DEF CloseSink, Fail, given
  <2>2. ix \in 1 .. Len(m.entries) /\ m.entries[ix].kind = "file" BY <2>1 DEF Placed
  <2>3. /\ Readable(m, format) /\ m \in ManifestFields
        /\ SizesBefore(m, ix) \in Nat /\ m.entries[ix].size \in Nat
        /\ SizesBefore(m, ix + 1) = SizesBefore(m, ix) + m.entries[ix].size
    BY <2>1, <2>2, AtEntry DEF Begun
  <2>4. format # "MSC1" => written <= SizesBefore(m, ix + 1)
    <3>1. CASE format \in Tabled
      <4> DEFINE e == m.entries[ix]
      <4>1. RangesOf(m) /\ SizesAddUp(m) BY <2>3, <3>1, RangesRead DEF Readable
      <4>2. /\ e.first \in Nat /\ e.count \in Nat
            /\ Sum(Prefix(SliceSizes(m, e), e.count)) = e.size
        BY <2>2, <2>3, <4>1, SliceSteps
      <4>3. e.first = ChunksBefore(m.entries, ix) /\ e.first + e.count = ChunksBefore(m.entries,
            ix + 1)
        BY <2>2, <4>1 DEF RangesOf
      <4>4. occurrence \in e.first .. e.first + e.count BY <2>1, <3>1, <4>3 DEF Counted
      <4>5. ~(occurrence < e.first + e.count) BY <3>1 DEF NoMore, Tabled, InEntry, MoreChunks
      <4>6. occurrence - e.first = e.count BY <4>2, <4>4, <4>5
      <4>7. written <= SizesBefore(m, ix) + Sum(Prefix(SliceSizes(m, e), occurrence - e.first))
        BY <2>1, <3>1 DEF Metered, EntriesMetered
      <4> QED BY <2>3, <4>2, <4>6, <4>7
    <3>2. CASE format = "MSC2" BY <2>1, <2>3, <3>2 DEF Metered, EntriesMetered
    <3>3. format \in Tabled \cup {"MSC1", "MSC2"} BY DEF NoMore, Tabled
    <3> QED BY <3>1, <3>2, <3>3
  <2>5. EntriesMetered' BY <2>1, <2>4 DEF EntriesMetered
  <2>6. RecordsMetered'
    <3>1. FrameSizes' = FrameSizes /\ RecordsBefore' = RecordsBefore
      BY <2>1 DEF FrameSizes, RecordsBefore
    <3> QED BY <2>1, <3>1 DEF Metered, RecordsMetered, Begun
  <2>7. LanesMetered' BY <2>1 DEF LanesMetered
  <2> QED BY <2>1, <2>5, <2>6, <2>7 DEF Metered, OutputBounded, Early, Begun
<1>3. pc' = "failed" => UNCHANGED <<written, format>> BY DEF CloseSink, Fail, position
<1> QED BY <1>1, <1>2, <1>3

(* A chunk, block or record is written within its file, its entry or the     *)
(* output.                                                                   *)
LEMMA MeteredWriting ==
    ASSUME Staged, ArchiveOK, Parsed, Placed, Counted, Metered, WritingOne PROVE Metered'
<1>1. CASE pc' = "failed" /\ UNCHANGED <<written, format>> BY <1>1, Settles
<1>2. CASE /\ pc' # "failed"
           /\ \/ format = "MSC6" /\ (RestoreUnique \/ RestoreDuplicate)
              \/ format \in {"MSR1", "MSR2"} /\ RestoreCanonical
  <2> DEFINE e == m.entries[ix]
             c == m.chunks[occurrence + 1]
             source == m.chunks[c.source + 1]
             W(k) == Sum(Prefix(SliceSizes(m, e), k))
             Z == SizesBefore(m, ix)
             d == occurrence - e.first
  <2>1. /\ pc = "chunks" /\ pc' = "chunks" /\ occurrence < e.first + e.count
        /\ occurrence' = occurrence + 1
        /\ \/ c.source = occurrence /\ written' = written + c.size
           \/ written' = written + source.size
        /\ UNCHANGED <<format, m, ix>> /\ format \in Tabled
        /\ frameIndex' \in {frameIndex, frameIndex + 1}
    BY <1>2 DEF RestoreUnique, RestoreDuplicate, RestoreCanonical, Write, Fail, InEntry,
       MoreChunks, Record,
                Tabled
  <2>2. ix \in 1 .. Len(m.entries) /\ e.kind = "file" BY <2>1 DEF Placed
  <2>3. /\ Readable(m, format) /\ m \in ManifestFields /\ Z \in Nat
        /\ format # "MSR1" => Z + e.size <= MaxOutput
    BY <2>1, <2>2, AtEntry DEF Begun
  <2>4. RangesOf(m) /\ SizesAddUp(m) /\ ReferencesDirect(m) BY <2>1, <2>3, RangesRead DEF Readable
  <2>5. /\ e.count \in Nat /\ e.first \in Nat /\ e.first + e.count <= Len(m.chunks)
           /\ e.size \in Nat
        /\ \A k \in 0 .. e.count : W(k) \in Nat /\ W(k) <= e.size
        /\ \A k \in 0 .. e.count - 1 : W(k + 1) = W(k) + m.chunks[e.first + k + 1].size
    BY <2>2, <2>3, <2>4, SliceSteps, AtEntry, <2>1 DEF Begun
  <2>6. e.first = ChunksBefore(m.entries, ix) /\ e.first + e.count = ChunksBefore(m.entries, ix + 1)
    BY <2>2, <2>4 DEF RangesOf
  <2>7. occurrence \in e.first .. e.first + e.count BY <2>1, <2>6 DEF Counted
  <2>8. d \in 0 .. e.count - 1 /\ e.first + d + 1 = occurrence + 1 /\ occurrence' - e.first = d + 1
        /\ d + 1 \in 0 .. e.count
    <3>1. /\ e.first \in Nat /\ e.count \in Nat /\ occurrence < e.first + e.count
          /\ occurrence \in e.first .. e.first + e.count /\ occurrence' = occurrence + 1
      BY <2>1, <2>5, <2>7
    <3> HIDE DEF e
    <3> QED BY <3>1
  <2>9. occurrence + 1 \in 1 .. Len(m.chunks) /\ occurrence + 1 \in DOMAIN m.chunks
    <3>1. Len(m.chunks) \in Nat /\ DOMAIN m.chunks = 1 .. Len(m.chunks) BY <2>3, EntriesListed
    <3> HIDE DEF e
    <3> QED BY <2>1, <2>5, <2>7, <3>1
  <2>10. c.size \in Nat /\ c.source \in Nat BY <2>3, <2>9, EntriesListed DEF TableRecord
  <2>11. written' = written + c.size
    <3>1. (occurrence + 1) - 1 = occurrence BY <2>5, <2>7
    <3>2. c.source # occurrence => source.size = c.size BY <2>4, <2>9, <3>1 DEF ReferencesDirect
    <3>3. c.source = occurrence => source.size = c.size OBVIOUS
    <3> QED BY <2>1, <3>2, <3>3
  <2>12. W(d + 1) = W(d) + c.size /\ W(d) \in Nat /\ W(d + 1) \in Nat /\ W(d + 1) <= e.size
    <3>1. W(d + 1) = W(d) + m.chunks[e.first + d + 1].size BY <2>5, <2>8
    <3>2. e.first + d + 1 = occurrence + 1 BY <2>8
    <3>3. d \in 0 .. e.count /\ d + 1 \in 0 .. e.count BY <2>5, <2>8
    <3> HIDE DEF W, d
    <3> QED BY <2>5, <3>1, <3>2, <3>3
  <2>13. written \in Nat /\ written <= Z + W(d) BY <2>1 DEF Metered, EntriesMetered
  <2> DEFINE w == W(d)
             w1 == W(d + 1)
             size == c.size
  <2>14. /\ w1 = w + size /\ w \in Nat /\ w1 \in Nat /\ w1 <= e.size /\ size \in Nat
         /\ written' = written + size /\ written <= Z + w /\ written \in Nat /\ Z \in Nat
    BY <2>3, <2>10, <2>11, <2>12, <2>13
  <2>15. written' \in Nat /\ written' <= Z + w1 /\ (format # "MSR1" => written' <= MaxOutput)
    <3> HIDE DEF w, w1, size, Z, e
    <3>1. written' \in Nat /\ written' <= Z + w1 BY <2>14
    <3> QED BY <2>3, <2>5, <2>14, <3>1, DecodeAssumption
  <2>16. EntriesMetered'
    <3>1. written' <= SizesBefore(m', ix') + Sum(Prefix(SliceSizes(m', m'.entries[ix']),
          occurrence' - m'.entries[ix'].first))
      BY <2>1, <2>8, <2>15
    <3> QED BY <2>1, <3>1 DEF EntriesMetered, Tabled
  <2>17. LanesMetered' /\ RecordsMetered' BY <2>1 DEF LanesMetered, RecordsMetered, Tabled
  <2> QED BY <2>1, <2>15, <2>16, <2>17 DEF Metered, OutputBounded, Early, Begun
<1>3. CASE pc' # "failed" /\ format = "MSC2" /\ RestoreBlock
  <2> DEFINE f == archive.frames[frameIndex]
             left == m.entries[ix].size - occurrence * MaxChunk
             Z == SizesBefore(m, ix)
  <2>1. /\ pc = "chunks" /\ pc' = "chunks" /\ BlockGood
        /\ occurrence' = occurrence + 1 /\ written' = written + f.size
        /\ frameIndex' = frameIndex + 1
        /\ UNCHANGED <<format, m, ix>>
    BY <1>3 DEF RestoreBlock, Write, Fail
  <2>2. ix \in 1 .. Len(m.entries) BY <2>1 DEF Placed
  <2>3. /\ Z \in Nat /\ m.entries[ix].size \in Nat /\ Z + m.entries[ix].size <= MaxOutput
    BY <1>3, <2>1, <2>2, AtEntry DEF Begun
  <2>4. /\ written \in Nat /\ occurrence \in Nat
        /\ written <= Z + occurrence * MaxChunk /\ written <= Z + m.entries[ix].size
    BY <1>3, <2>1 DEF Metered, EntriesMetered
  <2>5. f.size = IF left < MaxChunk THEN left ELSE MaxChunk BY <2>1 DEF BlockGood, BlockSize
  <2>6. f.size \in Nat
    <3>1. archive.format = "MSC2" BY <1>3, <2>1 DEF Staged, Stage
    <3>2. Len(archive.frames) \in Nat /\ frameIndex <= Len(archive.frames)
      BY <2>1, <3>1, FramesRead DEF BlockGood
    <3>3. frameIndex \in Nat \ {0} BY <2>1 DEF Metered, Begun
    <3>4. frameIndex \in 1 .. Len(archive.frames) BY <3>2, <3>3
    <3> QED BY <3>1, <3>4, FramesRead
  <2>7. occurrence' * MaxChunk = occurrence * MaxChunk + MaxChunk /\ occurrence * MaxChunk \in Nat
    BY <2>1, <2>4, DecodeAssumption
  <2> DEFINE p == occurrence * MaxChunk
             p1 == occurrence' * MaxChunk
             size == m.entries[ix].size
             b == f.size
  <2>8. /\ p1 = p + MaxChunk /\ p \in Nat /\ MaxChunk \in Nat /\ size \in Nat /\ b \in Nat
        /\ b = IF size - p < MaxChunk THEN size - p ELSE MaxChunk
        /\ written <= Z + p /\ written <= Z + size /\ written \in Nat /\ written' = written + b
        /\ Z + size <= MaxOutput /\ Z \in Nat /\ MaxOutput \in Nat
    BY <2>1, <2>3, <2>4, <2>5, <2>6, <2>7, DecodeAssumption
  <2>9. written' \in Nat /\ written' <= Z + p1 /\ written' <= Z + size /\ written' <= MaxOutput
    <3> HIDE DEF p, p1, size, b, Z
    <3>1. CASE size - p < MaxChunk BY <2>8, <3>1
    <3>2. CASE ~(size - p < MaxChunk) BY <2>8, <3>2
    <3> QED BY <3>1, <3>2
  <2>10. EntriesMetered'
    <3>1. occurrence' \in Nat BY <2>1, <2>4
    <3> QED BY <1>3, <2>1, <2>9, <3>1 DEF EntriesMetered, Tabled
  <2>11. LanesMetered' /\ RecordsMetered' BY <1>3, <2>1 DEF LanesMetered, RecordsMetered
  <2> QED BY <2>1, <2>9, <2>10, <2>11 DEF Metered, OutputBounded, Early, Begun
<1>4. CASE pc' # "failed" /\ format = "MSC1" /\ RestoreRecord
  <2> DEFINE N == Len(archive.frames)
             P(k) == Sum(Prefix(FrameSizes, k))
             b == archive.frames[frameIndex].size
  <2>1. /\ pc = "chunks" /\ pc' = "chunks" /\ frameIndex <= N
        /\ frameIndex' = frameIndex + 1 /\ written' = written + b
        /\ UNCHANGED <<format, archive>>
    BY <1>4 DEF RestoreRecord, Write, Fail, given
  <2>2. archive.format = "MSC1" BY <1>4, <2>1 DEF Staged, Stage
  <2>3. /\ N \in Nat /\ Sums(FrameSizes, N)
        /\ \A k \in 1 .. N : FrameSizes[k] = archive.frames[k].size /\ FrameSizes[k] \in Nat
    BY <2>2, SizesOfRecords
  <2>4. frameIndex \in 1 .. N + 1 /\ written <= P(frameIndex - 1) /\ P(N) <= MaxOutput
        /\ written \in Nat
    BY <1>4, <2>1 DEF Metered, RecordsMetered, RecordsBefore, Begun
  <2>5. frameIndex \in 1 .. N /\ frameIndex - 1 \in 0 .. N /\ frameIndex \in 0 .. N
        /\ frameIndex' - 1 = frameIndex /\ frameIndex' \in 1 .. N + 1 /\ N \in frameIndex .. N
    <3> HIDE DEF N
    <3> QED BY <2>1, <2>3, <2>4
  <2>6. b \in Nat /\ P(frameIndex) = P(frameIndex - 1) + b /\ P(frameIndex - 1) \in Nat
        /\ P(N) \in Nat
    <3>1. N \in 0 .. N BY <2>3
    <3> QED BY <2>3, <2>5, <3>1 DEF Sums
  <2>7. P(frameIndex) <= P(N)
    <3> HIDE DEF N
    <3> QED BY <2>3, <2>5, SumGrows
  <2> DEFINE q == P(frameIndex - 1)
             q1 == P(frameIndex)
             qn == P(N)
  <2>8. /\ q1 = q + b /\ q \in Nat /\ b \in Nat /\ q1 <= qn /\ qn <= MaxOutput /\ qn \in Nat
        /\ written <= q /\ written \in Nat /\ written' = written + b
    BY <2>1, <2>4, <2>6, <2>7
  <2>9. written' \in Nat /\ written' <= q1 /\ written' <= MaxOutput
    <3> HIDE DEF q, q1, qn, b
    <3> QED BY <2>8, DecodeAssumption
  <2>10. RecordsMetered'
    <3>1. FrameSizes' = FrameSizes BY <2>1 DEF FrameSizes
    <3>2. RecordsBefore' = q1 BY <2>5, <3>1 DEF RecordsBefore
    <3> QED BY <2>1, <2>4, <2>5, <2>9, <3>1, <3>2 DEF RecordsMetered
  <2>11. LanesMetered' /\ EntriesMetered' BY <1>4, <2>1 DEF LanesMetered, EntriesMetered, Tabled
  <2> QED BY <2>1, <2>9, <2>10, <2>11 DEF Metered, OutputBounded, Early, Begun
<1>5. pc' = "failed" => UNCHANGED <<written, format>>
  BY DEF WritingOne, RestoreUnique, RestoreDuplicate, RestoreBlock, RestoreRecord, RestoreCanonical,
         Write, Fail, position
<1> QED BY <1>1, <1>2, <1>3, <1>4, <1>5 DEF WritingOne

(* Every step keeps what was written within its bounds.                      *)
LEMMA MeteredStep ==
    Staged /\ ArchiveOK /\ Parsed /\ Parsed' /\ Placed /\ Counted /\ Metered
        /\ [Next]_vars => Metered'
<1> SUFFICES ASSUME Staged, ArchiveOK, Parsed, Parsed', Placed, Counted, Metered, [Next]_vars
             PROVE  Metered'
  OBVIOUS
<1>1. CASE Outside
  <2>1. \/ pc' \in {"failed", "killed"} /\ UNCHANGED <<written, format>>
        \/ UNCHANGED <<archive, format, pc, m, ix, occurrence, frameIndex, written, spool>>
        \/ pc = "open" /\ UNCHANGED <<written, format, pc>>
    BY <1>1 DEF Outside, Fault, Interrupt, Kill, Rebind, Swap, Fail, vars, given, position, scratch
  <2>2. CASE pc = "open" /\ UNCHANGED <<written, format, pc>>
    <3>1. LanesMetered' /\ RecordsMetered' /\ EntriesMetered'
      BY <2>2 DEF LanesMetered, RecordsMetered, EntriesMetered, Begun
    <3> QED BY <2>2, <3>1 DEF Metered, OutputBounded, Begun
  <2> QED BY <2>1, <2>2, Settles, Stays
<1>2. CASE Ending \/ Publish \/ RemoveScratch \/ ScratchNotRemoved
  <2>1. pc' \in {"failed", "done", "replace", "unspool"} /\ UNCHANGED <<written, format>>
    BY <1>2 DEF Ending, Finish, Publish, RemoveScratch, ScratchNotRemoved, Fail, position
  <2> QED BY <2>1, Settles
<1> QED BY <1>1, <1>2, StepKinds, MeteredHeader, MeteredReading, MeteredPlain, MeteredWriting,
           MeteredClose, Zenon

(* Nothing is written before the call.                                       *)
LEMMA MeteredInit == Init => Metered
  BY DecodeAssumption
  DEF Init, Metered, LanesMetered, RecordsMetered, EntriesMetered, OutputBounded, Begun, Early

-----------------------------------------------------------------------------
(* The invariant of the decoders.                                            *)

(* The inductive invariant of the decoders.                                  *)
DecodersInv ==
    /\ Staged /\ ArchiveOK /\ Parsed /\ Placed /\ Counted /\ Cached /\ CacheHit /\ Restoring
    /\ Metered

(* It holds initially.                                                       *)
LEMMA DecodersInit == Init => DecodersInv
<1> SUFFICES ASSUME Init PROVE DecodersInv OBVIOUS
<1>1. Staged BY StagedInit
<1>2. ArchiveOK BY DecodeAssumption DEF Init, ArchiveOK
<1>3. Parsed /\ Placed /\ Counted /\ Cached /\ CacheHit /\ Restoring
  BY DEF Init, Parsed, Placed, Counted, Cached, CacheHit, Restoring, Holding, Early, Begun, Tabled
<1>4. Metered BY MeteredInit
<1> QED BY <1>1, <1>2, <1>3, <1>4 DEF DecodersInv

(* Every step keeps it.                                                      *)
LEMMA DecodersStep == DecodersInv /\ [Next]_vars => DecodersInv'
<1> SUFFICES ASSUME DecodersInv, [Next]_vars PROVE DecodersInv' OBVIOUS
<1>1. Staged /\ ArchiveOK /\ Parsed /\ Placed /\ Counted /\ Cached /\ CacheHit /\ Restoring
      /\ Metered
  BY DEF DecodersInv
<1>2. Staged' /\ ArchiveOK' BY <1>1, StagedStep, ArchiveStep
<1>3. Parsed' BY <1>1, ParsedStep
<1>4. Placed' /\ Counted' BY <1>1, PlacedStep, CountedStep
<1>5. Cached' /\ CacheHit' BY <1>1, CachedStep, HitStep
<1>6. Restoring' BY <1>1, RestoringStep
<1>7. Metered' BY <1>1, <1>3, MeteredStep
<1> QED BY <1>2, <1>3, <1>4, <1>5, <1>6, <1>7 DEF DecodersInv

(* The invariant holds in every behaviour.                                   *)
THEOREM DecodersInvariant == Spec => []DecodersInv
  BY DecodersInit, DecodersStep, PTL DEF Spec

(* No archive makes a restore write more than max_output_size bytes: the     *)
(* checks of the manifest and of the lanes, and the limit given to each      *)
(* decompressor, bound every write. (MSR1 has no such limit.)                *)
THEOREM OutputBoundedHolds == Spec => []OutputBounded
<1>1. DecodersInv => OutputBounded BY DEF DecodersInv, Metered
<1> QED BY <1>1, DecodersInvariant, PTL

(* A restore that fails leaves neither a temporary output nor a cache, as    *)
(* the finally blocks of the restores promise; a cleanup that cannot finish  *)
(* is left only by a kill or with its error.                                 *)
THEOREM FailureCleansHolds == Spec => []FailureCleans
<1>1. DecodersInv => FailureCleans BY DEF DecodersInv, Staged, Clean
<1> QED BY <1>1, DecodersInvariant, PTL

(* A chunk that refers to an earlier one is restored from a cache that       *)
(* holds it: restore_dedup_archive never looks up a chunk that it did not    *)
(* keep.                                                                     *)
THEOREM CacheHitHolds == Spec => []CacheHit
<1>1. DecodersInv => CacheHit BY DEF DecodersInv
<1> QED BY <1>1, DecodersInvariant, PTL

(* A complete output is not the absence of one.                              *)
LEMMA WholeIsSome == Complete # NoOutput
<1>1. Complete.made = TRUE /\ NoOutput.made = FALSE BY DEF Complete, NoOutput
<1> QED BY <1>1

(* What the destination holds, as AtomicPublication sees it.                 *)
Held == CASE published = NoOutput -> "previous" [] published = Complete -> "whole"
               [] OTHER -> "partial"

(* Every step of a decoder is a step of the atomic publication, or leaves    *)
(* it alone.                                                                 *)
LEMMA StepPublishes ==
    DecodersInv /\ DecodersInv' /\ [Next]_vars => [Publication!Next]_<<Held, Phase>>
<1> SUFFICES ASSUME DecodersInv, DecodersInv', [Next]_vars
             PROVE  [Publication!Next]_<<Held, Phase>>
  OBVIOUS
<1> USE DEF Fail, given, position
<1>k. /\ Running /\ pc # "unspool" => published = NoOutput
      /\ pc = "unspool" => published # NoOutput
      /\ Restoring /\ Restoring'
  BY DEF DecodersInv, Staged, Clean
<1>l. m' = m => Complete' = Complete BY DEF Complete
<1>w. Complete # NoOutput /\ (Complete # NoOutput)' BY WholeIsSome, PTL
<1>1. CASE Running /\ Running' /\ pc # "unspool" /\ pc' # "unspool" /\ UNCHANGED published
  BY <1>1, <1>k DEF Held, Phase
<1>2. CASE Running /\ ~Running' /\ pc # "unspool" /\ UNCHANGED published
  <2>1. Held = "previous" /\ Held' = "previous" BY <1>2, <1>k, <1>w DEF Held
  <2>2. Phase = "working" /\ Phase' = "abandoned" BY <1>2, <1>k DEF Phase, Running
  <2> QED BY <2>1, <2>2 DEF Publication!Next, Publication!Abandon, Held
<1>3. CASE pc = "replace" /\ pc' \in {"unspool", "done"} /\ published' = temp /\ m' = m
  <2>1. published = NoOutput /\ published' = Complete /\ Complete' = Complete
    BY <1>3, <1>k, <1>l DEF Restoring, Running
  <2>2. Held = "previous" /\ Held' = "whole" BY <2>1, <1>w DEF Held
  <2>3. Phase = "working" /\ Phase' = "published" BY <1>3, <2>1, <1>w DEF Phase, Running
  <2> QED BY <2>2, <2>3 DEF Publication!Next, Publication!Publish, Held
<1>4. CASE pc = "unspool" /\ pc' \in {"unspool", "done", "failed", "killed"}
           /\ UNCHANGED <<published, m>>
  BY <1>4, <1>k, <1>l DEF Held, Phase, Running
<1>5. CASE UNCHANGED <<pc, published, m>>
  BY <1>5, <1>l DEF Held, Phase, Running
<1>6. CASE Header \/ Reading \/ WritingOne
  BY <1>1, <1>2, <1>6 DEF Running, Header, Dispatch, Open, ReadHeader, StreamHeader, SingleHeader,
     Reading, ReadManifest, StreamReadManifest, ReadInner, ReadSolid, ReadMetadata, ReadLaneFrame,
     LaneDone, CopyCanonical, ManifestAccepted, WritingOne, RestoreUnique, RestoreDuplicate,
     RestoreBlock, RestoreRecord, RestoreCanonical, Write
<1>7. CASE PrepareOutput \/ RestoreDirectory \/ OpenSink(First) \/ CloseSink \/ Ending
  BY <1>1, <1>2, <1>7 DEF Running, PrepareOutput, RestoreDirectory, OpenSink, CloseSink, Ending,
     Finish
<1>8. CASE Publish BY <1>2, <1>3, <1>8 DEF Running, Publish
<1>9. CASE RemoveScratch \/ ScratchNotRemoved BY <1>4, <1>9 DEF RemoveScratch, ScratchNotRemoved
<1>10. CASE Outside
  BY <1>2, <1>4, <1>5, <1>10 DEF Running, Outside, Fault, Interrupt, Kill, Rebind, Swap, vars
<1> QED BY <1>6, <1>7, <1>8, <1>9, <1>10, StepKinds, Zenon

(* The decoders implement AtomicPublication: the destination goes from its   *)
(* previous state to the whole output in one step, and nothing partial is    *)
(* seen there, whatever fails.                                               *)
THEOREM PublishesAtomicallyHolds == Spec => PublishesAtomically
<1>1. Init => Publication!Init
  BY WholeIsSome DEF Init, Publication!Init, Phase, Running
<1>2. DecodersInv /\ DecodersInv' /\ [Next]_vars
        => [Publication!Next]_<<CASE published = NoOutput -> "previous"
                                   [] published = Complete -> "whole"
                                   [] OTHER -> "partial", Phase>>
  BY StepPublishes DEF Held
<1> QED BY <1>1, <1>2, DecodersInvariant, PTL DEF Spec, PublishesAtomically, Publication!Spec

-----------------------------------------------------------------------------
(* What was verified of the archive so far.                                  *)

(* The one frame of MSR1 restores the unique chunks of the manifest.         *)
SolidRead(a) ==
    /\ ParseDedupManifest(a.manifest, a.unique + 1)
    /\ Len(a.frames) = 1 /\ DecodeSolid(a.frames[1], SizesOf(a.manifest))
    /\ ChunksRestored(a.manifest, LAMBDA k : SolidChunk(a.frames[1], SizesOf(a.manifest), k))

(* What the checks of the manifest have established, by format.              *)
Established(a, man) ==
    /\ a.sealed
    /\ a.format # "MSR2" => man = a.manifest
    /\ a.format = "MSC1" => ParseInner(a) /\ ~a.trailing
    /\ a.format = "MSC2" => ParseManifest(man, a.frameCount)
    /\ a.format = "MSC6" => ParseDedupManifest(man, a.frameCount)
    /\ a.format = "MSR1" => SolidRead(a) /\ ~a.trailing
    /\ a.format = "MSR2" =>
          man = ReadManifestOf(a.metadata) /\ ParseMetadata(a.metadata, a.unique)

(* The manifest held was established by the archive at hand.                 *)
Known ==
    /\ pc = "inner" => ~archive.trailing
    /\ pc \in {"lanes", "prepare"} \cup Begun => Established(archive, m)

(* The digests of the first n chunks of a file in the table.                 *)
ChunkDigests(man, e, n) == [k \in 1 .. n |-> man.chunks[e.first + k].digest]

(* The files before entry i have the digests that the table gives them.      *)
DigestsBefore(man, i) ==
    \A j \in 1 .. i - 1 :
        man.entries[j].kind = "file" =>
            ChunkDigests(man, man.entries[j], man.entries[j].count) = man.entries[j].digest

(* With a chunk table: the chunks written are those of the table, and the    *)
(* files closed have their digests.                                          *)
TableChecked ==
    format \in Tabled /\ pc \in Begun =>
        /\ DigestsBefore(m, ix)
        /\ pc = "chunks" => taken = ChunkDigests(m, m.entries[ix],
                                                 occurrence - m.entries[ix].first)

(* The first n frames of MSC6 hold the unique chunks among the first at      *)
(* records, in order.                                                        *)
UniquesPassed(a, man, n, at) ==
    /\ n \in 0 .. Len(a.frames)
    /\ \A k \in 1 .. n :
          LET f == a.frames[k] IN
          /\ f.sealed /\ f.index = k
          /\ f.occurrence \in 0 .. at - 1 /\ f.occurrence + 1 \in Unique(man.chunks)
          /\ f.size = man.chunks[f.occurrence + 1].size
          /\ f.chunk = man.chunks[f.occurrence + 1].digest
    /\ \A j, k \in 1 .. n : j < k => a.frames[j].occurrence < a.frames[k].occurrence
    /\ \A i \in Unique(man.chunks) : i <= at => \E k \in 1 .. n : a.frames[k].occurrence = i - 1

(* MSC6: the frames read are those of the unique chunks restored.            *)
UniquesChecked ==
    format = "MSC6" /\ pc \in Begun => UniquesPassed(archive, m, frameIndex - 1, occurrence)

(* Blocks 0 .. n - 1 of entry i are in their frames.                         *)
BlocksPassed(a, i, n) ==
    \A block \in 0 .. n - 1 :
        LET f == BlockFrame(a, i, block) IN
        /\ f.sealed /\ f.index = a.manifest.entries[i].first + block
        /\ f.entry = i - 1 /\ f.size = BlockSize(a.manifest, i, block)

(* The first n blocks of entry i, as the frames hold them.                   *)
BlocksOf(a, i, n) == [k \in 1 .. n |-> BlockFrame(a, i, k - 1).chunk]

(* The files before entry i are in their frames, with their digests.         *)
FilesPassed(a, i) ==
    \A j \in 1 .. i - 1 :
        a.manifest.entries[j].kind = "file" =>
            /\ BlocksPassed(a, j, a.manifest.entries[j].count)
            /\ StreamRestored(a, j) = a.manifest.entries[j].digest

(* MSC2: the frames read are the blocks of the files closed and of the open  *)
(* one.                                                                      *)
BlocksChecked ==
    format = "MSC2" /\ pc \in Begun =>
        /\ frameIndex - 1 \in 0 .. Len(archive.frames)
        /\ FilesPassed(archive, ix)
        /\ pc = "entry" => frameIndex = 1 + ChunksBefore(m.entries, ix)
        /\ pc = "chunks" =>
              /\ occurrence \in 0 .. m.entries[ix].count
              /\ frameIndex = m.entries[ix].first + occurrence
              /\ BlocksPassed(archive, ix, occurrence)
              /\ taken = BlocksOf(archive, ix, occurrence)

(* The chunks of the first n records of MSC1.                                *)
RecordChunks(a, n) == [k \in 1 .. n |-> a.frames[k].chunk]

(* MSC1: the records written are those of the one file.                      *)
RecordsChecked ==
    format = "MSC1" =>
        /\ pc = "entry" => \/ ix = 1 /\ frameIndex = 1
                           \/ /\ ix = 2
                              /\ RecordChunks(archive, Len(archive.frames)) = m.entries[1].digest
        /\ pc = "chunks" => ix = 1 /\ taken = RecordChunks(archive, frameIndex - 1)

(* The first n frames of a lane are what they should be.                     *)
LanePassed(a, lane, n) ==
    \A k \in 1 .. n :
        LET f == LaneFrame(a, lane, k)
            final == k = a.metadata.frameCounts[lane]
        IN  /\ f.sealed /\ f.index = LaneStart(a.metadata, lane) + k
            /\ f.lane = lane /\ f.final = final /\ PayloadSizeGood(f, final)
            /\ StreamEnds(f, ReadCodecOf(a.metadata, lane), final)

(* The units of the frames of a lane.                                        *)
LaneParts(a, lane) ==
    [k \in 1 .. a.metadata.frameCounts[lane] |->
        FrameUnits(LaneFrame(a, lane, k), ReadCodecOf(a.metadata, lane))]

(* A lane was read to its end.                                               *)
LaneWhole(a, lane) ==
    /\ LanePassed(a, lane, a.metadata.frameCounts[lane])
    /\ Len(LaneRead(a, lane)) = RawSize(ReadManifestOf(a.metadata),
                                        ReadLanesOf(a.metadata, a.unique), lane)

(* MSR2: the spool holds the lanes before ix and the frames read of lane ix. *)
LanesChecked ==
    pc = "lanes" =>
        /\ frameIndex = LaneStart(archive.metadata, ix) + occurrence + 1
        /\ frameIndex - 1 \in 0 .. Len(archive.frames)
        /\ \A l \in Lanes : l < ix => spool[l] = LaneRead(archive, l) /\ LaneWhole(archive, l)
        /\ \A l \in Lanes : l > ix => spool[l] = <<>>
        /\ ix \in Lanes =>
              /\ occurrence \in 0 .. archive.metadata.frameCounts[ix]
              /\ LanePassed(archive, ix, occurrence)
              /\ spool[ix] = Concat(Prefix(LaneParts(archive, ix), occurrence))

(* MSR2: all that LanesWhole asks but the digests of the files.              *)
LanesRead(a) ==
    LET man == ReadManifestOf(a.metadata)
        lanes == ReadLanesOf(a.metadata, a.unique)
        content == [l \in Lanes |-> LaneRead(a, l)]
    IN  /\ ~a.trailing /\ Len(a.frames) = LaneStart(a.metadata, 3)
        /\ \A l \in Lanes : LaneWhole(a, l)
        /\ ChunksRestored(man, LAMBDA k : ChunkIn(content, lanes, SizesOf(man), k))

(* MSR2: the lanes were read before the first entry is restored.             *)
LanesHeld == format = "MSR2" /\ pc \in {"prepare"} \cup Begun => LanesRead(archive)

(* An archive that was read to its end is intact.                            *)
EndsWhole ==
    pc \in {"replace", "unspool", "done"} => archive.format = format /\ Intact(archive)

(* What was verified so far, by format.                                      *)
Verified ==
    /\ Known /\ TableChecked /\ UniquesChecked /\ BlocksChecked /\ RecordsChecked
    /\ LanesChecked /\ LanesHeld /\ EndsWhole

-----------------------------------------------------------------------------
(* The steps, by what they do to what was read.                              *)

(* The step fails or is killed.                                              *)
Halts == pc' \in {"failed", "killed"}

(* The step changes nothing of what was read.                                *)
Still == UNCHANGED <<archive, format, pc, m, ix, occurrence, frameIndex, taken, spool>>

(* The step is one of those before the manifest is read.                     *)
Starting ==
    /\ pc' \in {"open", "header", "manifest", "inner"}
    /\ pc' = "inner" => archive' = archive /\ ~archive.trailing

(* The step has read a manifest, its metadata or a part of a lane.           *)
Reads == Reading /\ pc' \in {"lanes", "prepare"} /\ UNCHANGED <<archive, format>>

(* The output is prepared.                                                   *)
Prepares ==
    /\ pc = "prepare" /\ pc' = "entry" /\ ix' = 1 /\ frameIndex' = 1
    /\ UNCHANGED <<archive, format, m, occurrence, spool>>

(* A directory is made.                                                      *)
MakesDir ==
    /\ pc = "entry" /\ pc' = "entry" /\ ix <= Len(m.entries) /\ m.entries[ix].kind = "dir"
    /\ ix' = ix + 1
    /\ UNCHANGED <<archive, format, m, occurrence, frameIndex, spool>>

(* A file is opened.                                                         *)
Opens ==
    /\ pc = "entry" /\ pc' = "chunks" /\ ix <= Len(m.entries) /\ m.entries[ix].kind = "file"
    /\ occurrence' = First /\ taken' = <<>>
    /\ UNCHANGED <<archive, format, m, ix, frameIndex, spool>>

(* A chunk, block or record is written.                                      *)
Writes ==
    /\ WritingOne /\ pc = "chunks" /\ pc' = "chunks" /\ occurrence' = occurrence + 1
    /\ UNCHANGED <<archive, format, m, ix, spool>>

(* A file is closed with the digest of its entry.                            *)
Closes ==
    /\ NoMore /\ pc = "chunks" /\ pc' = "entry" /\ taken = m.entries[ix].digest /\ ix' = ix + 1
    /\ UNCHANGED <<archive, format, m, occurrence, frameIndex, taken, spool>>

(* The archive ends where it should.                                         *)
Ends ==
    /\ pc = "entry" /\ ix > Len(m.entries) /\ pc' \in {"replace", "done"}
    /\ format = "MSC6" => Terminated
    /\ format = "MSC2" => StreamTerminated
    /\ UNCHANGED <<archive, format>>

(* The output is published, and the scratch directory removed.               *)
Publishes ==
    /\ pc \in {"replace", "unspool"} /\ pc' \in {"unspool", "done"}
    /\ UNCHANGED <<archive, format>>

(* Every step is one of these.                                               *)
LEMMA Moves ==
    ASSUME [Next]_vars
    PROVE  \/ Halts \/ Still \/ Starting \/ Reads \/ Prepares \/ MakesDir \/ Opens \/ Writes
           \/ Closes \/ Ends \/ Publishes
<1> USE DEF Fail, given, position, scratch
<1>1. CASE Header
  BY <1>1 DEF Header, Dispatch, Open, ReadHeader, StreamHeader, SingleHeader, SingleHeaderAccepted,
     Halts, Starting
<1>2. CASE Reading
  <2>1. pc' = "failed" \/ pc' \in {"lanes", "prepare"}
    BY <1>2 DEF Reading, ReadManifest, StreamReadManifest, ReadInner, ReadSolid, ReadMetadata,
       ReadLaneFrame, LaneDone, CopyCanonical, ManifestAccepted
  <2>2. UNCHANGED <<archive, format>>
    BY <1>2 DEF Reading, ReadManifest, StreamReadManifest, ReadInner, ReadSolid, ReadMetadata,
       ReadLaneFrame, LaneDone, CopyCanonical, ManifestAccepted
  <2> QED BY <1>2, <2>1, <2>2 DEF Halts, Reads
<1>3. CASE PrepareOutput BY <1>3 DEF PrepareOutput, Halts, Prepares
<1>4. CASE RestoreDirectory BY <1>4 DEF RestoreDirectory, Halts, MakesDir
<1>5. CASE OpenSink(First) BY <1>5 DEF OpenSink, Opens
<1>6. CASE WritingOne
  <2>1. \/ pc' = "failed"
        \/ /\ pc = "chunks" /\ pc' = "chunks" /\ occurrence' = occurrence + 1
           /\ UNCHANGED <<archive, format, m, ix, spool>>
    BY <1>6 DEF WritingOne, RestoreUnique, RestoreDuplicate, RestoreBlock, RestoreRecord,
       RestoreCanonical, Write
  <2> QED BY <1>6, <2>1 DEF Halts, Writes
<1>7. CASE NoMore /\ CloseSink BY <1>7 DEF CloseSink, Halts, Closes
<1>8. CASE Ending BY <1>8 DEF Ending, Finish, Halts, Ends
<1>9. CASE Publish \/ RemoveScratch \/ ScratchNotRemoved
  BY <1>9 DEF Publish, RemoveScratch, ScratchNotRemoved, Halts, Publishes
<1>10. CASE Outside
  BY <1>10 DEF Outside, Fault, Interrupt, Kill, Rebind, Swap, vars, Halts, Still, Starting
<1> QED BY <1>1, <1>2, <1>3, <1>4, <1>5, <1>6, <1>7, <1>8, <1>9, <1>10, StepKinds, Zenon

(* The frames of an archive are a sequence.                                  *)
LEMMA FramesListed ==
    ASSUME ArchiveOK
    PROVE  /\ Len(archive.frames) \in Nat /\ DOMAIN archive.frames = 1 .. Len(archive.frames)
           /\ archive.format \in Format
           /\ archive.format = "MSC6" =>
                 \A k \in 1 .. Len(archive.frames) : archive.frames[k].occurrence \in Nat
           /\ archive.format \notin {"MSR1", "MSR2"} => archive.frameCount \in Nat
<1> DEFINE fs == archive.frames
<1>0. archive.format \in Format /\ fs \in FrameFields(archive.format)
      /\ (archive.format \notin {"MSR1", "MSR2"} => archive.frameCount \in Nat)
  BY DEF ArchiveOK, Fields
<1>1. \E T : /\ fs \in Seq(T)
             /\ archive.format = "MSC6" => \A x \in T : x.occurrence \in Nat
  <2>1. CASE archive.format = "MSC1" BY <1>0, <2>1 DEF FrameFields
  <2>2. CASE archive.format = "MSC2" BY <1>0, <2>2 DEF FrameFields
  <2>3. CASE archive.format = "MSC6"
    <3> DEFINE Six == [sealed : BOOLEAN, index : Nat, occurrence : Nat, size : Nat,
                       chunk : DOMAIN LaneOf]
    <3>1. fs \in Seq(Six) BY <1>0, <2>3 DEF FrameFields
    <3>2. \A x \in Six : x.occurrence \in Nat OBVIOUS
    <3> QED BY <3>1, <3>2
  <2>4. CASE archive.format = "MSR1" BY <1>0, <2>4 DEF FrameFields
  <2>5. CASE archive.format = "MSR2" BY <1>0, <2>5 DEF FrameFields
  <2> QED BY <1>0, <2>1, <2>2, <2>3, <2>4, <2>5 DEF Format
<1>2. PICK T : /\ fs \in Seq(T)
               /\ archive.format = "MSC6" => \A x \in T : x.occurrence \in Nat
  BY <1>1
<1>3. Len(fs) \in Nat /\ DOMAIN fs = 1 .. Len(fs) /\ \A k \in 1 .. Len(fs) : fs[k] \in T
  <2> HIDE DEF fs
  <2> QED BY <1>2
<1> QED BY <1>0, <1>2, <1>3

(* The checks of the manifest establish what the entries are restored from.  *)
LEMMA KnownStep == ASSUME Staged, Known, [Next]_vars PROVE Known'
<1>1. CASE Halts BY <1>1 DEF Halts, Known, Begun
<1>2. CASE Still BY <1>2 DEF Still, Known
<1>3. CASE Starting BY <1>3 DEF Starting, Known, Begun
<1>4. CASE Reads
  <2>0. UNCHANGED <<archive, format>> /\ pc' # "inner" BY <1>4 DEF Reads
  <2> SUFFICES Established(archive, m') BY <2>0 DEF Known
  <2>1. CASE format = "MSC6" /\ ReadManifest
    <3>1. m' = archive.manifest /\ ManifestGood /\ archive.format = "MSC6"
      BY <1>4, <2>1 DEF Reads, ReadManifest, ManifestAccepted, Fail, Staged, Stage
    <3> QED BY <3>1 DEF Established, ManifestGood
  <2>2. CASE format = "MSC2" /\ StreamReadManifest
    <3>1. m' = archive.manifest /\ StreamManifestGood /\ archive.format = "MSC2"
      BY <1>4, <2>2 DEF Reads, StreamReadManifest, ManifestAccepted, Fail, Staged, Stage
    <3> QED BY <3>1 DEF Established, StreamManifestGood
  <2>3. CASE format = "MSC1" /\ ReadInner
    <3>1. m' = archive.manifest /\ InnerGood /\ archive.format = "MSC1" /\ pc = "inner"
      BY <1>4, <2>3 DEF Reads, ReadInner, ManifestAccepted, Fail, Staged, Stage
    <3> QED BY <3>1 DEF Established, InnerGood, Known
  <2>4. CASE format = "MSR1" /\ ReadSolid
    <3>1. m' = archive.manifest /\ SolidAccepted /\ SolidChunksGood
      BY <1>4, <2>4 DEF Reads, ReadSolid, Fail
    <3>2. SolidRead(archive) BY <3>1 DEF SolidAccepted, SolidChunksGood, SolidRead
    <3> QED BY <3>1, <3>2 DEF Established, SolidAccepted
  <2>5. CASE format = "MSR2" /\ ReadMetadata
    <3>1. m' = ReadManifestOf(archive.metadata) /\ MetadataAccepted
      BY <1>4, <2>5 DEF Reads, ReadMetadata, Fail
    <3> QED BY <3>1 DEF Established, MetadataAccepted
  <2>6. CASE format = "MSR2" /\ (ReadLaneFrame \/ LaneDone \/ CopyCanonical)
    <3>1. m' = m /\ pc = "lanes"
      BY <1>4, <2>6 DEF Reads, ReadLaneFrame, LaneDone, CopyCanonical, Fail, position
    <3> QED BY <3>1 DEF Known
  <2> QED BY <1>4, <2>1, <2>2, <2>3, <2>4, <2>5, <2>6 DEF Reads, Reading
<1>5. CASE Prepares \/ MakesDir \/ Opens \/ Writes \/ Closes
  BY <1>5 DEF Prepares, MakesDir, Opens, Writes, Closes, Known, Begun
<1>6. CASE Ends \/ Publishes BY <1>6 DEF Ends, Publishes, Known, Begun
<1> QED BY <1>1, <1>2, <1>3, <1>4, <1>5, <1>6, Moves

(* The terms of a run, with the next one appended.                           *)
LEMMA RunAppended ==
    ASSUME NEW n \in Nat, NEW f PROVE Append([k \in 1 .. n |-> f[k]], f[n + 1]) = [k \in 1 .. n + 1 |-> f[k]]
<1> DEFINE T == {f[k] : k \in 1 .. n + 1}
           s == [k \in 1 .. n |-> f[k]]
           t == [k \in 1 .. n + 1 |-> f[k]]
<1>1. s \in Seq(T) /\ Len(s) = n /\ t \in Seq(T) /\ Len(t) = n + 1 /\ f[n + 1] \in T OBVIOUS
<1>2. Append(s, f[n + 1]) \in Seq(T) /\ Len(Append(s, f[n + 1])) = n + 1
  <2> HIDE DEF s, T
  <2> QED BY <1>1
<1>3. \A k \in 1 .. n + 1 : Append(s, f[n + 1])[k] = t[k]
  <2>1. \A k \in 1 .. n : Append(s, f[n + 1])[k] = s[k]
    <3> HIDE DEF s, T
    <3> QED BY <1>1
  <2>2. Append(s, f[n + 1])[n + 1] = f[n + 1]
    <3> HIDE DEF s, T
    <3> QED BY <1>1
  <2> QED BY <2>1, <2>2
<1> QED
  <2> HIDE DEF s, t, T
  <2> QED BY <1>1, <1>2, <1>3

(* The range of a file of the table, and how far into it the restore is.     *)
LEMMA InTable ==
    ASSUME Parsed, Placed, Counted, pc = "chunks", format \in Tabled
    PROVE  LET e == m.entries[ix] IN
           /\ m \in ManifestFields /\ RangesOf(m) /\ ReferencesDirect(m)
           /\ ix \in 1 .. Len(m.entries) /\ e.kind = "file"
           /\ e.first \in Nat /\ e.count \in Nat
           /\ e.first = ChunksBefore(m.entries, ix) /\ occurrence \in e.first .. e.first + e.count
<1> DEFINE B(i) == ChunksBefore(m.entries, i)
<1>1. m \in ManifestFields /\ RangesOf(m) /\ ReferencesDirect(m)
  BY RangesRead DEF Parsed, Readable, Holding
<1>2. ix \in 1 .. Len(m.entries) /\ m.entries[ix].kind = "file" /\ occurrence \in B(ix) .. B(ix + 1)
  BY DEF Placed, Counted
<1>3. m.entries[ix] \in EntryRecord BY <1>1, <1>2, EntriesListed
<1>4. m.entries[ix].first \in Nat /\ m.entries[ix].count \in Nat BY <1>3 DEF EntryRecord
<1>5. B(ix) = m.entries[ix].first /\ B(ix + 1) = m.entries[ix].first + m.entries[ix].count
  BY <1>1, <1>2 DEF RangesOf
<1> QED BY <1>1, <1>2, <1>4, <1>5

(* The chunks written from the table have the digests of their records.      *)
LEMMA TableStep ==
    ASSUME Staged, Parsed, Placed, Counted, TableChecked, [Next]_vars PROVE TableChecked'
<1> SUFFICES ASSUME format' \in Tabled, pc' \in Begun PROVE TableChecked' BY DEF TableChecked
<1>1. CASE Halts \/ Starting \/ Reads \/ Ends \/ Publishes
  BY <1>1 DEF Halts, Starting, Reads, Ends, Publishes, Begun
<1>2. CASE Still BY <1>2 DEF Still, TableChecked
<1>3. CASE Prepares
  <2>1. DigestsBefore(m', ix') BY <1>3 DEF Prepares, DigestsBefore
  <2> QED BY <1>3, <2>1 DEF Prepares, TableChecked
<1>4. CASE MakesDir
  <2>1. /\ DigestsBefore(m, ix) /\ m.entries[ix].kind # "file" /\ ix \in Nat
    BY <1>4, EntriesListed DEF MakesDir, TableChecked, Begun, Placed, Parsed, Readable, Holding
  <2>2. DigestsBefore(m, ix + 1) BY <2>1 DEF DigestsBefore
  <2> QED BY <1>4, <2>2 DEF MakesDir, TableChecked
<1>5. CASE Opens
  <2>1. m' = m /\ ix' = ix /\ DigestsBefore(m, ix) BY <1>5 DEF Opens, TableChecked, Begun
  <2>2. occurrence' = m.entries[ix].first /\ m.entries[ix].first \in Nat
    <3>1. ix \in 1 .. Len(m.entries) /\ m \in ManifestFields
      BY <1>5, EntriesListed DEF Opens, Placed, Parsed, Readable, Holding
    <3>2. m.entries[ix] \in EntryRecord BY <3>1, EntriesListed
    <3> QED BY <1>5, <3>2 DEF Opens, First, EntryRecord
  <2>3. ChunkDigests(m, m.entries[ix], occurrence' - m.entries[ix].first) = <<>>
    BY <2>2 DEF ChunkDigests
  <2> QED BY <1>5, <2>1, <2>3 DEF Opens, TableChecked
<1>6. CASE Writes
  <2> DEFINE e == m.entries[ix]
             n == occurrence - e.first
             f == [k \in 1 .. n + 1 |-> m.chunks[e.first + k].digest]
  <2>1. /\ pc = "chunks" /\ occurrence' = occurrence + 1 /\ m' = m /\ ix' = ix
        /\ format \in Tabled /\ WritingOne /\ pc' = "chunks"
    BY <1>6 DEF Writes
  <2>2. DigestsBefore(m, ix) /\ taken = ChunkDigests(m, e, n) BY <2>1 DEF TableChecked, Begun
  <2>3. e.first \in Nat /\ occurrence \in e.first .. e.first + e.count /\ ReferencesDirect(m)
        /\ e.count \in Nat
    BY <2>1, InTable
  <2>4. occurrence < e.first + e.count
    BY <2>1 DEF WritingOne, RestoreUnique, RestoreDuplicate, RestoreCanonical, InEntry, MoreChunks,
       Tabled
  <2>5. /\ occurrence \in Nat /\ occurrence + 1 \in DOMAIN m.chunks
        /\ m.chunks[occurrence + 1] \in TableRecord
    BY <2>1, <2>4, AtChunk
  <2>6. m.chunks[m.chunks[occurrence + 1].source + 1].digest = m.chunks[occurrence + 1].digest
    <3>1. (occurrence + 1) - 1 = occurrence BY <2>5
    <3> QED BY <2>3, <2>5, <3>1 DEF ReferencesDirect
  <2>7. taken' = Append(taken, m.chunks[occurrence + 1].digest)
    BY <2>1, <2>6 DEF WritingOne, RestoreUnique, RestoreDuplicate, RestoreCanonical, Write, Fail,
       Record, Tabled
  <2>8. n \in Nat /\ e.first + (n + 1) = occurrence + 1 /\ occurrence + 1 - e.first = n + 1
    <3> HIDE DEF e
    <3> QED BY <2>3, <2>5
  <2>9. f[n + 1] = m.chunks[occurrence + 1].digest
    <3> HIDE DEF n
    <3> QED BY <2>8
  <2>10. /\ ChunkDigests(m, e, n) = [k \in 1 .. n |-> f[k]]
         /\ ChunkDigests(m, e, n + 1) = [k \in 1 .. n + 1 |-> f[k]]
    <3> HIDE DEF n, e
    <3> QED BY <2>8 DEF ChunkDigests
  <2>11. taken' = ChunkDigests(m, e, n + 1)
    <3> HIDE DEF f, n
    <3> QED BY <2>2, <2>7, <2>8, <2>9, <2>10, RunAppended
  <2>12. occurrence' - m'.entries[ix'].first = n + 1
    <3>1. occurrence' - m'.entries[ix'].first = occurrence + 1 - e.first BY <2>1, <2>3, <2>5
    <3> HIDE DEF n, e
    <3> QED BY <2>8, <3>1
  <2> HIDE DEF f, n
  <2> QED BY <2>1, <2>2, <2>11, <2>12 DEF TableChecked
<1>7. CASE Closes
  <2> DEFINE e == m.entries[ix]
  <2>1. pc = "chunks" /\ taken = e.digest /\ m' = m /\ ix' = ix + 1 /\ pc' = "entry" /\ format \in Tabled
    BY <1>7 DEF Closes
  <2>2. DigestsBefore(m, ix) /\ taken = ChunkDigests(m, e, occurrence - e.first)
    BY <2>1 DEF TableChecked, Begun
  <2>3. e.first \in Nat /\ occurrence \in e.first .. e.first + e.count /\ e.count \in Nat /\ ix \in Nat
    BY <2>1, InTable
  <2>4. ~(occurrence < e.first + e.count) BY <1>7, <2>1 DEF Closes, NoMore, InEntry, MoreChunks, Tabled
  <2>5. occurrence - e.first = e.count
    <3> HIDE DEF e
    <3> QED BY <2>3, <2>4
  <2>6. ChunkDigests(m, e, e.count) = e.digest BY <2>1, <2>2, <2>5
  <2>7. DigestsBefore(m, ix + 1) BY <2>2, <2>3, <2>6 DEF DigestsBefore
  <2> QED BY <2>1, <2>7 DEF TableChecked
<1> QED BY <1>1, <1>2, <1>3, <1>4, <1>5, <1>6, <1>7, Moves

(* The next unique chunk is in the next frame.                               *)
LEMMA UniqueRead ==
    ASSUME NEW a, NEW man, NEW n, NEW at \in Nat, UniquesPassed(a, man, n, at),
           Len(a.frames) \in Nat, n + 1 <= Len(a.frames), at + 1 \in Unique(man.chunks),
           Unique(man.chunks) \subseteq Nat,
           LET f == a.frames[n + 1] IN
           /\ f.sealed /\ f.index = n + 1 /\ f.occurrence = at
           /\ f.size = man.chunks[at + 1].size /\ f.chunk = man.chunks[at + 1].digest
    PROVE  UniquesPassed(a, man, n + 1, at + 1)
<1> DEFINE Good(k, top) ==
               LET f == a.frames[k] IN
               /\ f.sealed /\ f.index = k
               /\ f.occurrence \in 0 .. top - 1 /\ f.occurrence + 1 \in Unique(man.chunks)
               /\ f.size = man.chunks[f.occurrence + 1].size
               /\ f.chunk = man.chunks[f.occurrence + 1].digest
           occ(k) == a.frames[k].occurrence
<1>1. n \in 0 .. Len(a.frames) /\ n \in Nat BY DEF UniquesPassed
<1>2. \A k \in 1 .. n : Good(k, at) BY DEF UniquesPassed
<1>3. \A k \in 1 .. n : Good(k, at + 1) /\ occ(k) < at
  <2> SUFFICES ASSUME NEW k \in 1 .. n PROVE Good(k, at + 1) /\ occ(k) < at OBVIOUS
  <2>1. occ(k) \in 0 .. at - 1 BY <1>2
  <2>2. occ(k) \in 0 .. (at + 1) - 1 /\ occ(k) < at
    <3> HIDE DEF occ
    <3> QED BY <2>1
  <2> QED BY <1>2, <2>2
<1>4. Good(n + 1, at + 1)
  <2>1. at \in 0 .. (at + 1) - 1 OBVIOUS
  <2> QED BY <2>1
<1>5. \A k \in 1 .. n + 1 : k \in 1 .. n \/ k = n + 1 BY <1>1
<1>6. \A k \in 1 .. n + 1 : Good(k, at + 1)
  <2> HIDE DEF Good
  <2> QED BY <1>3, <1>4, <1>5
<1>7. \A j, k \in 1 .. n + 1 : j < k => occ(j) < occ(k)
  <2> SUFFICES ASSUME NEW j \in 1 .. n + 1, NEW k \in 1 .. n + 1, j < k PROVE occ(j) < occ(k)
    OBVIOUS
  <2>1. j \in 1 .. n BY <1>1
  <2>2. CASE k \in 1 .. n BY <2>1, <2>2 DEF UniquesPassed
  <2>3. CASE k = n + 1 BY <1>3, <2>1, <2>3
  <2> QED BY <1>5, <2>2, <2>3
<1>8. \A i \in Unique(man.chunks) : i <= at + 1 => \E k \in 1 .. n + 1 : occ(k) = i - 1
  <2> SUFFICES ASSUME NEW i \in Unique(man.chunks), i <= at + 1
               PROVE  \E k \in 1 .. n + 1 : occ(k) = i - 1
    OBVIOUS
  <2>1. CASE i <= at BY <1>1, <2>1 DEF UniquesPassed
  <2>2. CASE i = at + 1
    <3>1. n + 1 \in 1 .. n + 1 /\ occ(n + 1) = at /\ i - 1 = at BY <1>1, <2>2
    <3> QED BY <3>1
  <2> QED BY <2>1, <2>2
<1>9. n + 1 \in 0 .. Len(a.frames) BY <1>1
<1> QED BY <1>6, <1>7, <1>8, <1>9 DEF UniquesPassed

(* A duplicate has no frame.                                                 *)
LEMMA DuplicatePassed ==
    ASSUME NEW a, NEW man, NEW n, NEW at \in Nat, UniquesPassed(a, man, n, at),
           at + 1 \notin Unique(man.chunks), Unique(man.chunks) \subseteq Nat
    PROVE  UniquesPassed(a, man, n, at + 1)
<1>1. \A k \in 1 .. n : a.frames[k].occurrence \in 0 .. (at + 1) - 1
  <2>1. \A k \in 1 .. n : a.frames[k].occurrence \in 0 .. at - 1 BY DEF UniquesPassed
  <2> QED BY <2>1
<1>2. \A i \in Unique(man.chunks) : i <= at + 1 => i <= at OBVIOUS
<1> QED BY <1>1, <1>2 DEF UniquesPassed

(* Every step of MSC6 keeps the frames in step with the chunks.              *)
LEMMA UniquesStep ==
    ASSUME Staged, ArchiveOK, Parsed, Placed, Counted, Metered, UniquesChecked, [Next]_vars
    PROVE  UniquesChecked'
<1> SUFFICES ASSUME format' = "MSC6", pc' \in Begun PROVE UniquesChecked' BY DEF UniquesChecked
<1>f. pc \in Begun => frameIndex \in Nat \ {0} BY DEF Metered
<1>h. pc \in {"prepare"} \cup Begun => m \in ManifestFields BY DEF Parsed, Readable, Holding, Begun
<1>u. pc \in {"prepare"} \cup Begun => Unique(m.chunks) \subseteq Nat \ {0}
  BY <1>h, EntriesListed DEF Unique
<1>1. CASE Halts \/ Starting \/ Reads \/ Ends \/ Publishes
  BY <1>1 DEF Halts, Starting, Reads, Ends, Publishes, Begun
<1>2. CASE Still BY <1>2 DEF Still, UniquesChecked
<1>3. CASE Prepares
  <2>1. /\ occurrence' = 0 /\ frameIndex' - 1 = 0 /\ m' = m /\ archive' = archive
        /\ pc = "prepare"
    BY <1>3 DEF Prepares, Placed
  <2>2. UniquesPassed(archive, m, 0, 0)
    <3>1. Len(archive.frames) \in Nat BY FramesListed
    <3>2. \A i \in Unique(m.chunks) : ~(i <= 0) BY <1>u, <2>1
    <3> QED BY <3>1, <3>2 DEF UniquesPassed
  <2> QED BY <2>1, <2>2 DEF UniquesChecked
<1>4. CASE MakesDir \/ Closes
  BY <1>4 DEF MakesDir, Closes, UniquesChecked, Begun
<1>5. CASE Opens
  <2>1. /\ pc = "entry" /\ occurrence' = First /\ format = "MSC6"
        /\ ix <= Len(m.entries) /\ m.entries[ix].kind = "file"
        /\ UNCHANGED <<archive, format, m, ix, frameIndex>>
    BY <1>5 DEF Opens
  <2>2. First = occurrence
    <3>1. m \in ManifestFields /\ RangesOf(m)
      BY <2>1, RangesRead DEF Parsed, Readable, Holding, Tabled
    <3>2. ix \in 1 .. Len(m.entries) BY <2>1, <3>1, EntriesListed DEF Placed
    <3> QED BY <2>1, <3>1, <3>2 DEF RangesOf, First, Counted, Tabled
  <2> QED BY <2>1, <2>2 DEF UniquesChecked, Begun
<1>6. CASE Writes
  <2>0. /\ pc = "chunks" /\ pc' = "chunks" /\ format = "MSC6" /\ occurrence' = occurrence + 1
        /\ m' = m /\ archive' = archive /\ WritingOne
    BY <1>6 DEF Writes
  <2>1. UniquesPassed(archive, m, frameIndex - 1, occurrence) BY <2>0 DEF UniquesChecked, Begun
  <2>2. /\ frameIndex \in Nat \ {0} /\ (frameIndex - 1) + 1 = frameIndex
        /\ Unique(m.chunks) \subseteq Nat /\ Len(archive.frames) \in Nat
    BY <1>f, <1>u, <2>0, FramesListed DEF Begun
  <2>3. InEntry BY <2>0 DEF WritingOne, RestoreUnique, RestoreDuplicate
  <2>4. occurrence \in Nat /\ occurrence + 1 \in DOMAIN m.chunks /\ (occurrence + 1) - 1 = occurrence
    BY <2>0, <2>3, AtChunk DEF InEntry, Tabled
  <2>5. CASE RestoreUnique
    <3>1. FrameGood /\ frameIndex' = frameIndex + 1 /\ Record.source = occurrence
      BY <2>0, <2>5 DEF RestoreUnique, Fail
    <3>2. occurrence + 1 \in Unique(m.chunks) BY <2>4, <3>1 DEF Unique, Record
    <3>3. UniquesPassed(archive, m, (frameIndex - 1) + 1, occurrence + 1)
      BY <2>1, <2>2, <2>4, <3>1, <3>2, UniqueRead DEF FrameGood, Record
    <3>4. frameIndex' - 1 = (frameIndex - 1) + 1 BY <2>2, <3>1
    <3> QED BY <2>0, <3>3, <3>4 DEF UniquesChecked
  <2>6. CASE RestoreDuplicate
    <3>1. Record.source # occurrence /\ frameIndex' = frameIndex
      BY <2>0, <2>6 DEF RestoreDuplicate, Fail
    <3>2. occurrence + 1 \notin Unique(m.chunks) BY <2>4, <3>1 DEF Unique, Record
    <3>3. UniquesPassed(archive, m, frameIndex - 1, occurrence + 1)
      BY <2>1, <2>2, <2>4, <3>2, DuplicatePassed
    <3> QED BY <2>0, <3>1, <3>3 DEF UniquesChecked
  <2> QED BY <2>0, <2>5, <2>6 DEF WritingOne
<1> QED BY <1>1, <1>2, <1>3, <1>4, <1>5, <1>6, Moves

(* The ranges of an accepted MSC2 manifest: one file after the other.        *)
LEMMA StreamRanges ==
    ASSUME NEW man \in ManifestFields, NEW fc, ParseManifest(man, fc)
    PROVE  /\ Len(man.entries) \in Nat /\ DOMAIN man.entries = 1 .. Len(man.entries)
           /\ ChunksBefore(man.entries, 1) = 0
           /\ fc = 1 + ChunksBefore(man.entries, Len(man.entries) + 1)
           /\ \A i \in 1 .. Len(man.entries) + 1 : ChunksBefore(man.entries, i) \in Nat
           /\ \A i \in 1 .. Len(man.entries) :
                 /\ ChunksBefore(man.entries, i + 1) <= ChunksBefore(man.entries, Len(man.entries) + 1)
                 /\ man.entries[i].kind # "file" =>
                       ChunksBefore(man.entries, i + 1) = ChunksBefore(man.entries, i)
                 /\ man.entries[i].kind = "file" =>
                       /\ man.entries[i].count \in Nat
                       /\ man.entries[i].first = 1 + ChunksBefore(man.entries, i)
                       /\ ChunksBefore(man.entries, i + 1)
                             = ChunksBefore(man.entries, i) + man.entries[i].count
<1> DEFINE N == Len(man.entries)
           es == man.entries
           B(i) == ChunksBefore(es, i)
<1>1. N \in Nat /\ DOMAIN es = 1 .. N /\ \A i \in 1 .. N : es[i] \in EntryRecord BY EntriesListed
<1>2. \A i \in 1 .. N : es[i].count \in Nat /\ Slot(es[i]) \in Nat
  <2> HIDE DEF es
  <2> QED BY <1>1 DEF EntryRecord, Slot
<1>3. /\ B(1) = 0 /\ \A i \in 1 .. N + 1 : B(i) \in Nat
      /\ \A i \in 1 .. N : B(i + 1) = B(i) + Slot(es[i])
      /\ \A i \in 1 .. N + 1 : \A j \in i .. N + 1 : B(i) <= B(j)
  <2> HIDE DEF N, es
  <2> QED BY <1>1, <1>2, BeforeSteps
<1>4. fc = 1 + B(N + 1) /\ \A i \in 1 .. N : es[i].kind = "file" => es[i].first = 1 + B(i)
  BY <1>1 DEF ParseManifest, RangesConsecutive, FramesBefore
<1>5. ASSUME NEW i \in 1 .. N
      PROVE  /\ B(i + 1) <= B(N + 1)
             /\ es[i].kind # "file" => B(i + 1) = B(i)
             /\ es[i].kind = "file" => B(i + 1) = B(i) + es[i].count
  <2>1. i + 1 \in 1 .. N + 1 /\ N + 1 \in i + 1 .. N + 1 BY <1>1
  <2>2. B(i + 1) <= B(N + 1)
    <3> HIDE DEF B, N
    <3> QED BY <1>3, <2>1
  <2>3. B(i) \in Nat /\ B(i + 1) = B(i) + Slot(es[i]) BY <1>1, <1>3
  <2> HIDE DEF B, es
  <2> QED BY <2>2, <2>3 DEF Slot
<1> HIDE DEF B
<1>6. \A i \in 1 .. N : /\ B(i + 1) <= B(N + 1)
                        /\ es[i].kind # "file" => B(i + 1) = B(i)
                        /\ es[i].kind = "file" => B(i + 1) = B(i) + es[i].count
  BY <1>5
<1> QED BY <1>1, <1>2, <1>3, <1>4, <1>6 DEF B

(* One more block of the entry was read.                                     *)
LEMMA BlockRead ==
    ASSUME NEW a, NEW i, NEW n \in Nat, BlocksPassed(a, i, n),
           LET f == BlockFrame(a, i, n) IN
           /\ f.sealed /\ f.index = a.manifest.entries[i].first + n
           /\ f.entry = i - 1 /\ f.size = BlockSize(a.manifest, i, n)
    PROVE  /\ BlocksPassed(a, i, n + 1)
           /\ Append(BlocksOf(a, i, n), BlockFrame(a, i, n).chunk) = BlocksOf(a, i, n + 1)
<1>1. BlocksPassed(a, i, n + 1)
  <2>1. \A block \in 0 .. (n + 1) - 1 : block \in 0 .. n - 1 \/ block = n OBVIOUS
  <2> QED BY <2>1 DEF BlocksPassed
<1> DEFINE f == [k \in 1 .. n + 1 |-> BlockFrame(a, i, k - 1).chunk]
<1>2. f[n + 1] = BlockFrame(a, i, n).chunk
  <2>1. n + 1 \in 1 .. n + 1 /\ (n + 1) - 1 = n OBVIOUS
  <2> QED BY <2>1
<1>3. BlocksOf(a, i, n) = [k \in 1 .. n |-> f[k]] /\ BlocksOf(a, i, n + 1) = [k \in 1 .. n + 1 |-> f[k]]
  <2>1. \A k \in 1 .. n : k \in 1 .. n + 1 OBVIOUS
  <2> QED BY <2>1 DEF BlocksOf
<1>4. Append([k \in 1 .. n |-> f[k]], f[n + 1]) = [k \in 1 .. n + 1 |-> f[k]]
  <2> HIDE DEF f
  <2> QED BY RunAppended
<1> HIDE DEF f
<1> QED BY <1>1, <1>2, <1>3, <1>4

(* The place in an MSC2 archive.                                             *)
LEMMA InStream ==
    ASSUME Staged, Parsed, Placed, Known, format = "MSC2", pc \in {"prepare"} \cup Begun
    PROVE  /\ archive.format = "MSC2" /\ m = archive.manifest /\ m \in ManifestFields
           /\ archive.sealed /\ ParseManifest(m, archive.frameCount)
           /\ pc = "entry" => ix \in 1 .. Len(m.entries) + 1
           /\ pc = "chunks" => ix \in 1 .. Len(m.entries) /\ m.entries[ix].kind = "file"
<1>1. archive.format = "MSC2" BY DEF Staged, Stage, Begun
<1>2. Established(archive, m) BY DEF Known
<1>3. m \in ManifestFields BY DEF Parsed, Readable, Holding, Begun
<1> QED BY <1>1, <1>2, <1>3 DEF Established, Placed

(* Every step of MSC2 keeps the frames in step with the blocks.              *)
LEMMA BlocksStep ==
    ASSUME Staged, ArchiveOK, Parsed, Placed, Known, BlocksChecked, [Next]_vars
    PROVE  BlocksChecked'
<1> SUFFICES ASSUME format' = "MSC2", pc' \in Begun PROVE BlocksChecked' BY DEF BlocksChecked
<1> DEFINE B(i) == ChunksBefore(m.entries, i)
           N == Len(m.entries)
<1>1. CASE Halts \/ Starting \/ Reads \/ Ends \/ Publishes
  BY <1>1 DEF Halts, Starting, Reads, Ends, Publishes, Begun
<1>2. CASE Still BY <1>2 DEF Still, BlocksChecked
<1>3. CASE Prepares
  <2>1. /\ frameIndex' = 1 /\ ix' = 1 /\ m' = m /\ archive' = archive /\ pc' = "entry"
        /\ m \in ManifestFields /\ ParseManifest(m, archive.frameCount)
    BY <1>3, InStream DEF Prepares
  <2>2. B(1) = 0 BY <2>1, StreamRanges
  <2>3. FilesPassed(archive, 1) BY DEF FilesPassed
  <2>4. frameIndex' - 1 \in 0 .. Len(archive.frames) BY <2>1, FramesListed
  <2>5. ChunksBefore(m'.entries, ix') = 0 BY <2>1, <2>2
  <2> QED BY <2>1, <2>3, <2>4, <2>5 DEF BlocksChecked
<1>4. CASE MakesDir
  <2>1. /\ pc = "entry" /\ pc' = "entry" /\ ix <= N /\ m.entries[ix].kind = "dir" /\ ix' = ix + 1
        /\ UNCHANGED <<archive, format, m, frameIndex>>
    BY <1>4 DEF MakesDir
  <2>2. /\ m \in ManifestFields /\ ParseManifest(m, archive.frameCount) /\ m = archive.manifest
        /\ ix \in 1 .. N + 1
    BY <2>1, InStream DEF Begun
  <2>3. ix \in 1 .. N /\ B(ix + 1) = B(ix) BY <2>1, <2>2, StreamRanges
  <2>4. /\ frameIndex - 1 \in 0 .. Len(archive.frames) /\ FilesPassed(archive, ix)
        /\ frameIndex = 1 + B(ix)
    BY <2>1 DEF BlocksChecked, Begun
  <2>5. FilesPassed(archive, ix + 1)
    <3>1. \A j \in 1 .. (ix + 1) - 1 : j \in 1 .. ix - 1 \/ j = ix BY <2>3
    <3> QED BY <2>1, <2>2, <2>4, <3>1 DEF FilesPassed
  <2> QED BY <2>1, <2>3, <2>4, <2>5 DEF BlocksChecked
<1>5. CASE Opens
  <2>1. /\ pc = "entry" /\ pc' = "chunks" /\ ix <= N /\ m.entries[ix].kind = "file"
        /\ taken' = <<>> /\ format = "MSC2" /\ occurrence' = First
        /\ UNCHANGED <<archive, format, m, ix, frameIndex>>
    BY <1>5 DEF Opens
  <2>2. occurrence' = 0 BY <2>1 DEF First, Tabled
  <2>3. /\ m \in ManifestFields /\ ParseManifest(m, archive.frameCount) /\ m = archive.manifest
        /\ ix \in 1 .. N + 1
    BY <2>1, InStream DEF Begun
  <2>4. ix \in 1 .. N /\ m.entries[ix].first = 1 + B(ix) /\ m.entries[ix].count \in Nat
        /\ B(ix) \in Nat
    BY <2>1, <2>3, StreamRanges
  <2>5. /\ frameIndex - 1 \in 0 .. Len(archive.frames) /\ FilesPassed(archive, ix)
        /\ frameIndex = 1 + B(ix)
    BY <2>1 DEF BlocksChecked, Begun
  <2>6. BlocksPassed(archive, ix, 0) /\ BlocksOf(archive, ix, 0) = <<>>
    BY DEF BlocksPassed, BlocksOf
  <2>7. 0 \in 0 .. m.entries[ix].count /\ frameIndex = m.entries[ix].first + 0 BY <2>4, <2>5
  <2> QED BY <2>1, <2>2, <2>5, <2>6, <2>7 DEF BlocksChecked
<1>6. CASE Writes
  <2> DEFINE e == m.entries[ix]
  <2>1. /\ pc = "chunks" /\ pc' = "chunks" /\ occurrence' = occurrence + 1 /\ format = "MSC2"
        /\ UNCHANGED <<archive, format, m, ix>> /\ WritingOne
    BY <1>6 DEF Writes
  <2>2. MoreBlocks /\ BlockGood /\ frameIndex' = frameIndex + 1
        /\ taken' = Append(taken, archive.frames[frameIndex].chunk)
    BY <2>1 DEF WritingOne, RestoreBlock, Write, Fail
  <2>3. /\ m \in ManifestFields /\ ParseManifest(m, archive.frameCount) /\ m = archive.manifest
        /\ ix \in 1 .. N /\ e.kind = "file"
    BY <2>1, InStream DEF Begun
  <2>4. e.first = 1 + B(ix) /\ e.count \in Nat /\ B(ix) \in Nat
    <3>1. N \in Nat BY <2>3, EntriesListed
    <3>2. ix \in 1 .. N + 1 BY <2>3, <3>1
    <3> QED BY <2>3, <3>2, StreamRanges
  <2>5. /\ frameIndex - 1 \in 0 .. Len(archive.frames) /\ FilesPassed(archive, ix)
        /\ occurrence \in 0 .. e.count /\ frameIndex = e.first + occurrence
        /\ BlocksPassed(archive, ix, occurrence) /\ taken = BlocksOf(archive, ix, occurrence)
    BY <2>1 DEF BlocksChecked, Begun
  <2>6. occurrence < e.count BY <2>2 DEF MoreBlocks
  <2>7. /\ occurrence \in Nat /\ occurrence + 1 \in 0 .. e.count /\ frameIndex \in Nat
        /\ frameIndex' = e.first + (occurrence + 1) /\ frameIndex' - 1 = frameIndex
    <3> HIDE DEF e, B
    <3> QED BY <2>2, <2>4, <2>5, <2>6
  <2>8. frameIndex' - 1 \in 0 .. Len(archive.frames)
    <3>1. frameIndex <= Len(archive.frames) BY <2>2 DEF BlockGood
    <3> QED BY <2>7, <3>1, FramesListed
  <2>9. archive.frames[frameIndex] = BlockFrame(archive, ix, occurrence)
    BY <2>3, <2>5 DEF BlockFrame
  <2>10. /\ BlocksPassed(archive, ix, occurrence + 1)
         /\ taken' = BlocksOf(archive, ix, occurrence + 1)
    BY <2>2, <2>3, <2>5, <2>7, <2>9, BlockRead DEF BlockGood
  <2> HIDE DEF e
  <2> QED BY <2>1, <2>5, <2>7, <2>8, <2>10 DEF BlocksChecked, e
<1>7. CASE Closes
  <2> DEFINE e == m.entries[ix]
  <2>1. /\ pc = "chunks" /\ pc' = "entry" /\ taken = e.digest /\ ix' = ix + 1 /\ format = "MSC2"
        /\ NoMore /\ UNCHANGED <<archive, format, m, frameIndex>>
    BY <1>7 DEF Closes
  <2>2. ~(occurrence < e.count) BY <2>1 DEF NoMore, MoreBlocks
  <2>3. /\ m \in ManifestFields /\ ParseManifest(m, archive.frameCount) /\ m = archive.manifest
        /\ ix \in 1 .. N /\ e.kind = "file"
    BY <2>1, InStream DEF Begun
  <2>4. e.first = 1 + B(ix) /\ e.count \in Nat /\ B(ix) \in Nat /\ B(ix + 1) = B(ix) + e.count
    BY <2>3, StreamRanges
  <2>5. /\ frameIndex - 1 \in 0 .. Len(archive.frames) /\ FilesPassed(archive, ix)
        /\ occurrence \in 0 .. e.count /\ frameIndex = e.first + occurrence
        /\ BlocksPassed(archive, ix, occurrence) /\ taken = BlocksOf(archive, ix, occurrence)
    BY <2>1 DEF BlocksChecked, Begun
  <2>6. occurrence = e.count /\ frameIndex = 1 + B(ix + 1)
    <3> HIDE DEF e, B
    <3> QED BY <2>2, <2>4, <2>5
  <2>7. BlocksPassed(archive, ix, e.count) /\ StreamRestored(archive, ix) = e.digest
    BY <2>1, <2>3, <2>5, <2>6 DEF BlocksOf, StreamRestored
  <2>8. FilesPassed(archive, ix + 1)
    <3>1. \A j \in 1 .. (ix + 1) - 1 : j \in 1 .. ix - 1 \/ j = ix BY <2>3
    <3> QED BY <2>3, <2>5, <2>7, <3>1 DEF FilesPassed
  <2> QED BY <2>1, <2>5, <2>6, <2>8 DEF BlocksChecked
<1> QED BY <1>1, <1>2, <1>3, <1>4, <1>5, <1>6, <1>7, Moves

(* The place in an MSC1 archive.                                             *)
LEMMA InSingle ==
    ASSUME Staged, ArchiveOK, Placed, Known, format = "MSC1", pc \in Begun
    PROVE  /\ archive.format = "MSC1" /\ Established(archive, m) /\ m = archive.manifest
           /\ Len(m.entries) = 1 /\ m.entries[1].kind = "file"
           /\ pc = "entry" => ix \in 1 .. 2
           /\ pc = "chunks" => ix = 1
<1>1. archive.format = "MSC1" BY DEF Staged, Stage, Begun
<1>2. Established(archive, m) BY DEF Known
<1>3. m = archive.manifest BY <1>1, <1>2 DEF Established
<1>4. SingleFile(m) BY <1>1, <1>3 DEF ArchiveOK, Fields
<1> QED BY <1>1, <1>2, <1>3, <1>4 DEF SingleFile, Placed

(* Every step of MSC1 keeps the records in step with the file.               *)
LEMMA RecordsStep ==
    ASSUME Staged, ArchiveOK, Placed, Known, Metered, RecordsChecked, [Next]_vars
    PROVE  RecordsChecked'
<1> SUFFICES ASSUME format' = "MSC1", pc' \in Begun PROVE RecordsChecked'
  BY DEF RecordsChecked, Begun
<1> DEFINE N == Len(archive.frames)
<1>1. CASE Halts \/ Starting \/ Reads \/ Ends \/ Publishes
  BY <1>1 DEF Halts, Starting, Reads, Ends, Publishes, Begun
<1>2. CASE Still BY <1>2 DEF Still, RecordsChecked
<1>3. CASE Prepares BY <1>3 DEF Prepares, RecordsChecked
<1>4. CASE MakesDir \/ Opens \/ Writes \/ Closes
  <2>1. /\ format = "MSC1" /\ pc \in Begun /\ archive' = archive /\ m' = m
    BY <1>4 DEF MakesDir, Opens, Writes, Closes, Begun
  <2>2. /\ Len(m.entries) = 1 /\ m.entries[1].kind = "file"
        /\ pc = "entry" => ix \in 1 .. 2
        /\ pc = "chunks" => ix = 1
    BY <2>1, InSingle
  <2>3. N \in Nat /\ frameIndex \in 1 .. N + 1
    BY <2>1, FramesListed DEF Metered, RecordsMetered
  <2>4. ~MakesDir BY <2>2 DEF MakesDir
  <2>5. CASE Opens
    <3>1. pc' = "chunks" /\ ix' = ix /\ taken' = <<>> /\ frameIndex' = frameIndex /\ ix = 1
      BY <2>2, <2>5 DEF Opens
    <3>2. frameIndex = 1 BY <2>1, <2>5, <3>1 DEF RecordsChecked, Opens
    <3>3. RecordChunks(archive, frameIndex - 1) = <<>> BY <3>2 DEF RecordChunks
    <3> QED BY <2>1, <3>1, <3>3 DEF RecordsChecked
  <2>6. CASE Writes
    <3> DEFINE n == frameIndex - 1
               f == [k \in 1 .. n + 1 |-> archive.frames[k].chunk]
    <3>1. /\ pc = "chunks" /\ pc' = "chunks" /\ ix' = ix /\ frameIndex' = frameIndex + 1
          /\ taken' = Append(taken, archive.frames[frameIndex].chunk)
      BY <2>1, <2>6 DEF Writes, WritingOne, RestoreRecord, Write, Fail
    <3>2. taken = RecordChunks(archive, n) /\ ix = 1 BY <2>1, <3>1 DEF RecordsChecked
    <3>3. n \in Nat /\ n + 1 = frameIndex /\ frameIndex' - 1 = n + 1 BY <2>3, <3>1
    <3> HIDE DEF n
    <3>4. f[n + 1] = archive.frames[frameIndex].chunk BY <3>3
    <3>5. RecordChunks(archive, n) = [k \in 1 .. n |-> f[k]]
          /\ RecordChunks(archive, n + 1) = [k \in 1 .. n + 1 |-> f[k]]
      BY <3>3 DEF RecordChunks
    <3> HIDE DEF f
    <3>6. taken' = RecordChunks(archive, n + 1) BY <3>1, <3>2, <3>3, <3>4, <3>5, RunAppended
    <3> QED BY <2>1, <3>1, <3>2, <3>3, <3>6 DEF RecordsChecked
  <2>7. CASE Closes
    <3>1. /\ pc = "chunks" /\ pc' = "entry" /\ ix' = ix + 1 /\ taken = m.entries[ix].digest
          /\ frameIndex > N
      BY <2>1, <2>7 DEF Closes, NoMore
    <3>2. ix = 1 /\ taken = RecordChunks(archive, frameIndex - 1) BY <2>1, <3>1 DEF RecordsChecked
    <3>3. frameIndex - 1 = N
      <4> HIDE DEF N
      <4> QED BY <2>3, <3>1
    <3>4. RecordChunks(archive, N) = m.entries[1].digest /\ ix' = 2 BY <3>1, <3>2, <3>3
    <3> QED BY <2>1, <3>1, <3>4 DEF RecordsChecked
  <2> QED BY <1>4, <2>4, <2>5, <2>6, <2>7
<1> QED BY <1>1, <1>2, <1>3, <1>4, Moves

(* The frames of each lane start after those of the lanes before it.         *)
LEMMA LaneStarts ==
    ASSUME NEW md, \A l \in Lanes : md.frameCounts[l] \in Nat
    PROVE  /\ \A l \in 0 .. 3 : LaneStart(md, l) \in Nat /\ LaneStart(md, l) <= LaneStart(md, 3)
           /\ LaneStart(md, 0) = 0
           /\ \A l \in Lanes : LaneStart(md, l + 1) = LaneStart(md, l) + md.frameCounts[l]
<1> DEFINE s == [l \in 1 .. 3 |-> md.frameCounts[l - 1]]
           P(n) == Sum(Prefix(s, n))
<1>1. \A i \in 1 .. 3 : s[i] \in Nat /\ s[i] = md.frameCounts[i - 1]
  <2>1. \A i \in 1 .. 3 : i - 1 \in Lanes BY DEF Lanes
  <2> QED BY <2>1
<1>2. Sums(s, 3)
  <2> HIDE DEF s
  <2> QED BY <1>1, SumsUp
<1>3. \A l \in 0 .. 3 : LaneStart(md, l) = P(l)
  <2> SUFFICES ASSUME NEW l \in 0 .. 3 PROVE LaneStart(md, l) = P(l) OBVIOUS
  <2>1. \A i \in 1 .. l : i \in 1 .. 3 OBVIOUS
  <2>2. [i \in 1 .. l |-> md.frameCounts[i - 1]] = Prefix(s, l) BY <2>1 DEF Prefix
  <2> HIDE DEF s
  <2> QED BY <2>2 DEF LaneStart
<1>4. \A l \in Lanes : P(l + 1) = P(l) + md.frameCounts[l]
  <2> SUFFICES ASSUME NEW l \in Lanes PROVE P(l + 1) = P(l) + md.frameCounts[l] OBVIOUS
  <2>1. l + 1 \in 1 .. 3 /\ (l + 1) - 1 = l BY DEF Lanes
  <2>2. s[l + 1] = md.frameCounts[l] BY <1>1, <2>1
  <2> HIDE DEF s
  <2> QED BY <1>2, <2>1, <2>2 DEF Sums
<1>5. \A l \in 0 .. 3 : P(l) \in Nat /\ P(l) <= P(3)
  <2> HIDE DEF s
  <2>1. \A l \in 0 .. 3 : 3 \in l .. 3 OBVIOUS
  <2> QED BY <1>1, <1>2, <2>1, SumGrows DEF Sums
<1>6. \A l \in Lanes : l \in 0 .. 3 /\ l + 1 \in 0 .. 3 BY DEF Lanes
<1>7. P(0) = 0
  <2> HIDE DEF s
  <2> QED BY <1>2 DEF Sums
<1> HIDE DEF P
<1> QED BY <1>3, <1>4, <1>5, <1>6, <1>7

(* The metadata and the frames of an MSR2 archive.                           *)
LEMMA LanesListed ==
    ASSUME ArchiveOK, archive.format = "MSR2"
    PROVE  /\ \A l \in Lanes : archive.metadata.frameCounts[l] \in Nat
           /\ Len(archive.frames) \in Nat
           /\ \A k \in 1 .. Len(archive.frames) : archive.frames[k].payload \in Seq(Token)
<1> DEFINE md == archive.metadata
<1>1. md \in LegacyMetadata \cup CompactForm BY DEF ArchiveOK, Fields
<1>2. md.frameCounts \in [Lanes -> Nat]
  <2> HIDE DEF md
  <2>1. CASE md \in LegacyMetadata BY <2>1 DEF LegacyMetadata
  <2>2. CASE md \in CompactForm BY <2>2 DEF CompactForm
  <2> QED BY <1>1, <2>1, <2>2
<1> HIDE DEF md
<1> QED BY <1>2, FramesRead DEF md

(* What the first n frames of a lane decode to, frame by frame.              *)
LEMMA PartsJoined ==
    ASSUME NEW a, NEW lane, a.metadata.frameCounts[lane] \in Nat, Len(a.frames) \in Nat,
           \A k \in 1 .. Len(a.frames) : a.frames[k].payload \in Seq(Token),
           LaneStart(a.metadata, lane) \in Nat,
           NEW n \in 0 .. a.metadata.frameCounts[lane], LaneStart(a.metadata, lane) + n <= Len(a.frames)
    PROVE  /\ \A k \in 1 .. n : LaneParts(a, lane)[k]
                                   = FrameUnits(LaneFrame(a, lane, k), ReadCodecOf(a.metadata, lane))
           /\ \E U : Token = Seq(U) /\ Concats(LaneParts(a, lane), n, U)
           /\ n = a.metadata.frameCounts[lane] =>
                 LaneRead(a, lane) = Concat(Prefix(LaneParts(a, lane), n))
<1> DEFINE U == (DOMAIN LaneOf \cup {"end"}) \X Nat
           s == LaneParts(a, lane)
           C == a.metadata.frameCounts[lane]
           codec == ReadCodecOf(a.metadata, lane)
<1>1. Token = Seq(U) BY DEF Token
<1>2. \A k \in 1 .. n : s[k] = FrameUnits(LaneFrame(a, lane, k), codec)
  <2>1. \A k \in 1 .. n : k \in 1 .. C OBVIOUS
  <2> QED BY <2>1 DEF LaneParts
<1>3. \A k \in 1 .. n : s[k] \in Seq(U)
  <2> SUFFICES ASSUME NEW k \in 1 .. n PROVE s[k] \in Token BY <1>1
  <2>1. LaneStart(a.metadata, lane) + k \in 1 .. Len(a.frames) OBVIOUS
  <2>2. LaneFrame(a, lane, k).payload \in Seq(Token) BY <2>1 DEF LaneFrame
  <2> HIDE DEF s, codec
  <2> QED BY <1>2, <2>2, FrameUnitsTyped
<1>4. Concats(s, n, U)
  <2> HIDE DEF s, U
  <2> QED BY <1>3, ConcatsUp
<1>5. ASSUME n = C PROVE LaneRead(a, lane) = Concat(Prefix(s, n))
  <2>1. IsRun(s, n) BY <1>5 DEF LaneParts, IsRun
  <2>2. LaneRead(a, lane) = Concat(s) BY DEF LaneRead, LaneParts
  <2> HIDE DEF s
  <2> QED BY <2>1, <2>2, WholePrefix
<1> HIDE DEF U, s
<1> QED BY <1>1, <1>2, <1>4, <1>5 DEF s

(* The lanes are read from an MSR2 archive.                                  *)
LEMMA InLanes ==
    ASSUME Staged, ArchiveOK, Placed, Known, Metered, pc = "lanes"
    PROVE  /\ format = "MSR2" /\ archive.format = "MSR2" /\ archive.sealed
           /\ m = ReadManifestOf(archive.metadata)
           /\ ParseMetadata(archive.metadata, archive.unique)
           /\ ix \in 0 .. 3 /\ (ix = 3 => occurrence = 0)
           /\ spool \in [Lanes -> Token] /\ frameIndex \in Nat \ {0}
<1>1. format = "MSR2" /\ archive.format = "MSR2" BY DEF Staged, Stage
<1>2. Established(archive, m) BY DEF Known
<1> QED BY <1>1, <1>2 DEF Established, Placed, Metered, LanesMetered

(* Every step of MSR2 keeps the spool in step with the frames.               *)
LEMMA SpoolStep ==
    ASSUME Staged, ArchiveOK, Placed, Known, Metered, LanesChecked, [Next]_vars
    PROVE  LanesChecked'
<1> SUFFICES ASSUME pc' = "lanes" PROVE LanesChecked' BY DEF LanesChecked
<1> DEFINE md == archive.metadata
           S(l) == LaneStart(md, l)
           C(l) == md.frameCounts[l]
           N == Len(archive.frames)
<1>1. CASE \/ Halts \/ Starting \/ Prepares \/ MakesDir \/ Opens \/ Writes \/ Closes \/ Ends
           \/ Publishes
  BY <1>1 DEF Halts, Starting, Prepares, MakesDir, Opens, Writes, Closes, Ends, Publishes
<1>2. CASE Still BY <1>2 DEF Still, LanesChecked
<1>3. CASE Reads
  <2>0. archive' = archive /\ format' = format BY <1>3 DEF Reads
  <2>1. CASE format = "MSR2" /\ ReadMetadata
    <3>1. /\ pc = "header" /\ ix' = 0 /\ occurrence' = 0 /\ frameIndex' = 1 /\ spool' = spool
          /\ archive.format = "MSR2"
      BY <1>3, <2>1 DEF Reads, ReadMetadata, MetadataAccepted, Fail, scratch
    <3>2. spool = NoSpool BY <3>1 DEF Staged, Clean, Early
    <3>3. (\A l \in Lanes : C(l) \in Nat) /\ N \in Nat
          /\ \A k \in 1 .. N : archive.frames[k].payload \in Seq(Token)
      BY <3>1, LanesListed
    <3>4. S(0) = 0 BY <3>3, LaneStarts
    <3>5. Concat(Prefix(LaneParts(archive, 0), 0)) = <<>>
      <4> DEFINE s == LaneParts(archive, 0)
      <4>1. Concats(s, 0, {})
        <5> HIDE DEF s
        <5>1. \A i \in 1 .. 0 : s[i] \in Seq({}) OBVIOUS
        <5> QED BY <5>1, ConcatsUp
      <4> QED BY <4>1 DEF Concats
    <3>6. 0 \in Lanes /\ (\A l \in Lanes : ~(l < 0)) BY DEF Lanes
    <3>7. LanePassed(archive, 0, 0) BY DEF LanePassed
    <3>8. frameIndex' = S(0) + 0 + 1 /\ frameIndex' - 1 \in 0 .. N /\ 0 \in 0 .. C(0)
      BY <3>1, <3>3, <3>4, <3>6
    <3>9. \A l \in Lanes : spool'[l] = <<>> BY <3>1, <3>2 DEF NoSpool
    <3> QED BY <2>0, <3>1, <3>5, <3>6, <3>7, <3>8, <3>9 DEF LanesChecked
  <2>2. CASE pc = "lanes"
    <3>1. /\ archive.format = "MSR2" /\ m = ReadManifestOf(md) /\ ix \in 0 .. 3
          /\ spool \in [Lanes -> Token] /\ frameIndex \in Nat \ {0}
      BY <2>2, InLanes
    <3>2. (\A l \in Lanes : C(l) \in Nat) /\ N \in Nat
          /\ \A k \in 1 .. N : archive.frames[k].payload \in Seq(Token)
      BY <3>1, LanesListed
    <3>3. /\ \A l \in 0 .. 3 : S(l) \in Nat
          /\ \A l \in Lanes : S(l + 1) = S(l) + C(l)
      BY <3>2, LaneStarts
    <3>4. /\ frameIndex = S(ix) + occurrence + 1 /\ frameIndex - 1 \in 0 .. N
          /\ \A l \in Lanes : l < ix => spool[l] = LaneRead(archive, l) /\ LaneWhole(archive, l)
          /\ \A l \in Lanes : l > ix => spool[l] = <<>>
          /\ ix \in Lanes => /\ occurrence \in 0 .. C(ix) /\ LanePassed(archive, ix, occurrence)
                             /\ spool[ix] = Concat(Prefix(LaneParts(archive, ix), occurrence))
      BY <2>2 DEF LanesChecked
    <3>5. CASE ReadLaneFrame
      <4> DEFINE f == archive.frames[frameIndex]
                 codec == ReadCodecOf(md, ix)
                 parts == LaneParts(archive, ix)
      <4>1. /\ ix \in Lanes /\ InLane /\ LaneFrameGood /\ ix' = ix /\ frameIndex' = frameIndex + 1
            /\ occurrence' = occurrence + 1
            /\ spool' = [spool EXCEPT ![ix] = @ \o FrameUnits(f, codec)]
        BY <1>3, <3>5 DEF Reads, ReadLaneFrame, Fail
      <4>2. occurrence \in 0 .. C(ix) /\ occurrence < C(ix) /\ C(ix) \in Nat /\ S(ix) \in Nat
        <5>1. C(ix) \in Nat BY <3>2, <4>1
        <5>2. S(ix) \in Nat BY <3>1, <3>3
        <5>3. occurrence \in 0 .. C(ix) BY <3>4, <4>1
        <5>4. occurrence < C(ix) BY <4>1 DEF InLane
        <5> QED BY <5>1, <5>2, <5>3, <5>4
      <4>3. /\ occurrence \in Nat /\ occurrence + 1 \in 0 .. C(ix) /\ frameIndex \in 1 .. N
            /\ frameIndex = S(ix) + (occurrence + 1)
            /\ frameIndex' = S(ix) + (occurrence + 1) + 1 /\ frameIndex' - 1 \in 0 .. N
        <5> DEFINE start == S(ix)
                   count == C(ix)
        <5>1. frameIndex <= N BY <4>1 DEF LaneFrameGood
        <5>2. /\ N \in Nat /\ frameIndex \in Nat \ {0} /\ frameIndex = start + occurrence + 1
              /\ frameIndex' = frameIndex + 1
          BY <3>1, <3>2, <3>4, <4>1
        <5>3. occurrence \in 0 .. count /\ occurrence < count /\ count \in Nat /\ start \in Nat
          BY <4>2
        <5> HIDE DEF start, count, N
        <5>4. /\ occurrence \in Nat /\ occurrence + 1 \in 0 .. count /\ frameIndex \in 1 .. N
              /\ frameIndex = start + (occurrence + 1)
          BY <5>1, <5>2, <5>3
        <5>5. frameIndex' = start + (occurrence + 1) + 1 /\ frameIndex' - 1 \in 0 .. N
          BY <5>2, <5>4
        <5> QED BY <5>4, <5>5 DEF start, count
      <4>4. f = LaneFrame(archive, ix, occurrence + 1) BY <4>3 DEF LaneFrame
      <4>5. Final = (occurrence + 1 = C(ix))
        <5>1. Final = (occurrence = C(ix) - 1) BY DEF Final
        <5>2. (occurrence = C(ix) - 1) = (occurrence + 1 = C(ix))
          <6> HIDE DEF C
          <6> QED BY <4>2, <4>3
        <5> QED BY <5>1, <5>2
      <4>6. LanePassed(archive, ix, occurrence + 1)
        <5>1. \A k \in 1 .. occurrence + 1 : k \in 1 .. occurrence \/ k = occurrence + 1 BY <4>3
        <5>2. LanePassed(archive, ix, occurrence) BY <3>4, <4>1
        <5>3. /\ f.sealed /\ f.index = S(ix) + (occurrence + 1)
              /\ f.lane = ix /\ f.final = Final /\ PayloadSizeGood(f, Final)
              /\ StreamEnds(f, codec, Final)
          BY <4>1, <4>3 DEF LaneFrameGood, HeaderGood
        <5> HIDE DEF f, codec
        <5> QED BY <4>4, <4>5, <5>1, <5>2, <5>3 DEF LanePassed, codec
      <4>7. /\ parts[occurrence + 1] = FrameUnits(f, codec)
            /\ Concat(Prefix(parts, occurrence + 1))
                  = Concat(Prefix(parts, occurrence)) \o parts[occurrence + 1]
        <5>1. S(ix) + (occurrence + 1) <= N BY <4>3
        <5>2. occurrence + 1 \in 1 .. occurrence + 1 /\ (occurrence + 1) - 1 = occurrence BY <4>3
        <5>3. /\ \A k \in 1 .. occurrence + 1 :
                     parts[k] = FrameUnits(LaneFrame(archive, ix, k), codec)
              /\ \E U : Token = Seq(U) /\ Concats(parts, occurrence + 1, U)
          BY <3>2, <4>1, <4>2, <4>3, <5>1, PartsJoined
        <5> HIDE DEF parts, f
        <5> QED BY <4>4, <5>2, <5>3 DEF Concats
      <4>8. /\ spool'[ix] = Concat(Prefix(parts, occurrence + 1))
            /\ \A l \in Lanes : l # ix => spool'[l] = spool[l]
        <5> HIDE DEF parts, f
        <5> QED BY <3>1, <3>4, <4>1, <4>7 DEF parts
      <4> HIDE DEF parts, f
      <4>9. \A l \in Lanes : (l < ix \/ l > ix) => l # ix BY <4>1 DEF Lanes
      <4> QED BY <2>0, <3>4, <4>1, <4>3, <4>6, <4>8, <4>9 DEF LanesChecked, parts
    <3>6. CASE LaneDone
      <4>1. /\ ix \in Lanes /\ ~InLane /\ ix' = ix + 1 /\ occurrence' = 0 /\ spool' = spool
            /\ frameIndex' = frameIndex /\ Len(spool[ix]) = ExpectedSize(ix)
        BY <1>3, <3>6 DEF Reads, LaneDone, Fail, scratch
      <4>2. occurrence \in 0 .. C(ix) /\ ~(occurrence < C(ix)) /\ C(ix) \in Nat /\ S(ix) \in Nat
        <5>1. C(ix) \in Nat BY <3>2, <4>1
        <5>2. S(ix) \in Nat BY <3>1, <3>3
        <5>3. occurrence \in 0 .. C(ix) BY <3>4, <4>1
        <5>4. ~(occurrence < C(ix)) BY <4>1 DEF InLane
        <5> QED BY <5>1, <5>2, <5>3, <5>4
      <4>3. occurrence = C(ix)
        <5> HIDE DEF C
        <5> QED BY <4>2
      <4>4. frameIndex = S(ix + 1) + 1 /\ S(ix) + C(ix) <= N /\ S(ix + 1) \in Nat
        <5>1. S(ix + 1) = S(ix) + C(ix) BY <3>3, <4>1
        <5> HIDE DEF S, C, N
        <5> QED BY <3>2, <3>4, <4>2, <4>3, <5>1
      <4>5. spool[ix] = LaneRead(archive, ix)
        <5>1. C(ix) \in 0 .. C(ix) BY <4>2
        <5>2. LaneRead(archive, ix) = Concat(Prefix(LaneParts(archive, ix), C(ix)))
          BY <3>2, <4>1, <4>2, <4>4, <5>1, PartsJoined
        <5> QED BY <3>4, <4>1, <4>3, <5>2
      <4>6. LaneWhole(archive, ix)
        <5>1. LanePassed(archive, ix, C(ix)) BY <3>4, <4>1, <4>3
        <5> QED BY <3>1, <4>1, <4>5, <5>1 DEF LaneWhole, ExpectedSize, Assigned
      <4>7. /\ \A l \in Lanes : l < ix + 1 => l < ix \/ l = ix
            /\ \A l \in Lanes : l > ix + 1 => l > ix
            /\ ix + 1 > ix
        BY <4>1 DEF Lanes
      <4>8. ASSUME ix + 1 \in Lanes
            PROVE  /\ 0 \in 0 .. C(ix + 1) /\ LanePassed(archive, ix + 1, 0)
                   /\ spool[ix + 1] = Concat(Prefix(LaneParts(archive, ix + 1), 0))
        <5> DEFINE s == LaneParts(archive, ix + 1)
        <5>1. Concats(s, 0, {})
          <6> HIDE DEF s
          <6>1. \A i \in 1 .. 0 : s[i] \in Seq({}) OBVIOUS
          <6> QED BY <6>1, ConcatsUp
        <5>2. spool[ix + 1] = <<>> BY <3>4, <4>7, <4>8
        <5>3. C(ix + 1) \in Nat BY <3>2, <4>8
        <5>4. LanePassed(archive, ix + 1, 0) BY DEF LanePassed
        <5> QED BY <5>1, <5>2, <5>3, <5>4 DEF Concats
      <4>9. frameIndex' = S(ix + 1) + 0 + 1 /\ frameIndex' - 1 \in 0 .. N BY <3>4, <4>1, <4>4
      <4> QED BY <2>0, <3>4, <4>1, <4>5, <4>6, <4>7, <4>8, <4>9 DEF LanesChecked
    <3>7. ~CopyCanonical BY <1>3 DEF CopyCanonical, Fail
    <3> QED BY <1>3, <2>2, <3>5, <3>6, <3>7
            DEF Reads, Reading, ReadManifest, StreamReadManifest, ReadInner, ReadSolid, ReadMetadata
  <2> QED BY <1>3, <2>1, <2>2
          DEF Reads, Reading, ReadManifest, StreamReadManifest, ReadInner, ReadSolid, ReadLaneFrame,
              LaneDone, CopyCanonical, ManifestAccepted, Fail
<1> QED BY <1>1, <1>2, <1>3, Moves

(* When the lanes are copied, all of them were read and nothing follows.     *)
LEMMA HeldStep ==
    ASSUME Staged, ArchiveOK, Placed, Known, Metered, LanesChecked, LanesHeld, [Next]_vars
    PROVE  LanesHeld'
<1> SUFFICES ASSUME format' = "MSR2", pc' \in {"prepare"} \cup Begun PROVE LanesRead(archive')
  BY DEF LanesHeld
<1>1. CASE Halts \/ Starting \/ Ends \/ Publishes
  BY <1>1 DEF Halts, Starting, Ends, Publishes, Begun
<1>2. CASE Still \/ Prepares \/ MakesDir \/ Opens \/ Writes \/ Closes
  BY <1>2 DEF Still, Prepares, MakesDir, Opens, Writes, Closes, LanesHeld, Begun
<1>3. CASE Reads
  <2>0. archive' = archive /\ format = "MSR2" /\ pc' # "lanes" BY <1>3 DEF Reads, Begun
  <2>1. /\ pc = "lanes" /\ ix \notin Lanes /\ NothingFollows /\ LaneChunksGood
    BY <1>3, <2>0 DEF Reads, Reading, ReadMetadata, ReadLaneFrame, LaneDone, CopyCanonical, Fail
  <2>2. /\ archive.format = "MSR2" /\ m = ReadManifestOf(archive.metadata)
        /\ ix = 3 /\ occurrence = 0 /\ spool \in [Lanes -> Token]
    BY <2>1, InLanes DEF Lanes
  <2>3. /\ frameIndex = LaneStart(archive.metadata, 3) + 0 + 1
        /\ frameIndex - 1 \in 0 .. Len(archive.frames)
        /\ \A l \in Lanes : spool[l] = LaneRead(archive, l) /\ LaneWhole(archive, l)
    <3>1. \A l \in Lanes : l < 3 BY DEF Lanes
    <3> QED BY <2>1, <2>2, <3>1 DEF LanesChecked
  <2>4. Len(archive.frames) = LaneStart(archive.metadata, 3)
    <3>1. LaneStart(archive.metadata, 3) \in Nat BY <2>2, LanesListed, LaneStarts
    <3>2. Len(archive.frames) \in Nat /\ Len(archive.frames) < frameIndex
      BY <2>1, FramesListed DEF NothingFollows
    <3> QED BY <2>3, <3>1, <3>2
  <2>5. spool = [l \in Lanes |-> LaneRead(archive, l)] BY <2>2, <2>3
  <2>6. LanesRead(archive)
    BY <2>1, <2>2, <2>3, <2>4, <2>5
    DEF LanesRead, NothingFollows, LaneChunksGood, ChunksRestored, Assigned
  <2> QED BY <2>0, <2>6
<1> QED BY <1>1, <1>2, <1>3, Moves

-----------------------------------------------------------------------------
(* Read to its end, an archive is intact.                                    *)

(* An MSC1 archive read to its end is whole.                                 *)
LEMMA SingleEnds ==
    ASSUME Staged, ArchiveOK, Placed, Known, RecordsChecked, Ends, format = "MSC1"
    PROVE  Unaltered(archive)
<1>1. /\ archive.format = "MSC1" /\ Established(archive, m) /\ m = archive.manifest
      /\ Len(m.entries) = 1 /\ ix \in 1 .. 2
  BY InSingle DEF Ends, Begun
<1>2. ix = 2 /\ pc = "entry" BY <1>1 DEF Ends
<1>3. RecordChunks(archive, Len(archive.frames)) = m.entries[1].digest
  BY <1>2 DEF RecordsChecked
<1>4. DOMAIN archive.frames = 1 .. Len(archive.frames) BY FramesListed
<1>5. archive.sealed /\ ~archive.trailing /\ ParseInner(archive) BY <1>1 DEF Established
<1>6. SingleWhole(archive) BY <1>1, <1>3, <1>4, <1>5 DEF SingleWhole, RecordChunks
<1> QED BY <1>1, <1>5, <1>6 DEF Unaltered

(* A chunk is stored in the frame of the occurrence that its record names.   *)
LEMMA StoredHeld ==
    ASSUME NEW a, a.manifest \in ManifestFields, ReferencesDirect(a.manifest),
           NEW n, DOMAIN a.frames = 1 .. n,
           UniquesPassed(a, a.manifest, n, Len(a.manifest.chunks)),
           NEW at \in Nat, at < Len(a.manifest.chunks)
    PROVE  Stored(a, at) = a.manifest.chunks[at + 1].digest
<1> DEFINE cs == a.manifest.chunks
           source == cs[at + 1].source
           held == {k \in DOMAIN a.frames : a.frames[k].occurrence = source}
<1>1. /\ Len(cs) \in Nat /\ DOMAIN cs = 1 .. Len(cs)
      /\ \A i \in 1 .. Len(cs) : cs[i] \in TableRecord
  BY EntriesListed
<1>2. at + 1 \in 1 .. Len(cs) /\ (at + 1) - 1 = at BY <1>1
<1>3. cs[at + 1] \in TableRecord BY <1>1, <1>2
<1>4. source \in Nat BY <1>3 DEF TableRecord
<1>5. /\ source <= at /\ cs[source + 1].source = source
      /\ cs[source + 1].digest = cs[at + 1].digest
  <2>1. CASE source = at BY <1>2, <1>4, <2>1
  <2>2. CASE source # at
    <3>1. source < at /\ cs[source + 1].source = source /\ cs[source + 1].digest = cs[at + 1].digest
      BY <1>1, <1>2, <2>2 DEF ReferencesDirect
    <3> QED BY <1>4, <3>1
  <2> QED BY <2>1, <2>2
<1>6. source + 1 \in 1 .. Len(cs) /\ (source + 1) - 1 = source
  <2> HIDE DEF cs
  <2> QED BY <1>1, <1>2, <1>4, <1>5
<1>7. source + 1 \in Unique(cs) BY <1>1, <1>5, <1>6 DEF Unique
<1>8. \E k \in 1 .. n : a.frames[k].occurrence = (source + 1) - 1
  <2>1. source + 1 <= Len(cs) BY <1>6
  <2> QED BY <1>7, <2>1 DEF UniquesPassed
<1>9. held # {} BY <1>6, <1>8
<1> DEFINE chosen == CHOOSE k \in held : TRUE
<1>10. chosen \in held
  <2> HIDE DEF held
  <2> QED BY <1>9
<1>11. Stored(a, at) = a.frames[chosen].chunk BY <1>9 DEF Stored
<1>12. a.frames[chosen].chunk = cs[source + 1].digest
  <2>1. chosen \in 1 .. n /\ a.frames[chosen].occurrence = source BY <1>10
  <2>2. a.frames[chosen].chunk = cs[a.frames[chosen].occurrence + 1].digest
    BY <2>1 DEF UniquesPassed
  <2> QED BY <2>1, <2>2
<1> QED BY <1>5, <1>11, <1>12

(* A file restored from the frames consists of the chunks of its range.      *)
LEMMA RestoredHeld ==
    ASSUME NEW a, a.manifest \in ManifestFields, ReferencesDirect(a.manifest),
           RangesCover(a.manifest), NEW n, DOMAIN a.frames = 1 .. n,
           UniquesPassed(a, a.manifest, n, Len(a.manifest.chunks)),
           NEW i \in 1 .. Len(a.manifest.entries), a.manifest.entries[i].kind = "file"
    PROVE  LET e == a.manifest.entries[i] IN Restored(a, e) = ChunkDigests(a.manifest, e, e.count)
<1> DEFINE e == a.manifest.entries[i]
           L == Len(a.manifest.chunks)
<1>1. e \in EntryRecord /\ L \in Nat BY EntriesListed
<1>2. e.first \in Nat /\ e.count \in Nat BY <1>1 DEF EntryRecord
<1>3. RangesOf(a.manifest) BY RangesRead
<1>4. e.first + e.count <= L
  <2>1. /\ e.first + e.count = ChunksBefore(a.manifest.entries, i + 1)
        /\ ChunksBefore(a.manifest.entries, i + 1) \in ChunksBefore(a.manifest.entries, i) .. L
    BY <1>3 DEF RangesOf
  <2> QED BY <2>1
<1>5. ASSUME NEW k \in 1 .. e.count
      PROVE  Stored(a, e.first + k - 1) = a.manifest.chunks[e.first + k].digest
  <2> DEFINE at == e.first + k - 1
  <2>1. at \in Nat /\ at < L /\ at + 1 = e.first + k
    <3> HIDE DEF e, L
    <3> QED BY <1>1, <1>2, <1>4
  <2>2. Stored(a, at) = a.manifest.chunks[at + 1].digest
    <3> HIDE DEF at
    <3> QED BY <2>1, StoredHeld
  <2> QED BY <2>1, <2>2
<1> QED BY <1>5 DEF Restored, ChunkDigests

(* An MSC6 archive read to its end is whole.                                 *)
LEMMA DedupEnds ==
    ASSUME Staged, ArchiveOK, Parsed, Placed, Counted, Metered, Known, TableChecked, UniquesChecked,
           Ends, format = "MSC6"
    PROVE  Unaltered(archive)
<1> DEFINE N == Len(archive.frames)
           L == Len(m.chunks)
<1>1. pc = "entry" /\ ix > Len(m.entries) /\ Terminated BY DEF Ends
<1>2. archive.format = "MSC6" /\ Established(archive, m)
  BY <1>1 DEF Staged, Stage, Known, Begun
<1>3. archive.sealed /\ m = archive.manifest /\ ParseDedupManifest(m, archive.frameCount)
  BY <1>2 DEF Established
<1>4. m \in ManifestFields BY <1>1 DEF Parsed, Readable, Holding
<1>5. ReferencesDirect(m) /\ RangesCover(m) BY <1>3 DEF ParseDedupManifest
<1>6. /\ Len(m.entries) \in Nat /\ DOMAIN m.entries = 1 .. Len(m.entries)
      /\ L \in Nat /\ DOMAIN m.chunks = 1 .. L
      /\ \A i \in 1 .. Len(m.entries) : m.entries[i] \in EntryRecord
  BY <1>4, EntriesListed
<1>7. ix = Len(m.entries) + 1 BY <1>1, <1>6 DEF Placed
<1>8. occurrence = L BY <1>1, <1>5, <1>7 DEF Counted, Tabled, RangesCover
<1>9. N \in Nat /\ DOMAIN archive.frames = 1 .. N BY FramesListed
<1>10. UniquesPassed(archive, m, frameIndex - 1, L)
  BY <1>1, <1>8 DEF UniquesChecked, Begun
<1>11. frameIndex - 1 = N /\ N + 1 = archive.frameCount /\ ~archive.trailing
  <2>1. frameIndex - 1 \in 0 .. N BY <1>10 DEF UniquesPassed
  <2>2. frameIndex = archive.frameCount /\ N < frameIndex /\ ~archive.trailing
    BY <1>1 DEF Terminated
  <2>3. frameIndex \in Nat BY <1>1 DEF Metered, Begun
  <2> QED BY <1>9, <2>1, <2>2, <2>3
<1>12. UniquesPassed(archive, m, N, L) BY <1>10, <1>11
<1>13. AllSealed(archive) BY <1>9, <1>12 DEF UniquesPassed, AllSealed
<1>14. \A i \in Unique(m.chunks) :
          \E k \in DOMAIN archive.frames : /\ archive.frames[k].occurrence = i - 1
                                           /\ archive.frames[k].chunk = m.chunks[i].digest
  <2> SUFFICES ASSUME NEW i \in Unique(m.chunks)
               PROVE  \E k \in 1 .. N : /\ archive.frames[k].occurrence = i - 1
                                        /\ archive.frames[k].chunk = m.chunks[i].digest
    BY <1>9
  <2>1. i \in 1 .. L BY <1>6 DEF Unique
  <2>2. i <= L /\ (i - 1) + 1 = i BY <1>6, <2>1
  <2>3. PICK k \in 1 .. N : archive.frames[k].occurrence = i - 1 BY <1>12, <2>2 DEF UniquesPassed
  <2>4. archive.frames[k].chunk = m.chunks[archive.frames[k].occurrence + 1].digest
    BY <1>12 DEF UniquesPassed
  <2> QED BY <2>2, <2>3, <2>4
<1>15. \A j, k \in DOMAIN archive.frames :
          j < k => archive.frames[j].occurrence < archive.frames[k].occurrence
  BY <1>9, <1>12 DEF UniquesPassed
<1>16. ASSUME NEW i \in DOMAIN m.entries, m.entries[i].kind = "file"
       PROVE  Restored(archive, m.entries[i]) = m.entries[i].digest
  <2>1. i \in 1 .. Len(m.entries) /\ i \in 1 .. (Len(m.entries) + 1) - 1 BY <1>6
  <2>2. Restored(archive, m.entries[i]) = ChunkDigests(m, m.entries[i], m.entries[i].count)
    BY <1>3, <1>4, <1>5, <1>9, <1>12, <1>16, <2>1, RestoredHeld
  <2>3. DigestsBefore(m, Len(m.entries) + 1) BY <1>1, <1>7 DEF TableChecked, Tabled, Begun
  <2> QED BY <1>16, <2>1, <2>2, <2>3 DEF DigestsBefore
<1>17. Whole(archive) BY <1>3, <1>11, <1>14, <1>15, <1>16 DEF Whole
<1>18. \A k \in DOMAIN archive.frames :
          archive.frames[k].size = m.chunks[archive.frames[k].occurrence + 1].size
  BY <1>9, <1>12 DEF UniquesPassed
<1> QED BY <1>2, <1>3, <1>11, <1>13, <1>17, <1>18 DEF Unaltered

(* Every frame of an MSC2 archive is a block of one of its files.            *)
LEMMA FramesAreBlocks ==
    ASSUME NEW man \in ManifestFields, NEW fc, ParseManifest(man, fc), NEW k \in Nat \ {0}, k + 1 <= fc
    PROVE  \E i \in 1 .. Len(man.entries) :
              /\ man.entries[i].kind = "file"
              /\ \E block \in 0 .. man.entries[i].count - 1 : k = man.entries[i].first + block
<1> DEFINE N == Len(man.entries)
           es == man.entries
           B(i) == ChunksBefore(es, i)
           In(i, k0) == /\ es[i].kind = "file"
                        /\ \E block \in 0 .. es[i].count - 1 : k0 = es[i].first + block
           S == {n \in 0 .. N : \A k0 \in 1 .. B(n + 1) : \E i \in 1 .. N : In(i, k0)}
<1>1. /\ N \in Nat /\ B(1) = 0 /\ fc = 1 + B(N + 1) /\ \A i \in 1 .. N + 1 : B(i) \in Nat
      /\ \A i \in 1 .. N :
            /\ es[i].kind # "file" => B(i + 1) = B(i)
            /\ es[i].kind = "file" => /\ es[i].count \in Nat /\ es[i].first = 1 + B(i)
                                      /\ B(i + 1) = B(i) + es[i].count
  BY StreamRanges
<1>2. 0 \in S
  <2>1. 0 + 1 = 1 /\ B(1) = 0 BY <1>1
  <2> HIDE DEF B, In
  <2>2. \A k0 \in 1 .. B(0 + 1) : FALSE BY <2>1
  <2> QED BY <1>1, <2>2
<1>3. ASSUME NEW n \in 0 .. N - 1, n \in S PROVE n + 1 \in S
  <2>1. n + 1 \in 1 .. N /\ n + 1 \in 0 .. N /\ n + 1 \in 1 .. N + 1 /\ n + 2 = (n + 1) + 1
        /\ n + 2 \in 1 .. N + 1
    BY <1>1
  <2> SUFFICES ASSUME NEW k0 \in 1 .. B((n + 1) + 1) PROVE \E i \in 1 .. N : In(i, k0)
    BY <2>1
  <2>2. B(n + 1) \in Nat /\ B((n + 1) + 1) \in Nat BY <1>1, <2>1
  <2>3. CASE k0 \in 1 .. B(n + 1) BY <1>3, <2>3
  <2>4. CASE k0 \notin 1 .. B(n + 1)
    <3>1. es[n + 1].kind = "file" BY <1>1, <2>1, <2>4
    <3>2. /\ es[n + 1].count \in Nat /\ es[n + 1].first = 1 + B(n + 1)
          /\ B((n + 1) + 1) = B(n + 1) + es[n + 1].count
      BY <1>1, <2>1, <3>1
    <3> DEFINE block == k0 - es[n + 1].first
    <3>3. block \in 0 .. es[n + 1].count - 1 /\ k0 = es[n + 1].first + block
      <4> DEFINE first == es[n + 1].first
                 count == es[n + 1].count
                 low == B(n + 1)
                 high == B((n + 1) + 1)
      <4>1. /\ k0 \in 1 .. high /\ k0 \notin 1 .. low /\ low \in Nat /\ high \in Nat
            /\ count \in Nat /\ first = 1 + low /\ high = low + count
        BY <2>2, <2>4, <3>2
      <4> HIDE DEF first, count, low, high
      <4>2. k0 - first \in 0 .. count - 1 /\ k0 = first + (k0 - first) BY <4>1
      <4> QED BY <4>2 DEF first, count
    <3> HIDE DEF block
    <3>4. In(n + 1, k0) BY <3>1, <3>3
    <3> HIDE DEF In
    <3> QED BY <2>1, <3>4
  <2> QED BY <2>3, <2>4
<1>4. N \in S
  <2> HIDE DEF S, N
  <2>1. 0 .. N \subseteq S BY <1>1, <1>2, <1>3, UpFromZero
  <2> QED BY <1>1, <2>1
<1>5. k \in 1 .. B(N + 1)
  <2>1. N + 1 \in 1 .. N + 1 BY <1>1
  <2>2. B(N + 1) \in Nat BY <1>1, <2>1
  <2> HIDE DEF B
  <2> QED BY <1>1, <2>2
<1> HIDE DEF B, In
<1>6. \E i \in 1 .. N : In(i, k) BY <1>4, <1>5
<1> QED BY <1>6 DEF In

(* An MSC2 archive read to its end is whole.                                 *)
LEMMA StreamEndsWhole ==
    ASSUME Staged, ArchiveOK, Parsed, Placed, Metered, Known, BlocksChecked, Ends, format = "MSC2"
    PROVE  Unaltered(archive)
<1> DEFINE N == Len(archive.frames)
           fs == archive.frames
<1>1. pc = "entry" /\ ix > Len(m.entries) /\ StreamTerminated BY DEF Ends
<1>2. /\ archive.format = "MSC2" /\ m = archive.manifest /\ m \in ManifestFields
      /\ archive.sealed /\ ParseManifest(m, archive.frameCount)
      /\ ix \in 1 .. Len(m.entries) + 1
  BY <1>1, InStream DEF Begun
<1>3. Len(m.entries) \in Nat /\ DOMAIN m.entries = 1 .. Len(m.entries) BY <1>2, EntriesListed
<1>4. ix = Len(m.entries) + 1 BY <1>1, <1>2, <1>3
<1>5. N \in Nat /\ DOMAIN fs = 1 .. N BY FramesListed
<1>6. frameIndex - 1 \in 0 .. N /\ FilesPassed(archive, Len(m.entries) + 1)
  BY <1>1, <1>4 DEF BlocksChecked, Begun
<1>7. N + 1 = archive.frameCount /\ ~archive.trailing
  <2>1. frameIndex = archive.frameCount /\ N < frameIndex /\ ~archive.trailing
    BY <1>1 DEF StreamTerminated
  <2>2. frameIndex \in Nat BY <1>1 DEF Metered, Begun
  <2> QED BY <1>5, <1>6, <2>1, <2>2
<1>8. ASSUME NEW i \in 1 .. Len(m.entries), m.entries[i].kind = "file"
      PROVE  /\ BlocksPassed(archive, i, m.entries[i].count)
             /\ StreamRestored(archive, i) = m.entries[i].digest
  <2>1. i \in 1 .. (Len(m.entries) + 1) - 1 BY <1>3
  <2> QED BY <1>2, <1>6, <1>8, <2>1 DEF FilesPassed
<1>9. StreamWhole(archive)
  <2>1. \A i \in DOMAIN m.entries :
          m.entries[i].kind = "file" =>
              /\ \A block \in 0 .. m.entries[i].count - 1 :
                    /\ BlockFrame(archive, i, block).entry = i - 1
                    /\ BlockFrame(archive, i, block).size = BlockSize(m, i, block)
              /\ StreamRestored(archive, i) = m.entries[i].digest
    BY <1>2, <1>3, <1>8 DEF BlocksPassed
  <2> QED BY <1>2, <1>7, <2>1 DEF StreamWhole
<1>10. ASSUME NEW k \in 1 .. N PROVE fs[k].sealed /\ fs[k].index = k
  <2>1. k \in Nat \ {0} /\ k + 1 <= archive.frameCount BY <1>5, <1>7
  <2>2. PICK i \in 1 .. Len(m.entries) :
            /\ m.entries[i].kind = "file"
            /\ \E block \in 0 .. m.entries[i].count - 1 : k = m.entries[i].first + block
    BY <1>2, <2>1, FramesAreBlocks
  <2>3. PICK block \in 0 .. m.entries[i].count - 1 : k = m.entries[i].first + block BY <2>2
  <2>4. BlocksPassed(archive, i, m.entries[i].count) BY <1>8, <2>2
  <2>5. fs[k] = BlockFrame(archive, i, block) BY <1>2, <2>3 DEF BlockFrame
  <2> HIDE DEF fs
  <2> QED BY <1>2, <2>3, <2>4, <2>5 DEF BlocksPassed
<1>11. AllSealed(archive) BY <1>5, <1>10 DEF AllSealed
<1> QED BY <1>2, <1>7, <1>9, <1>11 DEF Unaltered

(* The digests of all the files are those of the table.                      *)
LEMMA DigestsEnd ==
    ASSUME Parsed, Placed, TableChecked, format \in Tabled, Ends PROVE DigestsMatch(m)
<1>1. pc = "entry" /\ ix > Len(m.entries) BY DEF Ends
<1>2. m \in ManifestFields BY <1>1 DEF Parsed, Readable, Holding
<1>3. Len(m.entries) \in Nat /\ DOMAIN m.entries = 1 .. Len(m.entries) BY <1>2, EntriesListed
<1>4. ix = Len(m.entries) + 1 BY <1>1, <1>3 DEF Placed
<1>5. DigestsBefore(m, Len(m.entries) + 1) BY <1>1, <1>4 DEF TableChecked, Begun
<1>6. (Len(m.entries) + 1) - 1 = Len(m.entries) BY <1>3
<1> QED BY <1>3, <1>5, <1>6 DEF DigestsBefore, DigestsMatch, ChunkDigests

(* An MSR1 archive read to its end is whole.                                 *)
LEMMA SolidEnds ==
    ASSUME Staged, Parsed, Placed, Known, TableChecked, Ends, format = "MSR1" PROVE Unaltered(archive)
<1>1. archive.format = "MSR1" /\ Established(archive, m)
  BY DEF Ends, Staged, Stage, Known, Begun
<1>2. DigestsMatch(m) BY DigestsEnd DEF Tabled
<1>3. archive.sealed /\ ~archive.trailing /\ m = archive.manifest /\ SolidRead(archive)
  BY <1>1 DEF Established
<1>4. SolidWhole(archive) BY <1>2, <1>3 DEF SolidRead, SolidWhole
<1> QED BY <1>1, <1>3, <1>4 DEF Unaltered

(* Every frame of an MSR2 archive is in a lane.                              *)
LEMMA FramesAreLanes ==
    ASSUME NEW md, \A l \in Lanes : md.frameCounts[l] \in Nat, NEW k \in 1 .. LaneStart(md, 3)
    PROVE  \E l \in Lanes : \E j \in 1 .. md.frameCounts[l] : k = LaneStart(md, l) + j
<1> DEFINE S(l) == LaneStart(md, l)
           C(l) == md.frameCounts[l]
<1>1. /\ S(0) = 0 /\ S(0 + 1) = S(0) + C(0) /\ S(1 + 1) = S(1) + C(1) /\ S(2 + 1) = S(2) + C(2)
      /\ C(0) \in Nat /\ C(1) \in Nat /\ C(2) \in Nat
  BY LaneStarts DEF Lanes
<1>2. S(1) = C(0) /\ S(2) = C(0) + C(1) /\ S(3) = C(0) + C(1) + C(2) BY <1>1
<1>3. CASE k <= C(0)
  <2>1. k \in 1 .. C(0) /\ k = S(0) + k /\ 0 \in Lanes BY <1>1, <1>2, <1>3 DEF Lanes
  <2> QED BY <2>1
<1>4. CASE C(0) < k /\ k <= C(0) + C(1)
  <2>1. k - C(0) \in 1 .. C(1) /\ k = S(1) + (k - C(0)) /\ 1 \in Lanes
    BY <1>1, <1>2, <1>4 DEF Lanes
  <2> QED BY <2>1
<1>5. CASE C(0) + C(1) < k
  <2>1. k - (C(0) + C(1)) \in 1 .. C(2) /\ k = S(2) + (k - (C(0) + C(1))) /\ 2 \in Lanes
    BY <1>1, <1>2, <1>5 DEF Lanes
  <2> QED BY <2>1
<1> QED BY <1>1, <1>2, <1>3, <1>4, <1>5

(* An MSR2 archive read to its end is whole.                                 *)
LEMMA LanesEnd ==
    ASSUME Staged, ArchiveOK, Parsed, Placed, Known, TableChecked, LanesHeld, Ends, format = "MSR2"
    PROVE  Unaltered(archive)
<1> DEFINE md == archive.metadata
           N == Len(archive.frames)
           fs == archive.frames
<1>1. archive.format = "MSR2" /\ Established(archive, m) /\ LanesRead(archive)
  BY DEF Ends, Staged, Stage, Known, Begun, LanesHeld
<1>2. DigestsMatch(m) BY DigestsEnd DEF Tabled
<1>3. archive.sealed /\ m = ReadManifestOf(md) /\ ParseMetadata(md, archive.unique)
  BY <1>1 DEF Established
<1>4. \A l \in Lanes : md.frameCounts[l] \in Nat BY <1>1, LanesListed
<1>5. DOMAIN fs = 1 .. N BY FramesListed
<1>6. ~archive.trailing /\ N = LaneStart(md, 3) /\ \A l \in Lanes : LaneWhole(archive, l)
  BY <1>1 DEF LanesRead
<1>7. ASSUME NEW l \in Lanes PROVE LaneGood(archive, l)
  <2>1. LanePassed(archive, l, md.frameCounts[l]) BY <1>6 DEF LaneWhole
  <2> QED BY <2>1 DEF LanePassed, LaneGood
<1>8. ASSUME NEW k \in 1 .. N PROVE fs[k].sealed /\ fs[k].index = k
  <2>1. PICK l \in Lanes : \E j \in 1 .. md.frameCounts[l] : k = LaneStart(md, l) + j
    BY <1>4, <1>6, FramesAreLanes
  <2>2. PICK j \in 1 .. md.frameCounts[l] : k = LaneStart(md, l) + j BY <2>1
  <2>3. LanePassed(archive, l, md.frameCounts[l]) BY <1>6 DEF LaneWhole
  <2>4. fs[k] = LaneFrame(archive, l, j) BY <2>2 DEF LaneFrame
  <2> HIDE DEF fs
  <2> QED BY <2>2, <2>3, <2>4 DEF LanePassed
<1>9. \A l \in Lanes :
          Len(LaneRead(archive, l)) = RawSize(m, ReadLanesOf(md, archive.unique), l)
  BY <1>3, <1>6 DEF LaneWhole
<1>10. LanesWhole(archive)
  <2> DEFINE content == [l \in Lanes |-> LaneRead(archive, l)]
  <2>1. \A l \in Lanes : content[l] = LaneRead(archive, l) OBVIOUS
  <2>2. ChunksRestored(m, LAMBDA k : ChunkIn(content, ReadLanesOf(md, archive.unique),
                                             SizesOf(m), k))
    BY <1>1, <1>3 DEF LanesRead
  <2> HIDE DEF content
  <2>3. \A l \in Lanes : LaneGood(archive, l)
                         /\ Len(content[l]) = RawSize(m, ReadLanesOf(md, archive.unique), l)
    BY <1>7, <1>9, <2>1
  <2> QED BY <1>2, <1>3, <1>5, <1>6, <1>8, <2>2, <2>3 DEF LanesWhole, content
<1> QED BY <1>1, <1>3, <1>6, <1>10 DEF Unaltered

(* The manifest held is the one of the archive.                              *)
LEMMA ManifestKnown ==
    ASSUME Known, archive.format = format, pc \in Begun PROVE MetadataOf(archive) = m
  BY DEF Known, Established, MetadataOf

(* Only an archive that is whole is read to its end.                         *)
LEMMA EndsStep ==
    ASSUME Staged, ArchiveOK, Parsed, Placed, Counted, Metered, Verified, [Next]_vars
    PROVE  EndsWhole'
<1> SUFFICES ASSUME pc' \in {"replace", "unspool", "done"} PROVE EndsWhole' BY DEF EndsWhole
<1>1. CASE Halts \/ Starting \/ Reads \/ Prepares \/ MakesDir \/ Opens \/ Writes \/ Closes
  BY <1>1 DEF Halts, Starting, Reads, Prepares, MakesDir, Opens, Writes, Closes
<1>2. CASE Still \/ Publishes BY <1>2 DEF Still, Publishes, EndsWhole, Verified
<1>3. CASE Ends
  <2>1. archive' = archive /\ format' = format BY <1>3 DEF Ends
  <2>2. archive.format = format /\ format \in Format
    BY <1>3, FramesListed DEF Ends, Staged, Stage
  <2>3. Unaltered(archive)
    BY <1>3, <2>2, SingleEnds, DedupEnds, StreamEndsWhole, SolidEnds, LanesEnd DEF Verified, Format
  <2>4. MetadataOf(archive) = m /\ Readable(m, format)
    BY <1>3, <2>2, ManifestKnown DEF Ends, Verified, Parsed, Holding, Begun
  <2> QED BY <2>1, <2>2, <2>3, <2>4 DEF EndsWhole, Intact, Readable
<1> QED BY <1>1, <1>2, <1>3, Moves

(* Nothing was verified before the call.                                     *)
LEMMA VerifiedInit == Init => Verified
  BY DEF Init, Verified, Known, TableChecked, UniquesChecked, BlocksChecked, RecordsChecked,
     LanesChecked, LanesHeld, EndsWhole, Begun

(* Every step verifies what it goes past.                                    *)
LEMMA VerifiedStep == DecodersInv /\ Verified /\ [Next]_vars => Verified'
<1> SUFFICES ASSUME DecodersInv, Verified, [Next]_vars PROVE Verified' OBVIOUS
<1>1. Staged /\ ArchiveOK /\ Parsed /\ Placed /\ Counted /\ Metered BY DEF DecodersInv
<1>2. /\ Known /\ TableChecked /\ UniquesChecked /\ BlocksChecked /\ RecordsChecked
      /\ LanesChecked /\ LanesHeld
  BY DEF Verified
<1>3. Known' /\ TableChecked' BY <1>1, <1>2, KnownStep, TableStep
<1>4. UniquesChecked' /\ BlocksChecked' BY <1>1, <1>2, UniquesStep, BlocksStep
<1>5. RecordsChecked' /\ LanesChecked' BY <1>1, <1>2, RecordsStep, SpoolStep
<1>6. LanesHeld' /\ EndsWhole' BY <1>1, <1>2, HeldStep, EndsStep
<1> QED BY <1>3, <1>4, <1>5, <1>6 DEF Verified

(* In every behaviour, what was passed was verified.                         *)
THEOREM VerifiedHolds == Spec => []Verified
  BY VerifiedInit, VerifiedStep, DecodersInvariant, PTL DEF Spec

-----------------------------------------------------------------------------
(* The order of the entries.                                                 *)

(* Entry k is in the directory that entry i is.                              *)
Under(man, k, i) ==
    /\ ParentOf[man.entries[k].path] # man.entries[k].path
    /\ ParentOf[man.entries[k].path] = man.entries[i].path

(* Each of the first n entries that is a directory came before what is in    *)
(* it.                                                                       *)
NoneLate(man, n) ==
    \A i \in 1 .. n : man.entries[i].kind = "dir" => \A k \in 1 .. i - 1 : ~Under(man, k, i)

(* The directory of each of the first n entries is there.                    *)
Rooted(man, n, dirs) ==
    \A k \in 1 .. n :
        \/ ParentOf[man.entries[k].path] = man.entries[k].path
        \/ ParentOf[man.entries[k].path] \in dirs

(* With the directories first, only those among the first n are there.       *)
Listed(man, n, dirs) ==
    ParentsFirst(man) => dirs \subseteq {man.entries[j].path : j \in 1 .. n}

(* What a tree restored so far says of the order of the entries.             *)
Following ==
    pc \in Begun /\ temp.made /\ m.kind = "folder" =>
        /\ NoneLate(m, ix - 1) /\ Listed(m, ix - 1, temp.dirs)
        /\ Rooted(m, IF pc = "chunks" THEN ix ELSE ix - 1, temp.dirs)

(* What was restored was in order, and a refusal for something that is there *)
(* has its reason.                                                           *)
Ordered ==
    /\ Following
    /\ pc \in {"replace", "unspool", "done"} /\ (~inspect \/ format = "MSR2") => InOrder(archive)
    /\ error = "FileExistsError" => ~InOrder(archive) \/ (~inspect /\ dest # "absent")

(* With the directories first, mkdir(parents=True) makes none that is not    *)
(* listed before.                                                            *)
LEMMA MissingBefore ==
    ASSUME NEW man \in ManifestFields, ParentsFirst(man), NEW i \in 1 .. Len(man.entries)
    PROVE  Missing(man.entries[i].path) \subseteq {man.entries[j].path : j \in 1 .. i - 1}
<1> DEFINE D == {man.entries[j].path : j \in 1 .. i - 1}
           S == {man.entries[j].path : j \in 1 .. i}
<1>1. /\ Len(man.entries) \in Nat /\ DOMAIN man.entries = 1 .. Len(man.entries)
      /\ \A k \in 1 .. Len(man.entries) : man.entries[k].path \in RecordPath
  BY EntriesListed DEF EntryRecord
<1>2. /\ \A k \in 1 .. i : k \in 1 .. Len(man.entries) /\ 1 .. k - 1 \subseteq 1 .. i - 1
      /\ 1 .. i - 1 \subseteq 1 .. i /\ i \in 1 .. i
  BY <1>1
<1>3. S \in SUBSET RecordPath /\ D \subseteq S /\ man.entries[i].path \in S BY <1>1, <1>2
<1>4. ASSUME NEW p \in S PROVE ParentOf[p] = p \/ ParentOf[p] \in D
  <2>1. PICK k \in 1 .. i : p = man.entries[k].path OBVIOUS
  <2>2. k \in DOMAIN man.entries BY <1>1, <1>2
  <2>3. CASE ParentOf[p] # p
    <3>1. \E j \in 1 .. k - 1 : man.entries[j].path = ParentOf[p]
      BY <2>1, <2>2, <2>3 DEF ParentsFirst
    <3> QED BY <1>2, <3>1
  <2> QED BY <2>3
<1> HIDE DEF D, S
<1>5. Missing(man.entries[i].path) \subseteq D BY <1>3, <1>4, MissingWithin
<1> QED BY <1>5 DEF D

(* One more directory was made where there was none.                         *)
LEMMA DirFollows ==
    ASSUME NEW man \in ManifestFields, Distinct(man), NEW i \in 1 .. Len(man.entries), NEW dirs,
           man.entries[i].path \notin dirs, NoneLate(man, i - 1), Rooted(man, i - 1, dirs),
           Listed(man, i - 1, dirs), NEW now,
           now = dirs \cup {man.entries[i].path} \cup Missing(man.entries[i].path)
    PROVE  NoneLate(man, i) /\ Rooted(man, i, now) /\ Listed(man, i, now)
<1> DEFINE path == man.entries[i].path
<1>1. i \in Nat /\ path \in RecordPath BY EntriesListed DEF EntryRecord
<1>2. 1 .. i = (1 .. i - 1) \cup {i} BY <1>1
<1>3. NoneLate(man, i)
  <2>1. ASSUME NEW k \in 1 .. i - 1, Under(man, k, i) PROVE FALSE BY <2>1 DEF Under, Rooted
  <2> QED BY <1>2, <2>1 DEF NoneLate
<1>4. Rooted(man, i, now) BY <1>1, <1>2, MissingParent DEF Rooted
<1>5. Listed(man, i, now)
  <2> SUFFICES ASSUME ParentsFirst(man)
               PROVE  now \subseteq {man.entries[j].path : j \in 1 .. i}
    BY DEF Listed
  <2>1. Missing(path) \subseteq {man.entries[j].path : j \in 1 .. i - 1} BY MissingBefore
  <2>2. dirs \subseteq {man.entries[j].path : j \in 1 .. i - 1} BY DEF Listed
  <2> QED BY <1>2, <2>1, <2>2
<1> QED BY <1>3, <1>4, <1>5

(* A file was opened.                                                        *)
LEMMA FileFollows ==
    ASSUME NEW man \in ManifestFields, NEW i \in 1 .. Len(man.entries), NEW dirs,
           Rooted(man, i - 1, dirs), Listed(man, i - 1, dirs), NEW now,
           now = dirs \cup Missing(man.entries[i].path)
    PROVE  Rooted(man, i, now) /\ Listed(man, i - 1, now)
<1> DEFINE path == man.entries[i].path
<1>1. i \in Nat /\ path \in RecordPath BY EntriesListed DEF EntryRecord
<1>2. 1 .. i = (1 .. i - 1) \cup {i} BY <1>1
<1>3. Rooted(man, i, now) BY <1>1, <1>2, MissingParent DEF Rooted
<1>4. Listed(man, i - 1, now) BY MissingBefore DEF Listed
<1> QED BY <1>3, <1>4

(* It was closed.                                                            *)
LEMMA ClosedFollows ==
    ASSUME NEW man, NEW i \in Nat \ {0}, NEW dirs, man.entries[i].kind = "file",
           NoneLate(man, i - 1), Listed(man, i - 1, dirs)
    PROVE  NoneLate(man, i) /\ Listed(man, i, dirs)
<1>1. 1 .. i = (1 .. i - 1) \cup {i} OBVIOUS
<1>2. NoneLate(man, i) BY <1>1 DEF NoneLate
<1>3. Listed(man, i, dirs) BY <1>1 DEF Listed
<1> QED BY <1>2, <1>3

(* A tree that was restored to its end had the directories first, and a      *)
(* single file has none.                                                     *)
LEMMA EndsInOrder ==
    ASSUME NEW man, NEW kind, Readable(man, kind),
           man.kind = "folder" => NoneLate(man, Len(man.entries))
    PROVE  ParentsFirst(man)
<1> DEFINE N == Len(man.entries)
           p(i) == man.entries[i].path
<1>1. /\ man \in ManifestFields /\ Shape(man) /\ Distinct(man) BY DEF Readable
<1>2. /\ N \in Nat /\ DOMAIN man.entries = 1 .. N /\ man.kind \in {"file", "folder"}
  BY <1>1, EntriesListed DEF ManifestFields
<1>3. CASE man.kind = "file"
  <2>0. N = 1 BY <1>1, <1>3 DEF Shape, SingleFile
  <2>1. \A i \in DOMAIN man.entries : i = 1
    <3> HIDE DEF N
    <3> QED BY <1>2, <2>0
  <2> QED BY <1>1, <1>3, <2>1 DEF ParentsFirst, Distinct
<1>4. CASE man.kind = "folder"
  <2> SUFFICES ASSUME NEW k \in 1 .. N, ParentOf[p(k)] # p(k)
               PROVE  \E i \in 1 .. k - 1 : p(i) = ParentOf[p(k)]
    BY <1>2 DEF ParentsFirst
  <2>1. PICK i \in 1 .. N : man.entries[i].kind = "dir" /\ p(i) = ParentOf[p(k)]
    BY <1>1, <1>2, <1>4 DEF Shape
  <2>2. Under(man, k, i) BY <2>1 DEF Under
  <2>3. k \notin 1 .. i - 1 BY <1>4, <2>1, <2>2 DEF NoneLate
  <2>4. i # k BY <2>1
  <2>5. i \in 1 .. k - 1
    <3> HIDE DEF N
    <3> QED BY <1>2, <2>3, <2>4
  <2> QED BY <2>1, <2>5
<1> QED BY <1>2, <1>3, <1>4

(* A directory is already there only in a tree whose directories come late.  *)
LEMMA LateRefused ==
    ASSUME NEW man \in ManifestFields, Distinct(man), NEW i \in 1 .. Len(man.entries), NEW dirs,
           Listed(man, i - 1, dirs), man.entries[i].path \in dirs
    PROVE  ~ParentsFirst(man)
<1>1. Len(man.entries) \in Nat /\ DOMAIN man.entries = 1 .. Len(man.entries) BY EntriesListed
<1> SUFFICES ASSUME ParentsFirst(man) PROVE FALSE OBVIOUS
<1>2. PICK j \in 1 .. i - 1 : man.entries[i].path = man.entries[j].path BY DEF Listed
<1>3. i \in 1 .. Len(man.entries) /\ j \in 1 .. Len(man.entries) /\ i # j BY <1>1
<1> QED BY <1>1, <1>2, <1>3 DEF Distinct

(* After a return or an exception nothing of the outcome changes.            *)
LEMMA EndsStill ==
    ASSUME ~Running, [Next]_vars PROVE UNCHANGED <<archive, inspect, called, format, dest, pc, error>>
<1> USE DEF Running, given
<1>1. CASE Header
  BY <1>1 DEF Header, Dispatch, Open, ReadHeader, StreamHeader, SingleHeader
<1>2. CASE Reading
  BY <1>2 DEF Reading, ReadManifest, StreamReadManifest, ReadInner, ReadSolid, ReadMetadata,
     ReadLaneFrame, LaneDone, CopyCanonical
<1>3. CASE PrepareOutput \/ RestoreDirectory \/ OpenSink(First)
  BY <1>3 DEF PrepareOutput, RestoreDirectory, OpenSink
<1>4. CASE WritingOne
  BY <1>4 DEF WritingOne, RestoreUnique, RestoreDuplicate, RestoreBlock, RestoreRecord,
     RestoreCanonical
<1>5. CASE NoMore /\ CloseSink BY <1>5 DEF CloseSink
<1>6. CASE Ending BY <1>6 DEF Ending, Finish
<1>7. CASE Publish \/ RemoveScratch \/ ScratchNotRemoved
  BY <1>7 DEF Publish, RemoveScratch, ScratchNotRemoved
<1>8. CASE Outside
  BY <1>8 DEF Outside, Fault, Interrupt, Kill, Rebind, Swap, vars
<1> QED BY <1>1, <1>2, <1>3, <1>4, <1>5, <1>6, <1>7, <1>8, StepKinds, Zenon

(* Every step keeps what a restored tree says of the order.                  *)
LEMMA FollowingStep ==
    ASSUME Staged, Parsed, Placed, Ordered, [Next]_vars PROVE Following'
<1> USE DEF Fail, given, position
<1>k. temp = [made |-> temp.made, dirs |-> temp.dirs, files |-> temp.files] BY DEF Staged, Clean
<1>0. Following BY DEF Ordered
<1>r. pc \in Begun => /\ m \in ManifestFields /\ Distinct(m) /\ ix \in Nat \ {0}
                      /\ Len(m.entries) \in Nat
                      /\ ix <= Len(m.entries) => ix \in 1 .. Len(m.entries)
  <2> SUFFICES ASSUME pc \in Begun
               PROVE  /\ m \in ManifestFields /\ Distinct(m) /\ ix \in Nat \ {0}
                      /\ Len(m.entries) \in Nat
                      /\ ix <= Len(m.entries) => ix \in 1 .. Len(m.entries)
    OBVIOUS
  <2>1. m \in ManifestFields /\ Distinct(m) BY DEF Parsed, Readable, Holding, Begun
  <2>2. Len(m.entries) \in Nat BY <2>1, EntriesListed
  <2> QED BY <2>1, <2>2 DEF Placed, Begun
<1> SUFFICES ASSUME pc' \in Begun, temp'.made, m'.kind = "folder"
             PROVE  /\ NoneLate(m', ix' - 1) /\ Listed(m', ix' - 1, temp'.dirs)
                    /\ Rooted(m', IF pc' = "chunks" THEN ix' ELSE ix' - 1, temp'.dirs)
  BY DEF Following
<1>1. CASE Header \/ Reading
  BY <1>1 DEF Header, Dispatch, Open, ReadHeader, StreamHeader, SingleHeader, Reading, ReadManifest,
     StreamReadManifest, ReadInner, ReadSolid, ReadMetadata, ReadLaneFrame, LaneDone, CopyCanonical,
     ManifestAccepted, Begun
<1>2. CASE WritingOne
  <2>1. UNCHANGED <<temp, ix, m, pc>>
    BY <1>2 DEF WritingOne, RestoreUnique, RestoreDuplicate, RestoreBlock, RestoreRecord,
       RestoreCanonical, Write, Begun
  <2> QED BY <1>0, <2>1 DEF Following
<1>3. CASE Outside
  <2>1. UNCHANGED <<temp, ix, m, pc>>
    BY <1>3 DEF Outside, Fault, Interrupt, Kill, Rebind, Swap, vars, Begun
  <2> QED BY <1>0, <2>1 DEF Following
<1>4. CASE PrepareOutput
  <2>1. pc' = "entry" /\ ix' - 1 = 0 /\ temp'.dirs = {} BY <1>4 DEF PrepareOutput, Begun, NoOutput
  <2>2. 1 .. 0 = {} OBVIOUS
  <2> QED BY <2>1, <2>2 DEF NoneLate, Listed, Rooted
<1>5. CASE RestoreDirectory
  <2> DEFINE path == m.entries[ix].path
  <2>1. /\ pc = "entry" /\ pc' = "entry" /\ ix' = ix + 1 /\ m' = m /\ ix <= Len(m.entries)
        /\ ~temp.made \/ path \notin temp.dirs
        /\ temp' = IF temp.made THEN [temp EXCEPT !.dirs = @ \cup {path} \cup Missing(path)]
                   ELSE temp
    BY <1>5 DEF RestoreDirectory, Begun
  <2>2. temp.made BY <2>1
  <2>3. temp'.dirs = temp.dirs \cup {path} \cup Missing(path)
    <3> HIDE DEF path
    <3> QED BY <1>k, <2>1, <2>2
  <2>4. NoneLate(m, ix - 1) /\ Listed(m, ix - 1, temp.dirs) /\ Rooted(m, ix - 1, temp.dirs)
    BY <1>0, <2>1, <2>2 DEF Following, Begun
  <2>5. NoneLate(m, ix) /\ Rooted(m, ix, temp'.dirs) /\ Listed(m, ix, temp'.dirs)
    BY <1>r, <2>1, <2>2, <2>3, <2>4, DirFollows DEF Begun
  <2>6. ix' - 1 = ix BY <1>r, <2>1 DEF Begun
  <2> QED BY <2>1, <2>5, <2>6
<1>6. CASE OpenSink(First)
  <2> DEFINE path == m.entries[ix].path
  <2>1. /\ pc = "entry" /\ pc' = "chunks" /\ ix' = ix /\ m' = m /\ ix <= Len(m.entries)
        /\ temp' = IF temp.made /\ m.kind = "folder"
                   THEN [temp EXCEPT !.dirs = @ \cup Missing(path)] ELSE temp
    BY <1>6 DEF OpenSink
  <2>2. temp.made /\ m.kind = "folder" BY <2>1
  <2>3. temp'.dirs = temp.dirs \cup Missing(path)
    <3> HIDE DEF path
    <3> QED BY <1>k, <2>1, <2>2
  <2>4. NoneLate(m, ix - 1) /\ Listed(m, ix - 1, temp.dirs) /\ Rooted(m, ix - 1, temp.dirs)
    BY <1>0, <2>1, <2>2 DEF Following, Begun
  <2>5. Rooted(m, ix, temp'.dirs) /\ Listed(m, ix - 1, temp'.dirs)
    BY <1>r, <2>1, <2>3, <2>4, FileFollows DEF Begun
  <2> QED BY <2>1, <2>4, <2>5
<1>7. CASE CloseSink
  <2>1. /\ pc = "chunks" /\ pc' = "entry" /\ ix' = ix + 1 /\ m' = m
        /\ temp'.dirs = temp.dirs /\ temp.made
    <3>1. /\ pc = "chunks" /\ pc' = "entry" /\ ix' = ix + 1 /\ m' = m
          /\ \/ temp' = temp
             \/ temp.made
                /\ temp' = [temp EXCEPT !.files = @ \cup {<<m.entries[ix].path, taken>>}]
      BY <1>7 DEF CloseSink, Begun
    <3> QED BY <1>k, <3>1
  <2>2. /\ NoneLate(m, ix - 1) /\ Listed(m, ix - 1, temp.dirs) /\ Rooted(m, ix, temp.dirs)
    BY <1>0, <2>1 DEF Following, Begun
  <2>3. m.entries[ix].kind = "file" /\ ix' - 1 = ix /\ ix \in Nat \ {0}
    BY <1>r, <2>1 DEF Placed, Begun
  <2>4. NoneLate(m, ix) /\ Listed(m, ix, temp.dirs) BY <2>2, <2>3, ClosedFollows
  <2> QED BY <2>1, <2>2, <2>3, <2>4
<1>8. CASE Ending \/ Publish \/ RemoveScratch \/ ScratchNotRemoved
  BY <1>8 DEF Ending, Finish, Publish, RemoveScratch, ScratchNotRemoved, Begun
<1> QED BY <1>1, <1>2, <1>3, <1>4, <1>5, <1>6, <1>7, <1>8, StepKinds, Zenon

(* Two steps find something that is there: the preparation of a tree and a   *)
(* directory of it.                                                          *)
LEMMA FindingThere ==
    ASSUME Staged, Running, error' = "FileExistsError", [Next]_vars
    PROVE  /\ UNCHANGED <<archive, inspect, dest>>
           /\ \/ ~inspect /\ dest # "absent"
              \/ /\ pc = "entry" /\ ix <= Len(m.entries) /\ m.entries[ix].kind = "dir"
                 /\ temp.made /\ m.entries[ix].path \in temp.dirs
<1> USE DEF Fail, given, position
<1>0. error = "none" BY DEF Staged, Clean
<1>1. CASE Header
  BY <1>0, <1>1 DEF Header, Dispatch, Open, ReadHeader, StreamHeader, SingleHeader
<1>2. CASE Reading
  BY <1>0, <1>2 DEF Reading, ReadManifest, StreamReadManifest, ReadInner, ReadSolid, ReadMetadata,
     ReadLaneFrame, LaneDone, CopyCanonical, ManifestAccepted
<1>3. CASE PrepareOutput BY <1>0, <1>3 DEF PrepareOutput
<1>4. CASE RestoreDirectory BY <1>0, <1>4 DEF RestoreDirectory
<1>5. CASE OpenSink(First) BY <1>0, <1>5 DEF OpenSink
<1>6. CASE WritingOne
  BY <1>0, <1>6 DEF WritingOne, RestoreUnique, RestoreDuplicate, RestoreBlock, RestoreRecord,
     RestoreCanonical, Write
<1>7. CASE NoMore /\ CloseSink BY <1>0, <1>7 DEF CloseSink
<1>8. CASE Ending BY <1>0, <1>8 DEF Ending, Finish
<1>9. CASE Publish \/ RemoveScratch \/ ScratchNotRemoved
  BY <1>0, <1>9 DEF Publish, RemoveScratch, ScratchNotRemoved
<1>10. CASE Outside
  BY <1>0, <1>10 DEF Outside, Fault, Interrupt, Kill, Rebind, Swap, vars
<1> QED BY <1>1, <1>2, <1>3, <1>4, <1>5, <1>6, <1>7, <1>8, <1>9, <1>10, StepKinds, Zenon

(* A tree that is refused for a directory that is there has it late.         *)
LEMMA RefusedLate ==
    ASSUME Staged, Parsed, Placed, Known, Following, pc = "entry", ix <= Len(m.entries),
           m.entries[ix].kind = "dir", temp.made, m.entries[ix].path \in temp.dirs
    PROVE  ~InOrder(archive)
<1>1. m \in ManifestFields /\ Distinct(m) /\ Shape(m)
  BY DEF Parsed, Readable, Holding
<1>2. ix \in 1 .. Len(m.entries) BY <1>1, EntriesListed DEF Placed
<1>3. m.kind = "folder"
  <2> SUFFICES ASSUME m.kind = "file" PROVE FALSE BY <1>1 DEF ManifestFields
  <2> QED BY <1>1, <1>2 DEF Shape, SingleFile
<1>4. Listed(m, ix - 1, temp.dirs) BY <1>3 DEF Following, Begun
<1>5. ~ParentsFirst(m) BY <1>1, <1>2, <1>4, LateRefused
<1>6. archive.format = format BY DEF Staged, Stage
<1>7. MetadataOf(archive) = m BY <1>6, ManifestKnown DEF Begun
<1> QED BY <1>5, <1>7 DEF InOrder

(* What is read to its end and restored is in order.                         *)
LEMMA EndedOrdered ==
    ASSUME Staged, Parsed, Placed, Known, Following, Ends, ~inspect \/ format = "MSR2"
    PROVE  InOrder(archive)
<1>1. pc = "entry" /\ ix > Len(m.entries) BY DEF Ends
<1>2. Readable(m, format) /\ m \in ManifestFields BY <1>1 DEF Parsed, Readable, Holding
<1>3. ix - 1 = Len(m.entries) BY <1>1, <1>2, EntriesListed DEF Placed
<1>4. temp.made = (~inspect \/ format = "MSR2") BY <1>1 DEF Staged, Clean, Begun
<1>5. temp.made BY <1>4
<1>6. m.kind = "folder" => NoneLate(m, Len(m.entries)) BY <1>1, <1>3, <1>5 DEF Following, Begun
<1>7. ParentsFirst(m) BY <1>2, <1>6, EndsInOrder
<1>8. archive.format = format BY <1>1 DEF Staged, Stage
<1>9. MetadataOf(archive) = m BY <1>1, <1>8, ManifestKnown DEF Begun
<1> QED BY <1>7, <1>9 DEF InOrder

(* The mode is that of the call.                                             *)
LEMMA InspectStays == ASSUME [Next]_vars PROVE UNCHANGED inspect
<1> USE DEF Fail, given
<1>1. CASE Header
  BY <1>1 DEF Header, Dispatch, Open, ReadHeader, StreamHeader, SingleHeader
<1>2. CASE Reading
  BY <1>2 DEF Reading, ReadManifest, StreamReadManifest, ReadInner, ReadSolid, ReadMetadata,
     ReadLaneFrame, LaneDone, CopyCanonical, ManifestAccepted
<1>3. CASE PrepareOutput \/ RestoreDirectory \/ OpenSink(First) \/ (NoMore /\ CloseSink)
  BY <1>3 DEF PrepareOutput, RestoreDirectory, OpenSink, CloseSink
<1>4. CASE WritingOne
  BY <1>4 DEF WritingOne, RestoreUnique, RestoreDuplicate, RestoreBlock, RestoreRecord,
     RestoreCanonical, Write
<1>5. CASE Ending \/ Publish \/ RemoveScratch \/ ScratchNotRemoved
  BY <1>5 DEF Ending, Finish, Publish, RemoveScratch, ScratchNotRemoved
<1>6. CASE Outside
  BY <1>6 DEF Outside, Fault, Interrupt, Kill, Rebind, Swap, vars
<1> QED BY <1>1, <1>2, <1>3, <1>4, <1>5, <1>6, StepKinds, Zenon

(* Every step keeps the order.                                               *)
LEMMA OrderedStep ==
    ASSUME DecodersInv, Verified, Ordered, [Next]_vars PROVE Ordered'
<1>1. Staged /\ Parsed /\ Placed /\ Known /\ Following BY DEF DecodersInv, Verified, Ordered
<1>2. Following' BY <1>1, FollowingStep
<1>3. ASSUME pc' \in {"replace", "unspool", "done"}, ~inspect' \/ format' = "MSR2"
      PROVE  InOrder(archive')
  <2>0. UNCHANGED inspect BY InspectStays
  <2>1. CASE Halts \/ Starting \/ Reads \/ Prepares \/ MakesDir \/ Opens \/ Writes \/ Closes
    BY <1>3, <2>1 DEF Halts, Starting, Reads, Prepares, MakesDir, Opens, Writes, Closes
  <2>2. CASE Still \/ Publishes BY <1>3, <2>0, <2>2 DEF Still, Publishes, Ordered
  <2>3. CASE Ends BY <1>1, <1>3, <2>0, <2>3, EndedOrdered DEF Ends
  <2> QED BY <2>1, <2>2, <2>3, Moves
<1>4. ASSUME error' = "FileExistsError"
      PROVE  ~InOrder(archive') \/ (~inspect' /\ dest' # "absent")
  <2>1. CASE ~Running
    <3>1. UNCHANGED <<archive, inspect, dest, error>> BY <2>1, EndsStill
    <3> QED BY <1>4, <3>1 DEF Ordered
  <2>2. CASE Running
    <3>1. UNCHANGED <<archive, inspect, dest>> BY <1>1, <1>4, <2>2, FindingThere
    <3> QED BY <1>1, <1>4, <2>2, <3>1, FindingThere, RefusedLate
  <2> QED BY <2>1, <2>2
<1> QED BY <1>2, <1>3, <1>4 DEF Ordered, InOrder

(* In every behaviour, what is restored is in order.                         *)
THEOREM OrderedHolds == Spec => []Ordered
<1>1. Init => Ordered BY DEF Init, Ordered, Following, Begun
<1>2. DecodersInv /\ Verified /\ Ordered /\ [Next]_vars => Ordered' BY OrderedStep
<1> QED BY <1>1, <1>2, DecodersInvariant, VerifiedHolds, PTL DEF Spec

-----------------------------------------------------------------------------
(* Only an archive of the decoder's format that is whole, authentic to its   *)
(* last frame and complete is ever reported as verified or restored; what is *)
(* restored also has its directories before what is in them.                 *)
THEOREM AcceptsOnlyWholeHolds == Spec => []AcceptsOnlyWhole
<1>1. Verified /\ Ordered => AcceptsOnlyWhole BY DEF Verified, EndsWhole, Ordered, AcceptsOnlyWhole
<1> QED BY <1>1, VerifiedHolds, OrderedHolds, PTL

-----------------------------------------------------------------------------
(* The frames of an intact MSC6 archive are its unique chunks, in order.     *)

(* There are as many frames as unique chunks, so every frame is one.         *)
LEMMA FramesUnique ==
    ASSUME NEW a, a.manifest \in ManifestFields, Whole(a), Len(a.frames) \in Nat,
           DOMAIN a.frames = 1 .. Len(a.frames),
           \A k \in 1 .. Len(a.frames) : a.frames[k].occurrence \in Nat
    PROVE  \A k \in 1 .. Len(a.frames) :
              a.frames[k].occurrence + 1 \in Unique(a.manifest.chunks)
<1> DEFINE N == Len(a.frames)
           U == Unique(a.manifest.chunks)
           K == {k \in 1 .. N : a.frames[k].occurrence + 1 \in U}
           f == [k \in K |-> a.frames[k].occurrence + 1]
<1>1. Cardinality(U) + 1 = N + 1 BY DEF Whole, ParseDedupManifest
<1>2. U \subseteq Nat BY EntriesListed DEF Unique
<1>3. \A i \in U : \E k \in K : f[k] = i
  <2> SUFFICES ASSUME NEW i \in U PROVE \E k \in K : f[k] = i OBVIOUS
  <2>1. PICK k \in 1 .. N : a.frames[k].occurrence = i - 1 BY DEF Whole
  <2>2. a.frames[k].occurrence + 1 = i BY <1>2, <2>1
  <2> QED BY <2>2
<1>4. f \in Surjection(K, U)
  <2>1. f \in [K -> U] OBVIOUS
  <2> HIDE DEF f, K, U
  <2> QED BY <1>3, <2>1 DEF Surjection
<1>5. IsFiniteSet(1 .. N) /\ Cardinality(1 .. N) = N
  <2>1. 1 \in Int /\ N \in Int OBVIOUS
  <2>2. IsFiniteSet(1 .. N) /\ Cardinality(1 .. N) = IF 1 > N THEN 0 ELSE N - 1 + 1
    BY <2>1, FS_Interval
  <2> QED BY <2>2
<1>6. K \in SUBSET (1 .. N) OBVIOUS
<1> HIDE DEF f, K, U
<1>7. IsFiniteSet(K) /\ Cardinality(K) <= N
  <2>1. IsFiniteSet(K) /\ Cardinality(K) <= Cardinality(1 .. N) BY <1>5, <1>6, FS_Subset
  <2> QED BY <1>5, <2>1
<1>8. IsFiniteSet(U) /\ Cardinality(U) <= Cardinality(K) BY <1>4, <1>7, FS_Surjection
<1>9. Cardinality(U) \in Nat /\ Cardinality(K) \in Nat BY <1>7, <1>8, FS_CardinalityType
<1>10. Cardinality(K) = Cardinality(1 .. N) BY <1>1, <1>5, <1>7, <1>8, <1>9
<1>11. 1 .. N = K BY <1>5, <1>6, <1>10, FS_Subset
<1> QED BY <1>11 DEF K, U

(* The frames of a whole MSC6 archive are its unique chunks, in order.       *)
LEMMA WholePassed ==
    ASSUME ArchiveOK, archive.format = "MSC6", Intact(archive)
    PROVE  /\ archive.manifest \in ManifestFields
           /\ UniquesPassed(archive, archive.manifest, Len(archive.frames),
                            Len(archive.manifest.chunks))
<1> DEFINE N == Len(archive.frames)
           fs == archive.frames
           cs == archive.manifest.chunks
           L == Len(cs)
<1>1. archive.manifest \in ManifestFields BY ManifestHeld
<1>2. N \in Nat /\ DOMAIN fs = 1 .. N /\ \A k \in 1 .. N : fs[k].occurrence \in Nat
  BY FramesListed
<1>3. /\ Whole(archive) /\ AllSealed(archive)
      /\ \A k \in 1 .. N : fs[k].size = cs[fs[k].occurrence + 1].size
  BY <1>2 DEF Intact, Unaltered
<1>4. \A k \in 1 .. N : fs[k].occurrence + 1 \in Unique(cs) BY <1>1, <1>2, <1>3, FramesUnique
<1>5. L \in Nat /\ Unique(cs) \subseteq 1 .. L BY <1>1, EntriesListed DEF Unique
<1>6. \A j, k \in 1 .. N : j < k => fs[j].occurrence < fs[k].occurrence BY <1>2, <1>3 DEF Whole
<1>7. \A i \in Unique(cs) :
         \E k \in 1 .. N : fs[k].occurrence = i - 1 /\ fs[k].chunk = cs[i].digest
  BY <1>2, <1>3 DEF Whole
<1>8. ASSUME NEW k \in 1 .. N
      PROVE  /\ fs[k].sealed /\ fs[k].index = k /\ fs[k].occurrence \in 0 .. L - 1
             /\ fs[k].chunk = cs[fs[k].occurrence + 1].digest
  <2> DEFINE o == fs[k].occurrence
  <2>1. fs[k].sealed /\ fs[k].index = k BY <1>2, <1>3 DEF AllSealed
  <2>2. o \in Nat /\ o + 1 \in Unique(cs) /\ o + 1 \in 1 .. L BY <1>2, <1>4, <1>5
  <2>3. PICK j \in 1 .. N : fs[j].occurrence = (o + 1) - 1 /\ fs[j].chunk = cs[o + 1].digest
    BY <1>7, <2>2
  <2>4. fs[j].occurrence = o
    <3> HIDE DEF o
    <3> QED BY <2>2, <2>3
  <2>5. j = k
    <3>1. ~(j < k) /\ ~(k < j)
      <4>1. ~(o < o)
        <5> HIDE DEF o
        <5> QED BY <2>2
      <4> HIDE DEF fs
      <4> QED BY <1>6, <2>4, <4>1 DEF o
    <3> QED BY <1>2, <3>1
  <2>6. o \in 0 .. L - 1
    <3> HIDE DEF o, L
    <3> QED BY <1>5, <2>2
  <2> QED BY <2>1, <2>3, <2>5, <2>6
<1>9. N \in 0 .. N /\ \A i \in Unique(cs) : \E k \in 1 .. N : fs[k].occurrence = i - 1
  BY <1>2, <1>7
<1> QED BY <1>1, <1>3, <1>4, <1>6, <1>8, <1>9 DEF UniquesPassed

(* The frame after the first n is that of the chunk at, if it is unique, and *)
(* after the last chunk there is none.                                       *)
InStep(a, man, n, at) ==
    /\ at + 1 \in Unique(man.chunks) =>
          n + 1 <= Len(a.frames) /\ a.frames[n + 1].occurrence = at
    /\ at = Len(man.chunks) => n = Len(a.frames)

(* The next frame of a whole MSC6 archive is that of the next unique chunk.  *)
LEMMA NextUnique ==
    ASSUME NEW a, NEW man \in ManifestFields, NEW N \in Nat, N = Len(a.frames),
           UniquesPassed(a, man, N, Len(man.chunks)),
           NEW n, NEW at \in Nat, UniquesPassed(a, man, n, at)
    PROVE  InStep(a, man, n, at)
<1> DEFINE occ(k) == a.frames[k].occurrence
           L == Len(man.chunks)
           U == Unique(man.chunks)
<1>1. n \in 0 .. N BY DEF UniquesPassed
<1>2. L \in Nat /\ U \subseteq 1 .. L BY EntriesListed DEF Unique
<1>3. /\ \A k \in 1 .. N : occ(k) \in 0 .. L - 1 /\ occ(k) + 1 \in U
      /\ \A j, k \in 1 .. N : j < k => occ(j) < occ(k)
      /\ \A i \in U : i <= L => \E k \in 1 .. N : occ(k) = i - 1
  BY DEF UniquesPassed
<1>4. /\ \A k \in 1 .. n : occ(k) \in 0 .. at - 1
      /\ \A i \in U : i <= at => \E k \in 1 .. n : occ(k) = i - 1
  BY DEF UniquesPassed
<1> HIDE DEF occ, L, U
<1>5. ASSUME n < N PROVE ~(occ(n + 1) < at)
  <2> SUFFICES ASSUME occ(n + 1) < at PROVE FALSE OBVIOUS
  <2>1. n + 1 \in 1 .. N BY <1>1, <1>5
  <2>2. occ(n + 1) \in Nat /\ occ(n + 1) + 1 \in U BY <1>2, <1>3, <2>1
  <2>3. occ(n + 1) + 1 <= at /\ (occ(n + 1) + 1) - 1 = occ(n + 1) BY <2>2
  <2>4. PICK k \in 1 .. n : occ(k) = occ(n + 1) BY <1>4, <2>2, <2>3
  <2>5. k \in 1 .. N /\ k < n + 1 BY <1>1
  <2>6. occ(k) < occ(n + 1) BY <1>3, <2>1, <2>5
  <2> QED BY <2>2, <2>4, <2>6
<1>6. ASSUME at + 1 \in U PROVE n + 1 <= N /\ occ(n + 1) = at
  <2>1. at + 1 <= L /\ (at + 1) - 1 = at BY <1>2, <1>6
  <2>2. PICK k \in 1 .. N : occ(k) = at BY <1>3, <1>6, <2>1
  <2>3. k \notin 1 .. n
    <3> SUFFICES ASSUME k \in 1 .. n PROVE FALSE OBVIOUS
    <3>1. at \in 0 .. at - 1 BY <1>4, <2>2
    <3> QED BY <3>1
  <2>4. n + 1 <= N /\ n + 1 \in 1 .. N /\ n < N BY <1>1, <2>3
  <2>5. ~(n + 1 < k)
    <3> SUFFICES ASSUME n + 1 < k PROVE FALSE OBVIOUS
    <3>1. occ(n + 1) < at BY <1>3, <2>2, <2>4
    <3> QED BY <1>5, <2>4, <3>1
  <2>6. k = n + 1 BY <1>1, <2>3, <2>5
  <2> QED BY <2>2, <2>4, <2>6
<1>7. ASSUME at = L PROVE n = N
  <2> SUFFICES ASSUME n < N PROVE FALSE BY <1>1
  <2>1. n + 1 \in 1 .. N BY <1>1
  <2>2. occ(n + 1) \in 0 .. L - 1 BY <1>3, <2>1
  <2>3. occ(n + 1) < at BY <1>2, <1>7, <2>2
  <2> QED BY <1>5, <2>3
<1> QED BY <1>6, <1>7 DEF occ, L, U, InStep

-----------------------------------------------------------------------------
(* The steps that refuse an archive.                                         *)

(* The exceptions that RefusesOnlyDamaged speaks of.                         *)
Refusals == {"ArchiveFormatError", "IntegrityError", "FileNotFoundError", "KeyError"}

(* The archive at hand gives the decoder no reason to refuse it.             *)
Faultless == Intact(archive) /\ ~Limited(archive) /\ archive.format = format

(* The header does not pass.                                                 *)
RefusesHeader ==
    /\ pc = "header"
    /\ \/ format = "MSC6" /\ ~HeaderAccepted
       \/ format = "MSC2" /\ ~StreamHeaderAccepted
       \/ format = "MSC1" /\ ~SingleHeaderAccepted

(* The manifest or the metadata do not pass.                                 *)
RefusesManifest ==
    \/ format = "MSC6" /\ pc = "manifest" /\ ~ManifestGood
    \/ format = "MSC2" /\ pc = "manifest" /\ ~StreamManifestGood
    \/ format = "MSC1" /\ pc = "inner" /\ ~InnerGood
    \/ format = "MSR1" /\ pc = "header" /\ ~(SolidAccepted /\ SolidChunksGood)
    \/ format = "MSR2" /\ pc = "header" /\ ~MetadataAccepted

(* A frame of a lane, a lane or the chunks of the lanes do not pass.         *)
RefusesLane ==
    /\ format = "MSR2" /\ pc = "lanes"
    /\ \/ ix \in Lanes /\ InLane /\ ~LaneFrameGood
       \/ ix \in Lanes /\ ~InLane /\ Len(spool[ix]) # ExpectedSize(ix)
       \/ ix \notin Lanes /\ ~(NothingFollows /\ LaneChunksGood)

(* The frame of the next chunk or block does not pass.                       *)
RefusesFrame ==
    /\ pc = "chunks"
    /\ \/ format = "MSC6" /\ InEntry /\ Record.source = occurrence /\ ~FrameGood
       \/ format = "MSC2" /\ MoreBlocks /\ ~BlockGood

(* A file does not have the digest of its entry.                             *)
RefusesDigest == pc = "chunks" /\ NoMore /\ taken # m.entries[ix].digest

(* The archive does not end where it should.                                 *)
RefusesEnd ==
    /\ pc = "entry" /\ ix > Len(m.entries)
    /\ \/ format = "MSC6" /\ ~Terminated
       \/ format = "MSC2" /\ ~StreamTerminated

(* Every refusal is one of these.                                            *)
LEMMA Refusing ==
    ASSUME error \notin Refusals, error' \in {"ArchiveFormatError", "IntegrityError"}, [Next]_vars
    PROVE  /\ UNCHANGED <<archive, format, called>>
           /\ \/ called = "api" /\ archive.format \notin Dispatched
              \/ RefusesHeader \/ RefusesManifest \/ RefusesLane \/ RefusesFrame \/ RefusesDigest
              \/ RefusesEnd
<1> USE DEF Fail, given, position, scratch
<1>0. error' # error BY DEF Refusals
<1>1. CASE Header
  BY <1>0, <1>1 DEF Header, Dispatch, Open, ReadHeader, StreamHeader, SingleHeader, RefusesHeader
<1>2. CASE Reading
  <2>1. UNCHANGED <<archive, format, called>>
    BY <1>2 DEF Reading, ReadManifest, StreamReadManifest, ReadInner, ReadSolid, ReadMetadata,
       ReadLaneFrame, LaneDone, CopyCanonical, ManifestAccepted
  <2>2. RefusesManifest \/ RefusesLane
    <3>1. CASE \/ format = "MSC6" /\ ReadManifest
               \/ format = "MSC2" /\ StreamReadManifest
               \/ format = "MSC1" /\ ReadInner
               \/ format = "MSR1" /\ ReadSolid
               \/ format = "MSR2" /\ ReadMetadata
      BY <1>0, <3>1 DEF ReadManifest, StreamReadManifest, ReadInner, ReadSolid, ReadMetadata,
         ManifestAccepted, RefusesManifest
    <3>2. CASE format = "MSR2" /\ ReadLaneFrame BY <1>0, <3>2 DEF ReadLaneFrame, RefusesLane
    <3>3. CASE format = "MSR2" /\ LaneDone BY <1>0, <3>3 DEF LaneDone, RefusesLane
    <3>4. CASE format = "MSR2" /\ CopyCanonical BY <1>0, <3>4 DEF CopyCanonical, RefusesLane
    <3> QED BY <1>2, <3>1, <3>2, <3>3, <3>4 DEF Reading
  <2> QED BY <2>1, <2>2
<1>3. CASE PrepareOutput \/ RestoreDirectory \/ OpenSink(First)
  BY <1>0, <1>3 DEF PrepareOutput, RestoreDirectory, OpenSink
<1>4. CASE WritingOne
  BY <1>0, <1>4 DEF WritingOne, RestoreUnique, RestoreDuplicate, RestoreBlock, RestoreRecord,
     RestoreCanonical, Write, RefusesFrame
<1>5. CASE NoMore /\ CloseSink BY <1>0, <1>5 DEF CloseSink, RefusesDigest
<1>6. CASE Ending BY <1>0, <1>6 DEF Ending, Finish, RefusesEnd
<1>7. CASE Publish \/ RemoveScratch \/ ScratchNotRemoved
  BY <1>0, <1>7 DEF Publish, RemoveScratch, ScratchNotRemoved
<1>8. CASE Outside
  BY <1>0, <1>8 DEF Outside, Fault, Interrupt, Kill, Rebind, Swap, vars
<1> QED BY <1>1, <1>2, <1>3, <1>4, <1>5, <1>6, <1>7, <1>8, StepKinds, Zenon

-----------------------------------------------------------------------------
(* None of them refuses an archive that is intact and within the limits.     *)

(* What the limits ask of an intact archive that is not limited.             *)
LEMMA WithinLimits ==
    ASSUME ArchiveOK, Intact(archive), ~Limited(archive)
    PROVE  /\ archive.format # "MSR1" => /\ TotalSize(MetadataOf(archive)) <= MaxOutput
                                         /\ FramesAnnounced(archive) <= MaxFrames
           /\ archive.format = "MSC1" => Len(archive.frames) <= MaxArchive
<1>1. MaxOutput \in Nat /\ MaxFrames \in Nat /\ MaxArchive \in Nat BY DecodeAssumption
<1>2. Len(archive.frames) \in Nat BY FramesListed
<1>3. ASSUME archive.format # "MSR1" PROVE TotalSize(MetadataOf(archive)) \in Nat
  <2>1. MetadataOf(archive) \in ManifestFields
    <3>1. CASE archive.format = "MSR2"
      <4>1. ParseMetadata(archive.metadata, archive.unique) BY <3>1 DEF Intact, Unaltered, LanesWhole
      <4> QED BY <3>1, <4>1, MetadataHeld DEF MetadataOf
    <3>2. CASE archive.format # "MSR2" BY <3>2, ManifestHeld DEF MetadataOf
    <3> QED BY <3>1, <3>2
  <2> QED BY <2>1, SizeSteps
<1>4. ASSUME archive.format # "MSR1" PROVE FramesAnnounced(archive) \in Int
  <2>1. CASE archive.format = "MSR2"
    <3>1. LaneStart(archive.metadata, 3) \in Nat BY <2>1, LanesListed, LaneStarts
    <3> QED BY <2>1, <3>1 DEF FramesAnnounced, LaneStart
  <2>2. CASE archive.format # "MSR2"
    <3>1. archive.frameCount \in Nat BY <1>4, <2>2, FramesListed
    <3> QED BY <2>2, <3>1 DEF FramesAnnounced
  <2> QED BY <2>1, <2>2
<1>5. archive.format # "MSR1" =>
         /\ ~(TotalSize(MetadataOf(archive)) > MaxOutput)
         /\ ~(FramesAnnounced(archive) > MaxFrames)
         /\ archive.format = "MSC1" => ~(Len(archive.frames) > MaxArchive)
  BY DEF Limited
<1> QED BY <1>1, <1>2, <1>3, <1>4, <1>5

(* The header passes.                                                        *)
LEMMA HeaderPasses == ASSUME ArchiveOK, Faultless PROVE ~RefusesHeader
<1>1. Intact(archive) /\ ~Limited(archive) /\ archive.format = format BY DEF Faultless
<1>2. ~archive.trailing BY <1>1 DEF Intact, Unaltered
<1>3. /\ format # "MSR1" => FramesAnnounced(archive) <= MaxFrames
      /\ format = "MSC1" => Len(archive.frames) <= MaxArchive
  BY <1>1, WithinLimits
<1> QED BY <1>1, <1>2, <1>3 DEF RefusesHeader, HeaderAccepted, StreamHeaderAccepted,
           SingleHeaderAccepted, FramesAnnounced

(* The manifest passes.                                                      *)
LEMMA ManifestPasses == ASSUME ArchiveOK, Faultless PROVE ~RefusesManifest
<1>1. Intact(archive) /\ ~Limited(archive) /\ archive.format = format BY DEF Faultless
<1>2. archive.sealed /\ ~archive.trailing BY <1>1 DEF Intact, Unaltered
<1>3. format # "MSR1" => /\ TotalSize(MetadataOf(archive)) <= MaxOutput
                         /\ FramesAnnounced(archive) <= MaxFrames
  BY <1>1, WithinLimits
<1>4. format = "MSC6" => ManifestGood
  BY <1>1, <1>2, <1>3 DEF Intact, Unaltered, Whole, ManifestGood, MetadataOf
<1>5. format = "MSC2" => StreamManifestGood
  BY <1>1, <1>2, <1>3 DEF Intact, Unaltered, StreamWhole, StreamManifestGood, MetadataOf
<1>6. format = "MSC1" => InnerGood
  BY <1>1, <1>2, <1>3 DEF Intact, Unaltered, SingleWhole, InnerGood, MetadataOf, FramesAnnounced
<1>7. format = "MSR1" => SolidAccepted /\ SolidChunksGood
  BY <1>1, <1>2 DEF Intact, Unaltered, SolidWhole, SolidAccepted, SolidChunksGood
<1>8. format = "MSR2" => MetadataAccepted
  BY <1>1, <1>2, <1>3 DEF Intact, Unaltered, LanesWhole, MetadataAccepted, MetadataOf, FramesAnnounced
<1> QED BY <1>4, <1>5, <1>6, <1>7, <1>8 DEF RefusesManifest

(* The frame of the next chunk of MSC6 passes.                               *)
LEMMA UniquePasses ==
    ASSUME Staged, ArchiveOK, Parsed, Placed, Counted, Metered, Known, UniquesChecked, Faultless,
           format = "MSC6", pc = "chunks", InEntry, Record.source = occurrence
    PROVE  FrameGood
<1> DEFINE N == Len(archive.frames)
           f == archive.frames[frameIndex]
<1>1. archive.format = "MSC6" /\ Intact(archive) BY DEF Faultless
<1>2. m = archive.manifest BY <1>1 DEF Known, Established, Begun
<1>3. m \in ManifestFields /\ UniquesPassed(archive, m, N, Len(m.chunks))
  BY <1>1, <1>2, WholePassed
<1>4. UniquesPassed(archive, m, frameIndex - 1, occurrence) BY DEF UniquesChecked, Begun
<1>5. occurrence \in Nat /\ occurrence + 1 \in DOMAIN m.chunks /\ (occurrence + 1) - 1 = occurrence
  BY AtChunk DEF InEntry, Tabled
<1>6. occurrence + 1 \in Unique(m.chunks) BY <1>5 DEF Unique, Record
<1>7. N \in Nat BY FramesListed
<1>8. frameIndex \in Nat \ {0} BY DEF Metered, Begun
<1>9. (frameIndex - 1) + 1 <= N /\ archive.frames[(frameIndex - 1) + 1].occurrence = occurrence
  <2> DEFINE n == frameIndex - 1
         L == Len(archive.frames)
  <2>1. UniquesPassed(archive, m, n, occurrence) /\ n \in Nat BY <1>4, <1>8
  <2>2. m \in ManifestFields /\ L \in Nat /\ UniquesPassed(archive, m, L, Len(m.chunks))
    BY <1>3, <1>7
  <2>3. occurrence \in Nat BY <1>5
  <2> HIDE DEF n, N
  <2>4. InStep(archive, m, n, occurrence) BY <2>1, <2>2, <2>3, NextUnique
  <2> QED BY <1>6, <2>4 DEF n, N, InStep
<1>10. (frameIndex - 1) + 1 = frameIndex BY <1>8
<1>11. frameIndex \in 1 .. N /\ f.occurrence = occurrence BY <1>7, <1>8, <1>9, <1>10
<1>12. /\ f.sealed /\ f.index = frameIndex
       /\ f.size = m.chunks[f.occurrence + 1].size /\ f.chunk = m.chunks[f.occurrence + 1].digest
  BY <1>3, <1>11 DEF UniquesPassed
<1> HIDE DEF f
<1>13. frameIndex <= N BY <1>7, <1>11
<1> QED BY <1>11, <1>12, <1>13 DEF FrameGood, Record, f

(* The frame of the next block of MSC2 passes.                               *)
LEMMA BlockPasses ==
    ASSUME Staged, ArchiveOK, Parsed, Placed, Known, BlocksChecked, Faultless,
           format = "MSC2", pc = "chunks", MoreBlocks
    PROVE  BlockGood
<1> DEFINE N == Len(archive.frames)
           B(i) == ChunksBefore(m.entries, i)
           top == Len(m.entries)
           f == archive.frames[frameIndex]
<1>1. /\ archive.format = "MSC2" /\ StreamWhole(archive) /\ AllSealed(archive)
  BY DEF Faultless, Intact, Unaltered
<1>2. /\ m = archive.manifest /\ m \in ManifestFields /\ ParseManifest(m, archive.frameCount)
      /\ ix \in 1 .. top /\ m.entries[ix].kind = "file"
  BY InStream DEF Begun
<1>3. /\ top \in Nat /\ DOMAIN m.entries = 1 .. top
      /\ archive.frameCount = 1 + B(top + 1) /\ \A i \in 1 .. top + 1 : B(i) \in Nat
      /\ m.entries[ix].first = 1 + B(ix) /\ m.entries[ix].count \in Nat
      /\ B(ix + 1) = B(ix) + m.entries[ix].count /\ B(ix + 1) <= B(top + 1)
  BY <1>2, StreamRanges
<1>4. N \in Nat /\ DOMAIN archive.frames = 1 .. N BY FramesListed
<1>5. N + 1 = archive.frameCount BY <1>1 DEF StreamWhole
<1>6. /\ occurrence \in 0 .. m.entries[ix].count /\ frameIndex = m.entries[ix].first + occurrence
      /\ occurrence < m.entries[ix].count
  BY DEF BlocksChecked, Begun, MoreBlocks
<1>7. B(ix) \in Nat /\ B(top + 1) \in Nat
  <2>1. ix \in 1 .. top + 1 /\ top + 1 \in 1 .. top + 1 BY <1>2, <1>3
  <2> QED BY <1>3, <2>1
<1>8. frameIndex \in 1 .. N /\ occurrence \in 0 .. m.entries[ix].count - 1
  <2> DEFINE first == m.entries[ix].first
             count == m.entries[ix].count
             low == B(ix)
             next == B(ix + 1)
             high == B(top + 1)
  <2>1. /\ first = 1 + low /\ count \in Nat /\ next = low + count /\ next <= high
        /\ N + 1 = 1 + high /\ N \in Nat /\ low \in Nat /\ high \in Nat
        /\ occurrence \in 0 .. count /\ frameIndex = first + occurrence /\ occurrence < count
    BY <1>3, <1>4, <1>5, <1>6, <1>7
  <2> HIDE DEF first, count, low, next, high, N
  <2>2. frameIndex \in 1 .. N /\ occurrence \in 0 .. count - 1 BY <2>1
  <2> QED BY <2>2 DEF count
<1>9. f.sealed /\ f.index = frameIndex BY <1>1, <1>4, <1>8 DEF AllSealed
<1>10. f = BlockFrame(archive, ix, occurrence) BY <1>2, <1>6 DEF BlockFrame
<1>11. /\ BlockFrame(archive, ix, occurrence).entry = ix - 1
       /\ BlockFrame(archive, ix, occurrence).size = BlockSize(m, ix, occurrence)
  BY <1>1, <1>2, <1>3, <1>8 DEF StreamWhole
<1>12. frameIndex <= N BY <1>4, <1>8
<1> HIDE DEF f
<1> QED BY <1>9, <1>10, <1>11, <1>12 DEF BlockGood, f

(* The frame of the next chunk or block passes.                              *)
LEMMA FramePasses ==
    ASSUME Staged, ArchiveOK, Parsed, Placed, Counted, Metered, Verified, Faultless
    PROVE  ~RefusesFrame
  BY UniquePasses, BlockPasses DEF Verified, RefusesFrame

(* The chunks of a file have the digest of its entry.                        *)
LEMMA DigestPasses ==
    ASSUME Staged, ArchiveOK, Parsed, Placed, Counted, Metered, Verified, Faultless
    PROVE  ~RefusesDigest
<1> SUFFICES ASSUME pc = "chunks", NoMore PROVE taken = m.entries[ix].digest BY DEF RefusesDigest
<1> DEFINE e == m.entries[ix]
<1>1. /\ Intact(archive) /\ archive.format = format
      /\ ix \in 1 .. Len(m.entries) /\ e.kind = "file" /\ m \in ManifestFields
  BY DEF Faultless, Placed, Parsed, Readable, Holding
<1>2. Established(archive, m) BY DEF Verified, Known, Begun
<1>3. ix \in DOMAIN m.entries BY <1>1, EntriesListed
<1>4. CASE format \in Tabled
  <2>1. e.first \in Nat /\ occurrence \in e.first .. e.first + e.count /\ e.count \in Nat
    BY <1>4, InTable
  <2>2. ~(occurrence < e.first + e.count) BY <1>4 DEF NoMore, InEntry, MoreChunks, Tabled
  <2>3. occurrence - e.first = e.count
    <3> HIDE DEF e
    <3> QED BY <2>1, <2>2
  <2>4. taken = ChunkDigests(m, e, occurrence - e.first)
    BY <1>4 DEF Verified, TableChecked, Begun
  <2>5. taken = ChunkDigests(m, e, e.count) BY <2>3, <2>4
  <2>6. CASE format = "MSC6"
    <3>1. m = archive.manifest BY <1>1, <1>2, <2>6 DEF Established
    <3>2. Whole(archive) BY <1>1, <2>6 DEF Intact, Unaltered
    <3>3. UniquesPassed(archive, m, Len(archive.frames), Len(m.chunks))
      BY <1>1, <2>6, <3>1, WholePassed
    <3>4. ReferencesDirect(m) /\ RangesCover(m)
      BY <3>1, <3>2 DEF Whole, ParseDedupManifest
    <3>5. DOMAIN archive.frames = 1 .. Len(archive.frames) BY FramesListed
    <3>6. Restored(archive, e) = ChunkDigests(m, e, e.count)
      BY <1>1, <3>1, <3>3, <3>4, <3>5, RestoredHeld
    <3>7. Restored(archive, e) = e.digest BY <1>1, <1>3, <3>1, <3>2 DEF Whole
    <3> QED BY <2>5, <3>6, <3>7
  <2>7. CASE format # "MSC6"
    <3>1. DigestsMatch(m)
      BY <1>1, <1>2, <1>4, <2>7 DEF Established, Intact, Unaltered, SolidWhole, LanesWhole, Tabled
    <3>2. ChunkDigests(m, e, e.count) = e.digest
      BY <1>1, <1>3, <3>1 DEF DigestsMatch, ChunkDigests
    <3> QED BY <2>5, <3>2
  <2> QED BY <2>6, <2>7
<1>5. CASE format = "MSC2"
  <2>1. m = archive.manifest BY <1>1, <1>2, <1>5 DEF Established
  <2>2. StreamRestored(archive, ix) = e.digest
    BY <1>1, <1>3, <1>5, <2>1 DEF Intact, Unaltered, StreamWhole
  <2>3. /\ occurrence \in 0 .. e.count /\ ~(occurrence < e.count)
        /\ taken = BlocksOf(archive, ix, occurrence)
    BY <1>5 DEF Verified, BlocksChecked, Begun, NoMore, MoreBlocks
  <2>4. e \in EntryRecord BY <1>1, EntriesListed
  <2>5. e.count \in Nat BY <2>4 DEF EntryRecord
  <2>6. occurrence = e.count
    <3> HIDE DEF e
    <3> QED BY <2>3, <2>5
  <2> QED BY <2>1, <2>2, <2>3, <2>6 DEF BlocksOf, StreamRestored
<1>6. CASE format = "MSC1"
  <2> DEFINE N == Len(archive.frames)
  <2>1. m = archive.manifest BY <1>1, <1>2, <1>6 DEF Established
  <2>2. N \in Nat /\ DOMAIN archive.frames = 1 .. N BY FramesListed
  <2>3. ix = 1 /\ taken = RecordChunks(archive, frameIndex - 1)
    BY <1>6 DEF Verified, RecordsChecked
  <2>4. frameIndex \in 1 .. N + 1 /\ frameIndex > N
    BY <1>6 DEF Metered, RecordsMetered, NoMore, Begun
  <2>5. frameIndex - 1 = N
    <3> HIDE DEF N
    <3> QED BY <2>2, <2>4
  <2>6. [k \in DOMAIN archive.frames |-> archive.frames[k].chunk] = archive.manifest.entries[1].digest
    BY <1>1, <1>6 DEF Intact, Unaltered, SingleWhole
  <2> QED BY <2>1, <2>2, <2>3, <2>5, <2>6 DEF RecordChunks
<1>7. format \in Format BY <1>1, FramesListed
<1> QED BY <1>4, <1>5, <1>6, <1>7 DEF Format, Tabled

(* The archive ends where it should.                                         *)
LEMMA EndPasses ==
    ASSUME Staged, ArchiveOK, Parsed, Placed, Counted, Metered, Verified, Faultless
    PROVE  ~RefusesEnd
<1> SUFFICES ASSUME pc = "entry", ix > Len(m.entries)
             PROVE  (format = "MSC6" => Terminated) /\ (format = "MSC2" => StreamTerminated)
  BY DEF RefusesEnd
<1> DEFINE N == Len(archive.frames)
<1>1. /\ Intact(archive) /\ archive.format = format /\ m \in ManifestFields
      /\ ix \in 1 .. Len(m.entries) + 1
  BY DEF Faultless, Placed, Parsed, Readable, Holding
<1>2. ~archive.trailing /\ Established(archive, m) BY <1>1 DEF Intact, Unaltered, Verified, Known, Begun
<1>3. N \in Nat BY FramesListed
<1>4. ix = Len(m.entries) + 1 /\ Len(m.entries) \in Nat
  <2>1. Len(m.entries) \in Nat BY <1>1, EntriesListed
  <2> QED BY <1>1, <2>1
<1>5. frameIndex \in Nat \ {0} BY DEF Metered, Begun
<1>6. ASSUME format = "MSC6" PROVE Terminated
  <2>1. m = archive.manifest BY <1>1, <1>2, <1>6 DEF Established
  <2>2. UniquesPassed(archive, m, N, Len(m.chunks)) BY <1>1, <1>6, <2>1, WholePassed
  <2>3. UniquesPassed(archive, m, frameIndex - 1, occurrence)
    BY <1>6 DEF Verified, UniquesChecked, Begun
  <2>4. Whole(archive) BY <1>1, <1>6 DEF Intact, Unaltered
  <2>5. RangesCover(m) /\ N + 1 = archive.frameCount
    BY <2>1, <2>4 DEF Whole, ParseDedupManifest
  <2>6. occurrence = Len(m.chunks) /\ Len(m.chunks) \in Nat
    BY <1>1, <1>4, <1>6, <2>5, EntriesListed DEF Counted, Tabled, RangesCover
  <2>7. frameIndex - 1 = N
    <3>1. InStep(archive, m, frameIndex - 1, occurrence) BY <1>1, <1>3, <2>2, <2>3, <2>6, NextUnique
    <3> QED BY <2>6, <3>1 DEF InStep
  <2>8. frameIndex = N + 1 /\ N < frameIndex
    <3> HIDE DEF N
    <3> QED BY <1>3, <1>5, <2>7
  <2> QED BY <1>2, <2>5, <2>8 DEF Terminated
<1>7. ASSUME format = "MSC2" PROVE StreamTerminated
  <2>1. m = archive.manifest /\ ParseManifest(m, archive.frameCount)
    BY <1>1, <1>2, <1>7 DEF Established
  <2>2. N + 1 = archive.frameCount BY <1>1, <1>7 DEF Intact, Unaltered, StreamWhole
  <2>3. archive.frameCount = 1 + ChunksBefore(m.entries, Len(m.entries) + 1)
    BY <1>1, <2>1, StreamRanges
  <2>4. frameIndex = 1 + ChunksBefore(m.entries, Len(m.entries) + 1)
    BY <1>4, <1>7 DEF Verified, BlocksChecked, Begun
  <2>5. N < frameIndex BY <1>3, <2>2, <2>3, <2>4
  <2> QED BY <1>2, <2>2, <2>3, <2>4, <2>5 DEF StreamTerminated
<1> QED BY <1>6, <1>7

(* The place of a lane among the frames of an MSR2 archive that is intact.   *)
LEMMA LanePlaces ==
    ASSUME Staged, ArchiveOK, Placed, Metered, Known, LanesChecked, Faultless, pc = "lanes"
    PROVE  /\ format = "MSR2" /\ archive.format = "MSR2" /\ LanesWhole(archive)
           /\ m = ReadManifestOf(archive.metadata)
           /\ Assigned = ReadLanesOf(archive.metadata, archive.unique)
           /\ Len(archive.frames) \in Nat
           /\ Len(archive.frames) = LaneStart(archive.metadata, 3)
           /\ \A l \in Lanes : archive.metadata.frameCounts[l] \in Nat
           /\ \A l \in 0 .. 3 : LaneStart(archive.metadata, l) \in Nat
           /\ \A l \in Lanes :
                 LaneStart(archive.metadata, l) + archive.metadata.frameCounts[l]
                 <= Len(archive.frames)
           /\ \A k \in 1 .. Len(archive.frames) : archive.frames[k].payload \in Seq(Token)
<1> DEFINE md == archive.metadata
           N == Len(archive.frames)
<1>1. format = "MSR2" /\ archive.format = "MSR2" /\ m = ReadManifestOf(md) BY InLanes
<1>2. LanesWhole(archive) BY <1>1 DEF Faultless, Intact, Unaltered
<1>3. /\ \A l \in Lanes : md.frameCounts[l] \in Nat
      /\ N \in Nat
      /\ \A k \in 1 .. N : archive.frames[k].payload \in Seq(Token)
  BY <1>1, LanesListed
<1>4. /\ \A l \in 0 .. 3 : LaneStart(md, l) \in Nat /\ LaneStart(md, l) <= LaneStart(md, 3)
      /\ \A l \in Lanes : LaneStart(md, l + 1) = LaneStart(md, l) + md.frameCounts[l]
  <2> HIDE DEF md
  <2> QED BY <1>3, LaneStarts
<1>5. N = LaneStart(md, 3) BY <1>2 DEF LanesWhole
<1>6. \A l \in Lanes : LaneStart(md, l) + md.frameCounts[l] <= N
  <2> SUFFICES ASSUME NEW l \in Lanes PROVE LaneStart(md, l) + md.frameCounts[l] <= N OBVIOUS
  <2>1. l + 1 \in 0 .. 3 BY DEF Lanes
  <2>2. LaneStart(md, l + 1) <= LaneStart(md, 3) BY <1>4, <2>1
  <2>3. LaneStart(md, l + 1) = LaneStart(md, l) + md.frameCounts[l] BY <1>4
  <2> QED BY <1>5, <2>2, <2>3
<1> QED BY <1>1, <1>2, <1>3, <1>4, <1>5, <1>6 DEF Assigned

(* The next frame of a lane of MSR2 passes.                                  *)
LEMMA LaneFramePasses ==
    ASSUME Staged, ArchiveOK, Placed, Metered, Known, LanesChecked, Faultless, pc = "lanes",
           ix \in Lanes, InLane
    PROVE  LaneFrameGood
<1> DEFINE md == archive.metadata
           N == Len(archive.frames)
           S == LaneStart(md, ix)
           C == md.frameCounts[ix]
           f == archive.frames[frameIndex]
           k == occurrence + 1
           s == LaneParts(archive, ix)
           codec == ReadCodecOf(md, ix)
<1>1. /\ LanesWhole(archive) /\ m = ReadManifestOf(md)
      /\ Assigned = ReadLanesOf(md, archive.unique)
      /\ N \in Nat /\ C \in Nat /\ S \in Nat /\ S + C <= N
      /\ \A i \in 1 .. N : archive.frames[i].payload \in Seq(Token)
  <2>1. ix \in 0 .. 3 BY DEF Lanes
  <2> QED BY <2>1, LanePlaces
<1>2. /\ frameIndex = S + occurrence + 1 /\ occurrence \in 0 .. C
      /\ spool[ix] = Concat(Prefix(s, occurrence))
  BY DEF LanesChecked
<1>3. occurrence < C BY DEF InLane
<1>4. k \in 1 .. C /\ frameIndex = S + k /\ frameIndex \in 1 .. N /\ occurrence \in Nat
  <2> HIDE DEF C, S, N
  <2> QED BY <1>1, <1>2, <1>3
<1>5. f = LaneFrame(archive, ix, k) BY <1>4 DEF LaneFrame
<1>6. f.sealed /\ f.index = frameIndex
  <2>1. DOMAIN archive.frames = 1 .. N BY FramesListed
  <2> QED BY <1>1, <1>4, <2>1 DEF LanesWhole
<1>7. LaneGood(archive, ix) BY <1>1 DEF LanesWhole
<1>8. Final = (k = C)
  <2> HIDE DEF C
  <2>1. (occurrence = C - 1) <=> (k = C) BY <1>1, <1>4
  <2> QED BY <2>1 DEF Final, C
<1>9. f.lane = ix /\ f.final = Final /\ PayloadSizeGood(f, Final) /\ StreamEnds(f, codec, Final)
  BY <1>4, <1>5, <1>7, <1>8 DEF LaneGood
<1>10. Fits(FrameUnits(f, codec))
  <2>1. /\ LaneRead(archive, ix) = Concat(Prefix(s, C))
        /\ \A i \in 1 .. C : s[i] = FrameUnits(LaneFrame(archive, ix, i), codec)
        /\ \E U : Token = Seq(U) /\ Concats(s, C, U)
    <3>1. C \in 0 .. C BY <1>1
    <3> HIDE DEF s
    <3> QED BY <1>1, <3>1, PartsJoined DEF s
  <2>2. PICK U : Token = Seq(U) /\ Concats(s, C, U) BY <2>1
  <2>3. \A i \in 1 .. C : s[i] \in Seq(U)
    <3> SUFFICES ASSUME NEW i \in 1 .. C PROVE s[i] \in Token BY <2>2
    <3>1. S + i \in 1 .. N
      <4> HIDE DEF S, C, N
      <4> QED BY <1>1
    <3>2. LaneFrame(archive, ix, i).payload \in Seq(Token) BY <1>1, <3>1 DEF LaneFrame
    <3> HIDE DEF s, codec
    <3> QED BY <2>1, <3>2, FrameUnitsTyped
  <2>4. Len(Concat(Prefix(s, k))) <= Len(Concat(Prefix(s, C)))
    <3>1. k \in 0 .. C /\ C \in k .. C
      <4> HIDE DEF C
      <4> QED BY <1>1, <1>4
    <3> HIDE DEF s, C, k
    <3> QED BY <1>1, <2>2, <2>3, <3>1, ConcatGrows
  <2>5. Concat(Prefix(s, k)) = spool[ix] \o FrameUnits(f, codec)
    <3>1. k - 1 = occurrence BY <1>4
    <3>2. s[k] = FrameUnits(f, codec) BY <1>4, <1>5, <2>1
    <3>3. Concat(Prefix(s, k)) = Concat(Prefix(s, k - 1)) \o s[k] BY <1>4, <2>2 DEF Concats
    <3> HIDE DEF s, k, f, codec
    <3> QED BY <1>2, <3>1, <3>2, <3>3
  <2>6. spool[ix] \in Seq(U) /\ FrameUnits(f, codec) \in Seq(U)
    <3>1. k - 1 \in 0 .. C /\ k - 1 = occurrence
      <4> HIDE DEF C
      <4> QED BY <1>1, <1>4
    <3>2. s[k] = FrameUnits(f, codec) BY <1>4, <1>5, <2>1
    <3>3. Concat(Prefix(s, k - 1)) \in Seq(U) BY <2>2, <3>1 DEF Concats
    <3>4. s[k] \in Seq(U) BY <1>4, <2>3
    <3> HIDE DEF s, k, f, codec
    <3> QED BY <1>2, <3>1, <3>2, <3>3, <3>4
  <2>7. Len(LaneRead(archive, ix)) = ExpectedSize(ix) BY <1>1 DEF LanesWhole, ExpectedSize
  <2>8. Len(spool[ix] \o FrameUnits(f, codec)) = Len(spool[ix]) + Len(FrameUnits(f, codec))
    <3> HIDE DEF f, codec
    <3> QED BY <2>6
  <2> HIDE DEF s, k, f, codec, C
  <2> QED BY <2>1, <2>4, <2>5, <2>7, <2>8 DEF Fits
<1>11. frameIndex <= N BY <1>1, <1>4
<1> HIDE DEF f, codec
<1> QED BY <1>6, <1>9, <1>10, <1>11 DEF LaneFrameGood, HeaderGood, f, codec

(* A lane that was read to its end has the size it should have.              *)
LEMMA LaneSizePasses ==
    ASSUME Staged, ArchiveOK, Placed, Metered, Known, LanesChecked, Faultless, pc = "lanes",
           ix \in Lanes, ~InLane
    PROVE  Len(spool[ix]) = ExpectedSize(ix)
<1> DEFINE md == archive.metadata
           C == md.frameCounts[ix]
           s == LaneParts(archive, ix)
<1>1. /\ LanesWhole(archive) /\ m = ReadManifestOf(md)
      /\ Assigned = ReadLanesOf(md, archive.unique)
      /\ Len(archive.frames) \in Nat /\ C \in Nat /\ LaneStart(md, ix) \in Nat
      /\ LaneStart(md, ix) + C <= Len(archive.frames)
      /\ \A i \in 1 .. Len(archive.frames) : archive.frames[i].payload \in Seq(Token)
  <2>1. ix \in 0 .. 3 BY DEF Lanes
  <2> QED BY <2>1, LanePlaces
<1>2. occurrence \in 0 .. C /\ spool[ix] = Concat(Prefix(s, occurrence)) BY DEF LanesChecked
<1>3. ~(occurrence < C) BY DEF InLane
<1>4. occurrence = C
  <2> HIDE DEF C
  <2> QED BY <1>1, <1>2, <1>3
<1>5. LaneRead(archive, ix) = Concat(Prefix(s, C))
  <2>1. C \in 0 .. C BY <1>1
  <2> HIDE DEF s
  <2> QED BY <1>1, <2>1, PartsJoined DEF s
<1>6. Len(LaneRead(archive, ix)) = ExpectedSize(ix) BY <1>1 DEF LanesWhole, ExpectedSize
<1> HIDE DEF s, C
<1> QED BY <1>2, <1>4, <1>5, <1>6

(* The lanes hold the unique chunks, and nothing follows them.               *)
LEMMA LaneChunksPass ==
    ASSUME Staged, ArchiveOK, Placed, Metered, Known, LanesChecked, Faultless, pc = "lanes",
           ix \notin Lanes
    PROVE  NothingFollows /\ LaneChunksGood
<1> DEFINE md == archive.metadata
           N == Len(archive.frames)
           content == [l \in Lanes |-> LaneRead(archive, l)]
<1>1. /\ LanesWhole(archive) /\ m = ReadManifestOf(md)
      /\ Assigned = ReadLanesOf(md, archive.unique)
      /\ N \in Nat /\ N = LaneStart(md, 3)
  BY LanePlaces
<1>2. ix \in 0 .. 3 /\ (ix = 3 => occurrence = 0) /\ spool \in [Lanes -> Token] BY InLanes
<1>3. ix = 3 /\ occurrence = 0 BY <1>2 DEF Lanes
<1>4. /\ frameIndex = LaneStart(md, ix) + occurrence + 1
      /\ \A l \in Lanes : l < ix => spool[l] = LaneRead(archive, l)
  BY DEF LanesChecked
<1>5. NothingFollows
  <2>1. ~archive.trailing BY DEF Faultless, Intact, Unaltered
  <2>2. N < frameIndex
    <3> HIDE DEF N
    <3> QED BY <1>1, <1>3, <1>4
  <2> QED BY <2>1, <2>2 DEF NothingFollows
<1>6. spool = content
  <2>1. \A l \in Lanes : l < ix BY <1>3 DEF Lanes
  <2> QED BY <1>2, <1>4, <2>1
<1>7. ChunksRestored(m, LAMBDA k : ChunkIn(content, Assigned, SizesOf(m), k))
  BY <1>1 DEF LanesWhole
<1>8. LaneChunksGood BY <1>6, <1>7 DEF LaneChunksGood
<1> QED BY <1>5, <1>8

(* No lane is refused.                                                       *)
LEMMA LanePasses ==
    ASSUME Staged, ArchiveOK, Placed, Metered, Verified, Faultless PROVE ~RefusesLane
  BY LaneFramePasses, LaneSizePasses, LaneChunksPass DEF Verified, RefusesLane

-----------------------------------------------------------------------------
(* The refusal of an archive has a reason.                                   *)

(* The refusals for the contents of an archive have a reason.                *)
Reasoned ==
    error \in Refusals =>
        \/ ~Intact(archive) \/ Limited(archive)
        \/ called = "api" /\ archive.format \notin Dispatched
        \/ format # "none" /\ archive.format # format

(* A step that refuses an archive had a reason.                              *)
LEMMA RefusesStep ==
    ASSUME DecodersInv, DecodersInv', Verified, Reasoned, [Next]_vars PROVE Reasoned'
<1> SUFFICES ASSUME error' \in Refusals PROVE Reasoned' BY DEF Reasoned
<1>1. /\ Staged /\ ArchiveOK /\ Parsed /\ Placed /\ Counted /\ Metered
  BY DEF DecodersInv
<1>2. CASE error \in Refusals
  <2>1. ~Running BY <1>1, <1>2 DEF Staged, Clean, Refusals
  <2>2. UNCHANGED <<archive, format, called>> BY <2>1, EndsStill
  <2> QED BY <1>2, <2>2 DEF Reasoned, Intact, Unaltered, Limited
<1>3. CASE error \notin Refusals
  <2>1. error' \in {"ArchiveFormatError", "IntegrityError"}
    BY DEF DecodersInv, CacheHit, Refusals
  <2>2. /\ UNCHANGED <<archive, format, called>>
        /\ \/ called = "api" /\ archive.format \notin Dispatched
           \/ RefusesHeader \/ RefusesManifest \/ RefusesLane \/ RefusesFrame \/ RefusesDigest
           \/ RefusesEnd
    BY <1>3, <2>1, Refusing
  <2>3. CASE called = "api" /\ archive.format \notin Dispatched
    BY <2>2, <2>3 DEF Reasoned
  <2>4. CASE ~(called = "api" /\ archive.format \notin Dispatched)
    <3>1. ~Faultless
      BY <1>1, <2>2, <2>4, HeaderPasses, ManifestPasses, LanePasses, FramePasses, DigestPasses,
         EndPasses
    <3>2. format # "none"
      <4>1. pc # "call" /\ Running
        BY <2>2, <2>4 DEF RefusesHeader, RefusesManifest, RefusesLane, RefusesFrame, RefusesDigest,
           RefusesEnd, Running
      <4> QED BY <1>1, <4>1 DEF Staged, Stage, Running
    <3> QED BY <2>2, <3>1, <3>2 DEF Reasoned, Faultless, Intact, Unaltered, Limited
  <2> QED BY <2>3, <2>4
<1> QED BY <1>2, <1>3

(* An archive that is intact and within the limits passes every check of the *)
(* decoder of its format, and is refused for a directory that is there only  *)
(* when its directories come late or the destination of a tree exists.       *)
THEOREM RefusesOnlyDamagedHolds == Spec => []RefusesOnlyDamaged
<1>1. Init => Reasoned BY DEF Init, Reasoned, Refusals
<1>2. DecodersInv /\ DecodersInv' /\ Verified /\ Reasoned /\ [Next]_vars => Reasoned'
  BY RefusesStep
<1>3. Reasoned /\ Ordered => RefusesOnlyDamaged BY DEF Reasoned, Refusals, Ordered, RefusesOnlyDamaged
<1> QED BY <1>1, <1>2, <1>3, DecodersInvariant, VerifiedHolds, OrderedHolds, PTL DEF Spec
==============================================================================
