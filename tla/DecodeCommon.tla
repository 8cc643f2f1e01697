----------------------------- MODULE DecodeCommon -----------------------------
(* What the decoders have in common: the archive is opened and told apart    *)
(* from the destination, its manifest is read and checked, the entries are   *)
(* restored in order into a temporary file or tree beside the destination,   *)
(* which is renamed to it at the end.  The archive is any file that holds    *)
(* frames sealed by someone who has the password, cut, extended, reordered   *)
(* or damaged at will.  Other processes rebind the destination and the name  *)
(* of the archive meanwhile.                                                 *)
EXTENDS StreamManifest, SolidLanes

CONSTANTS
    Starts,      \* what a decoder may be started on: an archive, the files that may take its
                 \* place, the function called, and what the destination is and becomes
    MaxOutput,   \* max_output_size
    MaxFrames,   \* max_frame_count
    MaxArchive   \* max_legacy_archive_size, in frames

Format == {"MSC1", "MSC2", "MSC6", "MSR1", "MSR2"}
Named == {"absent", "file", "alias", "emptydir", "fulldir"}

(* What the frames behind the seals can say, true or not. *)
FrameFields(kind) ==
    CASE kind = "MSC1" -> Seq([size : Nat, chunk : DOMAIN LaneOf])
      [] kind = "MSC2" -> Seq([sealed : BOOLEAN, index : Nat, entry : Nat, size : Nat,
                               chunk : DOMAIN LaneOf])
      [] kind = "MSC6" -> Seq([sealed : BOOLEAN, index : Nat, occurrence : Nat, size : Nat,
                               chunk : DOMAIN LaneOf])
      [] kind = "MSR1" -> Seq([descriptors : Seq([lane : Nat, size : Nat]),
                               lanes : [Lanes -> [raw : Nat, payload : Seq(Token)]]])
      [] kind = "MSR2" -> Seq([sealed : BOOLEAN, index : Nat, lane : Nat, final : BOOLEAN,
                               payload : Seq(Token)])

(* The one file that the inner prefix of MSC1 names. *)
SingleFile(manifest) ==
    manifest.kind = "file" /\ Len(manifest.entries) = 1 /\ manifest.entries[1].kind = "file"

(* The fields of a file, by its format; a file behind no seal is refused, whatever it holds. *)
Fields(a) ==
    /\ a.format \in Format /\ a.sealed \in BOOLEAN /\ a.trailing \in BOOLEAN
    /\ a.frames \in FrameFields(a.format)
    /\ IF a.format = "MSR2" THEN a.metadata \in LegacyMetadata \cup CompactForm
       ELSE a.manifest \in ManifestFields
    /\ IF a.format \in {"MSR1", "MSR2"} THEN a.unique \in Nat ELSE a.frameCount \in Nat
    /\ a.format = "MSC1" => SingleFile(a.manifest)

(* The parent of a path is a shorter path. *)
ASSUME PathAssumption ==
    /\ \A p \in RecordPath : ParentOf[p] \in RecordPath
    /\ \A S \in SUBSET RecordPath :
          S # {} => \E p \in S : ParentOf[p] = p \/ ParentOf[p] \notin S

ASSUME DecodeAssumption ==
    /\ \A s \in Starts :
          /\ s.called \in Format \cup {"api"} /\ s.inspects \subseteq BOOLEAN
          /\ s.dests \subseteq Named
          /\ \A a \in {s.archive} \cup s.swaps : Fields(a)
    /\ MaxChunk \in Nat \ {0} /\ MaxOutput \in Nat /\ MaxFrames \in Nat \ {0} /\ MaxArchive \in Nat

VARIABLES
    archive,     \* the file at the path of the archive; the one behind the handle once it is open
    swaps,       \* files another process may put there before it is opened
    called,      \* decode_path or inspect_path ("api"), or one format's own function
    inspect,     \* nothing is to be restored
    format,      \* the decoder at work
    dest,        \* what the destination path names now
    rebinds,     \* changes other processes may still make to it
    pc,          \* where the decoder is
    error,       \* the exception that was raised
    m,           \* the manifest, once it was accepted
    ix,          \* the manifest entry being restored; the lane being read
    occurrence,  \* the next occurrence, or frame, of it
    frameIndex,  \* the next frame to read
    taken,       \* the chunks written to the open sink
    written,     \* completed_bytes: the size of what was written out
    spool,       \* the lanes in the temporary directory (MSR2)
    cache,       \* the occurrences whose chunk is kept: chunk files, or canonical chunks
    temp,        \* the temporary output: absent, or what was written so far
    published    \* the output renamed to the destination

given    == <<archive, swaps, called, inspect>>
position == <<m, ix, occurrence, frameIndex, taken, written>>
scratch  == <<spool, cache>>
vars     == <<given, format, dest, rebinds, pc, error, position, scratch, temp, published>>

NoManifest == [kind |-> "file", root |-> "none", entries |-> <<>>, chunks |-> <<>>]
NoOutput == [made |-> FALSE, dirs |-> {}, files |-> {}]
NoSpool == [l \in Lanes |-> <<>>]

Running == pc \notin {"done", "failed", "killed"}

FailDirty(reason) ==   \* faulty: the temporary output and the cache stay
    /\ pc' = "failed" /\ error' = reason
    /\ UNCHANGED <<given, format, dest, rebinds, position, scratch, temp, published>>

(* The except and finally clauses: the sink is closed, the temporary output  *)
(* and the cache or spool directory are removed.  The exceptions that refuse *)
(* an archive for its bytes (format, authentication) share one name.         *)
Fail(reason) ==
    /\ pc' = "failed" /\ error' = reason
    /\ temp' = NoOutput /\ spool' = NoSpool /\ cache' = {}
    /\ UNCHANGED <<given, format, dest, rebinds, position, published>>

-----------------------------------------------------------------------------
(* decode_path and inspect_path read four bytes of the archive and close it; *)
(* the decoder they choose opens it again.                                   *)

Dispatched == {"MSC1", "MSC2", "MSC6", "MSR2"}

Dispatch ==
    /\ pc = "call"
    /\ \/ called = "api" /\ archive.format \notin Dispatched /\ Fail("ArchiveFormatError")
       \/ /\ called = "api" => archive.format \in Dispatched
          /\ format' = IF called = "api" THEN archive.format ELSE called
          /\ pc' = "open"
          /\ UNCHANGED <<given, dest, rebinds, error, position, scratch, temp, published>>

(* The archive is opened and compared with what the destination names.       *)
Open ==
    /\ pc = "open"
    /\ \/ ~inspect /\ dest = "alias" /\ Fail("ValueError")
       \/ /\ inspect \/ dest # "alias"
          /\ pc' = "header"
          /\ UNCHANGED <<given, format, dest, rebinds, error, position, scratch, temp, published>>

ManifestAccepted(manifest) ==
    /\ m' = manifest
    /\ pc' = "prepare"
    /\ UNCHANGED <<given, format, dest, rebinds, error, ix, occurrence, frameIndex, taken,
                   written, scratch, temp, published>>

-----------------------------------------------------------------------------
(* The temporary output.  inspect_solid_archive_v2 restores into a directory *)
(* of its own; the others restore nothing.                                   *)

PrepareOutput ==
    /\ pc = "prepare"
    /\ \/ ~inspect /\ m.kind = "folder" /\ dest # "absent" /\ Fail("FileExistsError")
       \/ /\ inspect \/ m.kind = "file" \/ dest = "absent"
          /\ temp' = [NoOutput EXCEPT !.made = ~inspect \/ format = "MSR2"]
          /\ pc' = "entry" /\ ix' = 1 /\ frameIndex' = 1 /\ written' = 0
          /\ UNCHANGED <<given, format, dest, rebinds, error, m, occurrence, taken, scratch,
                         published>>

(* dirs holds the directories that exist in the temporary tree:              *)
(* mkdir(parents=True, exist_ok=False) makes the missing parents of a        *)
(* directory and refuses one that is there.                                  *)
Missing(path) == LET up[p \in DOMAIN ParentOf] == IF ParentOf[p] = p THEN {}
                                                  ELSE {ParentOf[p]} \cup up[ParentOf[p]]
                 IN  up[path]

RestoreDirectoryAgain ==   \* faulty: the entry is not left
    /\ pc = "entry" /\ ix <= Len(m.entries) /\ m.entries[ix].kind = "dir"
    /\ temp' = IF temp.made THEN [temp EXCEPT !.dirs = @ \cup {m.entries[ix].path}] ELSE temp
    /\ UNCHANGED <<given, format, dest, rebinds, pc, error, position, scratch, published>>

RestoreDirectory ==
    /\ pc = "entry" /\ ix <= Len(m.entries) /\ m.entries[ix].kind = "dir"
    /\ LET path == m.entries[ix].path IN
       \/ temp.made /\ path \in temp.dirs /\ Fail("FileExistsError")
       \/ /\ ~temp.made \/ path \notin temp.dirs
          /\ temp' = IF temp.made THEN [temp EXCEPT !.dirs = @ \cup {path} \cup Missing(path)]
                     ELSE temp
          /\ ix' = ix + 1
          /\ UNCHANGED <<given, format, dest, rebinds, pc, error, m, occurrence, frameIndex,
                         taken, written, scratch, published>>

OpenSink(first) ==
    /\ pc = "entry" /\ ix <= Len(m.entries) /\ m.entries[ix].kind = "file"
    /\ temp' = IF temp.made /\ m.kind = "folder"
               THEN [temp EXCEPT !.dirs = @ \cup Missing(m.entries[ix].path)] ELSE temp
    /\ occurrence' = first
    /\ taken' = <<>>
    /\ pc' = "chunks"
    /\ UNCHANGED <<given, format, dest, rebinds, error, m, ix, frameIndex, written, scratch,
                   published>>

(* A chunk or block of the entry goes to the sink and to the digest. *)
Write(chunk, size) ==
    /\ taken' = Append(taken, chunk) /\ written' = written + size
    /\ occurrence' = occurrence + 1
    /\ UNCHANGED <<given, format, dest, rebinds, pc, error, m, ix, spool, temp, published>>

CloseSinkLosing ==   \* faulty: an empty file is not created
    /\ pc = "chunks"
    /\ \/ taken # m.entries[ix].digest /\ Fail("IntegrityError")
       \/ /\ taken = m.entries[ix].digest
          /\ temp' = IF temp.made /\ taken # <<>>
                     THEN [temp EXCEPT !.files = @ \cup {<<m.entries[ix].path, taken>>}] ELSE temp
          /\ pc' = "entry" /\ ix' = ix + 1
          /\ UNCHANGED <<given, format, dest, rebinds, error, m, occurrence, frameIndex, taken,
                         written, scratch, published>>

CloseSink ==
    /\ pc = "chunks"
    /\ \/ taken # m.entries[ix].digest /\ Fail("IntegrityError")
       \/ /\ taken = m.entries[ix].digest
          /\ temp' = IF temp.made
                     THEN [temp EXCEPT !.files = @ \cup {<<m.entries[ix].path, taken>>}] ELSE temp
          /\ pc' = "entry" /\ ix' = ix + 1
          /\ UNCHANGED <<given, format, dest, rebinds, error, m, occurrence, frameIndex, taken,
                         written, scratch, published>>

-----------------------------------------------------------------------------
(* The end: the archive is complete, the destination still is not it, and    *)
(* the temporary output takes the destination's place.                       *)

Finish(terminated) ==
    /\ pc = "entry" /\ ix > Len(m.entries)
    /\ \/ ~terminated /\ Fail("ArchiveFormatError")
       \/ /\ terminated /\ ~inspect /\ dest = "alias" /\ Fail("ValueError")
       \/ /\ terminated /\ ~inspect /\ dest # "alias"
          /\ pc' = "replace"
          /\ UNCHANGED <<given, format, dest, rebinds, error, position, scratch, temp, published>>
       \/ /\ terminated /\ inspect
          /\ pc' = "done"
          /\ temp' = NoOutput /\ spool' = NoSpool /\ cache' = {}
          /\ UNCHANGED <<given, format, dest, rebinds, error, position, published>>

(* os.replace: a tree only takes the place of nothing or of an empty         *)
(* directory, a file only of what is not a directory.                        *)
Replaceable == IF m.kind = "folder" THEN dest \in {"absent", "emptydir"}
               ELSE dest \notin {"emptydir", "fulldir"}

(* The chunk cache of MSC6 and the spool of MSR2 outlast the publication.    *)
HasScratch == format \in {"MSC6", "MSR2"}

Publish ==
    /\ pc = "replace"
    /\ \/ ~Replaceable /\ Fail("OSError")
       \/ /\ Replaceable
          /\ published' = temp /\ temp' = NoOutput
          /\ dest' = IF m.kind = "folder" THEN "fulldir" ELSE "file"
          /\ pc' = IF HasScratch THEN "unspool" ELSE "done"
          /\ cache' = IF HasScratch THEN cache ELSE {}
          /\ UNCHANGED <<given, format, rebinds, error, position, spool>>

RemoveScratch ==
    /\ pc = "unspool"
    /\ spool' = NoSpool /\ cache' = {}
    /\ pc' = "done"
    /\ UNCHANGED <<given, format, dest, rebinds, error, position, temp, published>>

(* When that fails, so does the call, although the output is published.      *)
ScratchNotRemoved ==
    /\ pc = "unspool"
    /\ pc' = "failed" /\ error' = "OSError"
    /\ UNCHANGED <<given, format, dest, rebinds, position, scratch, temp, published>>

-----------------------------------------------------------------------------
(* An I/O error or an exception of the progress callback. *)
Fault == Running /\ pc # "unspool" /\ Fail("Exception")

(* A KeyboardInterrupt is no Exception: the MSR decoders, which clean up in  *)
(* an except clause for those, leave the temporary output to stay.           *)
Interrupt ==
    /\ Running /\ pc # "unspool"
    /\ pc' = "failed" /\ error' = "KeyboardInterrupt"
    /\ temp' = IF format \in {"MSR1", "MSR2"} /\ ~inspect THEN temp ELSE NoOutput
    /\ spool' = NoSpool /\ cache' = {}
    /\ UNCHANGED <<given, format, dest, rebinds, position, published>>

Kill ==
    /\ Running
    /\ pc' = "killed"
    /\ UNCHANGED <<given, format, dest, rebinds, error, position, scratch, temp, published>>

Rebind ==
    /\ Running /\ rebinds > 0
    /\ rebinds' = rebinds - 1
    /\ dest' \in Named \ {dest}
    /\ UNCHANGED <<given, format, pc, error, position, scratch, temp, published>>

Swap ==
    /\ pc = "open" /\ swaps # {}
    /\ archive' \in swaps /\ swaps' = {}
    /\ UNCHANGED <<called, inspect, format, dest, rebinds, pc, error, position, scratch, temp,
                   published>>
=============================================================================
