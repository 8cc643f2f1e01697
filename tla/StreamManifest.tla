---------------------------- MODULE StreamManifest ---------------------------
(* The MSC2 manifest (stream_archive.py) and the inner stream of MSC1        *)
(* (archive.py): a file is its blocks of chunk_size, one frame or record     *)
(* each, in order, with no table and no duplicates.  The manifest reuses the *)
(* entries of MSC6 without a chunk table; first is the first frame of a      *)
(* file, counted from 1 because frame 0 holds the manifest, and MaxChunk is  *)
(* header.chunk_size.                                                        *)
EXTENDS DedupManifest

(* (size + chunk_size - 1) // chunk_size *)
FramesFor(size) == (size + MaxChunk - 1) \div MaxChunk

FramesBefore(m, i) == ChunksBefore(m.entries, i)

RangesConsecutive(m, frameCount) ==
    /\ \A i \in DOMAIN m.entries :
          m.entries[i].kind = "file" =>
              /\ m.entries[i].count = FramesFor(m.entries[i].size)
              /\ m.entries[i].first = 1 + FramesBefore(m, i)
    /\ 1 + FramesBefore(m, Len(m.entries) + 1) = frameCount

ParseManifest(m, frameCount) ==
    /\ PathsCanonical(m) /\ DirectoriesEmpty(m)
    /\ RangesConsecutive(m, frameCount)
    /\ ShapeOK(m)

(* What a data frame of entry i says of itself, block after block. *)
BlockSize(m, i, block) ==
    LET left == m.entries[i].size - block * MaxChunk IN IF left < MaxChunk THEN left ELSE MaxChunk

-----------------------------------------------------------------------------
(* The reference reading: the range of an entry says which frames hold its   *)
(* blocks.                                                                   *)

BlockFrame(a, i, block) == a.frames[a.manifest.entries[i].first + block]
StreamRestored(a, i) ==
    [k \in 1 .. a.manifest.entries[i].count |-> BlockFrame(a, i, k - 1).chunk]

(* The frames are the blocks of the files, in the order of the manifest, and *)
(* every file restored from them has the digest of its entry.                *)
StreamWhole(a) ==
    LET m == a.manifest IN
    /\ ParseManifest(m, a.frameCount)
    /\ Len(a.frames) + 1 = a.frameCount
    /\ \A i \in DOMAIN m.entries :
          m.entries[i].kind = "file" =>
              /\ \A block \in 0 .. m.entries[i].count - 1 :
                    /\ BlockFrame(a, i, block).entry = i - 1
                    /\ BlockFrame(a, i, block).size = BlockSize(m, i, block)
              /\ StreamRestored(a, i) = m.entries[i].digest

(* _parse_inner: the records of an MSC1 archive against its own header; the  *)
(* size of the single entry is original_size.  Its name is a plain one       *)
(* (Path(file_name).name == file_name) and nothing more is asked of it.      *)
ParseInner(a) ==
    /\ ParentOf[a.manifest.entries[1].path] = a.manifest.entries[1].path
    /\ Len(a.frames) = a.frameCount
    /\ \A k \in DOMAIN a.frames : a.frames[k].size \in 1 .. MaxChunk
    /\ Sum([k \in DOMAIN a.frames |-> a.frames[k].size]) = a.manifest.entries[1].size

SingleWhole(a) ==
    /\ ParseInner(a)
    /\ [k \in DOMAIN a.frames |-> a.frames[k].chunk] = a.manifest.entries[1].digest
=============================================================================
