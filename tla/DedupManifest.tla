---------------------------- MODULE DedupManifest ----------------------------
(* The MSC6 manifest and the archive around it (dedup_archive.py): entries   *)
(* over one chunk table whose duplicate records point back at the occurrence *)
(* whose bytes are stored in a frame.  Occurrences count from 0, as in the   *)
(* code; a digest is the chunk itself (SHA-256 has no collisions here), and  *)
(* the digest of a file is the sequence of its chunks.                       *)
EXTENDS Naturals, Sequences, FiniteSets

CONSTANTS
    Fold,       \* str.casefold of each entry path
    ParentOf,   \* the parent path of each entry path; itself at the top level
    Portable,   \* the paths that validate_relative_path returns as they are: safe and in NFC
    MaxChunk    \* header.max_chunk_size

ZeroHash == <<"zero">>

DirEntry(path) == [kind |-> "dir", path |-> path, size |-> 0, first |-> 0, count |-> 0,
                   digest |-> ZeroHash]
FileEntry(path, size, first, count, digest) ==
    [kind |-> "file", path |-> path, size |-> size, first |-> first, count |-> count,
     digest |-> digest]

(* canonical.setdefault((digest, size), len(chunks)): the first occurrence   *)
(* of the same chunk, this one when there was none.                          *)
Canonical(chunks, digest, size) ==
    LET same == {i \in DOMAIN chunks : chunks[i].digest = digest /\ chunks[i].size = size}
    IN  IF same = {} THEN Len(chunks) ELSE (CHOOSE i \in same : \A j \in same : i <= j) - 1

ChunkRecord(chunks, digest, size) ==
    [digest |-> digest, size |-> size, source |-> Canonical(chunks, digest, size)]

Unique(chunks) == {i \in DOMAIN chunks : chunks[i].source = i - 1}

-----------------------------------------------------------------------------
(* parse_dedup_manifest: what a manifest must satisfy to be used at all.     *)

Sum(seq) ==
    LET upTo[k \in 0 .. Len(seq)] == IF k = 0 THEN 0 ELSE upTo[k - 1] + seq[k] IN upTo[Len(seq)]

(* The root is one portable name; every entry has a portable path, and no    *)
(* two have paths that differ only in case.                                  *)
PathsCanonical(m) ==
    /\ m.root \in Portable /\ ParentOf[m.root] = m.root
    /\ \A i \in DOMAIN m.entries : m.entries[i].path \in Portable
    /\ \A i, j \in DOMAIN m.entries : i # j => Fold[m.entries[i].path] # Fold[m.entries[j].path]

(* next_chunk, when entry i is read. *)
ChunksBefore(entries, i) ==
    Sum([k \in 1 .. i - 1 |-> IF entries[k].kind = "file" THEN entries[k].count ELSE 0])

(* File ranges are consecutive from 0 and cover the chunk table. *)
RangesCover(m) ==
    /\ \A i \in DOMAIN m.entries :
          m.entries[i].kind = "file" =>
              /\ m.entries[i].first = ChunksBefore(m.entries, i)
              /\ (m.entries[i].size = 0) = (m.entries[i].count = 0)
    /\ ChunksBefore(m.entries, Len(m.entries) + 1) = Len(m.chunks)

DirectoriesEmpty(m) ==
    \A i \in DOMAIN m.entries : m.entries[i].kind = "dir" => m.entries[i] = DirEntry(m.entries[i].path)

ReferencesBackward(m) ==   \* faulty: a reference may point at another reference
    \A i \in DOMAIN m.chunks :
        LET c == m.chunks[i] IN
        /\ c.size \in 1 .. MaxChunk
        /\ c.source # i - 1 =>
              /\ c.source < i - 1
              /\ m.chunks[c.source + 1].digest = c.digest /\ m.chunks[c.source + 1].size = c.size

(* A reference points backward, at a stored chunk, and repeats its metadata. *)
ReferencesDirect(m) ==
    \A i \in DOMAIN m.chunks :
        LET c == m.chunks[i] IN
        /\ c.size \in 1 .. MaxChunk
        /\ c.source # i - 1 =>
              /\ c.source < i - 1
              /\ LET canonical == m.chunks[c.source + 1] IN
                    /\ canonical.source = c.source
                    /\ canonical.digest = c.digest /\ canonical.size = c.size

SizesAddUp(m) ==
    \A i \in DOMAIN m.entries :
        LET e == m.entries[i] IN
        e.kind = "file" => e.size = Sum([k \in 1 .. e.count |-> m.chunks[e.first + k].size])

TotalSize(m) == Sum([i \in DOMAIN m.entries |-> m.entries[i].size])

ShapeOK(m) ==
    IF m.kind = "file"
    THEN Len(m.entries) = 1 /\ m.entries[1].kind = "file" /\ m.entries[1].path = m.root
    ELSE \A i \in DOMAIN m.entries :
            LET parent == ParentOf[m.entries[i].path] IN
            \/ parent = m.entries[i].path
            \/ \E j \in DOMAIN m.entries : m.entries[j].kind = "dir" /\ m.entries[j].path = parent

ParseDedupManifest(m, frameCount) ==
    /\ PathsCanonical(m) /\ DirectoriesEmpty(m)
    /\ RangesCover(m)
    /\ ReferencesDirect(m)
    /\ Cardinality(Unique(m.chunks)) + 1 = frameCount
    /\ SizesAddUp(m) /\ ShapeOK(m)

-----------------------------------------------------------------------------
(* What the frames of an archive hold for an entry: the reference reading of *)
(* a manifest, used by the properties of the encoder and of the decoder.     *)

Stored(a, at) ==
    LET source == a.manifest.chunks[at + 1].source
        frames == {k \in DOMAIN a.frames : a.frames[k].occurrence = source}
    IN  IF frames = {} THEN ZeroHash ELSE a.frames[CHOOSE k \in frames : TRUE].chunk

Restored(a, e) == [k \in 1 .. e.count |-> Stored(a, e.first + k - 1)]

(* Every unique chunk is stored once, in the order of the occurrences, and   *)
(* every file restored from the frames has the digest of its entry.          *)
Whole(a) ==
    LET m == a.manifest IN
    /\ ParseDedupManifest(m, a.frameCount)
    /\ Len(a.frames) + 1 = a.frameCount
    /\ \A i \in Unique(m.chunks) :
          \E k \in DOMAIN a.frames : /\ a.frames[k].occurrence = i - 1
                                     /\ a.frames[k].chunk = m.chunks[i].digest
    /\ \A j, k \in DOMAIN a.frames : j < k => a.frames[j].occurrence < a.frames[k].occurrence
    /\ \A i \in DOMAIN m.entries :
          m.entries[i].kind = "file" => Restored(a, m.entries[i]) = m.entries[i].digest

(* Every path of the manifest can be made on any platform, and is there the  *)
(* name of one entry only.                                                   *)
PathsUsable(m) ==
    \A i \in DOMAIN m.entries :
        /\ m.entries[i].path \in Portable
        /\ {j \in DOMAIN m.entries : Fold[m.entries[j].path] = Fold[m.entries[i].path]} = {i}

(* No entry comes before the directory it is in, so a tree can be made in    *)
(* manifest order.                                                           *)
ParentsFirst(m) ==
    \A i \in DOMAIN m.entries :
        LET parent == ParentOf[m.entries[i].path] IN
        parent # m.entries[i].path => \E j \in 1 .. i - 1 : m.entries[j].path = parent
=============================================================================
