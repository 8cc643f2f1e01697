------------------------------ MODULE SolidLanes ------------------------------
(* What an MSR archive holds (solid_archive_v2.py, solid_frames.py,          *)
(* solid_research.py): the unique chunks go into three lanes by their        *)
(* content, a lane is compressed as one stream or kept raw, an MSR2 lane is  *)
(* cut into frames, and compact metadata says how to put all together again. *)
(*                                                                           *)
(* A chunk of size n is the units <<chunk, 1>> .. <<chunk, n>>.  A payload   *)
(* is a sequence of tokens; a token holds a run of units, which a raw lane   *)
(* keeps one to a token and a compressor packs, ending its stream with End.  *)
(* The length of a payload is the number of its tokens.                      *)
EXTENDS DedupManifest

CONSTANTS
    LaneOf,         \* choose_solid_lane: the lane of each chunk
    FramePayload,   \* frame_payload_size: tokens a frame holds
    MaxLaneFrames   \* DEFAULT_MAX_FRAME_COUNT, which the metadata parser applies to each lane

ASSUME LaneAssumption ==
    /\ \A c \in DOMAIN LaneOf : LaneOf[c] \in 0 .. 2
    /\ FramePayload \in Nat \ {0} /\ MaxLaneFrames \in Nat

Lanes == 0 .. 2
End == << <<"end", 0>> >>

Units(chunk, size) == [k \in 1 .. size |-> <<chunk, k>>]

Concat(seqs) ==
    LET upTo[k \in 0 .. Len(seqs)] == IF k = 0 THEN <<>> ELSE upTo[k - 1] \o seqs[k]
    IN  upTo[Len(seqs)]

(* The unique chunk records, in the order of their occurrences. *)
UniqueRecords(m) ==
    LET unique == Unique(m.chunks)
    IN  Concat([i \in DOMAIN m.chunks |-> IF i \in unique THEN <<m.chunks[i]>> ELSE <<>>])

(* spool_unique_chunk: each unique chunk is routed and appended to its lane. *)
Assignments(m) ==
    LET records == UniqueRecords(m)
    IN  Concat([k \in DOMAIN records |-> <<LaneOf[records[k].digest]>>])

LaneUnits(m, lanes, lane) ==
    LET records == UniqueRecords(m)
    IN  Concat([k \in DOMAIN records |->
                   IF lanes[k] = lane THEN Units(records[k].digest, records[k].size) ELSE <<>>])

RawSize(m, lanes, lane) == Len(LaneUnits(m, lanes, lane))

-----------------------------------------------------------------------------
(* Codecs. *)

Codec == {"lzma", "raw", "zstd"}
ValidCodecs == [l \in Lanes |-> IF l = 2 THEN Codec ELSE {"lzma", "raw"}]
Preferred == [l \in Lanes |-> IF l = 2 THEN "zstd" ELSE "lzma"]

RawTokens(units) == [k \in DOMAIN units |-> <<units[k]>>]

(* compress_solid_lane: runs of two units, and the end of the stream.        *)
CompressedTokens(units) ==
    Append([k \in 1 .. (Len(units) + 1) \div 2 |->
               SubSeq(units, 2 * k - 1, IF 2 * k <= Len(units) THEN 2 * k ELSE Len(units))], End)

(* solid_lane_framed_size: the bytes of the frames of a payload, each one a  *)
(* header, the length and the payload padded to an even size, and the tag.   *)
FrameSize(size) == 1 + 2 * ((1 + size + 1) \div 2) + 1

FramedSize(size) ==
    (size \div FramePayload) * FrameSize(FramePayload)
    + IF size % FramePayload = 0 THEN 0 ELSE FrameSize(size % FramePayload)

(* compress_candidate: the raw lane, unless the compressed one takes fewer   *)
(* bytes in frames.                                                          *)
ChosenCodec(units, lane) ==
    IF units = <<>> THEN "lzma"
    ELSE IF FramedSize(Len(CompressedTokens(units))) >= FramedSize(Len(units)) THEN "raw"
    ELSE Preferred[lane]

LanePayload(units, codec) ==
    IF units = <<>> THEN <<>> ELSE IF codec = "raw" THEN RawTokens(units) ELSE CompressedTokens(units)

(* What a decompressor reads of a payload: all before the end of the stream.  *)
UpToEnd(payload) ==
    LET ends == {k \in DOMAIN payload : payload[k] = End}
    IN  IF ends = {} THEN payload ELSE SubSeq(payload, 1, (CHOOSE k \in ends : \A j \in ends : k <= j) - 1)

HasEnd(payload) == \E k \in DOMAIN payload : payload[k] = End
UnusedData(payload) == \E k \in DOMAIN payload : payload[k] = End /\ k < Len(payload)

-----------------------------------------------------------------------------
(* write_precompressed_solid_lane_frames: full frames, and a final one that  *)
(* is not empty.                                                             *)

FrameTotal(size) == (size + FramePayload - 1) \div FramePayload

LaneFrames(payload, lane, start) ==
    [k \in 1 .. FrameTotal(Len(payload)) |->
        [sealed |-> TRUE, index |-> start + k - 1, lane |-> lane,
         final |-> k = FrameTotal(Len(payload)),
         payload |-> SubSeq(payload, (k - 1) * FramePayload + 1,
                            IF k * FramePayload < Len(payload) THEN k * FramePayload
                            ELSE Len(payload))]]

-----------------------------------------------------------------------------
(* Compact metadata: what follows from something else is left out. *)

(* Four lane numbers of two bits to a byte. *)
Place == <<1, 4, 16, 64>>

ByteAt(lanes, b) ==
    Sum([k \in 1 .. 4 |-> IF 4 * (b - 1) + k \in DOMAIN lanes
                          THEN lanes[4 * (b - 1) + k] * Place[k] ELSE 0])

Packed(lanes) == [b \in 1 .. (Len(lanes) + 3) \div 4 |-> ByteAt(lanes, b)]

CompactEntry(e) == [kind |-> e.kind, path |-> e.path, count |-> e.count, digest |-> e.digest]

CompactChunk(chunks, i) ==
    IF chunks[i].source = i - 1 THEN [tag |-> 0, size |-> chunks[i].size, digest |-> chunks[i].digest]
    ELSE [tag |-> 1, source |-> chunks[i].source]

CompactMetadata(m, lanes, frameCounts, codecs) ==
    [kind |-> m.kind, root |-> m.root, frameCounts |-> frameCounts, codecs |-> codecs,
     entries |-> [i \in DOMAIN m.entries |-> CompactEntry(m.entries[i])],
     chunks |-> [i \in DOMAIN m.chunks |-> CompactChunk(m.chunks, i)],
     packed |-> Packed(lanes)]

-----------------------------------------------------------------------------
(* _parse_compact_metadata.  A reference is read as its canonical chunk, the *)
(* size of a file as the sizes of its chunks, which come one file after the  *)
(* other.                                                                    *)

ChunksRead(md) ==
    \A i \in DOMAIN md.chunks :
        LET c == md.chunks[i] IN
        \/ c.tag = 0 /\ c.size \in 1 .. MaxChunk
        \/ c.tag = 1 /\ c.source + 1 < i /\ md.chunks[c.source + 1].tag = 0

ChunkAt(md, i) ==
    LET c == md.chunks[i] IN
    IF c.tag = 0 THEN [digest |-> c.digest, size |-> c.size, source |-> i - 1]
    ELSE [digest |-> md.chunks[c.source + 1].digest, size |-> md.chunks[c.source + 1].size,
          source |-> c.source]

Chunks(md) == Concat([i \in DOMAIN md.chunks |-> <<ChunkAt(md, i)>>])

FirstChunk(md, i) == ChunksBefore(md.entries, i)

ChunksCovered(md) == FirstChunk(md, Len(md.entries) + 1) = Len(md.chunks)

EntryAt(md, i) ==
    LET e == md.entries[i] IN
    IF e.kind = "dir" THEN DirEntry(e.path)
    ELSE FileEntry(e.path, Sum([k \in 1 .. e.count |-> ChunkAt(md, FirstChunk(md, i) + k).size]),
                   FirstChunk(md, i), e.count, e.digest)

Expanded(md) ==
    [kind |-> md.kind, root |-> md.root, chunks |-> Chunks(md),
     entries |-> Concat([i \in DOMAIN md.entries |-> <<EntryAt(md, i)>>])]

Unpacked(md, unique) ==
    Concat([k \in 1 .. unique |->
               <<(md.packed[(k + 3) \div 4] \div Place[((k - 1) % 4) + 1]) % 4>>])

PackedOK(md, unique) ==
    /\ Len(md.packed) = (unique + 3) \div 4
    /\ unique % 4 # 0 => md.packed[Len(md.packed)] \div Place[(unique % 4) + 1] = 0
    /\ \A k \in 1 .. unique : Unpacked(md, unique)[k] \in Lanes

ParseCompact(md, unique) ==
    /\ \A l \in Lanes : md.codecs[l] \in ValidCodecs[l] /\ md.frameCounts[l] <= MaxLaneFrames
    /\ ChunksRead(md)
    /\ Cardinality({i \in DOMAIN md.chunks : md.chunks[i].tag = 0}) = unique
    /\ PackedOK(md, unique)
    /\ ChunksCovered(md)
    /\ \E m \in {Expanded(md)}, lanes \in {Unpacked(md, unique)} :
          /\ ParseDedupManifest(m, unique + 1)
          /\ \A l \in Lanes : (RawSize(m, lanes, l) = 0) = (md.frameCounts[l] = 0)

(* _parse_metadata of an archive from before the compact form: the whole     *)
(* manifest, the lane records and one byte for each assignment; the codec of *)
(* every lane is the first one.                                              *)
ParseLegacy(md, unique) ==
    /\ \A l \in Lanes : (md.rawSizes[l] = 0) = (md.frameCounts[l] = 0)
    /\ Len(md.lanes) = unique
    /\ \A k \in DOMAIN md.lanes : md.lanes[k] \in Lanes
    /\ ParseDedupManifest(md.manifest, unique + 1)
    /\ \A l \in Lanes : RawSize(md.manifest, md.lanes, l) = md.rawSizes[l]

IsLegacy(md) == "manifest" \in DOMAIN md

ParseMetadata(md, unique) == IF IsLegacy(md) THEN ParseLegacy(md, unique) ELSE ParseCompact(md, unique)

ReadManifestOf(md) == IF IsLegacy(md) THEN md.manifest ELSE Expanded(md)
ReadLanesOf(md, unique) == IF IsLegacy(md) THEN md.lanes ELSE Unpacked(md, unique)
ReadCodecOf(md, lane) == IF IsLegacy(md) THEN "lzma" ELSE md.codecs[lane]

-----------------------------------------------------------------------------
(* What the fields can say, true or not: ENTRY_FIXED and CHUNK_RECORD, the   *)
(* two forms of metadata, the tokens of a payload.                           *)

RecordPath == DOMAIN ParentOf
Digest == Seq(DOMAIN LaneOf) \cup {ZeroHash}
EntryRecord == [kind : {"file", "dir"}, path : RecordPath, size : Nat, first : Nat, count : Nat,
                digest : Digest]
TableRecord == [digest : DOMAIN LaneOf, size : Nat, source : Nat]
ManifestFields == [kind : {"file", "folder"}, root : RecordPath, entries : Seq(EntryRecord),
                   chunks : Seq(TableRecord)]

LegacyMetadata == [manifest : ManifestFields, lanes : Seq(Nat), rawSizes : [Lanes -> Nat],
                   frameCounts : [Lanes -> Nat]]
CompactForm == [kind : {"file", "folder"}, root : RecordPath, codecs : [Lanes -> Codec],
                frameCounts : [Lanes -> Nat], packed : Seq(Nat),
                entries : Seq([kind : {"file", "dir"}, path : RecordPath, count : Nat,
                               digest : Digest]),
                chunks : Seq([tag : {0}, size : Nat, digest : DOMAIN LaneOf]
                             \cup [tag : {1}, source : Nat])]

(* What a lane holds: units of chunks, and the ends of streams. *)
Token == Seq((DOMAIN LaneOf \cup {"end"}) \X Nat)

-----------------------------------------------------------------------------
(* The payload of an MSR1 archive (solid_research.py): a descriptor for each *)
(* chunk and the three lanes, compressed whole.                              *)

(* encode_solid_chunks *)
SolidPayload(m) ==
    LET lanes == Assignments(m)
        Lane(l) == LaneUnits(m, lanes, l)
    IN  [descriptors |-> [k \in DOMAIN lanes |-> [lane |-> lanes[k], size |-> UniqueRecords(m)[k].size]],
         lanes |-> [l \in Lanes |->
                       [raw |-> Len(Lane(l)),
                        payload |-> IF Lane(l) = <<>> THEN <<>> ELSE CompressedTokens(Lane(l))]]]

(* Where in its lane a chunk starts, by the sizes of those before it. *)
LaneOffset(lanes, sizes, k) ==
    Sum([j \in 1 .. k - 1 |-> IF lanes[j] = lanes[k] THEN sizes[j] ELSE 0])

ChunkIn(content, lanes, sizes, k) ==
    SubSeq(content[lanes[k]], LaneOffset(lanes, sizes, k) + 1,
           LaneOffset(lanes, sizes, k) + sizes[k])

DecompressedLane(payload) == Concat(UpToEnd(payload))

(* decode_solid_chunks, with the sizes the manifest expects. *)
DecodeSolid(p, sizes) ==
    /\ Len(p.descriptors) = Len(sizes)
    /\ \A k \in DOMAIN sizes : p.descriptors[k].lane \in Lanes /\ p.descriptors[k].size = sizes[k]
    /\ \A l \in Lanes :
          /\ p.lanes[l].raw = Sum([k \in DOMAIN sizes |-> IF p.descriptors[k].lane = l
                                                          THEN sizes[k] ELSE 0])
          /\ IF p.lanes[l].raw = 0 THEN p.lanes[l].payload = <<>>
             ELSE /\ HasEnd(p.lanes[l].payload) /\ ~UnusedData(p.lanes[l].payload)
                  /\ Len(DecompressedLane(p.lanes[l].payload)) = p.lanes[l].raw

SolidChunk(p, sizes, k) ==
    ChunkIn([l \in Lanes |-> DecompressedLane(p.lanes[l].payload)],
            [j \in DOMAIN sizes |-> p.descriptors[j].lane], sizes, k)

-----------------------------------------------------------------------------
(* read_solid_lane_frames, one frame of a lane: what a raw lane passes       *)
(* through, and what a decompressor makes of the payload.                    *)

HeaderGoodUnordered(f, index, lane, final) ==   \* faulty: the place of the frame is not checked
    f.lane = lane /\ f.final = final

HeaderGood(f, index, lane, final) == f.index = index /\ f.lane = lane /\ f.final = final

PayloadSizeGood(f, final) ==
    /\ Len(f.payload) <= FramePayload
    /\ ~final => Len(f.payload) = FramePayload

FrameUnits(f, codec) == IF codec = "raw" THEN Concat(f.payload) ELSE Concat(UpToEnd(f.payload))

(* The stream ends in the final frame, exactly at its end. *)
StreamEnds(f, codec, final) ==
    codec # "raw" => HasEnd(f.payload) = final /\ ~UnusedData(f.payload)
-----------------------------------------------------------------------------
(* The reference readings. *)

ChunksRestored(m, content(_)) ==
    LET records == UniqueRecords(m)
    IN  \A k \in DOMAIN records : content(k) = Units(records[k].digest, records[k].size)

DigestsMatch(m) ==
    \A i \in DOMAIN m.entries :
        LET e == m.entries[i] IN
        e.kind = "file" => [k \in 1 .. e.count |-> m.chunks[e.first + k].digest] = e.digest

SizesOf(m) ==
    LET records == UniqueRecords(m) IN Concat([k \in DOMAIN records |-> <<records[k].size>>])

SolidWhole(a) ==
    LET m == a.manifest IN
    /\ ParseDedupManifest(m, a.unique + 1)
    /\ Len(a.frames) = 1 /\ DecodeSolid(a.frames[1], SizesOf(m))
    /\ ChunksRestored(m, LAMBDA k : SolidChunk(a.frames[1], SizesOf(m), k))
    /\ DigestsMatch(m)

(* The frames of a lane come after those of the lanes before it. *)
LaneStart(md, lane) == Sum([l \in 1 .. lane |-> md.frameCounts[l - 1]])
LaneFrame(a, lane, k) == a.frames[LaneStart(a.metadata, lane) + k]

LaneRead(a, lane) ==
    Concat([k \in 1 .. a.metadata.frameCounts[lane] |->
               FrameUnits(LaneFrame(a, lane, k), ReadCodecOf(a.metadata, lane))])

LaneGood(a, lane) ==
    \A k \in 1 .. a.metadata.frameCounts[lane] :
        LET f == LaneFrame(a, lane, k)
            final == k = a.metadata.frameCounts[lane]
        IN  /\ f.lane = lane /\ f.final = final /\ PayloadSizeGood(f, final)
            /\ StreamEnds(f, ReadCodecOf(a.metadata, lane), final)

LanesWhole(a) ==
    LET m == ReadManifestOf(a.metadata)
        lanes == ReadLanesOf(a.metadata, a.unique)
        content == [l \in Lanes |-> LaneRead(a, l)]
    IN  /\ ParseMetadata(a.metadata, a.unique)
        /\ Len(a.frames) = LaneStart(a.metadata, 3)
        /\ \A k \in DOMAIN a.frames : a.frames[k].sealed /\ a.frames[k].index = k
        /\ \A l \in Lanes : LaneGood(a, l) /\ Len(content[l]) = RawSize(m, lanes, l)
        /\ ChunksRestored(m, LAMBDA k : ChunkIn(content, lanes, SizesOf(m), k))
        /\ DigestsMatch(m)
=============================================================================
