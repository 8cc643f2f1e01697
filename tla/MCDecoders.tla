------------------------------ MODULE MCDecoders ------------------------------
(* Small instances of Decoders.  MSC6: every chunk table of up to three      *)
(* records, well formed or not, under a folder of two files, with the frames *)
(* it asks for or damaged ones, and entries that are right or wrong in one   *)
(* field.  The other formats: sound archives, and each one damaged in one    *)
(* field of its manifest, metadata or frames.  B and b differ only in case,  *)
(* and u is a path no archive may have.                                      *)
EXTENDS Decoders

CONSTANTS A, B   \* two chunks

MCPaths == {"root", "b", "B", "d", "d/a", "u"}
MCPortable == MCPaths \ {"u"}
MCFold == [p \in MCPaths |-> IF p = "B" THEN "b" ELSE p]
MCParentOf == [p \in MCPaths |-> IF p = "d/a" THEN "d" ELSE p]

Rec(digest, size, source) == [digest |-> digest, size |-> size, source |-> source]
Records(sizes) == [digest : {A, B}, size : sizes, source : 0 .. 2]
Tables ==
    {<<>>} \cup {<<r>> : r \in Records({0, 1, 2})}
    \cup {<<r, s>> : r, s \in Records({1, 2})}
    \cup {<<r, s, t>> : r, s, t \in Records({1})}

Slice(chunks, first, count) == [k \in 1 .. count |-> chunks[first + k].digest]
SizeOf(chunks, first, count) == Sum([k \in 1 .. count |-> chunks[first + k].size])
Entry(path, chunks, first, count) ==
    FileEntry(path, SizeOf(chunks, first, count), first, count, Slice(chunks, first, count))

(* b holds the first k chunks and d/a the others. *)
Folder(chunks, k) ==
    <<Entry("b", chunks, 0, k), DirEntry("d"), Entry("d/a", chunks, k, Len(chunks) - k)>>

WrongEntries(good) ==
    {good,
     <<good[1], good[3], good[2]>>,              \* a file before its directory
     <<good[1], good[3]>>,                       \* a directory left out
     <<[good[1] EXCEPT !.path = "B"], good[1], good[2]>>,
     [good EXCEPT ![1].path = "u"],
     [good EXCEPT ![1].size = @ + 1], [good EXCEPT ![1].size = IF @ > 1 THEN 1 ELSE @],
     [good EXCEPT ![3].first = @ + 1],
     [good EXCEPT ![3].digest = <<B, B>>], [good EXCEPT ![2].size = 1]}

(* The frames the unique chunks of a table ask for. *)
Frame(index, at, r) ==
    [sealed |-> TRUE, index |-> index, occurrence |-> at, size |-> r.size, chunk |-> r.digest]
Indexes(chunks) == SelectSeq([i \in DOMAIN chunks |-> i], LAMBDA i : i \in Unique(chunks))
Frames(chunks) ==
    [k \in DOMAIN Indexes(chunks) |-> Frame(k, Indexes(chunks)[k] - 1, chunks[Indexes(chunks)[k]])]

WrongFrames(good) ==
    {good} \cup
    IF good = <<>> THEN {} ELSE
    {Tail(good), SubSeq(good, 1, Len(good) - 1), Append(good, good[1]),
     [good EXCEPT ![1].sealed = FALSE], [good EXCEPT ![1].occurrence = @ + 1],
     [good EXCEPT ![1].size = @ + 1], [good EXCEPT ![1].size = IF @ > 1 THEN 1 ELSE @],
     [good EXCEPT ![Len(good)].chunk = B],
     [k \in DOMAIN good |-> good[Len(good) - k + 1]]}

Archive(chunks, entries, frames, kind, extra) ==
    [format |-> "MSC6", sealed |-> extra # "unsealed", trailing |-> extra = "trailing", frames |-> frames,
     frameCount |-> Cardinality(Unique(chunks)) + IF extra = "count" THEN 2 ELSE 1,
     manifest |-> [kind |-> kind, root |-> "root", entries |-> entries, chunks |-> chunks]]

Good(chunks, k) == Archive(chunks, Folder(chunks, k), Frames(chunks), "folder", "none")
GoodFile(chunks) ==
    Archive(chunks, <<Entry("root", chunks, 0, Len(chunks))>>, Frames(chunks), "file", "none")
Upside(chunks, k) ==
    Archive(chunks, <<Folder(chunks, k)[1], Folder(chunks, k)[3], Folder(chunks, k)[2]>>,
            Frames(chunks), "folder", "none")

(* Roots that are unsafe, or not one name. *)
WrongRoots(a) == {[a EXCEPT !.manifest.root = path] : path \in {"u", "d/a"}}

Splits(chunks) == 0 .. Len(chunks)
WellFormed == {t \in Tables : ReferencesDirect([chunks |-> t])}
DedupArchives ==
    {GoodFile(t) : t \in Tables}
    \cup WrongRoots(Good(<<>>, 0)) \cup WrongRoots(GoodFile(<<>>))
    \cup UNION {{Good(t, k) : k \in Splits(t)} : t \in Tables}
    \cup UNION {UNION {
             {Archive(t, e, Frames(t), "folder", "none") : e \in WrongEntries(Folder(t, k))}
             \cup {Archive(t, Folder(t, k), f, "folder", "none") : f \in WrongFrames(Frames(t))}
             : k \in Splits(t)}
           \cup {Archive(t, Folder(t, 0), Frames(t), "folder", x) : x \in {"unsealed", "trailing", "count"}}
           \cup {Archive(t, Folder(t, 0), Frames(t), "file", "none")}
           : t \in WellFormed}

Sample == <<Rec(A, 1, 0), Rec(B, 1, 1), Rec(A, 1, 0)>>

-----------------------------------------------------------------------------
(* Damage common to the other formats. *)

WrongStream(good) ==
    {good} \cup
    IF good = <<>> THEN {} ELSE
    {Tail(good), SubSeq(good, 1, Len(good) - 1), Append(good, good[1]),
     [good EXCEPT ![1].sealed = FALSE], [good EXCEPT ![1].index = @ + 1],
     [k \in DOMAIN good |-> good[Len(good) - k + 1]]}

Damaged(a, frames) == {[a EXCEPT !.frames = f] : f \in frames}
Flagged(a) == {[a EXCEPT !.sealed = FALSE], [a EXCEPT !.trailing = TRUE]}

(* MSC2: b with blocks of two, d/a with blocks of one; MaxChunk is 2. *)
Block(index, entry, size, chunk) ==
    [sealed |-> TRUE, index |-> index, entry |-> entry, size |-> size, chunk |-> chunk]
StreamFolder ==
    <<FileEntry("b", 2, 1, 1, <<A>>), DirEntry("d"), FileEntry("d/a", 1, 2, 1, <<B>>)>>
StreamFrames == <<Block(1, 0, 2, A), Block(2, 2, 1, B)>>
StreamArchive(entries, frames, kind, frameCount) ==
    [format |-> "MSC2", sealed |-> TRUE, trailing |-> FALSE, frameCount |-> frameCount,
     frames |-> frames,
     manifest |-> [kind |-> kind, root |-> "root", entries |-> entries, chunks |-> <<>>]]
GoodStream == StreamArchive(StreamFolder, StreamFrames, "folder", 3)
GoodStreamFile ==
    StreamArchive(<<FileEntry("root", 3, 1, 2, <<A, B>>)>>,
                  <<Block(1, 0, 2, A), Block(2, 0, 1, B)>>, "file", 3)
EmptyStreamFile == StreamArchive(<<FileEntry("root", 0, 1, 0, <<>>)>>, <<>>, "file", 1)
StreamArchives ==
    {GoodStream, GoodStreamFile, EmptyStreamFile}
    \cup Damaged(GoodStream, WrongStream(StreamFrames))
    \cup Damaged(GoodStream, {[StreamFrames EXCEPT ![1].entry = 2],
                              [StreamFrames EXCEPT ![1].size = 1],
                              [StreamFrames EXCEPT ![2].chunk = A]})
    \cup Flagged(GoodStream) \cup WrongRoots(GoodStream)
    \cup {StreamArchive(e, StreamFrames, "folder", 3) : e \in WrongEntries(StreamFolder)}
    \cup {[GoodStreamFile EXCEPT !.manifest.entries[1].size = 4],
          [GoodStream EXCEPT !.frameCount = 4], [GoodStream EXCEPT !.frameCount = 2]}

(* MSC1: the records of one file. *)
Piece(size, chunk) == [size |-> size, chunk |-> chunk]
SingleArchive(size, digest, frames) ==
    [format |-> "MSC1", sealed |-> TRUE, trailing |-> FALSE, frameCount |-> Len(frames),
     frames |-> frames,
     manifest |-> [kind |-> "file", root |-> "root", chunks |-> <<>>,
                   entries |-> <<FileEntry("root", size, 1, Len(frames), digest)>>]]
GoodSingle == SingleArchive(3, <<A, B>>, <<Piece(2, A), Piece(1, B)>>)
SingleArchives ==
    {GoodSingle, SingleArchive(0, <<>>, <<>>), SingleArchive(2, <<A, B>>, <<Piece(1, A), Piece(1, B)>>),
     SingleArchive(3, <<A, A, B>>, <<Piece(1, A), Piece(1, A), Piece(1, B)>>),
     SingleArchive(4, <<A, B>>, <<Piece(2, A), Piece(2, B)>>),
     SingleArchive(2, <<A, B>>, <<Piece(2, A), Piece(1, B)>>),
     SingleArchive(3, <<A, A>>, <<Piece(2, A), Piece(1, B)>>),
     SingleArchive(1, <<B>>, <<Piece(0, A), Piece(1, B)>>),
     SingleArchive(3, <<A>>, <<Piece(3, A)>>),
     [GoodSingle EXCEPT !.frameCount = 1]}
    \cup {[GoodSingle EXCEPT !.manifest.entries[1].path = path] : path \in {"u", "d/a"}}
    \cup Flagged(GoodSingle)

-----------------------------------------------------------------------------
(* MSR1 and MSR2, as their encoders make them. *)

MCLaneOf == [c \in {A, B} |-> IF c = A THEN 0 ELSE 2]
FolderManifest(t, k) ==
    [kind |-> "folder", root |-> "root", entries |-> Folder(t, k), chunks |-> t]

SolidSample(mf) ==
    [format |-> "MSR1", sealed |-> TRUE, trailing |-> FALSE, manifest |-> mf,
     unique |-> Cardinality(Unique(mf.chunks)), frames |-> <<SolidPayload(mf)>>]
GoodSolid == SolidSample(FolderManifest(Sample, 1))
SolidArchives ==
    {GoodSolid, SolidSample(FolderManifest(<<>>, 0)),
     [GoodSolid EXCEPT !.frames = <<>>], [GoodSolid EXCEPT !.unique = 1],
     [GoodSolid EXCEPT !.frames[1].descriptors[1].lane = 2],
     [GoodSolid EXCEPT !.frames[1].descriptors[1].size = 2],
     [GoodSolid EXCEPT !.frames[1].lanes[0].raw = 0],
     [GoodSolid EXCEPT !.frames[1].lanes[0].payload = CompressedTokens(Units(B, 1))],
     [GoodSolid EXCEPT !.frames[1].lanes[0].payload = @ \o @],
     [GoodSolid EXCEPT !.manifest.entries[3].digest = <<B, B>>],
     [GoodSolid EXCEPT !.manifest.chunks[3].source = 2],
     [GoodSolid EXCEPT !.manifest.entries = <<@[1], @[3], @[2]>>],
     [GoodSolid EXCEPT !.manifest.entries[1].path = "u"]}
    \cup Flagged(GoodSolid) \cup WrongRoots(GoodSolid)

(* Lanes compressed whatever they hold: more shapes than ChosenCodec makes. *)
LanesArchive(mf, codecs) ==
    LET lanes == Assignments(mf)
        Payload(l) == LanePayload(LaneUnits(mf, lanes, l), codecs[l])
        counts == [l \in Lanes |-> FrameTotal(Len(Payload(l)))]
    IN  [format |-> "MSR2", sealed |-> TRUE, trailing |-> FALSE,
         unique |-> Cardinality(Unique(mf.chunks)),
         metadata |-> CompactMetadata(mf, lanes, counts, codecs),
         frames |-> LaneFrames(Payload(0), 0, 1) \o LaneFrames(Payload(1), 1, 1 + counts[0])
                    \o LaneFrames(Payload(2), 2, 1 + counts[0] + counts[1])]
RawLanes == [l \in Lanes |-> "raw"]
GoodLanes(codecs) == LanesArchive(FolderManifest(Sample, 1), codecs)
LongChunk == FolderManifest(<<Rec(A, 2, 0)>>, 1)
LegacyLanes ==
    [GoodLanes(Preferred) EXCEPT !.metadata =
        [frameCounts |-> @.frameCounts, manifest |-> FolderManifest(Sample, 1), lanes |-> <<0, 2>>,
         rawSizes |-> [l \in Lanes |-> IF l = 1 THEN 0 ELSE 1]]]
WrongMetadata(a) ==
    {[a EXCEPT !.metadata.frameCounts[0] = 1], [a EXCEPT !.metadata.frameCounts[1] = 1],
     [a EXCEPT !.metadata.frameCounts[0] = 3],
     [a EXCEPT !.metadata.codecs[0] = "zstd"], [a EXCEPT !.metadata.codecs[2] = "raw"],
     [a EXCEPT !.metadata.packed = <<16>>], [a EXCEPT !.metadata.packed = <<0>>],
     [a EXCEPT !.metadata.packed = <<3>>], [a EXCEPT !.metadata.packed = <<8, 0>>],
     [a EXCEPT !.metadata.chunks[3].source = 2], [a EXCEPT !.metadata.chunks[1].size = 2],
     [a EXCEPT !.metadata.chunks[1].digest = B], [a EXCEPT !.metadata.entries[1].count = 0],
     [a EXCEPT !.metadata.entries[3].digest = <<A, A>>],
     [a EXCEPT !.metadata.entries = <<@[1], @[3], @[2]>>], [a EXCEPT !.unique = 3],
     [a EXCEPT !.metadata.entries[1].path = "u"], [a EXCEPT !.metadata.root = "u"],
     [a EXCEPT !.metadata.root = "d/a"]}
WrongPayloads(a) ==
    Damaged(a, {[a.frames EXCEPT ![1].lane = 2], [a.frames EXCEPT ![1].final = ~@],
                [a.frames EXCEPT ![1].payload = <<>>],
                Append(a.frames, [a.frames[1] EXCEPT !.index = Len(a.frames) + 1, !.lane = 3]),
                [a.frames EXCEPT ![1].payload = RawTokens(Units(B, 1))],
                [a.frames EXCEPT ![1].payload = <<Units(A, 2), End>>],
                [a.frames EXCEPT ![1].payload = <<Units(A, 4)>>],   \* far more than the lane holds
                [a.frames EXCEPT ![Len(a.frames)].payload = Append(@, End)]})
LanesVariants ==
    {GoodLanes(Preferred), GoodLanes(RawLanes), LanesArchive(LongChunk, RawLanes),
     LanesArchive(LongChunk, Preferred)}
LanesArchives ==
    LanesVariants \cup {LegacyLanes, LanesArchive(FolderManifest(<<>>, 0), Preferred),
                        [LegacyLanes EXCEPT !.metadata.lanes = <<0, 0>>],
                        [LegacyLanes EXCEPT !.metadata.rawSizes[0] = 2]}
    \cup UNION {Damaged(a, WrongStream(a.frames)) \cup Flagged(a) \cup WrongPayloads(a)
                : a \in LanesVariants}
    \cup UNION {WrongMetadata(GoodLanes(c)) : c \in {Preferred, RawLanes}}

-----------------------------------------------------------------------------
Call(a, call, inspects, dests, howMany, others) ==
    [archive |-> a, called |-> call, inspects |-> inspects, dests |-> dests,
     rebinds |-> howMany, swaps |-> others]

Few == {Good(Sample, 1), GoodFile(Sample), Upside(Sample, 2), Good(<<>>, 0),
        GoodStream, GoodStreamFile, GoodSingle, GoodLanes(Preferred)}

(* Every archive once, with a destination that stays absent; a few with any  *)
(* destination and with changes of it; some taken for one another.           *)
MCStarts ==
    {Call(a, "api", BOOLEAN, {"absent"}, 0, {}) :
        a \in DedupArchives \cup StreamArchives \cup SingleArchives \cup LanesArchives}
    \cup {Call(a, "MSR1", {FALSE}, {"absent"}, 0, {}) : a \in SolidArchives}
    \cup {Call(a, "api", BOOLEAN, Named, 2, {}) : a \in Few}
    \cup {Call(GoodSolid, "MSR1", {FALSE}, Named, 2, {})}
    \cup {Call(a, "api", {FALSE}, {"absent"}, 1, Few) : a \in Few \cup {GoodSolid}}
=============================================================================
