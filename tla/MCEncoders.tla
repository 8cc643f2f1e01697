------------------------------ MODULE MCEncoders ------------------------------
(* Small instances of Encoders: a root with one file and one directory that  *)
(* holds one file, and single files.  Starts pairs each tree with the calls  *)
(* made for it and the changes other processes may make, so that one run     *)
(* holds all five formats.                                                   *)
EXTENDS Encoders

CONSTANTS A, B, C, D   \* chunks

MCPathOrder == <<"root", "b", "d", "d/a">>
MCParent == [p \in {"b", "d", "d/a"} |-> IF p = "d/a" THEN "d" ELSE "root"]
MCChunk == {A, B, C, D}
MCContents == {<<>>, <<A>>, <<B, A>>}
MCFold == [p \in Path |-> p]
MCNormal == [p \in Path |-> p]
MCParentOf == [p \in Path |-> IF p = "d/a" THEN "d" ELSE p]
MCPortable == Path
MCIno == 1 .. 5
MCLaneOf == [c \in MCChunk |-> 0]
MixedLaneOf == [c \in MCChunk |-> IF c = A THEN 2 ELSE 0]

Node(kind, data) == [kind |-> kind, data |-> data, stamp |-> 0]
MCInode(fb, fa) ==
    [i \in MCIno |-> CASE i = 1 -> Node("dir", <<>>) [] i = 2 -> Node("file", fb)
                       [] i = 3 -> Node("dir", <<>>) [] i = 4 -> Node("file", fa)
                       [] OTHER -> Node("file", <<>>)]
Named(present) == [p \in Path |-> IF p \in present
                                  THEN CHOOSE i \in 1 .. 4 : MCPathOrder[i] = p ELSE 0]

FullTree(fb, fa) == [inode |-> MCInode(fb, fa), name |-> Named(Path)]
SingleFile(f) == [inode |-> [MCInode(<<>>, <<>>) EXCEPT ![1] = Node("file", f)],
                  name |-> Named({"root"})]

Calls(tree, requests, formats, howCoarse, howMany) ==
    [inode |-> tree.inode, name |-> tree.name, requests |-> requests, formats |-> formats,
     coarse |-> howCoarse, changes |-> howMany]

FullTrees == {FullTree(<<A>>, <<B, A>>), FullTree(<<A>>, <<>>)}
TreeFormats == {"MSC2", "MSC6", "MSR1", "MSR2"}

MCStarts ==
    {Calls(tree, {"outside"}, TreeFormats, FALSE, 2) : tree \in FullTrees}
    \cup {Calls(FullTree(<<A>>, <<>>), Request, TreeFormats, FALSE, 1)}
    \cup {Calls(FullTree(<<A>>, <<B, A>>), {"outside"}, {"MSC2", "MSC6"}, TRUE, 2)}
    \cup {Calls(SingleFile(<<B, A>>), Request, Format, FALSE, 2)}
    \cup {Calls(SingleFile(<<A, A, A>>), {"outside"}, Format, howCoarse, 1) : howCoarse \in BOOLEAN}
    \cup {Calls(SingleFile(<<B>>), {"outside"}, Format, TRUE, 1)}
    \cup {Calls(SingleFile(<<A, B, C, D, A>>), {"outside"}, Format, FALSE, 0)}

(* Names the encoder must treat with care: B and b differ only in case, e is *)
(* stored decomposed and normalized to E, u is no portable name, and d is a  *)
(* directory that others fill, or make, while the tree is walked.  The files *)
(* hold more unique chunks than the smallest frame limit allows.             *)
PortableContents == {<<>>, <<A>>}
PortablePathOrder == <<"root", "B", "b", "d", "d/c", "e", "u">>
PortableParent == [p \in Path \ {"root"} |-> IF p = "d/c" THEN "d" ELSE "root"]
PortableNormal == [p \in Path |-> IF p = "e" THEN "E" ELSE p]
PortableFold == [p \in Path \cup {"E"} |-> CASE p = "B" -> "b" [] p = "E" -> "e" [] OTHER -> p]
PortableParentOf == [p \in Path \cup {"E"} |-> IF p = "d/c" THEN "d" ELSE p]
PortablePaths == (Path \ {"e", "u"}) \cup {"E"}

PortableIno == 1 .. 4
InodeOf == [root |-> 1, B |-> 2, b |-> 3, e |-> 4, u |-> 4]
Flat(files, data) ==
    [inode |-> [i \in PortableIno |-> IF i = 1 THEN Node("dir", <<>>) ELSE Node("file", data)],
     name |-> [p \in Path |-> IF p \in files \cup {"root"} THEN InodeOf[p] ELSE 0]]
Nested ==
    [inode |-> [i \in PortableIno |-> IF i <= 2 THEN Node("dir", <<>>) ELSE Node("file", <<A>>)],
     name |-> [p \in Path |-> CASE p = "root" -> 1 [] p = "d" -> 2 [] OTHER -> 0]]
PortableStarts ==
    {Calls(tree, {"outside"}, TreeFormats, FALSE, 1) :
        tree \in {Flat({"b"}, <<A>>), Flat({"B", "b"}, <<A>>), Flat({"b", "u"}, <<A>>),
                  Flat({"b"}, <<B, A>>), Flat({"e"}, <<A>>)}}
    \cup {Calls(Nested, {"outside"}, {"MSC2"}, FALSE, 2)}
=============================================================================
