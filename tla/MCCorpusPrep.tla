---------------------------- MODULE MCCorpusPrep ------------------------------
EXTENDS CorpusPrep, TLC

CONSTANTS D1, D2

A == "A"
B == "B"
ManyInos == 1 .. 6
WholeFile == <<A, B>>
OtherContents == {<<B, A>>, <<B, A, B>>}
Limits == {0, 2}
Free == [kind |-> "free", data |-> <<>>, mtime |-> 0, ctime |-> 0]
File(data) == [kind |-> "file", data |-> data, mtime |-> 0, ctime |-> 0]

(* The source and the plan in one directory; in the other the same names,    *)
(* with a source of the right size but other bytes.                          *)
SmallTree ==
        [work |-> D1,
         entry |-> (D1 :> ("source" :> 1 @@ "plan" :> 2 @@ "destination" :> NoIno)
                    @@ D2 :> ("source" :> 3 @@ "plan" :> NoIno @@ "destination" :> NoIno)),
         file |-> [i \in Ino |-> CASE i = 1 -> File(<<A, B>>) [] i = 2 -> File(<<A, B>>)
                                   [] i = 3 -> File(<<B, B>>) [] OTHER -> Free]]

Blocks == {A, B}
SmallTrees == {SmallTree}

(* Two calls and one change by others, or one call and two changes. *)
MCInit == Init /\ calls + changes = 1
MCSpec == MCInit /\ [][Next]_vars
=============================================================================
