--------------------------- MODULE Encoders_proofs ---------------------------
(* Proofs about Encoders, for any source tree, any changes of other          *)
(* processes, and any fault, kill or power cut: what the identities that a   *)
(* session captures say of the tree, what the encoders leave in the          *)
(* destination and beside it, and what a published archive says of its       *)
(* source, and that it is an archive every rule of the decoders accepts.     *)
EXTENDS Encoders, Manifest_proofs

-----------------------------------------------------------------------------
(* The tree and the changes other processes make to it.                      *)

(* What an inode may hold.                                                   *)
Node == [kind : FileKind, data : Seq(Chunk), stamp : Nat]

(* The file system others change is always a tree of typed inodes, none of   *)
(* them stamped later than the clock.                                        *)
FileSystemOK ==
    /\ inode \in [Ino -> Node]
    /\ name \in [Path -> Ino \cup {NoIno}]
    /\ mutations \in Nat /\ changes \in Nat /\ coarse \in BOOLEAN
    /\ \A i \in Ino : inode[i].stamp <= mutations
    /\ \A i \in Ino : inode[i].kind # "file" => inode[i].data = <<>>
    /\ \A p \in Path \ {Root} : name[p] # NoIno => IsDir(Parent[p])

(* The root is a path, and so is the directory of every other path.          *)
LEMMA RootIsPath == Root \in Path /\ \A p \in Path \ {Root} : Parent[p] \in Path
  BY SourceAssumption DEF Root, Path

(* The sort order of SourceSession.entries (by depth, then name) lists       *)
(* every directory before what it holds.                                     *)
LEMMA ParentIsEarlier ==
    /\ \A p \in Path \ {Root} : \E i, j \in DOMAIN PathOrder :
          j < i /\ PathOrder[i] = p /\ PathOrder[j] = Parent[p]
    /\ \A p \in Path \ {Root} : Parent[p] # p
<1>1. DOMAIN PathOrder = 1 .. Len(PathOrder) /\ Len(PathOrder) \in Nat BY SourceAssumption
<1>2. ASSUME NEW p \in Path \ {Root}
      PROVE  \E i, j \in DOMAIN PathOrder : j < i /\ PathOrder[i] = p /\ PathOrder[j] = Parent[p]
  <2>1. PICK i \in DOMAIN PathOrder : PathOrder[i] = p BY DEF Path
  <2>2. i \in 2 .. Len(PathOrder) BY <1>1, <2>1 DEF Root
  <2> QED BY <1>1, <2>1, <2>2, SourceAssumption
<1> QED BY <1>1, <1>2, SourceAssumption

(* What require_ancestor_bindings walks: the ancestors of a path are its     *)
(* directory and the ancestors of that.                                      *)
LEMMA AncestorsUnfold ==
    \A p \in Path : Ancestors[p] = IF p = Root THEN {} ELSE {Parent[p]} \cup Ancestors[Parent[p]]
<1> DEFINE Chain(p, s) == /\ s[1] = p
                          /\ \A i \in 1 .. Len(s) - 1 : s[i] # Root /\ s[i + 1] = Parent[s[i]]
           above == [p \in Path |->
                        {q \in Path : \E s \in Seq(Path) :
                            Len(s) > 1 /\ Chain(p, s) /\ s[Len(s)] = q}]
<1>1. ASSUME NEW p \in Path
      PROVE  above[p] = IF p = Root THEN {} ELSE {Parent[p]} \cup above[Parent[p]]
  <2>1. CASE p = Root BY <2>1
  <2>2. CASE p # Root
    <3>0. Parent[p] \in Path BY RootIsPath, <2>2
    <3>1. ASSUME NEW q \in above[p] PROVE q \in {Parent[p]} \cup above[Parent[p]]
      <4>1. PICK s \in Seq(Path) : Len(s) > 1 /\ Chain(p, s) /\ s[Len(s)] = q OBVIOUS
      <4>2. CASE Len(s) = 2 BY <4>1, <4>2
      <4>3. CASE Len(s) > 2
        <5> DEFINE t == [i \in 1 .. Len(s) - 1 |-> s[i + 1]]
        <5>1. t \in Seq(Path) /\ Len(t) = Len(s) - 1 BY <4>3
        <5>a. t[1] = Parent[p] BY <4>1, <4>3
        <5>b. t[Len(t)] = q BY <5>1, <4>1, <4>3
        <5>2. t[1] = Parent[p] /\ t[Len(t)] = q BY <5>a, <5>b
        <5>3. ASSUME NEW i \in 1 .. Len(t) - 1 PROVE t[i] # Root /\ t[i + 1] = Parent[t[i]]
          <6>1. i + 1 \in 1 .. Len(s) - 1 BY <5>1, <4>1, <4>3
          <6>2. t[i] = s[i + 1] /\ t[i + 1] = s[(i + 1) + 1] BY <5>1, <4>1, <4>3
          <6> QED BY <6>1, <6>2, <4>1
        <5>4. Chain(Parent[p], t) BY <5>2, <5>3
        <5>5. Len(t) > 1 BY <5>1, <4>3
        <5>6. q \in above[Parent[p]]
          <6> HIDE DEF t, Chain
          <6> QED BY <5>1, <5>2, <5>4, <5>5, <3>0
        <5> QED BY <5>6
      <4>4. Len(s) \in Nat BY <4>1
      <4> QED BY <4>1, <4>2, <4>3, <4>4
    <3>2. Parent[p] \in above[p]
      <4>1. <<p, Parent[p]>> \in Seq(Path) BY <3>0
      <4>2. Len(<<p, Parent[p]>>) > 1 /\ Chain(p, <<p, Parent[p]>>) BY <2>2
      <4> QED BY <4>1, <4>2, <3>0
    <3>3. ASSUME NEW q \in above[Parent[p]] PROVE q \in above[p]
      <4>1. PICK s \in Seq(Path) : Len(s) > 1 /\ Chain(Parent[p], s) /\ s[Len(s)] = q BY <3>0
      <4> DEFINE t == [i \in 1 .. Len(s) + 1 |-> IF i = 1 THEN p ELSE s[i - 1]]
      <4>2. t \in Seq(Path) /\ Len(t) = Len(s) + 1 OBVIOUS
      <4>3. Chain(p, t) /\ t[Len(t)] = q BY <4>1, <4>2, <2>2
      <4>4. Len(t) > 1 BY <4>1, <4>2
      <4> HIDE DEF t, Chain
      <4> QED BY <4>1, <4>2, <4>3, <4>4
    <3> HIDE DEF above
    <3> QED BY <3>1, <3>2, <3>3, <2>2
  <2> QED BY <2>1, <2>2
<1>2. above = [p \in Path |-> IF p = Root THEN {} ELSE {Parent[p]} \cup above[Parent[p]]] BY <1>1
<1>3. Ancestors = [p \in Path |-> IF p = Root THEN {} ELSE {Parent[p]} \cup Ancestors[Parent[p]]]
  <2> HIDE DEF above
  <2> QED BY <1>2 DEF Ancestors
<1> QED BY <1>3

(* A touched inode keeps its kind and data, and takes the time of the        *)
(* change unless the change does not show.                                   *)
LEMMA TouchedFacts ==
    ASSUME NEW tab \in [Ino -> Node], NEW i, NEW moves \in BOOLEAN, mutations \in Nat
    PROVE  /\ Touched(tab, i, moves) \in [Ino -> Node]
           /\ \A j \in Ino : /\ Touched(tab, i, moves)[j].kind = tab[j].kind
                             /\ Touched(tab, i, moves)[j].data = tab[j].data
                             /\ \/ Touched(tab, i, moves)[j] = tab[j]
                                \/ Touched(tab, i, moves)[j].stamp = mutations + 1
           /\ i \in Ino /\ moves => Touched(tab, i, moves)[i].stamp = mutations + 1
<1> DEFINE new == [tab[i] EXCEPT !.stamp = mutations + 1]
<1>1. CASE moves /\ i \in Ino
  <2>1. Touched(tab, i, moves) = [tab EXCEPT ![i] = new] BY <1>1 DEF Touched
  <2>2. tab[i] \in Node /\ mutations + 1 \in Nat BY <1>1
  <2>3. new \in Node BY <2>2 DEF Node
  <2>4. new.stamp = mutations + 1 /\ new.kind = tab[i].kind /\ new.data = tab[i].data
    BY <2>2 DEF Node
  <2> HIDE DEF new
  <2> QED BY <1>1, <2>1, <2>3, <2>4
<1>2. CASE ~(moves /\ i \in Ino)
  <2>1. Touched(tab, i, moves) = tab BY <1>2 DEF Touched
  <2> QED BY <1>2, <2>1
<1> QED BY <1>1, <1>2

(* An inode that is given new content leaves the others alone, and takes     *)
(* the time of the change unless it does not show.                           *)
LEMMA HoldingFacts ==
    ASSUME NEW tab \in [Ino -> Node], NEW i \in Ino, NEW moves \in BOOLEAN, mutations \in Nat,
           NEW kind \in FileKind, NEW data \in Seq(Chunk)
    PROVE  /\ Holding(tab, i, kind, data, moves) \in [Ino -> Node]
           /\ \A j \in Ino \ {i} : Holding(tab, i, kind, data, moves)[j] = tab[j]
           /\ Holding(tab, i, kind, data, moves)[i].kind = kind
           /\ Holding(tab, i, kind, data, moves)[i].data = data
           /\ Holding(tab, i, kind, data, moves)[i].stamp \in {tab[i].stamp, mutations + 1}
           /\ moves => Holding(tab, i, kind, data, moves)[i].stamp = mutations + 1
<1> DEFINE mid == [tab[i] EXCEPT !.kind = kind, !.data = data]
           full == [tab EXCEPT ![i].kind = kind, ![i].data = data]
<1>1. full = [tab EXCEPT ![i] = mid] BY DEF Node
<1>2. mid \in Node /\ mid.kind = kind /\ mid.data = data /\ mid.stamp = tab[i].stamp BY DEF Node
<1>3. full \in [Ino -> Node] /\ full[i] = mid /\ \A j \in Ino \ {i} : full[j] = tab[j]
  <2> HIDE DEF mid, full
  <2> QED BY <1>1, <1>2
<1>4. Holding(tab, i, kind, data, moves) = Touched(full, i, moves) BY DEF Holding
<1>5. \A j \in Ino \ {i} : Touched(full, i, moves)[j] = full[j] BY <1>3 DEF Touched
<1> HIDE DEF full, mid
<1> QED BY <1>2, <1>3, <1>4, <1>5, TouchedFacts

(* Stamped by the change under way.                                          *)
Fresh(i) == inode'[i].stamp = mutations + 1

(* What a listing of a directory returns now.                                *)
Present(d) == {p \in Children(d) : name[p] # NoIno}

(* A change that shows: an inode is as before or bears the new stamp, a      *)
(* name is as before, gone or an inode with the new stamp, and a name that   *)
(* comes or goes leaves the new stamp on its directory.                      *)
FreshlyChanged ==
    /\ \A i \in Ino : inode'[i] = inode[i] \/ Fresh(i)
    /\ \A p \in Path : name'[p] \in {name[p], NoIno} \/ Fresh(name'[p])
    /\ \A p \in Path \ {Root} :
          \/ (name'[p] = NoIno) = (name[p] = NoIno)
          \/ name'[Parent[p]] = NoIno
          \/ name'[Parent[p]] \in Ino /\ Fresh(name'[Parent[p]])

(* FileSystemOK of the next state, but for the clock.                        *)
StillFileSystem ==
    /\ inode' \in [Ino -> Node]
    /\ name' \in [Path -> Ino \cup {NoIno}]
    /\ \A i \in Ino : inode'[i].stamp <= mutations + 1
    /\ \A i \in Ino : inode'[i].kind # "file" => inode'[i].data = <<>>
    /\ \A p \in Path \ {Root} : name'[p] # NoIno => IsDir(Parent[p])'

(* No stamp of the tree is the one the next change makes.                    *)
LEMMA StampsBelow ==
    ASSUME FileSystemOK
    PROVE  \A i \in Ino : inode[i].stamp <= mutations + 1
<1>1. \A i \in Ino : inode[i] \in Node /\ inode[i].stamp <= mutations /\ mutations \in Nat
  BY DEF FileSystemOK
<1>2. \A i \in Ino : inode[i].stamp \in Nat BY <1>1 DEF Node
<1> QED BY <1>1, <1>2

(* Writing to a file leaves a file system, and shows when it moves the       *)
(* stamps.                                                                   *)
LEMMA WriteFacts ==
    ASSUME FileSystemOK, NEW p \in Path, NEW data \in Contents,
           NEW moves \in BOOLEAN, Write(p, data, moves)
    PROVE  StillFileSystem /\ (moves => FreshlyChanged)
<1> DEFINE i == name[p]
<1>1. i \in Ino /\ inode[i].kind = "file" BY DEF Write, IsFile, FileSystemOK
<1>2. data \in Seq(Chunk) BY SourceAssumption
<1>3. inode' = Holding(inode, i, "file", data, moves) /\ name' = name BY DEF Write
<1>4. inode \in [Ino -> Node] /\ mutations \in Nat /\ "file" \in FileKind
  BY DEF FileSystemOK, FileKind
<1>5. /\ inode' \in [Ino -> Node]
      /\ \A j \in Ino \ {i} : inode'[j] = inode[j]
      /\ inode'[i].kind = "file"
      /\ inode'[i].stamp \in {inode[i].stamp, mutations + 1}
      /\ moves => inode'[i].stamp = mutations + 1
  BY <1>1, <1>2, <1>3, <1>4, HoldingFacts
<1> HIDE DEF i
<1>6. StillFileSystem
  <2>1. \A j \in Ino : inode'[j].stamp <= mutations + 1 BY <1>1, <1>4, <1>5, StampsBelow
  <2>2. \A j \in Ino : inode'[j].kind # "file" => inode'[j].data = <<>>
    BY <1>1, <1>5 DEF FileSystemOK
  <2>3. \A q \in Path \ {Root} : name'[q] # NoIno => IsDir(Parent[q])'
    <3>1. \A j \in Ino : inode'[j].kind = inode[j].kind BY <1>1, <1>5
    <3> QED BY <1>3, <3>1, RootIsPath DEF FileSystemOK, IsDir
  <2> QED BY <1>3, <1>5, <2>1, <2>2, <2>3 DEF StillFileSystem, FileSystemOK
<1>7. moves => FreshlyChanged
  BY <1>1, <1>3, <1>5 DEF FreshlyChanged, Fresh
<1> QED BY <1>6, <1>7

(* Renaming another file over a file does.                                   *)
LEMMA ReplaceFacts ==
    ASSUME FileSystemOK, NEW p \in Path, NEW data \in Contents,
           NEW moves \in BOOLEAN, Replace(p, data, moves)
    PROVE  StillFileSystem /\ (moves => FreshlyChanged)
<1>1. PICK i \in Free :
          /\ name' = [name EXCEPT ![p] = i]
          /\ inode' = Holding(Touched(TouchedParent(inode, p, moves), name[p], moves),
                              i, "file", data, moves)
  BY DEF Replace
<1> DEFINE one == TouchedParent(inode, p, moves)
           two == Touched(one, name[p], moves)
<1>2. data \in Seq(Chunk) BY SourceAssumption
<1>3. inode \in [Ino -> Node] /\ mutations \in Nat /\ "file" \in FileKind
  BY DEF FileSystemOK, FileKind
<1>4. i \in Ino /\ \A q \in Path : name[q] # i BY DEF Free
<1>5. /\ one \in [Ino -> Node]
      /\ \A j \in Ino : /\ one[j].kind = inode[j].kind /\ one[j].data = inode[j].data
                        /\ one[j] = inode[j] \/ one[j].stamp = mutations + 1
  BY <1>3, TouchedFacts DEF TouchedParent
<1>6. /\ two \in [Ino -> Node]
      /\ \A j \in Ino : /\ two[j].kind = one[j].kind /\ two[j].data = one[j].data
                        /\ two[j] = one[j] \/ two[j].stamp = mutations + 1
  BY <1>3, <1>5, TouchedFacts
<1> HIDE DEF one, two
<1>7. /\ inode' \in [Ino -> Node]
      /\ \A j \in Ino \ {i} : inode'[j] = two[j]
      /\ inode'[i].kind = "file"
      /\ inode'[i].stamp \in {two[i].stamp, mutations + 1}
      /\ moves => inode'[i].stamp = mutations + 1
  BY <1>1, <1>2, <1>3, <1>4, <1>6, HoldingFacts DEF one, two
<1>8. \A j \in Ino \ {i} : /\ inode'[j].kind = inode[j].kind /\ inode'[j].data = inode[j].data
                           /\ inode'[j] = inode[j] \/ inode'[j].stamp = mutations + 1
  BY <1>5, <1>6, <1>7
<1>9. \A j \in Ino : inode'[j].stamp <= mutations + 1
  BY <1>3, <1>5, <1>6, <1>7, StampsBelow
<1>10. name' \in [Path -> Ino \cup {NoIno}] /\ name[p] # NoIno /\ inode[name[p]].kind = "file"
  BY <1>1, <1>4 DEF FileSystemOK, Replace, IsFile
<1>11. StillFileSystem
  BY <1>1, <1>4, <1>7, <1>8, <1>9, <1>10, RootIsPath DEF StillFileSystem, FileSystemOK, IsDir
<1>12. moves => FreshlyChanged
  <2> SUFFICES ASSUME moves PROVE FreshlyChanged OBVIOUS
  <2>1. inode'[i].stamp = mutations + 1 BY <1>7
  <2>2. \A j \in Ino : inode'[j] = inode[j] \/ Fresh(j) BY <1>8, <2>1 DEF Fresh
  <2>3. \A q \in Path : name'[q] \in {name[q], NoIno} \/ Fresh(name'[q])
    BY <1>1, <1>10, <2>1 DEF Fresh, FileSystemOK
  <2>4. \A q \in Path : (name'[q] = NoIno) = (name[q] = NoIno)
    BY <1>1, <1>4, <1>10, SourceAssumption DEF FileSystemOK
  <2> QED BY <2>2, <2>3, <2>4 DEF FreshlyChanged
<1> QED BY <1>11, <1>12

(* Taking a path away with all that is below it does.                        *)
LEMMA RemoveFacts ==
    ASSUME FileSystemOK, NEW p \in Path, NEW moves \in BOOLEAN, Remove(p, moves)
    PROVE  StillFileSystem /\ (moves => FreshlyChanged)
<1> DEFINE one == TouchedParent(inode, p, moves)
<1>1. inode \in [Ino -> Node] /\ mutations \in Nat BY DEF FileSystemOK
<1>2. /\ one \in [Ino -> Node]
      /\ \A j \in Ino : /\ one[j].kind = inode[j].kind /\ one[j].data = inode[j].data
                        /\ one[j] = inode[j] \/ one[j].stamp = mutations + 1
      /\ p # Root /\ moves => one[name[Parent[p]]].stamp = mutations + 1
  BY <1>1, TouchedFacts, RootIsPath DEF TouchedParent, Remove, FileSystemOK, IsDir
<1> HIDE DEF one
<1>3. inode' = Touched(one, name[p], moves) BY DEF Remove, one
<1>4. /\ inode' \in [Ino -> Node]
      /\ \A j \in Ino : /\ inode'[j].kind = one[j].kind /\ inode'[j].data = one[j].data
                        /\ inode'[j] = one[j] \/ inode'[j].stamp = mutations + 1
  BY <1>1, <1>2, <1>3, TouchedFacts
<1>5. \A q \in Path : name'[q] = IF q = p \/ p \in Ancestors[q] THEN NoIno ELSE name[q]
  BY DEF Remove
<1>6. \A q \in Path \ {Root} : name'[Parent[q]] # NoIno /\ q # p => name'[q] = name[q]
  BY <1>5, AncestorsUnfold, RootIsPath
<1>6a. \A q \in Path \ {Root} : name'[q] # NoIno => name'[Parent[q]] = name[Parent[q]]
  BY <1>5, AncestorsUnfold, RootIsPath
<1>6b. name'[Root] \in {name[Root], NoIno} BY <1>5, RootIsPath
<1>7. StillFileSystem
  <2>1. name' \in [Path -> Ino \cup {NoIno}] BY DEF Remove, FileSystemOK
  <2>2. \A i \in Ino : inode'[i].stamp <= mutations + 1
    BY <1>1, <1>2, <1>4 DEF Node, FileSystemOK
  <2>3. \A i \in Ino : inode'[i].kind # "file" => inode'[i].data = <<>>
    BY <1>2, <1>4 DEF FileSystemOK
  <2>4. ASSUME NEW q \in Path \ {Root}, name'[q] # NoIno PROVE IsDir(Parent[q])'
    <3>1. name[q] # NoIno /\ name'[q] = name[q] BY <2>4, <1>5
    <3>2. name'[Parent[q]] = name[Parent[q]] BY <2>4, <1>6a
    <3> QED BY <3>1, <3>2, <1>2, <1>4, RootIsPath DEF FileSystemOK, IsDir
  <2> QED BY <2>1, <2>2, <2>3, <2>4, <1>4 DEF StillFileSystem
<1>8. ASSUME moves PROVE FreshlyChanged
  <2>1. \A i \in Ino : inode'[i] = inode[i] \/ Fresh(i) BY <1>2, <1>4 DEF Fresh
  <2>2. \A q \in Path : name'[q] \in {name[q], NoIno} BY <1>5
  <2>3. ASSUME NEW q \in Path \ {Root}, name'[Parent[q]] # NoIno,
               ~((name'[q] = NoIno) = (name[q] = NoIno))
        PROVE  name'[Parent[q]] \in Ino /\ Fresh(name'[Parent[q]])
    <3>1. q = p BY <2>3, <1>6
    <3>2. name'[Parent[p]] = name[Parent[p]] BY <1>5, <2>3, <3>1, RootIsPath
    <3> QED BY <3>1, <3>2, <2>3, <1>2, <1>4, <1>8, RootIsPath DEF Fresh, FileSystemOK
  <2> QED BY <2>1, <2>2, <2>3 DEF FreshlyChanged
<1> QED BY <1>7, <1>8

(* Creating an object does.                                                  *)
LEMMA CreateFacts ==
    ASSUME FileSystemOK, NEW p \in Path, NEW kind \in FileKind, NEW data \in Contents,
           NEW moves \in BOOLEAN, Create(p, kind, data, moves)
    PROVE  StillFileSystem /\ (moves => FreshlyChanged)
<1>1. PICK i \in Free :
          /\ name' = [name EXCEPT ![p] = i]
          /\ inode' = Holding(TouchedParent(inode, p, moves), i, kind, data, moves)
  BY DEF Create
<1> DEFINE one == TouchedParent(inode, p, moves)
<1>2. data \in Seq(Chunk) BY SourceAssumption
<1>3. inode \in [Ino -> Node] /\ mutations \in Nat BY DEF FileSystemOK
<1>4. i \in Ino /\ \A q \in Path : name[q] # i BY DEF Free
<1>5. /\ one \in [Ino -> Node]
      /\ \A j \in Ino : /\ one[j].kind = inode[j].kind /\ one[j].data = inode[j].data
                        /\ one[j] = inode[j] \/ one[j].stamp = mutations + 1
      /\ p # Root /\ moves => one[name[Parent[p]]].stamp = mutations + 1
  BY <1>3, TouchedFacts, RootIsPath DEF TouchedParent, Create, FileSystemOK, IsDir
<1> HIDE DEF one
<1>6. /\ inode' \in [Ino -> Node]
      /\ \A j \in Ino \ {i} : inode'[j] = one[j]
      /\ inode'[i].kind = kind /\ inode'[i].data = data
      /\ inode'[i].stamp \in {one[i].stamp, mutations + 1}
      /\ moves => inode'[i].stamp = mutations + 1
  BY <1>1, <1>2, <1>3, <1>4, <1>5, HoldingFacts DEF one
<1>7. name[p] = NoIno /\ (p # Root => IsDir(Parent[p])) /\ (kind # "file" => data = <<>>)
  BY DEF Create
<1>8. \A j \in Ino : inode'[j].stamp <= mutations + 1
  BY <1>3, <1>5, <1>6, StampsBelow
<1>9. name' \in [Path -> Ino \cup {NoIno}] BY <1>1, <1>4 DEF FileSystemOK
<1>10. ASSUME NEW q \in Path \ {Root}, name'[q] # NoIno PROVE IsDir(Parent[q])'
  <2>1. IsDir(Parent[q]) BY <1>1, <1>7, <1>10 DEF FileSystemOK
  <2>2. name'[Parent[q]] = name[Parent[q]] /\ name[Parent[q]] \in Ino \ {i}
    BY <2>1, <1>1, <1>4, <1>7, RootIsPath DEF IsDir, FileSystemOK
  <2> QED BY <2>1, <2>2, <1>5, <1>6 DEF IsDir
<1>11. StillFileSystem
  BY <1>5, <1>6, <1>7, <1>8, <1>9, <1>10 DEF StillFileSystem, FileSystemOK
<1>12. ASSUME moves PROVE FreshlyChanged
  <2>1. \A j \in Ino : inode'[j] = inode[j] \/ Fresh(j) BY <1>5, <1>6, <1>12 DEF Fresh
  <2>2. \A q \in Path : name'[q] \in {name[q], NoIno} \/ Fresh(name'[q])
    BY <1>1, <1>6, <1>12 DEF Fresh, FileSystemOK
  <2>3. ASSUME NEW q \in Path \ {Root}, ~((name'[q] = NoIno) = (name[q] = NoIno))
        PROVE  name'[Parent[q]] \in Ino /\ Fresh(name'[Parent[q]])
    <3>1. q = p BY <2>3, <1>1 DEF FileSystemOK
    <3>2. name'[Parent[p]] = name[Parent[p]] /\ name[Parent[p]] \in Ino \ {i}
      BY <1>1, <1>4, <1>7, <2>3, <3>1, RootIsPath DEF IsDir, FileSystemOK
    <3> QED BY <3>1, <3>2, <2>3, <1>5, <1>6, <1>12 DEF Fresh
  <2> QED BY <2>1, <2>2, <2>3 DEF FreshlyChanged
<1> QED BY <1>11, <1>12

(* Every change of another process keeps the tree a tree; when no change is  *)
(* coarse, every one of them shows in the stamps of what it touched.         *)
LEMMA MutationFacts ==
    ASSUME FileSystemOK, Mutate
    PROVE  /\ StillFileSystem /\ (~coarse => FreshlyChanged)
           /\ mutations' = mutations + 1 /\ FileSystemOK' /\ UNCHANGED <<coarse, session>>
<1>1. PICK p \in Path, moves \in Moves :
          \/ \E data \in Contents : Write(p, data, moves) \/ Replace(p, data, moves)
          \/ Remove(p, moves)
          \/ \E kind \in FileKind, data \in Contents : Create(p, kind, data, moves)
  BY DEF Mutate
<1>2. moves \in BOOLEAN /\ (~coarse => moves = TRUE) BY DEF Moves
<1>3. StillFileSystem /\ (moves => FreshlyChanged)
  BY <1>1, <1>2, WriteFacts, ReplaceFacts, RemoveFacts, CreateFacts
<1>4. mutations' = mutations + 1 /\ changes' \in Nat /\ UNCHANGED <<coarse, session>>
  BY DEF Mutate, FileSystemOK
<1>5. mutations' \in Nat /\ coarse' \in BOOLEAN BY <1>4 DEF FileSystemOK
<1>6. FileSystemOK' BY <1>3, <1>4, <1>5 DEF FileSystemOK, StillFileSystem
<1> QED BY <1>2, <1>3, <1>4, <1>6

-----------------------------------------------------------------------------
(* What a session records of the tree.                                       *)

(* Recorded by the session.                                                  *)
Seen(p) == captured[p].kind # "absent"

(* The stat of the path is, at this moment, the identity captured for it:    *)
(* what SourceIdentity.matches_path would find.                              *)
Bound(p) == Seen(p) /\ name[p] # NoIno /\ captured[p] = StatInode(name[p])

(* What the session has recorded of a directory.                             *)
FoundIn(d) == {p \in Children(d) : Seen(p)}

(* The walk of _discover_directory is under way.                             *)
Listing == spc \in {"discover", "children"}

(* A directory the walk has not finished with.                               *)
Unlisted(d) ==
    \/ Listing /\ d \in pending
    \/ spc = "children" /\ d \in Subdirectories(cur)

(* No identity is stamped later than the clock.                              *)
CapturedOK ==
    /\ captured \in [Path -> [kind : {"absent", "file", "dir"}, ino : Ino \cup {NoIno},
                              stamp : Nat, size : Nat]]
    /\ \A p \in Path : captured[p].stamp <= mutations
    /\ pending \subseteq Path

(* What is recorded is a tree below the root; a root that is a file is all   *)
(* there is.                                                                 *)
CapturedTree ==
    /\ spc = "new" => \A p \in Path : ~Seen(p)
    /\ spc \notin {"new", "raised"} => Seen(Root)
    /\ captured[Root].kind = "file" => Discovered = {Root} /\ ~Listing
    /\ \A p \in Path \ {Root} : Seen(p) => captured[Parent[p]].kind = "dir"

(* Nothing is recorded below a directory that is still to be listed, and a   *)
(* name still to be examined is not recorded.                                *)
Walked ==
    /\ Listing => \A d \in pending : captured[d].kind = "dir"
    /\ \A d \in Path : Unlisted(d) /\ ~(spc = "children" /\ d = cur) => FoundIn(d) = {}
    /\ spc = "children" =>
          /\ cur \in pending
          /\ todo \cap Discovered = {} /\ todo \subseteq Children(cur)

(* The heart of the capture. A directory that is bound now holds exactly     *)
(* what was recorded in it: while its names are examined, those recorded     *)
(* and those still to be examined.                                           *)
Listed ==
    spc # "raised" /\ ~coarse =>
        /\ spc = "children" /\ Bound(cur) => Present(cur) = todo \cup FoundIn(cur)
        /\ \A d \in Path : captured[d].kind = "dir" /\ ~Unlisted(d) /\ Bound(d) =>
              Present(d) = FoundIn(d)

(* The inductive invariant of a session and the tree it walks.               *)
SessionInv == FileSystemOK /\ CapturedOK /\ CapturedTree /\ Walked /\ Listed

(* After a change that shows, a path that is bound was bound before, names   *)
(* the same unchanged inode and, if a directory, holds the same names. No    *)
(* change can bring back the identity that was captured.                     *)
LEMMA BoundBefore ==
    ASSUME FileSystemOK, CapturedOK, Mutate, ~coarse, NEW p \in Path, Bound(p)'
    PROVE  /\ Bound(p) /\ name'[p] = name[p] /\ inode'[name[p]] = inode[name[p]]
           /\ captured[p].kind = "dir" => Present(p)' = Present(p)
<1>1. /\ FreshlyChanged /\ StillFileSystem /\ FileSystemOK'
      /\ UNCHANGED <<captured, coarse>> /\ mutations \in Nat
  BY MutationFacts DEF session, FileSystemOK
<1>2. captured[p].stamp \in Nat /\ captured[p].stamp <= mutations BY DEF CapturedOK
<1>3. name'[p] \in Ino /\ captured[p].stamp = inode'[name'[p]].stamp
  BY <1>1 DEF Bound, StatInode, FileSystemOK
<1>4. ~Fresh(name'[p]) BY <1>1, <1>2, <1>3 DEF Fresh
<1>5. name'[p] = name[p] /\ inode'[name[p]] = inode[name[p]]
  BY <1>1, <1>3, <1>4, SourceAssumption DEF FreshlyChanged, StillFileSystem
<1>6. Bound(p) BY <1>1, <1>5 DEF Bound, Seen, StatInode
<1>7. Present(p)' = Present(p)
  <2>1. \A q \in Children(p) : (name'[q] = NoIno) = (name[q] = NoIno)
    BY <1>1, <1>3, <1>4, SourceAssumption DEF Children, FreshlyChanged
  <2> QED BY <2>1 DEF Present
<1> QED BY <1>5, <1>6, <1>7

(* Other processes keep the invariant.                                       *)
LEMMA MutationKeepsSession == SessionInv /\ Mutate => SessionInv'
<1> SUFFICES ASSUME SessionInv, Mutate PROVE SessionInv' OBVIOUS
<1>1. FileSystemOK' /\ UNCHANGED <<coarse, session>> /\ mutations' = mutations + 1
  BY MutationFacts DEF SessionInv
<1> USE DEF session, walk
<1>2. CapturedOK' BY <1>1 DEF SessionInv, CapturedOK, FileSystemOK
<1>3. CapturedTree' /\ Walked'
  BY <1>1 DEF SessionInv, CapturedTree, Walked, Unlisted, Listing, Subdirectories, FoundIn, Seen,
       Children, Discovered
<1>4. Listed'
  <2> SUFFICES ASSUME spc # "raised", ~coarse PROVE Listed' BY <1>1 DEF Listed
  <2>1. \A d \in Path :
           Bound(d)' => Bound(d) /\ (captured[d].kind = "dir" => Present(d)' = Present(d))
    BY BoundBefore DEF SessionInv
  <2>2. \A d \in Path : FoundIn(d)' = FoundIn(d) /\ Unlisted(d)' = Unlisted(d)
    BY <1>1 DEF FoundIn, Seen, Unlisted, Listing, Subdirectories
  <2>3. spc = "children" => cur \in Path /\ captured[cur].kind = "dir"
    BY DEF SessionInv, CapturedOK, Walked, Listing
  <2>4. \A d \in Path :
           d = cur /\ spc = "children" /\ Bound(d)' => Present(d)' = todo \cup FoundIn(d)
    BY <2>1, <2>3 DEF SessionInv, Listed
  <2>5. \A d \in Path :
           captured[d].kind = "dir" /\ ~Unlisted(d) /\ Bound(d)' => Present(d)' = FoundIn(d)
    BY <2>1 DEF SessionInv, Listed
  <2>6. cur' = cur /\ todo' = todo /\ captured' = captured /\ spc' = spc BY <1>1
  <2> HIDE DEF session, walk
  <2>8. spc' = "children" /\ Bound(cur)' => Present(cur)' = todo' \cup FoundIn(cur)'
    BY <2>2, <2>3, <2>4, <2>6
  <2>9. \A d \in Path :
           captured'[d].kind = "dir" /\ ~Unlisted(d)' /\ Bound(d)' => Present(d)' = FoundIn(d)'
    BY <2>2, <2>5, <2>6
  <2> QED BY <2>8, <2>9 DEF Listed
<1> QED BY <1>1, <1>2, <1>3, <1>4 DEF SessionInv

(* The capture of the root keeps the invariant.                              *)
LEMMA InitialMetadataKeeps == SessionInv /\ InitialMetadata => SessionInv'
<1> SUFFICES ASSUME SessionInv, InitialMetadata PROVE SessionInv' OBVIOUS
<1> USE RootIsPath DEF SessionInv, InitialMetadata, fileSystem, Raise, Stat, StatInode, Absent
<1>1. FileSystemOK' BY DEF FileSystemOK, IsDir
<1>2. CapturedOK'
  <2>1. CASE captured' = captured BY <2>1 DEF CapturedOK
  <2>2. CASE captured' # captured
    <3> DEFINE i == name[Root]
    <3>1. i \in Ino /\ captured' = [captured EXCEPT ![Root] = StatInode(i)]
          /\ inode[i].kind \in {"file", "dir"}
      BY <2>2 DEF FileSystemOK
    <3>2. inode[i] \in Node /\ inode[i].stamp <= mutations BY <3>1 DEF FileSystemOK
    <3> HIDE DEF i
    <3>3. StatInode(i) \in [kind : {"absent", "file", "dir"}, ino : Ino \cup {NoIno},
                           stamp : Nat, size : Nat]
      BY <3>1, <3>2 DEF Node
    <3>4. StatInode(i).stamp <= mutations BY <3>2
    <3> QED BY <3>1, <3>3, <3>4 DEF CapturedOK
  <2> QED BY <2>1, <2>2
<1>3. CapturedTree' BY DEF CapturedTree, Discovered, Listing, Seen, CapturedOK
<1>4. Walked'
  BY DEF Walked, Discovered, Listing, Seen, CapturedOK, CapturedTree, Unlisted, FoundIn,
     Subdirectories, Children
<1>5. Listed'
  BY DEF Listed, Walked, Discovered, Listing, Seen, CapturedOK, CapturedTree, Unlisted, FoundIn,
     Subdirectories, Children, Present, Bound
<1> QED BY <1>1, <1>2, <1>3, <1>4, <1>5

(* The stages of a session that record identities.                           *)
Early == {"new", "discover", "children"}

(* Every later step, which records nothing, keeps the invariant.             *)
LEMMA LaterKeeps ==
    ASSUME SessionInv, UNCHANGED <<fileSystem, captured>>, pending' \subseteq Path,
           spc' \notin Early, spc' = "raised" \/ spc \notin Early \cup {"raised"}
    PROVE  SessionInv'
<1> USE DEF fileSystem, Early
<1>1. FileSystemOK' BY DEF SessionInv, FileSystemOK, IsDir
<1>2. CapturedOK' BY DEF SessionInv, CapturedOK
<1>3. CapturedTree' BY DEF SessionInv, CapturedTree, Seen, Discovered, Listing
<1>4. Walked' BY DEF SessionInv, Walked, Unlisted, Listing
<1>5. Listed'
  <2>1. \A d \in Path : Bound(d)' = Bound(d) /\ Present(d)' = Present(d) /\ FoundIn(d)' = FoundIn(d)
    BY DEF Bound, Present, FoundIn, Seen, StatInode
  <2>2. spc' # "raised" => \A d \in Path : ~Unlisted(d) /\ ~Unlisted(d)' BY DEF Unlisted, Listing
  <2> QED BY <2>1, <2>2 DEF SessionInv, Listed
<1> QED BY <1>1, <1>2, <1>3, <1>4, <1>5 DEF SessionInv

(* Listing a directory keeps the invariant: all it holds is still to be      *)
(* examined.                                                                 *)
LEMMA DiscoverDirectoryKeeps == SessionInv /\ DiscoverDirectory => SessionInv'
<1> SUFFICES ASSUME SessionInv, DiscoverDirectory PROVE SessionInv' OBVIOUS
<1> USE DEF fileSystem
<1>0. PICK d \in pending :
          /\ cur' = d /\ spc = "discover"
          /\ todo' = Present(d)
          /\ IF Stat(d).kind = "dir" THEN spc' = "children" /\ UNCHANGED cause ELSE Raise("OSError")
          /\ UNCHANGED <<fileSystem, captured, pending, seen, handle>>
  BY DEF DiscoverDirectory, ScanDirectory, Present
<1>1. d \in Path /\ captured[d].kind = "dir" /\ FoundIn(d) = {}
  BY <1>0 DEF SessionInv, CapturedOK, Walked, Listing, Unlisted
<1>2. CASE Stat(d).kind # "dir"
  <2>1. spc' = "raised" /\ pending' \subseteq Path
    BY <1>0, <1>1, <1>2 DEF Raise, SessionInv, CapturedOK
  <2> QED BY <2>1, <1>0, LaterKeeps DEF Early
<1>3. CASE Stat(d).kind = "dir"
  <2>0. spc' = "children" BY <1>0, <1>3
  <2>1. FileSystemOK' BY <1>0 DEF SessionInv, FileSystemOK, IsDir
  <2>2. CapturedOK' BY <1>0, <1>1 DEF SessionInv, CapturedOK
  <2>3. CapturedTree' BY <1>0, <2>0 DEF SessionInv, CapturedTree, Seen, Discovered, Listing
  <2>4. Subdirectories(d) = {} /\ Subdirectories(d)' = {}
    BY <1>0, <1>1 DEF Subdirectories, FoundIn, Seen
  <2>5. \A e \in Path : Unlisted(e)' <=> Unlisted(e)
    BY <1>0, <2>0, <2>4 DEF Unlisted, Listing
  <2>6. \A e \in Path : FoundIn(e)' = FoundIn(e) /\ Bound(e)' = Bound(e) /\ Present(e)' = Present(e)
    BY <1>0 DEF Bound, Present, FoundIn, Seen, StatInode
  <2>7. Walked'
    <3>1. \A p \in Present(d) : ~Seen(p) /\ p \in Children(d)
      BY <1>1 DEF Present, FoundIn
    <3>2. todo' \cap Discovered' = {} /\ todo' \subseteq Children(cur')
      BY <1>0, <3>1 DEF Discovered, Seen
    <3>3. Listing' /\ Listing BY <1>0, <2>0 DEF Listing
    <3>4. \A e \in Path : Unlisted(e)' => FoundIn(e)' = {}
      BY <1>0, <2>5, <2>6 DEF SessionInv, Walked
    <3> QED BY <1>0, <2>0, <3>2, <3>3, <3>4 DEF SessionInv, Walked
  <2>8. Listed' BY <1>0, <1>1, <2>0, <2>5, <2>6 DEF SessionInv, Listed
  <2> QED BY <2>1, <2>2, <2>3, <2>7, <2>8 DEF SessionInv
<1> QED BY <1>2, <1>3

(* Recording a name keeps the invariant: what was examined moves to what is  *)
(* recorded.                                                                 *)
LEMMA DiscoverChildKeeps == SessionInv /\ DiscoverChild => SessionInv'
<1> SUFFICES ASSUME SessionInv, DiscoverChild PROVE SessionInv' OBVIOUS
<1> USE DEF fileSystem
<1>0. PICK p \in todo :
          /\ todo' = todo \ {p} /\ spc = "children"
          /\ \/ Stat(p).kind \in {"absent", "link"} /\ spc' = "raised" /\ UNCHANGED captured
             \/ /\ Stat(p).kind \in {"file", "dir"}
                /\ captured' = [captured EXCEPT ![p] = Stat(p)]
                /\ UNCHANGED <<spc, cause>>
          /\ UNCHANGED <<fileSystem, pending, cur, seen, handle>>
  BY DEF DiscoverChild, Raise
<1>1. /\ cur \in pending /\ cur \in Path /\ captured[cur].kind = "dir"
      /\ p \in Path \ {Root} /\ Parent[p] = cur /\ ~Seen(p)
      /\ todo \subseteq Children(cur)
  BY <1>0 DEF SessionInv, CapturedOK, Walked, Listing, Children, Discovered, Seen
<1>2. CASE spc' = "raised"
  <2>1. UNCHANGED <<fileSystem, captured, pending, cur>> BY <1>0, <1>2
  <2>2. pending' \subseteq Path BY <2>1 DEF SessionInv, CapturedOK
  <2> QED BY <1>2, <2>1, <2>2, LaterKeeps DEF Early
<1>3. CASE spc' # "raised"
  <2> DEFINE i == name[p]
  <2>0. /\ i \in Ino /\ inode[i].kind \in {"file", "dir"} /\ spc' = "children"
        /\ captured' = [captured EXCEPT ![p] = StatInode(i)]
    BY <1>0, <1>1, <1>3 DEF Stat, StatInode, Absent, SessionInv, FileSystemOK
  <2>1. FileSystemOK' BY <1>0 DEF SessionInv, FileSystemOK, IsDir
  <2>2. CapturedOK'
    <3>1. inode[i] \in Node /\ inode[i].stamp <= mutations BY <2>0 DEF SessionInv, FileSystemOK
    <3> HIDE DEF i
    <3>2. StatInode(i) \in [kind : {"absent", "file", "dir"}, ino : Ino \cup {NoIno},
                           stamp : Nat, size : Nat]
      BY <2>0, <3>1 DEF Node, StatInode
    <3>3. StatInode(i).stamp <= mutations BY <3>1 DEF StatInode
    <3> QED BY <1>0, <2>0, <3>2, <3>3 DEF SessionInv, CapturedOK
  <2>3. /\ \A q \in Path \ {p} : captured'[q] = captured[q]
        /\ captured'[p] = StatInode(i) /\ captured'[p].kind \in {"file", "dir"}
    BY <2>0, <1>1 DEF SessionInv, CapturedOK, StatInode
  <2> HIDE DEF i
  <2>4. \A q \in Path : Seen(q)' <=> Seen(q) \/ q = p BY <2>3 DEF Seen
  <2>5. CapturedTree'
    <3>1. captured'[Root] = captured[Root] /\ captured[Root].kind # "file"
      BY <1>0, <1>1, <2>3, RootIsPath DEF SessionInv, CapturedTree, Listing
    <3>2. Seen(Root)' BY <1>0, <3>1 DEF SessionInv, CapturedTree, Seen
    <3>3. \A q \in Path \ {Root} : Seen(q)' => captured'[Parent[q]].kind = "dir"
      BY <1>1, <2>3, <2>4, RootIsPath DEF SessionInv, CapturedTree, Seen
    <3> QED BY <3>1, <3>2, <3>3, <2>0 DEF CapturedTree
  <2>6. /\ FoundIn(cur)' = FoundIn(cur) \cup {p}
        /\ \A d \in Path : d # cur => FoundIn(d)' = FoundIn(d)
    BY <1>0, <1>1, <2>4 DEF FoundIn, Children
  <2>7. FoundIn(p) = {} /\ p # cur
    BY <1>1 DEF SessionInv, CapturedTree, FoundIn, Children, Seen
  <2>8. \A d \in Path : Unlisted(d)' <=> Unlisted(d) \/ (d = p /\ captured'[p].kind = "dir")
    <3>1. Subdirectories(cur)' = Subdirectories(cur) \cup
                                   {q \in {p} : captured'[q].kind = "dir"}
      BY <1>0, <1>1, <2>3 DEF Subdirectories, Children, Seen
    <3> QED BY <1>0, <2>0, <3>1 DEF Unlisted, Listing
  <2>9. Walked'
    <3>1. Listing' /\ Listing BY <1>0, <2>0 DEF Listing
    <3>2. \A d \in pending' : captured'[d].kind = "dir"
      BY <1>0, <1>1, <2>3, <3>1 DEF SessionInv, Walked, CapturedOK, Seen
    <3>3. \A d \in Path : Unlisted(d)' /\ d # cur => FoundIn(d)' = {}
      BY <1>0, <2>6, <2>7, <2>8 DEF SessionInv, Walked
    <3>4. todo' \cap Discovered' = {} /\ todo' \subseteq Children(cur)
      BY <1>0, <1>1, <2>4 DEF SessionInv, Walked, Discovered, Seen, Children
    <3>5. cur' = cur /\ pending' = pending BY <1>0
    <3>6. todo' \subseteq Children(cur)' BY <3>4, <3>5 DEF Children
    <3> QED BY <1>1, <2>0, <3>1, <3>2, <3>3, <3>4, <3>5, <3>6 DEF Walked
  <2>10. Listed'
    <3>1. \A d \in Path : d # p => Bound(d)' = Bound(d)
      BY <1>0, <2>3 DEF Bound, Seen, StatInode
    <3>2. \A d \in Path : Present(d)' = Present(d) BY <1>0 DEF Present
    <3>3. todo' \cup FoundIn(cur)' = todo \cup FoundIn(cur) BY <1>0, <2>6
    <3>4. captured'[p].kind = "dir" => Unlisted(p)' BY <1>1, <2>8
    <3>5. Unlisted(cur) BY <1>0, <1>1 DEF Unlisted, Listing
    <3>6. ASSUME ~coarse, Bound(cur)' PROVE Present(cur)' = todo' \cup FoundIn(cur)'
      BY <3>6, <1>0, <1>1, <2>7, <3>1, <3>2, <3>3 DEF SessionInv, Listed
    <3>7. ASSUME ~coarse, NEW d \in Path, captured'[d].kind = "dir", ~Unlisted(d)', Bound(d)'
          PROVE  Present(d)' = FoundIn(d)'
      BY <3>7, <1>0, <2>3, <2>6, <2>8, <3>1, <3>2, <3>4, <3>5 DEF SessionInv, Listed
    <3>8. cur' = cur /\ coarse' = coarse BY <1>0
    <3> QED BY <3>6, <3>7, <3>8 DEF Listed
  <2> QED BY <2>1, <2>2, <2>5, <2>9, <2>10 DEF SessionInv
<1> QED BY <1>2, <1>3

(* A directory that is found bound after its names were examined was         *)
(* recorded whole, so the walk may leave it.                                 *)
LEMMA DiscoverBindingKeeps == SessionInv /\ DiscoverBinding => SessionInv'
<1> SUFFICES ASSUME SessionInv, DiscoverBinding PROVE SessionInv' OBVIOUS
<1> USE DEF fileSystem
<1>0. /\ spc = "children" /\ todo = {}
      /\ UNCHANGED <<fileSystem, captured, cur, todo, seen, handle>>
      /\ \/ spc' = "raised" /\ UNCHANGED pending
         \/ /\ captured[cur] = Stat(cur)
            /\ pending' = (pending \ {cur}) \cup Subdirectories(cur)
            /\ \/ pending' # {} /\ spc' = "discover"
               \/ pending' = {} /\ spc' = "ready"
  BY DEF DiscoverBinding, BindDirectory, Matches, Raise
<1>1. /\ cur \in pending /\ cur \in Path /\ captured[cur].kind = "dir" /\ Seen(cur)
  BY <1>0 DEF SessionInv, CapturedOK, Walked, Listing, Seen
<1>2. CASE spc' = "raised"
  <2>1. UNCHANGED <<fileSystem, captured, cur>> /\ pending' \subseteq Path
    BY <1>0, <1>2 DEF SessionInv, CapturedOK, Subdirectories, Children
  <2> QED BY <1>2, <2>1, LaterKeeps DEF Early
<1>3. CASE spc' # "raised"
  <2>0. /\ captured[cur] = Stat(cur)
        /\ pending' = (pending \ {cur}) \cup Subdirectories(cur)
        /\ \/ pending' # {} /\ spc' = "discover"
           \/ pending' = {} /\ spc' = "ready"
    BY <1>0, <1>3, Zenon
  <2>1. FileSystemOK' BY <1>0 DEF SessionInv, FileSystemOK, IsDir
  <2>2. CapturedOK' BY <1>0, <2>0 DEF SessionInv, CapturedOK, Subdirectories, Children
  <2>3. CapturedTree' BY <1>0, <2>0 DEF SessionInv, CapturedTree, Seen, Discovered, Listing
  <2>4. Bound(cur)
    BY <1>1, <2>0 DEF Bound, Stat, Absent, Seen
  <2>5. cur \notin Subdirectories(cur)
    BY ParentIsEarlier DEF Subdirectories, Children
  <2>6. \A d \in Path : Unlisted(d)' <=> Unlisted(d) /\ d # cur
    BY <1>0, <2>0, <2>5 DEF Unlisted, Listing, Subdirectories
  <2>7. \A e \in Path : FoundIn(e)' = FoundIn(e) /\ Bound(e)' = Bound(e) /\ Present(e)' = Present(e)
    BY <1>0 DEF Bound, Present, FoundIn, Seen, StatInode
  <2>8. Walked'
    <3>1. Listing BY <1>0 DEF Listing
    <3>2. \A d \in pending' : captured'[d].kind = "dir"
      BY <1>0, <2>0, <3>1 DEF SessionInv, Walked, Subdirectories
    <3>3. \A d \in Path : Unlisted(d)' => FoundIn(d)' = {}
      BY <1>0, <2>6, <2>7 DEF SessionInv, Walked
    <3> QED BY <2>0, <3>2, <3>3 DEF Walked
  <2>9. Listed'
    <3>1. ASSUME ~coarse PROVE Present(cur) = FoundIn(cur)
      BY <1>0, <2>4, <3>1 DEF SessionInv, Listed
    <3>2. ASSUME ~coarse, NEW d \in Path, captured[d].kind = "dir", ~Unlisted(d)', Bound(d)
          PROVE  Present(d) = FoundIn(d)
      BY <3>1, <3>2, <1>0, <2>6 DEF SessionInv, Listed
    <3> QED BY <3>2, <1>0, <2>0, <2>7 DEF Listed
  <2> QED BY <2>1, <2>2, <2>3, <2>8, <2>9 DEF SessionInv
<1> QED BY <1>2, <1>3

(* Every step of a session keeps the invariant and leaves the tree alone.    *)
LEMMA SessionStepKeeps == SessionInv /\ SessionStep => SessionInv' /\ UNCHANGED fileSystem
<1> SUFFICES ASSUME SessionInv, SessionStep PROVE SessionInv' /\ UNCHANGED fileSystem OBVIOUS
<1>1. CASE InitialMetadata BY <1>1, InitialMetadataKeeps DEF InitialMetadata
<1>2. CASE DiscoverDirectory BY <1>2, DiscoverDirectoryKeeps DEF DiscoverDirectory, ScanDirectory
<1>3. CASE DiscoverChild BY <1>3, DiscoverChildKeeps DEF DiscoverChild
<1>4. CASE DiscoverBinding BY <1>4, DiscoverBindingKeeps DEF DiscoverBinding, BindDirectory
<1>5. CASE OpenHandle \/ VerifyDirectory \/ VerifyChild \/ VerifyBinding
  <2>0. pending \subseteq Path BY DEF SessionInv, CapturedOK
  <2>1. /\ UNCHANGED <<fileSystem, captured>> /\ pending' \subseteq Path
        /\ spc' \notin Early /\ spc \notin Early \cup {"raised"}
    <3>1. CASE OpenHandle BY <2>0, <3>1 DEF OpenHandle, Raise, Early, walk
    <3>2. CASE VerifyDirectory BY <2>0, <3>2 DEF VerifyDirectory, ScanDirectory, Raise, Early
    <3>3. CASE VerifyChild BY <2>0, <3>3 DEF VerifyChild, Raise, Early
    <3>4. CASE VerifyBinding
      <4>1. pending' \subseteq Path
        BY <2>0, <3>4 DEF VerifyBinding, BindDirectory, Subdirectories, Children
      <4>2. spc' \in {"raised", "verify", "verified"} /\ spc = "rechildren"
        BY <3>4 DEF VerifyBinding, BindDirectory, Raise, AllSeen
      <4> QED BY <2>0, <3>4, <4>1, <4>2 DEF VerifyBinding, BindDirectory, Early
    <3> QED BY <1>5, <3>1, <3>2, <3>3, <3>4
  <2> QED BY <2>1, LaterKeeps
<1> QED BY <1>1, <1>2, <1>3, <1>4, <1>5 DEF SessionStep

-----------------------------------------------------------------------------
(* What temporary, destination and handles are at each stage.                *)

(* A call whose own files are still unpublished.                             *)
Working == Running /\ pc # "unspool"

(* Which stages of the session go with which of the encoder.                 *)
Stage ==
    /\ pc \in {"start", "session", "plan", "scan", "scanning", "built", "create", "encode",
               "encoding", "lanes", "flush", "check", "verify", "unspool",
               "done", "failed", "killed", "off"}
    /\ pc = "start" => spc = "new"
    /\ pc = "session" => spc \in Early \cup {"ready", "raised"}
    /\ pc \in {"plan", "scan", "built", "create", "encode", "lanes", "flush", "check"} =>
          spc \in {"ready", "raised"}
    /\ pc \in {"scanning", "encoding"} => spc \in {"opening", "reading", "raised"}
    /\ pc = "verify" => spc \in {"verify", "rechildren", "verified", "raised"}
    /\ pc = "unspool" => spc = "verified" /\ format = "MSR2"

(* The inductive invariant: what temporary, destination, handle and lane     *)
(* spools are at each stage. Only a failure while the spools are removed     *)
(* leaves one, and then the archive is in place.                             *)
Staged ==
    /\ Stage
    /\ pc \in {"check", "verify"} => temp.state = "synced"
    /\ Working => dest.state = "absent"
    /\ pc \in {"done", "unspool"} => dest.state = "synced" /\ temp = NoFile
    /\ pc = "failed" => temp = NoFile
    /\ dest.state \in {"absent", "synced"}
    /\ handle # NoIno => Running /\ spc = "reading"
    /\ laneDir => format = "MSR2"
    /\ pc = "done" => ~laneDir
    /\ pc = "failed" /\ laneDir => dest.state = "synced"

-----------------------------------------------------------------------------
(* What a step does to the files of an encoder.                              *)

(* A step towards the archive: it touches neither the call nor the           *)
(* destination, and leaves synced what it hands to the final checks.         *)
Works ==
    /\ Working /\ Working'
    /\ UNCHANGED <<format, request, dest>>
    /\ pc' \in {"check", "verify"} => temp'.state = "synced"
    /\ laneDir' => laneDir \/ format = "MSR2"
    /\ handle' # NoIno => handle' = handle /\ spc' = "reading"

(* A failure before publication: the cleanup of every format removes the     *)
(* temporary, the lane spools and the handle.                                *)
FailsClean ==
    /\ Working /\ pc' = "failed"
    /\ handle' = NoIno /\ temp' = NoFile /\ laneDir' = FALSE
    /\ UNCHANGED <<format, request, snapshot, dest>>

(* os.link or os.replace: the synced temporary becomes the destination.      *)
Publishes ==
    /\ pc = "verify" /\ spc = "verified"
    /\ pc' = IF format = "MSR2" THEN "unspool" ELSE "done"
    /\ dest' = temp /\ temp' = NoFile
    /\ UNCHANGED <<format, request, snapshot, laneDir, handle, spc>>

(* The removal of the lane spools of MSR2, after publication.                *)
Unspools ==
    /\ pc = "unspool"
    /\ \/ pc' = "done" /\ laneDir' = FALSE
       \/ pc' = "failed" /\ laneDir' = laneDir
    /\ UNCHANGED <<format, request, snapshot, temp, dest, handle>>

(* A kill or a power cut; only the latter may take something from the        *)
(* destination, and never part of what was synced.                           *)
Stops ==
    /\ handle' = NoIno /\ UNCHANGED <<format, request, snapshot, laneDir>>
    /\ \/ Running /\ pc' = "killed" /\ UNCHANGED <<temp, dest>>
       \/ pc # "off" /\ pc' = "off" /\ dest' \in Prefixes(dest) \cup {NoFile}

(* What a step of an encoder, or one that stops it, is to the files it       *)
(* owns.                                                                     *)
Kinds == Works \/ FailsClean \/ Publishes \/ Unspools \/ Stops

(* What the same steps do to the session: they record nothing and only       *)
(* open, verify, close or fail it.                                           *)
SessionEffect ==
    /\ UNCHANGED <<fileSystem, captured>>
    /\ pending' \in {pending, {}, {Root}}
    /\ spc' \in Early => UNCHANGED <<pending, cur, todo, spc>>
    /\ \/ spc' \in {spc, "raised"}
       \/ spc = "ready" /\ spc' \in {"opening", "verify", "verified"}
       \/ spc = "reading" /\ spc' = "ready"

(* Every step of an encoder, fault, kill and power cut of the five formats   *)
(* is of one of these kinds and keeps the stages in step.                    *)
LEMMA StepKinds ==
    Staged /\ (EncoderStep \/ Fault \/ Kill \/ PowerLoss) => 
        Kinds /\ SessionEffect /\ Stage'
<1> SUFFICES ASSUME Staged, EncoderStep \/ Fault \/ Kill \/ PowerLoss
             PROVE  Kinds /\ SessionEffect /\ Stage'
  OBVIOUS
<1> USE DEF Early, Staged, Stage, Works, FailsClean, Publishes, Unspools, Stops, Kinds,
SessionEffect, Working,
       Running, FailWith, Cleanup, RequireAncestors, CloseHandle, VerifyBindings, VerifyRoot, Raise,
       OpenTemporary, Synced, Replaced, vars, encoder, call, work, output, session, walk,
       fileSystem
<1>1. CASE Start \/ SessionCaptured
  <2>1. CASE Start BY <1>1, <2>1 DEF Start
  <2>2. CASE SessionCaptured BY <1>1, <2>2 DEF SessionCaptured
  <2> QED BY <1>1, <2>1, <2>2
<1>2. CASE Scan
  <2>1. CASE ScanInput BY <1>2, <2>1 DEF ScanInput
  <2>2. CASE ScanDirectoryEntry BY <1>2, <2>2 DEF ScanDirectoryEntry
  <2>3. CASE ScanOpen BY <1>2, <2>3 DEF ScanOpen
  <2>4. CASE ScanChunk BY <1>2, <2>4 DEF ScanChunk
  <2>5. CASE ScanClose BY <1>2, <2>5 DEF ScanClose
  <2> QED BY <1>2, <2>1, <2>2, <2>3, <2>4, <2>5 DEF Scan
<1>3. CASE format = "MSC6" /\ DedupStep
  <2>1. CASE ScanDone BY <1>3, <2>1 DEF ScanDone
  <2>2. CASE CreateTemporary BY <1>3, <2>2 DEF CreateTemporary
  <2>3. CASE EncodeSkipDirectory BY <1>3, <2>3 DEF EncodeSkipDirectory
  <2>4. CASE EncodeOpen BY <1>3, <2>4 DEF EncodeOpen
  <2>5. CASE EncodeChunk BY <1>3, <2>5 DEF EncodeChunk
  <2>6. CASE EncodeClose BY <1>3, <2>6 DEF EncodeClose
  <2>7. CASE Flush BY <1>3, <2>7 DEF Flush
  <2>8. CASE VerifyUnchanged BY <1>3, <2>8 DEF VerifyUnchanged
  <2>9. CASE Publish BY <1>3, <2>9 DEF Publish
  <2> QED BY <1>3, <2>1, <2>2, <2>3, <2>4, <2>5, <2>6, <2>7, <2>8, <2>9, <1>1, <1>2 DEF DedupStep
<1>4. CASE format = "MSC2" /\ StreamStep
  <2>1. CASE StreamPlan BY <1>4, <2>1 DEF StreamPlan
  <2>2. CASE StreamScanRefused BY <1>4, <2>2 DEF StreamScanRefused
  <2>3. CASE StreamScanDirectory BY <1>4, <2>3 DEF StreamScanDirectory
  <2>4. CASE HashOpen BY <1>4, <2>4 DEF HashOpen
  <2>5. CASE HashBlock BY <1>4, <2>5 DEF HashBlock
  <2>6. CASE HashClose BY <1>4, <2>6 DEF HashClose
  <2>7. CASE StreamScanDone BY <1>4, <2>7 DEF StreamScanDone
  <2>8. CASE StreamCreate BY <1>4, <2>8 DEF StreamCreate
  <2>9. CASE StreamSkipDirectory BY <1>4, <2>9 DEF StreamSkipDirectory
  <2>10. CASE StreamOpen BY <1>4, <2>10 DEF StreamOpen
  <2>11. CASE StreamBlock BY <1>4, <2>11 DEF StreamBlock
  <2>12. CASE StreamClose BY <1>4, <2>12 DEF StreamClose
  <2>13. CASE StreamFlush
    <3>1. CASE FailWith("RuntimeError") BY <3>1, <2>13 DEF StreamFlush
    <3>2. CASE Synced BY <3>2, <2>13 DEF StreamFlush
    <3> QED BY <3>1, <3>2, <2>13 DEF StreamFlush
  <2>14. CASE StreamVerify BY <1>4, <2>14 DEF StreamVerify
  <2>15. CASE StreamPublish BY <1>4, <2>15 DEF StreamPublish
  <2> QED
    BY <1>4, <2>1, <2>2, <2>3, <2>4, <2>5, <2>6, <2>7, <2>8, <2>9, <2>10, <2>11, <2>12, <2>13,
       <2>14, <2>15, <1>1 DEF StreamStep
<1>5. CASE format = "MSC1" /\ SingleStep
  <2>1. CASE SingleStart BY <1>5, <2>1 DEF SingleStart
  <2>2. CASE SingleCaptured BY <1>5, <2>2 DEF SingleCaptured
  <2>3. CASE SingleRead BY <1>5, <2>3 DEF SingleRead
  <2>4. CASE SingleReadAll BY <1>5, <2>4 DEF SingleReadAll
  <2>5. CASE BuildInnerStream BY <1>5, <2>5 DEF BuildInnerStream
  <2>6. CASE SingleWrite BY <1>5, <2>6 DEF SingleWrite
  <2>7. CASE SingleFlush BY <1>5, <2>7 DEF SingleFlush
  <2>8. CASE SingleVerify BY <1>5, <2>8 DEF SingleVerify
  <2>9. CASE SinglePublish BY <1>5, <2>9 DEF SinglePublish
  <2> QED BY <1>5, <2>1, <2>2, <2>3, <2>4, <2>5, <2>6, <2>7, <2>8, <2>9 DEF SingleStep
<1>6. CASE format = "MSR1" /\ SolidStep
  <2>1. CASE SolidBuilt BY <1>6, <2>1 DEF SolidBuilt, ScanComplete
  <2>2. CASE SolidWrite BY <1>6, <2>2 DEF SolidWrite
  <2>3. CASE SolidFlush BY <1>6, <2>3 DEF SolidFlush
  <2>4. CASE SolidVerify BY <1>6, <2>4 DEF SolidVerify
  <2>5. CASE SolidPublish BY <1>6, <2>5 DEF SolidPublish
  <2> QED BY <1>6, <2>1, <2>2, <2>3, <2>4, <2>5, <1>1, <1>2 DEF SolidStep
<1>7. CASE format = "MSR2" /\ LanesStep
  <2>1. CASE CreateLanes BY <1>7, <2>1 DEF CreateLanes
  <2>2. CASE CompressLanes BY <1>7, <2>2 DEF CompressLanes, ScanComplete
  <2>3. CASE WriteMetadata BY <1>7, <2>3 DEF WriteMetadata
  <2>4. CASE WriteLane BY <1>7, <2>4 DEF WriteLane
  <2>5. CASE LanesFlush BY <1>7, <2>5 DEF LanesFlush
  <2>6. CASE LanesVerify BY <1>7, <2>6 DEF LanesVerify
  <2>7. CASE LanesPublish BY <1>7, <2>7 DEF LanesPublish
  <2>8. CASE RemoveLanes BY <1>7, <2>8 DEF RemoveLanes
  <2>9. CASE LanesNotRemoved BY <1>7, <2>9 DEF LanesNotRemoved
  <2> QED BY <1>7, <2>1, <2>2, <2>3, <2>4, <2>5, <2>6, <2>7, <2>8, <2>9, <1>1, <1>2 DEF LanesStep
<1>8. CASE SessionRaised \/ Fault \/ Kill \/ PowerLoss
  <2>1. CASE SessionRaised BY <1>8, <2>1 DEF SessionRaised
  <2>2. CASE Fault BY <1>8, <2>2 DEF Fault
  <2>3. CASE Kill BY <1>8, <2>3 DEF Kill
  <2>4. CASE PowerLoss BY <1>8, <2>4 DEF PowerLoss, Prefixes
  <2> QED BY <1>8, <2>1, <2>2, <2>3, <2>4
<1> QED BY <1>1, <1>2, <1>3, <1>4, <1>5, <1>6, <1>7, <1>8 DEF EncoderStep

(* The steps of the session and those of other processes own no file of the  *)
(* encoder and keep the stages in step.                                      *)
LEMMA OtherSteps ==
    Staged /\ (SessionProgress \/ Mutation) => Stage' /\ UNCHANGED encoder /\ Running
                                               /\ (handle' # NoIno => spc' = "reading")
<1> SUFFICES ASSUME Staged, SessionProgress \/ Mutation
             PROVE  Stage' /\ UNCHANGED encoder /\ Running /\ (handle' # NoIno => spc' = "reading")
  OBVIOUS
<1> USE DEF Early, Staged, Stage, Working, Running, encoder, call, output, Raise
<1>1. CASE Mutation
  <2>1. Running /\ UNCHANGED encoder /\ UNCHANGED <<handle, spc>>
    BY <1>1 DEF Mutation, Mutate, session
  <2> QED BY <2>1
<1>2. CASE SessionProgress
  <2>0. Running /\ pc # "start" /\ UNCHANGED encoder BY <1>2 DEF SessionProgress
  <2>1. CASE InitialMetadata BY <2>0, <2>1 DEF InitialMetadata
  <2>2. CASE DiscoverDirectory BY <2>0, <2>2 DEF DiscoverDirectory, ScanDirectory
  <2>3. CASE DiscoverChild BY <2>0, <2>3 DEF DiscoverChild
  <2>4. CASE DiscoverBinding BY <2>0, <2>4 DEF DiscoverBinding, BindDirectory
  <2>5. CASE OpenHandle BY <2>0, <2>5 DEF OpenHandle
  <2>6. CASE VerifyDirectory BY <2>0, <2>6 DEF VerifyDirectory, ScanDirectory
  <2>7. CASE VerifyChild BY <2>0, <2>7 DEF VerifyChild
  <2>8. CASE VerifyBinding BY <2>0, <2>8 DEF VerifyBinding, BindDirectory, AllSeen
  <2> QED BY <1>2, <2>1, <2>2, <2>3, <2>4, <2>5, <2>6, <2>7, <2>8 DEF SessionProgress, SessionStep
<1> QED BY <1>1, <1>2

(* Every step keeps the invariant.                                           *)
LEMMA StagedStep == Staged /\ [Next]_vars => Staged'
<1> SUFFICES ASSUME Staged, [Next]_vars PROVE Staged' OBVIOUS
<1>1. CASE UNCHANGED vars
  BY <1>1 DEF Staged, Stage, Working, Running, vars, encoder, call, output, session
<1>2. CASE EncoderStep \/ Fault \/ Kill \/ PowerLoss
  <2>0. Kinds /\ Stage' BY <1>2, StepKinds
  <2>1. CASE Works BY <2>0, <2>1 DEF Works, Staged, Working, Running
  <2>2. CASE FailsClean BY <2>0, <2>2 DEF FailsClean, Staged, Working, Running
  <2>3. CASE Publishes BY <2>0, <2>3 DEF Publishes, Staged, Working, Running
  <2>4. CASE Unspools BY <2>0, <2>4 DEF Unspools, Staged, Stage, Working, Running
  <2>5. CASE Stops BY <2>0, <2>5 DEF Stops, Staged, Working, Running, Prefixes, NoFile
  <2> QED BY <2>0, <2>1, <2>2, <2>3, <2>4, <2>5 DEF Kinds
<1>3. CASE SessionProgress \/ Mutation
  BY <1>3, OtherSteps DEF Staged, Working, Running, encoder, call, output
<1> QED BY <1>1, <1>2, <1>3 DEF Next, Stopped

(* It holds of the initial states.                                           *)
LEMMA StagedInit == Init => Staged
  BY DEF Init, SessionInit, Staged, Stage, NoFile, Early, Working, Running

(* The invariant holds in every reachable state, whatever other processes    *)
(* do to the source.                                                         *)
THEOREM EncodersStaged == Spec => []Staged
  BY StagedInit, StagedStep, PTL DEF Spec

(* An encoder that has ended (returned or raised) has left no temporary      *)
(* file, no lane spool and no open handle, save the spools whose own         *)
(* removal failed: for every tree, every change made to it and every fault.  *)
THEOREM NothingLeftBehindHolds == Spec => []NothingLeftBehind
<1>1. Staged => NothingLeftBehind
  BY DEF Staged, NothingLeftBehind, LanesRefused, Published, Running
<1> QED BY <1>1, EncodersStaged, PTL

(* The destination goes from absent to a complete, synced archive in one     *)
(* step, made by the encoder itself, and is not touched again.               *)
THEOREM PublishesAtomicallyHolds == Spec => PublishesAtomically
<1> DEFINE held == CASE dest.state = "absent" -> "previous" [] dest.state = "synced" -> "whole"
                     [] dest.state = "open" -> "partial"
<1>1. Init => Publication!Init
  BY DEF Init, Publication!Init, Phase, NoFile
<1>2. Staged /\ Staged' /\ [Next]_vars => [Publication!Next]_<<held, Phase>>
  <2> SUFFICES ASSUME Staged, Staged', [Next]_vars PROVE [Publication!Next]_<<held, Phase>> OBVIOUS
  <2>1. CASE UNCHANGED vars BY <2>1 DEF Phase, Published, vars, encoder, output
  <2>2. CASE EncoderStep \/ Fault \/ Kill \/ PowerLoss
    <3>0. Kinds BY <2>2, StepKinds
    <3>1. CASE Works BY <3>1 DEF Works, Staged, Working, Running, Phase, Published
    <3>2. CASE FailsClean
      BY <3>2 DEF FailsClean, Staged, Working, Running, Phase, Published, Publication!Next,
         Publication!Abandon
    <3>3. CASE Publishes
      BY <3>3 DEF Publishes, Staged, Working, Running, Phase, Published, Publication!Next,
         Publication!Publish
    <3>4. CASE Unspools BY <3>4 DEF Unspools, Staged, Stage, Working, Running, Phase, Published
    <3>5. CASE Stops
      BY <3>5 DEF Stops, Staged, Working, Running, Phase, Published, Publication!Next,
         Publication!Abandon, Publication!PowerLoss, NoFile, Prefixes
    <3> QED BY <3>0, <3>1, <3>2, <3>3, <3>4, <3>5 DEF Kinds
  <2>3. CASE SessionProgress \/ Mutation
    BY <2>3, OtherSteps DEF encoder, output, Phase, Published
  <2> QED BY <2>1, <2>2, <2>3 DEF Next, Stopped
<1> QED BY <1>1, <1>2, EncodersStaged, PTL DEF Spec, PublishesAtomically, Publication!Spec

-----------------------------------------------------------------------------
(* What a step does to the work in progress.                                 *)

(* A call that has not failed and has not published.                         *)
Live == Working /\ spc # "raised"

(* Such a call once the session is captured; snapshot is the tree as it was  *)
(* at that moment.                                                           *)
After == Live /\ pc \notin {"start", "session"}

(* The stages at which the archive is written.                               *)
Writing == {"encode", "encoding", "lanes", "flush", "check"}

-----------------------------------------------------------------------------
(* What a step that does not fail does to the work in progress.              *)

(* The call begins: a destination below a source that is a directory is      *)
(* refused.                                                                  *)
Begins == pc = "start" /\ pc' = "session" /\ (request = "inside" /\ format # "MSC1" => ~wasDir')

(* The capture ends; the tree of that moment is the reference.               *)
Captures ==
    /\ pc = "session" /\ spc = "ready" /\ snapshot' = Tree
    /\ \/ format # "MSC1" /\ pc' = "plan" /\ ~BecameDirectory
       \/ /\ format = "MSC1" /\ RootIsFile /\ pc' = "scanning"
          /\ cur' = Root /\ taken' = <<>> /\ spc' = "opening"

(* The scan begins, of paths that do not clash once normalised (MSC2 finds   *)
(* clashes later, as it records them).                                       *)
Plans ==
    /\ pc = "plan" /\ pc' = "scan" /\ format # "MSC1"
    /\ format # "MSC2" => ~PathsRefused
    /\ ix' = 1 /\ manifest' = EmptyManifest

(* A directory is recorded.                                                  *)
Lists ==
    /\ pc = "scan" /\ pc' = "scan" /\ format # "MSC1"
    /\ ix <= Len(Entries) /\ ix' = ix + 1 /\ captured[Entries[ix]].kind = "dir"
    /\ manifest' = [manifest EXCEPT !.entries = Append(@, DirEntry(Normal[Entries[ix]]))]

(* A file is opened by its recorded path or, in MSC6 and the MSR formats,    *)
(* by its normalised one.                                                    *)
Opens ==
    /\ pc = "scan" /\ pc' = "scanning" /\ format # "MSC1"
    /\ ix <= Len(Entries) /\ captured[Entries[ix]].kind = "file"
    /\ taken' = <<>> /\ spc' = "opening" /\ UNCHANGED <<ix, manifest>>
    /\ \/ cur' = Entries[ix]
       \/ cur' = Lookup(Entries[ix]) /\ cur' \in Discovered /\ format # "MSC2"

(* A chunk is read.                                                          *)
Reads ==
    /\ pc = "scanning" /\ pc' = "scanning" /\ spc = "reading"
    /\ Len(taken) < Len(Stream) /\ taken' = Append(taken, Stream[Len(taken) + 1])
    /\ UNCHANGED <<ix, session>>
    /\ UNCHANGED manifest \/ \E chunks : manifest' = [manifest EXCEPT !.chunks = chunks]

(* The file is at its end and still has the identity that was captured.      *)
ReadWhole ==
    pc = "scanning" /\ spc = "reading"
       /\ Len(taken) >= Len(Stream) /\ captured[cur] = StatInode(handle)

(* A file read whole is recorded with the digest of what was read.           *)
Closes ==
    /\ ReadWhole /\ pc' = "scan" /\ format # "MSC1"
    /\ ix' = ix + 1
    /\ \E size, first, count :
          manifest' = [manifest EXCEPT !.entries =
                          Append(@, FileEntry(Normal[Entries[ix]], size, first, count, taken))]

(* MSC1 ends its only file.                                                  *)
EndsReading == ReadWhole /\ pc' = "built" /\ format = "MSC1" /\ UNCHANGED taken

(* MSC1 builds its manifest.                                                 *)
Builds == format = "MSC1" /\ pc = "built" /\ pc' = "create" /\ manifest' = SingleManifest

(* Every entry is recorded.                                                  *)
Completes ==
    pc = "scan" /\ pc' = "create" /\ format # "MSC1" /\ ix > Len(Entries) /\ UNCHANGED manifest

(* The temporary is created, with the manifest (in MSR2, its compact form)   *)
(* in it.                                                                    *)
Creates ==
    /\ pc = "create" /\ pc' \in Writing /\ UNCHANGED manifest
    /\ DOMAIN temp' = {"state", "archive"}
    /\ \/ /\ format # "MSR2" /\ "manifest" \in DOMAIN temp'.archive
          /\ temp'.archive.manifest = manifest
       \/ /\ format = "MSR2" /\ "metadata" \in DOMAIN temp'.archive
          /\ \E lanes, counts, codecs :
                temp'.archive.metadata = CompactMetadata(manifest, lanes, counts, codecs)

(* Frames are added and the file is synced; the manifest in it stays.        *)
Writes ==
    /\ pc \in Writing /\ pc' \in Writing /\ UNCHANGED manifest
    /\ \/ UNCHANGED temp
       \/ \E frames : temp' = [temp EXCEPT !.archive.frames = frames]
       \/ \E state : temp' = [temp EXCEPT !.state = state]

(* verify_final begins: the root still has its identity.                     *)
Verifies ==
    /\ pc = "check" /\ pc' = "verify" /\ UNCHANGED <<manifest, temp>>
    /\ seen' = {Root} /\ captured[Root] = Stat(Root)
    /\ spc' = IF RootIsFile THEN "verified" ELSE "verify"

(* MSR2 makes its lane spools.                                               *)
Spools == pc = "plan" /\ pc' = "plan"

(* What a step of an encoder that does not fail is to the work in progress.  *)
WorkKind ==
    /\ UNCHANGED <<fileSystem, captured, format, request>>
    /\ \/ Begins \/ Captures
       \/ /\ UNCHANGED snapshot
          /\ \/ Spools \/ Plans \/ Lists \/ Opens \/ Reads \/ Closes \/ EndsReading \/ Builds
             \/ Completes \/ Creates \/ Writes \/ Verifies

(* Every step of the five encoders that does not fail is of one of these     *)
(* kinds.                                                                    *)
LEMMA WorkSteps == EncoderStep /\ Live' => WorkKind
<1> SUFFICES ASSUME EncoderStep, Live' PROVE WorkKind OBVIOUS
<1> USE DEF Live, Working, Running, FailWith, Cleanup, Raise, Writing, fileSystem, session, walk,
       encoder, call, work, output, WorkKind
<1>1. CASE (Start \/ SessionCaptured) /\ format # "MSC1"
  <2>1. CASE Start BY <1>1, <2>1 DEF Start, Begins, RequestRefused
  <2>2. CASE SessionCaptured BY <1>1, <2>2 DEF SessionCaptured, Captures
  <2> QED BY <1>1, <2>1, <2>2
<1>2. CASE (Scan) /\ format \notin {"MSC1", "MSC2"}
  <2>1. CASE ScanInput BY <1>2, <2>1 DEF ScanInput, Plans
  <2>2. CASE ScanDirectoryEntry BY <1>2, <2>2 DEF ScanDirectoryEntry, Lists
  <2>3. CASE ScanOpen BY <1>2, <2>3 DEF ScanOpen, Opens, RequireAncestors
  <2>4. CASE ScanChunk BY <1>2, <2>4 DEF ScanChunk, Reads
  <2>5. CASE ScanClose BY <1>2, <2>5 DEF ScanClose, Closes, CloseHandle, Matches, ReadWhole
  <2> QED BY <1>2, <2>1, <2>2, <2>3, <2>4, <2>5 DEF Scan
<1>3. CASE format = "MSC6" /\ DedupStep
  <2>1. CASE ScanDone BY <1>3, <2>1 DEF ScanDone, Completes
  <2>2. CASE CreateTemporary BY <1>3, <2>2 DEF CreateTemporary, Creates, OpenTemporary
  <2>3. CASE EncodeSkipDirectory BY <1>3, <2>3 DEF EncodeSkipDirectory, Writes
  <2>4. CASE EncodeOpen BY <1>3, <2>4 DEF EncodeOpen, Writes, RequireAncestors
  <2>5. CASE EncodeChunk BY <1>3, <2>5 DEF EncodeChunk, Writes
  <2>6. CASE EncodeClose BY <1>3, <2>6 DEF EncodeClose, Writes, CloseHandle, Matches
  <2>7. CASE Flush BY <1>3, <2>7 DEF Flush, Writes, Synced
  <2>8. CASE VerifyUnchanged
    BY <1>3, <2>8 DEF VerifyUnchanged, Verifies, VerifyBindings, VerifyRoot, RootIsFile, Matches
  <2>9. CASE Publish BY <1>3, <2>9 DEF Publish, Replaced
  <2> QED BY <1>3, <2>1, <2>2, <2>3, <2>4, <2>5, <2>6, <2>7, <2>8, <2>9, <1>1, <1>2 DEF DedupStep
<1>4. CASE format = "MSC2" /\ StreamStep
  <2>1. CASE StreamPlan BY <1>4, <2>1 DEF StreamPlan, Plans
  <2>2. CASE StreamScanRefused BY <1>4, <2>2 DEF StreamScanRefused
  <2>3. CASE StreamScanDirectory BY <1>4, <2>3 DEF StreamScanDirectory, Lists
  <2>4. CASE HashOpen BY <1>4, <2>4 DEF HashOpen, Opens, RequireAncestors
  <2>5. CASE HashBlock BY <1>4, <2>5 DEF HashBlock, Reads
  <2>6. CASE HashClose BY <1>4, <2>6 DEF HashClose, Closes, CloseHandle, Matches, ReadWhole
  <2>7. CASE StreamScanDone BY <1>4, <2>7 DEF StreamScanDone, Completes
  <2>8. CASE StreamCreate BY <1>4, <2>8 DEF StreamCreate, Creates, OpenTemporary
  <2>9. CASE StreamSkipDirectory BY <1>4, <2>9 DEF StreamSkipDirectory, Writes
  <2>10. CASE StreamOpen BY <1>4, <2>10 DEF StreamOpen, Writes, RequireAncestors
  <2>11. CASE StreamBlock BY <1>4, <2>11 DEF StreamBlock, Writes
  <2>12. CASE StreamClose BY <1>4, <2>12 DEF StreamClose, Writes, CloseHandle, Matches
  <2>13. CASE StreamFlush BY <1>4, <2>13 DEF StreamFlush, Writes, Synced
  <2>14. CASE StreamVerify
    BY <1>4, <2>14 DEF StreamVerify, Verifies, VerifyBindings, VerifyRoot, RootIsFile, Matches
  <2>15. CASE StreamPublish BY <1>4, <2>15 DEF StreamPublish, Replaced
  <2> QED
    BY <1>4, <2>1, <2>2, <2>3, <2>4, <2>5, <2>6, <2>7, <2>8, <2>9, <2>10, <2>11, <2>12, <2>13,
       <2>14, <2>15, <1>1 DEF StreamStep
<1>5. CASE format = "MSC1" /\ SingleStep
  <2>1. CASE SingleStart BY <1>5, <2>1 DEF SingleStart, Begins
  <2>2. CASE SingleCaptured BY <1>5, <2>2 DEF SingleCaptured, Captures, RequireAncestors
  <2>3. CASE SingleRead BY <1>5, <2>3 DEF SingleRead, Reads
  <2>4. CASE SingleReadAll
    BY <1>5, <2>4 DEF SingleReadAll, EndsReading, CloseHandle, Matches, ReadWhole
  <2>5. CASE BuildInnerStream BY <1>5, <2>5 DEF BuildInnerStream, Builds
  <2>6. CASE SingleWrite BY <1>5, <2>6 DEF SingleWrite, Creates, OpenTemporary
  <2>7. CASE SingleFlush BY <1>5, <2>7 DEF SingleFlush, Writes, Synced
  <2>8. CASE SingleVerify
    BY <1>5, <2>8 DEF SingleVerify, Verifies, VerifyBindings, VerifyRoot, RootIsFile, Matches
  <2>9. CASE SinglePublish BY <1>5, <2>9 DEF SinglePublish, Replaced
  <2> QED BY <1>5, <2>1, <2>2, <2>3, <2>4, <2>5, <2>6, <2>7, <2>8, <2>9 DEF SingleStep
<1>6. CASE format = "MSR1" /\ SolidStep
  <2>1. CASE SolidBuilt BY <1>6, <2>1 DEF SolidBuilt, Completes, ScanComplete
  <2>2. CASE SolidWrite BY <1>6, <2>2 DEF SolidWrite, Creates, OpenTemporary
  <2>3. CASE SolidFlush BY <1>6, <2>3 DEF SolidFlush, Writes, Synced
  <2>4. CASE SolidVerify
    BY <1>6, <2>4 DEF SolidVerify, Verifies, VerifyBindings, VerifyRoot, RootIsFile, Matches
  <2>5. CASE SolidPublish BY <1>6, <2>5 DEF SolidPublish, Replaced
  <2> QED BY <1>6, <2>1, <2>2, <2>3, <2>4, <2>5, <1>1, <1>2 DEF SolidStep
<1>7. CASE format = "MSR2" /\ LanesStep
  <2>1. CASE CreateLanes BY <1>7, <2>1 DEF CreateLanes, Spools
  <2>2. CASE CompressLanes BY <1>7, <2>2 DEF CompressLanes, Completes, ScanComplete
  <2>3. CASE WriteMetadata BY <1>7, <2>3 DEF WriteMetadata, Creates, OpenTemporary
  <2>4. CASE WriteLane BY <1>7, <2>4 DEF WriteLane, Writes
  <2>5. CASE LanesFlush BY <1>7, <2>5 DEF LanesFlush, Writes, Synced
  <2>6. CASE LanesVerify
    BY <1>7, <2>6 DEF LanesVerify, Verifies, VerifyBindings, VerifyRoot, RootIsFile, Matches
  <2>7. CASE LanesPublish BY <1>7, <2>7 DEF LanesPublish, Replaced
  <2>8. CASE RemoveLanes BY <1>7, <2>8 DEF RemoveLanes
  <2>9. CASE LanesNotRemoved BY <1>7, <2>9 DEF LanesNotRemoved
  <2> QED BY <1>7, <2>1, <2>2, <2>3, <2>4, <2>5, <2>6, <2>7, <2>8, <2>9, <1>1, <1>2 DEF LanesStep
<1>8. CASE SessionRaised
  <2>1. CASE SessionRaised BY <1>8, <2>1 DEF SessionRaised, Cleanup
  <2> QED BY <1>8, <2>1
<1> QED
  BY <1>1, <1>2, <1>3, <1>4, <1>5, <1>6, <1>7, <1>8 DEF EncoderStep, DedupStep, StreamStep,
     SolidStep, LanesStep

-----------------------------------------------------------------------------
(* The session of an encoder.                                                *)

(* A step of the session is part of the capture, opens a file or is part of  *)
(* the final verification.                                                   *)
LEMMA SessionKinds ==
    Staged /\ SessionProgress /\ Live' =>
        /\ UNCHANGED <<fileSystem, encoder>> /\ Live
        /\ \/ pc = "session"
           \/ UNCHANGED captured /\ OpenHandle
           \/ UNCHANGED captured /\ pc = "verify" /\ (VerifyDirectory \/ VerifyChild \/ VerifyBinding)
<1> SUFFICES ASSUME Staged, SessionProgress, Live'
             PROVE  /\ UNCHANGED <<fileSystem, encoder>> /\ Live
                    /\ \/ pc = "session"
                       \/ UNCHANGED captured /\ OpenHandle
                       \/ UNCHANGED captured /\ pc = "verify"
                          /\ (VerifyDirectory \/ VerifyChild \/ VerifyBinding)
  OBVIOUS
<1> USE DEF Early, Live, Staged, Stage, Working, Running, encoder, call, Raise, fileSystem
<1>0. Running /\ pc # "start" /\ UNCHANGED encoder /\ SessionStep BY DEF SessionProgress
<1>1. CASE InitialMetadata BY <1>0, <1>1 DEF InitialMetadata
<1>2. CASE DiscoverDirectory BY <1>0, <1>2 DEF DiscoverDirectory, ScanDirectory
<1>3. CASE DiscoverChild BY <1>0, <1>3 DEF DiscoverChild
<1>4. CASE DiscoverBinding BY <1>0, <1>4 DEF DiscoverBinding, BindDirectory
<1>5. CASE OpenHandle
  <2>1. UNCHANGED <<fileSystem, captured>> /\ spc = "opening" BY <1>5 DEF OpenHandle
  <2> QED BY <1>0, <1>5, <2>1
<1>6. CASE VerifyDirectory
  <2>1. UNCHANGED <<fileSystem, captured>> /\ spc = "verify"
    BY <1>6 DEF VerifyDirectory, ScanDirectory
  <2> QED BY <1>0, <1>6, <2>1
<1>7. CASE VerifyChild
  <2>1. UNCHANGED <<fileSystem, captured>> /\ spc = "rechildren" BY <1>7 DEF VerifyChild
  <2> QED BY <1>0, <1>7, <2>1
<1>8. CASE VerifyBinding
  <2>1. UNCHANGED <<fileSystem, captured>> /\ spc = "rechildren"
    BY <1>8 DEF VerifyBinding, BindDirectory
  <2> QED BY <1>0, <1>8, <2>1
<1> QED BY <1>0, <1>1, <1>2, <1>3, <1>4, <1>5, <1>6, <1>7, <1>8 DEF SessionStep

(* The invariant of the session holds of the initial states.                 *)
LEMMA SessionInvInit == Init => SessionInv
<1> SUFFICES ASSUME Init PROVE SessionInv OBVIOUS
<1>1. PICK start \in Starts : SessionInit(start) BY DEF Init
<1>2. SourceTree(start) BY EncodeAssumption
<1> USE DEF SessionInit, SourceTree
<1>3. FileSystemOK
  <2>1. inode \in [Ino -> Node] BY <1>1, <1>2 DEF Node
  <2>2. \A i \in Ino : inode[i].stamp <= mutations
    <3>1. \A i \in Ino : inode[i].stamp = 0 BY <1>1, <1>2
    <3> QED BY <1>1, <3>1
  <2> QED BY <1>1, <1>2, <2>1, <2>2 DEF FileSystemOK, IsDir
<1>4. \A p \in Path : captured[p] = Absent BY <1>1
<1>5. CapturedOK BY <1>1, <1>4 DEF CapturedOK, Absent
<1>6. CapturedTree /\ Walked /\ Listed
  BY <1>1, <1>4, RootIsPath DEF CapturedTree, Walked, Listed, Absent, Seen, Listing, Unlisted, Bound
<1> QED BY <1>3, <1>5, <1>6 DEF SessionInv

(* Every step, of the encoder or of others, keeps the invariant of the       *)
(* session.                                                                  *)
LEMMA SessionInvStep == Staged /\ SessionInv /\ [Next]_vars => SessionInv'
<1> SUFFICES ASSUME Staged, SessionInv, [Next]_vars PROVE SessionInv' OBVIOUS
<1>1. CASE Mutation BY <1>1, MutationKeepsSession DEF Mutation
<1>2. CASE SessionProgress BY <1>2, SessionStepKeeps DEF SessionProgress
<1>3. CASE UNCHANGED vars
  <2>1. UNCHANGED <<inode, name, mutations, changes, coarse, captured, pending, cur, todo, seen,
  spc>>
    BY <1>3 DEF vars, session, fileSystem, walk
  <2> QED BY <2>1 DEF SessionInv, FileSystemOK, IsDir, CapturedOK, CapturedTree, Walked, Listed,
       Seen, Bound, StatInode, FoundIn, Present, Unlisted, Listing, Subdirectories, Children,
       Discovered
<1>4. CASE EncoderStep \/ Fault \/ Kill \/ PowerLoss
  <2>1. SessionEffect BY <1>4, StepKinds
  <2>2. pending' \subseteq Path BY <2>1, RootIsPath DEF SessionEffect, SessionInv, CapturedOK
  <2>3. CASE spc' = spc /\ spc \in Early \cup {"raised"}
    <3>1. CASE spc = "raised"
      BY <2>1, <2>2, <2>3, <3>1, LaterKeeps DEF SessionEffect, Early
    <3>2. CASE spc \in Early
      <4>1. UNCHANGED <<inode, name, mutations, changes, coarse, captured, pending, cur, todo, spc>>
        BY <2>1, <2>3, <3>2 DEF SessionEffect, fileSystem
      <4> QED BY <4>1 DEF SessionInv, FileSystemOK, IsDir, CapturedOK, CapturedTree, Walked, Listed,
           Seen, Bound, StatInode, FoundIn, Present, Unlisted, Listing, Subdirectories, Children,
           Discovered
    <3> QED BY <2>3, <3>1, <3>2
  <2>4. CASE ~(spc' = spc /\ spc \in Early \cup {"raised"})
    BY <2>1, <2>2, <2>4, LaterKeeps DEF SessionEffect, Early
  <2> QED BY <2>3, <2>4
<1> QED BY <1>1, <1>2, <1>3, <1>4 DEF Next, Stopped

-----------------------------------------------------------------------------
(* The list of entries, a recursive function.                                *)

(* Whatever path of the list is in a recorded directory other than the root, *)
(* that directory is earlier in the list.                                    *)
DirectoriesFirst(list) ==
    \A i \in DOMAIN list :
        Parent[list[i]] \in Discovered \ {Root} => \E j \in 1 .. i - 1 : list[j] = Parent[list[i]]

(* SourceSession.entries lists what was recorded, the root left out unless   *)
(* it is a file, and nothing else, and a directory before what it holds.     *)
(* (The recursive definition is unfolded by induction, on a table of its     *)
(* partial results.)                                                         *)
LEMMA EntriesFacts ==
    /\ Entries \in Seq(Path)
    /\ RootIsFile => Entries = <<Root>>
    /\ ~RootIsFile => {Entries[i] : i \in DOMAIN Entries} = Discovered \ {Root}
    /\ ~RootIsFile => DirectoriesFirst(Entries)
<1> DEFINE next(f, k) == IF k <= 1 THEN <<>>
                         ELSE IF PathOrder[k] \in Discovered THEN Append(f[k - 1], PathOrder[k])
                         ELSE f[k - 1]
           Defined(f, n) == f = [k \in 0 .. n |-> next(f, k)]
           N == Len(PathOrder)
<1>0. N \in Nat /\ N > 0 /\ DOMAIN PathOrder = 1 .. N /\ PathOrder \in Seq(Path) BY SourceAssumption
<1>1. \A n \in Nat : \E f : Defined(f, n)
  <2> SUFFICES ASSUME {n \in Nat : ~ \E f : Defined(f, n)} # {} PROVE FALSE OBVIOUS
  <2>1. PICK n \in Nat : (~ \E f : Defined(f, n)) /\ \A m \in Nat : (~ \E f : Defined(f,
  m)) => n <= m
    <3> DEFINE bad == {n \in Nat : ~ \E f : Defined(f, n)}
    <3>1. \E n \in bad : \A m \in bad : n <= m
      <4> HIDE DEF bad
      <4> QED BY SmallestNat DEF bad
    <3> QED BY <3>1
  <2>2. CASE n = 0
    <3>1. Defined([k \in 0 .. 0 |-> <<>>], 0) OBVIOUS
    <3> QED BY <3>1, <2>1, <2>2
  <2>3. CASE n > 0
    <3>1. n - 1 \in Nat /\ ~(n <= n - 1) BY <2>3
    <3>2. PICK f : Defined(f, n - 1) BY <2>1, <3>1
    <3> DEFINE g == [k \in 0 .. n |-> next(f, k)]
    <3>3. \A k \in 0 .. n - 1 : g[k] = f[k]
      <4> HIDE DEF next
      <4> QED BY <3>1, <3>2
    <3>4. \A k \in 0 .. n : next(g, k) = next(f, k)
      <4> SUFFICES ASSUME NEW k \in 0 .. n PROVE next(g, k) = next(f, k) OBVIOUS
      <4> HIDE DEF g
      <4>0. k > 1 => k - 1 \in 0 .. n - 1 OBVIOUS
      <4>1. k > 1 => g[k - 1] = f[k - 1] BY <3>3, <4>0
      <4> QED BY <4>1
    <3>5. Defined(g, n)
      <4> HIDE DEF next
      <4> QED BY <3>4
    <3> QED BY <3>5, <2>1
  <2> QED BY <2>2, <2>3
<1>2. PICK f : Defined(f, N) /\ (~RootIsFile => Entries = f[N])
  <2>1. \E f : Defined(f, N) BY <1>0, <1>1
  <2>2. Defined((CHOOSE f : Defined(f, N)), N) BY <2>1
  <2>3. ~RootIsFile => Entries = (CHOOSE f : Defined(f, N))[N] BY DEF Entries
  <2> QED BY <2>2, <2>3
<1> DEFINE Good(k) == /\ f[k] \in Seq(Path)
                      /\ {f[k][i] : i \in DOMAIN f[k]} = {PathOrder[i] : i \in 2 .. k} \cap Discovered
                      /\ DirectoriesFirst(f[k])
<1>3. \A k \in 0 .. N : Good(k)
  <2> SUFFICES ASSUME {n \in Nat : n <= N /\ ~Good(n)} # {} PROVE FALSE
    <3> HIDE DEF Good
    <3> QED BY <1>0
  <2>1. PICK n \in Nat : n <= N /\ ~Good(n) /\ \A m \in Nat : m <= N /\ ~Good(m) => n <= m
    <3> DEFINE bad == {n \in Nat : n <= N /\ ~Good(n)}
    <3>1. \E n \in bad : \A m \in bad : n <= m
      <4> HIDE DEF bad
      <4> QED BY SmallestNat DEF bad
    <3> QED BY <3>1
  <2>2. n \in 0 .. N /\ f[n] = next(f, n)
    <3> HIDE DEF Good, next
    <3> QED BY <1>0, <1>2, <2>1
  <2>3. CASE n <= 1
    <3>1. f[n] = <<>> BY <2>2, <2>3
    <3>2. {PathOrder[i] : i \in 2 .. n} = {} BY <2>3
    <3>3. DirectoriesFirst(f[n])
      <4>1. DirectoriesFirst(<<>>) BY DEF DirectoriesFirst
      <4> QED BY <3>1, <4>1
    <3>4. f[n] \in Seq(Path) /\ {f[n][i] : i \in DOMAIN f[n]} = {} BY <3>1
    <3>5. Good(n) BY <3>2, <3>3, <3>4
    <3> QED BY <2>1, <3>5
  <2>4. CASE n > 1
    <3>1. Good(n - 1)
      <4> HIDE DEF Good
      <4> QED BY <1>0, <2>1, <2>2, <2>4
    <3>2. PathOrder[n] \in Path /\ n \in DOMAIN PathOrder BY <1>0, <2>2, <2>4
    <3>3. {PathOrder[i] : i \in 2 .. n} = {PathOrder[i] : i \in 2 .. n - 1} \cup {PathOrder[n]}
      BY <2>2, <2>4
    <3>4. CASE PathOrder[n] \in Discovered
      <4>1. f[n] = Append(f[n - 1], PathOrder[n]) BY <2>2, <2>4, <3>4
      <4>2. f[n] \in Seq(Path) BY <3>1, <3>2, <4>1
      <4>3. {f[n][i] : i \in DOMAIN f[n]} = {f[n - 1][i] : i \in DOMAIN f[n - 1]} \cup {PathOrder[n]}
        <5> DEFINE s == f[n - 1] p == PathOrder[n]
        <5>1. s \in Seq(Path) /\ p \in Path BY <3>1, <3>2
        <5> HIDE DEF s, p
        <5>2. /\ DOMAIN s = 1 .. Len(s) /\ Len(s) \in Nat
              /\ DOMAIN Append(s, p) = 1 .. Len(s) + 1
              /\ \A i \in 1 .. Len(s) : Append(s, p)[i] = s[i]
              /\ Append(s, p)[Len(s) + 1] = p
          BY <5>1
        <5>3. {Append(s, p)[i] : i \in DOMAIN Append(s, p)} = {s[i] : i \in DOMAIN s} \cup {p}
          BY <5>2
        <5> QED BY <4>1, <5>3 DEF s, p
      <4>4. DirectoriesFirst(f[n])
        <5> DEFINE s == f[n - 1] p == PathOrder[n] t == f[n]
        <5>1. s \in Seq(Path) /\ p \in Path /\ t = Append(s, p) /\ DirectoriesFirst(s)
          BY <3>1, <3>2, <4>1
        <5>2. Parent[p] \in Discovered \ {Root} => \E j \in DOMAIN s : s[j] = Parent[p]
          <6>1. PICK j \in 1 .. n - 1 : PathOrder[j] = Parent[p]
            BY <1>0, <2>2, <2>4, SourceAssumption
          <6>2. Parent[p] # Root => j \in 2 .. n - 1 BY <6>1 DEF Root
          <6> QED BY <3>1, <6>1, <6>2
        <5> HIDE DEF s, p, t
        <5>3. /\ DOMAIN s = 1 .. Len(s) /\ Len(s) \in Nat
              /\ DOMAIN t = 1 .. Len(s) + 1
              /\ \A i \in 1 .. Len(s) : t[i] = s[i]
              /\ t[Len(s) + 1] = p
          BY <5>1
        <5>4. DirectoriesFirst(t) BY <5>1, <5>2, <5>3 DEF DirectoriesFirst
        <5> QED BY <5>4 DEF t
      <4> QED BY <2>1, <3>1, <3>3, <3>4, <4>2, <4>3, <4>4
    <3>5. CASE PathOrder[n] \notin Discovered
      <4>1. f[n] = f[n - 1] BY <2>2, <2>4, <3>5
      <4>2. {PathOrder[i] : i \in 2 .. n} \cap Discovered
              = {PathOrder[i] : i \in 2 .. n - 1} \cap Discovered
        <5> DEFINE here == {PathOrder[i] : i \in 2 .. n}
                   before == {PathOrder[i] : i \in 2 .. n - 1}
        <5>1. here = before \cup {PathOrder[n]} BY <3>3
        <5> HIDE DEF here, before
        <5> QED BY <3>5, <5>1 DEF here, before
      <4>3. Good(n) BY <3>1, <4>1, <4>2
      <4> HIDE DEF Good
      <4> QED BY <2>1, <4>3
    <3> QED BY <3>4, <3>5
  <2> QED BY <2>1, <2>3, <2>4
<1>4. {PathOrder[i] : i \in 2 .. N} = Path \ {Root}
  <2>1. \A i \in 1 .. N : PathOrder[i] = PathOrder[1] => i = 1 BY <1>0, SourceAssumption
  <2>2. \A i \in 2 .. N : PathOrder[i] \in Path \ {Root} BY <1>0, <2>1 DEF Path, Root
  <2>3. ASSUME NEW p \in Path \ {Root} PROVE \E i \in 2 .. N : PathOrder[i] = p
    <3>1. PICK i \in 1 .. N : PathOrder[i] = p BY <1>0 DEF Path
    <3>2. i # 1 BY <3>1 DEF Root
    <3> QED BY <3>1, <3>2, <1>0
  <2> QED BY <2>2, <2>3
<1>5. Good(N)
  <2> HIDE DEF Good
  <2> QED BY <1>0, <1>3
<1>6. RootIsFile => Entries = <<Root>> BY DEF Entries
<1>7. ~RootIsFile => /\ Entries \in Seq(Path) /\ DirectoriesFirst(Entries)
                     /\ {Entries[i] : i \in DOMAIN Entries} = Discovered \ {Root}
  <2>1. (Path \ {Root}) \cap Discovered = Discovered \ {Root} BY DEF Discovered
  <2> HIDE DEF Defined
  <2> QED BY <1>2, <1>4, <1>5, <2>1
<1>8. <<Root>> \in Seq(Path) BY RootIsPath
<1> QED BY <1>6, <1>7, <1>8

(* The entries depend on what was captured alone.                            *)
LEMMA EntriesKept ==
    ASSUME UNCHANGED captured
    PROVE  Entries' = Entries /\ RootIsFile' = RootIsFile /\ Discovered' = Discovered
<1> DEFINE upTo(c) == CHOOSE f : f = [k \in 0 .. Len(PathOrder) |->
              IF k <= 1 THEN <<>>
              ELSE IF PathOrder[k] \in {p \in Path : c[p].kind # "absent"}
                   THEN Append(f[k - 1], PathOrder[k])
              ELSE f[k - 1]]
           entriesOf(c) == IF c[Root].kind = "file" THEN <<Root>> ELSE upTo(c)[Len(PathOrder)]
<1>1. Entries = entriesOf(captured) BY Zenon DEF Entries, RootIsFile, Discovered
<1>2. Entries' = entriesOf(captured') BY Zenon DEF Entries, RootIsFile, Discovered
<1> HIDE DEF entriesOf
<1> QED BY <1>1, <1>2 DEF RootIsFile, Discovered

-----------------------------------------------------------------------------
(* The tree at the moment the capture ended.                                 *)

(* The path named something when the capture ended.                          *)
Here(p) == snapshot[p].kind # "absent"

(* The directory held, when the capture ended, what was recorded of it.      *)
ChildrenKept(d) == \A p \in Children(d) : Here(p) <=> Seen(p)

(* The snapshot is a tree.                                                   *)
SnapshotTyped ==
    /\ captured[Root].kind \in {"file", "dir"}
    /\ \A p \in Path : snapshot[p].kind # "file" => snapshot[p].data = <<>>
    /\ \A p \in Path \ {Root} : Here(p) => snapshot[Parent[p]].kind = "dir"

(* When no change is coarse, a path that is bound is what it was when the    *)
(* capture ended: the same kind, the same data, the same names.              *)
BoundKept ==
    ~coarse => \A p \in Path : Bound(p) =>
        /\ snapshot[p].kind = captured[p].kind
        /\ snapshot[p].data = inode[name[p]].data
        /\ captured[p].kind = "dir" => ChildrenKept(p)

(* What the snapshot has to do with the tree of now.                         *)
Snapped == After => SnapshotTyped /\ BoundKept

(* A step after the capture leaves what was captured and the snapshot        *)
(* alone.                                                                    *)
LEMMA SnapshotKinds ==
    Staged /\ [Next]_vars /\ After' =>
        /\ UNCHANGED <<captured, coarse>>
        /\ \/ After /\ UNCHANGED snapshot /\ (UNCHANGED fileSystem \/ Mutate)
           \/ pc = "session" /\ spc = "ready" /\ snapshot' = Tree /\ UNCHANGED fileSystem
<1> SUFFICES ASSUME Staged, [Next]_vars, After'
             PROVE  /\ UNCHANGED <<captured, coarse>>
                    /\ \/ After /\ UNCHANGED snapshot /\ (UNCHANGED fileSystem \/ Mutate)
                       \/ pc = "session" /\ spc = "ready" /\ snapshot' = Tree /\ UNCHANGED fileSystem
  OBVIOUS
<1> USE DEF After, Live, Working, Running
<1>1. CASE Mutation BY <1>1 DEF Mutation, Mutate, session, encoder, call
<1>2. CASE SessionProgress
  BY <1>2, SessionKinds DEF fileSystem, encoder, call
<1>3. CASE UNCHANGED vars BY <1>3 DEF vars, session, fileSystem, encoder, call
<1>4. CASE EncoderStep
  <2>1. WorkKind BY <1>4, WorkSteps
  <2>2. UNCHANGED <<captured, fileSystem, coarse>> BY <2>1 DEF WorkKind, fileSystem
  <2>3. CASE Begins BY <2>3 DEF Begins
  <2>4. CASE Captures BY <2>2, <2>4 DEF Captures
  <2>5. CASE UNCHANGED snapshot /\ ~Begins /\ ~Captures
    <3>1. pc \notin {"start", "session"} /\ Working
      BY <2>1, <2>5 DEF WorkKind, Spools, Plans, Lists, Opens, Reads, ReadWhole, Closes,
         EndsReading,
           Builds, Completes, Creates, Writes, Verifies, Writing
    <3>2. spc # "raised" 
      BY <1>4, <2>1, <3>1, StepKinds DEF SessionEffect
    <3> QED BY <2>2, <2>5, <3>1, <3>2
  <2> QED BY <2>1, <2>3, <2>4, <2>5 DEF WorkKind
<1>5. CASE Fault \/ Kill \/ PowerLoss BY <1>5 DEF Fault, Kill, PowerLoss, FailWith, Cleanup
<1> QED BY <1>1, <1>2, <1>3, <1>4, <1>5 DEF Next, Stopped

(* Snapped holds of the initial states.                                      *)
LEMMA SnappedInit == Init => Snapped
  BY DEF Init, Snapped, After

(* When the capture ends, a bound directory holds what was recorded in it.   *)
LEMMA BoundChildren ==
    ASSUME SessionInv, spc = "ready", ~coarse, NEW p \in Path, Bound(p), captured[p].kind = "dir"
    PROVE  \A q \in Children(p) : name[q] # NoIno <=> Seen(q)
<1>1. ~Unlisted(p) BY DEF Unlisted, Listing
<1>2. Present(p) = FoundIn(p) BY <1>1 DEF SessionInv, Listed
<1> QED BY <1>2 DEF Present, FoundIn

(* Every step keeps Snapped: the capture establishes it and no change can    *)
(* bring back an identity (BoundBefore).                                     *)
LEMMA SnappedStep == Staged /\ SessionInv /\ Snapped /\ [Next]_vars => Snapped'
<1> SUFFICES ASSUME Staged, SessionInv, Snapped, [Next]_vars, After'
             PROVE  (SnapshotTyped /\ BoundKept)'
  BY DEF Snapped
<1>0. UNCHANGED <<captured, coarse>> BY SnapshotKinds
<1>1. CASE After /\ UNCHANGED snapshot /\ UNCHANGED fileSystem
  BY <1>0, <1>1 DEF Snapped, SnapshotTyped, BoundKept, Here, ChildrenKept, Bound, Seen, StatInode,
     Children, fileSystem
<1>2. CASE After /\ UNCHANGED snapshot /\ Mutate
  <2>1. SnapshotTyped' BY <1>0, <1>2 DEF Snapped, SnapshotTyped, Here
  <2>2. ASSUME ~coarse, NEW p \in Path, Bound(p)'
        PROVE  /\ Bound(p) /\ name'[p] = name[p] /\ inode'[name[p]] = inode[name[p]]
    BY <1>2, <2>2, BoundBefore DEF SessionInv
  <2>3. BoundKept'
    <3> SUFFICES ASSUME ~coarse, NEW p \in Path, Bound(p)'
                 PROVE  /\ snapshot[p].kind = captured[p].kind
                        /\ snapshot[p].data = inode'[name'[p]].data
                        /\ captured[p].kind = "dir" => ChildrenKept(p)
      BY <1>0, <1>2 DEF BoundKept, ChildrenKept, Here, Seen, Children
    <3> QED BY <1>2, <2>2 DEF Snapped, BoundKept
  <2> QED BY <2>1, <2>3
<1>3. CASE pc = "session" /\ spc = "ready" /\ snapshot' = Tree /\ UNCHANGED fileSystem
  <2>1. FileSystemOK /\ CapturedOK /\ CapturedTree BY DEF SessionInv
  <2>2. /\ \A p \in Path : name[p] = NoIno =>
              snapshot'[p].kind = "absent" /\ snapshot'[p].data = <<>>
        /\ \A p \in Path : name[p] # NoIno =>
              snapshot'[p].kind = inode[name[p]].kind /\ snapshot'[p].data = inode[name[p]].data
    BY <1>3 DEF Tree
  <2>3. \A p \in Path : name[p] # NoIno => name[p] \in Ino /\ inode[name[p]].kind \in {"file",
  "dir", "link"}
    BY <2>1 DEF FileSystemOK, Node, FileKind
  <2>4. SnapshotTyped'
    <3>1. captured'[Root].kind \in {"file", "dir"}
      BY <1>0, <1>3, <2>1, RootIsPath DEF CapturedTree, CapturedOK, Seen
    <3>2. \A p \in Path : snapshot'[p].kind # "file" => snapshot'[p].data = <<>>
      BY <2>1, <2>2, <2>3 DEF FileSystemOK
    <3>3. ASSUME NEW p \in Path \ {Root}, snapshot'[p].kind # "absent"
          PROVE  snapshot'[Parent[p]].kind = "dir"
      <4>1. name[p] # NoIno BY <2>2, <3>3
      <4>2. IsDir(Parent[p]) /\ Parent[p] \in Path BY <2>1, <4>1, RootIsPath DEF FileSystemOK
      <4> QED BY <2>2, <4>2 DEF IsDir
    <3> QED BY <3>1, <3>2, <3>3 DEF SnapshotTyped, Here
  <2>5. BoundKept'
    <3> SUFFICES ASSUME ~coarse, NEW p \in Path, Bound(p)
                 PROVE  /\ snapshot'[p].kind = captured[p].kind
                        /\ snapshot'[p].data = inode[name[p]].data
                        /\ captured[p].kind = "dir" =>
                              \A q \in Children(p) : snapshot'[q].kind # "absent" <=> Seen(q)
      BY <1>0, <1>3 DEF BoundKept, ChildrenKept, Here, Seen, Children, Bound, StatInode, fileSystem
    <3>1. name[p] # NoIno /\ captured[p].kind = inode[name[p]].kind BY DEF Bound, StatInode
    <3>2. ASSUME captured[p].kind = "dir", NEW q \in Children(p)
          PROVE  snapshot'[q].kind # "absent" <=> Seen(q)
      <4>1. name[q] # NoIno <=> Seen(q) BY <1>3, <3>2, BoundChildren
      <4>2. q \in Path BY DEF Children
      <4> QED BY <2>2, <2>3, <4>1, <4>2 DEF FileKind
    <3> QED BY <2>2, <3>1, <3>2
  <2> QED BY <2>4, <2>5
<1> QED BY <1>1, <1>2, <1>3, SnapshotKinds

-----------------------------------------------------------------------------
(* The manifest, entry by entry.                                             *)

(* t is s with e at its end.                                                 *)
Extension(t, s, n, e) ==
    IsRun(t, n + 1) /\ t[n + 1] = e /\ \A i \in 1 .. n : t[i] = s[i]

(* Append on such a sequence. (The provers know Append of a Seq(S) only.)    *)
LEMMA AppendRun ==
    ASSUME NEW n \in Nat, NEW s, IsRun(s, n), NEW e
    PROVE  Extension(Append(s, e), s, n, e)
<1> DEFINE S == {s[i] : i \in 1 .. n} \cup {e}
<1>1. s \in Seq(S) /\ Len(s) = n
  <2>1. s = [i \in 1 .. n |-> s[i]] BY DEF IsRun
  <2>2. [i \in 1 .. n |-> s[i]] \in [1 .. n -> S] OBVIOUS
  <2>3. s \in [1 .. n -> S] BY <2>1, <2>2
  <2> HIDE DEF S
  <2> QED BY <2>3
<1>2. e \in S OBVIOUS
<1> HIDE DEF S
<1>3. /\ Append(s, e) \in Seq(S) /\ Len(Append(s, e)) = n + 1
      /\ Append(s, e)[n + 1] = e /\ \A i \in 1 .. n : Append(s, e)[i] = s[i]
  BY <1>1, <1>2
<1>4. Append(s, e) \in [1 .. n + 1 -> S] BY <1>3, LenProperties
<1> QED BY <1>3, <1>4 DEF IsRun, Extension

(* The name under which an entry is recorded.                                *)
EntryName(p) == IF format = "MSC1" THEN p ELSE Normal[p]

(* What is recorded of a file that is still bound is what it held when the   *)
(* capture ended.                                                            *)
Recorded(p, digest) == ~coarse /\ Bound(p) => snapshot[p].data = digest

(* An entry has the kind and the name of its path, and a good digest.        *)
EntryGood(e, p) ==
    /\ e.kind = captured[p].kind /\ e.path = EntryName(p)
    /\ e.kind = "file" => Recorded(p, e.digest)

(* The first n entries are recorded, in order.                               *)
EntriesMade(n) ==
    /\ {"kind", "entries"} \subseteq DOMAIN manifest
    /\ manifest.kind = IF RootIsFile THEN "file" ELSE "folder"
    /\ IsRun(manifest.entries, n)
    /\ \A i \in 1 .. n : EntryGood(manifest.entries[i], Entries[i])

(* The formats that normalise paths go on only when no two of them clash.    *)
Named == After /\ pc \in {"scan", "scanning"} /\ format \notin {"MSC1", "MSC2"} => ~PathsRefused

(* The stages that follow the scan.                                          *)
Scanned == pc \in {"create", "encode", "encoding", "lanes", "flush", "check", "verify"}

(* The manifest at each stage.                                               *)
Manifested ==
    After =>
        /\ format = "MSC1" => RootIsFile /\ pc # "scan"
        /\ pc \in {"scan", "scanning"} /\ format # "MSC1" =>
              ix \in 1 .. Len(Entries) + 1 /\ EntriesMade(ix - 1)
        /\ Scanned => EntriesMade(Len(Entries))

(* While a file is read, what was read of it is the beginning of what it     *)
(* held, if its identity still holds.                                        *)
Reading ==
    After /\ pc = "scanning" =>
        /\ cur = IF format = "MSC1" THEN Root ELSE Entries[ix]
        /\ format # "MSC1" => ix <= Len(Entries)
        /\ captured[cur].kind = "file" /\ taken \in Seq(Chunk)
        /\ spc = "opening" => taken = <<>>
        /\ spc = "reading" =>
              /\ handle \in Ino
              /\ ~coarse /\ captured[cur] = StatInode(handle) =>
                    Len(taken) <= Len(Stream) /\ \A k \in 1 .. Len(taken) : taken[k] = Stream[k]

(* What MSC1 read of its file.                                               *)
Built == After /\ pc = "built" => RootIsFile /\ Recorded(Root, taken)

(* A path bound after a step was bound before it.                            *)
LEMMA BoundEarlier ==
    ASSUME Staged, SessionInv, [Next]_vars, After'
    PROVE  \A p \in Path : ~coarse /\ Bound(p)' => Bound(p)
<1>1. UNCHANGED <<captured, coarse>> /\ (UNCHANGED fileSystem \/ Mutate) BY SnapshotKinds
<1>2. CASE UNCHANGED fileSystem BY <1>1, <1>2 DEF Bound, Seen, StatInode, fileSystem
<1>3. CASE Mutate BY <1>1, <1>3, BoundBefore DEF SessionInv
<1> QED BY <1>1, <1>2, <1>3

(* What holds between two states after the capture.                          *)
Steady ==
    /\ UNCHANGED <<captured, coarse, format, snapshot>>
    /\ \A p \in Path : ~coarse /\ Bound(p)' => Bound(p)

(* A good entry stays good.                                                  *)
LEMMA EntryStaysGood ==
    ASSUME Steady, NEW e, NEW p \in Path, EntryGood(e, p)
    PROVE  EntryGood(e, p)'
  BY DEF Steady, EntryGood, EntryName, Recorded

(* An entry is a path.                                                       *)
LEMMA EntryListed == ASSUME NEW i \in 1 .. Len(Entries) PROVE Entries[i] \in Path
  BY EntriesFacts

(* A step that appends no entry keeps those made.                            *)
LEMMA EntriesStay ==
    ASSUME Steady, NEW n \in Nat, n <= Len(Entries), EntriesMade(n),
           UNCHANGED manifest \/ \E chunks : manifest' = [manifest EXCEPT !.chunks = chunks]
    PROVE  EntriesMade(n)'
<1>1. UNCHANGED <<Entries, RootIsFile>> BY EntriesKept DEF Steady
<1>2. /\ {"kind", "entries"} \subseteq DOMAIN manifest'
      /\ manifest'.kind = manifest.kind /\ manifest'.entries = manifest.entries
  BY DEF EntriesMade
<1>3. ASSUME NEW i \in 1 .. n PROVE EntryGood(manifest.entries[i], Entries[i])'
  <2>1. Entries[i] \in Path BY EntryListed, EntriesFacts
  <2>2. \A e, p : e = manifest.entries[i] /\ p = Entries[i] => EntryGood(e, p)'
    <3>1. EntryGood(manifest.entries[i], Entries[i]) BY DEF EntriesMade
    <3> QED BY <2>1, <3>1, EntryStaysGood
  <2>3. PICK e, p : e = manifest.entries[i] /\ p = Entries[i] OBVIOUS
  <2>4. EntryGood(e, p)' BY <2>2, <2>3
  <2>5. e = manifest'.entries[i] /\ p = Entries'[i] BY <1>1, <1>2, <2>3
  <2> QED BY <2>4, <2>5 DEF EntryGood, EntryName, Recorded, Bound, Seen, StatInode
<1> QED BY <1>1, <1>2, <1>3 DEF EntriesMade, IsRun

(* A step that appends a good entry makes one more.                          *)
LEMMA EntryAdded ==
    ASSUME Steady, NEW n \in Nat, n < Len(Entries), EntriesMade(n), NEW e, NEW p,
           p = Entries[n + 1], EntryGood(e, p)',
           manifest' = [manifest EXCEPT !.entries = Append(@, e)]
    PROVE  EntriesMade(n + 1)'
<1>1. UNCHANGED <<Entries, RootIsFile>> BY EntriesKept DEF Steady
<1>2. /\ {"kind", "entries"} \subseteq DOMAIN manifest'
      /\ manifest'.kind = manifest.kind /\ manifest'.entries = Append(manifest.entries, e)
  BY DEF EntriesMade
<1>3. /\ IsRun(manifest'.entries, n + 1) /\ manifest'.entries[n + 1] = e
      /\ \A i \in 1 .. n : manifest'.entries[i] = manifest.entries[i]
  <2>1. PICK s : s = manifest.entries OBVIOUS
  <2>2. IsRun(s, n) BY <2>1 DEF EntriesMade
  <2>3. PICK t : t = manifest'.entries OBVIOUS
  <2>4. t = Append(s, e) BY <1>2, <2>1, <2>3
  <2>5. Extension(t, s, n, e) BY <2>2, <2>4, AppendRun
  <2> QED BY <2>1, <2>3, <2>5 DEF Extension
<1>4. ASSUME NEW i \in 1 .. n PROVE EntryGood(manifest.entries[i], Entries[i])'
  <2>1. Entries[i] \in Path BY EntryListed, EntriesFacts
  <2>2. \A f, q : f = manifest.entries[i] /\ q = Entries[i] => EntryGood(f, q)'
    <3>1. EntryGood(manifest.entries[i], Entries[i]) BY DEF EntriesMade
    <3> QED BY <2>1, <3>1, EntryStaysGood
  <2>3. PICK f, q : f = manifest.entries[i] /\ q = Entries[i] OBVIOUS
  <2>4. EntryGood(f, q)' BY <2>2, <2>3
  <2>5. f = manifest'.entries[i] /\ q = Entries'[i] BY <1>1, <1>3, <2>3
  <2> QED BY <2>4, <2>5 DEF EntryGood, EntryName, Recorded, Bound, Seen, StatInode
<1>5. EntryGood(manifest.entries[n + 1], Entries[n + 1])'
  BY <1>1, <1>3 DEF EntryGood, EntryName, Recorded, Bound, Seen, StatInode
<1>6. \A i \in 1 .. n + 1 : i \in 1 .. n \/ i = n + 1 OBVIOUS
<1> QED BY <1>1, <1>2, <1>3, <1>4, <1>5, <1>6 DEF EntriesMade

-----------------------------------------------------------------------------
(* The scan.                                                                 *)

(* No step changes the call.                                                 *)
LEMMA CallKept == Staged /\ [Next]_vars => UNCHANGED <<format, request>>
<1> SUFFICES ASSUME Staged, [Next]_vars PROVE UNCHANGED <<format, request>> OBVIOUS
<1>1. CASE EncoderStep \/ Fault \/ Kill \/ PowerLoss
  BY <1>1, StepKinds DEF Kinds, Works, FailsClean, Publishes, Unspools, Stops
<1> QED BY <1>1 DEF Next, SessionProgress, Mutation, Stopped, vars, encoder, call

(* Every step after the capture is steady.                                   *)
LEMMA SteadyStep ==
    ASSUME Staged, SessionInv, [Next]_vars, After, After'
    PROVE  Steady
  BY CallKept, SnapshotKinds, BoundEarlier DEF Steady, After

(* A file looked up by its normalised path is the file recorded: if another  *)
(* path had that name, the two would clash and the call would have been      *)
(* refused.                                                                  *)
LEMMA LookupFinds ==
    ASSUME ~PathsRefused, NEW i \in 1 .. Len(Entries), Lookup(Entries[i]) \in Discovered
    PROVE  Lookup(Entries[i]) = Entries[i]
<1>0. Entries[i] \in Path /\ DOMAIN Entries = 1 .. Len(Entries) BY EntriesFacts
<1>1. CASE RootIsFile
  <2>1. Entries = <<Root>> BY <1>1, EntriesFacts
  <2>2. i = 1 BY <2>1
  <2> QED BY <1>1, <2>1, <2>2 DEF Lookup
<1>2. CASE ~RootIsFile
  <2> DEFINE p == Entries[i] q == Normal[p]
  <2>1. {Entries[j] : j \in DOMAIN Entries} = Discovered \ {Root} BY <1>2, EntriesFacts
  <2>2. p \in Path \ {Root} BY <1>0, <2>1
  <2>3. q \in Discovered \ {Root} BY <1>2, <2>2, EncodeAssumption DEF Lookup
  <2>4. PICK j \in DOMAIN Entries : Entries[j] = q BY <2>1, <2>3
  <2>5. q \in Path BY <2>3 DEF Discovered
  <2>6. Normal[q] = q BY <2>2, <2>5, EncodeAssumption
  <2>7. i \in DOMAIN Entries BY <1>0
  <2>8. Fold[Normal[Entries[i]]] = Fold[Normal[Entries[j]]] BY <2>4, <2>6
  <2>9. i = j BY <2>4, <2>7, <2>8 DEF PathsRefused
  <2> QED BY <1>2, <2>4, <2>9 DEF Lookup
<1> QED BY <1>1, <1>2

(* A file read to the end under the identity captured for it holds what it   *)
(* held when the capture ended.                                              *)
LEMMA WholeRead ==
    ASSUME SessionInv, Snapped, Reading, After, ReadWhole, cur \in Path
    PROVE  Recorded(cur, taken)
<1> SUFFICES ASSUME ~coarse, Bound(cur) PROVE snapshot[cur].data = taken BY DEF Recorded
<1>1. handle \in Ino /\ taken \in Seq(Chunk)
      /\ Len(taken) <= Len(Stream) /\ \A k \in 1 .. Len(taken) : taken[k] = Stream[k]
  BY DEF Reading, ReadWhole
<1>2. name[cur] = handle BY DEF Bound, ReadWhole, StatInode
<1>3. Stream \in Seq(Chunk) BY <1>1 DEF Stream, SessionInv, FileSystemOK, Node
<1>4. Len(taken) = Len(Stream) BY <1>1, <1>3 DEF ReadWhole
<1>5. taken = Stream BY <1>1, <1>3, <1>4, SeqEqual
<1> QED BY <1>2, <1>5 DEF Snapped, BoundKept, Stream

(* Every step keeps Named.                                                   *)
LEMMA NamedStep == Staged /\ SessionInv /\ Named /\ [Next]_vars => Named'
<1> SUFFICES ASSUME Staged, SessionInv, Named, [Next]_vars, After', pc' \in {"scan", "scanning"},
                    format' \notin {"MSC1", "MSC2"}
             PROVE  ~PathsRefused'
  BY DEF Named
<1>0. UNCHANGED captured /\ format' = format BY SnapshotKinds, CallKept
<1>1. PathsRefused' = PathsRefused BY <1>0, EntriesKept DEF PathsRefused
<1>2. CASE EncoderStep
  <2>1. WorkKind BY <1>2, WorkSteps DEF After
  <2>2. CASE Captures BY <1>0, <2>2 DEF Captures
  <2>3. CASE Plans BY <1>0, <1>1, <2>3 DEF Plans
  <2>4. CASE After /\ pc \in {"scan", "scanning"} BY <1>0, <1>1, <2>4 DEF Named
  <2>5. ~Captures /\ ~Plans => pc \in {"scan", "scanning"}
    BY <2>1 DEF WorkKind, Begins, Spools, Lists, Opens, Reads, Closes, ReadWhole, EndsReading,
       Builds,
       Completes, Creates, Writes, Verifies, Writing
  <2>6. pc # "session" => After BY SnapshotKinds
  <2> QED BY <2>2, <2>3, <2>4, <2>5, <2>6
<1>3. CASE ~EncoderStep
  <2>1. UNCHANGED pc
    BY <1>3 DEF Next, SessionProgress, Mutation, Stopped, vars, encoder, Fault, Kill, PowerLoss,
       FailWith, Cleanup
  <2>2. After BY <2>1, SnapshotKinds
  <2> QED BY <1>0, <1>1, <2>1, <2>2 DEF Named
<1> QED BY <1>2, <1>3

(* The steps that are not the encoder's leave its work alone.                *)
LEMMA OthersKeepWork ==
    Staged /\ [Next]_vars /\ After' /\ ~EncoderStep =>
        UNCHANGED <<pc, work, temp>> /\ After
<1> SUFFICES ASSUME Staged, [Next]_vars, After', ~EncoderStep
             PROVE  UNCHANGED <<pc, work, temp>> /\ After
  OBVIOUS
<1>1. UNCHANGED <<pc, work, temp>>
  BY DEF Next, SessionProgress, Mutation, Stopped, vars, encoder, output, Fault, Kill, PowerLoss,
     FailWith,
     Cleanup, After, Live, Working, Running
<1> QED BY <1>1, SnapshotKinds DEF After

(* Every step keeps Manifested.                                              *)
LEMMA ManifestedStep ==
    Staged /\ SessionInv /\ Snapped /\ Reading /\ Built /\ Manifested /\ [Next]_vars => Manifested'
<1> SUFFICES ASSUME Staged, SessionInv, Snapped, Reading, Built, Manifested, [Next]_vars, After'
             PROVE  Manifested'
  BY DEF Manifested
<1>0. /\ UNCHANGED <<captured, format>> /\ UNCHANGED <<Entries, RootIsFile>>
      /\ Len(Entries) \in Nat
  BY SnapshotKinds, CallKept, EntriesKept, EntriesFacts
<1>1. CASE ~EncoderStep
  <2>1. UNCHANGED <<pc, ix, manifest>> /\ After BY <1>1, OthersKeepWork DEF work
  <2>2. Steady BY <2>1, SteadyStep
  <2>3. \A n \in Nat : n <= Len(Entries) /\ EntriesMade(n) => EntriesMade(n)'
    BY <2>1, <2>2, EntriesStay
  <2>4. PICK m, n : m = ix - 1 /\ n = Len(Entries) OBVIOUS
  <2> QED BY <1>0, <2>1, <2>3, <2>4 DEF Manifested, Scanned
<1>2. CASE EncoderStep
  <2>1. WorkKind BY <1>2, WorkSteps DEF After
  <2>2. CASE Captures BY <1>0, <2>2 DEF Captures, Manifested, Scanned
  <2>3. CASE ~Captures
    <3>0. ~Begins BY DEF Begins, After
    <3>1. pc # "session" /\ UNCHANGED snapshot
      BY <2>1, <2>3, <3>0 DEF WorkKind, Spools, Plans, Lists, Opens, Reads, ReadWhole, Closes,
         EndsReading, Builds, Completes, Creates, Writes, Verifies, Writing
    <3>2. After BY <3>1, SnapshotKinds
    <3>3. Steady BY <3>2, SteadyStep
    <3>4. \A n \in Nat : /\ n <= Len(Entries) /\ EntriesMade(n)
                         /\ UNCHANGED manifest \/ \E chunks : manifest' = [manifest EXCEPT !.chunks = chunks]
                         => EntriesMade(n)'
      BY <3>3, EntriesStay
    <3>5. PICK m, n : m = ix - 1 /\ n = Len(Entries) OBVIOUS
    <3>6. CASE Spools BY <1>0, <3>2, <3>6 DEF Spools, Manifested, Scanned
    <3>7. CASE Plans
      <4>1. EntriesMade(0)'
        BY <1>0, <3>7 DEF Plans, EntriesMade, EmptyManifest, IsRun
      <4> QED BY <1>0, <3>7, <4>1 DEF Plans, Manifested, Scanned
    <3>8. CASE Lists
      <4>1. m \in Nat /\ m < Len(Entries) /\ EntriesMade(m) /\ ix = m + 1
        BY <1>0, <3>2, <3>5, <3>8 DEF Lists, Manifested
      <4>2. PICK p : p = Entries[m + 1] OBVIOUS
      <4>3. EntryGood(DirEntry(Normal[p]), p)'
        BY <1>0, <3>8, <4>1, <4>2 DEF Lists, EntryGood, DirEntry, EntryName
      <4>4. EntriesMade(m + 1)'
        <5>1. manifest' = [manifest EXCEPT !.entries = Append(@, DirEntry(Normal[p]))]
          BY <3>8, <4>1, <4>2 DEF Lists
        <5> QED BY <3>3, <4>1, <4>2, <4>3, <5>1, EntryAdded
      <4> QED BY <1>0, <3>8, <4>1, <4>4 DEF Lists, Manifested, Scanned
    <3>9. CASE Closes
      <4>1. m \in Nat /\ m < Len(Entries) /\ EntriesMade(m) /\ ix = m + 1
        BY <1>0, <3>2, <3>5, <3>9 DEF Closes, ReadWhole, Manifested, Reading
      <4>2. PICK p : p = Entries[m + 1] OBVIOUS
      <4>3. p \in Path BY <1>0, <4>1, <4>2, EntryListed
      <4>4. cur = p /\ captured[p].kind = "file" /\ format # "MSC1"
        BY <3>2, <3>9, <4>1, <4>2 DEF Closes, ReadWhole, Reading
      <4>5. Recorded(p, taken)
        <5>1. Recorded(cur, taken) BY <3>2, <3>9, <4>3, <4>4, WholeRead DEF Closes
        <5> QED BY <4>4, <5>1 DEF Recorded, Bound, Seen, StatInode
      <4>6. PICK e : /\ manifest' = [manifest EXCEPT !.entries = Append(@, e)]
                     /\ e.kind = "file" /\ e.path = Normal[p] /\ e.digest = taken
        <5>1. PICK size, first, count :
                 manifest' = [manifest EXCEPT !.entries =
                                 Append(@, FileEntry(Normal[p], size, first, count, taken))]
          BY <3>9, <4>1, <4>2 DEF Closes
        <5>2. PICK e : e = FileEntry(Normal[p], size, first, count, taken) OBVIOUS
        <5>3. e.kind = "file" /\ e.path = Normal[p] /\ e.digest = taken BY <5>2 DEF FileEntry
        <5> QED BY <5>1, <5>2, <5>3
      <4>7. EntryGood(e, p)
        BY <4>4, <4>5, <4>6 DEF EntryGood, EntryName
      <4>8. EntryGood(e, p)' BY <3>3, <4>3, <4>7, EntryStaysGood
      <4>9. EntriesMade(m + 1)' BY <3>3, <4>1, <4>2, <4>6, <4>8, EntryAdded
      <4> QED BY <1>0, <3>9, <4>1, <4>9 DEF Closes, Manifested, Scanned
    <3>10. CASE Opens \/ Reads
      <4>1. /\ UNCHANGED ix /\ pc \in {"scan", "scanning"} /\ pc' = "scanning"
            /\ UNCHANGED manifest \/ \E chunks : manifest' = [manifest EXCEPT !.chunks = chunks]
        BY <3>10 DEF Opens, Reads
      <4> QED BY <1>0, <3>2, <3>4, <3>5, <4>1 DEF Manifested, Scanned
    <3>11. CASE EndsReading
      BY <1>0, <3>2, <3>11 DEF EndsReading, ReadWhole, Manifested, Scanned
    <3>12. CASE Builds
      <4>1. RootIsFile /\ Recorded(Root, taken) /\ Entries = <<Root>>
        BY <3>2, <3>12, EntriesFacts DEF Builds, Built
      <4>2. PICK e : /\ manifest'.entries = <<e>> /\ manifest'.kind = "file"
                     /\ {"kind", "entries"} \subseteq DOMAIN manifest'
                     /\ e.kind = "file" /\ e.path = Root /\ e.digest = taken
        BY <3>12, <4>1 DEF Builds, SingleManifest, EmptyManifest, FileEntry
      <4>3. EntryGood(e, Root)
        BY <3>12, <4>1, <4>2 DEF Builds, EntryGood, EntryName, RootIsFile
      <4>4. EntryGood(e, Root)' BY <3>3, <4>3, RootIsPath, EntryStaysGood
      <4>5. EntriesMade(1)'
        <5>1. IsRun(<<e>>, 1) BY DEF IsRun
        <5>2. EntryGood(manifest.entries[1], Entries[1])'
          BY <1>0, <4>1, <4>2, <4>4 DEF EntryGood, EntryName, Recorded, Bound, Seen, StatInode
        <5>3. \A i \in 1 .. 1 : i = 1 OBVIOUS
        <5> QED BY <1>0, <4>1, <4>2, <5>1, <5>2, <5>3 DEF EntriesMade
      <4> QED BY <1>0, <3>12, <4>1, <4>5 DEF Builds, Manifested, Scanned
    <3>13. CASE Completes
      <4>1. ix = n + 1 /\ m = n
        BY <1>0, <3>2, <3>5, <3>13 DEF Completes, Manifested
      <4> QED BY <1>0, <3>2, <3>4, <3>5, <3>13, <4>1 DEF Completes, Manifested, Scanned
    <3>14. CASE Creates \/ Writes \/ Verifies
      <4>1. /\ UNCHANGED manifest /\ Scanned /\ Scanned' /\ pc' \notin {"scan", "scanning"}
        BY <3>14 DEF Creates, Writes, Verifies, Writing, Scanned
      <4> QED BY <1>0, <3>2, <3>4, <3>5, <4>1 DEF Manifested
    <3> QED BY <2>1, <2>3, <3>0, <3>6, <3>7, <3>8, <3>9, <3>10, <3>11, <3>12, <3>13, <3>14
         DEF WorkKind
  <2> QED BY <2>2, <2>3
<1> QED BY <1>1, <1>2

(* Every step keeps Reading; a chunk that another process changes under the  *)
(* reader moves the identity.                                                *)
LEMMA ReadingStep ==
    Staged /\ SessionInv /\ Snapped /\ Named /\ Manifested /\ Reading /\ [Next]_vars => Reading'
<1> SUFFICES ASSUME Staged, SessionInv, Snapped, Named, Manifested, Reading, [Next]_vars,
                    After', pc' = "scanning"
             PROVE  Reading'
  BY DEF Reading
<1>0. /\ UNCHANGED <<captured, format, coarse>> /\ UNCHANGED <<Entries, RootIsFile>>
      /\ Len(Entries) \in Nat
  BY SnapshotKinds, CallKept, EntriesKept, EntriesFacts
<1>1. CASE UNCHANGED <<pc, ix, taken, session>> /\ After
  <2>1. CASE UNCHANGED fileSystem
    BY <1>0, <1>1, <2>1 DEF Reading, session, walk, StatInode, Stream, fileSystem
  <2>2. CASE Mutate
    <3>1. FileSystemOK /\ CapturedOK /\ (~coarse => FreshlyChanged)
      BY <2>2, MutationFacts DEF SessionInv
    <3>2. ASSUME ~coarse, handle \in Ino, captured[cur] = StatInode(handle)', cur \in Path
          PROVE  inode'[handle] = inode[handle] /\ captured[cur] = StatInode(handle)
      <4>1. captured[cur].stamp = inode'[handle].stamp BY <3>2, <1>1 DEF StatInode, session
      <4>2. captured[cur].stamp <= mutations /\ mutations \in Nat /\ captured[cur].stamp \in Nat
        BY <3>1, <3>2 DEF CapturedOK, FileSystemOK
      <4>3. ~Fresh(handle) BY <4>1, <4>2 DEF Fresh
      <4>4. inode'[handle] = inode[handle] BY <3>1, <3>2, <4>3 DEF FreshlyChanged
      <4> QED BY <1>1, <3>2, <4>4 DEF StatInode, session
    <3>3. pc = "scanning" /\ UNCHANGED <<cur, handle, spc, taken, ix>> BY <1>1 DEF session, walk
    <3>4. cur \in Path
      BY <1>0, <1>1, <3>3, RootIsPath, EntryListed DEF Reading, Manifested
    <3>5. /\ cur = IF format = "MSC1" THEN Root ELSE Entries[ix]
          /\ format # "MSC1" => ix <= Len(Entries)
          /\ captured[cur].kind = "file" /\ taken \in Seq(Chunk)
          /\ spc = "opening" => taken = <<>>
          /\ spc = "reading" => handle \in Ino
      BY <1>1, <3>3 DEF Reading
    <3>6. spc = "reading" /\ ~coarse /\ captured[cur] = StatInode(handle)' =>
             Len(taken) <= Len(inode'[handle].data)
             /\ \A k \in 1 .. Len(taken) : taken[k] = inode'[handle].data[k]
      BY <1>1, <3>2, <3>3, <3>4, <3>5 DEF Reading, Stream
    <3> QED BY <1>0, <3>3, <3>5, <3>6 DEF Reading, Stream, StatInode
  <2> QED BY <1>1, <2>1, <2>2, SnapshotKinds DEF After
<1>2. CASE EncoderStep
  <2>1. WorkKind BY <1>2, WorkSteps DEF After
  <2>2. CASE Captures BY <1>0, <2>2 DEF Captures, Reading, RootIsFile
  <2>3. CASE Opens
    <3>1. After BY <2>3, SnapshotKinds DEF Opens
    <3>2. ix \in 1 .. Len(Entries) /\ cur' = Entries[ix]
      <4>1. ix \in 1 .. Len(Entries) BY <1>0, <2>3, <3>1 DEF Opens, Manifested
      <4>2. CASE cur' = Entries[ix] BY <4>1, <4>2
      <4>3. CASE cur' = Lookup(Entries[ix]) /\ cur' \in Discovered /\ format # "MSC2"
        <5>1. ~PathsRefused BY <2>3, <3>1, <4>3 DEF Named, Opens
        <5> QED BY <4>1, <4>3, <5>1, LookupFinds
      <4> QED BY <2>3, <4>2, <4>3 DEF Opens
    <3> QED BY <1>0, <2>3, <3>1, <3>2 DEF Opens, Reading
  <2>4. CASE Reads
    <3>1. After BY <2>4, SnapshotKinds DEF Reads
    <3>2. UNCHANGED <<cur, handle, spc, ix, inode>> /\ spc = "reading" /\ pc = "scanning"
      BY <2>1, <2>4 DEF Reads, session, walk, WorkKind, fileSystem
    <3>3. handle \in Ino /\ taken \in Seq(Chunk) BY <3>1, <3>2 DEF Reading
    <3>4. Stream \in Seq(Chunk) BY <3>3 DEF Stream, SessionInv, FileSystemOK, Node
    <3>5. Len(taken) < Len(Stream) /\ taken' = Append(taken, Stream[Len(taken) + 1])
      BY <2>4 DEF Reads
    <3>6. taken' \in Seq(Chunk) /\ Len(taken') = Len(taken) + 1
          /\ taken'[Len(taken) + 1] = Stream[Len(taken) + 1]
          /\ \A k \in 1 .. Len(taken) : taken'[k] = taken[k]
      BY <3>3, <3>4, <3>5
    <3>7. ~coarse /\ captured[cur] = StatInode(handle) =>
             Len(taken') <= Len(Stream) /\ \A k \in 1 .. Len(taken') : taken'[k] = Stream[k]
      <4> SUFFICES ASSUME ~coarse, captured[cur] = StatInode(handle)
                   PROVE  Len(taken') <= Len(Stream) /\ \A k \in 1 .. Len(taken') : taken'[k] = Stream[k]
        OBVIOUS
      <4>1. \A k \in 1 .. Len(taken) : taken[k] = Stream[k] BY <3>1, <3>2 DEF Reading
      <4>2. Len(taken) \in Nat /\ Len(Stream) \in Nat BY <3>3, <3>4
      <4>3. \A k \in 1 .. Len(taken') : k \in 1 .. Len(taken) \/ k = Len(taken) + 1 BY <3>6, <4>2
      <4> QED BY <3>5, <3>6, <4>1, <4>2, <4>3
    <3>8. StatInode(handle)' = StatInode(handle) /\ Stream' = Stream BY <3>2 DEF StatInode, Stream
    <3>9. /\ cur = IF format = "MSC1" THEN Root ELSE Entries[ix]
          /\ format # "MSC1" => ix <= Len(Entries)
          /\ captured[cur].kind = "file"
      BY <3>1, <3>2 DEF Reading
    <3> QED BY <1>0, <3>2, <3>3, <3>6, <3>7, <3>8, <3>9 DEF Reading
  <2> QED BY <2>1, <2>2, <2>3, <2>4 DEF WorkKind, Begins, Spools, Plans, Lists, Closes, ReadWhole,
         EndsReading, Builds, Completes, Creates, Writes, Verifies, Writing
<1>3. CASE ~EncoderStep
  <2>1. UNCHANGED <<pc, ix, taken>> /\ After BY <1>3, OthersKeepWork DEF work
  <2>2. CASE SessionProgress
    <3>1. UNCHANGED captured /\ OpenHandle /\ UNCHANGED fileSystem
      BY <2>1, <2>2, SessionKinds DEF After
    <3>2. /\ captured[cur] = Stat(cur) /\ spc = "opening" /\ spc' = "reading" /\ handle' = name[cur]
          /\ UNCHANGED cur
      BY <3>1 DEF OpenHandle, Raise, After, Live, Matches, walk
    <3>3. /\ cur = IF format = "MSC1" THEN Root ELSE Entries[ix]
          /\ format # "MSC1" => ix <= Len(Entries)
          /\ captured[cur].kind = "file" /\ taken = <<>>
      BY <2>1, <3>2 DEF Reading
    <3>4. cur \in Path BY <1>0, <2>1, <3>3, RootIsPath, EntryListed DEF Manifested
    <3>5. handle' \in Ino
      BY <3>2, <3>3, <3>4 DEF SessionInv, FileSystemOK, Stat, Absent
    <3>6. inode'[handle'].data \in Seq(Chunk)
      BY <3>1, <3>5 DEF SessionInv, FileSystemOK, Node, fileSystem
    <3>7. taken' = <<>> /\ Len(taken') = 0 /\ Len(inode'[handle'].data) \in Nat BY <2>1, <3>3, <3>6
    <3> QED BY <1>0, <2>1, <3>1, <3>2, <3>3, <3>5, <3>7 DEF Reading, Stream
  <2>3. CASE Mutation BY <1>1, <2>1, <2>3 DEF Mutation, Mutate
  <2>4. CASE UNCHANGED vars BY <1>1, <2>1, <2>4 DEF vars
  <2> QED BY <1>3, <2>2, <2>3, <2>4 DEF Next, Stopped, Fault, Kill, PowerLoss, FailWith, Cleanup,
         After, Live, Working, Running
<1> QED BY <1>2, <1>3

(* Every step keeps Built.                                                   *)
LEMMA BuiltStep ==
    Staged /\ SessionInv /\ Snapped /\ Manifested /\ Reading /\ Built /\ [Next]_vars => Built'
<1> SUFFICES ASSUME Staged, SessionInv, Snapped, Manifested, Reading, Built, [Next]_vars,
                    After', pc' = "built"
             PROVE  Built'
  BY DEF Built
<1>0. UNCHANGED <<captured, format, coarse>> /\ UNCHANGED RootIsFile
  BY SnapshotKinds, CallKept, EntriesKept
<1>1. \A d : Steady /\ Recorded(Root, d) => Recorded(Root, d)'
  BY RootIsPath DEF Steady, Recorded
<1>2. After /\ RootIsFile /\ Recorded(Root, taken) /\ UNCHANGED taken
  <2>1. CASE ~EncoderStep BY <2>1, OthersKeepWork DEF work, Built
  <2>2. CASE EncoderStep
    <3>1. WorkKind BY <2>2, WorkSteps DEF After
    <3>2. EndsReading
      BY <3>1 DEF WorkKind, Begins, Captures, Spools, Plans, Lists, Opens, Reads, Closes, ReadWhole,
         Builds, Completes, Creates, Writes, Verifies, Writing
    <3>3. After BY <3>2, SnapshotKinds DEF EndsReading, ReadWhole
    <3>4. cur = Root /\ RootIsFile
      BY <3>2, <3>3 DEF EndsReading, ReadWhole, Reading, Manifested
    <3>5. Recorded(cur, taken) BY <3>2, <3>3, <3>4, RootIsPath, WholeRead DEF EndsReading
    <3> QED BY <3>2, <3>3, <3>4, <3>5 DEF EndsReading, Recorded, Bound, Seen, StatInode
  <2> QED BY <2>1, <2>2
<1>3. Steady BY <1>2, SteadyStep
<1>4. PICK d : d = taken OBVIOUS
<1>5. Recorded(Root, d)' /\ d = taken' BY <1>1, <1>2, <1>3, <1>4
<1> QED BY <1>0, <1>2, <1>5 DEF Built, Recorded, Bound, Seen, StatInode

-----------------------------------------------------------------------------
(* The compact metadata of MSR2.                                             *)

(* What a reader expands from the compact metadata of MSR2 has the kind and  *)
(* the tree of the manifest it was made from.                                *)
LEMMA ExpandedKeepsTree ==
    ASSUME NEW m, NEW n \in Nat, IsRun(m.entries, n), NEW lanes, NEW counts, NEW codecs,
           \A i \in 1 .. n : m.entries[i].kind \in {"file", "dir"},
           NEW md, md = CompactMetadata(m, lanes, counts, codecs)
    PROVE  Expanded(md).kind = m.kind /\ ArchiveTree(Expanded(md)) = ArchiveTree(m)
<1> DEFINE s == [i \in 1 .. n |-> EntryAt(md, i)]
<1>1. DOMAIN m.entries = 1 .. n BY DEF IsRun
<1>2. md.kind = m.kind /\ md.entries = [i \in 1 .. n |-> CompactEntry(m.entries[i])]
  BY <1>1 DEF CompactMetadata
<1>3. DOMAIN md.entries = 1 .. n BY <1>2
<1>4. Expanded(md).kind = m.kind
      /\ Expanded(md).entries = Concat([i \in DOMAIN md.entries |-> <<EntryAt(md, i)>>])
  BY <1>2 DEF Expanded
<1>5. Expanded(md).entries = s
  <2>1. IsRun(s, n) BY DEF IsRun
  <2>2. [i \in DOMAIN md.entries |-> <<EntryAt(md, i)>>] = [i \in 1 .. n |-> <<s[i]>>] BY <1>3
  <2> HIDE DEF s
  <2> QED BY <1>4, <2>1, <2>2, ConcatOfSingles
<1>6. ASSUME NEW i \in 1 .. n
      PROVE  /\ EntryAt(md, i).path = m.entries[i].path
             /\ EntryAt(md, i).kind = m.entries[i].kind
             /\ m.entries[i].kind = "file" => EntryAt(md, i).digest = m.entries[i].digest
  <2>1. /\ md.entries[i].kind = m.entries[i].kind /\ md.entries[i].path = m.entries[i].path
        /\ md.entries[i].digest = m.entries[i].digest
    BY <1>2 DEF CompactEntry
  <2> QED BY <2>1 DEF EntryAt, DirEntry, FileEntry
<1> DEFINE row(e) == <<e.path, e.kind, IF e.kind = "file" THEN e.digest ELSE <<>> >>
<1>7. \A i \in 1 .. n : row(s[i]) = row(m.entries[i]) BY <1>6
<1>8. /\ ArchiveTree(Expanded(md)) = {row(e) : e \in {s[i] : i \in 1 .. n}}
      /\ ArchiveTree(m) = {row(e) : e \in {m.entries[i] : i \in 1 .. n}}
  BY <1>1, <1>5 DEF ArchiveTree
<1>9. {row(e) : e \in {s[i] : i \in 1 .. n}} = {row(e) : e \in {m.entries[i] : i \in 1 .. n}}
  <2> HIDE DEF row, s
  <2> QED BY <1>7
<1> QED BY <1>4, <1>8, <1>9

(* Where the archive keeps its manifest.                                     *)
HeldIn == IF format = "MSR2" THEN "metadata" ELSE "manifest"

(* The file holds the manifest, in whatever form.                            *)
Carries(file) ==
    /\ DOMAIN file = {"state", "archive"} /\ HeldIn \in DOMAIN file.archive
    /\ ManifestOf(file.archive).kind = manifest.kind
    /\ ArchiveTree(ManifestOf(file.archive)) = ArchiveTree(manifest)

(* The temporary does, from its creation to its publication.                 *)
Carried == After /\ pc \in Writing \cup {"verify"} => Carries(temp)

(* Every entry is a file or a directory that was recorded.                   *)
LEMMA EntryKinds ==
    ASSUME SessionInv, Snapped, After, EntriesMade(Len(Entries))
    PROVE  \A i \in 1 .. Len(Entries) :
              manifest.entries[i].kind \in {"file", "dir"} /\ Entries[i] \in Discovered
<1> SUFFICES ASSUME NEW i \in 1 .. Len(Entries)
             PROVE  manifest.entries[i].kind \in {"file", "dir"} /\ Entries[i] \in Discovered
  OBVIOUS
<1>1. Entries[i] \in Path /\ i \in DOMAIN Entries /\ Len(Entries) \in Nat BY EntriesFacts
<1>2. Entries[i] \in Discovered
  <2>1. CASE RootIsFile
    <3>1. Entries = <<Root>> BY <2>1, EntriesFacts
    <3>2. i = 1 BY <3>1
    <3> QED BY <2>1, <3>1, <3>2, RootIsPath DEF RootIsFile, Discovered
  <2>2. CASE ~RootIsFile BY <1>1, <2>2, EntriesFacts
  <2> QED BY <2>1, <2>2
<1>3. manifest.entries[i].kind = captured[Entries[i]].kind BY DEF EntriesMade, EntryGood
<1> QED BY <1>1, <1>2, <1>3 DEF SessionInv, CapturedOK, Discovered

(* Every step keeps Carried.                                                 *)
LEMMA CarriedStep ==
    Staged /\ SessionInv /\ Snapped /\ Manifested /\ Carried /\ [Next]_vars => Carried'
<1> SUFFICES ASSUME Staged, SessionInv, Snapped, Manifested, Carried, [Next]_vars,
                    After', pc' \in Writing \cup {"verify"}
             PROVE  Carries(temp)'
  BY DEF Carried
<1>0. format' = format BY CallKept
<1>1. ASSUME After, pc \in Writing \cup {"verify"}, UNCHANGED <<manifest, temp>>
      PROVE  Carries(temp)'
  <2>1. Carries(temp) BY <1>1 DEF Carried
  <2>2. HeldIn' = HeldIn BY <1>0 DEF HeldIn
  <2>3. ManifestOf(temp.archive)' = ManifestOf(temp.archive)
    BY <1>0, <1>1 DEF ManifestOf
  <2> QED BY <1>1, <2>1, <2>2, <2>3 DEF Carries, ArchiveTree
<1>2. CASE ~EncoderStep BY <1>1, <1>2, OthersKeepWork DEF work
<1>3. CASE EncoderStep
  <2>1. WorkKind BY <1>3, WorkSteps DEF After
  <2>2. CASE Creates
    <3>1. After BY <2>2, SnapshotKinds DEF Creates
    <3>2. EntriesMade(Len(Entries)) /\ manifest' = manifest
      BY <2>2, <3>1 DEF Creates, Manifested, Scanned
    <3>3. CASE format # "MSR2"
      BY <1>0, <2>2, <3>3 DEF Creates, Carries, HeldIn, ManifestOf, ArchiveTree
    <3>4. CASE format = "MSR2"
      <4>1. PICK lanes, counts, codecs :
               temp'.archive.metadata = CompactMetadata(manifest, lanes, counts, codecs)
        BY <2>2, <3>4 DEF Creates
      <4>2. PICK md, m : md = temp'.archive.metadata /\ m = manifest OBVIOUS
      <4>3. md = CompactMetadata(m, lanes, counts, codecs) BY <4>1, <4>2
      <4>4. PICK n \in Nat : n = Len(Entries) BY EntriesFacts
      <4>5. IsRun(m.entries, n) /\ \A i \in 1 .. n : m.entries[i].kind \in {"file", "dir"}
        BY <3>1, <3>2, <4>2, <4>4, EntryKinds DEF EntriesMade
      <4>6. Expanded(md).kind = m.kind /\ ArchiveTree(Expanded(md)) = ArchiveTree(m)
        BY <4>3, <4>5, ExpandedKeepsTree
      <4> QED
        BY <1>0, <2>2, <3>2, <3>4, <4>2, <4>6 DEF Creates, Carries, HeldIn, ManifestOf, ArchiveTree
    <3> QED BY <3>3, <3>4
  <2>3. CASE Writes
    <3>1. After BY <2>3, SnapshotKinds DEF Writes, Writing
    <3>2. Carries(temp) /\ manifest' = manifest BY <2>3, <3>1 DEF Writes, Carried
    <3>3. /\ DOMAIN temp' = DOMAIN temp /\ HeldIn \in DOMAIN temp'.archive
          /\ temp'.archive.manifest = temp.archive.manifest \/ format = "MSR2"
          /\ temp'.archive.metadata = temp.archive.metadata \/ format # "MSR2"
      BY <2>3, <3>2 DEF Writes, Carries, HeldIn
    <3> QED BY <1>0, <3>2, <3>3 DEF Carries, HeldIn, ManifestOf, ArchiveTree
  <2>4. CASE Verifies
    <3>1. After BY <2>4, SnapshotKinds DEF Verifies
    <3> QED BY <1>1, <2>4, <3>1 DEF Verifies, Writing
  <2> QED
    BY <2>1, <2>2, <2>3, <2>4 DEF WorkKind, Begins, Captures, Spools, Plans, Lists, Opens, Reads,
         Closes, ReadWhole, EndsReading, Builds, Completes, Writing
<1> QED BY <1>2, <1>3

-----------------------------------------------------------------------------
(* The final verification.                                                   *)

(* What is recorded of the path is what it was when the capture ended.       *)
Settled(p) ==
    /\ snapshot[p].kind = captured[p].kind
    /\ captured[p].kind = "dir" => ChildrenKept(p)
    /\ \A i \in 1 .. Len(Entries) :
          Entries[i] = p /\ captured[p].kind = "file" => snapshot[p].data = manifest.entries[i].digest

(* What verify_final has visited is settled; it ends when it has visited     *)
(* everything recorded.                                                      *)
Verifying ==
    After /\ pc = "verify" =>
        /\ Root \in seen /\ seen \subseteq Discovered
        /\ ~coarse => \A p \in seen : Settled(p)
        /\ spc = "verified" => seen = Discovered

(* A path found bound by the final verification is settled.                  *)
LEMMA BoundIsSettled ==
    ASSUME Snapped, Manifested, After, Scanned, ~coarse, NEW p \in Path, Bound(p)
    PROVE  Settled(p)
<1>1. \A i \in 1 .. Len(Entries) : EntryGood(manifest.entries[i], Entries[i])
  BY DEF Manifested, EntriesMade
<1>2. ASSUME NEW i \in 1 .. Len(Entries), Entries[i] = p, captured[p].kind = "file"
      PROVE  snapshot[p].data = manifest.entries[i].digest
  <2>1. Recorded(Entries[i], manifest.entries[i].digest) BY <1>1, <1>2 DEF EntryGood
  <2> QED BY <1>2, <2>1 DEF Recorded
<1> QED BY <1>2 DEF Settled, Snapped, BoundKept

(* And stays so, whatever becomes of it afterwards.                          *)
LEMMA SettledStays ==
    ASSUME UNCHANGED <<captured, snapshot, manifest>>, NEW p, Settled(p)
    PROVE  Settled(p)'
  BY EntriesKept DEF Settled, ChildrenKept, Here, Seen, Children

(* Every step keeps Verifying.                                               *)
LEMMA VerifyingStep ==
    Staged /\ SessionInv /\ Snapped /\ Manifested /\ Verifying /\ [Next]_vars => Verifying'
<1> SUFFICES ASSUME Staged, SessionInv, Snapped, Manifested, Verifying, [Next]_vars,
                    After', pc' = "verify"
             PROVE  Verifying'
  BY DEF Verifying
<1>0. UNCHANGED <<captured, coarse, Discovered, RootIsFile>> BY SnapshotKinds, EntriesKept
<1>1. ASSUME After, UNCHANGED <<snapshot, manifest>>, pc = "verify", UNCHANGED <<pc, seen>>,
             spc' = "verified" => seen = Discovered
      PROVE  Verifying'
  BY <1>0, <1>1, SettledStays DEF Verifying
<1>2. CASE EncoderStep
  <2>1. WorkKind BY <1>2, WorkSteps DEF After
  <2>2. Verifies
    BY <2>1 DEF WorkKind, Begins, Captures, Spools, Plans, Lists, Opens, Reads, Closes, ReadWhole,
       EndsReading, Builds, Completes, Creates, Writes, Writing
  <2>3. After /\ Scanned BY <2>2, SnapshotKinds DEF Verifies, Scanned
  <2>4. UNCHANGED <<snapshot, manifest>>
    BY <2>1, <2>2 DEF WorkKind, Verifies, Begins, Captures
  <2>5. Bound(Root)
    <3>1. captured[Root].kind \in {"file", "dir"} BY <2>3 DEF Snapped, SnapshotTyped
    <3> QED BY <2>2, <3>1 DEF Verifies, Bound, Seen, Stat, Absent
  <2>6. ~coarse => Settled(Root)'
    BY <2>3, <2>4, <2>5, <1>0, BoundIsSettled, SettledStays, RootIsPath
  <2>7. Root \in Discovered BY <2>5, RootIsPath DEF Bound, Seen, Discovered
  <2>8. RootIsFile => Discovered = {Root} BY DEF SessionInv, CapturedTree, RootIsFile
  <2> QED BY <1>0, <2>2, <2>6, <2>7, <2>8 DEF Verifies, Verifying
<1>3. CASE ~EncoderStep
  <2>1. UNCHANGED <<pc, manifest>> /\ After BY <1>3, OthersKeepWork DEF work
  <2>2. UNCHANGED snapshot BY <2>1, SnapshotKinds
  <2>3. CASE SessionProgress
    <3>1. UNCHANGED fileSystem /\ (OpenHandle \/ VerifyDirectory \/ VerifyChild \/ VerifyBinding)
      BY <2>1, <2>3, SessionKinds DEF After
    <3>2. CASE OpenHandle BY <2>1, <3>2 DEF OpenHandle, Staged, Stage, After, Live
    <3>3. CASE VerifyDirectory
      BY <1>1, <2>1, <2>2, <3>3 DEF VerifyDirectory, ScanDirectory, Raise, After, Live
    <3>4. CASE VerifyChild
      <4>1. PICK p : /\ p \in Discovered \ seen /\ captured[p] = Stat(p) /\ seen' = seen \cup {p}
                     /\ UNCHANGED spc /\ spc = "rechildren"
        BY <3>4 DEF VerifyChild, Matches, Raise, After, Live
      <4>2. Bound(p) /\ p \in Path BY <4>1 DEF Bound, Seen, Stat, Absent, Discovered
      <4>3. ~coarse => Settled(p)'
        BY <1>0, <2>1, <2>2, <4>2, BoundIsSettled, SettledStays DEF Scanned
      <4>4. ~coarse => \A q \in seen : Settled(q)'
        BY <1>0, <2>1, <2>2, SettledStays DEF Verifying
      <4>5. Root \in seen /\ seen \subseteq Discovered BY <2>1 DEF Verifying
      <4> QED BY <1>0, <2>1, <4>1, <4>3, <4>4, <4>5 DEF Verifying
    <3>5. CASE VerifyBinding
      <4>1. UNCHANGED seen /\ (spc' = "verified" => seen = Discovered)
        BY <3>5 DEF VerifyBinding, BindDirectory, AllSeen, Raise, After, Live
      <4> QED BY <1>1, <2>1, <2>2, <4>1
    <3> QED BY <3>1, <3>2, <3>3, <3>4, <3>5
  <2>4. CASE Mutation \/ UNCHANGED vars
    <3>1. UNCHANGED <<seen, spc>> BY <2>4 DEF Mutation, Mutate, session, vars, walk
    <3>2. spc' = "verified" => seen = Discovered BY <2>1, <3>1 DEF Verifying
    <3> QED BY <1>1, <2>1, <2>2, <3>1, <3>2
  <2> QED BY <1>3, <2>3, <2>4 DEF Next, Stopped, Fault, Kill, PowerLoss, FailWith, Cleanup,
         After, Live, Working, Running
<1> QED BY <1>2, <1>3

(* Once verify_final has passed, the snapshot held exactly the paths         *)
(* recorded: the first path, in sort order, on which they differ would have  *)
(* a directory on which they agree, and that directory was found bound.      *)
LEMMA VerifiedTree ==
    ASSUME SessionInv, Snapped, Manifested, Verifying, After, pc = "verify", spc = "verified",
    ~coarse
    PROVE  \A p \in Path : (Here(p) <=> Seen(p)) /\ (Seen(p) => Settled(p))
<1>1. \A p \in Path : Seen(p) => Settled(p)
  BY DEF Verifying, Seen, Discovered
<1>2. /\ SnapshotTyped /\ Seen(Root)
      /\ \A p \in Path \ {Root} : Seen(p) => captured[Parent[p]].kind = "dir"
  BY DEF Snapped, SessionInv, CapturedTree, SnapshotTyped, Seen
<1> DEFINE Same(p) == Here(p) <=> Seen(p)
           Bad == {i \in DOMAIN PathOrder : ~Same(PathOrder[i])}
<1>3. \A p \in Path : Same(p)
  <2> SUFFICES ASSUME NEW p0 \in Path, ~Same(p0) PROVE FALSE BY Zenon
  <2>1. PICK i \in Bad : \A j \in Bad : i <= j
    <3>1. Bad # {} BY DEF Path
    <3>2. Bad \subseteq Nat BY SourceAssumption
    <3> HIDE DEF Bad
    <3> QED BY <3>1, <3>2, SmallestNat
  <2> DEFINE p == PathOrder[i]
  <2>2. p \in Path /\ ~Same(p) BY DEF Path
  <2> HIDE DEF Same
  <2>3. CASE p = Root
    <3>1. Same(Root) BY <1>1, <1>2, RootIsPath DEF Same, Here, Seen, Settled
    <3> QED BY <2>2, <2>3, <3>1
  <2>4. CASE p # Root
    <3>1. PICK k, j \in DOMAIN PathOrder : j < k /\ PathOrder[k] = p /\ PathOrder[j] = Parent[p]
      BY <2>2, <2>4, ParentIsEarlier
    <3>2. k = i BY <3>1, SourceAssumption
    <3>3. j \notin Bad
      <4>1. i \in Nat /\ j \in Nat /\ ~(i <= j) BY <3>1, <3>2, SourceAssumption
      <4> QED BY <2>1, <4>1
    <3>4. Same(Parent[p]) BY <3>1, <3>3 DEF Bad
    <3>5. Parent[p] \in Path /\ p \in Children(Parent[p])
      BY <2>2, <2>4, RootIsPath DEF Children
    <3>6. Seen(p) => Here(p)
      <4> SUFFICES ASSUME Seen(p) PROVE Here(p) OBVIOUS
      <4>1. captured[Parent[p]].kind = "dir" BY <1>2, <2>2, <2>4
      <4>2. Settled(Parent[p]) BY <1>1, <3>5, <4>1 DEF Seen
      <4> QED BY <3>5, <4>1, <4>2 DEF Settled, ChildrenKept
    <3>7. Here(p) => Seen(p)
      <4> SUFFICES ASSUME Here(p) PROVE Seen(p) OBVIOUS
      <4>1. snapshot[Parent[p]].kind = "dir" BY <1>2, <2>2, <2>4 DEF SnapshotTyped
      <4>2. Seen(Parent[p]) BY <3>4, <4>1 DEF Same, Here
      <4>3. Settled(Parent[p]) BY <1>1, <3>5, <4>2
      <4> QED BY <3>5, <4>1, <4>3 DEF Settled, ChildrenKept
    <3> QED BY <2>2, <3>6, <3>7 DEF Same
  <2> QED BY <2>3, <2>4
<1> QED BY <1>1, <1>3

(* So the manifest is the tree of the moment the capture ended.              *)
LEMMA ManifestIsSnapshot ==
    ASSUME SessionInv, Snapped, Manifested, Verifying, After, pc = "verify", spc = "verified",
    ~coarse
    PROVE  ArchiveTree(manifest) = SnapshotTree
<1> DEFINE n == Len(Entries)
           held == {q \in Path : snapshot[q].kind # "absent" /\ (q # Root \/ snapshot[q].kind = "file")}
           of(e) == <<e.path, e.kind, IF e.kind = "file" THEN e.digest ELSE <<>> >>
           at(p) == <<IF format = "MSC1" THEN p ELSE Normal[p], snapshot[p].kind, snapshot[p].data>>
<1>1. \A p \in Path : (Here(p) <=> Seen(p)) /\ (Seen(p) => Settled(p)) BY VerifiedTree
<1>2. EntriesMade(n) /\ SnapshotTyped BY DEF Manifested, Scanned, Snapped
<1>3. \A i \in 1 .. n : manifest.entries[i].kind \in {"file", "dir"} /\ Entries[i] \in Discovered
  BY <1>2, EntryKinds
<1>4. DOMAIN Entries = 1 .. n /\ DOMAIN manifest.entries = 1 .. n
  BY <1>2, EntriesFacts DEF EntriesMade, IsRun
<1>5. ASSUME NEW i \in 1 .. n PROVE of(manifest.entries[i]) = at(Entries[i])
  <2> DEFINE e == manifest.entries[i] p == Entries[i]
  <2>1. e.kind = captured[p].kind /\ e.path = EntryName(p) BY <1>2 DEF EntriesMade, EntryGood
  <2>2. p \in Path /\ Settled(p) BY <1>1, <1>3 DEF Discovered, Seen
  <2>3. snapshot[p].kind = e.kind /\ e.kind \in {"file", "dir"} BY <1>3, <2>1, <2>2 DEF Settled
  <2>4. e.kind = "file" => snapshot[p].data = e.digest BY <2>1, <2>2 DEF Settled
  <2>5. e.kind # "file" => snapshot[p].data = <<>> BY <1>2, <2>2, <2>3 DEF SnapshotTyped
  <2> QED BY <2>1, <2>3, <2>4, <2>5 DEF EntryName
<1>6. {Entries[i] : i \in 1 .. n} = held
  <2>1. CASE RootIsFile
    <3>1. Discovered = {Root} BY <2>1 DEF SessionInv, CapturedTree, RootIsFile
    <3>2. \A q \in Path : snapshot[q].kind # "absent" <=> q = Root
      BY <1>1, <3>1 DEF Discovered, Here, Seen
    <3>3. snapshot[Root].kind = "file"
      <4>1. Root \in Path /\ Settled(Root) BY <1>1, <2>1, RootIsPath DEF Seen, RootIsFile
      <4> QED BY <2>1, <4>1 DEF Settled, RootIsFile
    <3>4. held = {Root} BY <3>2, <3>3, RootIsPath
    <3>5. Entries = <<Root>> BY <2>1, EntriesFacts
    <3>6. {Entries[i] : i \in 1 .. n} = {Root} BY <3>5
    <3> QED BY <3>4, <3>6
  <2>2. CASE ~RootIsFile
    <3>1. {Entries[i] : i \in 1 .. n} = Discovered \ {Root} BY <1>4, <2>2, EntriesFacts
    <3>2. snapshot[Root].kind # "file"
      <4>1. captured[Root].kind = "dir" BY <1>2, <2>2 DEF SnapshotTyped, RootIsFile
      <4>2. Settled(Root) BY <1>1, <4>1, RootIsPath DEF Seen
      <4> QED BY <4>1, <4>2 DEF Settled
    <3>3. held = Discovered \ {Root} BY <1>1, <3>2 DEF Discovered, Here, Seen
    <3> QED BY <3>1, <3>3
  <2> QED BY <2>1, <2>2
<1>7. ArchiveTree(manifest) = {of(manifest.entries[i]) : i \in 1 .. n}
  BY <1>4 DEF ArchiveTree
<1>8. SnapshotTree = {at(p) : p \in held} BY DEF SnapshotTree
<1>9. {at(p) : p \in held} = {at(Entries[i]) : i \in 1 .. n}
  <2> HIDE DEF at, held
  <2> QED BY <1>6
<1>10. {of(manifest.entries[i]) : i \in 1 .. n} = {at(Entries[i]) : i \in 1 .. n}
  <2> HIDE DEF at, of, n
  <2> QED BY <1>5
<1> QED BY <1>7, <1>8, <1>9, <1>10

-----------------------------------------------------------------------------
(* The destination.                                                          *)

(* A call whose destination is below its source goes on only for a source    *)
(* that is a file.                                                           *)
NotInside ==
    /\ Live /\ pc = "session" /\ format # "MSC1" /\ request = "inside" => ~wasDir
    /\ After /\ request = "inside" => RootIsFile

(* Every step keeps NotInside.                                               *)
LEMMA NotInsideStep ==
    Staged /\ SessionInv /\ Snapped /\ NotInside /\ [Next]_vars => NotInside'
<1> SUFFICES ASSUME Staged, SessionInv, Snapped, NotInside, [Next]_vars, request = "inside", Live'
             PROVE  /\ pc' = "session" /\ format # "MSC1" => ~wasDir'
                    /\ After' => RootIsFile'
  BY CallKept DEF NotInside, After
<1>1. CASE EncoderStep
  <2>1. WorkKind BY <1>1, WorkSteps
  <2>2. UNCHANGED captured /\ UNCHANGED RootIsFile BY <2>1 DEF WorkKind, RootIsFile
  <2>3. CASE Begins BY <2>3 DEF Begins, After
  <2>4. CASE Captures
    <3>1. Live BY <2>4 DEF Captures, Live, Working, Running
    <3>2. captured[Root].kind # "dir"
      BY <2>4, <3>1 DEF Captures, NotInside, BecameDirectory, RootIsFile
    <3>3. captured[Root].kind \in {"file", "dir"}
      BY <2>4, RootIsPath DEF Captures, SessionInv, CapturedTree, CapturedOK, Seen
    <3> QED BY <2>2, <2>4, <3>2, <3>3 DEF Captures, RootIsFile
  <2>5. CASE ~Begins /\ ~Captures
    <3>1. pc' # "session" /\ pc \notin {"start", "session"}
      BY <2>1, <2>5 DEF WorkKind, Spools, Plans, Lists, Opens, Reads, Closes, ReadWhole,
         EndsReading,
         Builds, Completes, Creates, Writes, Verifies, Writing
    <3> QED BY <2>2, <3>1, SnapshotKinds DEF NotInside
  <2> QED BY <2>3, <2>4, <2>5
<1>2. CASE ~EncoderStep
  <2>1. UNCHANGED <<pc, wasDir>>
    BY <1>2 DEF Next, SessionProgress, Mutation, Stopped, vars, encoder, call, Fault, Kill,
       PowerLoss,
       FailWith, Cleanup, Live, Working, Running
  <2>2. CASE pc = "session"
    <3>1. Live
      <4>1. CASE SessionProgress BY <4>1, SessionKinds
      <4>2. CASE Mutation \/ UNCHANGED vars
        BY <4>2, <2>1 DEF Mutation, Mutate, session, vars, Live, Working, Running
      <4> QED BY <1>2, <4>1, <4>2 DEF Next, Stopped, Fault, Kill, PowerLoss, FailWith, Cleanup,
             Live, Working, Running
    <3> QED BY <2>1, <2>2, <3>1 DEF NotInside, After
  <2>3. CASE pc # "session"
    <3> SUFFICES ASSUME After' PROVE RootIsFile' BY <2>1, <2>3
    <3>1. After /\ UNCHANGED captured BY <2>3, SnapshotKinds
    <3> QED BY <3>1 DEF NotInside, RootIsFile
  <2> QED BY <2>2, <2>3
<1> QED BY <1>1, <1>2

(* What is published is what was published before, or the temporary once     *)
(* the verification has passed.                                              *)
LEMMA DestinationKinds ==
    Staged /\ [Next]_vars /\ Published' =>
        /\ UNCHANGED <<format, request, coarse, snapshot>>
        /\ \/ Published /\ UNCHANGED dest
           \/ pc = "verify" /\ spc = "verified" /\ dest' = temp
<1> SUFFICES ASSUME Staged, [Next]_vars, Published'
             PROVE  /\ UNCHANGED <<format, request, coarse, snapshot>>
                    /\ \/ Published /\ UNCHANGED dest
                       \/ pc = "verify" /\ spc = "verified" /\ dest' = temp
  OBVIOUS
<1> USE DEF Published
<1>1. CASE EncoderStep \/ Fault \/ Kill \/ PowerLoss
  <2>1. Kinds /\ UNCHANGED coarse BY <1>1, StepKinds DEF SessionEffect, fileSystem
  <2>2. CASE Works BY <2>2 DEF Works, Staged
  <2>3. CASE FailsClean BY <2>3 DEF FailsClean, Staged
  <2>4. CASE Publishes BY <2>1, <2>4 DEF Publishes
  <2>5. CASE Unspools BY <2>1, <2>5 DEF Unspools
  <2>6. CASE Stops BY <2>1, <2>6 DEF Stops, Staged, Prefixes, NoFile
  <2> QED BY <2>1, <2>2, <2>3, <2>4, <2>5, <2>6 DEF Kinds
<1>2. CASE UNCHANGED <<encoder, coarse>> BY <1>2 DEF encoder, call, output
<1>3. CASE SessionProgress
  BY <1>2, <1>3 DEF SessionProgress, SessionStep, InitialMetadata, DiscoverDirectory, DiscoverChild,
     DiscoverBinding, OpenHandle, VerifyDirectory, VerifyChild, VerifyBinding, ScanDirectory,
     BindDirectory, fileSystem
<1>4. CASE Mutation \/ UNCHANGED vars BY <1>2, <1>4 DEF Mutation, Mutate, vars, fileSystem
<1> QED BY <1>1, <1>3, <1>4 DEF Next, Stopped

(* Every step keeps NeverInsideSource.                                       *)
LEMMA NeverInsideStep ==
    Staged /\ SessionInv /\ Snapped /\ Manifested /\ Carried /\ NotInside /\ NeverInsideSource
        /\ [Next]_vars => NeverInsideSource'
<1> SUFFICES ASSUME Staged, SessionInv, Snapped, Manifested, Carried, NotInside, NeverInsideSource,
                    [Next]_vars, Published', request' = "inside"
             PROVE  ManifestOf(dest.archive)'.kind = "file"
  BY DEF NeverInsideSource
<1>0. UNCHANGED <<format, request>> BY DestinationKinds
<1>1. CASE Published /\ UNCHANGED dest BY <1>0, <1>1 DEF NeverInsideSource, ManifestOf
<1>2. CASE pc = "verify" /\ spc = "verified" /\ dest' = temp
  <2>1. After BY <1>2 DEF After, Live, Working, Running
  <2>2. RootIsFile BY <1>0, <2>1 DEF NotInside
  <2>3. manifest.kind = "file" /\ Carries(temp)
    BY <1>2, <2>1, <2>2 DEF Manifested, Scanned, EntriesMade, Carried
  <2> QED BY <1>0, <1>2, <2>3 DEF Carries, ManifestOf
<1> QED BY <1>1, <1>2, DestinationKinds

(* Every step keeps PublishedIsSnapshot.                                     *)
LEMMA PublishedStep ==
    Staged /\ SessionInv /\ Snapped /\ Manifested /\ Carried /\ Verifying /\ PublishedIsSnapshot
        /\ [Next]_vars => PublishedIsSnapshot'
<1> SUFFICES ASSUME Staged, SessionInv, Snapped, Manifested, Carried, Verifying,
PublishedIsSnapshot,
                    [Next]_vars, Published', ~coarse'
             PROVE  ArchiveTree(ManifestOf(dest.archive))' = SnapshotTree'
  BY DEF PublishedIsSnapshot
<1>0. UNCHANGED <<format, coarse, snapshot>> BY DestinationKinds
<1>1. SnapshotTree' = SnapshotTree BY <1>0 DEF SnapshotTree
<1>2. CASE Published /\ UNCHANGED dest
  <2>1. ManifestOf(dest.archive)' = ManifestOf(dest.archive) BY <1>0, <1>2 DEF ManifestOf
  <2> QED BY <1>0, <1>1, <1>2, <2>1 DEF PublishedIsSnapshot, ArchiveTree
<1>3. CASE pc = "verify" /\ spc = "verified" /\ dest' = temp
  <2>1. After BY <1>3 DEF After, Live, Working, Running
  <2>2. ArchiveTree(manifest) = SnapshotTree BY <1>0, <1>3, <2>1, ManifestIsSnapshot
  <2>3. ArchiveTree(ManifestOf(temp.archive)) = ArchiveTree(manifest)
    BY <1>3, <2>1 DEF Carried, Carries
  <2>4. ManifestOf(dest.archive)' = ManifestOf(temp.archive) BY <1>0, <1>3 DEF ManifestOf
  <2> QED BY <1>1, <2>2, <2>3, <2>4 DEF ArchiveTree
<1> QED BY <1>2, <1>3, DestinationKinds

-----------------------------------------------------------------------------
(* The theorems.                                                             *)

(* The inductive invariant of the encoders.                                  *)
EncodersInv ==
    /\ Staged /\ SessionInv /\ Snapped /\ Named /\ Reading /\ Built /\ Manifested
    /\ Carried /\ Verifying /\ NotInside

(* It holds in every reachable state of the five encoders, for any tree,     *)
(* any changes by other processes (coarse or not) and any faults.            *)
THEOREM EncodersInvariant == Spec => []EncodersInv
<1>1. Init => EncodersInv
  BY StagedInit, SessionInvInit, SnappedInit
     DEF Init, EncodersInv, Named, Reading, Built, Manifested, Carried, Verifying, NotInside, After
<1>2. EncodersInv /\ [Next]_vars => EncodersInv'
  BY StagedStep, SessionInvStep, SnappedStep, NamedStep, ReadingStep, BuiltStep, ManifestedStep,
     CarriedStep, VerifyingStep, NotInsideStep DEF EncodersInv
<1> QED BY <1>1, <1>2, PTL DEF Spec

(* An archive published below its own source is the archive of a file,       *)
(* whatever the source became during the call.                               *)
THEOREM NeverInsideSourceHolds == Spec => []NeverInsideSource
<1>1. Init => NeverInsideSource BY DEF Init, NeverInsideSource, Published, NoFile
<1>2. EncodersInv /\ NeverInsideSource /\ [Next]_vars => NeverInsideSource'
  BY NeverInsideStep DEF EncodersInv
<1> QED BY <1>1, <1>2, EncodersInvariant, PTL DEF Spec

(* A published archive holds the tree as it was at one moment, the end of    *)
(* the capture: every path, kind and byte, and nothing else. This is what    *)
(* SourceSession promises of a source that others change while it is read;   *)
(* changes that leave no mark on the stamps (coarse) are the exception it    *)
(* documents.                                                                *)
THEOREM PublishedIsSnapshotHolds == Spec => []PublishedIsSnapshot
<1>1. Init => PublishedIsSnapshot BY DEF Init, PublishedIsSnapshot, Published, NoFile
<1>2. EncodersInv /\ PublishedIsSnapshot /\ [Next]_vars => PublishedIsSnapshot'
  BY PublishedStep DEF EncodersInv
<1> QED BY <1>1, <1>2, EncodersInvariant, PTL DEF Spec

-----------------------------------------------------------------------------
(* What the encoders hold of their manifest and of their frames.             *)

(* The formats with a table of chunks.                                       *)
Tables == {"MSC6", "MSR1", "MSR2"}

Typed == manifest \in MadeManifest /\ manifest.root = Normal[Root]

(* The root and the first n entries have portable names, and those of the    *)
(* entries do not clash.                                                     *)
NamesFit(entries, n) ==
    /\ Normal[Root] \in Portable
    /\ \A i \in 1 .. n : Normal[entries[i]] \in Portable
    /\ \A i, j \in 1 .. n : i # j => Fold[Normal[entries[i]]] # Fold[Normal[entries[j]]]
ClashFree(n) == NamesFit(Entries, n)

(* The stages from the scan to publication.                                  *)
Scanning == pc \in {"scan", "scanning"} \/ Scanned

(* MSC6 and the MSR formats: the manifest while it is made and after.        *)
TableOK ==
    format \in Tables /\ After /\ Scanning =>
        /\ Typed
        /\ ScanGood(manifest.entries, manifest.chunks, IF pc = "scanning" THEN taken ELSE <<>>)
        /\ Scanned => ClashFree(Len(Entries))

LEMMA CountOfRun == ASSUME NEW T, NEW s \in Seq(T), NEW n \in Nat, IsRun(s, n) PROVE Len(s) = n
<1>1. DOMAIN s = 1 .. n BY DEF IsRun
<1>2. DOMAIN s = 1 .. Len(s) /\ Len(s) \in Nat OBVIOUS
<1> QED BY <1>1, <1>2

(* Nothing is scanned at first.                                              *)
LEMMA NothingScanned == ScanGood(<<>>, <<>>, <<>>) /\ Rows(<<>>, 1)
<1>1. <<>> \in Seq(EntryRecord) /\ <<>> \in Seq(UnitRecord) /\ <<>> \in Seq(DOMAIN LaneOf)
      /\ Len(<<>>) = 0
  OBVIOUS
<1>2. Taken(<<>>) = 0
  <2>1. ChunksBefore(<<>>, 1) = 0 BY <1>1, BeforeNat
  <2> QED BY <1>1, <2>1 DEF Taken
<1>3. \A i \in 1 .. Len(<<>>) : FALSE BY <1>1
<1>4. Rows(<<>>, 0) /\ Rows(<<>>, 1) BY <1>1, <1>3 DEF Rows
<1>5. TableDirect(<<>>) BY <1>1, <1>3 DEF TableDirect
<1>6. TableHolds(<<>>, <<>>, <<>>) BY <1>1, <1>2, <1>3 DEF TableHolds
<1> QED BY <1>1, <1>4, <1>5, <1>6 DEF ScanGood

(* The names of the entries.                                                 *)
LEMMA NamesKnown ==
    /\ \A p \in Path : Normal[p] \in RecordPath
    /\ Root \in RecordPath /\ Chunk \subseteq DOMAIN LaneOf
  BY FormatAssumption DEF RecordPath

(* An empty manifest.                                                        *)
LEMMA EmptyTyped ==
    ASSUME manifest' = EmptyManifest
    PROVE  Typed' /\ manifest'.entries = <<>> /\ manifest'.chunks = <<>>
<1>1. Normal[Root] \in RecordPath BY NamesKnown, RootIsPath
<1>2. <<>> \in Seq(EntryRecord) /\ <<>> \in Seq(UnitRecord) OBVIOUS
<1> QED BY <1>1, <1>2 DEF Typed, MadeManifest, EmptyManifest

(* A manifest that grows by an entry, or by a chunk.                         *)
LEMMA TypedEntry ==
    ASSUME Typed, NEW e \in EntryRecord,
           manifest' = [manifest EXCEPT !.entries = Append(@, e)]
    PROVE  Typed' /\ manifest'.entries = Append(manifest.entries, e)
           /\ manifest'.chunks = manifest.chunks
<1>1. Append(manifest.entries, e) \in Seq(EntryRecord) BY DEF Typed, MadeManifest
<1> QED BY <1>1 DEF Typed, MadeManifest

LEMMA TypedChunk ==
    ASSUME Typed, NEW cs \in Seq(UnitRecord), manifest' = [manifest EXCEPT !.chunks = cs]
    PROVE  Typed' /\ manifest'.entries = manifest.entries /\ manifest'.chunks = cs
  BY DEF Typed, MadeManifest

(* A name that is not refused is portable.                                   *)
LEMMA SafeNames == ASSUME NEW p \in Path, p \notin Unsafe PROVE Normal[p] \in Portable
  BY DEF Unsafe

(* In a scan that refuses no name all of them fit.                           *)
LEMMA NoClash == ASSUME ~PathsRefused PROVE ClashFree(Len(Entries))
<1>1. \A i \in 1 .. Len(Entries) : i \in DOMAIN Entries /\ Entries[i] \in Path BY EntriesFacts
<1>2. Normal[Root] \in Portable BY RootIsPath, SafeNames DEF PathsRefused
<1>3. \A i \in 1 .. Len(Entries) : Normal[Entries[i]] \in Portable
  BY <1>1, SafeNames DEF PathsRefused
<1> QED BY <1>1, <1>2, <1>3 DEF PathsRefused, ClashFree, NamesFit

(* The table formats read and close as MSC6 does.                            *)
LEMMA TableReads ==
    ASSUME EncoderStep, Live', format \in Tables, pc = "scanning"
    PROVE  ScanChunk \/ ScanClose
<1> USE DEF Tables, Live, Working, Running
<1>1. ~SessionRaised BY DEF SessionRaised, Cleanup
<1>2. Scan => ScanChunk \/ ScanClose BY DEF Scan, ScanInput, ScanDirectoryEntry, ScanOpen
<1>3. ~Start /\ ~SessionCaptured BY DEF Start, SessionCaptured
<1>4. CASE format = "MSC6"
  <2>1. DedupStep => Scan
    BY <1>3 DEF DedupStep, ScanDone, CreateTemporary, OpenTemporary, EncodeSkipDirectory,
       EncodeOpen, EncodeChunk, EncodeClose, Flush, VerifyUnchanged, Publish, Replaced
  <2> QED BY <1>1, <1>2, <1>4, <2>1 DEF EncoderStep
<1>5. CASE format = "MSR1"
  <2>1. SolidStep => Scan
    BY <1>3 DEF SolidStep, SolidBuilt, ScanComplete, SolidWrite, OpenTemporary, SolidFlush,
       SolidVerify, SolidPublish, Replaced
  <2> QED BY <1>1, <1>2, <1>5, <2>1 DEF EncoderStep
<1>6. CASE format = "MSR2"
  <2>1. LanesStep => Scan
    BY <1>3 DEF LanesStep, CreateLanes, CompressLanes, ScanComplete, WriteMetadata, OpenTemporary,
       WriteLane, LanesFlush, LanesVerify, LanesPublish, Replaced, RemoveLanes, LanesNotRemoved
  <2> QED BY <1>1, <1>2, <1>6, <2>1 DEF EncoderStep
<1> QED BY <1>4, <1>5, <1>6

(* Every step keeps TableOK.                                                 *)
LEMMA TableOKStep ==
    Staged /\ SessionInv /\ Named /\ Manifested /\ Reading /\ TableOK /\ [Next]_vars => TableOK'
<1> SUFFICES ASSUME Staged, SessionInv, Named, Manifested, Reading, TableOK, [Next]_vars,
                    format' \in Tables, After', Scanning'
             PROVE  /\ Typed'
                    /\ ScanGood(manifest'.entries, manifest'.chunks,
                                IF pc' = "scanning" THEN taken' ELSE <<>>)
                    /\ Scanned' => ClashFree(Len(Entries))'
  BY DEF TableOK
<1>0. UNCHANGED <<captured, format>> /\ UNCHANGED <<Entries, RootIsFile>>
  BY SnapshotKinds, CallKept, EntriesKept
<1>c. ClashFree(Len(Entries)) => ClashFree(Len(Entries))' BY <1>0 DEF ClashFree
<1> DEFINE rest == IF pc = "scanning" THEN taken ELSE <<>>
<1>1. CASE ~EncoderStep
  <2>1. UNCHANGED <<pc, taken, manifest>> /\ After BY <1>1, OthersKeepWork DEF work
  <2> QED BY <1>0, <1>c, <2>1 DEF TableOK, Typed, Scanning, Scanned
<1>2. CASE EncoderStep
  <2>1. WorkKind BY <1>2, WorkSteps DEF After
  <2>2. format \in Tables /\ format \notin {"MSC1", "MSC2"} BY <1>0 DEF Tables
  <2>3. CASE Begins \/ Captures \/ Spools
    BY <2>2, <2>3 DEF Begins, Captures, Spools, Scanning, Scanned, After
  <2>4. CASE Plans
    <3>1. manifest' = EmptyManifest /\ pc' = "scan" BY <2>4 DEF Plans
    <3>2. Typed' /\ manifest'.entries = <<>> /\ manifest'.chunks = <<>> BY <3>1, EmptyTyped
    <3> QED BY <3>1, <3>2, NothingScanned DEF Scanned
  <2>5. ASSUME ~Begins, ~Captures, ~Spools, ~Plans
        PROVE  After /\ Scanning /\ Typed /\ ScanGood(manifest.entries, manifest.chunks, rest)
    <3>1. pc # "session" /\ Scanning
      BY <2>1, <2>2, <2>5 DEF WorkKind, Lists, Opens, Reads, ReadWhole, Closes,
         EndsReading, Builds, Completes, Creates, Writes, Verifies, Writing, Scanning, Scanned
    <3>2. After BY <3>1, SnapshotKinds
    <3> QED BY <2>2, <3>1, <3>2 DEF TableOK
  <2>6. CASE Lists
    <3>1. pc = "scan" /\ pc' = "scan" /\ ix <= Len(Entries)
          /\ manifest' = [manifest EXCEPT !.entries = Append(@, DirEntry(Normal[Entries[ix]]))]
      BY <2>6 DEF Lists
    <3>2. /\ After /\ Typed /\ ScanGood(manifest.entries, manifest.chunks, <<>>)
      BY <2>5, <2>6, <3>1 DEF Lists, Begins, Captures, Spools, Plans
    <3>3. ix \in 1 .. Len(Entries) BY <2>2, <3>1, <3>2, EntriesFacts DEF Manifested
    <3> DEFINE p == Normal[Entries[ix]]
               e == DirEntry(p)
    <3>4. p \in RecordPath BY <3>3, EntryListed, NamesKnown
    <3>5. Takes(e, Taken(manifest.entries), <<>>) BY <3>4, DirectoryTakes
    <3>6. e \in EntryRecord BY <3>5 DEF Takes
    <3> HIDE DEF e
    <3>7. ScanGood(Append(manifest.entries, e), manifest.chunks, <<>>)
      BY <3>2, <3>5, EntryScanned
    <3>8. Typed' /\ manifest'.entries = Append(manifest.entries, e)
          /\ manifest'.chunks = manifest.chunks
      <4>1. manifest' = [manifest EXCEPT !.entries = Append(@, e)] BY <3>1 DEF e
      <4> QED BY <3>2, <3>6, <4>1, TypedEntry
    <3> QED BY <3>1, <3>7, <3>8 DEF Scanned
  <2>7. CASE Opens
    <3>1. pc = "scan" /\ pc' = "scanning" /\ taken' = <<>> /\ UNCHANGED manifest BY <2>7 DEF Opens
    <3>2. Typed /\ ScanGood(manifest.entries, manifest.chunks, <<>>)
      BY <2>5, <2>7, <3>1 DEF Opens, Begins, Captures, Spools, Plans
    <3>3. Typed' BY <3>1, <3>2 DEF Typed
    <3> QED BY <3>1, <3>2, <3>3 DEF Scanned
  <2>8. CASE Reads \/ Closes
    <3>0. pc = "scanning" /\ pc' \in {"scan", "scanning"} BY <2>8 DEF Reads, Closes, ReadWhole
    <3>1. /\ After /\ Typed /\ ScanGood(manifest.entries, manifest.chunks, taken)
      BY <2>5, <2>8, <3>0 DEF Begins, Captures, Spools, Plans
    <3>2. cur = Entries[ix] /\ ix \in 1 .. Len(Entries) /\ taken \in Seq(Chunk)
          /\ (spc = "reading" => handle \in Ino)
      BY <2>2, <3>0, <3>1, EntriesFacts DEF Reading, Manifested
    <3>3. CASE ScanChunk
      <4> DEFINE c == Stream[Len(taken) + 1]
                 cs == Append(manifest.chunks, ChunkRecord(manifest.chunks, c, 1))
      <4>1. /\ spc = "reading" /\ Len(taken) < Len(Stream) /\ taken' = Append(taken, c)
            /\ manifest' = [manifest EXCEPT !.chunks = cs] /\ pc' = "scanning"
        BY <3>0, <3>3 DEF ScanChunk
      <4>2. Stream \in Seq(Chunk) BY <3>2, <4>1 DEF Stream, SessionInv, FileSystemOK, Node
      <4>3. c \in DOMAIN LaneOf
        <5>1. Len(taken) + 1 \in 1 .. Len(Stream) BY <3>2, <4>1, <4>2
        <5>2. c \in Chunk BY <4>2, <5>1
        <5> QED BY <5>2, NamesKnown
      <4> HIDE DEF c
      <4>4. ScanGood(manifest.entries, cs, Append(taken, c)) BY <3>1, <4>3, ChunkAdded
      <4>5. cs \in Seq(UnitRecord) BY <4>4 DEF ScanGood, TableDirect
      <4> HIDE DEF cs
      <4>6. Typed' /\ manifest'.entries = manifest.entries /\ manifest'.chunks = cs
        BY <3>1, <4>1, <4>5, TypedChunk
      <4> QED BY <4>1, <4>4, <4>6 DEF Scanned
    <3>4. CASE ScanClose
      <4> DEFINE place == Len(manifest.chunks) - Len(taken)
                 p == Normal[Entries[ix]]
                 e == FileEntry(p, Len(taken), place, Len(taken), taken)
      <4>1. /\ Len(taken) = captured[cur].size /\ pc' = "scan"
            /\ manifest' = [manifest EXCEPT !.entries =
                  Append(@, FileEntry(p, captured[Entries[ix]].size, place, Len(taken), taken))]
        BY <3>4 DEF ScanClose, CloseHandle, Raise, After, Live
      <4>2. manifest' = [manifest EXCEPT !.entries = Append(@, e)] BY <3>2, <4>1
      <4>3. p \in RecordPath BY <3>2, EntryListed, NamesKnown
      <4>4. taken \in Seq(DOMAIN LaneOf) /\ place = Taken(manifest.entries)
            /\ Taken(manifest.entries) \in Nat
        <5>1. /\ Rows(manifest.entries, 0) /\ taken \in Seq(DOMAIN LaneOf)
              /\ Len(manifest.chunks) = Taken(manifest.entries) + Len(taken)
          BY <3>1 DEF ScanGood, TableHolds
        <5>2. Taken(manifest.entries) \in Nat /\ Len(taken) \in Nat BY <5>1, BeforeNat DEF Rows
        <5> QED BY <5>1, <5>2
      <4> HIDE DEF place, p
      <4>5. Takes(e, Taken(manifest.entries), taken) BY <4>3, <4>4, FileTakes
      <4>6. e \in EntryRecord BY <4>5 DEF Takes
      <4> HIDE DEF e
      <4>7. ScanGood(Append(manifest.entries, e), manifest.chunks, <<>>)
        BY <3>1, <4>5, EntryScanned
      <4>8. Typed' /\ manifest'.entries = Append(manifest.entries, e)
            /\ manifest'.chunks = manifest.chunks
        BY <3>1, <4>2, <4>6, TypedEntry
      <4> QED BY <4>1, <4>7, <4>8 DEF Scanned
    <3>5. ScanChunk \/ ScanClose BY <1>2, <2>2, <3>0, TableReads DEF After
    <3> QED BY <3>3, <3>4, <3>5
  <2>9. CASE EndsReading \/ Builds BY <2>2, <2>9 DEF EndsReading, Builds
  <2>10. CASE Completes
    <3>1. pc = "scan" /\ pc' = "create" /\ UNCHANGED manifest BY <2>10 DEF Completes
    <3>2. After /\ Typed /\ ScanGood(manifest.entries, manifest.chunks, <<>>)
      BY <2>5, <2>10, <3>1 DEF Begins, Captures, Spools, Plans
    <3>3. ~PathsRefused BY <2>2, <3>1, <3>2 DEF Named
    <3>4. ClashFree(Len(Entries))' BY <1>c, <3>3, NoClash
    <3>5. Typed' BY <3>1, <3>2 DEF Typed
    <3> QED BY <3>1, <3>2, <3>4, <3>5
  <2>11. CASE Creates \/ Writes \/ Verifies
    <3>1. UNCHANGED manifest /\ Scanned /\ Scanned' /\ pc' # "scanning" /\ pc # "scanning"
      BY <2>11 DEF Creates, Writes, Verifies, Writing, Scanned
    <3>2. After /\ Typed /\ ScanGood(manifest.entries, manifest.chunks, <<>>)
      BY <2>5, <3>1 DEF Begins, Captures, Spools, Plans, Scanned
    <3>3. ClashFree(Len(Entries)) BY <2>2, <3>1, <3>2 DEF TableOK, Scanning
    <3>4. Typed' BY <3>1, <3>2 DEF Typed
    <3> QED BY <1>c, <3>1, <3>2, <3>3, <3>4
  <2> QED BY <2>1, <2>3, <2>4, <2>6, <2>7, <2>8, <2>9, <2>10, <2>11 DEF WorkKind
<1> QED BY <1>1, <1>2

-----------------------------------------------------------------------------
(* The temporary file of MSC6, MSC2 and MSC1.                                *)

FileOf(state, count, m, frames) ==
    [state |-> state, archive |-> [frameCount |-> count, manifest |-> m, frames |-> frames]]

(* The stages at which MSC6 and MSC2 have one.                               *)
Framing == {"encode", "encoding", "check", "verify"}

(* A frame is appended to it; it is synced.                                  *)
LEMMA FileAppends ==
    ASSUME NEW file, NEW s, NEW c, NEW m, NEW fs, file = FileOf(s, c, m, fs), NEW r
    PROVE  [file EXCEPT !.archive.frames = Append(@, r)] = FileOf(s, c, m, Append(fs, r))
<1> DEFINE a == file.archive
           more == Append(fs, r)
<1>1. /\ a = [frameCount |-> c, manifest |-> m, frames |-> fs]
      /\ file = [state |-> s, archive |-> a]
  BY DEF FileOf
<1>2. [file EXCEPT !.archive.frames = Append(@, r)]
        = [file EXCEPT !.archive = [a EXCEPT !.frames = Append(a.frames, r)]]
  OBVIOUS
<1> HIDE DEF a
<1>3. Append(a.frames, r) = more BY <1>1
<1> HIDE DEF more
<1>4. [a EXCEPT !.frames = Append(a.frames, r)] = [a EXCEPT !.frames = more] BY <1>3
<1>5. [a EXCEPT !.frames = more] = [frameCount |-> c, manifest |-> m, frames |-> more] BY <1>1
<1>6. \A b : [file EXCEPT !.archive = b] = [state |-> s, archive |-> b] BY <1>1
<1>7. [file EXCEPT !.archive = [a EXCEPT !.frames = Append(a.frames, r)]]
        = [state |-> s, archive |-> [a EXCEPT !.frames = Append(a.frames, r)]]
  BY <1>6
<1>8. [a EXCEPT !.frames = Append(a.frames, r)]
        = [frameCount |-> c, manifest |-> m, frames |-> more]
  BY <1>4, <1>5
<1> DEFINE left == [file EXCEPT !.archive.frames = Append(@, r)]
           inner == [a EXCEPT !.frames = Append(a.frames, r)]
<1>9. left = [state |-> s, archive |-> inner] BY <1>2, <1>7
<1> HIDE DEF left, inner
<1>10. inner = [frameCount |-> c, manifest |-> m, frames |-> more] BY <1>8 DEF inner
<1>11. left = [state |-> s, archive |-> [frameCount |-> c, manifest |-> m, frames |-> more]]
  BY <1>9, <1>10
<1> QED BY <1>11 DEF left, more, FileOf

LEMMA FileSyncs ==
    ASSUME NEW file, NEW s, NEW c, NEW m, NEW fs, file = FileOf(s, c, m, fs)
    PROVE  [file EXCEPT !.state = "synced"] = FileOf("synced", c, m, fs)
  BY DEF FileOf

-----------------------------------------------------------------------------
(* The second pass of MSC6.                                                  *)

(* The frames are the unique ones of the chunks read again.                  *)
DedupFile(file, n) ==
    \E s, fs : file = FileOf(s, FrameCount, manifest, fs) /\ Stores(fs, manifest.chunks, n)

DedupWritten ==
    format = "MSC6" /\ After /\ pc \in Framing =>
        /\ occurrence \in Nat /\ DedupFile(temp, occurrence)
        /\ pc = "verify" => ~CountsDiffer

(* No chunk, no frame.                                                       *)
LEMMA NothingStored == ASSUME NEW cs PROVE Stores(<<>>, cs, 0)
<1>1. <<>> \in Seq(FrameRecord) /\ Len(<<>>) = 0 OBVIOUS
<1>2. (\A k \in 1 .. Len(<<>>) : FALSE) /\ (\A i \in 1 .. 0 : FALSE) BY <1>1
<1> QED BY <1>1, <1>2 DEF Stores

(* A chunk read again is stored when the table says so.                      *)
LEMMA DedupChunk ==
    ASSUME NEW cs \in Seq(UnitRecord), NEW n \in Nat, n < Len(cs), NEW chunk,
           SameChunk(cs[n + 1], chunk), NEW fs, Stores(fs, cs, n)
    PROVE  IF cs[n + 1].source = n
           THEN Stores(Append(fs, [occurrence |-> n, chunk |-> chunk]), cs, n + 1)
           ELSE Stores(fs, cs, n + 1)
<1>1. n + 1 \in 1 .. Len(cs) OBVIOUS
<1>2. cs[n + 1] \in UnitRecord BY <1>1
<1>3. cs[n + 1].digest = chunk /\ chunk \in DOMAIN LaneOf BY <1>2 DEF SameChunk, UnitRecord
<1>4. CASE cs[n + 1].source = n BY <1>3, <1>4, ChunkStored
<1>5. CASE cs[n + 1].source # n BY <1>5, ReferenceSkipped
<1> QED BY <1>4, <1>5

(* Every step keeps DedupWritten.                                            *)
LEMMA DedupWrittenStep ==
    Staged /\ SessionInv /\ TableOK /\ DedupWritten /\ [Next]_vars => DedupWritten'
<1> SUFFICES ASSUME Staged, SessionInv, TableOK, DedupWritten, [Next]_vars,
                    format' = "MSC6", After', pc' \in Framing
             PROVE  /\ occurrence' \in Nat /\ DedupFile(temp, occurrence)'
                    /\ pc' = "verify" => ~CountsDiffer'
  BY DEF DedupWritten
<1>0. format = "MSC6" BY CallKept
<1>1. ASSUME UNCHANGED <<occurrence, manifest, temp>>, pc' = "verify" => pc = "verify",
             After, pc \in Framing
      PROVE  /\ occurrence' \in Nat /\ DedupFile(temp, occurrence)'
             /\ pc' = "verify" => ~CountsDiffer'
  BY <1>0, <1>1 DEF DedupWritten, DedupFile, FrameCount, CountsDiffer
<1>2. CASE ~EncoderStep BY <1>1, <1>2, OthersKeepWork DEF work
<1>3. CASE EncoderStep
  <2>0. DedupStep BY <1>0, <1>3 DEF EncoderStep, SessionRaised, Cleanup, After, Live, Working, Running
  <2>1. pc # "session" => After BY SnapshotKinds
  <2>2. CASE Start \/ SessionCaptured \/ Scan \/ ScanDone \/ Publish
    BY <2>2 DEF Start, SessionCaptured, Scan, ScanInput, ScanDirectoryEntry, ScanOpen, ScanChunk,
       ScanClose, ScanDone, Publish, Replaced, FailWith, Cleanup, Framing
  <2>3. CASE CreateTemporary
    <3>1. /\ temp' = FileOf("open", FrameCount, manifest, <<>>)
          /\ occurrence' = 0 /\ UNCHANGED manifest /\ pc' = "encode"
      BY <2>3 DEF CreateTemporary, OpenTemporary, FileOf
    <3>2. Stores(<<>>, manifest.chunks, 0) BY NothingStored
    <3> QED BY <3>1, <3>2 DEF DedupFile, FrameCount
  <2>4. CASE EncodeSkipDirectory \/ EncodeOpen \/ EncodeClose
    <3>1. UNCHANGED <<occurrence, manifest, temp>> /\ pc' # "verify" /\ pc \in {"encode", "encoding"}
      BY <2>4 DEF EncodeSkipDirectory, EncodeOpen, EncodeClose, work, output
    <3> QED BY <1>1, <2>1, <3>1 DEF Framing
  <2>5. CASE EncodeChunk
    <3> DEFINE chunk == Stream[Len(taken) + 1]
               cs == manifest.chunks
               n == occurrence
    <3>1. /\ pc = "encoding" /\ pc' # "verify" /\ n < Len(cs) /\ SameChunk(cs[n + 1], chunk)
          /\ temp' = IF cs[n + 1].source = n
                     THEN [temp EXCEPT !.archive.frames =
                              Append(@, [occurrence |-> n, chunk |-> chunk])]
                     ELSE temp
          /\ occurrence' = n + 1 /\ UNCHANGED manifest
      BY <2>5 DEF EncodeChunk, FailWith, Cleanup, Framing
    <3>2. After /\ n \in Nat /\ DedupFile(temp, n)
      BY <1>0, <2>1, <3>1 DEF DedupWritten, Framing
    <3>3. cs \in Seq(UnitRecord)
      BY <1>0, <3>1, <3>2 DEF TableOK, Typed, MadeManifest, Scanning, Scanned, Tables
    <3>4. PICK s, fs : temp = FileOf(s, FrameCount, manifest, fs) /\ Stores(fs, cs, n)
      BY <3>2 DEF DedupFile
    <3> DEFINE r == [occurrence |-> n, chunk |-> chunk]
    <3> HIDE DEF chunk, n
    <3>5. IF cs[n + 1].source = n THEN Stores(Append(fs, r), cs, n + 1) ELSE Stores(fs, cs, n + 1)
      BY <3>1, <3>2, <3>3, <3>4, DedupChunk
    <3>6. [temp EXCEPT !.archive.frames = Append(@, r)]
            = FileOf(s, FrameCount, manifest, Append(fs, r))
      BY <3>4, FileAppends
    <3> HIDE DEF r, cs
    <3>7. \E gs : temp' = FileOf(s, FrameCount, manifest, gs) /\ Stores(gs, cs, n + 1)
      <4>1. CASE cs[n + 1].source = n
        <5>1. temp' = [temp EXCEPT !.archive.frames = Append(@, r)] BY <3>1, <4>1 DEF r
        <5> QED BY <3>5, <3>6, <4>1, <5>1
      <4>2. CASE cs[n + 1].source # n BY <3>1, <3>4, <3>5, <4>2
      <4> QED BY <4>1, <4>2
    <3>8. occurrence' \in Nat /\ occurrence' = n + 1 BY <3>1, <3>2
    <3>9. FrameCount' = FrameCount /\ manifest' = manifest BY <3>1 DEF FrameCount
    <3> QED BY <3>1, <3>7, <3>8, <3>9 DEF DedupFile, cs
  <2>6. CASE Flush
    <3>1. /\ pc = "encode" /\ pc' = "check" /\ UNCHANGED <<occurrence, manifest>>
          /\ temp' = [temp EXCEPT !.state = "synced"]
      BY <2>6 DEF Flush, Synced, work
    <3>2. occurrence \in Nat /\ DedupFile(temp, occurrence)
      BY <1>0, <2>1, <3>1 DEF DedupWritten, Framing
    <3>3. PICK s, fs : temp = FileOf(s, FrameCount, manifest, fs)
                       /\ Stores(fs, manifest.chunks, occurrence)
      BY <3>2 DEF DedupFile
    <3>4. temp' = FileOf("synced", FrameCount, manifest, fs) BY <3>1, <3>3, FileSyncs
    <3> QED BY <3>1, <3>2, <3>3, <3>4 DEF DedupFile, FrameCount
  <2>7. CASE VerifyUnchanged
    <3>1. /\ pc = "check" /\ ~CountsDiffer /\ UNCHANGED <<occurrence, manifest, temp>>
      BY <2>7 DEF VerifyUnchanged, VerifyBindings, FailWith, Cleanup, work, output, Framing
    <3>2. After /\ occurrence \in Nat /\ DedupFile(temp, occurrence)
      BY <1>0, <2>1, <3>1 DEF DedupWritten, Framing
    <3> QED BY <3>1, <3>2 DEF DedupFile, FrameCount, CountsDiffer
  <2> QED BY <2>0, <2>2, <2>3, <2>4, <2>5, <2>6, <2>7 DEF DedupStep
<1> QED BY <1>2, <1>3

(* What a verified MSC6 archive is.                                          *)
LEMMA DedupFinished ==
    ASSUME format = "MSC6", After, pc = "verify", TableOK, DedupWritten, MaxChunk = 1,
           PathsCanonical(manifest), ShapeOK(manifest)
    PROVE  Whole(temp.archive) /\ temp.archive.manifest = manifest
<1>1. Typed /\ ScanGood(manifest.entries, manifest.chunks, <<>>)
  BY DEF TableOK, Tables, Scanning, Scanned
<1>2. /\ occurrence \in Nat /\ DedupFile(temp, occurrence) /\ ~CountsDiffer
  BY DEF DedupWritten, Framing
<1>3. PICK s, fs : temp = FileOf(s, FrameCount, manifest, fs)
                   /\ Stores(fs, manifest.chunks, occurrence)
  BY <1>2 DEF DedupFile
<1> DEFINE a == temp.archive
<1>4. a.manifest = manifest /\ a.frameCount = FrameCount /\ a.frames = fs BY <1>3 DEF FileOf
<1>5. occurrence = Len(manifest.chunks) /\ Len(a.frames) + 1 = a.frameCount BY <1>2 DEF CountsDiffer
<1> HIDE DEF a
<1>6. FramesWhole(a, manifest)
  <2>1. Stores(a.frames, manifest.chunks, Len(manifest.chunks)) BY <1>3, <1>4, <1>5
  <2> QED BY <1>1, <1>4, <2>1, StoredWhole
<1>7. TableParsed(manifest) BY <1>1, ScanParsed
<1>8. ParseDedupManifest(manifest, a.frameCount)
  BY <1>4, <1>7 DEF ParseDedupManifest, TableParsed, FrameCount
<1>9. Whole(a) BY <1>4, <1>5, <1>6, <1>8 DEF Whole, FramesWhole
<1> QED BY <1>4, <1>9 DEF a

-----------------------------------------------------------------------------
(* The first pass of MSC2.                                                   *)

RowsOK ==
    format = "MSC2" /\ After /\ Scanning =>
        /\ Typed /\ Rows(manifest.entries, 1)
        /\ pc = "scan" => ClashFree(ix - 1)
        /\ pc = "scanning" => ClashFree(ix)
        /\ Scanned => ClashFree(Len(Entries))

(* An entry that is not refused clashes with none before it.                 *)
LEMMA ClashGrows ==
    ASSUME ix \in 1 .. Len(Entries), ClashFree(ix - 1), ~EntryRefused
    PROVE  ClashFree(ix)
<1> DEFINE f(i) == Fold[Normal[Entries[i]]]
<1>1. Len(Entries) \in Nat /\ Entries[ix] \in Path BY EntriesFacts
<1>2. \A j \in 1 .. ix - 1 : Entries[j] \in Earlier BY DEF Earlier
<1>3. \A j \in 1 .. ix - 1 : f(j) # f(ix) BY <1>2 DEF EntryRefused
<1>4. \A i, j \in 1 .. ix - 1 : i # j => f(i) # f(j) BY DEF ClashFree, NamesFit
<1>p. /\ Normal[Root] \in Portable
      /\ \A j \in 1 .. ix - 1 : Normal[Entries[j]] \in Portable
      /\ Normal[Entries[ix]] \in Portable
  BY <1>1, SafeNames DEF ClashFree, NamesFit, EntryRefused
<1> HIDE DEF f
<1>5. \A i \in 1 .. ix : i = ix \/ i \in 1 .. ix - 1 BY <1>1
<1>6. \A i, j \in 1 .. ix : i # j => f(i) # f(j) BY <1>3, <1>4, <1>5
<1> QED BY <1>5, <1>6, <1>p DEF ClashFree, NamesFit, f

(* A file of n bytes takes n frames.                                         *)
LEMMA UnitFrames == ASSUME NEW n \in Nat, MaxChunk = 1 PROVE FramesFor(n) = n
<1>1. FramesFor(n) = (n + 1 - 1) \div 1 BY DEF FramesFor
<1> QED BY <1>1

(* The manifest of MSC2 grows by an entry that takes the next frames.        *)
LEMMA RowMade ==
    ASSUME Typed, Rows(manifest.entries, 1), NEW e, NEW rest,
           Takes(e, 1 + Taken(manifest.entries), rest),
           manifest' = [manifest EXCEPT !.entries = Append(@, e)]
    PROVE  Typed' /\ Rows(manifest'.entries, 1)
<1>1. e \in EntryRecord /\ RecordShape(e, 1 + Taken(manifest.entries)) BY DEF Takes
<1>2. Typed' /\ manifest'.entries = Append(manifest.entries, e) BY <1>1, TypedEntry
<1>3. 1 \in Nat OBVIOUS
<1>4. Rows(Append(manifest.entries, e), 1) BY <1>1, <1>3, RowsAppended
<1> QED BY <1>2, <1>4

(* Every step keeps RowsOK.                                                  *)
LEMMA RowsOKStep ==
    Staged /\ SessionInv /\ Manifested /\ Reading /\ RowsOK /\ MaxChunk = 1 /\ [Next]_vars => RowsOK'
<1> SUFFICES ASSUME Staged, SessionInv, Manifested, Reading, RowsOK, MaxChunk = 1, [Next]_vars,
                    format' = "MSC2", After', Scanning'
             PROVE  /\ Typed' /\ Rows(manifest'.entries, 1)
                    /\ pc' = "scan" => ClashFree(ix - 1)'
                    /\ pc' = "scanning" => ClashFree(ix)'
                    /\ Scanned' => ClashFree(Len(Entries))'
  BY DEF RowsOK
<1>0. format = "MSC2" /\ UNCHANGED captured /\ UNCHANGED <<Entries, RootIsFile>>
  BY SnapshotKinds, CallKept, EntriesKept
<1>c. \A n : ClashFree(n) => NamesFit(Entries', n) BY <1>0 DEF ClashFree
<1>n. Len(Entries) \in Nat BY EntriesFacts
<1>1. CASE ~EncoderStep
  <2>1. UNCHANGED <<pc, ix, manifest>> /\ After BY <1>1, OthersKeepWork DEF work
  <2> QED BY <1>0, <2>1 DEF RowsOK, Typed, Scanning, Scanned, ClashFree
<1>2. CASE EncoderStep
  <2>0. StreamStep
    BY <1>0, <1>2 DEF EncoderStep, SessionRaised, Cleanup, After, Live, Working, Running
  <2>1. pc # "session" => After BY SnapshotKinds
  <2>f. \A error : ~FailWith(error) BY DEF FailWith, Cleanup, Scanning, Scanned
  <2>2. CASE Start \/ SessionCaptured \/ StreamScanRefused \/ StreamPublish
    BY <2>2, <2>f DEF Start, SessionCaptured, StreamScanRefused, StreamPublish, Replaced,
       Scanning, Scanned
  <2>3. CASE StreamPlan
    <3>1. manifest' = EmptyManifest /\ pc' = "scan" /\ ix' = 1 BY <2>3, <2>f DEF StreamPlan
    <3>2. Typed' /\ manifest'.entries = <<>> BY <3>1, EmptyTyped
    <3>3. ClashFree(ix - 1)'
      <4>1. Normal[Root] \in Portable BY <2>3, <2>f, RootIsPath, SafeNames DEF StreamPlan
      <4> QED BY <3>1, <4>1 DEF ClashFree, NamesFit
    <3> QED BY <3>1, <3>2, <3>3, NothingScanned DEF Scanned
  <2>4. CASE StreamScanDirectory
    <3> DEFINE e == DirEntry(Normal[Entries[ix]])
    <3>1. /\ pc = "scan" /\ pc' = "scan" /\ ix <= Len(Entries) /\ ~EntryRefused /\ ix' = ix + 1
          /\ manifest' = [manifest EXCEPT !.entries = Append(@, e)]
      BY <2>4 DEF StreamScanDirectory
    <3>2. Typed /\ Rows(manifest.entries, 1) /\ ClashFree(ix - 1) /\ ix \in 1 .. Len(Entries)
      BY <1>0, <1>n, <2>1, <3>1 DEF RowsOK, Scanning, Manifested
    <3>3. Normal[Entries[ix]] \in RecordPath BY <3>2, EntryListed, NamesKnown
    <3>4. Takes(e, 1 + Taken(manifest.entries), <<>>) BY <3>3, DirectoryTakes
    <3> HIDE DEF e
    <3>5. Typed' /\ Rows(manifest'.entries, 1) BY <3>1, <3>2, <3>4, RowMade
    <3>6. ClashFree(ix) BY <3>1, <3>2, ClashGrows
    <3>7. ix' - 1 = ix BY <3>1, <3>2
    <3>8. ClashFree(ix - 1)' BY <1>c, <3>6, <3>7 DEF ClashFree
    <3> QED BY <3>1, <3>5, <3>8 DEF Scanned
  <2>5. CASE HashOpen
    <3>1. /\ pc = "scan" /\ pc' = "scanning" /\ ix <= Len(Entries) /\ ~EntryRefused
          /\ UNCHANGED <<ix, manifest>>
      BY <2>5 DEF HashOpen
    <3>2. Typed /\ Rows(manifest.entries, 1) /\ ClashFree(ix - 1) /\ ix \in 1 .. Len(Entries)
      BY <1>0, <1>n, <2>1, <3>1 DEF RowsOK, Scanning, Manifested
    <3>3. ClashFree(ix) BY <3>1, <3>2, ClashGrows
    <3>4. ClashFree(ix)' BY <1>c, <3>1, <3>3 DEF ClashFree
    <3>5. Typed' BY <3>1, <3>2 DEF Typed
    <3> QED BY <3>1, <3>2, <3>4, <3>5 DEF Scanned
  <2>6. CASE HashBlock
    <3>1. pc = "scanning" /\ pc' = "scanning" /\ UNCHANGED <<ix, manifest>> BY <2>6 DEF HashBlock
    <3>2. Typed /\ Rows(manifest.entries, 1) /\ ClashFree(ix)
      BY <1>0, <2>1, <3>1 DEF RowsOK, Scanning
    <3>3. ClashFree(ix)' BY <1>c, <3>1, <3>2 DEF ClashFree
    <3>4. Typed' BY <3>1, <3>2 DEF Typed
    <3> QED BY <3>1, <3>2, <3>3, <3>4 DEF Scanned
  <2>7. CASE HashClose
    <3> DEFINE p == Normal[Entries[ix]]
               first == 1 + FramesBefore(manifest, ix)
               e == FileEntry(p, Len(taken), first, FramesFor(Len(taken)), taken)
    <3>1. /\ pc = "scanning" /\ pc' = "scan" /\ ix' = ix + 1
          /\ manifest' = [manifest EXCEPT !.entries = Append(@, e)]
      BY <2>7 DEF HashClose
    <3>2. /\ Typed /\ Rows(manifest.entries, 1) /\ ClashFree(ix)
          /\ taken \in Seq(Chunk) /\ ix \in 1 .. Len(Entries) /\ EntriesMade(ix - 1)
      BY <1>0, <1>n, <2>1, <3>1 DEF RowsOK, Scanning, Manifested, Reading
    <3>3. p \in RecordPath BY <3>2, EntryListed, NamesKnown
    <3>4. first = 1 + Taken(manifest.entries) /\ first \in Nat
      <4>1. manifest.entries \in Seq(EntryRecord) BY <3>2 DEF Rows
      <4>2. IsRun(manifest.entries, ix - 1) BY <3>2 DEF EntriesMade
      <4>3. ix - 1 \in Nat BY <1>n, <3>2
      <4>4. Len(manifest.entries) = ix - 1 BY <4>1, <4>2, <4>3, CountOfRun
      <4>5. Len(manifest.entries) + 1 = ix BY <1>n, <3>2, <4>4
      <4>6. Taken(manifest.entries) \in Nat BY <4>1, BeforeNat
      <4> QED BY <4>5, <4>6 DEF FramesBefore, Taken
    <3>5. taken \in Seq(DOMAIN LaneOf) /\ Len(taken) \in Nat BY <3>2, NamesKnown
    <3>6. FramesFor(Len(taken)) = Len(taken) BY <3>5, UnitFrames
    <3> HIDE DEF p, first
    <3>7. e = FileEntry(p, Len(taken), first, Len(taken), taken) BY <3>6
    <3>8. Takes(e, first, taken) BY <3>3, <3>4, <3>5, <3>7, FileTakes
    <3> HIDE DEF e
    <3>9. Typed' /\ Rows(manifest'.entries, 1) BY <3>1, <3>2, <3>4, <3>8, RowMade
    <3>10. ix' - 1 = ix BY <3>1, <3>2
    <3>11. ClashFree(ix - 1)' BY <1>c, <3>2, <3>10 DEF ClashFree
    <3> QED BY <3>1, <3>9, <3>11 DEF Scanned
  <2>8. CASE StreamScanDone
    <3>1. pc = "scan" /\ pc' = "create" /\ ix > Len(Entries) /\ UNCHANGED manifest
      BY <2>8, <2>f DEF StreamScanDone, work
    <3>2. Typed /\ Rows(manifest.entries, 1) /\ ClashFree(ix - 1) /\ ix \in 1 .. Len(Entries) + 1
      BY <1>0, <2>1, <3>1 DEF RowsOK, Scanning, Manifested
    <3>3. ix - 1 = Len(Entries) BY <1>n, <3>1, <3>2
    <3>4. ClashFree(Len(Entries))' BY <1>0, <1>c, <3>2, <3>3 DEF ClashFree
    <3>5. Typed' BY <3>1, <3>2 DEF Typed
    <3> QED BY <3>1, <3>2, <3>4, <3>5
  <2>9. CASE StreamCreate \/ StreamSkipDirectory \/ StreamOpen \/ StreamBlock \/ StreamClose
             \/ StreamFlush \/ StreamVerify
    <3>1. Scanned /\ Scanned' /\ pc' \notin {"scan", "scanning"} /\ UNCHANGED manifest
      BY <2>9, <2>f DEF StreamCreate, OpenTemporary, StreamSkipDirectory, StreamOpen, StreamBlock,
         StreamClose, StreamFlush, Synced, StreamVerify, VerifyBindings, work, Scanned
    <3>2. pc # "session" BY <3>1 DEF Scanned
    <3>3. Typed /\ Rows(manifest.entries, 1) /\ ClashFree(Len(Entries))
      BY <1>0, <2>1, <3>1, <3>2 DEF RowsOK, Scanning
    <3>4. ClashFree(Len(Entries))' BY <1>0, <1>c, <3>3 DEF ClashFree
    <3>5. Typed' BY <3>1, <3>3 DEF Typed
    <3> QED BY <3>1, <3>3, <3>4, <3>5
  <2> QED BY <2>0, <2>2, <2>3, <2>4, <2>5, <2>6, <2>7, <2>8, <2>9 DEF StreamStep
<1> QED BY <1>1, <1>2

-----------------------------------------------------------------------------
(* The second pass of MSC2.                                                  *)

(* The frames are the blocks read again.                                     *)
StreamFile(file, i, rest) ==
    \E s, fs : file = FileOf(s, 1 + DataFrames, manifest, fs)
               /\ Blocks(fs, manifest.entries, i, rest)

(* The file open in that pass.                                               *)
Reopened ==
    /\ ix <= Len(manifest.entries) /\ manifest.entries[ix].kind = "file"
    /\ cur \in Discovered /\ (spc = "reading" => handle \in Ino)

StreamWritten ==
    format = "MSC2" /\ After /\ pc \in Framing =>
        /\ StreamFile(temp, ix, IF pc = "encoding" THEN taken ELSE <<>>)
        /\ ix \in 1 .. Len(manifest.entries) + 1
        /\ pc = "encoding" => Reopened
        /\ pc \in {"check", "verify"} => ix = Len(manifest.entries) + 1

(* A manifest that has an entry for every entry of the source.               *)
LEMMA EntriesCounted ==
    ASSUME EntriesMade(Len(Entries)), manifest.entries \in Seq(EntryRecord)
    PROVE  Len(manifest.entries) = Len(Entries)
<1>1. Len(Entries) \in Nat BY EntriesFacts
<1>2. IsRun(manifest.entries, Len(Entries)) BY DEF EntriesMade
<1> QED BY <1>1, <1>2, CountOfRun

(* No block, no frame.                                                       *)
LEMMA NoBlocks == ASSUME NEW es \in Seq(EntryRecord) PROVE Blocks(<<>>, es, 1, <<>>)
<1>1. /\ <<>> \in Seq(BlockRecord) /\ <<>> \in Seq(DOMAIN LaneOf) /\ Len(<<>>) = 0
  OBVIOUS
<1>2. ChunksBefore(es, 1) = 0 BY BeforeNat
<1>3. (\A k \in 1 .. Len(<<>>) : FALSE) /\ (\A j \in 1 .. 1 - 1 : FALSE) BY <1>1
<1>4. Len(<<>>) = ChunksBefore(es, 1) + Len(<<>>) BY <1>1, <1>2
<1> QED BY <1>1, <1>3, <1>4 DEF Blocks

(* Every step keeps StreamWritten.                                           *)
LEMMA StreamWrittenStep ==
    Staged /\ SessionInv /\ Manifested /\ RowsOK /\ StreamWritten /\ [Next]_vars => StreamWritten'
<1> SUFFICES ASSUME Staged, SessionInv, Manifested, RowsOK, StreamWritten, [Next]_vars,
                    format' = "MSC2", After', pc' \in Framing
             PROVE  /\ StreamFile(temp, ix, IF pc = "encoding" THEN taken ELSE <<>>)'
                    /\ ix' \in 1 .. Len(manifest'.entries) + 1
                    /\ pc' = "encoding" => Reopened'
                    /\ pc' \in {"check", "verify"} => ix' = Len(manifest'.entries) + 1
  BY DEF StreamWritten
<1>0. format = "MSC2" /\ UNCHANGED captured /\ UNCHANGED <<Entries, RootIsFile, Discovered>>
  BY SnapshotKinds, CallKept, EntriesKept
<1>n. Len(Entries) \in Nat BY EntriesFacts
<1>s. \A s, fs, i, rest :
         /\ manifest' = manifest /\ temp' = FileOf(s, 1 + DataFrames, manifest, fs)
         /\ Blocks(fs, manifest.entries, i, rest) /\ ix' = i
         /\ rest = IF pc' = "encoding" THEN taken' ELSE <<>>
         => StreamFile(temp, ix, IF pc = "encoding" THEN taken ELSE <<>>)'
  BY DEF StreamFile, DataFrames, FramesBefore
<1>1. CASE ~EncoderStep
  <2>1. UNCHANGED <<pc, ix, taken, manifest, temp>> /\ After BY <1>1, OthersKeepWork DEF work
  <2>2. /\ StreamFile(temp, ix, IF pc = "encoding" THEN taken ELSE <<>>)
        /\ ix \in 1 .. Len(manifest.entries) + 1
        /\ pc = "encoding" => Reopened
        /\ pc \in {"check", "verify"} => ix = Len(manifest.entries) + 1
    BY <1>0, <2>1 DEF StreamWritten
  <2>3. StreamFile(temp, ix, IF pc = "encoding" THEN taken ELSE <<>>)'
    BY <2>1, <2>2 DEF StreamFile, DataFrames, FramesBefore
  <2>4. ASSUME pc' = "encoding" PROVE Reopened'
    <3>1. Reopened /\ pc = "encoding" BY <2>1, <2>2, <2>4
    <3>2. CASE SessionProgress
      <4>1. OpenHandle BY <2>1, <3>1, <3>2, SessionKinds DEF After
      <4>2. captured[cur] = Stat(cur) /\ handle' = name[cur] /\ UNCHANGED cur
        BY <4>1 DEF OpenHandle, Raise, After, Live, Matches, walk
      <4>3. cur \in Path /\ captured[cur].kind # "absent" BY <3>1 DEF Reopened, Discovered
      <4>4. name[cur] # NoIno BY <4>2, <4>3 DEF Stat, Absent
      <4>5. handle' \in Ino BY <4>2, <4>3, <4>4 DEF SessionInv, FileSystemOK
      <4> QED BY <1>0, <2>1, <3>1, <4>2, <4>5 DEF Reopened
    <3>3. CASE UNCHANGED session BY <1>0, <2>1, <3>1, <3>3 DEF Reopened, session, walk
    <3>4. Mutation => UNCHANGED session BY DEF Mutation, Mutate
    <3> QED BY <1>1, <3>2, <3>3, <3>4 DEF Next, Stopped, Fault, Kill, PowerLoss, FailWith, Cleanup,
           After, Live, Working, Running, vars
  <2> QED BY <2>1, <2>2, <2>3, <2>4
<1>2. CASE EncoderStep
  <2>0. StreamStep
    BY <1>0, <1>2 DEF EncoderStep, SessionRaised, Cleanup, After, Live, Working, Running
  <2>f. \A error : ~FailWith(error) BY DEF FailWith, Cleanup, Framing
  <2>2. CASE Start \/ SessionCaptured \/ StreamPlan \/ StreamScanRefused \/ StreamScanDirectory
             \/ HashOpen \/ HashBlock \/ HashClose \/ StreamScanDone \/ StreamPublish
    BY <2>2, <2>f DEF Start, SessionCaptured, StreamPlan, StreamScanRefused, StreamScanDirectory,
       HashOpen, HashBlock, HashClose, StreamScanDone, StreamPublish, Replaced, Framing
  <2>3. ASSUME pc \in Framing \cup {"create"}
        PROVE  /\ After /\ Typed /\ Rows(manifest.entries, 1) /\ manifest.entries \in Seq(EntryRecord)
               /\ Len(manifest.entries) = Len(Entries)
    <3>1. After BY <2>3, SnapshotKinds DEF Framing
    <3>2. Typed /\ Rows(manifest.entries, 1) /\ EntriesMade(Len(Entries))
      BY <1>0, <2>3, <3>1 DEF RowsOK, Scanning, Scanned, Manifested, Framing
    <3>3. manifest.entries \in Seq(EntryRecord) BY <3>2 DEF Rows
    <3> QED BY <3>1, <3>2, <3>3, EntriesCounted
  <2>4. ASSUME pc \in Framing
        PROVE  /\ ix \in 1 .. Len(manifest.entries) + 1
               /\ StreamFile(temp, ix, IF pc = "encoding" THEN taken ELSE <<>>)
               /\ pc = "encoding" => Reopened
               /\ pc \in {"check", "verify"} => ix = Len(manifest.entries) + 1
    BY <1>0, <2>3, <2>4 DEF StreamWritten
  <2> DEFINE rest == IF pc = "encoding" THEN taken ELSE <<>>
             es == manifest.entries
  <2>5. CASE StreamCreate
    <3>1. /\ temp' = FileOf("open", 1 + DataFrames, manifest, <<>>)
          /\ ix' = 1 /\ pc' = "encode" /\ pc = "create" /\ UNCHANGED manifest
      BY <2>5 DEF StreamCreate, OpenTemporary, FileOf
    <3>2. Blocks(<<>>, es, 1, <<>>) /\ Len(es) \in Nat BY <1>n, <2>3, <3>1, NoBlocks
    <3>3. 1 \in 1 .. Len(es) + 1 BY <3>2
    <3>4. StreamFile(temp, ix, IF pc = "encoding" THEN taken ELSE <<>>)' BY <1>s, <3>1, <3>2
    <3> QED BY <3>1, <3>3, <3>4
  <2>6. CASE StreamSkipDirectory
    <3>1. /\ pc = "encode" /\ pc' = "encode" /\ ix <= Len(Entries) /\ ix' = ix + 1
          /\ es[ix].kind = "dir" /\ UNCHANGED <<manifest, temp>>
      BY <2>6 DEF StreamSkipDirectory, output
    <3>2. ix \in 1 .. Len(es) /\ Rows(es, 1) /\ StreamFile(temp, ix, <<>>)
      BY <1>n, <2>3, <2>4, <3>1 DEF Framing
    <3>3. PICK s, fs : temp = FileOf(s, 1 + DataFrames, manifest, fs) /\ Blocks(fs, es, ix, <<>>)
      BY <3>2 DEF StreamFile
    <3>4. Blocks(fs, es, ix + 1, <<>>) BY <3>1, <3>2, <3>3, BlocksOfNext
    <3>5. ix + 1 \in 1 .. Len(es) + 1 BY <1>n, <2>3, <3>1, <3>2 DEF Framing
    <3>6. StreamFile(temp, ix, IF pc = "encoding" THEN taken ELSE <<>>)' BY <1>s, <3>1, <3>3, <3>4
    <3> QED BY <3>1, <3>5, <3>6
  <2>7. CASE StreamOpen
    <3>1. /\ pc = "encode" /\ pc' = "encoding" /\ ix <= Len(Entries) /\ UNCHANGED <<ix, manifest, temp>>
          /\ es[ix].kind = "file" /\ taken' = <<>> /\ Lookup(Entries[ix]) \in Discovered
          /\ RequireAncestors(Lookup(Entries[ix]))
      BY <2>7, <2>f DEF StreamOpen, output
    <3>2. cur' \in Discovered /\ spc' = "opening"
      BY <3>1 DEF RequireAncestors, Raise, After, Live
    <3>3. ix \in 1 .. Len(es) /\ StreamFile(temp, ix, <<>>)
      BY <1>n, <2>3, <2>4, <3>1 DEF Framing
    <3>4. PICK s, fs : temp = FileOf(s, 1 + DataFrames, manifest, fs) /\ Blocks(fs, es, ix, <<>>)
      BY <3>3 DEF StreamFile
    <3>5. StreamFile(temp, ix, IF pc = "encoding" THEN taken ELSE <<>>)' BY <1>s, <3>1, <3>4
    <3>6. Reopened' BY <1>0, <3>1, <3>2, <3>3 DEF Reopened
    <3>7. ix \in 1 .. Len(es) + 1 BY <2>4, <3>1 DEF Framing
    <3> QED BY <3>1, <3>5, <3>6, <3>7
  <2>8. CASE StreamBlock
    <3> DEFINE c == Stream[Len(taken) + 1]
    <3>1. /\ pc = "encoding" /\ pc' = "encoding" /\ spc = "reading" /\ Len(taken) < Len(Stream)
          /\ taken' = Append(taken, c) /\ UNCHANGED <<session, ix, manifest>>
          /\ temp' = [temp EXCEPT !.archive.frames =
                         Append(@, [entry |-> ix - 1, chunk |-> c, size |-> 1])]
      BY <2>8 DEF StreamBlock
    <3>2. /\ Reopened /\ ix \in 1 .. Len(es) /\ Rows(es, 1) /\ StreamFile(temp, ix, taken)
      BY <1>n, <2>3, <2>4, <3>1 DEF Framing, Reopened
    <3>3. PICK s, fs : temp = FileOf(s, 1 + DataFrames, manifest, fs) /\ Blocks(fs, es, ix, taken)
      BY <3>2 DEF StreamFile
    <3>4. c \in DOMAIN LaneOf
      <4>1. Stream \in Seq(Chunk) BY <3>1, <3>2 DEF Reopened, Stream, SessionInv, FileSystemOK, Node
      <4>2. taken \in Seq(DOMAIN LaneOf) BY <3>3 DEF Blocks
      <4>3. Len(taken) + 1 \in 1 .. Len(Stream) BY <3>1, <4>1, <4>2
      <4>4. c \in Chunk BY <4>1, <4>3
      <4> QED BY <4>4, NamesKnown
    <3> HIDE DEF c
    <3>5. Blocks(Append(fs, Block(ix, c)), es, ix, Append(taken, c))
      BY <3>2, <3>3, <3>4, BlockAdded
    <3>6. temp' = FileOf(s, 1 + DataFrames, manifest, Append(fs, Block(ix, c)))
      <4> DEFINE r == [entry |-> ix - 1, chunk |-> c, size |-> 1]
      <4>1. r = Block(ix, c) BY DEF Block
      <4>2. temp' = [temp EXCEPT !.archive.frames = Append(@, r)] BY <3>1
      <4> HIDE DEF r
      <4>3. [temp EXCEPT !.archive.frames = Append(@, r)]
              = FileOf(s, 1 + DataFrames, manifest, Append(fs, r))
        BY <3>3, FileAppends
      <4>4. temp' = FileOf(s, 1 + DataFrames, manifest, Append(fs, r)) BY <4>2, <4>3
      <4> QED BY <4>1, <4>4
    <3>7. StreamFile(temp, ix, IF pc = "encoding" THEN taken ELSE <<>>)' BY <1>s, <3>1, <3>5, <3>6
    <3>8. Reopened' BY <1>0, <3>1, <3>2 DEF Reopened, session, walk
    <3>9. ix \in 1 .. Len(es) + 1 BY <2>4, <3>1 DEF Framing
    <3> QED BY <3>1, <3>7, <3>8, <3>9
  <2>9. CASE StreamClose
    <3>1. /\ pc = "encoding" /\ pc' = "encode" /\ taken = es[ix].digest
          /\ ix' = ix + 1 /\ UNCHANGED <<manifest, temp>>
      BY <2>9 DEF StreamClose, CloseHandle, Raise, After, Live, output
    <3>2. /\ Reopened /\ ix \in 1 .. Len(es) /\ Rows(es, 1) /\ StreamFile(temp, ix, taken)
      BY <1>n, <2>3, <2>4, <3>1 DEF Framing, Reopened
    <3>3. PICK s, fs : temp = FileOf(s, 1 + DataFrames, manifest, fs) /\ Blocks(fs, es, ix, taken)
      BY <3>2 DEF StreamFile
    <3>4. Blocks(fs, es, ix + 1, <<>>) BY <3>1, <3>2, <3>3, BlocksOfNext DEF Reopened
    <3>5. ix + 1 \in 1 .. Len(es) + 1 BY <1>n, <2>3, <3>1, <3>2 DEF Framing
    <3>6. StreamFile(temp, ix, IF pc = "encoding" THEN taken ELSE <<>>)' BY <1>s, <3>1, <3>3, <3>4
    <3> QED BY <3>1, <3>5, <3>6
  <2>10. CASE StreamFlush
    <3>1. /\ pc = "encode" /\ pc' = "check" /\ ix > Len(Entries) /\ UNCHANGED <<ix, manifest>>
          /\ temp' = [temp EXCEPT !.state = "synced"]
      BY <2>10, <2>f DEF StreamFlush, Synced, work
    <3>2. /\ ix = Len(es) + 1 /\ StreamFile(temp, ix, <<>>) /\ ix \in 1 .. Len(es) + 1
      BY <1>n, <2>3, <2>4, <3>1 DEF Framing
    <3>3. PICK s, fs : temp = FileOf(s, 1 + DataFrames, manifest, fs) /\ Blocks(fs, es, ix, <<>>)
      BY <3>2 DEF StreamFile
    <3>4. temp' = FileOf("synced", 1 + DataFrames, manifest, fs) BY <3>1, <3>3, FileSyncs
    <3>5. StreamFile(temp, ix, IF pc = "encoding" THEN taken ELSE <<>>)' BY <1>s, <3>1, <3>3, <3>4
    <3> QED BY <3>1, <3>2, <3>5
  <2>11. CASE StreamVerify
    <3>1. pc = "check" /\ pc' = "verify" /\ UNCHANGED <<ix, manifest, temp>>
      BY <2>11 DEF StreamVerify, VerifyBindings, work, output
    <3>2. /\ ix = Len(es) + 1 /\ StreamFile(temp, ix, <<>>) /\ ix \in 1 .. Len(es) + 1
      BY <2>4, <3>1 DEF Framing
    <3>3. PICK s, fs : temp = FileOf(s, 1 + DataFrames, manifest, fs) /\ Blocks(fs, es, ix, <<>>)
      BY <3>2 DEF StreamFile
    <3>4. StreamFile(temp, ix, IF pc = "encoding" THEN taken ELSE <<>>)' BY <1>s, <3>1, <3>3
    <3> QED BY <3>1, <3>2, <3>4
  <2> QED BY <2>0, <2>2, <2>5, <2>6, <2>7, <2>8, <2>9, <2>10, <2>11 DEF StreamStep
<1> QED BY <1>1, <1>2

(* What a verified MSC2 archive is.                                          *)
LEMMA StreamFinished ==
    ASSUME format = "MSC2", After, pc = "verify", RowsOK, StreamWritten, MaxChunk = 1,
           PathsCanonical(manifest), ShapeOK(manifest)
    PROVE  StreamWhole(temp.archive) /\ temp.archive.manifest = manifest
<1>1. Rows(manifest.entries, 1) BY DEF RowsOK, Scanning, Scanned
<1>2. StreamFile(temp, Len(manifest.entries) + 1, <<>>) BY DEF StreamWritten, Framing
<1>3. PICK s, fs : temp = FileOf(s, 1 + DataFrames, manifest, fs)
                   /\ Blocks(fs, manifest.entries, Len(manifest.entries) + 1, <<>>)
  BY <1>2 DEF StreamFile
<1> DEFINE a == temp.archive
<1>4. a.manifest = manifest /\ a.frameCount = 1 + DataFrames /\ a.frames = fs BY <1>3 DEF FileOf
<1> HIDE DEF a
<1>5. BlocksWhole(a, manifest) /\ Len(a.frames) = Taken(manifest.entries)
  BY <1>1, <1>3, <1>4, BlocksFinished
<1>6. DataFrames = Taken(manifest.entries) /\ Taken(manifest.entries) \in Nat
  <2>1. manifest.entries \in Seq(EntryRecord) BY <1>1 DEF Rows
  <2> QED BY <2>1, BeforeNat DEF DataFrames, FramesBefore, Taken
<1>7. DirectoriesEmpty(manifest) /\ RangesConsecutive(manifest, 1 + Taken(manifest.entries))
  BY <1>1, RowsParsed
<1>8. a.frameCount = 1 + Taken(manifest.entries) /\ Len(a.frames) + 1 = a.frameCount
  BY <1>4, <1>5, <1>6
<1>9. ParseManifest(manifest, a.frameCount) BY <1>7, <1>8 DEF ParseManifest
<1>10. StreamWhole(a) BY <1>4, <1>5, <1>8, <1>9 DEF StreamWhole, BlocksWhole
<1> QED BY <1>4, <1>10 DEF a

-----------------------------------------------------------------------------
(* MSC1.                                                                     *)

SingleFrames == [k \in DOMAIN taken |-> [entry |-> 0, chunk |-> taken[k], size |-> 1]]

SingleOK ==
    format = "MSC1" /\ After =>
        /\ pc = "built" \/ Scanned => taken \in Seq(Chunk)
        /\ Scanned => manifest = SingleManifest
        /\ pc \in {"flush", "check", "verify"} =>
              \E s : temp = FileOf(s, Len(taken), manifest, SingleFrames)

(* Every step keeps SingleOK.                                                *)
LEMMA SingleOKStep ==
    Staged /\ SessionInv /\ Manifested /\ Reading /\ SingleOK /\ [Next]_vars => SingleOK'
<1> SUFFICES ASSUME Staged, SessionInv, Manifested, Reading, SingleOK, [Next]_vars,
                    format' = "MSC1", After', pc' = "built" \/ Scanned'
             PROVE  /\ taken' \in Seq(Chunk)
                    /\ Scanned' => manifest' = SingleManifest'
                    /\ pc' \in {"flush", "check", "verify"} =>
                          \E s : temp' = FileOf(s, Len(taken'), manifest', SingleFrames')
  BY DEF SingleOK, Scanned
<1>0. format = "MSC1" /\ UNCHANGED captured /\ UNCHANGED <<Entries, RootIsFile>>
  BY SnapshotKinds, CallKept, EntriesKept
<1>m. UNCHANGED taken => SingleManifest' = SingleManifest /\ SingleFrames' = SingleFrames
  BY <1>0 DEF SingleManifest, EmptyManifest, SingleFrames
<1>1. CASE ~EncoderStep
  <2>1. UNCHANGED <<pc, taken, manifest, temp>> /\ After BY <1>1, OthersKeepWork DEF work
  <2> QED BY <1>0, <1>m, <2>1 DEF SingleOK, Scanned
<1>2. CASE EncoderStep
  <2>0. SingleStep
    BY <1>0, <1>2 DEF EncoderStep, SessionRaised, Cleanup, After, Live, Working, Running
  <2>f. \A error : ~FailWith(error) BY DEF FailWith, Cleanup, Scanned
  <2>1. pc # "session" => After BY SnapshotKinds
  <2>2. CASE SingleStart \/ SingleCaptured \/ SingleRead \/ SinglePublish
    BY <2>2, <2>f DEF SingleStart, SingleCaptured, SingleRead, SinglePublish, Replaced, Scanned
  <2>3. CASE SingleReadAll
    <3>1. pc = "scanning" /\ pc' = "built" /\ UNCHANGED taken BY <2>3 DEF SingleReadAll, work
    <3> QED BY <2>1, <3>1 DEF Reading, Scanned
  <2>4. CASE BuildInnerStream
    <3>1. pc = "built" /\ pc' = "create" /\ UNCHANGED taken /\ manifest' = SingleManifest
      BY <2>4, <2>f DEF BuildInnerStream
    <3> QED BY <1>0, <1>m, <2>1, <3>1 DEF SingleOK
  <2>5. CASE SingleWrite
    <3>1. /\ pc = "create" /\ UNCHANGED <<taken, manifest>>
          /\ temp' = FileOf("open", Len(taken), manifest, SingleFrames)
      BY <2>5 DEF SingleWrite, OpenTemporary, FileOf, SingleFrames
    <3>2. taken \in Seq(Chunk) /\ manifest = SingleManifest
      BY <1>0, <2>1, <3>1 DEF SingleOK, Scanned
    <3> QED BY <1>m, <3>1, <3>2
  <2>6. CASE SingleFlush
    <3>1. pc = "flush" /\ UNCHANGED <<taken, manifest>> /\ temp' = [temp EXCEPT !.state = "synced"]
      BY <2>6 DEF SingleFlush, Synced, work
    <3>2. taken \in Seq(Chunk) /\ manifest = SingleManifest
          /\ \E s : temp = FileOf(s, Len(taken), manifest, SingleFrames)
      BY <1>0, <2>1, <3>1 DEF SingleOK, Scanned
    <3>3. PICK s : temp = FileOf(s, Len(taken), manifest, SingleFrames) BY <3>2
    <3>4. [temp EXCEPT !.state = "synced"] = FileOf("synced", Len(taken), manifest, SingleFrames)
      BY <3>3, FileSyncs
    <3> QED BY <1>m, <3>1, <3>2, <3>4
  <2>7. CASE SingleVerify
    <3>1. pc = "check" /\ UNCHANGED <<taken, manifest, temp>>
      BY <2>7 DEF SingleVerify, VerifyBindings, work, output
    <3>2. taken \in Seq(Chunk) /\ manifest = SingleManifest
          /\ \E s : temp = FileOf(s, Len(taken), manifest, SingleFrames)
      BY <1>0, <2>1, <3>1 DEF SingleOK, Scanned
    <3> QED BY <1>m, <3>1, <3>2
  <2> QED BY <2>0, <2>2, <2>3, <2>4, <2>5, <2>6, <2>7 DEF SingleStep
<1> QED BY <1>1, <1>2

(* What a verified MSC1 archive is.                                          *)
LEMMA SingleFinished ==
    ASSUME format = "MSC1", After, pc = "verify", SingleOK, MaxChunk = 1
    PROVE  SingleWhole(temp.archive) /\ ParentsFirst(temp.archive.manifest)
<1>1. /\ taken \in Seq(Chunk) /\ manifest = SingleManifest
      /\ \E s : temp = FileOf(s, Len(taken), manifest, SingleFrames)
  BY DEF SingleOK, Scanned
<1>2. PICK s : temp = FileOf(s, Len(taken), manifest, SingleFrames) BY <1>1
<1> DEFINE a == temp.archive
           n == Len(taken)
           e == FileEntry(Root, n, 1, FramesFor(n), taken)
           sizes == [k \in DOMAIN a.frames |-> a.frames[k].size]
<1>3. a.manifest = manifest /\ a.frameCount = n /\ a.frames = SingleFrames BY <1>2 DEF FileOf
<1>4. manifest.entries = <<e>> BY <1>1 DEF SingleManifest, EmptyManifest
<1>5. e.size = n /\ e.digest = taken /\ e.path = Root BY DEF FileEntry
<1>6. n \in Nat /\ DOMAIN taken = 1 .. n /\ taken = [k \in 1 .. n |-> taken[k]] BY <1>1
<1> HIDE DEF a, e, n
<1>7. manifest.entries[1] = e /\ DOMAIN manifest.entries = 1 .. 1 BY <1>4
<1>8. a.frames = [k \in 1 .. n |-> [entry |-> 0, chunk |-> taken[k], size |-> 1]]
  BY <1>3, <1>6 DEF SingleFrames
<1>9. Len(a.frames) = n
  <2> DEFINE T == {a.frames[k] : k \in 1 .. n}
  <2>1. a.frames \in [1 .. n -> T] BY <1>8
  <2> HIDE DEF T
  <2> QED BY <1>6, <2>1
<1>10. DOMAIN a.frames = 1 .. n /\ \A k \in 1 .. n : a.frames[k].size = 1 /\ a.frames[k].chunk = taken[k]
  BY <1>8
<1>11. Sum(sizes) = n
  <2>1. sizes = [k \in 1 .. n |-> a.frames[k].size] BY <1>10
  <2>2. \A k \in 1 .. n : sizes[k] = 1 BY <1>10, <2>1
  <2>3. sizes = [k \in 1 .. n |-> sizes[k]] BY <2>1
  <2> HIDE DEF sizes
  <2>4. IsRun(sizes, n) BY <2>3 DEF IsRun
  <2> QED BY <1>6, <2>2, <2>4, SumOfOnes
<1>12. ParseInner(a)
  <2>1. \A k \in DOMAIN a.frames : a.frames[k].size \in 1 .. MaxChunk BY <1>10
  <2>2. ParentOf[a.manifest.entries[1].path] = a.manifest.entries[1].path
    BY <1>3, <1>5, <1>7, FormatAssumption
  <2> QED BY <1>3, <1>5, <1>7, <1>9, <1>11, <2>1, <2>2 DEF ParseInner
<1>13. [k \in DOMAIN a.frames |-> a.frames[k].chunk] = taken
  <2>1. [k \in DOMAIN a.frames |-> a.frames[k].chunk] = [k \in 1 .. n |-> taken[k]] BY <1>10
  <2> QED BY <1>6, <2>1
<1>14. SingleWhole(a) BY <1>3, <1>5, <1>7, <1>12, <1>13 DEF SingleWhole
<1>15. ParentsFirst(a.manifest)
  <2>1. ParentOf[Root] = Root BY FormatAssumption
  <2>2. \A i \in DOMAIN manifest.entries : manifest.entries[i].path = Root BY <1>5, <1>7
  <2> QED BY <1>3, <2>1, <2>2 DEF ParentsFirst
<1> QED BY <1>14, <1>15 DEF a

-----------------------------------------------------------------------------
(* The paths of a manifest.                                                  *)

(* Entries are in the order in which their directories come first, under     *)
(* names that do not clash.                                                  *)
LEMMA PathsHold ==
    ASSUME SessionInv, Snapped, After, Scanned, EntriesMade(Len(Entries)), format # "MSC1", Typed,
           ClashFree(Len(Entries))
    PROVE  /\ PathsCanonical(manifest) /\ ShapeOK(manifest)
           /\ ParentsFirst(manifest) /\ PathsUsable(manifest)
<1> DEFINE es == manifest.entries
           n == Len(Entries)
<1>1. n \in Nat /\ DOMAIN Entries = 1 .. n /\ \A i \in 1 .. n : Entries[i] \in Path
  BY EntriesFacts
<1>2. es \in Seq(EntryRecord) BY DEF Typed, MadeManifest
<1>3. Len(es) = n /\ DOMAIN es = 1 .. n
  <2>1. Len(es) = n BY <1>2, EntriesCounted
  <2> HIDE DEF es
  <2> QED BY <1>2, <2>1
<1>4. \A i \in 1 .. n : /\ es[i].path = Normal[Entries[i]] /\ es[i].kind = captured[Entries[i]].kind
                        /\ Entries[i] \in Discovered
  BY <1>1, EntryKinds DEF EntriesMade, EntryGood, EntryName
<1>5. manifest.kind = (IF RootIsFile THEN "file" ELSE "folder") /\ manifest.root = Normal[Root]
  BY DEF EntriesMade, Typed
<1>6. PathsCanonical(manifest) /\ PathsUsable(manifest)
  <2>1. manifest.root \in Portable /\ ParentOf[manifest.root] = manifest.root
    BY <1>5, FormatAssumption, RootIsPath DEF ClashFree, NamesFit
  <2>2. \A i \in 1 .. n : es[i].path \in Portable BY <1>4 DEF ClashFree, NamesFit
  <2>3. \A i, j \in 1 .. n : i # j => Fold[es[i].path] # Fold[es[j].path]
    BY <1>4 DEF ClashFree, NamesFit
  <2>4. \A i \in 1 .. n : {j \in 1 .. n : Fold[es[j].path] = Fold[es[i].path]} = {i} BY <2>3
  <2> QED BY <1>3, <2>1, <2>2, <2>3, <2>4 DEF PathsCanonical, PathsUsable
<1>7. CASE RootIsFile
  <2>1. Entries = <<Root>> BY <1>7, EntriesFacts
  <2>2. n = 1 /\ Entries[1] = Root BY <2>1
  <2>3. es[1].path = Normal[Root] /\ es[1].kind = "file" BY <1>4, <1>7, <2>2 DEF RootIsFile
  <2>4. ShapeOK(manifest) BY <1>3, <1>5, <1>7, <2>2, <2>3 DEF ShapeOK
  <2>5. ParentOf[Normal[Root]] = Normal[Root] BY FormatAssumption, RootIsPath
  <2>6. \A i \in 1 .. 1 : i = 1 OBVIOUS
  <2>7. ParentsFirst(manifest) BY <1>3, <2>2, <2>3, <2>5, <2>6 DEF ParentsFirst
  <2> QED BY <1>6, <2>4, <2>7
<1>8. CASE ~RootIsFile
  <2>1. DirectoriesFirst(Entries) /\ {Entries[i] : i \in 1 .. n} = Discovered \ {Root}
    BY <1>1, <1>8, EntriesFacts
  <2>2. ASSUME NEW i \in 1 .. n, ParentOf[es[i].path] # es[i].path
        PROVE  \E j \in 1 .. i - 1 : /\ j \in 1 .. n /\ es[j].kind = "dir"
                                     /\ es[j].path = ParentOf[es[i].path]
    <3> DEFINE p == Entries[i]
    <3>1. p \in Path \ {Root} /\ Seen(p) BY <2>1, <1>1 DEF Discovered, Seen
    <3>2. ParentOf[Normal[p]] = IF p = Root \/ Parent[p] = Root THEN Normal[p] ELSE Normal[Parent[p]]
      BY <3>1, FormatAssumption
    <3>3. Parent[p] # Root /\ ParentOf[Normal[p]] = Normal[Parent[p]] BY <1>4, <2>2, <3>1, <3>2
    <3>4. captured[Parent[p]].kind = "dir" /\ Parent[p] \in Path
      BY <3>1, RootIsPath DEF SessionInv, CapturedTree
    <3>5. Parent[p] \in Discovered \ {Root} BY <3>3, <3>4 DEF Discovered
    <3>6. PICK j \in 1 .. i - 1 : Entries[j] = Parent[p] BY <1>1, <2>1, <3>5 DEF DirectoriesFirst
    <3>7. j \in 1 .. n BY <1>1
    <3>8. es[j].path = Normal[Parent[p]] /\ es[j].kind = "dir" BY <1>4, <3>4, <3>6, <3>7
    <3> QED BY <1>4, <3>3, <3>6, <3>7, <3>8
  <2>3. ParentsFirst(manifest) BY <1>3, <2>2 DEF ParentsFirst
  <2>4. ShapeOK(manifest)
    <3>1. \A i \in 1 .. n : ParentOf[es[i].path] = es[i].path
             \/ \E j \in 1 .. n : es[j].kind = "dir" /\ es[j].path = ParentOf[es[i].path]
      BY <2>2
    <3> QED BY <1>3, <1>5, <1>8, <3>1 DEF ShapeOK
  <2> QED BY <1>6, <2>3, <2>4
<1> QED BY <1>7, <1>8

-----------------------------------------------------------------------------
(* MSR1.                                                                     *)

SolidFile(file) ==
    \E s : file = [state |-> s,
                   archive |-> [unique |-> UniqueCount, manifest |-> manifest,
                                frames |-> <<SolidPayload(manifest)>>]]

SolidOK == format = "MSR1" /\ After /\ pc \in {"flush", "check", "verify"} => SolidFile(temp)

(* Every step keeps SolidOK.                                                 *)
LEMMA SolidOKStep == Staged /\ SolidOK /\ [Next]_vars => SolidOK'
<1> SUFFICES ASSUME Staged, SolidOK, [Next]_vars,
                    format' = "MSR1", After', pc' \in {"flush", "check", "verify"}
             PROVE  SolidFile(temp)'
  BY DEF SolidOK
<1>0. format = "MSR1" BY CallKept
<1>1. ASSUME UNCHANGED <<manifest, temp>>, After, pc \in {"flush", "check", "verify"}
      PROVE  SolidFile(temp)'
  BY <1>0, <1>1 DEF SolidOK, SolidFile, UniqueCount
<1>2. CASE ~EncoderStep BY <1>1, <1>2, OthersKeepWork DEF work
<1>3. CASE EncoderStep
  <2>0. SolidStep BY <1>0, <1>3 DEF EncoderStep, SessionRaised, Cleanup, After, Live, Working, Running
  <2>f. \A error : ~FailWith(error) BY DEF FailWith, Cleanup
  <2>1. pc # "session" => After BY SnapshotKinds
  <2>2. CASE Start \/ SessionCaptured \/ Scan \/ SolidBuilt \/ SolidPublish
    BY <2>2, <2>f DEF Start, SessionCaptured, Scan, ScanInput, ScanDirectoryEntry, ScanOpen, ScanChunk,
       ScanClose, SolidBuilt, SolidPublish, Replaced
  <2>3. CASE SolidWrite
    <3>1. /\ UNCHANGED manifest
          /\ temp' = [state |-> "open",
                      archive |-> [unique |-> UniqueCount, manifest |-> manifest,
                                   frames |-> <<SolidPayload(manifest)>>]]
      BY <2>3 DEF SolidWrite, OpenTemporary
    <3> QED BY <3>1 DEF SolidFile, UniqueCount
  <2>4. CASE SolidFlush
    <3>1. pc = "flush" /\ UNCHANGED manifest /\ temp' = [temp EXCEPT !.state = "synced"]
      BY <2>4 DEF SolidFlush, Synced, work
    <3>2. SolidFile(temp) BY <1>0, <2>1, <3>1 DEF SolidOK
    <3> DEFINE a == [unique |-> UniqueCount, manifest |-> manifest,
                     frames |-> <<SolidPayload(manifest)>>]
    <3>3. PICK s : temp = [state |-> s, archive |-> a] BY <3>2 DEF SolidFile
    <3>4. a' = a BY <3>1 DEF UniqueCount
    <3> HIDE DEF a
    <3>5. temp' = [state |-> "synced", archive |-> a] BY <3>1, <3>3
    <3>6. \E t : temp' = [state |-> t, archive |-> a'] BY <3>4, <3>5
    <3> QED BY <3>6 DEF SolidFile, a
  <2>5. CASE SolidVerify
    <3>1. pc = "check" /\ UNCHANGED <<manifest, temp>>
      BY <2>5 DEF SolidVerify, VerifyBindings, work, output
    <3> QED BY <1>1, <2>1, <3>1
  <2> QED BY <2>0, <2>2, <2>3, <2>4, <2>5 DEF SolidStep
<1> QED BY <1>2, <1>3

(* What a verified MSR1 archive is.                                          *)
LEMMA SolidFinished ==
    ASSUME format = "MSR1", After, pc = "verify", TableOK, SolidOK, MaxChunk = 1,
           PathsCanonical(manifest), ShapeOK(manifest)
    PROVE  SolidWhole(temp.archive) /\ temp.archive.manifest = manifest
<1>1. ScanGood(manifest.entries, manifest.chunks, <<>>) BY DEF TableOK, Tables, Scanning, Scanned
<1>2. SolidFile(temp) BY DEF SolidOK
<1> DEFINE a == temp.archive
<1>3. a.manifest = manifest /\ a.unique = UniqueCount /\ a.frames = <<SolidPayload(manifest)>>
  BY <1>2 DEF SolidFile
<1> HIDE DEF a
<1>4. SolidWhole(a) BY <1>1, <1>3, SolidStored DEF UniqueCount
<1> QED BY <1>3, <1>4 DEF a

-----------------------------------------------------------------------------
(* MSR2.                                                                     *)

Payloads == [l \in Lanes |-> Payload(l)]
LaneMetadata == CompactMetadata(manifest, Assignments(manifest), FrameCounts, LaneCodec)

(* The frames of the first n lanes follow the metadata.                      *)
LanesFile(file, n, count, md, fc, pay) ==
    \E s, frames : /\ file = [state |-> s, archive |-> [unique |-> count, frames |-> frames,
                                                        metadata |-> md]]
                   /\ Laid(frames, n, fc, pay)

LanesIn(file, n) == LanesFile(file, n, UniqueCount, LaneMetadata, FrameCounts, Payloads)

LanesOK ==
    format = "MSR2" /\ After =>
        /\ pc = "lanes" => ix \in 0 .. 3 /\ LanesIn(temp, ix)
        /\ pc \in {"check", "verify"} => LanesIn(temp, 3)

(* They depend on the manifest alone.                                        *)
LEMMA LanesKept ==
    ASSUME UNCHANGED manifest
    PROVE  UNCHANGED <<UniqueCount, FrameCounts, Payloads, LaneMetadata>>
  BY DEF UniqueCount, FrameCounts, Payloads, LaneMetadata, LaneCodec, Payload, LaneContent

(* The frame counts are those of the payloads.                               *)
LEMMA LanesCounted ==
    ASSUME UnitTable(manifest)
    PROVE  FramesTotal(FrameCounts, Payloads)
<1> SUFFICES ASSUME NEW l \in Lanes
             PROVE  FrameCounts[l] \in Nat /\ FrameCounts[l] = FrameTotal(Len(Payloads[l]))
  BY DEF FramesTotal
<1> DEFINE u == LaneUnits(manifest, Assignments(manifest), l)
           p == Payload(l)
<1>1. SharesOf(manifest, l) BY LaneShares
<1>2. u \in Seq(LaneUnit) BY <1>1 DEF SharesOf
<1>3. p = LanePayload(u, LaneCodec[l]) BY DEF Payload, LaneContent
<1>4. FrameCounts[l] = FrameTotal(Len(p)) /\ Payloads[l] = p BY DEF FrameCounts, Payloads
<1> HIDE DEF u, p
<1>5. 0 \in Nat OBVIOUS
<1>6. FrameTotal(Len(p)) \in Nat BY <1>2, <1>3, <1>5, UnitsEnd, LaneCut
<1> QED BY <1>4, <1>6

(* The archive before a lane is written, and after.                          *)
LEMMA LaneWritten ==
    ASSUME UnitTable(manifest), ix \in Lanes, LanesIn(temp, ix), UNCHANGED manifest,
           temp' = [temp EXCEPT !.archive.frames = @ \o LaneFrames(Payload(ix), ix, Len(@) + 1)]
    PROVE  LanesIn(temp', ix + 1)
<1>1. PICK s, frames :
         /\ temp = [state |-> s, archive |-> [unique |-> UniqueCount, frames |-> frames,
                                              metadata |-> LaneMetadata]]
         /\ Laid(frames, ix, FrameCounts, Payloads)
  BY DEF LanesIn, LanesFile
<1> DEFINE more == frames \o LaneFrames(Payload(ix), ix, Len(frames) + 1)
           n == UniqueCount
           md == LaneMetadata
<1>2. Laid(more, ix + 1, FrameCounts, Payloads)
  <2>1. Laid(frames \o LaneFrames(Payloads[ix], ix, Len(frames) + 1), ix + 1, FrameCounts, Payloads)
    BY <1>1, LanesCounted, LaneAdded
  <2>2. Payloads[ix] = Payload(ix) BY DEF Payloads
  <2> QED BY <2>1, <2>2
<1>3. temp.archive.frames = frames BY <1>1
<1>4. temp' = [temp EXCEPT !.archive.frames = more] BY <1>3
<1>5. temp = [state |-> s, archive |-> [unique |-> n, frames |-> frames, metadata |-> md]]
  BY <1>1
<1> HIDE DEF more, n, md
<1>6. temp' = [state |-> s, archive |-> [unique |-> n, frames |-> more, metadata |-> md]]
  BY <1>4, <1>5
<1> QED BY <1>2, <1>6 DEF LanesIn, LanesFile, n, md

(* Every step keeps LanesOK.                                                 *)
LEMMA LanesOKStep == Staged /\ TableOK /\ LanesOK /\ [Next]_vars => LanesOK'
<1> SUFFICES ASSUME Staged, TableOK, LanesOK, [Next]_vars,
                    format' = "MSR2", After', pc' \in {"lanes", "check", "verify"}
             PROVE  /\ pc' = "lanes" => ix' \in 0 .. 3 /\ LanesIn(temp, ix)'
                    /\ pc' \in {"check", "verify"} => LanesIn(temp, 3)'
  BY DEF LanesOK
<1>0. format = "MSR2" BY CallKept
<1>l. UNCHANGED manifest =>
         /\ \A n : LanesIn(temp', n) /\ n = ix' => LanesIn(temp, ix)'
         /\ LanesIn(temp', 3) => LanesIn(temp, 3)'
  BY LanesKept DEF LanesIn
<1>1. CASE ~EncoderStep
  <2>1. UNCHANGED <<pc, ix, manifest, temp>> /\ After BY <1>1, OthersKeepWork DEF work
  <2> QED BY <1>0, <1>l, <2>1 DEF LanesOK
<1>2. CASE EncoderStep
  <2>0. LanesStep BY <1>0, <1>2 DEF EncoderStep, SessionRaised, Cleanup, After, Live, Working, Running
  <2>f. \A error : ~FailWith(error) BY DEF FailWith, Cleanup
  <2>1. pc # "session" => After BY SnapshotKinds
  <2>2. CASE Start \/ SessionCaptured \/ CreateLanes \/ Scan \/ CompressLanes \/ LanesPublish
             \/ RemoveLanes \/ LanesNotRemoved
    BY <2>2, <2>f DEF Start, SessionCaptured, CreateLanes, Scan, ScanInput, ScanDirectoryEntry, ScanOpen,
       ScanChunk, ScanClose, CompressLanes, LanesPublish, RemoveLanes, LanesNotRemoved, Replaced
  <2>3. CASE WriteMetadata
    <3>1. /\ pc' = "lanes" /\ ix' = 0 /\ UNCHANGED manifest
          /\ temp' = [state |-> "open", archive |-> [unique |-> UniqueCount, frames |-> <<>>,
                                                     metadata |-> LaneMetadata]]
      BY <2>3 DEF WriteMetadata, OpenTemporary, LaneMetadata
    <3>2. Laid(<<>>, 0, FrameCounts, Payloads) BY NothingLaid
    <3>3. LanesIn(temp', 0) BY <3>1, <3>2 DEF LanesIn, LanesFile
    <3>4. LanesIn(temp, ix)' BY <1>l, <3>1, <3>3
    <3> QED BY <3>1, <3>4
  <2>4. CASE WriteLane
    <3>1. /\ pc = "lanes" /\ pc' = "lanes" /\ ix \in Lanes /\ ix' = ix + 1 /\ UNCHANGED manifest
          /\ temp' = [temp EXCEPT !.archive.frames = @ \o LaneFrames(Payload(ix), ix, Len(@) + 1)]
      BY <2>4 DEF WriteLane
    <3>2. After BY <2>1, <3>1
    <3>3. LanesIn(temp, ix) BY <1>0, <3>1, <3>2 DEF LanesOK
    <3>4. UnitTable(manifest)
      BY <1>0, <3>1, <3>2 DEF TableOK, Tables, Scanning, Scanned, ScanGood, TableDirect, UnitTable
    <3>5. LanesIn(temp', ix + 1) BY <3>1, <3>3, <3>4, LaneWritten
    <3>6. LanesIn(temp, ix)' BY <1>l, <3>1, <3>5
    <3>7. ix' \in 0 .. 3 BY <3>1 DEF Lanes
    <3> QED BY <3>1, <3>6, <3>7
  <2>5. CASE LanesFlush
    <3>1. /\ pc = "lanes" /\ pc' = "check" /\ ix \notin Lanes /\ UNCHANGED manifest
          /\ temp' = [temp EXCEPT !.state = "synced"]
      BY <2>5 DEF LanesFlush, Synced, work
    <3>2. After BY <2>1, <3>1
    <3>3. ix \in 0 .. 3 /\ LanesIn(temp, ix) BY <1>0, <3>1, <3>2 DEF LanesOK
    <3>4. ix = 3 BY <3>1, <3>3 DEF Lanes
    <3>5. LanesIn(temp, 3) BY <3>3, <3>4
    <3>6. LanesIn(temp', 3)
      <4>1. PICK s, frames :
               /\ temp = [state |-> s, archive |-> [unique |-> UniqueCount, frames |-> frames,
                                                    metadata |-> LaneMetadata]]
               /\ Laid(frames, 3, FrameCounts, Payloads)
        BY <3>5 DEF LanesIn, LanesFile
      <4>2. temp' = [state |-> "synced", archive |-> [unique |-> UniqueCount, frames |-> frames,
                                                      metadata |-> LaneMetadata]]
        BY <3>1, <4>1
      <4> QED BY <4>1, <4>2 DEF LanesIn, LanesFile
    <3> QED BY <1>l, <3>1, <3>6
  <2>6. CASE LanesVerify
    <3>1. pc = "check" /\ pc' = "verify" /\ UNCHANGED <<manifest, temp>>
      BY <2>6 DEF LanesVerify, VerifyBindings, work, output
    <3>2. LanesIn(temp, 3) BY <1>0, <2>1, <3>1 DEF LanesOK
    <3> QED BY <1>l, <3>1, <3>2
  <2> QED BY <2>0, <2>2, <2>3, <2>4, <2>5, <2>6 DEF LanesStep
<1> QED BY <1>1, <1>2

(* A chosen codec is one the parser accepts for the lane.                    *)
LEMMA CodecsValid == ASSUME NEW l \in Lanes PROVE LaneCodec[l] \in ValidCodecs[l]
<1>1. LaneCodec[l] = ChosenCodec(LaneContent(l), l) BY DEF LaneCodec
<1>2. \A u : ChosenCodec(u, l) \in {"lzma", "raw", Preferred[l]} BY DEF ChosenCodec
<1>3. {"lzma", "raw", Preferred[l]} \subseteq ValidCodecs[l] BY DEF Preferred, ValidCodecs, Codec
<1> QED BY <1>1, <1>2, <1>3

(* What a verified MSR2 archive is.                                          *)
LEMMA LanesFinished ==
    ASSUME format = "MSR2", After, pc = "verify", TableOK, LanesOK, MaxChunk = 1,
           PathsCanonical(manifest), ShapeOK(manifest),
           \A l \in Lanes : temp.archive.metadata.frameCounts[l] <= MaxLaneFrames
    PROVE  LanesWhole(temp.archive) /\ Expanded(temp.archive.metadata) = manifest
<1> DEFINE a == temp.archive
<1>1. manifest \in MadeManifest /\ ScanGood(manifest.entries, manifest.chunks, <<>>)
  BY DEF TableOK, Tables, Scanning, Scanned, Typed
<1>2. LanesIn(temp, 3) BY DEF LanesOK
<1>3. /\ a.unique = UniqueCount /\ a.metadata = LaneMetadata
      /\ Laid(a.frames, 3, FrameCounts, Payloads)
  <2>1. PICK s, frames : /\ temp = [state |-> s, archive |-> [unique |-> UniqueCount,
                                                              frames |-> frames,
                                                              metadata |-> LaneMetadata]]
                         /\ Laid(frames, 3, FrameCounts, Payloads)
    BY <1>2 DEF LanesIn, LanesFile
  <2>2. a = [unique |-> UniqueCount, frames |-> frames, metadata |-> LaneMetadata] BY <2>1
  <2> HIDE DEF a
  <2>3. a.frames = frames /\ a.unique = UniqueCount /\ a.metadata = LaneMetadata BY <2>2
  <2> QED BY <2>1, <2>3
<1>4. a.metadata = CompactMetadata(manifest, Assignments(manifest), FrameCounts, LaneCodec)
  BY <1>3 DEF LaneMetadata
<1>5. a.metadata.frameCounts = FrameCounts BY <1>4 DEF CompactMetadata
<1>6. \A l \in Lanes : FrameCounts[l] <= MaxLaneFrames BY <1>5
<1>7. \A l \in Lanes :
         Payloads[l] = LanePayload(LaneUnits(manifest, Assignments(manifest), l), LaneCodec[l])
  BY DEF Payloads, Payload, LaneContent
<1>8. FramesTotal(FrameCounts, Payloads)
  <2>1. UnitTable(manifest) BY <1>1 DEF ScanGood, TableDirect, UnitTable
  <2> QED BY <2>1, LanesCounted
<1>9. \A l \in Lanes :
         /\ Payloads[l] = LanePayload(LaneUnits(manifest, Assignments(manifest), l), LaneCodec[l])
         /\ LaneCodec[l] \in ValidCodecs[l] /\ FrameCounts[l] <= MaxLaneFrames
  BY <1>6, <1>7, CodecsValid
<1> HIDE DEF a
<1>10. a.unique = Cardinality(Unique(manifest.chunks)) BY <1>3 DEF UniqueCount
<1>11. LanesWhole(a) /\ Expanded(a.metadata) = manifest
  BY <1>1, <1>3, <1>4, <1>8, <1>9, <1>10, LanesStored
<1> QED BY <1>11 DEF a

-----------------------------------------------------------------------------
(* The archive at the moment of publication.                                 *)

ContentInv ==
    /\ format \in Format
    /\ TableOK /\ DedupWritten /\ RowsOK /\ StreamWritten /\ SingleOK /\ SolidOK /\ LanesOK

(* No lane of an archive has more frames than the decoder reads: the encoder *)
(* of MSR2 does not look.                                                    *)
WithinLanes(a) ==
    format = "MSR2" => \A l \in Lanes : a.metadata.frameCounts[l] <= MaxLaneFrames
WithinLaneLimit == Published => WithinLanes(dest.archive)

(* What PublishedWhole says of the archive at the destination.               *)
Decodable(a) ==
    /\ WholeArchive(a) /\ ParentsFirst(ManifestOf(a))
    /\ format # "MSC1" => PathsUsable(ManifestOf(a))

LEMMA ArchiveFinished ==
    ASSUME EncodersInv, ContentInv, After, pc = "verify", WithinLanes(temp.archive)
    PROVE  Decodable(temp.archive)
<1> SUFFICES /\ WholeArchive(temp.archive) /\ ParentsFirst(ManifestOf(temp.archive))
             /\ format # "MSC1" => PathsUsable(ManifestOf(temp.archive))
  BY DEF Decodable
<1>0. MaxChunk = 1 BY FormatAssumption
<1>1. CASE format = "MSC1"
  <2>1. SingleWhole(temp.archive) /\ ParentsFirst(temp.archive.manifest)
    BY <1>0, <1>1, SingleFinished DEF ContentInv
  <2> QED BY <1>1, <2>1 DEF WholeArchive, ManifestOf
<1>2. CASE format # "MSC1"
  <2>0. format \in Format BY DEF ContentInv
  <2>1. Scanned /\ EntriesMade(Len(Entries)) /\ SessionInv /\ Snapped
    BY DEF EncodersInv, Manifested, Scanned
  <2>2. Typed /\ ClashFree(Len(Entries))
    BY <1>2, <2>0, <2>1 DEF Format, ContentInv, TableOK, RowsOK, Tables, Scanning
  <2>3. /\ PathsCanonical(manifest) /\ ShapeOK(manifest)
        /\ ParentsFirst(manifest) /\ PathsUsable(manifest)
    BY <1>2, <2>1, <2>2, PathsHold
  <2>4. CASE format = "MSC2"
    <3>1. StreamWhole(temp.archive) /\ temp.archive.manifest = manifest
      BY <1>0, <2>3, <2>4, StreamFinished DEF ContentInv
    <3> QED BY <2>3, <2>4, <3>1 DEF WholeArchive, ManifestOf
  <2>5. CASE format = "MSC6"
    <3>1. Whole(temp.archive) /\ temp.archive.manifest = manifest
      BY <1>0, <2>3, <2>5, DedupFinished DEF ContentInv
    <3> QED BY <2>3, <2>5, <3>1 DEF WholeArchive, ManifestOf
  <2>6. CASE format = "MSR1"
    <3>1. SolidWhole(temp.archive) /\ temp.archive.manifest = manifest
      BY <1>0, <2>3, <2>6, SolidFinished DEF ContentInv
    <3> QED BY <2>3, <2>6, <3>1 DEF WholeArchive, ManifestOf
  <2>7. CASE format = "MSR2"
    <3>1. \A l \in Lanes : temp.archive.metadata.frameCounts[l] <= MaxLaneFrames
      BY <2>7 DEF WithinLanes
    <3>2. LanesWhole(temp.archive) /\ Expanded(temp.archive.metadata) = manifest
      BY <1>0, <2>3, <2>7, <3>1, LanesFinished DEF ContentInv
    <3> QED BY <2>3, <2>7, <3>2 DEF WholeArchive, ManifestOf
  <2> QED BY <1>2, <2>0, <2>4, <2>5, <2>6, <2>7 DEF Format
<1> QED BY <1>1, <1>2

(* Every step keeps PublishedWhole.                                          *)
LEMMA PublishedWholeStep ==
    EncodersInv /\ ContentInv /\ (WithinLaneLimit => PublishedWhole) /\ [Next]_vars
        => (WithinLaneLimit => PublishedWhole)'
<1> SUFFICES ASSUME EncodersInv, ContentInv, WithinLaneLimit => PublishedWhole, [Next]_vars,
                    WithinLaneLimit', Published'
             PROVE  Decodable(dest.archive)'
  BY DEF PublishedWhole, Decodable
<1>0. format' = format BY DestinationKinds DEF EncodersInv
<1>1. WithinLanes(dest'.archive) BY <1>0 DEF WithinLaneLimit, WithinLanes
<1>2. CASE Published /\ UNCHANGED dest
  <2>1. WithinLaneLimit BY <1>1, <1>2 DEF WithinLaneLimit
  <2>2. Decodable(dest.archive) BY <1>2, <2>1 DEF PublishedWhole, Decodable
  <2> QED BY <1>0, <1>2, <2>2 DEF Decodable, WholeArchive, ManifestOf
<1>3. CASE pc = "verify" /\ spc = "verified" /\ dest' = temp
  <2>1. After BY <1>3 DEF After, Live, Working, Running
  <2>2. WithinLanes(temp.archive) BY <1>1, <1>3
  <2>3. Decodable(temp.archive) BY <1>3, <2>1, <2>2, ArchiveFinished
  <2> QED BY <1>0, <1>3, <2>3 DEF Decodable, WholeArchive, ManifestOf
<1> QED BY <1>2, <1>3, DestinationKinds DEF EncodersInv

(* What the five encoders keep at every step of every call: the manifest is  *)
(* the record of exactly what has been read so far, and the temporary file   *)
(* holds exactly the frames of the chunks read again so far, or of the lanes *)
(* written so far.                                                           *)
THEOREM ContentInvariant == Spec => []ContentInv
<1>0. MaxChunk = 1 BY FormatAssumption
<1>1. Init => ContentInv
  BY EncodeAssumption DEF Init, ContentInv, TableOK, DedupWritten, RowsOK, StreamWritten, SingleOK, SolidOK, LanesOK,
     After
<1>2. EncodersInv /\ ContentInv /\ [Next]_vars => ContentInv'
  <2> SUFFICES ASSUME EncodersInv, ContentInv, [Next]_vars PROVE ContentInv' OBVIOUS
  <2>1. TableOK' /\ DedupWritten' BY TableOKStep, DedupWrittenStep DEF EncodersInv, ContentInv
  <2>2. RowsOK' /\ StreamWritten'
    BY <1>0, RowsOKStep, StreamWrittenStep DEF EncodersInv, ContentInv
  <2>3. SingleOK' BY SingleOKStep DEF EncodersInv, ContentInv
  <2>4. SolidOK' /\ LanesOK' BY SolidOKStep, LanesOKStep DEF EncodersInv, ContentInv
  <2>5. format' \in Format BY CallKept DEF EncodersInv, ContentInv
  <2> QED BY <2>1, <2>2, <2>3, <2>4, <2>5 DEF ContentInv
<1> QED BY <1>1, <1>2, EncodersInvariant, PTL DEF Spec

(* What the five encoders replace the destination with is whole, for every   *)
(* source, whatever others do to it during the call, and whatever faults and *)
(* kills come before: the decoder's rules accept every record of the         *)
(* manifest, every digest is that of the chunks it covers, every frame is    *)
(* there in its place and the lanes give back every chunk, a directory comes *)
(* before what it holds, and no entry has a name that is unsafe or that      *)
(* clashes with another.                                                     *)
THEOREM PublishedWholeHolds == Spec => [](WithinLaneLimit => PublishedWhole)
<1>1. Init => (WithinLaneLimit => PublishedWhole) BY DEF Init, PublishedWhole, Published, NoFile
<1>2. EncodersInv /\ ContentInv /\ (WithinLaneLimit => PublishedWhole) /\ [Next]_vars
         => (WithinLaneLimit => PublishedWhole)'
  BY PublishedWholeStep
<1> QED BY <1>1, <1>2, EncodersInvariant, ContentInvariant, PTL DEF Spec
=============================================================================
