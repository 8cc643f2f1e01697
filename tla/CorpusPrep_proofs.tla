-------------------------- MODULE CorpusPrep_proofs ---------------------------
(* What holds of CorpusPrep for every number of directories, names, files,   *)
(* blocks and changes, and from every tree of files it may find.  The        *)
(* interference of other programs is dealt with once, in ChangeEffect; after *)
(* that there is one lemma for each statement of the process.                *)
EXTENDS CorpusPrep, FiniteSetTheorems, TLAPS

-----------------------------------------------------------------------------
(* The inductive invariant. *)

Planning == {"lstatPlan", "openPlan", "readPlan", "rereadPlan", "closePlan", "parsePlan"}
Opening == {"openParent", "openSource"}
Unlinked == {"openDest", "create", "read", "flush", "link"}
Linked == {"linked", "stat", "rehash", "syncDir", "named", "statName"}
Committed == {"committed_not_durable", "committed_name_unavailable", "durable"}

Error == {"none", "Plan", "Blocked", "Incomplete", "Preparation", "OSError", "Exception",
          "Interrupt", "NotCommitted", "NameUnavailable", "OutcomeUnknown", "Durability", "Group",
          "Cleanup"}

Named(i) == \E d \in Dir, n \in Name : entry[d][n] = i

(* No name stands for a file that was never made, and no stamp is later than *)
(* the clock, except the one of this process's own link.                     *)
FilesKept ==
    /\ FilesTypeOK
    /\ \A d \in Dir, n \in Name : entry[d][n] # NoIno => file[entry[d][n]].kind # "free"
    /\ \A i \in Ino : /\ file[i].mtime <= changes
                      /\ file[i].ctime <= changes \/ file[i].ctime = MaxChanges + 1

Stat == [ino : Ino \cup {NoIno}, kind : {"none", "free", "file", "link"}, links : Nat, size : Nat,
         mtime : Nat, ctime : Nat]

Call ==
    [pc : Planning \cup Opening \cup Unlinked \cup Linked
          \cup {"linkat", "seal", "idle", "handler", "close", "off"},
     op : {"verify", "prepare", "reopen", "none"}, fd : [Role -> Ino \cup Dir \cup {NoIno}],
     meta : Stat, base : Stat, got : Seq(Block), raw : Seq(Block), snap : Seq(Block),
     sealed : BOOLEAN, domain : {"plan", "corpus"}, limit : Int, error : Error, state : States,
     attempted : BOOLEAN]

Typed ==
    /\ c \in Call /\ c.op \in Operations \cup {"none"} /\ calls \in 0 .. MaxOperations
    /\ record \in [name : {"none", "source", "destination"}, dir : Dir \cup {NoIno},
                   ino : Ino \cup {NoIno}]
    /\ told \in [op : Operations \cup {"none"}, error : Error, state : States]
    /\ plan \in [opened : Seq(Block), now : Seq(Block), rewrites : Nat, read : Seq(Block)]
    /\ output \in [dir : Dir \cup {NoIno}, ino : Ino \cup {NoIno}, whole : BOOLEAN]
    /\ certified \in BOOLEAN

(* Which descriptors are open at each point, and on what.                    *)
Held ==
    /\ c.fd["plan"] \in Ino \cup {NoIno} /\ c.fd["source"] \in Ino \cup {NoIno}
    /\ c.fd["temp"] \in Ino \cup {NoIno}
    /\ c.fd["parent"] \in Dir \cup {NoIno} /\ c.fd["destParent"] \in Dir \cup {NoIno}
    /\ c.pc \in {"readPlan", "rereadPlan"} => c.fd["plan"] \in Ino
    /\ c.pc \in {"openSource", "openDest", "create", "read"} => c.fd["parent"] \in Dir
    /\ c.pc \in {"openDest", "create", "read"} => c.fd["source"] \in Ino
    /\ c.pc \in {"create", "flush", "link", "linkat"} \cup Linked => c.fd["destParent"] \in Dir
    /\ c.pc = "read" /\ c.op = "prepare" => c.fd["destParent"] \in Dir
    /\ c.pc \in {"flush", "link", "linkat"} \cup Linked => c.fd["temp"] \in Ino
    /\ c.pc = "read" /\ c.op = "prepare" => c.fd["temp"] \in Ino
    /\ c.attempted => c.fd["temp"] \in Ino
    /\ c.fd["temp"] # NoIno => file[c.fd["temp"]].kind = "file"

(* What is asked for, and when an exception is under way.                    *)
Staged ==
    /\ c.pc \in Planning => c.op \in {"verify", "prepare"}
    /\ c.pc \in {"openDest", "create", "flush", "link", "linkat"} \cup Linked => c.op = "prepare"
    /\ c.pc = "seal" => c.op = "reopen"
    /\ c.pc \in {"idle", "off"} <=> c.op = "none"
    /\ c.op = "reopen" => record.name # "none"
    /\ record.name = "none" => record = NoRecord
    /\ told.op # "none" => c.pc \in {"idle", "off"}
    /\ c.pc \notin {"handler", "close"} => c.error = "none"
    /\ c.pc = "handler" => c.error # "none"

(* What the state and the flag say of the link, at each point.               *)
Truthful ==
    /\ c.op # "prepare" => c.state = "not_committed" /\ ~c.attempted
    /\ c.op = "prepare" /\ c.pc \in Planning \cup Opening \cup Unlinked =>
          output = NoOutput /\ c.state = "not_committed" /\ ~c.attempted
    /\ c.pc = "linkat" => output = NoOutput /\ c.state = "not_committed" /\ c.attempted
    /\ c.pc = "linked" => c.state = "not_committed" /\ c.attempted
    /\ c.pc \in {"stat", "rehash", "syncDir", "named"} => c.state = "committed_not_durable"
    /\ c.pc = "statName" => c.state = "committed_name_unavailable"
    /\ c.pc \in Linked =>
          output = [dir |-> c.fd["destParent"], ino |-> c.fd["temp"], whole |-> TRUE]
    /\ c.state \in Committed => output # NoOutput
    /\ c.pc = "handler" => c.state # "commit_outcome_unknown"
    /\ c.pc = "handler" /\ c.op = "prepare" /\ c.state = "not_committed" =>
          output = NoOutput \/ (c.attempted /\ c.error # "NotCommitted")
    /\ c.pc = "close" /\ c.op = "prepare" /\ c.state = "not_committed" => output = NoOutput
    /\ c.fd["temp"] # NoIno /\ output = NoOutput => ~Named(c.fd["temp"])
    /\ StateTruthful

(* What is on the disk when the link is made and when it is certified.       *)
Lasting ==
    /\ output # NoOutput => output.whole /\ output.dir \in Dir /\ output.ino \in Ino
    /\ c.op = "prepare" /\ c.pc \in {"read", "flush", "link", "linkat"} =>
          file[c.fd["temp"]].mtime = 0
    /\ c.pc \in {"link", "linkat"} => file[c.fd["temp"]].data = Expected
    /\ c.pc \in {"link", "linkat"} \cup Linked => flushed[c.fd["temp"]] = Expected
    /\ c.pc \in Linked /\ ~coarse /\ file[c.fd["temp"]].mtime = 0 =>
          file[c.fd["temp"]].data = Expected
    /\ c.pc \in {"rehash", "syncDir", "named", "statName"} =>
          /\ c.base.ino = c.fd["temp"] /\ c.base.mtime = 0
          /\ c.base.ctime <= changes \/ c.base.ctime = MaxChanges + 1
    /\ c.pc \in {"named", "statName"} /\ ~coarse /\ file[c.fd["temp"]].ctime = c.base.ctime
          /\ entry[c.fd["destParent"]]["destination"] = c.fd["temp"] =>
             onDisk[c.fd["destParent"]]["destination"] = c.fd["temp"]
    /\ certified => output # NoOutput /\ (c.op = "prepare" => c.pc = "close")
    /\ c.pc # "off" /\ certified /\ ~coarse =>
          /\ entry[output.dir]["destination"] = output.ino
          /\ onDisk[output.dir]["destination"] = output.ino
          /\ file[output.ino].data = Expected /\ flushed[output.ino] = Expected
    /\ DurableSurvives

(* What a reopening has read, and what it has put into its memory file.      *)
Copied ==
    /\ c.op = "reopen" /\ c.pc \in Opening => c.got = <<>> /\ c.snap = <<>>
    /\ c.op = "reopen" /\ c.pc = "read" => c.snap = c.got
    /\ c.pc = "seal" => c.snap = Expected
    /\ c.op = "reopen" /\ c.pc = "close" /\ c.error = "none" => c.sealed /\ c.snap = Expected
    /\ SnapshotExact

(* The text read of the plan starts what it was when it was opened, as long  *)
(* as the stamp of the file is still the same.                               *)
Prefix(p) ==
    /\ c.meta.ino = p /\ file[p].kind # "free" /\ c.meta.mtime <= file[p].mtime
    /\ ~coarse /\ c.meta.mtime = file[p].mtime =>
          /\ file[p].data = plan.opened
          /\ Len(c.got) <= Len(plan.opened)
          /\ \A i \in 1 .. Len(c.got) : c.got[i] = plan.opened[i]

Begins(got, text) == Len(got) <= Len(text) /\ \A i \in 1 .. Len(got) : got[i] = text[i]

(* Whatever the clock says: of a plan rewritten once, either the first read  *)
(* returned the old text, or the second reads only the new one.              *)
Versions(p) ==
    /\ file[p].data = plan.now
    /\ plan.rewrites = 0 =>
          /\ plan.now = plan.opened /\ Begins(c.got, plan.opened)
          /\ c.pc = "rereadPlan" => c.raw = plan.opened
    /\ plan.rewrites = 1 /\ c.pc = "rereadPlan" =>
          c.raw = plan.opened \/ Begins(c.got, plan.now)

(* What is read of the plan is part of what it was when it was opened, as    *)
(* long as its timestamp says that nobody wrote to it.                       *)
PlanHeld ==
    /\ c.pc \in {"lstatPlan", "openPlan", "readPlan", "rereadPlan"} => plan.read = <<>>
    /\ c.pc \in {"openPlan", "readPlan", "rereadPlan"} =>
          c.meta.kind = "file" /\ c.meta.mtime <= changes
    /\ c.pc \in {"lstatPlan", "openPlan"} => c.got = <<>>
    /\ c.pc \in {"readPlan", "rereadPlan"} => Prefix(c.fd["plan"]) /\ Versions(c.fd["plan"])
    /\ PlanAsRead

Over == DurableSurvives /\ PlanAsRead /\ (output # NoOutput => output.whole)

Running ==
    FilesKept /\ Typed /\ Held /\ Staged /\ Truthful /\ Lasting /\ Copied /\ PlanHeld

PrepInv == FilesTypeOK /\ Typed /\ (c.pc = "off" => Over) /\ (c.pc # "off" => Running)

-----------------------------------------------------------------------------
(* What is done to the files. *)

(* A file has a name exactly if its link count is not zero.                  *)
LEMMA LinkCount == \A i : Links(i) \in Nat /\ (Links(i) > 0 <=> Named(i))
<1> SUFFICES ASSUME NEW i PROVE Links(i) \in Nat /\ (Links(i) > 0 <=> Named(i)) OBVIOUS
<1> DEFINE S == {b \in Dir \X Name : entry[b[1]][b[2]] = i}
<1>1. IsFiniteSet(Dir \X Name) BY FS_Product, FilesAssumption
<1>2. S \subseteq Dir \X Name OBVIOUS
<1>3. IsFiniteSet(S) BY <1>1, <1>2, FS_Subset
<1>4. Cardinality(S) \in Nat /\ (Cardinality(S) = 0 <=> S = {})
  BY <1>3, FS_CardinalityType, FS_EmptySet
<1>5. S # {} => Named(i) BY DEF Named
<1>5a. ASSUME NEW d \in Dir, NEW n \in Name, entry[d][n] = i PROVE S # {}
  <2>1. <<d, n>> \in S BY <1>5a
  <2> QED BY <2>1
<1>5b. S # {} <=> Named(i) BY <1>5, <1>5a DEF Named
<1>6. Links(i) = Cardinality(S) BY DEF Links
<1> QED BY <1>4, <1>5b, <1>6

(* Other programs write only to files that have names, and leave a stamp     *)
(* unless the clock stands still.                                            *)
Written == \A i \in Ino :
    /\ file'[i].kind = file[i].kind \/ file[i].kind = "free"
    /\ file'[i].mtime \in {file[i].mtime, changes + 1}
    /\ file'[i].ctime \in {file[i].ctime, changes + 1}
    /\ file[i].kind # "free" /\ file'[i].data # file[i].data =>
          Named(i) /\ (~coarse => file'[i].mtime = changes + 1)
    /\ ~Named(i) /\ file[i].kind # "free" => file'[i] = file[i]

(* They name only files that have names, or are new.                         *)
Bound == \A d \in Dir, n \in Name : entry'[d][n] # NoIno /\ entry'[d][n] # entry[d][n] =>
    \/ file[entry'[d][n]].kind = "free" /\ file'[entry'[d][n]].kind # "free"
    \/ Named(entry'[d][n]) /\ (~coarse => file'[entry'[d][n]].ctime = changes + 1)

(* A stamp changes nothing but the time of the last change.                  *)
LEMMA StampedFile ==
    ASSUME NEW f \in Inode, NEW moves \in BOOLEAN, changes + 1 \in 0 .. MaxChanges
    PROVE  LET g == Stamped(f, moves) IN
           /\ g \in Inode /\ g.kind = f.kind /\ g.data = f.data /\ g.mtime = f.mtime
           /\ g.ctime = IF moves THEN changes + 1 ELSE f.ctime
BY FilesAssumption DEF Stamped, Inode

(* FilesKept survives what touches one file and names only files that exist. *)
LEMMA KeptAfter ==
    ASSUME FilesKept, FilesTypeOK', NEW i \in Ino, NEW moves \in BOOLEAN,
           changes + 1 \in 0 .. MaxChanges, changes' = changes + 1,
           file' \in [Ino -> Inode], \A j \in Ino \ {i} : file'[j] = file[j],
           file'[i].kind = file[i].kind,
           file'[i].mtime \in {file[i].mtime, changes + 1},
           file'[i].ctime \in {file[i].ctime, changes + 1},
           \A d \in Dir, n \in Name : entry'[d][n] # NoIno => file[entry'[d][n]].kind # "free"
    PROVE  FilesKept'
<1> USE FilesAssumption
<1>a. file \in [Ino -> Inode] /\ changes \in 0 .. MaxChanges BY DEF FilesKept, FilesTypeOK
<1>d. entry' \in [Dir -> [Name -> Ino \cup {NoIno}]] BY DEF FilesTypeOK
<1>1. \A d \in Dir, n \in Name : entry'[d][n] # NoIno => file'[entry'[d][n]].kind # "free"
  BY <1>d
<1>2. \A j \in Ino : /\ file'[j].mtime <= changes'
                     /\ file'[j].ctime <= changes' \/ file'[j].ctime = MaxChanges + 1
  <2> SUFFICES ASSUME NEW j \in Ino
               PROVE  /\ file'[j].mtime <= changes'
                      /\ file'[j].ctime <= changes' \/ file'[j].ctime = MaxChanges + 1
    OBVIOUS
  <2>1. file[j].mtime \in Nat /\ file[j].ctime \in Nat
    <3> HIDE FilesAssumption
    <3>1. file[j] \in Inode BY <1>a
    <3>2. MaxChanges \in Nat BY FilesAssumption
    <3> QED BY <3>1, <3>2 DEF Inode
  <2>2. file[j].mtime <= changes /\ (file[j].ctime <= changes \/ file[j].ctime = MaxChanges + 1)
    BY DEF FilesKept
  <2> QED BY <1>a, <2>1, <2>2
<1> QED BY <1>1, <1>2 DEF FilesKept

(* Writing to a file that has a name.                                        *)
LEMMA WriteEffect ==
    ASSUME FilesKept, NEW i \in Ino, NEW data \in Contents, NEW moves \in Moves,
           changes' \in 0 .. MaxChanges, changes' = changes + 1,
           Write(i, data, moves), UNCHANGED <<onDisk, flushed, coarse>>
    PROVE  FilesKept' /\ Written /\ Bound
<1> USE FilesAssumption
<1>1. moves \in BOOLEAN /\ (~coarse => moves) /\ data \in Seq(Block) BY DEF Moves
<1>2. Named(i) BY LinkCount DEF Write
<1> DEFINE old == file[i]
           stamp == IF moves THEN changes + 1 ELSE old.mtime
           wrote == [old EXCEPT !.data = data, !.mtime = stamp]
           new == Stamped(wrote, moves)
<1>a. file \in [Ino -> Inode] /\ changes \in 0 .. MaxChanges BY DEF FilesKept, FilesTypeOK, Inode
<1>b. old \in Inode BY <1>a
<1>c. wrote \in Inode /\ wrote.kind = old.kind /\ wrote.data = data /\ wrote.mtime = stamp
      /\ wrote.ctime = old.ctime
  BY <1>1, <1>a, <1>b DEF Inode
<1>d. new \in Inode /\ new.kind = old.kind /\ new.data = data /\ new.mtime = stamp
      /\ new.ctime = (IF moves THEN changes + 1 ELSE old.ctime)
  <2>1. changes + 1 \in 0 .. MaxChanges BY <1>a
  <2> HIDE DEF wrote
  <2> QED BY <1>1, <1>c, <2>1, StampedFile
<1>e. file' = [file EXCEPT ![i] = new] BY Zenon DEF Write
<1> HIDE DEF new
<1>3. /\ file'[i].kind = file[i].kind /\ file'[i].data = data
      /\ file'[i].mtime = (IF moves THEN changes + 1 ELSE file[i].mtime)
      /\ file'[i].ctime = (IF moves THEN changes + 1 ELSE file[i].ctime)
      /\ \A j \in Ino \ {i} : file'[j] = file[j]
  BY <1>a, <1>d, <1>e
<1>4. file' \in [Ino -> Inode] BY <1>a, <1>d, <1>e
<1>5. FilesTypeOK' BY <1>4 DEF Write, FilesKept, FilesTypeOK, Inode
<1>6. FilesKept'
  <2>1. \A d \in Dir, n \in Name : entry'[d][n] # NoIno => file[entry'[d][n]].kind # "free"
    BY DEF Write, FilesKept
  <2> QED BY <1>1, <1>3, <1>4, <1>5, <1>a, <2>1, KeptAfter
<1>7. Written BY <1>1, <1>2, <1>3 DEF FilesKept, FilesTypeOK, Written
<1>8. Bound BY DEF Bound, Write
<1> QED BY <1>6, <1>7, <1>8

(* Removing a name.                                                          *)
LEMMA UnlinkEffect ==
    ASSUME FilesKept, NEW d \in Dir, NEW n \in Name, NEW moves \in Moves,
           changes' \in 0 .. MaxChanges, changes' = changes + 1,
           Unlink(d, n, moves), UNCHANGED <<onDisk, flushed, coarse>>
    PROVE  FilesKept' /\ Written /\ Bound
<1> USE FilesAssumption
<1> DEFINE i == entry[d][n]
           new == Stamped(file[i], moves)
<1>1. moves \in BOOLEAN /\ changes + 1 \in 0 .. MaxChanges BY DEF Moves
<1>2. i \in Ino /\ Named(i) BY DEF Unlink, FilesKept, FilesTypeOK, Named
<1>a. file \in [Ino -> Inode] /\ changes \in 0 .. MaxChanges BY DEF FilesKept, FilesTypeOK
<1>b. file' = [file EXCEPT ![i] = new] BY DEF Unlink
<1>c. /\ new \in Inode /\ new.kind = file[i].kind /\ new.data = file[i].data
      /\ new.mtime = file[i].mtime /\ new.ctime = IF moves THEN changes + 1 ELSE file[i].ctime
  BY <1>1, <1>2, <1>a, StampedFile
<1>d. /\ entry \in [Dir -> [Name -> Ino \cup {NoIno}]]
      /\ entry' \in [Dir -> [Name -> Ino \cup {NoIno}]]
      /\ \A e \in Dir, m \in Name : entry'[e][m] \in {entry[e][m], NoIno}
  BY DEF Unlink, FilesKept, FilesTypeOK
<1> HIDE DEF new, i
<1>3. /\ file' \in [Ino -> Inode] /\ \A j \in Ino \ {i} : file'[j] = file[j]
      /\ file'[i].kind = file[i].kind /\ file'[i].data = file[i].data
      /\ file'[i].mtime = file[i].mtime
      /\ file'[i].ctime = IF moves THEN changes + 1 ELSE file[i].ctime
  BY <1>2, <1>a, <1>b, <1>c
<1>5. FilesTypeOK' BY <1>3, <1>d DEF Unlink, FilesKept, FilesTypeOK
<1>e. \A e \in Dir, m \in Name : entry'[e][m] # NoIno => file[entry'[e][m]].kind # "free"
  BY <1>d DEF FilesKept
<1>6. FilesKept' BY <1>1, <1>2, <1>3, <1>5, <1>e, KeptAfter
<1>7. Written BY <1>2, <1>3 DEF Written
<1>8. Bound BY <1>d DEF Bound
<1> QED BY <1>6, <1>7, <1>8

(* A second name for a file that has one.                                    *)
LEMMA LinkEffect ==
    ASSUME FilesKept, NEW d \in Dir, NEW n \in Name, NEW i \in Ino, NEW moves \in Moves,
           changes' \in 0 .. MaxChanges, changes' = changes + 1,
           Link(d, n, i, moves), UNCHANGED <<onDisk, flushed, coarse>>
    PROVE  FilesKept' /\ Written /\ Bound
<1> USE FilesAssumption
<1> DEFINE new == Stamped(file[i], moves)
<1>1. moves \in BOOLEAN /\ changes + 1 \in 0 .. MaxChanges /\ (~coarse => moves) BY DEF Moves
<1>2. Named(i) BY LinkCount DEF Link
<1>a. file \in [Ino -> Inode] /\ changes \in 0 .. MaxChanges BY DEF FilesKept, FilesTypeOK
<1>b. file' = [file EXCEPT ![i] = new] BY DEF Link
<1>c. /\ new \in Inode /\ new.kind = file[i].kind /\ new.data = file[i].data
      /\ new.mtime = file[i].mtime /\ new.ctime = IF moves THEN changes + 1 ELSE file[i].ctime
  BY <1>1, <1>2, <1>a, StampedFile
<1>d. /\ entry \in [Dir -> [Name -> Ino \cup {NoIno}]]
      /\ entry' \in [Dir -> [Name -> Ino \cup {NoIno}]]
      /\ \A e \in Dir, m \in Name : entry'[e][m] \in {entry[e][m], i}
  BY DEF Link, FilesKept, FilesTypeOK
<1> HIDE DEF new
<1>3. /\ file' \in [Ino -> Inode] /\ \A j \in Ino \ {i} : file'[j] = file[j]
      /\ file'[i].kind = file[i].kind /\ file'[i].data = file[i].data
      /\ file'[i].mtime = file[i].mtime
      /\ file'[i].ctime = IF moves THEN changes + 1 ELSE file[i].ctime
  BY <1>2, <1>a, <1>b, <1>c
<1>4. file[i].kind # "free" BY <1>2 DEF FilesKept, Named
<1>5. FilesTypeOK' BY <1>3, <1>d DEF Link, FilesKept, FilesTypeOK
<1>e. \A e \in Dir, m \in Name : entry'[e][m] # NoIno => file[entry'[e][m]].kind # "free"
  BY <1>4, <1>d DEF FilesKept
<1>6. FilesKept' BY <1>1, <1>2, <1>3, <1>5, <1>e, KeptAfter
<1>7. Written BY <1>2, <1>3 DEF Written
<1>8. Bound BY <1>1, <1>2, <1>3, <1>d DEF Bound
<1> QED BY <1>6, <1>7, <1>8

(* A new file renamed to a name.                                             *)
LEMMA PlaceEffect ==
    ASSUME FilesKept, NEW d \in Dir, NEW n \in Name, NEW kind \in {"file", "link"},
           NEW data \in Seq(Block), changes' \in 0 .. MaxChanges, changes' = changes + 1,
           Place(d, n, kind, data), UNCHANGED <<onDisk, flushed, coarse>>
    PROVE  FilesKept' /\ Written /\ Bound
<1> USE FilesAssumption
<1> DEFINE new == [kind |-> kind, data |-> data, mtime |-> changes + 1, ctime |-> changes + 1]
<1>1. PICK i \in Ino : /\ file[i].kind = "free" /\ entry' = [entry EXCEPT ![d][n] = i]
                       /\ file' = [file EXCEPT ![i] = new] /\ work' = work
  BY DEF Place
<1>a. file \in [Ino -> Inode] /\ changes \in 0 .. MaxChanges BY DEF FilesKept, FilesTypeOK
<1>c. new \in Inode /\ new.kind # "free" /\ new.mtime = changes + 1 /\ new.ctime = changes + 1
  BY <1>a DEF Inode
<1>d. /\ entry \in [Dir -> [Name -> Ino \cup {NoIno}]]
      /\ entry' \in [Dir -> [Name -> Ino \cup {NoIno}]]
      /\ \A e \in Dir, m \in Name : entry'[e][m] \in {entry[e][m], i}
  BY <1>1 DEF FilesKept, FilesTypeOK
<1> HIDE DEF new
<1>3. /\ file' \in [Ino -> Inode] /\ \A j \in Ino \ {i} : file'[j] = file[j]
      /\ file'[i].kind # "free" /\ file'[i].mtime = changes + 1 /\ file'[i].ctime = changes + 1
  BY <1>1, <1>a, <1>c
<1>5. FilesTypeOK' BY <1>1, <1>3, <1>d DEF FilesKept, FilesTypeOK
<1>6. FilesKept'
  <2>1. \A e \in Dir, m \in Name : entry'[e][m] # NoIno => file'[entry'[e][m]].kind # "free"
    <3> SUFFICES ASSUME NEW e \in Dir, NEW m \in Name, entry'[e][m] # NoIno
                 PROVE  file'[entry'[e][m]].kind # "free"
      OBVIOUS
    <3>1. CASE entry'[e][m] = i BY <1>3, <3>1
    <3>2. CASE entry'[e][m] = entry[e][m] /\ entry[e][m] # i
      <4>1. entry[e][m] \in Ino /\ file[entry[e][m]].kind # "free" BY <1>d, <3>2 DEF FilesKept
      <4> QED BY <1>3, <3>2, <4>1
    <3> QED BY <1>d, <3>1, <3>2
  <2>2. \A j \in Ino : /\ file'[j].mtime <= changes'
                       /\ file'[j].ctime <= changes' \/ file'[j].ctime = MaxChanges + 1
    <3> SUFFICES ASSUME NEW j \in Ino
                 PROVE  /\ file'[j].mtime <= changes'
                        /\ file'[j].ctime <= changes' \/ file'[j].ctime = MaxChanges + 1
      OBVIOUS
    <3>1. file[j].mtime \in Nat /\ file[j].ctime \in Nat BY <1>a DEF Inode
    <3>2. file[j].mtime <= changes /\ (file[j].ctime <= changes \/ file[j].ctime = MaxChanges + 1)
      BY DEF FilesKept
    <3> QED BY <1>3, <1>a, <3>1, <3>2
  <2> QED BY <1>5, <2>1, <2>2 DEF FilesKept
<1>7. Written BY <1>1, <1>3 DEF Written
<1>8. Bound BY <1>1, <1>3, <1>d DEF Bound
<1> QED BY <1>6, <1>7, <1>8

(* Whatever other programs do between two steps, the files stay in order,    *)
(* and who wrote or named anything is seen in the stamps.                    *)
LEMMA ChangeEffect == ASSUME FilesKept, Change PROVE FilesKept' /\ Written /\ Bound
<1>1. /\ changes' \in 0 .. MaxChanges /\ changes' = changes + 1
      /\ UNCHANGED <<onDisk, flushed, coarse>>
  BY FilesAssumption DEF Change, FilesKept, FilesTypeOK
<1>2. CASE \E i \in Ino, data \in Contents, moves \in Moves : Write(i, data, moves)
  BY <1>1, <1>2, WriteEffect
<1>3. CASE \E d \in Dir, n \in Name, moves \in Moves : Unlink(d, n, moves)
  BY <1>1, <1>3, UnlinkEffect
<1>4. CASE \E d \in Dir, n \in Name, moves \in Moves, i \in Ino : Link(d, n, i, moves)
  BY <1>1, <1>4, LinkEffect
<1>5. CASE \E d \in Dir, n \in Name, data \in Contents : Place(d, n, "file", data)
  BY <1>1, <1>5, PlaceEffect, FilesAssumption
<1>6. CASE \E d \in Dir, n \in Name : Place(d, n, "link", <<>>)
  <2>1. <<>> \in Seq(Block) /\ "link" \in {"file", "link"} OBVIOUS
  <2> QED BY <1>1, <1>6, <2>1, PlaceEffect
<1>7. CASE \E d \in Dir \cup {NoIno} : Redirect(d)
  <2>1. work' \in Dir \cup {NoIno} /\ UNCHANGED <<entry, file>> BY <1>7 DEF Redirect
  <2>2. file \in [Ino -> Inode] BY DEF FilesKept, FilesTypeOK
  <2>3. FilesTypeOK' BY <1>1, <2>1 DEF FilesKept, FilesTypeOK
  <2>4. \A j \in Ino : /\ file'[j].mtime <= changes'
                       /\ file'[j].ctime <= changes' \/ file'[j].ctime = MaxChanges + 1
    <3> SUFFICES ASSUME NEW j \in Ino
                 PROVE  /\ file'[j].mtime <= changes'
                        /\ file'[j].ctime <= changes' \/ file'[j].ctime = MaxChanges + 1
      OBVIOUS
    <3>1. file[j].mtime \in Nat /\ file[j].ctime \in Nat /\ changes \in Nat
      BY <2>2, FilesAssumption DEF Inode, FilesKept, FilesTypeOK
    <3>2. file[j].mtime <= changes /\ (file[j].ctime <= changes \/ file[j].ctime = MaxChanges + 1)
      BY DEF FilesKept
    <3> QED BY <1>1, <2>1, <3>1, <3>2, FilesAssumption
  <2>5. FilesKept' BY <2>1, <2>3, <2>4 DEF FilesKept
  <2> QED BY <2>1, <2>2, <2>5 DEF Written, Bound
<1> QED BY <1>2, <1>3, <1>4, <1>5, <1>6, <1>7, Zenon DEF Change

(* Meta returns a stat record.                                               *)
LEMMA MetaStat == ASSUME FilesKept, NEW i \in Ino \cup {NoIno} PROVE Meta(i) \in Stat
<1>1. NoMeta \in Stat BY DEF NoMeta, Stat
<1>2. ASSUME i \in Ino, i # NoIno PROVE Meta(i) \in Stat
  <2>1. file[i] \in Inode BY <1>2 DEF FilesKept, FilesTypeOK
  <2>2. Links(i) \in Nat BY LinkCount
  <2>3. Len(file[i].data) \in Nat /\ file[i].mtime \in Nat /\ file[i].ctime \in Nat
        /\ file[i].kind \in {"none", "free", "file", "link"}
    BY <2>1, FilesAssumption DEF Inode
  <2> QED BY <1>2, <2>2, <2>3 DEF Meta, Stat
<1> QED BY <1>1, <1>2 DEF Meta

(* The empty sequence of blocks.                                             *)
LEMMA EmptySeq == <<>> \in Seq(Block)
OBVIOUS

(* No stat at all is a stat record of its own.                               *)
LEMMA NoMetaStat == NoMeta \in Stat
BY DEF NoMeta, Stat

-----------------------------------------------------------------------------
(* Each statement of the process. *)

(* Most statements change only the locals of the call.                       *)
LEMMA StillTyped ==
    ASSUME Typed, c' \in Call, c'.op = c.op,
           UNCHANGED <<calls, record, told, plan, output, certified>>
    PROVE  Typed'
BY DEF Typed

(* An exception anywhere but in the except clause and in Close.              *)
LEMMA RaiseStep ==
    ASSUME Running, NEW e \in Error, e # "none", c.pc \notin {"idle", "off", "handler", "close"},
           e = "NotCommitted" => c.pc = "linkat", Raise(e)
    PROVE  Running'
<1> USE DEF Planning, Opening, Unlinked, Linked, Committed, Call, NoOutput
<1>c. /\ c \in Call /\ Typed /\ FilesKept /\ Held /\ Staged /\ Truthful
      /\ Lasting /\ Copied /\ PlanHeld
  BY DEF Running, Typed
<1>1. CASE Raise(e)
  <2>1. /\ c' = [c EXCEPT !.pc = "handler", !.error = e]
        /\ UNCHANGED <<work, entry, file, onDisk, flushed, changes, coarse, calls, record, told,
                         plan, output, certified>>
    BY <1>1 DEF Raise, Go, files
  <2>2. c' \in Call BY <1>c, <2>1, EmptySeq DEF Call, Planning, Opening, Unlinked, Linked, States
  <2>3. Typed' /\ FilesKept' /\ Held' /\ Staged'
    BY <1>c, <2>1, <2>2 DEF Typed, FilesKept, FilesTypeOK, Held, Staged
  <2>4. Truthful'
    BY <1>c, <2>1, <2>2 DEF Truthful, StateTruthful, Staged, Named
  <2>5. Copied' /\ PlanHeld'
    BY <1>c, <2>1, <2>2 DEF Copied, SnapshotExact, PlanHeld, PlanAsRead, Prefix
  <2>6. Lasting'
    BY <1>c, <2>1 DEF Lasting, DurableSurvives
  <2> QED BY <2>3, <2>4, <2>5, <2>6 DEF Running
<1> QED BY <1>1

(* The plan is looked at by name: what is noted is a file older than the     *)
(* clock.                                                                    *)
LEMMA LstatPlanStep == ASSUME Running, LstatPlan PROVE Running'
<1> USE DEF Planning, Opening, Unlinked, Linked, Committed, Call, NoOutput
<1>c. /\ c \in Call /\ Typed /\ FilesKept /\ Held /\ Staged /\ Truthful
      /\ Lasting /\ Copied /\ PlanHeld
  BY DEF Running, Typed
<1>i. PICK i \in Ino \cup {NoIno} : i = At("plan")
  BY <1>c, PrepAssumption DEF FilesKept, FilesTypeOK, At
<1>1. CASE c.pc = "lstatPlan" /\ Readable(i) /\ Go([c EXCEPT !.pc = "openPlan", !.meta = Meta(i)])
  <2>1. /\ c.pc = "lstatPlan"
        /\ c' = [c EXCEPT !.pc = "openPlan", !.meta = Meta(i)]
        /\ UNCHANGED <<work, entry, file, onDisk, flushed, changes, coarse, calls, record, told,
                         plan, output, certified>>
    BY <1>1 DEF Go, files
  <2>2. Meta(i) \in Stat /\ Meta(i).kind = "file" /\ Meta(i).mtime <= changes
    BY <1>1, <1>i, <1>c, MetaStat DEF Meta, Readable, Regular, FilesKept
  <2>3. c' \in Call BY <1>c, <2>1, <2>2, EmptySeq DEF Call, Planning, Opening, Unlinked, Linked,
       States
  <2>4. Typed' /\ FilesKept' /\ Held' /\ Staged' /\ Truthful' /\ Copied' /\ PlanHeld'
    BY <1>c, <2>1, <2>2, <2>3 DEF Typed, FilesKept, FilesTypeOK, Held, Staged, Truthful,
         StateTruthful, Named, Copied, SnapshotExact, PlanHeld, Prefix, PlanAsRead
  <2>5. Lasting'
    BY <1>c, <2>1, <2>2 DEF Lasting, DurableSurvives
  <2> QED BY <2>4, <2>5 DEF Running
<1>2. CASE c.pc = "lstatPlan" /\ Raise("Plan")
  <2>1. /\ c.pc \notin {"idle", "off", "handler", "close"} /\ "Plan" # "none"
        /\ "Plan" \in Error /\ ("Plan" = "NotCommitted" => c.pc = "linkat")
    BY <1>2 DEF Error
  <2> QED BY <1>c, <1>2, <2>1, RaiseStep, Zenon
<1> QED BY <1>i, <1>1, <1>2 DEF LstatPlan

(* A call begins with nothing open.                                          *)
LEMMA StartStep == ASSUME Running, Start PROVE Running'
<1> USE DEF Planning, Opening, Unlinked, Linked, Committed, NoOutput
<1>c. /\ c \in Call /\ Typed /\ FilesKept /\ Held /\ Staged /\ Truthful
      /\ Lasting /\ Copied /\ PlanHeld
  BY DEF Running, Typed
<1>1. PICK o \in Operations, limit \in PlanLimits :
        /\ (o = "prepare" => output = NoOutput /\ record = NoRecord)
        /\ (o = "reopen" => record # NoRecord)
        /\ c' = [Idle EXCEPT !.op = o, !.limit = limit, !.pc = IF o = "reopen" THEN "openParent" ELSE "lstatPlan",
                             !.domain = IF o = "reopen" THEN "corpus" ELSE "plan"]
  BY DEF Start
<1>2. /\ c.pc = "idle" /\ calls < MaxOperations /\ calls' = calls + 1
      /\ told' = NoTold /\ plan' = NoPlan
      /\ UNCHANGED <<work, entry, file, onDisk, flushed, changes, coarse, record, output,
                     certified>>
  BY DEF Start, files
<1>3. o \in {"verify", "prepare", "reopen"} /\ MaxOperations \in Nat /\ limit \in Int
  BY PrepAssumption
<1>4. c' \in Call
  <2>1. Idle \in Call BY DEF Idle, Call, NoFds, NoMeta, Stat, Error, States
  <2>2. \A k \in Call : [k EXCEPT !.op = o, !.limit = limit,
                                  !.pc = IF o = "reopen" THEN "openParent" ELSE "lstatPlan",
                                  !.domain = IF o = "reopen" THEN "corpus" ELSE "plan"] \in Call
    <3> SUFFICES ASSUME NEW k \in Call
                 PROVE  [k EXCEPT !.op = o, !.limit = limit,
                                  !.pc = IF o = "reopen" THEN "openParent" ELSE "lstatPlan",
                                  !.domain = IF o = "reopen" THEN "corpus" ELSE "plan"] \in Call
      OBVIOUS
    <3>1. CASE o = "reopen" BY <1>3, <3>1 DEF Call
    <3>2. CASE o # "reopen" BY <1>3, <3>2 DEF Call
    <3> QED BY <3>1, <3>2
  <2> QED BY <1>1, <2>1, <2>2
<1>5. /\ c'.pc = (IF o = "reopen" THEN "openParent" ELSE "lstatPlan") /\ c'.op = o
      /\ c'.fd = NoFds /\ c'.got = <<>> /\ c'.snap = <<>> /\ c'.error = "none"
      /\ c'.state = "not_committed" /\ c'.attempted = FALSE
  BY <1>1 DEF Idle
<1>6. Typed' BY <1>c, <1>2, <1>3, <1>4, <1>5 DEF Typed, NoTold, NoPlan, Error, States
<1>7. FilesKept' BY <1>c, <1>2 DEF FilesKept, FilesTypeOK
<1>8. Held' BY <1>3, <1>5 DEF Held, NoFds, Role
<1>9. Staged' /\ PlanHeld'
  BY <1>c, <1>1, <1>2, <1>3, <1>5 DEF Staged, PlanHeld, PlanAsRead, NoTold, NoPlan
<1>10. Truthful' BY <1>c, <1>1, <1>2, <1>3, <1>5 DEF Truthful, StateTruthful, NoTold, NoFds, Role
<1>11. Lasting' BY <1>c, <1>1, <1>2, <1>3, <1>5 DEF Lasting, DurableSurvives
<1>12. Copied' BY <1>c, <1>1, <1>2, <1>3, <1>5 DEF Copied, SnapshotExact, NoTold
<1> QED BY <1>6, <1>7, <1>8, <1>9, <1>10, <1>11, <1>12 DEF Running

(* The open file is the one looked at, so that its text is of that time.     *)
LEMMA OpenPlanStep == ASSUME Running, OpenPlan PROVE Running'
<1> USE DEF Planning, Opening, Unlinked, Linked, Committed, Call, NoOutput
<1>c. /\ c \in Call /\ Typed /\ FilesKept /\ Held /\ Staged /\ Truthful
      /\ Lasting /\ Copied /\ PlanHeld
  BY DEF Running, Typed
<1>i. PICK i \in Ino \cup {NoIno} : i = At("plan")
  BY <1>c, PrepAssumption DEF FilesKept, FilesTypeOK, At
<1>1. CASE c.pc = "openPlan" /\ Raise("Plan")
  <2>1. /\ c.pc \notin {"idle", "off", "handler", "close"} /\ "Plan" # "none"
        /\ "Plan" \in Error /\ ("Plan" = "NotCommitted" => c.pc = "linkat")
    BY <1>1 DEF Error
  <2> QED BY <1>c, <1>1, <2>1, RaiseStep, Zenon
<1>2. CASE /\ c.pc = "openPlan" /\ i # NoIno /\ c.meta = Meta(i)
           /\ c' = [c EXCEPT !.pc = "readPlan", !.fd["plan"] = i]
           /\ plan' = [NoPlan EXCEPT !.opened = file[i].data, !.now = file[i].data]
           /\ UNCHANGED <<files, calls, record, told, output, certified>>
  <2>1. /\ c.pc = "openPlan"
        /\ c' = [c EXCEPT !.pc = "readPlan", !.fd["plan"] = i]
        /\ plan' = [NoPlan EXCEPT !.opened = file[i].data, !.now = file[i].data]
        /\ UNCHANGED <<work, entry, file, onDisk, flushed, changes, coarse, calls, record, told,
                         output, certified>>
    BY <1>2 DEF files
  <2>2. i \in Ino /\ file[i] \in Inode /\ file[i].kind = c.meta.kind
       /\ file[i].mtime = c.meta.mtime /\ c.meta.ino = i
    BY <1>2, <1>i, <1>c DEF Meta, FilesKept, FilesTypeOK
  <2>3. /\ file[i].data \in Seq(Block) /\ plan'.read = <<>> /\ plan'.rewrites = 0
        /\ plan'.opened = file[i].data /\ plan'.now = file[i].data
        /\ plan' \in [opened : Seq(Block), now : Seq(Block), rewrites : Nat, read : Seq(Block)]
    BY <1>c, <2>1, <2>2, EmptySeq DEF Inode, NoPlan
  <2>4. c'.fd["plan"] = i /\ \A r \in Role \ {"plan"} : c'.fd[r] = c.fd[r]
    BY <1>c, <2>1 DEF Role
  <2>5. c'.pc = "readPlan" /\ c'.meta = c.meta /\ c'.got = <<>> /\ Len(c'.got) = 0
       /\ c.meta.mtime \in Nat
    BY <1>c, <2>1 DEF PlanHeld, Stat
  <2>6. c' \in Call BY <1>c, <2>1, <2>2, <2>3, <2>4, <2>5, EmptySeq DEF Call, Planning, Opening,
       Unlinked, Linked, Role
  <2>7. Typed'
    BY <1>c, <2>1, <2>2, <2>3, <2>4, <2>5, <2>6 DEF Typed
  <2>8. FilesKept' BY <1>c, <2>1 DEF FilesKept, FilesTypeOK
  <2>9. Held' /\ Staged'
    BY <1>c, <2>1, <2>2, <2>3, <2>4, <2>5, <2>6 DEF Held, Staged, Role
  <2>10. Truthful' /\ Copied'
    BY <1>c, <2>1, <2>2, <2>3, <2>4, <2>5, <2>6 DEF Truthful, StateTruthful, Staged, Named,
         Copied, SnapshotExact, Role
  <2>11. PlanHeld'
    <3>1. Prefix(i)' BY <1>c, <2>1, <2>2, <2>3, <2>4, <2>5, <2>6 DEF Prefix, PlanHeld
    <3>2. Versions(i)'
      <4>1. Len(plan'.opened) \in Nat /\ c'.pc # "rereadPlan" BY <2>3, <2>5
      <4>2. Begins(c'.got, plan'.opened) BY <2>5, <4>1 DEF Begins
      <4> QED BY <2>1, <2>3, <4>1, <4>2 DEF Versions
    <3> QED BY <1>c, <2>1, <2>2, <2>3, <2>4, <2>5, <2>6, <3>1, <3>2 DEF PlanHeld, PlanAsRead
  <2>12. Lasting'
    BY <1>c, <2>1, <2>2, <2>3, <2>4, <2>5 DEF Lasting, DurableSurvives
  <2> QED BY <2>7, <2>8, <2>9, <2>10, <2>11, <2>12 DEF Running
<1> QED BY <1>i, <1>1, <1>2 DEF OpenPlan

(* Either read of the plan goes on with the text at the opening as long as   *)
(* the stamp is unchanged, and what the two have in common is accepted.      *)
LEMMA ReadPlanStep == ASSUME Running, ReadPlan PROVE Running'
<1> USE DEF Planning, Opening, Unlinked, Linked, Committed, Call, NoOutput
<1>c. /\ c \in Call /\ Typed /\ FilesKept /\ Held /\ Staged /\ Truthful
      /\ Lasting /\ Copied /\ PlanHeld
  BY DEF Running, Typed
<1>p. PICK p \in Ino : p = c.fd["plan"] /\ c.pc \in {"readPlan", "rereadPlan"}
  BY <1>c DEF Held, ReadPlan
<1>d. PICK d \in Seq(Block) : d = file[p].data BY <1>c DEF FilesKept, FilesTypeOK, Inode
<1>g. PICK g : g = Append(c.got, d[Len(c.got) + 1]) OBVIOUS
<1>1. CASE Len(c.got) <= c.limit /\ Len(c.got) < Len(d) /\ Go([c EXCEPT !.got = g])
  <2>1. /\ Len(c.got) < Len(d)
        /\ c.pc \in {"readPlan", "rereadPlan"}
        /\ c' = [c EXCEPT !.got = g]
        /\ UNCHANGED <<work, entry, file, onDisk, flushed, changes, coarse, calls, record, told,
                         plan, output, certified>>
    BY <1>1, <1>p DEF Go, files
  <2>2. g \in Seq(Block) /\ Len(g) = Len(c.got) + 1
       /\ \A k \in 1 .. Len(g) : g[k] = IF k <= Len(c.got) THEN c.got[k] ELSE d[k]
    BY <1>1, <1>c, <1>d, <1>g
  <2>3. c'.got = g /\ c'.pc = c.pc /\ c'.meta = c.meta /\ c'.fd = c.fd /\ c'.raw = c.raw
    BY <1>c, <2>1
  <2>4. c' \in Call BY <1>c, <2>1, <2>2, <2>3, EmptySeq DEF Call, Planning, Opening, Unlinked,
       Linked, States
  <2>o. c'.op = c.op /\ plan' = plan BY <1>c, <2>1
  <2>5. Typed'
    <3>1. UNCHANGED <<calls, record, told, plan, output, certified>> BY <2>1
    <3> QED BY <1>c, <2>4, <2>o, <3>1 DEF Typed
  <2>6. FilesKept' BY <1>c, <2>1 DEF FilesKept, FilesTypeOK
  <2>7. Held' /\ Staged'
    BY <1>c, <2>1, <2>2, <2>3, <2>4 DEF Held, Staged, Role
  <2>8. Truthful' /\ Copied'
    BY <1>c, <2>1, <2>2, <2>3, <2>4 DEF Truthful, StateTruthful, Staged, Named, Copied,
         SnapshotExact, Role
  <2>9. PlanHeld'
    <3>1. Prefix(p)'
      <4>1. c'.meta.ino = p /\ file'[p].kind # "free" /\ c'.meta.mtime <= file'[p].mtime
        BY <1>c, <1>p, <1>d, <2>1, <2>3 DEF PlanHeld, Prefix
      <4>2. ASSUME ~coarse, c.meta.mtime = file[p].mtime
            PROVE  /\ d = plan.opened /\ Len(c.got) <= Len(d)
                   /\ \A k \in 1 .. Len(c.got) : c.got[k] = d[k]
        BY <4>2, <1>c, <1>p, <1>d DEF PlanHeld, Prefix
      <4>3. Len(c.got) \in Nat /\ Len(d) \in Nat BY <1>c, <1>d
      <4>4. ASSUME ~coarse, c.meta.mtime = file[p].mtime
            PROVE  Len(g) <= Len(d) /\ \A k \in 1 .. Len(g) : g[k] = d[k]
        BY <4>2, <4>3, <4>4, <2>1, <2>2
      <4> QED BY <4>1, <4>2, <4>4, <2>1, <2>3, <1>d DEF Prefix
    <3>2. Versions(p)'
      <4>1. Versions(p) BY <1>c, <1>p DEF PlanHeld
      <4>2. ASSUME Begins(c.got, d) PROVE Begins(g, d)
        <5>1. Len(c.got) \in Nat /\ Len(d) \in Nat BY <1>c, <1>d
        <5> QED BY <4>2, <5>1, <2>1, <2>2 DEF Begins
      <4>3. plan.now = d BY <4>1, <1>d DEF Versions
      <4> QED BY <4>1, <4>2, <4>3, <1>d, <2>1, <2>3 DEF Versions
    <3> QED BY <1>c, <2>1, <2>2, <2>3, <2>4, <3>1, <3>2, <1>p DEF PlanHeld, PlanAsRead
  <2>10. Lasting'
    BY <1>c, <2>1, <2>2, <2>3 DEF Lasting, DurableSurvives
  <2> QED BY <2>5, <2>6, <2>7, <2>8, <2>9, <2>10 DEF Running
<1>2. CASE Raise("Plan")
  <2>1. /\ c.pc \notin {"idle", "off", "handler", "close"} /\ "Plan" # "none"
        /\ "Plan" \in Error /\ ("Plan" = "NotCommitted" => c.pc = "linkat")
    BY <1>2, <1>p DEF Error
  <2> QED BY <1>c, <1>2, <2>1, RaiseStep, Zenon
<1>3. CASE /\ Len(c.got) <= c.limit /\ Len(c.got) >= Len(d) /\ SamePlan
           /\ c' = [c EXCEPT !.pc = IF @ = "readPlan" THEN "rereadPlan" ELSE "closePlan",
                              !.raw = c.got, !.got = <<>>]
           /\ plan' = IF c.pc = "readPlan" THEN plan ELSE [plan EXCEPT !.read = c.raw]
           /\ UNCHANGED <<files, calls, record, told, output, certified>>
  <2>1. /\ Len(c.got) >= Len(d)
        /\ c.pc \in {"readPlan", "rereadPlan"}
        /\ c' = [c EXCEPT !.pc = IF c.pc = "readPlan" THEN "rereadPlan" ELSE "closePlan",
                !.raw = c.got, !.got = <<>>]
        /\ plan' = IF c.pc = "readPlan" THEN plan ELSE [plan EXCEPT !.read = c.raw]
        /\ UNCHANGED <<work, entry, file, onDisk, flushed, changes, coarse, calls, record, told,
                         output, certified>>
    BY <1>3, <1>p DEF files
  <2>2. ASSUME ~coarse PROVE c.got = plan.opened /\ file[p].data = plan.opened
       /\ c.meta.mtime = file[p].mtime
    <3>1. c.meta = Meta(p) BY <1>3, <1>p DEF SamePlan
    <3>2. c.meta.mtime = file[p].mtime BY <1>p, <1>c, <3>1, FilesAssumption DEF Meta
    <3>3. /\ d = plan.opened /\ Len(c.got) <= Len(d)
          /\ \A k \in 1 .. Len(c.got) : c.got[k] = d[k]
      BY <2>2, <3>2, <1>c, <1>p, <1>d DEF PlanHeld, Prefix
    <3>4. Len(c.got) = Len(d) /\ c.got \in Seq(Block) BY <1>3, <3>3, <1>c, <1>d
    <3>5. c.got = d BY <3>3, <3>4, <1>d
    <3> QED BY <3>2, <3>3, <3>5, <1>d
  <2>3. /\ plan' \in [opened : Seq(Block), now : Seq(Block), rewrites : Nat, read : Seq(Block)]
        /\ plan'.opened = plan.opened /\ plan'.now = plan.now /\ plan'.rewrites = plan.rewrites
        /\ plan'.read = IF c.pc = "readPlan" THEN plan.read ELSE c.raw
    BY <1>c, <2>1 DEF Typed
  <2>e. ASSUME c.pc = "rereadPlan" PROVE c.raw = c.got BY <2>e, <1>3 DEF SamePlan
  <2>v. Versions(p) BY <1>c, <1>p DEF PlanHeld
  <2>w. ASSUME Begins(c.got, d) PROVE c.got = d
    <3>1. Len(c.got) = Len(d) /\ c.got \in Seq(Block) BY <2>w, <1>3, <1>c, <1>d DEF Begins
    <3> QED BY <2>w, <3>1, <1>d DEF Begins
  <2>4. c'.got = <<>> /\ Len(c'.got) = 0
       /\ c'.pc = (IF c.pc = "readPlan" THEN "rereadPlan" ELSE "closePlan") /\ c'.meta = c.meta
       /\ c'.fd = c.fd
    BY <1>c, <2>1
  <2>5. c' \in Call
    <3>1. CASE c.pc = "readPlan" BY <1>c, <2>1, <3>1, EmptySeq
    <3>2. CASE c.pc = "rereadPlan" BY <1>c, <2>1, <3>2, EmptySeq
    <3> QED BY <2>1, <3>1, <3>2
  <2>6. Typed'
    BY <1>c, <2>1, <2>2, <2>3, <2>4, <2>5 DEF Typed
  <2>7. FilesKept' BY <1>c, <2>1 DEF FilesKept, FilesTypeOK
  <2>8. Held' /\ Staged'
    BY <1>c, <2>1, <2>2, <2>3, <2>4, <2>5 DEF Held, Staged, Role
  <2>9. Truthful' /\ Copied'
    BY <1>c, <2>1, <2>2, <2>3, <2>4, <2>5 DEF Truthful, StateTruthful, Staged, Named, Copied,
         SnapshotExact, Role
  <2>10. PlanHeld'
    <3>1. Prefix(p)'
      <4>1. c'.meta.ino = p /\ file'[p].kind # "free" /\ c'.meta.mtime <= file'[p].mtime
        BY <1>c, <1>p, <1>d, <2>1, <2>4 DEF PlanHeld, Prefix
      <4>2. Len(plan'.opened) \in Nat BY <2>3
      <4> QED BY <4>1, <4>2, <2>1, <2>2, <2>3, <2>4 DEF Prefix
    <3>2. PlanAsRead'
      <4>1. CASE c.pc = "readPlan" BY <4>1, <1>c, <2>1, <2>3 DEF PlanHeld, PlanAsRead
      <4>2. CASE c.pc = "rereadPlan"
        <5>1. ~coarse => plan'.read = plan'.opened BY <4>2, <2>2, <2>3, <2>e
        <5>2. plan.now = d BY <2>v, <1>d DEF Versions
        <5>e. c.pc # "readPlan" BY <4>2
        <5>r. plan'.read = c.raw BY <5>e, <2>3
        <5>3. ASSUME plan.rewrites = 0 PROVE plan'.read = plan.opened
          BY <4>2, <5>3, <5>r, <2>v DEF Versions
        <5>4. ASSUME plan.rewrites = 1 PROVE plan'.read = plan.opened \/ plan'.read = plan.now
          <6>1. c.raw = plan.opened \/ Begins(c.got, d) BY <4>2, <5>2, <5>4, <2>v DEF Versions
          <6>2. c.raw = plan.opened \/ c.raw = d BY <4>2, <6>1, <2>e, <2>w
          <6> QED BY <5>2, <5>r, <6>2
        <5>5. plan.rewrites \in Nat BY <1>c DEF Typed
        <5>6. plan.rewrites <= 1 => plan'.read \in {plan.opened, plan.now}
          BY <5>3, <5>4, <5>5
        <5> QED BY <5>1, <5>6, <2>1, <2>3 DEF PlanAsRead
      <4> QED BY <4>1, <4>2, <2>1
    <3>3. c.pc = "readPlan" => Versions(p)'
      <4> SUFFICES ASSUME c.pc = "readPlan" PROVE Versions(p)' OBVIOUS
      <4>1. c'.raw = c.got BY <1>c, <2>1
      <4>2. plan.now = d BY <2>v, <1>d DEF Versions
      <4>3. ASSUME NEW text \in Seq(Block) PROVE Begins(c'.got, text)
        BY <2>4, <4>3 DEF Begins
      <4>4. Begins(c'.got, plan'.now) /\ Begins(c'.got, plan'.opened) BY <4>3, <2>3
      <4>5. plan.rewrites = 0 => c.got = plan.opened BY <2>v, <2>w, <4>2 DEF Versions
      <4> QED BY <2>1, <2>3, <2>v, <4>1, <4>4, <4>5 DEF Versions
    <3> QED BY <1>c, <2>1, <2>3, <2>4, <3>1, <3>2, <3>3, <1>p DEF PlanHeld
  <2>11. Lasting'
    BY <1>c, <2>1, <2>2, <2>3, <2>4 DEF Lasting, DurableSurvives
  <2> QED BY <2>6, <2>7, <2>8, <2>9, <2>10, <2>11 DEF Running
<1> QED BY <1>p, <1>d, <1>g, <1>1, <1>2, <1>3 DEF ReadPlan

(* The plan is closed and its text leaves the call.                          *)
LEMMA ClosePlanStep == ASSUME Running, ClosePlan PROVE Running'
<1> USE DEF Planning, Opening, Unlinked, Linked, Committed, Call, NoOutput
<1>c. /\ c \in Call /\ Typed /\ FilesKept /\ Held /\ Staged /\ Truthful
      /\ Lasting /\ Copied /\ PlanHeld
  BY DEF Running, Typed
<1>1. CASE c.pc = "closePlan" /\ Go([[c EXCEPT !.fd["plan"] = NoIno] EXCEPT
                                       !.pc = "parsePlan", !.raw = <<>>, !.meta = NoMeta])
  <2>1. /\ c.pc = "closePlan"
        /\ c' = [c EXCEPT !.fd = [@ EXCEPT !["plan"] = NoIno], !.pc = "parsePlan", !.raw = <<>>,
                !.meta = NoMeta]
        /\ UNCHANGED <<work, entry, file, onDisk, flushed, changes, coarse, calls, record, told,
                         plan, output, certified>>
    BY <1>1 DEF Go, files
  <2>2. c'.fd["plan"] = NoIno /\ \A r \in Role \ {"plan"} : c'.fd[r] = c.fd[r]
    BY <1>c, <2>1 DEF Role
  <2>3. c'.fd \in [Role -> Ino \cup Dir \cup {NoIno}]
    BY <1>c, <2>1 DEF Role
  <2>4. c' \in Call BY <1>c, <2>1, <2>3, EmptySeq, NoMetaStat
  <2>5. Typed'
    BY <1>c, <2>1, <2>2, <2>3, <2>4 DEF Typed
  <2>6. FilesKept' BY <1>c, <2>1 DEF FilesKept, FilesTypeOK
  <2>7. Held' /\ Staged'
    BY <1>c, <2>1, <2>2, <2>3, <2>4 DEF Held, Staged, Role
  <2>8. Truthful' /\ Copied'
    BY <1>c, <2>1, <2>2, <2>3, <2>4 DEF Truthful, StateTruthful, Staged, Named, Copied,
         SnapshotExact, Role
  <2>9. PlanHeld'
    BY <1>c, <2>1, <2>2, <2>3, <2>4 DEF PlanHeld, PlanAsRead, Prefix
  <2>10. Lasting'
    BY <1>c, <2>1, <2>2, <2>3 DEF Lasting, DurableSurvives
  <2> QED BY <2>5, <2>6, <2>7, <2>8, <2>9, <2>10 DEF Running
<1>2. CASE c.pc = "closePlan" /\ Go([[c EXCEPT !.fd["plan"] = NoIno] EXCEPT
                                       !.pc = "handler", !.error = "Plan"])
  <2>1. /\ c.pc = "closePlan"
        /\ c' = [c EXCEPT !.fd = [@ EXCEPT !["plan"] = NoIno], !.pc = "handler", !.error = "Plan"]
        /\ UNCHANGED <<work, entry, file, onDisk, flushed, changes, coarse, calls, record, told,
                         plan, output, certified>>
    BY <1>2 DEF Go, files
  <2>2. c'.fd["plan"] = NoIno /\ \A r \in Role \ {"plan"} : c'.fd[r] = c.fd[r]
    BY <1>c, <2>1 DEF Role
  <2>3. "Plan" \in Error
    BY DEF Error
  <2>4. c'.fd \in [Role -> Ino \cup Dir \cup {NoIno}]
    BY <1>c, <2>1 DEF Role
  <2>5. c' \in Call BY <1>c, <2>1, <2>3, <2>4
  <2>6. Typed'
    BY <1>c, <2>1, <2>2, <2>3, <2>4, <2>5 DEF Typed
  <2>7. FilesKept' BY <1>c, <2>1 DEF FilesKept, FilesTypeOK
  <2>8. Held' /\ Staged'
    BY <1>c, <2>1, <2>2, <2>3, <2>4, <2>5 DEF Held, Staged, Role
  <2>9. Truthful' /\ Copied'
    BY <1>c, <2>1, <2>2, <2>3, <2>4, <2>5 DEF Truthful, StateTruthful, Staged, Named, Copied,
         SnapshotExact, Role
  <2>10. PlanHeld'
    BY <1>c, <2>1, <2>2, <2>3, <2>4, <2>5 DEF PlanHeld, PlanAsRead, Prefix
  <2>11. Lasting'
    BY <1>c, <2>1, <2>2, <2>3, <2>4 DEF Lasting, DurableSurvives
  <2> QED BY <2>6, <2>7, <2>8, <2>9, <2>10, <2>11 DEF Running
<1> QED BY <1>1, <1>2 DEF ClosePlan

(* No descriptor is rejected by anything but an exception.                   *)
LEMMA OutcomeError == Outcomes \subseteq Error \ {"NotCommitted"}
BY DEF Outcomes, Outcome, Unsupported, Error

(* The plan is parsed: from here on errors are of the corpus.                *)
LEMMA ParsePlanStep == ASSUME Running, ParsePlan PROVE Running'
<1> USE DEF Planning, Opening, Unlinked, Linked, Committed, Call, NoOutput
<1>c. /\ c \in Call /\ Typed /\ FilesKept /\ Held /\ Staged /\ Truthful
      /\ Lasting /\ Copied /\ PlanHeld
  BY DEF Running, Typed
<1>1. CASE c.pc = "parsePlan" /\ Go([c EXCEPT !.pc = "openParent", !.domain = "corpus"])
  <2>1. /\ c.pc = "parsePlan"
        /\ c' = [c EXCEPT !.pc = "openParent", !.domain = "corpus"]
        /\ UNCHANGED <<work, entry, file, onDisk, flushed, changes, coarse, calls, record, told,
                         plan, output, certified>>
    BY <1>1 DEF Go, files
  <2>2. c' \in Call BY <1>c, <2>1, EmptySeq DEF Call, Planning, Opening, Unlinked, Linked, States
  <2>t. c'.op = c.op /\ c'.got = c.got /\ c'.snap = c.snap /\ c'.error = c.error /\ plan' = plan
    BY <1>c, <2>1
  <2>u. Typed' BY <1>c, <2>1, <2>2 DEF Typed
  <2>w. FilesKept' /\ Held' /\ Staged' /\ Truthful'
    BY <1>c, <2>1, <2>2 DEF FilesKept, FilesTypeOK, Held, Staged, Truthful, StateTruthful, Named
  <2>x. Copied' /\ PlanHeld'
    <3>1. Copied' BY <1>c, <2>1, <2>2, <2>t DEF Copied, SnapshotExact, Staged
    <3>2. PlanAsRead' BY <1>c, <2>1, <2>t DEF PlanHeld, PlanAsRead
    <3>3. c'.pc \notin {"lstatPlan", "openPlan", "readPlan", "rereadPlan"} BY <1>c, <2>1
    <3> QED BY <3>1, <3>2, <3>3 DEF PlanHeld
  <2>3. Typed' /\ FilesKept' /\ Held' /\ Staged' /\ Truthful' /\ Copied' /\ PlanHeld'
    BY <2>u, <2>w, <2>x
  <2>4. Lasting'
    BY <1>c, <2>1 DEF Lasting, DurableSurvives
  <2> QED BY <2>3, <2>4 DEF Running
<1>2. CASE \E e \in Outcomes : c.pc = "parsePlan" /\ e # "none" /\ Raise(e)
  <2>1. PICK e \in Outcomes : c.pc = "parsePlan" /\ e # "none" /\ Raise(e) BY <1>2
  <2>2. e \in Error /\ e # "NotCommitted" BY OutcomeError
  <2>3. c.pc \notin {"idle", "off", "handler", "close"} BY <2>1
  <2> QED BY <2>1, <2>2, <2>3, RaiseStep
<1> QED BY <1>1, <1>2 DEF ParsePlan

(* The directory the path names is held open.                                *)
LEMMA OpenParentStep == ASSUME Running, OpenParent PROVE Running'
<1> USE DEF Planning, Opening, Unlinked, Linked, Committed, Call, NoOutput
<1>c. /\ c \in Call /\ Typed /\ FilesKept /\ Held /\ Staged /\ Truthful
      /\ Lasting /\ Copied /\ PlanHeld
  BY DEF Running, Typed
<1>w. PICK w \in Dir \cup {NoIno} : w = work BY <1>c DEF FilesKept, FilesTypeOK
<1>1. CASE c.pc = "openParent" /\ Raise("Preparation")
  <2>1. /\ c.pc \notin {"idle", "off", "handler", "close"} /\ "Preparation" # "none"
        /\ "Preparation" \in Error /\ ("Preparation" = "NotCommitted" => c.pc = "linkat")
    BY <1>1 DEF Error
  <2> QED BY <1>c, <1>1, <2>1, RaiseStep, Zenon
<1>2. CASE c.pc = "openParent" /\ work # NoIno
           /\ Go([c EXCEPT !.pc = "openSource", !.fd["parent"] = w])
  <2>1. /\ c.pc = "openParent"
        /\ w \in Dir
        /\ c' = [c EXCEPT !.pc = "openSource", !.fd["parent"] = w]
        /\ UNCHANGED <<work, entry, file, onDisk, flushed, changes, coarse, calls, record, told,
                         plan, output, certified>>
    BY <1>2, <1>w DEF Go, files
  <2>2. c'.fd["parent"] = w /\ \A r \in Role \ {"parent"} : c'.fd[r] = c.fd[r]
    BY <1>c, <2>1 DEF Role
  <2>3. c'.fd \in [Role -> Ino \cup Dir \cup {NoIno}]
    BY <1>c, <2>1 DEF Role
  <2>4. c' \in Call BY <1>c, <2>1, <2>3, EmptySeq
  <2>5. Typed'
    BY <1>c, <2>1, <2>2, <2>3, <2>4 DEF Typed
  <2>6. FilesKept' BY <1>c, <2>1 DEF FilesKept, FilesTypeOK
  <2>7. Held' /\ Staged'
    BY <1>c, <2>1, <2>2, <2>3, <2>4 DEF Held, Staged, Role
  <2>8. Truthful' /\ Copied'
    BY <1>c, <2>1, <2>2, <2>3, <2>4 DEF Truthful, StateTruthful, Staged, Named, Copied,
         SnapshotExact, Role
  <2>9. PlanHeld'
    BY <1>c, <2>1, <2>2, <2>3, <2>4 DEF PlanHeld, PlanAsRead, Prefix
  <2>10. Lasting'
    BY <1>c, <2>1, <2>2, <2>3 DEF Lasting, DurableSurvives
  <2> QED BY <2>5, <2>6, <2>7, <2>8, <2>9, <2>10 DEF Running
<1> QED BY <1>w, <1>1, <1>2 DEF OpenParent

(* The source is held open, whoever unlinks it.                              *)
LEMMA OpenSourceStep == ASSUME Running, OpenSource PROVE Running'
<1> USE DEF Planning, Opening, Unlinked, Linked, Committed, Call, NoOutput
<1>c. /\ c \in Call /\ Typed /\ FilesKept /\ Held /\ Staged /\ Truthful
      /\ Lasting /\ Copied /\ PlanHeld
  BY DEF Running, Typed
<1>p. c.fd["parent"] \in Dir /\ Target \in Name
  BY <1>c, PrepAssumption DEF Held, Staged, OpenSource, Target, Typed
<1>i. PICK i \in Ino \cup {NoIno} : i = entry[c.fd["parent"]][Target]
  BY <1>c, <1>p DEF FilesKept, FilesTypeOK
<1>m. PICK m \in Stat : m = Meta(i) BY <1>c, MetaStat
<1>1. CASE c.pc = "openSource" /\ Raise("Preparation")
  <2>1. /\ c.pc \notin {"idle", "off", "handler", "close"} /\ "Preparation" # "none"
        /\ "Preparation" \in Error /\ ("Preparation" = "NotCommitted" => c.pc = "linkat")
    BY <1>1 DEF Error
  <2> QED BY <1>c, <1>1, <2>1, RaiseStep, Zenon
<1>2. CASE /\ c.pc = "openSource" /\ Acceptable(i)
           /\ Go([c EXCEPT !.fd["source"] = i, !.meta = m,
                           !.pc = IF c.op = "prepare" THEN "openDest" ELSE "read"])
  <2>1. /\ c.pc = "openSource"
        /\ i \in Ino
        /\ c' = [c EXCEPT !.fd["source"] = i, !.meta = m,
                !.pc = IF c.op = "prepare" THEN "openDest" ELSE "read"]
        /\ UNCHANGED <<work, entry, file, onDisk, flushed, changes, coarse, calls, record, told,
                         plan, output, certified>>
    BY <1>2, <1>i DEF Go, files, Acceptable, Regular
  <2>2. c'.fd["source"] = i /\ \A r \in Role \ {"source"} : c'.fd[r] = c.fd[r]
    BY <1>c, <2>1 DEF Role
  <2>3. c'.fd \in [Role -> Ino \cup Dir \cup {NoIno}]
    BY <1>c, <2>1 DEF Role
  <2>4. c' \in Call
    <3>1. CASE c.op = "prepare" BY <1>c, <1>m, <2>1, <2>3, <3>1
    <3>2. CASE c.op # "prepare" BY <1>c, <1>m, <2>1, <2>3, <3>2
    <3> QED BY <3>1, <3>2
  <2>5. Typed'
    BY <1>c, <2>1, <2>2, <2>3, <2>4 DEF Typed
  <2>6. FilesKept' BY <1>c, <2>1 DEF FilesKept, FilesTypeOK
  <2>7. Held' /\ Staged'
    BY <1>c, <2>1, <2>2, <2>3, <2>4 DEF Held, Staged, Role
  <2>8. Truthful' /\ Copied'
    BY <1>c, <2>1, <2>2, <2>3, <2>4 DEF Truthful, StateTruthful, Staged, Named, Copied,
         SnapshotExact, Role
  <2>9. PlanHeld'
    BY <1>c, <2>1, <2>2, <2>3, <2>4 DEF PlanHeld, PlanAsRead, Prefix
  <2>10. Lasting'
    BY <1>c, <2>1, <2>2, <2>3 DEF Lasting, DurableSurvives
  <2> QED BY <2>5, <2>6, <2>7, <2>8, <2>9, <2>10 DEF Running
<1> QED BY <1>i, <1>m, <1>1, <1>2 DEF OpenSource

(* The destination directory is held open.                                   *)
LEMMA OpenDestStep == ASSUME Running, OpenDest PROVE Running'
<1> USE DEF Planning, Opening, Unlinked, Linked, Committed, Call, NoOutput
<1>c. /\ c \in Call /\ Typed /\ FilesKept /\ Held /\ Staged /\ Truthful
      /\ Lasting /\ Copied /\ PlanHeld
  BY DEF Running, Typed
<1>w. PICK w \in Dir \cup {NoIno} : w = work BY <1>c DEF FilesKept, FilesTypeOK
<1>1. CASE c.pc = "openDest" /\ Raise("Preparation")
  <2>1. /\ c.pc \notin {"idle", "off", "handler", "close"} /\ "Preparation" # "none"
        /\ "Preparation" \in Error /\ ("Preparation" = "NotCommitted" => c.pc = "linkat")
    BY <1>1 DEF Error
  <2> QED BY <1>c, <1>1, <2>1, RaiseStep, Zenon
<1>2. CASE c.pc = "openDest" /\ work # NoIno
           /\ Go([c EXCEPT !.pc = "create", !.fd["destParent"] = w])
  <2>1. /\ c.pc = "openDest"
        /\ w \in Dir
        /\ c' = [c EXCEPT !.pc = "create", !.fd["destParent"] = w]
        /\ UNCHANGED <<work, entry, file, onDisk, flushed, changes, coarse, calls, record, told,
                         plan, output, certified>>
    BY <1>2, <1>w DEF Go, files
  <2>2. c'.fd["destParent"] = w /\ \A r \in Role \ {"destParent"} : c'.fd[r] = c.fd[r]
    BY <1>c, <2>1 DEF Role
  <2>3. c'.fd \in [Role -> Ino \cup Dir \cup {NoIno}]
    BY <1>c, <2>1 DEF Role
  <2>4. c' \in Call BY <1>c, <2>1, <2>3, EmptySeq
  <2>5. Typed'
    BY <1>c, <2>1, <2>2, <2>3, <2>4 DEF Typed
  <2>6. FilesKept' BY <1>c, <2>1 DEF FilesKept, FilesTypeOK
  <2>7. Held' /\ Staged'
    BY <1>c, <2>1, <2>2, <2>3, <2>4 DEF Held, Staged, Role
  <2>8. Truthful' /\ Copied'
    BY <1>c, <2>1, <2>2, <2>3, <2>4 DEF Truthful, StateTruthful, Staged, Named, Copied,
         SnapshotExact, Role
  <2>9. PlanHeld'
    BY <1>c, <2>1, <2>2, <2>3, <2>4 DEF PlanHeld, PlanAsRead, Prefix
  <2>10. Lasting'
    BY <1>c, <2>1, <2>2, <2>3 DEF Lasting, DurableSurvives
  <2> QED BY <2>5, <2>6, <2>7, <2>8, <2>9, <2>10 DEF Running
<1> QED BY <1>w, <1>1, <1>2 DEF OpenDest

(* The anonymous file is new: no name stands for it.                         *)
LEMMA CreateTemporaryStep == ASSUME Running, CreateTemporary PROVE Running'
<1> USE DEF Planning, Opening, Unlinked, Linked, Committed, Call, NoOutput
<1>c. /\ c \in Call /\ Typed /\ FilesKept /\ Held /\ Staged /\ Truthful
      /\ Lasting /\ Copied /\ PlanHeld
  BY DEF Running, Typed
<1> DEFINE new == [kind |-> "file", data |-> <<>>, mtime |-> 0, ctime |-> 0]
           Created(t) ==
             /\ c.pc = "create" /\ file[t].kind = "free" /\ file' = [file EXCEPT ![t] = new]
             /\ c' = [c EXCEPT !.pc = "read", !.fd["temp"] = t]
             /\ UNCHANGED <<work, entry, onDisk, flushed, changes, coarse, calls, record, told, plan,
                            output, certified>>
<1>1. CASE c.pc = "create" /\ Raise("Preparation")
  <2>1. /\ c.pc \notin {"idle", "off", "handler", "close"} /\ "Preparation" # "none"
        /\ "Preparation" \in Error /\ ("Preparation" = "NotCommitted" => c.pc = "linkat")
    BY <1>1 DEF Error
  <2> QED BY <1>c, <1>1, <2>1, RaiseStep, Zenon
<1>2. CASE \E t \in Ino : Created(t)
  <2>0. PICK t \in Ino : Created(t) BY <1>2
  <2>1. /\ c.pc = "create"
        /\ c' = [c EXCEPT !.pc = "read", !.fd["temp"] = t]
        /\ file' = [file EXCEPT ![t] = new]
        /\ UNCHANGED <<work, entry, onDisk, flushed, changes, coarse, calls, record, told, plan,
                         output, certified>>
    BY <2>0 DEF Created, files
  <2>2. new \in Inode /\ new.kind = "file" /\ new.mtime = 0 /\ new.ctime = 0
    BY FilesAssumption, EmptySeq DEF Inode
  <2>3. c'.fd["temp"] = t /\ \A r \in Role \ {"temp"} : c'.fd[r] = c.fd[r]
    BY <1>c, <2>1 DEF Role
  <2>4. c'.fd \in [Role -> Ino \cup Dir \cup {NoIno}]
    BY <1>c, <2>1 DEF Role
  <2>5. file' \in [Ino -> Inode] /\ file'[t] = new /\ \A j \in Ino \ {t} : file'[j] = file[j]
    <3> HIDE DEF new
    <3> QED BY <1>c, <2>1, <2>2 DEF FilesKept, FilesTypeOK
  <2>6. ~Named(t) /\ ~certified /\ output = NoOutput /\ t # NoIno
    BY <1>c, <2>0, FilesAssumption DEF Named, FilesKept, Staged, Lasting, Truthful, Created
  <2>7. c' \in Call BY <1>c, <2>1, <2>4, EmptySeq
  <2>8. Typed'
    BY <1>c, <2>1, <2>2, <2>3, <2>4, <2>5, <2>6, <2>7 DEF Typed
  <2>9. FilesKept'
    <3>1. FilesTypeOK' BY <1>c, <2>1, <2>5 DEF FilesKept, FilesTypeOK
    <3>2. \A d \in Dir, n \in Name : entry'[d][n] # NoIno => file'[entry'[d][n]].kind # "free"
      BY <1>c, <2>1, <2>2, <2>5 DEF FilesKept, FilesTypeOK
    <3>3. changes \in Nat BY <1>c, FilesAssumption DEF FilesKept, FilesTypeOK
    <3>4. \A j \in Ino : /\ file'[j].mtime <= changes'
                         /\ file'[j].ctime <= changes' \/ file'[j].ctime = MaxChanges + 1
      BY <1>c, <2>1, <2>2, <2>5, <3>3 DEF FilesKept
    <3> QED BY <3>1, <3>2, <3>4 DEF FilesKept
  <2>10. Held'
    <3>1. c.fd \in [Role -> Ino \cup Dir \cup {NoIno}] /\ c'.pc = "read"
          /\ c'.op = c.op /\ c'.attempted = c.attempted
      BY <1>c, <2>1
    <3>2. file'[t].kind = "file" BY <2>2, <2>5
    <3> HIDE DEF new
    <3> QED BY <1>c, <2>1, <2>3, <3>1, <3>2 DEF Held, Role
  <2>11. Staged'
    BY <1>c, <2>1, <2>2, <2>3, <2>4, <2>5, <2>6, <2>7 DEF Staged, Role
  <2>12. Truthful' /\ Copied'
    BY <1>c, <2>1, <2>2, <2>3, <2>4, <2>5, <2>6, <2>7 DEF Truthful, StateTruthful, Staged, Named,
         Copied, SnapshotExact, Role
  <2>13. PlanHeld'
    BY <1>c, <2>1, <2>2, <2>3, <2>4, <2>5, <2>6, <2>7 DEF PlanHeld, PlanAsRead, Staged
  <2>14. Lasting'
    BY <1>c, <2>1, <2>2, <2>3, <2>4, <2>5, <2>6 DEF Lasting, DurableSurvives, Staged, Role
  <2> QED BY <2>8, <2>9, <2>10, <2>11, <2>12, <2>13, <2>14 DEF Running
<1> QED BY <1>1, <1>2 DEF CreateTemporary

(* The memory file is complete when it is sealed.                            *)
LEMMA SealSnapshotStep == ASSUME Running, SealSnapshot PROVE Running'
<1> USE DEF Planning, Opening, Unlinked, Linked, Committed, Call, NoOutput
<1>c. /\ c \in Call /\ Typed /\ FilesKept /\ Held /\ Staged /\ Truthful
      /\ Lasting /\ Copied /\ PlanHeld
  BY DEF Running, Typed
<1>1. CASE c.pc = "seal" /\ Go([c EXCEPT !.pc = "close", !.sealed = TRUE])
  <2>1. /\ c.pc = "seal"
        /\ c' = [c EXCEPT !.pc = "close", !.sealed = TRUE]
        /\ UNCHANGED <<work, entry, file, onDisk, flushed, changes, coarse, calls, record, told,
                         plan, output, certified>>
    BY <1>1 DEF Go, files
  <2>2. c' \in Call BY <1>c, <2>1, EmptySeq DEF Call, Planning, Opening, Unlinked, Linked, States
  <2>t. c'.op = c.op /\ c'.got = c.got /\ c'.snap = c.snap /\ c'.error = c.error /\ plan' = plan
    BY <1>c, <2>1
  <2>u. Typed' BY <1>c, <2>1, <2>2 DEF Typed
  <2>w. FilesKept' /\ Held' /\ Staged' /\ Truthful'
    BY <1>c, <2>1, <2>2 DEF FilesKept, FilesTypeOK, Held, Staged, Truthful, StateTruthful, Named
  <2>x. Copied' /\ PlanHeld'
    <3>1. Copied' BY <1>c, <2>1, <2>2, <2>t DEF Copied, SnapshotExact, Staged
    <3>2. PlanAsRead' BY <1>c, <2>1, <2>t DEF PlanHeld, PlanAsRead
    <3>3. c'.pc \notin {"lstatPlan", "openPlan", "readPlan", "rereadPlan"} BY <1>c, <2>1
    <3> QED BY <3>1, <3>2, <3>3 DEF PlanHeld
  <2>3. Typed' /\ FilesKept' /\ Held' /\ Staged' /\ Truthful' /\ Copied' /\ PlanHeld'
    BY <2>u, <2>w, <2>x
  <2>4. Lasting'
    BY <1>c, <2>1 DEF Lasting, DurableSurvives
  <2> QED BY <2>3, <2>4 DEF Running
<1> QED BY <1>1 DEF SealSnapshot

(* A block is read; prepare copies it to the anonymous file, reopen to the   *)
(* memory file.                                                              *)
LEMMA ReadBlockStep == ASSUME Running, ReadBlock PROVE Running'
<1> USE DEF Planning, Opening, Unlinked, Linked, Committed, Call, NoOutput
<1>c. /\ c \in Call /\ Typed /\ FilesKept /\ Held /\ Staged /\ Truthful
      /\ Lasting /\ Copied /\ PlanHeld
  BY DEF Running, Typed
<1>r. c.pc = "read" BY DEF ReadBlock
<1>s. PICK s \in Ino : s = c.fd["source"] BY <1>r, <1>c DEF Held
<1>t. PICK t : t = c.fd["temp"] OBVIOUS
<1>d. PICK d \in Seq(Block) : d = Stream BY <1>c, <1>s DEF Stream, FilesKept, FilesTypeOK, Inode
<1>b. PICK b : b = d[Len(c.got) + 1] OBVIOUS
<1>g. PICK g, h : g = Append(c.got, b) /\ h = IF c.op = "reopen" THEN Append(c.snap, b) ELSE c.snap
  OBVIOUS
<1> DEFINE Reads == /\ c.pc = "read" /\ Len(d) > Len(c.got)
                    /\ c' = [c EXCEPT !.got = g, !.snap = h]
                    /\ UNCHANGED <<work, entry, onDisk, flushed, changes, coarse, calls, record,
                                   told, plan, output, certified>>
<1>h. ASSUME Reads PROVE b \in Block /\ g \in Seq(Block) /\ h \in Seq(Block)
  <2>1. b \in Block BY <1>h, <1>c, <1>d, <1>b
  <2> QED BY <2>1, <1>c, <1>g
<1> HIDE DEF Reads
<1>1. CASE c.pc = "read" /\ Raise("Preparation")
  <2>1. /\ c.pc \notin {"idle", "off", "handler", "close"} /\ "Preparation" # "none"
        /\ "Preparation" \in Error /\ ("Preparation" = "NotCommitted" => c.pc = "linkat")
    BY <1>1 DEF Error
  <2> QED BY <1>c, <1>1, <2>1, RaiseStep, Zenon
<1>2. CASE c.op = "prepare" /\ Reads /\ file' = [file EXCEPT ![c.fd["temp"]].data = Append(@, b)]
  <2>1. /\ c.pc = "read"
        /\ c.op = "prepare"
        /\ c' = [c EXCEPT !.got = g, !.snap = h]
        /\ UNCHANGED <<work, entry, onDisk, flushed, changes, coarse, calls, record, told, plan,
                         output, certified>>
    BY <1>2 DEF Reads
  <2>2. t \in Ino /\ file[t] \in Inode /\ file[t].kind = "file"
    BY <1>c, <2>1, <1>t, FilesAssumption DEF Held, FilesKept, FilesTypeOK
  <2>3. file' = [file EXCEPT ![t] = [file[t] EXCEPT !.data = Append(file[t].data, b)]]
       /\ Append(file[t].data, b) \in Seq(Block)
    <3>1. file' = [file EXCEPT ![t] = [file[t] EXCEPT !.data = Append(file[t].data, b)]]
      BY <1>2, <1>t, <2>2
    <3>2. file[t].data \in Seq(Block) BY <2>2 DEF Inode
    <3>3. b \in Block BY <1>2, <1>h
    <3> QED BY <3>1, <3>2, <3>3
  <2>4. file' \in [Ino -> Inode] /\ \A j \in Ino : file'[j].kind = file[j].kind
       /\ file'[j].mtime = file[j].mtime /\ file'[j].ctime = file[j].ctime
       /\ (j # t => file'[j] = file[j])
    BY <1>c, <2>2, <2>3 DEF FilesKept, FilesTypeOK, Inode
  <2>5. ~certified /\ output = NoOutput
    BY <1>c, <2>1 DEF Lasting, Truthful
  <2>6. c'.pc = c.pc /\ c'.op = c.op /\ c'.fd = c.fd /\ c'.meta = c.meta /\ c'.state = c.state
       /\ c'.attempted = c.attempted /\ c'.error = c.error
    BY <1>c, <2>1
  <2>7. c' \in Call
    <3>1. g \in Seq(Block) /\ h \in Seq(Block) BY <1>h, <1>2
    <3> QED BY <1>c, <2>1, <3>1
  <2>8. Typed'
    BY <1>c, <2>1, <2>2, <2>3, <2>4, <2>5, <2>6, <2>7 DEF Typed
  <2>9. FilesKept'
    <3>1. FilesTypeOK' BY <1>c, <2>1, <2>4 DEF FilesKept, FilesTypeOK
    <3>2. \A e \in Dir, n \in Name : entry'[e][n] # NoIno => file'[entry'[e][n]].kind # "free"
      <4> SUFFICES ASSUME NEW d1 \in Dir, NEW n1 \in Name, entry'[d1][n1] # NoIno
                   PROVE  file'[entry'[d1][n1]].kind # "free"
        OBVIOUS
      <4>1. entry[d1][n1] \in Ino /\ file[entry[d1][n1]].kind # "free"
        BY <1>c, <2>1 DEF FilesKept, FilesTypeOK
      <4> QED BY <4>1, <2>1, <2>4
    <3>3. \A j \in Ino : /\ file'[j].mtime <= changes'
                         /\ file'[j].ctime <= changes' \/ file'[j].ctime = MaxChanges + 1
      BY <1>c, <2>1, <2>4 DEF FilesKept
    <3> QED BY <3>1, <3>2, <3>3 DEF FilesKept
  <2>10. Held' /\ Staged'
    BY <1>c, <1>t, <2>1, <2>2, <2>4, <2>6 DEF Held, Staged
  <2>11. Truthful'
    BY <1>c, <2>1, <2>5, <2>6 DEF Truthful, StateTruthful, Named, Staged
  <2>12. Copied' /\ PlanHeld'
    BY <1>c, <2>1, <2>6 DEF Copied, SnapshotExact, PlanHeld, PlanAsRead, Staged
  <2>13. Lasting'
    BY <1>c, <2>1, <2>2, <2>3, <2>4, <2>5, <2>6 DEF Lasting, DurableSurvives
  <2> QED BY <2>8, <2>9, <2>10, <2>11, <2>12, <2>13 DEF Running
<1>3. CASE c.op # "prepare" /\ Reads /\ file' = file
  <2>1. /\ c.pc = "read"
        /\ c.op # "prepare"
        /\ c' = [c EXCEPT !.got = g, !.snap = h]
        /\ UNCHANGED <<work, entry, file, onDisk, flushed, changes, coarse, calls, record, told,
                         plan, output, certified>>
    BY <1>3 DEF Reads
  <2>2. c.op = "reopen" => h = g
    BY <1>c, <1>g, <2>1 DEF Copied
  <2>3. c'.pc = c.pc /\ c'.op = c.op /\ c'.fd = c.fd /\ c'.meta = c.meta /\ c'.got = g
       /\ c'.snap = h
    BY <1>c, <2>1
  <2>4. c' \in Call
    <3>1. g \in Seq(Block) /\ h \in Seq(Block) BY <1>h, <1>3
    <3> QED BY <1>c, <2>1, <3>1
  <2>5. Typed'
    BY <1>c, <2>1, <2>3, <2>4, StillTyped
  <2>6. FilesKept' BY <1>c, <2>1 DEF FilesKept, FilesTypeOK
  <2>7. Held' /\ Staged'
    BY <1>c, <2>1, <2>2, <2>3, <2>4 DEF Held, Staged, Role
  <2>8. Truthful'
    BY <1>c, <2>1, <2>2, <2>3, <2>4 DEF Truthful, StateTruthful, Staged, Named
  <2>9. Copied'
    BY <1>c, <2>1, <2>2, <2>3 DEF Copied, SnapshotExact
  <2>10. PlanHeld'
    BY <1>c, <2>1, <2>2, <2>3, <2>4 DEF PlanHeld, PlanAsRead, Prefix
  <2>11. Lasting'
    BY <1>c, <2>1, <2>2, <2>3 DEF Lasting, DurableSurvives
  <2> QED BY <2>5, <2>6, <2>7, <2>8, <2>9, <2>10, <2>11 DEF Running
<1> QED BY <1>r, <1>s, <1>t, <1>d, <1>b, <1>g, <1>1, <1>2, <1>3 DEF ReadBlock, Reads

(* The digest is right: what was copied is what the plan announced.          *)
LEMMA EndReadStep == ASSUME Running, EndRead PROVE Running'
<1> USE DEF Planning, Opening, Unlinked, Linked, Committed, Call, NoOutput
<1>c. /\ c \in Call /\ Typed /\ FilesKept /\ Held /\ Staged /\ Truthful
      /\ Lasting /\ Copied /\ PlanHeld
  BY DEF Running, Typed
<1>n. PICK next \in {"close", "flush", "seal"} :
        next = CASE c.op = "verify" -> "close" [] c.op = "prepare" -> "flush" [] OTHER -> "seal"
  OBVIOUS
<1>1. CASE c.pc = "read" /\ Raise("Preparation")
  <2>1. /\ c.pc \notin {"idle", "off", "handler", "close"} /\ "Preparation" # "none"
        /\ "Preparation" \in Error /\ ("Preparation" = "NotCommitted" => c.pc = "linkat")
    BY <1>1 DEF Error
  <2> QED BY <1>c, <1>1, <2>1, RaiseStep, Zenon
<1>2. CASE /\ c.pc = "read" /\ SourceHeld
           /\ Go([c EXCEPT !.got = <<>>, !.pc = next])
  <2>1. /\ c.pc = "read"
        /\ c.got = Expected
        /\ c' = [c EXCEPT !.got = <<>>, !.pc = next]
        /\ UNCHANGED <<work, entry, file, onDisk, flushed, changes, coarse, calls, record, told,
                         plan, output, certified>>
    BY <1>2 DEF Go, files, SourceHeld
  <2>2. c'.pc = next /\ c'.op = c.op /\ c'.snap = c.snap /\ c'.fd = c.fd
    BY <1>c, <2>1
  <2>3. c.op \in {"verify", "prepare", "reopen"}
    BY <1>c, <2>1 DEF Staged
  <2>4. c' \in Call BY <1>c, <1>n, <2>1, EmptySeq
  <2>5. Typed'
    BY <1>c, <2>1, <2>2, <2>4, StillTyped
  <2>6. FilesKept' BY <1>c, <2>1 DEF FilesKept, FilesTypeOK
  <2>7. Held'
    BY <1>c, <2>1, <2>2, <2>3, <2>4, <1>n DEF Held
  <2>8. Staged'
    BY <1>c, <2>1, <2>2, <2>3, <2>4, <1>n DEF Staged
  <2>9. Truthful'
    BY <1>c, <2>1, <2>2, <2>3, <2>4, <1>n DEF Truthful, StateTruthful, Staged, Named
  <2>10. Copied'
    BY <1>c, <2>1, <2>2, <2>3, <2>4, <1>n DEF Copied, SnapshotExact, Staged
  <2>11. PlanHeld'
    BY <1>c, <2>1, <2>2, <2>3, <2>4, <1>n DEF PlanHeld, PlanAsRead, Prefix
  <2>12. Lasting'
    BY <1>c, <2>1, <2>2, <2>3, <1>n DEF Lasting, DurableSurvives
  <2> QED BY <2>5, <2>6, <2>7, <2>8, <2>9, <2>10, <2>11, <2>12 DEF Running
<1> QED BY <1>n, <1>1, <1>2 DEF EndRead

(* The bytes of the anonymous file are on the disk before it is linked.      *)
LEMMA FlushStep == ASSUME Running, Flush PROVE Running'
<1> USE DEF Planning, Opening, Unlinked, Linked, Committed, Call, NoOutput
<1>c. /\ c \in Call /\ Typed /\ FilesKept /\ Held /\ Staged /\ Truthful
      /\ Lasting /\ Copied /\ PlanHeld
  BY DEF Running, Typed
<1>t. PICK t \in Ino : t = c.fd["temp"] /\ c.pc = "flush" BY <1>c DEF Held, Flush
<1>d. PICK d \in Seq(Block) : d = file[t].data BY <1>c DEF FilesKept, FilesTypeOK, Inode
<1> DEFINE FlushedAs(next, e) ==
             /\ c.pc = "flush" /\ c' = [c EXCEPT !.pc = next, !.error = e]
             /\ flushed' = [flushed EXCEPT ![t] = d]
             /\ UNCHANGED <<work, entry, file, onDisk, changes, coarse, calls, record, told, plan,
                            output, certified>>
<1>e. c.error = "none" /\ ((FlushedAs("link", "none") /\ d = Expected)
                           \/ (FlushedAs("handler", "Preparation") /\ d # Expected))
  <2>1. c.error = "none" BY <1>c, <1>t DEF Staged
  <2>2. /\ c.pc = "flush" /\ flushed' = [flushed EXCEPT ![t] = d]
        /\ UNCHANGED <<work, entry, file, onDisk, changes, coarse, calls, record, told, plan,
                       output, certified>>
    BY <1>t, <1>d DEF Flush
  <2>3. c' = [c EXCEPT !.pc = IF d = Expected THEN "link" ELSE "handler",
                       !.error = IF d = Expected THEN c.error ELSE "Preparation"]
    BY <1>t, <1>d DEF Flush
  <2>4. CASE d = Expected
    <3>1. c' = [c EXCEPT !.pc = "link", !.error = "none"] BY <2>1, <2>3, <2>4
    <3>2. FlushedAs("link", "none") BY <2>2, <3>1
    <3> HIDE DEF FlushedAs
    <3> QED BY <2>1, <2>4, <3>2
  <2>5. CASE d # Expected
    <3>1. c' = [c EXCEPT !.pc = "handler", !.error = "Preparation"] BY <2>3, <2>5
    <3> QED BY <2>1, <2>2, <2>5, <3>1
  <2> QED BY <2>4, <2>5
<1>1. CASE FlushedAs("link", "none") /\ d = Expected
  <2>1. /\ c.pc = "flush"
        /\ d = Expected
        /\ c' = [c EXCEPT !.pc = "link", !.error = "none"]
        /\ flushed' = [flushed EXCEPT ![t] = d]
        /\ UNCHANGED <<work, entry, file, onDisk, changes, coarse, calls, record, told, plan,
                         output, certified>>
    BY <1>1, <1>t DEF FlushedAs
  <2>2. flushed' \in [Ino -> Seq(Block)] /\ flushed'[t] = d /\ output = NoOutput /\ ~certified
    BY <1>c, <1>t, <1>d, <2>1 DEF FilesKept, FilesTypeOK, Lasting, Truthful, Staged
  <2>3. c'.pc = "link" /\ c'.op = c.op /\ c'.fd = c.fd /\ c'.error = "none"
       /\ c'.state = c.state /\ c'.attempted = c.attempted
    BY <1>c, <2>1
  <2>4. c' \in Call
    <3>1. "none" \in Error BY DEF Error
    <3> QED BY <1>c, <2>1, <3>1
  <2>5. Typed'
    BY <1>c, <2>1, <2>3, <2>4, StillTyped
  <2>6. FilesKept' BY <1>c, <2>1, <2>2 DEF FilesKept, FilesTypeOK
  <2>7. Held' /\ Staged'
    BY <1>c, <2>1, <2>2, <2>3, <2>4, <1>t DEF Held, Staged
  <2>8. Truthful'
    BY <1>c, <2>1, <2>2, <2>3, <2>4, <1>t DEF Truthful, StateTruthful, Staged, Named
  <2>9. Copied' /\ PlanHeld'
    BY <1>c, <2>1, <2>2, <2>3, <2>4, <1>t DEF Copied, SnapshotExact, PlanHeld, PlanAsRead, Staged
  <2>10. Lasting'
    BY <1>c, <2>1, <2>2, <2>3, <1>t, <1>d DEF Lasting, DurableSurvives
  <2> QED BY <2>5, <2>6, <2>7, <2>8, <2>9, <2>10 DEF Running
<1>2. CASE FlushedAs("handler", "Preparation") /\ d # Expected
  <2>1. /\ c.pc = "flush"
        /\ d # Expected
        /\ c' = [c EXCEPT !.pc = "handler", !.error = "Preparation"]
        /\ flushed' = [flushed EXCEPT ![t] = d]
        /\ UNCHANGED <<work, entry, file, onDisk, changes, coarse, calls, record, told, plan,
                         output, certified>>
    BY <1>2, <1>t DEF FlushedAs
  <2>2. flushed' \in [Ino -> Seq(Block)] /\ flushed'[t] = d /\ output = NoOutput /\ ~certified
    BY <1>c, <1>t, <1>d, <2>1 DEF FilesKept, FilesTypeOK, Lasting, Truthful, Staged
  <2>3. c'.pc = "handler" /\ c'.op = c.op /\ c'.fd = c.fd /\ c'.error = "Preparation"
       /\ c'.state = c.state /\ c'.attempted = c.attempted
    BY <1>c, <2>1
  <2>4. c' \in Call
    <3>1. "Preparation" \in Error BY DEF Error
    <3> QED BY <1>c, <2>1, <3>1
  <2>5. Typed'
    BY <1>c, <2>1, <2>3, <2>4, StillTyped
  <2>6. FilesKept' BY <1>c, <2>1, <2>2 DEF FilesKept, FilesTypeOK
  <2>7. Held' /\ Staged'
    BY <1>c, <2>1, <2>2, <2>3, <2>4, <1>t DEF Held, Staged
  <2>8. Truthful'
    BY <1>c, <2>1, <2>2, <2>3, <2>4, <1>t DEF Truthful, StateTruthful, Staged, Named
  <2>9. Copied' /\ PlanHeld'
    BY <1>c, <2>1, <2>2, <2>3, <2>4, <1>t DEF Copied, SnapshotExact, PlanHeld, PlanAsRead, Staged
  <2>10. Lasting'
    BY <1>c, <2>1, <2>2, <2>3, <1>t, <1>d DEF Lasting, DurableSurvives
  <2> QED BY <2>5, <2>6, <2>7, <2>8, <2>9, <2>10 DEF Running
<1> QED BY <1>e, <1>1, <1>2

(* The flag is set before the link.                                          *)
LEMMA AttemptStep == ASSUME Running, Attempt PROVE Running'
<1> USE DEF Planning, Opening, Unlinked, Linked, Committed, Call, NoOutput
<1>c. /\ c \in Call /\ Typed /\ FilesKept /\ Held /\ Staged /\ Truthful
      /\ Lasting /\ Copied /\ PlanHeld
  BY DEF Running, Typed
<1>1. CASE c.pc = "link" /\ Go([c EXCEPT !.pc = "linkat", !.attempted = TRUE])
  <2>1. /\ c.pc = "link"
        /\ c' = [c EXCEPT !.pc = "linkat", !.attempted = TRUE]
        /\ UNCHANGED <<work, entry, file, onDisk, flushed, changes, coarse, calls, record, told,
                         plan, output, certified>>
    BY <1>1 DEF Go, files
  <2>2. c' \in Call BY <1>c, <2>1, EmptySeq DEF Call, Planning, Opening, Unlinked, Linked, States
  <2>t. c'.op = c.op /\ c'.got = c.got /\ c'.snap = c.snap /\ c'.error = c.error /\ plan' = plan
    BY <1>c, <2>1
  <2>u. Typed' BY <1>c, <2>1, <2>2, <2>t, StillTyped
  <2>w. FilesKept' /\ Held' /\ Staged' /\ Truthful'
    BY <1>c, <2>1, <2>2 DEF FilesKept, FilesTypeOK, Held, Staged, Truthful, StateTruthful, Named
  <2>x. Copied' /\ PlanHeld'
    <3>1. Copied' BY <1>c, <2>1, <2>2, <2>t DEF Copied, SnapshotExact, Staged
    <3>2. PlanAsRead' BY <1>c, <2>1, <2>t DEF PlanHeld, PlanAsRead
    <3>3. c'.pc \notin {"lstatPlan", "openPlan", "readPlan", "rereadPlan"} BY <1>c, <2>1
    <3> QED BY <3>1, <3>2, <3>3 DEF PlanHeld
  <2>3. Typed' /\ FilesKept' /\ Held' /\ Staged' /\ Truthful' /\ Copied' /\ PlanHeld'
    BY <2>u, <2>w, <2>x
  <2>4. Lasting'
    BY <1>c, <2>1 DEF Lasting, DurableSurvives
  <2> QED BY <2>3, <2>4 DEF Running
<1> QED BY <1>1 DEF Attempt

(* The state follows the link.                                               *)
LEMMA NoteCommittedStep == ASSUME Running, NoteCommitted PROVE Running'
<1> USE DEF Planning, Opening, Unlinked, Linked, Committed, Call, NoOutput
<1>c. /\ c \in Call /\ Typed /\ FilesKept /\ Held /\ Staged /\ Truthful
      /\ Lasting /\ Copied /\ PlanHeld
  BY DEF Running, Typed
<1>1. CASE c.pc = "linked" /\ Go([c EXCEPT !.pc = "stat", !.state = "committed_not_durable"])
  <2>1. /\ c.pc = "linked"
        /\ c' = [c EXCEPT !.pc = "stat", !.state = "committed_not_durable"]
        /\ UNCHANGED <<work, entry, file, onDisk, flushed, changes, coarse, calls, record, told,
                         plan, output, certified>>
    BY <1>1 DEF Go, files
  <2>2. c' \in Call BY <1>c, <2>1, EmptySeq DEF Call, Planning, Opening, Unlinked, Linked, States
  <2>t. c'.op = c.op BY <1>c, <2>1
  <2>3. Typed'
    BY <1>c, <2>1, <2>2, <2>t, StillTyped
  <2>4. FilesKept' BY <1>c, <2>1 DEF FilesKept, FilesTypeOK
  <2>5. Held' /\ Staged'
    BY <1>c, <2>1, <2>2 DEF Held, Staged, Role
  <2>6. Truthful'
    BY <1>c, <2>1, <2>2 DEF Truthful, StateTruthful, Staged, Named
  <2>7. Copied'
    BY <1>c, <2>1, <2>2 DEF Copied, SnapshotExact, Staged
  <2>8. PlanHeld'
    BY <1>c, <2>1, <2>2 DEF PlanHeld, PlanAsRead, Prefix
  <2>9. Lasting'
    BY <1>c, <2>1 DEF Lasting, DurableSurvives
  <2> QED BY <2>3, <2>4, <2>5, <2>6, <2>7, <2>8, <2>9 DEF Running
<1> QED BY <1>1 DEF NoteCommitted

(* The later stats are compared with this one, of the published file.        *)
LEMMA StatPublishedStep == ASSUME Running, StatPublished PROVE Running'
<1> USE DEF Planning, Opening, Unlinked, Linked, Committed, Call, NoOutput
<1>c. /\ c \in Call /\ Typed /\ FilesKept /\ Held /\ Staged /\ Truthful
      /\ Lasting /\ Copied /\ PlanHeld
  BY DEF Running, Typed
<1>t. PICK t \in Ino : t = c.fd["temp"] BY <1>c DEF Held, StatPublished
<1>m. PICK m \in Stat : m = Meta(t) BY <1>c, MetaStat
<1>1. CASE c.pc = "stat" /\ Raise("Preparation")
  <2>1. /\ c.pc \notin {"idle", "off", "handler", "close"} /\ "Preparation" # "none"
        /\ "Preparation" \in Error /\ ("Preparation" = "NotCommitted" => c.pc = "linkat")
    BY <1>1 DEF Error
  <2> QED BY <1>c, <1>1, <2>1, RaiseStep, Zenon
<1>2. CASE /\ c.pc = "stat" /\ m.mtime = 0
           /\ Go([c EXCEPT !.pc = "rehash", !.base = m])
  <2>1. /\ c.pc = "stat"
        /\ m.mtime = 0
        /\ c' = [c EXCEPT !.pc = "rehash", !.base = m]
        /\ UNCHANGED <<work, entry, file, onDisk, flushed, changes, coarse, calls, record, told,
                         plan, output, certified>>
    BY <1>2 DEF Go, files
  <2>2. c'.base = m /\ c'.fd = c.fd
    BY <1>c, <2>1
  <2>3. m.ino = t /\ (m.ctime <= changes \/ m.ctime = MaxChanges + 1)
    BY <1>c, <1>t, <1>m, FilesAssumption DEF Meta, FilesKept, FilesTypeOK
  <2>4. c' \in Call BY <1>c, <1>m, <2>1
  <2>t. c'.op = c.op BY <1>c, <2>1
  <2>5. Typed'
    BY <1>c, <2>1, <2>4, <2>t, StillTyped
  <2>6. FilesKept' BY <1>c, <2>1 DEF FilesKept, FilesTypeOK
  <2>7. Held' /\ Staged'
    BY <1>c, <2>1, <2>2, <2>3, <2>4 DEF Held, Staged, Role
  <2>8. Truthful'
    BY <1>c, <2>1, <2>2, <2>3, <2>4 DEF Truthful, StateTruthful, Staged, Named
  <2>9. Copied'
    BY <1>c, <2>1, <2>2, <2>3, <2>4 DEF Copied, SnapshotExact, Staged
  <2>10. PlanHeld'
    BY <1>c, <2>1, <2>2, <2>3, <2>4 DEF PlanHeld, PlanAsRead, Prefix
  <2>11. Lasting'
    BY <1>c, <2>1, <2>2, <2>3, <1>t DEF Lasting, DurableSurvives
  <2> QED BY <2>5, <2>6, <2>7, <2>8, <2>9, <2>10, <2>11 DEF Running
<1> QED BY <1>t, <1>m, <1>1, <1>2 DEF StatPublished

(* The link: from here on there is an output, whole and flushed.             *)
LEMMA PublishLinkStep == ASSUME Running, PublishLink PROVE Running'
<1> USE DEF Planning, Opening, Unlinked, Linked, Committed, Call, NoOutput
<1>c. /\ c \in Call /\ Typed /\ FilesKept /\ Held /\ Staged /\ Truthful
      /\ Lasting /\ Copied /\ PlanHeld
  BY DEF Running, Typed
<1>t. PICK t \in Ino, dp \in Dir : t = c.fd["temp"] /\ dp = c.fd["destParent"] /\ c.pc = "linkat"
  BY <1>c DEF Held, PublishLink
<1> DEFINE Publishes ==
             /\ c.pc = "linkat" /\ c' = [c EXCEPT !.pc = "linked"]
             /\ entry' = [entry EXCEPT ![dp]["destination"] = t]
             /\ file' = [file EXCEPT ![t].ctime = MaxChanges + 1]
             /\ output' = [dir |-> dp, ino |-> t, whole |-> (flushed[t] = Expected)]
             /\ UNCHANGED <<work, onDisk, flushed, changes, coarse, calls, record, told, plan,
                            certified>>
<1>1. CASE c.pc = "linkat" /\ Raise("NotCommitted")
  <2>1. /\ c.pc \notin {"idle", "off", "handler", "close"} /\ "NotCommitted" # "none"
        /\ "NotCommitted" \in Error /\ ("NotCommitted" = "NotCommitted" => c.pc = "linkat")
    BY <1>1 DEF Error
  <2> QED BY <1>c, <1>1, <2>1, RaiseStep, Zenon
<1>2. CASE Publishes
  <2>1. /\ c.pc = "linkat"
        /\ c' = [c EXCEPT !.pc = "linked"]
        /\ entry' = [entry EXCEPT ![dp]["destination"] = t]
        /\ file' = [file EXCEPT ![t].ctime = MaxChanges + 1]
        /\ output' = [dir |-> dp, ino |-> t, whole |-> (flushed[t] = Expected)]
        /\ UNCHANGED <<work, onDisk, flushed, changes, coarse, calls, record, told, plan,
                         certified>>
    BY <1>2 DEF Publishes
  <2>2. output' = [dir |-> dp, ino |-> t, whole |-> TRUE] /\ ~certified /\ output' # NoOutput
    BY <1>c, <1>t, <2>1, FilesAssumption DEF Lasting, Staged
  <2>3. file' \in [Ino -> Inode] /\ \A j \in Ino : file'[j].kind = file[j].kind
       /\ file'[j].mtime = file[j].mtime /\ file'[j].data = file[j].data
       /\ file'[j].ctime \in {file[j].ctime, MaxChanges + 1}
    <3>1. file \in [Ino -> Inode] BY <1>c DEF FilesKept, FilesTypeOK
    <3>2. file[t] \in Inode /\ MaxChanges + 1 \in 0 .. MaxChanges + 1 BY <3>1, FilesAssumption
    <3>3. PICK new : new = [file[t] EXCEPT !.ctime = MaxChanges + 1] OBVIOUS
    <3>4. /\ new \in Inode /\ new.kind = file[t].kind /\ new.mtime = file[t].mtime
          /\ new.data = file[t].data /\ new.ctime = MaxChanges + 1
      BY <3>2, <3>3 DEF Inode
    <3>5. file' = [file EXCEPT ![t] = new] BY <2>1, <3>3
    <3> QED BY <3>1, <3>4, <3>5
  <2>4. entry' \in [Dir -> [Name -> Ino \cup {NoIno}]]
       /\ \A e \in Dir, n \in Name : entry'[e][n] \in {entry[e][n], t}
    BY <1>c, <2>1, PrepAssumption DEF FilesKept, FilesTypeOK
  <2>5. c'.pc = "linked" /\ c'.op = c.op /\ c'.fd = c.fd /\ c'.state = c.state
       /\ c'.attempted = c.attempted /\ c'.error = c.error
    BY <1>c, <2>1
  <2>6. file[t].kind = "file" /\ file[t].data = Expected /\ flushed[t] = Expected /\ t # NoIno
    BY <1>c, <1>t, FilesAssumption DEF Held, Lasting
  <2>7. c' \in Call BY <1>c, <2>1
  <2>8. Typed'
    <3>1. UNCHANGED <<calls, record, told, plan, certified>> BY <2>1
    <3>2. output' \in [dir : Dir \cup {NoIno}, ino : Ino \cup {NoIno}, whole : BOOLEAN]
      BY <1>t, <2>2
    <3> QED BY <1>c, <2>5, <2>7, <3>1, <3>2 DEF Typed
  <2>9. FilesKept'
    <3>1. FilesTypeOK' BY <1>c, <2>1, <2>3, <2>4 DEF FilesKept, FilesTypeOK
    <3>2. \A e \in Dir, n \in Name : entry'[e][n] # NoIno => file'[entry'[e][n]].kind # "free"
      <4> SUFFICES ASSUME NEW e \in Dir, NEW n \in Name, entry'[e][n] # NoIno
                   PROVE  file'[entry'[e][n]].kind # "free"
        OBVIOUS
      <4>1. CASE entry'[e][n] = t BY <2>3, <2>6, <4>1
      <4>2. CASE entry'[e][n] = entry[e][n]
        <5>1. entry[e][n] \in Ino /\ file[entry[e][n]].kind # "free"
          BY <1>c, <4>2 DEF FilesKept, FilesTypeOK
        <5> QED BY <2>3, <4>2, <5>1
      <4> QED BY <2>4, <4>1, <4>2
    <3>3. \A j \in Ino : /\ file'[j].mtime <= changes'
                         /\ file'[j].ctime <= changes' \/ file'[j].ctime = MaxChanges + 1
      BY <1>c, <2>1, <2>3 DEF FilesKept
    <3> QED BY <3>1, <3>2, <3>3 DEF FilesKept
  <2>10. Held'
    BY <1>c, <2>1, <2>2, <2>3, <2>4, <2>5, <2>6, <2>7, <1>t DEF Held
  <2>11. Staged'
    BY <1>c, <2>1, <2>2, <2>3, <2>4, <2>5, <2>6, <2>7, <1>t DEF Staged
  <2>12. Truthful'
    BY <1>c, <2>1, <2>2, <2>3, <2>4, <2>5, <2>6, <2>7, <1>t DEF Truthful, StateTruthful, Staged
  <2>13. Copied'
    BY <1>c, <2>1, <2>2, <2>3, <2>4, <2>5, <2>6, <2>7, <1>t DEF Copied, SnapshotExact, Staged
  <2>14. PlanHeld'
    BY <1>c, <2>1, <2>2, <2>3, <2>4, <2>5, <2>6, <2>7, <1>t DEF PlanHeld, PlanAsRead
  <2>15. Lasting'
    BY <1>c, <2>1, <2>2, <2>3, <2>4, <2>5, <2>6, <1>t DEF Lasting, DurableSurvives, Staged
  <2> QED BY <2>8, <2>9, <2>10, <2>11, <2>12, <2>13, <2>14, <2>15 DEF Running
<1> QED BY <1>t, <1>1, <1>2 DEF PublishLink

(* The published file is hashed; what it holds is not changed by that.       *)
LEMMA RehashStep == ASSUME Running, Rehash PROVE Running'
<1> USE DEF Planning, Opening, Unlinked, Linked, Committed, Call, NoOutput
<1>c. /\ c \in Call /\ Typed /\ FilesKept /\ Held /\ Staged /\ Truthful
      /\ Lasting /\ Copied /\ PlanHeld
  BY DEF Running, Typed
<1>t. PICK t \in Ino : t = c.fd["temp"] /\ c.pc = "rehash" BY <1>c DEF Held, Rehash
<1>d. PICK d \in Seq(Block) : d = file[t].data BY <1>c DEF FilesKept, FilesTypeOK, Inode
<1>g. PICK g : g = Append(c.got, d[Len(c.got) + 1]) OBVIOUS
<1>1. CASE c.pc = "rehash" /\ Raise("Preparation")
  <2>1. /\ c.pc \notin {"idle", "off", "handler", "close"} /\ "Preparation" # "none"
        /\ "Preparation" \in Error /\ ("Preparation" = "NotCommitted" => c.pc = "linkat")
    BY <1>1 DEF Error
  <2> QED BY <1>c, <1>1, <2>1, RaiseStep, Zenon
<1>2. CASE Len(c.got) < Len(d) /\ Go([c EXCEPT !.got = g])
  <2>1. /\ c.pc = "rehash"
        /\ Len(c.got) < Len(d)
        /\ c' = [c EXCEPT !.got = g]
        /\ UNCHANGED <<work, entry, file, onDisk, flushed, changes, coarse, calls, record, told,
                         plan, output, certified>>
    BY <1>2, <1>t DEF Go, files
  <2>2. g \in Seq(Block)
    BY <1>c, <1>g, <1>d, <2>1
  <2>3. c' \in Call BY <1>c, <2>1, <2>2
  <2>t. c'.op = c.op BY <1>c, <2>1
  <2>4. Typed'
    BY <1>c, <2>1, <2>3, <2>t, StillTyped
  <2>5. FilesKept' BY <1>c, <2>1 DEF FilesKept, FilesTypeOK
  <2>6. Held' /\ Staged'
    BY <1>c, <2>1, <2>2, <2>3 DEF Held, Staged, Role
  <2>7. Truthful'
    BY <1>c, <2>1, <2>2, <2>3 DEF Truthful, StateTruthful, Staged, Named
  <2>8. Copied'
    BY <1>c, <2>1, <2>2, <2>3 DEF Copied, SnapshotExact, Staged
  <2>9. PlanHeld'
    BY <1>c, <2>1, <2>2, <2>3 DEF PlanHeld, PlanAsRead, Prefix
  <2>10. Lasting'
    BY <1>c, <2>1, <2>2, <1>t DEF Lasting, DurableSurvives
  <2> QED BY <2>4, <2>5, <2>6, <2>7, <2>8, <2>9, <2>10 DEF Running
<1>3. CASE Go([c EXCEPT !.pc = "syncDir", !.got = <<>>])
  <2>1. /\ c.pc = "rehash"
        /\ c' = [c EXCEPT !.pc = "syncDir", !.got = <<>>]
        /\ UNCHANGED <<work, entry, file, onDisk, flushed, changes, coarse, calls, record, told,
                         plan, output, certified>>
    BY <1>3, <1>t DEF Go, files
  <2>2. c' \in Call BY <1>c, <2>1, EmptySeq
  <2>t. c'.op = c.op BY <1>c, <2>1
  <2>3. Typed'
    BY <1>c, <2>1, <2>2, <2>t, StillTyped
  <2>4. FilesKept' BY <1>c, <2>1 DEF FilesKept, FilesTypeOK
  <2>5. Held' /\ Staged'
    BY <1>c, <2>1, <2>2 DEF Held, Staged, Role
  <2>6. Truthful'
    BY <1>c, <2>1, <2>2 DEF Truthful, StateTruthful, Staged, Named
  <2>7. Copied'
    BY <1>c, <2>1, <2>2 DEF Copied, SnapshotExact, Staged
  <2>8. PlanHeld'
    BY <1>c, <2>1, <2>2 DEF PlanHeld, PlanAsRead, Prefix
  <2>9. Lasting'
    BY <1>c, <2>1, <1>t DEF Lasting, DurableSurvives
  <2> QED BY <2>3, <2>4, <2>5, <2>6, <2>7, <2>8, <2>9 DEF Running
<1> QED BY <1>t, <1>d, <1>g, <1>1, <1>2, <1>3 DEF Rehash

(* The name is on the disk after this, unless others replaced it before.     *)
LEMMA SyncDirectoryStep == ASSUME Running, SyncDirectory PROVE Running'
<1> USE DEF Planning, Opening, Unlinked, Linked, Committed, Call, NoOutput
<1>c. /\ c \in Call /\ Typed /\ FilesKept /\ Held /\ Staged /\ Truthful
      /\ Lasting /\ Copied /\ PlanHeld
  BY DEF Running, Typed
<1>t. PICK t \in Ino, dp \in Dir : t = c.fd["temp"] /\ dp = c.fd["destParent"] /\ c.pc = "syncDir"
  BY <1>c DEF Held, SyncDirectory
<1>1. CASE SyncDirectory
  <2>1. /\ c.pc = "syncDir"
        /\ c' = [c EXCEPT !.pc = "named"]
        /\ onDisk' = [onDisk EXCEPT ![dp] = entry[dp]]
        /\ UNCHANGED <<work, entry, file, flushed, changes, coarse, calls, record, told, plan,
                         output, certified>>
    BY <1>1, <1>t DEF SyncDirectory
  <2>2. onDisk' \in [Dir -> [Name -> Ino \cup {NoIno}]] /\ onDisk'[dp] = entry[dp] /\ ~certified
    BY <1>c, <1>t, <2>1 DEF FilesKept, FilesTypeOK, Lasting, Staged
  <2>3. c' \in Call BY <1>c, <2>1
  <2>4. Typed'
    <3>1. UNCHANGED <<calls, record, told, plan, output, certified>> BY <2>1
    <3>2. c'.op = c.op BY <1>c, <2>1
    <3> QED BY <1>c, <2>3, <3>1, <3>2 DEF Typed
  <2>5. FilesKept' BY <1>c, <2>1, <2>2 DEF FilesKept, FilesTypeOK
  <2>6. Held' /\ Staged'
    BY <1>c, <2>1, <2>2, <2>3 DEF Held, Staged, Role
  <2>7. Truthful'
    BY <1>c, <2>1, <2>2, <2>3 DEF Truthful, StateTruthful, Staged, Named
  <2>8. Copied'
    BY <1>c, <2>1, <2>2, <2>3 DEF Copied, SnapshotExact, Staged
  <2>9. PlanHeld'
    BY <1>c, <2>1, <2>2, <2>3 DEF PlanHeld, PlanAsRead, Prefix
  <2>10. Lasting'
    BY <1>c, <2>1, <2>2, <1>t DEF Lasting, DurableSurvives
  <2> QED BY <2>4, <2>5, <2>6, <2>7, <2>8, <2>9, <2>10 DEF Running
<1> QED BY <1>1 DEF SyncDirectory

(* The state says that the name has yet to be looked at.                     *)
LEMMA NoteNameUnavailableStep == ASSUME Running, NoteNameUnavailable PROVE Running'
<1> USE DEF Planning, Opening, Unlinked, Linked, Committed, Call, NoOutput
<1>c. /\ c \in Call /\ Typed /\ FilesKept /\ Held /\ Staged /\ Truthful
      /\ Lasting /\ Copied /\ PlanHeld
  BY DEF Running, Typed
<1>1. CASE c.pc = "named"
           /\ Go([c EXCEPT !.pc = "statName", !.state = "committed_name_unavailable"])
  <2>1. /\ c.pc = "named"
        /\ c' = [c EXCEPT !.pc = "statName", !.state = "committed_name_unavailable"]
        /\ UNCHANGED <<work, entry, file, onDisk, flushed, changes, coarse, calls, record, told,
                         plan, output, certified>>
    BY <1>1 DEF Go, files
  <2>2. c' \in Call BY <1>c, <2>1, EmptySeq DEF Call, Planning, Opening, Unlinked, Linked, States
  <2>t. c'.op = c.op BY <1>c, <2>1
  <2>3. Typed'
    BY <1>c, <2>1, <2>2, <2>t, StillTyped
  <2>4. FilesKept' BY <1>c, <2>1 DEF FilesKept, FilesTypeOK
  <2>5. Held' /\ Staged'
    BY <1>c, <2>1, <2>2 DEF Held, Staged, Role
  <2>6. Truthful'
    BY <1>c, <2>1, <2>2 DEF Truthful, StateTruthful, Staged, Named
  <2>7. Copied'
    BY <1>c, <2>1, <2>2 DEF Copied, SnapshotExact, Staged
  <2>8. PlanHeld'
    BY <1>c, <2>1, <2>2 DEF PlanHeld, PlanAsRead, Prefix
  <2>9. Lasting'
    BY <1>c, <2>1 DEF Lasting, DurableSurvives
  <2> QED BY <2>3, <2>4, <2>5, <2>6, <2>7, <2>8, <2>9 DEF Running
<1> QED BY <1>1 DEF NoteNameUnavailable

(* The name still stands for the file, with the stamps of the base: nobody   *)
(* has replaced it since before the directory was flushed, so that the flush *)
(* has put it on the disk, and nobody has written to the file.               *)
LEMMA StatNameStep == ASSUME Running, StatName PROVE Running'
<1> USE DEF Planning, Opening, Unlinked, Linked, Committed, Call, NoOutput
<1>c. /\ c \in Call /\ Typed /\ FilesKept /\ Held /\ Staged /\ Truthful
      /\ Lasting /\ Copied /\ PlanHeld
  BY DEF Running, Typed
<1>t. PICK t \in Ino, dp \in Dir : t = c.fd["temp"] /\ dp = c.fd["destParent"] /\ c.pc = "statName"
  BY <1>c DEF Held, StatName
<1> DEFINE Concludes == /\ c.pc = "statName" /\ NameHolds
                        /\ c' = [c EXCEPT !.pc = "close", !.state = "durable"]
                        /\ certified' = TRUE
                        /\ UNCHANGED <<files, calls, record, told, plan, output>>
<1>1. CASE c.pc = "statName" /\ Raise("NameUnavailable")
  <2>1. /\ c.pc \notin {"idle", "off", "handler", "close"} /\ "NameUnavailable" # "none"
        /\ "NameUnavailable" \in Error /\ ("NameUnavailable" = "NotCommitted" => c.pc = "linkat")
    BY <1>1 DEF Error
  <2> QED BY <1>c, <1>1, <2>1, RaiseStep, Zenon
<1>2. CASE Concludes
  <2>1. /\ c.pc = "statName"
        /\ c' = [c EXCEPT !.pc = "close", !.state = "durable"]
        /\ certified' = TRUE
        /\ UNCHANGED <<work, entry, file, onDisk, flushed, changes, coarse, calls, record, told,
                         plan, output>>
    BY <1>2 DEF Concludes, files
  <2>2. entry[dp]["destination"] = t /\ file[t].mtime = 0 /\ file[t].ctime = c.base.ctime
    BY <1>c, <1>t, <1>2, PrepAssumption DEF Concludes, NameHolds, Meta, Lasting, FilesKept,
         FilesTypeOK
  <2>3. output = [dir |-> dp, ino |-> t, whole |-> TRUE] /\ output # NoOutput
    BY <1>c, <1>t, FilesAssumption DEF Truthful
  <2>4. ~coarse => onDisk[dp]["destination"] = t /\ file[t].data = Expected
    BY <1>c, <1>t, <2>2 DEF Lasting
  <2>5. flushed[t] = Expected
    BY <1>c, <1>t DEF Lasting
  <2>6. c'.pc = "close" /\ c'.op = c.op /\ c'.fd = c.fd /\ c'.state = "durable"
       /\ c'.op = "prepare"
    BY <1>c, <2>1 DEF Staged
  <2>7. c' \in Call BY <1>c, <2>1 DEF States
  <2>8. Typed' BY <1>c, <2>1, <2>7 DEF Typed
  <2>9. FilesKept' BY <1>c, <2>1 DEF FilesKept, FilesTypeOK
  <2>10. Held' /\ Staged'
    BY <1>c, <2>1, <2>2, <2>3, <2>4, <2>5, <2>6, <2>7, <1>t DEF Held, Staged, Role
  <2>11. Truthful'
    BY <1>c, <2>1, <2>2, <2>3, <2>4, <2>5, <2>6, <2>7, <1>t DEF Truthful, StateTruthful, Staged,
         Named
  <2>12. Copied'
    BY <1>c, <2>1, <2>2, <2>3, <2>4, <2>5, <2>6, <2>7, <1>t DEF Copied, SnapshotExact, Staged
  <2>13. PlanHeld'
    BY <1>c, <2>1, <2>2, <2>3, <2>4, <2>5, <2>6, <2>7, <1>t DEF PlanHeld, PlanAsRead, Prefix
  <2>14. Lasting'
    BY <1>c, <2>1, <2>2, <2>3, <2>4, <2>5, <2>6 DEF Lasting, DurableSurvives
  <2> QED BY <2>8, <2>9, <2>10, <2>11, <2>12, <2>13, <2>14 DEF Running
<1> QED BY <1>t, <1>1, <1>2 DEF StatName

(* The except clause: the link count of the anonymous file, when it can be   *)
(* had, tells whether the link was made; a file with a name has an output.   *)
LEMMA HandleStep == ASSUME Running, Handle PROVE Running'
<1> USE DEF Planning, Opening, Unlinked, Linked, Committed, Call, NoOutput
<1>c. /\ c \in Call /\ Typed /\ FilesKept /\ Held /\ Staged /\ Truthful
      /\ Lasting /\ Copied /\ PlanHeld
  BY DEF Running, Typed
<1>1. PICK failed \in BOOLEAN :
        c' = [c EXCEPT !.pc = "close", !.state = Inspected(failed),
                       !.error = Translated(c.error, Inspected(failed))]
  BY DEF Handle, Go
<1>2. /\ c.pc = "handler" /\ c.error # "none" /\ c.op # "none"
      /\ c.op \in {"verify", "prepare", "reopen"}
      /\ UNCHANGED <<work, entry, file, onDisk, flushed, changes, coarse, calls, record, told, plan,
                     output, certified>>
  BY <1>c DEF Handle, Go, files, Staged
<1>3. PICK st : st = Inspected(failed) OBVIOUS
<1>4. PICK er : er = Translated(c.error, st) OBVIOUS
<1>5. /\ st \in States
      /\ (st = c.state \/ st \in {"committed_not_durable", "commit_outcome_unknown"})
      /\ Uncertain \/ st = c.state
      /\ Uncertain => st # "not_committed"
  BY <1>c, <1>3 DEF Inspected, States, Uncertain
<1>6. er \in Error /\ er # "none"
  <2>1. c.error \in Error \ {"none"} BY <1>c, <1>2
  <2> QED BY <2>1, <1>4 DEF Translated, Error
<1>7. st \in Committed => output # NoOutput
  <2>1. CASE st = c.state BY <1>c, <2>1 DEF Truthful
  <2>2. CASE st # c.state /\ st \in Committed
    <3>1. Uncertain /\ Links(c.fd["temp"]) >= 1 BY <1>3, <2>2 DEF Inspected
    <3>2. c.fd["temp"] \in Ino BY <1>c, <3>1 DEF Uncertain, Held
    <3>3. Named(c.fd["temp"]) BY <3>1, LinkCount
    <3> QED BY <1>c, <3>2, <3>3, FilesAssumption DEF Truthful
  <2> QED BY <2>1, <2>2
<1>8. /\ c.op # "prepare" => st = "not_committed"
      /\ c.op = "prepare" /\ st = "not_committed" => output = NoOutput
  BY <1>c, <1>2, <1>5 DEF Truthful, Uncertain
<1>9. c' = [c EXCEPT !.pc = "close", !.state = st, !.error = er] BY <1>1, <1>3, <1>4
<1>10. c' \in Call BY <1>c, <1>9, <1>5, <1>6
<1>11. /\ c'.pc = "close" /\ c'.op = c.op /\ c'.fd = c.fd /\ c'.error = er /\ c'.state = st
       /\ c'.attempted = c.attempted
  BY <1>c, <1>9
<1>12. Typed' BY <1>c, <1>2, <1>10, <1>11 DEF Typed
<1>13. FilesKept' BY <1>c, <1>2 DEF FilesKept, FilesTypeOK
<1>14. Held' /\ Staged' BY <1>c, <1>2, <1>11 DEF Held, Staged
<1>15. Truthful' BY <1>c, <1>2, <1>5, <1>7, <1>8, <1>11 DEF Truthful, StateTruthful, Named, Staged
<1>16. Copied' /\ PlanHeld'
  BY <1>c, <1>2, <1>6, <1>11 DEF Copied, SnapshotExact, PlanHeld, PlanAsRead
<1>17. Lasting' BY <1>c, <1>2, <1>11 DEF Lasting, DurableSurvives
<1> QED BY <1>12, <1>13, <1>14, <1>15, <1>16, <1>17 DEF Running

(* The caller is told the state, and gets a snapshot only when nothing       *)
(* failed.                                                                   *)
LEMMA CloseStep == ASSUME Running, Close PROVE Running'
<1> USE DEF Planning, Opening, Unlinked, Linked, Committed, NoOutput
<1>c. /\ c \in Call /\ Typed /\ FilesKept /\ Held /\ Staged /\ Truthful
      /\ Lasting /\ Copied /\ PlanHeld
  BY DEF Running, Typed
<1>1. PICK failure, e, keep :
        /\ failure \in {"none", "Exception", "Interrupt"} /\ e = WithFailure(c.error, failure)
        /\ keep = (c.op = "reopen" /\ e = "none")
        /\ told' = [op |-> c.op, error |-> e, state |-> c.state] /\ record' = Issued(e)
        /\ c' = [Idle EXCEPT !.snap = IF keep THEN c.snap ELSE <<>>, !.sealed = keep]
  BY DEF Close, SnapshotKept
<1>2. /\ c.pc = "close" /\ c.op # "none" /\ c.op \in {"verify", "prepare", "reopen"} \cap Operations
      /\ UNCHANGED <<work, entry, file, onDisk, flushed, changes, coarse, calls, plan, output,
                     certified>>
  BY <1>c DEF Close, files, Staged, Typed, Call
<1>3. e \in Error /\ (e = "none" => c.error = "none") /\ keep \in BOOLEAN
  <2>1. c.error \in Error BY <1>c DEF Call
  <2> QED BY <2>1, <1>1 DEF WithFailure, Error
<1>4. PICK kept \in Seq(Block) : kept = IF keep THEN c.snap ELSE <<>>
  BY <1>c, <1>3, EmptySeq DEF Call
<1>5. c' = [Idle EXCEPT !.snap = kept, !.sealed = keep] BY <1>1, <1>4
<1>6. c' \in Call
  <2>1. Idle \in Call BY EmptySeq DEF Idle, Call, NoFds, NoMeta, Stat, Error, States
  <2> QED BY <1>3, <1>5, <2>1 DEF Call
<1>7. /\ c'.pc = "idle" /\ c'.op = "none" /\ c'.fd = NoFds /\ c'.error = "none" /\ c'.snap = kept
      /\ c'.state = "not_committed" /\ c'.attempted = FALSE /\ c'.sealed = keep
  BY <1>5 DEF Idle
<1>8. /\ record' \in [name : {"none", "source", "destination"}, dir : Dir \cup {NoIno},
                      ino : Ino \cup {NoIno}]
      /\ record'.name = "none" => record' = NoRecord
  BY <1>c, <1>1 DEF Issued, Typed, Staged, Held
<1>9. told' \in [op : Operations \cup {"none"}, error : Error, state : States]
  BY <1>c, <1>1, <1>2, <1>3 DEF Call
<1>10. Typed' BY <1>c, <1>2, <1>6, <1>7, <1>8, <1>9 DEF Typed
<1>11. FilesKept' BY <1>c, <1>2 DEF FilesKept, FilesTypeOK
<1>12. Held' BY <1>7 DEF Held, NoFds, Role
<1>13. Staged' BY <1>7, <1>8 DEF Staged
<1>14. StateTruthful' BY <1>c, <1>1, <1>2 DEF Truthful, StateTruthful
<1>15. Truthful' BY <1>7, <1>14 DEF Truthful, NoFds, Role
<1>16. PlanHeld' BY <1>c, <1>2, <1>7 DEF PlanHeld, PlanAsRead
<1>17. Copied'
  <2>1. told'.op = "reopen" /\ told'.error = "none" => keep /\ c.sealed /\ kept = Expected
    BY <1>c, <1>1, <1>2, <1>3, <1>4 DEF Copied
  <2> QED BY <1>7, <2>1 DEF Copied, SnapshotExact
<1>18. Lasting' BY <1>c, <1>2, <1>7 DEF Lasting, DurableSurvives
<1> QED BY <1>10, <1>11, <1>12, <1>13, <1>15, <1>16, <1>17, <1>18 DEF Running

(* An exception at any statement.                                            *)
LEMMA FaultStep == ASSUME Running, Fault PROVE Running'
<1>1. PICK e \in {"OSError", "Exception", "Interrupt"} :
        Raise(e) /\ c.pc \notin {"idle", "off", "handler", "close"}
  BY DEF Fault
<1>2. e \in Error /\ e # "none" /\ e # "NotCommitted" BY DEF Error
<1> QED BY <1>1, <1>2, RaiseStep

-----------------------------------------------------------------------------
(* Other programs, and the loss of power. *)

(* Another program changes the files while this process is at work.          *)
LEMMA OtherProgramStep == ASSUME Running, OtherProgram PROVE Running'
<1> USE DEF Planning, Opening, Unlinked, Linked, Committed, NoOutput
<1>c. /\ c \in Call /\ Typed /\ FilesKept /\ Held /\ Staged /\ Truthful
      /\ Lasting /\ Copied /\ PlanHeld
  BY DEF Running, Typed
<1>1. /\ changes < MaxChanges /\ changes' = changes + 1 /\ certified' = FALSE
      /\ UNCHANGED <<c, calls, record, told, output, onDisk, flushed, coarse>>
  BY DEF OtherProgram, Change
<1>2. FilesKept' /\ Written /\ Bound BY <1>c, ChangeEffect DEF OtherProgram
<1>p. /\ plan' \in [opened : Seq(Block), now : Seq(Block), rewrites : Nat, read : Seq(Block)]
      /\ plan'.opened = plan.opened /\ plan'.read = plan.read
      /\ c.pc \notin {"readPlan", "rereadPlan"} => plan' = plan
  <2>1. CASE c.pc \notin {"readPlan", "rereadPlan"} BY <1>c, <2>1 DEF OtherProgram, Noted, Typed
  <2>2. CASE c.pc \in {"readPlan", "rereadPlan"}
    <3>1. c.fd["plan"] \in Ino BY <1>c, <2>2 DEF Held
    <3>2. file'[c.fd["plan"]].data \in Seq(Block) BY <1>2, <3>1 DEF FilesKept, FilesTypeOK, Inode
    <3>3. CASE file'[c.fd["plan"]].data = file[c.fd["plan"]].data
      BY <1>c, <2>2, <3>3 DEF OtherProgram, Noted, Typed
    <3>4. CASE file'[c.fd["plan"]].data # file[c.fd["plan"]].data
      <4>1. plan' = [plan EXCEPT !.now = file'[c.fd["plan"]].data, !.rewrites = plan.rewrites + 1]
        BY <2>2, <3>4 DEF OtherProgram, Noted
      <4>2. plan \in [opened : Seq(Block), now : Seq(Block), rewrites : Nat, read : Seq(Block)]
        BY <1>c DEF Typed
      <4>3. plan'.rewrites = plan.rewrites + 1 /\ plan'.rewrites \in Nat BY <4>1, <4>2
      <4> QED BY <2>2, <3>2, <4>1, <4>2, <4>3
    <3> QED BY <3>3, <3>4
  <2> QED BY <2>1, <2>2
<1>3. /\ changes \in 0 .. MaxChanges /\ changes + 1 # 0 /\ changes + 1 # MaxChanges + 1
      /\ changes < changes + 1 /\ MaxChanges \in Nat
  BY <1>c, <1>1, FilesAssumption DEF FilesKept, FilesTypeOK
<1>4. \A i \in Ino : file[i].mtime \in Nat /\ file'[i].mtime \in Nat
  BY <1>c, <1>2, FilesAssumption DEF FilesKept, FilesTypeOK, Inode
<1>5. Typed' BY <1>c, <1>1, <1>p DEF Typed
<1>6. Held' BY <1>c, <1>1, <1>2 DEF Held, Written
<1>7. Staged' BY <1>c, <1>1 DEF Staged
<1>8. Truthful'
  <2>1. c.fd["temp"] # NoIno /\ output = NoOutput => ~Named(c.fd["temp"])'
    <3> SUFFICES ASSUME c.fd["temp"] # NoIno, output = NoOutput, NEW d \in Dir, NEW n \in Name,
                        entry'[d][n] = c.fd["temp"]
                 PROVE  FALSE
      BY <1>1 DEF Named
    <3>1. ~Named(c.fd["temp"]) /\ c.fd["temp"] \in Ino /\ file[c.fd["temp"]].kind = "file"
      BY <1>c DEF Truthful, Held
    <3>2. entry[d][n] # c.fd["temp"] BY <3>1 DEF Named
    <3> QED BY <1>2, <3>1, <3>2 DEF Bound
  <2> QED BY <1>c, <1>1, <2>1 DEF Truthful, StateTruthful
<1>9. Copied' BY <1>c, <1>1 DEF Copied, SnapshotExact
<1>10. PlanHeld'
  <2>1. PICK p : p = c.fd["plan"] OBVIOUS
  <2>2. CASE c.pc \in {"readPlan", "rereadPlan"}
    <3>1. p \in Ino /\ Prefix(p) /\ c.meta.mtime <= changes /\ c.meta.mtime \in Nat
      BY <1>c, <2>1, <2>2 DEF Held, PlanHeld, Call, Stat
    <3>2. /\ file'[p].kind # "free" /\ file'[p].mtime \in {file[p].mtime, changes + 1}
          /\ file'[p].data # file[p].data /\ ~coarse => file'[p].mtime = changes + 1
      BY <1>2, <3>1 DEF Written, Prefix
    <3>3. c.meta.mtime <= file'[p].mtime BY <1>3, <1>4, <3>1, <3>2 DEF Prefix
    <3>4. ~coarse /\ c.meta.mtime = file'[p].mtime =>
            c.meta.mtime = file[p].mtime /\ file'[p].data = file[p].data
      BY <1>3, <1>4, <3>1, <3>2
    <3>5. Prefix(p)' BY <1>1, <1>p, <3>1, <3>2, <3>3, <3>4 DEF Prefix
    <3>6. c.meta.mtime <= changes' BY <1>1, <1>3, <3>1
    <3>7. Versions(p)'
      <4>1. Versions(p) /\ plan.rewrites \in Nat BY <1>c, <2>1, <2>2 DEF PlanHeld, Typed
      <4>2. CASE file'[p].data = file[p].data
        <5>1. plan' = plan BY <2>1, <4>2 DEF OtherProgram, Noted
        <5> QED BY <1>1, <4>1, <4>2, <5>1 DEF Versions
      <4>3. CASE file'[p].data # file[p].data
        <5>1. /\ plan'.now = file'[p].data /\ plan'.rewrites = plan.rewrites + 1
              /\ plan'.opened = plan.opened
          BY <1>c, <2>1, <2>2, <4>3 DEF OtherProgram, Noted, Typed
        <5>2. plan'.rewrites # 0 /\ (plan'.rewrites = 1 => plan.rewrites = 0) BY <4>1, <5>1
        <5> QED BY <1>1, <4>1, <5>1, <5>2 DEF Versions
      <4> QED BY <4>2, <4>3
    <3>8. plan.read = <<>> /\ plan'.read = <<>> BY <1>c, <1>p, <2>2 DEF PlanHeld
    <3> QED BY <1>c, <1>1, <2>1, <3>5, <3>6, <3>7, <3>8, <2>2 DEF PlanHeld, PlanAsRead
  <2>3. CASE c.pc \notin {"readPlan", "rereadPlan"}
    <3>1. c.pc = "openPlan" => c.meta.mtime <= changes'
      BY <1>c, <1>1, <1>3 DEF PlanHeld, Call, Stat
    <3> QED BY <1>c, <1>1, <1>p, <2>3, <3>1 DEF PlanHeld, PlanAsRead
  <2> QED BY <2>2, <2>3
<1>11. Lasting'
  <2>1. PICK t, dp : t = c.fd["temp"] /\ dp = c.fd["destParent"] OBVIOUS
  <2>2. c.op = "prepare" /\ c.pc \in {"read", "flush", "link", "linkat"} => file'[t] = file[t]
    <3> SUFFICES ASSUME c.op = "prepare", c.pc \in {"read", "flush", "link", "linkat"}
                 PROVE  file'[t] = file[t]
      OBVIOUS
    <3>1. t \in Ino /\ file[t].kind = "file" /\ ~Named(t)
      BY <1>c, <2>1, FilesAssumption DEF Held, Truthful
    <3> QED BY <1>2, <3>1 DEF Written
  <2>3. c.pc \in {"link", "linkat"} => c.op = "prepare" BY <1>c DEF Staged
  <2>4. c.pc \in Linked /\ ~coarse /\ file'[t].mtime = 0 => file'[t].data = Expected
    <3> SUFFICES ASSUME c.pc \in Linked, ~coarse, file'[t].mtime = 0
                 PROVE  file'[t].data = Expected
      OBVIOUS
    <3>1. t \in Ino /\ file[t].kind = "file" BY <1>c, <2>1, FilesAssumption DEF Held
    <3>2. file[t].mtime = 0 /\ file'[t].data = file[t].data BY <1>2, <1>3, <3>1 DEF Written
    <3> QED BY <1>c, <2>1, <3>2 DEF Lasting
  <2>5. c.pc \in {"rehash", "syncDir", "named", "statName"} =>
          c.base.ctime <= changes' \/ c.base.ctime = MaxChanges + 1
    BY <1>c, <1>1, <1>3 DEF Lasting, Call, Stat
  <2>6. c.pc \in {"named", "statName"} /\ ~coarse /\ file'[t].ctime = c.base.ctime
          /\ entry'[dp]["destination"] = t => onDisk[dp]["destination"] = t
    <3> SUFFICES ASSUME c.pc \in {"named", "statName"}, ~coarse, file'[t].ctime = c.base.ctime,
                        entry'[dp]["destination"] = t
                 PROVE  onDisk[dp]["destination"] = t
      OBVIOUS
    <3>1. t \in Ino /\ file[t].kind = "file" /\ dp \in Dir /\ t # NoIno
      BY <1>c, <2>1, FilesAssumption DEF Held
    <3>2. c.base.ctime # changes + 1 BY <1>c, <1>1, <1>3 DEF Lasting, Call, Stat
    <3>3. file[t].ctime = c.base.ctime BY <1>2, <3>1, <3>2 DEF Written
    <3>4. entry[dp]["destination"] = t BY <1>2, <3>1, <3>2, PrepAssumption DEF Bound
    <3> QED BY <1>c, <2>1, <3>3, <3>4 DEF Lasting
  <2> QED BY <1>c, <1>1, <2>1, <2>2, <2>3, <2>4, <2>5, <2>6 DEF Lasting, DurableSurvives
<1> QED BY <1>2, <1>5, <1>6, <1>7, <1>8, <1>9, <1>10, <1>11 DEF Running

(* After a power loss nothing runs any more; what was certified is on disk.  *)
LEMMA PowerLossStep == ASSUME Running, PowerLoss PROVE PrepInv'
<1> USE DEF NoOutput
<1>c. c \in Call /\ Typed /\ FilesKept /\ Lasting /\ PlanHeld BY DEF Running, Typed
<1>1. /\ entry' \in {entry, onDisk} /\ c' = [Idle EXCEPT !.pc = "off"] /\ c.pc # "off"
      /\ file' \in {file, [i \in Ino |-> [file[i] EXCEPT !.data = flushed[i]]]}
      /\ UNCHANGED <<work, onDisk, flushed, changes, coarse, calls, record, told, plan, certified>>
  BY DEF PowerLoss, Lose
<1>2. output' = IF output = NoOutput
                   \/ entry'[output.dir]["destination"] = entry[output.dir]["destination"]
                THEN output ELSE NoOutput
  BY DEF PowerLoss
<1>3. FilesTypeOK'
  <2>1. file' \in [Ino -> Inode]
    <3>1. CASE file' = file BY <1>c, <3>1 DEF FilesKept, FilesTypeOK
    <3>2. CASE file' = [i \in Ino |-> [file[i] EXCEPT !.data = flushed[i]]]
      <4>1. \A i \in Ino : file[i] \in Inode /\ flushed[i] \in Seq(Block)
        BY <1>c DEF FilesKept, FilesTypeOK
      <4>2. \A f \in Inode, s \in Seq(Block) : [f EXCEPT !.data = s] \in Inode BY DEF Inode
      <4> QED BY <3>2, <4>1, <4>2
    <3> QED BY <1>1, <3>1, <3>2
  <2> QED BY <1>c, <1>1, <2>1 DEF FilesKept, FilesTypeOK
<1>4. Typed'
  <2>1. Idle \in Call BY EmptySeq DEF Idle, Call, NoFds, NoMeta, Stat, Error, States
  <2>2. c' \in Call /\ c'.op = "none" BY <1>1, <2>1 DEF Call, Idle
  <2>3. output' \in [dir : Dir \cup {NoIno}, ino : Ino \cup {NoIno}, whole : BOOLEAN]
    BY <1>c, <1>2 DEF Typed
  <2> QED BY <1>c, <1>1, <2>2, <2>3 DEF Typed
<1>5. Over'
  <2>1. ASSUME certified, ~coarse
        PROVE  /\ output' = output /\ output # NoOutput
               /\ entry'[output.dir]["destination"] = output.ino
               /\ file'[output.ino].data = Expected
    <3>1. /\ output # NoOutput /\ output.ino \in Ino
          /\ entry[output.dir]["destination"] = output.ino
          /\ onDisk[output.dir]["destination"] = output.ino
          /\ file[output.ino].data = Expected /\ flushed[output.ino] = Expected
      BY <1>c, <1>1, <2>1 DEF Lasting
    <3>2. entry'[output.dir]["destination"] = output.ino BY <1>1, <3>1
    <3>3. file'[output.ino].data = Expected
      <4>1. CASE file' = file BY <3>1, <4>1
      <4>2. CASE file' = [i \in Ino |-> [file[i] EXCEPT !.data = flushed[i]]]
        <5>1. file[output.ino] \in Inode BY <1>c, <3>1 DEF FilesKept, FilesTypeOK
        <5> QED BY <3>1, <4>2, <5>1 DEF Inode
      <4> QED BY <1>1, <4>1, <4>2
    <3> QED BY <1>2, <3>1, <3>2, <3>3
  <2>2. DurableSurvives' BY <1>1, <2>1 DEF DurableSurvives
  <2>3. PlanAsRead' BY <1>c, <1>1 DEF PlanHeld, PlanAsRead
  <2>4. output' # NoOutput => output'.whole BY <1>c, <1>2 DEF Lasting
  <2> QED BY <2>2, <2>3, <2>4 DEF Over
<1>6. c'.pc = "off" BY <1>1 DEF Idle
<1> QED BY <1>3, <1>4, <1>5, <1>6 DEF PrepInv

-----------------------------------------------------------------------------
(* The first state and every step. *)

(* Whatever tree there is at first.                                          *)
LEMMA PrepInit == Init => PrepInv
<1> SUFFICES ASSUME Init PROVE PrepInv OBVIOUS
<1> USE DEF Planning, Opening, Unlinked, Linked, Committed, NoOutput
<1>1. PICK t \in Trees : work = t.work /\ entry = t.entry /\ file = t.file BY DEF Init, FilesInit
<1>2. /\ onDisk = entry /\ flushed = [i \in Ino |-> file[i].data] /\ changes \in 0 .. MaxChanges
      /\ coarse \in BOOLEAN
  BY FilesAssumption DEF Init, FilesInit
<1>3. /\ c = Idle /\ calls \in 0 .. MaxOperations /\ record = NoRecord /\ told = NoTold
      /\ plan = NoPlan /\ output = NoOutput /\ certified = FALSE
  BY DEF Init, CallInit
<1>4. /\ work \in Dir \cup {NoIno} /\ entry \in [Dir -> [Name -> Ino \cup {NoIno}]]
      /\ file \in [Ino -> [kind : {"free", "file", "link"}, data : Seq(Block), mtime : {0},
                           ctime : {0}]]
      /\ \A d \in Dir, n \in Name : entry[d][n] # NoIno => file[entry[d][n]].kind # "free"
  BY <1>1, FilesAssumption DEF Tree
<1>5. MaxChanges \in Nat /\ changes \in Nat /\ 0 \in 0 .. MaxChanges /\ 0 \in 0 .. MaxChanges + 1
  BY <1>2, FilesAssumption
<1>6. \A i \in Ino : file[i] \in Inode /\ file[i].mtime = 0 /\ file[i].ctime = 0
                     /\ file[i].data \in Seq(Block)
  BY <1>4, <1>5 DEF Inode
<1>7. FilesKept
  <2>1. FilesTypeOK BY <1>2, <1>4, <1>6 DEF FilesTypeOK
  <2> QED BY <1>4, <1>5, <1>6, <2>1 DEF FilesKept
<1>8. Idle \in Call BY EmptySeq DEF Idle, Call, NoFds, NoMeta, Stat, Error, States
<1>9. /\ c.pc = "idle" /\ c.op = "none" /\ c.fd = NoFds /\ c.error = "none"
      /\ c.state = "not_committed" /\ c.attempted = FALSE
  BY <1>3 DEF Idle
<1>10. Typed BY <1>3, <1>8, <1>9, EmptySeq DEF Typed, NoRecord, NoTold, NoPlan, Error, States
<1>11. Held BY <1>9 DEF Held, NoFds, Role
<1>12. Staged BY <1>3, <1>9 DEF Staged, NoTold
<1>13. Truthful BY <1>3, <1>9 DEF Truthful, StateTruthful, NoTold, NoFds, Role
<1>14. Lasting BY <1>3, <1>9 DEF Lasting, DurableSurvives
<1>15. Copied /\ PlanHeld
  BY <1>3, <1>9 DEF Copied, SnapshotExact, PlanHeld, PlanAsRead, NoTold, NoPlan
<1> QED
  BY <1>7, <1>9, <1>10, <1>11, <1>12, <1>13, <1>14, <1>15 DEF PrepInv, Running, FilesKept

(* A call goes on or the machine is off.                                     *)
LEMMA RunningKept == ASSUME Running, Process \/ Fault \/ OtherProgram PROVE Running'
<1>1. CASE Process
  BY <1>1, StartStep, LstatPlanStep, OpenPlanStep, ReadPlanStep, ClosePlanStep, ParsePlanStep,
     OpenParentStep, OpenSourceStep, OpenDestStep, CreateTemporaryStep, ReadBlockStep, EndReadStep,
     SealSnapshotStep, FlushStep, AttemptStep, PublishLinkStep, NoteCommittedStep,
     StatPublishedStep, RehashStep, SyncDirectoryStep, NoteNameUnavailableStep, StatNameStep,
     HandleStep, CloseStep, Zenon DEF Process
<1>2. CASE Fault BY <1>2, FaultStep, Zenon
<1>3. CASE OtherProgram BY <1>3, OtherProgramStep, Zenon
<1> QED BY <1>1, <1>2, <1>3

(* Only the link of the anonymous file makes an output: a whole one.         *)
LEMMA OutputMade ==
    ASSUME Running, PublishLink
    PROVE  UNCHANGED output \/ (output = NoOutput /\ output' # NoOutput /\ output'.whole = TRUE)
<1>c. /\ Held /\ Truthful /\ Lasting BY DEF Running
<1>1. CASE Raise("NotCommitted") BY <1>1 DEF Raise, Go
<1>2. CASE /\ c.pc = "linkat"
           /\ output' = [dir |-> c.fd["destParent"], ino |-> c.fd["temp"],
                         whole |-> (flushed[c.fd["temp"]] = Expected)]
  <2>1. flushed[c.fd["temp"]] = Expected /\ c.fd["temp"] \in Ino /\ output = NoOutput
    BY <1>c, <1>2 DEF Held, Lasting, Truthful
  <2> QED BY <1>2, <2>1 DEF NoOutput
<1> QED BY <1>1, <1>2 DEF PublishLink

(* No other step of the process makes or loses one, and none stops it.       *)
LEMMA OutputKept ==
    ASSUME Running, Process \/ Fault \/ OtherProgram
    PROVE  c'.pc # "off" /\ (UNCHANGED output \/ PublishLink)
<1>c. c \in Call BY DEF Running, Typed
<1>1. CASE Start
  <2>1. PICK o, limit : c' = [Idle EXCEPT !.op = o, !.limit = limit,
                                   !.pc = IF o = "reopen" THEN "openParent" ELSE "lstatPlan",
                                   !.domain = IF o = "reopen" THEN "corpus" ELSE "plan"]
    BY <1>1 DEF Start
  <2>2. c'.pc = IF o = "reopen" THEN "openParent" ELSE "lstatPlan" BY <2>1 DEF Idle
  <2> QED BY <1>1, <2>2 DEF Start
<1>2. CASE LstatPlan BY <1>c, <1>2 DEF LstatPlan, Raise, Go, Call
<1>3. CASE OpenPlan BY <1>c, <1>3 DEF OpenPlan, Raise, Go, Call
<1>4. CASE ReadPlan BY <1>c, <1>4 DEF ReadPlan, Raise, Go, Call
<1>5. CASE ClosePlan BY <1>c, <1>5 DEF ClosePlan, Raise, Go, Call
<1>6. CASE ParsePlan BY <1>c, <1>6 DEF ParsePlan, Raise, Go, Call
<1>7. CASE OpenParent BY <1>c, <1>7 DEF OpenParent, Raise, Go, Call
<1>8. CASE OpenSource BY <1>c, <1>8 DEF OpenSource, Raise, Go, Call
<1>9. CASE OpenDest BY <1>c, <1>9 DEF OpenDest, Raise, Go, Call
<1>10. CASE CreateTemporary BY <1>c, <1>10 DEF CreateTemporary, Raise, Go, Call
<1>11. CASE ReadBlock BY <1>c, <1>11 DEF ReadBlock, Raise, Go, Call
<1>12. CASE EndRead BY <1>c, <1>12 DEF EndRead, Raise, Go, Call
<1>13. CASE SealSnapshot BY <1>c, <1>13 DEF SealSnapshot, Go, Call
<1>14. CASE Flush BY <1>c, <1>14 DEF Flush, Call
<1>15. CASE Attempt BY <1>c, <1>15 DEF Attempt, Go, Call
<1>16. CASE PublishLink BY <1>c, <1>16 DEF PublishLink, Raise, Go, Call
<1>17. CASE NoteCommitted BY <1>c, <1>17 DEF NoteCommitted, Go, Call
<1>18. CASE StatPublished BY <1>c, <1>18 DEF StatPublished, Raise, Go, Call
<1>19. CASE Rehash BY <1>c, <1>19 DEF Rehash, Raise, Go, Call
<1>20. CASE SyncDirectory BY <1>c, <1>20 DEF SyncDirectory, Call
<1>21. CASE NoteNameUnavailable BY <1>c, <1>21 DEF NoteNameUnavailable, Go, Call
<1>22. CASE StatName BY <1>c, <1>22 DEF StatName, Raise, Go, Call
<1>23. CASE Handle BY <1>c, <1>23 DEF Handle, Go, Call
<1>24. CASE Close
  <2>1. PICK snap, sealed : c' = [Idle EXCEPT !.snap = snap, !.sealed = sealed] BY <1>24 DEF Close
  <2> QED BY <1>24, <2>1 DEF Close, Idle
<1>25. CASE Fault BY <1>c, <1>25 DEF Fault, Raise, Go, Call
<1>26. CASE OtherProgram
  <2>1. c.pc # "off" /\ UNCHANGED <<c, output>> BY <1>26 DEF OtherProgram
  <2> QED BY <2>1
<1> QED
  BY <1>1, <1>2, <1>3, <1>4, <1>5, <1>6, <1>7, <1>8, <1>9, <1>10, <1>11, <1>12, <1>13, <1>14,
     <1>15, <1>16, <1>17, <1>18, <1>19, <1>20, <1>21, <1>22, <1>23, <1>24, <1>25, <1>26, Zenon
     DEF Process

(* A machine that is off does nothing.                                       *)
LEMMA OffStays == ASSUME c.pc = "off", Next PROVE FALSE
<1>1. CASE Process
  BY <1>1 DEF Process, Start, LstatPlan, OpenPlan, ReadPlan, ClosePlan, ParsePlan, OpenParent,
     OpenSource, OpenDest, CreateTemporary, ReadBlock, EndRead, SealSnapshot, Flush, Attempt,
     PublishLink, NoteCommitted, StatPublished, Rehash, SyncDirectory, NoteNameUnavailable,
     StatName, Handle, Close
<1>2. CASE Fault BY <1>2 DEF Fault
<1>3. CASE OtherProgram \/ PowerLoss BY <1>3 DEF OtherProgram, PowerLoss
<1> QED BY <1>1, <1>2, <1>3 DEF Next

(* Every step keeps the invariant.                                           *)
LEMMA PrepNext == ASSUME PrepInv, [Next]_vars PROVE PrepInv'
<1>1. CASE UNCHANGED vars
  <2>1. UNCHANGED <<work, entry, file, onDisk, flushed, changes, coarse, c, calls, record, told,
                    plan, output, certified>>
    BY <1>1 DEF vars, files
  <2>2. FilesTypeOK' = FilesTypeOK BY <2>1 DEF FilesTypeOK
  <2>3. Typed' = Typed BY <2>1 DEF Typed
  <2>4. DurableSurvives' = DurableSurvives BY <2>1 DEF DurableSurvives
  <2>5. PlanAsRead' = PlanAsRead BY <2>1 DEF PlanAsRead
  <2>6. Over' = Over BY <2>1, <2>4, <2>5 DEF Over
  <2>7. ASSUME Running PROVE Running'
    <3> USE <2>1, <2>7 DEF Running
    <3>1. FilesKept' /\ Held' /\ Staged' BY <2>2 DEF FilesKept, Held, Staged
    <3>2. Truthful' BY DEF Truthful, StateTruthful, Named
    <3>3. Lasting' BY <2>4 DEF Lasting
    <3>4. Copied' BY DEF Copied, SnapshotExact
    <3>5. PlanHeld' BY <2>5 DEF PlanHeld, Prefix, Versions
    <3> QED BY <2>3, <3>1, <3>2, <3>3, <3>4, <3>5
  <2>8. c' = c BY <2>1
  <2> HIDE DEF Typed, Over
  <2> QED BY <2>2, <2>3, <2>6, <2>7, <2>8 DEF PrepInv
<1>2. CASE Next
  <2>1. c.pc # "off" /\ Running BY <1>2, OffStays, Zenon DEF PrepInv
  <2>2. CASE PowerLoss BY <2>1, <2>2, PowerLossStep
  <2>3. CASE Process \/ Fault \/ OtherProgram
    <3>1. Running' BY <2>1, <2>3, RunningKept, Zenon
    <3>2. c'.pc # "off" BY <2>1, <2>3, OutputKept, Zenon
    <3> QED BY <3>1, <3>2 DEF PrepInv, Running, FilesKept
  <2> QED BY <1>2, <2>2, <2>3 DEF Next
<1> QED BY <1>1, <1>2

-----------------------------------------------------------------------------
(* The theorems. *)

(* The invariant is inductive: whatever other programs do between two system *)
(* calls, and wherever an exception or a power loss strikes, a call knows    *)
(* which files it holds, and its state says of the publication what is so.   *)
THEOREM PrepInvariant == Spec => []PrepInv
<1>1. PrepInv /\ [Next]_vars => PrepInv' BY PrepNext
<1> QED BY PrepInit, <1>1, PTL DEF Spec

(* Every variable of a call and of the files keeps to its kind.              *)
THEOREM TypeCorrect == Spec => []TypeOK
<1>1. PrepInv => TypeOK BY DEF PrepInv, Typed, TypeOK, Call
<1> QED BY <1>1, PrepInvariant, PTL

(* prepare_local_source says "not committed" only when nothing was linked    *)
(* and "committed" in any form only when it was, whichever statement of it   *)
(* was interrupted.                                                          *)
THEOREM StateIsTruthful == Spec => []StateTruthful
<1>1. PrepInv => StateTruthful BY DEF PrepInv, Running, Truthful, StateTruthful
<1> QED BY <1>1, PrepInvariant, PTL

(* A publication reported as durable outlives a power loss, name and bytes,  *)
(* however the power loss comes: the bytes were flushed before the link, and *)
(* the directory after it, before the last look at the name.  Others must    *)
(* leave the files alone after that look, and every earlier change of theirs *)
(* must have left a new timestamp.                                           *)
THEOREM DurableDoesSurvive == Spec => []DurableSurvives
<1>1. PrepInv => DurableSurvives
  <2>1. c.pc = "off" \/ c.pc # "off" OBVIOUS
  <2> QED BY <2>1 DEF PrepInv, Over, DurableSurvives
<1> QED BY <1>1, PrepInvariant, PTL

(* A reopened snapshot that is handed out is sealed and holds exactly the    *)
(* announced bytes, whoever wrote to the source meanwhile.                   *)
THEOREM SnapshotIsExact == Spec => []SnapshotExact
<1>1. PrepInv => SnapshotExact
  <2>1. c.pc = "off" => SnapshotExact BY DEF SnapshotExact
  <2> QED BY <2>1 DEF PrepInv, Running, Copied
<1> QED BY <1>1, PrepInvariant, PTL

(* A plan that load_acquisition_plan accepts is a text its file held.  If    *)
(* every write leaves a new timestamp, it is the one of the opening; if not, *)
(* the comparison of the two reads still makes it the old or the new text of *)
(* a file rewritten once, at whatever moment of the two reads.               *)
THEOREM PlanIsAsRead == Spec => []PlanAsRead
<1>1. PrepInv => PlanAsRead BY DEF PrepInv, Over, Running, PlanHeld
<1> QED BY <1>1, PrepInvariant, PTL

(* The destination goes from nothing to one whole flushed file in one step:  *)
(* CorpusPrep implements AtomicPublication.                                  *)
THEOREM PublicationIsAtomic == Spec => PublishesAtomically
<1> DEFINE held == CASE output = NoOutput -> "previous" [] output.whole -> "whole"
                    [] OTHER -> "partial"
           phased == CASE c.pc = "off" -> "off"
                       [] c.pc # "off" /\ output # NoOutput -> "published"
                       [] OTHER -> "working"
<1>1. ASSUME Init PROVE Published!Init
  <2>1. c.pc = "idle" /\ output = NoOutput BY <1>1 DEF Init, CallInit, Idle
  <2>2. held = "previous" BY <2>1 DEF NoOutput
  <2>3. phased = "working" BY <2>1
  <2> QED BY <2>2, <2>3 DEF Published!Init
<1>2. PrepInv /\ [Next]_vars => [Published!Next]_<<held, phased>>
  <2> SUFFICES ASSUME PrepInv, [Next]_vars PROVE [Published!Next]_<<held, phased>> OBVIOUS
  <2>1. CASE UNCHANGED vars BY <2>1 DEF vars
  <2>2. CASE Next
    <3>1. c.pc # "off" /\ Running BY <2>2, OffStays, Zenon DEF PrepInv
    <3>2. CASE PowerLoss
      <4>1. c'.pc = "off" /\ output' \in {output, NoOutput} BY <3>2 DEF PowerLoss, Idle
      <4>2. output # NoOutput => output.whole BY <3>1 DEF Running, Lasting
      <4>3. held' \in {held, "previous"} BY <4>1, <4>2
      <4>4. phased' = "off" /\ phased # "off" BY <3>1, <4>1
      <4> QED BY <4>3, <4>4 DEF Published!Next, Published!PowerLoss
    <3>3. CASE Process \/ Fault \/ OtherProgram
      <4>1. c'.pc # "off" /\ (UNCHANGED output \/ PublishLink) BY <3>1, <3>3, OutputKept, Zenon
      <4>2. CASE UNCHANGED output
        <5>1. held' = held BY <4>2 DEF NoOutput
        <5>2. phased' = phased BY <3>1, <4>1, <4>2 DEF NoOutput
        <5> QED BY <5>1, <5>2
      <4>3. CASE output = NoOutput /\ output' # NoOutput /\ output'.whole = TRUE
        <5>1. held' = "whole" BY <4>3
        <5>2. phased = "working" /\ phased' = "published" BY <3>1, <4>1, <4>3
        <5> QED BY <5>1, <5>2 DEF Published!Next, Published!Publish
      <4> QED BY <3>1, <4>1, <4>2, <4>3, OutputMade, Zenon
    <3> QED BY <2>2, <3>2, <3>3 DEF Next
  <2> QED BY <2>1, <2>2
<1> QED BY <1>1, <1>2, PrepInvariant, PTL DEF Spec, PublishesAtomically, Published!Spec
=============================================================================
