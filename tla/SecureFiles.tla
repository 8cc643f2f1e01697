---------------------------- MODULE SecureFiles -------------------------------
(* The files that the preparation and the verification of a corpus work on,  *)
(* as the code of competitive_corpus_prep.py uses them: names in directories *)
(* reached through one path, inodes with bytes and two timestamps, what of   *)
(* both is on disk already, and the other programs of the same user, which   *)
(* write, rename, link and unlink between any two system calls.  Bytes are   *)
(* sequences of blocks, the unit in which files are read.                    *)
EXTENDS Integers, Sequences, FiniteSets

CONSTANTS
    Dir,         \* directories the path of the work directory may name
    Name,        \* file names in them
    Ino,         \* inodes of files
    NoIno,       \* no inode: a name that is not there, a descriptor that is not open
    Block,       \* what files consist of
    Contents,    \* what other programs write into files
    Expected,    \* the source bytes the plan announces: size and SHA-256
    Trees,       \* the directories and files there may be at first
    MaxChanges,  \* bound on the changes other programs make
    CoarseClocks \* whether a change may leave the timestamps as they were

Tree ==
    [work : Dir \cup {NoIno}, entry : [Dir -> [Name -> Ino \cup {NoIno}]],
     file : [Ino -> [kind : {"free", "file", "link"}, data : Seq(Block), mtime : {0}, ctime : {0}]]]

ASSUME FilesAssumption ==
    /\ NoIno \notin Ino /\ NoIno \notin Dir
    /\ IsFiniteSet(Dir) /\ IsFiniteSet(Name)
    /\ Expected \in Seq(Block) \ {<<>>} /\ Contents \subseteq Seq(Block)
    /\ \A t \in Trees : /\ t \in Tree
                        /\ \A d \in Dir, n \in Name :
                              t.entry[d][n] # NoIno => t.file[t.entry[d][n]].kind # "free"
    /\ MaxChanges \in Nat /\ CoarseClocks \subseteq BOOLEAN

VARIABLES
    work,      \* the directory the path names, or NoIno
    entry,     \* the inode each name of each directory is bound to
    file,      \* what each inode holds
    onDisk,    \* the bindings that survive a power loss
    flushed,   \* the bytes of each inode that survive a power loss
    changes,   \* how many changes other programs have made; also the clock
    coarse     \* whether the clock may stand still

files == <<work, entry, file, onDisk, flushed, changes, coarse>>

At(n) == IF work = NoIno THEN NoIno ELSE entry[work][n]
Links(i) == Cardinality({b \in Dir \X Name : entry[b[1]][b[2]] = i})

(* A stat result: device and inode, type, links, size and the timestamps.    *)
NoMeta == [ino |-> NoIno, kind |-> "none", links |-> 0, size |-> 0, mtime |-> 0, ctime |-> 0]
Meta(i) ==
    IF i = NoIno THEN NoMeta
    ELSE [ino |-> i, kind |-> file[i].kind, links |-> Links(i), size |-> Len(file[i].data),
          mtime |-> file[i].mtime, ctime |-> file[i].ctime]

Stamped(f, moves) == IF moves THEN [f EXCEPT !.ctime = changes + 1] ELSE f

Moves == IF coarse THEN BOOLEAN ELSE {TRUE}

-----------------------------------------------------------------------------
(* Other programs. *)

Write(i, data, moves) ==
    /\ Links(i) > 0 /\ file[i].data # data
    /\ LET mtime == IF moves THEN changes + 1 ELSE file[i].mtime IN
       file' = [file EXCEPT ![i] = Stamped([@ EXCEPT !.data = data, !.mtime = mtime], moves)]
    /\ UNCHANGED <<work, entry>>

Unlink(d, n, moves) ==
    /\ entry[d][n] # NoIno
    /\ entry' = [entry EXCEPT ![d][n] = NoIno]
    /\ file' = [file EXCEPT ![entry[d][n]] = Stamped(@, moves)]
    /\ UNCHANGED work

(* A name is bound to a file that has one elsewhere: a hard link. *)
Link(d, n, i, moves) ==
    /\ entry[d][n] = NoIno /\ Links(i) > 0
    /\ entry' = [entry EXCEPT ![d][n] = i]
    /\ file' = [file EXCEPT ![i] = Stamped(@, moves)]
    /\ UNCHANGED work

(* A new file or symbolic link is renamed to a name, over what had it. *)
Place(d, n, kind, data) ==
    \E i \in {j \in Ino : file[j].kind = "free"} :
       /\ \A j \in Ino : file[j].kind = "free" => i <= j
       /\ entry' = [entry EXCEPT ![d][n] = i]
       /\ file' = [file EXCEPT ![i] = [kind |-> kind, data |-> data, mtime |-> changes + 1,
                                       ctime |-> changes + 1]]
       /\ UNCHANGED work

Redirect(d) == work # d /\ work' = d /\ UNCHANGED <<entry, file>>

Change ==
    /\ changes < MaxChanges /\ changes' = changes + 1
    /\ \/ \E i \in Ino, data \in Contents, moves \in Moves : Write(i, data, moves)
       \/ \E d \in Dir, n \in Name, moves \in Moves :
             \/ Unlink(d, n, moves)
             \/ \E i \in Ino : Link(d, n, i, moves)
             \/ moves /\ \E data \in Contents : Place(d, n, "file", data)
             \/ moves /\ Place(d, n, "link", <<>>)
       \/ \E d \in Dir \cup {NoIno} : Redirect(d)
    /\ UNCHANGED <<onDisk, flushed, coarse>>

(* The machine stops: what was not flushed may be gone. *)
Lose ==
    /\ entry' \in {entry, onDisk}
    /\ file' \in {file, [i \in Ino |-> [file[i] EXCEPT !.data = flushed[i]]]}
    /\ UNCHANGED <<work, onDisk, flushed, changes, coarse>>

-----------------------------------------------------------------------------
FilesInit ==
    /\ \E t \in Trees : work = t.work /\ entry = t.entry /\ file = t.file
    /\ onDisk = entry /\ flushed = [i \in Ino |-> file[i].data]
    /\ changes \in 0 .. MaxChanges /\ coarse \in CoarseClocks

Inode == [kind : {"free", "file", "link"}, data : Seq(Block),
          mtime : 0 .. MaxChanges, ctime : 0 .. MaxChanges + 1]

FilesTypeOK ==
    /\ work \in Dir \cup {NoIno}
    /\ entry \in [Dir -> [Name -> Ino \cup {NoIno}]] /\ onDisk \in [Dir -> [Name -> Ino \cup {NoIno}]]
    /\ file \in [Ino -> Inode]
    /\ flushed \in [Ino -> Seq(Block)]
    /\ changes \in 0 .. MaxChanges /\ coarse \in BOOLEAN
=============================================================================
