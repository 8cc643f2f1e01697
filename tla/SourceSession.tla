---------------------------- MODULE SourceSession ----------------------------
(* Identity-bound source traversal (source_identity.py): a SourceSession     *)
(* records the stat identity of every object of an input tree and binds      *)
(* every later read, and a final walk of the whole tree, to it.  Another     *)
(* process may change the tree between any two steps of the session.  A step *)
(* is one system call, except that the stats of a file's ancestors, and its  *)
(* open with the fstat that follows, are one step each: a change between     *)
(* them acts as one before or after them.                                    *)
(*                                                                           *)
(* The file system is an inode table and a name table.  A stat result is     *)
(* abstracted to kind, inode, one stamp (mode, mtime and ctime) and size; a  *)
(* file's bytes are the sequence of its content-defined chunks, its size their *)
(* number.                                                                   *)
EXTENDS Naturals, Sequences, FiniteSets

CONSTANTS
    PathOrder,    \* every relative path, in the sort order of SourceSession.entries; the root first
    Parent,       \* the directory that holds each path other than the root
    Ino,          \* inode numbers
    NoIno,        \* no inode: a name that is not there, a handle that is not open
    Chunk,        \* content-defined chunks
    Contents      \* what a regular file may hold: sequences of chunks

Path == {PathOrder[i] : i \in DOMAIN PathOrder}
Root == PathOrder[1]

(* A path sorts after the directory it is in. *)
ASSUME SourceAssumption ==
    /\ PathOrder \in Seq(Path) /\ PathOrder # <<>>
    /\ \A i, j \in DOMAIN PathOrder : i # j => PathOrder[i] # PathOrder[j]
    /\ Parent \in [Path \ {Root} -> Path]
    /\ \A i \in 2 .. Len(PathOrder) : \E j \in 1 .. i - 1 : PathOrder[j] = Parent[PathOrder[i]]
    /\ NoIno \notin Ino
    /\ Contents \subseteq Seq(Chunk) /\ <<>> \in Contents

FileKind == {"file", "dir", "link"}

(* What a session may start on: a tree of files and directories, in which    *)
(* only regular files hold data, and how many changes others may make to it. *)
SourceTree(start) ==
    /\ start.inode \in [Ino -> [kind : FileKind, data : Seq(Chunk), stamp : {0}]]
    /\ \A i \in Ino : start.inode[i].kind # "file" => start.inode[i].data = <<>>
    /\ start.name \in [Path -> Ino \cup {NoIno}]
    /\ \A p \in Path \ {Root} :
          start.name[p] # NoIno => /\ start.name[Parent[p]] # NoIno
                                  /\ start.inode[start.name[Parent[p]]].kind = "dir"
    /\ start.changes \in Nat /\ start.coarse \in BOOLEAN

VARIABLES
    inode,      \* what each inode holds
    name,       \* the inode each path names
    mutations,  \* how many changes other processes have made; also the clock
    changes,    \* how many more they may make: the bound on them
    coarse,     \* TRUE when a change may leave every timestamp as it was
    captured,   \* _entries_by_path: the identity recorded for each path
    pending,    \* directories still to be listed by the walk
    cur,        \* the directory being listed, or the file being opened
    todo,       \* names scandir returned that are still to be examined
    seen,       \* verify_bindings: the paths found again
    handle,     \* the inode behind the open stream
    spc,        \* where the session is
    cause       \* the exception the session raised

fileSystem == <<inode, name, mutations, changes, coarse>>
walk       == <<pending, cur, todo, seen>>
session    == <<captured, walk, handle, spc, cause>>

Absent == [kind |-> "absent", ino |-> NoIno, stamp |-> 0, size |-> 0]

(* os.fstat on an inode, and Path.stat(follow_symlinks=False) on a path.     *)
StatInode(i) == [kind |-> inode[i].kind, ino |-> i, stamp |-> inode[i].stamp,
                 size |-> Len(inode[i].data)]
Stat(p) == IF name[p] = NoIno THEN Absent ELSE StatInode(name[p])

(* SourceIdentity.matches_path and matches_handle: device and inode, type,   *)
(* permission bits, timestamps and, for a regular file, the size.            *)
Matches(identity, stat) == identity = stat

Discovered == {p \in Path : captured[p].kind # "absent"}
Children(d) == {p \in Path \ {Root} : Parent[p] = d}
Ancestors[p \in Path] == IF p = Root THEN {} ELSE {Parent[p]} \cup Ancestors[Parent[p]]

-----------------------------------------------------------------------------
(* Other processes.  A change gives the inodes it touches a new stamp, unless *)
(* the clock is coarse and the change falls in the tick of the last one.      *)

Free == {i \in Ino : i # handle /\ \A p \in Path : name[p] # i}
Moves == IF coarse THEN BOOLEAN ELSE {TRUE}

Touched(tab, i, moves) == IF moves THEN [tab EXCEPT ![i].stamp = mutations + 1] ELSE tab

(* A parent's mtime moves when an entry is added, replaced or taken away.     *)
TouchedParent(tab, p, moves) == IF p = Root THEN tab ELSE Touched(tab, name[Parent[p]], moves)

Holding(tab, i, kind, data, moves) ==
    Touched([tab EXCEPT ![i].kind = kind, ![i].data = data], i, moves)

IsFile(p) == name[p] # NoIno /\ inode[name[p]].kind = "file"
IsDir(p)  == name[p] # NoIno /\ inode[name[p]].kind = "dir"

Write(p, data, moves) ==
    /\ IsFile(p)
    /\ inode' = Holding(inode, name[p], "file", data, moves)
    /\ UNCHANGED name

(* A file is replaced by the rename of another one over it; losing a name     *)
(* moves the ctime of the inode that had it.                                  *)
Replace(p, data, moves) ==
    /\ IsFile(p)
    /\ \E i \in Free :
          /\ name' = [name EXCEPT ![p] = i]
          /\ inode' = Holding(Touched(TouchedParent(inode, p, moves), name[p], moves),
                              i, "file", data, moves)

(* Unlink, or a rename to somewhere outside the tree, with all that is below. *)
Remove(p, moves) ==
    /\ name[p] # NoIno
    /\ name' = [q \in Path |-> IF q = p \/ p \in Ancestors[q] THEN NoIno ELSE name[q]]
    /\ inode' = Touched(TouchedParent(inode, p, moves), name[p], moves)

Create(p, kind, data, moves) ==
    /\ name[p] = NoIno
    /\ p # Root => IsDir(Parent[p])
    /\ kind # "file" => data = <<>>
    /\ \E i \in Free :
          /\ name' = [name EXCEPT ![p] = i]
          /\ inode' = Holding(TouchedParent(inode, p, moves), i, kind, data, moves)

Mutate ==
    /\ changes > 0
    /\ changes' = changes - 1 /\ mutations' = mutations + 1
    /\ \E p \in Path, moves \in Moves :
          \/ \E data \in Contents : Write(p, data, moves) \/ Replace(p, data, moves)
          \/ Remove(p, moves)
          \/ \E kind \in FileKind, data \in Contents : Create(p, kind, data, moves)
    /\ UNCHANGED <<coarse, session>>

-----------------------------------------------------------------------------
(* SourceSession.__init__ and _discover_directory. *)

Raise(error) == spc' = "raised" /\ cause' = error

InitialMetadata ==
    /\ spc = "new"
    /\ LET root == Stat(Root) IN
          \/ /\ root.kind = "absent" /\ Raise("OSError")
             /\ UNCHANGED <<captured, pending>>
          \/ /\ root.kind = "link" /\ Raise("ValueError")
             /\ UNCHANGED <<captured, pending>>
          \/ /\ root.kind \in {"file", "dir"}
             /\ captured' = [captured EXCEPT ![Root] = root]
             /\ pending' = IF root.kind = "dir" THEN {Root} ELSE {}
             /\ spc' = IF root.kind = "dir" THEN "discover" ELSE "ready"
             /\ UNCHANGED cause
    /\ UNCHANGED <<fileSystem, cur, todo, seen, handle>>

(* os.scandir on a path of the walk. *)
ScanDirectory(from, to) ==
    /\ spc = from
    /\ \E d \in pending :
          /\ cur' = d
          /\ todo' = {p \in Children(d) : name[p] # NoIno}
          /\ IF Stat(d).kind = "dir" THEN spc' = to /\ UNCHANGED cause ELSE Raise("OSError")
    /\ UNCHANGED <<fileSystem, captured, pending, seen, handle>>

DiscoverDirectory == ScanDirectory("discover", "children")

DiscoverChild ==
    /\ spc = "children"
    /\ \E p \in todo :
          /\ todo' = todo \ {p}
          /\ LET child == Stat(p) IN
                \/ child.kind = "absent" /\ Raise("OSError") /\ UNCHANGED captured
                \/ child.kind = "link" /\ Raise("ValueError") /\ UNCHANGED captured
                \/ /\ child.kind \in {"file", "dir"}
                   /\ captured' = [captured EXCEPT ![p] = child]
                   /\ UNCHANGED <<spc, cause>>
    /\ UNCHANGED <<fileSystem, pending, cur, seen, handle>>

Subdirectories(d) == {p \in Children(d) : captured[p].kind = "dir"}

BindDirectoryAgain(from, next, found, end) ==   \* faulty: the directory stays in the walk
    /\ spc = from /\ todo = {}
    /\ IF ~Matches(captured[cur], Stat(cur))
       THEN Raise("OSError") /\ UNCHANGED pending
       ELSE /\ pending' = pending \cup found
            /\ \/ pending' # {} /\ spc' = next /\ UNCHANGED cause
               \/ pending' = {} /\ end
    /\ UNCHANGED <<fileSystem, captured, cur, todo, seen, handle>>

(* _require_binding of the directory just listed; the directories found in it *)
(* join the walk, and end is what follows the last one.                      *)
BindDirectory(from, next, found, end) ==
    /\ spc = from /\ todo = {}
    /\ IF ~Matches(captured[cur], Stat(cur))
       THEN Raise("OSError") /\ UNCHANGED pending
       ELSE /\ pending' = (pending \ {cur}) \cup found
            /\ \/ pending' # {} /\ spc' = next /\ UNCHANGED cause
               \/ pending' = {} /\ end
    /\ UNCHANGED <<fileSystem, captured, cur, todo, seen, handle>>

DiscoverBinding == BindDirectory("children", "discover", Subdirectories(cur),
                                 spc' = "ready" /\ UNCHANGED cause)

-----------------------------------------------------------------------------
(* open_file: ancestor bindings, then the open and the check of its handle,  *)
(* and the check of the handle again once the bytes were read.               *)

RequireAncestors(p) ==
    /\ spc = "ready"
    /\ IF \A a \in Ancestors[p] : Matches(captured[a], Stat(a))
       THEN spc' = "opening" /\ cur' = p /\ UNCHANGED cause
       ELSE Raise("OSError") /\ UNCHANGED cur
    /\ UNCHANGED <<fileSystem, captured, pending, todo, seen, handle>>

OpenHandle ==
    /\ spc = "opening"
    /\ IF Matches(captured[cur], Stat(cur))
       THEN spc' = "reading" /\ handle' = name[cur] /\ UNCHANGED cause
       ELSE Raise("OSError") /\ UNCHANGED handle
    /\ UNCHANGED <<fileSystem, captured, walk>>

(* What a read of the stream returns next, by the chunks already taken.      *)
Stream == inode[handle].data

(* The stream ended without an exception: the with block closes the file;    *)
(* after is the check of the caller that follows.                            *)
CloseHandle(after) ==
    /\ spc = "reading"
    /\ handle' = NoIno
    /\ IF Matches(captured[cur], StatInode(handle)) /\ after
       THEN spc' = "ready" /\ UNCHANGED cause
       ELSE Raise("OSError")
    /\ UNCHANGED <<fileSystem, captured, walk>>

-----------------------------------------------------------------------------
(* verify_bindings: the whole tree is walked again before publication.       *)

VerifyRoot ==
    /\ spc = "ready"
    /\ seen' = {Root}
    /\ LET root == captured[Root] IN
          \/ ~Matches(root, Stat(Root)) /\ Raise("OSError") /\ UNCHANGED pending
          \/ /\ Matches(root, Stat(Root))
             /\ spc' = IF root.kind = "file" THEN "verified" ELSE "verify"
             /\ pending' = IF root.kind = "file" THEN {} ELSE {Root}
             /\ UNCHANGED cause
    /\ UNCHANGED <<fileSystem, captured, cur, todo, handle>>

VerifyDirectory == ScanDirectory("verify", "rechildren")

VerifyChild ==
    /\ spc = "rechildren"
    /\ \E p \in todo :
          /\ todo' = todo \ {p}
          /\ IF p \in Discovered \ seen /\ Matches(captured[p], Stat(p))
             THEN seen' = seen \cup {p} /\ UNCHANGED <<spc, cause>>
             ELSE Raise("OSError") /\ UNCHANGED seen
    /\ UNCHANGED <<fileSystem, captured, pending, cur, handle>>

AllSeen == IF seen = Discovered THEN spc' = "verified" /\ UNCHANGED cause ELSE Raise("OSError")

VerifyBinding == BindDirectory("rechildren", "verify", Subdirectories(cur) \cap seen, AllSeen)

-----------------------------------------------------------------------------
SessionInit(start) ==
    /\ inode = start.inode /\ name = start.name
    /\ mutations = 0 /\ changes = start.changes /\ coarse = start.coarse
    /\ captured = [p \in Path |-> Absent]
    /\ pending = {} /\ cur = Root /\ todo = {} /\ seen = {}
    /\ handle = NoIno
    /\ spc = "new" /\ cause = "none"

SessionStep ==
    \/ InitialMetadata \/ DiscoverDirectory \/ DiscoverChild \/ DiscoverBinding
    \/ OpenHandle
    \/ VerifyDirectory \/ VerifyChild \/ VerifyBinding

Identity == [kind : FileKind \cup {"absent"}, ino : Ino \cup {NoIno}, stamp : Nat, size : Nat]

SessionTypeOK ==
    /\ inode \in [Ino -> [kind : FileKind, data : Seq(Chunk), stamp : Nat]]
    /\ name \in [Path -> Ino \cup {NoIno}]
    /\ mutations \in Nat /\ changes \in Nat /\ coarse \in BOOLEAN
    /\ captured \in [Path -> Identity]
    /\ pending \subseteq Path /\ cur \in Path /\ todo \subseteq Path /\ seen \subseteq Path
    /\ handle \in Ino \cup {NoIno}
    /\ spc \in {"new", "discover", "children", "ready", "opening", "reading",
                "verify", "rechildren", "verified", "raised"}
    /\ cause \in {"none", "OSError", "ValueError", "KeyError", "IndexError",
                  "FileNotFoundError", "RuntimeError", "Exception"}
=============================================================================
