------------------------ MODULE ProcessRunner_proofs -------------------------
(* Proofs about ProcessRunner, for any identifiers, any number of processes  *)
(* and any failures: who is ever sent SIGKILL, and what a run leaves.        *)
EXTENDS ProcessRunner, TLAPS

Places ==
    {"spawn", "capture", "list", "scan", "poll", "group", "kill", "raise", "finish", "done"}

Process == [state : {"none", "live", "zombie"}, start : 0 .. MaxBirths,
            ppid : Pid \cup {0}, pgid : Pid \cup {0}, measured : BOOLEAN]

Record == [pid : Pid, start : 0 .. MaxBirths, ppid : Pid \cup {0}, pgid : Pid \cup {0},
           live : BOOLEAN]

RunTyped ==
    r \in [pc : Places, root : Identity, known : SUBSET Identity, scan : SUBSET Pid,
           snaps : SUBSET Record, before : SUBSET Identity, todo : SUBSET Identity,
           target : Identity, final : {"no", "exited", "timeout", "raise", "raising"},
           reaped : BOOLEAN, reason : Reasons, failed : BOOLEAN, escaped : SUBSET Identity,
           lost : {"none", "spawn", "handler"},
           outcome : {"none", "refused", "refused host", "error", "isolation", "result",
                      "measured", "rejected"}]

Typed ==
    /\ RunTyped /\ proc \in [Pid -> Process]
    /\ births \in 0 .. MaxBirths /\ faults \in 0 .. MaxFaults /\ expired \in BOOLEAN
    /\ killed \subseteq Identity /\ r.before \subseteq r.known

There(p) == proc[p].state # "none"

(* The process table: a child's parent runs, is older and of the same        *)
(* descent, and nobody is in a group named after a member of another.        *)
Table ==
    /\ \A p \in Pid : IF There(p) THEN proc[p].start \in 1 .. births ELSE proc[p] = Gone
    /\ \A p \in Pid : There(p) /\ proc[p].ppid # 0 =>
          LET parent == proc[proc[p].ppid] IN
          parent.state = "live" /\ parent.start < proc[p].start
          /\ parent.measured = proc[p].measured
    /\ \A p, q \in Pid : There(p) /\ There(q) /\ proc[p].pgid # p => proc[q].pgid # p

(* While the root is not reaped, its identifier and its group are its own.   *)
Rooted ==
    /\ r.root = NoId => ~r.reaped /\ r.pc \in {"spawn", "done"}
    /\ r.root # NoId => r.root.pid \in Pid /\ r.root.start \in 1 .. births
    /\ r.root # NoId /\ ~r.reaped =>
          /\ There(r.root.pid) /\ Id(r.root.pid) = r.root /\ proc[r.root.pid].ppid = 0
          /\ proc[r.root.pid].pgid = r.root.pid
          /\ \A p \in Pid : There(p) /\ proc[p].pgid = r.root.pid => proc[p].measured
    /\ r.reaped => ~(There(r.root.pid) /\ Id(r.root.pid) = r.root)

(* Where the call is, and what it has decided by then. *)
Placed ==
    /\ r.outcome # "none" => r.pc = "done"
    /\ r.pc = "spawn" => r = Idle
    /\ r.pc \in {"spawn", "capture", "poll"} => ~r.reaped /\ r.final = "no"
    /\ r.pc \in {"list", "scan"} =>
          r.final \in (IF r.reaped THEN {"exited", "timeout"} ELSE {"no"})
    /\ r.pc \in {"list", "scan"} /\ r.reaped => r.known = r.before
    /\ r.pc \in {"group", "kill"} /\ r.final = "timeout" => r.known = r.before
    /\ r.pc = "group" => ~r.reaped /\ r.final \in {"no", "timeout", "raising"}
    /\ r.pc = "kill" => r.final \in (IF r.reaped THEN {"exited", "raise"}
                                     ELSE {"no", "timeout", "raising"})
    /\ r.pc = "finish" => r.reaped
    /\ r.reason = "daemonization" => r.reaped /\ r.pc \notin {"list", "scan"}
    /\ r.pc \in {"group", "kill"} /\ r.final \in {"no", "exited"} =>
          r.reason \in {"process-group-escape", "daemonization"}
    /\ r.target # NoId => r.pc = "kill" /\ \E id \in r.todo : id.pid = r.target.pid
    /\ \A id \in r.todo : id.pid = r.target.pid /\ IsLive(id) => id = r.target

(* Identities are of processes that were started; whoever has the root's     *)
(* identifier and was known before the root was reaped is the root.          *)
Started ==
    /\ \A id \in r.known \cup r.todo \cup r.escaped \cup killed :
          id.pid \in Pid /\ id.start \in 1 .. births
    /\ \A id \in r.before : id.pid = r.root.pid => id = r.root
    /\ ~r.reaped => \A id \in r.known : id.pid = r.root.pid => id = r.root

(* The sample being read: an identifier read or to be read is not taken      *)
(* again, so what was read of one process still fits what is read of others. *)
Sampled ==
    /\ \A s \in r.snaps :
          /\ s.start \in 1 .. births /\ s.ppid # s.pid /\ s.pid \notin r.scan
          /\ There(s.pid) => proc[s.pid].start = s.start
          /\ proc[s.pid].state = "live" => s.live
          /\ There(s.pid) /\ proc[s.pid].pgid # s.pid => s.pgid = proc[s.pid].pgid
          /\ ~r.reaped /\ s.pid = r.root.pid => IdOf(s) = r.root
          /\ s.pid = r.root.pid /\ s.pgid # s.pid /\ s.ppid \in r.scan /\ There(s.ppid) =>
                proc[s.ppid].pgid # s.pid
          /\ s.pgid = r.root.pid /\ r.root.pid \in r.scan /\ There(r.root.pid) =>
                proc[r.root.pid].pgid = r.root.pid
    /\ \A s, u \in r.snaps :
          /\ s.pid = u.pid => s = u
          /\ s.pid = r.root.pid /\ s.pgid # s.pid /\ s.ppid = u.pid => u.pgid # s.pid
    /\ r.pc = "scan" =>
          \A id \in r.known : IsLive(id) =>
             id.pid \in r.scan \/ \E s \in r.snaps : IdOf(s) = id /\ s.live

(* m is a record of descent: for each start time, whether the process that   *)
(* was started then descends from the measured one.  Such a record exists,   *)
(* and all the call knows while the root is not reaped is of that descent.   *)
Descent(m) ==
    /\ \A p \in Pid : There(p) => proc[p].measured = m[proc[p].start]
    /\ r.root # NoId => m[r.root.start]
    /\ \A id \in r.before \cup r.todo \cup killed : m[id.start]
    /\ ~r.reaped => \A id \in r.known \cup r.escaped : m[id.start]
    /\ ~r.reaped =>
          /\ \A s \in r.snaps : s.pgid = r.root.pid => m[s.start]
          /\ \A s \in r.snaps : s.ppid \in r.scan /\ There(s.ppid) =>
                m[s.start] = m[proc[s.ppid].start]
          /\ \A s, u \in r.snaps : s.ppid = u.pid => m[s.start] = m[u.start]

Descended == \E m \in [0 .. MaxBirths -> BOOLEAN] : Descent(m)

(* A sample that ends the run with a result saw none of those known running. *)
Quiet ==
    (r.pc = "finish" /\ r.reason \in {"exited", "timeout"}) \/ r.outcome \in {"result", "measured"}
       => \A id \in r.known : ~IsLive(id)

(* What the except clause and the report of leftovers have killed so far.    *)
Dealt ==
    /\ r.final = "raising" /\ r.pc \in {"kill", "raise", "done"} /\ ~r.reaped /\ IsLive(r.root) =>
          r.root \in killed \/ r.lost # "none"
    /\ r.reason = "daemonization" /\ (r.pc \in {"kill", "finish"} \/ r.outcome = "isolation") =>
          \A id \in r.before : IsLive(id) /\ proc[id.pid].pgid = r.root.pid =>
             id \in killed \/ (r.pc = "kill" /\ (r.failed \/ id \in r.todo))

RunnerInv ==
    Typed /\ Table /\ Rooted /\ Placed /\ Started /\ Sampled /\ Descended /\ Quiet /\ Dealt
    /\ RootNotLeft
-----------------------------------------------------------------------------
(* How the process table changes: a process stays what it is, except that it *)
(* may end, lose its parent or lead a group of its own; or it is new.        *)
Same(p) ==
    /\ There(p) /\ There(p)' /\ proc'[p].start = proc[p].start
    /\ proc'[p].measured = proc[p].measured
    /\ proc'[p].pgid \in {proc[p].pgid, p} /\ proc'[p].ppid \in {proc[p].ppid, 0}
    /\ proc'[p].state = "live" => proc[p].state = "live"

Fresh(p) == Available(p) /\ births' = births + 1 /\ proc'[p].start = births + 1

Moved ==
    /\ proc' \in [Pid -> Process] /\ births' \in births .. MaxBirths
    /\ \A p \in Pid : There(p)' => Same(p) \/ Fresh(p)
    /\ \E b \in BOOLEAN : \A p \in Pid : There(p)' /\ Fresh(p) => proc'[p].measured = b

Acts == \E p \in Pid : Exit(p) \/ Reap(p) \/ SetSid(p) \/ Stranger(p) \/ \E q \in Pid : Fork(p, q)

(* A birth, of any parent and group, adds the one process.                   *)
LEMMA BirthMoves ==
    ASSUME Typed, NEW q \in Pid, NEW parent \in Pid \cup {0}, NEW group \in Pid \cup {0},
           NEW own \in BOOLEAN, Born(q, parent, group, own)
    PROVE  /\ Moved /\ Fresh(q) /\ There(q)' /\ proc'[q].state = "live"
           /\ proc'[q].ppid = parent /\ proc'[q].pgid = group /\ proc'[q].measured = own
           /\ \A p \in Pid \ {q} : proc'[p] = proc[p]
<1> USE RunnerAssumption DEF Typed
<1>1. /\ proc' = [proc EXCEPT ![q] = [state |-> "live", start |-> births + 1, ppid |-> parent,
                                      pgid |-> group, measured |-> own]]
      /\ births' = births + 1 /\ births < MaxBirths /\ Available(q)
  BY DEF Born
<1>2. proc'[q] = [state |-> "live", start |-> births + 1, ppid |-> parent, pgid |-> group,
                  measured |-> own]
      /\ \A p \in Pid \ {q} : proc'[p] = proc[p]
  BY <1>1
<1>3. births + 1 \in 0 .. MaxBirths /\ births' \in births .. MaxBirths BY <1>1
<1>4. proc'[q] \in Process BY <1>2, <1>3 DEF Process
<1>5. proc' \in [Pid -> Process] BY <1>1, <1>2, <1>4
<1>6. Fresh(q) /\ There(q)' BY <1>1, <1>2 DEF Fresh, There
<1>7. \A p \in Pid \ {q} : There(p)' => Same(p)
  BY <1>2 DEF Same, There
<1>8. ASSUME NEW p \in Pid, There(p)', Fresh(p) PROVE p = q
  BY <1>2, <1>8 DEF Fresh, There, Available
<1> QED BY <1>2, <1>3, <1>5, <1>6, <1>7, <1>8 DEF Moved

(* So does everything else a process does. *)
LEMMA ActsMove == ASSUME Typed, Table, Acts PROVE Moved
<1> USE RunnerAssumption DEF Typed
<1>1. ASSUME NEW p \in Pid, Exit(p) PROVE Moved
  <2>1. \A q \in Pid : proc'[q] \in Process /\ (There(q)' => Same(q))
    <3> SUFFICES ASSUME NEW q \in Pid PROVE proc'[q] \in Process /\ (There(q)' => Same(q))
      OBVIOUS
    <3>1. proc'[q] \in {proc[q], [proc[q] EXCEPT !.state = "zombie"], Gone,
                        [proc[q] EXCEPT !.ppid = 0]}
          /\ (proc'[q].state = "live" => proc[q].state = "live") /\ (There(q)' => There(q))
      <4>1. proc' = Ended(p) /\ proc[p].state = "live" BY <1>1 DEF Exit
      <4>2. proc'[q] = Ended(p)[q] BY <4>1
      <4>3. CASE q = p
          <5>1. proc'[q] \in {[proc[q] EXCEPT !.state = "zombie"], Gone} /\ There(q)
            BY <4>1, <4>2, <4>3 DEF Ended, There
          <5>2. proc[q] \in Process OBVIOUS
          <5> QED BY <4>1, <4>3, <5>1, <5>2 DEF Gone, Process
      <4>4. CASE q # p
        <5>1. proc'[q] \in {proc[q], Gone, [proc[q] EXCEPT !.ppid = 0]}
          BY <4>2, <4>4 DEF Ended
        <5>2. proc[q] \in Process OBVIOUS
        <5> QED BY <5>1, <5>2 DEF Gone, Process, There
      <4> QED BY <4>3, <4>4
    <3>2. Gone \in Process BY DEF Gone, Process
    <3>3. proc[q] \in Process OBVIOUS
    <3>4. proc'[q] \in Process BY <3>1, <3>2, <3>3 DEF Process
    <3> QED BY <3>1, <3>3, <3>4 DEF Same, There, Gone, Process
  <2>2. proc' \in [Pid -> Process] BY <1>1, <2>1 DEF Exit, Ended
  <2>3. births' \in births .. MaxBirths BY <1>1 DEF Exit
  <2>4. \A q \in Pid : ~(Fresh(q) /\ There(q)') BY <1>1 DEF Fresh, Exit
  <2> QED BY <2>1, <2>2, <2>3, <2>4 DEF Moved
<1>2. ASSUME NEW p \in Pid, Reap(p) PROVE Moved
  <2>1. proc' = [proc EXCEPT ![p] = Gone] /\ births' = births BY <1>2 DEF Reap
  <2>2. proc' \in [Pid -> Process] BY <2>1 DEF Gone, Process
  <2>3. \A q \in Pid : There(q)' => Same(q) BY <2>1 DEF Same, There, Gone
  <2>4. \A q \in Pid : ~(Fresh(q) /\ There(q)') BY <2>1 DEF Fresh
  <2> QED BY <2>1, <2>2, <2>3, <2>4 DEF Moved
<1>3. ASSUME NEW p \in Pid, SetSid(p) PROVE Moved
  <2>1. proc' = [proc EXCEPT ![p].pgid = p] /\ births' = births BY <1>3 DEF SetSid
  <2>2. proc' \in [Pid -> Process] BY <2>1 DEF Process
  <2>3. \A q \in Pid : There(q)' => Same(q) BY <2>1 DEF Same, There, Process
  <2>4. \A q \in Pid : ~(Fresh(q) /\ There(q)') BY <2>1 DEF Fresh
  <2> QED BY <2>1, <2>2, <2>3, <2>4 DEF Moved
<1>4. ASSUME NEW p \in Pid, Stranger(p) PROVE Moved BY <1>4, BirthMoves DEF Stranger
<1>5. ASSUME NEW p \in Pid, NEW q \in Pid, Fork(p, q) PROVE Moved
  <2>1. proc[p] \in Process OBVIOUS
  <2>2. proc[p].pgid \in Pid \cup {0} /\ proc[p].measured \in BOOLEAN BY <2>1 DEF Process
  <2> QED BY <1>5, <2>2, BirthMoves, ZenonT(40) DEF Fork
<1> QED BY <1>1, <1>2, <1>3, <1>4, <1>5 DEF Acts

(* A birth keeps the table in order, as long as its parent is one.           *)
LEMMA BirthOrdered ==
    ASSUME Typed, Table, NEW q \in Pid, NEW parent \in Pid \cup {0}, NEW group \in Pid \cup {0},
           NEW own \in BOOLEAN, Born(q, parent, group, own),
           parent # 0 => proc[parent].state = "live" /\ proc[parent].measured = own
                         /\ proc[parent].pgid = group,
           parent = 0 => group = q
    PROVE  Table'
<1> USE RunnerAssumption DEF Typed
<1>1. /\ Available(q) /\ There(q)' /\ proc'[q].state = "live" /\ proc'[q].ppid = parent
      /\ proc'[q].pgid = group /\ proc'[q].measured = own /\ proc'[q].start = births + 1
      /\ births' = births + 1 /\ \A p \in Pid \ {q} : proc'[p] = proc[p]
  BY DEF Born, There
<1>2. ~There(q) /\ (\A p \in Pid : There(p) => proc[p].pgid # q)
  BY <1>1 DEF Available, There
<1>3. \A p \in Pid : There(p) => p # q /\ proc[p].start \in 1 .. births
  BY <1>2 DEF Table
<1>4. \A p \in Pid : IF There(p)' THEN proc'[p].start \in 1 .. births' ELSE proc'[p] = Gone
  BY <1>1, <1>2, <1>3 DEF Table, There
<1>5. ASSUME NEW p \in Pid, There(p)', proc'[p].ppid # 0
      PROVE  LET older == proc'[proc'[p].ppid] IN
             older.state = "live" /\ older.start < proc'[p].start
             /\ older.measured = proc'[p].measured
  <2>1. CASE p = q
    <3>1. parent \in Pid /\ There(parent) BY <1>1, <1>5, <2>1 DEF There
    <3> QED BY <1>1, <1>2, <1>3, <2>1, <3>1
  <2>2. CASE p # q
    <3>1. There(p) /\ proc'[p] = proc[p] BY <1>1, <1>5, <2>2 DEF There
    <3>2. proc[p].ppid \in Pid BY <1>5, <3>1 DEF Process
    <3>3. There(proc[p].ppid) BY <1>5, <3>1, <3>2 DEF Table, There
    <3>4. proc'[proc[p].ppid] = proc[proc[p].ppid] BY <1>1, <1>3, <3>2, <3>3
    <3> QED BY <1>5, <3>1, <3>4 DEF Table
  <2> QED BY <2>1, <2>2
<1>6. ASSUME NEW p \in Pid, NEW o \in Pid, There(p)', There(o)', proc'[p].pgid # p
      PROVE  proc'[o].pgid # p
  <2>1. CASE p # q /\ o # q BY <1>1, <1>6, <2>1 DEF Table, There
  <2>2. CASE p = q BY <1>1, <1>2, <1>6, <2>2 DEF There
  <2>3. CASE p # q /\ o = q
    <3>1. There(p) /\ proc[p].pgid # p BY <1>1, <1>6, <2>3 DEF There
    <3>2. parent # 0 => There(parent) BY DEF There
    <3> QED BY <1>1, <2>3, <3>1, <3>2 DEF Table
  <2> QED BY <2>1, <2>2, <2>3
<1> QED BY <1>4, <1>5, <1>6 DEF Table

(* Whatever processes do, the table stays in order.                          *)
LEMMA ActsOrdered == ASSUME Typed, Table, Acts PROVE Table'
<1>a. \A p \in Pid : proc[p] \in Process BY DEF Typed
<1>b. births \in Nat BY RunnerAssumption DEF Typed
<1>1. ASSUME NEW p \in Pid, Exit(p) PROVE Table'
  <2>1. proc' = Ended(p) /\ proc[p].state = "live" /\ births' = births BY <1>1 DEF Exit
  <2>2. proc'[p] \in {Gone, [proc[p] EXCEPT !.state = "zombie"]} BY <2>1 DEF Ended
  <2>3. \A q \in Pid \ {p} : IF proc[q].ppid = p
                             THEN proc'[q] \in {Gone, [proc[q] EXCEPT !.ppid = 0]}
                             ELSE proc'[q] = proc[q]
    BY <2>1 DEF Ended
  <2>4. \A q \in Pid : There(q)' => There(q) /\ proc'[q].start = proc[q].start
                                    /\ proc'[q].pgid = proc[q].pgid
                                    /\ proc'[q].measured = proc[q].measured
    <3> SUFFICES ASSUME NEW q \in Pid, There(q)'
                 PROVE  There(q) /\ proc'[q].start = proc[q].start
                        /\ proc'[q].pgid = proc[q].pgid /\ proc'[q].measured = proc[q].measured
      OBVIOUS
    <3>1. proc'[q] # Gone BY DEF There, Gone
    <3>2. CASE q = p BY <1>a, <2>1, <2>2, <3>1, <3>2 DEF There, Process
    <3>3. CASE q # p /\ proc[q].ppid = p
      <4>1. proc'[q] = [proc[q] EXCEPT !.ppid = 0] BY <2>3, <3>1, <3>3
      <4> QED BY <1>a, <4>1 DEF There, Process
    <3>4. CASE q # p /\ proc[q].ppid # p BY <2>3, <3>4 DEF There
    <3> QED BY <3>2, <3>3, <3>4
  <2>5. \A q \in Pid : IF There(q)' THEN proc'[q].start \in 1 .. births' ELSE proc'[q] = Gone
    <3> SUFFICES ASSUME NEW q \in Pid
                 PROVE  IF There(q)' THEN proc'[q].start \in 1 .. births' ELSE proc'[q] = Gone
      OBVIOUS
    <3>1. CASE There(q)' BY <2>1, <2>4, <3>1 DEF Table
    <3>2. CASE ~There(q)'
      <4>1. CASE q = p BY <1>a, <2>1, <2>2, <3>2, <4>1 DEF There, Process
      <4>2. CASE q # p /\ proc[q].ppid = p
        <5>1. proc[q] # Gone BY <4>2, RunnerAssumption DEF Gone
        <5>2. There(q) BY <5>1 DEF Table
        <5> QED BY <1>a, <2>3, <3>2, <4>2, <5>2 DEF There, Process
      <4>3. CASE q # p /\ proc[q].ppid # p BY <2>3, <3>2, <4>3 DEF There, Table
      <4> QED BY <4>1, <4>2, <4>3
    <3> QED BY <3>1, <3>2
  <2>6. ASSUME NEW q \in Pid, There(q)', proc'[q].ppid # 0
        PROVE  LET older == proc'[proc'[q].ppid] IN
               older.state = "live" /\ older.start < proc'[q].start
               /\ older.measured = proc'[q].measured
    <3>1. There(q) /\ proc'[q].ppid = proc[q].ppid /\ (q # p => proc[q].ppid # p)
      <4>1. proc'[q] # Gone BY <2>6 DEF There, Gone
      <4>2. CASE q = p BY <1>a, <2>1, <2>2, <4>1, <4>2 DEF There, Process
      <4>3. CASE q # p
        <5>1. proc[q].ppid # p
          <6> SUFFICES ASSUME proc[q].ppid = p PROVE FALSE
            OBVIOUS
          <6>1. proc'[q] = [proc[q] EXCEPT !.ppid = 0] BY <2>3, <4>1, <4>3
          <6> QED BY <1>a, <2>6, <6>1 DEF Process
        <5> QED BY <2>3, <2>4, <2>6, <4>3, <5>1
      <4> QED BY <4>2, <4>3
    <3>2. proc[q].ppid \in Pid BY <1>a, <2>6, <3>1 DEF Process
    <3>3. There(proc[q].ppid) /\ proc[proc[q].ppid].state = "live"
          /\ proc[proc[q].ppid].start < proc[q].start
          /\ proc[proc[q].ppid].measured = proc[q].measured
      BY <2>6, <3>1 DEF Table, There
    <3>4. proc[q].start \in Nat /\ proc[p].start \in Nat BY <1>a, RunnerAssumption DEF Process
    <3>5. proc[q].ppid # p
      <4> SUFFICES ASSUME proc[q].ppid = p PROVE FALSE
        OBVIOUS
      <4>1. q = p BY <3>1
      <4> QED BY <3>3, <3>4, <4>1
    <3>6. proc[proc[q].ppid].ppid # p =>
            proc'[proc[q].ppid] = proc[proc[q].ppid]
      BY <2>3, <3>2, <3>5
    <3>7. proc[proc[q].ppid].ppid = p =>
             proc'[proc[q].ppid] = [proc[proc[q].ppid] EXCEPT !.ppid = 0]
      BY <2>1, <3>2, <3>3, <3>5 DEF Ended
    <3>8. proc'[proc[q].ppid].state = "live"
          /\ proc'[proc[q].ppid].start = proc[proc[q].ppid].start
          /\ proc'[proc[q].ppid].measured = proc[proc[q].ppid].measured
      BY <1>a, <3>2, <3>3, <3>6, <3>7 DEF Process
    <3> QED BY <2>4, <2>6, <3>1, <3>3, <3>8
  <2>7. \A q, o \in Pid : There(q)' /\ There(o)' /\ proc'[q].pgid # q => proc'[o].pgid # q
    BY <2>4 DEF Table
  <2> QED BY <2>5, <2>6, <2>7 DEF Table
<1>2. ASSUME NEW p \in Pid, Reap(p) PROVE Table'
  <2>1. proc' = [proc EXCEPT ![p] = Gone] /\ births' = births /\ proc[p].state = "zombie"
    BY <1>2 DEF Reap
  <2>2. proc'[p] = Gone /\ \A q \in Pid \ {p} : proc'[q] = proc[q] BY <2>1 DEF Typed
  <2>3. \A q \in Pid : There(q)' => There(q) /\ q # p /\ proc'[q] = proc[q]
    BY <2>2 DEF There, Gone
  <2>4. \A q \in Pid : There(q) /\ proc[q].ppid # 0 => proc[q].ppid \in Pid \ {p}
    BY <1>a, <2>1 DEF Table, Process
  <2>5. \A q \in Pid : There(q)' /\ proc'[q].ppid # 0 => proc'[proc'[q].ppid] = proc[proc[q].ppid]
    BY <2>2, <2>3, <2>4
  <2>6. \A q \in Pid : IF There(q)' THEN proc'[q].start \in 1 .. births' ELSE proc'[q] = Gone
    BY <2>1, <2>2, <2>3 DEF Table, There
  <2> QED BY <2>3, <2>5, <2>6 DEF Table
<1>3. ASSUME NEW p \in Pid, SetSid(p) PROVE Table'
  <2>1. proc' = [proc EXCEPT ![p].pgid = p] /\ births' = births /\ There(p)
        /\ \A q \in Pid : There(q) => proc[q].pgid # p
    BY <1>3 DEF SetSid, There
  <2>2. proc'[p] = [proc[p] EXCEPT !.pgid = p] /\ \A q \in Pid \ {p} : proc'[q] = proc[q]
    BY <2>1 DEF Typed
  <2>3. \A q \in Pid : /\ proc'[q].state = proc[q].state /\ proc'[q].start = proc[q].start
                       /\ proc'[q].ppid = proc[q].ppid /\ proc'[q].measured = proc[q].measured
                       /\ proc'[q].pgid = IF q = p THEN p ELSE proc[q].pgid
    BY <1>a, <2>2 DEF Process
  <2>4. \A q \in Pid : IF There(q)' THEN proc'[q].start \in 1 .. births' ELSE proc'[q] = Gone
    BY <2>1, <2>2, <2>3 DEF Table, There
  <2>5. \A q \in Pid : There(q)' /\ proc'[q].ppid # 0 =>
            LET older == proc'[proc'[q].ppid] IN
            older.state = "live" /\ older.start < proc'[q].start
            /\ older.measured = proc'[q].measured
    <3>1. \A q \in Pid : proc[q].ppid \in Pid \cup {0} BY <1>a DEF Process
    <3> QED BY <2>3, <3>1 DEF Table, There
  <2>6. \A q, o \in Pid : There(q)' /\ There(o)' /\ proc'[q].pgid # q => proc'[o].pgid # q
    BY <2>1, <2>3 DEF Table, There
  <2> QED BY <2>4, <2>5, <2>6 DEF Table
<1>4. ASSUME NEW p \in Pid, Stranger(p) PROVE Table'
  BY <1>4, BirthOrdered DEF Stranger
<1>5. ASSUME NEW p \in Pid, NEW q \in Pid, Fork(p, q) PROVE Table'
  <2>1. proc[p].state = "live" /\ Born(q, p, proc[p].pgid, proc[p].measured) BY <1>5 DEF Fork
  <2>2. proc[p].pgid \in Pid \cup {0} /\ proc[p].measured \in BOOLEAN
    BY <1>a DEF Process
  <2>3. p # 0 /\ p \in Pid \cup {0} BY RunnerAssumption
  <2> QED BY <2>1, <2>2, <2>3, BirthOrdered
<1> QED BY <1>1, <1>2, <1>3, <1>4, <1>5 DEF Acts

(* The root's entry stays until it is reaped by the call, and its group      *)
(* takes in nobody who does not descend from it.                             *)
LEMMA ActsRooted == ASSUME Typed, Table, Rooted, Acts, UNCHANGED r PROVE Rooted'
<1>a. Moved BY ActsMove
<1>b. \A p \in Pid : proc[p] \in Process BY DEF Typed
<1>c. births' \in births .. MaxBirths /\ births \in Nat /\ MaxBirths \in Nat
  BY <1>a, RunnerAssumption DEF Moved, Typed
<1>1. CASE r.root = NoId BY <1>1 DEF Rooted
<1>2. CASE r.root # NoId /\ r.reaped
  <2>1. r.root.pid \in Pid /\ r.root.start \in 1 .. births BY <1>2 DEF Rooted
  <2>2. ~(There(r.root.pid) /\ proc[r.root.pid].start = r.root.start)
    BY <1>2, <2>1 DEF Rooted, Id, RunTyped, Typed, Identity
  <2>3. ~(There(r.root.pid)' /\ proc'[r.root.pid].start = r.root.start)
    BY <1>a, <1>c, <2>1, <2>2 DEF Moved, Same, Fresh
  <2>4. ~(There(r.root.pid) /\ Id(r.root.pid) = r.root)'
    BY <2>1, <2>3 DEF Id
  <2>5. r.root.start \in 1 .. births' BY <1>c, <2>1
  <2> QED BY <1>2, <2>1, <2>4, <2>5 DEF Rooted
<1>3. CASE r.root # NoId /\ ~r.reaped
  <2>0. PICK o \in Pid : o = r.root.pid BY <1>3 DEF Rooted
  <2>1. /\ o \in Pid /\ r.root.start \in 1 .. births /\ There(o) /\ Id(o) = r.root
        /\ proc[o].ppid = 0 /\ proc[o].pgid = o
        /\ \A p \in Pid : There(p) /\ proc[p].pgid = o => proc[p].measured
    BY <1>3, <2>0 DEF Rooted
  <2>2. There(o)'
    <3>1. ASSUME NEW p \in Pid, Exit(p) PROVE There(o)'
      <4>1. proc'[o] = Ended(p)[o] BY <2>1, <3>1 DEF Exit
      <4>2. CASE p = o
        <5>1. proc'[o] = [proc[o] EXCEPT !.state = "zombie"]
          BY <2>0, <2>1, <4>1, <4>2 DEF Ended
        <5> QED BY <1>b, <2>1, <5>1 DEF There, Process
      <4>3. CASE p # o
        <5>1. proc[o].ppid # p BY <2>1, RunnerAssumption
        <5> QED BY <2>1, <4>1, <4>3, <5>1 DEF Ended, There
      <4> QED BY <4>2, <4>3
    <3>2. ASSUME NEW p \in Pid, Reap(p) PROVE There(o)'
      BY <2>1, <3>2 DEF Reap, There, Typed
    <3>3. ASSUME NEW p \in Pid, SetSid(p) PROVE There(o)'
      BY <1>b, <2>1, <3>3 DEF SetSid, There, Typed, Process
    <3>4. ASSUME NEW q \in Pid, NEW x, NEW g, NEW b, Born(q, x, g, b) PROVE There(o)'
      BY <1>b, <2>1, <3>4 DEF Born, Available, There, Typed, Process
    <3> QED BY <3>1, <3>2, <3>3, <3>4 DEF Acts, Stranger, Fork
  <2>3. Same(o)
    <3>1. ~Fresh(o) BY <2>1 DEF Fresh, Available, There
    <3>2. Same(o) \/ Fresh(o) BY <1>a, <2>2 DEF Moved
    <3> QED BY <3>1, <3>2
  <2>4. Id(o)' = r.root /\ proc'[o].ppid = 0 /\ proc'[o].pgid = o
    BY <2>1, <2>3 DEF Same, Id
  <2>5. ASSUME NEW p \in Pid, There(p)', proc'[p].pgid = o PROVE proc'[p].measured
    <3>1. CASE Same(p)
      BY <2>1, <2>5, <3>1 DEF Same
    <3>2. CASE Fresh(p)
      <4>1. PICK p1 \in Pid : Exit(p1) \/ Reap(p1) \/ SetSid(p1) \/ Stranger(p1)
                              \/ \E q \in Pid : Fork(p1, q)
        BY DEF Acts
      <4>2. CASE Exit(p1) \/ Reap(p1) \/ SetSid(p1)
        BY <1>c, <3>2, <4>2 DEF Exit, Reap, SetSid, Fresh
      <4>3. ASSUME NEW q \in Pid, NEW x, NEW g, NEW b, Born(q, x, g, b)
            PROVE  p = q /\ proc'[p].pgid = g /\ proc'[p].measured = b
        <5>1. p = q
          BY <2>5, <3>2, <4>3 DEF Born, Fresh, Available, There, Typed
        <5> QED BY <4>3, <5>1 DEF Born, Typed
      <4>4. CASE Stranger(p1)
        <5>1. p = p1 /\ proc'[p].pgid = p1 BY <4>3, <4>4 DEF Stranger
        <5>2. p # o BY <2>1, <3>2 DEF Fresh, Available, There
        <5> QED BY <2>5, <5>1, <5>2
      <4>5. ASSUME NEW q \in Pid, Fork(p1, q) PROVE proc'[p].measured
        <5>1. proc[p1].pgid = o /\ proc'[p].measured = proc[p1].measured
          BY <2>5, <4>3, <4>5 DEF Fork
        <5>2. There(p1) BY <4>5 DEF Fork, There
        <5> QED BY <2>1, <5>1, <5>2
      <4> QED BY <4>1, <4>2, <4>4, <4>5
    <3> QED BY <1>a, <2>5, <3>1, <3>2 DEF Moved
  <2>6. r.root.start \in 1 .. births' BY <1>c, <2>1
  <2> QED BY <1>3, <2>0, <2>1, <2>2, <2>4, <2>5, <2>6 DEF Rooted
<1> QED BY <1>1, <1>2, <1>3

(* What processes do leaves the call where it is and has nobody else killed:  *)
(* nobody known starts to run again, and who was killed is so while he is    *)
(* there.                                                                    *)
Drift ==
    /\ Moved /\ UNCHANGED r /\ killed' \subseteq killed
    /\ \A id \in killed : There(id.pid)' /\ proc'[id.pid].start = id.start => id \in killed'

(* A process that runs ran before, unchanged, if it was started before.      *)
LEMMA NobodyRevives ==
    ASSUME Typed, Moved, NEW id \in Identity, id.pid \in Pid, id.start \in 1 .. births,
           IsLive(id)'
    PROVE  IsLive(id) /\ Same(id.pid)
<1>1. There(id.pid)' /\ proc'[id.pid].start = id.start /\ proc'[id.pid].state = "live"
  BY DEF IsLive, There
<1>2. births \in Nat BY RunnerAssumption DEF Typed
<1>3. ~Fresh(id.pid) BY <1>1, <1>2 DEF Fresh
<1>4. Same(id.pid) BY <1>1, <1>3 DEF Moved
<1> QED BY <1>1, <1>4 DEF Same, IsLive, NoId

(* What the call knows and has done is not undone by what processes do.      *)
LEMMA DriftKeeps ==
    ASSUME RunnerInv, Drift, Rooted'
    PROVE  Started' /\ Placed' /\ Quiet' /\ Dealt' /\ RootNotLeft'
<1>a. /\ Typed /\ Moved /\ UNCHANGED r /\ killed' \subseteq killed /\ Started /\ Placed /\ Quiet
      /\ Dealt /\ RootNotLeft /\ Rooted
  BY DEF RunnerInv, Drift
<1>b. births' \in Nat /\ births \in Nat /\ births <= births'
  BY <1>a, RunnerAssumption DEF Moved, Typed
<1>c. \A id \in r.known \cup r.todo \cup r.before : id \in Identity /\ id.pid \in Pid
                                                   /\ id.start \in 1 .. births
  BY <1>a DEF Started, Typed, RunTyped
<1>d. \A id \in r.known \cup r.todo \cup r.before : IsLive(id)' => IsLive(id) /\ Same(id.pid)
  BY <1>a, <1>c, NobodyRevives
<1>e. r.root # NoId => r.root \in Identity /\ r.root.pid \in Pid /\ r.root.start \in 1 .. births
  BY <1>a DEF Rooted, Typed, RunTyped
<1>f. IsLive(r.root)' => IsLive(r.root)
  BY <1>a, <1>e, NobodyRevives DEF IsLive
<1>g. \A id \in killed : IsLive(id)' => id \in killed'
  BY DEF Drift, IsLive, There
<1>1. Started' BY <1>a, <1>b DEF Started
<1>2. Placed'
  <2>1. \A id \in r.todo : id.pid = r.target.pid /\ IsLive(id)' => id = r.target
    BY <1>a, <1>d DEF Placed
  <2> QED BY <1>a, <2>1 DEF Placed
<1>3. Quiet' BY <1>a, <1>d DEF Quiet
<1>4. RootNotLeft'
  BY <1>a, <1>f, <1>g DEF RootNotLeft
<1>5. Dealt'
  <2>1. r.final = "raising" /\ r.pc \in {"kill", "raise", "done"} /\ ~r.reaped /\ IsLive(r.root)' =>
          r.root \in killed' \/ r.lost # "none"
    BY <1>a, <1>f, <1>g DEF Dealt
  <2>2. ASSUME r.reason = "daemonization", r.pc \in {"kill", "finish"} \/ r.outcome = "isolation",
               NEW id \in r.before, IsLive(id)', proc'[id.pid].pgid = r.root.pid
        PROVE  id \in killed' \/ (r.pc = "kill" /\ (r.failed \/ id \in r.todo))
    <3>1. r.reaped BY <1>a, <2>2 DEF Placed
    <3>2. IsLive(id) /\ Same(id.pid) /\ id.pid \in Pid BY <1>c, <1>d, <2>2
    <3>3. proc[id.pid].pgid = r.root.pid
      <4>1. CASE id.pid = r.root.pid
        <5>1. id = r.root BY <1>a, <2>2, <4>1 DEF Started
        <5> QED BY <1>a, <3>1, <3>2, <5>1 DEF Rooted, IsLive, There, Id, Typed, RunTyped, Identity
      <4>2. CASE id.pid # r.root.pid BY <2>2, <3>2, <4>2 DEF Same
      <4> QED BY <4>1, <4>2
    <3>4. id \in killed \/ (r.pc = "kill" /\ (r.failed \/ id \in r.todo))
      BY <1>a, <2>2, <3>2, <3>3 DEF Dealt
    <3> QED BY <1>g, <2>2, <3>4
  <2> QED BY <1>a, <2>1, <2>2 DEF Dealt
<1> QED BY <1>1, <1>2, <1>3, <1>4, <1>5

(* An identifier that was read, or is to be read, is not taken again.        *)
LEMMA DriftSampled == ASSUME RunnerInv, Drift PROVE Sampled'
<1>a. /\ Typed /\ Moved /\ UNCHANGED r /\ Sampled /\ Table /\ Table /\ Rooted /\ Started
  BY DEF RunnerInv, Drift
<1>b. births' \in Nat /\ births \in Nat /\ births <= births'
  BY <1>a, RunnerAssumption DEF Moved, Typed
<1>c. r.scan \subseteq Pid /\ r.snaps \subseteq Record BY <1>a DEF Typed, RunTyped
<1>d. \A p \in r.scan : p \in Pid /\ (There(p)' => Same(p))
  BY <1>a, <1>c DEF Moved, Fresh, Available
<1>e. \A s \in r.snaps : s.pid \in Pid /\ (There(s.pid)' => Same(s.pid))
  <2> SUFFICES ASSUME NEW s \in r.snaps PROVE s.pid \in Pid /\ (There(s.pid)' => Same(s.pid))
    OBVIOUS
  <2>1. s.pid \in Pid BY <1>c DEF Record
  <2>2. ~Available(s.pid) BY DEF Available
  <2> QED BY <1>a, <2>1, <2>2 DEF Moved, Fresh
<1>1. ASSUME NEW s \in r.snaps
      PROVE  /\ s.start \in 1 .. births' /\ s.ppid # s.pid /\ s.pid \notin r.scan
             /\ There(s.pid)' => proc'[s.pid].start = s.start
             /\ proc'[s.pid].state = "live" => s.live
             /\ There(s.pid)' /\ proc'[s.pid].pgid # s.pid => s.pgid = proc'[s.pid].pgid
             /\ ~r.reaped /\ s.pid = r.root.pid => IdOf(s) = r.root
    <2>1. /\ s.start \in 1 .. births /\ s.ppid # s.pid /\ s.pid \notin r.scan
          /\ There(s.pid) => proc[s.pid].start = s.start
          /\ proc[s.pid].state = "live" => s.live
          /\ There(s.pid) /\ proc[s.pid].pgid # s.pid => s.pgid = proc[s.pid].pgid
          /\ ~r.reaped /\ s.pid = r.root.pid => IdOf(s) = r.root
      BY <1>a DEF Sampled
    <2>2. proc'[s.pid].state = "live" => There(s.pid)' BY DEF There
    <2> QED BY <1>b, <1>e, <2>1, <2>2 DEF Same
<1>2. ASSUME NEW s \in r.snaps, s.pid = r.root.pid, s.pgid # s.pid, s.ppid \in r.scan,
             There(s.ppid)'
      PROVE  proc'[s.ppid].pgid # s.pid
  <2>1. proc[s.ppid].pgid # s.pid /\ s.ppid # s.pid
    BY <1>a, <1>d, <1>2 DEF Sampled, Same
  <2> QED BY <1>d, <1>2, <2>1 DEF Same
<1>3. ASSUME NEW s \in r.snaps, s.pgid = r.root.pid, r.root.pid \in r.scan, There(r.root.pid)'
      PROVE  proc'[r.root.pid].pgid = r.root.pid
  <2>1. \A p \in r.scan : p = r.root.pid =>
           (There(p)' => There(p) /\ proc'[p].pgid \in {proc[p].pgid, p})
    BY <1>d DEF Same
  <2>2. There(r.root.pid) => proc[r.root.pid].pgid = r.root.pid BY <1>a, <1>3 DEF Sampled
  <2>3. There(r.root.pid) /\ proc'[r.root.pid].pgid \in {proc[r.root.pid].pgid, r.root.pid}
    BY <1>a, <1>3, <2>1 DEF There
  <2> QED BY <2>2, <2>3
<1>4. ASSUME r.pc = "scan", NEW id \in r.known, IsLive(id)'
      PROVE  id.pid \in r.scan \/ \E s \in r.snaps : IdOf(s) = id /\ s.live
  <2>1. id \in Identity /\ id.pid \in Pid /\ id.start \in 1 .. births
    BY <1>a DEF Started, Typed, RunTyped
  <2>2. IsLive(id) BY <1>a, <1>4, <2>1, NobodyRevives
  <2> QED BY <1>a, <1>4, <2>2 DEF Sampled
<1>5. \A s, u \in r.snaps :
          /\ s.pid = u.pid => s = u
          /\ s.pid = r.root.pid /\ s.pgid # s.pid /\ s.ppid = u.pid => u.pgid # s.pid
  BY <1>a DEF Sampled
<1> HIDE DEF There, IsLive
<1> QED BY <1>a, <1>1, <1>2, <1>3, <1>4, <1>5, Zenon DEF Sampled

(* A record of descent is kept, and extended by who is born.                 *)
LEMMA DriftDescended == ASSUME RunnerInv, Drift PROVE Descended'
<1>a. /\ Typed /\ Moved /\ UNCHANGED r /\ Descended /\ Sampled /\ Started /\ Rooted /\ Table
      /\ killed' \subseteq killed
  BY DEF RunnerInv, Drift
<1>b. births' \in births .. MaxBirths /\ births \in Nat /\ MaxBirths \in Nat
  BY <1>a, RunnerAssumption DEF Moved, Typed
<1>c. r.scan \subseteq Pid /\ r.snaps \subseteq Record BY <1>a DEF Typed, RunTyped
<1>d. \A p \in r.scan : p \in Pid /\ (There(p)' => Same(p))
  BY <1>a, <1>c DEF Moved, Fresh, Available
<1>1. PICK m \in [0 .. MaxBirths -> BOOLEAN] : Descent(m) BY <1>a DEF Descended
<1>2. PICK b \in BOOLEAN : \A p \in Pid : There(p)' /\ Fresh(p) => proc'[p].measured = b
  BY <1>a DEF Moved
<1>3. PICK n \in [0 .. MaxBirths -> BOOLEAN] : n = [m EXCEPT ![births + 1] = b] OBVIOUS
<1>4. \A k \in 1 .. births : n[k] = m[k] BY <1>b, <1>3
<1>5. \A p \in Pid : There(p)' => proc'[p].measured = n[proc'[p].start]
  <2> SUFFICES ASSUME NEW p \in Pid, There(p)' PROVE proc'[p].measured = n[proc'[p].start]
    OBVIOUS
  <2>1. CASE Same(p)
    <3>1. proc[p].start \in 1 .. births /\ proc[p].measured = m[proc[p].start]
      BY <1>a, <1>1, <2>1 DEF Same, Table, Descent
    <3> QED BY <1>4, <2>1, <3>1 DEF Same
  <2>2. CASE Fresh(p)
    <3>1. proc'[p].start = births + 1 /\ births + 1 \in 0 .. MaxBirths
      BY <1>b, <2>2 DEF Fresh
    <3> QED BY <1>2, <1>3, <2>2, <3>1
  <2> QED BY <1>a, <2>1, <2>2 DEF Moved
<1>6. r.root # NoId => n[r.root.start] BY <1>a, <1>1, <1>4 DEF Rooted, Descent
<1>7. /\ \A id \in r.before \cup r.todo \cup killed' : n[id.start]
      /\ ~r.reaped => \A id \in r.known \cup r.escaped : n[id.start]
  <2>1. \A id \in r.before \cup r.todo \cup killed \cup r.known \cup r.escaped :
           id.start \in 1 .. births
    BY <1>a DEF Started, Typed
  <2> QED BY <1>a, <1>1, <1>4, <2>1 DEF Descent
<1>8. ASSUME ~r.reaped
      PROVE  /\ \A s \in r.snaps : s.pgid = r.root.pid => n[s.start]
             /\ \A s, u \in r.snaps : s.ppid = u.pid => n[s.start] = n[u.start]
  <2>1. \A s \in r.snaps : s.start \in 1 .. births BY <1>a DEF Sampled
  <2> QED BY <1>1, <1>4, <1>8, <2>1 DEF Descent
<1>9. ASSUME ~r.reaped, NEW s \in r.snaps, s.ppid \in r.scan, There(s.ppid)'
      PROVE  n[s.start] = n[proc'[s.ppid].start]
  <2>1. Same(s.ppid) /\ s.ppid \in Pid BY <1>d, <1>9
  <2>2. m[s.start] = m[proc[s.ppid].start] BY <1>1, <1>9, <2>1 DEF Descent, Same
  <2>3. s.start \in 1 .. births /\ proc[s.ppid].start \in 1 .. births
    BY <1>a, <2>1 DEF Sampled, Table, Same
  <2> QED BY <1>4, <2>1, <2>2, <2>3 DEF Same
<1>10. Descent(n)' BY <1>a, <1>5, <1>6, <1>7, <1>8, <1>9 DEF Descent
<1> QED BY <1>10 DEF Descended

(* Processes run, end and are born, signals are delivered and time passes.   *)
LEMMA EnvironmentKeeps ==
    ASSUME RunnerInv, Processes \/ Die \/ TimePasses \/ UNCHANGED vars PROVE RunnerInv'
<1>a. /\ Typed /\ Table /\ Rooted /\ Placed /\ Started /\ Sampled /\ Descended /\ Quiet
      /\ Dealt /\ RootNotLeft
  BY DEF RunnerInv
<1>1. CASE Processes \/ Die
  <2>1. Acts /\ UNCHANGED <<r, expired, faults>> /\ killed' = Present(killed)
    BY <1>1 DEF Processes, Die, Acts
  <2>2. Moved /\ Table' /\ Rooted' BY <1>a, <2>1, ActsMove, ActsOrdered, ActsRooted
  <2>3. Drift BY <2>1, <2>2 DEF Drift, Present, There
  <2>4. Typed'
    <3>1. RunTyped' /\ killed' \subseteq Identity BY <1>a, <2>1, <2>3 DEF Typed, RunTyped, Drift
    <3>2. proc' \in [Pid -> Process] /\ births' \in births .. MaxBirths BY <2>2 DEF Moved
    <3>3. births' \in 0 .. MaxBirths BY <1>a, <3>2, RunnerAssumption DEF Typed
    <3> QED BY <1>a, <2>1, <3>1, <3>2, <3>3 DEF Typed
  <2>5. Started' /\ Placed' /\ Quiet' /\ Dealt' /\ RootNotLeft' BY <2>2, <2>3, DriftKeeps
  <2>6. Sampled' /\ Descended' BY <2>3, DriftSampled, DriftDescended
  <2> QED BY <2>2, <2>4, <2>5, <2>6 DEF RunnerInv
<1>2. CASE TimePasses \/ UNCHANGED vars
  <2>1. UNCHANGED <<proc, births, r, faults, killed>> /\ expired' \in BOOLEAN
    BY <1>a, <1>2 DEF TimePasses, vars, Typed
  <2>2. Typed' BY <1>a, <2>1 DEF Typed, RunTyped
  <2>3. Table' BY <1>a, <2>1 DEF Table, There
  <2>4. Rooted' BY <1>a, <2>1 DEF Rooted, There, Id
  <2>5. Placed' /\ Quiet' /\ Started'
    BY <1>a, <2>1 DEF Placed, Quiet, Started, IsLive
  <2>6. Sampled' BY <1>a, <2>1 DEF Sampled, There, IsLive
  <2>7. Descended' BY <1>a, <2>1, ZenonT(40) DEF Descended, Descent, There
  <2>8. Dealt' /\ RootNotLeft' BY <1>a, <2>1 DEF Dealt, RootNotLeft, IsLive
  <2> QED BY <2>2, <2>3, <2>4, <2>5, <2>6, <2>7, <2>8 DEF RunnerInv
<1> QED BY <1>1, <1>2

-----------------------------------------------------------------------------
(* The call.  Its steps leave the processes as they are, except that the     *)
(* root is started and reaped.                                               *)

Waned == UNCHANGED births /\ \A p \in Pid : proc'[p] = proc[p] \/ proc'[p] = Gone

SampleKept ==
    /\ r'.root = r.root /\ (r.reaped => r'.reaped)
    /\ r'.snaps = {} \/ (r'.snaps = r.snaps /\ r'.scan = r.scan)

(* Reaping a process leaves what was read of a sample fitting the table.     *)
LEMMA WanedSampled ==
    ASSUME RunnerInv, Waned, SampleKept, r'.pc # "scan"
    PROVE  Sampled'
<1>a. Sampled /\ Typed BY DEF RunnerInv
<1>1. CASE r'.snaps = {} BY <1>1 DEF Sampled
<1>2. CASE r'.snaps = r.snaps /\ r'.scan = r.scan
  <2>1. r.snaps \subseteq Record /\ r.scan \subseteq Pid BY <1>a DEF Typed, RunTyped
  <2>2. \A p \in Pid : (There(p)' => There(p) /\ proc'[p] = proc[p])
                       /\ (proc'[p].state = "live" => proc'[p] = proc[p])
    BY DEF Waned, There, Gone
  <2>3. \A s \in r.snaps : s.pid \in Pid BY <2>1 DEF Record
  <2>4. births' = births BY DEF Waned
  <2>5. \A s \in r.snaps :
          /\ s.start \in 1 .. births /\ s.ppid # s.pid /\ s.pid \notin r.scan
          /\ There(s.pid)' => proc'[s.pid].start = s.start
          /\ proc'[s.pid].state = "live" => s.live
          /\ There(s.pid)' /\ proc'[s.pid].pgid # s.pid => s.pgid = proc'[s.pid].pgid
          /\ ~r'.reaped /\ s.pid = r.root.pid => IdOf(s) = r.root
    BY <1>a, <2>2, <2>3 DEF Sampled, SampleKept
  <2>6. \A s \in r.snaps :
          s.pid = r.root.pid /\ s.pgid # s.pid /\ s.ppid \in r.scan /\ There(s.ppid)' =>
                proc'[s.ppid].pgid # s.pid
    BY <1>a, <2>1, <2>2 DEF Sampled
  <2>7. ASSUME NEW s \in r.snaps, NEW p \in r.scan, p = r.root.pid, s.pgid = p, There(p)'
        PROVE  proc'[p].pgid = p
    BY <1>a, <2>1, <2>2, <2>7 DEF Sampled
  <2>8. \A s \in r.snaps :
          s.pgid = r.root.pid /\ r.root.pid \in r.scan /\ proc'[r.root.pid].state # "none" =>
                proc'[r.root.pid].pgid = r.root.pid
    BY <2>7 DEF There
  <2>9. \A s, u \in r.snaps :
          /\ s.pid = u.pid => s = u
          /\ s.pid = r.root.pid /\ s.pgid # s.pid /\ s.ppid = u.pid => u.pgid # s.pid
    BY <1>a DEF Sampled
  <2> QED BY <1>2, <2>4, <2>5, <2>6, <2>8, <2>9 DEF Sampled, SampleKept, There, IdOf
<1> QED BY <1>1, <1>2 DEF SampleKept

(* It also leaves the record of descent as it is.                            *)
LEMMA WanedDescended ==
    ASSUME RunnerInv, Waned, SampleKept,
           \A m \in [0 .. MaxBirths -> BOOLEAN] : Descent(m) =>
              /\ \A id \in r'.before \cup r'.todo \cup killed' : m[id.start]
              /\ ~r'.reaped => \A id \in r'.known \cup r'.escaped : m[id.start]
    PROVE  Descended'
<1>a. Descended /\ Typed BY DEF RunnerInv
<1>1. PICK m \in [0 .. MaxBirths -> BOOLEAN] : Descent(m) BY <1>a DEF Descended
<1>2. \A p \in Pid : There(p)' => There(p) /\ proc'[p] = proc[p] BY DEF Waned, There, Gone
<1>3. r.scan \subseteq Pid BY <1>a DEF Typed, RunTyped
<1>4. \A s \in r'.snaps : s.ppid \in r'.scan /\ There(s.ppid)' =>
          s \in r.snaps /\ s.ppid \in r.scan /\ There(s.ppid) /\ proc'[s.ppid] = proc[s.ppid]
  BY <1>2, <1>3 DEF SampleKept
<1>5. \A p \in Pid : There(p)' => proc'[p].measured = m[proc'[p].start] BY <1>1, <1>2 DEF Descent
<1>6. r'.root # NoId => m[r'.root.start] BY <1>1 DEF Descent, SampleKept
<1>7. ASSUME ~r'.reaped
      PROVE  /\ \A s \in r'.snaps : s.pgid = r'.root.pid => m[s.start]
             /\ \A s \in r'.snaps : s.ppid \in r'.scan /\ There(s.ppid)' =>
                   m[s.start] = m[proc'[s.ppid].start]
             /\ \A s, u \in r'.snaps : s.ppid = u.pid => m[s.start] = m[u.start]
  BY <1>1, <1>4, <1>7 DEF Descent, SampleKept
<1>8. Descent(m)' BY <1>1, <1>5, <1>6, <1>7 DEF Descent
<1> QED BY <1>8 DEF Descended

(* Whom a signal may reach: who was on the list, and the group of the root   *)
(* while it is there.                                                        *)
Group == {Id(p) : p \in {q \in Pid : There(q) /\ proc[q].pgid = r.root.pid}}

Reached == r.todo \cup (IF r.reaped \/ r.root = NoId THEN {} ELSE Group)

(* A step of the call that looks at nothing new. *)
Onward ==
    /\ UNCHANGED <<proc, births, expired>> /\ faults' \in 0 .. MaxFaults
    /\ RunTyped' /\ r'.pc # "scan" /\ SampleKept /\ r'.reaped = r.reaped
    /\ r'.known = r.known /\ r'.escaped = r.escaped
    /\ r'.before = r.before \/ (~r.reaped /\ r'.before = r.known)
    /\ r'.todo \subseteq r.todo \cup (IF r.reaped THEN {} ELSE r.escaped)
    /\ killed \subseteq killed' /\ killed' \subseteq killed \cup Reached

(* Such a step may kill only whom it may reach, and nobody more is known.     *)
LEMMA OnwardKeeps ==
    ASSUME RunnerInv, Onward
    PROVE  /\ Typed' /\ Table' /\ Started' /\ Sampled' /\ Descended'
           /\ (r.pc \in {"spawn", "done"} => r'.pc = "done") => Rooted'
<1>a. Typed /\ Table /\ Rooted /\ Started /\ Placed BY DEF RunnerInv
<1>b. /\ UNCHANGED <<proc, births, expired>> /\ faults' \in 0 .. MaxFaults
      /\ RunTyped' /\ r'.pc # "scan" /\ SampleKept /\ r'.reaped = r.reaped
      /\ r'.known = r.known /\ r'.escaped = r.escaped /\ r'.root = r.root
      /\ r'.before = r.before \/ (~r.reaped /\ r'.before = r.known)
      /\ r'.todo \subseteq r.todo \cup (IF r.reaped THEN {} ELSE r.escaped)
      /\ killed' \subseteq killed \cup Reached
  BY DEF Onward, SampleKept
<1>c. \A p \in Pid : There(p) => Id(p) \in Identity /\ Id(p).pid = p /\ Id(p).start = proc[p].start
                                 /\ proc[p].start \in 1 .. births
  <2> SUFFICES ASSUME NEW p \in Pid, There(p)
               PROVE  Id(p) \in Identity /\ Id(p).pid = p /\ Id(p).start = proc[p].start
                      /\ proc[p].start \in 1 .. births
    OBVIOUS
  <2>1. proc[p] \in Process BY <1>a DEF Typed
  <2> QED BY <1>a, <2>1 DEF Table, Id, Identity, Process
<1>d. Group \subseteq Identity /\ \A id \in Group : id.pid \in Pid /\ id.start \in 1 .. births
  BY <1>c DEF Group
<1>1. Typed'
  <2>1. killed' \subseteq Identity BY <1>a, <1>b, <1>d DEF Reached, Typed, RunTyped
  <2>2. r'.before \subseteq r'.known BY <1>a, <1>b DEF Typed
  <2> QED BY <1>a, <1>b, <2>1, <2>2 DEF Typed
<1>2. Table' BY <1>a, <1>b DEF Table, There
<1>3. Started'
  <2>1. \A id \in r'.known \cup r'.todo \cup r'.escaped \cup killed' :
          id.pid \in Pid /\ id.start \in 1 .. births
    BY <1>a, <1>b, <1>d DEF Started, Reached
  <2>2. \A id \in r'.before : id.pid = r.root.pid => id = r.root BY <1>a, <1>b DEF Started
  <2> QED BY <1>a, <1>b, <2>1, <2>2 DEF Started
<1>e. Waned BY <1>b DEF Waned
<1>4. Sampled' BY <1>b, <1>e, WanedSampled
<1>5. Descended'
  <2> SUFFICES ASSUME NEW m \in [0 .. MaxBirths -> BOOLEAN], Descent(m)
               PROVE  /\ \A id \in r'.before \cup r'.todo \cup killed' : m[id.start]
                      /\ ~r'.reaped => \A id \in r'.known \cup r'.escaped : m[id.start]
    BY <1>b, <1>e, WanedDescended
  <2>1. ~r.reaped /\ r.root # NoId => \A id \in Group : m[id.start]
    <3> SUFFICES ASSUME ~r.reaped, r.root # NoId, NEW p \in Pid, There(p),
                        proc[p].pgid = r.root.pid
                 PROVE  m[Id(p).start]
      BY DEF Group
    <3>1. proc[p].measured BY <1>a DEF Rooted
    <3>2. proc[p].measured = m[proc[p].start] BY DEF Descent
    <3> QED BY <1>c, <3>1, <3>2
  <2> QED BY <1>b, <2>1 DEF Descent, Reached
<1>6. ASSUME r.pc \in {"spawn", "done"} => r'.pc = "done" PROVE Rooted'
  BY <1>a, <1>b, <1>6 DEF Rooted, There, Id
<1> QED BY <1>1, <1>2, <1>3, <1>4, <1>5, <1>6

(* What is left to show of such a step. *)
Unsure == Placed' /\ Quiet' /\ Dealt' /\ RootNotLeft'

(* The rest of the invariant then follows. *)
LEMMA OnwardDone ==
    ASSUME RunnerInv, Onward, Unsure, r.pc \in {"spawn", "done"} => r'.pc = "done"
    PROVE  RunnerInv'
BY OnwardKeeps DEF RunnerInv, Unsure

(* The call may end before anything is started.                              *)
Early ==
    /\ r.pc = "spawn" /\ UNCHANGED <<proc, births, expired, killed>> /\ faults' \in 0 .. MaxFaults
    /\ \E o \in {"refused", "refused host", "error"} :
          r' = [r EXCEPT !.pc = "done", !.outcome = o]

LEMMA EarlyKeeps == ASSUME RunnerInv, Early PROVE RunnerInv'
<1>a. Typed /\ Rooted /\ Placed /\ RunTyped BY DEF RunnerInv, Typed
<1>1. PICK o \in {"refused", "refused host", "error"} : r' = [r EXCEPT !.pc = "done", !.outcome = o]
  BY DEF Early
<1>2. r.pc = "spawn" /\ UNCHANGED <<proc, births, expired, killed>> /\ faults' \in 0 .. MaxFaults
  BY DEF Early
<1>3. /\ RunTyped' /\ r'.pc = "done" /\ r'.outcome = o /\ r'.root = r.root /\ r'.known = r.known
      /\ r'.escaped = r.escaped /\ r'.before = r.before /\ r'.todo = r.todo
      /\ r'.reaped = r.reaped /\ r'.snaps = r.snaps /\ r'.scan = r.scan /\ r'.reason = r.reason
      /\ r'.final = r.final /\ r'.target = r.target
  BY <1>a, <1>1 DEF RunTyped, Places
<1>4. r = Idle /\ r.root = NoId /\ ~r.reaped /\ r.outcome = "none" /\ r.final = "no"
      /\ r.reason = "exited"
  <2>1. r = Idle BY <1>a, <1>2 DEF Placed
  <2> QED BY <2>1 DEF Idle
<1>5. Onward BY <1>a, <1>2, <1>3 DEF Onward, SampleKept, Typed
<1>6. Placed' BY <1>a, <1>2, <1>3, <1>4 DEF Placed, IsLive
<1>7. Quiet' /\ Dealt' /\ RootNotLeft'
  BY <1>a, <1>2, <1>3, <1>4 DEF Quiet, Dealt, RootNotLeft, Placed, IsLive
<1> QED BY <1>3, <1>5, <1>6, <1>7, OnwardDone DEF Unsure

(* Nothing is started when the arguments or the host are refused.            *)
LEMMA RefusalKeeps == ASSUME RunnerInv, RefuseArguments \/ RefuseHost PROVE RunnerInv'
<1>1. faults \in 0 .. MaxFaults BY DEF RunnerInv, Typed
<1>2. Early BY <1>1 DEF RefuseArguments, RefuseHost, Go, Early
<1> QED BY <1>2, EarlyKeeps

(* Looking at the root for the first time.                                   *)
LEMMA CaptureKeeps == ASSUME RunnerInv, Capture PROVE RunnerInv'
<1>a. Typed /\ Rooted /\ Placed /\ Quiet /\ RootNotLeft /\ RunTyped BY DEF RunnerInv, Typed
<1>1. PICK x \in {"list", "raise"} : r' = [r EXCEPT !.pc = x] BY DEF Capture, Go
<1>2. r.pc = "capture" /\ UNCHANGED <<proc, births, expired, faults, killed>> BY DEF Capture, Go
<1>3. /\ RunTyped' /\ r'.pc = x /\ r'.outcome = r.outcome /\ r'.root = r.root /\ r'.known = r.known
      /\ r'.escaped = r.escaped /\ r'.before = r.before /\ r'.todo = r.todo
      /\ r'.reaped = r.reaped /\ r'.snaps = r.snaps /\ r'.scan = r.scan /\ r'.reason = r.reason
      /\ r'.final = r.final /\ r'.target = r.target
  BY <1>a, <1>1 DEF RunTyped, Places
<1>4. r.outcome = "none" /\ r.final = "no" BY <1>a, <1>2 DEF Placed
<1>5. Onward BY <1>a, <1>2, <1>3 DEF Onward, SampleKept, Typed
<1>6. Placed' BY <1>a, <1>2, <1>3, <1>4 DEF Placed, IsLive
<1>7. Quiet' /\ Dealt' /\ RootNotLeft'
  BY <1>a, <1>2, <1>3, <1>4 DEF Quiet, Dealt, RootNotLeft, Placed, IsLive
<1> QED BY <1>2, <1>3, <1>4, <1>5, <1>6, <1>7, OnwardDone DEF Unsure

(* An exception: the except clause follows, or it is left before its end.    *)
LEMMA InterruptedKeeps == ASSUME RunnerInv, Interrupted PROVE RunnerInv'
<1>a. Typed /\ Rooted /\ Placed /\ Quiet /\ RootNotLeft /\ RunTyped /\ Dealt
  BY DEF RunnerInv, Typed
<1>1. r.pc \notin {"spawn", "done"} /\ UNCHANGED <<proc, births, expired, killed>>
      /\ faults' \in 0 .. MaxFaults
  BY <1>a, RunnerAssumption DEF Interrupted, Failing, Typed
<1>2. NoId \in Identity BY <1>a, RunnerAssumption DEF NoId, Identity, Typed
<1>3. /\ RunTyped' /\ r'.root = r.root /\ r'.known = r.known /\ r'.escaped = r.escaped
      /\ r'.before = r.before /\ r'.reaped = r.reaped /\ r'.snaps = r.snaps /\ r'.scan = r.scan
      /\ r'.reason = r.reason /\ r'.final = r.final /\ r'.todo = {} /\ r'.target = NoId
      /\ \/ /\ r.pc \in {"raise", "finish"} \/ r.final = "raising"
            /\ r'.pc = "done" /\ r'.outcome = "error"
            /\ r'.lost = IF r.pc \in {"raise", "group"} THEN "handler" ELSE r.lost
         \/ /\ r.pc \notin {"raise", "finish"} /\ r.final # "raising"
            /\ r'.pc = "raise" /\ r'.outcome = r.outcome
  <2>1. CASE r.pc \in {"raise", "finish"} \/ r.final = "raising"
    <3>1. PICK l \in {"none", "spawn", "handler"} :
            /\ l = IF r.pc \in {"raise", "group"} THEN "handler" ELSE r.lost
            /\ r' = [r EXCEPT !.pc = "done", !.outcome = "error", !.todo = {}, !.target = NoId,
                             !.lost = l]
      BY <1>a, <2>1 DEF Interrupted, RunTyped
    <3> QED BY <1>a, <1>2, <2>1, <3>1 DEF RunTyped, Places
  <2>2. CASE ~(r.pc \in {"raise", "finish"} \/ r.final = "raising")
    <3>1. r' = [r EXCEPT !.pc = "raise", !.todo = {}, !.target = NoId]
      BY <2>2 DEF Interrupted
    <3> QED BY <1>a, <1>2, <2>2, <3>1 DEF RunTyped, Places
  <2> QED BY <2>1, <2>2
<1>4. r.outcome = "none" BY <1>a, <1>1 DEF Placed
<1>5. Onward BY <1>a, <1>1, <1>3 DEF Onward, SampleKept, Typed
<1>6. Placed' BY <1>a, <1>1, <1>3, <1>4 DEF Placed
<1>7. Quiet' BY <1>1, <1>3, <1>4 DEF Quiet
<1>8. r'.pc = "done" /\ IsLive(r.root) => r.root \in killed \/ r'.lost # "none"
  <2> SUFFICES ASSUME r'.pc = "done", IsLive(r.root), r.pc \notin {"raise", "group"}
               PROVE  r.root \in killed \/ r'.lost # "none"
    BY <1>3
  <2>1. ~r.reaped
    BY <1>a DEF Rooted, IsLive, There, Id, RunTyped, Identity
  <2>2. r.pc # "finish" /\ r.final = "raising" BY <1>a, <1>3, <2>1 DEF Placed
  <2>3. r.pc = "kill" BY <1>a, <1>1, <2>1, <2>2 DEF Placed, RunTyped, Places
  <2> QED BY <1>a, <1>3, <2>1, <2>2, <2>3 DEF Dealt
<1>9. Dealt' /\ RootNotLeft'
  BY <1>1, <1>3, <1>4, <1>8 DEF Dealt, RootNotLeft, IsLive
<1> QED BY <1>1, <1>3, <1>5, <1>6, <1>7, <1>9, OnwardDone DEF Unsure

(* The group is signalled while the root is there, and with it the root.     *)
LEMMA KillGroupKeeps == ASSUME RunnerInv, KillGroup PROVE RunnerInv'
<1>a. Typed /\ Rooted /\ Placed /\ Quiet /\ RootNotLeft /\ RunTyped /\ Started
  BY DEF RunnerInv, Typed
<1>1. r.pc = "group" /\ UNCHANGED <<proc, births, expired>> /\ faults' \in 0 .. MaxFaults
  BY <1>a, RunnerAssumption DEF KillGroup, Failing, Typed
<1>2. /\ RunTyped' /\ r'.pc = "kill" /\ r'.outcome = r.outcome /\ r'.root = r.root
      /\ r'.known = r.known /\ r'.escaped = r.escaped /\ r'.before = r.before /\ r'.todo = r.todo
      /\ r'.reaped = r.reaped /\ r'.snaps = r.snaps /\ r'.scan = r.scan /\ r'.reason = r.reason
      /\ r'.final = r.final /\ r'.target = r.target
      /\ \/ killed' = killed \cup Group
         \/ killed' = killed /\ r'.failed /\ (r.final = "raising" => r'.lost = "handler")
  <2>1. CASE r' = [r EXCEPT !.pc = "kill"] /\ killed' = killed \cup Group
    BY <1>a, <2>1 DEF RunTyped, Places
  <2>2. CASE r' = [r EXCEPT !.pc = "kill", !.failed = TRUE,
                            !.lost = IF r.final = "raising" THEN "handler" ELSE @]
             /\ killed' = killed
    <3>1. PICK l \in {"none", "spawn", "handler"} :
            /\ r.final = "raising" => l = "handler"
            /\ r' = [r EXCEPT !.pc = "kill", !.failed = TRUE, !.lost = l]
      BY <1>a, <2>2 DEF RunTyped
    <3> QED BY <1>a, <2>2, <3>1 DEF RunTyped, Places
  <2> QED BY <2>1, <2>2 DEF KillGroup, Group, There
<1>3. r.outcome = "none" /\ ~r.reaped /\ r.reason # "daemonization" BY <1>a, <1>1 DEF Placed
<1>4. r.root # NoId BY <1>a, <1>1, <1>3 DEF Rooted
<1>5. r.root \in Group BY <1>a, <1>3, <1>4 DEF Rooted, Group
<1>6. Onward BY <1>a, <1>1, <1>2, <1>3, <1>4 DEF Onward, SampleKept, Typed, Reached
<1>7. Placed' BY <1>a, <1>1, <1>2, <1>3 DEF Placed, IsLive
<1>8. Quiet' /\ Dealt' /\ RootNotLeft'
  BY <1>a, <1>1, <1>2, <1>3, <1>5 DEF Quiet, Dealt, RootNotLeft, Placed, IsLive
<1> QED BY <1>1, <1>2, <1>3, <1>6, <1>7, <1>8, OnwardDone DEF Unsure

(* What could not be sent is either passed over or ends the call.            *)
LEMMA SendFailsKeeps ==
    ASSUME RunnerInv, r.pc = "kill", NEW id \in Identity, SendFails(id) PROVE RunnerInv'
<1>a. Typed /\ Rooted /\ Placed /\ Quiet /\ RootNotLeft /\ RunTyped /\ Started /\ Dealt
  BY DEF RunnerInv, Typed
<1>1. UNCHANGED <<proc, births, expired, killed>> /\ faults' \in 0 .. MaxFaults
  BY <1>a, RunnerAssumption DEF SendFails, Failing, Typed
<1>2. NoId \in Identity BY <1>a, RunnerAssumption DEF NoId, Identity, Typed
<1>3. PICK rest \in SUBSET r.todo :
         \/ r' = [r EXCEPT !.target = NoId, !.todo = {}, !.pc = "raise"]
            /\ r.final \in {"exited", "raise"}
         \/ r' = [r EXCEPT !.target = NoId, !.todo = rest, !.failed = TRUE]
  <2>1. CASE r.final \in {"exited", "raise"} BY <2>1 DEF SendFails
  <2>2. CASE r.final \notin {"exited", "raise"}
    <3>1. PICK rest \in SUBSET r.todo : rest = {other \in r.todo : other.pid # id.pid} OBVIOUS
    <3>2. r' = [r EXCEPT !.target = NoId, !.todo = rest, !.failed = TRUE]
      BY <1>a, <2>2, <3>1 DEF SendFails, Without, RunTyped
    <3> QED BY <3>2
  <2> QED BY <2>1, <2>2
<1>4. /\ RunTyped' /\ r'.outcome = r.outcome /\ r'.root = r.root
      /\ r'.known = r.known /\ r'.escaped = r.escaped /\ r'.before = r.before
      /\ r'.reaped = r.reaped /\ r'.snaps = r.snaps /\ r'.scan = r.scan /\ r'.reason = r.reason
      /\ r'.final = r.final /\ r'.lost = r.lost /\ r'.target = NoId /\ r'.todo \subseteq r.todo
      /\ \/ r'.pc = "raise" /\ r.final \in {"exited", "raise"}
         \/ r'.pc = "kill" /\ r'.failed
  <2>1. rest \in SUBSET Identity BY <1>a DEF RunTyped
  <2>2. CASE r' = [r EXCEPT !.target = NoId, !.todo = {}, !.pc = "raise"]
             /\ r.final \in {"exited", "raise"}
    BY <1>a, <1>2, <2>2 DEF RunTyped, Places
  <2>3. CASE r' = [r EXCEPT !.target = NoId, !.todo = rest, !.failed = TRUE]
    BY <1>a, <1>2, <2>1, <2>3 DEF RunTyped, Places
  <2> QED BY <1>3, <2>2, <2>3
<1>5. r.outcome = "none" BY <1>a DEF Placed
<1>6. Onward BY <1>a, <1>1, <1>4 DEF Onward, SampleKept, Typed, Reached
<1>7. Placed'
  <2>1. \A k \in r'.todo : k.pid # NoId.pid BY <1>a, <1>4, RunnerAssumption DEF Started, NoId
  <2> QED BY <1>a, <1>1, <1>4, <2>1 DEF Placed
<1>8. Quiet' /\ RootNotLeft' BY <1>a, <1>1, <1>4, <1>5 DEF Quiet, RootNotLeft, IsLive
<1>9. Dealt' BY <1>a, <1>1, <1>4, <1>5 DEF Dealt, IsLive
<1> QED BY <1>1, <1>4, <1>6, <1>7, <1>8, <1>9, OnwardDone DEF Unsure

(* Of the list, only who is the one that was seen is signalled.              *)
LEMMA OpenPidfdKeeps == ASSUME RunnerInv, OpenPidfd PROVE RunnerInv'
<1>a. Typed /\ Rooted /\ Placed /\ Quiet /\ RootNotLeft /\ RunTyped /\ Started /\ Dealt /\ Table
  BY DEF RunnerInv, Typed
<1>1. r.pc = "kill" /\ r.target = NoId BY DEF OpenPidfd
<1>2. PICK id \in r.todo : \/ ~There(id.pid) /\ Go(Without(id))
                           \/ There(id.pid) /\ Go([r EXCEPT !.target = Id(id.pid)])
                           \/ SendFails(id)
  BY DEF OpenPidfd, There
<1>3. id.pid \in Pid /\ id \in Identity BY <1>a DEF Started, RunTyped
<1>4. CASE SendFails(id) BY <1>1, <1>3, <1>4, SendFailsKeeps
<1>5. CASE ~There(id.pid) /\ Go(Without(id))
  <2>1. UNCHANGED <<proc, births, expired, faults, killed>> BY <1>5 DEF Go
  <2>2. PICK rest \in SUBSET Identity : rest = {other \in r.todo : other.pid # id.pid}
    BY <1>a DEF RunTyped
  <2>3. r' = [r EXCEPT !.target = NoId, !.todo = rest]
    BY <1>a, <1>5, <2>2 DEF Go, Without, RunTyped
  <2>4. /\ RunTyped' /\ r'.pc = r.pc /\ r'.outcome = r.outcome /\ r'.root = r.root
        /\ r'.known = r.known /\ r'.escaped = r.escaped /\ r'.before = r.before
        /\ r'.reaped = r.reaped /\ r'.snaps = r.snaps /\ r'.scan = r.scan
        /\ r'.reason = r.reason /\ r'.final = r.final /\ r'.failed = r.failed
        /\ r'.lost = r.lost /\ r'.todo = rest /\ r'.target = NoId
    BY <1>a, <1>1, <2>2, <2>3 DEF RunTyped
  <2>5. r.outcome = "none" BY <1>a, <1>1 DEF Placed
  <2>6. Onward BY <1>a, <1>1, <2>1, <2>2, <2>4 DEF Onward, SampleKept, Typed, Reached
  <2>7. Placed'
    <3>1. \A k \in r'.todo : k.pid # NoId.pid
      BY <1>a, <2>2, <2>4, RunnerAssumption DEF Started, NoId
    <3> QED BY <1>a, <1>1, <2>1, <2>4, <3>1 DEF Placed
  <2>8. Quiet' /\ RootNotLeft' BY <1>a, <1>1, <2>1, <2>4, <2>5 DEF Quiet, RootNotLeft, IsLive
  <2>9. Dealt'
    <3>1. \A k \in r.todo : k \notin rest => ~IsLive(k) BY <1>5, <2>2 DEF There, IsLive
    <3> QED BY <1>a, <1>1, <2>1, <2>4, <2>5, <3>1 DEF Dealt, IsLive
  <2> QED BY <1>1, <2>4, <2>6, <2>7, <2>8, <2>9, OnwardDone DEF Unsure
<1>6. CASE There(id.pid) /\ Go([r EXCEPT !.target = Id(id.pid)])
  <2>1. UNCHANGED <<proc, births, expired, faults, killed>>
        /\ r' = [r EXCEPT !.target = Id(id.pid)]
    BY <1>6 DEF Go
  <2>2. Id(id.pid) \in Identity
    <3>1. proc[id.pid] \in Process BY <1>a, <1>3 DEF Typed
    <3> QED BY <1>3, <3>1 DEF Id, Identity, Process
  <2>3. /\ RunTyped' /\ r'.pc = r.pc /\ r'.outcome = r.outcome /\ r'.root = r.root
        /\ r'.known = r.known /\ r'.escaped = r.escaped /\ r'.before = r.before
        /\ r'.reaped = r.reaped /\ r'.snaps = r.snaps /\ r'.scan = r.scan
        /\ r'.reason = r.reason /\ r'.final = r.final /\ r'.failed = r.failed
        /\ r'.lost = r.lost /\ r'.todo = r.todo /\ r'.target = Id(id.pid)
    BY <1>a, <1>1, <2>1, <2>2 DEF RunTyped
  <2>4. r.outcome = "none" BY <1>a, <1>1 DEF Placed
  <2>5. Onward BY <1>a, <1>1, <2>1, <2>3 DEF Onward, SampleKept, Typed, Reached
  <2>6. Placed'
    <3>1. \A k \in r'.todo : k.pid = r'.target.pid /\ IsLive(k) => k = r'.target
      <4> SUFFICES ASSUME NEW k \in r.todo, k.pid = Id(id.pid).pid, IsLive(k)
                   PROVE  k = Id(id.pid)
        BY <2>3
      <4>1. k \in Identity BY <1>a DEF RunTyped
      <4> QED BY <4>1 DEF IsLive, Id, Identity
    <3>2. r'.target # NoId => \E k \in r'.todo : k.pid = r'.target.pid
      BY <1>3, <2>3 DEF Id
    <3>3. \A k \in r'.todo : IsLive(k)' <=> IsLive(k) BY <2>1 DEF IsLive
    <3> QED BY <1>a, <1>1, <2>3, <3>1, <3>2, <3>3 DEF Placed
  <2>7. Quiet' /\ RootNotLeft' BY <1>a, <1>1, <2>1, <2>3, <2>4 DEF Quiet, RootNotLeft, IsLive
  <2>8. Dealt' BY <1>a, <1>1, <2>1, <2>3, <2>4 DEF Dealt, IsLive
  <2> QED BY <1>1, <2>3, <2>5, <2>6, <2>7, <2>8, OnwardDone DEF Unsure
<1> QED BY <1>2, <1>4, <1>5, <1>6

(* The signal goes to who is bound by the pidfd, if he is one of those.      *)
LEMMA SignalKeeps == ASSUME RunnerInv, Signal PROVE RunnerInv'
<1>a. Typed /\ Rooted /\ Placed /\ Quiet /\ RootNotLeft /\ RunTyped /\ Started /\ Dealt /\ Table
  BY DEF RunnerInv, Typed
<1>b. r.pc = "kill" /\ r.target # NoId BY DEF Signal
<1>c. CASE SendFails(r.target)
  <2>1. r.target \in Identity BY <1>a DEF RunTyped
  <2> QED BY <1>b, <1>c, <2>1, SendFailsKeeps
<1>d. CASE ~SendFails(r.target)
  <2>1. UNCHANGED <<proc, births, expired, faults>> /\ r' = Without(r.target)
        /\ \/ r.target \notin r.todo /\ killed' = killed
           \/ r.target \in r.todo /\ killed' = killed \cup {r.target}
    BY <1>d DEF Signal, Go, IsSame
  <2>2. PICK rest \in SUBSET Identity : rest = {other \in r.todo : other.pid # r.target.pid}
    BY <1>a DEF RunTyped
  <2>3. r' = [r EXCEPT !.target = NoId, !.todo = rest]
    BY <1>a, <2>1, <2>2 DEF Without, RunTyped
  <2>4. NoId \in Identity BY <1>a, RunnerAssumption DEF NoId, Identity, Typed
  <2>5. /\ RunTyped' /\ r'.pc = r.pc /\ r'.outcome = r.outcome /\ r'.root = r.root
        /\ r'.known = r.known /\ r'.escaped = r.escaped /\ r'.before = r.before
        /\ r'.reaped = r.reaped /\ r'.snaps = r.snaps /\ r'.scan = r.scan
        /\ r'.reason = r.reason /\ r'.final = r.final /\ r'.failed = r.failed
        /\ r'.lost = r.lost /\ r'.todo = rest /\ r'.target = NoId
    BY <1>a, <2>2, <2>3, <2>4 DEF RunTyped
  <2>6. r.outcome = "none" BY <1>a, <1>b DEF Placed
  <2>7. Onward BY <1>a, <1>b, <2>1, <2>2, <2>5 DEF Onward, SampleKept, Typed, Reached
  <2>8. Placed'
    <3>1. \A k \in r'.todo : k.pid # NoId.pid
      BY <1>a, <2>2, <2>5, RunnerAssumption DEF Started, NoId
    <3> QED BY <1>a, <1>b, <2>1, <2>5, <3>1 DEF Placed
  <2>9. Quiet' /\ RootNotLeft' BY <1>a, <1>b, <2>1, <2>5, <2>6 DEF Quiet, RootNotLeft, IsLive
  <2>10. Dealt'
    <3>1. \A id \in r.todo : IsLive(id) /\ id \notin r'.todo => id \in killed'
      BY <1>a, <2>1, <2>2, <2>5 DEF Placed
    <3>2. killed \subseteq killed' BY <2>1
    <3> QED BY <1>a, <1>b, <2>1, <2>5, <2>6, <3>1, <3>2 DEF Dealt, IsLive
  <2> QED BY <1>b, <2>5, <2>7, <2>8, <2>9, <2>10, OnwardDone DEF Unsure
<1> QED BY <1>c, <1>d

(* The wait ends when the root was reaped before, or has lasted too long.    *)
LEMMA WaitedKeeps == ASSUME RunnerInv, (Wait /\ r.reaped) \/ WaitExpires PROVE RunnerInv'
<1>a. /\ Typed /\ Rooted /\ Placed /\ Quiet /\ RootNotLeft /\ RunTyped /\ Started /\ Dealt
      /\ Table
  BY DEF RunnerInv, Typed
<1>1. r.pc = "kill" /\ r.todo = {} /\ UNCHANGED <<proc, births, expired, killed>>
      /\ faults' \in 0 .. MaxFaults
  BY <1>a, RunnerAssumption DEF Wait, WaitExpires, Go, Failing, Typed
<1>2. /\ RunTyped' /\ r'.root = r.root /\ r'.known = r.known /\ r'.escaped = r.escaped
      /\ r'.reaped = r.reaped /\ r'.snaps = r.snaps /\ r'.scan = r.scan
      /\ r'.before = r.before /\ r'.todo = r.todo /\ r'.target = r.target
      /\ r'.reason = r.reason /\ r'.final = r.final /\ r'.outcome = r.outcome
      /\ r'.lost = r.lost
      /\ \/ r'.pc = "raise" /\ (~r.reaped => r'.failed)
         \/ r'.pc = "finish" /\ r.reaped /\ r.final # "raise" /\ ~r.failed /\ r'.failed = r.failed
  <2>1. CASE Wait /\ r.reaped
    <3>1. r' = [r EXCEPT !.pc = IF r.final = "raise" \/ r.failed THEN "raise" ELSE "finish"]
      BY <2>1 DEF Wait, Go
    <3>2. CASE r.final = "raise" \/ r.failed
      <4>1. r' = [r EXCEPT !.pc = "raise"] BY <3>1, <3>2
      <4> QED BY <1>a, <2>1, <4>1 DEF RunTyped, Places
    <3>3. CASE r.final # "raise" /\ ~r.failed
      <4>1. r' = [r EXCEPT !.pc = "finish"] BY <3>1, <3>3
      <4> QED BY <1>a, <2>1, <3>3, <4>1 DEF RunTyped, Places
    <3> QED BY <3>2, <3>3
  <2>2. CASE WaitExpires BY <1>a, <2>2 DEF WaitExpires, RunTyped, Places
  <2> QED BY <2>1, <2>2
<1>3. r.outcome = "none" /\ r.target = NoId BY <1>a, <1>1 DEF Placed
<1>4. Onward BY <1>a, <1>1, <1>2 DEF Onward, SampleKept, Typed, Reached
<1>5. Placed' BY <1>a, <1>1, <1>2, <1>3 DEF Placed, IsLive
<1>6. Quiet' /\ RootNotLeft' BY <1>a, <1>1, <1>2, <1>3 DEF Quiet, RootNotLeft, Placed
<1>7. Dealt' BY <1>a, <1>1, <1>2, <1>3 DEF Dealt, IsLive
<1> QED BY <1>1, <1>2, <1>3, <1>4, <1>5, <1>6, <1>7, OnwardDone DEF Unsure

(* The except clause kills what still runs, or had nothing to kill.          *)
LEMMA RaiseKeeps ==
    ASSUME RunnerInv, Raise, r.reaped \/ r.final = "raising" \/ proc[r.root.pid].state = "live"
    PROVE  RunnerInv'
<1>a. /\ Typed /\ Rooted /\ Placed /\ Quiet /\ RootNotLeft /\ RunTyped /\ Started /\ Dealt
      /\ Table
  BY DEF RunnerInv, Typed
<1>1. r.pc = "raise" BY DEF Raise
<1>2. NoId \in Identity BY <1>a, RunnerAssumption DEF NoId, Identity, Typed
<1>b. \/ /\ ~r.reaped /\ r.final # "raising"
         /\ r' = [r EXCEPT !.pc = "group", !.final = "raising", !.todo = r.escaped,
                          !.target = NoId]
         /\ UNCHANGED <<proc, births, expired, faults, killed>>
      \/ /\ r.reaped \/ r.final = "raising"
         /\ r' = [r EXCEPT !.pc = "done", !.outcome = "error"]
         /\ UNCHANGED <<proc, births, expired, faults, killed>>
  BY DEF Raise, Go
<1>3. /\ RunTyped' /\ r'.root = r.root /\ r'.known = r.known /\ r'.escaped = r.escaped
      /\ r'.reaped = r.reaped /\ r'.snaps = r.snaps /\ r'.scan = r.scan
      /\ r'.before = r.before /\ r'.reason = r.reason /\ r'.lost = r.lost
      /\ \/ /\ ~r.reaped /\ r'.pc = "group" /\ r'.final = "raising" /\ r'.todo = r.escaped
            /\ r'.target = NoId /\ r'.outcome = r.outcome
         \/ /\ r.reaped \/ r.final = "raising"
            /\ r'.pc = "done" /\ r'.outcome = "error" /\ r'.final = r.final
            /\ r'.todo = r.todo /\ r'.target = r.target
  BY <1>a, <1>b, <1>2, ZenonT(40) DEF RunTyped, Places
<1>4. r.outcome = "none" /\ UNCHANGED <<proc, births, expired, faults, killed>>
  BY <1>a, <1>b, <1>1 DEF Placed
<1>5. Onward BY <1>a, <1>1, <1>3, <1>4 DEF Onward, SampleKept, Typed, Reached
<1>6. Placed'
  <2>1. \A k \in r.escaped : k.pid # NoId.pid BY <1>a, RunnerAssumption DEF Started, NoId
  <2> QED BY <1>a, <1>1, <1>3, <1>4, <2>1 DEF Placed, IsLive
<1>7. Quiet' /\ Dealt' BY <1>a, <1>1, <1>3, <1>4 DEF Quiet, Dealt, Placed, IsLive
<1>8. RootNotLeft'
  <2>1. r.reaped => ~IsLive(r.root) BY <1>a DEF Rooted, IsLive, There, Id, RunTyped, Identity
  <2> QED BY <1>a, <1>1, <1>3, <1>4, <2>1 DEF Dealt, RootNotLeft, IsLive
<1> QED BY <1>1, <1>3, <1>5, <1>6, <1>7, <1>8, OnwardDone DEF Unsure

(* What the call reports. *)
LEMMA ReportKeeps == ASSUME RunnerInv, Finish \/ Measure PROVE RunnerInv'
<1>a. /\ Typed /\ Rooted /\ Placed /\ Quiet /\ RootNotLeft /\ RunTyped /\ Started /\ Dealt
      /\ Table
  BY DEF RunnerInv, Typed
<1>1. UNCHANGED <<proc, births, expired, faults, killed>> BY DEF Finish, Measure, Go
<1>2. /\ RunTyped' /\ r'.root = r.root /\ r'.known = r.known /\ r'.escaped = r.escaped
      /\ r'.reaped = r.reaped /\ r'.snaps = r.snaps /\ r'.scan = r.scan
      /\ r'.before = r.before /\ r'.reason = r.reason /\ r'.failed = r.failed
      /\ r'.todo = r.todo /\ r'.target = r.target /\ r'.final = r.final /\ r'.pc = "done"
      /\ r'.lost = r.lost
      /\ \/ r.pc = "finish" /\ r'.outcome = IF r.reason \in {"exited", "timeout"} THEN "result"
                                            ELSE "isolation"
         \/ r.pc = "done" /\ r.outcome = "result" /\ r'.outcome \in {"measured", "rejected"}
  BY <1>a, ZenonT(40) DEF Finish, Measure, Go, RunTyped, Places
<1>4. Onward BY <1>a, <1>1, <1>2 DEF Onward, SampleKept, Typed, Reached
<1>5. Placed' BY <1>a, <1>1, <1>2 DEF Placed, IsLive
<1>6. Quiet' BY <1>a, <1>1, <1>2 DEF Quiet, IsLive
<1>7. Dealt' BY <1>a, <1>1, <1>2 DEF Dealt, Placed, IsLive
<1>8. RootNotLeft'
  <2>1. r.reaped => ~IsLive(r.root) BY <1>a DEF Rooted, IsLive, There, Id, RunTyped, Identity
  <2> QED BY <1>a, <1>1, <1>2, <2>1 DEF Placed, RootNotLeft, IsLive
<1> QED BY <1>2, <1>4, <1>5, <1>6, <1>7, <1>8, OnwardDone DEF Unsure

(* A root that is polled and still runs.                                     *)
LEMMA PollLiveKeeps == ASSUME RunnerInv, Poll, proc[r.root.pid].state = "live" PROVE RunnerInv'
<1>a. /\ Typed /\ Rooted /\ Placed /\ Quiet /\ RootNotLeft /\ RunTyped /\ Started /\ Dealt
      /\ Table
  BY DEF RunnerInv, Typed
<1>1. r.pc = "poll" /\ UNCHANGED <<proc, births, expired, faults, killed>> BY DEF Poll, Go
<1>2. /\ RunTyped' /\ r'.root = r.root /\ r'.known = r.known /\ r'.escaped = r.escaped
      /\ r'.reaped = r.reaped /\ r'.snaps = r.snaps /\ r'.scan = r.scan
      /\ r'.failed = r.failed /\ r'.target = r.target /\ r'.outcome = r.outcome
      /\ \/ /\ r'.pc = "group" /\ r'.final = "timeout" /\ r'.reason = "timeout"
            /\ r'.before = r.known /\ r'.todo = {}
         \/ /\ r'.pc = "list" /\ r'.final = r.final /\ r'.reason = r.reason
            /\ r'.before = r.before /\ r'.todo = r.todo
  <2>1. \/ r' = [r EXCEPT !.pc = "group", !.final = "timeout", !.reason = "timeout",
                         !.before = r.known, !.todo = {}]
        \/ r' = [r EXCEPT !.pc = "list"]
    BY DEF Poll, Go
  <2> QED BY <1>a, <2>1, ZenonT(40) DEF RunTyped, Places, Reasons
<1>3. r.outcome = "none" /\ r.target = NoId /\ ~r.reaped /\ r.final = "no" BY <1>a, <1>1 DEF Placed
<1>4. Onward BY <1>a, <1>1, <1>2, <1>3 DEF Onward, SampleKept, Typed, Reached
<1>5. Placed' BY <1>a, <1>1, <1>2, <1>3 DEF Placed, IsLive
<1>6. Quiet' /\ Dealt' /\ RootNotLeft'
  BY <1>a, <1>1, <1>2, <1>3 DEF Quiet, Dealt, RootNotLeft, Placed
<1> QED BY <1>1, <1>2, <1>3, <1>4, <1>5, <1>6, OnwardDone DEF Unsure

(* The root is reaped: its entry goes, and nothing else changes.             *)
Reaping ==
    /\ proc[r.root.pid].state = "zombie" /\ proc' = [proc EXCEPT ![r.root.pid] = Gone]
    /\ UNCHANGED <<births, expired, faults, killed>>

(* Nobody else is changed by that, and the root is not there any more.       *)
LEMMA ReapingWanes ==
    ASSUME Typed, Table, Rooted, Reaping, r.root # NoId
    PROVE  /\ Waned /\ Table' /\ proc' \in [Pid -> Process]
           /\ proc'[r.root.pid] = Gone
           /\ \A id \in Identity : id.pid \in Pid /\ IsLive(id)' =>
                 IsLive(id) /\ proc'[id.pid] = proc[id.pid] /\ id.pid # r.root.pid
<1>0. PICK o \in Pid : o = r.root.pid BY DEF Rooted
<1>a. \A p \in Pid : proc[p] \in Process BY DEF Typed
<1>1. /\ proc' = [proc EXCEPT ![o] = Gone] /\ births' = births /\ proc[o].state = "zombie"
      /\ UNCHANGED <<expired, faults, killed>>
  BY <1>0 DEF Reaping
<1>2. proc'[o] = Gone /\ \A q \in Pid \ {o} : proc'[q] = proc[q] BY <1>1 DEF Typed
<1>3. Waned BY <1>1, <1>2 DEF Waned
<1>4. Gone \in Process BY RunnerAssumption DEF Gone, Process
<1>5. proc' \in [Pid -> Process] BY <1>1, <1>4 DEF Typed
<1>6. \A q \in Pid : There(q)' => There(q) /\ q # o /\ proc'[q] = proc[q]
  BY <1>2 DEF There, Gone
<1>7. \A q \in Pid : There(q) /\ proc[q].ppid # 0 => proc[q].ppid \in Pid \ {o}
  BY <1>a, <1>1 DEF Table, Process
<1>8. \A q \in Pid : There(q)' /\ proc'[q].ppid # 0 => proc'[proc'[q].ppid] = proc[proc[q].ppid]
  BY <1>2, <1>6, <1>7
<1>9. \A q \in Pid : IF There(q)' THEN proc'[q].start \in 1 .. births' ELSE proc'[q] = Gone
  BY <1>1, <1>2, <1>6 DEF Table, There
<1>10. Table' BY <1>6, <1>8, <1>9 DEF Table
<1>11. \A id \in Identity : id.pid \in Pid /\ IsLive(id)' =>
          IsLive(id) /\ proc'[id.pid] = proc[id.pid] /\ id.pid # r.root.pid
  BY <1>0, <1>6 DEF IsLive, There, NoId
<1> QED BY <1>0, <1>2, <1>3, <1>5, <1>10, <1>11

(* What the call then knows is what it knew while the root was there.        *)
LEMMA ReapKeeps ==
    ASSUME RunnerInv, Reaping, ~r.reaped, r'.reaped, r.root # NoId, RunTyped', r'.pc # "scan",
           SampleKept, r'.known = r.known, r'.outcome \in {"none", "error"}, r.outcome = "none",
           r'.escaped = r.escaped, r'.todo = r.todo, r'.before \in {r.before, r.known},
           r'.pc # "spawn", Placed', r'.reason # "daemonization",
           r'.pc = "finish" => r'.reason \notin {"exited", "timeout"}
    PROVE  RunnerInv'
<1>a. /\ Typed /\ Table /\ Rooted /\ Placed /\ Started /\ RunTyped BY DEF RunnerInv, Typed
<1>b. /\ Waned /\ Table' /\ proc' \in [Pid -> Process] /\ proc'[r.root.pid] = Gone
  BY <1>a, ReapingWanes
<1>c. UNCHANGED <<births, expired, faults, killed>> /\ r'.root = r.root
  BY DEF Reaping, SampleKept
<1>1. Typed' BY <1>a, <1>b, <1>c DEF Typed
<1>2. Rooted' BY <1>a, <1>b, <1>c DEF Rooted, There, Gone
<1>3. Started' BY <1>a, <1>c DEF Started
<1>4. Sampled' BY <1>b, WanedSampled
<1>5. Descended'
  <2>1. \A m \in [0 .. MaxBirths -> BOOLEAN] : Descent(m) =>
              /\ \A id \in r'.before \cup r'.todo \cup killed' : m[id.start]
              /\ ~r'.reaped => \A id \in r'.known \cup r'.escaped : m[id.start]
    BY <1>c DEF Descent
  <2> QED BY <1>b, <2>1, WanedDescended
<1>6. ~IsLive(r.root)' BY <1>b, <1>c DEF IsLive, Gone
<1>7. Quiet' /\ Dealt' /\ RootNotLeft' BY <1>6 DEF Quiet, Dealt, RootNotLeft
<1> QED BY <1>1, <1>2, <1>3, <1>4, <1>5, <1>7, <1>b DEF RunnerInv

(* poll reaps the root: what is known by then is kept as it is.              *)
LEMMA PollReapKeeps == ASSUME RunnerInv, Poll, proc[r.root.pid].state # "live" PROVE RunnerInv'
<1>a. /\ Typed /\ Rooted /\ Placed /\ RunTyped BY DEF RunnerInv, Typed
<1>1. r.pc = "poll" /\ Reaping BY DEF Poll, Reaping
<1>2. r.outcome = "none" /\ r.target = NoId /\ ~r.reaped /\ r.final = "no" BY <1>a, <1>1 DEF Placed
<1>3. /\ RunTyped' /\ r'.root = r.root /\ r'.known = r.known /\ r'.escaped = r.escaped
      /\ r'.snaps = r.snaps /\ r'.scan = r.scan /\ r'.target = r.target /\ r'.outcome = r.outcome
      /\ r'.pc = "list" /\ r'.final = "exited" /\ r'.before = r.known /\ r'.reaped
      /\ r'.todo = r.todo /\ r'.reason = r.reason
  BY <1>a DEF Poll, RunTyped, Places
<1>4. SampleKept BY <1>3 DEF SampleKept
<1>5. \A k \in r.todo : k.pid # NoId.pid BY RunnerAssumption DEF RunnerInv, Started, NoId
<1>6. Placed' /\ r'.reason # "daemonization" /\ r.root # NoId
  BY <1>a, <1>1, <1>2, <1>3, <1>5 DEF Placed, Rooted
<1> QED BY <1>1, <1>2, <1>3, <1>4, <1>6, ReapKeeps

(* wait reaps the root once it was killed.                                   *)
LEMMA WaitReapKeeps == ASSUME RunnerInv, Wait, ~r.reaped PROVE RunnerInv'
<1>a. /\ Typed /\ Rooted /\ Placed /\ RunTyped BY DEF RunnerInv, Typed
<1>1. r.pc = "kill" /\ r.todo = {} /\ Reaping BY DEF Wait, Reaping
<1>2. r.outcome = "none" /\ r.target = NoId /\ r.final \in {"no", "timeout", "raising"}
      /\ r.root # NoId /\ r.reason # "daemonization"
  BY <1>a, <1>1 DEF Placed, Rooted
<1>3. PICK x \in {"raise", "list", "finish"} :
          /\ r' = [r EXCEPT !.reaped = TRUE, !.pc = x]
          /\ x = "list" => r.final = "timeout"
          /\ x = "finish" => r.final = "no"
  <2>1. r' = [r EXCEPT !.reaped = TRUE,
                       !.pc = IF r.failed \/ r.final = "raising" THEN "raise"
                              ELSE IF r.final = "timeout" THEN "list" ELSE "finish"]
    BY DEF Wait
  <2>2. CASE r.failed \/ r.final = "raising"
    <3>1. r' = [r EXCEPT !.reaped = TRUE, !.pc = "raise"] BY <2>1, <2>2
    <3> QED BY <3>1
  <2>3. CASE ~(r.failed \/ r.final = "raising") /\ r.final = "timeout"
    <3>1. r' = [r EXCEPT !.reaped = TRUE, !.pc = "list"] BY <2>1, <2>3
    <3> QED BY <2>3, <3>1
  <2>4. CASE ~(r.failed \/ r.final = "raising") /\ r.final # "timeout"
    <3>1. r' = [r EXCEPT !.reaped = TRUE, !.pc = "finish"] BY <2>1, <2>4
    <3> QED BY <1>2, <2>4, <3>1
  <2> QED BY <2>2, <2>3, <2>4
<1>4. /\ RunTyped' /\ r'.root = r.root /\ r'.known = r.known /\ r'.escaped = r.escaped
      /\ r'.snaps = r.snaps /\ r'.scan = r.scan /\ r'.target = r.target /\ r'.outcome = r.outcome
      /\ r'.pc = x /\ r'.final = r.final /\ r'.before = r.before /\ r'.reaped
      /\ r'.todo = r.todo /\ r'.reason = r.reason
  BY <1>a, <1>3 DEF RunTyped, Places
<1>5. SampleKept BY <1>4 DEF SampleKept
<1>6. Placed' BY <1>a, <1>1, <1>2, <1>3, <1>4 DEF Placed
<1>7. x = "finish" => r.reason \notin {"exited", "timeout"} BY <1>a, <1>1, <1>3 DEF Placed
<1> QED BY <1>1, <1>2, <1>3, <1>4, <1>5, <1>6, <1>7, ReapKeeps

(* The poll of the except clause reaps the root.                             *)
LEMMA RaiseReapKeeps ==
    ASSUME RunnerInv, Raise, ~r.reaped, r.final # "raising", proc[r.root.pid].state # "live"
    PROVE  RunnerInv'
<1>a. /\ Typed /\ Rooted /\ Placed /\ RunTyped BY DEF RunnerInv, Typed
<1>1. r.pc = "raise" /\ Reaping /\ r' = [r EXCEPT !.pc = "done", !.outcome = "error", !.reaped = TRUE]
  BY <1>a DEF Raise, Reaping, RunTyped
<1>2. r.outcome = "none" /\ r.target = NoId /\ r.root # NoId /\ r.reason # "daemonization"
  BY <1>a, <1>1 DEF Placed, Rooted
<1>3. /\ RunTyped' /\ r'.root = r.root /\ r'.known = r.known /\ r'.escaped = r.escaped
      /\ r'.snaps = r.snaps /\ r'.scan = r.scan /\ r'.target = r.target /\ r'.outcome = "error"
      /\ r'.pc = "done" /\ r'.final = r.final /\ r'.before = r.before /\ r'.reaped
      /\ r'.todo = r.todo /\ r'.reason = r.reason
  BY <1>a, <1>1 DEF RunTyped, Places
<1>4. SampleKept BY <1>3 DEF SampleKept
<1>5. \A k \in r.todo : k.pid # NoId.pid BY RunnerAssumption DEF RunnerInv, Started, NoId
<1>6. Placed' BY <1>a, <1>1, <1>2, <1>3, <1>5 DEF Placed
<1> QED BY <1>1, <1>2, <1>3, <1>4, <1>6, ReapKeeps

(* The process is started, and the call goes on or fails: nobody else is in  *)
(* the group of the process.                                                 *)
Launched(q) ==
    /\ r.pc = "spawn" /\ Born(q, 0, q, TRUE) /\ UNCHANGED <<expired, killed>>
    /\ faults' \in 0 .. MaxFaults
    /\ LET begun == [r EXCEPT !.root = [pid |-> q, start |-> births + 1]] IN
       \/ r' = [begun EXCEPT !.pc = "capture"]
       \/ r' = [begun EXCEPT !.pc = "done", !.outcome = "error", !.lost = "spawn"]

LEMMA LaunchedKeeps == ASSUME RunnerInv, NEW q \in Pid, Launched(q) PROVE RunnerInv'
<1>a. /\ Typed /\ Table /\ Rooted /\ Placed /\ RunTyped /\ Started /\ Descended
  BY DEF RunnerInv, Typed
<1>b. births \in Nat /\ MaxBirths \in Nat BY <1>a, RunnerAssumption DEF Typed
<1>1. Born(q, 0, q, TRUE) BY DEF Launched
<1>2. r = Idle /\ UNCHANGED <<expired, killed>> /\ faults' \in 0 .. MaxFaults
  BY <1>a DEF Launched, Placed
<1>3. /\ Moved /\ Fresh(q) /\ There(q)' /\ proc'[q].state = "live" /\ proc'[q].ppid = 0
      /\ proc'[q].pgid = q /\ proc'[q].measured = TRUE /\ \A p \in Pid \ {q} : proc'[p] = proc[p]
  BY <1>a, <1>1, BirthMoves
<1>4. Table' BY <1>a, <1>1, BirthOrdered
<1>5. births' = births + 1 /\ births < MaxBirths /\ proc'[q].start = births + 1
      /\ \A p \in Pid : There(p) => proc[p].pgid # q
  BY <1>1, <1>3 DEF Born, Fresh, Available, There
<1>6. [pid |-> q, start |-> births + 1] \in Identity BY <1>b, <1>5 DEF Identity
<1>7. /\ RunTyped' /\ r'.root = [pid |-> q, start |-> births + 1]
      /\ r'.known = {} /\ r'.escaped = {} /\ r'.before = {} /\ r'.todo = {} /\ r'.snaps = {}
      /\ r'.scan = {} /\ r'.final = "no" /\ r'.reason = "exited" /\ r'.target = NoId
      /\ ~r'.reaped
      /\ \/ r'.pc = "capture" /\ r'.outcome = "none"
         \/ r'.pc = "done" /\ r'.outcome = "error" /\ r'.lost = "spawn"
  <2> DEFINE id == [pid |-> q, start |-> births + 1]
  <2>1. \/ r' = [r EXCEPT !.root = id, !.pc = "capture"]
        \/ r' = [r EXCEPT !.root = id, !.pc = "done", !.outcome = "error", !.lost = "spawn"]
    BY DEF Launched
  <2>2. id \in Identity BY <1>6
  <2>3. /\ r.known = {} /\ r.escaped = {} /\ r.before = {} /\ r.todo = {} /\ r.snaps = {}
        /\ r.scan = {} /\ r.final = "no" /\ r.reason = "exited" /\ r.target = NoId
        /\ r.outcome = "none" /\ ~r.reaped
    BY <1>2 DEF Idle
  <2> HIDE DEF id
  <2>4. CASE r' = [r EXCEPT !.root = id, !.pc = "capture"]
    BY <1>a, <2>2, <2>3, <2>4 DEF RunTyped, Places, id
  <2>5. CASE r' = [r EXCEPT !.root = id, !.pc = "done", !.outcome = "error", !.lost = "spawn"]
    BY <1>a, <2>2, <2>3, <2>5 DEF RunTyped, Places, id
  <2> QED BY <2>1, <2>4, <2>5
<1>8. Typed' BY <1>a, <1>b, <1>2, <1>3, <1>5, <1>7 DEF Typed, Moved
<1>9. Rooted'
  <2>1. ASSUME NEW p \in Pid, There(p)', proc'[p].pgid = q PROVE proc'[p].measured
    BY <1>3, <1>5, <2>1 DEF There
  <2>2. r'.root.pid = q /\ r'.root.start = births + 1 /\ r'.root # NoId
    BY <1>7, RunnerAssumption DEF NoId
  <2>3. Id(q)' = r'.root BY <1>5, <1>7 DEF Id
  <2>4. r'.root.start \in 1 .. births' BY <1>b, <1>5, <2>2
  <2> QED BY <1>3, <1>7, <2>1, <2>2, <2>3, <2>4 DEF Rooted, Id, There
<1>10. Placed' BY <1>7 DEF Placed
<1>11. Started' BY <1>a, <1>b, <1>2, <1>5, <1>7 DEF Started
<1>12. Sampled' BY <1>7 DEF Sampled
<1>13. Descended'
  <2>1. PICK m \in [0 .. MaxBirths -> BOOLEAN] : Descent(m) BY <1>a DEF Descended
  <2>2. PICK n \in [0 .. MaxBirths -> BOOLEAN] : n = [m EXCEPT ![births + 1] = TRUE] OBVIOUS
  <2>3. n[births + 1] /\ \A k \in 1 .. births : n[k] = m[k]
    <3>1. /\ births + 1 \in 0 .. MaxBirths
          /\ \A k \in 1 .. births : k \in 0 .. MaxBirths /\ k # births + 1
      BY <1>b, <1>5
    <3>2. n[births + 1] BY <2>2, <3>1
    <3> QED BY <2>2, <3>1, <3>2
  <2>4. ASSUME NEW p \in Pid, There(p)' PROVE proc'[p].measured = n[proc'[p].start]
    <3>1. CASE p = q BY <1>3, <1>5, <2>3, <3>1
    <3>2. CASE p # q
      <4>1. There(p) /\ proc'[p] = proc[p] BY <1>3, <2>4, <3>2 DEF There
      <4>2. proc[p].start \in 1 .. births BY <1>a, <4>1 DEF Table
      <4> QED BY <2>1, <2>3, <4>1, <4>2 DEF Descent
    <3> QED BY <3>1, <3>2
  <2>5. \A id \in killed : n[id.start]
    <3>1. \A id \in killed : id.start \in 1 .. births BY <1>a DEF Started
    <3> QED BY <2>1, <2>3, <3>1 DEF Descent
  <2>6. Descent(n)' BY <1>2, <1>7, <2>3, <2>4, <2>5 DEF Descent
  <2> QED BY <2>6 DEF Descended
<1>14. Quiet' /\ Dealt' /\ RootNotLeft' BY <1>7 DEF Quiet, Dealt, RootNotLeft
<1> QED BY <1>4, <1>8, <1>9, <1>10, <1>11, <1>12, <1>13, <1>14 DEF RunnerInv

(* Popen returns. *)
LEMMA SpawnKeeps == ASSUME RunnerInv, Spawn PROVE RunnerInv'
<1>1. faults \in 0 .. MaxFaults /\ RunTyped BY DEF RunnerInv, Typed
<1>2. PICK q \in Pid : Launched(q) BY <1>1 DEF Spawn, Launched, RunTyped
<1> QED BY <1>2, LaunchedKeeps

(* Popen raises, before the fork or after it. *)
LEMMA SpawnRaisesKeeps == ASSUME RunnerInv, SpawnRaises PROVE RunnerInv'
<1>a. faults \in 0 .. MaxFaults /\ RunTyped BY DEF RunnerInv, Typed
<1>1. faults' \in 0 .. MaxFaults /\ r.pc = "spawn" /\ UNCHANGED <<expired, killed>> /\ RunTyped
  <2>1. Failing /\ r.pc = "spawn" /\ UNCHANGED <<expired, killed>> BY DEF SpawnRaises
  <2> QED BY <1>a, <2>1, RunnerAssumption DEF Failing
<1>2. CASE r' = [r EXCEPT !.pc = "done", !.outcome = "error"] /\ UNCHANGED <<proc, births>>
  BY <1>1, <1>2, EarlyKeeps DEF Early
<1>3. ASSUME NEW q \in Pid, Born(q, 0, q, TRUE),
             r' = [r EXCEPT !.pc = "done", !.outcome = "error", !.lost = "spawn",
                            !.root = [pid |-> q, start |-> births + 1]]
      PROVE  RunnerInv'
  <2>1. Launched(q) BY <1>1, <1>3 DEF Launched, RunTyped
  <2> QED BY <2>1, LaunchedKeeps
<1> QED BY <1>2, <1>3 DEF SpawnRaises

(* A sample begins with the identifiers there are; whoever runs is among     *)
(* them.                                                                     *)
LEMMA ListKeeps == ASSUME RunnerInv, List PROVE RunnerInv'
<1>a. /\ Typed /\ Table /\ Rooted /\ Placed /\ RunTyped /\ Started
  BY DEF RunnerInv, Typed
<1>1. r.pc = "list" /\ UNCHANGED <<proc, births, expired, faults, killed>> BY DEF List, Go
<1>2. /\ RunTyped' /\ r'.root = r.root /\ r'.known = r.known /\ r'.escaped = r.escaped
      /\ r'.before = r.before /\ r'.todo = r.todo /\ r'.reaped = r.reaped
      /\ r'.target = r.target /\ r'.outcome = r.outcome /\ r'.final = r.final
      /\ r'.reason = r.reason /\ r'.pc = "scan" /\ r'.snaps = {}
      /\ r'.scan = {p \in Pid : There(p)}
  BY <1>a DEF List, Go, RunTyped, Places, There
<1>3. r.outcome = "none" /\ r.final # "raising" BY <1>a, <1>1 DEF Placed
<1>4. Waned /\ SampleKept BY <1>1, <1>2 DEF Waned, SampleKept
<1>5. Typed' /\ Table' BY <1>a, <1>1, <1>2 DEF Typed, Table, There
<1>6. Rooted' BY <1>a, <1>1, <1>2, <1>3 DEF Rooted, There, Id
<1>7. Placed' BY <1>a, <1>1, <1>2, <1>3 DEF Placed, IsLive
<1>8. Started' BY <1>a, <1>1, <1>2 DEF Started
<1>9. Sampled'
  <2>1. \A id \in r.known : id.pid \in Pid /\ (IsLive(id) => There(id.pid))
    BY <1>a DEF Started, IsLive, There
  <2> QED BY <1>1, <1>2, <2>1 DEF Sampled, IsLive
<1>10. Descended'
  <2>1. \A m \in [0 .. MaxBirths -> BOOLEAN] : Descent(m) =>
              /\ \A id \in r'.before \cup r'.todo \cup killed' : m[id.start]
              /\ ~r'.reaped => \A id \in r'.known \cup r'.escaped : m[id.start]
    BY <1>1, <1>2 DEF Descent
  <2> QED BY <1>4, <2>1, WanedDescended
<1>11. Quiet' /\ Dealt' /\ RootNotLeft' BY <1>2, <1>3 DEF Quiet, Dealt, RootNotLeft
<1> QED BY <1>5, <1>6, <1>7, <1>8, <1>9, <1>10, <1>11 DEF RunnerInv

(* One record is read: it fits those that were read, and those to be read.   *)
LEMMA ReadStatKeeps == ASSUME RunnerInv, ReadStat PROVE RunnerInv'
<1>a. /\ Typed /\ Table /\ Rooted /\ Placed /\ RunTyped /\ Started /\ Sampled /\ Descended
  BY DEF RunnerInv, Typed
<1>1. r.pc = "scan" /\ UNCHANGED <<proc, births, expired, faults, killed>> BY DEF ReadStat, Go
<1>2. PICK p \in r.scan :
          r' = [r EXCEPT !.scan = @ \ {p},
                         !.snaps = IF There(p) THEN @ \cup {Snap(p)} ELSE @]
  BY DEF ReadStat, Go, There
<1>3. p \in Pid /\ proc[p] \in Process BY <1>a DEF RunTyped, Typed
<1>4. Snap(p) \in Record BY <1>3 DEF Snap, Record, Process
<1>5. /\ RunTyped' /\ r'.root = r.root /\ r'.known = r.known /\ r'.escaped = r.escaped
      /\ r'.before = r.before /\ r'.todo = r.todo /\ r'.reaped = r.reaped
      /\ r'.target = r.target /\ r'.outcome = r.outcome /\ r'.final = r.final
      /\ r'.reason = r.reason /\ r'.pc = "scan" /\ r'.scan = r.scan \ {p}
      /\ r'.snaps = IF There(p) THEN r.snaps \cup {Snap(p)} ELSE r.snaps
  BY <1>a, <1>1, <1>2, <1>4 DEF RunTyped
<1>6. r.outcome = "none" /\ r.final # "raising" BY <1>a, <1>1 DEF Placed
<1>7. Typed' /\ Table' BY <1>a, <1>1, <1>5 DEF Typed, Table, There
<1>8. Rooted' BY <1>a, <1>1, <1>5, <1>6 DEF Rooted, There, Id
<1>9. Placed' BY <1>a, <1>1, <1>5, <1>6 DEF Placed, IsLive
<1>10. Started' BY <1>a, <1>1, <1>5 DEF Started
<1>11. Quiet' /\ Dealt' /\ RootNotLeft' BY <1>5, <1>6 DEF Quiet, Dealt, RootNotLeft
<1>b. r.snaps \subseteq Record /\ r.scan \subseteq Pid BY <1>a DEF RunTyped
<1>12. CASE ~There(p)
  <2>1. r'.snaps = r.snaps BY <1>5, <1>12
  <2>2. \A id \in r.known : IsLive(id) => id.pid # p BY <1>12 DEF IsLive, There
  <2>3. Sampled' BY <1>a, <1>1, <1>5, <2>1, <2>2 DEF Sampled, There, IsLive, IdOf
  <2>4. Descended'
    <3>1. PICK m \in [0 .. MaxBirths -> BOOLEAN] : Descent(m) BY <1>a DEF Descended
    <3>2. Descent(m)' BY <1>1, <1>5, <2>1, <3>1 DEF Descent, There
    <3> QED BY <3>2 DEF Descended
  <2> QED BY <1>7, <1>8, <1>9, <1>10, <1>11, <2>3, <2>4 DEF RunnerInv
<1>13. CASE There(p)
  <2> DEFINE v == Snap(p)
  <2>1. r'.snaps = r.snaps \cup {v} BY <1>5, <1>13
  <2>2. /\ v.pid = p /\ v.start = proc[p].start /\ v.ppid = proc[p].ppid
        /\ v.pgid = proc[p].pgid /\ v.live = (proc[p].state = "live")
    BY DEF Snap
  <2>3. /\ v.start \in 1 .. births /\ v.ppid \in Pid \cup {0}
        /\ v.ppid # 0 => /\ There(v.ppid) /\ proc[v.ppid].start < v.start
                         /\ proc[v.ppid].measured = proc[p].measured
        /\ \A q \in Pid : There(q) /\ proc[p].pgid # p => proc[q].pgid # p
        /\ \A q \in Pid : There(q) /\ proc[q].pgid # q => v.pgid # q
    BY <1>3, <1>13, <2>2 DEF Table, There, Process, RunnerInv
  <2>4. v.ppid # v.pid
    <3>1. proc[p].start \in Nat BY <1>3, RunnerAssumption DEF Process
    <3>2. v.pid # 0 BY <1>3, <2>2, RunnerAssumption
    <3> QED BY <2>2, <2>3, <3>1, <3>2
  <2>5. \A u \in r.snaps :
           u.pid \in Pid /\ u.pid # p /\ (There(u.pid) => proc[u.pid].start = u.start)
    BY <1>a, <1>b DEF Sampled, Record
  <2> HIDE DEF v
  <2>6. Sampled'
    <3>1. ASSUME NEW s \in r'.snaps
          PROVE  /\ s.start \in 1 .. births' /\ s.ppid # s.pid /\ s.pid \notin r'.scan
                 /\ There(s.pid)' => proc'[s.pid].start = s.start
                 /\ proc'[s.pid].state = "live" => s.live
                 /\ There(s.pid)' /\ proc'[s.pid].pgid # s.pid => s.pgid = proc'[s.pid].pgid
      <4>1. CASE s \in r.snaps BY <1>a, <1>1, <1>5, <4>1 DEF Sampled, There
      <4>2. CASE s = v BY <1>1, <1>5, <2>2, <2>3, <2>4, <4>2 DEF There
      <4> QED BY <2>1, <4>1, <4>2
    <3>2. ASSUME NEW s \in r'.snaps, ~r'.reaped, s.pid = r'.root.pid PROVE IdOf(s) = r'.root
      <4>1. CASE s \in r.snaps BY <1>a, <1>5, <3>2, <4>1 DEF Sampled, IdOf
      <4>2. CASE s = v
        <5>1. Id(p) = r.root BY <1>a, <1>1, <1>3, <1>5, <1>6, <2>2, <3>2, <4>2 DEF Rooted
        <5> QED BY <1>5, <2>2, <4>2, <5>1 DEF IdOf, Id
      <4> QED BY <2>1, <4>1, <4>2
    <3>3. ASSUME NEW s \in r'.snaps, s.pid = r'.root.pid, s.pgid # s.pid, s.ppid \in r'.scan,
                 There(s.ppid)
          PROVE  proc'[s.ppid].pgid # s.pid
      <4>1. CASE s \in r.snaps BY <1>a, <1>1, <1>5, <3>3, <4>1 DEF Sampled
      <4>2. CASE s = v BY <1>1, <1>5, <1>b, <2>2, <2>3, <3>3, <4>2
      <4> QED BY <2>1, <4>1, <4>2
    <3>4. ASSUME NEW s \in r'.snaps, s.pgid = r'.root.pid, r'.root.pid \in r'.scan,
                 There(r.root.pid)
          PROVE  proc'[r'.root.pid].pgid = r'.root.pid
      <4>1. CASE s \in r.snaps BY <1>a, <1>1, <1>5, <3>4, <4>1 DEF Sampled
      <4>2. CASE s = v BY <1>1, <1>5, <1>b, <2>2, <2>3, <3>4, <4>2
      <4> QED BY <2>1, <4>1, <4>2
    <3>5. ASSUME NEW s \in r'.snaps, NEW u \in r'.snaps PROVE s.pid = u.pid => s = u
      BY <1>a, <2>1, <2>2, <2>5 DEF Sampled
    <3>6. ASSUME NEW s \in r'.snaps, NEW u \in r'.snaps, s.pid = r'.root.pid, s.pgid # s.pid,
                 s.ppid = u.pid
          PROVE  u.pgid # s.pid
      <4>1. CASE s \in r.snaps /\ u \in r.snaps BY <1>a, <1>5, <3>6, <4>1 DEF Sampled
      <4>2. CASE s \in r.snaps /\ u = v
        BY <1>a, <1>5, <1>13, <2>2, <3>6, <4>2 DEF Sampled
      <4>3. CASE s = v /\ u \in r.snaps
        <5> SUFFICES ASSUME u.pgid = p PROVE FALSE
          BY <2>2, <4>3
        <5>1. p = r.root.pid BY <1>5, <2>2, <3>6, <4>3
        <5>2. proc[p].pgid = p BY <1>a, <1>13, <4>3, <5>1 DEF Sampled
        <5> QED BY <2>2, <3>6, <4>3, <5>2
      <4>4. CASE s = v /\ u = v BY <2>4, <3>6, <4>4
      <4> QED BY <2>1, <4>1, <4>2, <4>3, <4>4
    <3>7. ASSUME NEW id \in r'.known, IsLive(id)
          PROVE  id.pid \in r'.scan \/ \E s \in r'.snaps : IdOf(s) = id /\ s.live
      <4>1. id \in r.known /\ id \in Identity BY <1>a, <1>5 DEF RunTyped
      <4>2. CASE id.pid \in r.scan /\ id.pid # p BY <1>5, <4>2
      <4>3. CASE id.pid = p
        <5>1. proc[p].state = "live" /\ proc[p].start = id.start BY <3>7, <4>3 DEF IsLive
        <5>2. IdOf(v) = id BY <2>2, <4>1, <4>3, <5>1 DEF IdOf, Identity
        <5> QED BY <2>1, <2>2, <5>1, <5>2
      <4>4. CASE \E s \in r.snaps : IdOf(s) = id /\ s.live BY <2>1, <4>4
      <4> QED BY <1>a, <1>1, <3>7, <4>1, <4>2, <4>3, <4>4 DEF Sampled
    <3>8. \A q : There(q)' <=> There(q) BY <1>1 DEF There
    <3>9. \A id : IsLive(id)' <=> IsLive(id) BY <1>1 DEF IsLive
    <3> QED BY <3>1, <3>2, <3>3, <3>4, <3>5, <3>6, <3>7, <1>1, <1>5 DEF Sampled, There, IsLive, IdOf
  <2>7. Descended'
    <3>1. PICK m \in [0 .. MaxBirths -> BOOLEAN] : Descent(m) BY <1>a DEF Descended
    <3>2. \A q \in Pid : There(q) => proc[q].measured = m[proc[q].start] BY <3>1 DEF Descent
    <3>3. v.ppid # 0 => m[v.start] = m[proc[v.ppid].start]
      BY <1>3, <1>13, <2>2, <2>3, <3>2
    <3>4. ASSUME ~r.reaped, NEW s \in r'.snaps, s.pgid = r.root.pid PROVE m[s.start]
      <4>1. CASE s \in r.snaps BY <3>1, <3>4, <4>1 DEF Descent
      <4>2. CASE s = v
        <5>1. proc[p].measured
          BY <1>a, <1>1, <1>3, <1>6, <1>13, <2>2, <3>4, <4>2 DEF Rooted
        <5> QED BY <1>3, <1>13, <2>2, <3>2, <4>2, <5>1
      <4> QED BY <2>1, <4>1, <4>2
    <3>5. ASSUME ~r.reaped, NEW s \in r'.snaps, s.ppid \in r'.scan, There(s.ppid)
          PROVE  m[s.start] = m[proc[s.ppid].start]
      <4>1. CASE s \in r.snaps BY <1>5, <3>1, <3>5, <4>1 DEF Descent
      <4>2. CASE s = v
        <5>1. v.ppid # 0 BY <1>5, <1>b, <3>5, <4>2, RunnerAssumption
        <5> QED BY <3>3, <4>2, <5>1
      <4> QED BY <2>1, <4>1, <4>2
    <3>6. ASSUME ~r.reaped, NEW s \in r'.snaps, NEW u \in r'.snaps, s.ppid = u.pid
          PROVE  m[s.start] = m[u.start]
      <4>1. CASE s \in r.snaps /\ u \in r.snaps BY <3>1, <3>6, <4>1 DEF Descent
      <4>2. CASE s \in r.snaps /\ u = v BY <1>13, <2>2, <3>1, <3>6, <4>2 DEF Descent
      <4>3. CASE s = v /\ u \in r.snaps
        <5>1. v.ppid # 0 BY <2>5, <3>6, <4>3, RunnerAssumption
        <5> QED BY <2>3, <2>5, <3>3, <3>6, <4>3, <5>1
      <4>4. CASE s = v /\ u = v BY <2>4, <3>6, <4>4
      <4> QED BY <2>1, <4>1, <4>2, <4>3, <4>4
    <3>7. Descent(m)' BY <1>1, <1>5, <3>1, <3>4, <3>5, <3>6 DEF Descent, There
    <3> QED BY <3>7 DEF Descended
  <2> QED BY <1>7, <1>8, <1>9, <1>10, <1>11, <2>6, <2>7 DEF RunnerInv
<1> QED BY <1>12, <1>13

(* Who is known after a sample: those known before and the group, with the   *)
(* children of those present, and nobody else.                               *)
Seen == {IdOf(s) : s \in r.snaps}

(* It is the least set with the seed in it that the children do not leave.   *)
LEMMA ClosureIsLeast ==
    /\ Seed \subseteq Closure /\ Closure \subseteq Seed \cup Seen /\ r.known \subseteq Seed
    /\ Seed \subseteq r.known \cup Seen
    /\ \A K : Seed \subseteq K /\ K \subseteq Seed \cup Seen /\ Children(K) \subseteq K =>
          Closure \subseteq K
    /\ Children(Closure) \subseteq Closure
<1> DEFINE closed == {K \in {Seed \cup X : X \in SUBSET Seen} : Children(K) \subseteq K}
<1>1. Closure = {id \in Seed \cup Seen : \A K \in closed : id \in K} BY DEF Closure, Seen
<1>2. Seed \subseteq Closure /\ Closure \subseteq Seed \cup Seen BY <1>1
<1>3. r.known \subseteq Seed /\ Seed \subseteq r.known \cup Seen BY DEF Seed, Seen
<1>4. ASSUME NEW K, Seed \subseteq K, K \subseteq Seed \cup Seen, Children(K) \subseteq K
      PROVE  Closure \subseteq K
  <2>1. K = Seed \cup (K \cap Seen) BY <1>4
  <2>2. K \in closed BY <1>4, <2>1
  <2> QED BY <1>1, <2>2
<1>5. ASSUME NEW id \in Children(Closure) PROVE id \in Closure
  <2>1. CASE id \in Closure BY <2>1
  <2>2. CASE id \notin Closure
    <3>1. PICK s \in r.snaps : id = IdOf(s) /\ \E k \in Closure :
                 s.ppid = k.pid /\ \E u \in r.snaps : IdOf(u) = k
      BY <1>5, <2>2 DEF Children
    <3>2. id \in Seen BY <3>1 DEF Seen
    <3>3. ASSUME NEW K \in closed PROVE id \in K
      <4>1. Closure \subseteq K /\ Children(K) \subseteq K BY <1>1, <3>3
      <4>2. id \in Children(K) BY <3>1, <4>1 DEF Children
      <4> QED BY <4>1, <4>2
    <3> QED BY <1>1, <3>2, <3>3
  <2> QED BY <2>1, <2>2
<1> QED BY <1>2, <1>3, <1>4, <1>5

(* While the root is not reaped, all of them descend from it.                *)
LEMMA ClosureDescends ==
    ASSUME Typed, ~r.reaped, r.root # NoId, NEW m \in [0 .. MaxBirths -> BOOLEAN], Descent(m)
    PROVE  \A id \in Closure : m[id.start]
<1> DEFINE K == {id \in Seed \cup Seen : m[id.start]}
<1>1. \A s \in r.snaps : IdOf(s).start = s.start /\ IdOf(s).pid = s.pid BY DEF IdOf
<1>2. Seed \subseteq K
  <2>1. \A id \in r.known : m[id.start] BY DEF Descent
  <2>2. \A s \in r.snaps : s.pgid = r.root.pid => m[s.start] BY DEF Descent
  <2>3. m[r.root.start] BY DEF Descent
  <2>4. \A s \in r.snaps : IdOf(s) = r.root \/ s.pgid = r.root.pid => m[IdOf(s).start]
    BY <1>1, <2>2, <2>3
  <2>5. \A id \in Seed : m[id.start] BY <2>1, <2>4 DEF Seed
  <2> QED BY <2>5
<1>3. Children(K) \subseteq K
  <2> SUFFICES ASSUME NEW s \in r.snaps, NEW k \in K, s.ppid = k.pid, NEW u \in r.snaps,
                      IdOf(u) = k
               PROVE  IdOf(s) \in K
    BY DEF Children
  <2>1. s.ppid = u.pid /\ m[u.start] BY <1>1
  <2>2. m[s.start] BY <2>1 DEF Descent
  <2> QED BY <1>1, <2>2 DEF Seen
<1>4. K \subseteq Seed \cup Seen OBVIOUS
<1>5. Closure \subseteq K
  <2> HIDE DEF K
  <2> QED BY <1>2, <1>3, <1>4, ClosureIsLeast
<1> QED BY <1>5

(* Whoever is known after a sample was started, and is the root if he has    *)
(* its identifier while it is not reaped.                                    *)
LEMMA ClosureTyped ==
    ASSUME Typed, Started, Sampled
    PROVE  /\ Closure \subseteq Identity /\ r.known \subseteq Closure
           /\ \A id \in Closure : id.pid \in Pid /\ id.start \in 1 .. births
           /\ \A X : EscapedOf(X) \subseteq X
           /\ LiveGroup \subseteq Closure
           /\ ~r.reaped => \A id \in Closure : id.pid = r.root.pid => id = r.root
<1>1. \A s \in r.snaps : /\ IdOf(s) \in Identity /\ IdOf(s).pid = s.pid /\ IdOf(s).start = s.start
                         /\ s.pid \in Pid /\ s.start \in 1 .. births
                         /\ ~r.reaped /\ s.pid = r.root.pid => IdOf(s) = r.root
  BY DEF IdOf, Identity, Record, Typed, RunTyped, Sampled
<1>2. Closure \subseteq r.known \cup Seen BY ClosureIsLeast
<1>3. r.known \subseteq Identity /\ \A id \in r.known : id.pid \in Pid /\ id.start \in 1 .. births
      /\ (~r.reaped => \A k \in r.known : k.pid = r.root.pid => k = r.root)
  BY DEF Typed, RunTyped, Started
<1>4. r.known \subseteq Closure BY ClosureIsLeast
<1>5. LiveGroup \subseteq Seed BY DEF LiveGroup, Seed
<1>6. \A X : EscapedOf(X) \subseteq X BY DEF EscapedOf
<1>7. LiveGroup \subseteq Closure BY <1>5, ClosureIsLeast
<1> QED BY <1>1, <1>2, <1>3, <1>4, <1>6, <1>7 DEF Seen

(* After the root was reaped: a sample in which nobody had left the group    *)
(* and nobody ran in it saw nobody of those known running.  A process that   *)
(* took over the root's identifier would count for neither, but its parent   *)
(* is not in the group then, and counts.                                     *)
LEMMA SampleShowsAll ==
    ASSUME RunnerInv, r.pc = "scan", r.scan = {}, r.reaped, EscapedOf(Closure) = {},
           LiveGroup \ {r.root} = {}, NEW id \in Closure
    PROVE  ~IsLive(id)
<1>a. /\ Typed /\ Rooted /\ Placed /\ Started /\ Sampled BY DEF RunnerInv
<1>b. \A s \in r.snaps : IdOf(s).start = s.start /\ IdOf(s).pid = s.pid BY DEF IdOf
<1> SUFFICES ASSUME IsLive(id) PROVE FALSE
  OBVIOUS
<1>1. r.known = r.before /\ id \in Identity /\ id.pid \in Pid
  BY <1>a, ClosureTyped DEF Placed
<1>2. id # r.root
  BY <1>a, <1>1 DEF Rooted, IsLive, There, Id, Typed, RunTyped, Identity
<1>3. PICK s \in r.snaps : IdOf(s) = id
  <2>1. id \in r.known \cup Seen BY ClosureIsLeast
  <2> QED BY <1>a, <2>1 DEF Sampled, Seen
<1>4. s.live
  BY <1>a, <1>b, <1>3 DEF Sampled, IsLive
<1>5. s.pgid # r.root.pid BY <1>2, <1>3, <1>4 DEF LiveGroup
<1>6. s.pid = r.root.pid BY <1>3, <1>5 DEF EscapedOf
<1>7. id \notin r.known BY <1>a, <1>b, <1>1, <1>2, <1>3, <1>6 DEF Started
<1> DEFINE K == Closure \ {id}
<1>8. Seed \subseteq K
  <2>1. ASSUME NEW u \in r.snaps, IdOf(u) = id PROVE u = s BY <1>a, <1>b, <1>3, <2>1 DEF Sampled
  <2>2. id \notin Seed BY <1>2, <1>5, <1>7, <2>1 DEF Seed
  <2> QED BY <2>2, ClosureIsLeast
<1>9. Children(K) \subseteq K
  <2>1. Children(K) \subseteq Closure
    <3>1. Children(K) \subseteq Children(Closure) BY DEF Children
    <3> QED BY <3>1, ClosureIsLeast
  <2>2. ASSUME id \in Children(K) PROVE FALSE
    <3>1. PICK t \in r.snaps : IdOf(t) = id /\ \E k \in K :
                 t.ppid = k.pid /\ \E u \in r.snaps : IdOf(u) = k
      BY <2>2 DEF Children
    <3>2. PICK u \in r.snaps : IdOf(u) \in K /\ t.ppid = IdOf(u).pid BY <3>1
    <3>3. t = s BY <1>a, <1>b, <1>3, <3>1 DEF Sampled
    <3>4. u.pgid # r.root.pid /\ u.pid # r.root.pid
      BY <1>a, <1>b, <1>5, <1>6, <3>2, <3>3 DEF Sampled
    <3>5. IdOf(u) \in EscapedOf(Closure) BY <3>2, <3>4 DEF EscapedOf
    <3> QED BY <3>5
  <2> QED BY <2>1, <2>2
<1>10. K \subseteq Seed \cup Seen BY ClosureIsLeast
<1>11. Closure \subseteq K
  <2> HIDE DEF K
  <2> QED BY <1>8, <1>9, <1>10, ClosureIsLeast
<1> QED BY <1>11

(* Who was known and still runs in the root's group is seen in it.           *)
LEMMA LeftoversSeen ==
    ASSUME RunnerInv, r.pc = "scan", r.scan = {}, r.reaped, NEW id \in r.before, IsLive(id),
           proc[id.pid].pgid = r.root.pid
    PROVE  id \in LiveGroup \ {r.root}
<1>a. /\ Typed /\ Rooted /\ Placed /\ Started /\ Sampled BY DEF RunnerInv
<1>1. id \in r.known /\ id \in Identity BY <1>a DEF Placed, Typed, RunTyped
<1>2. id # r.root
  BY <1>a, <1>1 DEF Rooted, IsLive, There, Id, Typed, RunTyped, Identity
<1>3. id.pid # r.root.pid BY <1>a, <1>2 DEF Started
<1>4. PICK s \in r.snaps : IdOf(s) = id /\ s.live BY <1>a, <1>1 DEF Sampled
<1>5. s.pid = id.pid /\ There(s.pid) BY <1>4 DEF IdOf, IsLive, There
<1>6. s.pgid = r.root.pid BY <1>a, <1>3, <1>5 DEF Sampled
<1> QED BY <1>2, <1>4, <1>6 DEF LiveGroup

(* A step that takes a sample in.                                            *)
Takes ==
    /\ UNCHANGED <<proc, births, expired, faults, killed>> /\ RunTyped'
    /\ r.pc = "scan" /\ r.scan = {} /\ r'.pc \in {"group", "poll", "kill", "finish"}
    /\ r'.root = r.root /\ r'.reaped = r.reaped /\ r'.before = r.before /\ r'.snaps = {}
    /\ r'.outcome = r.outcome /\ r'.target = r.target /\ r'.known = Closure
    /\ \/ ~r.reaped /\ r'.escaped = EscapedOf(Closure)
          /\ (r'.todo = r.todo \/ r'.todo = EscapedOf(Closure))
       \/ r.reaped /\ r'.escaped \subseteq r.escaped \cup Closure
          /\ (r'.todo = r.todo \/ r'.todo \subseteq r.before)

(* What is known then is of the descent of the root, as the sample shows.    *)
LEMMA TakesKeeps ==
    ASSUME RunnerInv, Takes, Placed', Quiet', Dealt'
    PROVE  RunnerInv'
<1>a. /\ Typed /\ Table /\ Rooted /\ Placed /\ Started /\ Sampled /\ RunTyped
  BY DEF RunnerInv, Typed
<1>b. /\ UNCHANGED <<proc, births, expired, faults, killed>> /\ RunTyped'
      /\ r.pc = "scan" /\ r.scan = {} /\ r'.pc \in {"group", "poll", "kill", "finish"}
      /\ r'.root = r.root /\ r'.reaped = r.reaped /\ r'.before = r.before /\ r'.snaps = {}
      /\ r'.outcome = r.outcome /\ r'.known = Closure
      /\ \/ ~r.reaped /\ r'.escaped = EscapedOf(Closure)
            /\ (r'.todo = r.todo \/ r'.todo = EscapedOf(Closure))
         \/ r.reaped /\ r'.escaped \subseteq r.escaped \cup Closure
            /\ (r'.todo = r.todo \/ r'.todo \subseteq r.before)
  BY DEF Takes
<1>c. /\ Closure \subseteq Identity /\ r.known \subseteq Closure
      /\ \A id \in Closure : id.pid \in Pid /\ id.start \in 1 .. births
      /\ EscapedOf(Closure) \subseteq Closure
      /\ ~r.reaped => \A id \in Closure : id.pid = r.root.pid => id = r.root
  BY <1>a, ClosureTyped
<1>d. r.before \subseteq r.known /\ r.outcome = "none" /\ r.root # NoId
  BY <1>a, <1>b DEF Typed, Placed, Rooted
<1>1. Typed' BY <1>a, <1>b, <1>c, <1>d DEF Typed
<1>2. Table' BY <1>a, <1>b DEF Table, There
<1>3. Rooted' BY <1>a, <1>b, <1>d DEF Rooted, There, Id
<1>4. Started' BY <1>a, <1>b, <1>c, <1>d DEF Started
<1>5. Waned /\ SampleKept BY <1>b DEF Waned, SampleKept
<1>6. Sampled' BY <1>b, <1>5, WanedSampled
<1>7. Descended'
  <2> SUFFICES ASSUME NEW m \in [0 .. MaxBirths -> BOOLEAN], Descent(m)
               PROVE  /\ \A id \in r'.before \cup r'.todo \cup killed' : m[id.start]
                      /\ ~r'.reaped => \A id \in r'.known \cup r'.escaped : m[id.start]
    BY <1>5, WanedDescended
  <2>1. ~r.reaped => \A id \in Closure : m[id.start] BY <1>a, <1>d, ClosureDescends
  <2>2. \A id \in r.before \cup r.todo \cup killed : m[id.start] BY DEF Descent
  <2> QED BY <1>b, <1>c, <2>1, <2>2
<1>8. RootNotLeft' BY <1>b DEF RootNotLeft
<1> QED BY <1>1, <1>2, <1>3, <1>4, <1>6, <1>7, <1>8 DEF RunnerInv

(* A sample of the loop: the root goes on, or everybody known is to be killed. *)
LEMMA ObserveKeeps == ASSUME RunnerInv, Observe PROVE RunnerInv'
<1>a. /\ Typed /\ Rooted /\ Placed /\ Started /\ Sampled /\ RunTyped BY DEF RunnerInv, Typed
<1>1. r.pc = "scan" /\ r.scan = {} /\ UNCHANGED <<proc, births, expired, faults, killed>>
  BY DEF Observe, Go
<1>2. /\ r.outcome = "none" /\ ~r.reaped /\ r.final = "no" /\ r.target = NoId
      /\ r.reason # "daemonization"
  BY <1>a, <1>1 DEF Placed, Observe
<1>3. /\ Closure \subseteq Identity /\ EscapedOf(Closure) \subseteq Closure
      /\ \A id \in Closure : id.pid \in Pid
  BY <1>a, ClosureTyped
<1>4. EscapedOf(Closure) \subseteq Identity BY <1>3
<1> DEFINE Chosen ==
      /\ r'.root = r.root /\ r'.reaped = r.reaped /\ r'.before = r.before
      /\ r'.snaps = {} /\ r'.outcome = r.outcome /\ r'.target = r.target /\ r'.known = Closure
      /\ r'.escaped = EscapedOf(Closure) /\ r'.final = r.final
      /\ \/ /\ r'.pc = "group" /\ r'.reason = "process-group-escape"
            /\ r'.todo = EscapedOf(Closure)
         \/ r'.pc = "poll" /\ r'.reason = r.reason /\ r'.todo = r.todo
<1>5. RunTyped' /\ Chosen
  <2>1. \/ r' = [r EXCEPT !.known = Closure, !.escaped = EscapedOf(Closure), !.snaps = {},
                          !.pc = "group", !.reason = "process-group-escape",
                          !.todo = EscapedOf(Closure)]
        \/ r' = [r EXCEPT !.known = Closure, !.escaped = EscapedOf(Closure), !.snaps = {},
                          !.pc = "poll"]
    <3> HIDE DEF RunnerInv
    <3> QED BY <1>a DEF Observe, Go, RunTyped
  <2>2. CASE r' = [r EXCEPT !.known = Closure, !.escaped = EscapedOf(Closure), !.snaps = {},
                            !.pc = "poll"]
    <3>1. RunTyped' BY <1>3, <1>4, <1>a, <2>2 DEF RunTyped, Places
    <3>2. Chosen BY <1>a, <2>2 DEF RunTyped
    <3> QED BY <3>1, <3>2
  <2>3. CASE r' = [r EXCEPT !.known = Closure, !.escaped = EscapedOf(Closure), !.snaps = {},
                            !.pc = "group", !.reason = "process-group-escape",
                            !.todo = EscapedOf(Closure)]
    <3>1. RunTyped' BY <1>3, <1>4, <1>a, <2>3 DEF RunTyped, Places, Reasons
    <3>2. Chosen BY <1>a, <2>3 DEF RunTyped
    <3> QED BY <3>1, <3>2
  <2> QED BY <2>1, <2>2, <2>3
<1>6. Takes BY <1>1, <1>2, <1>5 DEF Takes
<1>7. Placed'
  <2>1. \A k \in r'.todo : k.pid # NoId.pid
    BY <1>a, <1>3, <1>5, RunnerAssumption DEF Started, NoId
  <2> QED BY <1>a, <1>1, <1>2, <1>5, <2>1 DEF Placed
<1>8. Quiet' /\ Dealt' BY <1>2, <1>5 DEF Quiet, Dealt
<1> QED BY <1>6, <1>7, <1>8, TakesKeeps

(* The sample after the root was reaped ends the run, with a result only     *)
(* when it shows nobody, and otherwise lists who is to be killed.            *)
LEMMA LastObserveKeeps == ASSUME RunnerInv, FinalObserve \/ TimeoutObserve PROVE RunnerInv'
<1>a. /\ Typed /\ Rooted /\ Placed /\ Started /\ Sampled /\ RunTyped BY DEF RunnerInv, Typed
<1>1. r.pc = "scan" /\ r.scan = {} /\ UNCHANGED <<proc, births, expired, faults, killed>>
      /\ r.final \in {"exited", "timeout"}
  BY DEF FinalObserve, TimeoutObserve, Go
<1>2. r.outcome = "none" /\ r.reaped /\ r.target = NoId
  BY <1>a, <1>1 DEF Placed
<1>3. /\ Closure \subseteq Identity /\ EscapedOf(Closure) \subseteq Closure
      /\ \A id \in Closure : id.pid \in Pid
  BY <1>a, ClosureTyped
<1> DEFINE E == EscapedOf(Closure)
           L == LiveGroup \ {r.root}
<1> DEFINE Chosen ==
         /\ r'.root = r.root /\ r'.reaped = r.reaped /\ r'.before = r.before
         /\ r'.snaps = {} /\ r'.outcome = r.outcome /\ r'.target = r.target /\ r'.known = Closure
         /\ r'.escaped \subseteq r.escaped \cup Closure
         /\ \/ r'.pc = "finish" /\ E = {} /\ L = {} /\ r'.todo = r.todo /\ r'.final = r.final
               /\ r'.reason = r.reason
            \/ /\ r'.pc = "kill" /\ r'.todo \subseteq r.before
               /\ \/ r'.final = "raise" /\ r'.reason = r.reason
                  \/ r'.final = "exited" /\ r'.reason = "process-group-escape"
                  \/ /\ r'.final = "exited" /\ r'.reason = "daemonization"
                     /\ r'.todo = L \cap r.before
<1>4. RunTyped' /\ Chosen
  <2>1. E \subseteq Identity /\ r.before \subseteq Identity BY <1>3, <1>a DEF RunTyped
  <2>2. CASE FinalObserve
    <3>1. \/ /\ r' = [r EXCEPT !.known = Closure, !.escaped = E, !.snaps = {}, !.pc = "kill",
                               !.reason = "process-group-escape", !.todo = E \cap r.before]
             /\ r.final = "exited"
          \/ /\ r' = [r EXCEPT !.known = Closure, !.escaped = E, !.snaps = {}, !.pc = "kill",
                               !.reason = "daemonization", !.todo = L \cap r.before]
             /\ r.final = "exited"
          \/ /\ r' = [r EXCEPT !.known = Closure, !.escaped = E, !.snaps = {}, !.pc = "finish"]
             /\ E = {} /\ L = {}
      BY <1>a, <2>2 DEF FinalObserve, Go, RunTyped, Killable
    <3> HIDE DEF E, L
    <3>2. E \subseteq Closure BY <1>3 DEF E
    <3>3. E \cap r.before \in SUBSET Identity /\ L \cap r.before \in SUBSET Identity
          /\ E \cap r.before \subseteq r.before /\ L \cap r.before \subseteq r.before
      BY <2>1
    <3>4. CASE /\ r' = [r EXCEPT !.known = Closure, !.escaped = E, !.snaps = {}, !.pc = "kill",
                                 !.reason = "process-group-escape", !.todo = E \cap r.before]
               /\ r.final = "exited"
      <4>1. RunTyped' BY <1>3, <1>a, <2>1, <3>3, <3>4 DEF RunTyped, Places, Reasons
      <4>2. Chosen BY <1>a, <3>2, <3>3, <3>4 DEF RunTyped
      <4> QED BY <4>1, <4>2
    <3>5. CASE /\ r' = [r EXCEPT !.known = Closure, !.escaped = E, !.snaps = {}, !.pc = "kill",
                                 !.reason = "daemonization", !.todo = L \cap r.before]
               /\ r.final = "exited"
      <4>1. RunTyped' BY <1>3, <1>a, <2>1, <3>3, <3>5 DEF RunTyped, Places, Reasons
      <4>2. Chosen BY <1>a, <3>2, <3>3, <3>5 DEF RunTyped
      <4> QED BY <4>1, <4>2
    <3>6. CASE /\ r' = [r EXCEPT !.known = Closure, !.escaped = E, !.snaps = {}, !.pc = "finish"]
               /\ E = {} /\ L = {}
      <4>1. RunTyped' BY <1>3, <1>a, <2>1, <3>6 DEF RunTyped, Places
      <4>2. Chosen BY <1>a, <3>2, <3>6 DEF RunTyped
      <4> QED BY <4>1, <4>2
    <3> QED BY <3>1, <3>4, <3>5, <3>6
  <2>3. CASE TimeoutObserve
    <3>1. \/ /\ r' = [r EXCEPT !.known = Closure, !.snaps = {}, !.pc = "finish"]
             /\ E = {} /\ L = {}
          \/ \E T \in SUBSET r.before :
                r' = [r EXCEPT !.known = Closure, !.snaps = {}, !.pc = "kill", !.final = "raise",
                               !.todo = T]
      BY <1>a, <2>3 DEF TimeoutObserve, Go, RunTyped, Killable
    <3> HIDE DEF E, L
    <3>2. CASE r' = [r EXCEPT !.known = Closure, !.snaps = {}, !.pc = "finish"]
               /\ E = {} /\ L = {}
      <4>1. RunTyped' BY <1>3, <1>a, <3>2 DEF RunTyped, Places
      <4>2. Chosen BY <1>a, <3>2 DEF RunTyped
      <4> QED BY <4>1, <4>2
    <3>3. ASSUME NEW T \in SUBSET r.before,
                 r' = [r EXCEPT !.known = Closure, !.snaps = {}, !.pc = "kill",
                                !.final = "raise", !.todo = T]
          PROVE  RunTyped' /\ Chosen
      <4>1. T \in SUBSET Identity BY <2>1
      <4>2. RunTyped' BY <1>3, <1>a, <3>3, <4>1 DEF RunTyped, Places
      <4>3. Chosen BY <1>a, <3>3 DEF RunTyped
      <4> QED BY <4>2, <4>3
    <3> QED BY <3>1, <3>2, <3>3
  <2> QED BY <2>2, <2>3
<1>5. Takes BY <1>1, <1>2, <1>4 DEF Takes
<1>6. Placed'
  <2>1. \A k \in r'.todo : k.pid # NoId.pid
    <3>1. \A k \in r.todo \cup r.known : k.pid # NoId.pid
      BY <1>a, RunnerAssumption DEF Started, NoId
    <3> QED BY <1>a, <1>4, <3>1 DEF Typed
  <2> HIDE DEF E, L
  <2> QED BY <1>a, <1>1, <1>2, <1>4, <2>1 DEF Placed
<1>7. Quiet'
  <2>1. E = {} /\ L = {} => \A id \in Closure : ~IsLive(id)
    BY <1>1, <1>2, SampleShowsAll
  <2> HIDE DEF E, L
  <2>2. \A id \in Closure : IsLive(id)' <=> IsLive(id) BY <1>1 DEF IsLive
  <2> QED BY <1>2, <1>4, <2>1, <2>2 DEF Quiet
<1>8. Dealt'
  <2>1. \A id \in r.before : IsLive(id) /\ proc[id.pid].pgid = r.root.pid => id \in L
    BY <1>1, <1>2, LeftoversSeen
  <2> HIDE DEF E, L
  <2>2. r'.reason = "daemonization" => r'.pc = "kill" /\ r'.todo = L \cap r.before
    <3>1. r.reason # "daemonization" BY <1>a, <1>1 DEF Placed
    <3> QED BY <1>4, <3>1
  <2>3. \A id \in r.before : IsLive(id)' <=> IsLive(id) BY <1>1 DEF IsLive
  <2> QED BY <1>1, <1>2, <1>4, <2>1, <2>2, <2>3 DEF Dealt
<1> QED BY <1>5, <1>6, <1>7, <1>8, TakesKeeps
-----------------------------------------------------------------------------
(* Before the call has started a process nothing is known and nobody killed. *)
LEMMA RunnerInit == ASSUME Init PROVE RunnerInv
<1> USE RunnerAssumption DEF Init
<1>1. Typed
  <2>1. NoId \in Identity /\ Gone \in Process BY DEF NoId, Identity, Gone, Process
  <2>2. RunTyped BY <2>1 DEF RunTyped, Idle, Places, Reasons
  <2> QED BY <2>1, <2>2 DEF Typed, Idle
<1>2. \A p \in Pid : proc[p] = Gone /\ ~There(p) BY DEF There, Gone
<1>3. Table BY <1>2 DEF Table
<1>4. r = Idle /\ r.root = NoId /\ r.pc = "spawn" /\ ~r.reaped /\ r.outcome = "none"
      /\ r.known = {} /\ r.before = {} /\ r.todo = {} /\ r.escaped = {} /\ r.snaps = {}
      /\ r.reason = "exited" /\ r.final = "no" /\ r.target = NoId /\ killed = {}
  BY DEF Idle
<1>5. Rooted BY <1>4 DEF Rooted
<1>6. Placed BY <1>4 DEF Placed
<1>7. Started /\ Sampled BY <1>4 DEF Started, Sampled
<1>8. Descended
  <2> DEFINE m == [k \in 0 .. MaxBirths |-> FALSE]
  <2>1. m \in [0 .. MaxBirths -> BOOLEAN] OBVIOUS
  <2>2. Descent(m) BY <1>2, <1>4 DEF Descent
  <2> QED BY <2>1, <2>2 DEF Descended
<1>9. Quiet /\ Dealt /\ RootNotLeft BY <1>4 DEF Quiet, Dealt, RootNotLeft
<1> QED BY <1>1, <1>3, <1>5, <1>6, <1>7, <1>8, <1>9 DEF RunnerInv

(* Every step of the call and of the processes keeps the invariant. *)
LEMMA RunnerStep == ASSUME RunnerInv, [Next]_vars PROVE RunnerInv'
<1>1. CASE Processes \/ Die \/ TimePasses \/ UNCHANGED vars BY <1>1, EnvironmentKeeps
<1>2. CASE RefuseArguments \/ RefuseHost BY <1>2, RefusalKeeps
<1>3. CASE Spawn BY <1>3, SpawnKeeps
<1>4. CASE Capture BY <1>4, CaptureKeeps
<1>5. CASE List BY <1>5, ListKeeps
<1>6. CASE ReadStat BY <1>6, ReadStatKeeps
<1>7. CASE Observe BY <1>7, ObserveKeeps
<1>8. CASE FinalObserve \/ TimeoutObserve BY <1>8, LastObserveKeeps
<1>9. CASE Poll
  <2>1. CASE proc[r.root.pid].state = "live" BY <1>9, <2>1, PollLiveKeeps
  <2>2. CASE proc[r.root.pid].state # "live" BY <1>9, <2>2, PollReapKeeps
  <2> QED BY <2>1, <2>2
<1>10. CASE KillGroup BY <1>10, KillGroupKeeps
<1>11. CASE OpenPidfd BY <1>11, OpenPidfdKeeps
<1>12. CASE Signal BY <1>12, SignalKeeps
<1>13. CASE Wait
  <2>1. CASE r.reaped BY <1>13, <2>1, WaitedKeeps
  <2>2. CASE ~r.reaped BY <1>13, <2>2, WaitReapKeeps
  <2> QED BY <2>1, <2>2
<1>14. CASE WaitExpires BY <1>14, WaitedKeeps
<1>15. CASE Raise
  <2>1. CASE r.reaped \/ r.final = "raising" \/ proc[r.root.pid].state = "live"
    BY <1>15, <2>1, RaiseKeeps
  <2>2. CASE ~r.reaped /\ r.final # "raising" /\ proc[r.root.pid].state # "live"
    BY <1>15, <2>2, RaiseReapKeeps
  <2> QED BY <2>1, <2>2
<1>16. CASE Finish \/ Measure BY <1>16, ReportKeeps
<1>17. CASE SpawnRaises BY <1>17, SpawnRaisesKeeps
<1>18. CASE Interrupted BY <1>18, InterruptedKeeps
<1> QED
  BY <1>1, <1>2, <1>3, <1>4, <1>5, <1>6, <1>7, <1>8, <1>9, <1>10, <1>11, <1>12, <1>13, <1>14,
     <1>15, <1>16, <1>17, <1>18 DEF Next, Runner

(* The inductive invariant of run_provisional_process. *)
THEOREM RunnerInvariant == Spec => []RunnerInv
<1>1. Init => RunnerInv BY RunnerInit
<1>2. RunnerInv /\ [Next]_vars => RunnerInv' BY RunnerStep
<1> QED BY <1>1, <1>2, PTL DEF Spec

(* Every local variable of the call and the process table keep their types.  *)
THEOREM TypeCorrect == Spec => []TypeOK
<1>1. RunnerInv => TypeOK
  BY DEF RunnerInv, Typed, RunTyped, TypeOK, Process
<1> QED BY <1>1, RunnerInvariant, PTL

(* Whoever _send_identity_sigkill or the kill of the group reaches descends  *)
(* from the measured process, whatever identifiers are used again meanwhile. *)
THEOREM OnlyMeasuredKilledHolds == Spec => []OnlyMeasuredKilled
<1>1. RunnerInv => OnlyMeasuredKilled
  <2> SUFFICES ASSUME RunnerInv, NEW p \in Pid, Id(p) \in killed PROVE proc[p].measured
    BY DEF OnlyMeasuredKilled
  <2>1. PICK m \in [0 .. MaxBirths -> BOOLEAN] : Descent(m) BY DEF RunnerInv, Descended
  <2>2. m[proc[p].start] BY <2>1 DEF Descent, Id
  <2>3. proc[p].start \in 1 .. births BY DEF RunnerInv, Started, Id
  <2>4. There(p)
    <3>1. proc[p] # Gone BY <2>3, RunnerAssumption DEF Gone, RunnerInv, Typed
    <3> QED BY <3>1 DEF RunnerInv, Table
  <2> QED BY <2>1, <2>2, <2>4 DEF Descent
<1> QED BY <1>1, RunnerInvariant, PTL

(* A result is returned only when the last sample showed that none of the    *)
(* processes the call knew of runs.                                          *)
THEOREM ResultMeansQuietHolds == Spec => []ResultMeansQuiet
<1>1. RunnerInv => ResultMeansQuiet BY DEF RunnerInv, Quiet, ResultMeansQuiet
<1> QED BY <1>1, RunnerInvariant, PTL

(* However the call ends, by a result or through its except clause, the      *)
(* process it started has ended or was sent SIGKILL, with two exceptions:    *)
(* Popen was interrupted after the fork, or a second failure hit the except  *)
(* clause before the group was signalled.                                    *)
THEOREM RootNotLeftHolds == Spec => []RootNotLeft
<1>1. RunnerInv => RootNotLeft BY DEF RunnerInv
<1> QED BY <1>1, RunnerInvariant, PTL

(* The run that reports leftovers of the group has killed those of them that *)
(* it knew before the root had ended; one it sees for the first time in the  *)
(* last sample is reported and not killed.                                   *)
THEOREM LeftoversKilledHolds == Spec => []LeftoversKilled
<1>1. RunnerInv => LeftoversKilled BY DEF RunnerInv, Dealt, LeftoversKilled
<1> QED BY <1>1, RunnerInvariant, PTL
=============================================================================
