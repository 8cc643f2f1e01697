---------------------------- MODULE ProcessRunner -----------------------------
(* competitive_runner.py: run_provisional_process starts one process in a    *)
(* session of its own and samples /proc until it ends, leaves its process    *)
(* group, or the time is up.  Processes fork, exit, move to sessions of      *)
(* their own and are replaced by strangers with the same identifier while a  *)
(* sample is read; a process is known by its identifier and start time, and  *)
(* only a process known to belong to the measurement may be killed.          *)
EXTENDS Naturals, FiniteSets

CONSTANTS
    Pid,         \* process identifiers, read in ascending order
    MaxBirths,   \* bound on the processes ever started: also the clock of start times
    MaxFaults    \* bound on the system calls that fail

ASSUME RunnerAssumption == Pid \subseteq Nat \ {0} /\ MaxBirths \in Nat /\ MaxFaults \in Nat

VARIABLES
    proc,        \* the process table
    births,      \* processes started so far
    r,           \* run_provisional_process: program counter and local variables
    expired,     \* the deadline has passed
    faults,      \* system calls that failed
    killed       \* history: the processes there are that were sent SIGKILL

vars == <<proc, births, r, expired, faults, killed>>

(* measured is history: the process descends from the one that was started.  *)
Gone == [state |-> "none", start |-> 0, ppid |-> 0, pgid |-> 0, measured |-> FALSE]
NoId == [pid |-> 0, start |-> 0]
Id(p) == [pid |-> p, start |-> proc[p].start]
IsLive(id) == id # NoId /\ proc[id.pid].state = "live" /\ proc[id.pid].start = id.start

Reasons == {"exited", "timeout", "process-group-escape", "daemonization"}

(* scan: identifiers of the sample still to be read; snaps: the records read *)
(* of it; before: what was known before the root was reaped or killed; todo: *)
(* identities still to be killed; target: the process a pidfd is bound to;   *)
(* lost (history): what kept the except clause from killing the root.        *)
Idle == [pc |-> "spawn", root |-> NoId, known |-> {}, scan |-> {}, snaps |-> {}, before |-> {},
         todo |-> {}, target |-> NoId, final |-> "no", reaped |-> FALSE, reason |-> "exited",
         failed |-> FALSE, escaped |-> {}, lost |-> "none", outcome |-> "none"]

Go(next) == r' = next /\ UNCHANGED <<proc, births, expired, faults, killed>>

-----------------------------------------------------------------------------
(* Processes.  An identifier is not taken again while a process group still  *)
(* has it, nor within the reading of one sample.                             *)

Available(q) ==
    /\ proc[q].state = "none" /\ \A p \in Pid : proc[p].pgid # q \/ proc[p].state = "none"
    /\ q \notin r.scan \cup {s.pid : s \in r.snaps}

Born(q, parent, group, measured) ==
    /\ Available(q) /\ births < MaxBirths /\ births' = births + 1
    /\ proc' = [proc EXCEPT ![q] = [state |-> "live", start |-> births + 1, ppid |-> parent,
                                    pgid |-> group, measured |-> measured]]

Fork(p, q) == proc[p].state = "live" /\ Born(q, p, proc[p].pgid, proc[p].measured)

Stranger(q) == Born(q, 0, q, FALSE)

SetSid(p) ==
    /\ proc[p].state = "live" /\ proc[p].measured
    /\ \A q \in Pid : proc[q].state # "none" => proc[q].pgid # p
    /\ proc' = [proc EXCEPT ![p].pgid = p]
    /\ UNCHANGED births

(* The children go to init, which reaps them; a zombie stays until its       *)
(* parent reaps it.                                                          *)
Ended(p) ==
    LET kept == Id(p) = r.root \/ proc[p].ppid # 0 IN
    [q \in Pid |->
        IF q = p THEN IF kept THEN [proc[p] EXCEPT !.state = "zombie"] ELSE Gone
        ELSE IF proc[q].ppid = p /\ proc[q].state = "zombie" THEN Gone
        ELSE IF proc[q].ppid = p THEN [proc[q] EXCEPT !.ppid = 0] ELSE proc[q]]

Exit(p) == proc[p].state = "live" /\ proc' = Ended(p) /\ UNCHANGED births

Reap(p) ==
    /\ proc[p].state = "zombie" /\ proc[p].ppid # 0
    /\ proc' = [proc EXCEPT ![p] = Gone] /\ UNCHANGED births

Present(ids) == {id \in ids : proc'[id.pid].state # "none" /\ proc'[id.pid].start = id.start}

Processes ==
    /\ r.pc \notin {"spawn", "done"}
    /\ \E p \in Pid : Exit(p) \/ Reap(p) \/ SetSid(p) \/ Stranger(p) \/ (\E q \in Pid : Fork(p, q))
    /\ killed' = Present(killed)
    /\ UNCHANGED <<r, expired, faults>>

(* A process that was sent SIGKILL ends. *)
Die ==
    /\ \E p \in Pid : Id(p) \in killed /\ Exit(p)
    /\ killed' = Present(killed)
    /\ UNCHANGED <<r, expired, faults>>

TimePasses == ~expired /\ expired' = TRUE /\ UNCHANGED <<proc, births, r, faults, killed>>

-----------------------------------------------------------------------------
(* The call. *)

Failing == faults < MaxFaults /\ faults' = faults + 1

(* Arguments, environment and host are looked at before anything starts.     *)
RefuseArguments == r.pc = "spawn" /\ Go([r EXCEPT !.pc = "done", !.outcome = "refused"])

RefuseHost == r.pc = "spawn" /\ Go([r EXCEPT !.pc = "done", !.outcome = "refused host"])

Spawn ==
    /\ r.pc = "spawn"
    /\ \E q \in Pid :
          /\ Born(q, 0, q, TRUE)
          /\ r' = [r EXCEPT !.pc = "capture", !.root = [pid |-> q, start |-> births + 1]]
    /\ UNCHANGED <<expired, faults, killed>>

(* Popen raises before the fork, or after it and before its object is bound  *)
(* to `process`: the except clause then has nothing to kill.                 *)
SpawnRaises ==
    /\ r.pc = "spawn" /\ Failing
    /\ \/ r' = [r EXCEPT !.pc = "done", !.outcome = "error"] /\ UNCHANGED <<proc, births>>
       \/ \E q \in Pid :
             /\ Born(q, 0, q, TRUE)
             /\ r' = [r EXCEPT !.pc = "done", !.outcome = "error", !.lost = "spawn",
                               !.root = [pid |-> q, start |-> births + 1]]
    /\ UNCHANGED <<expired, killed>>

(* _capture_process_identity: the executable of a zombie cannot be read. *)
Capture ==
    /\ r.pc = "capture"
    /\ IF IsLive(r.root) THEN Go([r EXCEPT !.pc = "list"]) ELSE Go([r EXCEPT !.pc = "raise"])

(* _read_proc_snapshots: the identifiers at one moment, then the record of   *)
(* each one that still exists when its turn comes.                           *)
List ==
    /\ r.pc = "list"
    /\ Go([r EXCEPT !.pc = "scan", !.snaps = {}, !.scan = {p \in Pid : proc[p].state # "none"}])

Snap(p) == [pid |-> p, start |-> proc[p].start, ppid |-> proc[p].ppid, pgid |-> proc[p].pgid,
            live |-> proc[p].state = "live"]

ReadStat ==
    /\ r.pc = "scan" /\ r.scan # {}
    /\ \E p \in r.scan :
          /\ \A q \in r.scan : p <= q
          /\ Go([r EXCEPT !.scan = @ \ {p},
                          !.snaps = IF proc[p].state = "none" THEN @ ELSE @ \cup {Snap(p)}])

IdOf(s) == [pid |-> s.pid, start |-> s.start]

(* _observe_processes: what was known, the root and its group, and the       *)
(* children of those present.                                                *)
Seed == r.known \cup {IdOf(s) : s \in {t \in r.snaps : IdOf(t) = r.root \/ t.pgid = r.root.pid}}

Children(known) ==
    known \cup {IdOf(s) : s \in {t \in r.snaps :
                   \E k \in known : t.ppid = k.pid /\ \E u \in r.snaps : IdOf(u) = k}}

(* The loop that adds children until nothing changes ends with the least set *)
(* that holds the seed and the children of its members.                      *)
Closure ==
    LET seen == {IdOf(s) : s \in r.snaps}
        closed == {K \in {Seed \cup X : X \in SUBSET seen} : Children(K) \subseteq K}
    IN  {id \in Seed \cup seen : \A K \in closed : id \in K}

EscapedOf(known) ==
    {IdOf(s) : s \in {t \in r.snaps : /\ IdOf(t) \in known
                                      /\ t.pgid # r.root.pid /\ t.pid # r.root.pid}}

LiveGroup == {IdOf(s) : s \in {t \in r.snaps : t.pgid = r.root.pid /\ t.live}}

(* A sample of the loop: somebody left the group, or the root is polled. *)
Observe ==
    /\ r.pc = "scan" /\ r.scan = {} /\ r.final = "no"
    /\ LET known == Closure
           seen == [r EXCEPT !.known = known, !.escaped = EscapedOf(known), !.snaps = {}] IN
       IF EscapedOf(known) # {}
       THEN Go([seen EXCEPT !.pc = "group", !.reason = "process-group-escape",
                            !.todo = EscapedOf(known)])
       ELSE Go([seen EXCEPT !.pc = "poll"])

Poll ==
    /\ r.pc = "poll"
    /\ \/ /\ proc[r.root.pid].state = "zombie"
          /\ proc' = [proc EXCEPT ![r.root.pid] = Gone]
          /\ r' = [r EXCEPT !.pc = "list", !.final = "exited", !.before = r.known, !.reaped = TRUE]
          /\ UNCHANGED <<births, expired, faults, killed>>
       \/ /\ proc[r.root.pid].state = "live"
          /\ IF expired
             THEN Go([r EXCEPT !.pc = "group", !.final = "timeout", !.reason = "timeout",
                               !.before = r.known, !.todo = {}])
             ELSE Go([r EXCEPT !.pc = "list"])

(* The sample after the root was reaped: whoever left the group or stayed in *)
(* it is killed, if he was known while the root could not be replaced.       *)
KillableEscaped(ids) == ids \cap r.escaped   \* faulty: who stayed in the group is left alone

Killable(ids) == ids \cap r.before

FinalObserveOnce ==   \* faulty: the root has ended, and that is that
    r.pc = "scan" /\ r.scan = {} /\ r.final = "exited" /\ Go([r EXCEPT !.pc = "finish"])

FinalObserve ==
    /\ r.pc = "scan" /\ r.scan = {} /\ r.final = "exited"
    /\ LET known == Closure
           escaped == EscapedOf(known)
           leftover == LiveGroup \ {r.root}
           seen == [r EXCEPT !.known = known, !.escaped = escaped, !.snaps = {}] IN
       IF escaped # {}
       THEN Go([seen EXCEPT !.pc = "kill", !.reason = "process-group-escape",
                            !.todo = Killable(escaped)])
       ELSE IF leftover # {}
       THEN Go([seen EXCEPT !.pc = "kill", !.reason = "daemonization",
                            !.todo = Killable(leftover)])
       ELSE Go([seen EXCEPT !.pc = "finish"])

(* The sample after the kill at the deadline; then the call can only raise.  *)
TimeoutObserve ==
    /\ r.pc = "scan" /\ r.scan = {} /\ r.final = "timeout"
    /\ LET known == Closure
           escaped == EscapedOf(known)
           leftover == LiveGroup \ {r.root}
           seen == [r EXCEPT !.known = known, !.snaps = {}] IN
       IF escaped \cup leftover = {} THEN Go([seen EXCEPT !.pc = "finish"])
       ELSE Go([seen EXCEPT !.pc = "kill", !.final = "raise",
                            !.todo = Killable(IF escaped # {} THEN escaped ELSE leftover)])

(* _kill_measured_processes: the group, the escaped ones, and a wait.  It    *)
(* goes on after an error; the loops over what a last sample found, which    *)
(* call _send_identity_sigkill themselves, are left at the first one.        *)
KillGroup ==
    /\ r.pc = "group"
    /\ \/ /\ killed' = killed \cup {Id(p) : p \in {q \in Pid : /\ proc[q].state # "none"
                                                               /\ proc[q].pgid = r.root.pid}}
          /\ r' = [r EXCEPT !.pc = "kill"]
          /\ UNCHANGED faults
       \/ /\ Failing /\ UNCHANGED killed
          /\ r' = [r EXCEPT !.pc = "kill", !.failed = TRUE,
                            !.lost = IF r.final = "raising" THEN "handler" ELSE @]
    /\ UNCHANGED <<proc, births, expired>>

Without(id) == [r EXCEPT !.target = NoId, !.todo = {other \in @ : other.pid # id.pid}]

SendFails(id) ==
    /\ Failing
    /\ r' = IF r.final \in {"exited", "raise"}
            THEN [r EXCEPT !.target = NoId, !.todo = {}, !.pc = "raise"]
            ELSE [Without(id) EXCEPT !.failed = TRUE]
    /\ UNCHANGED <<proc, births, expired, killed>>

(* _send_identity_sigkill: a pidfd holds whoever has the identifier now; the *)
(* start time decides whether the signal is sent.                            *)
OpenPidfd ==
    /\ r.pc = "kill" /\ r.todo # {} /\ r.target = NoId
    /\ \E id \in r.todo :
          \/ proc[id.pid].state = "none" /\ Go(Without(id))
          \/ proc[id.pid].state # "none" /\ Go([r EXCEPT !.target = Id(id.pid)])
          \/ SendFails(id)

SameStart ==   \* faulty: whoever has the identifier is the one that was seen
    r.target \in {Id(id.pid) : id \in r.todo}

IsSame == r.target \in r.todo

(* The start time may be impossible to read, or the signal to send. *)
Signal ==
    /\ r.pc = "kill" /\ r.target # NoId
    /\ \/ ~IsSame /\ Go(Without(r.target))
       \/ IsSame /\ killed' = killed \cup {r.target} /\ r' = Without(r.target)
             /\ UNCHANGED <<proc, births, expired, faults>>
       \/ SendFails(r.target)

(* process.wait reaps the root; after five seconds, or after an error of a   *)
(* signal, the call raises.                                                  *)
Wait ==
    /\ r.pc = "kill" /\ r.todo = {}
    /\ IF r.reaped
       THEN Go([r EXCEPT !.pc = IF r.final = "raise" \/ r.failed THEN "raise" ELSE "finish"])
       ELSE /\ proc[r.root.pid].state = "zombie"
            /\ proc' = [proc EXCEPT ![r.root.pid] = Gone]
            /\ r' = [r EXCEPT !.reaped = TRUE,
                              !.pc = IF r.failed \/ r.final = "raising" THEN "raise"
                                     ELSE IF r.final = "timeout" THEN "list" ELSE "finish"]
            /\ UNCHANGED <<births, expired, faults, killed>>

WaitExpires ==
    /\ r.pc = "kill" /\ r.todo = {} /\ ~r.reaped
    /\ Failing \/ (r.root \notin killed /\ UNCHANGED faults)
    /\ r' = [r EXCEPT !.failed = TRUE, !.pc = "raise"]
    /\ UNCHANGED <<proc, births, expired, killed>>

(* Any statement may raise, KeyboardInterrupt included.  In the loop, and in *)
(* what kills from there, the except clause follows; in that clause itself   *)
(* nothing does, and what was not killed before is not killed any more.      *)
Interrupted ==
    /\ r.pc \notin {"spawn", "done"} /\ Failing
    /\ r' = IF r.pc \in {"raise", "finish"} \/ r.final = "raising"
            THEN [r EXCEPT !.pc = "done", !.outcome = "error", !.todo = {}, !.target = NoId,
                           !.lost = IF r.pc \in {"raise", "group"} THEN "handler" ELSE @]
            ELSE [r EXCEPT !.pc = "raise", !.todo = {}, !.target = NoId]
    /\ UNCHANGED <<proc, births, expired, killed>>

(* The except clause: what still runs is killed, errors of that suppressed.  *)
RaiseOnly ==   \* faulty: the exception is passed on as it is
    r.pc = "raise" /\ Go([r EXCEPT !.pc = "done", !.outcome = "error"])

Raise ==
    /\ r.pc = "raise"
    /\ LET over == [r EXCEPT !.pc = "done", !.outcome = "error"] IN
       \/ /\ ~r.reaped /\ r.final # "raising" /\ proc[r.root.pid].state = "live"
          /\ Go([r EXCEPT !.pc = "group", !.final = "raising", !.todo = r.escaped,
                          !.target = NoId])
       \/ /\ ~r.reaped /\ r.final # "raising" /\ proc[r.root.pid].state = "zombie"
          /\ proc' = [proc EXCEPT ![r.root.pid] = Gone] /\ r' = [over EXCEPT !.reaped = TRUE]
          /\ UNCHANGED <<births, expired, faults, killed>>
       \/ (r.reaped \/ r.final = "raising") /\ Go(over)

Finish ==
    /\ r.pc = "finish"
    /\ Go([r EXCEPT !.pc = "done",
                    !.outcome = IF r.reason \in {"exited", "timeout"} THEN "result" ELSE "isolation"])

(* ProvisionalMeasurement: only a clean exit whose restored payload has the  *)
(* expected digest becomes a measurement.                                    *)
Measure ==
    /\ r.pc = "done" /\ r.outcome = "result"
    /\ \E code \in {0, 1}, restored \in BOOLEAN :
          Go([r EXCEPT !.outcome = IF r.reason = "exited" /\ code = 0 /\ restored
                                   THEN "measured" ELSE "rejected"])

Runner ==
    \/ Measure \/ RefuseArguments \/ RefuseHost \/ Spawn \/ SpawnRaises \/ Capture
    \/ List \/ ReadStat \/ Observe \/ Poll \/ FinalObserve
    \/ TimeoutObserve \/ KillGroup \/ OpenPidfd \/ Signal \/ Wait \/ WaitExpires \/ Raise \/ Finish

Next == Processes \/ Die \/ TimePasses \/ Runner \/ Interrupted

Init ==
    /\ proc = [p \in Pid |-> Gone] /\ births \in 0 .. MaxBirths /\ r = Idle
    /\ expired = FALSE /\ faults \in 0 .. MaxFaults /\ killed = {}

Spec == Init /\ [][Next]_vars

-----------------------------------------------------------------------------
Identity == [pid : Pid \cup {0}, start : 0 .. MaxBirths]

(* Every variable has a value of its kind. *)
TypeOK ==
    /\ proc \in [Pid -> [state : {"none", "live", "zombie"}, start : 0 .. MaxBirths,
                         ppid : Pid \cup {0}, pgid : Pid \cup {0}, measured : BOOLEAN]]
    /\ births \in 0 .. MaxBirths /\ faults \in 0 .. MaxFaults /\ expired \in BOOLEAN
    /\ killed \subseteq Identity /\ r.known \subseteq Identity /\ r.before \subseteq r.known
    /\ r.todo \subseteq Identity /\ r.target \in Identity /\ r.reason \in Reasons
    /\ r.scan \subseteq Pid
    /\ r.outcome \in
         {"none", "refused", "refused host", "error", "isolation", "result", "measured", "rejected"}

(* Nobody but the measured process and its descendants is ever sent SIGKILL, *)
(* whoever has taken over an identifier or a group number since.             *)
OnlyMeasuredKilled == \A p \in Pid : Id(p) \in killed => proc[p].measured \/ proc[p] = Gone

(* A run that returns a result leaves none of the processes it knew of       *)
(* running.                                                                  *)
ResultMeansQuiet == r.outcome \in {"result", "measured"} => \A id \in r.known : ~IsLive(id)

(* However the run ends, the measured process has ended or was sent SIGKILL. *)
(* The exceptions: Popen was interrupted between the fork and its return, or *)
(* a second failure hit the except clause before it had sent the signal to   *)
(* the group (an interruption, or an error of killpg, which is suppressed).  *)
RootNotLeft == r.pc = "done" /\ IsLive(r.root) => r.root \in killed \/ r.lost # "none"

(* When a run reports that the measured process left descendants behind,     *)
(* those of them that a sample before its end had shown are killed.  (One    *)
(* that only the last sample shows is reported too, but left running: when   *)
(* it is taken, the identifier of the root may already be a stranger's.)     *)
LeftoversKilled ==
    r.pc = "done" /\ r.outcome = "isolation" /\ r.reason = "daemonization" =>
       \A id \in r.before : IsLive(id) /\ proc[id.pid].pgid = r.root.pid => id \in killed
=============================================================================
