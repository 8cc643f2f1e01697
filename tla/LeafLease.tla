------------------------------ MODULE LeafLease ------------------------------
(* A measurement leaf and its lease                                          *)
(* (competitive_binding_cgroup.py, with the pinned-descriptor backend of     *)
(* competitive_binding_io.py): a fresh cgroup is made and configured below   *)
(* the session's root, one workload is placed in it, its memory peak is read *)
(* once it is over, and the leaf is killed, drained and removed.             *)
(*                                                                           *)
(* The lease's lock serialises the operations, so at most one is under way;  *)
(* between its calls of the backend the workload, other processes with       *)
(* access to the leaf, and the supervisor's end of the channel move on.  An  *)
(* operation that finds the lease closed, or in the wrong state, raises and  *)
(* changes nothing; so does any operation in a forked child.                 *)
EXTENDS Naturals, FiniteSets

CONSTANTS
    Pid,      \* processes a caller may attach
    Joiner,   \* a process placed in the leaf by someone else
    MaxUse    \* bound on the memory charged, and so on memory.peak

ASSUME LeaseAssumption == MaxUse \in Nat /\ Joiner \notin Pid

VARIABLES
    dir,       \* what the leaf's name stands for in the session directory
    procs,     \* the live processes in the lease's leaf
    killSent,  \* cgroup.kill was written to the leaf
    used,      \* memory.peak of the leaf
    workUsed,  \* memory.peak when the workload last ran
    authority, \* _attachment_authority: "native" or "test"
    cap,       \* the capability: live, with an event on its channel, closed
    state,     \* _state
    closed,    \* _closed
    pc,        \* where the operation under way is
    resume,    \* where await_unpopulated returns to
    pid,       \* attach_process: the process
    placed,    \* the processes ever written to cgroup.procs
    seen,      \* read_memory_peak_bytes: the value read
    result,    \* read_memory_peak_bytes: the value returned; 0 is none
    report     \* the error of a failed creation

kernel == <<dir, procs, killSent, used, workUsed>>
lease == <<authority, state, closed, resume, pid, placed, seen, result, report>>
vars == <<kernel, cap, pc, lease>>

Populated == procs # {}

Init ==
    /\ dir \in {"absent", "other"} /\ procs = {} /\ killSent = FALSE /\ used = 0 /\ workUsed = 0
    /\ authority \in {"native", "test"} /\ cap = "live"
    /\ state = "ready" /\ closed = FALSE /\ pc = "mkdir" /\ resume = "idle"
    /\ pid \in Pid /\ placed = {} /\ seen = 0 /\ result = 0 /\ report = "none"

(* Entering _locked_backend_authority.  A production lease looks at the      *)
(* channel: anything there closes the capability, and the operation raises.  *)
Authorised == authority = "native" => cap = "live"

FindRevoked ==
    /\ authority = "native" /\ cap = "event"
    /\ pc \in {"mkdir", "idle", "kill", "await", "check", "finish"}
    /\ cap' = "closed" /\ pc' = IF pc = "mkdir" THEN "refused" ELSE "idle"
    /\ UNCHANGED <<kernel, lease>>

(* A backend call, or a check of what it read, fails within an operation. *)
Raise ==
    /\ pc \in {"attachWrite", "attachRead", "kill", "await", "poll", "check", "peak", "recheck",
               "finish", "remove"}
    /\ pc' = "idle"
    /\ UNCHANGED <<kernel, cap, lease>>

-----------------------------------------------------------------------------
(* create_binding_cgroup and the backend's create_leaf. *)

MakeLeaf ==
    /\ pc = "mkdir" /\ Authorised
    /\ \/ dir = "absent" /\ dir' = "own" /\ pc' = "inspect"
       \/ pc' = "refused" /\ UNCHANGED dir
    /\ UNCHANGED <<procs, killSent, used, workUsed, cap, lease>>

SetUpAndForget ==   \* faulty: what became of the removal is not reported
    /\ pc = "inspect"
    /\ \/ used = 0 /\ pc' = "idle" /\ UNCHANGED <<dir, report>>
       \/ /\ pc' = "refused" /\ report' = "setup"
          /\ dir' \in {dir, "absent"}
    /\ UNCHANGED <<procs, killSent, used, workUsed, cap, authority, state, closed, resume, pid, placed,
                   seen, result>>

(* The new leaf is opened and identified, then given its limits, each read   *)
(* back, and its peak must still be zero; it is removed if any of it fails,  *)
(* and a failure to remove it is reported together with the first.           *)
SetUpLeaf ==
    /\ pc = "inspect"
    /\ \/ used = 0 /\ pc' = "idle" /\ UNCHANGED <<dir, report>>
       \/ /\ pc' = "refused"
          /\ \/ procs = {} /\ dir' = "absent" /\ report' = "setup"
             \/ report' = "setup and cleanup" /\ UNCHANGED dir
    /\ UNCHANGED <<procs, killSent, used, workUsed, cap, authority, state, closed, resume, pid, placed,
                   seen, result>>

-----------------------------------------------------------------------------
AttachLate ==   \* faulty: the state changes only when the attachment succeeds
    /\ pc = "idle" /\ ~closed /\ authority = "test" /\ state = "ready"
    /\ pc' = "attachWrite" /\ pid' \in Pid
    /\ UNCHANGED <<kernel, cap, state, authority, closed, resume, placed, seen, result, report>>

(* attach_process: refused to a production lease; the state is uncertain     *)
(* from before the write until the membership is read back.                  *)
Attach ==
    /\ pc = "idle" /\ ~closed /\ authority = "test" /\ state = "ready"
    /\ pc' = "attachWrite" /\ state' = "attachment-uncertain" /\ pid' \in Pid
    /\ UNCHANGED <<kernel, cap, authority, closed, resume, placed, seen, result, report>>

(* The write: the process is moved, and the count written may still be wrong. *)
WriteProcs ==
    /\ pc = "attachWrite" /\ pc' \in {"attachRead", "idle"}
    /\ procs' = procs \cup {pid} /\ placed' = placed \cup {pid}
    /\ UNCHANGED <<dir, killSent, used, workUsed, cap, authority, state, closed, resume, pid, seen, result,
                   report>>

ReadBackProcs ==
    /\ pc = "attachRead" /\ pid \in procs
    /\ pc' = "idle" /\ state' = "attached"
    /\ UNCHANGED <<kernel, cap, authority, closed, resume, pid, placed, seen, result, report>>

(* await_unpopulated, called by itself or by one of the operations below. *)
CallAwait ==
    /\ pc = "idle" /\ ~closed
    /\ pc' = "await" /\ resume' = "idle"
    /\ UNCHANGED <<kernel, cap, authority, state, closed, pid, placed, seen, result, report>>

Await ==
    /\ pc = "await" /\ Authorised /\ pc' = "poll"
    /\ UNCHANGED <<kernel, cap, lease>>

Poll ==   \* past the deadline, Raise
    /\ pc = "poll" /\ ~Populated /\ pc' = resume
    /\ UNCHANGED <<kernel, cap, lease>>

FinalizeAtOnce ==   \* faulty: only the check after the read is left
    /\ pc = "idle" /\ ~closed /\ Authorised /\ state = "attached"
    /\ state' = "finalizing" /\ pc' = "peak" /\ UNCHANGED resume
    /\ UNCHANGED <<kernel, cap, authority, closed, pid, placed, seen, result, report>>

(* read_memory_peak_bytes: the leaf must be empty before and after the read. *)
Finalize ==
    /\ pc = "idle" /\ ~closed /\ Authorised /\ state = "attached"
    /\ state' = "finalizing" /\ pc' = "await" /\ resume' = "check"
    /\ UNCHANGED <<kernel, cap, authority, closed, pid, placed, seen, result, report>>

CheckEmpty ==
    /\ pc = "check" /\ Authorised /\ ~Populated /\ pc' = "peak"
    /\ UNCHANGED <<kernel, cap, lease>>

ReadPeak ==
    /\ pc = "peak" /\ pc' = "recheck" /\ seen' = used
    /\ UNCHANGED <<kernel, cap, authority, state, closed, resume, pid, placed, result, report>>

RecheckEmpty ==
    /\ pc = "recheck" /\ ~Populated /\ pc' = "finish"
    /\ UNCHANGED <<kernel, cap, lease>>

ReturnPeak ==
    /\ pc = "finish" /\ Authorised /\ seen > 0
    /\ pc' = "idle" /\ state' = "measured" /\ result' = seen
    /\ UNCHANGED <<kernel, cap, authority, closed, resume, pid, placed, seen, report>>

KillInPlace ==   \* faulty: the state is kept
    /\ \/ pc = "idle" /\ ~closed /\ pc' = "idle"
       \/ pc = "kill" /\ pc' = "await"
    /\ Authorised /\ killSent' \in {killSent, TRUE}
    /\ UNCHANGED <<dir, procs, used, workUsed, cap, lease>>

(* kill, by itself or within cleanup, which ends with it if the write fails. *)
Kill ==
    /\ \/ pc = "idle" /\ ~closed /\ pc' = "idle"
       \/ pc = "kill" /\ pc' \in {"await", "idle"}
    /\ Authorised /\ state' = "termination-requested"
    /\ killSent' \in {killSent, TRUE}
    /\ UNCHANGED <<dir, procs, used, workUsed, cap, authority, closed, resume,
                   pid, placed, seen, result, report>>

CleanupUnasked ==   \* faulty: without a look at the capability
    /\ pc = "idle" /\ ~closed
    /\ pc' = "poll" /\ resume' = "remove"
    /\ UNCHANGED <<kernel, cap, authority, state, closed, pid, placed, seen, result, report>>

(* cleanup: kill if populated, await, remove; only then is the lease closed. *)
Cleanup ==
    /\ pc = "idle" /\ ~closed /\ Authorised
    /\ pc' = IF Populated THEN "kill" ELSE "await"
    /\ resume' = "remove"
    /\ UNCHANGED <<kernel, cap, authority, state, closed, pid, placed, seen, result, report>>

(* remove_leaf opens the leaf by name, compares its identity and removes it. *)
RemoveLeaf ==
    /\ pc = "remove" /\ dir = "own" /\ ~Populated
    /\ dir' = "absent" /\ closed' = TRUE /\ pc' = "idle"
    /\ UNCHANGED <<procs, killSent, used, workUsed, cap, authority, state, resume, pid, placed, seen,
                   result, report>>

-----------------------------------------------------------------------------
(* Everyone else. *)

Charge ==
    /\ Populated /\ used < MaxUse /\ used' = used + 1
    /\ workUsed' = IF procs \cap Pid # {} THEN used' ELSE workUsed
    /\ UNCHANGED <<dir, procs, killSent, cap, pc, lease>>

Exit(p) ==
    /\ p \in procs /\ procs' = procs \ {p}
    /\ UNCHANGED <<dir, killSent, used, workUsed, cap, pc, lease>>

Join ==
    /\ dir = "own" /\ procs' = procs \cup {Joiner} /\ procs' # procs
    /\ UNCHANGED <<dir, killSent, used, workUsed, cap, pc, lease>>

(* The supervisor asks for the session back, or is gone. *)
ChannelEvent ==
    /\ cap = "live" /\ cap' = "event"
    /\ UNCHANGED <<kernel, pc, lease>>

(* ExclusiveDelegatedCgroupRoot.close waits for the operation under way. *)
CloseCapability ==
    /\ pc \in {"idle", "refused"} /\ cap # "closed" /\ cap' = "closed"
    /\ UNCHANGED <<kernel, pc, lease>>

Next ==
    \/ FindRevoked \/ Raise \/ MakeLeaf \/ SetUpLeaf
    \/ Attach \/ WriteProcs \/ ReadBackProcs
    \/ CallAwait \/ Await \/ Poll
    \/ Finalize \/ CheckEmpty \/ ReadPeak \/ RecheckEmpty \/ ReturnPeak
    \/ Kill \/ Cleanup \/ RemoveLeaf
    \/ Charge \/ Join \/ ChannelEvent \/ CloseCapability
    \/ \E p \in Pid \cup {Joiner} : Exit(p)

Spec == Init /\ [][Next]_vars

-----------------------------------------------------------------------------
TypeOK ==
    /\ dir \in {"absent", "own", "other"} /\ procs \subseteq Pid \cup {Joiner} /\ killSent \in BOOLEAN
    /\ used \in 0..MaxUse /\ workUsed \in 0..MaxUse
    /\ authority \in {"native", "test"} /\ cap \in {"live", "event", "closed"}
    /\ state \in {"ready", "attachment-uncertain", "attached", "finalizing", "measured",
                  "termination-requested"}
    /\ closed \in BOOLEAN
    /\ pc \in {"mkdir", "inspect", "refused", "idle", "attachWrite", "attachRead", "await", "poll",
               "check", "peak", "recheck", "finish", "kill", "remove"}
    /\ resume \in {"idle", "check", "remove"}
    /\ pid \in Pid /\ placed \subseteq Pid
    /\ seen \in 0..MaxUse /\ result \in 0..MaxUse
    /\ report \in {"none", "setup", "setup and cleanup"}

(* A memory peak is returned only for a workload that is over, and it covers *)
(* all the memory the workload was ever charged (read_memory_peak_bytes).    *)
PeakIsFinal == result > 0 => procs \cap Pid = {} /\ result >= workUsed

(* One lease measures one workload: after an attachment that failed half-way *)
(* nothing else is placed in the leaf (attach_process).                      *)
OneWorkload == Cardinality(placed) <= 1

(* No peak is returned for a workload that was killed (kill,                 *)
(* read_memory_peak_bytes).                                                  *)
NoPeakAfterKill == [][killSent => result' = result]_vars

(* A closed lease has no leaf and no process left in it (cleanup).           *)
ClosedMeansGone == closed => dir # "own" /\ procs = {}

(* A leaf that was there before is never removed (create_leaf).              *)
OthersKept == [][dir = "other" => dir' = "other"]_vars

(* A creation that failed left no leaf behind, or says that it did           *)
(* (create_leaf, _create_configured_binding_cgroup).                         *)
LeftoverReported == pc = "refused" /\ dir = "own" => report = "setup and cleanup"

(* Once the capability is closed, which lets the supervisor clean up, the    *)
(* lease changes nothing in the session any more.                            *)
NothingAfterClose ==
    [][authority = "native" /\ cap = "closed" => dir' = dir /\ state' = state]_vars
=============================================================================
