--------------------------- MODULE CapabilityLocks ---------------------------
(* The locks of one delegated-root capability inside a coordinator process:  *)
(* _ISSUANCE_LOCK, the capability's _lock and a lease's _lock (all RLock),   *)
(* taken by operations, close() and the fork handlers                        *)
(* (competitive_binding_supervisor.py, competitive_binding_cgroup.py).       *)
(*                                                                           *)
(* A lease operation takes the lease, then passes through                    *)
(* _locked_capability_access: the issuance lock is taken and released, the   *)
(* capability's lock is taken and kept.  cleanup() and read_memory_peak_bytes*)
(* call other lease operations inside, which pass through it again.          *)
EXTENDS Naturals

CONSTANTS
    Thread,      \* threads of the process
    NoThread,    \* the owner of a free lock
    MaxNested    \* bound on the operations one operation calls in turn

ASSUME LocksAssumption == NoThread \notin Thread /\ MaxNested \in Nat

VARIABLES
    issuance, capability, leaseLock,   \* the owner of each lock
    capClosed,                         \* capability._closed
    op,                                \* what each thread is doing
    at,                                \* where in it
    nested                             \* inner operations still allowed

locks == <<issuance, capability, leaseLock, capClosed, op, at, nested>>

Owned(lock, t) == lock \in {NoThread, t}
At(t, here) == at[t] = here
To(t, there) == at' = [at EXCEPT ![t] = there]

(* A call: a lease operation, a bare access (qualification or the creation   *)
(* of a leaf), close() or os.fork().                                         *)
Begin(t) ==
    /\ At(t, "idle")
    /\ \E o \in {"lease", "access", "close", "fork"} :
          /\ op' = [op EXCEPT ![t] = o]
          /\ To(t, CASE o = "lease" -> "lease" [] o = "close" -> "capability"
                     [] OTHER -> "issuance")
    /\ nested' = [nested EXCEPT ![t] = MaxNested]
    /\ UNCHANGED <<issuance, capability, leaseLock, capClosed>>

LockLease(t) ==
    /\ At(t, "lease") /\ Owned(leaseLock, t) /\ leaseLock' = t
    /\ To(t, "issuance")
    /\ UNCHANGED <<issuance, capability, capClosed, op, nested>>

LockIssuanceOnly(t) ==   \* faulty: fork does not wait for the capability's lock
    /\ At(t, "issuance") /\ Owned(issuance, t)
    /\ issuance' = IF op[t] = "fork" THEN t ELSE issuance
    /\ To(t, IF op[t] = "fork" THEN "forking" ELSE "capability")
    /\ UNCHANGED <<capability, leaseLock, capClosed, op, nested>>

(* Looking the record up needs the issuance lock for a moment; fork keeps it.*)
LockIssuance(t) ==
    /\ At(t, "issuance") /\ Owned(issuance, t)
    /\ issuance' = IF op[t] = "fork" THEN t ELSE issuance
    /\ To(t, "capability")
    /\ UNCHANGED <<capability, leaseLock, capClosed, op, nested>>

(* The capability's lock, then the check that it is open and the backend;    *)
(* a closed one raises and the lock is released on the way out.              *)
LockCapability(t) ==
    /\ At(t, "capability") /\ Owned(capability, t) /\ capability' = t
    /\ To(t, CASE op[t] = "close" -> "closing"
               [] op[t] = "fork" -> "forking"
               [] OTHER -> IF capClosed THEN "leaving" ELSE "backend")
    /\ UNCHANGED <<issuance, leaseLock, capClosed, op, nested>>

(* An operation inside the operation: the lease's lock is the thread's own,  *)
(* and the access begins again with the issuance lock.                       *)
Nest(t) ==
    /\ At(t, "backend") /\ op[t] = "lease" /\ nested[t] > 0
    /\ nested' = [nested EXCEPT ![t] = @ - 1]
    /\ To(t, "issuance")
    /\ UNCHANGED <<issuance, capability, leaseLock, capClosed, op>>

(* The channel shows an event: the capability is closed under its lock.      *)
RevokeLocked(t) ==
    /\ At(t, "backend") /\ capClosed' = TRUE /\ To(t, "leaving")
    /\ UNCHANGED <<issuance, capability, leaseLock, op, nested>>

EndBackend(t) ==
    /\ At(t, "backend") /\ To(t, "leaving")
    /\ UNCHANGED <<issuance, capability, leaseLock, capClosed, op, nested>>

CloseLocked(t) ==
    /\ At(t, "closing") /\ capClosed' = TRUE /\ To(t, "leaving")
    /\ UNCHANGED <<issuance, capability, leaseLock, op, nested>>

(* The fork itself; the parent goes on.                                      *)
ForkNow(t) ==
    /\ At(t, "forking") /\ To(t, "leaving")
    /\ UNCHANGED <<issuance, capability, leaseLock, capClosed, op, nested>>

(* Every with-block and handler releases what it took.                       *)
Leave(t) ==
    /\ At(t, "leaving") /\ To(t, "idle")
    /\ issuance' = IF issuance = t THEN NoThread ELSE issuance
    /\ capability' = IF capability = t THEN NoThread ELSE capability
    /\ leaseLock' = IF leaseLock = t THEN NoThread ELSE leaseLock
    /\ UNCHANGED <<capClosed, op, nested>>

LocksInit ==
    /\ issuance = NoThread /\ capability = NoThread /\ leaseLock = NoThread /\ capClosed = FALSE
    /\ op = [t \in Thread |-> "none"] /\ at = [t \in Thread |-> "idle"]
    /\ nested = [t \in Thread |-> 0]

Step(t) ==
    \/ Begin(t) \/ LockLease(t) \/ LockIssuance(t) \/ LockCapability(t) \/ Nest(t)
    \/ RevokeLocked(t) \/ EndBackend(t) \/ CloseLocked(t) \/ ForkNow(t) \/ Leave(t)

LocksNext == \E t \in Thread : Step(t)

LocksSpec == LocksInit /\ [][LocksNext]_locks

-----------------------------------------------------------------------------
Waits(t) ==
    CASE At(t, "lease") -> leaseLock [] At(t, "issuance") -> issuance
      [] At(t, "capability") -> capability [] OTHER -> NoThread

(* A thread is inside an access: its outermost one holds the capability.     *)
Inside(t) == capability = t /\ op[t] \in {"lease", "access", "close"}

(* fork() happens while no other thread is inside an operation: "Serialize   *)
(* fork behind every operation that can use delegated authority."            *)
ForkSerialized ==
    \A t \in Thread : At(t, "forking") => \A u \in Thread : ~Inside(u) /\ ~At(u, "backend")

(* Serialized means waiting, not standing: no two threads ever wait for each *)
(* other's lock.                                                             *)
NoCircularWait ==
    \A t, u \in Thread : t # u => ~(Waits(t) = u /\ Waits(u) = t)
=============================================================================
