--------------------------- MODULE LeafLease_proofs --------------------------
(* Proofs about LeafLease, for any processes and any bound on the memory     *)
(* charged: what a lease measures, removes and reports.                      *)
EXTENDS LeafLease, CapabilityLocks, FiniteSetTheorems, TLAPS

(* Which states an operation under way may find the lease in.                *)
Staged ==
    /\ pc \in {"attachWrite", "attachRead"} => state = "attachment-uncertain"
    /\ pc \in {"check", "peak", "recheck", "finish"} => state = "finalizing"
    /\ pc \in {"await", "poll"} /\ resume = "check" => state = "finalizing"
    /\ pc = "kill" => resume = "remove"
    /\ killSent => state = "termination-requested"
    /\ result > 0 => state \in {"measured", "termination-requested"}
    /\ closed => pc = "idle"

(* One process is ever placed in the leaf.                                   *)
Placed == (state = "ready" => placed = {}) /\ placed \subseteq {pid}

(* From the check that the leaf is empty on, no workload runs in it again,   *)
(* and the peak that is read covers all it was charged.                      *)
Quiet ==
    /\ pc \in {"peak", "recheck", "finish"} \/ result > 0 => procs \cap Pid = {}
    /\ pc \in {"recheck", "finish"} => seen >= workUsed
    /\ result > 0 => result >= workUsed
    /\ workUsed <= used

(* What the leaf's name stands for at each point, and where an operation may *)
(* be once the capability is closed.                                         *)
Located ==
    /\ pc = "mkdir" => dir # "own"
    /\ pc = "inspect" => dir = "own"
    /\ LeftoverReported /\ ClosedMeansGone
    /\ authority = "native" /\ cap = "closed" => pc \in {"idle", "refused", "await"}

(* The parts of TypeOK: the control state, processes and amounts of memory.  *)
ControlTyped ==
    /\ dir \in {"absent", "own", "other"} /\ killSent \in BOOLEAN /\ closed \in BOOLEAN
    /\ authority \in {"native", "test"} /\ cap \in {"live", "event", "closed"}
    /\ state \in {"ready", "attachment-uncertain", "attached", "finalizing", "measured",
                  "termination-requested"}
    /\ pc \in {"mkdir", "inspect", "refused", "idle", "attachWrite", "attachRead", "await", "poll",
               "check", "peak", "recheck", "finish", "kill", "remove"}
    /\ resume \in {"idle", "check", "remove"}
    /\ report \in {"none", "setup", "setup and cleanup"}

ProcessesTyped == procs \subseteq Pid \cup {Joiner} /\ pid \in Pid /\ placed \subseteq Pid

MemoryTyped ==
    used \in 0..MaxUse /\ workUsed \in 0..MaxUse /\ seen \in 0..MaxUse /\ result \in 0..MaxUse

LeaseInv ==
    ControlTyped /\ ProcessesTyped /\ MemoryTyped /\ Staged /\ Placed /\ Quiet /\ Located

(* The invariant holds initially.                                            *)
LEMMA LeaseInit == Init => LeaseInv
  <1> SUFFICES ASSUME Init PROVE LeaseInv
    OBVIOUS
  <1>1. ControlTyped /\ ProcessesTyped
    BY DEF Init, ControlTyped, ProcessesTyped
  <1>2. MemoryTyped
    BY LeaseAssumption DEF Init, MemoryTyped
  <1>3. Staged /\ Placed
    BY DEF Init, Staged, Placed
  <1>4. Quiet
    BY DEF Init, Quiet
  <1>5. Located
    BY DEF Init, Located, LeftoverReported, ClosedMeansGone
  <1>6. QED
    BY <1>1, <1>2, <1>3, <1>4, <1>5 DEF LeaseInv

(* A step that changes none of the control state keeps its types.            *)
LEMMA ControlKept ==
    ASSUME ControlTyped,
           UNCHANGED <<dir, killSent, closed, authority, cap, state, pc, resume, report>>
    PROVE  ControlTyped'
  <1>1. killSent' \in BOOLEAN /\ closed' \in BOOLEAN
    BY Zenon DEF ControlTyped
  <1>2. /\ dir' \in {"absent", "own", "other"} /\ authority' \in {"native", "test"}
        /\ cap' \in {"live", "event", "closed"} /\ resume' \in {"idle", "check", "remove"}
        /\ report' \in {"none", "setup", "setup and cleanup"}
    BY DEF ControlTyped
  <1>3. QED
    BY <1>1, <1>2 DEF ControlTyped

(* Every step of the lease, its callers, the workload, and the supervisor    *)
(* keeps it.                                                                 *)
LEMMA LeaseStep == LeaseInv /\ [Next]_vars => LeaseInv'
  <1> SUFFICES ASSUME LeaseInv, [Next]_vars PROVE LeaseInv'
    OBVIOUS
  <1> USE DEF LeaseInv, kernel, lease, Authorised
  <1>1. CASE FindRevoked
    <2>1. ControlTyped'
      BY <1>1 DEF FindRevoked, ControlTyped
    <2>2. ProcessesTyped'
      BY <1>1 DEF FindRevoked, ProcessesTyped
    <2>3. MemoryTyped'
      BY <1>1 DEF FindRevoked, MemoryTyped
    <2>4. Staged'
      BY <1>1 DEF FindRevoked, Staged
    <2>5. Placed'
      BY <1>1 DEF FindRevoked, Placed
    <2>6. Quiet'
      BY <1>1 DEF FindRevoked, Quiet
    <2>7. Located'
      BY <1>1 DEF FindRevoked, Located, LeftoverReported, ClosedMeansGone
    <2>8. QED
      BY <2>1, <2>2, <2>3, <2>4, <2>5, <2>6, <2>7
  <1>2. CASE Raise
    <2>1. ControlTyped'
      BY <1>2 DEF Raise, ControlTyped
    <2>2. ProcessesTyped'
      BY <1>2 DEF Raise, ProcessesTyped
    <2>3. MemoryTyped'
      BY <1>2 DEF Raise, MemoryTyped
    <2>4. Staged'
      BY <1>2 DEF Raise, Staged
    <2>5. Placed'
      BY <1>2 DEF Raise, Placed
    <2>6. Quiet'
      BY <1>2 DEF Raise, Quiet
    <2>7. Located'
      BY <1>2 DEF Raise, Located, LeftoverReported, ClosedMeansGone
    <2>8. QED
      BY <2>1, <2>2, <2>3, <2>4, <2>5, <2>6, <2>7
  <1>3. CASE MakeLeaf
    <2>1. ControlTyped'
      BY <1>3 DEF MakeLeaf, ControlTyped
    <2>2. ProcessesTyped'
      BY <1>3 DEF MakeLeaf, ProcessesTyped
    <2>3. MemoryTyped'
      BY <1>3 DEF MakeLeaf, MemoryTyped
    <2>4. Staged'
      BY <1>3 DEF MakeLeaf, Staged
    <2>5. Placed'
      BY <1>3 DEF MakeLeaf, Placed
    <2>6. Quiet'
      BY <1>3 DEF MakeLeaf, Quiet
    <2>7. Located'
      BY <1>3 DEF MakeLeaf, Located, LeftoverReported, ClosedMeansGone, Staged
    <2>8. QED
      BY <2>1, <2>2, <2>3, <2>4, <2>5, <2>6, <2>7
  <1>4. CASE SetUpLeaf
    <2>1. ControlTyped'
      BY <1>4 DEF SetUpLeaf, ControlTyped
    <2>2. ProcessesTyped'
      BY <1>4 DEF SetUpLeaf, ProcessesTyped
    <2>3. MemoryTyped'
      BY <1>4 DEF SetUpLeaf, MemoryTyped
    <2>4. Staged'
      BY <1>4 DEF SetUpLeaf, Staged
    <2>5. Placed'
      BY <1>4 DEF SetUpLeaf, Placed
    <2>6. Quiet'
      BY <1>4 DEF SetUpLeaf, Quiet
    <2>7. Located'
      BY <1>4 DEF SetUpLeaf, Located, LeftoverReported, ClosedMeansGone
    <2>8. QED
      BY <2>1, <2>2, <2>3, <2>4, <2>5, <2>6, <2>7
  <1>5. CASE Attach
    <2>1. ControlTyped'
      BY <1>5 DEF Attach, ControlTyped
    <2>2. ProcessesTyped'
      BY <1>5 DEF Attach, ProcessesTyped
    <2>3. MemoryTyped'
      BY <1>5 DEF Attach, MemoryTyped
    <2>4. Staged'
      BY <1>5 DEF Attach, Staged
    <2>5. Placed'
      BY <1>5 DEF Attach, Placed
    <2>6. Quiet'
      BY <1>5 DEF Attach, Quiet
    <2>7. Located'
      BY <1>5 DEF Attach, Located, LeftoverReported, ClosedMeansGone
    <2>8. QED
      BY <2>1, <2>2, <2>3, <2>4, <2>5, <2>6, <2>7
  <1>6. CASE WriteProcs
    <2>1. ControlTyped'
      <3>1. UNCHANGED <<dir, killSent, closed, authority, cap, state, resume, report>> /\ pc' \in {"attachRead", "idle"}
        BY <1>6 DEF WriteProcs
      <3>2. killSent' \in BOOLEAN /\ closed' \in BOOLEAN
        BY <3>1, Zenon DEF ControlTyped
      <3>3. /\ dir' \in {"absent", "own", "other"} /\ authority' \in {"native", "test"}
            /\ cap' \in {"live", "event", "closed"} /\ resume' \in {"idle", "check", "remove"}
            /\ report' \in {"none", "setup", "setup and cleanup"}
        BY <3>1 DEF ControlTyped
      <3>4. QED
        BY <3>1, <3>2, <3>3 DEF ControlTyped
    <2>2. ProcessesTyped'
      BY <1>6 DEF WriteProcs, ProcessesTyped
    <2>3. MemoryTyped'
      BY <1>6 DEF WriteProcs, MemoryTyped
    <2>4. Staged'
      BY <1>6 DEF WriteProcs, Staged
    <2>5. Placed'
      BY <1>6 DEF WriteProcs, Placed, Staged
    <2>6. Quiet'
      BY <1>6 DEF WriteProcs, Quiet, Staged
    <2>7. Located'
      BY <1>6 DEF WriteProcs, Located, LeftoverReported, ClosedMeansGone, Staged
    <2>8. QED
      BY <2>1, <2>2, <2>3, <2>4, <2>5, <2>6, <2>7
  <1>7. CASE ReadBackProcs
    <2>1. ControlTyped'
      BY <1>7 DEF ReadBackProcs, ControlTyped
    <2>2. ProcessesTyped'
      BY <1>7 DEF ReadBackProcs, ProcessesTyped
    <2>3. MemoryTyped'
      BY <1>7 DEF ReadBackProcs, MemoryTyped
    <2>4. Staged'
      BY <1>7 DEF ReadBackProcs, Staged
    <2>5. Placed'
      BY <1>7 DEF ReadBackProcs, Placed
    <2>6. Quiet'
      BY <1>7 DEF ReadBackProcs, Quiet
    <2>7. Located'
      BY <1>7 DEF ReadBackProcs, Located, LeftoverReported, ClosedMeansGone
    <2>8. QED
      BY <2>1, <2>2, <2>3, <2>4, <2>5, <2>6, <2>7
  <1>8. CASE CallAwait
    <2>1. ControlTyped'
      BY <1>8 DEF CallAwait, ControlTyped
    <2>2. ProcessesTyped'
      BY <1>8 DEF CallAwait, ProcessesTyped
    <2>3. MemoryTyped'
      BY <1>8 DEF CallAwait, MemoryTyped
    <2>4. Staged'
      BY <1>8 DEF CallAwait, Staged
    <2>5. Placed'
      BY <1>8 DEF CallAwait, Placed
    <2>6. Quiet'
      BY <1>8 DEF CallAwait, Quiet
    <2>7. Located'
      BY <1>8 DEF CallAwait, Located, LeftoverReported, ClosedMeansGone
    <2>8. QED
      BY <2>1, <2>2, <2>3, <2>4, <2>5, <2>6, <2>7
  <1>9. CASE Await
    <2>1. ControlTyped'
      BY <1>9 DEF Await, ControlTyped
    <2>2. ProcessesTyped'
      BY <1>9 DEF Await, ProcessesTyped
    <2>3. MemoryTyped'
      BY <1>9 DEF Await, MemoryTyped
    <2>4. Staged'
      BY <1>9 DEF Await, Staged
    <2>5. Placed'
      BY <1>9 DEF Await, Placed
    <2>6. Quiet'
      BY <1>9 DEF Await, Quiet
    <2>7. Located'
      BY <1>9 DEF Await, Located, LeftoverReported, ClosedMeansGone
    <2>8. QED
      BY <2>1, <2>2, <2>3, <2>4, <2>5, <2>6, <2>7
  <1>10. CASE Poll
    <2>1. ControlTyped'
      BY <1>10 DEF Poll, ControlTyped
    <2>2. ProcessesTyped'
      BY <1>10 DEF Poll, ProcessesTyped
    <2>3. MemoryTyped'
      BY <1>10 DEF Poll, MemoryTyped
    <2>4. Staged'
      BY <1>10 DEF Poll, Staged, ControlTyped
    <2>5. Placed'
      BY <1>10 DEF Poll, Placed
    <2>6. Quiet'
      BY <1>10 DEF Poll, Quiet, Populated, ControlTyped
    <2>7. Located'
      BY <1>10 DEF Poll, Located, LeftoverReported, ClosedMeansGone, Populated, ControlTyped
    <2>8. QED
      BY <2>1, <2>2, <2>3, <2>4, <2>5, <2>6, <2>7
  <1>11. CASE Finalize
    <2>1. ControlTyped'
      BY <1>11 DEF Finalize, ControlTyped
    <2>2. ProcessesTyped'
      BY <1>11 DEF Finalize, ProcessesTyped
    <2>3. MemoryTyped'
      BY <1>11 DEF Finalize, MemoryTyped
    <2>4. Staged'
      BY <1>11 DEF Finalize, Staged
    <2>5. Placed'
      BY <1>11 DEF Finalize, Placed
    <2>6. Quiet'
      BY <1>11 DEF Finalize, Quiet
    <2>7. Located'
      BY <1>11 DEF Finalize, Located, LeftoverReported, ClosedMeansGone
    <2>8. QED
      BY <2>1, <2>2, <2>3, <2>4, <2>5, <2>6, <2>7
  <1>12. CASE CheckEmpty
    <2>1. ControlTyped'
      BY <1>12 DEF CheckEmpty, ControlTyped
    <2>2. ProcessesTyped'
      BY <1>12 DEF CheckEmpty, ProcessesTyped
    <2>3. MemoryTyped'
      BY <1>12 DEF CheckEmpty, MemoryTyped
    <2>4. Staged'
      BY <1>12 DEF CheckEmpty, Staged
    <2>5. Placed'
      BY <1>12 DEF CheckEmpty, Placed
    <2>6. Quiet'
      BY <1>12 DEF CheckEmpty, Quiet, Populated
    <2>7. Located'
      BY <1>12 DEF CheckEmpty, Located, LeftoverReported, ClosedMeansGone, Populated
    <2>8. QED
      BY <2>1, <2>2, <2>3, <2>4, <2>5, <2>6, <2>7
  <1>13. CASE ReadPeak
    <2>1. ControlTyped'
      BY <1>13 DEF ReadPeak, ControlTyped
    <2>2. ProcessesTyped'
      BY <1>13 DEF ReadPeak, ProcessesTyped
    <2>3. MemoryTyped'
      BY <1>13 DEF ReadPeak, MemoryTyped
    <2>4. Staged'
      BY <1>13 DEF ReadPeak, Staged
    <2>5. Placed'
      BY <1>13 DEF ReadPeak, Placed
    <2>6. Quiet'
      BY <1>13 DEF ReadPeak, Quiet
    <2>7. Located'
      BY <1>13 DEF ReadPeak, Located, LeftoverReported, ClosedMeansGone
    <2>8. QED
      BY <2>1, <2>2, <2>3, <2>4, <2>5, <2>6, <2>7
  <1>14. CASE RecheckEmpty
    <2>1. ControlTyped'
      BY <1>14 DEF RecheckEmpty, ControlTyped
    <2>2. ProcessesTyped'
      BY <1>14 DEF RecheckEmpty, ProcessesTyped
    <2>3. MemoryTyped'
      BY <1>14 DEF RecheckEmpty, MemoryTyped
    <2>4. Staged'
      BY <1>14 DEF RecheckEmpty, Staged
    <2>5. Placed'
      BY <1>14 DEF RecheckEmpty, Placed
    <2>6. Quiet'
      BY <1>14 DEF RecheckEmpty, Quiet, Staged, MemoryTyped, ProcessesTyped, Populated
    <2>7. Located'
      BY <1>14 DEF RecheckEmpty, Located, LeftoverReported, ClosedMeansGone, Populated
    <2>8. QED
      BY <2>1, <2>2, <2>3, <2>4, <2>5, <2>6, <2>7
  <1>15. CASE ReturnPeak
    <2>1. ControlTyped'
      BY <1>15 DEF ReturnPeak, ControlTyped
    <2>2. ProcessesTyped'
      BY <1>15 DEF ReturnPeak, ProcessesTyped
    <2>3. MemoryTyped'
      BY <1>15 DEF ReturnPeak, MemoryTyped
    <2>4. Staged'
      BY <1>15 DEF ReturnPeak, Staged
    <2>5. Placed'
      BY <1>15 DEF ReturnPeak, Staged, Placed
    <2>6. Quiet'
      BY <1>15 DEF ReturnPeak, Quiet
    <2>7. Located'
      BY <1>15 DEF ReturnPeak, Located, LeftoverReported, ClosedMeansGone
    <2>8. QED
      BY <2>1, <2>2, <2>3, <2>4, <2>5, <2>6, <2>7
  <1>16. CASE Kill
    <2>1. ControlTyped'
      BY <1>16 DEF Kill, ControlTyped
    <2>2. ProcessesTyped'
      BY <1>16 DEF Kill, ProcessesTyped
    <2>3. MemoryTyped'
      BY <1>16 DEF Kill, MemoryTyped
    <2>4. Staged'
      BY <1>16 DEF Kill, Staged
    <2>5. Placed'
      BY <1>16 DEF Kill, Placed
    <2>6. Quiet'
      BY <1>16 DEF Kill, Quiet
    <2>7. Located'
      BY <1>16 DEF Kill, Located, LeftoverReported, ClosedMeansGone
    <2>8. QED
      BY <2>1, <2>2, <2>3, <2>4, <2>5, <2>6, <2>7
  <1>17. CASE Cleanup
    <2>1. ControlTyped'
      BY <1>17 DEF Cleanup, ControlTyped
    <2>2. ProcessesTyped'
      BY <1>17 DEF Cleanup, ProcessesTyped
    <2>3. MemoryTyped'
      BY <1>17 DEF Cleanup, MemoryTyped
    <2>4. Staged'
      BY <1>17 DEF Cleanup, Staged
    <2>5. Placed'
      BY <1>17 DEF Cleanup, Placed
    <2>6. Quiet'
      BY <1>17 DEF Cleanup, Quiet
    <2>7. Located'
      BY <1>17 DEF Cleanup, Located, LeftoverReported, ClosedMeansGone, Populated
    <2>8. QED
      BY <2>1, <2>2, <2>3, <2>4, <2>5, <2>6, <2>7
  <1>18. CASE RemoveLeaf
    <2>1. ControlTyped'
      BY <1>18 DEF RemoveLeaf, ControlTyped
    <2>2. ProcessesTyped'
      BY <1>18 DEF RemoveLeaf, ProcessesTyped
    <2>3. MemoryTyped'
      BY <1>18 DEF RemoveLeaf, MemoryTyped
    <2>4. Staged'
      BY <1>18 DEF RemoveLeaf, Staged
    <2>5. Placed'
      BY <1>18 DEF RemoveLeaf, Placed
    <2>6. Quiet'
      BY <1>18 DEF RemoveLeaf, Quiet
    <2>7. Located'
      BY <1>18 DEF RemoveLeaf, Located, LeftoverReported, ClosedMeansGone, Populated
    <2>8. QED
      BY <2>1, <2>2, <2>3, <2>4, <2>5, <2>6, <2>7
  <1>19. CASE Charge
    <2>1. ControlTyped'
      BY <1>19, ControlKept DEF Charge, ControlTyped
    <2>2. ProcessesTyped'
      BY <1>19 DEF Charge, ProcessesTyped
    <2>3. MemoryTyped'
      BY <1>19, LeaseAssumption DEF Charge, MemoryTyped
    <2>4. Staged'
      BY <1>19 DEF Charge, Staged
    <2>5. Placed'
      BY <1>19 DEF Charge, Placed
    <2>6. Quiet'
      BY <1>19 DEF Charge, Quiet, Populated, MemoryTyped
    <2>7. Located'
      BY <1>19 DEF Charge, Located, LeftoverReported, ClosedMeansGone, Populated
    <2>8. QED
      BY <2>1, <2>2, <2>3, <2>4, <2>5, <2>6, <2>7
  <1>20. CASE Join
    <2>1. ControlTyped'
      BY <1>20, ControlKept DEF Join, ControlTyped
    <2>2. ProcessesTyped'
      BY <1>20 DEF Join, ProcessesTyped
    <2>3. MemoryTyped'
      BY <1>20 DEF Join, MemoryTyped
    <2>4. Staged'
      BY <1>20 DEF Join, Staged
    <2>5. Placed'
      BY <1>20 DEF Join, Placed
    <2>6. Quiet'
      BY <1>20, LeaseAssumption DEF Join, Quiet, Staged, MemoryTyped, ProcessesTyped
    <2>7. Located'
      BY <1>20 DEF Join, Located, LeftoverReported, ClosedMeansGone
    <2>8. QED
      BY <2>1, <2>2, <2>3, <2>4, <2>5, <2>6, <2>7
  <1>21. CASE ChannelEvent
    <2>1. ControlTyped'
      <3>1. UNCHANGED <<dir, killSent, closed, authority, state, pc, resume, report>> /\ cap' = "event"
        BY <1>21 DEF ChannelEvent
      <3>2. killSent' \in BOOLEAN /\ closed' \in BOOLEAN
        BY <3>1, Zenon DEF ControlTyped
      <3>3. /\ dir' \in {"absent", "own", "other"} /\ authority' \in {"native", "test"}
            /\ cap' \in {"live", "event", "closed"} /\ resume' \in {"idle", "check", "remove"}
            /\ report' \in {"none", "setup", "setup and cleanup"}
        BY <3>1 DEF ControlTyped
      <3>4. QED
        BY <3>1, <3>2, <3>3 DEF ControlTyped
    <2>2. ProcessesTyped'
      BY <1>21 DEF ChannelEvent, ProcessesTyped
    <2>3. MemoryTyped'
      BY <1>21 DEF ChannelEvent, MemoryTyped
    <2>4. Staged'
      BY <1>21 DEF ChannelEvent, Staged
    <2>5. Placed'
      BY <1>21 DEF ChannelEvent, Placed
    <2>6. Quiet'
      BY <1>21 DEF ChannelEvent, Quiet
    <2>7. Located'
      BY <1>21 DEF ChannelEvent, Located, LeftoverReported, ClosedMeansGone
    <2>8. QED
      BY <2>1, <2>2, <2>3, <2>4, <2>5, <2>6, <2>7
  <1>22. CASE CloseCapability
    <2>1. ControlTyped'
      BY <1>22 DEF CloseCapability, ControlTyped
    <2>2. ProcessesTyped'
      BY <1>22 DEF CloseCapability, ProcessesTyped
    <2>3. MemoryTyped'
      BY <1>22 DEF CloseCapability, MemoryTyped
    <2>4. Staged'
      BY <1>22 DEF CloseCapability, Staged
    <2>5. Placed'
      BY <1>22 DEF CloseCapability, Placed
    <2>6. Quiet'
      BY <1>22 DEF CloseCapability, Quiet
    <2>7. Located'
      BY <1>22 DEF CloseCapability, Located, LeftoverReported, ClosedMeansGone
    <2>8. QED
      BY <2>1, <2>2, <2>3, <2>4, <2>5, <2>6, <2>7
  <1>23. CASE \E p \in Pid \cup {Joiner} : Exit(p)
    <2>0. PICK p \in Pid \cup {Joiner} : Exit(p)
      BY <1>23
    <2>1. ControlTyped'
      BY <2>0, ControlKept DEF Exit, ControlTyped
    <2>2. ProcessesTyped'
      BY <2>0 DEF Exit, ProcessesTyped
    <2>3. MemoryTyped'
      BY <2>0 DEF Exit, MemoryTyped
    <2>4. Staged'
      BY <2>0 DEF Exit, Staged
    <2>5. Placed'
      BY <2>0 DEF Exit, Placed
    <2>6. Quiet'
      BY <1>23 DEF Exit, Quiet
    <2>7. Located'
      BY <2>0 DEF Exit, Located, LeftoverReported, ClosedMeansGone
    <2>8. QED
      BY <2>1, <2>2, <2>3, <2>4, <2>5, <2>6, <2>7
  <1>24. CASE UNCHANGED vars
    <2>1. ControlTyped'
      BY <1>24, ControlKept DEF vars, ControlTyped
    <2>2. ProcessesTyped'
      BY <1>24 DEF vars, ProcessesTyped
    <2>3. MemoryTyped'
      BY <1>24 DEF vars, MemoryTyped
    <2>4. Staged'
      BY <1>24 DEF vars, Staged
    <2>5. Placed'
      BY <1>24 DEF vars, Placed
    <2>6. Quiet'
      BY <1>24 DEF vars, Quiet
    <2>7. Located'
      BY <1>24 DEF vars, Located, LeftoverReported, ClosedMeansGone
    <2>8. QED
      BY <2>1, <2>2, <2>3, <2>4, <2>5, <2>6, <2>7
  <1>25. QED
    BY <1>1, <1>2, <1>3, <1>4, <1>5, <1>6, <1>7, <1>8, <1>9, <1>10, <1>11, <1>12, <1>13, <1>14,
       <1>15, <1>16, <1>17, <1>18, <1>19, <1>20, <1>21, <1>22, <1>23, <1>24 DEF Next

(* The invariant holds in every reachable state.                             *)
THEOREM LeaseInvariant == Spec => []LeaseInv
  BY LeaseInit, LeaseStep, PTL DEF Spec

(* Every variable keeps its type; the peak never exceeds its bound.          *)
THEOREM LeaseTypeCorrect == Spec => []TypeOK
  <1>1. LeaseInv => TypeOK
    BY DEF LeaseInv, ControlTyped, ProcessesTyped, MemoryTyped, TypeOK
  <1>2. QED
    BY <1>1, LeaseInvariant, PTL

(* A memory peak is returned only for a workload that is over, and covers    *)
(* all it was charged (read_memory_peak_bytes).                              *)
THEOREM PeakIsFinalHolds == Spec => []PeakIsFinal
  <1>1. LeaseInv => PeakIsFinal
    BY DEF LeaseInv, Quiet, PeakIsFinal
  <1>2. QED
    BY <1>1, LeaseInvariant, PTL

(* One lease measures one workload (attach_process).                         *)
THEOREM OneWorkloadHolds == Spec => []OneWorkload
  <1>1. ASSUME LeaseInv PROVE OneWorkload
    <2>1. IsFiniteSet({pid}) /\ Cardinality({pid}) = 1
      BY FS_Singleton
    <2>2. Cardinality(placed) <= Cardinality({pid})
      BY <1>1, <2>1, FS_Subset DEF LeaseInv, Placed
    <2>3. QED
      BY <2>1, <2>2 DEF OneWorkload
  <1>2. QED
    BY <1>1, LeaseInvariant, PTL

(* A closed lease has no leaf and no process left in it (cleanup).           *)
THEOREM ClosedMeansGoneHolds == Spec => []ClosedMeansGone
  <1>1. LeaseInv => ClosedMeansGone
    BY DEF LeaseInv, Located
  <1>2. QED
    BY <1>1, LeaseInvariant, PTL

(* A creation that failed left no leaf behind, or says that it did           *)
(* (create_leaf, _create_configured_binding_cgroup).                         *)
THEOREM LeftoverReportedHolds == Spec => []LeftoverReported
  <1>1. LeaseInv => LeftoverReported
    BY DEF LeaseInv, Located
  <1>2. QED
    BY <1>1, LeaseInvariant, PTL

(* No peak is returned for a workload that was killed.                       *)
THEOREM NoPeakAfterKillHolds == Spec => NoPeakAfterKill
  <1>1. LeaseInv /\ [Next]_vars => [killSent => result' = result]_vars
    BY DEF LeaseInv, Staged, Next, vars, kernel, lease, FindRevoked, Raise, MakeLeaf, SetUpLeaf,
       Attach, WriteProcs, ReadBackProcs, CallAwait, Await, Poll, Finalize, CheckEmpty, ReadPeak,
       RecheckEmpty, ReturnPeak, Kill, Cleanup, RemoveLeaf, Charge, Join, ChannelEvent,
       CloseCapability, Exit
  <1>2. QED
    BY <1>1, LeaseInvariant, PTL DEF Spec, NoPeakAfterKill

(* A leaf that was there before is never removed (create_leaf).              *)
THEOREM OthersKeptHolds == Spec => OthersKept
  <1>1. LeaseInv /\ [Next]_vars => [dir = "other" => dir' = "other"]_vars
    BY DEF LeaseInv, Located, Next, vars, kernel, lease, FindRevoked, Raise, MakeLeaf, SetUpLeaf,
       Attach, WriteProcs, ReadBackProcs, CallAwait, Await, Poll, Finalize, CheckEmpty, ReadPeak,
       RecheckEmpty, ReturnPeak, Kill, Cleanup, RemoveLeaf, Charge, Join, ChannelEvent,
       CloseCapability, Exit
  <1>2. QED
    BY <1>1, LeaseInvariant, PTL DEF Spec, OthersKept

(* Once the capability is closed, which lets the supervisor clean up, the    *)
(* lease changes nothing in the session any more.                            *)
THEOREM NothingAfterCloseHolds == Spec => NothingAfterClose
  <1>1. LeaseInv /\ [Next]_vars
           => [authority = "native" /\ cap = "closed" => dir' = dir /\ state' = state]_vars
    BY DEF LeaseInv, Located, Authorised, Next, vars, kernel, lease, FindRevoked, Raise, MakeLeaf,
       SetUpLeaf, Attach, WriteProcs, ReadBackProcs, CallAwait, Await, Poll, Finalize, CheckEmpty,
       ReadPeak, RecheckEmpty, ReturnPeak, Kill, Cleanup, RemoveLeaf, Charge, Join, ChannelEvent,
       CloseCapability, Exit
  <1>2. QED
    BY <1>1, LeaseInvariant, PTL DEF Spec, NothingAfterClose

-----------------------------------------------------------------------------
(* The locks that the operations of a lease take (CapabilityLocks), in a     *)
(* process with several threads.                                             *)

Places == {"idle", "lease", "issuance", "capability", "backend", "closing", "forking", "leaving"}
Calls == {"none", "lease", "access", "close", "fork"}

LocksTyped ==
    /\ capability \in Thread \cup {NoThread} /\ capClosed \in BOOLEAN
    /\ op \in [Thread -> Calls] /\ at \in [Thread -> Places] /\ nested \in [Thread -> Nat]

(* Backend, closing and forking are reached only with the capability's lock. *)
HoldersOnly == \A t \in Thread : at[t] \in {"backend", "closing", "forking"} => capability = t

ForkersFork == \A t \in Thread : at[t] = "forking" => op[t] = "fork"

LocksInv == LocksTyped /\ HoldersOnly /\ ForkersFork

(* The invariant holds initially: nobody has begun anything.                 *)
LEMMA LocksBegin == LocksInit => LocksInv
  <1> SUFFICES ASSUME LocksInit PROVE LocksInv
    OBVIOUS
  <1>1. at \in [Thread -> Places] /\ \A t \in Thread : at[t] = "idle"
    BY DEF LocksInit, Places
  <1>2. op \in [Thread -> Calls] /\ nested \in [Thread -> Nat]
    BY DEF LocksInit, Calls
  <1>3. capability \in Thread \cup {NoThread} /\ capClosed \in BOOLEAN
    BY DEF LocksInit
  <1>4. QED
    BY <1>1, <1>2, <1>3 DEF LocksInv, LocksTyped, HoldersOnly, ForkersFork

(* Every step of a thread keeps it.                                          *)
LEMMA LocksStep ==
    ASSUME LocksInv, NEW t \in Thread, Step(t)
    PROVE  LocksInv'
  <1> USE DEF LocksInv, LocksTyped, HoldersOnly, ForkersFork, Places, Calls, At, To, Owned
  <1>1. CASE Begin(t)
    <2>1. PICK o \in {"lease", "access", "close", "fork"} :
              /\ op' = [op EXCEPT ![t] = o]
              /\ at' = [at EXCEPT ![t] = CASE o = "lease" -> "lease" [] o = "close" -> "capability"
                                           [] OTHER -> "issuance"]
      BY <1>1 DEF Begin
    <2>2. at'[t] \in {"lease", "capability", "issuance"} /\ at' \in [Thread -> Places]
      BY <2>1
    <2>3. \A u \in Thread : u # t => at'[u] = at[u] /\ op'[u] = op[u]
      BY <2>1
    <2>4. nested' \in [Thread -> Nat]
      BY <1>1, LocksAssumption DEF Begin
    <2>5. QED
      BY <1>1, <2>1, <2>2, <2>3, <2>4 DEF Begin
  <1>2. CASE LockLease(t)
    BY <1>2 DEF LockLease
  <1>3. CASE LockIssuance(t)
    BY <1>3 DEF LockIssuance
  <1>4. CASE LockCapability(t)
    BY <1>4, LocksAssumption DEF LockCapability
  <1>5. CASE Nest(t)
    BY <1>5 DEF Nest
  <1>6. CASE RevokeLocked(t) \/ EndBackend(t) \/ CloseLocked(t) \/ ForkNow(t)
    BY <1>6 DEF RevokeLocked, EndBackend, CloseLocked, ForkNow
  <1>7. CASE Leave(t)
    BY <1>7, LocksAssumption DEF Leave
  <1>8. QED
    BY <1>1, <1>2, <1>3, <1>4, <1>5, <1>6, <1>7 DEF Step

(* The invariant holds in every reachable state, for any number of threads.  *)
THEOREM LocksInvariant == LocksSpec => []LocksInv
  <1>1. LocksInv /\ [LocksNext]_locks => LocksInv'
    <2>1. CASE UNCHANGED locks
      BY <2>1 DEF locks, LocksInv, LocksTyped, HoldersOnly, ForkersFork
    <2>2. QED
      BY <2>1, LocksStep DEF LocksNext
  <1>2. QED
    BY <1>1, LocksBegin, PTL DEF LocksSpec

(* fork() happens while no other thread is inside an operation that can use  *)
(* delegated authority (_lock_capabilities_before_fork), for any number of   *)
(* threads and any nesting.                                                  *)
THEOREM ForkSerializedHolds == LocksSpec => []ForkSerialized
  <1>1. LocksInv => ForkSerialized
    BY LocksAssumption DEF LocksInv, LocksTyped, HoldersOnly, ForkersFork, ForkSerialized,
       Inside, At
  <1>2. QED
    BY <1>1, LocksInvariant, PTL
=============================================================================
