------------------------ MODULE SessionCgroup_proofs -------------------------
(* Proofs about SessionCgroup, for any names, children and numbers of runs,  *)
(* attempts and faults: what a run removes is its own, and what a run that   *)
(* reports success leaves.                                                   *)
EXTENDS SessionCgroup, FiniteSetTheorems, TLAPS

(* Between the creation of the session directory and its first open, only    *)
(* the exclusive parent keeps the name what it is.                           *)
OpenedAsMade == "open" \notin OutsiderAt

Abandoned(r) == outcome[r] \in {"killed", "suppressed"}

(* The parts of TypeOK the invariant rests on. *)
CgroupsTyped ==
    /\ entries \in [Name -> 0..Stranger]
    /\ children \in [Run -> SUBSET Child] /\ live \in [Run -> SUBSET ValidLeaf]

RunsTyped ==
    /\ killed \in [Run -> BOOLEAN] /\ holder \in [Run -> {"none", "held", "closed"}]
    /\ outcome \in [Run -> {"none", "ok", "error", "suppressed", "killed"}]

PlaceTyped ==
    /\ run \in Run /\ name \in Name
    /\ pc \in {"qualify", "create", "open", "configure", "handoff", "barrier", "kill", "wait",
               "list", "leaves", "unlink", "ended"}

(* What the name and the identity of the current run stand for. *)
Owned ==
    /\ pc = "open" => entries[name] = run
    /\ pc \notin {"qualify", "create", "open", "ended"} => ident = run
    /\ \A n \in Name : entries[n] \in Run => entries[n] <= run
    /\ \A n \in Name : entries[n] = run => n = name /\ pc \notin {"qualify", "create"}
    /\ pc = "unlink" /\ identified =>
          entries[name] = run \/ ("unlink" \in OutsiderAt /\ NoTrace(run))

(* A run has an outcome when it has ended, and not before. *)
Ended ==
    /\ \A r \in Run : r > run => outcome[r] = "none" /\ holder[r] = "none"
    /\ pc # "ended" => outcome[run] = "none"

(* Who may still start workloads, and whose may be running. *)
Held ==
    /\ \A r \in Run : live[r] # {} => holder[r] # "none"
    /\ \A r \in Run : holder[r] = "held" => Abandoned(r) \/ (r = run /\ pc = "barrier")

Apart ==
    \A r, s \in Run :
        r < s /\ live[r] # {} /\ (holder[s] # "none" \/ (s = run /\ pc \notin {"qualify", "ended"}))
            => Abandoned(r)

SessionInv ==
    /\ OpenedAsMade /\ CgroupsTyped /\ RunsTyped /\ PlaceTyped
    /\ Owned /\ Ended /\ SuccessLeavesNothing /\ Held /\ Apart

(* The invariant holds initially.                                            *)
LEMMA SessionInit == Init /\ OpenedAsMade => SessionInv
  <1> SUFFICES ASSUME Init, OpenedAsMade PROVE SessionInv
    OBVIOUS
  <1>1. CgroupsTyped /\ RunsTyped
    BY SessionAssumption DEF Init, CgroupsTyped, RunsTyped, Stranger, Absent
  <1>2. PlaceTyped
    BY SessionAssumption DEF Init, PlaceTyped, Run
  <1>3. \A n \in Name : entries[n] = Absent
    BY DEF Init
  <1>4. Owned
    BY <1>3 DEF Init, Owned, Run, Absent
  <1>5. \A r \in Run : outcome[r] = "none" /\ holder[r] = "none"
    BY DEF Init
  <1>6. Ended
    BY <1>2, <1>5 DEF Ended, PlaceTyped
  <1>7. SuccessLeavesNothing
    BY <1>5 DEF SuccessLeavesNothing
  <1>8. Held /\ Apart
    BY DEF Init, Held, Apart
  <1>9. QED
    BY <1>1, <1>2, <1>4, <1>6, <1>7, <1>8 DEF SessionInv

(* Every step of the supervisor keeps it.                                    *)
LEMMA SupervisorKeeps == ASSUME SessionInv, Supervisor PROVE SessionInv'
  <1> USE DEF SessionInv, cgroups, host, locals, Run, Stranger, Absent, Child
  <1>1. CASE QualifyParent
    <2>1. CgroupsTyped'
      BY <1>1 DEF QualifyParent, CgroupsTyped
    <2>2. RunsTyped'
      BY <1>1 DEF QualifyParent, Return, Refused, MayFail, Populated, RunsTyped
    <2>3. PlaceTyped'
      BY <1>1 DEF QualifyParent, Return, Refused, MayFail, Populated, PlaceTyped
    <2>4. Owned'
      BY <1>1 DEF QualifyParent, Return, Refused, MayFail, Populated, Owned
    <2>5. Ended'
      BY <1>1, SessionAssumption DEF QualifyParent, Return, Refused, MayFail, Populated, Ended,
         RunsTyped, PlaceTyped, Owned
    <2>6. SuccessLeavesNothing'
      BY <1>1 DEF QualifyParent, Return, Refused, MayFail, Populated, SuccessLeavesNothing, NoTrace,
         RunsTyped
    <2>7. Held'
      BY <1>1 DEF QualifyParent, Return, Refused, MayFail, Populated, Held, Abandoned, CgroupsTyped,
         RunsTyped, PlaceTyped, Owned, Ended
    <2>8. Apart'
      BY <1>1 DEF QualifyParent, Return, Refused, MayFail, Populated, Apart, Held, Abandoned, Ended,
         Owned, CgroupsTyped, RunsTyped, PlaceTyped
    <2>9. QED
      BY <2>1, <2>2, <2>3, <2>4, <2>5, <2>6, <2>7, <2>8 DEF OpenedAsMade
  <1>2. CASE CreateCollides
    <2>1. CgroupsTyped'
      BY <1>2 DEF CreateCollides, CgroupsTyped
    <2>2. RunsTyped'
      BY <1>2 DEF CreateCollides, Return, MayFail, RunsTyped
    <2>3. PlaceTyped'
      BY <1>2 DEF CreateCollides, Return, MayFail, PlaceTyped
    <2>4. Owned'
      BY <1>2 DEF CreateCollides, Return, MayFail, Owned
    <2>5. Ended'
      BY <1>2, SessionAssumption DEF CreateCollides, Return, MayFail, Ended, RunsTyped, PlaceTyped,
         Owned
    <2>6. SuccessLeavesNothing'
      BY <1>2 DEF CreateCollides, Return, MayFail, SuccessLeavesNothing, NoTrace, RunsTyped
    <2>7. Held'
      BY <1>2 DEF CreateCollides, Return, MayFail, Held, Abandoned, CgroupsTyped, RunsTyped,
         PlaceTyped, Owned, Ended
    <2>8. Apart'
      BY <1>2 DEF CreateCollides, Return, MayFail, Apart, Held, Abandoned, Ended, Owned,
         CgroupsTyped, RunsTyped, PlaceTyped
    <2>9. QED
      BY <2>1, <2>2, <2>3, <2>4, <2>5, <2>6, <2>7, <2>8 DEF OpenedAsMade
  <1>3. CASE CreateSession
    <2>1. CgroupsTyped'
      BY <1>3, SessionAssumption DEF CreateSession, Return, MayFail, CgroupsTyped, PlaceTyped, Owned
    <2>2. RunsTyped'
      BY <1>3 DEF CreateSession, Return, MayFail, RunsTyped
    <2>3. PlaceTyped'
      BY <1>3 DEF CreateSession, Return, MayFail, PlaceTyped
    <2>4. Owned'
      <3>1. CASE pc' = "ended"
        BY <1>3, <3>1 DEF CreateSession, Owned, CgroupsTyped, PlaceTyped
      <3>2. CASE pc' = "open"
        <4>1. PICK n \in Name : /\ entries[n] = Absent /\ name' = n
                                /\ entries' = [entries EXCEPT ![n] = run]
          BY <1>3, <3>2 DEF CreateSession, Return
        <4>2. entries'[n] = run /\ \A k \in Name \ {n} : entries'[k] = entries[k] /\ entries[k] # run
          BY <1>3, <4>1 DEF CreateSession, CgroupsTyped, Owned
        <4>3. run' = run /\ run \in Nat
          BY <1>3, SessionAssumption DEF CreateSession, PlaceTyped
        <4>4. QED
          BY <3>2, <4>1, <4>2, <4>3 DEF Owned
      <3>3. QED
        BY <1>3, <3>1, <3>2 DEF CreateSession, Return
    <2>5. Ended'
      BY <1>3, SessionAssumption DEF CreateSession, Return, MayFail, Ended, RunsTyped, PlaceTyped,
         Owned
    <2>6. SuccessLeavesNothing'
      BY <1>3, SessionAssumption DEF CreateSession, Return, MayFail, SuccessLeavesNothing, NoTrace,
         CgroupsTyped, RunsTyped, PlaceTyped, Owned, Ended
    <2>7. Held'
      BY <1>3 DEF CreateSession, Return, MayFail, Held, Abandoned, CgroupsTyped, RunsTyped,
         PlaceTyped, Owned, Ended
    <2>8. Apart'
      BY <1>3 DEF CreateSession, Return, MayFail, Apart, Held, Abandoned, Ended, Owned,
         CgroupsTyped, RunsTyped, PlaceTyped
    <2>9. QED
      BY <2>1, <2>2, <2>3, <2>4, <2>5, <2>6, <2>7, <2>8 DEF OpenedAsMade
  <1>4. CASE OpenSession
    <2>1. CgroupsTyped'
      BY <1>4, SessionAssumption DEF OpenSession, Return, MayFail, CgroupsTyped, PlaceTyped, Owned
    <2>2. RunsTyped'
      BY <1>4 DEF OpenSession, Return, MayFail, RunsTyped
    <2>3. PlaceTyped'
      BY <1>4 DEF OpenSession, Return, MayFail, PlaceTyped
    <2>4. Owned'
      BY <1>4 DEF OpenSession, Return, MayFail, Owned, NoTrace, OpenedAsMade, CgroupsTyped
    <2>5. Ended'
      BY <1>4, SessionAssumption DEF OpenSession, Return, MayFail, Ended, RunsTyped, PlaceTyped,
         Owned
    <2>6. SuccessLeavesNothing'
      BY <1>4, SessionAssumption DEF OpenSession, Return, MayFail, SuccessLeavesNothing, NoTrace,
         CgroupsTyped, RunsTyped, PlaceTyped, Owned, Ended
    <2>7. Held'
      BY <1>4 DEF OpenSession, Return, MayFail, Held, Abandoned, CgroupsTyped, RunsTyped,
         PlaceTyped, Owned, Ended
    <2>8. Apart'
      BY <1>4 DEF OpenSession, Return, MayFail, Apart, Held, Abandoned, Ended, Owned, CgroupsTyped,
         RunsTyped, PlaceTyped
    <2>9. QED
      BY <2>1, <2>2, <2>3, <2>4, <2>5, <2>6, <2>7, <2>8 DEF OpenedAsMade
  <1>5. CASE ConfigureSession
    <2>1. CgroupsTyped'
      BY <1>5 DEF ConfigureSession, CgroupsTyped
    <2>2. RunsTyped'
      BY <1>5 DEF ConfigureSession, CleanUp, NamesSession, MayFail, Populated, RunsTyped
    <2>3. PlaceTyped'
      BY <1>5 DEF ConfigureSession, CleanUp, NamesSession, MayFail, Populated, PlaceTyped
    <2>4. Owned'
      BY <1>5 DEF ConfigureSession, CleanUp, NamesSession, MayFail, Populated, Owned
    <2>5. Ended'
      BY <1>5 DEF ConfigureSession, CleanUp, NamesSession, MayFail, Populated, Ended
    <2>6. SuccessLeavesNothing'
      BY <1>5 DEF ConfigureSession, CleanUp, NamesSession, MayFail, Populated, SuccessLeavesNothing,
         NoTrace
    <2>7. Held'
      BY <1>5 DEF ConfigureSession, CleanUp, NamesSession, MayFail, Populated, Held, Abandoned
    <2>8. Apart'
      BY <1>5 DEF ConfigureSession, CleanUp, NamesSession, MayFail, Populated, Apart, Abandoned
    <2>9. QED
      BY <2>1, <2>2, <2>3, <2>4, <2>5, <2>6, <2>7, <2>8 DEF OpenedAsMade
  <1>6. CASE HandOff
    <2>1. CgroupsTyped'
      BY <1>6 DEF HandOff, CgroupsTyped
    <2>2. RunsTyped'
      BY <1>6 DEF HandOff, CleanUp, RunsTyped
    <2>3. PlaceTyped'
      BY <1>6 DEF HandOff, CleanUp, PlaceTyped
    <2>4. Owned'
      BY <1>6 DEF HandOff, CleanUp, Owned
    <2>5. Ended'
      BY <1>6, SessionAssumption DEF HandOff, CleanUp, Ended, RunsTyped, PlaceTyped, Owned
    <2>6. SuccessLeavesNothing'
      BY <1>6 DEF HandOff, CleanUp, SuccessLeavesNothing, NoTrace
    <2>7. Held'
      BY <1>6 DEF HandOff, CleanUp, Held, Abandoned, CgroupsTyped, RunsTyped, PlaceTyped, Owned,
         Ended
    <2>8. Apart'
      BY <1>6 DEF HandOff, CleanUp, Apart, Held, Abandoned, Ended, Owned, CgroupsTyped, RunsTyped,
         PlaceTyped
    <2>9. QED
      BY <2>1, <2>2, <2>3, <2>4, <2>5, <2>6, <2>7, <2>8 DEF OpenedAsMade
  <1>7. CASE Barrier
    <2>1. CgroupsTyped'
      BY <1>7 DEF Barrier, CgroupsTyped
    <2>2. RunsTyped'
      BY <1>7 DEF Barrier, CleanUp, Return, RunsTyped
    <2>3. PlaceTyped'
      BY <1>7 DEF Barrier, CleanUp, Return, PlaceTyped
    <2>4. Owned'
      BY <1>7 DEF Barrier, CleanUp, Return, Owned
    <2>5. Ended'
      <3>1. run' = run /\ holder' = holder /\ \A r \in Run : r # run => outcome'[r] = outcome[r]
        BY <1>7 DEF Barrier, CleanUp, Return, RunsTyped
      <3>2. pc' # "ended" => outcome' = outcome
        BY <1>7 DEF Barrier, CleanUp, Return
      <3>3. QED
        BY <1>7, <3>1, <3>2 DEF Barrier, Ended, PlaceTyped
    <2>6. SuccessLeavesNothing'
      <3>1. UNCHANGED <<entries, children, live>>
        BY <1>7 DEF Barrier
      <3>2. \A r \in Run : outcome'[r] = "ok" => outcome[r] = "ok"
        BY <1>7 DEF Barrier, CleanUp, Return, RunsTyped
      <3>3. QED
        BY <3>1, <3>2 DEF SuccessLeavesNothing, NoTrace
    <2>7. Held'
      BY <1>7 DEF Barrier, CleanUp, Return, Held, Abandoned, CgroupsTyped, RunsTyped, PlaceTyped,
         Owned, Ended
    <2>8. Apart'
      BY <1>7 DEF Barrier, CleanUp, Return, Apart, Abandoned, RunsTyped
    <2>9. QED
      BY <2>1, <2>2, <2>3, <2>4, <2>5, <2>6, <2>7, <2>8 DEF OpenedAsMade
  <1>8. CASE Kill
    <2>1. CgroupsTyped'
      BY <1>8 DEF Kill, CgroupsTyped
    <2>2. RunsTyped'
      BY <1>8 DEF Kill, RunsTyped
    <2>3. PlaceTyped'
      BY <1>8 DEF Kill, PlaceTyped
    <2>4. Owned'
      BY <1>8 DEF Kill, Owned
    <2>5. Ended'
      BY <1>8 DEF Kill, Ended
    <2>6. SuccessLeavesNothing'
      BY <1>8 DEF Kill, Record, MayFail, SuccessLeavesNothing, NoTrace
    <2>7. Held'
      BY <1>8 DEF Kill, Record, MayFail, Held, Abandoned
    <2>8. Apart'
      BY <1>8 DEF Kill, Record, MayFail, Apart, Abandoned
    <2>9. QED
      BY <2>1, <2>2, <2>3, <2>4, <2>5, <2>6, <2>7, <2>8 DEF OpenedAsMade
  <1>9. CASE WaitUntilUnpopulated
    <2>1. CgroupsTyped'
      BY <1>9 DEF WaitUntilUnpopulated, CgroupsTyped
    <2>2. RunsTyped'
      BY <1>9 DEF WaitUntilUnpopulated, RunsTyped
    <2>3. PlaceTyped'
      BY <1>9 DEF WaitUntilUnpopulated, PlaceTyped
    <2>4. Owned'
      BY <1>9 DEF WaitUntilUnpopulated, Owned
    <2>5. Ended'
      BY <1>9 DEF WaitUntilUnpopulated, Ended
    <2>6. SuccessLeavesNothing'
      BY <1>9 DEF WaitUntilUnpopulated, Record, MayFail, MayTimeOut, Populated,
         SuccessLeavesNothing, NoTrace
    <2>7. Held'
      BY <1>9 DEF WaitUntilUnpopulated, Record, MayFail, MayTimeOut, Populated, Held, Abandoned
    <2>8. Apart'
      BY <1>9 DEF WaitUntilUnpopulated, Record, MayFail, MayTimeOut, Populated, Apart, Abandoned
    <2>9. QED
      BY <2>1, <2>2, <2>3, <2>4, <2>5, <2>6, <2>7, <2>8 DEF OpenedAsMade
  <1>10. CASE ListDirectChildren
    <2>1. CgroupsTyped'
      BY <1>10 DEF ListDirectChildren, CgroupsTyped
    <2>2. RunsTyped'
      BY <1>10 DEF ListDirectChildren, RunsTyped
    <2>3. PlaceTyped'
      BY <1>10 DEF ListDirectChildren, PlaceTyped
    <2>4. Owned'
      BY <1>10 DEF ListDirectChildren, Owned
    <2>5. Ended'
      BY <1>10 DEF ListDirectChildren, Ended
    <2>6. SuccessLeavesNothing'
      BY <1>10 DEF ListDirectChildren, Record, MayFail, SuccessLeavesNothing, NoTrace
    <2>7. Held'
      BY <1>10 DEF ListDirectChildren, Record, MayFail, Held, Abandoned
    <2>8. Apart'
      BY <1>10 DEF ListDirectChildren, Record, MayFail, Apart, Abandoned
    <2>9. QED
      BY <2>1, <2>2, <2>3, <2>4, <2>5, <2>6, <2>7, <2>8 DEF OpenedAsMade
  <1>11. CASE VisitEntry
    <2>1. CgroupsTyped'
      BY <1>11 DEF VisitEntry, CgroupsTyped
    <2>2. RunsTyped'
      BY <1>11 DEF VisitEntry, RunsTyped
    <2>3. PlaceTyped'
      BY <1>11 DEF VisitEntry, PlaceTyped
    <2>4. Owned'
      BY <1>11 DEF VisitEntry, Owned
    <2>5. Ended'
      BY <1>11 DEF VisitEntry, Ended
    <2>6. SuccessLeavesNothing'
      BY <1>11 DEF VisitEntry, Record, MayFail, LeafRemovable, SuccessLeavesNothing, NoTrace,
         CgroupsTyped
    <2>7. Held'
      BY <1>11 DEF VisitEntry, Record, MayFail, LeafRemovable, Held, Abandoned
    <2>8. Apart'
      BY <1>11 DEF VisitEntry, Record, MayFail, LeafRemovable, Apart, Abandoned
    <2>9. QED
      BY <2>1, <2>2, <2>3, <2>4, <2>5, <2>6, <2>7, <2>8 DEF OpenedAsMade
  <1>12. CASE ValidateIdentity
    <2>1. CgroupsTyped'
      BY <1>12 DEF ValidateIdentity, CgroupsTyped
    <2>2. RunsTyped'
      BY <1>12 DEF ValidateIdentity, RunsTyped
    <2>3. PlaceTyped'
      BY <1>12 DEF ValidateIdentity, PlaceTyped
    <2>4. Owned'
      BY <1>12 DEF ValidateIdentity, Record, MayFail, NamesSession, Owned
    <2>5. Ended'
      BY <1>12 DEF ValidateIdentity, Ended
    <2>6. SuccessLeavesNothing'
      BY <1>12 DEF ValidateIdentity, Record, MayFail, NamesSession, SuccessLeavesNothing, NoTrace
    <2>7. Held'
      BY <1>12 DEF ValidateIdentity, Record, MayFail, NamesSession, Held, Abandoned
    <2>8. Apart'
      BY <1>12 DEF ValidateIdentity, Record, MayFail, NamesSession, Apart, Abandoned
    <2>9. QED
      BY <2>1, <2>2, <2>3, <2>4, <2>5, <2>6, <2>7, <2>8 DEF OpenedAsMade
  <1>13. CASE RemoveSessionRoot
    <2>1. CgroupsTyped'
      BY <1>13, SessionAssumption DEF RemoveSessionRoot, FinishLifecycle, Return, MayFail,
         Removable, CgroupsTyped, PlaceTyped, Owned
    <2>2. RunsTyped'
      BY <1>13, SessionAssumption DEF RemoveSessionRoot, FinishLifecycle, Return, MayFail,
         Removable, RunsTyped, PlaceTyped, Owned
    <2>3. PlaceTyped'
      BY <1>13 DEF RemoveSessionRoot, FinishLifecycle, Return, MayFail, Removable, PlaceTyped
    <2>4. Owned'
      BY <1>13 DEF RemoveSessionRoot, FinishLifecycle, Return, MayFail, Removable, Owned, NoTrace,
         OpenedAsMade, CgroupsTyped
    <2>5. Ended'
      <3>1. run' = run /\ holder' = holder /\ \A r \in Run : r # run => outcome'[r] = outcome[r]
        BY <1>13 DEF RemoveSessionRoot, FinishLifecycle, Return, RunsTyped
      <3>2. pc' # "ended" => outcome' = outcome
        BY <1>13 DEF RemoveSessionRoot, FinishLifecycle, Return
      <3>3. QED
        BY <1>13, <3>1, <3>2 DEF RemoveSessionRoot, Ended, PlaceTyped
    <2>6. SuccessLeavesNothing'
      BY <1>13, SessionAssumption DEF RemoveSessionRoot, FinishLifecycle, Return, MayFail,
         Removable, SuccessLeavesNothing, NoTrace, CgroupsTyped, RunsTyped, PlaceTyped, Owned, Ended
    <2>7. Held'
      BY <1>13 DEF RemoveSessionRoot, FinishLifecycle, Return, MayFail, Removable, Held, Abandoned,
         CgroupsTyped, RunsTyped, PlaceTyped, Owned, Ended
    <2>8. Apart'
      BY <1>13 DEF RemoveSessionRoot, FinishLifecycle, Return, MayFail, Removable, Apart, Held,
         Abandoned, Ended, Owned, CgroupsTyped, RunsTyped, PlaceTyped
    <2>9. QED
      BY <2>1, <2>2, <2>3, <2>4, <2>5, <2>6, <2>7, <2>8 DEF OpenedAsMade
  <1>14. QED
    BY <1>1, <1>2, <1>3, <1>4, <1>5, <1>6, <1>7, <1>8, <1>9, <1>10, <1>11, <1>12, <1>13 DEF
       Supervisor

(* So does every step of its host, its coordinator and outsiders.            *)
LEMMA EnvironmentKeeps == ASSUME SessionInv, Environment \/ UNCHANGED vars PROVE SessionInv'
  <1> USE DEF SessionInv, cgroups, host, locals, Run, Stranger, Absent, Child
  <1>1. CASE Killed9
    <2>1. CgroupsTyped'
      BY <1>1 DEF Killed9, CgroupsTyped
    <2>2. RunsTyped'
      BY <1>1 DEF Killed9, Return, RunsTyped
    <2>3. PlaceTyped'
      BY <1>1 DEF Killed9, Return, PlaceTyped
    <2>4. Owned'
      BY <1>1 DEF Killed9, Return, Owned
    <2>5. Ended'
      BY <1>1 DEF Killed9, Return, Ended
    <2>6. SuccessLeavesNothing'
      BY <1>1 DEF Killed9, Return, SuccessLeavesNothing, NoTrace
    <2>7. Held'
      BY <1>1 DEF Killed9, Return, Held, Abandoned, RunsTyped
    <2>8. Apart'
      BY <1>1 DEF Killed9, Return, Apart, Abandoned
    <2>9. QED
      BY <2>1, <2>2, <2>3, <2>4, <2>5, <2>6, <2>7, <2>8 DEF OpenedAsMade
  <1>2. CASE Restart
    <2>1. CgroupsTyped'
      BY <1>2 DEF Restart, CgroupsTyped
    <2>2. RunsTyped'
      BY <1>2 DEF Restart, RunsTyped
    <2>3. PlaceTyped'
      BY <1>2, SessionAssumption DEF Restart, Start, PlaceTyped
    <2>4. Owned'
      BY <1>2, SessionAssumption DEF Restart, Start, Owned, CgroupsTyped, PlaceTyped, NoTrace,
         OpenedAsMade
    <2>5. Ended'
      BY <1>2, SessionAssumption DEF Restart, Start, Ended, RunsTyped, PlaceTyped, Owned
    <2>6. SuccessLeavesNothing'
      BY <1>2 DEF Restart, Start, SuccessLeavesNothing, NoTrace
    <2>7. Held'
      BY <1>2 DEF Restart, Start, Held, Abandoned
    <2>8. Apart'
      BY <1>2 DEF Restart, Start, Apart, Abandoned
    <2>9. QED
      BY <2>1, <2>2, <2>3, <2>4, <2>5, <2>6, <2>7, <2>8 DEF OpenedAsMade
  <1>3. CASE \E r \in Run : Release(r)
    <2>0. PICK r \in Run : Release(r)
      BY <1>3
    <2>1. CgroupsTyped'
      BY <2>0 DEF Release, CgroupsTyped
    <2>2. RunsTyped'
      BY <2>0 DEF Release, RunsTyped
    <2>3. PlaceTyped'
      BY <2>0 DEF Release, PlaceTyped
    <2>4. Owned'
      BY <2>0 DEF Release, Owned, NoTrace, OpenedAsMade
    <2>5. Ended'
      BY <2>0 DEF Release, Ended
    <2>6. SuccessLeavesNothing'
      BY <2>0 DEF Release, SuccessLeavesNothing, NoTrace
    <2>7. Held'
      BY <2>0 DEF Release, Held, Abandoned
    <2>8. Apart'
      BY <2>0 DEF Release, Apart, Abandoned
    <2>9. QED
      BY <2>1, <2>2, <2>3, <2>4, <2>5, <2>6, <2>7, <2>8 DEF OpenedAsMade
  <1>4. CASE \E r \in Run, e \in ValidLeaf : MakeLeaf(r, e)
    <2>0. PICK r \in Run, e \in ValidLeaf : MakeLeaf(r, e)
      BY <1>4
    <2>1. CgroupsTyped'
      BY <2>0 DEF MakeLeaf, CgroupsTyped
    <2>2. RunsTyped'
      BY <2>0 DEF MakeLeaf, RunsTyped
    <2>3. PlaceTyped'
      BY <2>0 DEF MakeLeaf, PlaceTyped
    <2>4. Owned'
      BY <2>0 DEF MakeLeaf, Visible, Owned, NoTrace, OpenedAsMade
    <2>5. Ended'
      BY <2>0 DEF MakeLeaf, Ended
    <2>6. SuccessLeavesNothing'
      BY <2>0 DEF MakeLeaf, Visible, SuccessLeavesNothing, NoTrace
    <2>7. Held'
      BY <2>0 DEF MakeLeaf, Visible, Held, Abandoned
    <2>8. Apart'
      BY <2>0 DEF MakeLeaf, Visible, Apart, Abandoned
    <2>9. QED
      BY <2>1, <2>2, <2>3, <2>4, <2>5, <2>6, <2>7, <2>8 DEF OpenedAsMade
  <1>5. CASE \E r \in Run, e \in ValidLeaf : Spawn(r, e)
    <2>0. PICK r \in Run, e \in ValidLeaf : Spawn(r, e)
      BY <1>5
    <2>1. CgroupsTyped'
      BY <2>0 DEF Spawn, CgroupsTyped
    <2>2. RunsTyped'
      BY <2>0 DEF Spawn, RunsTyped
    <2>3. PlaceTyped'
      BY <2>0 DEF Spawn, PlaceTyped
    <2>4. Owned'
      BY <2>0 DEF Spawn, Owned, NoTrace, OpenedAsMade
    <2>5. Ended'
      BY <2>0 DEF Spawn, Ended
    <2>6. SuccessLeavesNothing'
      BY <2>0 DEF Spawn, SuccessLeavesNothing, NoTrace
    <2>7. Held'
      BY <2>0 DEF Spawn, Held, Abandoned
    <2>8. Apart'
      BY <2>0 DEF Spawn, Apart, Held, Abandoned, Ended, Owned, CgroupsTyped, RunsTyped, PlaceTyped
    <2>9. QED
      BY <2>1, <2>2, <2>3, <2>4, <2>5, <2>6, <2>7, <2>8 DEF OpenedAsMade
  <1>6. CASE \E r \in Run, e \in ValidLeaf : DropLeaf(r, e)
    <2>0. PICK r \in Run, e \in ValidLeaf : DropLeaf(r, e)
      BY <1>6
    <2>1. CgroupsTyped'
      BY <2>0 DEF DropLeaf, CgroupsTyped
    <2>2. RunsTyped'
      BY <2>0 DEF DropLeaf, RunsTyped
    <2>3. PlaceTyped'
      BY <2>0 DEF DropLeaf, PlaceTyped
    <2>4. Owned'
      BY <2>0 DEF DropLeaf, Owned, NoTrace, OpenedAsMade
    <2>5. Ended'
      BY <2>0 DEF DropLeaf, Ended
    <2>6. SuccessLeavesNothing'
      BY <2>0 DEF DropLeaf, SuccessLeavesNothing, NoTrace
    <2>7. Held'
      BY <2>0 DEF DropLeaf, Held, Abandoned
    <2>8. Apart'
      BY <2>0 DEF DropLeaf, Apart, Abandoned
    <2>9. QED
      BY <2>1, <2>2, <2>3, <2>4, <2>5, <2>6, <2>7, <2>8 DEF OpenedAsMade
  <1>7. CASE \E r \in Run, e \in ValidLeaf : Die(r, e)
    <2>0. PICK r \in Run, e \in ValidLeaf : Die(r, e)
      BY <1>7
    <2>1. CgroupsTyped'
      BY <2>0 DEF Die, CgroupsTyped
    <2>2. RunsTyped'
      BY <2>0 DEF Die, RunsTyped
    <2>3. PlaceTyped'
      BY <2>0 DEF Die, PlaceTyped
    <2>4. Owned'
      BY <2>0 DEF Die, Owned, NoTrace, OpenedAsMade
    <2>5. Ended'
      BY <2>0 DEF Die, Ended
    <2>6. SuccessLeavesNothing'
      BY <2>0 DEF Die, SuccessLeavesNothing, NoTrace
    <2>7. Held'
      BY <2>0 DEF Die, Held, Abandoned
    <2>8. Apart'
      BY <2>0 DEF Die, Apart, Abandoned
    <2>9. QED
      BY <2>1, <2>2, <2>3, <2>4, <2>5, <2>6, <2>7, <2>8 DEF OpenedAsMade
  <1>8. CASE \E r \in Run, e \in MalformedLeaf \cup OtherChild : StrangeChild(r, e)
    <2>0. PICK r \in Run, e \in MalformedLeaf \cup OtherChild : StrangeChild(r, e)
      BY <1>8
    <2>1. CgroupsTyped'
      BY <2>0 DEF StrangeChild, Meddle, Visible, CgroupsTyped
    <2>2. RunsTyped'
      BY <2>0 DEF StrangeChild, Meddle, Visible, RunsTyped
    <2>3. PlaceTyped'
      BY <2>0 DEF StrangeChild, Meddle, Visible, PlaceTyped
    <2>4. Owned'
      BY <2>0 DEF StrangeChild, Meddle, Visible, Owned, NoTrace, OpenedAsMade
    <2>5. Ended'
      BY <2>0 DEF StrangeChild, Meddle, Visible, Ended
    <2>6. SuccessLeavesNothing'
      BY <2>0 DEF StrangeChild, Meddle, Visible, SuccessLeavesNothing, NoTrace
    <2>7. Held'
      BY <2>0 DEF StrangeChild, Meddle, Visible, Held, Abandoned
    <2>8. Apart'
      BY <2>0 DEF StrangeChild, Meddle, Visible, Apart, Abandoned
    <2>9. QED
      BY <2>1, <2>2, <2>3, <2>4, <2>5, <2>6, <2>7, <2>8 DEF OpenedAsMade
  <1>9. CASE \E n \in Name : Swap(n)
    <2>0. PICK n \in Name : Swap(n)
      BY <1>9
    <2>1. CgroupsTyped'
      BY <2>0, SessionAssumption DEF Swap, Meddle, Removable, CgroupsTyped, PlaceTyped, Owned
    <2>2. RunsTyped'
      BY <2>0 DEF Swap, Meddle, Removable, RunsTyped
    <2>3. PlaceTyped'
      BY <2>0 DEF Swap, Meddle, Removable, PlaceTyped
    <2>4. Owned'
      BY <2>0, SessionAssumption DEF Swap, Meddle, Removable, Owned, CgroupsTyped, PlaceTyped,
         NoTrace, OpenedAsMade
    <2>5. Ended'
      BY <2>0 DEF Swap, Meddle, Removable, Ended
    <2>6. SuccessLeavesNothing'
      BY <2>0, SessionAssumption DEF Swap, Meddle, Removable, SuccessLeavesNothing, NoTrace,
         CgroupsTyped, RunsTyped, PlaceTyped, Owned, Ended
    <2>7. Held'
      BY <2>0 DEF Swap, Meddle, Removable, Held, Abandoned
    <2>8. Apart'
      BY <2>0 DEF Swap, Meddle, Removable, Apart, Abandoned
    <2>9. QED
      BY <2>1, <2>2, <2>3, <2>4, <2>5, <2>6, <2>7, <2>8 DEF OpenedAsMade
  <1>10. CASE UNCHANGED vars
    <2>1. CgroupsTyped'
      BY <1>10 DEF vars, CgroupsTyped
    <2>2. RunsTyped'
      BY <1>10 DEF vars, RunsTyped
    <2>3. PlaceTyped'
      BY <1>10 DEF vars, PlaceTyped
    <2>4. Owned'
      BY <1>10 DEF vars, Owned, NoTrace, OpenedAsMade
    <2>5. Ended'
      BY <1>10 DEF vars, Ended
    <2>6. SuccessLeavesNothing'
      BY <1>10 DEF vars, SuccessLeavesNothing, NoTrace
    <2>7. Held'
      BY <1>10 DEF vars, Held, Abandoned
    <2>8. Apart'
      BY <1>10 DEF vars, Apart, Abandoned
    <2>9. QED
      BY <2>1, <2>2, <2>3, <2>4, <2>5, <2>6, <2>7, <2>8 DEF OpenedAsMade
  <1>11. QED
    BY <1>1, <1>2, <1>3, <1>4, <1>5, <1>6, <1>7, <1>8, <1>9, <1>10 DEF Environment

(* The invariant holds in every reachable state.                             *)
THEOREM SessionInvariant == Spec /\ OpenedAsMade => []SessionInv
  <1>1. SessionInv /\ [Next]_vars => SessionInv'
    BY SupervisorKeeps, EnvironmentKeeps DEF Next
  <1>2. QED
    BY SessionInit, <1>1, PTL DEF Spec

(* A run that reports success left no directory, leaf or process behind.     *)
THEOREM SuccessLeavesNothingHolds == Spec /\ OpenedAsMade => []SuccessLeavesNothing
  <1>1. SessionInv => SuccessLeavesNothing
    BY DEF SessionInv
  <1>2. QED
    BY <1>1, SessionInvariant, PTL

(* Workloads of two sessions run at once only if the earlier supervisor was  *)
(* killed or gave its session up.                                            *)
THEOREM NoOverlapHolds == Spec /\ OpenedAsMade => []NoOverlap
  <1>1. SessionInv => NoOverlap
    BY DEF SessionInv, Held, Apart, Abandoned, NoOverlap
  <1>2. QED
    BY <1>1, SessionInvariant, PTL

(* A run kills and removes only the session it made itself, given that the   *)
(* exclusive parent keeps the name between the last check and the removal.   *)
THEOREM OwnSessionOnlyHolds ==
    Spec /\ OpenedAsMade /\ "unlink" \notin OutsiderAt => OwnSessionOnly
  <1> SUFFICES ASSUME "unlink" \notin OutsiderAt PROVE Spec /\ OpenedAsMade => OwnSessionOnly
    OBVIOUS
  <1> DEFINE Own == /\ \A r \in Run \ {run} : killed'[r] = killed[r]
                    /\ \A n \in Name : entries'[n] = Absent => entries[n] \in {Absent, run}
  <1>1. ASSUME SessionInv, Next \/ UNCHANGED vars PROVE Own
    <2>1. CASE Kill
      <3>1. ident = run /\ UNCHANGED entries
        BY <1>1, <2>1 DEF SessionInv, Owned, Kill
      <3>2. QED
        BY <1>1, <2>1, <3>1 DEF SessionInv, RunsTyped, Kill
    <2>2. CASE CreateSession \/ OpenSession \/ RemoveSessionRoot
      <3>1. UNCHANGED killed
        BY <2>2 DEF CreateSession, OpenSession, RemoveSessionRoot
      <3>2. run # Absent
        BY <1>1, SessionAssumption DEF SessionInv, PlaceTyped, Run, Absent
      <3>3. QED
        BY <1>1, <2>2, <3>1, <3>2 DEF SessionInv, Owned, CgroupsTyped, CreateSession, OpenSession,
           RemoveSessionRoot
    <2>3. CASE \E n \in Name : Swap(n)
      BY <1>1, <2>3, SessionAssumption DEF SessionInv, CgroupsTyped, Swap, Meddle, Stranger, Absent
    <2>4. CASE UNCHANGED <<entries, killed>>
      BY <2>4
    <2>5. CASE Supervisor /\ ~(Kill \/ CreateSession \/ OpenSession \/ RemoveSessionRoot)
      <3>1. UNCHANGED <<entries, killed>>
        BY <2>5 DEF Supervisor, cgroups, QualifyParent, CreateCollides, ConfigureSession, HandOff,
           Barrier, WaitUntilUnpopulated, ListDirectChildren, VisitEntry, ValidateIdentity
      <3>2. QED
        BY <2>4, <3>1
    <2>6. CASE Environment /\ ~\E n \in Name : Swap(n)
      <3>1. UNCHANGED <<entries, killed>>
        BY <2>6 DEF Environment, cgroups, Killed9, Restart, MakeLeaf, Spawn, DropLeaf, Release, Die,
           StrangeChild, Meddle
      <3>2. QED
        BY <2>4, <3>1
    <2>7. CASE UNCHANGED vars
      BY <2>4, <2>7 DEF vars, cgroups
    <2>8. QED
      BY <1>1, <2>1, <2>2, <2>3, <2>5, <2>6, <2>7 DEF Next
  <1>2. SessionInv /\ [Next]_vars => [Own]_vars
    BY <1>1
  <1>3. QED
    BY <1>2, SessionInvariant, PTL DEF Spec, OwnSessionOnly
-----------------------------------------------------------------------------
(* Where no call fails, a run that cleans up leaves nothing behind.          *)

(* The session at hand holds no more leaves than cleanup is ready to list.   *)
FewLeaves ==
    children[run] \subseteq ValidLeaf =>
        IsFiniteSet(children[run]) /\ Cardinality(children[run]) <= MaxEntries

(* Nothing is made in a session before it is there.                          *)
Unused ==
    \A r \in Run : r > run \/ (r = run /\ pc \in {"qualify", "create"}) =>
        children[r] = {} /\ live[r] = {}

(* How far cleanup has come, when no call fails: the name is lost only with  *)
(* an empty session, and each stage leaves to the next what it has to find.  *)
Clearing ==
    failing = {} =>
        /\ pc \notin {"qualify", "create", "open", "ended"} => entries[name] = run \/ NoTrace(run)
        /\ pc \in {"list", "leaves", "unlink"} => live[run] = {}
        /\ pc = "leaves" /\ children[run] \subseteq ValidLeaf =>
              enumerated /\ children[run] \subseteq todo
        /\ pc = "unlink" /\ children[run] \subseteq ValidLeaf => enumerated /\ children[run] = {}
        /\ pc = "unlink" /\ ~identified => NoTrace(run)

Cleared == Unused /\ Clearing /\ CleanupRemovesAll

(* The steps of the supervisor up to the barrier, which end a run with an    *)
(* error only before there is a session.                                     *)
LEMMA SetupClears ==
    ASSUME SessionInv, SessionInv', Cleared,
           QualifyParent \/ CreateCollides \/ CreateSession \/ OpenSession \/ ConfigureSession
           \/ HandOff \/ Barrier
    PROVE  Cleared'
<1> USE DEF cgroups, host, locals, MayFail
<1>a. /\ run \in Run /\ name \in Name /\ Owned /\ CgroupsTyped /\ RunsTyped /\ PlaceTyped /\ Ended
      /\ Unused /\ Clearing /\ CleanupRemovesAll
  BY DEF SessionInv, Cleared, PlaceTyped
<1>b. /\ UNCHANGED <<children, live, failing, run>>
      /\ pc \in {"qualify", "create", "open", "configure", "handoff", "barrier"}
  BY DEF QualifyParent, CreateCollides, CreateSession, OpenSession, ConfigureSession, HandOff, Barrier
<1>1. CASE QualifyParent \/ CreateCollides
  <2>1. /\ UNCHANGED <<entries, name>> /\ pc \in {"qualify", "create"}
        /\ \/ pc' \in {"qualify", "create"} /\ outcome' = outcome
           \/ pc' = "ended" /\ outcome' = [outcome EXCEPT ![run] = "error"]
    BY <1>1, <1>a DEF QualifyParent, CreateCollides, Return, PlaceTyped
  <2>2. NoTrace(run) BY <1>a, <2>1 DEF Owned, Unused, NoTrace
  <2>3. Unused' BY <1>a, <1>b, <2>1 DEF Unused
  <2>4. Clearing' BY <1>a, <1>b, <2>1 DEF Clearing, NoTrace
  <2>5. CleanupRemovesAll'
    BY <1>a, <1>b, <2>1, <2>2 DEF CleanupRemovesAll, NoTrace, RunsTyped
  <2> QED BY <2>3, <2>4, <2>5 DEF Cleared
<1>2. CASE CreateSession
  <2>1. pc = "create" BY <1>2 DEF CreateSession
  <2>2. CASE pc' = "ended"
    <3>1. UNCHANGED <<entries, name>> /\ outcome' = [outcome EXCEPT ![run] = "error"]
      BY <1>2, <2>2 DEF CreateSession, Return
    <3>2. NoTrace(run) BY <1>a, <2>1 DEF Owned, Unused, NoTrace
    <3>3. Unused' BY <1>a, <1>b, <2>1, <2>2 DEF Unused
    <3>4. Clearing' BY <2>2 DEF Clearing
    <3>5. CleanupRemovesAll'
      BY <1>a, <1>b, <3>1, <3>2 DEF CleanupRemovesAll, NoTrace, RunsTyped
    <3> QED BY <3>3, <3>4, <3>5 DEF Cleared
  <2>3. CASE pc' = "open"
    <3>1. PICK n \in Name : entries' = [entries EXCEPT ![n] = run] /\ outcome' = outcome
      BY <1>2, <2>3 DEF CreateSession, Return
    <3>2. Unused' BY <1>a, <1>b, <2>1, <2>3 DEF Unused
    <3>3. Clearing' BY <2>3 DEF Clearing
    <3>4. outcome[run] = "none" BY <1>a, <2>1 DEF Ended
    <3>5. CleanupRemovesAll'
      BY <1>a, <1>b, <3>1, <3>4 DEF CleanupRemovesAll, NoTrace, CgroupsTyped
    <3> QED BY <3>2, <3>3, <3>5 DEF Cleared
  <2> QED BY <1>2, <2>2, <2>3 DEF CreateSession, Return
<1>3. CASE OpenSession
  <2>1. pc = "open" /\ entries[name] = run /\ UNCHANGED name BY <1>3, <1>a DEF OpenSession, Owned
  <2>2. Unused' BY <1>a, <1>b, <1>3, <2>1 DEF Unused, OpenSession, Return
  <2>3. CASE failing # {} BY <1>b, <2>2, <2>3 DEF Cleared, Clearing, CleanupRemovesAll
  <2>4. CASE failing = {}
    <3>1. UNCHANGED <<entries, outcome>> /\ pc' = "configure" BY <1>3, <2>4 DEF OpenSession
    <3>2. Clearing' BY <1>b, <2>1, <3>1 DEF Clearing
    <3>3. CleanupRemovesAll' BY <1>a, <1>b, <3>1 DEF CleanupRemovesAll, NoTrace
    <3> QED BY <2>2, <3>2, <3>3 DEF Cleared
  <2> QED BY <2>3, <2>4
<1>4. CASE ConfigureSession \/ HandOff \/ Barrier
  <2>1. /\ UNCHANGED <<entries, name>> /\ pc \in {"configure", "handoff", "barrier"}
        /\ \/ pc' \in {"handoff", "barrier", "kill"} /\ outcome' = outcome
           \/ pc' = "ended" /\ outcome' = [outcome EXCEPT ![run] = "suppressed"]
    BY <1>4 DEF ConfigureSession, HandOff, Barrier, Return, CleanUp
  <2>2. Unused' BY <1>a, <1>b, <2>1 DEF Unused
  <2>3. Clearing' BY <1>a, <1>b, <2>1 DEF Clearing, NoTrace
  <2>4. CleanupRemovesAll' BY <1>a, <1>b, <2>1 DEF CleanupRemovesAll, NoTrace, RunsTyped
  <2> QED BY <2>2, <2>3, <2>4 DEF Cleared
<1> QED BY <1>1, <1>2, <1>3, <1>4

(* Session::cleanup: each stage finds what the one before it left.           *)
LEMMA CleanupClears ==
    ASSUME SessionInv, SessionInv', Cleared, FewLeaves,
           Kill \/ WaitUntilUnpopulated \/ ListDirectChildren \/ VisitEntry \/ ValidateIdentity
           \/ RemoveSessionRoot
    PROVE  Cleared'
<1> USE DEF cgroups, host, locals, MayFail, MayTimeOut
<1>a. /\ run \in Run /\ name \in Name /\ Owned /\ CgroupsTyped /\ RunsTyped /\ PlaceTyped /\ Ended
      /\ Unused /\ Clearing /\ CleanupRemovesAll
  BY DEF SessionInv, Cleared, PlaceTyped
<1>b. /\ UNCHANGED <<live, failing, run, name>>
      /\ pc \in {"kill", "wait", "list", "leaves", "unlink"} /\ ident = run
  BY <1>a DEF Kill, WaitUntilUnpopulated, ListDirectChildren, VisitEntry, ValidateIdentity,
              RemoveSessionRoot, Owned
<1>c. Unused'
  <2>1. \A r \in Run : r > run => children'[r] = children[r]
    <3>1. run \in Nat BY <1>a, SessionAssumption DEF Run
    <3>2. CASE VisitEntry
      BY <1>a, <1>b, <3>1, <3>2 DEF VisitEntry, CgroupsTyped
    <3>3. CASE ~VisitEntry
      BY <3>3 DEF Kill, WaitUntilUnpopulated, ListDirectChildren, ValidateIdentity,
                  RemoveSessionRoot
    <3> QED BY <3>2, <3>3
  <2>2. pc' \notin {"qualify", "create"}
    BY DEF Kill, WaitUntilUnpopulated, ListDirectChildren, VisitEntry, ValidateIdentity,
           RemoveSessionRoot, FinishLifecycle, Return
  <2> QED BY <1>a, <1>b, <2>1, <2>2 DEF Unused
<1>d. CASE failing # {} BY <1>b, <1>c, <1>d DEF Cleared, Clearing, CleanupRemovesAll
<1>e. CASE failing = {}
  <2>0. outcome[run] = "none" BY <1>a, <1>b DEF Ended
  <2>1. CASE Kill
    <3>1. UNCHANGED <<entries, children, outcome>> /\ pc = "kill" /\ pc' = "wait" BY <2>1 DEF Kill
    <3>2. Clearing' BY <1>a, <1>b, <3>1 DEF Clearing, NoTrace
    <3>3. CleanupRemovesAll' BY <1>a, <1>b, <3>1 DEF CleanupRemovesAll, NoTrace
    <3> QED BY <1>c, <3>2, <3>3 DEF Cleared
  <2>2. CASE WaitUntilUnpopulated
    <3>1. UNCHANGED <<entries, children, outcome>> /\ pc = "wait" /\ pc' = "list" /\ live[run] = {}
      BY <1>a, <1>b, <1>e, <2>2 DEF WaitUntilUnpopulated, Populated
    <3>2. Clearing' BY <1>a, <1>b, <3>1 DEF Clearing, NoTrace
    <3>3. CleanupRemovesAll' BY <1>a, <1>b, <3>1 DEF CleanupRemovesAll, NoTrace
    <3> QED BY <1>c, <3>2, <3>3 DEF Cleared
  <2>3. CASE ListDirectChildren
    <3>1. UNCHANGED <<entries, children, outcome>> /\ pc = "list" /\ pc' = "leaves"
      BY <2>3 DEF ListDirectChildren
    <3>2. ASSUME children[run] \subseteq ValidLeaf PROVE enumerated' /\ children[run] \subseteq todo'
      <4>1. Cardinality(children[run]) \in Nat /\ Cardinality(children[run]) <= MaxEntries
        BY <3>2, FS_CardinalityType DEF FewLeaves
      <4> QED BY <1>b, <1>e, <2>3, <4>1, SessionAssumption DEF ListDirectChildren
    <3>3. Clearing' BY <1>a, <1>b, <1>e, <3>1, <3>2 DEF Clearing, NoTrace
    <3>4. CleanupRemovesAll' BY <1>a, <1>b, <3>1 DEF CleanupRemovesAll, NoTrace
    <3> QED BY <1>c, <3>3, <3>4 DEF Cleared
  <2>4. CASE VisitEntry
    <3>1. PICK e \in todo :
            /\ todo' = todo \ {e}
            /\ \/ e \in ValidLeaf /\ LeafRemovable(e)
                  /\ children' = [children EXCEPT ![run] = @ \ {e}]
               \/ /\ e \in ValidLeaf /\ ~LeafRemovable(e)
                  /\ UNCHANGED children
               \/ e \in MalformedLeaf \cup OtherChild /\ UNCHANGED children
      BY <1>b, <1>e, <2>4 DEF VisitEntry
    <3>2. UNCHANGED <<entries, outcome, enumerated>> /\ pc = "leaves" /\ pc' = "leaves"
      BY <2>4 DEF VisitEntry
    <3>3. /\ \A r \in Run \ {run} : children'[r] = children[r]
          /\ children'[run] \in {children[run], children[run] \ {e}}
          /\ children'[run] \subseteq children[run]
          /\ children'[run] = children[run] \/ e \in ValidLeaf
      BY <1>a, <3>1 DEF CgroupsTyped
    <3>4. NoTrace(run) => NoTrace(run)' BY <1>b, <3>2, <3>3 DEF NoTrace
    <3>5. ASSUME children'[run] \subseteq ValidLeaf PROVE children'[run] \subseteq todo'
      <4>1. children[run] \subseteq ValidLeaf BY <3>3, <3>5
      <4>2. children[run] \subseteq todo /\ live[run] = {} BY <1>a, <1>e, <3>2, <4>1 DEF Clearing
      <4>3. e \notin children'[run]
        BY <1>a, <1>b, <3>1, <3>3, <4>1, <4>2, SessionAssumption DEF LeafRemovable, CgroupsTyped
      <4> QED BY <3>1, <3>3, <4>2, <4>3
    <3>6. children'[run] \subseteq ValidLeaf => enumerated'
      BY <1>a, <1>e, <3>2, <3>3 DEF Clearing
    <3>7. Clearing' BY <1>a, <1>b, <1>e, <3>2, <3>4, <3>5, <3>6 DEF Clearing
    <3>8. CleanupRemovesAll'
      BY <1>a, <1>b, <2>0, <3>2, <3>3 DEF CleanupRemovesAll, NoTrace
    <3> QED BY <1>c, <3>7, <3>8 DEF Cleared
  <2>5. CASE ValidateIdentity
    <3>1. UNCHANGED <<entries, children, outcome, enumerated>> /\ pc = "leaves" /\ pc' = "unlink"
          /\ todo = {} /\ (identified' \/ ~NamesSession)
      <4>1. pc = "leaves" /\ pc' = "unlink" /\ todo = {} BY <2>5 DEF ValidateIdentity
      <4>2. UNCHANGED <<entries, children, outcome, enumerated>> BY <2>5 DEF ValidateIdentity
      <4>3. identified' \/ ~NamesSession BY <1>e, <2>5 DEF ValidateIdentity, MayFail
      <4> QED BY <4>1, <4>2, <4>3
    <3>2. ~identified' => NoTrace(run) BY <1>a, <1>b, <1>e, <3>1 DEF Clearing, NamesSession
    <3>3. Clearing' BY <1>a, <1>b, <1>e, <3>1, <3>2 DEF Clearing, NoTrace
    <3>4. CleanupRemovesAll' BY <1>a, <1>b, <3>1 DEF CleanupRemovesAll, NoTrace
    <3> QED BY <1>c, <3>3, <3>4 DEF Cleared
  <2>6. CASE RemoveSessionRoot
    <3>1. UNCHANGED children /\ pc = "unlink" /\ pc' = "ended"
      BY <2>6 DEF RemoveSessionRoot, FinishLifecycle, Return
    <3>2. \A r \in Run \ {run} : outcome'[r] = outcome[r]
      BY <1>a, <2>6 DEF RemoveSessionRoot, FinishLifecycle, Return, RunsTyped
    <3>3. entries' \in {entries, [entries EXCEPT ![name] = Absent]}
      BY <2>6 DEF RemoveSessionRoot
    <3>4. \A n \in Name : entries'[n] \in {entries[n], Absent} BY <1>a, <3>3 DEF CgroupsTyped
    <3>5. \A r \in Run : NoTrace(r) => NoTrace(r)'
      BY <1>b, <3>1, <3>4, SessionAssumption DEF NoTrace, Run, Absent
    <3>6. ASSUME children[run] \subseteq ValidLeaf PROVE NoTrace(run)'
      <4>1. enumerated /\ children[run] = {} /\ live[run] = {}
            /\ (entries[name] = run \/ NoTrace(run)) /\ (~identified => NoTrace(run))
        BY <1>a, <1>e, <3>1, <3>6 DEF Clearing
      <4>2. CASE NoTrace(run) BY <1>a, <1>b, <3>1, <3>5, <4>2 DEF NoTrace
      <4>3. CASE entries[name] = run /\ identified
        <5>1. run # Absent BY <1>a, SessionAssumption DEF Run, Absent
        <5>2. Removable(run) BY <4>1 DEF Removable
        <5>3. entries' = [entries EXCEPT ![name] = Absent]
          BY <1>e, <2>6, <4>1, <4>3, <5>1, <5>2 DEF RemoveSessionRoot
        <5>4. \A n \in Name : entries'[n] # run BY <1>a, <5>1, <5>3 DEF Owned, CgroupsTyped
        <5> QED BY <1>b, <3>1, <4>1, <5>4 DEF NoTrace
      <4> QED BY <4>1, <4>2, <4>3
    <3>7. Clearing' BY <3>1 DEF Clearing
    <3>8. CleanupRemovesAll' BY <1>a, <1>b, <1>e, <3>1, <3>2, <3>5, <3>6 DEF CleanupRemovesAll
    <3> QED BY <1>c, <3>7, <3>8 DEF Cleared
  <2> QED BY <2>1, <2>2, <2>3, <2>4, <2>5, <2>6
<1> QED BY <1>d, <1>e

(* The host, the coordinator and outsiders: what they add is held, visible,  *)
(* or of a kind that cleanup leaves alone; what they take away is empty.     *)
LEMMA OthersClear ==
    ASSUME SessionInv, SessionInv', Cleared, Environment \/ UNCHANGED vars PROVE Cleared'
<1> USE DEF cgroups, host, locals
<1>a. /\ run \in Run /\ name \in Name /\ Owned /\ CgroupsTyped /\ RunsTyped /\ PlaceTyped /\ Ended
      /\ Held /\ Unused /\ Clearing /\ CleanupRemovesAll /\ OpenedAsMade
  BY DEF SessionInv, Cleared, PlaceTyped
<1>n. run \in Nat BY <1>a, SessionAssumption DEF Run
<1>h. \A r \in Run : holder[r] = "held" =>
        /\ ~(r > run \/ (r = run /\ pc \in {"qualify", "create", "list", "leaves", "unlink"}))
        /\ outcome[r] \notin {"ok", "error"}
  BY <1>a, <1>n DEF Held, Ended, Abandoned
<1>1. CASE Killed9
  <2>1. /\ UNCHANGED <<entries, children, live, failing, run>> /\ pc' = "ended"
        /\ outcome' = [outcome EXCEPT ![run] = "killed"]
    BY <1>1 DEF Killed9, Return
  <2>2. CleanupRemovesAll' BY <1>a, <2>1 DEF CleanupRemovesAll, NoTrace, RunsTyped
  <2> QED BY <1>a, <2>1, <2>2 DEF Cleared, Unused, Clearing
<1>2. CASE Restart
  <2>1. /\ UNCHANGED <<entries, children, live, failing, outcome>> /\ pc' = "qualify"
        /\ run' = run + 1
    BY <1>2 DEF Restart, Start
  <2>2. Unused' BY <1>a, <1>n, <2>1, SessionAssumption DEF Unused, Run
  <2>3. CleanupRemovesAll' BY <1>a, <2>1 DEF CleanupRemovesAll, NoTrace
  <2> QED BY <2>1, <2>2, <2>3 DEF Cleared, Clearing
<1>3. CASE (\E r \in Run : Release(r)) \/ UNCHANGED vars
  <2>1. UNCHANGED <<entries, children, live, failing, outcome, run, pc, name, todo, enumerated,
                    identified>>
    BY <1>3 DEF Release, vars
  <2> QED BY <1>a, <2>1 DEF Cleared, Unused, Clearing, CleanupRemovesAll, NoTrace
<1>4. ASSUME NEW r \in Run, NEW e \in ValidLeaf, MakeLeaf(r, e) \/ Spawn(r, e) \/ DropLeaf(r, e)
      PROVE  Cleared'
  <2>1. /\ UNCHANGED <<entries, failing, outcome, run, pc, name, todo, enumerated, identified>>
        /\ holder[r] = "held"
    BY <1>4 DEF MakeLeaf, Spawn, DropLeaf
  <2>2. \A s \in Run \ {r} : children'[s] = children[s] /\ live'[s] = live[s]
    BY <1>a, <1>4 DEF MakeLeaf, Spawn, DropLeaf, CgroupsTyped
  <2>3. NoTrace(r) => NoTrace(r)'
    BY <1>a, <1>4 DEF MakeLeaf, Spawn, DropLeaf, Visible, NoTrace, CgroupsTyped
  <2>4. Unused' BY <1>a, <1>h, <2>1, <2>2 DEF Unused
  <2>5. \A s \in Run \ {r} : NoTrace(s) => NoTrace(s)' BY <2>1, <2>2 DEF NoTrace
  <2>6. Clearing'
    <3>1. CASE r = run BY <1>a, <1>h, <2>1, <2>3, <3>1 DEF Clearing
    <3>2. CASE r # run BY <1>a, <2>1, <2>2, <2>5, <3>2 DEF Clearing
    <3> QED BY <3>1, <3>2
  <2>7. CleanupRemovesAll' BY <1>a, <1>h, <2>1, <2>2, <2>5 DEF CleanupRemovesAll
  <2> QED BY <2>4, <2>6, <2>7 DEF Cleared
<1>5. ASSUME NEW r \in Run, NEW e \in ValidLeaf, Die(r, e) PROVE Cleared'
  <2>1. UNCHANGED <<entries, children, failing, outcome, run, pc, name, todo, enumerated, identified>>
    BY <1>5 DEF Die
  <2>2. \A s \in Run : live'[s] \subseteq live[s] BY <1>a, <1>5 DEF Die, CgroupsTyped
  <2>3. \A s \in Run : NoTrace(s) => NoTrace(s)' BY <2>1, <2>2 DEF NoTrace
  <2>4. Unused' BY <1>a, <2>1, <2>2 DEF Unused
  <2>5. Clearing' BY <1>a, <2>1, <2>2, <2>3 DEF Clearing
  <2>6. CleanupRemovesAll' BY <1>a, <2>1, <2>3 DEF CleanupRemovesAll
  <2> QED BY <2>4, <2>5, <2>6 DEF Cleared
<1>6. ASSUME NEW r \in Run, NEW e \in MalformedLeaf \cup OtherChild, StrangeChild(r, e)
      PROVE  Cleared'
  <2>1. /\ UNCHANGED <<entries, live, failing, outcome, run, pc, name, todo, enumerated, identified>>
        /\ Visible(r)
    BY <1>6 DEF StrangeChild, Meddle
  <2>2. /\ \A s \in Run \ {r} : children'[s] = children[s]
        /\ ~(children'[r] \subseteq ValidLeaf)
    BY <1>a, <1>6, SessionAssumption DEF StrangeChild, CgroupsTyped
  <2>3. ~NoTrace(r) /\ ~(r > run \/ (r = run /\ pc \in {"qualify", "create"}))
    BY <1>a, <1>n, <2>1 DEF Visible, NoTrace, Owned, Run
  <2>4. \A s \in Run : NoTrace(s) => NoTrace(s)' BY <2>1, <2>2, <2>3 DEF NoTrace
  <2>5. Unused' BY <1>a, <2>1, <2>2, <2>3 DEF Unused
  <2>6. Clearing'
    <3>1. CASE r = run BY <1>a, <2>1, <2>2, <2>4, <3>1 DEF Clearing
    <3>2. CASE r # run BY <1>a, <2>1, <2>2, <2>4, <3>2 DEF Clearing
    <3> QED BY <3>1, <3>2
  <2>7. CleanupRemovesAll' BY <1>a, <2>1, <2>2, <2>4 DEF CleanupRemovesAll
  <2> QED BY <2>5, <2>6, <2>7 DEF Cleared
<1>7. ASSUME NEW n \in Name, Swap(n) PROVE Cleared'
  <2>1. /\ UNCHANGED <<children, live, failing, outcome, run, pc, name, todo, enumerated, identified>>
        /\ entries' = [entries EXCEPT ![n] = Stranger] /\ entries[n] \in Run /\ Removable(entries[n])
        /\ pc \in OutsiderAt
    BY <1>7 DEF Swap, Meddle
  <2>2. \A r \in Run, m \in Name : entries'[m] = r => entries[m] = r
    BY <1>a, <2>1, SessionAssumption DEF CgroupsTyped, Run, Stranger
  <2>3. \A r \in Run : NoTrace(r) => NoTrace(r)' BY <2>1, <2>2 DEF NoTrace
  <2>4. entries[name] = run => entries'[name] = run \/ NoTrace(run)'
    <3>1. CASE n # name \/ entries[name] # run BY <1>a, <2>1, <3>1 DEF CgroupsTyped
    <3>2. CASE n = name /\ entries[name] = run
      <4>1. children[run] = {} /\ live[run] = {} BY <1>a, <2>1, <3>2 DEF Removable
      <4>2. \A m \in Name : entries'[m] # run
        BY <1>a, <2>1, <2>2, <3>2, SessionAssumption DEF Owned, Stranger, Run, CgroupsTyped
      <4> QED BY <2>1, <4>1, <4>2 DEF NoTrace
    <3> QED BY <3>1, <3>2
  <2>5. Clearing' BY <1>a, <2>1, <2>3, <2>4 DEF Clearing
  <2>6. CleanupRemovesAll' BY <1>a, <2>1, <2>3 DEF CleanupRemovesAll
  <2> QED BY <1>a, <2>1, <2>5, <2>6 DEF Cleared, Unused
<1> QED BY <1>1, <1>2, <1>3, <1>4, <1>5, <1>6, <1>7 DEF Environment

(* Where no call fails and nothing outlives its kill, a run that cleans up   *)
(* leaves nothing of its session, also when it reports an error, unless      *)
(* someone put a child of another kind into it; as long as no session holds  *)
(* more leaves than MAX_DIRECT_SESSION_ENTRIES, which cleanup refuses.       *)
THEOREM CleanupRemovesAllHolds == Spec /\ OpenedAsMade /\ []FewLeaves => []CleanupRemovesAll
<1>1. Init => Cleared
  BY DEF Init, Cleared, Unused, Clearing, CleanupRemovesAll
<1>2. ASSUME SessionInv, SessionInv', Cleared, FewLeaves, [Next]_vars PROVE Cleared'
  <2>1. CASE Supervisor BY <1>2, <2>1, SetupClears, CleanupClears, Zenon DEF Supervisor
  <2>2. CASE Environment \/ UNCHANGED vars BY <1>2, <2>2, OthersClear, Zenon
  <2> QED BY <1>2, <2>1, <2>2 DEF Next
<1>3. Cleared => CleanupRemovesAll BY DEF Cleared
<1> QED BY <1>1, <1>2, <1>3, SessionInvariant, PTL DEF Spec
=============================================================================
