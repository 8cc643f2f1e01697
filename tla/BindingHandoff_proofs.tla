------------------------ MODULE BindingHandoff_proofs ------------------------
(* Proofs about BindingHandoff, for any set of processes, any set of         *)
(* claimants and any number of unexpected records: the barrier's invariant   *)
(* is inductive, so the supervisor never cleans up a session that a process  *)
(* of the coordinator still holds.                                           *)
EXTENDS BindingHandoff, TLAPS

Records == {"handoff", "short", "revoke"}

(* Requesting a revocation keeps the coordinator's queue typed and bounded,  *)
(* queues nothing for a peer that is gone and invents no reset.              *)
LEMMA RevocationLemma ==
    ASSUME TypeOK, NEW pending \in BOOLEAN, pending => PeerGone, PeerGone => toCo = <<>>,
           RequestRevocation(pending)
    PROVE  /\ revocation' \in {"none", "sent", "unavailable", "failed"}
           /\ toCo' \in Seq(Records) /\ Len(toCo') <= IF revocation' = "none" THEN 1 ELSE 2
           /\ reset' \in BOOLEAN
           /\ reset' => PeerGone
           /\ PeerGone => toCo' = <<>>
  <1>1. /\ revocation' \in {"none", "sent", "unavailable", "failed"}
        /\ reset' \in BOOLEAN
    BY DEF TypeOK, RequestRevocation
  <1>2. (reset' => PeerGone) /\ (PeerGone => toCo' = <<>>)
    BY DEF RequestRevocation
  <1>3. toCo' \in Seq(Records) /\ Len(toCo') <= IF revocation' = "none" THEN 1 ELSE 2
    <2>1. toCo \in Seq(Records) /\ Len(toCo) <= IF revocation = "none" THEN 1 ELSE 2
      BY DEF TypeOK, Records
    <2>2. CASE UNCHANGED toCo
      <3>1. revocation' = revocation \/ revocation = "none"
        BY DEF RequestRevocation
      <3>2. QED
        BY <2>1, <2>2, <3>1
    <2>3. CASE revocation = "none" /\ revocation' = "sent" /\ toCo' = Append(toCo, "revoke")
      BY <2>1, <2>3 DEF Records
    <2>4. QED
      BY <2>2, <2>3 DEF RequestRevocation
  <1>4. QED
    BY <1>1, <1>2, <1>3

(* The invariant holds initially.                                            *)
LEMMA InitInv == Init => HandoffInv
  <1> SUFFICES ASSUME Init PROVE HandoffInv
    OBVIOUS
  <1>1. TypeOK
    <2>1. toSup \in Seq(Stray \cup {"ready"}) /\ toCo \in Seq(Records) /\ Len(toCo) = 0
      BY DEF Init
    <2>2. cpc \in [Proc -> ProcessStates]
      BY DEF Init, ProcessStates
    <2>3. control \subseteq Proc /\ root \subseteq Proc /\ strays \in Nat
      BY HandoffAssumption DEF Init
    <2>4. spc \in SupervisorStates /\ revocation = "none"
      BY DEF Init, SupervisorStates
    <2>5. Len(toCo) <= IF revocation = "none" THEN 1 ELSE 2
      BY <2>1, <2>4
    <2>6. QED
      BY <2>1, <2>2, <2>3, <2>4, <2>5 DEF Init, TypeOK, Records
  <1>2. control = {p \in Proc : cpc[p] \in Connected}
    BY HandoffAssumption DEF Init, Connected, ProcessStates
  <1>3. BarrierSound
    BY <1>2 DEF Init, BarrierSound, PeerGone
  <1>4. NoAuthorityDuringCleanup
    BY DEF Init, NoAuthorityDuringCleanup
  <1>5. QED
    BY <1>1, <1>3, <1>4 DEF HandoffInv

(* Every step of the supervisor, and every failure of it, keeps it.          *)
LEMMA SupervisorInv ==
    ASSUME HandoffInv,
           \/ SupervisorStep \/ ReadyFails \/ BarrierFails \/ SignalMonitorFails
           \/ SupervisorKilled \/ SignalArrives
    PROVE  HandoffInv'
  <1>1. CASE CreateSession
    BY <1>1 DEF CreateSession, HandoffInv, TypeOK, BarrierSound, NoAuthorityDuringCleanup, PeerGone,
                SupervisorStates, channel, coordinator
  <1>2. CASE ConfigureSession
    BY <1>2 DEF ConfigureSession, HandoffInv, TypeOK, BarrierSound, NoAuthorityDuringCleanup,
                PeerGone, SupervisorStates, channel, coordinator
  <1>3. CASE WaitForReady
    <2>1. TypeOK'
      <3>1. toSup' \in Seq(Stray \cup {"ready"})
        <4>1. toSup \in Seq(Stray \cup {"ready"})
          BY DEF HandoffInv, TypeOK
        <4>2. toSup' = toSup \/ (toSup # <<>> /\ toSup' = Tail(toSup))
          BY <1>3 DEF WaitForReady
        <4>3. QED
          BY <4>1, <4>2
      <3>2. spc' \in SupervisorStates /\ signal' \in BOOLEAN
        BY <1>3 DEF WaitForReady, HandoffInv, TypeOK, SupervisorStates
      <3>3. QED
        BY <1>3, <3>1, <3>2 DEF WaitForReady, HandoffInv, TypeOK, coordinator
    <2>2. BarrierSound' /\ NoAuthorityDuringCleanup'
      BY <1>3 DEF WaitForReady, HandoffInv, BarrierSound, NoAuthorityDuringCleanup, PeerGone,
                  coordinator
    <2>3. QED
      BY <2>1, <2>2 DEF HandoffInv
  <1>4. CASE SendHandoff
    <2>1. TypeOK'
      <3>1. toCo' \in Seq(Records) /\ Len(toCo') <= 1
        <4>1. toCo = <<>>
          BY <1>4 DEF SendHandoff, HandoffInv, BarrierSound
        <4>2. toCo' = toCo \/ \E r \in Records : toCo' = Append(toCo, r)
          BY <1>4 DEF SendHandoff, Records
        <4>3. toCo \in Seq(Records) /\ Len(toCo) = 0
          BY <4>1
        <4>4. CASE \E r \in Records : toCo' = Append(toCo, r)
          <5>1. PICK r \in Records : toCo' = Append(toCo, r)
            BY <4>4
          <5>2. toCo' \in Seq(Records)
            BY <4>3, <5>1
          <5>3. Len(toCo') = Len(toCo) + 1
            BY <4>3, <5>1
          <5>4. QED
            BY <4>3, <5>2, <5>3
        <4>5. CASE toCo' = toCo
          <5>1. toCo' \in Seq(Records) /\ Len(toCo') = 0
            BY <4>3, <4>5
          <5>2. QED
            BY <5>1
        <4>6. QED
          BY <4>2, <4>4, <4>5
      <3>2. spc' \in SupervisorStates
        BY <1>4 DEF SendHandoff, SupervisorStates
      <3>3. QED
        BY <1>4, <3>1, <3>2 DEF SendHandoff, HandoffInv, TypeOK, coordinator, Records
    <2>2. BarrierSound' /\ NoAuthorityDuringCleanup'
      BY <1>4 DEF SendHandoff, HandoffInv, BarrierSound, NoAuthorityDuringCleanup, PeerGone,
                  coordinator
    <2>3. QED
      BY <2>1, <2>2 DEF HandoffInv
  <1>5. CASE AmbiguousHandoff
    BY <1>5, RevocationLemma
       DEF AmbiguousHandoff, HandoffInv, TypeOK, BarrierSound, NoAuthorityDuringCleanup, PeerGone,
           SupervisorStates, coordinator, Records
  <1>6. CASE Poll
    BY <1>6 DEF Poll, HandoffInv, TypeOK, BarrierSound, NoAuthorityDuringCleanup, PeerGone,
                SupervisorStates, channel, coordinator
  <1>7. CASE ReceiveError
    <2>1. /\ revocation' \in {"none", "sent", "unavailable", "failed"}
          /\ toCo' \in Seq(Records) /\ Len(toCo') <= IF revocation' = "none" THEN 1 ELSE 2
          /\ reset' \in BOOLEAN
          /\ reset' => PeerGone
          /\ PeerGone => toCo' = <<>>
      <3>1. CASE RequestRevocation(FALSE)
        BY <1>7, <3>1, RevocationLemma DEF HandoffInv, BarrierSound, TypeOK, Records
      <3>2. CASE UNCHANGED <<revocation, toCo>> /\ (reset' => reset) /\ reset' \in BOOLEAN
        BY <1>7, <3>2 DEF HandoffInv, BarrierSound, TypeOK, Records
      <3>3. QED
        BY <1>7, <3>1, <3>2 DEF ReceiveError, HandoffInv, TypeOK
    <2>2. TypeOK'
      <3>1. toSup' \in Seq(Stray \cup {"ready"}) /\ monitor' \in BOOLEAN /\ halfClosed' \in BOOLEAN
            /\ spc' \in SupervisorStates
        BY <1>7 DEF ReceiveError, HandoffInv, TypeOK, SupervisorStates
      <3>2. QED
        BY <1>7, <2>1, <3>1 DEF ReceiveError, HandoffInv, TypeOK, coordinator, Records
    <2>3. spc' = "cleanup" => PeerGone
      BY <1>7 DEF ReceiveError, HandoffInv, BarrierSound
    <2>4. spc' \in {"barrier", "cleanup", "suppressed"} /\ UNCHANGED coordinator
      BY <1>7 DEF ReceiveError
    <2>5. BarrierSound' /\ NoAuthorityDuringCleanup'
      BY <2>1, <2>3, <2>4 DEF HandoffInv, TypeOK, BarrierSound, NoAuthorityDuringCleanup, PeerGone,
                              coordinator, Connected, Entrusted
    <2>6. QED
      BY <2>2, <2>5 DEF HandoffInv
  <1>8. CASE ReceiveRecord
    <2>1. /\ revocation' \in {"none", "sent", "unavailable", "failed"}
          /\ toCo' \in Seq(Records) /\ Len(toCo') <= IF revocation' = "none" THEN 1 ELSE 2
          /\ reset' \in BOOLEAN
          /\ reset' => PeerGone
          /\ PeerGone => toCo' = <<>>
      <3>1. CASE RequestRevocation(reset)
        BY <1>8, <3>1, RevocationLemma DEF HandoffInv, BarrierSound, TypeOK, Records
      <3>2. CASE UNCHANGED <<revocation, toCo>> /\ (reset' => reset) /\ reset' \in BOOLEAN
        BY <1>8, <3>2 DEF HandoffInv, BarrierSound, TypeOK, Records
      <3>3. QED
        BY <1>8, <3>1, <3>2 DEF ReceiveRecord, HandoffInv, TypeOK
    <2>2. TypeOK'
      <3>1. toSup' \in Seq(Stray \cup {"ready"}) /\ monitor' \in BOOLEAN /\ halfClosed' \in BOOLEAN
            /\ spc' \in SupervisorStates
        <4>1. toSup' \in Seq(Stray \cup {"ready"})
          BY <1>8 DEF ReceiveRecord, HandoffInv, TypeOK
        <4>2. spc' \in SupervisorStates
          BY <1>8 DEF ReceiveRecord, SupervisorStates
        <4>3. monitor' \in BOOLEAN /\ halfClosed' \in BOOLEAN
          BY <1>8 DEF ReceiveRecord, HandoffInv, TypeOK
        <4>4. QED
          BY <4>1, <4>2, <4>3
      <3>2. QED
        BY <1>8, <2>1, <3>1 DEF ReceiveRecord, HandoffInv, TypeOK, coordinator, Records
    <2>3. spc' = "cleanup" => PeerGone
      BY <1>8 DEF ReceiveRecord, HandoffInv, BarrierSound
    <2>4. spc' \in {"barrier", "cleanup", "suppressed"} /\ UNCHANGED coordinator
      BY <1>8 DEF ReceiveRecord
    <2>5. BarrierSound' /\ NoAuthorityDuringCleanup'
      BY <2>1, <2>3, <2>4 DEF HandoffInv, TypeOK, BarrierSound, NoAuthorityDuringCleanup, PeerGone,
                              coordinator, Connected, Entrusted
    <2>6. QED
      BY <2>2, <2>5 DEF HandoffInv
  <1>9. CASE ReceiveNothing
    <2>1. /\ revocation' \in {"none", "sent", "unavailable", "failed"}
          /\ toCo' \in Seq(Records) /\ Len(toCo') <= IF revocation' = "none" THEN 1 ELSE 2
          /\ reset' \in BOOLEAN
          /\ reset' => PeerGone
          /\ PeerGone => toCo' = <<>>
      <3>1. CASE RequestRevocation(reset)
        BY <1>9, <3>1, RevocationLemma DEF HandoffInv, BarrierSound, TypeOK, Records
      <3>2. CASE UNCHANGED <<revocation, toCo>> /\ (reset' => reset) /\ reset' \in BOOLEAN
        BY <1>9, <3>2 DEF HandoffInv, BarrierSound, TypeOK, Records
      <3>3. QED
        BY <1>9, <3>1, <3>2 DEF ReceiveNothing, HandoffInv, TypeOK
    <2>2. TypeOK'
      <3>1. toSup' \in Seq(Stray \cup {"ready"}) /\ monitor' \in BOOLEAN /\ halfClosed' \in BOOLEAN
            /\ spc' \in SupervisorStates
        BY <1>9 DEF ReceiveNothing, HandoffInv, TypeOK, SupervisorStates
      <3>2. QED
        BY <1>9, <2>1, <3>1 DEF ReceiveNothing, HandoffInv, TypeOK, coordinator, Records
    <2>3. spc' = "cleanup" => PeerGone
      BY <1>9 DEF ReceiveNothing, HandoffInv, BarrierSound
    <2>4. spc' \in {"barrier", "cleanup", "suppressed"} /\ UNCHANGED coordinator
      BY <1>9 DEF ReceiveNothing
    <2>5. BarrierSound' /\ NoAuthorityDuringCleanup'
      BY <2>1, <2>3, <2>4 DEF HandoffInv, TypeOK, BarrierSound, NoAuthorityDuringCleanup, PeerGone,
                              coordinator, Connected, Entrusted
    <2>6. QED
      BY <2>2, <2>5 DEF HandoffInv
  <1>10. CASE TerminationSignal
    BY <1>10, RevocationLemma
       DEF TerminationSignal, HandoffInv, TypeOK, BarrierSound, NoAuthorityDuringCleanup, PeerGone,
           SupervisorStates, coordinator, Records
  <1>11. CASE Cleanup
    BY <1>11 DEF Cleanup, HandoffInv, TypeOK, BarrierSound, NoAuthorityDuringCleanup, PeerGone,
                 SupervisorStates, channel, coordinator
  <1>12. CASE BarrierFails
    BY <1>12, RevocationLemma
       DEF BarrierFails, HandoffInv, TypeOK, BarrierSound, NoAuthorityDuringCleanup, PeerGone,
           SupervisorStates, coordinator, Records
  <1>13. CASE SupervisorKilled
    BY <1>13 DEF SupervisorKilled, HandoffInv, TypeOK, BarrierSound, NoAuthorityDuringCleanup,
                 PeerGone, SupervisorStates, channel, coordinator
  <1>14. CASE SignalArrives
    BY <1>14 DEF SignalArrives, HandoffInv, TypeOK, BarrierSound, NoAuthorityDuringCleanup, PeerGone,
                 SupervisorStates, channel, coordinator
  <1>15. CASE ReadyFails
    BY <1>15 DEF ReadyFails, HandoffInv, TypeOK, BarrierSound, NoAuthorityDuringCleanup, PeerGone,
                 SupervisorStates, channel, coordinator
  <1>16. CASE SignalMonitorFails
    BY <1>16, RevocationLemma
       DEF SignalMonitorFails, HandoffInv, TypeOK, BarrierSound, NoAuthorityDuringCleanup, PeerGone,
           SupervisorStates, coordinator, Records
  <1>17. QED
    BY <1>1, <1>2, <1>3, <1>4, <1>5, <1>6, <1>7, <1>8, <1>9, <1>10, <1>11, <1>12, <1>13, <1>14,
       <1>15, <1>16
       DEF SupervisorStep

(* Closing a copy of the channel's end: when it was the last one the queue   *)
(* goes with it, and only then may a reset be pending.                       *)
LEMMA CloseLemma ==
    ASSUME HandoffInv, NEW p \in Proc, CloseControl(p)
    PROVE  /\ control' = control \ {p} /\ reset' \in BOOLEAN
           /\ toCo' \in Seq(Records) /\ Len(toCo') <= IF revocation = "none" THEN 1 ELSE 2
           /\ (reset' => control' = {}) /\ (control' = {} => toCo' = <<>>)
           /\ (PeerGone => control' = {}) /\ (toCo = <<>> => toCo' = <<>>)
  <1>1. CASE control = {p}
    <2>1. control' = {} /\ toCo' = <<>> /\ reset' \in BOOLEAN
      BY <1>1 DEF CloseControl
    <2>2. <<>> \in Seq(Records) /\ Len(<<>>) <= IF revocation = "none" THEN 1 ELSE 2
      OBVIOUS
    <2>3. QED
      BY <1>1, <2>1, <2>2 DEF CloseControl
  <1>2. CASE control # {p}
    <2>1. control' = {} => control = {}
      BY <1>2 DEF CloseControl
    <2>2. QED
      BY <1>2, <2>1 DEF CloseControl, HandoffInv, TypeOK, BarrierSound, PeerGone, Records
  <1>3. QED
    BY <1>1, <1>2

(* Every step of a process of the coordinator keeps the invariant.           *)
LEMMA ProcessInv ==
    ASSUME HandoffInv, NEW p \in Proc,
           CoordinatorStep(p) \/ Close(p) \/ Exit(p) \/ Misuse(p)
    PROVE  HandoffInv'
  <1>1. CASE Inherit(p)
    <2>1. toSup' \in Seq(Stray \cup {"ready"})
      <3>1. toSup \in Seq(Stray \cup {"ready"}) /\ "ready" \in Stray \cup {"ready"}
        BY DEF HandoffInv, TypeOK
      <3>2. toSup' = toSup \/ toSup' = Append(toSup, "ready")
        BY <1>1 DEF Inherit
      <3>3. QED
        BY <3>1, <3>2
    <2>2. TypeOK'
      BY <1>1, <2>1 DEF Inherit, GoTo, HandoffInv, TypeOK, ProcessStates, supervisor
    <2>3. BarrierSound' /\ NoAuthorityDuringCleanup'
      BY <1>1 DEF Inherit, GoTo, HandoffInv, TypeOK, BarrierSound, NoAuthorityDuringCleanup,
                  PeerGone, ProcessStates, Connected, Entrusted, supervisor
    <2>4. QED
      BY <2>2, <2>3 DEF HandoffInv
  <1>2. CASE Receive(p)
    BY <1>2 DEF Receive, GoTo, HandoffInv, TypeOK, BarrierSound, NoAuthorityDuringCleanup, PeerGone,
                ProcessStates, Connected, Entrusted, supervisor
  <1>3. CASE ReceiveFails(p) \/ Issue(p) \/ Use(p) \/ UseEnds(p) \/ Revoke(p) \/ Close(p)
    BY <1>3 DEF ReceiveFails, Issue, Use, UseEnds, Revoke, Close, GoTo, HandoffInv, TypeOK,
                BarrierSound, NoAuthorityDuringCleanup, PeerGone, ProcessStates, Connected, Entrusted,
                supervisor, channel
  <1>4. CASE CloseRootFirst(p)
    BY <1>4 DEF CloseRootFirst, GoTo, HandoffInv, TypeOK, BarrierSound, NoAuthorityDuringCleanup,
                PeerGone, ProcessStates, Connected, Entrusted, supervisor, channel
  <1>5. CASE CloseControlLast(p)
    BY <1>5, CloseLemma
       DEF CloseControlLast, GoTo, HandoffInv, TypeOK, BarrierSound, NoAuthorityDuringCleanup,
           PeerGone, ProcessStates, Connected, Entrusted, supervisor, Records
  <1>6. CASE Exit(p)
    BY <1>6, CloseLemma
       DEF Exit, GoTo, HandoffInv, TypeOK, BarrierSound, NoAuthorityDuringCleanup,
           PeerGone, ProcessStates, Connected, Entrusted, supervisor, Records
  <1>7. CASE Misuse(p)
    <2>1. toSup' \in Seq(Stray \cup {"ready"})
      <3>1. toSup \in Seq(Stray \cup {"ready"})
        BY DEF HandoffInv, TypeOK
      <3>2. toSup' = toSup \/ \E r \in Stray : toSup' = Append(toSup, r)
        BY <1>7 DEF Misuse
      <3>3. ASSUME NEW r \in Stray PROVE Append(toSup, r) \in Seq(Stray \cup {"ready"})
        BY <3>1
      <3>4. QED
        BY <3>1, <3>2, <3>3
    <2>2. strays' \in Nat /\ shut' \in BOOLEAN
      <3>1. strays' \in Nat
        BY <1>7 DEF Misuse, HandoffInv, TypeOK
      <3>2. shut' = shut \/ shut' = TRUE
        BY <1>7 DEF Misuse
      <3>3. QED
        BY <3>1, <3>2 DEF HandoffInv, TypeOK
    <2>3. TypeOK'
      BY <1>7, <2>1, <2>2 DEF Misuse, HandoffInv, TypeOK, supervisor
    <2>4. BarrierSound' /\ NoAuthorityDuringCleanup'
      BY <1>7 DEF Misuse, HandoffInv, BarrierSound, NoAuthorityDuringCleanup, PeerGone, supervisor
    <2>5. QED
      BY <2>3, <2>4 DEF HandoffInv
  <1>8. QED
    BY <1>1, <1>2, <1>3, <1>4, <1>5, <1>6, <1>7 DEF CoordinatorStep

(* A fork copies a capability only together with the channel.                *)
LEMMA ForkInv ==
    ASSUME HandoffInv, NEW p \in Proc, NEW c \in Proc, Fork(p, c)
    PROVE  HandoffInv'
  BY DEF Fork, GoTo, HandoffInv, TypeOK, BarrierSound, NoAuthorityDuringCleanup, PeerGone,
         ProcessStates, Connected, Entrusted, supervisor, channel

(* The barrier's invariant is inductive: it holds in every reachable state,  *)
(* for any number of processes, forks, crashes, signals and stray records.   *)
THEOREM HandoffInvariant == Spec => []HandoffInv
  <1>1. ASSUME HandoffInv, [Next]_vars PROVE HandoffInv'
    <2>1. CASE \/ SupervisorStep \/ ReadyFails \/ BarrierFails \/ SignalMonitorFails
               \/ SupervisorKilled \/ SignalArrives
      BY <1>1, <2>1, SupervisorInv
    <2>2. CASE \E p \in Proc : CoordinatorStep(p) \/ Close(p) \/ Exit(p) \/ Misuse(p)
      BY <1>1, <2>2, ProcessInv
    <2>3. CASE \E p, c \in Proc : Fork(p, c)
      BY <1>1, <2>3, ForkInv
    <2>4. CASE UNCHANGED vars
      BY <1>1, <2>4 DEF vars, supervisor, channel, coordinator, HandoffInv, TypeOK, BarrierSound,
                        NoAuthorityDuringCleanup, PeerGone
    <2>5. QED
      BY <1>1, <2>1, <2>2, <2>3, <2>4 DEF Next, Environment, Done
  <1>2. QED
    BY <1>1, InitInv, PTL DEF Spec

(* Type correctness, with the bound on the coordinator's queue.              *)
THEOREM TypeCorrect == Spec => []TypeOK
  <1>1. HandoffInv => TypeOK
    BY DEF HandoffInv
  <1>2. QED
    BY <1>1, HandoffInvariant, PTL

(* A process that holds the root holds the channel too, and the supervisor   *)
(* sees a hangup or a reset only when nobody holds it: the end of file is a  *)
(* sound barrier.                                                            *)
THEOREM BarrierSoundHolds == Spec => []BarrierSound
  <1>1. HandoffInv => BarrierSound
    BY DEF HandoffInv
  <1>2. QED
    BY <1>1, HandoffInvariant, PTL

(* The supervisor never cleans a session up, and never exits after cleaning  *)
(* it up, while a process of the coordinator holds its root or may yet       *)
(* receive it.                                                               *)
THEOREM NoAuthorityDuringCleanupHolds == Spec => []NoAuthorityDuringCleanup
  <1>1. HandoffInv => NoAuthorityDuringCleanup
    BY DEF HandoffInv
  <1>2. QED
    BY <1>1, HandoffInvariant, PTL

-----------------------------------------------------------------------------
(* Revocation, for any number of processes of which at most one may inherit  *)
(* the session, as the service starts one: the REVOKE byte is the last       *)
(* record of the queue until the capability is gone, so no operation begins  *)
(* after it was sent.                                                        *)


OneClaimant == \A p, q \in Claimants : p = q

(* Where the claimant may be and still find the byte. *)
Unrevoked == {"absent", "start", "waiting", "received", "issued", "using"}

Last(s) == s[Len(s)]

RevokeQueued == toCo # <<>> /\ Last(toCo) = "revoke"

OnlyClaimants ==
    \A p \in Proc : cpc[p] \in {"waiting", "received", "issued", "using"} => p \in Claimants

RevokeWaits ==
    revocation = "sent" /\ control # {} =>
        \A p \in Claimants : cpc[p] \in Unrevoked => RevokeQueued

RevocationInv == HandoffInv /\ OneClaimant /\ OnlyClaimants /\ RevokeWaits

(* Nothing is revoked initially.                                             *)
LEMMA RevocationInit == Init /\ OneClaimant => RevocationInv
  BY InitInv, HandoffAssumption DEF Init, RevocationInv, OnlyClaimants, RevokeWaits

(* A request queues the byte behind whatever is there, or leaves the queue.  *)
LEMMA RequestWaits ==
    ASSUME RevocationInv, NEW pending \in BOOLEAN, RequestRevocation(pending), UNCHANGED coordinator
    PROVE  RevokeWaits' /\ OnlyClaimants'
  <1>1. OnlyClaimants' /\ UNCHANGED <<control, cpc>>
    BY DEF RevocationInv, OnlyClaimants, coordinator
  <1>2. CASE UNCHANGED toCo /\ (revocation' = "sent" => revocation = "sent")
    BY <1>1, <1>2 DEF RevocationInv, RevokeWaits, RevokeQueued, Last
  <1>3. CASE toCo' = Append(toCo, "revoke")
    <2>1. toCo \in Seq(Records)
      BY DEF RevocationInv, HandoffInv, TypeOK, Records
    <2>2. Len(toCo') = Len(toCo) + 1 /\ toCo'[Len(toCo) + 1] = "revoke" /\ toCo' # <<>>
      BY <1>3, <2>1
    <2>3. QED
      BY <1>1, <2>2 DEF RevokeWaits, RevokeQueued, Last
  <1>4. QED
    BY <1>1, <1>2, <1>3 DEF RequestRevocation

(* A step that touches neither the queue nor the state of revocation.        *)
LEMMA Untouched ==
    ASSUME RevocationInv, UNCHANGED <<toCo, revocation, control, cpc>>
    PROVE  RevokeWaits' /\ OnlyClaimants'
  BY DEF RevocationInv, RevokeWaits, OnlyClaimants, RevokeQueued, Last

(* The supervisor's steps, its failures and its end.                         *)
LEMMA SupervisorKeepsByte ==
    ASSUME RevocationInv,
           \/ SupervisorStep \/ ReadyFails \/ BarrierFails \/ SignalMonitorFails
           \/ SupervisorKilled \/ SignalArrives
    PROVE  RevokeWaits' /\ OnlyClaimants'
  <1> USE DEF coordinator, channel
  <1>0. reset \in BOOLEAN
    BY DEF RevocationInv, HandoffInv, TypeOK
  <1>1. CASE \/ CreateSession \/ ConfigureSession \/ WaitForReady \/ Poll \/ Cleanup
             \/ ReadyFails \/ SupervisorKilled \/ SignalArrives
    BY <1>1, Untouched DEF CreateSession, ConfigureSession, WaitForReady, Poll, Cleanup, ReadyFails,
                           SupervisorKilled, SignalArrives
  <1>2. CASE SendHandoff
    <2>1. toCo = <<>>
      BY <1>2 DEF SendHandoff, RevocationInv, HandoffInv, BarrierSound
    <2>2. UNCHANGED <<revocation, control, cpc>>
      BY <1>2 DEF SendHandoff
    <2>3. revocation = "sent" /\ control # {} => \A p \in Claimants : cpc[p] \notin Unrevoked
      BY <2>1 DEF RevocationInv, RevokeWaits, RevokeQueued
    <2>4. QED
      BY <2>2, <2>3 DEF RevocationInv, RevokeWaits, OnlyClaimants
  <1>3. CASE \/ AmbiguousHandoff \/ BarrierFails \/ TerminationSignal \/ SignalMonitorFails
    <2>1. RequestRevocation(reset) /\ UNCHANGED coordinator
      BY <1>3 DEF AmbiguousHandoff, BarrierFails, TerminationSignal, SignalMonitorFails
    <2>2. QED
      BY <1>0, <2>1, RequestWaits
  <1>4. CASE ReceiveError \/ ReceiveRecord \/ ReceiveNothing
    <2>1. UNCHANGED coordinator
      BY <1>4 DEF ReceiveError, ReceiveRecord, ReceiveNothing
    <2>2. CASE UNCHANGED <<revocation, toCo>>
      BY <2>1, <2>2, Untouched
    <2>3. CASE \E pending \in BOOLEAN : RequestRevocation(pending)
      BY <2>1, <2>3, RequestWaits
    <2>4. QED
      BY <1>0, <1>4, <2>2, <2>3 DEF ReceiveError, ReceiveRecord, ReceiveNothing
  <1>5. QED
    BY <1>1, <1>2, <1>3, <1>4 DEF SupervisorStep

(* The coordinator's own steps: the claimant takes the handoff from before   *)
(* the byte, and the queue is emptied only with the last copy of the end.    *)
LEMMA CoordinatorKeepsByte ==
    ASSUME RevocationInv, NEW p \in Proc, CoordinatorStep(p) \/ Close(p) \/ Exit(p) \/ Misuse(p)
    PROVE  RevokeWaits' /\ OnlyClaimants'
  <1>0. /\ cpc \in [Proc -> ProcessStates] /\ toCo \in Seq(Records)
        /\ Claimants \subseteq Proc
    BY HandoffAssumption DEF RevocationInv, HandoffInv, TypeOK, Records
  <1>1. CASE Misuse(p)
    BY <1>1, Untouched DEF Misuse, supervisor
  <1>2. CASE Inherit(p)
    BY <1>0, <1>2 DEF Inherit, GoTo, supervisor, RevocationInv, RevokeWaits, OnlyClaimants,
                      RevokeQueued, Last, Unrevoked
  <1>3. CASE \/ ReceiveFails(p) \/ Issue(p) \/ Use(p) \/ UseEnds(p) \/ Revoke(p) \/ Close(p)
             \/ CloseRootFirst(p)
    <2>1. /\ UNCHANGED <<toCo, revocation, control>>
          /\ \E s \in {"dropping", "closing", "issued", "using"} : cpc' = [cpc EXCEPT ![p] = s]
          /\ cpc'[p] \in {"issued", "using"} => cpc[p] \in {"received", "issued", "using"}
      BY <1>0, <1>3 DEF ReceiveFails, Issue, Use, UseEnds, Revoke, Close, CloseRootFirst, GoTo,
                        supervisor, channel
    <2>2. \A q \in Proc : q # p => cpc'[q] = cpc[q]
      BY <1>0, <2>1
    <2>3. cpc'[p] \in {"dropping", "closing", "issued", "using"}
      BY <1>0, <2>1
    <2>4. OnlyClaimants'
      BY <2>1, <2>2, <2>3 DEF RevocationInv, OnlyClaimants
    <2>5. RevokeWaits'
      BY <1>0, <2>1, <2>2, <2>3 DEF RevocationInv, RevokeWaits, RevokeQueued, Last, Unrevoked
    <2>6. QED
      BY <2>4, <2>5
  <1>4. CASE Receive(p)
    <2>1. /\ toCo # <<>> /\ toCo' = Tail(toCo) /\ UNCHANGED <<revocation, control>>
          /\ cpc[p] = "waiting" /\ p \in Claimants
      BY <1>4 DEF Receive, supervisor, RevocationInv, OnlyClaimants
    <2>2. /\ cpc'[p] = IF Head(toCo) = "handoff" THEN "received"
                       ELSE IF Head(toCo) = "short" THEN "closing" ELSE "dropping"
          /\ \A q \in Proc : q # p => cpc'[q] = cpc[q]
      BY <1>0, <1>4 DEF Receive, GoTo
    <2>3. OnlyClaimants'
      BY <2>1, <2>2 DEF RevocationInv, OnlyClaimants
    <2>4. ASSUME revocation' = "sent", control' # {}, NEW q \in Claimants, cpc'[q] \in Unrevoked
          PROVE  RevokeQueued'
      <3>1. q = p /\ Head(toCo) = "handoff"
        BY <2>1, <2>2, <2>4 DEF RevocationInv, OneClaimant, Unrevoked
      <3>2. toCo[Len(toCo)] = "revoke"
        BY <2>1, <2>4 DEF RevocationInv, RevokeWaits, RevokeQueued, Last, Unrevoked
      <3>3. Len(toCo) \in Nat /\ Len(toCo) > 1
        BY <1>0, <2>1, <3>1, <3>2
      <3>4. Len(Tail(toCo)) = Len(toCo) - 1 /\ Tail(toCo)[Len(toCo) - 1] = toCo[Len(toCo)]
        BY <1>0, <2>1, <3>3
      <3>5. Len(toCo') > 0 /\ toCo'[Len(toCo')] = "revoke"
        BY <2>1, <3>2, <3>3, <3>4
      <3>6. toCo' # <<>>
        BY <3>5
      <3>7. QED
        BY <3>5, <3>6 DEF RevokeQueued, Last
    <2>5. QED
      BY <2>3, <2>4 DEF RevokeWaits
  <1>5. CASE CloseControlLast(p) \/ Exit(p)
    <2>1. /\ CloseControl(p) /\ UNCHANGED revocation /\ cpc'[p] = "closed"
          /\ \A q \in Proc : q # p => cpc'[q] = cpc[q]
      BY <1>0, <1>5 DEF CloseControlLast, Exit, GoTo, supervisor
    <2>2. OnlyClaimants'
      BY <2>1 DEF RevocationInv, OnlyClaimants
    <2>3. CASE control = {p}
      BY <2>1, <2>2, <2>3 DEF CloseControl, RevokeWaits
    <2>4. CASE control # {p}
      <3>1. UNCHANGED toCo /\ control' = control \ {p}
        BY <2>1, <2>4 DEF CloseControl
      <3>2. QED
        BY <1>0, <2>1, <2>2, <3>1 DEF RevocationInv, RevokeWaits, RevokeQueued, Last, Unrevoked
    <2>5. QED
      BY <2>3, <2>4
  <1>6. QED
    BY <1>1, <1>2, <1>3, <1>4, <1>5 DEF CoordinatorStep

(* A fork adds a copy of an end that is open already.                        *)
LEMMA ForkKeepsByte ==
    ASSUME RevocationInv, NEW p \in Proc, NEW c \in Proc, Fork(p, c)
    PROVE  RevokeWaits' /\ OnlyClaimants'
  <1>1. cpc \in [Proc -> ProcessStates] /\ Claimants \subseteq Proc
    BY HandoffAssumption DEF RevocationInv, HandoffInv, TypeOK
  <1>2. p \in control
    BY DEF RevocationInv, HandoffInv, BarrierSound, Fork, Connected, ProcessStates
  <1>3. /\ cpc[c] = "absent" /\ cpc'[c] \in {"start", "closing"} /\ control # {}
        /\ \A q \in Proc : q # c => cpc'[q] = cpc[q]
        /\ UNCHANGED <<toCo, revocation>>
    BY <1>1, <1>2 DEF Fork, GoTo, supervisor, channel
  <1>4. QED
    BY <1>1, <1>3 DEF RevocationInv, RevokeWaits, OnlyClaimants, RevokeQueued, Last, Unrevoked

(* The byte stays in the queue as long as it matters, in every reachable     *)
(* state.                                                                    *)
THEOREM RevocationInvariant == Spec /\ OneClaimant => []RevocationInv
  <1>1. ASSUME RevocationInv, [Next]_vars PROVE RevocationInv'
    <2>1. HandoffInv'
      <3>1. CASE \/ SupervisorStep \/ ReadyFails \/ BarrierFails \/ SignalMonitorFails
                 \/ SupervisorKilled \/ SignalArrives
        BY <1>1, <3>1, SupervisorInv DEF RevocationInv
      <3>2. CASE \E p \in Proc : CoordinatorStep(p) \/ Close(p) \/ Exit(p) \/ Misuse(p)
        BY <1>1, <3>2, ProcessInv DEF RevocationInv
      <3>3. CASE \E p, c \in Proc : Fork(p, c)
        BY <1>1, <3>3, ForkInv DEF RevocationInv
      <3>4. CASE UNCHANGED vars
        BY <1>1, <3>4 DEF vars, supervisor, channel, coordinator, RevocationInv, HandoffInv, TypeOK,
                          BarrierSound, NoAuthorityDuringCleanup, PeerGone
      <3>5. QED
        BY <1>1, <3>1, <3>2, <3>3, <3>4 DEF Next, Environment, Done
    <2>2. RevokeWaits' /\ OnlyClaimants'
      <3>1. CASE \/ SupervisorStep \/ ReadyFails \/ BarrierFails \/ SignalMonitorFails
                 \/ SupervisorKilled \/ SignalArrives
        BY <1>1, <3>1, SupervisorKeepsByte
      <3>2. CASE \E p \in Proc : CoordinatorStep(p) \/ Close(p) \/ Exit(p) \/ Misuse(p)
        BY <1>1, <3>2, CoordinatorKeepsByte
      <3>3. CASE \E p, c \in Proc : Fork(p, c)
        BY <1>1, <3>3, ForkKeepsByte
      <3>4. CASE UNCHANGED vars
        BY <1>1, <3>4, Untouched DEF vars, supervisor, channel, coordinator
      <3>5. QED
        BY <1>1, <3>1, <3>2, <3>3, <3>4 DEF Next, Environment, Done
    <2>3. QED
      BY <1>1, <2>1, <2>2 DEF RevocationInv, OneClaimant
  <1>2. QED
    BY <1>1, RevocationInit, PTL DEF Spec

(* No operation on the session starts once the supervisor has revoked it or  *)
(* is gone, for any number of processes, forks and stray records.            *)
THEOREM NoUseAfterRevocationHolds == Spec /\ OneClaimant => NoUseAfterRevocation
  <1> DEFINE Begins(p) == cpc[p] # "using" /\ cpc'[p] = "using"
             Allowed == \A p \in Proc : Begins(p) => revocation # "sent" /\ ~SupervisorGone
  <1>1. ASSUME RevocationInv, [Next]_vars PROVE Allowed
    <2> SUFFICES ASSUME NEW p \in Proc, Begins(p) PROVE revocation # "sent" /\ ~SupervisorGone
      OBVIOUS
    <2>1. cpc \in [Proc -> ProcessStates] /\ p \in Proc
      BY <1>1 DEF RevocationInv, HandoffInv, TypeOK
    <2>2. ASSUME NEW q \in Proc, CoordinatorStep(q) \/ Close(q) \/ Exit(q) \/ Misuse(q)
          PROVE  Use(p)
      BY <2>1, <2>2 DEF CoordinatorStep, Inherit, Receive, ReceiveFails, Issue, Use, UseEnds, Revoke,
                        CloseRootFirst, CloseControlLast, Close, Exit, Misuse, GoTo
    <2>3. ASSUME NEW q \in Proc, NEW c \in Proc, Fork(q, c) PROVE FALSE
      BY <2>1, <2>3 DEF Fork, GoTo
    <2>4. ASSUME UNCHANGED cpc PROVE FALSE
      BY <2>4
    <2>5. Use(p)
      <3>1. CASE \/ SupervisorStep \/ ReadyFails \/ BarrierFails \/ SignalMonitorFails
                 \/ SupervisorKilled \/ SignalArrives \/ UNCHANGED vars
        <4>1. UNCHANGED cpc
          BY <3>1 DEF SupervisorStep, CreateSession, ConfigureSession, WaitForReady, SendHandoff,
                      AmbiguousHandoff, Poll, ReceiveError, ReceiveRecord, ReceiveNothing,
                      TerminationSignal, Cleanup, ReadyFails, BarrierFails, SignalMonitorFails,
                      SupervisorKilled, SignalArrives, vars, coordinator
        <4>2. QED
          BY <2>4, <4>1
      <3>2. QED
        BY <1>1, <2>2, <2>3, <3>1 DEF Next, Environment, Done
    <2>6. toCo = <<>> /\ ~SupervisorGone /\ cpc[p] = "issued"
      BY <2>5 DEF Use, HasEvent
    <2>7. p \in Claimants /\ control # {}
      BY <1>1, <2>6 DEF RevocationInv, HandoffInv, OnlyClaimants, BarrierSound, Connected,
                        ProcessStates
    <2>8. QED
      BY <1>1, <2>6, <2>7 DEF RevocationInv, RevokeWaits, RevokeQueued, Unrevoked
  <1>2. QED
    BY <1>1, RevocationInvariant, PTL DEF Spec, NoUseAfterRevocation
=============================================================================
