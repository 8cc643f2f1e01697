--------------------------- MODULE BindingHandoff ----------------------------
(* The handoff of a delegated cgroup session from the native supervisor      *)
(* (native/binding-supervisor: linux.rs, linux/control.rs) to the Python     *)
(* coordinator (competitive_binding_supervisor.py) over one AF_UNIX          *)
(* SOCK_SEQPACKET channel, and the barrier that keeps the supervisor from    *)
(* cleaning the session up while a coordinator process still holds it.       *)
(*                                                                           *)
(* A process of the coordinator holds up to two descriptors: its end of the  *)
(* channel and the session's root.  Fork copies both.  The kernel reports a  *)
(* hangup when the last copy of the channel end is closed; what was queued   *)
(* for that end is dropped, and the supervisor then reads ECONNRESET once.   *)
EXTENDS Naturals, Sequences

CONSTANTS
    Proc,        \* processes of the coordinator
    Main,        \* the process the service manager starts
    Claimants,   \* the processes that call inherit_exclusive_delegated_root
    MaxStray     \* bound on the records nothing in the protocol asks for

ASSUME HandoffAssumption == Main \in Proc /\ Claimants \subseteq Proc /\ MaxStray \in Nat

VARIABLES
    spc,         \* where the supervisor is
    revocation,  \* RevocationState
    monitor,     \* monitor_signals
    halfClosed,  \* peer_write_half_closed
    hup, rdhup,  \* POLLHUP and POLLRDHUP in the revents of the last poll
    signal,      \* a termination signal is pending in the signalfd
    toSup,       \* records queued for the supervisor
    toCo,        \* records queued for the coordinator
    reset,       \* ECONNRESET is pending on the supervisor's socket
    shut,        \* the coordinator's end was shut down for writing
    cpc,         \* where each process of the coordinator is
    control,     \* which processes hold the coordinator's end of the channel
    root,        \* which processes hold the session's root descriptor
    strays       \* records sent outside the protocol

supervisor == <<spc, revocation, monitor, halfClosed, hup, rdhup, signal>>
channel == <<toSup, toCo, reset, shut>>
coordinator == <<cpc, control, root, strays>>
vars == <<supervisor, channel, coordinator>>

Stray == {"byte", "empty", "invalid", "truncated"}

PeerGone == control = {}
SupervisorGone == spc \in {"exited", "suppressed", "killed"}

-----------------------------------------------------------------------------
(* The supervisor: run() up to the handoff. *)

CreateSession ==
    /\ spc = "create" /\ spc' \in {"configure", "exited"}
    /\ UNCHANGED <<revocation, monitor, halfClosed, hup, rdhup, signal, channel, coordinator>>

ConfigureSession ==
    /\ spc = "configure" /\ spc' \in {"ready", "cleanup"}
    /\ UNCHANGED <<revocation, monitor, halfClosed, hup, rdhup, signal, channel, coordinator>>

(* wait_for_ready: only a READY byte goes on; a signal, anything else in the *)
(* channel or its end makes the supervisor clean up.                         *)
WaitForReady ==
    /\ spc = "ready"
    /\ \/ /\ signal /\ spc' = "cleanup" /\ signal' = FALSE
          /\ UNCHANGED toSup
       \/ /\ toSup # <<>>
          /\ spc' = IF Head(toSup) = "ready" THEN "send" ELSE "cleanup"
          /\ toSup' = Tail(toSup)
          /\ UNCHANGED signal
       \/ /\ toSup = <<>> /\ (PeerGone \/ shut) /\ spc' = "cleanup"
          /\ UNCHANGED <<toSup, signal>>
    /\ UNCHANGED <<revocation, monitor, halfClosed, hup, rdhup, toCo, reset, shut, coordinator>>

(* The poll of either descriptor, or a read of one, fails. *)
ReadyFails ==
    /\ spc = "ready" /\ spc' = "cleanup"
    /\ UNCHANGED <<revocation, monitor, halfClosed, hup, rdhup, signal, channel, coordinator>>

(* send_handoff: a check or the send fails; or the packet is queued; or the  *)
(* count is short, and the descriptor may or may not be on its way.          *)
SendHandoff ==
    /\ spc = "send"
    /\ \/ spc' = "cleanup" /\ UNCHANGED toCo
       \/ /\ ~PeerGone /\ spc' = "barrier" /\ toCo' = Append(toCo, "handoff")
       \/ /\ ~PeerGone /\ spc' = "ambiguous"
          /\ toCo' \in {toCo} \cup {Append(toCo, r) : r \in {"handoff", "short"}}
    /\ UNCHANGED <<revocation, monitor, halfClosed, hup, rdhup, signal, toSup, reset, shut,
                   coordinator>>

-----------------------------------------------------------------------------
(* wait_for_post_handoff_eof *)

RequestRevocationAgain(pending) ==   \* faulty: without the check of the state
    \/ PeerGone /\ revocation' = "unavailable" /\ reset' = FALSE /\ UNCHANGED toCo
    \/ ~PeerGone /\ revocation' = "sent" /\ reset' = FALSE /\ toCo' = Append(toCo, "revoke")

(* request_revocation, once: the send finds the peer gone, queues the REVOKE *)
(* byte, or fails for another reason.  pending is the socket error it finds. *)
RequestRevocation(pending) ==
    \/ revocation # "none" /\ reset' = pending /\ UNCHANGED <<revocation, toCo>>
    \/ revocation = "none" /\ PeerGone /\ revocation' = "unavailable" /\ reset' = FALSE /\ UNCHANGED toCo
    \/ revocation = "none" /\ ~PeerGone /\ revocation' = "sent" /\ reset' = FALSE
       /\ toCo' = Append(toCo, "revoke")
    \/ revocation = "none" /\ revocation' = "failed" /\ reset' = pending /\ UNCHANGED toCo

AmbiguousHandoff ==
    /\ spc = "ambiguous" /\ spc' = "barrier"
    /\ RequestRevocation(reset)
    /\ monitor' = FALSE
    /\ UNCHANGED <<halfClosed, hup, rdhup, signal, toSup, shut, coordinator>>

PollErrorsOnly ==   \* faulty: after a half close, a hangup is not waited for
    /\ spc = "barrier" /\ (reset \/ (~halfClosed /\ (PeerGone \/ toSup # <<>> \/ shut)))
    /\ spc' = "polled"
    /\ hup' = PeerGone /\ rdhup' = (~halfClosed /\ (PeerGone \/ shut))
    /\ UNCHANGED <<revocation, monitor, halfClosed, signal, channel, coordinator>>

(* poll: what the kernel reports now, read by the code a moment later.       *)
Poll ==
    /\ spc = "barrier"
    /\ \/ PeerGone \/ reset
       \/ ~halfClosed /\ (toSup # <<>> \/ shut)
    /\ spc' = "polled"
    /\ hup' = PeerGone /\ rdhup' = (~halfClosed /\ (PeerGone \/ shut))
    /\ UNCHANGED <<revocation, monitor, halfClosed, signal, channel, coordinator>>

(* The poll itself fails, reports an invalid descriptor, or reports an error *)
(* that leaves nothing to read: the peer's end cannot be established.        *)
BarrierFails ==
    /\ spc \in {"barrier", "polled"} /\ spc' = "suppressed"
    /\ RequestRevocation(reset)
    /\ UNCHANGED <<monitor, halfClosed, hup, rdhup, signal, toSup, shut, coordinator>>

(* receive_control_packet returned an error: the peer is known to be gone    *)
(* when the poll saw the hangup, or when the error is the reset that an      *)
(* unread REVOKE leaves behind.                                              *)
ReceiveError ==
    /\ spc = "polled" /\ reset
    /\ \/ /\ hup \/ revocation = "sent"
          /\ spc' = "cleanup" /\ reset' = FALSE
          /\ UNCHANGED <<revocation, toCo>>
       \/ /\ ~hup /\ revocation # "sent"
          /\ spc' = "suppressed" /\ RequestRevocation(FALSE)
    /\ UNCHANGED <<monitor, halfClosed, hup, rdhup, signal, toSup, shut, coordinator>>

(* A record nobody expects after the handoff; a zero-length one read after a *)
(* hangup was reported is taken for the end of the channel.                  *)
ReceiveRecord ==
    /\ spc = "polled" /\ ~reset /\ toSup # <<>>
    /\ toSup' = Tail(toSup)
    /\ \/ /\ Head(toSup) = "empty" /\ hup /\ spc' = "cleanup"
          /\ UNCHANGED <<revocation, toCo, reset, monitor, halfClosed>>
       \/ /\ ~(Head(toSup) = "empty" /\ hup)
          /\ spc' = "barrier" /\ monitor' = FALSE
          /\ halfClosed' = (halfClosed \/ (Head(toSup) = "empty" /\ rdhup))
          /\ RequestRevocation(reset)
    /\ UNCHANGED <<hup, rdhup, signal, shut, coordinator>>

ReceiveNothingIsEnd ==   \* faulty: an empty read is the end, whatever poll said
    /\ spc = "polled" /\ ~reset /\ toSup = <<>> /\ (hup \/ rdhup \/ PeerGone \/ shut)
    /\ spc' = "cleanup"
    /\ UNCHANGED <<revocation, toCo, reset, monitor, halfClosed, hup, rdhup, signal, toSup, shut,
                   coordinator>>

(* Nothing is queued: the end of the channel, its write half closed, or an   *)
(* event that has passed.                                                    *)
ReceiveNothing ==
    /\ spc = "polled" /\ ~reset /\ toSup = <<>>
    /\ \/ /\ hup /\ spc' = "cleanup"
          /\ UNCHANGED <<revocation, toCo, reset, monitor, halfClosed>>
       \/ /\ ~hup /\ (rdhup \/ PeerGone \/ shut)
          /\ spc' = "barrier" /\ monitor' = FALSE
          /\ halfClosed' = (halfClosed \/ rdhup)
          /\ RequestRevocation(reset)
       \/ /\ ~hup /\ ~rdhup /\ ~PeerGone /\ ~shut
          /\ spc' = "barrier"
          /\ UNCHANGED <<revocation, toCo, reset, monitor, halfClosed>>
    /\ UNCHANGED <<hup, rdhup, signal, toSup, shut, coordinator>>

TerminationSignalSilent ==   \* faulty: the signal is taken, nothing is sent
    /\ spc = "barrier" /\ monitor /\ signal
    /\ signal' = FALSE /\ monitor' = FALSE
    /\ UNCHANGED <<spc, revocation, halfClosed, hup, rdhup, channel, coordinator>>

(* The signalfd, read while monitor_signals: the first signal revokes. *)
TerminationSignal ==
    /\ spc = "barrier" /\ monitor /\ signal
    /\ signal' = FALSE /\ monitor' = FALSE
    /\ RequestRevocation(reset)
    /\ UNCHANGED <<spc, halfClosed, hup, rdhup, toSup, shut, coordinator>>

(* The signalfd is invalid, reports an error or cannot be read: the session  *)
(* is revoked as by a signal.                                                *)
SignalMonitorFails ==
    /\ spc = "barrier" /\ monitor /\ monitor' = FALSE
    /\ RequestRevocation(reset)
    /\ UNCHANGED <<spc, halfClosed, hup, rdhup, signal, toSup, shut, coordinator>>

(* session.cleanup() and the exit of the supervisor, which closes its end.   *)
Cleanup ==
    /\ spc = "cleanup" /\ spc' = "exited"
    /\ UNCHANGED <<revocation, monitor, halfClosed, hup, rdhup, signal, channel, coordinator>>

(* SIGKILL, or any end of the supervisor outside its own control flow.       *)
SupervisorKilled ==
    /\ ~SupervisorGone /\ spc' = "killed"
    /\ UNCHANGED <<revocation, monitor, halfClosed, hup, rdhup, signal, channel, coordinator>>

SignalArrives ==
    /\ ~signal /\ ~SupervisorGone /\ signal' = TRUE
    /\ UNCHANGED <<spc, revocation, monitor, halfClosed, hup, rdhup, channel, coordinator>>

-----------------------------------------------------------------------------
(* A process p of the coordinator. *)

HasEventIfClosed == SupervisorGone   \* faulty: queued data is no event

(* _control_channel_has_event: data, the end of the channel or an error.     *)
HasEvent == toCo # <<>> \/ SupervisorGone

GoTo(p, state) == cpc' = [cpc EXCEPT ![p] = state]

(* Closing one copy of the channel end: the last one ends the channel.       *)
CloseControl(p) ==
    /\ control' = control \ {p}
    /\ reset' = IF control = {p} THEN toCo # <<>> ELSE reset
    /\ toCo' = IF control = {p} THEN <<>> ELSE toCo

(* Wrap FD 4, enable SO_PASSCRED and send READY.                             *)
Inherit(p) ==
    /\ cpc[p] = "start" /\ p \in Claimants
    /\ \/ ~SupervisorGone /\ ~shut /\ GoTo(p, "waiting") /\ toSup' = Append(toSup, "ready")
       \/ GoTo(p, "dropping") /\ UNCHANGED toSup
    /\ UNCHANGED <<supervisor, toCo, reset, shut, control, root, strays>>

(* recvmsg installs the descriptor that comes with a record, whatever the    *)
(* record says; only a whole handoff packet goes on to be checked.           *)
Receive(p) ==
    /\ cpc[p] = "waiting" /\ toCo # <<>>
    /\ GoTo(p, CASE Head(toCo) = "handoff" -> "received"
                 [] Head(toCo) = "short" -> "closing"
                 [] OTHER -> "dropping")
    /\ root' = IF Head(toCo) \in {"handoff", "short"} THEN root \cup {p} ELSE root
    /\ toCo' = Tail(toCo)
    /\ UNCHANGED <<supervisor, toSup, reset, shut, control, strays>>

(* The 30 second timeout, the end of the channel or a socket error.          *)
ReceiveFails(p) ==
    /\ cpc[p] = "waiting" /\ GoTo(p, "dropping")
    /\ UNCHANGED <<supervisor, channel, control, root, strays>>

(* Packet, credentials and descriptor are checked, then the channel, and the *)
(* capability is issued; any failure closes what was received.               *)
Issue(p) ==
    /\ cpc[p] = "received"
    /\ \/ ~HasEvent /\ GoTo(p, "issued")
       \/ GoTo(p, "closing")
    /\ UNCHANGED <<supervisor, channel, control, root, strays>>

(* _locked_capability_access: the channel is checked, then the root used.    *)
Use(p) ==
    /\ cpc[p] = "issued" /\ ~HasEvent /\ GoTo(p, "using")
    /\ UNCHANGED <<supervisor, channel, control, root, strays>>

UseEnds(p) ==
    /\ cpc[p] = "using" /\ GoTo(p, "issued")
    /\ UNCHANGED <<supervisor, channel, control, root, strays>>

(* An event in the channel revokes the capability; close() gives it up.      *)
Revoke(p) ==
    /\ cpc[p] = "issued" /\ HasEvent /\ GoTo(p, "closing")
    /\ UNCHANGED <<supervisor, channel, control, root, strays>>

Close(p) ==
    /\ cpc[p] = "issued" /\ ~HasEvent /\ GoTo(p, "closing")
    /\ UNCHANGED <<supervisor, channel, control, root, strays>>

CloseRootLate(p) ==   \* faulty: the channel is closed with the root still open
    /\ cpc[p] = "closing" /\ GoTo(p, "dropping")
    /\ UNCHANGED <<supervisor, channel, control, root, strays>>

(* _close_capability_locked and the cleanup of a failed inheritance: the     *)
(* root first, the channel after it.                                         *)
CloseRootFirst(p) ==
    /\ cpc[p] = "closing" /\ GoTo(p, "dropping")
    /\ root' = root \ {p}
    /\ UNCHANGED <<supervisor, channel, control, strays>>

CloseControlLast(p) ==
    /\ cpc[p] = "dropping" /\ GoTo(p, "closed")
    /\ CloseControl(p)
    /\ UNCHANGED <<supervisor, toSup, shut, root, strays>>

(* os.fork: the handlers keep it out of an inheritance and of every use, and *)
(* close an issued capability in the child before its Python code runs.      *)
Fork(p, c) ==
    /\ cpc[p] \in {"start", "issued"} /\ cpc[c] = "absent"
    /\ GoTo(c, IF cpc[p] = "start" THEN "start" ELSE "closing")
    /\ control' = IF p \in control THEN control \cup {c} ELSE control
    /\ root' = IF p \in root THEN root \cup {c} ELSE root
    /\ UNCHANGED <<supervisor, channel, strays>>

(* A process ends, at any point, and the kernel closes what it holds.        *)
Exit(p) ==
    /\ cpc[p] \notin {"absent", "closed"} /\ GoTo(p, "closed")
    /\ CloseControl(p)
    /\ root' = root \ {p}
    /\ UNCHANGED <<supervisor, toSup, shut, strays>>

(* What the supervisor must not take for the end of the channel: a record it *)
(* never asked for, and shutdown(SHUT_WR).                                   *)
Misuse(p) ==
    /\ p \in control /\ strays < MaxStray /\ strays' = strays + 1
    /\ \/ \E r \in Stray : toSup' = Append(toSup, r) /\ ~shut /\ UNCHANGED shut
       \/ ~shut /\ shut' = TRUE /\ UNCHANGED toSup
    /\ UNCHANGED <<supervisor, toCo, reset, cpc, control, root>>

-----------------------------------------------------------------------------
Init ==
    /\ spc = "create" /\ revocation = "none" /\ monitor = TRUE /\ halfClosed = FALSE
    /\ hup = FALSE /\ rdhup = FALSE /\ signal = FALSE
    /\ toSup = <<>> /\ toCo = <<>> /\ reset = FALSE /\ shut = FALSE
    /\ cpc = [p \in Proc |-> IF p = Main THEN "start" ELSE "absent"]
    /\ control = {Main} /\ root = {} /\ strays = 0

SupervisorStep ==
    \/ CreateSession \/ ConfigureSession \/ WaitForReady \/ SendHandoff
    \/ AmbiguousHandoff \/ Poll \/ ReceiveError \/ ReceiveRecord \/ ReceiveNothing
    \/ TerminationSignal \/ Cleanup

(* What every process does once started: the exchange, uses and closing.     *)
CoordinatorStep(p) ==
    \/ Inherit(p) \/ Receive(p) \/ ReceiveFails(p) \/ Issue(p) \/ Use(p) \/ UseEnds(p)
    \/ Revoke(p) \/ CloseRootFirst(p) \/ CloseControlLast(p)

Environment ==
    \/ SupervisorKilled \/ SignalArrives \/ ReadyFails \/ BarrierFails \/ SignalMonitorFails
    \/ \E p \in Proc : Close(p) \/ Exit(p) \/ Misuse(p)
    \/ \E p, c \in Proc : Fork(p, c)

(* Nothing is left to happen once the supervisor is gone and every process   *)
(* has closed its descriptors.                                               *)
Done == SupervisorGone /\ control = {} /\ UNCHANGED vars

Next == SupervisorStep \/ (\E p \in Proc : CoordinatorStep(p)) \/ Environment \/ Done

Spec == Init /\ [][Next]_vars

FairSpec == Spec /\ WF_vars(SupervisorStep) /\ \A p \in Proc : WF_vars(CoordinatorStep(p))

-----------------------------------------------------------------------------
SupervisorStates ==
    {"create", "configure", "ready", "send", "ambiguous", "barrier", "polled",
     "cleanup", "exited", "suppressed", "killed"}

ProcessStates ==
    {"absent", "start", "waiting", "received", "issued", "using", "closing", "dropping",
     "closed"}

(* Every variable keeps its type, and the queue its bound: one handoff and   *)
(* one revoke at most are ever sent, so that the supervisor's blocking sends *)
(* cannot fill the socket.                                                   *)
TypeOK ==
    /\ spc \in SupervisorStates
    /\ revocation \in {"none", "sent", "unavailable", "failed"}
    /\ monitor \in BOOLEAN /\ halfClosed \in BOOLEAN /\ hup \in BOOLEAN /\ rdhup \in BOOLEAN
    /\ signal \in BOOLEAN /\ reset \in BOOLEAN /\ shut \in BOOLEAN
    /\ toSup \in Seq(Stray \cup {"ready"})
    /\ toCo \in Seq({"handoff", "short", "revoke"})
    /\ Len(toCo) <= IF revocation = "none" THEN 1 ELSE 2
    /\ cpc \in [Proc -> ProcessStates]
    /\ control \subseteq Proc /\ root \subseteq Proc
    /\ strays \in Nat

(* The supervisor cleans the session up, and exits normally, only when no    *)
(* process of the coordinator holds the session's root and none can still    *)
(* receive it: "it does not begin cleanup while coordinator authority may be *)
(* in use", whatever was sent, half-closed, forked or killed before.         *)
NoAuthorityDuringCleanup ==
    spc \in {"cleanup", "exited"} => root = {} /\ toCo = <<>>

(* The states in which a process holds the channel's end, and those in which *)
(* it may hold the root.                                                     *)
Connected == ProcessStates \ {"absent", "closed"}
Entrusted == {"received", "issued", "using", "closing"}

(* Why the barrier is sound: a process that holds the root holds the channel *)
(* too (the root is closed first); nothing is queued for an end nobody       *)
(* holds; a reset or a reported hangup means that nobody does; and before    *)
(* the handoff there is nothing to hold.                                     *)
BarrierSound ==
    /\ control = {p \in Proc : cpc[p] \in Connected}
    /\ root \subseteq {p \in Proc : cpc[p] \in Entrusted}
    /\ PeerGone => toCo = <<>>
    /\ reset => PeerGone
    /\ spc = "polled" /\ hup => PeerGone
    /\ spc \in {"create", "configure", "ready", "send"} => root = {} /\ toCo = <<>>

(* The inductive invariant. *)
HandoffInv == TypeOK /\ BarrierSound /\ NoAuthorityDuringCleanup

(* No operation on the session starts once the supervisor has revoked it or  *)
(* is gone: the revoke byte stays queued until the capability is closed.     *)
(* (One claimant: a second process blocked in recvmsg could take the byte.)  *)
NoUseAfterRevocation ==
    [][\A p \in Proc :
          cpc[p] # "using" /\ cpc'[p] = "using" => revocation # "sent" /\ ~SupervisorGone]_vars

(* A termination signal taken after the handoff ends the coordinator's hold  *)
(* on the session, unless the revocation could not be sent or the supervisor *)
(* is gone.                                                                  *)
SignalEndsAuthority ==
    (spc = "barrier" /\ monitor /\ signal)
        ~> (root = {} \/ SupervisorGone \/ revocation = "failed")

(* The barrier is not a trap: when the last copy of the channel end is       *)
(* closed the supervisor leaves it, whatever was queued or half-closed.      *)
ClosureEndsBarrier ==
    (PeerGone /\ spc \in {"barrier", "polled"}) ~> SupervisorGone
=============================================================================
