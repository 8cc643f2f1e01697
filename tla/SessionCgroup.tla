---------------------------- MODULE SessionCgroup ----------------------------
(* The life of a session cgroup under the native supervisor                  *)
(* (native/binding-supervisor: linux.rs, linux/cgroup.rs, lib.rs): the       *)
(* delegated parent is qualified, a session directory is made under a fresh  *)
(* name, configured and handed to the coordinator, and cleaned up.  The      *)
(* supervisor may be killed at any point and started again on the same       *)
(* parent; what the killed run left behind is still there.                   *)
(*                                                                           *)
(* A directory is identified by its inode: run r makes inode r, and whoever  *)
(* else has access to the parent makes Stranger.  BindingHandoff models the  *)
(* channel; here the barrier knows when the coordinator let the session go.  *)
EXTENDS Naturals, FiniteSets

CONSTANTS
    Name,          \* session names a nonce can give
    ValidLeaf,     \* children is_valid_leaf_name accepts
    MalformedLeaf, \* children with the fixed prefix that it rejects
    OtherChild,    \* children without the fixed prefix
    Fixed, Other,  \* REQUIRED_CONTROLLERS, and the other controllers
    MaxRuns,       \* bound on the starts of the supervisor
    Attempts,      \* SESSION_COLLISION_ATTEMPTS
    MaxEntries,    \* MAX_DIRECT_SESSION_ENTRIES
    Failing,       \* the sets of "io" and "timeout" that may happen in a behaviour
    MaxMeddling,   \* bound on what outsiders do in the parent
    OutsiderAt     \* where in a run an outsider may act on the session directory

ASSUME SessionAssumption ==
    /\ Name # {} /\ MaxRuns \in Nat \ {0} /\ Attempts \in Nat \ {0} /\ MaxEntries \in Nat
    /\ MaxMeddling \in Nat
    /\ Failing \subseteq SUBSET {"io", "timeout"}
    /\ Fixed \intersect Other = {} /\ ValidLeaf \intersect (MalformedLeaf \cup OtherChild) = {}

VARIABLES
    entries,    \* the parent: the inode under each session name
    children,   \* the leaf cgroups in each session directory
    live,       \* those with a live process
    killed,     \* the sessions cgroup.kill was written to
    holder,     \* whether the coordinator holds each session
    delegated,  \* the parent's cgroup.subtree_control
    meddling,   \* how often outsiders have acted
    failing,    \* what may fail in this behaviour
    outcome,    \* how each run ended
    run, pc,    \* the current run and where it is
    attempt,    \* create_session: the attempt
    name,       \* Session.name
    ident,      \* Session.identity
    primary,    \* the primary result is an error
    failures,   \* CleanupFailures
    todo,       \* cleanup: the entries still to visit
    enumerated, \* direct_children_enumerated
    identified  \* session_identity_valid && parent_identity_valid

cgroups == <<entries, children, live, killed>>
host == <<delegated, meddling, failing>>
locals == <<attempt, name, ident, primary, failures, todo, enumerated, identified>>
vars == <<cgroups, holder, host, outcome, run, pc, locals>>

Run == 1..MaxRuns
Absent == 0
Stranger == MaxRuns + 1
Child == ValidLeaf \cup MalformedLeaf \cup OtherChild

(* Some call of the step may fail; a wait may run out of time. *)
MayFail == "io" \in failing
MayTimeOut == "timeout" \in failing

Populated(i) == i \in Run /\ live[i] # {}

(* unlinkat(AT_REMOVEDIR) on a cgroup: no children and no processes. *)
Removable(i) == i \in Run => children[i] = {} /\ live[i] = {}

(* require_parent_entry_identity *)
NamesSession == entries[name] = ident

(* remove_validated_leaf succeeds: the leaf is still there, and unpopulated. *)
LeafRemovable(e) == e \in children[ident] \ live[ident]

NoTrace(r) == (\A n \in Name : entries[n] # r) /\ children[r] = {} /\ live[r] = {}

Start ==
    /\ pc' = "qualify" /\ attempt' = 1 /\ primary' = FALSE /\ failures' = {} /\ todo' = {}
    /\ enumerated' = FALSE /\ identified' = FALSE /\ ident' = Absent /\ UNCHANGED name

Init ==
    /\ entries = [n \in Name |-> Absent]
    /\ children = [r \in Run |-> {}] /\ live = [r \in Run |-> {}]
    /\ killed = [r \in Run |-> FALSE]
    /\ holder = [r \in Run |-> "none"]
    /\ delegated \in SUBSET (Fixed \cup Other)
    /\ meddling = 0 /\ failing \in Failing
    /\ outcome = [r \in Run |-> "none"]
    /\ run = 1 /\ pc = "qualify" /\ attempt = 1
    /\ primary = FALSE /\ failures = {} /\ todo = {} /\ enumerated = FALSE /\ identified = FALSE
    /\ ident = Absent /\ name = CHOOSE n \in Name : TRUE

Return(result) ==
    /\ pc' = "ended"
    /\ outcome' = [outcome EXCEPT ![run] = result]

CleanUp(failed) ==
    /\ pc' = "kill" /\ primary' = failed
    /\ UNCHANGED outcome

-----------------------------------------------------------------------------
(* qualify_parent: nothing alive below the parent, no controller enabled but *)
(* the fixed ones; the fixed ones are then enabled and read back.            *)
Refused == (\E r \in Run : Populated(r)) \/ ~(delegated \subseteq Fixed)

QualifyPopulated ==   \* faulty: without require_domain_unpopulated
    /\ pc = "qualify" /\ delegated \subseteq Fixed
    /\ delegated' = delegated \cup Fixed /\ pc' = "create"
    /\ UNCHANGED <<cgroups, holder, meddling, failing, outcome, run, locals>>

QualifyParent ==
    /\ pc = "qualify"
    /\ \/ (Refused \/ MayFail) /\ Return("error") /\ UNCHANGED delegated
       \/ /\ ~Refused
          /\ delegated' = delegated \cup Fixed
          /\ \/ pc' = "create" /\ UNCHANGED outcome
             \/ MayFail /\ Return("error")
    /\ UNCHANGED <<cgroups, holder, meddling, failing, run, locals>>

CreateTaken ==   \* faulty: EEXIST counts as created
    /\ pc = "create"
    /\ \E n \in Name :
          entries' = [entries EXCEPT ![n] = IF @ = Absent THEN run ELSE @] /\ name' = n
    /\ pc' = "open"
    /\ UNCHANGED <<children, live, killed, holder, host, outcome, run, attempt, ident,
                   primary, failures, todo, enumerated, identified>>

(* create_session, one attempt: the name is taken, or the nonce all zero,    *)
(* and another attempt is made while there is one; or the directory is made; *)
(* or getrandom or mkdirat fails.                                            *)
CreateCollides ==
    /\ pc = "create"
    /\ MayFail \/ \E n \in Name : entries[n] # Absent
    /\ \/ attempt < Attempts /\ attempt' = attempt + 1 /\ UNCHANGED <<pc, outcome>>
       \/ attempt = Attempts /\ Return("error") /\ UNCHANGED attempt
    /\ UNCHANGED <<cgroups, holder, host, run, name, ident, primary, failures, todo,
                   enumerated, identified>>

CreateSession ==
    /\ pc = "create"
    /\ \/ \E n \in Name :
             /\ entries[n] = Absent
             /\ entries' = [entries EXCEPT ![n] = run] /\ name' = n
             /\ pc' = "open" /\ UNCHANGED outcome
       \/ MayFail /\ Return("error") /\ UNCHANGED <<entries, name>>
    /\ UNCHANGED <<children, live, killed, holder, host, run, attempt, ident, primary,
                   failures, todo, enumerated, identified>>

(* The new directory is opened by its name and identified; when either fails *)
(* it is removed again, if it can be.                                        *)
OpenSession ==
    /\ pc = "open"
    /\ \/ /\ ident' = entries[name] /\ pc' = "configure"
          /\ UNCHANGED <<entries, outcome>>
       \/ /\ MayFail /\ Return("error")
          /\ entries' \in {entries, [entries EXCEPT ![name] = Absent]}
          /\ UNCHANGED ident
    /\ UNCHANGED <<children, live, killed, holder, host, run, attempt, name, primary,
                   failures, todo, enumerated, identified>>

(* configure_session, and the clean-up run() makes of a failure. *)
ConfigureSession ==
    /\ pc = "configure"
    /\ \/ /\ NamesSession /\ ~Populated(ident)
          /\ pc' = "handoff" /\ UNCHANGED <<outcome, primary>>
       \/ /\ MayFail \/ ~NamesSession \/ Populated(ident)
          /\ CleanUp(TRUE)
    /\ UNCHANGED <<cgroups, holder, host, run, attempt, name, ident, failures, todo,
                   enumerated, identified>>

(* wait_for_ready and send_handoff: nothing was sent; or the session was; or *)
(* the count was short and it may have been.                                 *)
HandOff ==
    /\ pc = "handoff"
    /\ \/ CleanUp(TRUE) /\ UNCHANGED holder
       \/ /\ pc' = "barrier" /\ holder' = [holder EXCEPT ![ident] = "held"]
          /\ UNCHANGED <<outcome, primary>>
       \/ /\ pc' = "barrier" /\ holder' \in {holder, [holder EXCEPT ![ident] = "held"]}
          /\ primary' = TRUE /\ UNCHANGED outcome
    /\ UNCHANGED <<cgroups, host, run, attempt, name, ident, failures, todo, enumerated,
                   identified>>

(* wait_for_post_handoff_eof: EofVerified cleans up; EofUnverified leaves    *)
(* the session to the host and suppresses the clean-up.                      *)
Barrier ==
    /\ pc = "barrier"
    /\ \/ /\ holder[ident] # "held"
          /\ \E failed \in {primary, TRUE} : CleanUp(failed)
       \/ Return("suppressed") /\ UNCHANGED primary
    /\ UNCHANGED <<cgroups, holder, host, run, attempt, name, ident, failures, todo,
                   enumerated, identified>>

-----------------------------------------------------------------------------
(* Session::cleanup *)

Record(failure) == failures' = failures \cup {failure}

(* cgroup.kill at the session's root, through the retained descriptor. *)
Kill ==
    /\ pc = "kill" /\ pc' = "wait"
    /\ \/ killed' = [killed EXCEPT ![ident] = TRUE] /\ UNCHANGED failures
       \/ MayFail /\ Record("kill") /\ UNCHANGED killed
    /\ UNCHANGED <<entries, children, live, holder, host, outcome, run, attempt, name, ident,
                   primary, todo, enumerated, identified>>

WaitForever ==   \* faulty: without the timeout
    /\ pc = "wait" /\ pc' = "list"
    /\ ~Populated(ident)
    /\ UNCHANGED <<cgroups, holder, host, outcome, run, attempt, name, ident, primary,
                   failures, todo, enumerated, identified>>

(* wait_until_unpopulated: unpopulated, out of time, or a read failed. *)
WaitUntilUnpopulated ==
    /\ pc = "wait" /\ pc' = "list"
    /\ \/ ~Populated(ident) /\ UNCHANGED failures
       \/ (MayFail \/ (MayTimeOut /\ Populated(ident))) /\ Record("wait")
    /\ UNCHANGED <<cgroups, holder, host, outcome, run, attempt, name, ident, primary, todo,
                   enumerated, identified>>

ListFromEnd ==   \* faulty: a shared directory offset is already at its end
    /\ pc = "list" /\ pc' = "leaves"
    /\ todo' = {} /\ enumerated' = TRUE
    /\ UNCHANGED <<cgroups, holder, host, outcome, run, attempt, name, ident, primary,
                   failures, identified>>

(* list_direct_children, up to its fixed bound. *)
ListDirectChildren ==
    /\ pc = "list" /\ pc' = "leaves"
    /\ \/ /\ Cardinality(children[ident]) <= MaxEntries
          /\ todo' = children[ident] /\ enumerated' = TRUE
          /\ UNCHANGED failures
       \/ /\ MayFail \/ Cardinality(children[ident]) > MaxEntries
          /\ todo' = {} /\ enumerated' = FALSE
          /\ Record("enumerate")
    /\ UNCHANGED <<cgroups, holder, host, outcome, run, attempt, name, ident, primary,
                   identified>>

(* The loop over the entries: a valid leaf is removed when it is still there *)
(* and unpopulated (remove_validated_leaf), a malformed one refused, another *)
(* child left alone.                                                         *)
VisitEntry ==
    /\ pc = "leaves"
    /\ \E e \in todo :
          /\ todo' = todo \ {e}
          /\ \/ /\ e \in ValidLeaf /\ LeafRemovable(e)
                /\ children' = [children EXCEPT ![ident] = @ \ {e}]
                /\ UNCHANGED failures
             \/ /\ e \in ValidLeaf /\ (MayFail \/ ~LeafRemovable(e))
                /\ Record("leaf") /\ UNCHANGED children
             \/ e \in MalformedLeaf /\ Record("malformed") /\ UNCHANGED children
             \/ e \in OtherChild /\ UNCHANGED <<failures, children>>
    /\ UNCHANGED <<entries, live, killed, holder, host, outcome, run, pc, attempt, name,
                   ident, primary, enumerated, identified>>

(* require_parent_entry_identity and the parent's own identity. *)
ValidateIdentity ==
    /\ pc = "leaves" /\ todo = {} /\ pc' = "unlink"
    /\ \/ NamesSession /\ identified' = TRUE /\ UNCHANGED failures
       \/ (MayFail \/ ~NamesSession) /\ identified' = FALSE /\ Record("identity")
    /\ UNCHANGED <<cgroups, holder, host, outcome, run, attempt, name, ident, primary, todo,
                   enumerated>>

FinishSilently(recorded) ==   \* faulty: what clean-up recorded is dropped
    /\ failures' = recorded
    /\ Return(IF primary THEN "error" ELSE "ok")

(* The session's own directory goes only when its children were listed and   *)
(* the name still stands for it; finish_lifecycle then combines everything.  *)
FinishLifecycle(recorded) ==
    /\ failures' = recorded
    /\ Return(IF primary \/ recorded # {} THEN "error" ELSE "ok")

RemoveSessionRoot ==
    /\ pc = "unlink"
    /\ \/ /\ enumerated /\ identified /\ entries[name] # Absent /\ Removable(entries[name])
          /\ entries' = [entries EXCEPT ![name] = Absent]
          /\ FinishLifecycle(failures)
       \/ /\ ~enumerated \/ ~identified \/ MayFail \/ entries[name] = Absent
             \/ ~Removable(entries[name])
          /\ FinishLifecycle(failures \cup {"root"})
          /\ UNCHANGED entries
    /\ UNCHANGED <<children, live, killed, holder, host, run, attempt, name, ident, primary,
                   todo, enumerated, identified>>

-----------------------------------------------------------------------------
(* Everyone else. *)

Killed9 ==   \* SIGKILL: no handler runs
    /\ pc # "ended" /\ Return("killed")
    /\ UNCHANGED <<cgroups, holder, host, run, locals>>

Restart ==
    /\ pc = "ended" /\ run < MaxRuns /\ run' = run + 1
    /\ Start
    /\ UNCHANGED <<cgroups, holder, host, outcome>>

Visible(r) == \E n \in Name : entries[n] = r

(* The coordinator: leaves for its leases, workloads in them, the end. *)
MakeLeaf(r, e) ==
    /\ holder[r] = "held" /\ Visible(r) /\ e \notin children[r]
    /\ children' = [children EXCEPT ![r] = @ \cup {e}]
    /\ UNCHANGED <<entries, live, killed, holder, host, outcome, run, pc, locals>>

Spawn(r, e) ==
    /\ holder[r] = "held" /\ e \in children[r] \ live[r]
    /\ live' = [live EXCEPT ![r] = @ \cup {e}]
    /\ UNCHANGED <<entries, children, killed, holder, host, outcome, run, pc, locals>>

DropLeaf(r, e) ==
    /\ holder[r] = "held" /\ e \in children[r] \ live[r]
    /\ children' = [children EXCEPT ![r] = @ \ {e}]
    /\ UNCHANGED <<entries, live, killed, holder, host, outcome, run, pc, locals>>

Release(r) ==
    /\ holder[r] = "held" /\ holder' = [holder EXCEPT ![r] = "closed"]
    /\ UNCHANGED <<cgroups, host, outcome, run, pc, locals>>

(* A workload ends, by itself or long after it was killed. *)
Die(r, e) ==
    /\ e \in live[r] /\ live' = [live EXCEPT ![r] = @ \ {e}]
    /\ UNCHANGED <<entries, children, killed, holder, host, outcome, run, pc, locals>>

(* Whoever else has the delegated parent open. *)
Meddle ==
    /\ pc \in OutsiderAt /\ meddling < MaxMeddling /\ meddling' = meddling + 1
    /\ UNCHANGED <<live, killed, holder, delegated, failing, outcome, run, pc, locals>>

StrangeChild(r, e) ==
    /\ Meddle /\ Visible(r) /\ e \notin children[r]
    /\ children' = [children EXCEPT ![r] = @ \cup {e}]
    /\ UNCHANGED entries

Swap(n) ==
    /\ Meddle /\ entries[n] \in Run /\ Removable(entries[n])
    /\ entries' = [entries EXCEPT ![n] = Stranger]
    /\ UNCHANGED children

-----------------------------------------------------------------------------
Supervisor ==
    \/ QualifyParent \/ CreateCollides \/ CreateSession \/ OpenSession \/ ConfigureSession
    \/ HandOff \/ Barrier
    \/ Kill \/ WaitUntilUnpopulated \/ ListDirectChildren \/ VisitEntry \/ ValidateIdentity
    \/ RemoveSessionRoot

Environment ==
    \/ Killed9 \/ Restart
    \/ \E r \in Run :
          \/ Release(r)
          \/ \E e \in ValidLeaf : MakeLeaf(r, e) \/ Spawn(r, e) \/ DropLeaf(r, e) \/ Die(r, e)
          \/ \E e \in MalformedLeaf \cup OtherChild : StrangeChild(r, e)
    \/ \E n \in Name : Swap(n)

Next == Supervisor \/ Environment

Spec == Init /\ [][Next]_vars

(* The supervisor keeps running; nothing makes a workload die. *)
FairSpec == Spec /\ WF_vars(Supervisor)

-----------------------------------------------------------------------------
TypeOK ==
    /\ entries \in [Name -> 0..Stranger]
    /\ children \in [Run -> SUBSET Child] /\ live \in [Run -> SUBSET ValidLeaf]
    /\ killed \in [Run -> BOOLEAN] /\ holder \in [Run -> {"none", "held", "closed"}]
    /\ delegated \subseteq Fixed \cup Other /\ meddling \in 0..MaxMeddling /\ failing \in Failing
    /\ outcome \in [Run -> {"none", "ok", "error", "suppressed", "killed"}]
    /\ run \in Run /\ attempt \in 1..Attempts /\ name \in Name /\ ident \in {Absent} \cup Run
    /\ pc \in {"qualify", "create", "open", "configure", "handoff", "barrier", "kill", "wait",
               "list", "leaves", "unlink", "ended"}
    /\ primary \in BOOLEAN /\ enumerated \in BOOLEAN /\ identified \in BOOLEAN
    /\ failures \subseteq {"kill", "wait", "enumerate", "leaf", "malformed", "identity", "root"}
    /\ todo \subseteq Child

(* A run that reports success (run returns Ok) left nothing behind: its      *)
(* directory, every leaf and every process in it are gone, whatever failed,  *)
(* timed out or was interfered with on the way.                              *)
SuccessLeavesNothing == \A r \in Run : outcome[r] = "ok" => NoTrace(r)

(* A run kills and removes only the session it made itself: neither what an  *)
(* earlier run left under a colliding name, nor a directory that an outsider *)
(* put in the place of its own before cleanup looked.                        *)
OwnSessionOnly ==
    [][/\ \A r \in Run \ {run} : killed'[r] = killed[r]
       /\ \A n \in Name : entries'[n] = Absent => entries[n] \in {Absent, run}]_vars

(* Workloads of two sessions run at once only if the earlier supervisor was  *)
(* killed or gave its session up: qualify_parent turns away a parent below   *)
(* which a failed cleanup left processes running.                            *)
NoOverlap ==
    \A r, s \in Run :
        r < s /\ live[r] # {} /\ live[s] # {} => outcome[r] \in {"killed", "suppressed"}

(* Where no call fails and nothing outlives its kill, a run that cleans up   *)
(* leaves nothing behind, also when it reports a primary error, unless       *)
(* someone put a child of another kind into the session.                     *)
CleanupRemovesAll ==
    failing = {} =>
        \A r \in Run : outcome[r] \in {"ok", "error"} /\ children[r] \subseteq ValidLeaf => NoTrace(r)

(* Cleanup comes to its end although workloads never die: the wait is        *)
(* bounded, and every failure is recorded and passed over.  (Without the     *)
(* timeout among the failures the model has workloads die in time.)          *)
CleanupEnds == pc = "kill" /\ "timeout" \in failing ~> pc = "ended"

(* docs/NATIVE_SUPERVISOR_PROTOCOL.md: a cleanup failure "leaves the session *)
(* visible for recovery".                                                    *)
CleanupFailureVisible == pc = "ended" /\ failures # {} => Visible(run)
=============================================================================
