----------------------------- MODULE CorpusPrep -------------------------------
(* competitive_corpus_prep.py: verify_local_source, prepare_local_source and *)
(* the two reopen functions.  Each opens files relative to a directory it    *)
(* holds open and reads them block by block; the first two read the          *)
(* acquisition plan before that.  prepare copies the source into an          *)
(* anonymous file, flushes and checks it, and links it to the destination    *)
(* name; from there on it never undoes anything, but has to tell its caller  *)
(* how far the publication came, whatever exception arrives in between.      *)
(* reopen copies the file of a record into a sealed memory file.             *)
EXTENDS SecureFiles

CONSTANTS
    Operations,     \* what the process may be asked for
    MaxOperations,  \* bound on the calls; at most one that succeeds prepares
    SnapshotLimit,  \* MAX_REOPEN_SNAPSHOT_BYTES
    MaxPlanBytes,   \* MAX_PLAN_BYTES
    PlanLimits      \* what callers pass as max_plan_bytes

ASSUME PrepAssumption ==
    /\ Operations \subseteq {"verify", "prepare", "reopen"}
    /\ MaxOperations \in Nat /\ SnapshotLimit \in Nat
    /\ MaxPlanBytes \in Nat /\ PlanLimits \subseteq Int
    /\ {"source", "destination", "plan"} \subseteq Name

VARIABLES
    c,           \* the call: its program counter, descriptors and local variables
    calls,       \* how many calls were made
    record,      \* the record the caller holds: whose, and the identities in it
    told,        \* how the last call ended, as its caller sees it
    plan,        \* history: what the opened plan held, and what was read of it
    output,      \* history: the file this process linked to the destination
    certified    \* history: durable was concluded and no one touched the files since

vars == <<files, c, calls, record, told, plan, output, certified>>

Role == {"plan", "parent", "source", "destParent", "temp"}
NoFds == [r \in Role |-> NoIno]
NoRecord == [name |-> "none", dir |-> NoIno, ino |-> NoIno]
NoOutput == [dir |-> NoIno, ino |-> NoIno, whole |-> FALSE]
NoTold == [op |-> "none", error |-> "none", state |-> "not_committed"]

(* What the plan file held when it was opened and holds now, how often       *)
(* others rewrote it in between, and the text the call goes by.              *)
NoPlan == [opened |-> <<>>, now |-> <<>>, rewrites |-> 0, read |-> <<>>]
States == {"not_committed", "commit_outcome_unknown", "committed_not_durable",
           "committed_name_unavailable", "durable"}

(* meta and base: the stats that later ones are compared with; got: blocks   *)
(* read or hashed so far; raw: the plan at the first read; snap: the memory  *)
(* file, and whether it is sealed; domain: which exceptions are made of an   *)
(* OSError; limit: the argument max_plan_bytes.                              *)
Idle == [pc |-> "idle", op |-> "none", fd |-> NoFds, meta |-> NoMeta, base |-> NoMeta,
         got |-> <<>>, raw |-> <<>>, snap |-> <<>>, sealed |-> FALSE, domain |-> "plan",
         limit |-> 0, error |-> "none", state |-> "not_committed", attempted |-> FALSE]

Go(next) == c' = next /\ UNCHANGED <<files, calls, record, told, plan, output, certified>>

Raise(e) == Go([c EXCEPT !.pc = "handler", !.error = e])

-----------------------------------------------------------------------------
Start ==
    /\ c.pc = "idle" /\ calls < MaxOperations
    /\ \E o \in Operations, limit \in PlanLimits :
          /\ o = "prepare" => output = NoOutput /\ record = NoRecord
          /\ o = "reopen" => record # NoRecord
          /\ c' = [Idle EXCEPT !.op = o, !.limit = limit,
                               !.pc = IF o = "reopen" THEN "openParent" ELSE "lstatPlan",
                               !.domain = IF o = "reopen" THEN "corpus" ELSE "plan"]
    /\ calls' = calls + 1 /\ told' = NoTold /\ plan' = NoPlan
    /\ UNCHANGED <<files, record, output, certified>>

(* load_acquisition_plan: the file is looked at by name, opened, and read    *)
(* twice; it must be one regular file without other names, of at most        *)
(* max_plan_bytes, that does not change.                                     *)

Regular(i) == i # NoIno /\ file[i].kind = "file" /\ Links(i) = 1

Readable(i) ==
    /\ 1 <= c.limit /\ c.limit <= MaxPlanBytes
    /\ Regular(i) /\ Len(file[i].data) <= c.limit

LstatPlan ==
    /\ c.pc = "lstatPlan"
    /\ \/ ~Readable(At("plan")) /\ Raise("Plan")
       \/ Readable(At("plan")) /\ Go([c EXCEPT !.pc = "openPlan", !.meta = Meta(At("plan"))])

OpenPlan ==
    /\ c.pc = "openPlan"
    /\ LET i == At("plan") IN
       \/ (i = NoIno \/ c.meta # Meta(i)) /\ Raise("Plan")
       \/ /\ i # NoIno /\ c.meta = Meta(i)
          /\ c' = [c EXCEPT !.pc = "readPlan", !.fd["plan"] = i]
          /\ plan' = [NoPlan EXCEPT !.opened = file[i].data, !.now = file[i].data]
          /\ UNCHANGED <<files, calls, record, told, output, certified>>

SamePlanStat == c.meta = Meta(c.fd["plan"])   \* faulty: the two reads are not compared

SamePlan ==
    /\ c.meta = Meta(c.fd["plan"])
    /\ c.pc = "rereadPlan" => c.got = c.raw

(* _read_plan_descriptor_bounded, which stops at the first byte too many,    *)
(* and the fstat after it, twice.                                            *)
ReadPlan ==
    /\ c.pc \in {"readPlan", "rereadPlan"}
    /\ LET data == file[c.fd["plan"]].data IN
       \/ /\ Len(c.got) <= c.limit /\ Len(c.got) < Len(data)
          /\ Go([c EXCEPT !.got = Append(@, data[Len(@) + 1])])
       \/ Len(c.got) > c.limit /\ Raise("Plan")
       \/ Len(c.got) <= c.limit /\ Len(c.got) >= Len(data) /\ ~SamePlan /\ Raise("Plan")
       \/ /\ Len(c.got) <= c.limit /\ Len(c.got) >= Len(data) /\ SamePlan
          /\ c' = [c EXCEPT !.pc = IF @ = "readPlan" THEN "rereadPlan" ELSE "closePlan",
                            !.raw = c.got, !.got = <<>>]
          /\ plan' = IF c.pc = "readPlan" THEN plan ELSE [plan EXCEPT !.read = c.raw]
          /\ UNCHANGED <<files, calls, record, told, output, certified>>

ClosePlan ==
    /\ c.pc = "closePlan"
    /\ LET closed == [c EXCEPT !.fd["plan"] = NoIno] IN
       \/ Go([closed EXCEPT !.pc = "parsePlan", !.raw = <<>>, !.meta = NoMeta])
       \/ Go([closed EXCEPT !.pc = "handler", !.error = "Plan"])

(* What the text of a plan may be rejected for before its descriptors are    *)
(* looked at.                                                                *)
Defect == {"bom", "not_utf8", "too_deep", "not_json", "duplicate_key", "constant", "float",
           "wide_integer", "wrong_keys", "wrong_schema", "wrong_plan", "binding", "wrong_corpora"}

(* What a descriptor says, and _parse_descriptor: a blocked one needs a      *)
(* reason, any other every field that ties it to one source and to its       *)
(* approvals.                                                                *)
Feature == {"blocked", "blocked_reason", "source_url", "expected_source_bytes",
            "expected_source_sha256", "license_evidence", "benchmark_use", "redistribution",
            "approval_record", "content_addressed", "aggregate_bundle", "member_manifest"}

RequiredToRun == {"source_url", "expected_source_bytes", "expected_source_sha256",
                  "license_evidence", "benchmark_use", "redistribution", "approval_record",
                  "content_addressed"}

Parses(d) ==
    /\ d \cap {"benchmark_use", "redistribution"} # {} => "approval_record" \in d
    /\ IF "blocked" \in d THEN "blocked_reason" \in d
       ELSE /\ "blocked_reason" \notin d /\ RequiredToRun \subseteq d
            /\ "aggregate_bundle" \in d => "member_manifest" \in d
    /\ "aggregate_bundle" \notin d => "member_manifest" \notin d

(* _descriptor_for_operation looks at the descriptor once more. *)
Complete(d) ==
    {"source_url", "expected_source_bytes", "expected_source_sha256", "license_evidence",
     "benchmark_use", "redistribution", "approval_record"} \subseteq d

Outcome(d) ==
    CASE ~Parses(d) -> "Plan"
      [] Parses(d) /\ "blocked" \in d -> "Blocked"
      [] Parses(d) /\ "blocked" \notin d /\ ~Complete(d) -> "Incomplete"
      [] OTHER -> "none"

(* secure_local_preparation_supported and the flags and calls it asks for: a *)
(* platform without them refuses after the plan, before a file is opened.    *)
Unsupported == {"Preparation"}

(* A text with a defect is refused like a descriptor that does not parse.    *)
Outcomes == {Outcome(d) : d \in SUBSET Feature} \cup Unsupported
            \cup {"Plan" : defect \in Defect}

ParsePlan ==
    /\ c.pc = "parsePlan"
    /\ \E e \in Outcomes :
          IF e = "none" THEN Go([c EXCEPT !.pc = "openParent", !.domain = "corpus"]) ELSE Raise(e)

-----------------------------------------------------------------------------
(* _open_regular_path_secure: the directory is opened component by component *)
(* without following links, the file relative to it.  The source has to be a *)
(* regular file without other names and of the announced size                *)
(* (_validate_source_metadata), for a record also the one it was issued for. *)

Target == IF c.op = "reopen" THEN record.name ELSE "source"

OpenParent ==
    /\ c.pc = "openParent"
    /\ IF work = NoIno THEN Raise("Preparation")
       ELSE Go([c EXCEPT !.pc = "openSource", !.fd["parent"] = work])

IssuedFor(i) == record.dir = c.fd["parent"] /\ record.ino = i

Acceptable(i) ==
    /\ Regular(i) /\ Len(file[i].data) = Len(Expected)
    /\ c.op = "reopen" => IssuedFor(i) /\ Len(Expected) <= SnapshotLimit

OpenSource ==
    /\ c.pc = "openSource"
    /\ LET i == entry[c.fd["parent"]][Target] IN
       \/ ~Acceptable(i) /\ Raise("Preparation")
       \/ /\ Acceptable(i)
          /\ Go([c EXCEPT !.fd["source"] = i, !.meta = Meta(i),
                          !.pc = IF c.op = "prepare" THEN "openDest" ELSE "read"])

OpenDest ==
    /\ c.pc = "openDest"
    /\ IF work = NoIno THEN Raise("Preparation")
       ELSE Go([c EXCEPT !.pc = "create", !.fd["destParent"] = work])

(* _destination_exists, then _create_temporary_output: an anonymous file in  *)
(* that directory.                                                           *)
CreateTemporary ==
    /\ c.pc = "create"
    /\ \/ entry[c.fd["destParent"]]["destination"] # NoIno /\ Raise("Preparation")
       \/ /\ entry[c.fd["destParent"]]["destination"] = NoIno
          /\ \E i \in {j \in Ino : file[j].kind = "free"} :
                /\ \A j \in Ino : file[j].kind = "free" => i <= j
                /\ file' = [file EXCEPT ![i] = [kind |-> "file", data |-> <<>>, mtime |-> 0,
                                                ctime |-> 0]]
                /\ c' = [c EXCEPT !.pc = "read", !.fd["temp"] = i]
          /\ UNCHANGED <<work, entry, onDisk, flushed, changes, coarse, calls, record, told, plan,
                         output, certified>>

(* _hash_fd_exact and _copy_source_to_fd: exactly the expected number of     *)
(* blocks, then one more read that must return nothing.                      *)

Stream == file[c.fd["source"]].data

ReadBlock ==
    /\ c.pc = "read" /\ Len(c.got) < Len(Expected)
    /\ \/ Len(Stream) <= Len(c.got) /\ Raise("Preparation")
       \/ /\ Len(Stream) > Len(c.got)
          /\ LET block == Stream[Len(c.got) + 1] IN
             /\ c' = [c EXCEPT !.got = Append(@, block),
                               !.snap = IF c.op = "reopen" THEN Append(@, block) ELSE @]
             /\ file' = IF c.op = "prepare"
                        THEN [file EXCEPT ![c.fd["temp"]].data = Append(@, block)] ELSE file
          /\ UNCHANGED <<work, entry, onDisk, flushed, changes, coarse, calls, record, told, plan,
                         output, certified>>

SourceHeldSize ==   \* faulty: the digest is not compared
    Len(Stream) = Len(Expected) /\ c.meta = Meta(c.fd["source"])

(* The extra read, the comparison of the metadata and that of the digest. *)
SourceHeld == Len(Stream) = Len(Expected) /\ c.meta = Meta(c.fd["source"]) /\ c.got = Expected

EndRead ==
    /\ c.pc = "read" /\ Len(c.got) = Len(Expected)
    /\ \/ ~SourceHeld /\ Raise("Preparation")
       \/ /\ SourceHeld
          /\ Go([c EXCEPT !.got = <<>>, !.pc = CASE c.op = "verify" -> "close"
                                                 [] c.op = "prepare" -> "flush"
                                                 [] OTHER -> "seal"])

(* Seals the memory file, then hashes what can no longer change. *)
SealSnapshot == c.pc = "seal" /\ Go([c EXCEPT !.pc = "close", !.sealed = TRUE])

-----------------------------------------------------------------------------
(* prepare_local_source from the fsync of the anonymous file on.  Nobody     *)
(* else has that file yet, so its verification is part of the step.          *)

FlushLate ==   \* faulty: the file is linked before its bytes are flushed
    c.pc = "flush" /\ Go([c EXCEPT !.pc = "link"])

Flush ==
    /\ c.pc = "flush"
    /\ flushed' = [flushed EXCEPT ![c.fd["temp"]] = file[c.fd["temp"]].data]
    /\ c' = [c EXCEPT !.pc = IF file[c.fd["temp"]].data = Expected THEN "link" ELSE "handler",
                      !.error = IF file[c.fd["temp"]].data = Expected THEN @ ELSE "Preparation"]
    /\ UNCHANGED <<work, entry, file, onDisk, changes, coarse, calls, record, told, plan, output,
                   certified>>

(* publication_attempted is set before the system call that it announces. *)
Attempt == c.pc = "link" /\ Go([c EXCEPT !.pc = "linkat", !.attempted = TRUE])

(* _publish_anonymous_no_replace: linkat does not replace a name. *)
PublishLink ==
    /\ c.pc = "linkat"
    /\ \/ /\ entry[c.fd["destParent"]]["destination"] = NoIno
          /\ entry' = [entry EXCEPT ![c.fd["destParent"]]["destination"] = c.fd["temp"]]
          /\ file' = [file EXCEPT ![c.fd["temp"]].ctime = MaxChanges + 1]
          /\ output' = [dir |-> c.fd["destParent"], ino |-> c.fd["temp"],
                        whole |-> flushed[c.fd["temp"]] = Expected]
          /\ c' = [c EXCEPT !.pc = "linked"]
          /\ UNCHANGED <<work, onDisk, flushed, changes, coarse, calls, record, told, plan, certified>>
       \/ Raise("NotCommitted")

NoteCommitted == c.pc = "linked" /\ Go([c EXCEPT !.pc = "stat", !.state = "committed_not_durable"])

(* The published file has this one name and is what was verified before. *)
StatPublished ==
    /\ c.pc = "stat"
    /\ LET now == Meta(c.fd["temp"]) IN
       IF now.links = 1 /\ now.size = Len(Expected) /\ now.mtime = 0
       THEN Go([c EXCEPT !.pc = "rehash", !.base = now]) ELSE Raise("Preparation")

Rehash ==
    /\ c.pc = "rehash"
    /\ LET data == file[c.fd["temp"]].data IN
       \/ /\ Len(c.got) < Len(data) /\ Len(c.got) < Len(Expected)
          /\ Go([c EXCEPT !.got = Append(@, data[Len(@) + 1])])
       \/ /\ Len(c.got) >= Len(data) \/ Len(c.got) = Len(Expected)
          /\ IF Len(data) = Len(Expected) /\ c.base = Meta(c.fd["temp"]) /\ c.got = Expected
             THEN Go([c EXCEPT !.pc = "syncDir", !.got = <<>>]) ELSE Raise("Preparation")

SyncNothing ==   \* faulty: durable without the fsync of the directory
    c.pc = "syncDir" /\ Go([c EXCEPT !.pc = "named"])

SyncDirectory ==
    /\ c.pc = "syncDir"
    /\ onDisk' = [onDisk EXCEPT ![c.fd["destParent"]] = entry[c.fd["destParent"]]]
    /\ c' = [c EXCEPT !.pc = "named"]
    /\ UNCHANGED <<work, entry, file, flushed, changes, coarse, calls, record, told, plan, output,
                   certified>>

NoteNameUnavailable ==
    c.pc = "named" /\ Go([c EXCEPT !.pc = "statName", !.state = "committed_name_unavailable"])

NameHolds ==
    LET i == entry[c.fd["destParent"]]["destination"] IN i # NoIno /\ Meta(i) = c.base

StatName ==
    /\ c.pc = "statName"
    /\ \/ ~NameHolds /\ Raise("NameUnavailable")
       \/ /\ NameHolds
          /\ c' = [c EXCEPT !.pc = "close", !.state = "durable"]
          /\ certified' = TRUE
          /\ UNCHANGED <<files, calls, record, told, plan, output>>

-----------------------------------------------------------------------------
(* Any statement up to there may raise: a system call that fails, memory     *)
(* that runs out, a signal that interrupts the process.                      *)
Fault ==
    /\ c.pc \notin {"idle", "off", "handler", "close"}
    /\ \E e \in {"OSError", "Exception", "Interrupt"} : Raise(e)

(* The except clause: if linkat may or may not have run, the link count of   *)
(* the anonymous file tells; then the exception that says how far the        *)
(* publication came.                                                         *)

UncertainIgnored == FALSE   \* faulty: the link count is not looked at

Uncertain == c.attempted /\ c.state = "not_committed" /\ c.error # "NotCommitted"

Inspected(failed) ==
    IF ~Uncertain THEN c.state
    ELSE IF ~failed /\ Links(c.fd["temp"]) >= 1 THEN "committed_not_durable"
    ELSE "commit_outcome_unknown"

Translated(e, state) ==
    CASE e = "Interrupt" /\ state = "commit_outcome_unknown" -> "Group"
      [] e # "Interrupt" /\ state = "commit_outcome_unknown" -> "OutcomeUnknown"
      [] e # "Interrupt" /\ state = "committed_not_durable" -> "Durability"
      [] e # "Interrupt" /\ state = "committed_name_unavailable" -> "NameUnavailable"
      [] e = "OSError" /\ state = "not_committed" ->
            IF c.domain = "plan" THEN "Plan" ELSE "Preparation"
      [] OTHER -> e

Handle ==
    /\ c.pc = "handler"
    /\ \E failed \in BOOLEAN :
          LET state == Inspected(failed) IN
          Go([c EXCEPT !.pc = "close", !.state = state, !.error = Translated(c.error, state)])

(* _close_descriptors_independently closes every descriptor whatever the     *)
(* others do, and _raise_operation_or_cleanup reports what failed.           *)
WithFailure(e, failure) ==
    CASE failure = "none" -> e
      [] failure = "Interrupt" \/ e \in {"Interrupt", "Group"} -> "Group"
      [] OTHER -> "Cleanup"

Issued(e) ==
    CASE c.op = "verify" /\ e = "none" -> [name |-> "source", dir |-> c.fd["parent"],
                                            ino |-> c.fd["source"]]
      [] c.op = "prepare" /\ c.state # "not_committed" /\ e # "Interrupt" ->
            [name |-> "destination", dir |-> c.fd["destParent"], ino |-> c.fd["temp"]]
      [] OTHER -> record

(* A reopened file leaves as a sealed snapshot, kept open only when nothing  *)
(* failed, the closing of the two descriptors it was made from included.     *)
SnapshotKept(e) == c.op = "reopen" /\ e = "none"

Close ==
    /\ c.pc = "close"
    /\ \E failure \in {"none", "Exception", "Interrupt"} :
          LET e == WithFailure(c.error, failure)
              keep == SnapshotKept(e) IN
          /\ told' = [op |-> c.op, error |-> e, state |-> c.state]
          /\ record' = Issued(e)
          /\ c' = [Idle EXCEPT !.snap = IF keep THEN c.snap ELSE <<>>, !.sealed = keep]
    /\ UNCHANGED <<files, calls, plan, output, certified>>

-----------------------------------------------------------------------------
(* What the history notes of a change while the plan is being read.          *)
Noted ==
    IF c.pc \in {"readPlan", "rereadPlan"} /\ file'[c.fd["plan"]].data # file[c.fd["plan"]].data
    THEN [plan EXCEPT !.now = file'[c.fd["plan"]].data, !.rewrites = @ + 1] ELSE plan

OtherProgram ==
    /\ c.pc # "off" /\ Change /\ certified' = FALSE /\ plan' = Noted
    /\ UNCHANGED <<c, calls, record, told, output>>

PowerLoss ==
    /\ c.pc # "off" /\ Lose
    /\ c' = [Idle EXCEPT !.pc = "off"]
    /\ output' = IF output = NoOutput
                    \/ entry'[output.dir]["destination"] = entry[output.dir]["destination"]
                 THEN output ELSE NoOutput
    /\ UNCHANGED <<calls, record, told, plan, certified>>

Process ==
    \/ Start \/ LstatPlan \/ OpenPlan \/ ReadPlan \/ ClosePlan \/ ParsePlan
    \/ OpenParent \/ OpenSource \/ OpenDest \/ CreateTemporary \/ ReadBlock \/ EndRead
    \/ SealSnapshot \/ Flush \/ Attempt \/ PublishLink \/ NoteCommitted \/ StatPublished \/ Rehash
    \/ SyncDirectory \/ NoteNameUnavailable \/ StatName \/ Handle \/ Close

Next == Process \/ Fault \/ OtherProgram \/ PowerLoss

CallInit ==
    /\ c = Idle /\ calls \in 0 .. MaxOperations /\ record = NoRecord /\ told = NoTold /\ plan = NoPlan
    /\ output = NoOutput /\ certified = FALSE

Init == FilesInit /\ CallInit

Spec == Init /\ [][Next]_vars

-----------------------------------------------------------------------------
(* Every variable has a value of its kind. *)
TypeOK ==
    /\ FilesTypeOK
    /\ c.fd \in [Role -> Ino \cup Dir \cup {NoIno}] /\ c.state \in States
    /\ c.domain \in {"plan", "corpus"} /\ c.op \in Operations \cup {"none"}
    /\ c.sealed \in BOOLEAN /\ c.attempted \in BOOLEAN
    /\ calls \in 0 .. MaxOperations
    /\ record.name \in {"none", "source", "destination"}
    /\ told.op \in Operations \cup {"none"} /\ told.state \in States
    /\ output.dir \in Dir \cup {NoIno} /\ certified \in BOOLEAN

(* What prepare_local_source tells its caller about the publication is true  *)
(* whichever statement was interrupted: "not committed" is only said when    *)
(* nothing was linked, "committed" in any form only when it was.             *)
StateTruthful ==
    c.pc # "off" /\ told.op = "prepare" =>
       /\ told.state = "not_committed" => output = NoOutput
       /\ told.state \in {"committed_not_durable", "committed_name_unavailable", "durable"}
             => output # NoOutput

(* A publication reported as durable outlives a power loss, name and bytes,  *)
(* as long as nobody else changed the files after the last look at the name, *)
(* and the clock of the file system moves with every change: when it may     *)
(* stand still, a rewrite before that look can pass for the verified file.   *)
DurableSurvives ==
    c.pc = "off" /\ certified /\ ~coarse =>
       /\ output # NoOutput /\ entry[output.dir]["destination"] = output.ino
       /\ file[output.ino].data = Expected

(* A snapshot that is handed out is sealed and holds exactly the announced   *)
(* bytes, even when others write to the source and the clock stands still.   *)
SnapshotExact ==
    c.pc = "idle" /\ told.op = "reopen" /\ told.error = "none" => c.sealed /\ c.snap = Expected

(* The plan that a call goes by is one that its file held.  When every write *)
(* leaves a new timestamp, the stat results alone show that it is what the   *)
(* file held at the opening.  When a write may leave the timestamps as they  *)
(* were, the two equal reads are what rules out a mixture of two versions:   *)
(* with one rewrite at any moment, the text is the old one or the new one.   *)
(* (Rewritten twice in one tick, it may be a mixture, and the code says so   *)
(* nowhere: two reads cannot tell.)                                          *)
PlanAsRead ==
    plan.read # <<>> =>
       /\ ~coarse => plan.read = plan.opened
       /\ plan.rewrites <= 1 => plan.read \in {plan.opened, plan.now}

(* The destination goes from nothing to one whole flushed file.              *)
Published == INSTANCE AtomicPublication WITH
    holds <- CASE output = NoOutput -> "previous" [] output.whole -> "whole" [] OTHER -> "partial",
    phase <- CASE c.pc = "off" -> "off"
               [] c.pc # "off" /\ output # NoOutput -> "published"
               [] OTHER -> "working"

PublishesAtomically == Published!Spec
=============================================================================
