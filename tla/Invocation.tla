----------------------------- MODULE Invocation -----------------------------
(***************************************************************************)
(* One invocation of boss-dispatch and the commands run on its manifest:   *)
(* plan-review, worker, review, integrate and cleanup (cli.py), with the   *)
(* receipts they leave for each other (bundle.py).  Commands are processes *)
(* that share nothing but the files; they overlap, they are killed, and    *)
(* they can be called in any order.  The user edits the source and changes *)
(* the reviewer's configuration between any two steps.                     *)
(*                                                                         *)
(* Modules Seal, Cleanup and Integration have the inside of seal, cleanup  *)
(* and integrate.  A hash is the value it is the hash of.                  *)
(***************************************************************************)
EXTENDS Naturals, FiniteSets

CONSTANTS
    Cmds,       \* processes, each runs one command after the other
    Plans,      \* a task with the context it is presented in
    Mains,      \* fingerprints of main loops
    Reviewers,  \* what a reviewer route may resolve to
    Sources,    \* contents of the user's repository
    Deltas,     \* what a worker may deliver
    Result,     \* Result[s, d] is the source s with the delta d applied
    MaxStarts, MaxCrashes, MaxErrors, MaxEdits   \* bounds

ASSUME ResultAssumption == Result \in [Sources \X Deltas -> Sources]
ASSUME BoundAssumption == {MaxStarts, MaxCrashes, MaxErrors, MaxEdits} \subseteq Nat

None == [state |-> "none"]
Torn == [state |-> "torn"]
Whole(file) == file.state = "whole"

VARIABLES
    phase,      \* of the invocation's directory; claimed: a cleanup has begun,
                \* removing: and its layout is broken
    worktree, plan, bundle, final,      \* its files
    source, reviewer,                   \* the repository, what the route resolves to
    pc, mem,                            \* of every process, and what it remembers
    starts, crashes, faults, edits,     \* bounded
    verdicts, ran, applied,             \* what reviewers said, what was run and applied
    rejected                            \* a command said that its cleanup was rejected

files == <<phase, worktree, plan, bundle, final>>
user == <<source, reviewer>>
counts == <<starts, crashes, faults, edits>>
history == <<verdicts, ran, applied, rejected>>
vars == <<files, user, pc, mem, counts, history>>

Idle == [cmd |-> "none"]

Init ==
    /\ phase = "none" /\ worktree = FALSE
    /\ plan = None /\ bundle = None /\ final = None
    /\ source \in Sources /\ reviewer \in Reviewers
    /\ pc = [c \in Cmds |-> "idle"] /\ mem = [c \in Cmds |-> Idle]
    /\ starts = 0 /\ crashes = 0 /\ faults = 0 /\ edits = 0
    /\ verdicts = {} /\ ran = {} /\ applied = {} /\ rejected = FALSE

\* load_invocation_resources and _validated_root: the layout is all there
Readable == phase \in {"active", "claimed"}

Goto(c, next, new) == pc' = [pc EXCEPT ![c] = next] /\ mem' = [mem EXCEPT ![c] = new]
Step(c, next) == Goto(c, next, mem[c])
End(c) == Goto(c, "idle", Idle)
Begin(c, next, new) ==
    /\ pc[c] = "idle" /\ starts < MaxStarts
    /\ starts' = starts + 1
    /\ Goto(c, next, new)

-----------------------------------------------------------------------------
(* plan-review.                                                            *)

\* the handshake: what runs behind the route says who it is
Identity == reviewer

\* preflight: reachable, read-only, what it is pinned to, and not the main loop's model
Eligible(by, main) == by # main
Reviewing(main) == {by \in {Identity} : Eligible(by, main)}

\* one begun later makes another invocation, which is not followed here
StartPlanReview(c, p, main) ==
    /\ phase = "none"
    /\ Begin(c, "plan_probe", [cmd |-> "plan-review", task |-> p, main |-> main])
    /\ UNCHANGED <<files, user, crashes, faults, edits, history>>

PlanProbe(c) ==
    /\ pc[c] = "plan_probe"
    /\ \/ \E by \in Reviewing(mem[c].main) :
             Goto(c, "plan_new", [cmd |-> "plan-review", task |-> mem[c].task,
                                  main |-> mem[c].main, by |-> by])
       \/ Reviewing(mem[c].main) = {} /\ End(c)
    /\ UNCHANGED <<files, user, counts, history>>

\* create_invocation_resources; the second of two makes another invocation
New(c, next) ==
    IF phase = "none" THEN phase' = "active" /\ Step(c, next) ELSE End(c) /\ UNCHANGED phase
PlanNew(c) ==
    /\ pc[c] = "plan_new" /\ New(c, "plan_capture")
    /\ UNCHANGED <<worktree, plan, bundle, final, user, counts, history>>

PlanBinding(m, s) ==
    [task |-> m.task, main |-> m.main, by |-> m.by, snapshot |-> s]
PlanCapture(c) ==
    /\ pc[c] = "plan_capture"
    /\ Goto(c, "plan_verdict", [cmd |-> "plan-review", packet |-> PlanBinding(mem[c], source)])
    /\ UNCHANGED <<files, user, counts, history>>

\* _parse_verdict: what says neither, or both, is no verdict
Decisions == {"approve", "revise"}

\* execute_reviewer: a verdict that counts is about the very packet that was sent
Reviews(on, packet) ==
    {[on |-> on, packet |-> packet, decision |-> decision] : decision \in Decisions}

\* mutant: a plan that is to be revised leaves the invocation as it is
PlanVerdictX(c) ==
    /\ pc[c] = "plan_verdict"
    /\ \E v \in Reviews("plan", mem[c].packet) :
          /\ verdicts' = verdicts \cup {v}
          /\ IF v.decision = "approve" THEN Step(c, "plan_seal") ELSE End(c)
    /\ UNCHANGED <<files, user, counts, ran, applied, rejected>>

\* what is no approval is cleaned up
PlanVerdict(c) ==
    /\ pc[c] = "plan_verdict"
    /\ \E v \in Reviews("plan", mem[c].packet) :
          /\ verdicts' = verdicts \cup {v}
          /\ Step(c, IF v.decision = "approve" THEN "plan_seal" ELSE "cleanup")
    /\ UNCHANGED <<files, user, counts, ran, applied, rejected>>

\* mutant: a receipt that is there is opened and written over
CreatesX(file) == Readable

\* _create_receipt_at: O_EXCL, then written, then mode 0400
Creates(file) == Readable /\ file = None

\* what a whole receipt is read as is what it was written from
PlanReceipt(packet) == [state |-> "whole", of |-> packet]

PlanCreate(c) ==
    /\ pc[c] = "plan_seal"
    /\ IF Creates(plan) THEN plan' = Torn /\ Step(c, "plan_write")
       ELSE Step(c, "cleanup") /\ UNCHANGED plan
    /\ UNCHANGED <<phase, worktree, bundle, final, user, counts, history>>
\* the mode is 0400: from here on the receipt can be read, if it is still there ...
PlanWrite(c) ==
    /\ pc[c] = "plan_write"
    /\ plan' = IF plan = Torn THEN PlanReceipt(mem[c].packet) ELSE plan
    /\ Step(c, "plan_sync")
    /\ UNCHANGED <<phase, worktree, bundle, final, user, counts, history>>

\* ... but it is sealed only when it is on the disk and the layout is still right
PlanSync(c) ==
    /\ pc[c] = "plan_sync" /\ Readable /\ End(c)
    /\ UNCHANGED <<files, user, counts, history>>

\* A write, an fsync or the layout check fails: the receipt is unlinked, whole
\* or not, unless that fails too
WriteFails(c) ==
    /\ \/ /\ pc[c] \in {"plan_write", "plan_sync", "final_write", "final_sync"}
          /\ faults < MaxErrors /\ faults' = faults + 1
       \/ pc[c] \in {"plan_sync", "final_sync"} /\ ~Readable /\ UNCHANGED faults
    /\ \/ /\ pc[c] \in {"plan_write", "plan_sync"}
          /\ plan' \in {None, plan} /\ Step(c, "cleanup") /\ UNCHANGED final
       \/ /\ pc[c] \in {"final_write", "final_sync"}
          /\ final' \in {None, final} /\ End(c) /\ UNCHANGED plan
    /\ UNCHANGED <<phase, worktree, bundle, user, starts, crashes, edits, history>>

-----------------------------------------------------------------------------
(* worker.                                                                 *)

\* Lite makes its invocation, Max is given one
StartWorker(c, p, mode) ==
    /\ IF mode = "lite" THEN phase = "none" /\ phase' = "active" ELSE Readable /\ UNCHANGED phase
    /\ Begin(c, IF mode = "lite" THEN "capture" ELSE "read_plan",
             [cmd |-> "worker", mode |-> mode, task |-> p])
    /\ UNCHANGED <<worktree, plan, bundle, final, user, crashes, faults, edits, history>>

PlanBinds(m) == Readable /\ Whole(plan) /\ plan.of.task = m.task
ReadPlan(c) ==
    /\ pc[c] = "read_plan"
    /\ IF PlanBinds(mem[c])
       THEN Goto(c, "capture", [cmd |-> "worker", mode |-> "max", task |-> mem[c].task,
                                approved |-> plan.of.snapshot])
       ELSE Step(c, "cleanup")
    /\ UNCHANGED <<files, user, counts, history>>

\* mutant: the source may have changed since the plan was approved
SourceBindsX(m) == TRUE

SourceBinds(m) == m.mode = "lite" \/ m.approved = source
Capture(c) ==
    /\ pc[c] = "capture"
    /\ IF SourceBinds(mem[c])
       THEN Goto(c, "add", [cmd |-> "worker", mode |-> mem[c].mode, task |-> mem[c].task,
                            snapshot |-> source])
       ELSE Step(c, "cleanup")
    /\ UNCHANGED <<files, user, counts, history>>

\* create_worktree: the path must be free and its parent there
CheckPath(c) ==
    /\ pc[c] = "add"
    /\ Step(c, IF phase # "gone" /\ ~worktree THEN "git_add" ELSE "cleanup")
    /\ UNCHANGED <<files, user, counts, history>>

\* git worktree add makes the directories above the path itself; an add that
\* fails removes whatever worktree is there
AddWorktree(c) ==
    /\ pc[c] = "git_add"
    /\ IF ~worktree THEN worktree' = TRUE /\ Step(c, "launch")
       ELSE worktree' = FALSE /\ Step(c, "cleanup")
    /\ UNCHANGED <<phase, plan, bundle, final, user, counts, history>>

\* the source is captured again before the snapshot is materialized
Launch(c) ==
    /\ pc[c] = "launch"
    /\ IF worktree /\ source = mem[c].snapshot
       THEN ran' = ran \cup {mem[c]} /\ Step(c, "deliver")
       ELSE Step(c, "cleanup") /\ UNCHANGED ran
    /\ UNCHANGED <<files, user, counts, verdicts, applied, rejected>>

Work(m, d) == [mode |-> m.mode, task |-> m.task, snapshot |-> m.snapshot, delta |-> d]
Deliver(c) ==
    /\ pc[c] = "deliver"
    /\ IF worktree /\ source = mem[c].snapshot
       THEN \E d \in Deltas : Goto(c, "seal", [cmd |-> "worker", work |-> Work(mem[c], d)])
       ELSE Step(c, "cleanup")
    /\ UNCHANGED <<files, user, counts, history>>

\* seal_delta_bundle replays the delta on the source as it is now
SealBundle(c) ==
    /\ pc[c] = "seal"
    /\ IF Readable /\ bundle = None /\ source = mem[c].work.snapshot
       THEN bundle' = [state |-> "whole", of |-> mem[c].work] /\ End(c)
       ELSE Step(c, "cleanup") /\ UNCHANGED bundle
    /\ UNCHANGED <<phase, worktree, plan, final, user, counts, history>>

-----------------------------------------------------------------------------
(* review.                                                                 *)

StartReview(c, p, main) ==
    /\ Readable
    /\ Begin(c, "packet", [cmd |-> "review", task |-> p, main |-> main])
    /\ UNCHANGED <<files, user, crashes, faults, edits, history>>

FinalBinding(m, by) == [bundle |-> bundle.of, plan |-> plan, main |-> m.main, by |-> by]

\* Max: the plan's context and main loop
SameAuthority(m) == m.main = plan.of.main /\ m.task = plan.of.task
BuildPacket(c) ==
    /\ pc[c] = "packet"
    /\ IF ~Readable \/ ~Whole(bundle) THEN End(c)
       ELSE IF bundle.of.mode = "lite"
       THEN Goto(c, "final_seal", [cmd |-> "review", packet |-> FinalBinding(mem[c], mem[c].main)])
       ELSE IF Whole(plan) /\ plan.of.snapshot = bundle.of.snapshot /\ SameAuthority(mem[c])
       THEN Goto(c, "final_probe", [cmd |-> "review", packet |-> FinalBinding(mem[c], plan.of.by)])
       ELSE End(c)
    /\ UNCHANGED <<files, user, counts, history>>

\* the plan's reviewer still answers
FinalProbe(c) ==
    /\ pc[c] = "final_probe"
    /\ IF mem[c].packet.by \in Reviewing(mem[c].packet.main) THEN Step(c, "final_verdict") ELSE End(c)
    /\ UNCHANGED <<files, user, counts, history>>

\* mutant: a reviewer that asks for a revision ends the invocation
FinalVerdictX(c) ==
    /\ pc[c] = "final_verdict"
    /\ \E v \in Reviews("final", mem[c].packet) :
          /\ verdicts' = verdicts \cup {v}
          /\ Step(c, IF v.decision = "approve" THEN "final_seal" ELSE "cleanup")
    /\ UNCHANGED <<files, user, counts, ran, applied, rejected>>

FinalVerdict(c) ==
    /\ pc[c] = "final_verdict"
    /\ \E v \in Reviews("final", mem[c].packet) :
          /\ verdicts' = verdicts \cup {v}
          /\ IF v.decision = "approve" THEN Step(c, "final_seal") ELSE End(c)
    /\ UNCHANGED <<files, user, counts, ran, applied, rejected>>

\* seal_final_review_receipt reads everything again
StillBinds(packet) ==
    /\ Readable /\ Whole(bundle) /\ packet.bundle = bundle.of
    /\ bundle.of.mode = "max" =>
          /\ Whole(plan) /\ packet.plan = plan /\ packet.by = plan.of.by /\ packet.main = plan.of.main
\* the same for a final review
FinalReceipt(packet) == [state |-> "whole", of |-> packet]

FinalCreate(c) ==
    /\ pc[c] = "final_seal"
    /\ IF StillBinds(mem[c].packet) /\ Creates(final) THEN final' = Torn /\ Step(c, "final_write")
       ELSE End(c) /\ UNCHANGED final
    /\ UNCHANGED <<phase, worktree, plan, bundle, user, counts, history>>
FinalWrite(c) ==
    /\ pc[c] = "final_write"
    /\ final' = IF final = Torn THEN FinalReceipt(mem[c].packet) ELSE final
    /\ Step(c, "final_sync")
    /\ UNCHANGED <<phase, worktree, plan, bundle, user, counts, history>>
FinalSync(c) ==
    /\ pc[c] = "final_sync" /\ Readable /\ End(c)
    /\ UNCHANGED <<files, user, counts, history>>

-----------------------------------------------------------------------------
(* integrate.                                                              *)

StartIntegrate(c) ==
    /\ Readable /\ Begin(c, "approval", [cmd |-> "integrate"])
    /\ UNCHANGED <<files, user, crashes, faults, edits, history>>

\* mutant: what was made under an approved plan needs no approval of its own
ApprovedX == Readable /\ Whole(bundle) /\ (Whole(plan) \/ Whole(final))

\* read_final_review_receipt
Approved == Readable /\ Whole(bundle) /\ Whole(final) /\ StillBinds(final.of)
ReadApproval(c) ==
    /\ pc[c] = "approval"
    /\ IF Approved THEN Goto(c, "check", [cmd |-> "integrate", work |-> bundle.of]) ELSE End(c)
    /\ UNCHANGED <<files, user, counts, history>>

CheckSource(c) ==
    /\ pc[c] = "check"
    /\ Step(c, IF Readable /\ source = mem[c].work.snapshot THEN "apply" ELSE "cleanup")
    /\ UNCHANGED <<files, user, counts, history>>

\* the source is captured once more, and the delta applied
Apply(c) ==
    /\ pc[c] = "apply"
    /\ IF source = mem[c].work.snapshot
       THEN source' = Result[source, mem[c].work.delta] /\ applied' = applied \cup {mem[c].work}
       ELSE UNCHANGED <<source, applied>>
    /\ Step(c, "cleanup")
    /\ UNCHANGED <<files, reviewer, counts, verdicts, ran, rejected>>

-----------------------------------------------------------------------------
(* cleanup, a command and the end of others.                               *)

StartCleanup(c) ==
    /\ Readable /\ Begin(c, "cleanup", [cmd |-> "cleanup"])
    /\ UNCHANGED <<files, user, crashes, faults, edits, history>>

\* The consumption receipt; one that is there already is resumed.  An invocation
\* that another cleanup has consumed is none that this one cleaned.  From here on all
\* cleanups are the same
Claim(c) ==
    /\ pc[c] = "cleanup"
    /\ IF phase = "gone" THEN End(c) /\ rejected' = TRUE /\ UNCHANGED phase
       ELSE /\ phase' = IF phase = "active" THEN "claimed" ELSE phase
            /\ Goto(c, "rm_worktree", [cmd |-> "cleanup"]) /\ UNCHANGED rejected
    /\ UNCHANGED <<worktree, plan, bundle, final, user, counts, verdicts, ran, applied>>

\* entry by entry: the worktree, the route state, the evidence, the bundle,
\* the manifest.  What is gone already is passed over
RemoveWorktree(c) ==
    /\ pc[c] = "rm_worktree" /\ worktree' = FALSE /\ Step(c, "rm_route")
    /\ UNCHANGED <<phase, plan, bundle, final, user, counts, history>>
RemoveRoute(c) ==
    /\ pc[c] = "rm_route"
    /\ phase' = IF phase = "gone" THEN phase ELSE "removing"
    /\ Step(c, "rm_evidence")
    /\ UNCHANGED <<worktree, plan, bundle, final, user, counts, history>>

\* mutant: a receipt outlives the invocation
RemoveEvidenceX(c) ==
    /\ pc[c] = "rm_evidence" /\ plan' = None /\ Step(c, "rm_bundle")
    /\ UNCHANGED <<phase, worktree, bundle, final, user, counts, history>>

RemoveEvidence(c) ==
    /\ pc[c] = "rm_evidence" /\ plan' = None /\ final' = None /\ Step(c, "rm_bundle")
    /\ UNCHANGED <<phase, worktree, bundle, user, counts, history>>
RemoveBundle(c) ==
    /\ pc[c] = "rm_bundle" /\ bundle' = None /\ Step(c, "rm_manifest")
    /\ UNCHANGED <<phase, worktree, plan, final, user, counts, history>>

\* the manifest and the empty root; a worktree that has come back is reported
RemoveManifest(c) ==
    /\ pc[c] = "rm_manifest" /\ phase' = "gone" /\ End(c)
    /\ rejected' = (rejected \/ worktree)
    /\ UNCHANGED <<worktree, plan, bundle, final, user, counts, verdicts, ran, applied>>

\* "rejected": an error, or another cleanup or a sealer that is in the way, at
\* any point before or after the claim.  The rest stays, and the caller is told
Removals == {"rm_worktree", "rm_route", "rm_evidence", "rm_bundle", "rm_manifest"}
RejectCleanup(c) ==
    /\ pc[c] \in {"cleanup"} \cup Removals /\ End(c)
    /\ rejected' = TRUE
    /\ UNCHANGED <<files, user, counts, verdicts, ran, applied>>

-----------------------------------------------------------------------------
(* What goes wrong, and the user.                                          *)

\* An error anywhere before a receipt is written or a cleanup has begun (WriteFails
\* and RejectCleanup have those); a reviewer or a worker that fails, times out or
\* talks nonsense.  Only a review that fails leaves the invocation as it is
Stages == {"plan_capture", "plan_verdict", "plan_seal", "read_plan", "capture", "add", "git_add",
           "launch", "deliver", "seal", "check", "apply"}
Fail(c) ==
    /\ faults < MaxErrors /\ faults' = faults + 1
    /\ \/ pc[c] \in Stages /\ Step(c, "cleanup")
       \/ pc[c] \in {"plan_probe", "plan_new", "packet", "final_probe", "final_verdict", "final_seal",
                      "approval"}
          /\ End(c)
    /\ worktree' = (worktree /\ pc[c] # "git_add")
    /\ UNCHANGED <<phase, plan, bundle, final, user, starts, crashes, edits, history>>

Crash(c) ==
    /\ pc[c] # "idle" /\ crashes < MaxCrashes
    /\ crashes' = crashes + 1
    /\ End(c)
    /\ UNCHANGED <<files, user, starts, faults, edits, history>>

Edit ==
    /\ edits < MaxEdits /\ edits' = edits + 1
    /\ \/ source' \in Sources \ {source} /\ UNCHANGED reviewer
       \/ reviewer' \in Reviewers \ {reviewer} /\ UNCHANGED source
    /\ UNCHANGED <<files, pc, mem, starts, crashes, faults, history>>

-----------------------------------------------------------------------------
Next ==
    \/ \E c \in Cmds, p \in Plans :
          \/ \E main \in Mains : StartPlanReview(c, p, main) \/ StartReview(c, p, main)
          \/ \E mode \in {"lite", "max"} : StartWorker(c, p, mode)
    \/ \E c \in Cmds :
          \/ PlanProbe(c) \/ PlanNew(c) \/ PlanCapture(c) \/ PlanVerdict(c) \/ PlanCreate(c)
          \/ PlanWrite(c) \/ PlanSync(c)
          \/ ReadPlan(c) \/ Capture(c) \/ CheckPath(c) \/ AddWorktree(c)
          \/ Launch(c) \/ Deliver(c) \/ SealBundle(c)
          \/ BuildPacket(c) \/ FinalProbe(c) \/ FinalVerdict(c) \/ FinalCreate(c)
          \/ FinalWrite(c) \/ FinalSync(c)
          \/ StartIntegrate(c) \/ ReadApproval(c) \/ CheckSource(c) \/ Apply(c)
          \/ StartCleanup(c) \/ Claim(c) \/ RemoveWorktree(c) \/ RemoveRoute(c) \/ RemoveEvidence(c)
          \/ RemoveBundle(c) \/ RemoveManifest(c) \/ RejectCleanup(c)
          \/ WriteFails(c) \/ Fail(c) \/ Crash(c)
    \/ Edit

Spec == Init /\ [][Next]_vars
-----------------------------------------------------------------------------
(* What should hold.                                                       *)

\* receipts and bundles are in an invocation's directory and nowhere else
FileOK(file) == file \in {None, Torn} \/ Whole(file)
TypeOK ==
    /\ phase \in {"none", "active", "claimed", "removing", "gone"}
    /\ worktree \in BOOLEAN /\ rejected \in BOOLEAN
    /\ FileOK(plan) /\ FileOK(bundle) /\ FileOK(final)
    /\ phase \in {"none", "gone"} => plan = None /\ bundle = None /\ final = None
    /\ source \in Sources /\ reviewer \in Reviewers
    /\ \A c \in Cmds : pc[c] = "idle" <=> mem[c] = Idle
    /\ starts \in 0..MaxStarts /\ crashes \in 0..MaxCrashes
    /\ faults \in 0..MaxErrors /\ edits \in 0..MaxEdits

Says(on, packet) == [on |-> on, packet |-> packet, decision |-> "approve"] \in verdicts

\* What integrate applied went all the way: a worker was run for it, from the
\* snapshot it is bound to, and in Max one reviewer approved the plan the worker
\* was given and then, for the same main loop, this very bundle.
Authorized ==
    \A work \in applied :
        /\ \E m \in ran : Work(m, work.delta) = work
        /\ work.mode = "max" =>
               \E v \in verdicts :
                  /\ v.on = "final" /\ v.decision = "approve" /\ v.packet.bundle = work
                  /\ v.packet.by # v.packet.main
                  /\ Says("plan", [task |-> work.task, snapshot |-> work.snapshot,
                                   main |-> v.packet.main, by |-> v.packet.by])

\* No worker is run in Max before its task was approved on the source it is run on.
PlanFirst ==
    \A m \in ran : m.mode = "max" =>
        \E by \in Reviewers, main \in Mains :
            Says("plan", [task |-> m.task, snapshot |-> m.snapshot, main |-> main, by |-> by])

\* Evidence whose command has returned stays what it is until the invocation is
\* removed.  Before that a receipt can be read already (bundle.py:1196); it may
\* still vanish, with its own command that fails, but never say something else.
Writing(stage) == \E c \in Cmds : pc[c] = stage
EvidenceKept ==
    [][Readable' =>
          /\ Whole(bundle) => bundle' = bundle
          /\ Whole(plan) => plan' = plan \/ (plan' = None /\ Writing("plan_sync"))
          /\ Whole(final) => final' = final \/ (final' = None /\ Writing("final_sync"))]_vars

\* A sealed bundle is lost only to who may end its invocation: integrate, the
\* cleanup command, another worker that is run on its manifest, or the plan
\* review that approved its very task and then could not seal the approval.
OnlyConsumers ==
    [][phase = "active" /\ phase' = "claimed" /\ Whole(bundle) =>
          \E c \in Cmds :
             /\ pc[c] = "cleanup"
             /\ \/ mem[c].cmd \in {"integrate", "cleanup", "worker"}
                \/ /\ mem[c].cmd = "plan-review" /\ Says("plan", mem[c].packet)
                   /\ bundle.of.task = mem[c].packet.task]_vars

\* Between commands an invocation is over, and its worktree with it, or waits with
\* an approved plan or a sealed bundle for the next command: "revise, transport
\* failure, and malformed evidence clean the unapproved invocation" (protocol.md).
\* Else a command was killed, or told its caller that a cleanup was rejected.
NothingLeftBehind ==
    crashes = 0 /\ ~rejected /\ (\A c \in Cmds : pc[c] = "idle") =>
        \/ phase = "none"
        \/ phase = "gone" /\ ~worktree
        \/ phase = "active" /\ (Whole(bundle) \/ (Whole(plan) /\ Says("plan", plan.of)))
=============================================================================
