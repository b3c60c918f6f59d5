---------------------------- MODULE Integration ----------------------------
(***************************************************************************)
(* One delta on its way through boss-dispatch: the source is captured, a   *)
(* worktree made of it, the worker's changes captured, replayed and sealed *)
(* (repository.py, called by cli.py and bundle.py), reviewed, and put into *)
(* the user's repository by integrate_reviewed_delta (integration.py).     *)
(*                                                                         *)
(* Nothing locks the user's repository: at any point between two reads of  *)
(* it the user edits a file, stages it or commits.  A capture asks for     *)
(* HEAD, then for the status, then for one path after the other, so it may *)
(* be a picture of no moment at all.                                       *)
(***************************************************************************)
EXTENDS Naturals, Snapshots

CONSTANTS
    Start,      \* bound: the trees the repository starts with
    Edits,      \* bound: the entries the worker and the user write
    MaxWork,    \* bound: changes of the worker
    MaxEdits,   \* bound: changes of the user
    MaxErrors   \* bound: reads, and runs of git apply, that fail

ASSUME StartAssumption == Start \subseteq Trees /\ Edits \subseteq Entries \ {Absent}
ASSUME BoundsAssumption == MaxWork \in Nat /\ MaxEdits \in Nat /\ MaxErrors \in Nat

NoEvidence == {}
NoScan == [at |-> "head", left |-> {}, baseline |-> Nothing, extra |-> {},
           found |-> [p \in Paths |-> [head |-> Absent, index |-> Absent, work |-> Absent]],
           made |-> [p \in Paths |-> [head |-> Absent, index |-> Absent, work |-> Absent]]]
NoResult == [status |-> "none", applied |-> FALSE]

VARIABLES
    tree,       \* the user's repository
    pc, scan,   \* the stage, and what its capture has read so far
    snapshot, wt, base,     \* the source snapshot, the worktree, its materialized tree
    delta, projected,       \* the worker's records and the snapshot they project to
    approval,   \* the verdict and the three hashes it binds
    writing, todo,          \* git apply: results, and the paths it has still to do
    result,
    work, edits, errors,    \* bounded
    mine,       \* paths whose file is as git apply left it
    late        \* paths of which the user changed what the last capture had read

evidence == <<snapshot, wt, base, delta, projected>>
apply == <<writing, todo>>
counts == <<work, edits, errors>>
vars == <<tree, pc, scan, evidence, approval, apply, result, counts, mine, late>>

Pipeline == {"snapshot", "worktree", "materialize", "work", "delta", "seal", "review"}
Integrating == {"check", "apply_check", "simulate", "recheck", "apply", "remove", "create",
                "failed", "verify"}
Scanning == {"snapshot", "materialize", "delta", "seal", "check", "simulate", "recheck",
             "failed", "verify"}

Init ==
    /\ tree \in Start
    /\ pc = "snapshot" /\ scan = NoScan
    /\ snapshot = NoEvidence /\ wt = NoEvidence /\ base = NoEvidence
    /\ delta = NoEvidence /\ projected = NoEvidence
    /\ approval = NoEvidence /\ writing = <<>> /\ todo = {}
    /\ result = NoResult
    /\ work = 0 /\ edits = 0 /\ errors = 0 /\ mine = {} /\ late = {}

\* mutant: the next capture starts from what the last one read
GoX(next) == pc' = next /\ UNCHANGED scan

Go(next) == pc' = next /\ scan' = NoScan
Stop == Go("stopped")
Return(status, applied) == Go("done") /\ result' = [status |-> status, applied |-> applied]

-----------------------------------------------------------------------------
(* Captures of the user's repository.                                      *)

\* git rev-parse: the commit of HEAD
ReadHead ==
    /\ pc \in Scanning /\ scan.at = "head"
    /\ scan' = [scan EXCEPT !.at = "index", !.baseline = Heads(tree)] /\ late' = {}
    /\ UNCHANGED <<tree, pc, evidence, approval, apply, result, counts, mine>>

\* git status loads the index,
ReadIndex ==
    /\ pc \in Scanning /\ scan.at = "index"
    /\ scan' = [scan EXCEPT !.at = "files", !.left = Paths,
                            !.found = [p \in Paths |-> [@[p] EXCEPT !.index = tree[p].index]]]
    /\ UNCHANGED <<tree, pc, evidence, approval, apply, result, counts, mine, late>>

\* looks at the files in the order of their names,
First == CHOOSE p \in scan.left : TRUE
ReadFile ==
    /\ pc \in Scanning /\ scan.at = "files" /\ scan.left # {}
    /\ scan' = [scan EXCEPT !.left = @ \ {First}, !.found[First].work = tree[First].work]
    /\ UNCHANGED <<tree, pc, evidence, approval, apply, result, counts, mine, late>>

\* and compares the index with HEAD, which it reads again
ReadStatus ==
    /\ pc \in Scanning /\ scan.at = "files" /\ scan.left = {}
    /\ scan' = [scan EXCEPT !.at = "explicit",
                            !.found = [p \in Paths |-> [@[p] EXCEPT !.head = tree[p].head]]]
    /\ UNCHANGED <<tree, pc, evidence, approval, apply, result, counts, mine, late>>

\* the explicit untracked files, and with them what there is to record
ReadExplicit ==
    /\ pc \in Scanning /\ scan.at = "explicit"
    /\ LET extra == {p \in Paths : Explicit(p, scan.found[p], tree[p])}
       IN scan' = [scan EXCEPT !.at = "records", !.extra = extra,
                               !.left = extra \cup {p \in Paths : Dirty(p, scan.found[p])}]
    /\ UNCHANGED <<tree, pc, evidence, approval, apply, result, counts, mine, late>>

\* a capture that raises is the end of its command
Raised ==
    IF pc \in Pipeline THEN Stop /\ UNCHANGED result
    ELSE Return(IF pc \in {"check", "recheck"} THEN "destination_changed" ELSE "transport_error",
                pc \in {"failed", "verify"})

\* the records of a path, by the status, from the diffs and contents it has by now
ReadRecord ==
    /\ pc \in Scanning /\ scan.at = "records" /\ scan.left # {}
    /\ IF Raises(First, scan.found[First], tree[First],
                 First \in scan.extra \/ StatusUntracked(First, scan.found[First]))
       THEN Raised
       ELSE /\ scan' = [scan EXCEPT !.left = @ \ {First}, !.made[First] = tree[First]]
            /\ UNCHANGED <<pc, result>>
    /\ UNCHANGED <<tree, evidence, approval, apply, counts, mine, late>>

\* or a file cannot be read
CaptureFails ==
    /\ pc \in Scanning /\ errors < MaxErrors /\ Raised
    /\ errors' = errors + 1
    /\ UNCHANGED <<tree, evidence, approval, apply, work, edits, mine, late>>

Scanned(stage) == pc = stage /\ scan.at = "records" /\ scan.left = {}
SameSource == Captured(scan) = snapshot
SameBaseline == snapshot.baseline = Heads(tree)

-----------------------------------------------------------------------------
(* From the source to a reviewed bundle.                                   *)

TakeSnapshot ==
    /\ Scanned("snapshot")
    /\ snapshot' = Captured(scan) /\ Go("worktree")
    /\ UNCHANGED <<tree, wt, base, delta, projected, approval, apply, result, counts, mine, late>>

CreateWorktree ==
    /\ pc = "worktree"
    /\ IF SameBaseline THEN Go("materialize") ELSE Stop
    /\ UNCHANGED <<tree, evidence, approval, apply, result, counts, mine, late>>

Materialize ==
    /\ Scanned("materialize")
    /\ IF SameSource /\ Materializes(snapshot, tree)
       THEN /\ wt' = Worktree(snapshot) /\ base' = MaterializedTree(wt')
            /\ Go("work")
       ELSE Stop /\ UNCHANGED <<wt, base>>
    /\ UNCHANGED <<tree, snapshot, delta, projected, approval, apply, result, counts, mine, late>>

\* the worker writes any file, and may run git add and git commit
Work ==
    /\ pc = "work" /\ work < MaxWork
    /\ \/ \E p \in Paths, e \in Edits \cup {Absent} :
             e # wt[p].work /\ wt' = [wt EXCEPT ![p].work = e]
       \/ \E p \in Paths : Unstaged(wt[p]) /\ wt' = [wt EXCEPT ![p].index = wt[p].work]
       \/ /\ \E p \in Paths : Staged(wt[p])
          /\ wt' = [p \in Paths |-> [wt[p] EXCEPT !.head = wt[p].index]]
    /\ work' = work + 1
    /\ UNCHANGED <<tree, pc, scan, snapshot, base, delta, projected, approval, apply, result,
                   edits, errors, mine, late>>

EndWork ==
    /\ pc = "work" /\ Go("delta")
    /\ UNCHANGED <<tree, evidence, approval, apply, result, counts, mine, late>>

\* capture_worker_delta
CaptureDelta ==
    /\ Scanned("delta")
    /\ IF InScope(Capture(wt), snapshot) /\ SameSource
       THEN /\ delta' = DeltaRecords(base, wt) /\ projected' = Capture(wt)
            /\ Go("seal")
       ELSE Stop /\ UNCHANGED <<delta, projected>>
    /\ UNCHANGED <<tree, snapshot, wt, base, approval, apply, result, counts, mine, late>>

\* seal_delta_bundle replays the delta before it persists it
Seal ==
    /\ Scanned("seal")
    /\ IF /\ ValidProjection(projected, snapshot)
          /\ SameSource /\ Materializes(snapshot, tree)
          /\ Replays(snapshot, delta, projected)
       THEN Go("review") ELSE Stop
    /\ UNCHANGED <<tree, evidence, approval, apply, result, counts, mine, late>>

Binding(s, d, patch) == [snapshot |-> s, delta |-> d, patch |-> patch]
Sealed == Binding(snapshot, delta, TaskPatch(projected, snapshot))
OtherBundle == Binding(snapshot, {}, TaskPatch(snapshot, snapshot))

\* the verdict, on this bundle or on another one of the same source
Review ==
    /\ pc = "review"
    /\ \E decision \in {"approve", "revise"}, b \in {Sealed, OtherBundle} :
          approval' = [decision |-> decision, binding |-> b]
    /\ Go("check")
    /\ UNCHANGED <<tree, evidence, apply, result, counts, mine, late>>

-----------------------------------------------------------------------------
(* integrate_reviewed_delta.                                               *)

\* the approval, the three hashes, the destination and the scope of the records
Check ==
    /\ Scanned("check")
    /\ IF approval.decision # "approve" THEN Return("review_revise", FALSE)
       ELSE IF approval.binding # Sealed THEN Return("approval_stale", FALSE)
       ELSE IF ~SameSource THEN Return("destination_changed", FALSE)
       ELSE IF ~(PathsOf(delta) \subseteq Allowed) THEN Return("scope_violation", FALSE)
       ELSE Go("apply_check") /\ UNCHANGED result
    /\ UNCHANGED <<tree, evidence, approval, apply, counts, mine, late>>

ApplyCheck ==
    /\ pc = "apply_check"
    /\ IF FitAll(delta, Works(tree)) THEN Go("simulate") /\ UNCHANGED result
       ELSE Return("transport_error", FALSE)
    /\ UNCHANGED <<tree, evidence, approval, apply, counts, mine, late>>

\* _simulate_projected_patch_hash: the patch on a worktree of its own
Simulates ==
    /\ SameBaseline /\ SameSource /\ Materializes(snapshot, tree)
    /\ DeltaFits(snapshot, delta)
    /\ LET simulated == Capture(WithDelta(snapshot, delta))
       IN /\ InScope(simulated, snapshot)
          /\ TaskPatch(simulated, snapshot) = approval.binding.patch
Simulate ==
    /\ Scanned("simulate")
    /\ IF Simulates THEN Go("recheck") /\ UNCHANGED result
       ELSE Return("transport_error", FALSE)
    /\ UNCHANGED <<tree, evidence, approval, apply, counts, mine, late>>

Recheck ==
    /\ Scanned("recheck")
    /\ LET now == Captured(scan)
       IN IF now # snapshot THEN Return("destination_changed", FALSE)
          ELSE IF delta # {} THEN Go("apply") /\ UNCHANGED result
          ELSE IF TaskPatch(now, now) = approval.binding.patch THEN Return("ok", FALSE)
          ELSE Return("approval_stale", FALSE)
    /\ UNCHANGED <<tree, evidence, approval, apply, counts, mine, late>>

\* git apply reads every file it will change and refuses the patch as a whole,
GitReads ==
    /\ pc = "apply"
    /\ IF FitAll(delta, Works(tree))
       THEN /\ writing' = [p \in PathsOf(delta) |-> Patched(RecordOf(delta, p), Works(tree)[p])]
            /\ todo' = {r.path : r \in {d \in delta : Exists(d.old)}}
            /\ Go("remove")
       ELSE Go("failed") /\ UNCHANGED apply
    /\ UNCHANGED <<tree, evidence, approval, result, counts, mine, late>>

\* or first unlinks what it changes or deletes, whatever it now is,
GitRemoves(p) ==
    /\ pc = "remove" /\ p \in todo
    /\ tree' = [tree EXCEPT ![p].work = Absent]
    /\ todo' = todo \ {p} /\ mine' = mine \cup {p}
    /\ UNCHANGED <<pc, scan, evidence, approval, writing, result, counts, late>>
GitTurns ==
    /\ pc = "remove" /\ todo = {}
    /\ todo' = {p \in DOMAIN writing : Exists(writing[p])} /\ Go("create")
    /\ UNCHANGED <<tree, evidence, approval, writing, result, counts, mine, late>>

\* and then writes the results, over whatever is there
GitCreates(p) ==
    /\ pc = "create" /\ p \in todo
    /\ tree' = [tree EXCEPT ![p].work = writing[p]]
    /\ todo' = todo \ {p} /\ mine' = mine \cup {p}
    /\ UNCHANGED <<pc, scan, evidence, approval, writing, result, counts, late>>
GitEnds ==
    /\ pc = "create" /\ todo = {} /\ Go("verify")
    /\ UNCHANGED <<tree, evidence, approval, apply, result, counts, mine, late>>

\* it may fail before any of its writes, or with a file half written
GitFails ==
    /\ pc \in {"apply", "remove", "create"} /\ errors < MaxErrors
    /\ \/ UNCHANGED <<tree, mine>>
       \/ \E p \in todo : /\ pc = "create" /\ mine' = mine \cup {p}
                          /\ tree' = [tree EXCEPT ![p].work = [writing[p] EXCEPT !.content = <<>>]]
    /\ errors' = errors + 1 /\ Go("failed")
    /\ UNCHANGED <<evidence, approval, apply, result, work, edits, late>>

\* mutant: a git apply that failed is believed to have changed nothing
FailedX ==
    /\ Scanned("failed")
    /\ Return("transport_error", FALSE)
    /\ UNCHANGED <<tree, evidence, approval, apply, counts, mine, late>>

Failed ==
    /\ Scanned("failed")
    /\ Return("transport_error", ~SameSource)
    /\ UNCHANGED <<tree, evidence, approval, apply, counts, mine, late>>

\* mutant: the exit code of git apply is the verification
VerifyX ==
    /\ Scanned("verify") /\ Return("ok", TRUE)
    /\ UNCHANGED <<tree, evidence, approval, apply, counts, mine, late>>

Verify ==
    /\ Scanned("verify")
    /\ LET final == Captured(scan)
       IN Return(IF TaskPatch(final, final) = approval.binding.patch THEN "ok" ELSE "transport_error",
                 TRUE)
    /\ UNCHANGED <<tree, evidence, approval, apply, counts, mine, late>>

-----------------------------------------------------------------------------
(* The user, who knows nothing of all this.                                *)

\* the user changes something of p that the capture has read
Overtakes(p) ==
    \/ scan.at # "head" /\ tree'[p].head # tree[p].head
    \/ scan.at \notin {"head", "index"} /\ tree'[p].index # tree[p].index
    \/ /\ scan.at \in {"explicit", "records"} \/ (scan.at = "files" /\ p \notin scan.left)
       /\ tree'[p].work # tree[p].work

UserDo(changed) ==
    /\ pc \in Pipeline \cup Integrating /\ edits < MaxEdits
    /\ late' = late \cup {p \in Paths : Overtakes(p)}
    /\ mine' = mine \ changed
    /\ edits' = edits + 1
    /\ UNCHANGED <<pc, scan, evidence, approval, apply, result, work, errors>>

UserEdits(p, e) == e # tree[p].work /\ tree' = [tree EXCEPT ![p].work = e] /\ UserDo({p})
UserStages(p) ==
    /\ Unstaged(tree[p]) \/ Untracked(tree[p])
    /\ tree' = [tree EXCEPT ![p].index = tree[p].work] /\ UserDo({})
UserCommits ==
    /\ \E p \in Paths : Staged(tree[p])
    /\ tree' = [p \in Paths |-> [tree[p] EXCEPT !.head = tree[p].index]] /\ UserDo({})

-----------------------------------------------------------------------------
Next ==
    \/ ReadHead \/ ReadIndex \/ ReadFile \/ ReadStatus \/ ReadExplicit \/ ReadRecord
    \/ CaptureFails
    \/ TakeSnapshot \/ CreateWorktree \/ Materialize
    \/ Work \/ EndWork \/ CaptureDelta \/ Seal \/ Review
    \/ Check \/ ApplyCheck \/ Simulate \/ Recheck
    \/ GitReads \/ GitTurns \/ GitEnds \/ GitFails
    \/ \E p \in Paths : GitRemoves(p) \/ GitCreates(p)
    \/ Failed \/ Verify
    \/ \E p \in Paths, e \in Edits \cup {Absent} : UserEdits(p, e)
    \/ \E p \in Paths : UserStages(p)
    \/ UserCommits

Spec == Init /\ [][Next]_vars
-----------------------------------------------------------------------------
(* What should hold.                                                       *)

\* Every variable is of its type: a tree has whole files until git apply fails,
\* a capture is under way only where there is one, and git apply writes to
\* allowed paths.
Torn == Entries \cup [mode : Modes, content : {<<>>}]
TornFiles == [head : Torn, index : Torn, work : Torn]
Scans(E) ==
    LET Seen == [Paths -> [head : E, index : E, work : E]]
    IN [at : {"head", "index", "files", "explicit", "records"}, left : SUBSET Paths,
        baseline : [Paths -> E], found : Seen, extra : SUBSET Allowed, made : Seen]
TypeOK ==
    /\ tree \in [Paths -> IF pc \in {"failed", "done"} THEN TornFiles ELSE Files]
    /\ pc \in Pipeline \cup Integrating \cup {"stopped", "done"}
    /\ scan \in Scans(IF pc = "failed" THEN Torn ELSE Entries)
    /\ pc \notin Scanning => scan = NoScan
    /\ writing \in [DOMAIN writing -> Entries] /\ DOMAIN writing \subseteq Allowed
    /\ todo \subseteq DOMAIN writing /\ mine \subseteq DOMAIN writing /\ late \subseteq Paths
    /\ pc \notin {"done", "stopped"} => result = NoResult
    /\ work \in 0..MaxWork /\ edits \in 0..MaxEdits /\ errors \in 0..MaxErrors

\* removed from the source's index, and ignored: no capture sees a file there
Hidden(p) ==
    p \in Ignored /\ Exists(snapshot.baseline[p]) /\ ~Exists(Indexed(snapshot)[p])

\* A result that says it applied nothing (integrate's applied=False) leaves no
\* file as git apply left it, wherever git apply failed and whatever the user did
\* meanwhile: half a patch is never reported as none - but for a file the user
\* staged or committed under the very capture that looked for it, after that had
\* asked for HEAD or loaded the index.
TellsTheTruth ==
    pc = "done" /\ ~result.applied => \A p \in mine \ late : Hidden(p)

\* whether the patch has the content of p in it, and not just a change of mode
Told(p) ==
    \E r \in projected.staged \cup projected.unstaged \cup projected.untracked :
        r.path = p /\ r.tag = "diff"

\* A delta integrate calls applied and verified (status ok) is in the user's
\* files as the worker left it in the worktree: through the records, the patch
\* and the capture that verifies it, and over every edit made before that
\* capture read what it changed - unless the user committed a file of which the
\* patch does not tell, for the patch that is compared does not name HEAD.
VerifiedResult ==
    pc = "done" /\ result.status = "ok" =>
        \A p \in Allowed \ late :
            tree[p].head = wt[p].head \/ Told(p) =>
                \/ tree[p].index = wt[p].index /\ tree[p].work = wt[p].work
                \/ Hidden(p)

\* Nothing but the user's edits and failing reads comes between a reviewed
\* bundle and its integration: the replay, the check, the simulation and the
\* final hash, four ways to compute the same result, agree.
Undisturbed ==
    pc = "done" /\ edits = 0 /\ errors = 0
        /\ approval = [decision |-> "approve", binding |-> Sealed] =>
            result = [status |-> "ok", applied |-> delta # {}]

\* What capture_worker_delta accepts seal_delta_bundle can
\* replay, unless the worker moved HEAD: the delta's records lose nothing of
\* what the worktree's own capture shows.
Replayable ==
    pc = "seal" /\ projected.baseline = snapshot.baseline =>
        Replays(snapshot, delta, projected)

\* "The projected patch includes all approved source changes plus the worker
\* delta" (SKILL.md): whoever reads the patch up for review knows what every
\* allowed file will be.
PatchShowsResult ==
    pc = "review" =>
        \A p \in Allowed : Shown(Sealed.patch, snapshot.baseline, p) = wt[p].work
=============================================================================
