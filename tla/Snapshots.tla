----------------------------- MODULE Snapshots -----------------------------
(***************************************************************************)
(* The evidence boss-dispatch takes from a Git repository (repository.py)  *)
(* and what it makes of it: source snapshots, the disposable worktree they *)
(* are recreated in, the worker's delta, its projection and its replay.    *)
(*                                                                         *)
(* An entry is a file as Git sees it, a mode and a content; a content is a *)
(* tuple of hunks, the parts of a text that a patch changes one by one.  A *)
(* tree gives every path its entry in HEAD, in the index and in the        *)
(* working directory.  A hash is the value it is the hash of, a commit its *)
(* tree, and the encoding of a snapshot the snapshot.  Every content has   *)
(* the same hunks; what has none is a file that was opened for writing.    *)
(***************************************************************************)
EXTENDS FiniteSets

CONSTANTS
    Paths,      \* every path of the repository
    Allowed,    \* the task's source allowlist
    Ignored,    \* paths matched by .gitignore
    Hunks,      \* the parts of a content
    Texts       \* what a part may say

ASSUME PathsAssumption == IsFiniteSet(Paths) /\ Allowed \subseteq Paths /\ Ignored \subseteq Paths
ASSUME HunksAssumption == Hunks # {}

Absent == [mode |-> "none", content |-> <<>>]
Modes == {"regular", "executable"}
Entries == [mode : Modes, content : [Hunks -> Texts]] \cup {Absent}
Files == [head : Entries, index : Entries, work : Entries]
Trees == [Paths -> Files]

Exists(e) == e.mode # "none"

-----------------------------------------------------------------------------
(* Records of evidence.                                                    *)

\* mutant: any change of mode counts, also one that comes with another content
ModeOnlyX(old, new) == Exists(old) /\ Exists(new) /\ old.mode # new.mode

\* a change of mode alone names no content
ModeOnly(old, new) == Exists(old) /\ Exists(new) /\ old.mode # new.mode /\ old.content = new.content
Record(p, old, new) ==
    [path |-> p,
     tag |-> IF ModeOnly(old, new) THEN "mode_only" ELSE "diff",
     old |-> IF ModeOnly(old, new) THEN [old EXCEPT !.content = <<>>] ELSE old,
     new |-> IF ModeOnly(old, new) THEN [new EXCEPT !.content = <<>>] ELSE new]

\* git status of one path: f is [head, index, work]
Staged(f) == f.head # f.index
Unstaged(f) == Exists(f.index) /\ f.work # f.index
Untracked(f) == ~Exists(f.index) /\ Exists(f.work)

\* git status names an untracked file unless it is ignored
StatusUntracked(p, f) == Untracked(f) /\ p \notin Ignored
Dirty(p, f) == Staged(f) \/ Unstaged(f) \/ StatusUntracked(p, f)

Heads(tree) == [p \in Paths |-> tree[p].head]
Indexes(tree) == [p \in Paths |-> tree[p].index]
Works(tree) == [p \in Paths |-> tree[p].work]
Nothing == [p \in Paths |-> Absent]
Section(changed, old, new) == {Record(p, old[p], new[p]) : p \in changed}

-----------------------------------------------------------------------------
(* A capture asks several processes of Git, one after the other: for the   *)
(* commit of HEAD, for the status, and then for the diff and the contents  *)
(* of every path that has one.  In what follows f is what git status said  *)
(* of a path and g what was there when its record was made.                *)

\* a diff of g, under the modes of f: mixed, if g's are others
Diff(p, was, is, old, new) ==
    [path |-> p, tag |-> IF old.mode = was.mode /\ new.mode = is.mode THEN "diff" ELSE "mixed",
     old |-> old, new |-> new]

\* the contents of the two blobs are those of the status, which names them
StagedRecord(p, f, g) ==
    IF ModeOnly(f.head, f.index) THEN Record(p, f.head, f.index)
    ELSE Diff(p, f.head, f.index, g.head, g.index)
UnstagedRecord(p, f, g) ==
    IF Exists(f.work) /\ ModeOnly(f.index, g.work) THEN Record(p, f.index, g.work)
    ELSE Diff(p, f.index, f.work, g.index, g.work)

\* of a private path: the diffs, which may be empty by now, and the file
PrivateRecord(p, f, g) ==
    [path |-> p,
     staged |-> IF ~Staged(f) THEN {} ELSE {IF Staged(g) THEN {Record(p, g.head, g.index)} ELSE {}},
     unstaged |-> IF ~Unstaged(f) THEN {} ELSE {IF Unstaged(g) THEN {Record(p, g.index, g.work)} ELSE {}},
     untracked |-> IF StatusUntracked(p, f) THEN {g.work} ELSE {}]

\* there is nothing left to record, or not of the kind git status named
Raises(p, f, g, untracked) ==
    \/ untracked /\ ~Exists(g.work)
    \/ /\ p \in Allowed
       /\ \/ Staged(f) /\ ~ModeOnly(f.head, f.index) /\ ~Staged(g)
          \/ Unstaged(f) /\ Exists(f.work) /\ Exists(g.work) /\ f.work.mode # g.work.mode
          \/ Unstaged(f) /\ ~(Exists(f.work) /\ ModeOnly(f.index, g.work)) /\ ~Unstaged(g)

\* the allowed untracked files without a status record, found after the status
Explicit(p, f, g) == p \in Allowed /\ ~Dirty(p, f) /\ Untracked(g)

\* s holds what was read: HEAD, the status, the explicit files, and the contents
Captured(s) ==
    [baseline |-> s.baseline,
     staged |-> {StagedRecord(p, s.found[p], s.made[p]) : p \in {q \in Allowed : Staged(s.found[q])}},
     unstaged |-> {UnstagedRecord(p, s.found[p], s.made[p]) : p \in {q \in Allowed : Unstaged(s.found[q])}},
     untracked |-> {Record(p, Absent, s.made[p].work) :
                       p \in {q \in Allowed : StatusUntracked(q, s.found[q]) \/ q \in s.extra}},
     private |-> {PrivateRecord(p, s.found[p], s.made[p]) :
                       p \in {q \in Paths \ Allowed : Dirty(q, s.found[q])}}]

\* in a worktree of its own nothing changes under it
Capture(tree) ==
    Captured([baseline |-> Heads(tree), found |-> tree, made |-> tree,
              extra |-> {p \in Paths : Explicit(p, tree[p], tree[p])}])

-----------------------------------------------------------------------------
(* git apply, without --index and for text: a hunk fits where its old text *)
(* stands, and what no hunk names, the mode included, is left as it is.    *)

Changed(r) == {i \in DOMAIN r.old.content : r.old.content[i] # r.new.content[i]}
Fits(r, e) ==
    IF r.tag = "mode_only" THEN Exists(e)
    ELSE IF ~Exists(r.old) THEN ~Exists(e)
    ELSE IF ~Exists(r.new) THEN e.content = r.old.content
    ELSE Exists(e) /\ \A i \in Changed(r) : e.content[i] = r.old.content[i]
Patched(r, e) ==
    IF r.tag = "mode_only" THEN [e EXCEPT !.mode = r.new.mode]
    ELSE IF ~Exists(r.old) \/ ~Exists(r.new) THEN r.new
    ELSE [mode |-> IF r.old.mode # r.new.mode THEN r.new.mode ELSE e.mode,
          content |-> [i \in DOMAIN e.content |->
                          IF i \in Changed(r) THEN r.new.content[i] ELSE e.content[i]]]

\* a section has at most one record of a path
RecordOf(section, p) == CHOOSE r \in section : r.path = p
PathsOf(section) == {r.path : r \in section}
FitAll(section, files) == \A r \in section : Fits(r, files[r.path])
PatchAll(section, files) ==
    [p \in Paths |-> IF p \in PathsOf(section) THEN Patched(RecordOf(section, p), files[p]) ELSE files[p]]

-----------------------------------------------------------------------------
(* The worktree that recreates a snapshot.                                 *)

Indexed(s) == PatchAll(s.staged, s.baseline)
Edited(s) == PatchAll(s.unstaged, Indexed(s))
Recreated(s) == PatchAll(s.untracked, Edited(s))
Worktree(s) ==
    [p \in Paths |-> [head |-> s.baseline[p], index |-> Indexed(s)[p], work |-> Recreated(s)[p]]]

\* materialize_snapshot: the records apply, and what they made is the evidence
\* again, with the very files the source has
Materializes(s, tree) ==
    /\ FitAll(s.staged, s.baseline) /\ FitAll(s.unstaged, Indexed(s)) /\ FitAll(s.untracked, Edited(s))
    /\ LET again == Capture(Worktree(s))
       IN again.staged = s.staged /\ again.unstaged = s.unstaged
          /\ again.untracked = s.untracked /\ again.private = {}
    /\ \A p \in Allowed : Worktree(s)[p].work = tree[p].work

\* the tree object the worker's delta is taken against
MaterializedTree(wt) == [p \in Paths |-> IF p \in Allowed THEN wt[p].work ELSE wt[p].head]

-----------------------------------------------------------------------------
(* The worker's delta, its projection, and its replay.                     *)

DeltaRecords(base, wt) ==
    Section({p \in Allowed : base[p] # wt[p].work}, base, Works(wt))

\* capture_worker_delta: nothing out of scope, and the index left alone
InScope(projected, s) == projected.private = {} /\ projected.staged = s.staged

\* validate_worker_delta_projection
ValidProjection(projected, s) == projected.baseline = s.baseline /\ InScope(projected, s)

\* mutant: the private hash of the projection, whose worktree has no private files
TaskPatchX(projected, s) ==
    [staged |-> projected.staged, unstaged |-> projected.unstaged,
     untracked |-> projected.untracked, private |-> projected.private]

\* project_task_patch: the sections of the projection, the source's private hash
TaskPatch(projected, s) ==
    [staged |-> projected.staged, unstaged |-> projected.unstaged,
     untracked |-> projected.untracked, private |-> s.private]

\* the delta on top of a recreated snapshot, and the evidence it gives
WithDelta(s, delta) ==
    LET files == PatchAll(delta, Recreated(s))
    IN [p \in Paths |-> [Worktree(s)[p] EXCEPT !.work = files[p]]]
DeltaFits(s, delta) == FitAll(delta, Recreated(s))
Replays(s, delta, projected) ==
    DeltaFits(s, delta) /\ Capture(WithDelta(s, delta)) = projected

\* what a reader of a task patch takes the file at p to become
Shown(patch, baseline, p) ==
    PatchAll(patch.untracked, PatchAll(patch.unstaged, PatchAll(patch.staged, baseline)))[p]
=============================================================================
