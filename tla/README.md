# model-boss in TLA+

This directory holds TLA+ models of the two programs of this repository, the TLC
configurations that check them on small instances, and theorems about them
checked by the TLA+ proof system.

* **boss-call** (`boss-call/`): agents on one machine form a *room* (a star:
  one boss, several members) and exchange mail through files under
  `~/.boss-call/<room>/`. There is no server; every command is a process of its
  own that reads and writes those files.
* **boss-dispatch** (`boss-dispatch/`): a main loop hands a task to a worker
  model in a disposable Git worktree, seals the worker's delta in a bundle, has
  it reviewed, and applies exactly what was approved.

Paths below are relative to the repository; `mailbox.mjs`, `serve.mjs` are in
`boss-call/src/`, the `.py` files in `boss-dispatch/runtime/model_boss/`.

## Inventory

| component | state it keeps | operations | hard behaviour | what makes it correct |
|---|---|---|---|---|
| mailbox (`mailbox.mjs`, `bin/boss-call.mjs`) | `room.json`, `messages.jsonl`, `cursors/*`, `.lock/`, heartbeats | host, join, post, read, ack, wait, status | any two commands interleave; a process may die holding the lock or in the middle of an append; locks go stale by age | one writer at a time; seqs increase; no confirmed post or join is lost; cursors never go back and pass over no mail; mail for a listener arrives |
| serve (`serve.mjs`) | none of its own; kiso's session log | poll, run kiso on a batch, ack, auto status | a run may crash before or after it logged the prompt; the model posts while it runs | each batch is run until a run saw it; one report per run |
| peek (`peek.mjs`) | none | read session logs | – | – |
| sealing (`bundle.py`) | claim/receipt beside the invocation, final receipt, `worker.delta` | seal, read | overlapping attempts, kills and failed writes between any two system calls, advisory locks on inodes and not on names | sealed at most once, for ever; leftovers always recoverable |
| invocation resources (`resources.py`) | manifest, markers, worktree registration, consumption receipt | create, load, cleanup | cleanup killed anywhere and resumed; two cleanups; cleanup against a sealer | consumed once, nothing of somebody else's removed, nothing of its own left |
| lifecycle (`cli.py`) | one manifest per invocation | plan-review, worker, review, integrate | commands repeated, reordered, run at once; failures that clean up | nothing is dispatched unplanned or integrated unapproved; what was approved is what is applied |
| worker loop (`cli.py`) | the worktree, gate evidence | attempts, gates, scope audit | the source changes while the worker runs | a result is the delta of the unchanged source, inside its scope, with every gate passed |
| integration (`integration.py`) | the user's tree | capture, check, simulate, recapture, apply, verify | the user edits in any gap | the tree is as before or the approved patch is on it, and the status says which |
| receipts (`bundle.py`, `evidence.py`) | plan and final receipts | seal, read, bind hashes | replay, tampering | approval binds one snapshot, delta and patch |
| reviewer transport, process supervision (`transport.py`, `process.py`) | child process, pipes | run with a deadline and bounds | deadline, exit, output bound and cancellation race | the group is dead when the call returns, one status is right |
| routing, catalog, dispatch | – (pure) | select routes, estimate cost, pace | ties, caps, boundaries | selection follows the stated order |
| repository, sandbox, config, models, setup, package | Git objects, policy files, JSON | capture/replay, probe, parse, install | – | validation (not a subject for model checking) |

How they interact: `serve` is a client of the mailbox. In boss-dispatch every CLI
command is a process; the commands of one invocation meet only in the files of
that invocation. `worker` runs the worker loop and calls sealing; `review` reads
the sealed bundle and seals a final receipt; `integrate` reads both, integrates
and always cleans up; every failing `worker` cleans up too. Cleanup and sealing
meet in the claim's `flock` and in the bundle file.

`PROJECT.json` lists the components with their status and, under `hazards`, the
lines where this code can go wrong in ways that tests hardly reach.

## Modules

| module | what it is |
|---|---|
| `Mailbox` | the mailbox: state, one action per file or lock operation, properties |
| `MCMailbox` | its instances for TLC (`Mailbox*.cfg`) |
| `MailboxProofs` | theorems about `Mailbox` |
| `SealOnce` | what sealing promises: a register written at most once |
| `Seal` | `seal_delta_bundle` with overlapping attempts and crashes; refinement to `SealOnce` |
| `MCSeal` | its instances for TLC (`Seal*.cfg`) |
| `SealProofs` | theorems about `Seal`, refinement included |
| `Cleanup` | `cleanup_invocation`: overlapping calls, kills, resumption, composed with `Seal` |
| `MCCleanup` | its instances for TLC (`Cleanup*.cfg`) |
| `CleanupProofs` | theorems about `Cleanup`, on top of `SealProofs` |
| `Serve` | `boss-call serve` and the runs it hands mail to, on the room of `Mailbox` |
| `MCServe` | its instance for TLC |
| `ServeProofs` | theorems about `Serve`, on top of `MailboxProofs` |
| `Snapshots` | operators: snapshots of a Git repository, worktrees, deltas, projection and replay |
| `Integration` | one delta from the source's capture to its verified application, with the user editing |
| `MCIntegration` | its instances for TLC (`Integration.cfg`, `Projection.cfg`) |
| `IntegrationProofs` | theorems about `Snapshots` and `Integration` |
| `Invocation` | the commands of one invocation as processes over its files |
| `MCInvocation` | its instance for TLC |
| `InvocationProofs` | theorems about `Invocation` |
| `Worker` | the worker loop, its gates and the processes `run_process` runs for it |
| `MCWorker` | its instance for TLC |
| `WorkerProofs` | theorems about `Worker` |

Definitions whose name ends in `X` are deliberate slips of the definition they
precede. Nothing uses them; substituted for the right definition each breaks
the property that `PROJECT.json` pairs it with.

### Mailbox

*State.* `room`, `file`, `cursor` and `lock` are the files; `open` says that the
last line of `messages.jsonl` has no newline; `stale` that the lock directory's
mtime is over 10 s old. Each session (a process with a name) has a program
counter `pc` and a `job`: its command, arguments and what it has read so far.
`evicted`, `torn`, `confirmed`, `joined`, `settled` and `lost` are history: they
record what the environment did and what callers were told, and no action reads
them.

*Steps.* A command is `Start…` (what it reads before the lock), then
`Acquire`/`SeeStale`/`Reclaim`/`GiveUp` (the loop of `withLock`), `Load` (the
reads under the lock), one writing step (`SaveRoom`, `AppendLine`,
`WriteCursor`, or `Refuse`), and `Release` (the `finally` block). `stat` and
`rmdir` of a stale lock are two steps, `SeeStale` and `Reclaim`, because the
code makes two calls. `CutAppend` is an append that stops before its newline,
because the process is killed or because the write throws; `Crash` is a kill
between two steps; `Age` is the clock. The poll of `wait` (cursor, then
messages) is one step: a cursor that moves in between only makes the batch
larger by mail that was acknowledged already.

*Whole files.* `room.json` and the cursors are replaced by rename, so readers
see one version or the other. A message is a record whose text is the number of
the post command; kind, time and ref are dropped, nothing reads them.

*Where the promises end.* Two events break what the code promises, both found by
TLC and kept as runs of their own: the removal of a live process's lock
(`evicted`) and an append that is cut short (`torn`). Each property says which
of the two it assumes away; the properties that assume neither hold with both.

### Seal

*State.* Three names (`claim`, `final`, `bundle`), each absent or leading to a
file known by the attempt that created it and by what was written so far
(`partial`, `sealing`, `sealed`): this is all that `_same_file_state` can tell
apart. `flock` is per claim inode, not per name; it is dropped on close or
death. `seen` is the claim an attempt found, by stat and by content.

*Steps.* One per system call whose place in the order matters: stat, open and
read, `flock`, second stat and comparison, the three removals of recovery,
creation, writing and locking of a claim of one's own, creation, writing and
check of the bundle, the check of the claim, the final receipt, the rename; and
the three removals of the rollback. `FailWrite` fails any write or the rename;
`Kill` ends an attempt anywhere. A removal's own stat calls are merged with its
unlink. A final receipt torn by a kill is modelled as a whole one: all that
others do to it is find its name taken or remove it.

*Where the promises end.* `_acquire_seal_claim` creates its claim, complete, and
locks it afterwards. An attempt that locks it in between (`grabbed`) takes a
live claim for an abandoned one. Up to that step everything below holds; what
can follow is the run `SealGap`.

### Cleanup

*Composition.* `Cleanup` extends `Seal`, so that a step of an attempt is a step of
`Seal` and what `SealProofs` proves can be cited, and adds the directory
the sealers work in: before they start they look at its layout (`Enter`), and
they fail where it is gone (`FailLayout`). The claim, the final receipt and the
bundle are the files both sides reach for.

*State.* `root`, `owned` and `registered` are the directory, its entries and
Git's registration of the worktree; `receipt` is the consumption receipt beside
the directory, `temp` the fixed-name files renamed over it. A temporary file that
is still to be written is named by the call that writes it: the write goes to the
inode, wherever another call has moved it by then (`FillTemp`), so that the receipt
itself can be such a file. A call has its place
`at`, the `phase` it believes in, whether it found the worktree `listed` and the
root there (`anchored`), and the seal file it looked at (`found`).

*Steps.* `Load` is `load_invocation_resources`, through which the `cleanup`
command comes by the resources; a caller may hold them for long before `Open`
begins `cleanup_invocation`. Then come the two validations around `git worktree
list`, the claim (created, then written: a kill between leaves it torn), the
removals in their order, the two transitions of the receipt (read, temporary
file created, written, renamed), the removal of the claim or receipt of the
sealers under their `flock`, the check that nothing came back, and `rmdir`.
`Trouble` kills a call or makes an operation of it raise. The check of the root's
identity before each removal is merged with the removal. Identities are left out:
nobody replaces a file or a directory by another of the same name.

*Where the promises end.* The model shows limits of the code that its properties
state openly: a torn consumption receipt stops every later call (excluded by
`Resumable`); the directory may be left behind, empty, by a call that reports
`cleaned` (`CleanedUp` is about its contents); two calls may both report
`cleaned`, since both can see the last phase before either renames it; and once an
attempt has locked the fresh claim of a live one (`grabbed`), a third attempt may
seal after the cleanup is over, so `CleanedUp` does not speak of such runs.

### Serve

*Composition.* `Serve` extends `Mailbox`: a server is a session, and its
acknowledgement and its automatic status are `Mailbox` commands, lock and all. A
second session of the same name stands for what the model does with `boss_post`
while kiso runs; the remaining sessions listen and post.

*Steps.* `StartServe` reads the role once, and `bossAt` keeps the boss it named.
`TakeMail` takes the unread batch, `Spawn` reads the last seq and starts kiso,
`RunStarts` puts the prompt in the session's log, `RunExits` decides by exit code and
log between retry and acknowledgement; then the steps of `ack`, `CheckAnswer`, the
steps of `post`. An error of a command, such as a lock that is not to be had, ends the
server (`Break`, place `"off"`), as does `KillServer`; the run of a killed server goes
on, and its successor finds the session occupied. The automatic status goes to
`StatusTo`, by the role of the start: `post` refuses it when the room has another
boss by now, which ends the server too. (That branch is not reached in the TLC
instance, for it needs a takeover and a third room command; the theorems cover it.)
`handed` is what runs of this server have seen, `answered` the seq after which it last
found an answer, `broken` that a turn was cut short: history, and no action reads it.

*What it shows of the text.* The header says a crashed run re-delivers its mail.
The code, and its test, acknowledge the mail of a run that logged its prompt and
crashed; what re-delivers is a server that is cut short between the end of a run
and the acknowledgement. `HandedOnce` states exactly that.

### Snapshots and Integration

*Data.* A tree gives every path three entries (HEAD, index, working file); an
entry is a mode and a tuple of hunks, so that a patch can apply next to another
edit, fit or conflict, as `git apply` does. Every content has the same nonempty set
of hunks; a file that git apply has opened and not yet written is a mode without
hunks (`Torn`). Hashes are the values they are hashes
of. `Capture` is what `git status`, the index and the files add up to, with the
private part for paths that are not allowed and the rule for untracked files that
Git does not report. `Materializes`, `DeltaRecords`, `Replays` and `TaskPatch` are
the pipeline in `repository.py`.

*Steps.* `Integration` runs one delta through all of it. A capture is several
processes and reads at several moments: HEAD is asked for (`ReadHead`); `git status` loads
the index (`ReadIndex`), looks at the files in the order of their names (`ReadFile`) and
compares with HEAD, which it reads again (`ReadStatus`); then come the explicit untracked
files (`ReadExplicit`) and, path by path as the status says, the diffs and contents there
are by then (`ReadRecord`). So it can be a picture of no moment. Where the status and what is
found later do not go together the capture raises (`Raises`), which is the end of its
command, as is a read that fails (`CaptureFails`). `git apply` reads (`GitReads`), then
removes and creates file by file (`GitRemoves`, `GitCreates`), and can fail before, between
and after any of them, or with a file half written (`GitFails`). Between any two steps the
user edits, stages or commits. `mine` and `late` are history: the files as git apply left
them, and the paths of which the user changed what the last capture had read already.

*Where the promises end.* A path removed from the index and ignored is invisible to
every capture (`Hidden`): see the run `Projection`. The patch that the last check
compares does not name HEAD: of a file of which it does not tell (`Told`) the check
says only that it is as committed, whatever was committed by then. And no check is better
than its capture: what the user stages or commits between two reads of it can make a changed
file look clean, so that a git apply that failed half-way is reported as one that changed
nothing (see the disagreements below). `TellsTheTruth` and `VerifiedResult` state what is left,
for all paths that are not `late`, and hold.

### Invocation

*State.* The directory's `phase`, the worktree, the plan receipt, the bundle and the
final receipt, each absent, torn or whole, and what a whole one binds; the source;
what the reviewer's route resolves to. A process runs one command after another
and remembers (`mem`) what the code holds in its variables. `verdicts`, `ran`,
`applied` and `rejected` are history.

*Steps.* Commands are cut where they read or write something another command, the
user or a kill can reach. plan-review: the probe of the reviewer, the new
invocation, the capture, the verdict, the receipt.
worker: the receipt, the capture, the check of the path, `git worktree add` (which makes
missing directories itself, so it can bring a worktree back after a cleanup), the
launch, the delivery, the sealing. review: the packet, the probe, the verdict, the
receipt. integrate: the approval, the check of the source, the application.

A receipt is created, torn, and then written; with the chmod at its end others can read it
(`PlanWrite`, `FinalWrite`), but its command returns only after the fsync and the check of
the layout (`PlanSync`, `FinalSync`). Up to there `WriteFails` ends the command and unlinks the
receipt, whole or not, unless that fails too.

cleanup, the command and the end of the others: the claim, and the removals one by one
(`RemoveWorktree` to `RemoveManifest`; `phase` goes from `active` to `claimed`, to `removing` when
the layout is broken, to `gone`). At any of them it may be rejected (`RejectCleanup`): the
rest stays, and the caller is told, which `rejected` remembers. No bound is set on that.

`Fail` is an error or a failing reviewer or worker at any other stage, with the way out
that stage has; `Crash` is a kill. `Seal`, `Cleanup`, `Integration` and `Worker` have the
inside of the steps named after them.

*Where the promises end.* The identity that a verdict counts for is the one the
probe found; the process that gives the verdict is started later and is not asked.
A receipt may be acted on before its command has returned, and vanish with that command
(`EvidenceKept` says when). In particular a worker may be run, and its bundle be sealed, on a
plan whose plan-review then fails and cleans up, bundle included; and a
second `worker` on a manifest whose bundle is sealed fails and ends the
invocation (`OnlyConsumers` names both among those who may). After a kill, or a
rejected cleanup, an invocation stays that nobody approved (`NothingLeftBehind` says when).
Nothing counts the rounds of a review: that is left to the boss.

### Worker

*State.* The loop's place, attempt and job (0 the worker, then the gates); the
process that is run (`leader`: deaf to its stdin, ignoring SIGTERM); what it forked;
the worktree as one value and whether it is still the directory the sandbox was
made for (`bound`); the evidence of this attempt and of the earlier ones. `touched`
and `told` are history.

*Steps.* `Prepare` is `orchestrate_prepared_worker`, which starts the loop or finds
that the sandbox does not fit the invocation (any more). `Spawn`, `WritePrompt`, `Deadline`, `Terminate` (SIGTERM), `Kill` (after the
grace period) and `Reap` are `run_process`; `CheckSource`, `WorkerBack`, `StartGate`,
`GateBack`, `Judge` and `CaptureDelta` are `_run_worker_loop` and `_run_gate`. The
processes exit, fork, write and replace the worktree whenever they live; the user
edits the source.

*Where the promises end.* The deadline starts after the prompt is written, so a
process that never reads it blocks the loop (`Blocked`); "a timeout terminates the
exact process group" (`protocol.md`) holds for what does not ignore SIGTERM
(`GroupEnds`), since the group gets SIGKILL only while the leader itself survives
the grace period; a leader that exits by itself leaves its children alone; and what
lives on can write between the last gate and the capture (`GatesVouch`).

## Runs

| run | instance | shows |
|---|---|---|
| `Mailbox` | 3 sessions (2 of one name), 2 posts, 3 other commands, 1 crash or torn append, locks of live processes may age; 1.6 M states | type invariant; mutual exclusion; increasing seqs; what is read under the lock is current when written; confirmed posts and joins kept; the star; no mail passed over; cursors never go back |
| `MailboxTakeover` | violation | "a lock older than 10s belongs to a dead process" is not so: a waiter's `rmdir` can remove a lock just taken |
| `MailboxTorn` | violation | "a crash loses nothing": the post after a torn line is lost though its caller was given a seq |
| `Seal` | 3 attempts, two with the same evidence, 2 kills or failures; 19 k states, fairness | type invariant; a caller told "sealed" keeps its bundle and receipt; no leftovers without a claim; one attempt at work at a time; refinement of `SealOnce`; a retry after any crash seals |
| `SealGap` | violation, 3 attempts, no failure | "exactly once": a caller is told its evidence is sealed and there is no bundle |
| `Cleanup` | 2 calls, 1 attempt to seal, 1 kill or error; 216 k states, fairness | nothing is removed, and no sealed bundle is touched, before the consumption receipt is whole; after a call that says cleaned nothing is left, nor comes back; an interrupted call is finished by the next one that holds the resources |
| `CleanupRecovery` | violation, 1 error | "use the retained manifest for explicit recovery": after the first removal the manifest no longer loads |
| `Serve` | a server, its run and one more session, 2 posts, 1 kill or torn append, 1 run that does not start; 265 k states, fairness | mail for a name that listens, served or not, is taken in the end, also past orphan locks and their takeovers; a server acknowledges nothing that no run saw, hands no mail to a second run unless a turn was cut short, and has answered when it looks for mail again |
| `Integration` | 3 paths, 2 hunks, 4 dirty repositories, 2 changes by the worker, 2 by the user, 1 failing read or apply; 4.8 M states | a result that says nothing was applied leaves nothing applied, and one that says verified is what the worker made, but for what the user changed under the capture itself; the four computations of the result agree; what is captured can be replayed |
| `Projection` | violation, no edits | "the projected patch includes all approved source changes plus the worker delta": not a file at a path that is removed from the index and ignored |
| `Invocation` | 2 processes, 5 commands, 2 tasks, 2 main loops, 2 sources, 2 deltas, 1 kill, 1 error, 1 edit, any rejected cleanups; 7.0 M states | what integrate applies was run, and in Max approved twice by one reviewer who is not the main loop; no Max worker runs on an unapproved task or source; sealed bundles never change, nor do receipts whose command has returned; a sealed bundle is lost only to its consumers; nothing unapproved is left behind, unless a command was killed or told so |
| `Worker` | 2 gates, 4 trees, 2 attempts, 1 fork, 1 edit; 1.3 M states, fairness | gates of a result are all, once, in order, green, of one attempt; they passed on the delta that is sealed; retries are told exactly what was red; the group is gone after a timeout; the loop returns |

*Bounds.* Mailbox: three sessions are what a takeover race needs (the dead or
slow holder and two waiters), and two of them share a name because cursors are
per name. Two posts are enough for an order of two and for a post after a torn
one; three further commands cover host, a join and an acknowledgement; one crash
leaves an orphan lock, a torn line or delivered mail lost. In `Mailbox` the
search stops at the first eviction (`LockHonoured`), which the properties
exempt anyway. Seal: three attempts are one abandoned, one recovering and one
late or with other evidence; two failures let a recovery fail in its turn. The
search stops at the first grab (`GapAvoided`); `RetrySeals` starts only from
states where all other attempts have ended, from where no grab can come, so
that cutting the graph there hides none of its behaviours.
Cleanup: two calls are an interrupted one and its successor, or two at once,
which is what a receipt without a lock has to stand; one attempt is enough for
the races over the claim and the bundle (races of attempts are `Seal`'s, and one
attempt alone cannot grab a fresh claim); one failure hits either side at any
step.
Serve: one batch, an answer and a batch that arrives meanwhile need two posts of
the other side or one of each, besides the automatic status, which has no bound.
Integration: two hunks are what an edit next to the worker's own needs; the start
trees have every combination of staged, unstaged and untracked changes that
`Capture` treats differently; two edits are an edit and its revert, or an edit and
its staging; an edit that is also staged and committed takes three (with one
change by the worker, 13.3 M states, and all five properties hold), and the theorems
are for any number. Invocation: plan-review, worker, review and integrate are four
commands, the fifth is whatever disturbs them; the edit changes the source, or back
what integrate made of it, or the reviewer behind a route. Worker: two attempts are
one retry, two gates give an order, one fork gives a process that outlives the
leader; the four trees pass one gate, the other, both, or both out of scope.

*Deadlock* is not checked: sessions stop when the bounds on commands are spent,
attempts when they have ended, commands when there are no more, the worker loop
when it has returned.

*Fairness.* Mailbox: weak fairness of each step of a running command (processes
get to run), of `Age` (time passes), of `Restart` and of `StartWait` (the
boss-call skill has a session call `wait` whenever it has nothing to do). None
of the bounded steps is fair, and there is no strong fairness of the lock: a
`GiveUp` needs a lock that is not stale, and a waiter that gave up waits again.
Serve: the same of the server's steps and of a listener's, that a server is started
again, that kiso starts unless
the bounded failures are not spent, and that a run ends. Worker: weak fairness of
the loop's own steps, which includes the clock (`Deadline`, `Kill`), and none of
the processes it runs, which is what a deadline is for. Seal and Cleanup: weak
fairness of the steps of an attempt and of a call; none of failures and kills.
Integration and Invocation state safety only.

## Theorems

All are proved for any number of sessions, attempts, calls, commands or gates and
for any values of the bounds, from the assumptions named in the modules, which
TLC evaluates in every run: special values (`Free`, `Garbage`, `NoFile`, `"torn"`...)
are no names, messages, files or calls (`SessionsAssumption`, `GarbageAssumption`,
`NoFileAssumption`, `CleanersAssumption`), a server and its run are two sessions of
one name (`ServersAssumption`), constants are of their types (`SealAssumption`,
`TaskAssumption`, `ResultAssumption`, `BoundAssumption`, `BoundsAssumption`,
`StartAssumption`), paths are finitely many and the allowlist is among them
(`PathsAssumption`), a content has a hunk (`HunksAssumption`), a task has a gate and
an attempt. Nothing is assumed of how steps interleave.

*Mailbox* (`MailboxProofs`). The argument has four layers. Types come first
(`TypeCorrect`), split into the files, the programs and the history. Mutual
exclusion (`LockExcludes`) is inductive on its own: a session enters the critical
section when it makes the directory, and while no live lock has been removed
nobody else frees it. The third invariant (`OrderInv`) relates what a session read
under the lock to the file: seqs increase, and a loaded seq, room or cursor is
current (`SeqsInOrder`, `ReadsStayCurrent`), which needs mutual exclusion for the
steps of the other sessions. `JoinsStay` and `CursorsAdvance` follow from it. The
fourth layer is what becomes of a message. `StarStays`: sender and recipient were
checked against a room read before the lock, and the room has only grown since
(`FitsStays`), because what a writer of the room saves is current. `PostsStay`: a
whole file only grows (`MessagesGrow`), and between the append and the return the
line of the post is there. `MailNotSkipped` is the long one. The property is not
inductive, since a cursor moves to a number that was read long before: `SkipInv`
says of each number a command carries (`through` from before the lock, the maximum
computed under it) that nothing addressed to its name up to there is missing but
what the command itself has in hand (`Passed`), and that the number is not past the
end of the file, so that no later message can fall below it.

*Seal* (`SealProofs`). The inductive invariant (`IInv`) treats the claim as a baton.
`Owned`: a creator holds its claim from `own` on, and has locked it from `bundle`
on. `Recovered`: an attempt past its second stat holds the claim it found, with its
lock. `Written`: an inode that is locked or was read as a complete claim has a
creator past writing it, which makes a grab visible in the creator's program
counter. `Files`: what the holder's program counter says of the three files.
Each of the 21 actions keeps the four parts (one lemma each), and the theorems
are consequences. `SealsOnce` is the refinement: once `read_sealed_delta_bundle`
can succeed the attempt that made both files has ended, and `Files` keeps them.

*Cleanup* (`CleanupProofs`). `ClaimBeforeRemoval` composes the two modules: as long
as the consumption receipt is absent or torn, every call is in its prelude
(`FirstInv`), so nothing the attempts work on was touched and `Seal`'s own
inductive invariant still holds of them (`SealStepsAlone`, `BatonUndisturbed`);
what a caller was told is sealed is there because `Seal` says so. The converse part,
that no receipt says nothing again (`NotFreshAgain`), needs that at most one call
is about to write the claim. `ReceiptTellsTheTruth` follows the order of the
removals: which entries may be left at each of them (`Left`), hence that a receipt,
a temporary file of one, or a call past the last removal stands for an empty
directory (`ContentsGone`), whoever wrote it and whoever moved it; and that a call
goes on past git only when the worktree is not registered (`Unregistered`). This is
the part of `CleanedUp` that needs no condition on the attempts. `CleansUp` adds the
rest, what becomes of claim, receipt and bundle while attempts race the cleanup. After
the first removal the claim is no baton any more, since the cleanup takes it whatever
an attempt believes; but an inode that is locked or was read as a claim is still
nobody else's (`Guarded`), so an attempt undoes its own files and no other's. Once the
markers are gone no attempt gets past the check of the layout (`Hollow`), and so
each that made a bundle or a claim withdraws it (`BundleWithdrawn`, `ClaimWithdrawn`),
unless a cleanup that is past looking has seen it absent or takes it.

*Serve* (`ServeProofs`). Everything a server does to the room is a step of `Mailbox` by
some session or leaves the room alone but for a program counter (`Aside`), so the six
invariants of `MailboxProofs` are kept (`BoxInv`, `RoomServed`). On them rests an induction
over the server's turn: `Placed` ties the place in the loop to the command the session
is in, `BatchKept` says that nothing up to the end of the batch is passed over and that
the batch is still in the file, `AnswerComes` that what stands for an answer was posted
after `last`, and `SeenAcked` that what a run has seen is below the cursor or in the
batch, or a turn was cut short. `ServerSkipsNothing`, `TurnsAnswered`, `RunsSeeOnce`
follow, for any number of servers with any number of other sessions of the same names.

*Integration* (`IntegrationProofs`). First the data: a record determines the new entry
from the old one and applies to it (`RecordDetermines`, `RecordApplies`), so two captures
that are equal agree on every file they show (`SameFile`), and a snapshot recreates the
tree it was taken of up to what no capture shows (`Recreation`). `Inv` then says, stage by
stage, where the evidence comes from: the snapshot is the capture of a tree, the delta is
taken between its recreation and the worktree, what git apply writes is that, and what the
last capture has read is what the user's tree is, but for `late` (`Read`: read by read). A
capture that is done therefore shows each other path as it is (`ScanPictures`), although there may
be no moment at which it shows them all. `NothingApplied`:
what git apply leaves is never the file the delta was taken from, so where the capture
after a failed git apply is the snapshot, and so shows the file it was taken from
(`SourceFile`), the user has put the file back or overtaken the capture. `AppliedIsVerified`: equal patches and either an equal HEAD or
a record with the content give the same index (`IndexLeft`) and the same file
(`ResultFile`). `DeltaReplays` rests on `DeltaRecreates`: the replayed tree, path by path,
is the worktree. `QuietIntegration` follows the undisturbed source through the apply
(`QuietInv`, `Rewriting`: each path is as captured, removed, or as the worker left it).

*Worker* (`WorkerProofs`). `Shape` says which job each stage of the loop may be at
and makes `TypeOK` inductive. `GroupEnded` is inductive as it stands for a leader
that was killed. `EvidenceInv` says that the evidence of an attempt is that of the
gates before `job`, in order, and that each green one vouches for the tree as it
is unless somebody but a worker wrote since (`EvidenceSealable`,
`GatesVouchForDelta`). `ToldInv` relates what each worker was told to the evidence
of the attempt before; that a worker runs again only for red gates needs that the
loop came past `Judge` (`ToldOfRedGates`).

*Invocation* (`InvocationProofs`). Types come with `Removed`: the layout is broken before
anything that could be read is removed, so a command that reads a file reads one that is
nobody's leftover. `MakersInv`: an invocation is made once, and all verdicts about a plan in it
are about one packet (`OnePlan`). `Knows` says of a command at each stage what the
values it remembers are worth: which verdicts and runs stand behind them, and which
receipt it has in hand. It is inductive together with what every whole file stands for
(`FilesInv`) and with the fact that a receipt has one writer (`Alone`), because no verdict and
no run is taken back, and a file that can be read goes only with the writer that fails
(`Stable`). `OnlyAuthorized`, `PlansFirst` and `EvidenceStays` follow; the first needs the one
packet (`SameSaid`), since the plan receipt may have vanished, and its approval of the bundle's
task and source is known only from the verdicts. `LeavesNothing` and `LostToConsumers` need
the other side: who is left to end the invocation, or to report what came back (`Attended`).

*What the proofs changed in the models.* `PostsKept` was stated for no eviction and
no torn line; the proof needs the second only, and so it is stated now. `Cleanup`
called a half-written temporary file that another call moves over the receipt a
torn receipt; with three calls that would have contradicted the invariant, and the
code's write follows the inode, so the write is now a step of its own. `CleanedUp`
was false for three attempts (see Cleanup, above). `RetryTold` is now explicit that
no worker is run again without a red gate to tell it of. In `Serve` the reads of
a turn became two steps, the automatic status is refused where `post` refuses it, and
`HandedOnce` speaks of what a run has seen (`handed`) and not of what the server took.
`VerifiedResult` was false for three edits by the user, which the instance with two could
not show: proving that equal patches mean equal files fails exactly where HEAD moved
(see the disagreements below). `Replayable` needed no quiet source. `OnlyAuthorized` had
rested on a plan receipt that is never unlinked; since a writer that fails unlinks it, the proof
now goes through the verdicts.

*Only model-checked.* The liveness properties `MailHeard`, `RetrySeals`,
`CleanupResumes` and `Returns`: the prover has no `ENABLED`, so fairness cannot be
used in a proof. Every other property of the
passing runs is a theorem.

## Disagreements between text and code

The violation runs are the `findings` of `PROJECT.json`, each with the
quoted line. Those about the lock and about torn lines need unlucky timing or a
full disk; `Projection` needs a file removed from the index, ignored, and written
by the worker; `SealGap` needs three overlapping
calls of `seal_delta_bundle` for one invocation; `CleanupRecovery` one operation
of a cleanup that fails after the first removal.

Without a run of its own: `integrate` says "approved worker delta applied and verified"
(`integration.py:1001`) also of a file that is not as approved. The patch whose hash it
compares (`CanonicalPatch`) does not name HEAD, and a file that the delta made clean is not in
it; when the user edits, stages and commits that file between `git apply` and the last
capture, it is clean again with another content, and the hash is the approved one. TLC
finds this in half a minute when `VerifiedResult` drops its condition on `head` and
`Told`, with three edits by the user and a start where a file is edited and not staged.

`integrate` says "worker delta failed without changing the revalidated destination"
(`integration.py:955`), with `applied` false, also after a `git apply` that did change it. It
decides by a capture, which asks for HEAD (`repository.py:765`) before the status
(`repository.py:766`): git apply fails with a file half written, the user stages it, the
capture reads HEAD, the user commits, and the status is clean. TLC finds traces of this kind
(the shortest: a file staged between the status and the reading of its records) in under a
minute when `TellsTheTruth` drops its condition on `late`. And a receipt can be read from the chmod
on (`bundle.py:1196`), while its command may still fail and unlink it: a worker that has read a
plan receipt in between works on an approval that was never reported, and loses its
bundle to the cleanup of the plan-review. Both need a user or a caller that acts while a command is
running.

Plain to see, and also without a run: a boss named `all`
(`host` accepts it) has its members' posts delivered to every member, although
`mailbox.mjs:5` says a post goes to the boss and nowhere else; `serve.mjs` says a
crashed run re-delivers its mail; `process.py` says `run_process` executes and reaps
the complete process group (see Serve and Worker above).

## Not modelled, and why

Heartbeats and `statusNudge` (advice to people; no operation depends on them),
`--all` (a filter that shows a member other members' mail), finding the room
from the working directory, and every kind of formatting. `fsync` and power
loss: a crash is a kill of the process, the file system survives. The
hash chains and the envelope codec of boss-dispatch are represented by equality of
evidence. Git, the operating system's sandbox, model providers and kiso are
external; of Git, `Snapshots` has what status, index and `git apply` do to regular
files, not symbolic links, binary files, submodules, renames, filters or flags of
the index. The collectors of a process's output are left out, since nothing of
the output decides what the loop does. Route resolution is a pure function of
configuration and probes with unit tests of its own: `Invocation` has only what it
answers. The same goes for the cost estimate, for reading configuration and tasks,
and for setup and packaging. Two invocations on one repository meet only in the
user's tree, which any edit stands for.

## Plan

1. The pace rule and route selection as operators against reference definitions.
2. `Serve` and `Worker` as implementations of smaller specifications (a mail is run,
   then acknowledged; an attempt is judged once), next to `SealOnce`.
3. `Invocation`'s receipts as registers written once, from `EvidenceStays`.
