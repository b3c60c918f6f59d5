------------------------------- MODULE Worker -------------------------------
(***************************************************************************)
(* The worker of one invocation: _run_worker_loop runs the worker, then    *)
(* the task's gates, in the disposable worktree, and again while a gate is *)
(* red and attempts are left (cli.py).  Each of these processes is run by  *)
(* run_process (process.py), one after the other, in a group of its own:   *)
(* its leader may fork, hang, not read its prompt, ignore SIGTERM, and     *)
(* what it forked may outlive it and write to the worktree.                *)
(*                                                                         *)
(* A tree stands for all the worktree holds.                               *)
(***************************************************************************)
EXTENDS Naturals, Sequences, SequencesExt

CONSTANTS
    NGates,         \* a task has at least one gate
    Trees,
    Green,          \* Green[g] are the trees the gate g passes on
    InScope,        \* the trees that differ from the snapshot in allowed paths only
    Sources, MaxAttempts, MaxEdits, MaxForks

Gates == 1..NGates
ASSUME TaskAssumption ==
    /\ NGates \in Nat \ {0} /\ MaxAttempts \in Nat \ {0}
    /\ Green \in [Gates -> SUBSET Trees] /\ InScope \subseteq Trees

VARIABLES
    pc,
    attempt, job,       \* job 0 is the worker, the others are the gates
    leader,             \* of the process that is run
    timedout,           \* run_process has seen its deadline pass
    forked,             \* what was forked and lives
    tree, bound,        \* the worktree; bound: it is still the sandbox's directory
    source, snapshot,
    evidence, past,     \* of this attempt's gates, of the earlier attempts'
    told,               \* what every worker was told about red gates
    touched,            \* somebody but a worker wrote since the worker was done
    result, edits, forks

proc == <<leader, timedout>>
world == <<forked, tree, bound, source, touched, edits, forks>>
loop == <<attempt, job, evidence, past, told, snapshot>>
vars == <<pc, attempt, job, leader, timedout, forked, tree, bound, source, snapshot,
          evidence, past, told, touched, result, edits, forks>>

NoLeader == [state |-> "none"]
NoResult == [status |-> "none"]

Init ==
    /\ pc = "prepare" /\ attempt = 1 /\ job = 0
    /\ leader = NoLeader /\ timedout = FALSE /\ forked = {}
    /\ tree \in Trees /\ bound = TRUE
    /\ source \in Sources /\ snapshot \in Sources
    /\ evidence = <<>> /\ past = <<>> /\ told = <<>>
    /\ touched = FALSE /\ result = NoResult /\ edits = 0 /\ forks = 0

Alive == leader.state = "alive"
Finish(new) == pc' = "done" /\ result' = new
Failure(status, gates) == [status |-> status, attempts |-> attempt, gates |-> gates]
Goto(next) == pc' = next /\ UNCHANGED result

-----------------------------------------------------------------------------
(* run_process.                                                            *)

\* mutant: a gate that timed out is not told
RedX(gates) == {item \in ToSet(gates) : item.status = "gate_failed"}

\* _retry_packet: the failures of the attempt before, each under its gate
Red(gates) == {item \in ToSet(gates) : item.status # "ok"}

Spawn ==
    /\ pc = "spawn"
    /\ \E deaf, stubborn \in BOOLEAN :
          leader' = [state |-> "alive", deaf |-> deaf, stubborn |-> stubborn]
    /\ timedout' = FALSE
    /\ told' = IF job = 0 THEN Append(told, Red(evidence)) ELSE told
    /\ evidence' = IF job = 0 THEN <<>> ELSE evidence
    /\ Goto(IF job = 0 THEN "write" ELSE "wait")
    /\ UNCHANGED <<world, attempt, job, past, snapshot>>

\* the leader reads its prompt, or nobody is left who could
Mine(f) == f.of = <<attempt, job>>
WritePrompt ==
    /\ pc = "write"
    /\ IF Alive THEN ~leader.deaf ELSE \A f \in forked : ~Mine(f)
    /\ Goto("wait")
    /\ UNCHANGED <<world, proc, loop>>

Deadline ==
    /\ pc = "wait" /\ Alive
    /\ timedout' = TRUE
    /\ Goto("term")
    /\ UNCHANGED <<world, leader, loop>>

Killed == [state |-> "exited", code |-> "signal"]

\* mutant: the signal goes to the leader alone
TerminateX ==
    /\ pc = "term"
    /\ IF Alive
       THEN leader' = (IF leader.stubborn THEN leader ELSE Killed) /\ Goto("grace")
       ELSE UNCHANGED leader /\ Goto("back")
    /\ UNCHANGED <<world, timedout, loop>>

\* _terminate_process_group: SIGTERM, unless the leader has exited
Terminate ==
    /\ pc = "term"
    /\ IF Alive
       THEN /\ leader' = IF leader.stubborn THEN leader ELSE Killed
            /\ forked' = {f \in forked : Mine(f) => f.stubborn}
            /\ Goto("grace")
       ELSE UNCHANGED <<leader, forked>> /\ Goto("back")
    /\ UNCHANGED <<tree, bound, source, touched, edits, forks, timedout, loop>>

\* mutant: a group that ignores SIGTERM is waited for
KillX ==
    /\ pc = "grace" /\ Alive
    /\ UNCHANGED vars

\* SIGKILL, after the grace period
Kill ==
    /\ pc = "grace" /\ Alive
    /\ leader' = Killed
    /\ forked' = {f \in forked : ~Mine(f)}
    /\ Goto("back")
    /\ UNCHANGED <<tree, bound, source, touched, edits, forks, timedout, loop>>

Reap ==
    /\ pc \in {"wait", "grace"} /\ leader.state = "exited"
    /\ Goto("back")
    /\ UNCHANGED <<world, proc, loop>>

-----------------------------------------------------------------------------
(* _run_worker_loop.                                                       *)

\* orchestrate_prepared_worker: the sandbox is bound anew, and to the same worktree
Prepare ==
    /\ pc = "prepare"
    /\ \/ Goto("check")
       \/ Finish([status |-> "sandbox_unavailable", attempts |-> 0, gates |-> <<>>])
    /\ UNCHANGED <<world, proc, loop>>

CheckSource ==
    /\ pc = "check"
    /\ IF source = snapshot THEN Goto("spawn")
       ELSE Finish([status |-> "scope_violation", attempts |-> 0, gates |-> <<>>])
    /\ UNCHANGED <<world, proc, loop>>

\* mutant: after a retry only the gates that were red are run again
FirstGateX == IF told[attempt] = {} THEN 1 ELSE (CHOOSE item \in told[attempt] : TRUE).gate

FirstGate == 1

WorkerOK == ~timedout /\ leader.code = "zero"
WorkerBack ==
    /\ pc = "back" /\ job = 0
    /\ IF ~bound \/ source # snapshot
       THEN Finish(Failure("scope_violation", past)) /\ UNCHANGED <<job, touched>>
       ELSE IF ~WorkerOK
       THEN /\ Finish(Failure(IF timedout THEN "timeout" ELSE "transport_error", past))
            /\ UNCHANGED <<job, touched>>
       ELSE Goto("gate") /\ job' = FirstGate /\ touched' = FALSE
    /\ leader' = NoLeader
    /\ UNCHANGED <<timedout, forked, tree, bound, source, edits, forks, attempt, evidence, past,
                   told, snapshot>>

\* _run_gate: a working directory or a program that is not there is a red gate
Record(status) ==
    /\ evidence' = Append(evidence, [gate |-> job, status |-> status])
    /\ job' = job + 1
    /\ Goto(IF job = NGates THEN "judge" ELSE "gate")
StartGate ==
    /\ pc = "gate"
    /\ \/ bound /\ Goto("spawn") /\ UNCHANGED <<evidence, job>>
       \/ Record("gate_failed")
    /\ UNCHANGED <<world, proc, attempt, past, told, snapshot>>

GateStatus ==
    IF ~bound THEN "gate_failed"
    ELSE IF timedout THEN "timeout"
    ELSE IF leader.code = "zero" THEN "ok" ELSE "gate_failed"
GateBack ==
    /\ pc = "back" /\ job > 0
    /\ Record(GateStatus)
    /\ leader' = NoLeader
    /\ UNCHANGED <<world, timedout, attempt, past, told, snapshot>>

\* mutant: one attempt too many
RetryLeftX == attempt <= MaxAttempts

RetryLeft == attempt < MaxAttempts
Judge ==
    /\ pc = "judge"
    /\ past' = past \o evidence
    /\ IF source # snapshot
       THEN Finish(Failure("scope_violation", past')) /\ UNCHANGED <<attempt, job>>
       ELSE IF Red(evidence) = {} THEN Goto("capture") /\ UNCHANGED <<attempt, job>>
       ELSE IF RetryLeft THEN Goto("spawn") /\ attempt' = attempt + 1 /\ job' = 0
       ELSE Finish(Failure("gate_failed", past')) /\ UNCHANGED <<attempt, job>>
    /\ UNCHANGED <<world, proc, evidence, told, snapshot>>

\* mutant: a result carries the gates of all attempts
SealableX == past

Sealable == evidence
CaptureDelta ==
    /\ pc = "capture"
    /\ Finish(IF bound /\ tree \in InScope
              THEN [status |-> "ok", attempts |-> attempt, gates |-> Sealable, delta |-> tree]
              ELSE Failure("scope_violation", past))
    /\ UNCHANGED <<world, proc, loop>>

\* the program cannot be launched
SpawnFails ==
    /\ pc = "spawn"
    /\ IF job = 0
       THEN /\ Finish(Failure(IF bound /\ source = snapshot THEN "transport_error" ELSE "scope_violation", past))
            /\ told' = Append(told, Red(evidence))
            /\ UNCHANGED <<evidence, job>>
       ELSE Record("gate_failed") /\ UNCHANGED told
    /\ UNCHANGED <<world, proc, attempt, past, snapshot>>

Loop ==
    \/ Prepare \/ CheckSource \/ Spawn \/ SpawnFails \/ WritePrompt \/ Deadline \/ Terminate \/ Kill \/ Reap
    \/ WorkerBack \/ StartGate \/ GateBack \/ Judge \/ CaptureDelta

-----------------------------------------------------------------------------
(* The processes, and the user.                                            *)

Exit ==
    /\ Alive
    /\ \E code \in {"zero", "red"} :
          /\ job > 0 /\ code = "zero" => tree \in Green[job]
          /\ leader' = [state |-> "exited", code |-> code]
    /\ UNCHANGED <<pc, result, world, timedout, loop>>

Fork ==
    /\ Alive /\ forks < MaxForks
    /\ \E stubborn \in BOOLEAN :
          forked' = forked \cup {[of |-> <<attempt, job>>, stubborn |-> stubborn]}
    /\ forks' = forks + 1
    /\ UNCHANGED <<pc, result, tree, bound, source, touched, edits, proc, loop>>

Write ==
    /\ Alive \/ forked # {}
    /\ tree' \in Trees \ {tree}
    /\ touched' = (touched \/ job > 0)
    /\ UNCHANGED <<pc, result, forked, bound, source, edits, forks, proc, loop>>

ReplaceWorktree ==
    /\ Alive /\ bound
    /\ bound' = FALSE
    /\ UNCHANGED <<pc, result, forked, tree, source, touched, edits, forks, proc, loop>>

ForkedExits ==
    /\ \E f \in forked : forked' = forked \ {f}
    /\ UNCHANGED <<pc, result, tree, bound, source, touched, edits, forks, proc, loop>>

UserEdits ==
    /\ pc # "done" /\ edits < MaxEdits
    /\ edits' = edits + 1
    /\ source' \in Sources \ {source}
    /\ UNCHANGED <<pc, result, forked, tree, bound, touched, forks, proc, loop>>

Next ==
    \/ Loop
    \/ Exit \/ Fork \/ Write \/ ReplaceWorktree \/ ForkedExits
    \/ UserEdits

Spec == Init /\ [][Next]_vars /\ WF_vars(Loop)

-----------------------------------------------------------------------------
(* What should hold.                                                       *)

Statuses == {"ok", "timeout", "gate_failed"}
Records == [gate : Gates, status : Statuses]
TypeOK ==
    /\ pc \in {"prepare", "check", "spawn", "write", "wait", "term", "grace", "back", "gate", "judge",
               "capture", "done"}
    /\ attempt \in 1..MaxAttempts /\ job \in 0..NGates + 1
    /\ leader = NoLeader <=> pc \in {"prepare", "check", "spawn", "gate", "judge", "capture", "done"}
    /\ Alive => pc \in {"write", "wait", "term", "grace"}
    /\ timedout \in BOOLEAN /\ bound \in BOOLEAN /\ touched \in BOOLEAN
    /\ \A f \in forked : f.of \in (1..MaxAttempts) \X (0..NGates) /\ f.stubborn \in BOOLEAN
    /\ tree \in Trees /\ source \in Sources /\ snapshot \in Sources
    /\ evidence \in Seq(Records) /\ past \in Seq(Records)
    /\ pc = "done" <=> result # NoResult

\* What is left of a process that was made to end, when its run returns, is what
\* ignores SIGTERM: "A timeout terminates the exact process group" (protocol.md)
\* holds that far and no further.
GroupEnds ==
    pc = "back" /\ leader = Killed => \A f \in forked : Mine(f) => f.stubborn

\* The gates of a result that is to be sealed are all of the task's, each once,
\* in order and green: nothing of an earlier attempt.
SealableEvidence ==
    result.status = "ok" =>
        /\ Len(result.gates) = NGates
        /\ \A g \in Gates : result.gates[g] = [gate |-> g, status |-> "ok"]

\* Every gate passes on the very delta that is to be sealed, unless something
\* other than a worker wrote to the worktree after the last worker was done: a
\* gate, or what a process left behind.
GatesVouch ==
    result.status = "ok" /\ ~touched =>
        result.delta \in InScope /\ \A g \in Gates : result.delta \in Green[g]

\* A worker is run again only for gates that were not green in the attempt before,
\* it is told of all of these and of no other, and not more often than allowed.
RetryTold ==
    /\ Len(told) <= MaxAttempts
    /\ \A i \in 2..Len(told) :
          LET before == SubSeq(past, (i - 2) * NGates + 1, (i - 1) * NGates)
          IN  told[i] # {} /\ told[i] = {item \in ToSet(before) : item.status # "ok"}

\* The loop comes to an end, whatever the processes do, unless one does not read
\* its prompt: the deadline starts only when the prompt is written.
Blocked == pc = "write" /\ ~ENABLED WritePrompt
Returns == []<>(pc = "done" \/ Blocked)
=============================================================================
