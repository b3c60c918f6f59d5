---------------------------- MODULE WorkerProofs ----------------------------
(***************************************************************************)
(* Theorems about Worker, for any number of gates, attempts, forks and     *)
(* edits, and any trees.  The argument:                                    *)
(*   1. the type invariant, with which job every stage may be at;          *)
(*   2. what was forked by a process that was made to end;                 *)
(*   3. the evidence of an attempt is that of the gates before `job`, in   *)
(*      order, and each green one vouches for the tree as it is, as long   *)
(*      as nobody but a worker wrote;                                      *)
(*   4. what the workers were told, against the evidence of all attempts.  *)
(***************************************************************************)
EXTENDS Worker, SequenceTheorems, TLAPS

LoopPCs == {"prepare", "check", "spawn", "gate", "judge", "capture", "done"}
RunPCs == {"write", "wait", "term", "grace", "back"}

Leaders == {NoLeader} \cup [state : {"alive"}, deaf : BOOLEAN, stubborn : BOOLEAN]
                      \cup [state : {"exited"}, code : {"zero", "red", "signal"}]

Processes == (1 .. MaxAttempts) \X (0 .. NGates)

\* Which job a stage may be at, and what the program can be made of.
Shape ==
    /\ leader \in Leaders
    /\ told \in Seq(SUBSET Records)
    /\ pc \in {"prepare", "check", "write"} => job = 0
    /\ pc \in {"spawn"} \cup RunPCs => job \in 0 .. NGates
    /\ pc = "gate" => job \in 1 .. NGates
    /\ pc \in {"judge", "capture"} => job = NGates + 1

TypeInv == TypeOK /\ Shape

-----------------------------------------------------------------------------
(* 1. Types.                                                               *)

LEMMA Constants == NGates \in Nat /\ NGates >= 1 /\ MaxAttempts \in Nat /\ MaxAttempts >= 1
                   /\ Green \in [Gates -> SUBSET Trees] /\ InScope \subseteq Trees
                   /\ Gates = 1 .. NGates
  BY TaskAssumption DEF Gates

\* Evidence of the gate that is at work is a record.
LEMMA RecordTyped ==
    ASSUME NEW status \in Statuses, job \in 1 .. NGates
    PROVE  [gate |-> job, status |-> status] \in Records
  BY Constants DEF Records

LEMMA RedTyped == ASSUME NEW s \in Seq(Records) PROVE Red(s) \in SUBSET Records
  BY DEF Red, ToSet

LEMMA TypeInit == Init => TypeInv
<1> SUFFICES ASSUME Init PROVE TypeInv
  OBVIOUS
<1>1. evidence \in Seq(Records) /\ past \in Seq(Records) /\ told \in Seq(SUBSET Records)
  BY DEF Init
<1>2. attempt \in 1 .. MaxAttempts /\ job \in 0 .. NGates + 1
  BY Constants DEF Init
<1>3. leader = NoLeader /\ ~Alive
  BY DEF Init, NoLeader, Alive
<1> QED BY <1>1, <1>2, <1>3, Constants DEF Init, TypeInv, TypeOK, Shape, RunPCs, Leaders

\* A stage that touches neither the evidence nor the jobs.
LEMMA TypeQuiet ==
    ASSUME TypeInv, NEW next \in LoopPCs \cup RunPCs, pc' = next,
           UNCHANGED <<attempt, job, evidence, past, told, snapshot>>,
           leader' \in Leaders,
           leader' = NoLeader <=> next \in LoopPCs,
           leader'.state = "alive" => next \in {"write", "wait", "term", "grace"},
           timedout' \in BOOLEAN, bound' \in BOOLEAN, touched' \in BOOLEAN,
           tree' \in Trees, source' \in Sources,
           \A f \in forked' : f.of \in Processes /\ f.stubborn \in BOOLEAN,
           next = "done" <=> result' # NoResult,
           next \in {"prepare", "check", "write"} => job = 0,
           next \in {"spawn"} \cup RunPCs => job \in 0 .. NGates,
           next = "gate" => job \in 1 .. NGates,
           next \in {"judge", "capture"} => job = NGates + 1
    PROVE  TypeInv'
<1>1. pc' \in {"prepare", "check", "spawn", "write", "wait", "term", "grace", "back", "gate",
               "judge", "capture", "done"}
  BY DEF LoopPCs, RunPCs
<1>2. pc' = "done" <=> result' # NoResult
  OBVIOUS
<1>3. (leader = NoLeader)' <=> pc' \in {"prepare", "check", "spawn", "gate", "judge", "capture", "done"}
  BY DEF LoopPCs
<1>4. Alive' => pc' \in {"write", "wait", "term", "grace"}
  BY DEF Alive
<1>5. TypeOK'
  BY <1>1, <1>2, <1>3, <1>4 DEF TypeInv, TypeOK, Processes
<1>6. Shape'
  BY DEF TypeInv, Shape
<1> QED BY <1>5, <1>6 DEF TypeInv

\* Every step keeps the types, and every stage at the jobs it may be at.
LEMMA TypeNext == TypeInv /\ [Next]_vars => TypeInv'
<1> SUFFICES ASSUME TypeInv, [Next]_vars PROVE TypeInv'
  OBVIOUS
<1> USE Constants
<1>0. /\ leader \in Leaders /\ timedout \in BOOLEAN /\ bound \in BOOLEAN /\ touched \in BOOLEAN
      /\ tree \in Trees /\ source \in Sources
      /\ \A f \in forked : f.of \in Processes /\ f.stubborn \in BOOLEAN
      /\ leader = NoLeader <=> pc \in LoopPCs
      /\ pc \in LoopPCs \cup RunPCs
      /\ pc = "done" <=> result # NoResult
      /\ attempt \in 1 .. MaxAttempts /\ job \in 0 .. NGates + 1
      /\ evidence \in Seq(Records) /\ past \in Seq(Records) /\ told \in Seq(SUBSET Records)
      /\ pc \in {"prepare", "check", "write"} => job = 0
      /\ pc \in {"spawn"} \cup RunPCs => job \in 0 .. NGates
      /\ pc = "gate" => job \in 1 .. NGates
      /\ pc \in {"judge", "capture"} => job = NGates + 1
      /\ leader.state = "alive" => pc \in {"write", "wait", "term", "grace"}
  BY DEF TypeInv, TypeOK, Shape, Processes, LoopPCs, RunPCs, Alive
<1>1. CASE Prepare
  BY <1>1, <1>0, TypeQuiet DEF Prepare, Goto, Finish, NoResult, world, proc, loop, LoopPCs, RunPCs
<1>2. CASE CheckSource
  BY <1>2, <1>0, TypeQuiet DEF CheckSource, Goto, Finish, NoResult, world, proc, loop, LoopPCs, RunPCs
<1>3. CASE WritePrompt
  BY <1>3, <1>0, TypeQuiet DEF WritePrompt, Goto, world, proc, loop, LoopPCs, RunPCs
<1>4. CASE Deadline
  BY <1>4, <1>0, TypeQuiet DEF Deadline, Goto, world, loop, LoopPCs, RunPCs
<1>5. Killed \in Leaders /\ Killed # NoLeader /\ Killed.state # "alive"
  BY DEF Killed, Leaders, NoLeader
<1>6. CASE Terminate
  BY <1>6, <1>0, <1>5, TypeQuiet DEF Terminate, Goto, loop, LoopPCs, RunPCs, Alive
<1>7. CASE Kill
  BY <1>7, <1>0, <1>5, TypeQuiet DEF Kill, Goto, loop, LoopPCs, RunPCs
<1>8. CASE Reap
  BY <1>8, <1>0, TypeQuiet DEF Reap, Goto, world, proc, loop, LoopPCs, RunPCs
<1>9. CASE CaptureDelta
  BY <1>9, <1>0, TypeQuiet DEF CaptureDelta, Finish, Failure, NoResult, world, proc, loop, LoopPCs, RunPCs
<1>10. CASE Exit
  <2>1. PICK code \in {"zero", "red"} : leader' = [state |-> "exited", code |-> code]
    BY <1>10 DEF Exit
  <2>2. leader' \in Leaders /\ leader' # NoLeader /\ leader'.state # "alive"
    BY <2>1 DEF Leaders, NoLeader
  <2> QED
    BY <1>10, <1>0, <2>2, TypeQuiet DEF Exit, Alive, world, loop, LoopPCs, RunPCs
<1>11. CASE Fork
  <2>1. <<attempt, job>> \in Processes
    BY <1>11, <1>0 DEF Fork, Alive, Processes, RunPCs
  <2>2. \A f \in forked' : f.of \in Processes /\ f.stubborn \in BOOLEAN
    <3>1. PICK stubborn \in BOOLEAN :
              forked' = forked \cup {[of |-> <<attempt, job>>, stubborn |-> stubborn]}
      BY <1>11, Zenon DEF Fork
    <3> DEFINE new == [of |-> <<attempt, job>>, stubborn |-> stubborn]
    <3>2. new.of \in Processes /\ new.stubborn \in BOOLEAN
      BY <2>1
    <3> HIDE DEF new
    <3>3. forked' = forked \cup {new}
      BY <3>1, Zenon DEF new
    <3> QED BY <3>2, <3>3, <1>0
  <2> QED
    BY <1>11, <1>0, <2>2, TypeQuiet DEF Fork, Alive, proc, loop, LoopPCs, RunPCs
<1>12. CASE Write \/ ReplaceWorktree \/ ForkedExits \/ UserEdits \/ UNCHANGED vars
  BY <1>12, <1>0, TypeQuiet DEF Write, ReplaceWorktree, ForkedExits, UserEdits, vars, proc, loop, LoopPCs, RunPCs
<1>13. CASE Spawn
  <2>1. PICK deaf \in BOOLEAN, stubborn \in BOOLEAN :
            leader' = [state |-> "alive", deaf |-> deaf, stubborn |-> stubborn]
    BY <1>13 DEF Spawn
  <2>2. leader' \in Leaders /\ leader' # NoLeader
    BY <2>1 DEF Leaders, NoLeader
  <2>3. told' \in Seq(SUBSET Records)
    BY <1>13, <1>0, RedTyped, AppendProperties DEF Spawn
  <2>4. evidence' \in Seq(Records)
    BY <1>13, <1>0 DEF Spawn
  <2>5. (pc' = "write" /\ job = 0) \/ (pc' = "wait" /\ job # 0)
    <3>1. pc' = IF job = 0 THEN "write" ELSE "wait"
      BY <1>13, Zenon DEF Spawn, Goto
    <3> QED BY <3>1
  <2>6. TypeOK'
    BY <1>13, <1>0, <2>2, <2>4, <2>5 DEF Spawn, Goto, world, TypeOK, TypeInv, Alive, LoopPCs, Processes
  <2>7. Shape'
    BY <1>13, <1>0, <2>2, <2>3, <2>5 DEF Spawn, Shape, RunPCs
  <2> QED BY <2>6, <2>7 DEF TypeInv
<1>14. ASSUME NEW status \in Statuses, Record(status), job \in 1 .. NGates, pc # "done", leader' = NoLeader,
              UNCHANGED <<world, timedout, attempt, past, told, snapshot>>
       PROVE  TypeInv'
  <2>1. evidence' \in Seq(Records)
    BY <1>14, <1>0, RecordTyped, AppendProperties DEF Record
  <2>2. job' = job + 1 /\ job' \in 1 .. NGates + 1
    BY <1>14 DEF Record
  <2>3. (pc' = "judge" /\ job' = NGates + 1) \/ (pc' = "gate" /\ job' \in 1 .. NGates)
    <3>1. pc' = IF job = NGates THEN "judge" ELSE "gate"
      BY <1>14, Zenon DEF Record, Goto
    <3> QED BY <3>1, <2>2, <1>14
  <2>4. leader'.state # "alive"
    BY <1>14 DEF NoLeader
  <2>5. result' = result /\ result = NoResult
    BY <1>14, <1>0 DEF Record, Goto
  <2>6. TypeOK'
    BY <1>14, <1>0, <2>1, <2>2, <2>3, <2>4, <2>5 DEF world, TypeOK, TypeInv, Alive, Processes
  <2>7. Shape'
    BY <1>14, <1>0, <2>3 DEF Shape, RunPCs, Leaders
  <2> QED BY <2>6, <2>7 DEF TypeInv
<1>15. CASE StartGate
  <2>1. leader = NoLeader
    BY <1>15, <1>0 DEF StartGate, LoopPCs
  <2>2. CASE Goto("spawn") /\ UNCHANGED <<evidence, job>>
    BY <1>15, <1>0, <2>2, TypeQuiet DEF StartGate, Goto, world, proc, loop, LoopPCs, RunPCs
  <2>3. CASE Record("gate_failed")
    BY <1>15, <1>0, <1>14, <2>1, <2>3 DEF StartGate, proc, Statuses
  <2> QED BY <1>15, <2>2, <2>3 DEF StartGate
<1>16. CASE GateBack
  <2>1. GateStatus \in Statuses
    BY DEF GateStatus, Statuses
  <2>2. job \in 1 .. NGates
    BY <1>16, <1>0 DEF GateBack, RunPCs
  <2> QED BY <1>16, <1>14, <2>1, <2>2 DEF GateBack
<1>17. CASE SpawnFails
  <2>1. leader = NoLeader
    BY <1>17, <1>0 DEF SpawnFails, LoopPCs
  <2>2. CASE job = 0
    <3>1. pc' = "done" /\ result' # NoResult /\ told' \in Seq(SUBSET Records)
      <4>1. Finish(Failure(IF bound /\ source = snapshot THEN "transport_error"
                           ELSE "scope_violation", past)) /\ told' = Append(told, Red(evidence))
        BY <1>17, <2>2 DEF SpawnFails
      <4>2. told' \in Seq(SUBSET Records)
        BY <4>1, <1>0, RedTyped, AppendProperties
      <4> QED BY <4>1, <4>2 DEF Finish, Failure, NoResult
    <3>2. TypeOK'
      BY <1>17, <1>0, <2>1, <2>2, <3>1 DEF SpawnFails, world, proc, TypeOK, TypeInv, Alive, Processes
    <3>3. Shape'
      BY <1>17, <1>0, <3>1 DEF SpawnFails, Shape, RunPCs, proc
    <3> QED BY <3>2, <3>3 DEF TypeInv
  <2>3. CASE job # 0
    BY <1>17, <1>0, <1>14, <2>1, <2>3 DEF SpawnFails, proc, Statuses, RunPCs
  <2> QED BY <2>2, <2>3
<1>18. CASE WorkerBack
  <2>1. leader' = NoLeader /\ leader'.state # "alive"
    BY <1>18 DEF WorkerBack, NoLeader
  <2>2. \/ pc' = "done" /\ result' # NoResult /\ job' = job
        \/ pc' = "gate" /\ job' = 1 /\ result' = result
    <3>1. CASE ~bound \/ source # snapshot
      BY <1>18, <3>1 DEF WorkerBack, Finish, Failure, NoResult
    <3>2. CASE ~(~bound \/ source # snapshot) /\ ~WorkerOK
      BY <1>18, <3>2 DEF WorkerBack, Finish, Failure, NoResult
    <3>3. CASE ~(~bound \/ source # snapshot) /\ WorkerOK
      BY <1>18, <3>3 DEF WorkerBack, Goto, FirstGate
    <3> QED BY <3>1, <3>2, <3>3
  <2>3. touched' \in BOOLEAN
    BY <1>18, <1>0 DEF WorkerBack
  <2>4. result = NoResult
    BY <1>18, <1>0 DEF WorkerBack
  <2>5. TypeOK'
    BY <1>18, <1>0, <2>1, <2>2, <2>3, <2>4 DEF WorkerBack, TypeOK, TypeInv, Alive, Processes
  <2>6. Shape'
    BY <1>18, <1>0, <2>1, <2>2 DEF WorkerBack, Shape, RunPCs, Leaders
  <2> QED BY <2>5, <2>6 DEF TypeInv
<1>19. CASE Judge
  <2>1. past' \in Seq(Records)
    BY <1>19, <1>0, ConcatProperties DEF Judge
  <2>2. leader = NoLeader /\ result = NoResult
    BY <1>19, <1>0 DEF Judge, LoopPCs
  <2>3. \/ pc' = "done" /\ result' # NoResult /\ UNCHANGED <<attempt, job>>
        \/ pc' = "capture" /\ UNCHANGED <<attempt, job, result>>
        \/ pc' = "spawn" /\ attempt' = attempt + 1 /\ job' = 0 /\ result' = result /\ attempt < MaxAttempts
    BY <1>19 DEF Judge, Finish, Failure, Goto, NoResult, RetryLeft
  <2>4. attempt' \in 1 .. MaxAttempts /\ job' \in 0 .. NGates + 1
    BY <1>0, <2>3
  <2>5. TypeOK'
    BY <1>19, <1>0, <2>1, <2>2, <2>3, <2>4 DEF Judge, world, proc, TypeOK, TypeInv, Alive, Processes
  <2>6. Shape'
    BY <1>19, <1>0, <2>3 DEF Judge, Shape, RunPCs, proc
  <2> QED BY <2>5, <2>6 DEF TypeInv
<1> QED
  BY <1>1, <1>2, <1>3, <1>4, <1>6, <1>7, <1>8, <1>9, <1>10, <1>11, <1>12, <1>13, <1>15, <1>16,
     <1>17, <1>18, <1>19 DEF Next, Loop

\* Every variable of the worker's loop and of the processes it runs has its type.
THEOREM TypeCorrect == Spec => []TypeOK
<1>1. TypeInv => TypeOK
  BY DEF TypeInv
<1> QED BY <1>1, TypeInit, TypeNext, PTL DEF Spec

LEMMA TypeInvariant == Spec => []TypeInv
  BY TypeInit, TypeNext, PTL DEF Spec

-----------------------------------------------------------------------------
(* 2. What a process that was made to end has left.                        *)

\* from the signal on, what is left of its group ignores SIGTERM
StubbornLeft == leader = Killed => \A f \in forked : Mine(f) => f.stubborn

LEMMA StubbornNext == TypeInv /\ StubbornLeft /\ [Next]_vars => StubbornLeft'
<1> SUFFICES ASSUME TypeInv, StubbornLeft, [Next]_vars, leader' = Killed
             PROVE  \A f \in forked' : Mine(f)' => f.stubborn
  BY DEF StubbornLeft
<1>0. leader = NoLeader <=> pc \in LoopPCs
  BY DEF TypeInv, TypeOK, LoopPCs
<1>1. Killed # NoLeader /\ Killed.state = "exited" /\ Killed.code = "signal"
  BY DEF Killed, NoLeader
<1>2. ASSUME leader = Killed, forked' \subseteq forked, UNCHANGED <<attempt, job>>
      PROVE  \A f \in forked' : Mine(f)' => f.stubborn
  BY <1>2 DEF StubbornLeft, Mine
<1>3. CASE Terminate
  <2>1. CASE Alive
    BY <1>3, <2>1 DEF Terminate, loop, Mine
  <2>2. CASE ~Alive
    BY <1>2, <1>3, <2>2 DEF Terminate, loop
  <2> QED BY <2>1, <2>2
<1>4. CASE Kill
  BY <1>4 DEF Kill, loop, Mine
<1>5. CASE Spawn \/ Exit \/ WorkerBack \/ GateBack
  BY <1>1, <1>5 DEF Spawn, Exit, WorkerBack, GateBack, Killed
<1>6. CASE Fork
  BY <1>1, <1>6 DEF Fork, Alive, proc
<1>7. CASE Prepare \/ CheckSource \/ StartGate \/ SpawnFails \/ Judge \/ CaptureDelta
  BY <1>0, <1>1, <1>7 DEF Prepare, CheckSource, StartGate, SpawnFails, Judge, CaptureDelta, proc, LoopPCs
<1>8. CASE WritePrompt \/ Deadline \/ Reap
  BY <1>2, <1>8 DEF WritePrompt, Deadline, Reap, world, proc, loop
<1>9. CASE Write \/ ReplaceWorktree \/ ForkedExits \/ UserEdits \/ UNCHANGED vars
  BY <1>2, <1>9 DEF Write, ReplaceWorktree, ForkedExits, UserEdits, vars, proc, loop
<1> QED BY <1>3, <1>4, <1>5, <1>6, <1>7, <1>8, <1>9 DEF Next, Loop

\* However a process forks, and whatever its group ignores: when run_process has
\* ended it and returns, only what ignores SIGTERM is left of the group.
THEOREM GroupEnded == Spec => []GroupEnds
<1>1. Init => StubbornLeft
  BY DEF Init, StubbornLeft
<1>2. StubbornLeft => GroupEnds
  BY DEF StubbornLeft, GroupEnds
<1> QED BY <1>1, <1>2, TypeInvariant, StubbornNext, PTL DEF Spec

-----------------------------------------------------------------------------
(* 3. The evidence of an attempt.                                          *)

\* that of the gates before `job`, in order; the last attempt's while the next
\* worker is being started
InOrder ==
    /\ \A k \in 1 .. Len(evidence) : evidence[k].gate = k
    /\ job > 0 /\ pc # "done" => Len(evidence) = job - 1
    /\ job = 0 /\ pc \in RunPCs => evidence = << >>
    /\ pc = "capture" => \A k \in 1 .. Len(evidence) : evidence[k].status = "ok"

\* a gate that is green, or has just exited so, passes on the tree as it is
Vouched ==
    ~touched /\ job > 0 /\ pc # "done" =>
        /\ \A k \in 1 .. Len(evidence) : evidence[k].status = "ok" => tree \in Green[k]
        /\ (leader.state = "exited" /\ leader.code = "zero") => tree \in Green[job]

Results == (result.status = "ok" => pc = "done") /\ SealableEvidence /\ GatesVouch

EvidenceInv == InOrder /\ Vouched /\ Results

LEMMA RecordAppends ==
    ASSUME TypeInv, InOrder, NEW status \in Statuses, Record(status), job \in 1 .. NGates, pc # "done"
    PROVE  /\ Len(evidence') = job /\ job' = job + 1 /\ pc' \in {"gate", "judge"} /\ result' = result
           /\ \A k \in 1 .. job - 1 : evidence'[k] = evidence[k]
           /\ evidence'[job] = [gate |-> job, status |-> status]
<1>1. Len(evidence) = job - 1 /\ evidence \in Seq(Records)
  BY DEF InOrder, TypeInv, TypeOK
<1> DEFINE new == [gate |-> job, status |-> status]
<1>2. new \in Records /\ evidence' = Append(evidence, new) /\ job' = job + 1
  BY RecordTyped DEF Record
<1> HIDE DEF new
<1>3. /\ Len(evidence') = Len(evidence) + 1
      /\ \A k \in 1 .. Len(evidence) : evidence'[k] = evidence[k]
      /\ evidence'[Len(evidence) + 1] = new
  BY <1>1, <1>2, AppendProperties
<1>4. pc' \in {"gate", "judge"} /\ result' = result
  BY DEF Record, Goto
<1>5. Len(evidence) = job - 1 /\ Len(evidence) + 1 = job /\ job \in Nat
  BY <1>1
<1> QED BY <1>2, <1>3, <1>4, <1>5 DEF new

LEMMA EvidenceNext == TypeInv /\ EvidenceInv /\ [Next]_vars => EvidenceInv'
<1> SUFFICES ASSUME TypeInv, EvidenceInv, [Next]_vars PROVE EvidenceInv'
  OBVIOUS
<1> USE Constants
<1>0. /\ leader = NoLeader <=> pc \in LoopPCs
      /\ leader \in Leaders
      /\ pc \in LoopPCs \cup RunPCs
      /\ pc = "done" <=> result # NoResult
      /\ job \in 0 .. NGates + 1 /\ evidence \in Seq(Records)
      /\ pc \in {"prepare", "check", "write"} => job = 0
      /\ pc \in {"spawn"} \cup RunPCs => job \in 0 .. NGates
      /\ pc = "gate" => job \in 1 .. NGates
      /\ pc \in {"judge", "capture"} => job = NGates + 1
      /\ Alive => pc \in {"write", "wait", "term", "grace"}
      /\ NoLeader.state = "none" /\ NoResult.status = "none"
  BY DEF TypeInv, TypeOK, Shape, LoopPCs, RunPCs, NoLeader, NoResult
<1>1. Results /\ InOrder /\ Vouched
  BY DEF EvidenceInv
\* steps of the processes and of run_process
<1>2. ASSUME UNCHANGED <<attempt, job, evidence, result>>, pc # "done", pc' # "done", pc' # "capture",
             pc' \in RunPCs => pc \in RunPCs,
             ~touched' => ~touched /\ (job > 0 => tree' = tree),
             leader'.state = "exited" /\ leader'.code = "zero" /\ job > 0 /\ ~touched'
                 => \/ leader' = leader
                    \/ tree' \in Green[job]
      PROVE  EvidenceInv'
  <2>1. InOrder'
    BY <1>0, <1>1, <1>2 DEF InOrder
  <2>2. Vouched'
    BY <1>0, <1>1, <1>2 DEF Vouched
  <2>3. Results'
    BY <1>0, <1>1, <1>2 DEF Results, SealableEvidence, GatesVouch
  <2> QED BY <2>1, <2>2, <2>3 DEF EvidenceInv
<1>3. CASE WritePrompt \/ Deadline \/ Reap
  BY <1>2, <1>0, <1>3 DEF WritePrompt, Deadline, Reap, Goto, world, proc, loop, RunPCs
<1>4. CASE Terminate \/ Kill
  BY <1>2, <1>0, <1>4 DEF Terminate, Kill, Killed, Goto, loop, RunPCs
\* what a worker's or a gate's processes do, and the user; also after the end
<1>5. ASSUME UNCHANGED <<pc, attempt, job, evidence, result>>,
             ~touched' => ~touched /\ (job > 0 => tree' = tree),
             leader'.state = "exited" /\ leader'.code = "zero" /\ job > 0 /\ ~touched' /\ pc # "done"
                 => \/ leader' = leader
                    \/ tree' \in Green[job]
      PROVE  EvidenceInv'
  <2>1. InOrder'
    BY <1>1, <1>5 DEF InOrder
  <2>2. Vouched'
    BY <1>1, <1>5 DEF Vouched
  <2>3. Results'
    BY <1>1, <1>5 DEF Results, SealableEvidence, GatesVouch
  <2> QED BY <2>1, <2>2, <2>3 DEF EvidenceInv
<1>6. CASE Exit
  BY <1>5, <1>0, <1>6 DEF Exit, Alive, world, loop
<1>7. CASE Fork \/ ReplaceWorktree \/ ForkedExits \/ UserEdits \/ UNCHANGED vars
  BY <1>5, <1>7 DEF Fork, ReplaceWorktree, ForkedExits, UserEdits, vars, proc, loop
<1>8. CASE Write
  BY <1>5, <1>0, <1>8 DEF Write, proc, loop
\* a result that is not to be sealed
<1>9. ASSUME pc' = "done", evidence' = evidence, result'.status # "ok" PROVE EvidenceInv'
  BY <1>1, <1>9 DEF EvidenceInv, InOrder, Vouched, Results, SealableEvidence, GatesVouch, RunPCs
<1>10. CASE Prepare
  BY <1>0, <1>1, <1>9, <1>10 DEF Prepare, Goto, Finish, world, proc, loop,
      EvidenceInv, InOrder, Vouched, Results, SealableEvidence, GatesVouch, RunPCs
<1>11. CASE CheckSource
  BY <1>0, <1>1, <1>9, <1>11 DEF CheckSource, Goto, Finish, world, proc, loop,
      EvidenceInv, InOrder, Vouched, Results, SealableEvidence, GatesVouch, RunPCs
<1>12. CASE Spawn
  <2>1. pc' \in RunPCs /\ pc' # "done" /\ result' = result /\ result = NoResult
    BY <1>0, <1>12 DEF Spawn, Goto, RunPCs
  <2>2. leader'.state # "exited"
    BY <1>12 DEF Spawn
  <2>3. UNCHANGED <<job, tree, touched>> /\ evidence' = IF job = 0 THEN << >> ELSE evidence
    BY <1>12 DEF Spawn, world
  <2>4. InOrder'
    BY <1>0, <1>1, <1>12, <2>1, <2>3 DEF InOrder, Spawn, RunPCs
  <2>5. Vouched' /\ Results'
    BY <1>0, <1>1, <1>12, <2>1, <2>2, <2>3 DEF Vouched, Results, SealableEvidence, GatesVouch, Spawn
  <2> QED BY <2>4, <2>5 DEF EvidenceInv
\* a gate has its record
<1>13. ASSUME NEW status \in Statuses, Record(status), job \in 1 .. NGates, pc # "done",
              leader' = NoLeader, UNCHANGED <<tree, touched>>,
              status = "ok" /\ ~touched => tree \in Green[job]
       PROVE  EvidenceInv'
  <2>1. /\ Len(evidence') = job /\ job' = job + 1 /\ pc' \in {"gate", "judge"} /\ result' = result
        /\ \A k \in 1 .. job - 1 : evidence'[k] = evidence[k]
        /\ evidence'[job] = [gate |-> job, status |-> status]
    BY <1>1, <1>13, RecordAppends
  <2>2. Len(evidence) = job - 1
    BY <1>1, <1>13 DEF InOrder
  <2>3. InOrder'
    BY <1>1, <1>13, <2>1, <2>2 DEF InOrder, RunPCs
  <2>4. Vouched'
    BY <1>0, <1>1, <1>13, <2>1, <2>2 DEF Vouched
  <2>5. Results'
    BY <1>0, <1>13, <2>1 DEF Results, SealableEvidence, GatesVouch
  <2> QED BY <2>3, <2>4, <2>5 DEF EvidenceInv
<1>14. CASE StartGate
  <2>1. CASE bound /\ Goto("spawn") /\ UNCHANGED <<evidence, job>>
    BY <1>2, <1>0, <1>14, <2>1 DEF StartGate, Goto, world, proc, loop, RunPCs
  <2>2. CASE Record("gate_failed")
    BY <1>0, <1>13, <1>14, <2>2 DEF StartGate, proc, world, Statuses, LoopPCs
  <2> QED BY <1>14, <2>1, <2>2 DEF StartGate
<1>15. CASE GateBack
  <2>1. GateStatus \in Statuses /\ job \in 1 .. NGates /\ pc = "back"
    BY <1>0, <1>15 DEF GateBack, GateStatus, Statuses, RunPCs
  <2>2. leader.state = "exited"
    BY <1>0, <2>1 DEF Leaders, Alive, LoopPCs
  <2>3. GateStatus = "ok" /\ ~touched => tree \in Green[job]
    BY <1>1, <2>1, <2>2 DEF GateStatus, Vouched
  <2> QED BY <1>13, <1>15, <2>1, <2>3 DEF GateBack, world
<1>16. CASE SpawnFails
  <2>1. CASE job = 0
    <3>1. pc' = "done" /\ evidence' = evidence /\ result'.status # "ok"
      BY <1>16, <2>1 DEF SpawnFails, Finish, Failure
    <3> QED BY <1>9, <3>1
  <2>2. CASE job # 0
    BY <1>0, <1>13, <1>16, <2>2 DEF SpawnFails, proc, world, Statuses, LoopPCs
  <2> QED BY <2>1, <2>2
<1>17. CASE WorkerBack
  <2>1. CASE pc' = "done" /\ evidence' = evidence /\ result'.status # "ok"
    BY <1>9, <2>1
  <2>2. CASE /\ pc' = "gate" /\ job' = 1 /\ touched' = FALSE /\ result' = result
             /\ UNCHANGED <<evidence, tree>> /\ leader' = NoLeader /\ evidence = << >>
    <3>1. pc = "back" /\ result.status # "ok" /\ result' = result
      BY <1>0, <1>17, <2>2 DEF WorkerBack, LoopPCs, RunPCs
    <3>2. Len(evidence') = 0 /\ job' = 1 /\ pc' = "gate" /\ leader'.state = "none"
      BY <1>0, <2>2
    <3>3. InOrder'
      BY <3>2 DEF InOrder, RunPCs
    <3>4. Vouched'
      BY <3>2 DEF Vouched
    <3>5. Results'
      BY <3>1 DEF Results, SealableEvidence, GatesVouch
    <3> QED BY <3>3, <3>4, <3>5 DEF EvidenceInv
  <2>3. evidence = << >> /\ evidence' = evidence /\ tree' = tree /\ leader' = NoLeader
    BY <1>1, <1>17 DEF WorkerBack, InOrder, RunPCs
  <2>4. CASE ~bound \/ source # snapshot
    BY <1>17, <2>1, <2>3, <2>4 DEF WorkerBack, Finish, Failure
  <2>5. CASE ~(~bound \/ source # snapshot) /\ ~WorkerOK
    BY <1>17, <2>1, <2>3, <2>5 DEF WorkerBack, Finish, Failure
  <2>6. CASE ~(~bound \/ source # snapshot) /\ WorkerOK
    BY <1>17, <2>2, <2>3, <2>6 DEF WorkerBack, Goto, FirstGate
  <2> QED BY <2>4, <2>5, <2>6
<1>18. CASE Judge
  <2>1. CASE source # snapshot
    <3>1. pc' = "done" /\ evidence' = evidence /\ result'.status # "ok"
      BY <1>18, <2>1 DEF Judge, Finish, Failure
    <3> QED BY <1>9, <3>1
  <2>2. CASE source = snapshot /\ Red(evidence) = {}
    <3>1. \A k \in 1 .. Len(evidence) : evidence[k].status = "ok"
      BY <1>0, <2>2 DEF Red, ToSet
    <3>2. pc' = "capture" /\ UNCHANGED <<evidence, job, leader, tree, touched, result>> /\ pc = "judge"
      BY <1>18, <2>2 DEF Judge, Goto, proc, world
    <3> QED
      BY <1>0, <1>1, <3>1, <3>2
         DEF EvidenceInv, InOrder, Vouched, Results, SealableEvidence, GatesVouch, RunPCs
  <2>3. CASE source = snapshot /\ Red(evidence) # {} /\ RetryLeft
    <3>1. pc' = "spawn" /\ job' = 0 /\ UNCHANGED <<evidence, result>> /\ pc = "judge"
      BY <1>18, <2>3 DEF Judge, Goto
    <3> QED
      BY <1>0, <1>1, <3>1
         DEF EvidenceInv, InOrder, Vouched, Results, SealableEvidence, GatesVouch, RunPCs
  <2>4. CASE source = snapshot /\ Red(evidence) # {} /\ ~RetryLeft
    <3>1. pc' = "done" /\ evidence' = evidence /\ result'.status # "ok"
      BY <1>18, <2>4 DEF Judge, Finish, Failure
    <3> QED BY <1>9, <3>1
  <2> QED BY <2>1, <2>2, <2>3, <2>4
<1>19. CASE CaptureDelta
  <2>1. CASE bound /\ tree \in InScope
    <3>1. /\ pc' = "done" /\ UNCHANGED <<evidence, job, tree, touched>> /\ pc = "capture"
          /\ result' = [status |-> "ok", attempts |-> attempt, gates |-> evidence, delta |-> tree]
      BY <1>19, <2>1 DEF CaptureDelta, Finish, Sealable, world, loop
    <3>2. Len(evidence) = NGates /\ \A g \in Gates : evidence[g].gate = g /\ evidence[g].status = "ok"
      BY <1>0, <1>1, <3>1 DEF InOrder
    <3>3. \A g \in Gates : evidence[g] = [gate |-> g, status |-> "ok"]
      <4>1. \A g \in Gates : evidence[g] \in Records
        BY <1>0, <3>2
      <4> QED BY <3>2, <4>1 DEF Records
    <3>4. SealableEvidence'
      BY <3>1, <3>2, <3>3 DEF SealableEvidence
    <3>5. ~touched => \A g \in Gates : tree \in Green[g]
      BY <1>0, <1>1, <3>1, <3>2 DEF Vouched
    <3>6. GatesVouch'
      BY <2>1, <3>1, <3>5 DEF GatesVouch
    <3> QED BY <1>1, <3>1, <3>4, <3>6 DEF EvidenceInv, InOrder, Vouched, Results, RunPCs
  <2>2. CASE ~(bound /\ tree \in InScope)
    <3>1. pc' = "done" /\ evidence' = evidence /\ result'.status # "ok"
      BY <1>19, <2>2 DEF CaptureDelta, Finish, Failure, loop
    <3> QED BY <1>9, <3>1
  <2> QED BY <2>1, <2>2
<1> QED
  BY <1>3, <1>4, <1>6, <1>7, <1>8, <1>10, <1>11, <1>12, <1>14, <1>15, <1>16, <1>17, <1>18, <1>19
     DEF Next, Loop

LEMMA EvidenceInvariant == Spec => []EvidenceInv
<1>1. Init => EvidenceInv
  BY DEF Init, EvidenceInv, InOrder, Vouched, Results, SealableEvidence, GatesVouch, NoResult, RunPCs
<1> QED BY <1>1, TypeInvariant, EvidenceNext, PTL DEF Spec

\* A result to be sealed carries the evidence of every gate, once, in order and
\* green, whatever earlier attempts left and whatever else went wrong.
THEOREM EvidenceSealable == Spec => []SealableEvidence
<1>1. EvidenceInv => SealableEvidence
  BY DEF EvidenceInv, Results
<1> QED BY <1>1, EvidenceInvariant, PTL

\* The delta to be sealed is in scope and passes every gate, unless somebody but
\* a worker wrote to the worktree after the worker was done.
THEOREM GatesVouchForDelta == Spec => []GatesVouch
<1>1. EvidenceInv => GatesVouch
  BY DEF EvidenceInv, Results
<1> QED BY <1>1, EvidenceInvariant, PTL

-----------------------------------------------------------------------------
(* 4. What the workers were told.                                          *)

\* the evidence of attempt n in the evidence of all of them
Attempt(s, n) == SubSeq(s, (n - 1) * NGates + 1, n * NGates)

Starting == job = 0 /\ pc \in {"prepare", "check", "spawn"}

Counted ==
    /\ Len(told) <= attempt
    /\ pc # "done" => Len(told) = IF Starting THEN attempt - 1 ELSE attempt
    /\ Len(past) >= (attempt - 1) * NGates
    /\ pc \notin {"capture", "done"} => Len(past) = (attempt - 1) * NGates

ToldReds == \A i \in 2 .. Len(told) : told[i] # {} /\ told[i] = Red(Attempt(past, i - 1))

\* a worker that is about to run again has the evidence of the attempt before
Again ==
    Starting /\ attempt > 1 =>
        Red(evidence) # {} /\ evidence = Attempt(past, attempt - 1)

ToldInv == Counted /\ ToldReds /\ Again

LEMMA Blocks ==
    ASSUME NEW n \in Nat
    PROVE  /\ n * NGates \in Nat /\ (n + 1) * NGates = n * NGates + NGates
           /\ \A m \in 0 .. n : m * NGates <= n * NGates
<1>1. NGates \in Nat
  BY Constants
<1>2. ASSUME NEW m \in 0 .. n PROVE m * NGates <= n * NGates
  <2>1. PICK d \in Nat : n = m + d
    BY <1>2
  <2>2. n * NGates = m * NGates + d * NGates /\ d * NGates \in Nat /\ m * NGates \in Nat
    BY <1>1, <1>2, <2>1
  <2> QED BY <2>2
<1> QED BY <1>1, <1>2

\* What is appended to the evidence leaves that of earlier attempts as it is ...
LEMMA EarlierKept ==
    ASSUME NEW s \in Seq(Records), NEW t \in Seq(Records), NEW n \in Nat \ {0},
           n * NGates <= Len(s)
    PROVE  Attempt(s \o t, n) = Attempt(s, n)
<1> DEFINE first == (n - 1) * NGates + 1
           last == n * NGates
<1>1. first \in Nat /\ last \in Nat /\ first >= 1 /\ NGates \in Nat
  <2>1. n - 1 \in Nat
    OBVIOUS
  <2> QED BY <2>1, Blocks, Constants
<1>2. last <= Len(s) /\ Len(s \o t) = Len(s) + Len(t) /\ s \o t \in Seq(Records)
  BY ConcatProperties
<1>3. \A i \in 1 .. Len(s) : (s \o t)[i] = s[i]
  BY ConcatProperties
<1> HIDE DEF first, last
<1>4. SubSeq(s \o t, first, last) = SubSeq(s, first, last)
  BY <1>1, <1>2, <1>3
<1> QED BY <1>4 DEF Attempt, first, last

\* ... and is the evidence of the next attempt.
LEMMA LastAttempt ==
    ASSUME NEW s \in Seq(Records), NEW t \in Seq(Records), NEW n \in Nat \ {0},
           Len(s) = (n - 1) * NGates, Len(t) = NGates
    PROVE  Attempt(s \o t, n) = t
<1>1. n * NGates = Len(s) + Len(t) /\ NGates \in Nat
  <2>1. n - 1 \in Nat /\ n = (n - 1) + 1
    OBVIOUS
  <2> QED BY <2>1, Blocks, Constants
<1>2. Len(s \o t) = Len(s) + Len(t) /\ s \o t \in Seq(Records)
  BY ConcatProperties
<1>4. \A i \in 1 .. Len(t) : (s \o t)[Len(s) + i] = t[i]
  <2> SUFFICES ASSUME NEW i \in 1 .. Len(t) PROVE (s \o t)[Len(s) + i] = t[i]
    OBVIOUS
  <2> DEFINE k == Len(s) + i
  <2>1. k \in 1 .. Len(s) + Len(t) /\ ~(k <= Len(s)) /\ k - Len(s) = i
    OBVIOUS
  <2> HIDE DEF k
  <2>2. (s \o t)[k] = IF k <= Len(s) THEN s[k] ELSE t[k - Len(s)]
    BY <2>1, ConcatProperties
  <2>3. (s \o t)[k] = t[i]
    BY <2>1, <2>2
  <2> QED BY <2>3 DEF k
<1>3. SubSeq(s \o t, Len(s) + 1, Len(s) + Len(t)) = t
  BY <1>2, <1>4
<1> QED BY <1>1, <1>3 DEF Attempt

\* A worker is told what was red in the attempt before.
LEMMA ToldAppends ==
    ASSUME TypeInv, ToldInv, Starting, pc = "spawn", told' = Append(told, Red(evidence)), past' = past
    PROVE  Len(told') = attempt /\ ToldReds'
<1>1. /\ told \in Seq(SUBSET Records) /\ Red(evidence) \in SUBSET Records
      /\ Len(told) = attempt - 1 /\ attempt \in Nat \ {0}
  BY RedTyped, Constants DEF TypeInv, TypeOK, Shape, ToldInv, Counted
<1>2. /\ Len(told') = attempt
      /\ \A i \in 1 .. attempt - 1 : told'[i] = told[i]
      /\ told'[attempt] = Red(evidence)
  BY <1>1, AppendProperties
<1>3. attempt > 1 => told'[attempt] # {} /\ told'[attempt] = Red(Attempt(past, attempt - 1))
  BY <1>2 DEF ToldInv, Again
<1>4. ASSUME NEW i \in 2 .. Len(told') PROVE told'[i] # {} /\ told'[i] = Red(Attempt(past, i - 1))
  <2>1. CASE i = attempt
    BY <1>1, <1>3, <2>1
  <2>2. CASE i # attempt
    <3>1. i \in 2 .. Len(told) /\ i \in 1 .. attempt - 1
      BY <1>1, <1>2, <1>4, <2>2
    <3> QED BY <1>2, <3>1 DEF ToldInv, ToldReds
  <2> QED BY <2>1, <2>2
<1> QED BY <1>2, <1>4 DEF ToldReds, Attempt, Red

LEMMA ToldNext == TypeInv /\ EvidenceInv /\ ToldInv /\ [Next]_vars => ToldInv'
<1> SUFFICES ASSUME TypeInv, EvidenceInv, ToldInv, [Next]_vars PROVE ToldInv'
  OBVIOUS
<1> USE Constants
<1>0. /\ pc \in LoopPCs \cup RunPCs
      /\ attempt \in Nat \ {0} /\ job \in 0 .. NGates + 1
      /\ told \in Seq(SUBSET Records) /\ past \in Seq(Records) /\ evidence \in Seq(Records)
      /\ pc \in {"prepare", "check", "write"} => job = 0
      /\ pc = "gate" => job \in 1 .. NGates
      /\ pc \in {"judge", "capture"} => job = NGates + 1
  BY DEF TypeInv, TypeOK, Shape, LoopPCs, RunPCs
<1>1. Counted /\ ToldReds /\ Again
  BY DEF ToldInv
\* nothing counted changes, and a worker that was starting still is
<1>2. ASSUME UNCHANGED <<attempt, told, past>>,
             pc' # "done" => pc # "done" /\ Starting' = Starting,
             pc' \notin {"capture", "done"} => pc \notin {"capture", "done"},
             Starting' => UNCHANGED evidence
      PROVE  ToldInv'
  <2>1. Counted'
    BY <1>1, <1>2 DEF Counted
  <2>2. ToldReds'
    BY <1>1, <1>2 DEF ToldReds, Attempt
  <2>3. Again'
    <3>1. ASSUME Starting' PROVE Starting
      BY <1>2, <3>1 DEF Starting
    <3> QED BY <1>1, <1>2, <3>1 DEF Again, Attempt, Red
  <2> QED BY <2>1, <2>2, <2>3 DEF ToldInv
<1>3. CASE Prepare \/ CheckSource \/ WritePrompt \/ Deadline \/ Terminate \/ Kill \/ Reap
  BY <1>2, <1>0, <1>3 DEF Prepare, CheckSource, WritePrompt, Deadline, Terminate, Kill, Reap, Goto,
      Finish, loop, Starting, RunPCs, LoopPCs
<1>4. CASE Exit \/ Fork \/ Write \/ ReplaceWorktree \/ ForkedExits \/ UserEdits \/ UNCHANGED vars
  BY <1>2, <1>4 DEF Exit, Fork, Write, ReplaceWorktree, ForkedExits, UserEdits, vars, loop, Starting
<1>5. CASE WorkerBack
  BY <1>2, <1>0, <1>5 DEF WorkerBack, Goto, Finish, FirstGate, Starting
<1>6. CASE StartGate \/ GateBack
  BY <1>2, <1>0, <1>6 DEF StartGate, GateBack, Record, Goto, Starting, RunPCs
<1>7. CASE CaptureDelta
  BY <1>2, <1>0, <1>7 DEF CaptureDelta, Finish, loop, Starting
\* a worker is started, or cannot be
<1>8. ASSUME Starting, pc = "spawn", told' = Append(told, Red(evidence)), UNCHANGED <<past, attempt>>,
             pc' \in {"write", "done"}
      PROVE  ToldInv'
  <2>1. Len(told') = attempt /\ ToldReds' /\ ~Starting'
    BY <1>8, ToldAppends DEF Starting
  <2>2. Counted'
    BY <1>0, <1>1, <1>8, <2>1 DEF Counted
  <2> QED BY <2>1, <2>2 DEF ToldInv, Again
<1>9. CASE Spawn
  <2>1. CASE job = 0
    BY <1>8, <1>9, <2>1 DEF Spawn, Goto, Starting
  <2>2. CASE job # 0
    BY <1>2, <1>0, <1>9, <2>2 DEF Spawn, Goto, Starting
  <2> QED BY <2>1, <2>2
<1>10. CASE SpawnFails
  <2>1. CASE job = 0
    BY <1>8, <1>10, <2>1 DEF SpawnFails, Finish, Starting
  <2>2. CASE job # 0
    BY <1>2, <1>0, <1>10, <2>2 DEF SpawnFails, Record, Goto, Starting
  <2> QED BY <2>1, <2>2
\* the evidence of this attempt joins that of the earlier ones
<1>11. CASE Judge
  <2>1. /\ pc = "judge" /\ past' = past \o evidence /\ UNCHANGED <<told, evidence>>
        /\ Len(evidence) = NGates /\ Len(past) = (attempt - 1) * NGates /\ Len(told) = attempt
    BY <1>0, <1>1, <1>11 DEF Judge, EvidenceInv, InOrder, Counted, Starting
  <2>2. attempt * NGates = (attempt - 1) * NGates + NGates /\ attempt * NGates \in Nat
    <3>1. attempt - 1 \in Nat /\ attempt = (attempt - 1) + 1
      BY <1>0
    <3> QED BY <3>1, Blocks
  <2>3. Len(past') = attempt * NGates
    BY <1>0, <2>1, <2>2, ConcatProperties
  <2>4. Attempt(past', attempt) = evidence
    BY <1>0, <2>1, LastAttempt
  <2>5. ASSUME NEW i \in 2 .. Len(told) PROVE Attempt(past', i - 1) = Attempt(past, i - 1)
    <3>1. i - 1 \in Nat \ {0} /\ i - 1 \in 0 .. attempt - 1 /\ attempt - 1 \in Nat
      BY <1>0, <2>1
    <3>2. (i - 1) * NGates <= Len(past)
      BY <2>1, <3>1, Blocks
    <3> QED BY <1>0, <2>1, <3>1, <3>2, EarlierKept
  <2>6. ToldReds'
    <3>1. \A i \in 2 .. Len(told) : told[i] # {} /\ told[i] = Red(Attempt(past', i - 1))
      BY <1>1, <2>5 DEF ToldReds
    <3> QED BY <2>1, <3>1 DEF ToldReds, Attempt, Red
  <2>7. CASE pc' \in {"capture", "done"} /\ attempt' = attempt
    BY <1>0, <2>1, <2>2, <2>3, <2>6, <2>7 DEF ToldInv, Counted, Again, Starting
  <2>8. CASE pc' = "spawn" /\ job' = 0 /\ attempt' = attempt + 1 /\ Red(evidence) # {}
    <3>1. Counted'
      <4>1. attempt' - 1 = attempt
        BY <1>0, <2>8
      <4> QED BY <1>0, <2>1, <2>3, <2>8, <4>1 DEF Counted, Starting
    <3>2. Red(evidence') # {} /\ evidence' = Attempt(past', attempt' - 1)
      <4>1. attempt' - 1 = attempt
        BY <1>0, <2>8
      <4> QED BY <2>1, <2>4, <2>8, <4>1 DEF Red
    <3> QED BY <2>6, <3>1, <3>2 DEF ToldInv, Again, Attempt, Red
  <2> QED BY <1>11, <2>7, <2>8 DEF Judge, Finish, Goto
<1> QED
  BY <1>3, <1>4, <1>5, <1>6, <1>7, <1>9, <1>10, <1>11 DEF Next, Loop

\* A worker is run again only for gates that were not green in the attempt before,
\* it is told of all of these and of no other, and there are no more attempts than
\* the task allows: for any number of gates and attempts.
THEOREM ToldOfRedGates == Spec => []RetryTold
<1>1. Init => ToldInv
  <2> SUFFICES ASSUME Init PROVE ToldInv
    OBVIOUS
  <2>1. Len(told) = 0 /\ Len(past) = 0 /\ attempt - 1 = 0 /\ 0 * NGates = 0 /\ Starting
    BY Constants DEF Init, Starting
  <2> QED BY <2>1 DEF ToldInv, Counted, ToldReds, Again, Init
<1>2. TypeInv /\ ToldInv => RetryTold
  <2> SUFFICES ASSUME TypeInv, ToldInv PROVE RetryTold
    OBVIOUS
  <2>1. Len(told) <= MaxAttempts
    BY Constants DEF TypeInv, TypeOK, Shape, ToldInv, Counted
  <2>2. ASSUME NEW i \in 2 .. Len(told)
        PROVE  Attempt(past, i - 1) = SubSeq(past, (i - 2) * NGates + 1, (i - 1) * NGates)
    <3>1. (i - 1) - 1 = i - 2
      OBVIOUS
    <3> QED BY <3>1 DEF Attempt
  <2> QED BY <2>1, <2>2 DEF RetryTold, ToldInv, ToldReds, Red
<1> QED BY <1>1, <1>2, TypeInvariant, EvidenceInvariant, ToldNext, PTL DEF Spec
=============================================================================
