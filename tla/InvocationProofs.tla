-------------------------- MODULE InvocationProofs --------------------------
(***************************************************************************)
(* Theorems about Invocation, for any number of commands, starts, crashes, *)
(* errors and edits, and any plans, deltas and reviewers.  The argument:   *)
(*   1. types, and that a cleanup breaks the layout before it removes what  *)
(*      another command could make again (Removed);                        *)
(*   2. one command has made the invocation, and all plan verdicts in it   *)
(*      are about one packet (MakersInv);                                  *)
(*   3. what a command knows at each of its stages (Knows), what the files *)
(*      say (FilesInv) and that a receipt has one writer (Alone), together *)
(*      inductive: what a command knows is about verdicts and runs, which  *)
(*      are never taken back, or about the file that it alone is writing;  *)
(*   4. who is left to end the invocation (Attended).                      *)
(***************************************************************************)
EXTENDS Invocation, TLAPS

PlanStages == {"plan_capture", "plan_verdict", "plan_seal", "plan_write", "plan_sync"}
WorkStages == {"capture", "add", "git_add", "launch", "deliver"}

PCs == {"idle", "plan_probe", "plan_new", "read_plan", "seal", "packet", "final_probe",
        "final_verdict", "final_seal", "final_write", "final_sync", "approval", "check", "apply", "cleanup"}
       \cup PlanStages \cup WorkStages \cup Removals

\* a command has an invocation, and what a cleanup has removed stays removed: the layout is broken before anything is
\* taken that a command could make again
Outside == {"idle", "plan_probe", "plan_new"}
Removed ==
    \A c \in Cmds :
        /\ pc[c] \notin Outside => phase # "none"
        /\ pc[c] \in Removals => phase \in {"claimed", "removing", "gone"}
        /\ pc[c] \in {"rm_evidence", "rm_bundle", "rm_manifest"} => phase \in {"removing", "gone"}
        /\ pc[c] \in {"rm_bundle", "rm_manifest"} => plan = None /\ final = None
        /\ pc[c] = "rm_manifest" => bundle = None

TypeInv ==
    /\ TypeOK /\ Removed
    /\ pc \in [Cmds -> PCs] /\ DOMAIN mem = Cmds
    /\ Whole(bundle) => bundle.of.delta \in Deltas
    /\ \A c \in Cmds : pc[c] \in {"seal", "check", "apply"} => mem[c].work.delta \in Deltas

-----------------------------------------------------------------------------
(* 1. Types.                                                               *)

\* A step of c leaves the other commands where they are.
LEMMA Moves ==
    ASSUME TypeInv, NEW c \in Cmds, NEW next, NEW new, Goto(c, next, new)
    PROVE  /\ pc'[c] = next /\ mem'[c] = new
           /\ DOMAIN pc' = Cmds /\ DOMAIN mem' = Cmds
           /\ \A d \in Cmds \ {c} : pc'[d] = pc[d] /\ mem'[d] = mem[d]
  BY DEF TypeInv, Goto

\* c goes on, or ends
Goes(c) ==
    /\ pc' \in [Cmds -> PCs] /\ DOMAIN mem' = Cmds
    /\ pc'[c] = "idle" <=> mem'[c] = Idle
    /\ \A d \in Cmds \ {c} : pc'[d] = pc[d] /\ mem'[d] = mem[d]

LEMMA GoesOn ==
    ASSUME TypeInv, NEW c \in Cmds,
           NEW next \in PCs, NEW new, Goto(c, next, new), next = "idle" <=> new = Idle
    PROVE  Goes(c)
  BY Moves DEF Goes, Goto, TypeInv

LEMMA StepsOn ==
    ASSUME TypeInv, NEW c \in Cmds, pc[c] # "idle", NEW next \in PCs \ {"idle"}, Step(c, next)
    PROVE  Goes(c)
<1>1. mem[c] # Idle
  BY DEF TypeInv, TypeOK
<1> QED BY <1>1, GoesOn DEF Step

LEMMA Ends == ASSUME TypeInv, NEW c \in Cmds, End(c) PROVE Goes(c)
  BY GoesOn DEF End, PCs

LEMMA TypeInit == Init => TypeInv
<1> SUFFICES ASSUME Init PROVE TypeInv
  OBVIOUS
<1>1. pc \in [Cmds -> PCs] /\ DOMAIN mem = Cmds /\ \A c \in Cmds : pc[c] = "idle" /\ mem[c] = Idle
  BY DEF Init, PCs
<1>2. /\ phase = "none" /\ worktree = FALSE /\ plan = None /\ bundle = None /\ final = None
      /\ source \in Sources /\ reviewer \in Reviewers
  BY DEF Init
<1>3. /\ starts \in 0 .. MaxStarts /\ crashes \in 0 .. MaxCrashes
      /\ faults \in 0 .. MaxErrors /\ edits \in 0 .. MaxEdits
  BY BoundAssumption DEF Init
<1>4. rejected = FALSE /\ Removed
  BY <1>1 DEF Init, Removed, Removals, Outside
<1> QED BY <1>1, <1>2, <1>3, <1>4 DEF TypeInv, TypeOK, FileOK, None, Whole

Begins(c) ==
    \/ \E p \in Plans, main \in Mains : StartPlanReview(c, p, main) \/ StartReview(c, p, main)
    \/ \E p \in Plans, mode \in {"lite", "max"} : StartWorker(c, p, mode)
    \/ StartIntegrate(c) \/ StartCleanup(c)

Asks(c) ==
    \/ PlanProbe(c) \/ PlanNew(c) \/ PlanCapture(c) \/ PlanVerdict(c)
    \/ PlanCreate(c) \/ PlanWrite(c) \/ PlanSync(c)
    \/ BuildPacket(c) \/ FinalProbe(c) \/ FinalVerdict(c)
    \/ FinalCreate(c) \/ FinalWrite(c) \/ FinalSync(c)

Works(c) ==
    \/ ReadPlan(c) \/ Capture(c) \/ CheckPath(c) \/ AddWorktree(c) \/ Launch(c) \/ Deliver(c) \/ SealBundle(c)

Closes(c) ==
    \/ ReadApproval(c) \/ CheckSource(c) \/ Apply(c) \/ Claim(c)
    \/ WriteFails(c) \/ Fail(c) \/ Crash(c)

Removes(c) ==
    \/ RemoveWorktree(c) \/ RemoveRoute(c) \/ RemoveEvidence(c) \/ RemoveBundle(c) \/ RemoveManifest(c)
    \/ RejectCleanup(c)

CmdStep(c) == Begins(c) \/ Asks(c) \/ Works(c) \/ Closes(c) \/ Removes(c)

LEMMA Steps == ASSUME [Next]_vars PROVE Edit \/ UNCHANGED vars \/ \E c \in Cmds : CmdStep(c)
  BY DEF Next, CmdStep, Begins, Asks, Works, Closes, Removes

\* Whatever a command does, it does for itself.
LEMMA BeginsGoes == ASSUME TypeInv, NEW c \in Cmds, Begins(c) PROVE Goes(c)
<1>1. ASSUME NEW next \in PCs \ {"idle"}, NEW new, new.cmd # "none", Begin(c, next, new) PROVE Goes(c)
  BY <1>1, GoesOn DEF Begin, Idle
<1>2. ASSUME NEW p \in Plans, NEW main \in Mains, StartPlanReview(c, p, main) PROVE Goes(c)
  <2> DEFINE new == [cmd |-> "plan-review", task |-> p, main |-> main]
  <2>1. new.cmd = "plan-review" /\ Begin(c, "plan_probe", new)
    BY <1>2 DEF StartPlanReview
  <2> HIDE DEF new
  <2> QED BY <1>1, <2>1 DEF PCs
<1>3. ASSUME NEW p \in Plans, NEW main \in Mains, StartReview(c, p, main) PROVE Goes(c)
  <2> DEFINE new == [cmd |-> "review", task |-> p, main |-> main]
  <2>1. new.cmd = "review" /\ Begin(c, "packet", new)
    BY <1>3 DEF StartReview
  <2> HIDE DEF new
  <2> QED BY <1>1, <2>1 DEF PCs
<1>4. ASSUME NEW p \in Plans, NEW mode \in {"lite", "max"}, StartWorker(c, p, mode) PROVE Goes(c)
  <2> DEFINE new == [cmd |-> "worker", mode |-> mode, task |-> p]
  <2>1. new.cmd = "worker" /\ (Begin(c, "capture", new) \/ Begin(c, "read_plan", new))
    BY <1>4 DEF StartWorker
  <2> HIDE DEF new
  <2> QED BY <1>1, <2>1 DEF PCs, WorkStages
<1>5. CASE StartIntegrate(c) \/ StartCleanup(c)
  BY <1>1, <1>5 DEF StartIntegrate, StartCleanup, PCs
<1> QED BY <1>2, <1>3, <1>4, <1>5 DEF Begins

LEMMA ReviewsGoes == ASSUME TypeInv, NEW c \in Cmds, Asks(c) PROVE Goes(c)
<1>1. CASE PlanProbe(c)
  <2> DEFINE new(by) == [cmd |-> "plan-review", task |-> mem[c].task, main |-> mem[c].main, by |-> by]
  <2>1. \A by : new(by).cmd = "plan-review"
    OBVIOUS
  <2>2. End(c) \/ \E by : Goto(c, "plan_new", new(by))
    BY <1>1 DEF PlanProbe
  <2> HIDE DEF new
  <2> QED BY <2>1, <2>2, GoesOn, Ends DEF PCs, Idle
<1>2. CASE PlanCapture(c)
  <2> DEFINE new == [cmd |-> "plan-review", packet |-> PlanBinding(mem[c], source)]
  <2>1. new.cmd = "plan-review" /\ Goto(c, "plan_verdict", new)
    BY <1>2 DEF PlanCapture
  <2> HIDE DEF new
  <2> QED BY <2>1, GoesOn DEF PCs, PlanStages, Idle
<1>3. CASE BuildPacket(c)
  <2> DEFINE new(by) == [cmd |-> "review", packet |-> FinalBinding(mem[c], by)]
  <2>1. \A by : new(by).cmd = "review"
    OBVIOUS
  <2>2. End(c) \/ \E by : Goto(c, "final_seal", new(by)) \/ Goto(c, "final_probe", new(by))
    BY <1>3 DEF BuildPacket
  <2> HIDE DEF new
  <2> QED BY <2>1, <2>2, GoesOn, Ends DEF PCs, Idle
<1>4. CASE PlanNew(c) \/ PlanVerdict(c) \/ PlanCreate(c) \/ PlanWrite(c) \/ PlanSync(c)
  BY <1>4, StepsOn, Ends DEF PlanNew, New, PlanVerdict, PlanCreate, PlanWrite, PlanSync, PCs, PlanStages
<1>5. CASE FinalProbe(c) \/ FinalVerdict(c) \/ FinalCreate(c) \/ FinalWrite(c) \/ FinalSync(c)
  BY <1>5, StepsOn, Ends DEF FinalProbe, FinalVerdict, FinalCreate, FinalWrite, FinalSync, PCs
<1> QED BY <1>1, <1>2, <1>3, <1>4, <1>5 DEF Asks

LEMMA WorksGoes == ASSUME TypeInv, NEW c \in Cmds, Works(c) PROVE Goes(c)
<1>1. CASE ReadPlan(c)
  <2> DEFINE new == [cmd |-> "worker", mode |-> "max", task |-> mem[c].task, approved |-> plan.of.snapshot]
  <2>1. new.cmd = "worker" /\ (Goto(c, "capture", new) \/ (pc[c] # "idle" /\ Step(c, "cleanup")))
    BY <1>1 DEF ReadPlan
  <2> HIDE DEF new
  <2> QED BY <2>1, GoesOn, StepsOn DEF PCs, WorkStages, Idle
<1>2. CASE Capture(c)
  <2> DEFINE new == [cmd |-> "worker", mode |-> mem[c].mode, task |-> mem[c].task, snapshot |-> source]
  <2>1. new.cmd = "worker" /\ (Goto(c, "add", new) \/ (pc[c] # "idle" /\ Step(c, "cleanup")))
    BY <1>2 DEF Capture
  <2> HIDE DEF new
  <2> QED BY <2>1, GoesOn, StepsOn DEF PCs, WorkStages, Idle
<1>3. CASE Deliver(c)
  <2> DEFINE new(d) == [cmd |-> "worker", work |-> Work(mem[c], d)]
  <2>1. \A d : new(d).cmd = "worker"
    OBVIOUS
  <2>2. (pc[c] # "idle" /\ Step(c, "cleanup")) \/ \E d : Goto(c, "seal", new(d))
    BY <1>3 DEF Deliver
  <2> HIDE DEF new
  <2> QED BY <2>1, <2>2, GoesOn, StepsOn DEF PCs, Idle
<1>4. CASE CheckPath(c) \/ AddWorktree(c) \/ Launch(c) \/ SealBundle(c)
  BY <1>4, StepsOn, Ends DEF CheckPath, AddWorktree, Launch, SealBundle, PCs, WorkStages
<1> QED BY <1>1, <1>2, <1>3, <1>4 DEF Works

LEMMA ClosesGoes == ASSUME TypeInv, NEW c \in Cmds, Closes(c) PROVE Goes(c)
<1>1. CASE ReadApproval(c)
  <2> DEFINE new == [cmd |-> "integrate", work |-> bundle.of]
  <2>1. new.cmd = "integrate" /\ (Goto(c, "check", new) \/ End(c))
    BY <1>1 DEF ReadApproval
  <2> HIDE DEF new
  <2> QED BY <2>1, GoesOn, Ends DEF PCs, Idle
<1>2. CASE CheckSource(c) \/ Apply(c)
  BY <1>2, StepsOn, Ends DEF CheckSource, Apply, PCs
<1>3. CASE WriteFails(c) \/ Fail(c) \/ Crash(c)
  BY <1>3, StepsOn, Ends DEF WriteFails, Fail, Crash, Stages, PCs
<1>4. CASE Claim(c)
  <2> DEFINE new == [cmd |-> "cleanup"]
  <2>1. new.cmd = "cleanup" /\ (End(c) \/ Goto(c, "rm_worktree", new))
    BY <1>4 DEF Claim
  <2> HIDE DEF new
  <2> QED BY <2>1, GoesOn, Ends DEF PCs, Removals, Idle
<1> QED BY <1>1, <1>2, <1>3, <1>4 DEF Closes

LEMMA RemovesGoes == ASSUME TypeInv, NEW c \in Cmds, Removes(c) PROVE Goes(c)
  BY StepsOn, Ends DEF Removes, RemoveWorktree, RemoveRoute, RemoveEvidence, RemoveBundle, RemoveManifest,
      RejectCleanup, Removals, PCs

LEMMA CmdGoes == ASSUME TypeInv, NEW c \in Cmds, CmdStep(c) PROVE Goes(c)
  BY BeginsGoes, ReviewsGoes, WorksGoes, ClosesGoes, RemovesGoes DEF CmdStep

\* Who writes a file, and what.
LEMMA Writers ==
    ASSUME NEW c \in Cmds, CmdStep(c)
    PROVE  /\ \/ plan' = plan
              \/ PlanCreate(c) /\ plan' = Torn /\ Creates(plan)
              \/ PlanWrite(c) /\ plan' = PlanReceipt(mem[c].packet) /\ plan = Torn
              \/ WriteFails(c) /\ plan' = None /\ pc[c] \in {"plan_write", "plan_sync"}
              \/ RemoveEvidence(c) /\ plan' = None
           /\ \/ bundle' = bundle
              \/ /\ SealBundle(c) /\ bundle' = [state |-> "whole", of |-> mem[c].work]
                 /\ Readable /\ bundle = None
              \/ RemoveBundle(c) /\ bundle' = None
           /\ \/ final' = final
              \/ FinalCreate(c) /\ final' = Torn /\ Creates(final)
              \/ FinalWrite(c) /\ final' = FinalReceipt(mem[c].packet) /\ final = Torn
              \/ WriteFails(c) /\ final' = None /\ pc[c] \in {"final_write", "final_sync"}
              \/ RemoveEvidence(c) /\ final' = None
<1> DEFINE sealed == [state |-> "whole", of |-> mem[c].work]
<1>1. CASE UNCHANGED <<plan, bundle, final>>
  BY <1>1
<1>2. CASE Begins(c)
  BY <1>1, <1>2 DEF Begins, StartPlanReview, StartReview, StartWorker, StartIntegrate, StartCleanup, files
<1>3. CASE PlanCreate(c) \/ PlanWrite(c)
  BY <1>3 DEF PlanCreate, PlanWrite
<1>4. CASE FinalCreate(c) \/ FinalWrite(c)
  BY <1>4 DEF FinalCreate, FinalWrite
<1>5. CASE SealBundle(c)
  <2>1. bundle' = bundle \/ (bundle' = sealed /\ Readable /\ bundle = None)
    BY <1>5 DEF SealBundle
  <2>2. UNCHANGED <<plan, final>>
    BY <1>5 DEF SealBundle
  <2> HIDE DEF sealed
  <2>3. QED BY <1>5, <2>1, <2>2 DEF sealed
<1>6. CASE WriteFails(c)
  BY <1>6 DEF WriteFails
<1>7. CASE PlanProbe(c) \/ PlanNew(c) \/ PlanCapture(c) \/ PlanVerdict(c) \/ PlanSync(c) \/ BuildPacket(c)
           \/ FinalProbe(c) \/ FinalVerdict(c) \/ FinalSync(c)
  BY <1>1, <1>7 DEF PlanProbe, PlanNew, PlanCapture, PlanVerdict, PlanSync, BuildPacket, FinalProbe,
      FinalVerdict, FinalSync, files
<1>8. CASE ReadPlan(c) \/ Capture(c) \/ CheckPath(c) \/ AddWorktree(c) \/ Launch(c) \/ Deliver(c)
  BY <1>1, <1>8 DEF ReadPlan, Capture, CheckPath, AddWorktree, Launch, Deliver, files
<1>9. CASE ReadApproval(c) \/ CheckSource(c) \/ Apply(c) \/ Claim(c) \/ Fail(c) \/ Crash(c)
  BY <1>1, <1>9 DEF ReadApproval, CheckSource, Apply, Claim, Fail, Crash, files
<1>10. CASE Removes(c)
  BY <1>10 DEF Removes, RemoveWorktree, RemoveRoute, RemoveEvidence, RemoveBundle, RemoveManifest,
      RejectCleanup, files
<1> QED
  BY <1>2, <1>3, <1>4, <1>5, <1>6, <1>7, <1>8, <1>9, <1>10 DEF CmdStep, Asks, Works, Closes

\* How the invocation's directory comes and goes.
LEMMA Phases ==
    ASSUME NEW c \in Cmds, CmdStep(c)
    PROVE  \/ phase' = phase
           \/ phase = "none" /\ phase' = "active"
           \/ Claim(c) /\ phase = "active" /\ phase' = "claimed"
           \/ RemoveRoute(c) /\ phase # "gone" /\ phase' = "removing"
           \/ RemoveManifest(c) /\ phase' = "gone"
<1>1. CASE Begins(c)
  BY <1>1 DEF Begins, StartPlanReview, StartReview, StartWorker, StartIntegrate, StartCleanup, files
<1>2. CASE Asks(c)
  BY <1>2 DEF Asks, PlanProbe, PlanNew, New, PlanCapture, PlanVerdict, PlanCreate, PlanWrite, PlanSync,
      BuildPacket, FinalProbe, FinalVerdict, FinalCreate, FinalWrite, FinalSync, files
<1>3. CASE Works(c)
  BY <1>3 DEF Works, ReadPlan, Capture, CheckPath, AddWorktree, Launch, Deliver, SealBundle, files
<1>4. CASE Closes(c)
  BY <1>4 DEF Closes, ReadApproval, CheckSource, Apply, Claim, WriteFails, Fail, Crash, files
<1>5. CASE Removes(c)
  BY <1>5 DEF Removes, RemoveWorktree, RemoveRoute, RemoveEvidence, RemoveBundle, RemoveManifest,
      RejectCleanup, files
<1> QED BY <1>1, <1>2, <1>3, <1>4, <1>5 DEF CmdStep

\* The files, by who writes them; the source and the reviewer.
LEMMA FilesTyped ==
    ASSUME TypeInv, NEW c \in Cmds, CmdStep(c)
    PROVE  /\ phase' \in {"none", "active", "claimed", "removing", "gone"}
           /\ FileOK(plan)' /\ FileOK(bundle)' /\ FileOK(final)'
           /\ phase' \in {"none", "gone"} => plan' = None /\ bundle' = None /\ final' = None
<1>0. TypeOK /\ Removed
  BY DEF TypeInv
<1>1. phase' \in {"none", "active", "claimed", "removing", "gone"}
  BY <1>0, Phases DEF TypeOK
<1>2. FileOK(plan)' /\ FileOK(bundle)' /\ FileOK(final)'
  <2> DEFINE sealed == [state |-> "whole", of |-> mem[c].work]
  <2>1. /\ PlanReceipt(mem[c].packet).state = "whole" /\ FinalReceipt(mem[c].packet).state = "whole"
        /\ sealed.state = "whole"
    BY DEF PlanReceipt, FinalReceipt
  <2>2. bundle' = bundle \/ bundle' = sealed \/ bundle' = None
    BY Writers
  <2> HIDE DEF sealed
  <2>3. FileOK(plan) /\ FileOK(bundle) /\ FileOK(final)
    BY <1>0 DEF TypeOK
  <2> QED BY <2>1, <2>2, <2>3, Writers DEF FileOK, Whole
<1>3. ASSUME phase' \in {"none", "gone"} PROVE plan' = None /\ bundle' = None /\ final' = None
  <2>1. plan = None /\ bundle = None /\ final = None
    <3>1. CASE phase' = phase
      BY <1>0, <1>3, <3>1 DEF TypeOK
    <3>2. CASE RemoveManifest(c)
      BY <1>0, <3>2 DEF RemoveManifest, Removed
    <3> QED BY <1>3, <3>1, <3>2, Phases
  <2>2. ~Readable \/ RemoveManifest(c)
    BY <1>3, Phases DEF Readable
  <2>3. RemoveManifest(c) => UNCHANGED <<plan, bundle, final>>
    BY DEF RemoveManifest
  <2> QED BY <2>1, <2>2, <2>3, Writers DEF Creates, Torn, None
<1> QED BY <1>1, <1>2, <1>3

LEMMA FlagsTyped ==
    ASSUME TypeInv, NEW c \in Cmds, CmdStep(c)
    PROVE  worktree' \in BOOLEAN /\ rejected' \in BOOLEAN
<1>0. worktree \in BOOLEAN /\ rejected \in BOOLEAN
  BY DEF TypeInv, TypeOK
<1>1. CASE Begins(c)
  <2>1. UNCHANGED <<worktree, rejected>>
    BY <1>1 DEF Begins, StartPlanReview, StartReview, StartWorker, StartIntegrate, StartCleanup, files, history
  <2> QED BY <1>0, <2>1
<1>2. CASE Asks(c)
  BY <1>0, <1>2 DEF Asks, PlanProbe, PlanNew, PlanCapture, PlanVerdict, PlanCreate, PlanWrite, PlanSync,
      BuildPacket, FinalProbe, FinalVerdict, FinalCreate, FinalWrite, FinalSync, files, history
<1>3. CASE Works(c)
  BY <1>0, <1>3 DEF Works, ReadPlan, Capture, CheckPath, AddWorktree, Launch, Deliver, SealBundle, files, history
<1>4. CASE Closes(c)
  BY <1>0, <1>4 DEF Closes, ReadApproval, CheckSource, Apply, Claim, WriteFails, Fail, Crash, files, history
<1>5. CASE Removes(c)
  BY <1>0, <1>5 DEF Removes, RemoveWorktree, RemoveRoute, RemoveEvidence, RemoveBundle, RemoveManifest,
      RejectCleanup, files, history
<1> QED BY <1>1, <1>2, <1>3, <1>4, <1>5 DEF CmdStep

LEMMA UserTyped ==
    ASSUME TypeInv, NEW c \in Cmds, CmdStep(c)
    PROVE  /\ source' \in Sources /\ reviewer' \in Reviewers
           /\ starts' \in 0 .. MaxStarts /\ crashes' \in 0 .. MaxCrashes
           /\ faults' \in 0 .. MaxErrors /\ edits' \in 0 .. MaxEdits
<1>0. TypeOK
  BY DEF TypeInv
<1> USE BoundAssumption
<1>1. CASE UNCHANGED <<user, counts>>
  BY <1>0, <1>1 DEF TypeOK, user, counts
<1>2. CASE Begins(c)
  <2>1. UNCHANGED <<user, crashes, faults, edits>> /\ starts < MaxStarts /\ starts' = starts + 1
    BY <1>2 DEF Begins, Begin, StartPlanReview, StartReview, StartWorker, StartIntegrate, StartCleanup
  <2> QED BY <1>0, <2>1 DEF TypeOK, user
<1>3. CASE Asks(c)
  BY <1>1, <1>3 DEF Asks, PlanProbe, PlanNew, PlanCapture, PlanVerdict, PlanCreate, PlanWrite, PlanSync,
      BuildPacket, FinalProbe, FinalVerdict, FinalCreate, FinalWrite, FinalSync
<1>4. CASE Works(c)
  BY <1>1, <1>4 DEF Works, ReadPlan, Capture, CheckPath, AddWorktree, Launch, Deliver, SealBundle
<1>5. CASE Apply(c)
  <2>1. source' = source \/ source' = Result[<<source, mem[c].work.delta>>]
    <3>1. CASE source = mem[c].work.snapshot
      BY <1>5, <3>1 DEF Apply
    <3>2. CASE source # mem[c].work.snapshot
      BY <1>5, <3>2 DEF Apply
    <3> QED BY <3>1, <3>2
  <2>2. mem[c].work.delta \in Deltas
    BY <1>5 DEF Apply, TypeInv
  <2>3. source' \in Sources
    BY <1>0, <2>1, <2>2, ResultAssumption DEF TypeOK
  <2> QED BY <1>0, <1>5, <2>3 DEF Apply, TypeOK, counts
<1>6. CASE ReadApproval(c) \/ CheckSource(c) \/ Claim(c) \/ Removes(c)
  BY <1>1, <1>6 DEF ReadApproval, CheckSource, Claim, Removes, RemoveWorktree, RemoveRoute, RemoveEvidence,
      RemoveBundle, RemoveManifest, RejectCleanup
<1>7. CASE WriteFails(c) \/ Fail(c) \/ Crash(c)
  BY <1>0, <1>7 DEF WriteFails, Fail, Crash, TypeOK, user
<1> QED BY <1>2, <1>3, <1>4, <1>5, <1>6, <1>7 DEF CmdStep, Closes

\* How a command gets to where it is.
LEMMA Arrivals ==
    ASSUME TypeInv, NEW c \in Cmds, CmdStep(c)
    PROVE  /\ pc'[c] = "plan_probe" => \E p \in Plans, main \in Mains : StartPlanReview(c, p, main)
           /\ pc'[c] = "plan_new" => PlanProbe(c)
           /\ pc'[c] = "plan_capture" => PlanNew(c)
           /\ pc'[c] = "plan_verdict" => PlanCapture(c)
           /\ pc'[c] = "plan_seal" => PlanVerdict(c)
           /\ pc'[c] = "plan_write" => PlanCreate(c)
           /\ pc'[c] = "plan_sync" => PlanWrite(c)
           /\ pc'[c] = "read_plan" => \E p \in Plans : StartWorker(c, p, "max")
           /\ pc'[c] = "capture" => ReadPlan(c) \/ \E p \in Plans : StartWorker(c, p, "lite")
           /\ pc'[c] = "add" => Capture(c)
           /\ pc'[c] = "git_add" => CheckPath(c)
           /\ pc'[c] = "launch" => AddWorktree(c)
           /\ pc'[c] = "deliver" => Launch(c)
           /\ pc'[c] = "seal" => Deliver(c)
           /\ pc'[c] = "final_verdict" => FinalProbe(c)
           /\ pc'[c] = "final_seal" => BuildPacket(c) \/ FinalVerdict(c)
           /\ pc'[c] = "final_write" => FinalCreate(c)
           /\ pc'[c] = "final_sync" => FinalWrite(c)
           /\ pc'[c] = "check" => ReadApproval(c)
           /\ pc'[c] = "apply" => CheckSource(c)
           /\ pc'[c] = "rm_worktree" => Claim(c)
           /\ pc'[c] = "rm_route" => RemoveWorktree(c)
           /\ pc'[c] = "rm_evidence" => RemoveRoute(c)
           /\ pc'[c] = "rm_bundle" => RemoveEvidence(c)
           /\ pc'[c] = "rm_manifest" => RemoveBundle(c)
<1> USE DEF Begin, Goto, Step, End, TypeInv
<1>1. CASE Begins(c)
  <2>1. CASE \E p \in Plans, main \in Mains : StartPlanReview(c, p, main)
    BY <2>1 DEF StartPlanReview
  <2>2. CASE \E p \in Plans, main \in Mains : StartReview(c, p, main)
    BY <2>2 DEF StartReview
  <2>3. CASE \E p \in Plans : StartWorker(c, p, "lite")
    BY <2>3 DEF StartWorker
  <2>4. CASE \E p \in Plans : StartWorker(c, p, "max")
    BY <2>4 DEF StartWorker
  <2>5. CASE StartIntegrate(c) \/ StartCleanup(c)
    BY <2>5 DEF StartIntegrate, StartCleanup
  <2> QED BY <1>1, <2>1, <2>2, <2>3, <2>4, <2>5 DEF Begins
<1>2. CASE Asks(c)
  <2>1. CASE PlanProbe(c) \/ PlanNew(c) \/ PlanCapture(c)
    BY <2>1 DEF PlanProbe, PlanNew, New, PlanCapture
  <2>2. CASE PlanVerdict(c) \/ PlanCreate(c) \/ PlanWrite(c) \/ PlanSync(c)
    BY <2>2 DEF PlanVerdict, PlanCreate, PlanWrite, PlanSync
  <2>3. CASE BuildPacket(c) \/ FinalProbe(c)
    BY <2>3 DEF BuildPacket, FinalProbe
  <2>4. CASE FinalVerdict(c) \/ FinalCreate(c) \/ FinalWrite(c) \/ FinalSync(c)
    BY <2>4 DEF FinalVerdict, FinalCreate, FinalWrite, FinalSync
  <2> QED BY <1>2, <2>1, <2>2, <2>3, <2>4 DEF Asks
<1>3. CASE Works(c)
  <2>1. CASE ReadPlan(c) \/ Capture(c)
    BY <2>1 DEF ReadPlan, Capture
  <2>2. CASE CheckPath(c) \/ AddWorktree(c)
    BY <2>2 DEF CheckPath, AddWorktree
  <2>3. CASE Launch(c) \/ Deliver(c) \/ SealBundle(c)
    BY <2>3 DEF Launch, Deliver, SealBundle
  <2> QED BY <1>3, <2>1, <2>2, <2>3 DEF Works
<1>4. CASE Closes(c)
  <2>1. CASE ReadApproval(c) \/ CheckSource(c) \/ Apply(c)
    BY <2>1 DEF ReadApproval, CheckSource, Apply
  <2>2. CASE Claim(c)
    BY <2>2 DEF Claim
  <2>3. CASE WriteFails(c) \/ Fail(c) \/ Crash(c)
    BY <2>3 DEF WriteFails, Fail, Crash
  <2> QED BY <1>4, <2>1, <2>2, <2>3 DEF Closes
<1>5. CASE Removes(c)
  <2>1. CASE RemoveWorktree(c) \/ RemoveRoute(c)
    BY <2>1 DEF RemoveWorktree, RemoveRoute
  <2>2. CASE RemoveEvidence(c) \/ RemoveBundle(c)
    BY <2>2 DEF RemoveEvidence, RemoveBundle
  <2>3. CASE RemoveManifest(c) \/ RejectCleanup(c)
    BY <2>3 DEF RemoveManifest, RejectCleanup
  <2> QED BY <1>5, <2>1, <2>2, <2>3 DEF Removes
<1> QED BY <1>1, <1>2, <1>3, <1>4, <1>5 DEF CmdStep

\* Work is always some delta.
LEMMA DeltasTyped ==
    ASSUME TypeInv, NEW c \in Cmds, CmdStep(c)
    PROVE  /\ Whole(bundle)' => bundle'.of.delta \in Deltas
           /\ \A d \in Cmds : pc'[d] \in {"seal", "check", "apply"} => mem'[d].work.delta \in Deltas
<1>1. Whole(bundle)' => bundle'.of.delta \in Deltas
  <2> DEFINE sealed == [state |-> "whole", of |-> mem[c].work]
  <2>1. sealed.of = mem[c].work
    OBVIOUS
  <2>2. bundle' = bundle \/ (SealBundle(c) /\ bundle' = sealed) \/ bundle' = None
    BY Writers
  <2> HIDE DEF sealed
  <2> QED BY <2>1, <2>2 DEF TypeInv, SealBundle, Whole, None
<1>2. ASSUME pc'[c] = "seal" PROVE mem'[c].work.delta \in Deltas
  <2>1. Deliver(c) /\ ~Step(c, "cleanup")
    BY <1>2, Arrivals DEF Step, Goto, TypeInv
  <2>2. PICK d \in Deltas : Goto(c, "seal", [cmd |-> "worker", work |-> Work(mem[c], d)])
    BY <2>1 DEF Deliver
  <2> DEFINE new == [cmd |-> "worker", work |-> Work(mem[c], d)]
  <2>3. new.work.delta = d /\ Goto(c, "seal", new)
    BY <2>2 DEF Work
  <2> HIDE DEF new
  <2> QED BY <2>3, Moves
<1>3. ASSUME pc'[c] = "check" PROVE mem'[c].work.delta \in Deltas
  <2> DEFINE new == [cmd |-> "integrate", work |-> bundle.of]
  <2>1. ReadApproval(c) /\ ~End(c)
    BY <1>3, Arrivals DEF End, Goto, TypeInv
  <2>2. Approved /\ Goto(c, "check", new) /\ new.work = bundle.of
    BY <2>1 DEF ReadApproval
  <2> HIDE DEF new
  <2> QED BY <2>2, Moves DEF Approved, TypeInv
<1>4. ASSUME pc'[c] = "apply" PROVE mem'[c].work.delta \in Deltas
  BY <1>4, Arrivals DEF CheckSource, Step, Goto, TypeInv
<1>5. Goes(c)
  BY CmdGoes
<1> QED BY <1>1, <1>2, <1>3, <1>4, <1>5 DEF Goes, TypeInv

\* A command makes its invocation, or finds one.
LEMMA Enters ==
    ASSUME TypeInv, NEW c \in Cmds, CmdStep(c), pc'[c] \notin Outside, pc[c] \in Outside
    PROVE  phase' # "none"
<1> USE DEF Begin, Goto, Step, End, TypeInv, Outside
<1>1. CASE Begins(c)
  BY <1>1 DEF Begins, StartPlanReview, StartReview, StartWorker, StartIntegrate, StartCleanup, Readable, files
<1>2. CASE Asks(c)
  BY <1>2 DEF Asks, PlanProbe, PlanNew, New, PlanCapture, PlanVerdict, PlanCreate, PlanWrite, PlanSync,
      BuildPacket, FinalProbe, FinalVerdict, FinalCreate, FinalWrite, FinalSync
<1>3. CASE Works(c)
  BY <1>3 DEF Works, ReadPlan, Capture, CheckPath, AddWorktree, Launch, Deliver, SealBundle
<1>4. CASE Closes(c)
  BY <1>4 DEF Closes, ReadApproval, CheckSource, Apply, Claim, WriteFails, Fail, Stages, Crash
<1>5. CASE Removes(c)
  BY <1>5 DEF Removes, RemoveWorktree, RemoveRoute, RemoveEvidence, RemoveBundle, RemoveManifest,
      RejectCleanup, Removals
<1> QED BY <1>1, <1>2, <1>3, <1>4, <1>5 DEF CmdStep

\* A cleanup removes for good.
LEMMA RemovedStays ==
    ASSUME TypeInv, NEW c \in Cmds, CmdStep(c) PROVE Removed'
<1>0. TypeOK /\ Removed /\ Goes(c)
  BY CmdGoes DEF TypeInv
<1>1. /\ phase \in {"claimed", "removing", "gone"} => phase' \in {"claimed", "removing", "gone"}
      /\ phase \in {"removing", "gone"} => phase' \in {"removing", "gone"}
      /\ phase # "none" => phase' # "none"
  BY Phases
<1>2. ASSUME phase \in {"removing", "gone"}
      PROVE  /\ plan = None => plan' = None
             /\ final = None => final' = None
             /\ bundle = None => bundle' = None
  BY <1>2, Writers DEF Creates, Readable, Torn, None
<1>3. ASSUME NEW d \in Cmds \ {c}
      PROVE  /\ pc'[d] \notin Outside => phase' # "none"
             /\ pc'[d] \in Removals => phase' \in {"claimed", "removing", "gone"}
             /\ pc'[d] \in {"rm_evidence", "rm_bundle", "rm_manifest"} => phase' \in {"removing", "gone"}
             /\ pc'[d] \in {"rm_bundle", "rm_manifest"} => plan' = None /\ final' = None
             /\ pc'[d] = "rm_manifest" => bundle' = None
  <2>1. pc'[d] = pc[d]
    BY <1>0 DEF Goes
  <2>2. /\ pc[d] \in Removals => phase \in {"claimed", "removing", "gone"}
        /\ pc[d] \in {"rm_evidence", "rm_bundle", "rm_manifest"} => phase \in {"removing", "gone"}
        /\ pc[d] \in {"rm_bundle", "rm_manifest"} => plan = None /\ final = None
        /\ pc[d] = "rm_manifest" => bundle = None
        /\ pc[d] \notin Outside => phase # "none"
    BY <1>0 DEF Removed
  <2>3. pc[d] \in {"rm_bundle", "rm_manifest"} => plan' = None /\ final' = None
    BY <1>2, <2>2
  <2>4. pc[d] = "rm_manifest" => bundle' = None
    BY <1>2, <2>2
  <2>5. /\ pc[d] \notin Outside => phase' # "none"
        /\ pc[d] \in Removals => phase' \in {"claimed", "removing", "gone"}
        /\ pc[d] \in {"rm_evidence", "rm_bundle", "rm_manifest"} => phase' \in {"removing", "gone"}
    BY <1>1, <2>2
  <2> QED BY <2>1, <2>3, <2>4, <2>5
<1>4. ASSUME pc'[c] \in Removals PROVE phase' \in {"claimed", "removing", "gone"}
  <2>1. CASE pc'[c] = "rm_worktree"
    <3>1. Claim(c) /\ ~End(c)
      BY <2>1, Arrivals DEF End, Goto, TypeInv
    <3>2. phase # "none"
      BY <1>0, <3>1 DEF Claim, Removed, Outside
    <3> QED BY <1>0, <3>1, <3>2 DEF Claim, TypeOK
  <2>2. CASE pc'[c] # "rm_worktree"
    <3>1. pc[c] \in Removals
      BY <1>4, <2>2, Arrivals
         DEF Removals, RemoveWorktree, RemoveRoute, RemoveEvidence, RemoveBundle
    <3> QED BY <1>0, <1>1, <3>1 DEF Removed
  <2> QED BY <2>1, <2>2
<1>5. ASSUME pc'[c] \in {"rm_evidence", "rm_bundle", "rm_manifest"} PROVE phase' \in {"removing", "gone"}
  <2>1. CASE RemoveRoute(c)
    BY <2>1 DEF RemoveRoute
  <2>2. CASE RemoveEvidence(c) \/ RemoveBundle(c)
    BY <1>0, <1>1, <2>2 DEF Removed, RemoveEvidence, RemoveBundle
  <2> QED BY <1>5, <2>1, <2>2, Arrivals
<1>6. ASSUME pc'[c] \in {"rm_bundle", "rm_manifest"} PROVE plan' = None /\ final' = None
  <2>1. CASE RemoveEvidence(c)
    BY <2>1 DEF RemoveEvidence
  <2>2. CASE RemoveBundle(c)
    BY <1>0, <2>2 DEF RemoveBundle, Removed
  <2> QED BY <1>6, <2>1, <2>2, Arrivals
<1>7. ASSUME pc'[c] = "rm_manifest" PROVE bundle' = None
  BY <1>7, Arrivals DEF RemoveBundle
<1>8. ASSUME pc'[c] \notin Outside PROVE phase' # "none"
  BY <1>0, <1>1, <1>8, Enters DEF Removed
<1> QED BY <1>3, <1>4, <1>5, <1>6, <1>7, <1>8 DEF Removed

LEMMA TypeNext == TypeInv /\ [Next]_vars => TypeInv'
<1> SUFFICES ASSUME TypeInv, [Next]_vars PROVE TypeInv'
  OBVIOUS
<1>1. CASE Edit
  BY <1>1, BoundAssumption DEF Edit, TypeInv, TypeOK, Removed, FileOK, Whole, files, history
<1>2. CASE UNCHANGED vars
  BY <1>2 DEF TypeInv, TypeOK, Removed, FileOK, Whole, files, user, counts, history, vars
<1>3. ASSUME NEW c \in Cmds, CmdStep(c) PROVE TypeInv'
  <2>1. Goes(c)
    BY <1>3, CmdGoes
  <2>2. \A d \in Cmds : pc'[d] = "idle" <=> mem'[d] = Idle
    BY <2>1 DEF Goes, TypeInv, TypeOK
  <2> QED
    BY <1>3, <2>1, <2>2, FilesTyped, FlagsTyped, UserTyped, DeltasTyped, RemovedStays DEF TypeInv, TypeOK, Goes
<1> QED BY <1>1, <1>2, <1>3, Steps

\* Every variable keeps its type, and nothing is in a directory that is not there.
THEOREM TypeCorrect == Spec => []TypeOK
<1>1. TypeInv => TypeOK
  BY DEF TypeInv
<1> QED BY <1>1, TypeInit, TypeNext, PTL DEF Spec

LEMMA TypeInvariant == Spec => []TypeInv
  BY TypeInit, TypeNext, PTL DEF Spec

-----------------------------------------------------------------------------
(* 2. Who made the invocation, and the one plan that is reviewed in it.    *)

\* a plan-review that has made the invocation and may still end it
PlanReviewing(c) ==
    \/ pc[c] \in PlanStages
    \/ pc[c] = "cleanup" /\ mem[c].cmd = "plan-review"

Lite(c) ==
    \/ pc[c] \in WorkStages /\ mem[c].mode = "lite"
    \/ pc[c] = "seal" /\ mem[c].work.mode = "lite"

Maker(c) == PlanReviewing(c) \/ Lite(c)

Commands ==
    \A c \in Cmds :
        /\ pc[c] \in PlanStages \cup {"plan_new"} => mem[c].cmd = "plan-review"
        /\ pc[c] \in WorkStages \cup {"seal", "read_plan"} => mem[c].cmd = "worker"
        /\ pc[c] \in {"check", "apply"} => mem[c].cmd = "integrate"
        /\ pc[c] = "cleanup" => mem[c].cmd \in {"plan-review", "worker", "integrate", "cleanup"}

\* an invocation is made once: by a plan-review, or by a Lite worker
MadeOnce ==
    /\ \A c, d \in Cmds : Maker(c) /\ Maker(d) => c = d
    /\ \A c \in Cmds : PlanReviewing(c) => ~Whole(bundle) \/ bundle.of.mode # "lite"

PlanVerdicts == {v \in verdicts : v.on = "plan"}

\* all verdicts about a plan are about one packet, the one its plan-review remembers
OnePlan ==
    /\ phase = "none" => PlanVerdicts = {}
    /\ \A c \in Cmds : pc[c] \in {"plan_capture", "plan_verdict"} => PlanVerdicts = {}
    /\ \A c \in Cmds : PlanReviewing(c) => \A v \in PlanVerdicts : v.packet = mem[c].packet
    /\ \A v, w \in PlanVerdicts : v.packet = w.packet

MakersInv == Commands /\ MadeOnce /\ OnePlan

LEMMA Cleanups ==
    ASSUME TypeInv, NEW c \in Cmds, CmdStep(c), pc'[c] = "cleanup"
    PROVE  \/ mem'[c].cmd = "cleanup"
           \/ /\ mem'[c] = mem[c]
              /\ pc[c] \in PlanStages \cup WorkStages \cup {"seal", "read_plan", "check", "apply"}
<1> USE DEF Begin, Goto, Step, End, TypeInv
<1>1. CASE Begins(c)
  BY <1>1 DEF Begins, StartPlanReview, StartReview, StartWorker, StartIntegrate, StartCleanup
<1>2. CASE PlanProbe(c) \/ PlanNew(c) \/ PlanCapture(c) \/ PlanVerdict(c) \/ PlanCreate(c) \/ PlanWrite(c)
  BY <1>2 DEF PlanProbe, PlanNew, New, PlanCapture, PlanVerdict, PlanCreate, PlanWrite, PlanStages
<1>3. CASE PlanSync(c) \/ BuildPacket(c) \/ FinalProbe(c) \/ FinalVerdict(c) \/ FinalCreate(c)
           \/ FinalWrite(c) \/ FinalSync(c)
  BY <1>3 DEF PlanSync, BuildPacket, FinalProbe, FinalVerdict, FinalCreate, FinalWrite, FinalSync
<1>4. CASE Works(c)
  BY <1>4 DEF Works, ReadPlan, Capture, CheckPath, AddWorktree, Launch, Deliver, SealBundle, WorkStages
<1>5. CASE ReadApproval(c) \/ CheckSource(c) \/ Apply(c) \/ Claim(c)
  BY <1>5 DEF ReadApproval, CheckSource, Apply, Claim
<1>6. CASE WriteFails(c) \/ Fail(c) \/ Crash(c)
  BY <1>6 DEF WriteFails, Fail, Crash, Stages, PlanStages, WorkStages
<1>7. CASE Removes(c)
  BY <1>7 DEF Removes, RemoveWorktree, RemoveRoute, RemoveEvidence, RemoveBundle, RemoveManifest, RejectCleanup
<1> QED BY <1>1, <1>2, <1>3, <1>4, <1>5, <1>6, <1>7 DEF CmdStep, Asks, Closes

LEMMA CommandsNext == ASSUME TypeInv, Commands, NEW c \in Cmds, CmdStep(c) PROVE Commands'
<1> USE DEF TypeInv, Goto, Step, Begin, End
<1>1. pc'[c] = "plan_new" => mem'[c].cmd = "plan-review"
  BY Arrivals DEF PlanProbe
<1>2. pc'[c] \in PlanStages => mem'[c].cmd = "plan-review"
  <2>1. ASSUME pc'[c] \in {"plan_capture", "plan_seal", "plan_write", "plan_sync"} PROVE mem'[c].cmd = "plan-review"
    BY <2>1, Arrivals DEF Commands, PlanNew, New, PlanVerdict, PlanCreate, PlanWrite, PlanStages
  <2>2. ASSUME pc'[c] = "plan_verdict" PROVE mem'[c].cmd = "plan-review"
    BY <2>2, Arrivals DEF PlanCapture
  <2> QED BY <2>1, <2>2 DEF PlanStages
<1>3. pc'[c] \in WorkStages \cup {"seal", "read_plan"} => mem'[c].cmd = "worker"
  <2>1. ASSUME pc'[c] \in {"read_plan", "capture", "add", "seal"} PROVE mem'[c].cmd = "worker"
    BY <2>1, Arrivals DEF StartWorker, ReadPlan, Capture, Deliver
  <2>2. ASSUME pc'[c] \in {"git_add", "launch", "deliver"} PROVE mem'[c].cmd = "worker"
    BY <2>2, Arrivals DEF Commands, CheckPath, AddWorktree, Launch, WorkStages
  <2> QED BY <2>1, <2>2 DEF WorkStages
<1>4. pc'[c] \in {"check", "apply"} => mem'[c].cmd = "integrate"
  BY Arrivals DEF Commands, ReadApproval, CheckSource
<1>5. pc'[c] = "cleanup" => mem'[c].cmd \in {"plan-review", "worker", "integrate", "cleanup"}
  BY Cleanups DEF Commands
<1>6. Goes(c)
  BY CmdGoes
<1> QED BY <1>1, <1>2, <1>3, <1>4, <1>5, <1>6 DEF Commands, Goes

\* Who becomes the maker of an invocation finds none.
LEMMA Makes ==
    ASSUME TypeInv, Commands, NEW c \in Cmds, CmdStep(c)
    PROVE  /\ PlanReviewing(c)' => PlanReviewing(c) \/ (phase = "none" /\ phase' = "active")
           /\ Lite(c)' => Lite(c) \/ (phase = "none" /\ phase' = "active")
<1> USE DEF TypeInv, Goto, Step, Begin, End
<1>1. ASSUME pc'[c] \in PlanStages PROVE PlanReviewing(c) \/ (phase = "none" /\ phase' = "active")
  BY <1>1, Arrivals DEF PlanReviewing, PlanNew, New, PlanCapture, PlanVerdict, PlanCreate, PlanWrite, PlanStages
<1>2. ASSUME pc'[c] = "cleanup", mem'[c].cmd = "plan-review" PROVE PlanReviewing(c)
  BY <1>2, Cleanups DEF PlanReviewing, Commands
<1>3. ASSUME pc'[c] = "capture", mem'[c].mode = "lite" PROVE phase = "none" /\ phase' = "active"
  BY <1>3, Arrivals DEF ReadPlan, StartWorker
<1>4. ASSUME pc'[c] = "add", mem'[c].mode = "lite" PROVE Lite(c)
  BY <1>4, Arrivals DEF Capture, Lite, WorkStages
<1>5. ASSUME pc'[c] \in {"git_add", "launch", "deliver"}, mem'[c].mode = "lite" PROVE Lite(c)
  BY <1>5, Arrivals DEF CheckPath, AddWorktree, Launch, Lite, WorkStages
<1>6. ASSUME pc'[c] = "seal", mem'[c].work.mode = "lite" PROVE Lite(c)
  BY <1>6, Arrivals DEF Deliver, Work, Lite, WorkStages
<1> QED BY <1>1, <1>2, <1>3, <1>4, <1>5, <1>6 DEF PlanReviewing, Lite, WorkStages

\* What reviewers have said, and where.
LEMMA Verdicts ==
    ASSUME NEW c \in Cmds, CmdStep(c)
    PROVE  \/ verdicts' = verdicts
           \/ PlanVerdict(c) /\ \E v \in Reviews("plan", mem[c].packet) : verdicts' = verdicts \cup {v}
           \/ FinalVerdict(c) /\ \E v \in Reviews("final", mem[c].packet) : verdicts' = verdicts \cup {v}
<1>1. CASE Begins(c)
  BY <1>1 DEF Begins, StartPlanReview, StartReview, StartWorker, StartIntegrate, StartCleanup, history
<1>2. CASE Asks(c)
  <2>1. CASE PlanVerdict(c)
    <3>1. \E v \in Reviews("plan", mem[c].packet) : verdicts' = verdicts \cup {v}
      BY <2>1 DEF PlanVerdict
    <3> QED BY <2>1, <3>1
  <2>2. CASE FinalVerdict(c)
    <3>1. \E v \in Reviews("final", mem[c].packet) : verdicts' = verdicts \cup {v}
      BY <2>2 DEF FinalVerdict
    <3> QED BY <2>2, <3>1
  <2> QED
    BY <1>2, <2>1, <2>2 DEF Asks, PlanProbe, PlanNew, PlanCapture, PlanCreate, PlanWrite, PlanSync,
        BuildPacket, FinalProbe, FinalCreate, FinalWrite, FinalSync, history
<1>3. CASE Works(c)
  BY <1>3 DEF Works, ReadPlan, Capture, CheckPath, AddWorktree, Launch, Deliver, SealBundle, history
<1>4. CASE Closes(c)
  BY <1>4 DEF Closes, ReadApproval, CheckSource, Apply, Claim, WriteFails, Fail, Crash, history
<1>5. CASE Removes(c)
  BY <1>5 DEF Removes, RemoveWorktree, RemoveRoute, RemoveEvidence, RemoveBundle, RemoveManifest,
      RejectCleanup, history
<1> QED BY <1>1, <1>2, <1>3, <1>4, <1>5 DEF CmdStep

LEMMA MadeOnceNext ==
    ASSUME TypeInv, MakersInv, NEW c \in Cmds, CmdStep(c) PROVE MadeOnce'
<1>1. Goes(c) /\ MadeOnce /\ Commands /\ Removed
  BY CmdGoes DEF MakersInv, TypeInv
<1>2. \A d \in Cmds \ {c} : (PlanReviewing(d)' <=> PlanReviewing(d)) /\ (Lite(d)' <=> Lite(d))
  BY <1>1 DEF Goes, PlanReviewing, Lite
<1>3. /\ PlanReviewing(c)' => PlanReviewing(c) \/ (phase = "none" /\ phase' = "active")
      /\ Lite(c)' => Lite(c) \/ (phase = "none" /\ phase' = "active")
  BY <1>1, Makes
<1>4. \A d \in Cmds : Maker(d) => phase # "none"
  BY <1>1 DEF Removed, Outside, Maker, PlanReviewing, Lite, PlanStages, WorkStages
<1>5. \A d, e \in Cmds : Maker(d)' /\ Maker(e)' => d = e
  BY <1>1, <1>2, <1>3, <1>4 DEF MadeOnce, Maker
<1>6. ASSUME NEW d \in Cmds, PlanReviewing(d)', Whole(bundle)' PROVE bundle'.of.mode # "lite"
  <2>1. CASE phase = "none"
    <3>1. bundle = None /\ ~Readable
      BY <2>1 DEF TypeInv, TypeOK, Readable
    <3> QED BY <1>6, <3>1, Writers DEF Whole, None
  <2>2. CASE PlanReviewing(d) /\ bundle' = bundle
    BY <1>1, <1>6, <2>2 DEF MadeOnce, Whole
  <2>3. CASE PlanReviewing(d) /\ SealBundle(c) /\ bundle' = [state |-> "whole", of |-> mem[c].work]
    <3>1. pc[c] = "seal" /\ bundle'.of = mem[c].work
      BY <2>3 DEF SealBundle
    <3>2. ~(Lite(c) /\ c # d)
      BY <1>1, <2>3 DEF MadeOnce, Maker
    <3>3. c # d
      BY <2>3, <3>1 DEF PlanReviewing, PlanStages
    <3> QED BY <3>1, <3>2, <3>3 DEF Lite
  <2>4. phase = "none" \/ PlanReviewing(d)
    BY <1>2, <1>3, <1>6
  <2>5. bundle' # None
    BY <1>6 DEF Whole, None
  <2> QED BY <2>1, <2>2, <2>3, <2>4, <2>5, Writers
<1> QED BY <1>5, <1>6 DEF MadeOnce

LEMMA OnePlanNext ==
    ASSUME TypeInv, MakersInv, NEW c \in Cmds, CmdStep(c) PROVE OnePlan'
<1>1. Goes(c) /\ OnePlan /\ MadeOnce /\ Commands /\ Removed
  BY CmdGoes DEF MakersInv, TypeInv
<1>2. phase' = "none" => phase = "none"
  BY Phases
<1>3. \A d \in Cmds \ {c} : (PlanReviewing(d)' <=> PlanReviewing(d)) /\ pc'[d] = pc[d] /\ mem'[d] = mem[d]
  BY <1>1 DEF Goes, PlanReviewing
<1>4. \A d \in Cmds : PlanReviewing(d) => phase # "none"
  BY <1>1 DEF Removed, Outside, PlanReviewing, PlanStages
<1>5. CASE PlanVerdict(c)
  <2>1. PICK v \in Reviews("plan", mem[c].packet) : verdicts' = verdicts \cup {v}
    BY <1>5 DEF PlanVerdict
  <2>2. v.on = "plan" /\ v.packet = mem[c].packet
    BY <2>1 DEF Reviews
  <2>3. pc[c] = "plan_verdict" /\ PlanReviewing(c) /\ PlanVerdicts = {}
    BY <1>1, <1>5 DEF PlanVerdict, PlanReviewing, PlanStages, OnePlan
  <2>4. PlanVerdicts' = {v}
    BY <2>1, <2>2, <2>3 DEF PlanVerdicts
  <2>5. \A d \in Cmds \ {c} : ~PlanReviewing(d)'
    BY <1>1, <1>3, <2>3 DEF MadeOnce, Maker
  <2>6. mem'[c] = mem[c] /\ pc'[c] \in {"plan_seal", "cleanup"}
    BY <1>5 DEF PlanVerdict, Step, Goto, TypeInv
  <2>7. phase' # "none"
    BY <1>2, <1>4, <2>3
  <2>8. \A d \in Cmds : pc'[d] \notin {"plan_capture", "plan_verdict"}
    BY <2>5, <2>6 DEF PlanReviewing, PlanStages
  <2>9. \A d \in Cmds : PlanReviewing(d)' => \A w \in PlanVerdicts' : w.packet = mem'[d].packet
    BY <2>2, <2>4, <2>5, <2>6
  <2>10. \A x, y \in PlanVerdicts' : x.packet = y.packet
    BY <2>4
  <2> QED BY <2>7, <2>8, <2>9, <2>10 DEF OnePlan
<1>6. CASE ~PlanVerdict(c)
  <2>1. PlanVerdicts' = PlanVerdicts
    <3>1. \A v \in Reviews("final", mem[c].packet) : v.on # "plan"
      BY DEF Reviews
    <3> QED BY <1>6, <3>1, Verdicts DEF PlanVerdicts
  <2>2. ASSUME pc'[c] \in {"plan_capture", "plan_verdict"} PROVE PlanVerdicts = {}
    <3>1. CASE PlanNew(c)
      <4>1. phase = "none"
        BY <2>2, <3>1 DEF PlanNew, New, End, Goto, TypeInv
      <4> QED BY <1>1, <4>1 DEF OnePlan
    <3>2. CASE PlanCapture(c)
      BY <1>1, <3>2 DEF PlanCapture, OnePlan
    <3> QED BY <2>2, <3>1, <3>2, Arrivals
  <2>3. ASSUME PlanReviewing(c)', NEW v \in PlanVerdicts PROVE v.packet = mem'[c].packet
    <3>1. CASE pc'[c] \in {"plan_capture", "plan_verdict"}
      BY <2>2, <2>3, <3>1
    <3>2. CASE pc'[c] \in {"plan_seal", "plan_write", "plan_sync"}
      <4>1. PlanCreate(c) \/ PlanWrite(c)
        BY <1>6, <3>2, Arrivals
      <4>2. mem'[c] = mem[c] /\ PlanReviewing(c)
        BY <4>1 DEF PlanCreate, PlanWrite, Step, Goto, TypeInv, PlanReviewing, PlanStages
      <4> QED BY <1>1, <2>3, <4>2 DEF OnePlan
    <3>3. CASE pc'[c] = "cleanup" /\ mem'[c].cmd = "plan-review"
      <4>1. mem'[c] = mem[c] /\ PlanReviewing(c)
        BY <1>1, <3>3, Cleanups DEF Commands, PlanReviewing
      <4> QED BY <1>1, <2>3, <4>1 DEF OnePlan
    <3> QED BY <2>3, <3>1, <3>2, <3>3 DEF PlanReviewing, PlanStages
  <2>4. phase' = "none" => PlanVerdicts' = {}
    BY <1>1, <1>2, <2>1 DEF OnePlan
  <2>5. \A d \in Cmds : pc'[d] \in {"plan_capture", "plan_verdict"} => PlanVerdicts' = {}
    BY <1>1, <1>3, <2>1, <2>2 DEF OnePlan
  <2>6. \A d \in Cmds : PlanReviewing(d)' => \A v \in PlanVerdicts' : v.packet = mem'[d].packet
    BY <1>1, <1>3, <2>1, <2>3 DEF OnePlan
  <2>7. \A v, w \in PlanVerdicts' : v.packet = w.packet
    BY <1>1, <2>1 DEF OnePlan
  <2> QED BY <2>4, <2>5, <2>6, <2>7 DEF OnePlan
<1> QED BY <1>5, <1>6

LEMMA MakersNext == TypeInv /\ MakersInv /\ [Next]_vars => MakersInv'
<1> SUFFICES ASSUME TypeInv, MakersInv, [Next]_vars PROVE MakersInv'
  OBVIOUS
<1>1. CASE UNCHANGED <<pc, mem, files, verdicts>>
  BY <1>1 DEF MakersInv, Commands, MadeOnce, OnePlan, PlanVerdicts, Maker, PlanReviewing, Lite, files, Whole
<1>2. ASSUME NEW c \in Cmds, CmdStep(c) PROVE MakersInv'
  BY <1>2, CommandsNext, MadeOnceNext, OnePlanNext DEF MakersInv
<1> QED BY <1>1, <1>2, Steps DEF Edit, vars, history

LEMMA MakersInvariant == Spec => []MakersInv
<1>1. Init => MakersInv
  BY DEF Init, MakersInv, Commands, MadeOnce, OnePlan, PlanVerdicts, Maker, PlanReviewing, Lite, PlanStages,
      WorkStages
<1> QED BY <1>1, TypeInvariant, MakersNext, PTL DEF Spec

-----------------------------------------------------------------------------
(* 3. What is known at every stage.                                        *)

Bindings == [task : Plans, main : Mains, by : Reviewers, snapshot : Sources]

\* the task was approved on this source
Planned(task, snapshot) ==
    \E by \in Reviewers, main \in Mains :
        Says("plan", [task |-> task, snapshot |-> snapshot, main |-> main, by |-> by])

Worked(work) == \E m \in ran : Work(m, work.delta) = work

\* Max: another model than the main loop's approved this packet
Accepted(packet) ==
    packet.bundle.mode = "max" => Says("final", packet) /\ packet.by # packet.main

Authority(work) ==
    /\ Worked(work)
    /\ work.mode = "max" =>
           \E v \in verdicts :
              /\ v.on = "final" /\ v.decision = "approve" /\ v.packet.bundle = work
              /\ v.packet.by # v.packet.main
              /\ Says("plan", [task |-> work.task, snapshot |-> work.snapshot,
                               main |-> v.packet.main, by |-> v.packet.by])

Knows(c) ==
    /\ pc[c] \in {"plan_probe", "plan_new", "plan_capture"} =>
           mem[c].task \in Plans /\ mem[c].main \in Mains
    /\ pc[c] \in {"plan_new", "plan_capture"} => mem[c].by \in Reviewers
    /\ pc[c] \in {"plan_verdict", "plan_seal", "plan_write", "plan_sync"} => mem[c].packet \in Bindings
    /\ pc[c] \in {"plan_seal", "plan_write", "plan_sync"} => Says("plan", mem[c].packet)
    /\ pc[c] = "plan_write" /\ Readable => plan = Torn
    /\ pc[c] = "plan_sync" /\ Readable => Whole(plan)
    /\ pc[c] = "read_plan" => mem[c].mode = "max"
    /\ pc[c] = "capture" /\ mem[c].mode # "lite" => Planned(mem[c].task, mem[c].approved)
    /\ pc[c] \in WorkStages \ {"capture"} /\ mem[c].mode # "lite" =>
           Planned(mem[c].task, mem[c].snapshot)
    /\ pc[c] = "deliver" => mem[c] \in ran
    /\ pc[c] = "seal" => Worked(mem[c].work)
    /\ pc[c] = "seal" /\ mem[c].work.mode # "lite" =>
           Planned(mem[c].work.task, mem[c].work.snapshot)
    /\ pc[c] = "final_verdict" => mem[c].packet.by # mem[c].packet.main
    /\ pc[c] \in {"final_seal", "final_write"} => Accepted(mem[c].packet)
    /\ pc[c] = "final_write" /\ Readable => final = Torn
    /\ pc[c] = "final_sync" /\ Readable => Whole(final)
    /\ pc[c] \in {"check", "apply"} => Authority(mem[c].work)

FilesInv ==
    /\ Whole(plan) => plan.of \in Bindings /\ Says("plan", plan.of)
    /\ Whole(bundle) => Worked(bundle.of)
    /\ Whole(bundle) /\ bundle.of.mode # "lite" => Planned(bundle.of.task, bundle.of.snapshot)
    /\ Whole(final) => Accepted(final.of)

\* one writer for each receipt
PlanWriters == {"plan_write", "plan_sync"}
FinalWriters == {"final_write", "final_sync"}
Alone ==
    \A c, d \in Cmds :
        /\ pc[c] \in PlanWriters /\ pc[d] \in PlanWriters /\ Readable => c = d
        /\ pc[c] \in FinalWriters /\ pc[d] \in FinalWriters /\ Readable => c = d

History == PlanFirst /\ Authorized

EvidenceInv == (\A c \in Cmds : Knows(c)) /\ FilesInv /\ Alone /\ History

\* what no step takes back
Stable ==
    /\ verdicts \subseteq verdicts' /\ ran \subseteq ran'
    /\ phase # "none" => phase' # "none" /\ (Readable' => Readable)
    /\ Readable' =>
          /\ Whole(bundle) => bundle' = bundle
          /\ Whole(plan) => plan' = plan \/ (plan' = None /\ Writing("plan_sync"))
          /\ Whole(final) => final' = final \/ (final' = None /\ Writing("final_sync"))

LEMMA Histories ==
    ASSUME NEW c \in Cmds, CmdStep(c)
    PROVE  /\ verdicts \subseteq verdicts'
           /\ ran' = ran \/ (Launch(c) /\ ran' = ran \cup {mem[c]})
           /\ applied' = applied \/ (Apply(c) /\ applied' = applied \cup {mem[c].work})
<1>1. CASE Begins(c)
  BY <1>1 DEF Begins, StartPlanReview, StartReview, StartWorker, StartIntegrate, StartCleanup, history
<1>2. CASE Asks(c)
  BY <1>2 DEF Asks, PlanProbe, PlanNew, PlanCapture, PlanVerdict, PlanCreate, PlanWrite, PlanSync,
      BuildPacket, FinalProbe, FinalVerdict, FinalCreate, FinalWrite, FinalSync, history
<1>3. CASE Works(c)
  BY <1>3 DEF Works, ReadPlan, Capture, CheckPath, AddWorktree, Launch, Deliver, SealBundle, history
<1>4. CASE Closes(c)
  BY <1>4 DEF Closes, ReadApproval, CheckSource, Apply, Claim, WriteFails, Fail, Crash, history
<1>5. CASE Removes(c)
  BY <1>5 DEF Removes, RemoveWorktree, RemoveRoute, RemoveEvidence, RemoveBundle, RemoveManifest,
      RejectCleanup, history
<1> QED BY <1>1, <1>2, <1>3, <1>4, <1>5 DEF CmdStep

\* What a cleanup removes is in a layout that is broken.
LEMMA RemovesUnread ==
    ASSUME TypeInv, NEW c \in Cmds, CmdStep(c), RemoveEvidence(c) \/ RemoveBundle(c) PROVE ~Readable'
<1>1. pc[c] \in {"rm_evidence", "rm_bundle", "rm_manifest"} /\ phase' = phase
  BY DEF RemoveEvidence, RemoveBundle
<1> QED BY <1>1 DEF TypeInv, Removed, Readable

\* A writer finds what is written torn: nobody reads it yet.
LEMMA CmdStable == ASSUME TypeInv, EvidenceInv, NEW c \in Cmds, CmdStep(c) PROVE Stable
<1>1. phase # "none" => phase' # "none" /\ (Readable' => Readable)
  BY Phases DEF Readable
<1>2. verdicts \subseteq verdicts' /\ ran \subseteq ran'
  BY Histories
<1>3. RemoveEvidence(c) \/ RemoveBundle(c) => ~Readable'
  BY RemovesUnread
<1>4. ASSUME WriteFails(c), Readable'
      PROVE  /\ pc[c] = "plan_write" => ~Whole(plan)
             /\ pc[c] = "final_write" => ~Whole(final)
  <2>1. Readable
    BY <1>4 DEF WriteFails, Readable
  <2> QED BY <2>1 DEF EvidenceInv, Knows, Torn, Whole
<1>5. /\ pc[c] = "plan_sync" => Writing("plan_sync")
      /\ pc[c] = "final_sync" => Writing("final_sync")
  BY DEF Writing
<1>6. /\ Creates(plan) \/ plan = Torn => ~Whole(plan)
      /\ Creates(final) \/ final = Torn => ~Whole(final)
      /\ bundle = None => ~Whole(bundle)
  BY DEF Creates, None, Torn, Whole
<1>7. Readable' => (Whole(bundle) => bundle' = bundle)
  BY <1>3, <1>6, Writers
<1>8. Readable' => (Whole(plan) => plan' = plan \/ (plan' = None /\ Writing("plan_sync")))
  BY <1>3, <1>4, <1>5, <1>6, Writers
<1>9. Readable' => (Whole(final) => final' = final \/ (final' = None /\ Writing("final_sync")))
  BY <1>3, <1>4, <1>5, <1>6, Writers
<1> QED BY <1>1, <1>2, <1>7, <1>8, <1>9 DEF Stable

LEMMA StepStable == ASSUME TypeInv, EvidenceInv, [Next]_vars PROVE Stable
<1>1. CASE Edit
  BY <1>1 DEF Edit, Stable, files, history, Readable
<1>2. CASE UNCHANGED vars
  BY <1>2 DEF vars, Stable, files, history, Readable
<1> QED BY <1>1, <1>2, Steps, CmdStable

\* A receipt that is being written is left to its writer.
LEMMA OneWriter ==
    ASSUME TypeInv, EvidenceInv, NEW c \in Cmds, CmdStep(c), NEW d \in Cmds \ {c}, Readable'
    PROVE  /\ pc[d] = "plan_write" => plan' = Torn
           /\ pc[d] = "plan_sync" => Whole(plan)'
           /\ pc[d] = "final_write" => final' = Torn
           /\ pc[d] = "final_sync" => Whole(final)'
<1>1. ~RemoveEvidence(c)
  BY RemovesUnread
<1>2. Readable \/ pc[d] \notin PlanWriters \cup FinalWriters
  <2>1. pc[d] \in PlanWriters \cup FinalWriters => phase # "none"
    BY DEF TypeInv, Removed, Outside, PlanWriters, FinalWriters
  <2> QED BY <2>1, CmdStable DEF Stable
<1>3. ASSUME pc[d] \in PlanWriters PROVE plan' = plan
  <2>1. plan # None /\ pc[c] \notin PlanWriters
    BY <1>2, <1>3 DEF EvidenceInv, Knows, Alone, None, Torn, Whole, PlanWriters
  <2> QED BY <1>1, <2>1, Writers DEF Creates, PlanWrite, PlanWriters
<1>4. ASSUME pc[d] \in FinalWriters PROVE final' = final
  <2>1. final # None /\ pc[c] \notin FinalWriters
    BY <1>2, <1>4 DEF EvidenceInv, Knows, Alone, None, Torn, Whole, FinalWriters
  <2> QED BY <1>1, <2>1, Writers DEF Creates, FinalWrite, FinalWriters
<1>5. /\ pc[d] = "plan_write" /\ Readable => plan = Torn
      /\ pc[d] = "plan_sync" /\ Readable => Whole(plan)
      /\ pc[d] = "final_write" /\ Readable => final = Torn
      /\ pc[d] = "final_sync" /\ Readable => Whole(final)
  BY DEF EvidenceInv, Knows
<1> QED BY <1>2, <1>3, <1>4, <1>5 DEF PlanWriters, FinalWriters, Whole

LEMMA PlannedKept ==
    ASSUME Stable, NEW task, NEW snapshot, Planned(task, snapshot)
    PROVE  Planned(task, snapshot)'
  BY DEF Stable, Planned, Says

LEMMA AuthorityKept == ASSUME Stable, NEW work, Authority(work) PROVE Authority(work)'
<1>1. Worked(work)'
  BY DEF Stable, Authority, Worked
<1> QED BY <1>1 DEF Stable, Authority, Says

\* What another command knew still holds.
LEMMA OthersKnow ==
    ASSUME Stable, NEW d \in Cmds, Knows(d), pc'[d] = pc[d], mem'[d] = mem[d],
           pc[d] = "plan_write" /\ Readable' => plan' = Torn,
           pc[d] = "plan_sync" /\ Readable' => Whole(plan)',
           pc[d] = "final_write" /\ Readable' => final' = Torn,
           pc[d] = "final_sync" /\ Readable' => Whole(final)'
    PROVE  Knows(d)'
<1>1. pc[d] = "capture" /\ mem[d].mode # "lite" => Planned(mem[d].task, mem[d].approved)'
  BY PlannedKept DEF Knows
<1>2. pc[d] \in WorkStages \ {"capture"} /\ mem[d].mode # "lite" => Planned(mem[d].task, mem[d].snapshot)'
  BY PlannedKept DEF Knows
<1>3. pc[d] = "seal" /\ mem[d].work.mode # "lite" => Planned(mem[d].work.task, mem[d].work.snapshot)'
  BY PlannedKept DEF Knows
<1>4. pc[d] \in {"check", "apply"} => Authority(mem[d].work)'
  BY AuthorityKept DEF Knows
<1>5. pc[d] \in {"plan_seal", "plan_write", "plan_sync"} => Says("plan", mem[d].packet)'
  BY DEF Knows, Stable, Says
<1>6. pc[d] \in {"final_seal", "final_write"} => Accepted(mem[d].packet)'
  BY DEF Knows, Stable, Says, Accepted
<1>7. pc[d] = "seal" => Worked(mem[d].work)'
  BY DEF Knows, Stable, Worked
<1>8. pc[d] = "deliver" => mem'[d] \in ran'
  BY DEF Knows, Stable
<1> QED BY <1>1, <1>2, <1>3, <1>4, <1>5, <1>6, <1>7, <1>8 DEF Knows

\* What is read in a plan that is whole.
LEMMA PlanRead ==
    ASSUME EvidenceInv, Whole(plan) PROVE Planned(plan.of.task, plan.of.snapshot)
<1>1. plan.of \in Bindings /\ Says("plan", plan.of)
  BY DEF EvidenceInv, FilesInv
<1> DEFINE of == plan.of
<1> HIDE DEF of
<1>2. of = [task |-> of.task, snapshot |-> of.snapshot, main |-> of.main, by |-> of.by]
      /\ of.by \in Reviewers /\ of.main \in Mains
  BY <1>1 DEF Bindings, of
<1>3. \E by \in Reviewers, main \in Mains :
         Says("plan", [task |-> of.task, snapshot |-> of.snapshot, main |-> main, by |-> by])
  BY <1>1, <1>2 DEF of
<1> QED BY <1>3 DEF Planned, of

\* What plan reviewers approved is one packet.
LEMMA SameSaid ==
    ASSUME OnePlan, NEW p, NEW q, Says("plan", p), Says("plan", q) PROVE p = q
<1> DEFINE said(packet) == [on |-> "plan", packet |-> packet, decision |-> "approve"]
<1>1. /\ said(p) \in PlanVerdicts /\ said(p).packet = p
      /\ said(q) \in PlanVerdicts /\ said(q).packet = q
  BY DEF Says, PlanVerdicts
<1> HIDE DEF said
<1> QED BY <1>1 DEF OnePlan

\* An approval that is read has everything behind it.
LEMMA ApprovalRead == ASSUME MakersInv, EvidenceInv, Approved PROVE Authority(bundle.of)
<1>1. /\ Worked(bundle.of) /\ Accepted(final.of) /\ final.of.bundle = bundle.of
      /\ bundle.of.mode # "lite" => Planned(bundle.of.task, bundle.of.snapshot)
  BY DEF EvidenceInv, FilesInv, Approved, StillBinds
<1>2. ASSUME bundle.of.mode = "max"
      PROVE  \E v \in verdicts :
                /\ v.on = "final" /\ v.decision = "approve" /\ v.packet.bundle = bundle.of
                /\ v.packet.by # v.packet.main
                /\ Says("plan", [task |-> bundle.of.task, snapshot |-> bundle.of.snapshot,
                                 main |-> v.packet.main, by |-> v.packet.by])
  <2> DEFINE said == [on |-> "final", packet |-> final.of, decision |-> "approve"]
             of == plan.of
  <2>1. said \in verdicts /\ final.of.by # final.of.main
    BY <1>1, <1>2 DEF Accepted, Says
  <2>2. /\ plan.of \in Bindings /\ Says("plan", plan.of)
        /\ final.of.by = plan.of.by /\ final.of.main = plan.of.main
    BY <1>2 DEF EvidenceInv, FilesInv, Approved, StillBinds
  <2>3. plan.of.task = bundle.of.task /\ plan.of.snapshot = bundle.of.snapshot
    <3>1. PICK by \in Reviewers, main \in Mains :
             Says("plan", [task |-> bundle.of.task, snapshot |-> bundle.of.snapshot, main |-> main, by |-> by])
      BY <1>1, <1>2 DEF Planned
    <3> DEFINE packet == [task |-> bundle.of.task, snapshot |-> bundle.of.snapshot, main |-> main, by |-> by]
    <3>2. plan.of = packet
      BY <2>2, <3>1, SameSaid DEF MakersInv
    <3> QED BY <3>2
  <2> HIDE DEF of
  <2>4. of = [task |-> of.task, snapshot |-> of.snapshot, main |-> of.main, by |-> of.by]
    BY <2>2 DEF Bindings, of
  <2>5. of = [task |-> bundle.of.task, snapshot |-> bundle.of.snapshot,
              main |-> final.of.main, by |-> final.of.by]
    BY <2>2, <2>3, <2>4 DEF of
  <2>6. said.on = "final" /\ said.decision = "approve" /\ said.packet = final.of
    OBVIOUS
  <2> HIDE DEF said
  <2> QED BY <1>1, <2>1, <2>2, <2>5, <2>6 DEF of
<1> QED BY <1>1, <1>2 DEF Authority

\* What a command learns on the way to where it is.
LEMMA Learns ==
    ASSUME TypeInv, MakersInv, EvidenceInv, NEW c \in Cmds, CmdStep(c) PROVE Knows(c)'
<1> USE DEF Goto, Step, TypeInv
<1>0. Stable /\ Knows(c) /\ TypeOK
  BY CmdStable DEF EvidenceInv
\* plan-review
<1>1. ASSUME pc'[c] = "plan_probe" PROVE mem'[c].task \in Plans /\ mem'[c].main \in Mains
  BY <1>1, Arrivals DEF StartPlanReview, Begin
<1>2. ASSUME pc'[c] = "plan_new"
      PROVE  mem'[c].task \in Plans /\ mem'[c].main \in Mains /\ mem'[c].by \in Reviewers
  <2>1. PlanProbe(c) /\ ~End(c)
    BY <1>2, Arrivals DEF End
  <2>2. PICK by \in Reviewing(mem[c].main) :
           Goto(c, "plan_new", [cmd |-> "plan-review", task |-> mem[c].task, main |-> mem[c].main, by |-> by])
    BY <2>1 DEF PlanProbe
  <2>3. by \in Reviewers
    BY <1>0, <2>2 DEF Reviewing, Identity, TypeOK
  <2> QED BY <1>0, <2>1, <2>2, <2>3 DEF Knows, PlanProbe
<1>3. ASSUME pc'[c] = "plan_capture"
      PROVE  mem'[c].task \in Plans /\ mem'[c].main \in Mains /\ mem'[c].by \in Reviewers
  BY <1>0, <1>3, Arrivals DEF PlanNew, New, End, Knows
<1>4. ASSUME pc'[c] = "plan_verdict" PROVE mem'[c].packet \in Bindings
  <2>1. PlanCapture(c) /\ mem'[c].packet = PlanBinding(mem[c], source)
    BY <1>4, Arrivals DEF PlanCapture
  <2> QED BY <1>0, <2>1 DEF Knows, PlanCapture, PlanBinding, Bindings, TypeOK
<1>5. ASSUME pc'[c] = "plan_seal" PROVE mem'[c].packet \in Bindings /\ Says("plan", mem[c].packet)'
  <2>1. PlanVerdict(c)
    BY <1>5, Arrivals
  <2>2. PICK v \in Reviews("plan", mem[c].packet) :
           verdicts' = verdicts \cup {v} /\ Step(c, IF v.decision = "approve" THEN "plan_seal" ELSE "cleanup")
    BY <2>1 DEF PlanVerdict
  <2>3. v.decision = "approve"
    BY <1>5, <2>2
  <2>4. v = [on |-> "plan", packet |-> mem[c].packet, decision |-> "approve"]
    BY <2>2, <2>3 DEF Reviews
  <2>5. mem'[c] = mem[c]
    BY <2>2
  <2> QED BY <1>0, <2>1, <2>2, <2>4, <2>5 DEF Knows, PlanVerdict, Says
<1>6. ASSUME pc'[c] = "plan_write"
      PROVE  mem'[c].packet \in Bindings /\ Says("plan", mem[c].packet)' /\ plan' = Torn
  BY <1>0, <1>6, Arrivals DEF PlanCreate, Knows, Stable, Says
<1>7. ASSUME pc'[c] = "plan_sync"
       PROVE  mem'[c].packet \in Bindings /\ Says("plan", mem[c].packet)' /\ (Readable' => Whole(plan)')
  <2>1. PlanWrite(c) /\ mem'[c] = mem[c]
    BY <1>7, Arrivals DEF PlanWrite
  <2>2. Readable' => Whole(plan)'
    BY <1>0, <2>1 DEF PlanWrite, Knows, Readable, PlanReceipt, Whole
  <2> QED BY <1>0, <2>1, <2>2 DEF PlanWrite, Knows, Stable, Says
\* worker
<1>8. ASSUME pc'[c] = "read_plan" PROVE mem'[c].mode = "max"
  BY <1>8, Arrivals DEF StartWorker, Begin
<1>9. ASSUME pc'[c] = "capture", mem'[c].mode # "lite" PROVE Planned(mem[c].task, mem[c].approved)'
  <2>1. ReadPlan(c)
    BY <1>9, Arrivals DEF StartWorker, Begin
  <2>2. Readable /\ Whole(plan) /\ mem'[c].task = plan.of.task /\ mem'[c].approved = plan.of.snapshot
    BY <1>9, <2>1 DEF ReadPlan, PlanBinds
  <2>3. ASSUME NEW task, NEW snapshot, task = plan.of.task, snapshot = plan.of.snapshot
        PROVE  Planned(task, snapshot)'
    BY <1>0, <2>2, <2>3, PlanRead, PlannedKept
  <2>4. UNCHANGED plan
    BY <2>1 DEF ReadPlan, files
  <2> QED BY <2>2, <2>3, <2>4
<1>10. ASSUME pc'[c] = "add", mem'[c].mode # "lite" PROVE Planned(mem[c].task, mem[c].snapshot)'
  <2>1. Capture(c)
    BY <1>10, Arrivals
  <2>2. /\ pc[c] = "capture" /\ mem[c].mode # "lite" /\ mem[c].approved = source
        /\ mem'[c].task = mem[c].task /\ mem'[c].snapshot = source
    BY <1>10, <2>1 DEF Capture, SourceBinds
  <2>3. ASSUME NEW task, NEW snapshot, task = mem[c].task, snapshot = source PROVE Planned(task, snapshot)'
    BY <1>0, <2>2, <2>3, PlannedKept DEF Knows
  <2>4. UNCHANGED source
    BY <2>1 DEF Capture, user
  <2> QED BY <2>2, <2>3, <2>4
<1>11. ASSUME pc'[c] \in {"git_add", "launch", "deliver"}
       PROVE  mem'[c] = mem[c] /\ (mem[c].mode # "lite" => Planned(mem[c].task, mem[c].snapshot)')
  <2>1. CheckPath(c) \/ AddWorktree(c) \/ Launch(c)
    BY <1>11, Arrivals
  <2>2. pc[c] \in WorkStages \ {"capture"} /\ mem'[c] = mem[c]
    BY <2>1 DEF CheckPath, AddWorktree, Launch, WorkStages
  <2> QED BY <1>0, <2>2, PlannedKept DEF Knows
<1>12. ASSUME pc'[c] = "deliver" PROVE mem'[c] \in ran'
  BY <1>12, Arrivals DEF Launch
<1>13. ASSUME pc'[c] = "seal"
       PROVE  /\ Worked(mem[c].work)'
              /\ mem'[c].work.mode # "lite" => Planned(mem[c].work.task, mem[c].work.snapshot)'
  <2>1. Deliver(c) /\ ~Step(c, "cleanup")
    BY <1>13, Arrivals
  <2>2. PICK d \in Deltas : Goto(c, "seal", [cmd |-> "worker", work |-> Work(mem[c], d)])
    BY <2>1 DEF Deliver
  <2> DEFINE work == Work(mem[c], d)
  <2>3. mem'[c].work = work
    BY <2>2
  <2>4. /\ work.delta = d /\ work.mode = mem[c].mode /\ work.task = mem[c].task
        /\ work.snapshot = mem[c].snapshot
    BY DEF Work
  <2>5. pc[c] = "deliver" /\ mem[c] \in ran /\ UNCHANGED ran
    BY <1>0, <2>1 DEF Deliver, Knows, history
  <2>6. Worked(work)
    BY <2>4, <2>5 DEF Worked
  <2>7. work.mode # "lite" => Planned(work.task, work.snapshot)
    BY <1>0, <2>4, <2>5 DEF Knows, WorkStages
  <2> HIDE DEF work
  <2>8. ASSUME NEW w, w = work PROVE Worked(w)' /\ (w.mode # "lite" => Planned(w.task, w.snapshot)')
    <3>1. Worked(w)'
      BY <2>5, <2>6, <2>8 DEF Worked
    <3> QED BY <1>0, <2>7, <2>8, <3>1, PlannedKept
  <2> QED BY <2>3, <2>8
\* review
<1>14. ASSUME pc'[c] = "final_verdict" PROVE mem'[c].packet.by # mem'[c].packet.main
  BY <1>14, Arrivals DEF FinalProbe, End, Idle, Reviewing, Eligible
<1>15. ASSUME pc'[c] = "final_seal" PROVE Accepted(mem[c].packet)'
  <2>1. CASE BuildPacket(c)
    <3>1. bundle.of.mode = "lite" /\ mem'[c].packet = FinalBinding(mem[c], mem[c].main)
      BY <1>15, <2>1 DEF BuildPacket, End
    <3> QED BY <3>1 DEF Accepted, FinalBinding
  <2>2. CASE FinalVerdict(c)
    <3>1. PICK v \in Reviews("final", mem[c].packet) :
             /\ verdicts' = verdicts \cup {v}
             /\ IF v.decision = "approve" THEN Step(c, "final_seal") ELSE End(c)
      BY <2>2 DEF FinalVerdict
    <3>2. v.decision = "approve" /\ mem'[c] = mem[c]
      BY <1>15, <3>1 DEF End
    <3>3. v = [on |-> "final", packet |-> mem[c].packet, decision |-> "approve"]
      BY <3>1, <3>2 DEF Reviews
    <3>4. mem[c].packet.by # mem[c].packet.main
      BY <1>0, <2>2 DEF Knows, FinalVerdict
    <3> QED BY <3>1, <3>2, <3>3, <3>4 DEF Accepted, Says
  <2> QED BY <1>15, <2>1, <2>2, Arrivals
<1>16. ASSUME pc'[c] = "final_write"
       PROVE  Accepted(mem[c].packet)' /\ final' = Torn
  <2>1. FinalCreate(c) /\ mem'[c] = mem[c] /\ final' = Torn /\ pc[c] = "final_seal"
    BY <1>16, Arrivals DEF FinalCreate, End
  <2>2. Accepted(mem[c].packet)
    BY <1>0, <2>1 DEF Knows
  <2> QED BY <1>0, <2>1, <2>2 DEF Stable, Accepted, Says
<1>17. ASSUME pc'[c] = "final_sync", Readable' PROVE Whole(final)'
  BY <1>0, <1>17, Arrivals DEF FinalWrite, Knows, Readable, FinalReceipt, Whole
\* integrate
<1>18. ASSUME pc'[c] = "check" PROVE Authority(mem[c].work)'
  <2>1. ReadApproval(c) /\ ~End(c)
    BY <1>18, Arrivals DEF End
  <2>2. Approved /\ mem'[c].work = bundle.of
    BY <2>1 DEF ReadApproval
  <2>3. ASSUME NEW w, w = bundle.of PROVE Authority(w)'
    BY <1>0, <2>2, <2>3, ApprovalRead, AuthorityKept
  <2> QED BY <2>2, <2>3
<1>19. ASSUME pc'[c] = "apply" PROVE Authority(mem[c].work)'
  <2>1. pc[c] = "check" /\ mem'[c] = mem[c]
    BY <1>19, Arrivals DEF CheckSource
  <2> QED BY <1>0, <2>1, AuthorityKept DEF Knows
<1> QED
  BY <1>1, <1>2, <1>3, <1>4, <1>5, <1>6, <1>7, <1>8, <1>9, <1>10,
     <1>11, <1>12, <1>13, <1>14, <1>15, <1>16, <1>17, <1>18, <1>19 DEF Knows, WorkStages

\* What the files say, of work that was done and of verdicts that were given.
LEMMA FilesSay == ASSUME TypeInv, EvidenceInv, NEW c \in Cmds, CmdStep(c) PROVE FilesInv'
<1>0. Stable /\ Knows(c) /\ FilesInv
  BY CmdStable DEF EvidenceInv
<1>1. ASSUME Whole(plan)' PROVE plan'.of \in Bindings /\ Says("plan", plan.of)'
  <2>1. CASE plan' = plan
    BY <1>0, <1>1, <2>1 DEF FilesInv, Whole, Stable, Says
  <2>2. CASE PlanWrite(c) /\ plan' = PlanReceipt(mem[c].packet)
    <3>1. mem[c].packet \in Bindings /\ Says("plan", mem[c].packet) /\ plan'.of = mem[c].packet
      BY <1>0, <2>2 DEF Knows, PlanWrite, PlanReceipt
    <3> QED BY <1>0, <3>1 DEF Stable, Says
  <2> QED BY <1>1, <2>1, <2>2, Writers DEF Whole, None, Torn
<1>2. ASSUME Whole(bundle)'
      PROVE  /\ Worked(bundle.of)'
             /\ bundle'.of.mode # "lite" => Planned(bundle.of.task, bundle.of.snapshot)'
  <2>1. ASSUME NEW w, Worked(w), w.mode # "lite" => Planned(w.task, w.snapshot)
        PROVE  Worked(w)' /\ (w.mode # "lite" => Planned(w.task, w.snapshot)')
    BY <1>0, <2>1, PlannedKept DEF Stable, Worked
  <2>2. CASE bundle' = bundle
    BY <1>0, <1>2, <2>1, <2>2 DEF FilesInv, Whole
  <2>3. CASE SealBundle(c) /\ bundle' = [state |-> "whole", of |-> mem[c].work]
    <3>1. bundle'.of = mem[c].work /\ pc[c] = "seal"
      BY <2>3 DEF SealBundle
    <3> QED BY <1>0, <2>1, <3>1 DEF Knows
  <2> QED BY <1>2, <2>2, <2>3, Writers DEF Whole, None
<1>3. ASSUME Whole(final)' PROVE Accepted(final.of)'
  <2>1. CASE final' = final
    BY <1>0, <1>3, <2>1 DEF FilesInv, Whole, Stable, Says, Accepted
  <2>2. CASE FinalWrite(c) /\ final' = FinalReceipt(mem[c].packet)
    <3>1. Accepted(mem[c].packet) /\ final'.of = mem[c].packet
      BY <1>0, <2>2 DEF Knows, FinalWrite, FinalReceipt
    <3> QED BY <1>0, <3>1 DEF Stable, Says, Accepted
  <2> QED BY <1>3, <2>1, <2>2, Writers DEF Whole, None, Torn
<1> QED BY <1>1, <1>2, <1>3 DEF FilesInv

LEMMA StaysAlone == ASSUME TypeInv, EvidenceInv, NEW c \in Cmds, CmdStep(c) PROVE Alone'
<1>1. Goes(c) /\ Alone /\ Stable
  BY CmdGoes, CmdStable DEF EvidenceInv
<1> SUFFICES ASSUME Readable' PROVE Alone'
  BY DEF Alone
<1>2. ASSUME NEW d \in Cmds, pc[d] \in PlanWriters \cup FinalWriters PROVE Readable
  <2>1. phase # "none"
    BY <1>2 DEF TypeInv, Removed, Outside, PlanWriters, FinalWriters
  <2> QED BY <1>1, <2>1 DEF Stable
<1>3. ASSUME NEW d \in Cmds \ {c}, pc[d] \in PlanWriters, pc'[c] \in PlanWriters PROVE FALSE
  <2>1. Readable /\ plan # None /\ pc[c] \notin PlanWriters
    BY <1>1, <1>2, <1>3 DEF EvidenceInv, Knows, Alone, None, Torn, Whole, PlanWriters
  <2>2. PlanCreate(c)
    BY <1>3, <2>1, Arrivals DEF PlanWriters, PlanWrite
  <2> QED BY <1>3, <2>1, <2>2 DEF PlanCreate, Creates, Step, Goto, TypeInv, PlanWriters
<1>4. ASSUME NEW d \in Cmds \ {c}, pc[d] \in FinalWriters, pc'[c] \in FinalWriters PROVE FALSE
  <2>1. Readable /\ final # None /\ pc[c] \notin FinalWriters
    BY <1>1, <1>2, <1>4 DEF EvidenceInv, Knows, Alone, None, Torn, Whole, FinalWriters
  <2>2. FinalCreate(c)
    BY <1>4, <2>1, Arrivals DEF FinalWriters, FinalWrite
  <2> QED BY <1>4, <2>1, <2>2 DEF FinalCreate, Creates, End, Goto, TypeInv, FinalWriters
<1>5. ASSUME NEW d \in Cmds \ {c}, NEW e \in Cmds \ {c},
             \/ pc[d] \in PlanWriters /\ pc[e] \in PlanWriters
             \/ pc[d] \in FinalWriters /\ pc[e] \in FinalWriters
      PROVE  d = e
  BY <1>1, <1>2, <1>5 DEF Alone
<1> QED BY <1>1, <1>3, <1>4, <1>5 DEF Alone, Goes

LEMMA HistoryKept == ASSUME TypeInv, EvidenceInv, NEW c \in Cmds, CmdStep(c) PROVE History'
<1>0. Stable /\ Knows(c) /\ PlanFirst /\ \A work \in applied : Authority(work)
  BY CmdStable DEF EvidenceInv, History, Authorized, Authority, Worked
<1>1. PlanFirst'
  <2> SUFFICES ASSUME NEW m \in ran', m.mode = "max"
               PROVE  \E by \in Reviewers, main \in Mains :
                         Says("plan", [task |-> m.task, snapshot |-> m.snapshot, main |-> main, by |-> by])'
    BY DEF PlanFirst
  <2>1. \E by \in Reviewers, main \in Mains :
           Says("plan", [task |-> m.task, snapshot |-> m.snapshot, main |-> main, by |-> by])
    <3>1. CASE m \in ran
      BY <1>0, <3>1 DEF PlanFirst
    <3>2. CASE Launch(c) /\ m = mem[c]
      BY <1>0, <3>2 DEF Launch, Knows, Planned, WorkStages
    <3> QED BY <3>1, <3>2, Histories
  <2> QED BY <1>0, <2>1 DEF Stable, Says
<1>2. \A work \in applied' : Authority(work)'
  <2> SUFFICES ASSUME NEW work \in applied' PROVE Authority(work)'
    OBVIOUS
  <2>1. CASE work \in applied
    BY <1>0, <2>1, AuthorityKept
  <2>2. CASE Apply(c) /\ work = mem[c].work
    <3>1. Authority(work)
      BY <1>0, <2>2 DEF Apply, Knows
    <3> QED BY <1>0, <3>1, AuthorityKept
  <2> QED BY <2>1, <2>2, Histories
<1> QED BY <1>1, <1>2 DEF History, Authorized, Authority, Worked

LEMMA EvidenceNext == TypeInv /\ MakersInv /\ EvidenceInv /\ [Next]_vars => EvidenceInv'
<1> SUFFICES ASSUME TypeInv, MakersInv, EvidenceInv, [Next]_vars PROVE EvidenceInv'
  OBVIOUS
<1>1. CASE UNCHANGED <<pc, mem, files, history>>
  <2>1. \A c \in Cmds : Knows(c)'
    <3>1. Stable
      BY StepStable
    <3> QED BY <1>1, <3>1, OthersKnow DEF EvidenceInv, Knows, files, Readable, Whole
  <2>2. FilesInv' /\ Alone' /\ History'
    BY <1>1 DEF EvidenceInv, FilesInv, Alone, History, PlanFirst, Authorized, files, history, Whole, Readable,
        Says, Worked, Planned, Accepted
  <2> QED BY <2>1, <2>2 DEF EvidenceInv
<1>2. ASSUME NEW c \in Cmds, CmdStep(c) PROVE EvidenceInv'
  <2>1. ASSUME NEW d \in Cmds PROVE Knows(d)'
    <3>1. CASE d = c
      BY <1>2, <3>1, Learns
    <3>2. CASE d # c
      <4>1. Stable /\ Goes(c)
        BY <1>2, CmdStable, CmdGoes
      <4> QED BY <1>2, <3>2, <4>1, OthersKnow, OneWriter DEF Goes, EvidenceInv
    <3> QED BY <3>1, <3>2
  <2> QED BY <1>2, <2>1, FilesSay, StaysAlone, HistoryKept DEF EvidenceInv
<1> QED BY <1>1, <1>2, Steps DEF Edit, vars

LEMMA EvidenceInvariant == Spec => []EvidenceInv
<1>1. ASSUME Init PROVE EvidenceInv
  <2>1. \A c \in Cmds : pc[c] = "idle"
    BY <1>1 DEF Init
  <2>2. (\A c \in Cmds : Knows(c)) /\ Alone
    BY <2>1 DEF Knows, Alone, WorkStages, PlanWriters, FinalWriters
  <2>3. FilesInv
    BY <1>1 DEF Init, FilesInv, None, Whole
  <2>4. History
    BY <1>1 DEF Init, History, PlanFirst, Authorized
  <2> QED BY <2>2, <2>3, <2>4 DEF EvidenceInv
<1> QED BY <1>1, TypeInvariant, MakersInvariant, EvidenceNext, PTL DEF Spec

\* Whatever commands overlap, crash or are called out of order, and whatever the
\* user changes meanwhile: what integrate applied was made by a worker, and in Max
\* accepted by a reviewer other than the main loop's model, who had approved the
\* worker's plan for the same main loop on the source it was made from.
THEOREM OnlyAuthorized == Spec => []Authorized
<1>1. EvidenceInv => Authorized
  BY DEF EvidenceInv, History
<1> QED BY <1>1, EvidenceInvariant, PTL

\* No worker is run in Max before its task was approved on the source it is run on.
THEOREM PlansFirst == Spec => []PlanFirst
<1>1. EvidenceInv => PlanFirst
  BY DEF EvidenceInv, History
<1> QED BY <1>1, EvidenceInvariant, PTL

\* A bundle that is sealed, and a receipt whose command has returned, stay what
\* they are until the invocation's layout is broken, whoever else writes, fails to
\* write or is killed; a receipt whose command has not returned may vanish with it,
\* but is never another one.
THEOREM EvidenceStays == Spec => EvidenceKept
<1>1. TypeInv /\ EvidenceInv /\ [Next]_vars =>
         [Readable' =>
             /\ Whole(bundle) => bundle' = bundle
             /\ Whole(plan) => plan' = plan \/ (plan' = None /\ Writing("plan_sync"))
             /\ Whole(final) => final' = final \/ (final' = None /\ Writing("final_sync"))]_vars
  BY StepStable DEF Stable
<1> QED BY <1>1, TypeInvariant, EvidenceInvariant, PTL DEF Spec, EvidenceKept

-----------------------------------------------------------------------------
(* 4. Who is left to end it.                                               *)

EnderStages == PlanStages \cup WorkStages \cup {"seal", "cleanup"}
Comers == {"launch", "deliver", "seal", "cleanup"}

\* Unless a command was killed or a cleanup rejected, there is evidence, or somebody
\* to clean up; who has begun goes on; and a worktree that is added to what another
\* cleanup has removed is the last of somebody who will report it.
Attended ==
    crashes = 0 /\ ~rejected =>
        /\ phase = "active" => Whole(bundle) \/ Whole(plan) \/ \E c \in Cmds : pc[c] \in EnderStages
        /\ phase \in {"claimed", "removing"} => \E c \in Cmds : pc[c] \in Removals
        /\ phase = "gone" /\ worktree => \E c \in Cmds : pc[c] \in Comers

\* What is counted, and who brings a worktree.
LEMMA Counted ==
    ASSUME TypeInv, NEW c \in Cmds, CmdStep(c)
    PROVE  /\ crashes' = 0 => crashes = 0 /\ ~Crash(c)
           /\ ~rejected' => ~rejected /\ ~RejectCleanup(c)
           /\ worktree' => worktree \/ AddWorktree(c)
<1>0. crashes \in Nat
  BY BoundAssumption DEF TypeInv, TypeOK
<1>1. CASE Begins(c)
  <2>1. UNCHANGED <<crashes, rejected, worktree>>
    BY <1>1 DEF Begins, StartPlanReview, StartReview, StartWorker, StartIntegrate, StartCleanup, files, history
  <2>2. pc[c] = "idle"
    BY <1>1 DEF Begins, StartPlanReview, StartReview, StartWorker, StartIntegrate, StartCleanup, Begin
  <2> QED BY <2>1, <2>2 DEF Crash, RejectCleanup, Removals
<1>2. CASE Crash(c)
  BY <1>0, <1>2 DEF Crash, files, history, RejectCleanup
<1>3. CASE RejectCleanup(c)
  BY <1>0, <1>3 DEF RejectCleanup, files, counts, Crash
<1>4. CASE Asks(c) /\ ~Crash(c) /\ ~RejectCleanup(c)
  <2>1. UNCHANGED <<crashes, rejected, worktree>>
    BY <1>4 DEF Asks, PlanProbe, PlanNew, PlanCapture, PlanVerdict, PlanCreate, PlanWrite, PlanSync,
        BuildPacket, FinalProbe, FinalVerdict, FinalCreate, FinalWrite, FinalSync, files, counts, history
  <2> QED BY <1>4, <2>1
<1>5. CASE Works(c) /\ ~Crash(c) /\ ~RejectCleanup(c)
  <2>1. UNCHANGED <<crashes, rejected>> /\ (worktree' => worktree \/ AddWorktree(c))
    BY <1>5 DEF Works, ReadPlan, Capture, CheckPath, Launch, Deliver, SealBundle, AddWorktree, files, counts, history
  <2> QED BY <1>5, <2>1
<1>6. CASE Closes(c) /\ ~Crash(c) /\ ~RejectCleanup(c)
  <2>1. UNCHANGED crashes
    BY <1>6 DEF Closes, ReadApproval, CheckSource, Apply, Claim, WriteFails, Fail, files, counts, history
  <2>2. rejected => rejected'
    BY <1>6 DEF Closes, ReadApproval, CheckSource, Apply, Claim, WriteFails, Fail, files, counts, history
  <2>3. worktree' => worktree
    BY <1>6 DEF Closes, ReadApproval, CheckSource, Apply, Claim, WriteFails, Fail, files, counts, history
  <2> QED BY <1>6, <2>1, <2>2, <2>3
<1>7. CASE Removes(c) /\ ~Crash(c) /\ ~RejectCleanup(c)
  <2>1. UNCHANGED crashes
    BY <1>7 DEF Removes, RemoveWorktree, RemoveRoute, RemoveEvidence, RemoveBundle, RemoveManifest, counts, history
  <2>2. rejected => rejected'
    BY <1>7 DEF Removes, RemoveWorktree, RemoveRoute, RemoveEvidence, RemoveBundle, RemoveManifest, counts, history
  <2>3. worktree' => worktree
    BY <1>7 DEF Removes, RemoveWorktree, RemoveRoute, RemoveEvidence, RemoveBundle, RemoveManifest
  <2> QED BY <1>7, <2>1, <2>2, <2>3
<1> QED BY <1>1, <1>2, <1>3, <1>4, <1>5, <1>6, <1>7 DEF CmdStep

\* Who could clean up goes on, leaves evidence, or has begun to.
LEMMA EndersGoOn ==
    ASSUME TypeInv, EvidenceInv, NEW c \in Cmds, CmdStep(c), ~Crash(c), ~RejectCleanup(c),
           pc[c] \in EnderStages, phase' = "active"
    PROVE  pc'[c] \in EnderStages \/ Whole(plan)' \/ Whole(bundle)'
<1> USE DEF Goto, Step, Begin, End, TypeInv, EnderStages, PlanStages, WorkStages
<1>1. ~Begins(c)
  BY DEF Begins, StartPlanReview, StartReview, StartWorker, StartIntegrate, StartCleanup
<1>2. CASE PlanProbe(c) \/ PlanNew(c) \/ BuildPacket(c) \/ FinalProbe(c) \/ FinalVerdict(c)
  BY <1>2 DEF PlanProbe, PlanNew, BuildPacket, FinalProbe, FinalVerdict
<1>3. CASE PlanCapture(c) \/ PlanVerdict(c) \/ PlanCreate(c) \/ PlanWrite(c)
  BY <1>3 DEF PlanCapture, PlanVerdict, PlanCreate, PlanWrite
<1>4. CASE PlanSync(c)
  BY <1>4 DEF PlanSync, EvidenceInv, Knows, files, Whole
<1>5. CASE FinalCreate(c) \/ FinalWrite(c) \/ FinalSync(c) \/ ReadApproval(c) \/ CheckSource(c) \/ Apply(c)
  BY <1>5 DEF FinalCreate, FinalWrite, FinalSync, ReadApproval, CheckSource, Apply
<1>6. CASE ReadPlan(c) \/ Capture(c) \/ CheckPath(c) \/ AddWorktree(c) \/ Launch(c) \/ Deliver(c)
  BY <1>6 DEF ReadPlan, Capture, CheckPath, AddWorktree, Launch, Deliver
<1>7. CASE SealBundle(c)
  <2> DEFINE sealed == [state |-> "whole", of |-> mem[c].work]
  <2>1. sealed.state = "whole" /\ (bundle' = sealed \/ pc'[c] = "cleanup")
    BY <1>7 DEF SealBundle
  <2> HIDE DEF sealed
  <2> QED BY <2>1 DEF Whole
<1>8. CASE Claim(c)
  <2>1. phase = "active"
    BY <1>8 DEF Claim, Removed, Outside
  <2> QED BY <1>8, <2>1 DEF Claim
<1>9. CASE Removes(c)
  BY <1>9 DEF Removes, RemoveWorktree, RemoveRoute, RemoveEvidence, RemoveBundle, RemoveManifest
<1>10. CASE WriteFails(c) \/ Fail(c)
  BY <1>10 DEF WriteFails, Fail, Stages
<1> QED
  BY <1>1, <1>2, <1>3, <1>4, <1>5, <1>6, <1>7, <1>8, <1>9, <1>10 DEF CmdStep, Asks, Works, Closes

\* A removal that has begun goes on to its end.
LEMMA RemovalsGoOn ==
    ASSUME TypeInv, NEW c \in Cmds, CmdStep(c), ~Crash(c), ~RejectCleanup(c), pc[c] \in Removals
    PROVE  pc'[c] \in Removals \/ phase' = "gone"
<1> USE DEF Goto, Step, Begin, End, TypeInv, Removals
<1>1. ~Begins(c)
  BY DEF Begins, StartPlanReview, StartReview, StartWorker, StartIntegrate, StartCleanup
<1>2. ~Asks(c)
  BY DEF Asks, PlanProbe, PlanNew, PlanCapture, PlanVerdict, PlanCreate, PlanWrite, PlanSync,
      BuildPacket, FinalProbe, FinalVerdict, FinalCreate, FinalWrite, FinalSync
<1>3. ~Works(c)
  BY DEF Works, ReadPlan, Capture, CheckPath, AddWorktree, Launch, Deliver, SealBundle
<1>4. ~Closes(c)
  BY DEF Closes, ReadApproval, CheckSource, Apply, Claim, WriteFails, Fail, Stages
<1>5. CASE Removes(c)
  BY <1>5 DEF Removes, RemoveWorktree, RemoveRoute, RemoveEvidence, RemoveBundle, RemoveManifest
<1> QED BY <1>1, <1>2, <1>3, <1>4, <1>5 DEF CmdStep

\* Who comes too late goes on until it says so.
LEMMA ComersGoOn ==
    ASSUME TypeInv, NEW c \in Cmds, CmdStep(c), ~Crash(c), ~rejected', pc[c] \in Comers, phase = "gone"
    PROVE  pc'[c] \in Comers
<1> USE DEF Goto, Step, Begin, End, TypeInv, Comers
<1>1. ~Begins(c)
  BY DEF Begins, StartPlanReview, StartReview, StartWorker, StartIntegrate, StartCleanup
<1>2. ~Asks(c)
  BY DEF Asks, PlanProbe, PlanNew, PlanCapture, PlanVerdict, PlanCreate, PlanWrite, PlanSync,
      BuildPacket, FinalProbe, FinalVerdict, FinalCreate, FinalWrite, FinalSync
<1>3. CASE Works(c)
  BY <1>3 DEF Works, ReadPlan, Capture, CheckPath, AddWorktree, Launch, Deliver, SealBundle, Readable
<1>4. CASE Closes(c)
  BY <1>4 DEF Closes, ReadApproval, CheckSource, Apply, Claim, WriteFails, Fail, Stages
<1>5. ~Removes(c)
  BY DEF Removes, RemoveWorktree, RemoveRoute, RemoveEvidence, RemoveBundle, RemoveManifest, RejectCleanup, Removals
<1> QED BY <1>1, <1>2, <1>3, <1>4, <1>5 DEF CmdStep

\* Who makes the invocation will clean it up.
LEMMA MakersEnd ==
    ASSUME TypeInv, NEW c \in Cmds, CmdStep(c), phase = "none", phase' = "active"
    PROVE  pc'[c] \in EnderStages
<1>1. PlanNew(c) \/ \E p \in Plans : StartWorker(c, p, "lite")
  <2>1. Begins(c) => \E p \in Plans : StartWorker(c, p, "lite")
    BY DEF Begins, StartPlanReview, StartReview, StartWorker, StartIntegrate, StartCleanup, files, Readable
  <2>2. Asks(c) => PlanNew(c)
    BY DEF Asks, PlanProbe, PlanCapture, PlanVerdict, PlanCreate, PlanWrite, PlanSync,
        BuildPacket, FinalProbe, FinalVerdict, FinalCreate, FinalWrite, FinalSync, files
  <2>3. ~Works(c)
    BY DEF Works, ReadPlan, Capture, CheckPath, AddWorktree, Launch, Deliver, SealBundle, files
  <2>4. ~Closes(c)
    BY DEF Closes, ReadApproval, CheckSource, Apply, Claim, WriteFails, Fail, Crash, files
  <2>5. ~Removes(c)
    BY DEF Removes, RemoveWorktree, RemoveRoute, RemoveEvidence, RemoveBundle, RemoveManifest, RejectCleanup, files
  <2> QED BY <2>1, <2>2, <2>3, <2>4, <2>5 DEF CmdStep
<1> QED BY <1>1 DEF PlanNew, New, StartWorker, Begin, Step, Goto, TypeInv, EnderStages, PlanStages, WorkStages

LEMMA AttendedNext ==
    ASSUME TypeInv, EvidenceInv, Attended, NEW c \in Cmds, CmdStep(c) PROVE Attended'
<1> SUFFICES ASSUME crashes' = 0, ~rejected'
             PROVE  /\ phase' = "active" =>
                          Whole(bundle)' \/ Whole(plan)' \/ \E d \in Cmds : pc'[d] \in EnderStages
                    /\ phase' \in {"claimed", "removing"} => \E d \in Cmds : pc'[d] \in Removals
                    /\ phase' = "gone" /\ worktree' => \E d \in Cmds : pc'[d] \in Comers
  BY DEF Attended
<1>1. Stable /\ Goes(c)
  BY CmdStable, CmdGoes
<1>2. crashes = 0 /\ ~rejected /\ ~Crash(c) /\ ~RejectCleanup(c) /\ (worktree' => worktree \/ AddWorktree(c))
  BY Counted
<1>3. ASSUME phase' = "active", ~Whole(bundle)', ~Whole(plan)' PROVE \E d \in Cmds : pc'[d] \in EnderStages
  <2>1. CASE phase = "none"
    BY <1>3, <2>1, MakersEnd
  <2>2. CASE phase = "active" /\ Whole(plan)
    <3>1. WriteFails(c) /\ pc[c] \in {"plan_write", "plan_sync"}
      <4>1. plan' # plan /\ ~Creates(plan) /\ plan # Torn
        BY <1>3, <2>2 DEF Whole, Creates, None, Torn
      <4>2. ~RemoveEvidence(c)
        BY <1>3, RemovesUnread DEF Readable
      <4> QED BY <4>1, <4>2, Writers
    <3>2. pc'[c] = "cleanup"
      BY <3>1 DEF WriteFails, Step, Goto, TypeInv
    <3> QED BY <3>2 DEF EnderStages
  <2>3. CASE phase = "active" /\ ~Whole(plan)
    <3>1. ~Whole(bundle)
      BY <1>1, <1>3 DEF Stable, Readable, Whole
    <3>2. PICK e \in Cmds : pc[e] \in EnderStages
      BY <1>2, <2>3, <3>1 DEF Attended
    <3>3. CASE e = c
      BY <1>2, <1>3, <3>2, <3>3, EndersGoOn
    <3>4. CASE e # c
      BY <1>1, <3>2, <3>4 DEF Goes
    <3> QED BY <3>3, <3>4
  <2> QED BY <1>3, <2>1, <2>2, <2>3, Phases
<1>4. ASSUME phase' \in {"claimed", "removing"} PROVE \E d \in Cmds : pc'[d] \in Removals
  <2>1. CASE phase' = phase
    <3>1. PICK e \in Cmds : pc[e] \in Removals
      BY <1>2, <1>4, <2>1 DEF Attended
    <3>2. CASE e = c
      BY <1>2, <1>4, <3>1, <3>2, RemovalsGoOn
    <3>3. CASE e # c
      BY <1>1, <3>1, <3>3 DEF Goes
    <3> QED BY <3>2, <3>3
  <2>2. CASE Claim(c) /\ phase = "active"
    <3>1. pc'[c] = "rm_worktree"
      BY <2>2 DEF Claim, Goto, TypeInv
    <3> QED BY <3>1 DEF Removals
  <2>3. CASE RemoveRoute(c)
    <3>1. pc'[c] = "rm_evidence"
      BY <2>3 DEF RemoveRoute, Step, Goto, TypeInv
    <3> QED BY <3>1 DEF Removals
  <2> QED BY <1>4, <2>1, <2>2, <2>3, Phases
<1>5. ASSUME phase' = "gone", worktree' PROVE \E d \in Cmds : pc'[d] \in Comers
  <2>1. CASE AddWorktree(c)
    <3>1. pc'[c] \in {"launch", "cleanup"}
      BY <2>1 DEF AddWorktree, Step, Goto, TypeInv
    <3> QED BY <3>1 DEF Comers
  <2>2. CASE phase = "gone" /\ worktree
    <3>1. PICK e \in Cmds : pc[e] \in Comers
      BY <1>2, <2>2 DEF Attended
    <3>2. CASE e = c
      BY <1>2, <2>2, <3>1, <3>2, ComersGoOn
    <3>3. CASE e # c
      BY <1>1, <3>1, <3>3 DEF Goes
    <3> QED BY <3>2, <3>3
  <2>3. CASE RemoveManifest(c)
    BY <1>5, <2>3 DEF RemoveManifest
  <2> QED BY <1>2, <1>5, <2>1, <2>2, <2>3, Phases
<1> QED BY <1>3, <1>4, <1>5

LEMMA AttendedInvariant == Spec => []Attended
<1>1. Init => Attended
  BY DEF Init, Attended
<1>2. TypeInv /\ EvidenceInv /\ Attended /\ [Next]_vars => Attended'
  <2>1. UNCHANGED <<files, pc, crashes, rejected>> /\ Attended => Attended'
    BY DEF Attended, files, Whole
  <2> QED BY <2>1, Steps, AttendedNext DEF Edit, vars, counts, history
<1> QED BY <1>1, <1>2, TypeInvariant, EvidenceInvariant, PTL DEF Spec

\* Unless a command was killed or said that its cleanup was rejected, what is left
\* between commands is an approved plan or a sealed bundle, and otherwise nothing:
\* no directory, and no worktree that was added to one that is gone.
THEOREM LeavesNothing == Spec => []NothingLeftBehind
<1>1. ASSUME TypeInv, EvidenceInv, Attended PROVE NothingLeftBehind
  <2> SUFFICES ASSUME crashes = 0, ~rejected, \A c \in Cmds : pc[c] = "idle"
               PROVE  \/ phase = "none"
                      \/ phase = "gone" /\ ~worktree
                      \/ phase = "active" /\ (Whole(bundle) \/ (Whole(plan) /\ Says("plan", plan.of)))
    BY DEF NothingLeftBehind
  <2>1. phase \in {"none", "active", "claimed", "removing", "gone"}
    BY <1>1 DEF TypeInv, TypeOK
  <2>2. \A c \in Cmds : pc[c] \notin EnderStages \cup Removals \cup Comers
    BY DEF EnderStages, Removals, Comers, PlanStages, WorkStages
  <2>3. Whole(plan) => Says("plan", plan.of)
    BY <1>1 DEF EvidenceInv, FilesInv
  <2> QED BY <1>1, <2>1, <2>2, <2>3 DEF Attended
<1> QED BY <1>1, TypeInvariant, EvidenceInvariant, AttendedInvariant, PTL

\* A sealed bundle is lost only to who may end its invocation.  A plan-review that
\* cleans up after itself finds one only when its own approval, of the bundle's very
\* task, was read while it was being sealed.
THEOREM LostToConsumers == Spec => OnlyConsumers
<1>1. TypeInv /\ MakersInv /\ EvidenceInv /\ [Next]_vars =>
         [phase = "active" /\ phase' = "claimed" /\ Whole(bundle) =>
             \E c \in Cmds :
                /\ pc[c] = "cleanup"
                /\ \/ mem[c].cmd \in {"integrate", "cleanup", "worker"}
                   \/ /\ mem[c].cmd = "plan-review" /\ Says("plan", mem[c].packet)
                      /\ bundle.of.task = mem[c].packet.task]_vars
  <2> SUFFICES ASSUME TypeInv, MakersInv, EvidenceInv, [Next]_vars,
                      phase = "active", phase' = "claimed", Whole(bundle)
               PROVE  \E c \in Cmds :
                         /\ pc[c] = "cleanup"
                         /\ \/ mem[c].cmd \in {"integrate", "cleanup", "worker"}
                            \/ /\ mem[c].cmd = "plan-review" /\ Says("plan", mem[c].packet)
                               /\ bundle.of.task = mem[c].packet.task
    OBVIOUS
  <2>1. PICK c \in Cmds : CmdStep(c)
    BY Steps DEF Edit, vars, files
  <2>2. pc[c] = "cleanup" /\ mem[c].cmd \in {"plan-review", "worker", "integrate", "cleanup"}
    BY <2>1, Phases DEF Claim, MakersInv, Commands
  <2>3. ASSUME mem[c].cmd = "plan-review"
        PROVE  Says("plan", mem[c].packet) /\ bundle.of.task = mem[c].packet.task
    <3>1. PlanReviewing(c) /\ bundle.of.mode # "lite"
      BY <2>2, <2>3 DEF PlanReviewing, MakersInv, MadeOnce
    <3>2. PICK by \in Reviewers, main \in Mains :
             Says("plan", [task |-> bundle.of.task, snapshot |-> bundle.of.snapshot, main |-> main, by |-> by])
      BY <3>1 DEF EvidenceInv, FilesInv, Planned
    <3> DEFINE packet == [task |-> bundle.of.task, snapshot |-> bundle.of.snapshot, main |-> main, by |-> by]
               said == [on |-> "plan", packet |-> packet, decision |-> "approve"]
    <3>3. said \in PlanVerdicts /\ said.packet = packet /\ packet.task = bundle.of.task
      BY <3>2 DEF Says, PlanVerdicts
    <3>4. Says("plan", packet)
      BY <3>2
    <3> HIDE DEF said, packet
    <3>5. mem[c].packet = packet
      BY <3>1, <3>3 DEF MakersInv, OnePlan
    <3> QED BY <3>3, <3>4, <3>5
  <2> QED BY <2>2, <2>3
<1> QED BY <1>1, TypeInvariant, MakersInvariant, EvidenceInvariant, PTL DEF Spec, OnlyConsumers
=============================================================================
