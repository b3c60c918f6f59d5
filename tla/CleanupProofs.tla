---------------------------- MODULE CleanupProofs ----------------------------
(***************************************************************************)
(* Theorems about Cleanup, for any number of calls of cleanup_invocation   *)
(* at work together with any number of attempts to seal.                   *)
(*   1. the types;                                                         *)
(*   2. nothing is removed before a whole consumption receipt is there.    *)
(*      Until then the calls have touched nothing the attempts work on, so *)
(*      Seal's own invariant (SealProofs, the baton) is still inductive;   *)
(*   3. what the receipt records is so: its contents are gone for good;    *)
(*   4. what a racing attempt puts back it takes away again (CleanedUp).   *)
(***************************************************************************)
EXTENDS Cleanup, SealProofs

\* The removals come one after the other and end in the receipt's next state.
LEMMA RemovalsTyped ==
    /\ Entries \cup {"bundle"} = {"worktree", "route_state", "evidence", "bundle", "markers", "manifest"}
    /\ "bundle" \notin Entries
    /\ \A c \in Cleaners : at[c] \in Entries \cup {"bundle"} => NextRemoval(c) \in Ats
<1>1. DOMAIN Removals = 1 .. 6 /\ Len(Removals) = 6
  BY DEF Removals
<1>2. {Removals[i] : i \in DOMAIN Removals}
      = {"worktree", "route_state", "evidence", "bundle", "markers", "manifest"}
  <2>1. \A i \in 1 .. 6 : i = 1 \/ i = 2 \/ i = 3 \/ i = 4 \/ i = 5 \/ i = 6
    OBVIOUS
  <2>2. /\ Removals[1] = "worktree" /\ Removals[2] = "route_state" /\ Removals[3] = "evidence"
        /\ Removals[4] = "bundle" /\ Removals[5] = "markers" /\ Removals[6] = "manifest"
    BY DEF Removals
  <2>3. 1 \in 1 .. 6 /\ 2 \in 1 .. 6 /\ 3 \in 1 .. 6 /\ 4 \in 1 .. 6 /\ 5 \in 1 .. 6 /\ 6 \in 1 .. 6
    OBVIOUS
  <2> QED BY <1>1, <2>1, <2>2, <2>3
<1>3. Entries = {"worktree", "route_state", "evidence", "markers", "manifest"}
  BY <1>2 DEF Entries
<1>4. ASSUME NEW c \in Cleaners, at[c] \in Entries \cup {"bundle"} PROVE NextRemoval(c) \in Ats
  <2>1. \E i \in DOMAIN Removals : Removals[i] = at[c]
    BY <1>2, <1>3, <1>4
  <2>2. Position(c) \in 1 .. 6
    BY <1>1, <2>1 DEF Position
  <2>3. Position(c) # 6 => Position(c) + 1 \in 1 .. 6
    BY <2>2
  <2> QED BY <1>1, <2>3 DEF NextRemoval, Ats
<1> QED BY <1>2, <1>3, <1>4

\* What follows what.
LEMMA NextRemovals ==
    ASSUME NEW c \in Cleaners
    PROVE  /\ at[c] = "worktree" => NextRemoval(c) = "route_state"
           /\ at[c] = "route_state" => NextRemoval(c) = "evidence"
           /\ at[c] = "evidence" => NextRemoval(c) = "bundle"
           /\ at[c] = "bundle" => NextRemoval(c) = "markers"
           /\ at[c] = "markers" => NextRemoval(c) = "manifest"
           /\ at[c] = "manifest" => NextRemoval(c) = "contents_removed"
           /\ at[c] \in Entries \cup {"bundle"} => NextRemoval(c) # "write"
<1>1. /\ DOMAIN Removals = 1 .. 6 /\ Len(Removals) = 6
      /\ Removals[1] = "worktree" /\ Removals[2] = "route_state" /\ Removals[3] = "evidence"
      /\ Removals[4] = "bundle" /\ Removals[5] = "markers" /\ Removals[6] = "manifest"
  BY DEF Removals
<1>2. \A i \in 1 .. 6 : i = 1 \/ i = 2 \/ i = 3 \/ i = 4 \/ i = 5 \/ i = 6
  OBVIOUS
<1> DEFINE R == Removals
<1>3. ASSUME NEW i \in 1 .. 6, at[c] = R[i] PROVE Position(c) = i
  <2>1. \A j \in 1 .. 6 : R[j] = R[i] => j = i
    BY <1>1, <1>2
  <2>2. \A j \in DOMAIN Removals : Removals[j] = at[c] <=> j = i
    BY <1>1, <1>3, <2>1
  <2> QED BY <1>1, <2>2 DEF Position
<1>4. /\ 1 \in 1 .. 6 /\ 2 \in 1 .. 6 /\ 3 \in 1 .. 6 /\ 4 \in 1 .. 6 /\ 5 \in 1 .. 6 /\ 6 \in 1 .. 6
      /\ 1 + 1 = 2 /\ 2 + 1 = 3 /\ 3 + 1 = 4 /\ 4 + 1 = 5 /\ 5 + 1 = 6
      /\ 1 # 6 /\ 2 # 6 /\ 3 # 6 /\ 4 # 6 /\ 5 # 6
  OBVIOUS
<1>5. /\ at[c] = "worktree" => NextRemoval(c) = "route_state"
      /\ at[c] = "route_state" => NextRemoval(c) = "evidence"
      /\ at[c] = "evidence" => NextRemoval(c) = "bundle"
      /\ at[c] = "bundle" => NextRemoval(c) = "markers"
      /\ at[c] = "markers" => NextRemoval(c) = "manifest"
      /\ at[c] = "manifest" => NextRemoval(c) = "contents_removed"
  BY <1>1, <1>3, <1>4 DEF NextRemoval
<1> QED BY <1>5, RemovalsTyped

-----------------------------------------------------------------------------
(* Types.                                                                  *)

\* What the attempts leave alone, and the calls of cleanup_invocation.
CleanerTypes ==
    /\ root \in BOOLEAN /\ registered \in BOOLEAN /\ owned \subseteq Entries
    /\ receipt \in PhaseSet \cup {"torn"} \cup Cleaners
    /\ temp \in [Steps -> {"none", "whole"} \cup Cleaners]
    /\ at \in [Cleaners -> Ats]
    /\ phase \in [Cleaners -> PhaseSet]
    /\ listed \in [Cleaners -> BOOLEAN] /\ anchored \in [Cleaners -> BOOLEAN]
    /\ found \in [Cleaners -> File \cup {NoFile}]

LEMMA PhasesTyped == PhaseSet = {"none", "claimed", "contents_removed", "complete"}
<1>1. DOMAIN Phases = 1 .. 4
  BY DEF Phases
<1>2. \A i \in 1 .. 4 : i = 1 \/ i = 2 \/ i = 3 \/ i = 4
  OBVIOUS
<1>3. Phases[1] = "none" /\ Phases[2] = "claimed" /\ Phases[3] = "contents_removed" /\ Phases[4] = "complete"
  BY DEF Phases
<1>4. 1 \in 1 .. 4 /\ 2 \in 1 .. 4 /\ 3 \in 1 .. 4 /\ 4 \in 1 .. 4
  OBVIOUS
<1> QED BY <1>1, <1>2, <1>3, <1>4 DEF PhaseSet

LEMMA SealStepTypes ==
    ASSUME TypeOK, entered \subseteq Attempts, NEW p \in Attempts, SealStep(p) \/ SealTrouble(p)
    PROVE  TypeOK' /\ entered' \subseteq Attempts
<1>1. CASE Enter(p)
  <2>1. pc' = pc \/ pc' = [pc EXCEPT ![p] = "error"]
    BY <1>1 DEF Enter, Go
  <2>2. (pc \in [Attempts -> PCs])'
    BY <2>1 DEF TypeOK, PCs, Ended
  <2> QED BY <1>1, <2>2 DEF Enter, TypeOK
<1>2. CASE FailLayout(p)
  <2>1. (pc \in [Attempts -> PCs])' /\ (outcome \in [Attempts -> {"already", "error"}])'
    BY <1>2 DEF FailLayout, Undo, Go, TypeOK, PCs, Ended
  <2> QED BY <1>2, <2>1 DEF FailLayout, TypeOK
<1>3. CASE (Step(p) \/ FailWrite(p) \/ Kill(p)) /\ UNCHANGED entered
  BY <1>3, Types DEF Next
<1> QED BY <1>1, <1>2, <1>3 DEF SealStep, SealTrouble

\* A step of cleanup_invocation moves one call on.
LEMMA GotoTyped ==
    ASSUME CleanerTypes, NEW c \in Cleaners, NEW next \in Ats, Goto(c, next)
    PROVE  at' \in [Cleaners -> Ats]
  BY DEF CleanerTypes, Goto

LEMMA CleanStepTypes ==
    ASSUME TypeOK, CleanerTypes, entered \subseteq Attempts,
           NEW c \in Cleaners, CleanStep(c) \/ Trouble(c)
    PROVE  TypeOK' /\ CleanerTypes' /\ entered' \subseteq Attempts
<1> USE PhasesTyped
<1> DEFINE Quiet == UNCHANGED <<claim, final, bundle, flock, pc, seen, outcome, grabbed, entered>>
<1>1. ASSUME Quiet, UNCHANGED failures PROVE TypeOK' /\ entered' \subseteq Attempts
  BY <1>1 DEF TypeOK
<1>2. ASSUME sealing' = sealing PROVE TypeOK' /\ entered' \subseteq Attempts
  BY <1>1, <1>2 DEF sealing, vars, disk
<1>3. ASSUME Reject(c) PROVE at' \in [Cleaners -> Ats]
  BY <1>3 DEF Reject, Goto, CleanerTypes, Ats, Over
<1>4. ASSUME Load(c) PROVE TypeOK' /\ CleanerTypes' /\ entered' \subseteq Attempts
  BY <1>2, <1>4 DEF Load, CleanerTypes, Goto, Ats, Over, tree
<1>5. ASSUME Open(c) PROVE TypeOK' /\ CleanerTypes' /\ entered' \subseteq Attempts
  <2>1. (at \in [Cleaners -> Ats])'
    BY <1>5 DEF Open, CleanerTypes, Goto, Reject, Ats, Over
  <2>2. (phase \in [Cleaners -> PhaseSet] /\ anchored \in [Cleaners -> BOOLEAN])'
    BY <1>5 DEF Open, CleanerTypes
  <2> QED BY <1>2, <1>5, <2>1, <2>2 DEF Open, CleanerTypes, tree
<1>6. ASSUME List(c) PROVE TypeOK' /\ CleanerTypes' /\ entered' \subseteq Attempts
  <2>1. (at \in [Cleaners -> Ats])'
    BY <1>6 DEF List, CleanerTypes, Goto, Reject, Ats, Over
  <2>2. (listed \in [Cleaners -> BOOLEAN])'
    BY <1>6 DEF List, CleanerTypes
  <2> QED BY <1>2, <1>6, <2>1, <2>2 DEF List, CleanerTypes, tree
<1>7. ASSUME ClaimConsumption(c) PROVE TypeOK' /\ CleanerTypes' /\ entered' \subseteq Attempts
  <2>1. (at \in [Cleaners -> Ats])'
    BY <1>7 DEF ClaimConsumption, CleanerTypes, Goto, Reject, Ats, Over
  <2> QED BY <1>2, <1>7, <2>1 DEF ClaimConsumption, CleanerTypes, tree
<1>8. ASSUME WriteConsumption(c) PROVE TypeOK' /\ CleanerTypes' /\ entered' \subseteq Attempts
  <2>1. (at \in [Cleaners -> Ats])' /\ (phase \in [Cleaners -> PhaseSet])'
    BY <1>8 DEF WriteConsumption, CleanerTypes, Goto, Ats
  <2> QED BY <1>2, <1>8, <2>1 DEF WriteConsumption, CleanerTypes, tree
<1>9. ASSUME Unregister(c) PROVE TypeOK' /\ CleanerTypes' /\ entered' \subseteq Attempts
  <2>1. AfterGit(c) \in Ats
    <3>1. Removals[1] = "worktree"
      BY DEF Removals
    <3>2. {"finish", "look"} \subseteq Ats
      BY DEF Ats
    <3>3. "worktree" \in Ats
      BY RemovalsTyped DEF Ats, Entries
    <3> QED BY <3>1, <3>2, <3>3 DEF AfterGit
  <2>2. (at \in [Cleaners -> Ats])'
    BY <1>3, <1>9, <2>1, GotoTyped DEF Unregister
  <2>3. (root \in BOOLEAN /\ registered \in BOOLEAN /\ owned \subseteq Entries)'
    BY <1>9 DEF Unregister, CleanerTypes, tree
  <2> QED BY <1>2, <1>9, <2>2, <2>3 DEF Unregister, CleanerTypes
<1>10. ASSUME Remove(c) PROVE TypeOK' /\ CleanerTypes' /\ entered' \subseteq Attempts
  <2>1. (at \in [Cleaners -> Ats])'
    BY <1>3, <1>10, RemovalsTyped, GotoTyped DEF Remove
  <2>2. (owned \subseteq Entries)' /\ (bundle \in File \cup {NoFile})'
    BY <1>10 DEF Remove, CleanerTypes, TypeOK
  <2> QED BY <1>10, <2>1, <2>2 DEF Remove, CleanerTypes, TypeOK
<1>11. ASSUME NEW s \in Steps, CheckReceipt(c, s)
       PROVE  TypeOK' /\ CleanerTypes' /\ entered' \subseteq Attempts
  <2>1. (at \in [Cleaners -> Ats])'
    <3>1. Making(s) \in Ats
      BY DEF Making, Ats
    <3> QED BY <1>3, <1>11, <3>1, GotoTyped DEF CheckReceipt
  <2> QED BY <1>2, <1>11, <2>1 DEF CheckReceipt, CleanerTypes, tree
<1>12. ASSUME NEW s \in Steps, MakeTemp(c, s)
       PROVE  TypeOK' /\ CleanerTypes' /\ entered' \subseteq Attempts
  <2>1. (at \in [Cleaners -> Ats])'
    <3>1. Filling(s) \in Ats /\ Moving(s) \in Ats
      BY DEF Filling, Moving, Ats
    <3> QED BY <1>3, <1>12, <3>1, GotoTyped DEF MakeTemp
  <2>2. (temp \in [Steps -> {"none", "whole"} \cup Cleaners])'
    BY <1>12 DEF MakeTemp, CleanerTypes
  <2> QED BY <1>2, <1>12, <2>1, <2>2 DEF MakeTemp, CleanerTypes, tree
<1>13. ASSUME NEW s \in Steps, FillTemp(c, s)
       PROVE  TypeOK' /\ CleanerTypes' /\ entered' \subseteq Attempts
  <2>1. (at \in [Cleaners -> Ats])'
    <3>1. Moving(s) \in Ats
      BY DEF Moving, Ats
    <3> QED BY <1>13, <3>1, GotoTyped DEF FillTemp
  <2>2. (temp \in [Steps -> {"none", "whole"} \cup Cleaners])'
    BY <1>13 DEF FillTemp, CleanerTypes
  <2>3. (receipt \in PhaseSet \cup {"torn"} \cup Cleaners)'
    BY <1>13 DEF FillTemp, CleanerTypes, Steps
  <2> QED BY <1>2, <1>13, <2>1, <2>2, <2>3 DEF FillTemp, CleanerTypes, tree
<1>14. ASSUME NEW s \in Steps, MoveTemp(c, s)
       PROVE  TypeOK' /\ CleanerTypes' /\ entered' \subseteq Attempts
  <2>1. (at \in [Cleaners -> Ats])'
    <3>1. After(s) \in Ats
      BY DEF After, Ats, Over
    <3> QED BY <1>3, <1>14, <3>1, GotoTyped DEF MoveTemp
  <2>2. (temp \in [Steps -> {"none", "whole"} \cup Cleaners])'
    BY <1>14 DEF MoveTemp, CleanerTypes
  <2>3. (receipt \in PhaseSet \cup {"torn"} \cup Cleaners)'
    <3>1. temp[s] \in {"none", "whole"} \cup Cleaners
      BY DEF CleanerTypes
    <3> QED BY <1>14, <3>1 DEF MoveTemp, CleanerTypes, Steps
  <2>4. (phase \in [Cleaners -> PhaseSet])'
    BY <1>14 DEF MoveTemp, CleanerTypes, Steps
  <2> QED BY <1>2, <1>14, <2>1, <2>2, <2>3, <2>4 DEF MoveTemp, CleanerTypes, tree
<1>15. ASSUME LookSeal(c) PROVE TypeOK' /\ CleanerTypes' /\ entered' \subseteq Attempts
  <2>1. (at \in [Cleaners -> Ats])'
    <3>1. AfterSeal(c) \in Ats /\ "take" \in Ats /\ "take_final" \in Ats
      BY DEF AfterSeal, Ats
    <3> QED BY <1>15, <3>1, GotoTyped DEF LookSeal
  <2>2. (found \in [Cleaners -> File \cup {NoFile}])'
    <3>1. External(c) \in File \cup {NoFile}
      BY DEF External, TypeOK
    <3> QED BY <1>15, <3>1 DEF LookSeal, CleanerTypes
  <2> QED BY <1>2, <1>15, <2>1, <2>2 DEF LookSeal, CleanerTypes, tree
<1>16. ASSUME TakeSeal(c) PROVE TypeOK' /\ CleanerTypes' /\ entered' \subseteq Attempts
  <2>1. (at \in [Cleaners -> Ats])'
    <3>1. AfterSeal(c) \in Ats
      BY DEF AfterSeal, Ats
    <3> QED BY <1>3, <1>16, <3>1, GotoTyped DEF TakeSeal
  <2>2. (claim \in File \cup {NoFile} /\ final \in File \cup {NoFile})'
    BY <1>16 DEF TakeSeal, TypeOK
  <2> QED BY <1>16, <2>1, <2>2 DEF TakeSeal, CleanerTypes, TypeOK, tree
<1>17. ASSUME CheckAbsent(c) PROVE TypeOK' /\ CleanerTypes' /\ entered' \subseteq Attempts
  <2>1. (at \in [Cleaners -> Ats])'
    BY <1>17 DEF CheckAbsent, CleanerTypes, Goto, Reject, Ats, Over
  <2> QED BY <1>2, <1>17, <2>1 DEF CheckAbsent, CleanerTypes, tree
<1>18. ASSUME RemoveRoot(c) PROVE TypeOK' /\ CleanerTypes' /\ entered' \subseteq Attempts
  <2>1. (at \in [Cleaners -> Ats])'
    BY <1>18 DEF RemoveRoot, CleanerTypes, Goto, Reject, Ats, Over
  <2>2. (root \in BOOLEAN)'
    BY <1>18 DEF RemoveRoot, CleanerTypes
  <2> QED BY <1>2, <1>18, <2>1, <2>2 DEF RemoveRoot, CleanerTypes
<1>19. ASSUME Trouble(c) PROVE TypeOK' /\ CleanerTypes' /\ entered' \subseteq Attempts
  <2>1. (at \in [Cleaners -> Ats])'
    BY <1>19 DEF Trouble, CleanerTypes, Goto, Reject, Ats, Over
  <2>2. (receipt \in PhaseSet \cup {"torn"} \cup Cleaners)'
    BY <1>19 DEF Trouble, CleanerTypes
  <2>3. (temp \in [Steps -> {"none", "whole"} \cup Cleaners])'
    BY <1>19 DEF Trouble, CleanerTypes
  <2>4. (failures \in 0 .. MaxFailures)'
    BY <1>19, SealAssumption DEF Trouble, TypeOK
  <2> QED BY <1>19, <2>1, <2>2, <2>3, <2>4 DEF Trouble, CleanerTypes, TypeOK, tree
<1> QED BY <1>4, <1>5, <1>6, <1>7, <1>8, <1>9, <1>10, <1>11, <1>12, <1>13, <1>14, <1>15,
        <1>16, <1>17, <1>18, <1>19 DEF CleanStep

LEMMA CleanupTypesNext == CleanupTypeOK /\ [CleanupNext]_allvars => CleanupTypeOK'
<1> SUFFICES ASSUME CleanupTypeOK, [CleanupNext]_allvars PROVE CleanupTypeOK'
  OBVIOUS
<1>1. CleanupTypeOK <=> TypeOK /\ entered \subseteq Attempts /\ CleanerTypes
  BY DEF CleanupTypeOK, CleanerTypes
<1>2. CleanupTypeOK' <=> TypeOK' /\ entered' \subseteq Attempts /\ CleanerTypes'
  BY DEF CleanupTypeOK, CleanerTypes
<1>3. ASSUME NEW p \in Attempts, SealStep(p) \/ SealTrouble(p),
             UNCHANGED <<tree, receipt, temp, program>>
      PROVE  CleanupTypeOK'
  <2>1. CleanerTypes'
    BY <1>1, <1>3 DEF CleanerTypes, tree, program
  <2> QED BY <1>1, <1>2, <1>3, <2>1, SealStepTypes
<1>4. ASSUME NEW c \in Cleaners, CleanStep(c) \/ Trouble(c) PROVE CleanupTypeOK'
  BY <1>1, <1>2, <1>4, CleanStepTypes
<1>5. CASE UNCHANGED allvars
  BY <1>1, <1>2, <1>5 DEF allvars, sealing, vars, disk, tree, program, TypeOK, CleanerTypes
<1> QED BY <1>3, <1>4, <1>5 DEF CleanupNext

LEMMA CleanupTypesInit == CleanupInit => CleanupTypeOK
<1> SUFFICES ASSUME CleanupInit PROVE CleanupTypeOK
  OBVIOUS
<1>1. TypeOK
  BY BatonAtFirst DEF CleanupInit, IInv
<1>2. CleanerTypes
  BY PhasesTyped, RemovalsTyped DEF CleanupInit, CleanerTypes, Ats, Steps
<1> QED BY <1>1, <1>2 DEF CleanupInit, CleanupTypeOK, CleanerTypes

\* The receipt, its temporary files, the resources and every call of
\* cleanup_invocation keep their types, and so does all that Seal speaks of.
THEOREM CleanupTypes == CleanupSpec => []CleanupTypeOK
  BY CleanupTypesInit, CleanupTypesNext, PTL DEF CleanupSpec

-----------------------------------------------------------------------------
(* Nothing is removed before a whole receipt is there.                     *)

\* no claim on the invocation has been written yet
Fresh == receipt \in {"none", "torn"}
Prelude == {"load", "open", "list", "claim", "write"} \cup Over

\* Until then every call is in its prelude, so the resources are untouched and
\* the attempts are among themselves, with Seal's invariant.  At most one call
\* writes the claim; from the moment it is written the receipt is fresh no more.
FirstInv ==
    /\ \A c \in Cleaners : phase[c] = "none" => at[c] \in Prelude
    /\ Fresh => Intact /\ IInv /\ \A c \in Cleaners : phase[c] = "none"
    /\ \A c \in Cleaners : at[c] = "write" => receipt = "torn" /\ phase[c] = "none"
    /\ \A c, d \in Cleaners : at[c] = "write" /\ at[d] = "write" => c = d

\* An attempt works in an intact layout as it does in Seal.
LEMMA SealStepsAlone ==
    ASSUME Intact, IInv, NEW p \in Attempts, SealStep(p) \/ SealTrouble(p)
    PROVE  IInv'
<1>1. CASE Enter(p)
  <2>1. UNCHANGED vars
    BY <1>1 DEF Enter, vars, disk
  <2> QED BY <2>1, BatonPassed
<1>2. CASE FailLayout(p)
  BY <1>2 DEF FailLayout, Intact
<1>3. CASE Step(p) \/ FailWrite(p) \/ Kill(p)
  BY <1>3, BatonPassed DEF Next
<1> QED BY <1>1, <1>2, <1>3 DEF SealStep, SealTrouble

\* A call that leaves Seal's state alone leaves its invariant alone; an error
\* of the call counts against the same bound.
LEMMA BatonUndisturbed ==
    ASSUME IInv, UNCHANGED <<claim, final, bundle, flock, pc, seen, outcome, grabbed>>,
           failures' \in 0 .. MaxFailures
    PROVE  IInv'
<1>1. TypeOK'
  BY DEF IInv, TypeOK
<1>2. Baton => Baton'
  BY DEF Baton, Written, Owned, Recovered, Files
<1> QED BY <1>1, <1>2 DEF IInv

\* A step of cleanup_invocation up to the written claim: what it may touch.
LEMMA PreludeStep ==
    ASSUME CleanupTypeOK, FirstInv, NEW c \in Cleaners, CleanStep(c) \/ Trouble(c),
           phase[c] = "none"
    PROVE  /\ UNCHANGED <<claim, final, bundle, flock, pc, seen, outcome, grabbed>>
           /\ UNCHANGED tree
           /\ failures' \in 0 .. MaxFailures
           /\ \/ Load(c) \/ Open(c) \/ List(c) \/ ClaimConsumption(c) \/ WriteConsumption(c)
              \/ Trouble(c)
<1>1. at[c] \in Prelude
  BY DEF FirstInv
<1>2. ASSUME Unregister(c) \/ Remove(c) \/ LookSeal(c) \/ TakeSeal(c) \/ CheckAbsent(c) \/ RemoveRoot(c)
      PROVE  FALSE
  BY <1>1, <1>2, RemovalsTyped DEF Unregister, Remove, LookSeal, TakeSeal, CheckAbsent, RemoveRoot,
      Prelude, Over
<1>3. ASSUME NEW s \in Steps, CheckReceipt(c, s) \/ MakeTemp(c, s) \/ FillTemp(c, s) \/ MoveTemp(c, s)
      PROVE  FALSE
  BY <1>1, <1>3 DEF CheckReceipt, MakeTemp, FillTemp, MoveTemp, Making, Filling, Moving, Steps,
      Prelude, Over
<1>4. Load(c) \/ Open(c) \/ List(c) \/ ClaimConsumption(c) \/ WriteConsumption(c) \/ Trouble(c)
  BY <1>2, <1>3 DEF CleanStep
<1>5. failures' \in 0 .. MaxFailures
  BY <1>4, SealAssumption DEF Load, Open, List, ClaimConsumption, WriteConsumption, Trouble,
      sealing, vars, disk, CleanupTypeOK, TypeOK
<1> QED BY <1>4, <1>5 DEF Load, Open, List, ClaimConsumption, WriteConsumption, Trouble,
        sealing, vars, disk, tree

\* A receipt that says something says something ever after.
LEMMA NotFreshAgain ==
    ASSUME CleanupTypeOK, FirstInv, NEW c \in Cleaners, CleanStep(c) \/ Trouble(c), ~ Fresh
    PROVE  ~ Fresh'
<1> USE CleanersAssumption
<1>1. at[c] # "write"
  BY DEF FirstInv, Fresh
<1>2. CASE UNCHANGED receipt
  BY <1>2 DEF Fresh
<1>3. ASSUME NEW s \in Steps, FillTemp(c, s) PROVE ~ Fresh'
  BY <1>3 DEF FillTemp, Fresh, Steps
<1>4. ASSUME NEW s \in Steps, MoveTemp(c, s) PROVE ~ Fresh'
  <2>1. temp[s] \in {"none", "whole"} \cup Cleaners
    BY DEF CleanupTypeOK
  <2> QED BY <1>4, <2>1 DEF MoveTemp, Fresh, Steps
<1>5. ASSUME ClaimConsumption(c) PROVE UNCHANGED receipt
  BY <1>5 DEF ClaimConsumption, Fresh
<1>6. ASSUME WriteConsumption(c) \/ Trouble(c) PROVE UNCHANGED receipt
  BY <1>1, <1>6 DEF WriteConsumption, Trouble
<1>7. ASSUME \/ Load(c) \/ Open(c) \/ List(c) \/ Unregister(c) \/ Remove(c)
             \/ LookSeal(c) \/ TakeSeal(c) \/ CheckAbsent(c) \/ RemoveRoot(c)
             \/ \E s \in Steps : CheckReceipt(c, s) \/ MakeTemp(c, s)
      PROVE  UNCHANGED receipt
  BY <1>7 DEF Load, Open, List, Unregister, Remove, CheckReceipt, MakeTemp, LookSeal, TakeSeal,
      CheckAbsent, RemoveRoot
<1> QED BY <1>2, <1>3, <1>4, <1>5, <1>6, <1>7 DEF CleanStep

\* What a step does to the phase and place of the call that takes it.
LEMMA PhaseStep ==
    ASSUME CleanupTypeOK, FirstInv, NEW c \in Cleaners, CleanStep(c) \/ Trouble(c)
    PROVE  /\ \A d \in Cleaners \ {c} : at'[d] = at[d] /\ phase'[d] = phase[d]
           /\ phase'[c] = "none" => phase[c] = "none" /\ at'[c] \in Prelude
           /\ phase[c] = "none" /\ phase'[c] # "none" => ~ Fresh'
           /\ at'[c] = "write" => /\ ClaimConsumption(c) /\ receipt = "none"
                                  /\ receipt' = "torn" /\ phase'[c] = "none"
<1> USE CleanersAssumption, PhasesTyped
<1>0. at \in [Cleaners -> Ats] /\ phase \in [Cleaners -> PhaseSet]
  BY DEF CleanupTypeOK
<1>1. \A d \in Cleaners \ {c} : at'[d] = at[d] /\ phase'[d] = phase[d]
  <2>1. \E next : at' = [at EXCEPT ![c] = next]
    <3>1. CASE Trouble(c)
      BY <3>1, Zenon DEF Trouble, Goto, Reject
    <3>2. CASE CleanStep(c)
      <4>1. ASSUME NEW s \in Steps,
                   CheckReceipt(c, s) \/ MakeTemp(c, s) \/ FillTemp(c, s) \/ MoveTemp(c, s)
            PROVE  \E next : at' = [at EXCEPT ![c] = next]
        BY <4>1, Zenon DEF CheckReceipt, MakeTemp, FillTemp, MoveTemp, Goto, Reject
      <4>2. ASSUME \/ Load(c) \/ Open(c) \/ List(c) \/ ClaimConsumption(c)
                   \/ WriteConsumption(c) \/ Unregister(c) \/ Remove(c) \/ LookSeal(c)
                   \/ TakeSeal(c) \/ CheckAbsent(c) \/ RemoveRoot(c)
            PROVE  \E next : at' = [at EXCEPT ![c] = next]
        BY <4>2, Zenon DEF Load, Open, List, ClaimConsumption, WriteConsumption, Unregister,
            Remove, LookSeal, TakeSeal, CheckAbsent, RemoveRoot, Goto, Reject
      <4> QED BY <3>2, <4>1, <4>2 DEF CleanStep
    <3> QED BY <3>1, <3>2
  <2>2. \E ph : phase' = [phase EXCEPT ![c] = ph] \/ phase' = phase
    BY DEF CleanStep, Trouble, Load, Open, List, ClaimConsumption, WriteConsumption, Unregister,
        Remove, CheckReceipt, MakeTemp, FillTemp, MoveTemp, LookSeal, TakeSeal, CheckAbsent,
        RemoveRoot
  <2> QED BY <1>0, <2>1, <2>2
<1>2. ASSUME phase[c] = "none"
      PROVE  /\ phase'[c] = "none" => at'[c] \in Prelude
             /\ phase'[c] # "none" => ~ Fresh'
             /\ at'[c] = "write" => /\ ClaimConsumption(c) /\ receipt = "none"
                                    /\ receipt' = "torn" /\ phase'[c] = "none"
  <2>1. CASE Load(c)
    BY <1>0, <1>2, <2>1 DEF Load, Goto, Prelude, Over
  <2>2. CASE Open(c)
    BY <1>0, <1>2, <2>2 DEF Open, Goto, Reject, Prelude, Over, Fresh
  <2>3. CASE List(c)
    BY <1>0, <1>2, <2>3 DEF List, Goto, Reject, Prelude, Over
  <2>4. CASE ClaimConsumption(c)
    BY <1>0, <1>2, <2>4 DEF ClaimConsumption, Goto, Reject, Prelude, Over
  <2>5. CASE WriteConsumption(c)
    BY <1>0, <1>2, <2>5 DEF WriteConsumption, Goto, Fresh
  <2>6. CASE Trouble(c)
    BY <1>0, <1>2, <2>6 DEF Trouble, Goto, Reject, Prelude, Over
  <2> QED BY <1>2, <2>1, <2>2, <2>3, <2>4, <2>5, <2>6, PreludeStep
<1>3. ASSUME phase[c] # "none" PROVE phase'[c] # "none" /\ at'[c] # "write"
  <2>1. at[c] # "write"
    BY <1>3 DEF FirstInv
  <2>2. CASE Open(c)
    <3>1. receipt \in {"none"} => phase'[c] # "none" /\ at'[c] # "write"
      BY <1>3 DEF FirstInv, Fresh
    <3> QED BY <1>0, <1>3, <2>2, <3>1 DEF Open, Goto, Reject
  <2>3. CASE List(c)
    BY <1>0, <1>3, <2>3 DEF List, Goto, Reject
  <2>4. CASE ClaimConsumption(c)
    <3>1. receipt # "none"
      BY <1>3 DEF FirstInv, Fresh
    <3> QED BY <1>0, <1>3, <2>4, <3>1 DEF ClaimConsumption, Goto, Reject
  <2>5. CASE Load(c) \/ WriteConsumption(c)
    BY <1>0, <1>3, <2>1, <2>5 DEF Load, WriteConsumption, Goto
  <2>6. CASE Remove(c)
    <3>1. NextRemoval(c) # "write"
      BY <2>6, NextRemovals DEF Remove
    <3> QED BY <1>0, <1>3, <2>6, <3>1 DEF Remove, Goto, Reject
  <2>7. CASE Unregister(c)
    <3>1. Removals[1] = "worktree"
      BY DEF Removals
    <3> QED BY <1>0, <1>3, <2>7, <3>1 DEF Unregister, AfterGit, Goto, Reject
  <2>8. CASE LookSeal(c) \/ TakeSeal(c) \/ CheckAbsent(c) \/ RemoveRoot(c)
    BY <1>0, <1>3, <2>8 DEF LookSeal, TakeSeal, CheckAbsent, RemoveRoot, AfterSeal, Goto, Reject
  <2>9. ASSUME NEW s \in Steps, CheckReceipt(c, s) \/ MakeTemp(c, s) \/ FillTemp(c, s)
        PROVE  phase'[c] # "none" /\ at'[c] # "write"
    BY <1>0, <1>3, <2>9 DEF CheckReceipt, MakeTemp, FillTemp, Making, Filling, Moving, Goto, Reject
  <2>10. ASSUME NEW s \in Steps, MoveTemp(c, s)
         PROVE  phase'[c] # "none" /\ at'[c] # "write"
    BY <1>0, <1>3, <2>10 DEF MoveTemp, Steps, After, Goto, Reject
  <2>11. CASE Trouble(c)
    BY <1>0, <1>3, <2>11 DEF Trouble, Goto, Reject
  <2> QED BY <2>2, <2>3, <2>4, <2>5, <2>6, <2>7, <2>8, <2>9, <2>10, <2>11 DEF CleanStep
<1> QED BY <1>1, <1>2, <1>3

LEMMA FirstNext == CleanupTypeOK /\ FirstInv /\ [CleanupNext]_allvars => FirstInv'
<1> SUFFICES ASSUME CleanupTypeOK, FirstInv, [CleanupNext]_allvars PROVE FirstInv'
  OBVIOUS
<1>1. ASSUME NEW p \in Attempts, SealStep(p) \/ SealTrouble(p),
             UNCHANGED <<tree, receipt, temp, program>>
      PROVE  FirstInv'
  <2>1. UNCHANGED <<at, phase, receipt, root, owned>>
    BY <1>1 DEF tree, program
  <2>2. Fresh => IInv'
    BY <1>1, SealStepsAlone DEF FirstInv
  <2> QED BY <2>1, <2>2 DEF FirstInv, Fresh, Intact
<1>2. ASSUME NEW c \in Cleaners, CleanStep(c) \/ Trouble(c) PROVE FirstInv'
  <2>1. \A d \in Cleaners : phase'[d] = "none" => at'[d] \in Prelude
    BY <1>2, PhaseStep DEF FirstInv
  <2>2. Fresh' => Fresh
    BY <1>2, NotFreshAgain
  <2>3. ASSUME Fresh' PROVE Intact' /\ IInv' /\ \A d \in Cleaners : phase'[d] = "none"
    <3>1. Intact /\ IInv /\ \A d \in Cleaners : phase[d] = "none"
      BY <2>2, <2>3 DEF FirstInv
    <3>2. Intact'
      BY <1>2, <3>1, PreludeStep DEF Intact, tree
    <3>3. IInv'
      BY <1>2, <3>1, PreludeStep, BatonUndisturbed
    <3>4. \A d \in Cleaners : phase'[d] = "none"
      BY <1>2, <2>3, <3>1, PhaseStep
    <3> QED BY <3>2, <3>3, <3>4
  <2>4. ASSUME NEW d \in Cleaners, at'[d] = "write" PROVE receipt' = "torn" /\ phase'[d] = "none"
    <3>1. CASE d = c
      BY <1>2, <2>4, <3>1, PhaseStep
    <3>2. CASE d # c
      <4>1. at[d] = "write" /\ phase'[d] = phase[d]
        BY <1>2, <2>4, <3>2, PhaseStep
      <4>2. receipt = "torn" /\ phase[d] = "none" /\ phase[c] = "none" /\ at[c] # "write"
        BY <3>2, <4>1 DEF FirstInv, Fresh
      <4>3. UNCHANGED receipt
        <5>1. ASSUME WriteConsumption(c) PROVE FALSE
          BY <4>2, <5>1 DEF WriteConsumption
        <5>2. CASE ClaimConsumption(c) \/ Load(c) \/ Open(c) \/ List(c) \/ Trouble(c)
          BY <4>2, <5>2 DEF ClaimConsumption, Load, Open, List, Trouble
        <5> QED BY <1>2, <4>2, <5>1, <5>2, PreludeStep
      <4> QED BY <4>1, <4>2, <4>3
    <3> QED BY <3>1, <3>2
  <2>5. ASSUME NEW d \in Cleaners, NEW b \in Cleaners, at'[d] = "write", at'[b] = "write"
        PROVE  d = b
    <3>1. \A x \in Cleaners \ {c} : at'[x] = "write" => at[x] = "write" /\ receipt = "torn"
      BY <1>2, PhaseStep DEF FirstInv
    <3>2. at'[c] = "write" => receipt = "none"
      BY <1>2, PhaseStep
    <3>3. CASE d = c \/ b = c
      BY <2>5, <3>1, <3>2, <3>3
    <3>4. CASE d # c /\ b # c
      BY <2>5, <3>1, <3>4 DEF FirstInv
    <3> QED BY <3>3, <3>4
  <2> QED BY <2>1, <2>3, <2>4, <2>5 DEF FirstInv
<1>3. CASE UNCHANGED allvars
  <2>1. UNCHANGED <<at, phase, receipt, root, owned>> /\ UNCHANGED vars
    BY <1>3 DEF allvars, sealing, tree, program
  <2>2. IInv => IInv'
    BY <2>1, BatonPassed
  <2> QED BY <2>1, <2>2 DEF FirstInv, Fresh, Intact
<1> QED BY <1>1, <1>2, <1>3 DEF CleanupNext

LEMMA FirstInit == CleanupInit => FirstInv
<1> SUFFICES ASSUME CleanupInit PROVE FirstInv
  OBVIOUS
<1>1. IInv
  BY BatonAtFirst DEF CleanupInit
<1>2. Intact
  BY RemovalsTyped DEF CleanupInit, Intact
<1> QED BY <1>1, <1>2 DEF CleanupInit, FirstInv, Prelude, Fresh

LEMMA FirstInvariant == CleanupSpec => []FirstInv
  BY FirstInit, FirstNext, CleanupTypes, PTL DEF CleanupSpec

\* However many calls of cleanup_invocation race each other and the attempts to
\* seal, and wherever they are killed: until one of them has written its claim
\* the layout is intact, and what a caller was told is sealed is there.
THEOREM ClaimBeforeRemoval == CleanupSpec => []ClaimedFirst
<1>1. FirstInv => ClaimedFirst
  <2> SUFFICES ASSUME FirstInv, Fresh PROVE Intact /\ SuccessKept
    BY DEF ClaimedFirst, Fresh
  <2>1. Intact /\ IInv
    BY DEF FirstInv
  <2>2. SuccessKept
    BY <2>1, SealAssumption, NoFileAssumption DEF IInv, TypeOK, File, Contents, Baton, Files, Made, SuccessKept
  <2> QED BY <2>1, <2>2
<1> QED BY <1>1, FirstInvariant, PTL

-----------------------------------------------------------------------------
(* What the receipt records.                                               *)

\* the entries that may be left when a call comes to a removal
Left == [worktree    |-> Entries,
         route_state |-> Entries \ {"worktree"},
         evidence    |-> {"evidence", "markers", "manifest"},
         bundle      |-> {"markers", "manifest"},
         markers     |-> {"markers", "manifest"},
         manifest    |-> {"manifest"}]

AfterContents == {"contents_removed", "make_contents", "fill_contents", "move_contents",
                  "make_complete", "fill_complete", "move_complete", "cleaned"}

\* The entries go in their order and none comes back; so when a call makes,
\* moves or finds a receipt that says they are gone, they are.
ContentsGone ==
    /\ \A c \in Cleaners : at[c] \in DOMAIN Left => owned \subseteq Left[at[c]]
    /\ \A c \in Cleaners : at[c] \in AfterContents => owned = {}
    /\ \A s \in Steps : temp[s] # "none" => owned = {}
    /\ receipt \in {"contents_removed", "complete"} \cup Cleaners => owned = {}

\* A call goes on past git only when the worktree is not registered any more.
Unregistered ==
    \A c \in Cleaners :
        /\ at[c] \in {"claim", "write", "unregister"} /\ ~listed[c] => ~registered
        /\ at[c] \notin Prelude \cup {"unregister"} \/ at[c] = "cleaned" => ~registered

LEMMA LeftTyped ==
    /\ DOMAIN Left = Entries \cup {"bundle"}
    /\ Left["worktree"] = Entries /\ Left["route_state"] = Entries \ {"worktree"}
    /\ Left["evidence"] = {"evidence", "markers", "manifest"}
    /\ Left["bundle"] = {"markers", "manifest"} /\ Left["markers"] = {"markers", "manifest"}
    /\ Left["manifest"] = {"manifest"}
  BY RemovalsTyped DEF Left

\* What a step does to the resources: they only dwindle.
LEMMA TreeDwindles ==
    ASSUME NEW c \in Cleaners, CleanStep(c) \/ Trouble(c)
    PROVE  owned' \subseteq owned /\ (registered' => registered)
<1>1. CASE Unregister(c)
  BY <1>1 DEF Unregister, tree
<1>2. CASE Remove(c)
  BY <1>2 DEF Remove
<1>3. ASSUME NEW s \in Steps, CheckReceipt(c, s) \/ MakeTemp(c, s) \/ FillTemp(c, s) \/ MoveTemp(c, s)
      PROVE  UNCHANGED <<owned, registered>>
  BY <1>3 DEF CheckReceipt, MakeTemp, FillTemp, MoveTemp, tree
<1>4. ASSUME \/ Load(c) \/ Open(c) \/ List(c) \/ ClaimConsumption(c) \/ WriteConsumption(c)
             \/ LookSeal(c) \/ TakeSeal(c) \/ CheckAbsent(c) \/ RemoveRoot(c) \/ Trouble(c)
      PROVE  UNCHANGED <<owned, registered>>
  BY <1>4 DEF Load, Open, List, ClaimConsumption, WriteConsumption, LookSeal, TakeSeal,
      CheckAbsent, RemoveRoot, Trouble, tree
<1> QED BY <1>1, <1>2, <1>3, <1>4 DEF CleanStep

\* Where a call comes from when it gets to a removal, past the removals, or
\* past git.
LEMMA PlaceStep ==
    ASSUME CleanupTypeOK, NEW c \in Cleaners, CleanStep(c) \/ Trouble(c)
    PROVE  /\ at'[c] \in Entries \cup {"bundle"} =>
                 \/ at'[c] = "worktree"
                 \/ at[c] \in Entries \cup {"bundle"} /\ at'[c] = NextRemoval(c) /\ owned' = owned \ {at[c]}
           /\ at'[c] \in AfterContents =>
                 \/ at[c] \in AfterContents
                 \/ receipt = "contents_removed"
                 \/ at[c] = "manifest" /\ owned' = owned \ {at[c]}
           /\ at'[c] \in {"claim", "write", "unregister"} /\ ~ listed'[c] =>
                 \/ ~ registered
                 \/ at[c] \in {"claim", "write", "unregister"} /\ ~ listed[c]
           /\ at'[c] \notin Prelude \cup {"unregister"} \/ at'[c] = "cleaned" =>
                 \/ at[c] \notin Prelude \cup {"unregister"} \/ at[c] = "cleaned"
                 \/ at[c] = "unregister" /\ ~ listed[c]
                 \/ ~ registered'
<1> DEFINE Removal == Entries \cup {"bundle"}
<1>0. at \in [Cleaners -> Ats] /\ listed \in [Cleaners -> BOOLEAN]
  BY DEF CleanupTypeOK
<1>1. Removal = {"worktree", "route_state", "evidence", "bundle", "markers", "manifest"}
  BY RemovalsTyped
<1>2. CASE Unregister(c)
  <2>1. AfterGit(c) \in {"finish", "worktree", "look"}
    BY DEF AfterGit, Removals
  <2>2. at[c] = "unregister" /\ listed' = listed
    BY <1>2 DEF Unregister
  <2>3. at'[c] = "rejected" \/ (at'[c] = AfterGit(c) /\ (~ listed[c] \/ ~ registered'))
    BY <1>0, <1>2 DEF Unregister, Goto, Reject
  <2> QED BY <1>1, <2>1, <2>2, <2>3 DEF AfterContents, Prelude, Over
<1>3. CASE Remove(c)
  <2>1. at[c] \in Removal
    BY <1>3 DEF Remove
  <2>2. at'[c] = "rejected" \/ (at'[c] = NextRemoval(c) /\ owned' = owned \ {at[c]})
    BY <1>0, <1>3 DEF Remove, Goto, Reject
  <2>3. /\ NextRemoval(c) \in {"route_state", "evidence", "bundle", "markers", "manifest", "contents_removed"}
        /\ NextRemoval(c) = "contents_removed" => at[c] = "manifest"
    BY <1>1, <2>1, NextRemovals
  <2> QED BY <1>1, <2>1, <2>2, <2>3 DEF AfterContents, Prelude, Over
<1>4. ASSUME NEW s \in Steps, CheckReceipt(c, s)
      PROVE  /\ at'[c] \in {"rejected", Making(s)} /\ at[c] \in {"finish", "contents_removed"}
             /\ at'[c] = "make_complete" => receipt = "contents_removed"
             /\ at'[c] = "make_contents" => at[c] = "contents_removed"
  BY <1>0, <1>4 DEF CheckReceipt, Goto, Reject, Making, Before, Steps
<1>5. CASE \E s \in Steps : CheckReceipt(c, s)
  BY <1>1, <1>4, <1>5 DEF Making, AfterContents, Prelude, Over
<1>6. ASSUME NEW s \in Steps, MakeTemp(c, s) \/ FillTemp(c, s) \/ MoveTemp(c, s)
      PROVE  /\ at'[c] \in {"rejected", Filling(s), Moving(s), After(s)}
             /\ at[c] \in {Making(s), Filling(s), Moving(s)}
  BY <1>0, <1>6 DEF MakeTemp, FillTemp, MoveTemp, Goto, Reject
<1>7. CASE \E s \in Steps : MakeTemp(c, s) \/ FillTemp(c, s) \/ MoveTemp(c, s)
  <2>1. PICK s \in Steps : MakeTemp(c, s) \/ FillTemp(c, s) \/ MoveTemp(c, s)
    BY <1>7
  <2>2. at[c] \in {"make_contents", "make_complete", "fill_contents", "fill_complete",
                   "move_contents", "move_complete"}
    BY <1>6, <2>1 DEF Making, Filling, Moving
  <2>3. at'[c] \in {"rejected", "fill_contents", "fill_complete", "move_contents",
                    "move_complete", "look", "cleaned"}
    BY <1>6, <2>1 DEF Filling, Moving, After
  <2> QED BY <1>1, <2>2, <2>3 DEF AfterContents, Prelude, Over
<1>8. CASE LookSeal(c) \/ TakeSeal(c) \/ CheckAbsent(c) \/ RemoveRoot(c)
  <2>1. at[c] \in {"look", "take", "look_final", "take_final", "absent", "rmdir"}
    BY <1>8 DEF LookSeal, TakeSeal, CheckAbsent, RemoveRoot
  <2>2. at'[c] \in {"take", "look_final", "take_final", "absent", "rmdir", "finish", "rejected"}
    BY <1>0, <1>8 DEF LookSeal, TakeSeal, CheckAbsent, RemoveRoot, AfterSeal, Goto, Reject
  <2> QED BY <1>1, <2>1, <2>2 DEF AfterContents, Prelude, Over
<1>9. CASE Trouble(c)
  <2>1. at'[c] \in {"dead", "rejected"}
    BY <1>0, <1>9 DEF Trouble, Goto, Reject
  <2> QED BY <1>1, <2>1 DEF AfterContents, Prelude, Over
<1>10. CASE Load(c) \/ Open(c)
  <2>1. at'[c] \in {"open", "unavailable", "rejected", "already_consumed", "list"}
    BY <1>0, <1>10 DEF Load, Open, Goto, Reject
  <2> QED BY <1>1, <2>1 DEF AfterContents, Prelude, Over
<1>11. CASE List(c)
  <2>1. at'[c] \in {"claim", "unregister", "rejected"} /\ listed'[c] = registered
    BY <1>0, <1>11 DEF List, Goto, Reject
  <2> QED BY <1>1, <2>1 DEF AfterContents, Prelude, Over
<1>12. CASE ClaimConsumption(c) \/ WriteConsumption(c)
  <2>1. at'[c] \in {"write", "unregister", "rejected"} /\ at[c] \in {"claim", "write"} /\ listed' = listed
    BY <1>0, <1>12 DEF ClaimConsumption, WriteConsumption, Goto, Reject
  <2> QED BY <1>1, <2>1 DEF AfterContents, Prelude, Over
<1> QED BY <1>2, <1>3, <1>5, <1>7, <1>8, <1>9, <1>10, <1>11, <1>12 DEF CleanStep

\* What a step does to the receipt and its temporary files.
LEMMA ReceiptStep ==
    ASSUME CleanupTypeOK, NEW c \in Cleaners, CleanStep(c) \/ Trouble(c)
    PROVE  /\ \A s \in Steps : temp'[s] # "none" => temp[s] # "none" \/ at[c] \in AfterContents
           /\ receipt' \in {"contents_removed", "complete"} \cup Cleaners =>
                 \/ receipt \in {"contents_removed", "complete"} \cup Cleaners
                 \/ at[c] \in AfterContents
<1> USE CleanersAssumption
<1>0. temp \in [Steps -> {"none", "whole"} \cup Cleaners]
  BY DEF CleanupTypeOK
<1>1. CASE UNCHANGED <<receipt, temp>>
  BY <1>1
<1>2. ASSUME NEW s \in Steps, MakeTemp(c, s) \/ FillTemp(c, s) \/ MoveTemp(c, s)
      PROVE  at[c] \in AfterContents
  BY <1>2 DEF MakeTemp, FillTemp, MoveTemp, Making, Filling, Moving, Steps, AfterContents
<1>3. CASE Trouble(c)
  BY <1>0, <1>3 DEF Trouble
<1>4. CASE ClaimConsumption(c) \/ WriteConsumption(c)
  BY <1>4 DEF ClaimConsumption, WriteConsumption
<1>5. ASSUME \/ Load(c) \/ Open(c) \/ List(c) \/ Unregister(c) \/ Remove(c)
             \/ LookSeal(c) \/ TakeSeal(c) \/ CheckAbsent(c) \/ RemoveRoot(c)
             \/ \E s \in Steps : CheckReceipt(c, s)
      PROVE  UNCHANGED <<receipt, temp>>
  BY <1>5 DEF Load, Open, List, Unregister, Remove, CheckReceipt, LookSeal, TakeSeal,
      CheckAbsent, RemoveRoot
<1> QED BY <1>1, <1>2, <1>3, <1>4, <1>5 DEF CleanStep

LEMMA GoneNext ==
    /\ CleanupTypeOK /\ FirstInv /\ ContentsGone /\ Unregistered /\ [CleanupNext]_allvars
    => ContentsGone' /\ Unregistered'
<1> SUFFICES ASSUME CleanupTypeOK, FirstInv, ContentsGone, Unregistered, [CleanupNext]_allvars
             PROVE  ContentsGone' /\ Unregistered'
  OBVIOUS
<1>1. ASSUME UNCHANGED <<tree, receipt, temp, program>> PROVE ContentsGone' /\ Unregistered'
  <2>1. UNCHANGED <<owned, registered, receipt, temp, at, listed>>
    BY <1>1 DEF tree, program
  <2> QED BY <2>1 DEF ContentsGone, Unregistered
<1>2. ASSUME NEW c \in Cleaners, CleanStep(c) \/ Trouble(c) PROVE ContentsGone' /\ Unregistered'
  <2>1. owned' \subseteq owned /\ (registered' => registered)
    BY <1>2, TreeDwindles
  <2>2. \A d \in Cleaners \ {c} : at'[d] = at[d]
    BY <1>2, PhaseStep
  <2>3. \A d \in Cleaners \ {c} : listed'[d] = listed[d]
    BY <1>2 DEF CleanupTypeOK, CleanStep, Trouble, Load, Open, List, ClaimConsumption,
        WriteConsumption, Unregister, Remove, CheckReceipt, MakeTemp, FillTemp, MoveTemp,
        LookSeal, TakeSeal, CheckAbsent, RemoveRoot
  <2>4. at'[c] \in DOMAIN Left => owned' \subseteq Left[at'[c]]
    <3>1. CASE at'[c] = "worktree"
      BY <2>1, <3>1, LeftTyped DEF CleanupTypeOK
    <3>2. CASE /\ at[c] \in Entries \cup {"bundle"} /\ at'[c] = NextRemoval(c)
               /\ owned' = owned \ {at[c]} /\ at'[c] \in DOMAIN Left
      <4>1. owned \subseteq Left[at[c]]
        BY <3>2, LeftTyped DEF ContentsGone
      <4>2. at[c] \in {"worktree", "route_state", "evidence", "bundle", "markers"}
        BY <3>2, LeftTyped, RemovalsTyped, NextRemovals
      <4>3. \/ at[c] = "worktree" /\ at'[c] = "route_state"
            \/ at[c] = "route_state" /\ at'[c] = "evidence"
            \/ at[c] = "evidence" /\ at'[c] = "bundle"
            \/ at[c] = "bundle" /\ at'[c] = "markers"
            \/ at[c] = "markers" /\ at'[c] = "manifest"
        BY <3>2, <4>2, NextRemovals
      <4>4. Entries = {"worktree", "route_state", "evidence", "markers", "manifest"}
        BY RemovalsTyped
      <4> QED BY <3>2, <4>1, <4>3, <4>4, LeftTyped
    <3> QED BY <1>2, <3>1, <3>2, PlaceStep, LeftTyped
  <2>5. at'[c] \in AfterContents => owned' = {}
    <3>1. CASE at[c] = "manifest" /\ owned' = owned \ {at[c]}
      BY <3>1, LeftTyped, RemovalsTyped DEF ContentsGone
    <3>2. CASE at[c] \in AfterContents \/ receipt = "contents_removed"
      BY <2>1, <3>2 DEF ContentsGone
    <3> QED BY <1>2, <3>1, <3>2, PlaceStep
  <2>6. \A s \in Steps : temp'[s] # "none" => owned' = {}
    BY <1>2, <2>1, ReceiptStep DEF ContentsGone
  <2>7. receipt' \in {"contents_removed", "complete"} \cup Cleaners => owned' = {}
    BY <1>2, <2>1, ReceiptStep DEF ContentsGone
  <2>8. ContentsGone'
    BY <2>1, <2>2, <2>4, <2>5, <2>6, <2>7 DEF ContentsGone
  <2>9. at'[c] \in {"claim", "write", "unregister"} /\ ~ listed'[c] => ~ registered'
    BY <1>2, <2>1, PlaceStep DEF Unregistered
  <2>10. at'[c] \notin Prelude \cup {"unregister"} \/ at'[c] = "cleaned" => ~ registered'
    BY <1>2, <2>1, PlaceStep DEF Unregistered
  <2>11. Unregistered'
    BY <2>1, <2>2, <2>3, <2>9, <2>10 DEF Unregistered
  <2> QED BY <2>8, <2>11
<1>3. CASE UNCHANGED allvars
  BY <1>1, <1>3 DEF allvars
<1> QED BY <1>1, <1>2, <1>3 DEF CleanupNext

LEMMA GoneInit == CleanupInit => ContentsGone /\ Unregistered
<1> SUFFICES ASSUME CleanupInit PROVE ContentsGone /\ Unregistered
  OBVIOUS
<1>1. \A c \in Cleaners : at[c] = "load"
  BY DEF CleanupInit
<1>2. "load" \notin DOMAIN Left /\ "load" \notin AfterContents
  BY LeftTyped, RemovalsTyped DEF AfterContents
<1>3. receipt \notin {"contents_removed", "complete"} \cup Cleaners
  BY CleanersAssumption DEF CleanupInit
<1>4. \A s \in Steps : temp[s] = "none"
  BY DEF CleanupInit, Steps
<1> QED BY <1>1, <1>2, <1>3, <1>4 DEF ContentsGone, Unregistered, Prelude

LEMMA GoneInvariant == CleanupSpec => [](ContentsGone /\ Unregistered)
  BY GoneInit, GoneNext, CleanupTypes, FirstInvariant, PTL DEF CleanupSpec

\* The half of CleanedUp that no attempt can undo, with no condition on the
\* attempts: once some call reported the invocation cleaned, or the receipt says
\* complete, nothing the invocation owns is left and the repository does not
\* list its worktree.
Emptied ==
    /\ receipt \in {"contents_removed", "complete"} => owned = {}
    /\ (\E c \in Cleaners : at[c] = "cleaned") => owned = {} /\ ~registered

\* Whatever calls raced, were killed or took over each other's files: a receipt
\* never says that contents are gone that are there, and a call that reports
\* "cleaned" speaks the truth of all that the invocation owns.
THEOREM ReceiptTellsTheTruth == CleanupSpec => []Emptied
<1>1. ContentsGone /\ Unregistered => Emptied
  BY DEF ContentsGone, Unregistered, Emptied, AfterContents
<1> QED BY <1>1, GoneInvariant, PTL

-----------------------------------------------------------------------------
(* What the attempts can leave behind.  Once something has been removed the*)
(* claim is no baton any more: an attempt may lose it between writing and  *)
(* locking it.  What is left of Seal's argument is that a locked inode is  *)
(* nobody else's, and that an attempt that ends takes its own files along. *)

PastSeal == {"look_final", "take_final", "absent", "rmdir", "finish",
             "make_complete", "fill_complete", "move_complete", "cleaned"}

\* A creator past "own" has the lock on its inode, and whoever is about to rename
\* the final receipt has checked that the claim is still its own: as the inode
\* is locked, nobody takes it away.
Locked == \A p \in Attempts :
    /\ pc[p] = "own" => flock[p] = NoAttempt
    /\ pc[p] \in Building \cup Undoing => flock[p] = p
    /\ pc[p] \in {"final", "replace"} => claim = Made(p, "sealing")

\* A final receipt, or a bundle, is that of an attempt which is going to rename
\* or remove it, was killed, or has sealed.
Remains ==
    /\ final # NoFile => pc[final.by] \in {"replace", "undobundle", "undofinal", "dead"}
    /\ bundle # NoFile => /\ bundle.content # "sealing"
                          /\ pc[bundle.by] \in {"fill", "verify", "finalize", "final", "replace",
                                                "undobundle", "sealed", "dead"}

Guarded == Written /\ Recovered /\ Locked /\ Remains

LEMMA GuardedStep ==
    ASSUME TypeOK, Guarded, NEW p \in Attempts, Step(p) \/ FailWrite(p) \/ Kill(p), ~grabbed'
    PROVE  Guarded'
<1> USE SealAssumption, NoFileAssumption DEF TypeOK, File, Contents, disk, Guarded, Made, Go, Stop, Undo,
    Unlocked, Early, Removing, Undoing, Building, Ended
<1>1. CASE StatClaim(p)
  <2>1. Written'
    BY <1>1 DEF StatClaim, Written, Locked, Recovered, Remains
  <2>2. Recovered'
    BY <1>1 DEF StatClaim, Written, Locked, Recovered
  <2>3. Locked'
    BY <1>1 DEF StatClaim, Written, Locked, Recovered
  <2>4. Remains'
    BY <1>1 DEF StatClaim, Remains
  <2> QED BY <2>1, <2>2, <2>3, <2>4
<1>2. CASE ReadClaim(p)
  <2>1. Written'
    BY <1>2 DEF ReadClaim, Verdict, Written, Locked, Recovered, Remains
  <2>2. Recovered'
    BY <1>2 DEF ReadClaim, Verdict, Written, Locked, Recovered
  <2>3. Locked'
    BY <1>2 DEF ReadClaim, Verdict, Written, Locked, Recovered
  <2>4. Remains'
    BY <1>2 DEF ReadClaim, Verdict, Remains
  <2> QED BY <2>1, <2>2, <2>3, <2>4
<1>3. CASE LockClaim(p)
  <2>1. Written'
    BY <1>3 DEF LockClaim, Written, Locked, Recovered, Remains
  <2>2. Recovered'
    BY <1>3 DEF LockClaim, Written, Locked, Recovered
  <2>3. Locked'
    <3> SUFFICES ASSUME NEW q \in Attempts
                 PROVE  /\ pc'[q] = "own" => flock'[q] = NoAttempt
                        /\ pc'[q] \in Building \cup Undoing => flock'[q] = q
                        /\ pc'[q] \in {"final", "replace"} => claim' = Made(q, "sealing")
      BY DEF Locked
    <3>1. pc'[q] \in {"own"} \cup Building \cup Undoing => q # p /\ pc'[q] = pc[q]
      BY <1>3 DEF LockClaim
    <3>2. flock'[q] # flock[q] => flock[q] = NoAttempt /\ pc[q] # "own"
      BY <1>3 DEF LockClaim
    <3>3. UNCHANGED claim
      BY <1>3 DEF LockClaim
    <3> QED BY <3>1, <3>2, <3>3 DEF Locked
  <2>4. Remains'
    BY <1>3 DEF LockClaim, Remains
  <2> QED BY <2>1, <2>2, <2>3, <2>4
<1>4. CASE CheckClaim(p)
  <2>1. Written'
    BY <1>4 DEF CheckClaim, Written, Locked, Recovered, Remains
  <2>2. Recovered'
    BY <1>4 DEF CheckClaim, Written, Locked, Recovered
  <2>3. Locked'
    BY <1>4 DEF CheckClaim, Written, Locked, Recovered
  <2>4. Remains'
    BY <1>4 DEF CheckClaim, Remains
  <2> QED BY <2>1, <2>2, <2>3, <2>4
<1>5. CASE RemoveBundle(p)
  <2>1. Written'
    BY <1>5 DEF RemoveBundle, Written, Locked, Recovered, Remains
  <2>2. Recovered'
    BY <1>5 DEF RemoveBundle, Written, Locked, Recovered
  <2>3. Locked'
    BY <1>5 DEF RemoveBundle, Written, Locked, Recovered
  <2>4. Remains'
    BY <1>5 DEF RemoveBundle, Remains
  <2> QED BY <2>1, <2>2, <2>3, <2>4
<1>6. CASE RemoveFinal(p)
  <2>1. Written'
    BY <1>6 DEF RemoveFinal, Written, Locked, Recovered, Remains
  <2>2. Recovered'
    BY <1>6 DEF RemoveFinal, Written, Locked, Recovered
  <2>3. Locked'
    BY <1>6 DEF RemoveFinal, Written, Locked, Recovered
  <2>4. Remains'
    BY <1>6 DEF RemoveFinal, Remains
  <2> QED BY <2>1, <2>2, <2>3, <2>4
<1>7. CASE RemoveClaim(p)
  <2>1. Written'
    BY <1>7 DEF RemoveClaim, Written, Locked, Recovered, Remains
  <2>2. Recovered'
    BY <1>7 DEF RemoveClaim, Written, Locked, Recovered
  <2>3. Locked'
    BY <1>7 DEF RemoveClaim, Written, Locked, Recovered
  <2>4. Remains'
    BY <1>7 DEF RemoveClaim, Remains
  <2> QED BY <2>1, <2>2, <2>3, <2>4
<1>8. CASE CreateClaim(p)
  <2>1. Written'
    BY <1>8 DEF CreateClaim, Written, Locked, Recovered, Remains
  <2>2. Recovered'
    BY <1>8 DEF CreateClaim, Written, Locked, Recovered
  <2>3. Locked'
    BY <1>8 DEF CreateClaim, Written, Locked, Recovered
  <2>4. Remains'
    BY <1>8 DEF CreateClaim, Remains
  <2> QED BY <2>1, <2>2, <2>3, <2>4
<1>9. CASE WriteClaim(p)
  <2>1. Written'
    BY <1>9 DEF WriteClaim, Written, Locked, Recovered, Remains
  <2>2. Recovered'
    BY <1>9 DEF WriteClaim, Written, Locked, Recovered
  <2>3. Locked'
    BY <1>9 DEF WriteClaim, Written, Locked, Recovered
  <2>4. Remains'
    BY <1>9 DEF WriteClaim, Remains
  <2> QED BY <2>1, <2>2, <2>3, <2>4
<1>10. CASE OwnClaim(p)
  <2>1. Written'
    BY <1>10 DEF OwnClaim, Written, Locked, Recovered, Remains
  <2>2. Recovered'
    BY <1>10 DEF OwnClaim, Written, Locked, Recovered
  <2>3. Locked'
    BY <1>10 DEF OwnClaim, Written, Locked, Recovered
  <2>4. Remains'
    BY <1>10 DEF OwnClaim, Remains
  <2> QED BY <2>1, <2>2, <2>3, <2>4
<1>11. CASE CreateBundle(p)
  <2>1. Written'
    BY <1>11 DEF CreateBundle, Written, Locked, Recovered, Remains
  <2>2. Recovered'
    BY <1>11 DEF CreateBundle, Written, Locked, Recovered
  <2>3. Locked'
    BY <1>11 DEF CreateBundle, Written, Locked, Recovered
  <2>4. Remains'
    BY <1>11 DEF CreateBundle, Remains
  <2> QED BY <2>1, <2>2, <2>3, <2>4
<1>12. CASE FillBundle(p)
  <2>1. Written'
    BY <1>12 DEF FillBundle, Written, Locked, Recovered, Remains
  <2>2. Recovered'
    BY <1>12 DEF FillBundle, Written, Locked, Recovered
  <2>3. Locked'
    BY <1>12 DEF FillBundle, Written, Locked, Recovered
  <2>4. Remains'
    BY <1>12 DEF FillBundle, Remains
  <2> QED BY <2>1, <2>2, <2>3, <2>4
<1>13. CASE VerifyBundle(p)
  <2>1. Written'
    BY <1>13 DEF VerifyBundle, Written, Locked, Recovered, Remains
  <2>2. Recovered'
    BY <1>13 DEF VerifyBundle, Written, Locked, Recovered
  <2>3. Locked'
    BY <1>13 DEF VerifyBundle, Written, Locked, Recovered
  <2>4. Remains'
    BY <1>13 DEF VerifyBundle, Remains
  <2> QED BY <2>1, <2>2, <2>3, <2>4
<1>14. CASE CheckOwnClaim(p)
  <2>1. Written'
    BY <1>14 DEF CheckOwnClaim, Written, Locked, Recovered, Remains
  <2>2. Recovered'
    BY <1>14 DEF CheckOwnClaim, Written, Locked, Recovered
  <2>3. Locked'
    BY <1>14 DEF CheckOwnClaim, Written, Locked, Recovered
  <2>4. Remains'
    BY <1>14 DEF CheckOwnClaim, Remains
  <2> QED BY <2>1, <2>2, <2>3, <2>4
<1>15. CASE CreateFinal(p)
  <2>1. Written'
    BY <1>15 DEF CreateFinal, Written, Locked, Recovered, Remains
  <2>2. Recovered'
    BY <1>15 DEF CreateFinal, Written, Locked, Recovered
  <2>3. Locked'
    BY <1>15 DEF CreateFinal, Written, Locked, Recovered
  <2>4. Remains'
    BY <1>15 DEF CreateFinal, Remains
  <2> QED BY <2>1, <2>2, <2>3, <2>4
<1>16. CASE ReplaceClaim(p)
  <2>1. Written'
    BY <1>16 DEF ReplaceClaim, Written, Locked, Recovered, Remains
  <2>2. Recovered'
    BY <1>16 DEF ReplaceClaim, Written, Locked, Recovered
  <2>3. Locked'
    BY <1>16 DEF ReplaceClaim, Written, Locked, Recovered
  <2>4. Remains'
    BY <1>16 DEF ReplaceClaim, Remains
  <2> QED BY <2>1, <2>2, <2>3, <2>4
<1>17. CASE UndoBundle(p)
  <2>1. Written'
    BY <1>17 DEF UndoBundle, Written, Locked, Recovered, Remains
  <2>2. Recovered'
    BY <1>17 DEF UndoBundle, Written, Locked, Recovered
  <2>3. Locked'
    BY <1>17 DEF UndoBundle, Written, Locked, Recovered
  <2>4. Remains'
    BY <1>17 DEF UndoBundle, Remains
  <2> QED BY <2>1, <2>2, <2>3, <2>4
<1>18. CASE UndoFinal(p)
  <2>1. Written'
    BY <1>18 DEF UndoFinal, Written, Locked, Recovered, Remains
  <2>2. Recovered'
    BY <1>18 DEF UndoFinal, Written, Locked, Recovered
  <2>3. Locked'
    BY <1>18 DEF UndoFinal, Written, Locked, Recovered
  <2>4. Remains'
    BY <1>18 DEF UndoFinal, Remains
  <2> QED BY <2>1, <2>2, <2>3, <2>4
<1>19. CASE UndoClaim(p)
  <2>1. Written'
    BY <1>19 DEF UndoClaim, Written, Locked, Recovered, Remains
  <2>2. Recovered'
    BY <1>19 DEF UndoClaim, Written, Locked, Recovered
  <2>3. Locked'
    BY <1>19 DEF UndoClaim, Written, Locked, Recovered
  <2>4. Remains'
    BY <1>19 DEF UndoClaim, Remains
  <2> QED BY <2>1, <2>2, <2>3, <2>4
<1>20. CASE FailWrite(p)
  <2>1. Written'
    BY <1>20 DEF FailWrite, Written, Locked, Recovered, Remains
  <2>2. Recovered'
    BY <1>20 DEF FailWrite, Written, Locked, Recovered
  <2>3. Locked'
    BY <1>20 DEF FailWrite, Written, Locked, Recovered
  <2>4. Remains'
    BY <1>20 DEF FailWrite, Remains
  <2> QED BY <2>1, <2>2, <2>3, <2>4
<1>21. CASE Kill(p)
  <2>1. Written'
    BY <1>21 DEF Kill, Written, Locked, Recovered, Remains
  <2>2. Recovered'
    BY <1>21 DEF Kill, Written, Locked, Recovered
  <2>3. Locked'
    BY <1>21 DEF Kill, Written, Locked, Recovered
  <2>4. Remains'
    BY <1>21 DEF Kill, Remains
  <2> QED BY <2>1, <2>2, <2>3, <2>4
<1> QED BY <1>1, <1>2, <1>3, <1>4, <1>5, <1>6, <1>7, <1>8, <1>9, <1>10, <1>11, <1>12, <1>13, <1>14, <1>15, <1>16, <1>17, <1>18, <1>19, <1>20, <1>21 DEF Step

\* Also with a directory that may be gone, an attempt takes Seal's steps, or
\* undoes what it did, or gives up before it did anything.
LEMMA AttemptKeeps ==
    ASSUME TypeOK, Guarded, NEW p \in Attempts, SealStep(p) \/ SealTrouble(p), ~grabbed'
    PROVE  Guarded'
<1> USE SealAssumption, NoFileAssumption DEF TypeOK, File, Contents, Guarded, Made, Go, Undo,
    Early, Removing, Undoing, Building
<1>1. CASE Enter(p)
  <2>1. Written'
    BY <1>1 DEF Enter, Written
  <2>2. Recovered' /\ Locked' /\ Remains'
    BY <1>1 DEF Enter, Recovered, Locked, Remains
  <2> QED BY <2>1, <2>2
<1>2. CASE FailLayout(p)
  <2>1. Written'
    BY <1>2 DEF FailLayout, Written
  <2>2. Recovered'
    BY <1>2 DEF FailLayout, Recovered
  <2>3. Locked'
    BY <1>2 DEF FailLayout, Locked
  <2>4. Remains'
    BY <1>2 DEF FailLayout, Remains
  <2> QED BY <2>1, <2>2, <2>3, <2>4
<1>3. CASE Step(p) \/ FailWrite(p) \/ Kill(p)
  BY <1>3, GuardedStep
<1> QED BY <1>1, <1>2, <1>3 DEF SealStep, SealTrouble

\* The steps of cleanup_invocation that reach for a file of the attempts.
LEMMA CleanerReaches ==
    ASSUME NEW c \in Cleaners, CleanStep(c) \/ Trouble(c)
    PROVE  /\ UNCHANGED <<flock, pc, seen, outcome, grabbed>>
           /\ UNCHANGED <<claim, final, bundle>> \/ Remove(c) \/ TakeSeal(c)
<1>1. ASSUME NEW s \in Steps, CheckReceipt(c, s) \/ MakeTemp(c, s) \/ FillTemp(c, s) \/ MoveTemp(c, s)
      PROVE  UNCHANGED <<claim, final, bundle, flock, pc, seen, outcome, grabbed>>
  BY <1>1 DEF CheckReceipt, MakeTemp, FillTemp, MoveTemp, sealing, vars, disk
<1>2. ASSUME \/ Load(c) \/ Open(c) \/ List(c) \/ ClaimConsumption(c) \/ WriteConsumption(c)
             \/ Unregister(c) \/ LookSeal(c) \/ CheckAbsent(c) \/ RemoveRoot(c)
      PROVE  UNCHANGED <<claim, final, bundle, flock, pc, seen, outcome, grabbed>>
  BY <1>2 DEF Load, Open, List, ClaimConsumption, WriteConsumption, Unregister, LookSeal,
      CheckAbsent, RemoveRoot, sealing, vars, disk
<1>3. ASSUME Trouble(c) PROVE UNCHANGED <<claim, final, bundle, flock, pc, seen, outcome, grabbed>>
  BY <1>3 DEF Trouble
<1>4. ASSUME Remove(c) \/ TakeSeal(c) PROVE UNCHANGED <<flock, pc, seen, outcome, grabbed>>
  BY <1>4 DEF Remove, TakeSeal
<1> QED BY <1>1, <1>2, <1>3, <1>4 DEF CleanStep

\* A claim is taken only from an inode that nobody has locked: from no attempt
\* that is going to rename it, nor from one that clears an abandoned one away.
LEMMA CleanerKeeps ==
    ASSUME CleanupTypeOK, Guarded, NEW c \in Cleaners, CleanStep(c) \/ Trouble(c)
    PROVE  Guarded'
<1> USE SealAssumption, NoFileAssumption DEF CleanupTypeOK, TypeOK, File, Contents, Made
<1>1. CASE UNCHANGED <<claim, final, bundle, flock, pc, seen, outcome, grabbed>>
  BY <1>1 DEF Guarded, Written, Recovered, Locked, Remains
<1>2. CASE Remove(c)
  <2>1. UNCHANGED <<claim, final, flock, pc, seen>> /\ bundle' \in {bundle, NoFile}
    BY <1>2 DEF Remove
  <2> QED BY <2>1 DEF Guarded, Written, Recovered, Locked, Remains
<1>3. CASE TakeSeal(c)
  <2>1. /\ UNCHANGED <<bundle, flock, pc, seen>>
        /\ claim' \in {claim, NoFile} /\ final' \in {final, NoFile}
    BY <1>3 DEF TakeSeal
  <2>2. claim' # claim =>
            claim # NoFile /\ (claim.content = "sealing" => flock[claim.by] = NoAttempt)
    BY <1>3 DEF TakeSeal, Busy, SameSeal, External
  <2>3. Written' /\ Remains'
    BY <2>1 DEF Guarded, Written, Remains
  <2>4. Recovered'
    BY <2>1, <2>2 DEF Guarded, Recovered, Removing
  <2>5. Locked'
    BY <2>1, <2>2 DEF Guarded, Locked, Building, Undoing
  <2> QED BY <2>3, <2>4, <2>5 DEF Guarded
<1> QED BY <1>1, <1>2, <1>3, CleanerReaches

LEMMA GuardedAtFirst == CleanupInit => Guarded
  BY SealAssumption DEF CleanupInit, Init, Guarded, Written, Recovered, Locked, Remains, Building,
      Undoing, Removing

-----------------------------------------------------------------------------
(* When the directory is empty, or gone.                                   *)

\* A call that looks for the files of the attempts, or is past them, found the
\* contents gone; a call that found no directory goes on only while there is none.
Hollow ==
    /\ ~root => owned = {}
    /\ \A c \in Cleaners :
          /\ phase[c] \in {"contents_removed", "complete"} => owned = {}
          /\ at[c] \in PastSeal \cup {"look", "take"} => owned = {}
          /\ at[c] \in {"list", "claim", "write", "unregister"} /\ ~anchored[c] => ~root

\* The directory goes for good, and only when it is empty.
LEMMA RootFalls ==
    ASSUME NEW c \in Cleaners, CleanStep(c) \/ Trouble(c)
    PROVE  (root' => root) /\ (~root' => ~root \/ owned = {})
<1>1. CASE RemoveRoot(c)
  BY <1>1 DEF RemoveRoot
<1>2. ASSUME NEW s \in Steps, CheckReceipt(c, s) \/ MakeTemp(c, s) \/ FillTemp(c, s) \/ MoveTemp(c, s)
      PROVE  UNCHANGED root
  BY <1>2 DEF CheckReceipt, MakeTemp, FillTemp, MoveTemp, tree
<1>3. ASSUME \/ Load(c) \/ Open(c) \/ List(c) \/ ClaimConsumption(c) \/ WriteConsumption(c)
             \/ Unregister(c) \/ Remove(c) \/ LookSeal(c) \/ TakeSeal(c) \/ CheckAbsent(c) \/ Trouble(c)
      PROVE  UNCHANGED root
  BY <1>3 DEF Load, Open, List, ClaimConsumption, WriteConsumption, Unregister, Remove, LookSeal,
      TakeSeal, CheckAbsent, Trouble, tree
<1> QED BY <1>1, <1>2, <1>3 DEF CleanStep

\* What a step does to what a call believes, and where it then is.
LEMMA HollowStep ==
    ASSUME CleanupTypeOK, FirstInv, ContentsGone, Hollow,
           NEW c \in Cleaners, CleanStep(c) \/ Trouble(c)
    PROVE  /\ \A d \in Cleaners \ {c} : anchored'[d] = anchored[d]
           /\ phase'[c] \in {"contents_removed", "complete"} => owned = {}
           /\ at'[c] \in PastSeal \cup {"look", "take"} => owned = {}
           /\ at'[c] \in {"list", "claim", "write", "unregister"} /\ ~anchored'[c] => ~root
<1> DEFINE Deep == PastSeal \cup {"look", "take"}
<1> DEFINE Low == {"list", "claim", "write", "unregister"}
<1> DEFINE Good == /\ \A d \in Cleaners \ {c} : anchored'[d] = anchored[d]
                   /\ phase'[c] \in {"contents_removed", "complete"} => owned = {}
                   /\ at'[c] \in Deep => owned = {}
                   /\ at'[c] \in Low /\ ~anchored'[c] => ~root
<1> SUFFICES Good
  OBVIOUS
<1>0. at \in [Cleaners -> Ats] /\ phase \in [Cleaners -> PhaseSet] /\ anchored \in [Cleaners -> BOOLEAN]
  BY DEF CleanupTypeOK
<1>1. CASE Load(c)
  <2>1. at'[c] \in {"open", "unavailable"} /\ UNCHANGED <<phase, anchored>>
    BY <1>0, <1>1 DEF Load, Goto
  <2> QED BY <2>1 DEF Hollow, PastSeal
<1>2. CASE Open(c)
  <2>1. at'[c] \in {"rejected", "already_consumed", "list"}
    BY <1>0, <1>2 DEF Open, Goto, Reject
  <2>2. \/ UNCHANGED <<phase, anchored>> /\ at'[c] # "list"
        \/ phase'[c] = receipt /\ anchored'[c] = root
    BY <1>0, <1>2 DEF Open, Goto, Reject
  <2>3. \A d \in Cleaners \ {c} : anchored'[d] = anchored[d]
    BY <1>0, <1>2 DEF Open
  <2> QED BY <2>1, <2>2, <2>3 DEF Hollow, ContentsGone, PastSeal
<1>3. CASE List(c) \/ ClaimConsumption(c)
  <2>1. at'[c] \in {"rejected", "claim", "unregister", "write"} /\ at[c] \in {"list", "claim"}
    BY <1>0, <1>3 DEF List, ClaimConsumption, Goto, Reject
  <2>2. UNCHANGED <<phase, anchored>>
    BY <1>3 DEF List, ClaimConsumption
  <2> QED BY <2>1, <2>2 DEF Hollow, PastSeal
<1>4. CASE WriteConsumption(c)
  <2>1. /\ at'[c] = "unregister" /\ at[c] = "write"
        /\ phase'[c] = "claimed" /\ UNCHANGED anchored
    BY <1>0, <1>4 DEF WriteConsumption, Goto
  <2> QED BY <2>1 DEF Hollow, PastSeal
<1>5. CASE Unregister(c)
  <2>1. at[c] = "unregister" /\ UNCHANGED <<phase, anchored>>
    BY <1>5 DEF Unregister
  <2>2. at'[c] \in {"rejected", AfterGit(c)}
    BY <1>0, <1>5 DEF Unregister, Goto, Reject
  <2>3. ~anchored[c] => owned = {}
    BY <2>1 DEF Hollow
  <2>4. AfterGit(c) # "worktree" => owned = {}
    <3>1. phase[c] # "none"
      BY <2>1 DEF FirstInv, Prelude, Over
    <3> QED BY <1>0, <2>3, <3>1, PhasesTyped DEF AfterGit, Removals, Hollow
  <2>5. AfterGit(c) \in {"worktree", "look", "finish"}
    BY DEF AfterGit, Removals
  <2> QED BY <2>1, <2>2, <2>4, <2>5 DEF Hollow, PastSeal
<1>6. CASE Remove(c)
  <2>1. UNCHANGED <<phase, anchored>> /\ at'[c] \in {"rejected", NextRemoval(c)}
    BY <1>0, <1>6 DEF Remove, Goto, Reject
  <2>2. NextRemoval(c) \in {"route_state", "evidence", "bundle", "markers", "manifest", "contents_removed"}
    <3>1. at[c] \in {"worktree", "route_state", "evidence", "bundle", "markers", "manifest"}
      BY <1>6, RemovalsTyped DEF Remove
    <3> QED BY <3>1, NextRemovals
  <2> QED BY <2>1, <2>2 DEF Hollow, PastSeal
<1>7. ASSUME NEW s \in Steps, CheckReceipt(c, s) \/ MakeTemp(c, s) \/ FillTemp(c, s)
      PROVE  Good
  <2>1. UNCHANGED <<phase, anchored>>
    BY <1>7 DEF CheckReceipt, MakeTemp, FillTemp
  <2>2. /\ at'[c] \in {"rejected", Making(s), Filling(s), Moving(s)}
        /\ s = "complete" => at[c] \in PastSeal
    BY <1>0, <1>7 DEF CheckReceipt, MakeTemp, FillTemp, Goto, Reject, Making, Filling, PastSeal
  <2> QED BY <2>1, <2>2 DEF Hollow, PastSeal, Steps, Making, Filling, Moving
<1>8. ASSUME NEW s \in Steps, MoveTemp(c, s) PROVE Good
  <2>1. UNCHANGED anchored /\ at'[c] \in {"rejected", After(s)}
    BY <1>0, <1>8 DEF MoveTemp, Goto, Reject
  <2>2. \/ UNCHANGED phase /\ at'[c] = "rejected"
        \/ temp[s] # "none"
    BY <1>0, <1>8 DEF MoveTemp, Goto, Reject
  <2> QED BY <2>1, <2>2 DEF Hollow, ContentsGone, PastSeal, After
<1>9. CASE LookSeal(c) \/ TakeSeal(c) \/ CheckAbsent(c) \/ RemoveRoot(c)
  <2>1. UNCHANGED <<phase, anchored>> /\ at[c] \in Deep
    BY <1>9 DEF LookSeal, TakeSeal, CheckAbsent, RemoveRoot, PastSeal
  <2>2. at'[c] \notin Low
    BY <1>0, <1>9 DEF LookSeal, TakeSeal, CheckAbsent, RemoveRoot, AfterSeal, Goto, Reject
  <2> QED BY <2>1, <2>2 DEF Hollow
<1>10. CASE Trouble(c)
  <2>1. UNCHANGED <<phase, anchored>> /\ at'[c] \in {"dead", "rejected"}
    BY <1>0, <1>10 DEF Trouble, Goto, Reject
  <2> QED BY <2>1 DEF Hollow, PastSeal
<1> QED BY <1>1, <1>2, <1>3, <1>4, <1>5, <1>6, <1>7, <1>8, <1>9, <1>10 DEF CleanStep

LEMMA HollowNext ==
    ASSUME CleanupTypeOK, FirstInv, ContentsGone, Hollow, [CleanupNext]_allvars
    PROVE  Hollow'
<1>1. ASSUME UNCHANGED <<tree, receipt, temp, program>> PROVE Hollow'
  BY <1>1 DEF tree, program, Hollow
<1>2. ASSUME NEW c \in Cleaners, CleanStep(c) \/ Trouble(c) PROVE Hollow'
  <2>1. owned = {} => owned' = {}
    BY <1>2, TreeDwindles
  <2>2. (root' => root) /\ (~root' => ~root \/ owned = {})
    BY <1>2, RootFalls
  <2>3. \A d \in Cleaners \ {c} : at'[d] = at[d] /\ phase'[d] = phase[d] /\ anchored'[d] = anchored[d]
    BY <1>2, PhaseStep, HollowStep
  <2>4. /\ phase'[c] \in {"contents_removed", "complete"} => owned = {}
        /\ at'[c] \in PastSeal \cup {"look", "take"} => owned = {}
        /\ at'[c] \in {"list", "claim", "write", "unregister"} /\ ~anchored'[c] => ~root
    BY <1>2, HollowStep
  <2> QED BY <2>1, <2>2, <2>3, <2>4 DEF Hollow
<1>3. CASE UNCHANGED allvars
  BY <1>1, <1>3 DEF allvars
<1> QED BY <1>1, <1>2, <1>3 DEF CleanupNext

LEMMA HollowAtFirst == CleanupInit => Hollow
  BY DEF CleanupInit, Hollow, PastSeal

-----------------------------------------------------------------------------
(* What an attempt does that runs into a cleanup.                          *)

\* The bundle has been removed: the step after its removal, and all later ones.
Unbundled == "markers" \notin owned \/ \E c \in Cleaners : at[c] = "markers"

\* A call has looked for the claim and found none, or taken it.
Cleared == ~root \/ \E c \in Cleaners : at[c] \in PastSeal

\* A bundle that comes back is that of an attempt that has not looked at the
\* layout yet, and then withdraws.
BundleWithdrawn ==
    Unbundled /\ bundle # NoFile => pc[bundle.by] \in {"fill", "verify", "undobundle", "dead"}

\* So is a claim that comes back; and nobody is about to seal.
ClaimWithdrawn ==
    Cleared /\ claim # NoFile =>
        \/ claim.content = "partial" /\ pc[claim.by] \in {"write", "dead"}
        \/ /\ claim.content = "sealing"
           /\ pc[claim.by] \in {"own", "bundle", "fill", "verify", "dead"} \cup Undoing

\* The layout is broken by then.
LEMMA LayoutBroken ==
    ASSUME ContentsGone, Hollow, Unbundled \/ Cleared
    PROVE  ~Intact
<1>1. {"markers", "route_state"} \subseteq Entries \ {"worktree"}
  BY RemovalsTyped
<1>2. (\E c \in Cleaners : at[c] = "markers") => "route_state" \notin owned
  BY LeftTyped, RemovalsTyped DEF ContentsGone
<1>3. Cleared => owned = {}
  BY DEF Cleared, Hollow
<1> QED BY <1>1, <1>2, <1>3 DEF Intact, Unbundled

LEMMA AttemptWithdraws ==
    ASSUME TypeOK, Guarded, ~Intact, ~grabbed',
           NEW p \in Attempts, SealStep(p) \/ SealTrouble(p), UNCHANGED <<tree, program>>
    PROVE  /\ BundleWithdrawn => BundleWithdrawn'
           /\ Cleared /\ ClaimWithdrawn => ClaimWithdrawn'
<1> USE SealAssumption, NoFileAssumption DEF TypeOK, File, Contents, disk, Made, Go, Stop, Undo,
    Unlocked, Undoing, Ended
<1>0. (Unbundled' => Unbundled) /\ (Cleared' => Cleared)
  BY DEF Unbundled, Cleared, tree, program
<1>1. CASE Enter(p)
  BY <1>0, <1>1 DEF Enter, BundleWithdrawn, ClaimWithdrawn
<1>2. CASE FailLayout(p)
  BY <1>0, <1>2 DEF FailLayout, BundleWithdrawn, ClaimWithdrawn
<1>3. CASE StatClaim(p)
  <2>1. BundleWithdrawn => BundleWithdrawn'
    BY <1>0, <1>3 DEF StatClaim, BundleWithdrawn, Guarded, Remains
  <2>2. Cleared /\ ClaimWithdrawn => ClaimWithdrawn'
    BY <1>0, <1>3 DEF StatClaim, ClaimWithdrawn, Guarded, Locked
  <2> QED BY <2>1, <2>2
<1>4. CASE ReadClaim(p)
  <2>1. BundleWithdrawn => BundleWithdrawn'
    BY <1>0, <1>4 DEF ReadClaim, Verdict, BundleWithdrawn, Guarded, Remains
  <2>2. Cleared /\ ClaimWithdrawn => ClaimWithdrawn'
    BY <1>0, <1>4 DEF ReadClaim, Verdict, ClaimWithdrawn, Guarded, Locked
  <2> QED BY <2>1, <2>2
<1>5. CASE LockClaim(p)
  <2>1. BundleWithdrawn => BundleWithdrawn'
    BY <1>0, <1>5 DEF LockClaim, BundleWithdrawn, Guarded, Remains
  <2>2. Cleared /\ ClaimWithdrawn => ClaimWithdrawn'
    BY <1>0, <1>5 DEF LockClaim, ClaimWithdrawn, Guarded, Locked
  <2> QED BY <2>1, <2>2
<1>6. CASE CheckClaim(p)
  <2>1. BundleWithdrawn => BundleWithdrawn'
    BY <1>0, <1>6 DEF CheckClaim, BundleWithdrawn, Guarded, Remains
  <2>2. Cleared /\ ClaimWithdrawn => ClaimWithdrawn'
    BY <1>0, <1>6 DEF CheckClaim, ClaimWithdrawn, Guarded, Locked
  <2> QED BY <2>1, <2>2
<1>7. CASE RemoveBundle(p)
  <2>1. BundleWithdrawn => BundleWithdrawn'
    BY <1>0, <1>7 DEF RemoveBundle, BundleWithdrawn, Guarded, Remains
  <2>2. Cleared /\ ClaimWithdrawn => ClaimWithdrawn'
    BY <1>0, <1>7 DEF RemoveBundle, ClaimWithdrawn, Guarded, Locked
  <2> QED BY <2>1, <2>2
<1>8. CASE RemoveFinal(p)
  <2>1. BundleWithdrawn => BundleWithdrawn'
    BY <1>0, <1>8 DEF RemoveFinal, BundleWithdrawn, Guarded, Remains
  <2>2. Cleared /\ ClaimWithdrawn => ClaimWithdrawn'
    BY <1>0, <1>8 DEF RemoveFinal, ClaimWithdrawn, Guarded, Locked
  <2> QED BY <2>1, <2>2
<1>9. CASE RemoveClaim(p)
  <2>1. BundleWithdrawn => BundleWithdrawn'
    BY <1>0, <1>9 DEF RemoveClaim, BundleWithdrawn, Guarded, Remains
  <2>2. Cleared /\ ClaimWithdrawn => ClaimWithdrawn'
    BY <1>0, <1>9 DEF RemoveClaim, ClaimWithdrawn, Guarded, Locked
  <2> QED BY <2>1, <2>2
<1>10. CASE CreateClaim(p)
  <2>1. BundleWithdrawn => BundleWithdrawn'
    BY <1>0, <1>10 DEF CreateClaim, BundleWithdrawn, Guarded, Remains
  <2>2. Cleared /\ ClaimWithdrawn => ClaimWithdrawn'
    BY <1>0, <1>10 DEF CreateClaim, ClaimWithdrawn, Guarded, Locked
  <2> QED BY <2>1, <2>2
<1>11. CASE WriteClaim(p)
  <2>1. BundleWithdrawn => BundleWithdrawn'
    BY <1>0, <1>11 DEF WriteClaim, BundleWithdrawn, Guarded, Remains
  <2>2. Cleared /\ ClaimWithdrawn => ClaimWithdrawn'
    BY <1>0, <1>11 DEF WriteClaim, ClaimWithdrawn, Guarded, Locked
  <2> QED BY <2>1, <2>2
<1>12. CASE OwnClaim(p)
  <2>1. BundleWithdrawn => BundleWithdrawn'
    BY <1>0, <1>12 DEF OwnClaim, BundleWithdrawn, Guarded, Remains
  <2>2. Cleared /\ ClaimWithdrawn => ClaimWithdrawn'
    BY <1>0, <1>12 DEF OwnClaim, ClaimWithdrawn, Guarded, Locked
  <2> QED BY <2>1, <2>2
<1>13. CASE CreateBundle(p)
  <2>1. BundleWithdrawn => BundleWithdrawn'
    BY <1>0, <1>13 DEF CreateBundle, BundleWithdrawn, Guarded, Remains
  <2>2. Cleared /\ ClaimWithdrawn => ClaimWithdrawn'
    BY <1>0, <1>13 DEF CreateBundle, ClaimWithdrawn, Guarded, Locked
  <2> QED BY <2>1, <2>2
<1>14. CASE FillBundle(p)
  <2>1. BundleWithdrawn => BundleWithdrawn'
    BY <1>0, <1>14 DEF FillBundle, BundleWithdrawn, Guarded, Remains
  <2>2. Cleared /\ ClaimWithdrawn => ClaimWithdrawn'
    BY <1>0, <1>14 DEF FillBundle, ClaimWithdrawn, Guarded, Locked
  <2> QED BY <2>1, <2>2
<1>15. CASE CheckOwnClaim(p)
  <2>1. BundleWithdrawn => BundleWithdrawn'
    BY <1>0, <1>15 DEF CheckOwnClaim, BundleWithdrawn, Guarded, Remains
  <2>2. Cleared /\ ClaimWithdrawn => ClaimWithdrawn'
    BY <1>0, <1>15 DEF CheckOwnClaim, ClaimWithdrawn, Guarded, Locked
  <2> QED BY <2>1, <2>2
<1>16. CASE CreateFinal(p)
  <2>1. BundleWithdrawn => BundleWithdrawn'
    BY <1>0, <1>16 DEF CreateFinal, BundleWithdrawn, Guarded, Remains
  <2>2. Cleared /\ ClaimWithdrawn => ClaimWithdrawn'
    BY <1>0, <1>16 DEF CreateFinal, ClaimWithdrawn, Guarded, Locked
  <2> QED BY <2>1, <2>2
<1>17. CASE ReplaceClaim(p)
  <2>1. BundleWithdrawn => BundleWithdrawn'
    BY <1>0, <1>17 DEF ReplaceClaim, BundleWithdrawn, Guarded, Remains
  <2>2. Cleared /\ ClaimWithdrawn => ClaimWithdrawn'
    BY <1>0, <1>17 DEF ReplaceClaim, ClaimWithdrawn, Guarded, Locked
  <2> QED BY <2>1, <2>2
<1>18. CASE UndoBundle(p)
  <2>1. BundleWithdrawn => BundleWithdrawn'
    BY <1>0, <1>18 DEF UndoBundle, BundleWithdrawn, Guarded, Remains
  <2>2. Cleared /\ ClaimWithdrawn => ClaimWithdrawn'
    BY <1>0, <1>18 DEF UndoBundle, ClaimWithdrawn, Guarded, Locked
  <2> QED BY <2>1, <2>2
<1>19. CASE UndoFinal(p)
  <2>1. BundleWithdrawn => BundleWithdrawn'
    BY <1>0, <1>19 DEF UndoFinal, BundleWithdrawn, Guarded, Remains
  <2>2. Cleared /\ ClaimWithdrawn => ClaimWithdrawn'
    BY <1>0, <1>19 DEF UndoFinal, ClaimWithdrawn, Guarded, Locked
  <2> QED BY <2>1, <2>2
<1>20. CASE UndoClaim(p)
  <2>1. BundleWithdrawn => BundleWithdrawn'
    BY <1>0, <1>20 DEF UndoClaim, BundleWithdrawn, Guarded, Remains
  <2>2. Cleared /\ ClaimWithdrawn => ClaimWithdrawn'
    BY <1>0, <1>20 DEF UndoClaim, ClaimWithdrawn, Guarded, Locked
  <2> QED BY <2>1, <2>2
<1>21. CASE FailWrite(p)
  <2>1. BundleWithdrawn => BundleWithdrawn'
    BY <1>0, <1>21 DEF FailWrite, BundleWithdrawn, Guarded, Remains
  <2>2. Cleared /\ ClaimWithdrawn => ClaimWithdrawn'
    BY <1>0, <1>21 DEF FailWrite, ClaimWithdrawn, Guarded, Locked
  <2> QED BY <2>1, <2>2
<1>22. CASE Kill(p)
  <2>1. BundleWithdrawn => BundleWithdrawn'
    BY <1>0, <1>22 DEF Kill, BundleWithdrawn, Guarded, Remains
  <2>2. Cleared /\ ClaimWithdrawn => ClaimWithdrawn'
    BY <1>0, <1>22 DEF Kill, ClaimWithdrawn, Guarded, Locked
  <2> QED BY <2>1, <2>2
<1> QED BY <1>1, <1>2, <1>3, <1>4, <1>5, <1>6, <1>7, <1>8, <1>9, <1>10, <1>11, <1>12, <1>13, <1>14, <1>15, <1>16, <1>17, <1>18, <1>19, <1>20, <1>21, <1>22 DEF SealStep, SealTrouble, Step, VerifyBundle

\* What a call takes from the directory at its place among the removals, and
\* how it gets past the claim.
LEMMA CleanerPasses ==
    ASSUME CleanupTypeOK, Hollow, NEW c \in Cleaners, CleanStep(c) \/ Trouble(c)
    PROVE  /\ at'[c] = "markers" => bundle' = NoFile
           /\ "markers" \notin owned' => "markers" \notin owned \/ at[c] = "markers"
           /\ at'[c] \in PastSeal => Cleared \/ claim' = NoFile
           /\ ~root' => Cleared
<1>0. at \in [Cleaners -> Ats]
  BY DEF CleanupTypeOK
<1>1. Entries \cup {"bundle"} = {"worktree", "route_state", "evidence", "bundle", "markers", "manifest"}
  BY RemovalsTyped
<1>2. CASE Remove(c)
  <2>1. at[c] \in Entries \cup {"bundle"} /\ UNCHANGED root
    BY <1>2 DEF Remove
  <2>2. \/ at'[c] = "rejected" /\ UNCHANGED owned
        \/ /\ at'[c] = NextRemoval(c) /\ owned' = owned \ {at[c]}
           /\ at[c] = "bundle" => bundle' = NoFile
    BY <1>0, <1>2 DEF Remove, Goto, Reject
  <2>3. NextRemoval(c) \notin PastSeal /\ (NextRemoval(c) = "markers" => at[c] = "bundle")
    BY <1>1, <2>1, NextRemovals DEF PastSeal
  <2> QED BY <2>1, <2>2, <2>3 DEF Cleared, PastSeal
<1>3. CASE Unregister(c)
  <2>1. AfterGit(c) \in {"finish", "worktree", "look"} /\ (AfterGit(c) = "finish" => ~anchored[c])
    BY DEF AfterGit, Removals
  <2>2. at[c] = "unregister" /\ at'[c] \in {"rejected", AfterGit(c)} /\ UNCHANGED root
    BY <1>0, <1>3 DEF Unregister, Goto, Reject, tree
  <2>3. "markers" \in owned => "markers" \in owned'
    BY <1>3 DEF Unregister, tree
  <2> QED BY <2>1, <2>2, <2>3 DEF Hollow, Cleared, PastSeal
<1>4. CASE LookSeal(c)
  <2>1. /\ UNCHANGED <<claim, owned, root>>
        /\ at[c] \in {"look", "look_final"}
        /\ at'[c] \in {"take", "take_final", "look_final", "absent"}
        /\ at[c] = "look" /\ at'[c] # "take" => claim = NoFile
    BY <1>0, <1>4 DEF LookSeal, External, AfterSeal, Goto, sealing, vars, disk, tree
  <2> QED BY <2>1 DEF Cleared, PastSeal
<1>5. CASE TakeSeal(c)
  <2>1. /\ UNCHANGED <<owned, root>> /\ at'[c] \in {"rejected", "look_final", "absent"}
        /\ at[c] = "take_final" \/ (at[c] = "take" /\ (at'[c] = "rejected" \/ claim' = NoFile))
    BY <1>0, <1>5 DEF TakeSeal, AfterSeal, Goto, Reject, tree
  <2> QED BY <2>1 DEF Cleared, PastSeal
<1>6. CASE CheckAbsent(c) \/ RemoveRoot(c)
  <2>1. UNCHANGED owned /\ at[c] \in {"absent", "rmdir"} /\ at'[c] \in {"rejected", "rmdir", "finish"}
    BY <1>0, <1>6 DEF CheckAbsent, RemoveRoot, Goto, Reject, tree
  <2> QED BY <2>1 DEF Cleared, PastSeal
<1>7. ASSUME NEW s \in Steps, CheckReceipt(c, s) \/ MakeTemp(c, s) \/ FillTemp(c, s) \/ MoveTemp(c, s)
      PROVE  /\ UNCHANGED <<owned, root>> /\ at'[c] # "markers"
             /\ at'[c] \in PastSeal => at[c] \in PastSeal
  <2>1. UNCHANGED <<owned, root>>
    BY <1>7 DEF CheckReceipt, MakeTemp, FillTemp, MoveTemp, tree
  <2>2. at'[c] \in {"rejected", Making(s), Filling(s), Moving(s), After(s)}
    BY <1>0, <1>7 DEF CheckReceipt, MakeTemp, FillTemp, MoveTemp, Goto, Reject
  <2>3. s = "complete" => at[c] \in PastSeal
    BY <1>7 DEF CheckReceipt, MakeTemp, FillTemp, MoveTemp, Making, Filling, Moving, PastSeal
  <2> QED BY <2>1, <2>2, <2>3 DEF Making, Filling, Moving, After, PastSeal, Steps
<1>8. CASE \E s \in Steps : CheckReceipt(c, s) \/ MakeTemp(c, s) \/ FillTemp(c, s) \/ MoveTemp(c, s)
  BY <1>7, <1>8 DEF Cleared
<1>9. CASE Load(c) \/ Open(c) \/ List(c) \/ ClaimConsumption(c) \/ WriteConsumption(c) \/ Trouble(c)
  <2>1. UNCHANGED <<owned, root>>
    BY <1>9 DEF Load, Open, List, ClaimConsumption, WriteConsumption, Trouble, tree
  <2>2. at'[c] \in {"open", "unavailable", "rejected", "already_consumed", "list", "claim",
                     "unregister", "write", "dead"}
    BY <1>0, <1>9 DEF Load, Open, List, ClaimConsumption, WriteConsumption, Trouble, Goto, Reject
  <2> QED BY <2>1, <2>2 DEF Cleared, PastSeal
<1> QED BY <1>2, <1>3, <1>4, <1>5, <1>6, <1>8, <1>9 DEF CleanStep

LEMMA CleanerWithdraws ==
    ASSUME CleanupTypeOK, FirstInv, Hollow, BundleWithdrawn, ClaimWithdrawn,
           NEW c \in Cleaners, CleanStep(c) \/ Trouble(c)
    PROVE  BundleWithdrawn' /\ ClaimWithdrawn'
<1>1. UNCHANGED pc /\ bundle' \in {bundle, NoFile} /\ claim' \in {claim, NoFile}
  BY CleanerReaches DEF Remove, TakeSeal
<1>2. \A d \in Cleaners \ {c} : at'[d] = at[d]
  BY PhaseStep
<1>3. Unbundled' => Unbundled \/ bundle' = NoFile
  BY <1>2, CleanerPasses DEF Unbundled
<1>4. Cleared' => Cleared \/ claim' = NoFile
  BY <1>2, CleanerPasses DEF Cleared
<1>5. BundleWithdrawn'
  BY <1>1, <1>3 DEF BundleWithdrawn
<1>6. ClaimWithdrawn'
  BY <1>1, <1>4 DEF ClaimWithdrawn
<1> QED BY <1>5, <1>6

-----------------------------------------------------------------------------
(* The theorem.                                                            *)

CleanedInv == Hollow /\ (~grabbed => Guarded /\ BundleWithdrawn /\ ClaimWithdrawn)

\* The gap, once hit, is remembered here too.
LEMMA GrabRemembered ==
    ASSUME [CleanupNext]_allvars, ~grabbed'
    PROVE  ~grabbed
<1>1. ASSUME NEW p \in Attempts, SealStep(p) \/ SealTrouble(p) PROVE ~grabbed
  <2>1. CASE Enter(p) \/ FailLayout(p)
    BY <2>1 DEF Enter, FailLayout
  <2>2. CASE Step(p) \/ FailWrite(p) \/ Kill(p)
    BY <2>2, GapRemembered DEF Next
  <2> QED BY <1>1, <2>1, <2>2 DEF SealStep, SealTrouble
<1>2. ASSUME NEW c \in Cleaners, CleanStep(c) \/ Trouble(c) PROVE ~grabbed
  BY <1>2, CleanerReaches
<1> QED BY <1>1, <1>2 DEF CleanupNext, allvars, sealing, vars

LEMMA CleanedNext ==
    /\ CleanupTypeOK /\ FirstInv /\ ContentsGone /\ CleanedInv /\ [CleanupNext]_allvars
    => CleanedInv'
<1> SUFFICES ASSUME CleanupTypeOK, FirstInv, ContentsGone, CleanedInv, [CleanupNext]_allvars
             PROVE  CleanedInv'
  OBVIOUS
<1>1. Hollow'
  BY HollowNext DEF CleanedInv
<1>2. ASSUME ~grabbed' PROVE Guarded' /\ BundleWithdrawn' /\ ClaimWithdrawn'
  <2>0. Hollow /\ Guarded /\ BundleWithdrawn /\ ClaimWithdrawn /\ TypeOK
    BY <1>2, GrabRemembered DEF CleanedInv, CleanupTypeOK
  <2>1. ASSUME NEW p \in Attempts, SealStep(p) \/ SealTrouble(p),
               UNCHANGED <<tree, receipt, temp, program>>
        PROVE  Guarded' /\ BundleWithdrawn' /\ ClaimWithdrawn'
    <3>1. Guarded'
      BY <1>2, <2>0, <2>1, AttemptKeeps
    <3>2. UNCHANGED <<owned, root, at>>
      BY <2>1 DEF tree, program
    <3>3. BundleWithdrawn'
      <4>1. CASE Unbundled
        BY <1>2, <2>0, <2>1, <4>1, LayoutBroken, AttemptWithdraws
      <4>2. CASE ~Unbundled
        BY <3>2, <4>2 DEF BundleWithdrawn, Unbundled
      <4> QED BY <4>1, <4>2
    <3>4. ClaimWithdrawn'
      <4>1. CASE Cleared
        BY <1>2, <2>0, <2>1, <4>1, LayoutBroken, AttemptWithdraws
      <4>2. CASE ~Cleared
        BY <3>2, <4>2 DEF ClaimWithdrawn, Cleared
      <4> QED BY <4>1, <4>2
    <3> QED BY <3>1, <3>3, <3>4
  <2>2. ASSUME NEW c \in Cleaners, CleanStep(c) \/ Trouble(c)
        PROVE  Guarded' /\ BundleWithdrawn' /\ ClaimWithdrawn'
    BY <2>0, <2>2, CleanerKeeps, CleanerWithdraws
  <2>3. CASE UNCHANGED allvars
    <3>1. UNCHANGED <<claim, final, bundle, flock, pc, seen, owned, root, at>>
      BY <2>3 DEF allvars, sealing, vars, disk, tree, program
    <3> QED BY <2>0, <3>1 DEF Guarded, Written, Recovered, Locked, Remains, BundleWithdrawn,
            ClaimWithdrawn, Unbundled, Cleared
  <2> QED BY <2>1, <2>2, <2>3 DEF CleanupNext
<1> QED BY <1>1, <1>2 DEF CleanedInv

LEMMA CleanedAtFirst == CleanupInit => CleanedInv
<1> SUFFICES ASSUME CleanupInit PROVE CleanedInv
  OBVIOUS
<1>1. Guarded /\ Hollow
  BY GuardedAtFirst, HollowAtFirst
<1>2. BundleWithdrawn /\ ClaimWithdrawn
  BY DEF CleanupInit, Init, BundleWithdrawn, ClaimWithdrawn
<1> QED BY <1>1, <1>2 DEF CleanedInv

\* When a call has reported the invocation cleaned, and every attempt to seal
\* has come to its own end, no claim, receipt or bundle is left either: what a
\* racing attempt put back it has taken away.
THEOREM CleansUp == CleanupSpec => []CleanedUp
<1>1. CleanupTypeOK /\ ContentsGone /\ Unregistered /\ CleanedInv => CleanedUp
  <2> SUFFICES ASSUME CleanupTypeOK, ContentsGone, Unregistered, CleanedInv, ~grabbed,
                      NEW c \in Cleaners, at[c] = "cleaned",
                      \A p \in Attempts : pc[p] \in Ended \ {"dead"}
               PROVE  /\ owned = {} /\ ~registered
                      /\ claim = NoFile /\ final = NoFile /\ bundle = NoFile
    BY DEF CleanedUp
  <2>1. owned = {} /\ ~registered
    BY DEF ContentsGone, AfterContents, Unregistered
  <2>2. Unbundled /\ Cleared
    BY <2>1 DEF Unbundled, Cleared, PastSeal
  <2>3. \A f \in {claim, final, bundle} : f # NoFile => pc[f.by] \in {"sealed", "already", "error"}
    BY DEF CleanupTypeOK, TypeOK, File, Ended
  <2>4. claim = NoFile
    BY <2>2, <2>3 DEF CleanedInv, ClaimWithdrawn, Undoing
  <2>5. final = NoFile /\ bundle = NoFile
    BY <2>2, <2>3 DEF CleanedInv, BundleWithdrawn, Guarded, Remains
  <2> QED BY <2>1, <2>4, <2>5
<1>2. CleanupSpec => []CleanedInv
  BY CleanedAtFirst, CleanedNext, CleanupTypes, FirstInvariant, GoneInvariant, PTL DEF CleanupSpec
<1> QED BY <1>1, <1>2, CleanupTypes, GoneInvariant, PTL
=============================================================================
