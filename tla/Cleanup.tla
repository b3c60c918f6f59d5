------------------------------ MODULE Cleanup ------------------------------
(***************************************************************************)
(* cleanup_invocation of boss-dispatch's resources.py, at work on one      *)
(* invocation together with attempts to seal its bundle (module Seal).     *)
(* Every command that ends an invocation, and every one that fails, calls  *)
(* it, so calls overlap, are killed half way, are refused and come again.  *)
(*                                                                         *)
(*   root        the invocation's directory, with the owned entries in it  *)
(*   registered  the repository lists the worktree (git worktree list)     *)
(*   receipt     .model-boss-consumed-<id>.json, beside the root: how far  *)
(*               the invocation is consumed; "torn" when the claim that    *)
(*               created it has not been written                           *)
(*   temp        the files renamed over the receipt to advance it; a file  *)
(*               that a call has still to write is named by that call      *)
(*                                                                         *)
(* The claim, the final receipt, the bundle and their locks are Seal's,    *)
(* and so are the steps of the attempts.                                   *)
(***************************************************************************)
EXTENDS Seal, Sequences

\* MaxFailures bounds the calls of either kind that are killed or hit by an error
CONSTANT Cleaners        \* calls of cleanup_invocation

\* a file named by the call that writes it is no other file
ASSUME CleanersAssumption ==
    Cleaners \cap {"none", "torn", "whole", "claimed", "contents_removed", "complete"} = {}

VARIABLES
    entered,                             \* attempts that found the layout intact
    root, owned, registered,             \* the invocation's resources
    receipt, temp,                       \* the consumption receipt
    at, phase, listed, anchored, found   \* each cleaner's program

sealing == <<vars, entered>>
tree == <<root, owned, registered>>
program == <<at, phase, listed, anchored, found>>
allvars == <<sealing, tree, receipt, temp, program>>

\* what is removed, in the order it is removed ("bundle" is a variable of Seal)
Removals == <<"worktree", "route_state", "evidence", "bundle", "markers", "manifest">>
Entries == {Removals[i] : i \in DOMAIN Removals} \ {"bundle"}

Phases == <<"none", "claimed", "contents_removed", "complete">>
PhaseSet == {Phases[i] : i \in DOMAIN Phases}
Over == {"cleaned", "already_consumed", "rejected", "unavailable", "dead"}
Ats == {"load", "open", "list", "claim", "write", "unregister", "make_contents", "move_contents",
        "look", "take", "look_final", "take_final", "absent", "rmdir", "finish",
        "fill_contents", "make_complete", "fill_complete", "move_complete", "contents_removed"}
       \cup {Removals[i] : i \in DOMAIN Removals}
       \cup Over

\* _validate_active_resources: everything but the worktree must be there
Intact == root /\ Entries \ {"worktree"} \subseteq owned

CleanupInit ==
    /\ Init /\ entered = {}
    /\ root = TRUE /\ registered \in BOOLEAN
    /\ owned = IF registered THEN Entries ELSE Entries \ {"worktree"}
    /\ receipt = "none" /\ temp = [s \in {"contents_removed", "complete"} |-> "none"]
    /\ at = [c \in Cleaners |-> "load"]
    /\ phase = [c \in Cleaners |-> "none"]
    /\ listed = [c \in Cleaners |-> FALSE]
    /\ anchored = [c \in Cleaners |-> FALSE]
    /\ found = [c \in Cleaners |-> NoFile]

Goto(c, next) == at' = [at EXCEPT ![c] = next]
Reject(c) == Goto(c, "rejected")

-----------------------------------------------------------------------------
(* The attempts to seal, where the directory they work in matters.         *)

\* _validated_root: the layout is looked at before anything is claimed
Enter(p) ==
    /\ pc[p] = "stat" /\ p \notin entered
    /\ IF Intact THEN entered' = entered \cup {p} /\ UNCHANGED pc
       ELSE Go(p, "error") /\ UNCHANGED entered
    /\ UNCHANGED <<claim, final, bundle, flock, seen, outcome, failures, grabbed>>

\* the directory is gone: open or the layout check fails, and all is undone
FailLayout(p) ==
    /\ \/ pc[p] = "bundle" /\ ~root /\ Undo(p, "error", "undofinal")
       \/ pc[p] = "verify" /\ ~Intact /\ Undo(p, "error", "undobundle")
    /\ UNCHANGED <<claim, final, bundle, flock, seen, failures, grabbed, entered>>

SealStep(p) ==
    \/ Enter(p)
    \/ FailLayout(p)
    \/ /\ pc[p] = "stat" => p \in entered
       /\ pc[p] = "bundle" => root
       /\ pc[p] = "verify" => Intact
       /\ Step(p)
       /\ UNCHANGED entered

SealTrouble(p) == (FailWrite(p) \/ Kill(p)) /\ UNCHANGED entered

-----------------------------------------------------------------------------
(* cleanup_invocation up to the first removal.                             *)

\* load_invocation_resources: how the command comes by the resources, which it
\* may hold for long before it calls cleanup_invocation
Load(c) ==
    /\ at[c] = "load"
    /\ Goto(c, IF Intact THEN "open" ELSE "unavailable")
    /\ UNCHANGED <<sealing, tree, receipt, temp, phase, listed, anchored, found>>

\* _existing_consumption_phase, _open_root_anchor and the first validation
Open(c) ==
    /\ at[c] = "open"
    /\ \/ receipt \in {"torn"} \cup Cleaners /\ Reject(c) /\ UNCHANGED <<phase, anchored>>
       \/ receipt = "complete" /\ Goto(c, "already_consumed") /\ UNCHANGED <<phase, anchored>>
       \/ /\ receipt \in {"none", "claimed", "contents_removed"}
          /\ phase' = [phase EXCEPT ![c] = receipt]
          /\ anchored' = [anchored EXCEPT ![c] = root]
          /\ IF \/ receipt = "none" /\ Intact
                \/ receipt = "claimed" /\ root
                \/ receipt = "contents_removed"
             THEN Goto(c, "list") ELSE Reject(c)
    /\ UNCHANGED <<sealing, tree, receipt, temp, listed, found>>

\* git worktree list, after which everything is validated again
List(c) ==
    /\ at[c] = "list"
    /\ listed' = [listed EXCEPT ![c] = registered]
    /\ \/ phase[c] = "none" /\ Intact /\ Goto(c, "claim")
       \/ phase[c] # "none" /\ (anchored[c] => root) /\ Goto(c, "unregister")
       \/ phase[c] = "none" /\ ~Intact /\ Reject(c)
       \/ phase[c] # "none" /\ anchored[c] /\ ~root /\ Reject(c)
    /\ UNCHANGED <<sealing, tree, receipt, temp, phase, anchored, found>>

ClaimConsumptionX(c) ==    \* a claim of another call is overwritten
    /\ at[c] = "claim"
    /\ receipt' = "torn" /\ Goto(c, "write")
    /\ UNCHANGED <<sealing, tree, temp, phase, listed, anchored, found>>

\* the consumption receipt: open O_CREAT | O_EXCL ...
ClaimConsumption(c) ==
    /\ at[c] = "claim"
    /\ IF receipt = "none" THEN receipt' = "torn" /\ Goto(c, "write")
       ELSE Reject(c) /\ UNCHANGED receipt
    /\ UNCHANGED <<sealing, tree, temp, phase, listed, anchored, found>>

\* ... and its one line of JSON
WriteConsumption(c) ==
    /\ at[c] = "write"
    /\ receipt' = "claimed" /\ phase' = [phase EXCEPT ![c] = "claimed"]
    /\ Goto(c, "unregister")
    /\ UNCHANGED <<sealing, tree, temp, listed, anchored, found>>

-----------------------------------------------------------------------------
(* The removals.                                                           *)

\* how the program goes on after git: by its phase and what is left of the root
AfterGit(c) == IF ~anchored[c] THEN "finish"
               ELSE IF phase[c] = "claimed" THEN Removals[1] ELSE "look"

\* git worktree remove --force, which fails on a worktree that is not listed
Unregister(c) ==
    /\ at[c] = "unregister"
    /\ \/ ~listed[c] /\ Goto(c, AfterGit(c)) /\ UNCHANGED tree
       \/ /\ listed[c] /\ (phase[c] = "contents_removed" \/ ~root \/ ~registered)
          /\ Reject(c) /\ UNCHANGED tree
       \/ /\ listed[c] /\ phase[c] = "claimed" /\ root /\ registered
          /\ registered' = FALSE /\ owned' = owned \ {"worktree"}
          /\ Goto(c, AfterGit(c)) /\ UNCHANGED root
    /\ UNCHANGED <<sealing, receipt, temp, phase, listed, anchored, found>>

Position(c) == CHOOSE i \in DOMAIN Removals : Removals[i] = at[c]
NextRemoval(c) == IF Position(c) = Len(Removals) THEN "contents_removed"
                  ELSE Removals[Position(c) + 1]

\* _remove_owned_directory, _unlink_owned_file: an entry that is gone is skipped
Remove(c) ==
    /\ at[c] \in Entries \cup {"bundle"}
    /\ IF ~root THEN Reject(c) /\ UNCHANGED <<owned, bundle>>
       ELSE /\ owned' = owned \ {at[c]}
            /\ bundle' = IF at[c] = "bundle" THEN NoFile ELSE bundle
            /\ Goto(c, NextRemoval(c))
    /\ UNCHANGED <<claim, final, flock, pc, seen, outcome, failures, grabbed, entered,
                   root, registered, receipt, temp, phase, listed, anchored, found>>

-----------------------------------------------------------------------------
(* _mark_contents_removed and _finish_consumption_receipt.  `at` is the    *)
(* state to reach, then the same state with the step of the way there.     *)

Steps == {"contents_removed", "complete"}
Before(s) == IF s = "complete" THEN "contents_removed" ELSE "claimed"
Making(s) == IF s = "complete" THEN "make_complete" ELSE "make_contents"
Filling(s) == IF s = "complete" THEN "fill_complete" ELSE "fill_contents"
Moving(s) == IF s = "complete" THEN "move_complete" ELSE "move_contents"
AfterX(s) == IF s = "complete" THEN "complete" ELSE "look"    \* the receipt's state for the result's
After(s) == IF s = "complete" THEN "cleaned" ELSE "look"

\* the receipt is read and must be in the state before
CheckReceipt(c, s) ==
    /\ at[c] = (IF s = "complete" THEN "finish" ELSE s)
    /\ IF receipt = Before(s) THEN Goto(c, Making(s)) ELSE Reject(c)
    /\ UNCHANGED <<sealing, tree, receipt, temp, phase, listed, anchored, found>>

MakeTempX(c, s) ==    \* any file of that name is an error
    /\ at[c] = Making(s)
    /\ IF temp[s] = "none" THEN temp' = [temp EXCEPT ![s] = c] /\ Goto(c, Filling(s))
       ELSE Reject(c) /\ UNCHANGED temp
    /\ UNCHANGED <<sealing, tree, receipt, phase, listed, anchored, found>>

\* open O_CREAT | O_EXCL of the temporary file; a whole one that an earlier
\* call left will do
MakeTemp(c, s) ==
    /\ at[c] = Making(s)
    /\ \/ temp[s] = "none" /\ temp' = [temp EXCEPT ![s] = c] /\ Goto(c, Filling(s))
       \/ temp[s] = "whole" /\ Goto(c, Moving(s)) /\ UNCHANGED temp
       \/ temp[s] \in Cleaners /\ Reject(c) /\ UNCHANGED temp
    /\ UNCHANGED <<sealing, tree, receipt, phase, listed, anchored, found>>

\* its line of JSON, written to that file wherever it has been moved
FillTemp(c, s) ==
    /\ at[c] = Filling(s)
    /\ temp' = IF temp[s] = c THEN [temp EXCEPT ![s] = "whole"] ELSE temp
    /\ receipt' = IF receipt = c THEN s ELSE receipt
    /\ Goto(c, Moving(s))
    /\ UNCHANGED <<sealing, tree, phase, listed, anchored, found>>

\* os.replace, of whatever has that name by now
MoveTemp(c, s) ==
    /\ at[c] = Moving(s)
    /\ IF temp[s] = "none" THEN Reject(c) /\ UNCHANGED <<receipt, temp, phase>>
       ELSE /\ receipt' = IF temp[s] = "whole" THEN s ELSE temp[s]
            /\ temp' = [temp EXCEPT ![s] = "none"]
            /\ phase' = [phase EXCEPT ![c] = s]
            /\ Goto(c, After(s))
    /\ UNCHANGED <<sealing, tree, listed, anchored, found>>

-----------------------------------------------------------------------------
(* _remove_external_seal_files: first the claim (or receipt), then the     *)
(* final receipt; and the end.                                             *)

External(c) == IF at[c] \in {"look", "take"} THEN claim ELSE final
AfterSeal(c) == IF at[c] \in {"look", "take"} THEN "look_final" ELSE "absent"

\* stat of the name
LookSeal(c) ==
    /\ at[c] \in {"look", "look_final"}
    /\ found' = [found EXCEPT ![c] = External(c)]
    /\ Goto(c, IF External(c) = NoFile THEN AfterSeal(c)
             ELSE IF at[c] = "look" THEN "take" ELSE "take_final")
    /\ UNCHANGED <<sealing, tree, receipt, temp, phase, listed, anchored>>

\* an attempt at work has the claim's inode locked (a sealed receipt is
\* another inode, which nobody locks)
Busy(c) == /\ at[c] = "take" /\ found[c].content # "sealed"
           /\ flock[found[c].by] # NoAttempt

\* same inode, and the mode that tells a sealed receipt from a claim
SameSeal(c) == /\ External(c) # NoFile /\ External(c).by = found[c].by
               /\ (External(c).content = "sealed") = (found[c].content = "sealed")

TakeSealX(c) ==    \* no flock
    /\ at[c] = "take"
    /\ claim' = NoFile /\ Goto(c, AfterSeal(c))
    /\ UNCHANGED <<final, bundle, flock, pc, seen, outcome, failures, grabbed, entered,
                   tree, receipt, temp, phase, listed, anchored, found>>

\* open, flock without waiting, second stat, unlink
TakeSeal(c) ==
    /\ at[c] \in {"take", "take_final"}
    /\ IF Busy(c) \/ ~SameSeal(c) THEN Reject(c) /\ UNCHANGED <<claim, final>>
       ELSE /\ claim' = IF at[c] = "take" THEN NoFile ELSE claim
            /\ final' = IF at[c] = "take_final" THEN NoFile ELSE final
            /\ Goto(c, AfterSeal(c))
    /\ UNCHANGED <<bundle, flock, pc, seen, outcome, failures, grabbed, entered,
                   tree, receipt, temp, phase, listed, anchored, found>>

\* _require_owned_contents_absent
CheckAbsent(c) ==
    /\ at[c] = "absent"
    /\ IF root /\ owned = {} /\ bundle = NoFile THEN Goto(c, "rmdir") ELSE Reject(c)
    /\ UNCHANGED <<sealing, tree, receipt, temp, phase, listed, anchored, found>>

\* _remove_empty_anchored_root: a root that is not empty stays, without a word
RemoveRoot(c) ==
    /\ at[c] = "rmdir"
    /\ IF ~root THEN Reject(c) /\ UNCHANGED root
       ELSE root' = (owned # {} \/ bundle # NoFile) /\ Goto(c, "finish")
    /\ UNCHANGED <<sealing, owned, registered, receipt, temp, phase, listed, anchored, found>>

-----------------------------------------------------------------------------
\* a call of cleanup_invocation is killed, or an operation of its raises; a
\* file it was writing stays torn or is unlinked
Trouble(c) ==
    /\ at[c] \notin Over /\ failures < MaxFailures
    /\ failures' = failures + 1
    /\ \/ Goto(c, "dead") /\ UNCHANGED <<receipt, temp>>
       \/ /\ Reject(c)
          /\ receipt' = IF at[c] = "write" THEN "none" ELSE receipt
          /\ temp' = [s \in Steps |-> IF at[c] = Filling(s) THEN "none" ELSE temp[s]]
    /\ UNCHANGED <<claim, final, bundle, flock, pc, seen, outcome, grabbed, entered,
                   tree, phase, listed, anchored, found>>

CleanStep(c) ==
    \/ Load(c) \/ Open(c) \/ List(c) \/ ClaimConsumption(c) \/ WriteConsumption(c)
    \/ Unregister(c) \/ Remove(c)
    \/ \E s \in Steps : CheckReceipt(c, s) \/ MakeTemp(c, s) \/ FillTemp(c, s) \/ MoveTemp(c, s)
    \/ LookSeal(c) \/ TakeSeal(c) \/ CheckAbsent(c) \/ RemoveRoot(c)

CleanupNext ==
    \/ \E p \in Attempts :
          (SealStep(p) \/ SealTrouble(p)) /\ UNCHANGED <<tree, receipt, temp, program>>
    \/ \E c \in Cleaners : CleanStep(c) \/ Trouble(c)

CleanupSpec == CleanupInit /\ [][CleanupNext]_allvars

\* a call that is not killed runs straight on
CleanupFairSpec ==
    /\ CleanupSpec
    /\ \A c \in Cleaners : WF_allvars(CleanStep(c))
    /\ \A p \in Attempts :
          WF_allvars(SealStep(p) /\ UNCHANGED <<tree, receipt, temp, program>>)

-----------------------------------------------------------------------------
(* Properties.                                                             *)

\* The variables have their types.
CleanupTypeOK ==
    /\ TypeOK /\ entered \subseteq Attempts
    /\ root \in BOOLEAN /\ registered \in BOOLEAN /\ owned \subseteq Entries
    /\ receipt \in PhaseSet \cup {"torn"} \cup Cleaners
    /\ temp \in [Steps -> {"none", "whole"} \cup Cleaners]
    /\ at \in [Cleaners -> Ats]
    /\ phase \in [Cleaners -> PhaseSet]
    /\ listed \in [Cleaners -> BOOLEAN] /\ anchored \in [Cleaners -> BOOLEAN]
    /\ found \in [Cleaners -> File \cup {NoFile}]

\* cleanup_invocation: until a whole consumption receipt is there, from which a
\* later call can go on, no call removes anything; in particular what an
\* attempt was told is sealed is still there to be read.
ClaimedFirst == receipt \in {"none", "torn"} => Intact /\ SuccessKept

\* When a call reported the invocation cleaned, and every attempt to seal came
\* to its own end, nothing of the invocation is left: no registration, no claim,
\* receipt or bundle that a racing attempt put back.  (The directory itself may
\* stay, empty: RemoveRoot passes over one that held a bundle for a moment.)
\* Not so once an attempt has locked the fresh claim of a live one: of three
\* attempts one may then clear away the claim of another that goes on to seal.
CleanedUp ==
    /\ ~grabbed
    /\ \E c \in Cleaners : at[c] = "cleaned"
    /\ \A p \in Attempts : pc[p] \in Ended \ {"dead"}
    => /\ owned = {} /\ ~registered
       /\ claim = NoFile /\ final = NoFile /\ bundle = NoFile

\* A call is resumed by the next one: when all else has ended, no file was torn
\* by a kill, and no attempt put a bundle where one was already removed, a call
\* that holds the resources and that nothing interrupts cleans up, however far
\* earlier calls got.
Resumable ==
    /\ receipt = "none" => Intact
    /\ receipt \in PhaseSet /\ \A s \in Steps : temp[s] \in {"none", "whole"}
    /\ receipt = "contents_removed" => bundle = NoFile
CleanupResumes == \A c \in Cleaners :
    ( /\ at[c] = "open" /\ \A d \in Cleaners \ {c} : at[d] \in Over
      /\ \A p \in Attempts : pc[p] \in Ended
      /\ failures = MaxFailures /\ Resumable )
    ~> at[c] \in {"cleaned", "already_consumed"}

\* _emit_provider_worker_failure, when its cleanup was rejected: "use the
\* retained manifest for explicit recovery".  When a call ends rejected, and no
\* other call has been at work, `cleanup` can load that manifest again.
ExplicitRecovery == \A c \in Cleaners :
    at[c] = "rejected" /\ (\A d \in Cleaners \ {c} : at[d] = "load") => Intact
=============================================================================
