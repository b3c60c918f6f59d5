-------------------------------- MODULE Seal --------------------------------
(***************************************************************************)
(* Sealing the delta bundle of one invocation: seal_delta_bundle and the   *)
(* functions it calls in boss-dispatch's bundle.py.  A worker's result is  *)
(* persisted "exactly once as a private immutable JSON bundle".            *)
(*                                                                         *)
(*   claim    .model-boss-sealed-<id>.json        the trust anchor: first  *)
(*            a claim ("sealing", mode 0600), in the end the receipt       *)
(*            ("sealed", mode 0400)                                        *)
(*   final    .model-boss-sealed-final-<id>.json  the receipt, until it is *)
(*            renamed over the claim                                       *)
(*   bundle   worker.delta                        the evidence itself      *)
(*                                                                         *)
(* An attempt is one call of seal_delta_bundle.  Attempts may overlap, fail*)
(* at a write, and be killed between any two of their system calls; only   *)
(* flock, advisory and held on an inode rather than on a name, orders them.*)
(* A file is identified by the attempt that created it and by what it has  *)
(* written so far, which is all that _same_file_state can tell apart.      *)
(* Definitions whose name ends in X are slips of the one they precede.     *)
(***************************************************************************)
EXTENDS Naturals, FiniteSets

CONSTANTS
    Attempts,       \* calls of seal_delta_bundle
    Evidence,       \* canonical bundle contents
    EvidenceOf,     \* what each attempt seals
    NoFile,         \* the name is absent
    NoAttempt,      \* the inode is not locked
    MaxFailures     \* bound: attempts killed, and writes that fail

ASSUME SealAssumption ==
    /\ EvidenceOf \in [Attempts -> Evidence]
    /\ NoAttempt \notin Attempts
    /\ MaxFailures \in Nat

(* "partial": created, not yet (all) written; "sealing": a complete claim; *)
(* "sealed": complete and mode 0400.                                       *)
Contents == {"partial", "sealing", "sealed"}
File == [by : Attempts, content : Contents]

ASSUME NoFileAssumption == NoFile \notin File

VARIABLES
    claim, final, bundle,   \* the three names
    flock,                  \* who holds the flock of the claim inode created by each attempt
    pc,                     \* each attempt's program counter
    seen,                   \* the stat result and content of the claim an attempt found
    outcome,                \* what an attempt that rolls back will raise
    failures,               \* counter of the bound
    grabbed                 \* history: some attempt locked the fresh claim of a live one

disk == <<claim, final, bundle>>
vars == <<disk, flock, pc, seen, outcome, failures, grabbed>>

Ended == {"sealed", "already", "error", "dead"}
PCs == {"stat", "read", "flock", "check", "rmbundle", "rmfinal", "rmclaim", "create",
        "write", "own", "bundle", "fill", "verify", "finalize", "final", "replace",
        "undobundle", "undofinal", "undoclaim"} \cup Ended

Made(p, content) == [by |-> p, content |-> content]
Go(p, next) == pc' = [pc EXCEPT ![p] = next]

\* close, or the death of the process, drops the flocks an attempt holds
Unlocked(p) == [q \in Attempts |-> IF flock[q] = p THEN NoAttempt ELSE flock[q]]

\* the call ends with this result
Stop(p, result) == Go(p, result) /\ flock' = Unlocked(p)

UndoX(p, result, from) ==    \* the error is raised before the rollback
    /\ Go(p, result)
    /\ outcome' = [outcome EXCEPT ![p] = from]

\* it ends with this error once the rollback is done
Undo(p, result, from) ==
    /\ Go(p, from)
    /\ outcome' = [outcome EXCEPT ![p] = result]

-----------------------------------------------------------------------------
Init ==
    /\ claim = NoFile /\ final = NoFile /\ bundle = NoFile
    /\ flock = [p \in Attempts |-> NoAttempt]
    /\ pc = [p \in Attempts |-> "stat"]
    /\ seen = [p \in Attempts |-> NoFile]
    /\ outcome = [p \in Attempts |-> "error"]
    /\ failures = 0
    /\ grabbed = FALSE

-----------------------------------------------------------------------------
(* _acquire_seal_claim: a claim that is already there.                     *)

\* _open_receipt_at: stat of the name
StatClaim(p) ==
    /\ pc[p] = "stat"
    /\ seen' = [seen EXCEPT ![p] = claim]
    /\ Go(p, IF claim = NoFile THEN "create" ELSE "read")
    /\ UNCHANGED <<disk, flock, outcome, failures, grabbed>>

\* what a claim says: torn JSON is an error, a sealed receipt a refusal
Verdict == [partial |-> "error", sealing |-> "flock", sealed |-> "already"]

\* its open, read and second stat.  A name that is gone by now reads as
\* absent; an inode that changed meanwhile is an error.
ReadClaim(p) ==
    /\ pc[p] = "read"
    /\ \/ claim = NoFile /\ Go(p, "create")
       \/ claim # NoFile /\ claim # seen[p] /\ Go(p, "error")
       \/ claim # NoFile /\ claim = seen[p] /\ Go(p, Verdict[claim.content])
    /\ UNCHANGED <<disk, flock, seen, outcome, failures, grabbed>>

\* flock LOCK_EX | LOCK_NB on the inode that was opened
LockClaim(p) ==
    /\ pc[p] = "flock"
    /\ IF flock[seen[p].by] = NoAttempt
       THEN /\ flock' = [flock EXCEPT ![seen[p].by] = p]
            /\ grabbed' = (grabbed \/ pc[seen[p].by] = "own")
            /\ Go(p, "check")
       ELSE Go(p, "already") /\ UNCHANGED <<flock, grabbed>>
    /\ UNCHANGED <<disk, seen, outcome, failures>>

CheckClaimX(p) ==    \* no second stat, no comparison of the evidence
    /\ pc[p] = "check" /\ Go(p, "rmbundle")
    /\ UNCHANGED <<disk, flock, seen, outcome, failures, grabbed>>

\* the name still leads to that inode, and the claim binds the same evidence
CheckClaim(p) ==
    /\ pc[p] = "check"
    /\ \/ claim # seen[p] /\ Stop(p, "error")
       \/ /\ claim = seen[p] /\ EvidenceOf[claim.by] # EvidenceOf[p]
          /\ Stop(p, "already")
       \/ /\ claim = seen[p] /\ EvidenceOf[claim.by] = EvidenceOf[p]
          /\ Go(p, "rmbundle") /\ UNCHANGED flock
    /\ UNCHANGED <<disk, seen, outcome, failures, grabbed>>

\* the abandoned attempt's files go, the claim last and by its name
RemoveBundle(p) ==
    /\ pc[p] = "rmbundle"
    /\ bundle' = NoFile /\ Go(p, "rmfinal")
    /\ UNCHANGED <<claim, final, flock, seen, outcome, failures, grabbed>>

RemoveFinalX(p) ==    \* a final receipt that was left behind stays
    /\ pc[p] = "rmfinal" /\ Go(p, "rmclaim")
    /\ UNCHANGED <<disk, flock, seen, outcome, failures, grabbed>>

RemoveFinal(p) ==
    /\ pc[p] = "rmfinal"
    /\ final' = NoFile /\ Go(p, "rmclaim")
    /\ UNCHANGED <<claim, bundle, flock, seen, outcome, failures, grabbed>>

RemoveClaim(p) ==
    /\ pc[p] = "rmclaim"
    /\ IF claim = NoFile THEN Stop(p, "error") /\ UNCHANGED claim
       ELSE claim' = NoFile /\ Stop(p, "create")
    /\ UNCHANGED <<final, bundle, seen, outcome, failures, grabbed>>

-----------------------------------------------------------------------------
(* _acquire_seal_claim: a claim of one's own, by _create_receipt_at.       *)

CreateClaimX(p) ==    \* without O_EXCL
    /\ pc[p] = "create"
    /\ claim' = Made(p, "partial") /\ Go(p, "write")
    /\ UNCHANGED <<final, bundle, flock, seen, outcome, failures, grabbed>>

\* open O_CREAT | O_EXCL
CreateClaim(p) ==
    /\ pc[p] = "create"
    /\ IF claim = NoFile THEN claim' = Made(p, "partial") /\ Go(p, "write")
       ELSE Go(p, "error") /\ UNCHANGED claim
    /\ UNCHANGED <<final, bundle, flock, seen, outcome, failures, grabbed>>

\* the whole claim is written; an inode whose name is gone by then is an error
WriteClaim(p) ==
    /\ pc[p] = "write"
    /\ IF claim = Made(p, "partial")
       THEN claim' = Made(p, "sealing") /\ Go(p, "own")
       ELSE Go(p, "error") /\ UNCHANGED claim
    /\ UNCHANGED <<final, bundle, flock, seen, outcome, failures, grabbed>>

\* only now is the new inode locked; if another attempt was faster the claim
\* is unlinked, by inode, and the call fails
OwnClaim(p) ==
    /\ pc[p] = "own"
    /\ IF flock[p] = NoAttempt
       THEN flock' = [flock EXCEPT ![p] = p] /\ Go(p, "bundle") /\ UNCHANGED claim
       ELSE /\ claim' = IF claim = Made(p, "sealing") THEN NoFile ELSE claim
            /\ Go(p, "error") /\ UNCHANGED flock
    /\ UNCHANGED <<final, bundle, seen, outcome, failures, grabbed>>

-----------------------------------------------------------------------------
(* seal_delta_bundle: the bundle, under the claim.                         *)

\* open O_CREAT | O_EXCL; a bundle that is there belongs to somebody else
CreateBundle(p) ==
    /\ pc[p] = "bundle"
    /\ IF bundle = NoFile
       THEN bundle' = Made(p, "partial") /\ Go(p, "fill") /\ UNCHANGED outcome
       ELSE Undo(p, "already", "undofinal") /\ UNCHANGED bundle
    /\ UNCHANGED <<claim, final, flock, seen, failures, grabbed>>

\* write, fsync, fchmod 0400, fsync, fstat: one hard link
FillBundle(p) ==
    /\ pc[p] = "fill"
    /\ IF bundle = Made(p, "partial")
       THEN bundle' = Made(p, "sealed") /\ Go(p, "verify") /\ UNCHANGED outcome
       ELSE Undo(p, "error", "undobundle") /\ UNCHANGED bundle
    /\ UNCHANGED <<claim, final, flock, seen, failures, grabbed>>

\* the name still leads to that file, and the layout is intact
VerifyBundle(p) ==
    /\ pc[p] = "verify"
    /\ IF bundle = Made(p, "sealed") THEN Go(p, "finalize") /\ UNCHANGED outcome
       ELSE Undo(p, "error", "undobundle")
    /\ UNCHANGED <<disk, flock, seen, failures, grabbed>>

\* _finalize_seal_receipt: the claim is still this attempt's
CheckOwnClaim(p) ==
    /\ pc[p] = "finalize"
    /\ IF claim = Made(p, "sealing") THEN Go(p, "final") /\ UNCHANGED outcome
       ELSE Undo(p, "error", "undobundle")
    /\ UNCHANGED <<disk, flock, seen, failures, grabbed>>

\* the final receipt, by _create_receipt_at.  A torn one, left by a kill, is
\* to everybody else what a whole one is: a name that is taken, a file to remove.
CreateFinal(p) ==
    /\ pc[p] = "final"
    /\ IF final = NoFile
       THEN final' = Made(p, "sealed") /\ Go(p, "replace") /\ UNCHANGED outcome
       ELSE Undo(p, "error", "undobundle") /\ UNCHANGED final
    /\ UNCHANGED <<claim, bundle, flock, seen, failures, grabbed>>

\* os.replace: whatever is at the final name becomes the receipt
ReplaceClaim(p) ==
    /\ pc[p] = "replace"
    /\ IF final # NoFile
       THEN claim' = final /\ final' = NoFile /\ Stop(p, "sealed") /\ UNCHANGED outcome
       ELSE Undo(p, "error", "undobundle") /\ UNCHANGED <<claim, final, flock>>
    /\ UNCHANGED <<bundle, seen, failures, grabbed>>

-----------------------------------------------------------------------------
(* The except blocks: _unlink_created_file and _rollback_seal_claim.       *)

\* the bundle, if it is still the inode this attempt created
UndoBundle(p) ==
    /\ pc[p] = "undobundle"
    /\ bundle' = IF bundle \in {Made(p, "partial"), Made(p, "sealed")} THEN NoFile ELSE bundle
    /\ Go(p, "undofinal")
    /\ UNCHANGED <<claim, final, flock, seen, outcome, failures, grabbed>>

UndoFinalX(p) ==    \* the final receipt stays
    /\ pc[p] = "undofinal" /\ Go(p, "undoclaim")
    /\ UNCHANGED <<disk, flock, seen, outcome, failures, grabbed>>

\* the final receipt, whosever it is
UndoFinal(p) ==
    /\ pc[p] = "undofinal"
    /\ final' = NoFile /\ Go(p, "undoclaim")
    /\ UNCHANGED <<claim, bundle, flock, seen, outcome, failures, grabbed>>

\* the claim, if it is still the inode this attempt created
UndoClaim(p) ==
    /\ pc[p] = "undoclaim"
    /\ claim' = IF claim = Made(p, "sealing") THEN NoFile ELSE claim
    /\ Stop(p, outcome[p])
    /\ UNCHANGED <<final, bundle, seen, outcome, failures, grabbed>>

-----------------------------------------------------------------------------
\* a write of the claim, the bundle or the final receipt fails (no space,
\* say), and _create_receipt_at unlinks what it created; or the rename fails
FailWrite(p) ==
    /\ failures < MaxFailures /\ failures' = failures + 1
    /\ \/ /\ pc[p] = "write" /\ Go(p, "error")
          /\ claim' = IF claim = Made(p, "partial") THEN NoFile ELSE claim
          /\ UNCHANGED outcome
       \/ /\ pc[p] \in {"fill", "final", "replace"} /\ Undo(p, "error", "undobundle")
          /\ UNCHANGED claim
    /\ UNCHANGED <<final, bundle, flock, seen, grabbed>>

\* the process is killed between two system calls
Kill(p) ==
    /\ pc[p] \notin Ended /\ failures < MaxFailures
    /\ failures' = failures + 1
    /\ Stop(p, "dead")
    /\ UNCHANGED <<disk, seen, outcome, grabbed>>

Step(p) ==
    \/ StatClaim(p) \/ ReadClaim(p) \/ LockClaim(p) \/ CheckClaim(p)
    \/ RemoveBundle(p) \/ RemoveFinal(p) \/ RemoveClaim(p)
    \/ CreateClaim(p) \/ WriteClaim(p) \/ OwnClaim(p)
    \/ CreateBundle(p) \/ FillBundle(p) \/ VerifyBundle(p)
    \/ CheckOwnClaim(p) \/ CreateFinal(p) \/ ReplaceClaim(p)
    \/ UndoBundle(p) \/ UndoFinal(p) \/ UndoClaim(p)

Next == \E p \in Attempts : Step(p) \/ FailWrite(p) \/ Kill(p)

Spec == Init /\ [][Next]_vars

\* a call runs straight on; nothing obliges a write to fail or a kill to come
FairSpec == Spec /\ \A p \in Attempts : WF_vars(Step(p))

-----------------------------------------------------------------------------
\* read_sealed_delta_bundle succeeds: both files are complete, read-only and
\* agree on the evidence
ReadableX ==    \* a receipt of either state will do
    /\ claim # NoFile /\ claim.content \in {"sealing", "sealed"}
    /\ bundle # NoFile /\ bundle.content = "sealed"
    /\ EvidenceOf[bundle.by] = EvidenceOf[claim.by]

Readable ==
    /\ claim # NoFile /\ claim.content = "sealed"
    /\ bundle # NoFile /\ bundle.content = "sealed"
    /\ EvidenceOf[bundle.by] = EvidenceOf[claim.by]

ReadSealed == IF Readable THEN EvidenceOf[bundle.by] ELSE NoFile

Register == INSTANCE SealOnce WITH None <- NoFile, value <- ReadSealed

-----------------------------------------------------------------------------
(* Properties.  Those that speak of ~grabbed hold until an attempt locks a *)
(* claim whose creator is alive but has not locked it yet, the gap between *)
(* the two halves of _acquire_seal_claim.                                  *)

\* The variables have their types.
TypeOK ==
    /\ claim \in File \cup {NoFile}
    /\ final \in File \cup {NoFile}
    /\ bundle \in File \cup {NoFile}
    /\ flock \in [Attempts -> Attempts \cup {NoAttempt}]
    /\ pc \in [Attempts -> PCs]
    /\ seen \in [Attempts -> File \cup {NoFile}]
    /\ outcome \in [Attempts -> {"already", "error"}]
    /\ failures \in 0..MaxFailures
    /\ grabbed \in BOOLEAN

\* A caller that was told its evidence is sealed can rely on it for ever: the
\* receipt and the bundle are the ones it made (so no two callers are told),
\* and no rollback or recovery by another attempt takes either away.
SuccessKept ==
    ~grabbed => \A p \in Attempts : pc[p] = "sealed" =>
        /\ claim = Made(p, "sealed")
        /\ bundle = Made(p, "sealed")
        /\ final = NoFile

\* Whatever fails or is killed wherever, a bundle or a final receipt never
\* outlives the claim that lets a later attempt (or cleanup) remove it:
\* without the claim the next attempt would be refused by its leftovers.
LeftoversClaimed == ~grabbed /\ claim = NoFile => bundle = NoFile /\ final = NoFile

\* A claim says who is at work behind it: no two attempts are past it at once,
\* be it to seal or to clear an abandoned attempt's files away.
Sealers == {p \in Attempts : pc[p] \in
    {"bundle", "fill", "verify", "finalize", "final", "replace",
     "undobundle", "undofinal", "undoclaim", "rmbundle", "rmfinal", "rmclaim"}}
OneAtWork == ~grabbed => Cardinality(Sealers) <= 1

\* What read_sealed_delta_bundle returns is the abstract register: nothing
\* until one step makes it some evidence, the same evidence ever after.
SealedOnce == Register!Spec

\* A crash costs a retry at most: when every other attempt has ended, whatever
\* it left behind, and the claim it left (if any) is complete, abandoned and
\* of the same evidence, an attempt that nothing interrupts seals.
RetrySeals == \A p \in Attempts :
    ( /\ pc[p] = "stat" /\ \A q \in Attempts \ {p} : pc[q] \in Ended
      /\ failures = MaxFailures /\ ~grabbed
      /\ \/ claim = NoFile
         \/ claim.content = "sealing" /\ EvidenceOf[claim.by] = EvidenceOf[p] )
    ~> pc[p] = "sealed"

\* bundle.py:1444: "Persist a worker result exactly once as a private
\* immutable JSON bundle": a caller that was told so finds a bundle.
PersistedExactlyOnce == \A p \in Attempts : pc[p] = "sealed" => bundle # NoFile
=============================================================================
