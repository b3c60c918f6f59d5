----------------------------- MODULE SealProofs -----------------------------
(***************************************************************************)
(* Proofs about Seal, for any set of attempts and any evidence.            *)
(*                                                                         *)
(* Every property but TypeOK is promised while no attempt has locked the   *)
(* fresh claim of a live one (~grabbed).  The argument is that the claim is*)
(* a baton.  Its creator holds it from the moment it is complete (Owned);  *)
(* an attempt that finds it abandoned holds it once it has locked the inode*)
(* and looked at the name again (Recovered); nobody else touches the three *)
(* files, so the holder's program counter says what is in them.            *)
(***************************************************************************)
EXTENDS Seal, FiniteSetTheorems, TLAPS

Removing == {"rmbundle", "rmfinal", "rmclaim"}
Undoing == {"undobundle", "undofinal", "undoclaim"}
Building == {"bundle", "fill", "verify", "finalize", "final", "replace"}
Early == {"stat", "read", "flock", "check", "create", "write"} \cup Removing

\* A complete claim, and a lock on a claim's inode, are of an attempt that has
\* got past writing its claim.
Written ==
    /\ claim # NoFile => pc[claim.by] \notin Early \ {"write"}
    /\ claim # NoFile /\ claim.content # "partial" => pc[claim.by] # "write"
    /\ \A q \in Attempts : seen[q] # NoFile /\ seen[q].content # "partial"
                                => pc[seen[q].by] \notin Early
    /\ \A r \in Attempts : flock[r] # NoAttempt => pc[r] \notin Early

\* The creator of a claim holds it, and from "own" on it has locked it.
Owned == \A p \in Attempts :
    /\ pc[p] = "write" => claim = Made(p, "partial")
    /\ pc[p] = "own" => claim = Made(p, "sealing") /\ flock[p] = NoAttempt
    /\ pc[p] \in Building \cup Undoing => claim = Made(p, "sealing") /\ flock[p] = p

\* An attempt that found the claim abandoned holds it with its lock.
Recovered == \A q \in Attempts :
    /\ pc[q] \in {"flock", "check"} \cup Removing
          => seen[q] # NoFile /\ seen[q].content = "sealing"
    /\ pc[q] \in {"check"} \cup Removing => flock[seen[q].by] = q
    /\ pc[q] \in Removing => claim = seen[q]

\* What the holder's program counter says of the files.
Files ==
    /\ claim = NoFile => bundle = NoFile /\ final = NoFile
    /\ claim # NoFile /\ claim.content = "partial" => bundle = NoFile /\ final = NoFile
    /\ claim # NoFile /\ claim.content = "sealed" =>
          /\ claim = Made(claim.by, "sealed") /\ pc[claim.by] = "sealed"
          /\ bundle = Made(claim.by, "sealed") /\ final = NoFile
    /\ \A p \in Attempts :
          /\ pc[p] \in {"own", "bundle"} => bundle = NoFile /\ final = NoFile
          /\ pc[p] = "fill" => bundle = Made(p, "partial") /\ final = NoFile
          /\ pc[p] \in {"verify", "finalize", "final"}
                => bundle = Made(p, "sealed") /\ final = NoFile
          /\ pc[p] = "replace" => bundle = Made(p, "sealed") /\ final = Made(p, "sealed")
          /\ pc[p] = "undobundle"
                => bundle \in {Made(p, "partial"), Made(p, "sealed")}
          /\ pc[p] \in {"undofinal", "rmfinal"} => bundle = NoFile
          /\ pc[p] \in {"undoclaim", "rmclaim"} => bundle = NoFile /\ final = NoFile
          /\ pc[p] = "sealed" => claim = Made(p, "sealed")

Baton == Written /\ Owned /\ Recovered /\ Files
IInv == TypeOK /\ (~grabbed => Baton)
-----------------------------------------------------------------------------
(* Types.                                                                  *)

LEMMA Types ==
    ASSUME TypeOK, [Next]_vars
    PROVE TypeOK'
<1> USE SealAssumption, NoFileAssumption DEF TypeOK, Go, Stop, Undo, Unlocked, Made, Verdict, disk, File, Contents, PCs, Ended
<1>0. CASE UNCHANGED vars
  BY <1>0 DEF vars
<1>1. ASSUME NEW p \in Attempts, StatClaim(p) PROVE TypeOK'
  BY <1>1 DEF StatClaim
<1>2. ASSUME NEW p \in Attempts, ReadClaim(p) PROVE TypeOK'
  BY <1>2 DEF ReadClaim
<1>3. ASSUME NEW p \in Attempts, LockClaim(p) PROVE TypeOK'
  BY <1>3 DEF LockClaim
<1>4. ASSUME NEW p \in Attempts, CheckClaim(p) PROVE TypeOK'
  BY <1>4 DEF CheckClaim
<1>5. ASSUME NEW p \in Attempts, RemoveBundle(p) PROVE TypeOK'
  BY <1>5 DEF RemoveBundle
<1>6. ASSUME NEW p \in Attempts, RemoveFinal(p) PROVE TypeOK'
  BY <1>6 DEF RemoveFinal
<1>7. ASSUME NEW p \in Attempts, RemoveClaim(p) PROVE TypeOK'
  BY <1>7 DEF RemoveClaim
<1>8. ASSUME NEW p \in Attempts, CreateClaim(p) PROVE TypeOK'
  BY <1>8 DEF CreateClaim
<1>9. ASSUME NEW p \in Attempts, WriteClaim(p) PROVE TypeOK'
  BY <1>9 DEF WriteClaim
<1>10. ASSUME NEW p \in Attempts, OwnClaim(p) PROVE TypeOK'
  BY <1>10 DEF OwnClaim
<1>11. ASSUME NEW p \in Attempts, CreateBundle(p) PROVE TypeOK'
  BY <1>11 DEF CreateBundle
<1>12. ASSUME NEW p \in Attempts, FillBundle(p) PROVE TypeOK'
  BY <1>12 DEF FillBundle
<1>13. ASSUME NEW p \in Attempts, VerifyBundle(p) PROVE TypeOK'
  BY <1>13 DEF VerifyBundle
<1>14. ASSUME NEW p \in Attempts, CheckOwnClaim(p) PROVE TypeOK'
  BY <1>14 DEF CheckOwnClaim
<1>15. ASSUME NEW p \in Attempts, CreateFinal(p) PROVE TypeOK'
  BY <1>15 DEF CreateFinal
<1>16. ASSUME NEW p \in Attempts, ReplaceClaim(p) PROVE TypeOK'
  BY <1>16 DEF ReplaceClaim
<1>17. ASSUME NEW p \in Attempts, UndoBundle(p) PROVE TypeOK'
  BY <1>17 DEF UndoBundle
<1>18. ASSUME NEW p \in Attempts, UndoFinal(p) PROVE TypeOK'
  BY <1>18 DEF UndoFinal
<1>19. ASSUME NEW p \in Attempts, UndoClaim(p) PROVE TypeOK'
  BY <1>19 DEF UndoClaim
<1>20. ASSUME NEW p \in Attempts, FailWrite(p) PROVE TypeOK'
  BY <1>20 DEF FailWrite
<1>21. ASSUME NEW p \in Attempts, Kill(p) PROVE TypeOK'
  BY <1>21 DEF Kill
<1> QED
  BY <1>0, <1>1, <1>2, <1>3, <1>4, <1>5, <1>6, <1>7, <1>8, <1>9, <1>10, <1>11, <1>12, <1>13, <1>14, <1>15, <1>16, <1>17, <1>18, <1>19, <1>20, <1>21 DEF Next, Step

-----------------------------------------------------------------------------
(* The baton is passed on by every step.                                   *)

LEMMA StatClaimKeeps ==
    ASSUME TypeOK, Baton, NEW p \in Attempts, StatClaim(p), ~grabbed'
    PROVE Baton'
<1> USE SealAssumption, NoFileAssumption DEF TypeOK, File, Contents, disk, Baton, Made, Go, Stop, Undo,
    Unlocked, Early, Removing, Undoing, Building, Ended, StatClaim
<1>1. Written'
  BY DEF Written, Owned, Recovered
<1>2. Owned'
  BY DEF Written, Owned, Recovered
<1>3. Recovered'
  BY DEF Written, Owned, Recovered
<1>4. Files'
  BY DEF Written, Owned, Recovered, Files
<1> QED
  BY <1>1, <1>2, <1>3, <1>4

LEMMA ReadClaimKeeps ==
    ASSUME TypeOK, Baton, NEW p \in Attempts, ReadClaim(p), ~grabbed'
    PROVE Baton'
<1> USE SealAssumption, NoFileAssumption DEF TypeOK, File, Contents, disk, Baton, Made, Go, Stop, Undo,
    Unlocked, Early, Removing, Undoing, Building, Ended, Verdict, ReadClaim
<1>1. Written'
  BY DEF Written, Owned, Recovered
<1>2. Owned'
  BY DEF Written, Owned, Recovered
<1>3. Recovered'
  BY DEF Written, Owned, Recovered
<1>4. Files'
  BY DEF Written, Owned, Recovered, Files
<1> QED
  BY <1>1, <1>2, <1>3, <1>4

LEMMA LockClaimKeeps ==
    ASSUME TypeOK, Baton, NEW p \in Attempts, LockClaim(p), ~grabbed'
    PROVE Baton'
<1> USE SealAssumption, NoFileAssumption DEF TypeOK, File, Contents, disk, Baton, Made, Go, Stop, Undo,
    Unlocked, Early, Removing, Undoing, Building, Ended, LockClaim
<1>1. Written'
  BY DEF Written, Owned, Recovered
<1>2. Owned'
  <2> SUFFICES ASSUME NEW q \in Attempts
               PROVE  /\ pc'[q] = "write" => claim' = Made(q, "partial")
                      /\ pc'[q] = "own" => claim' = Made(q, "sealing") /\ flock'[q] = NoAttempt
                      /\ pc'[q] \in Building \cup Undoing
                            => claim' = Made(q, "sealing") /\ flock'[q] = q
    BY DEF Owned
  <2>1. pc'[q] \in {"write", "own"} \cup Building \cup Undoing => q # p /\ pc'[q] = pc[q]
    OBVIOUS
  <2>2. flock'[q] # flock[q] => flock[q] = NoAttempt /\ pc[q] \notin {"own"}
    OBVIOUS
  <2> QED
    BY <2>1, <2>2 DEF Owned
<1>3. Recovered'
  BY DEF Written, Owned, Recovered
<1>4. Files'
  BY DEF Written, Owned, Recovered, Files
<1> QED
  BY <1>1, <1>2, <1>3, <1>4

LEMMA CheckClaimKeeps ==
    ASSUME TypeOK, Baton, NEW p \in Attempts, CheckClaim(p), ~grabbed'
    PROVE Baton'
<1> USE SealAssumption, NoFileAssumption DEF TypeOK, File, Contents, disk, Baton, Made, Go, Stop, Undo,
    Unlocked, Early, Removing, Undoing, Building, Ended, CheckClaim
<1>1. Written'
  BY DEF Written, Owned, Recovered
<1>2. Owned'
  BY DEF Written, Owned, Recovered
<1>3. Recovered'
  BY DEF Written, Owned, Recovered
<1>4. Files'
  BY DEF Written, Owned, Recovered, Files
<1> QED
  BY <1>1, <1>2, <1>3, <1>4

LEMMA RemoveBundleKeeps ==
    ASSUME TypeOK, Baton, NEW p \in Attempts, RemoveBundle(p), ~grabbed'
    PROVE Baton'
<1> USE SealAssumption, NoFileAssumption DEF TypeOK, File, Contents, disk, Baton, Made, Go, Stop, Undo,
    Unlocked, Early, Removing, Undoing, Building, Ended, RemoveBundle
<1>1. Written'
  BY DEF Written, Owned, Recovered
<1>2. Owned'
  BY DEF Written, Owned, Recovered
<1>3. Recovered'
  BY DEF Written, Owned, Recovered
<1>4. Files'
  BY DEF Written, Owned, Recovered, Files
<1> QED
  BY <1>1, <1>2, <1>3, <1>4

LEMMA RemoveFinalKeeps ==
    ASSUME TypeOK, Baton, NEW p \in Attempts, RemoveFinal(p), ~grabbed'
    PROVE Baton'
<1> USE SealAssumption, NoFileAssumption DEF TypeOK, File, Contents, disk, Baton, Made, Go, Stop, Undo,
    Unlocked, Early, Removing, Undoing, Building, Ended, RemoveFinal
<1>1. Written'
  BY DEF Written, Owned, Recovered
<1>2. Owned'
  BY DEF Written, Owned, Recovered
<1>3. Recovered'
  BY DEF Written, Owned, Recovered
<1>4. Files'
  BY DEF Written, Owned, Recovered, Files
<1> QED
  BY <1>1, <1>2, <1>3, <1>4

LEMMA RemoveClaimKeeps ==
    ASSUME TypeOK, Baton, NEW p \in Attempts, RemoveClaim(p), ~grabbed'
    PROVE Baton'
<1> USE SealAssumption, NoFileAssumption DEF TypeOK, File, Contents, disk, Baton, Made, Go, Stop, Undo,
    Unlocked, Early, Removing, Undoing, Building, Ended, RemoveClaim
<1>1. Written'
  BY DEF Written, Owned, Recovered
<1>2. Owned'
  BY DEF Written, Owned, Recovered
<1>3. Recovered'
  BY DEF Written, Owned, Recovered
<1>4. Files'
  BY DEF Written, Owned, Recovered, Files
<1> QED
  BY <1>1, <1>2, <1>3, <1>4

LEMMA CreateClaimKeeps ==
    ASSUME TypeOK, Baton, NEW p \in Attempts, CreateClaim(p), ~grabbed'
    PROVE Baton'
<1> USE SealAssumption, NoFileAssumption DEF TypeOK, File, Contents, disk, Baton, Made, Go, Stop, Undo,
    Unlocked, Early, Removing, Undoing, Building, Ended, CreateClaim
<1>1. Written'
  BY DEF Written, Owned, Recovered
<1>2. Owned'
  BY DEF Written, Owned, Recovered
<1>3. Recovered'
  BY DEF Written, Owned, Recovered
<1>4. Files'
  BY DEF Written, Owned, Recovered, Files
<1> QED
  BY <1>1, <1>2, <1>3, <1>4

LEMMA WriteClaimKeeps ==
    ASSUME TypeOK, Baton, NEW p \in Attempts, WriteClaim(p), ~grabbed'
    PROVE Baton'
<1> USE SealAssumption, NoFileAssumption DEF TypeOK, File, Contents, disk, Baton, Made, Go, Stop, Undo,
    Unlocked, Early, Removing, Undoing, Building, Ended, WriteClaim
<1>1. Written'
  BY DEF Written, Owned, Recovered
<1>2. Owned'
  BY DEF Written, Owned, Recovered
<1>3. Recovered'
  BY DEF Written, Owned, Recovered
<1>4. Files'
  BY DEF Written, Owned, Recovered, Files
<1> QED
  BY <1>1, <1>2, <1>3, <1>4

LEMMA OwnClaimKeeps ==
    ASSUME TypeOK, Baton, NEW p \in Attempts, OwnClaim(p), ~grabbed'
    PROVE Baton'
<1> USE SealAssumption, NoFileAssumption DEF TypeOK, File, Contents, disk, Baton, Made, Go, Stop, Undo,
    Unlocked, Early, Removing, Undoing, Building, Ended, OwnClaim
<1>1. Written'
  BY DEF Written, Owned, Recovered
<1>2. Owned'
  BY DEF Written, Owned, Recovered
<1>3. Recovered'
  BY DEF Written, Owned, Recovered
<1>4. Files'
  BY DEF Written, Owned, Recovered, Files
<1> QED
  BY <1>1, <1>2, <1>3, <1>4

LEMMA CreateBundleKeeps ==
    ASSUME TypeOK, Baton, NEW p \in Attempts, CreateBundle(p), ~grabbed'
    PROVE Baton'
<1> USE SealAssumption, NoFileAssumption DEF TypeOK, File, Contents, disk, Baton, Made, Go, Stop, Undo,
    Unlocked, Early, Removing, Undoing, Building, Ended, CreateBundle
<1>1. Written'
  BY DEF Written, Owned, Recovered
<1>2. Owned'
  BY DEF Written, Owned, Recovered
<1>3. Recovered'
  BY DEF Written, Owned, Recovered
<1>4. Files'
  BY DEF Written, Owned, Recovered, Files
<1> QED
  BY <1>1, <1>2, <1>3, <1>4

LEMMA FillBundleKeeps ==
    ASSUME TypeOK, Baton, NEW p \in Attempts, FillBundle(p), ~grabbed'
    PROVE Baton'
<1> USE SealAssumption, NoFileAssumption DEF TypeOK, File, Contents, disk, Baton, Made, Go, Stop, Undo,
    Unlocked, Early, Removing, Undoing, Building, Ended, FillBundle
<1>1. Written'
  BY DEF Written, Owned, Recovered
<1>2. Owned'
  BY DEF Written, Owned, Recovered
<1>3. Recovered'
  BY DEF Written, Owned, Recovered
<1>4. Files'
  BY DEF Written, Owned, Recovered, Files
<1> QED
  BY <1>1, <1>2, <1>3, <1>4

LEMMA VerifyBundleKeeps ==
    ASSUME TypeOK, Baton, NEW p \in Attempts, VerifyBundle(p), ~grabbed'
    PROVE Baton'
<1> USE SealAssumption, NoFileAssumption DEF TypeOK, File, Contents, disk, Baton, Made, Go, Stop, Undo,
    Unlocked, Early, Removing, Undoing, Building, Ended, VerifyBundle
<1>1. Written'
  BY DEF Written, Owned, Recovered
<1>2. Owned'
  BY DEF Written, Owned, Recovered
<1>3. Recovered'
  BY DEF Written, Owned, Recovered
<1>4. Files'
  BY DEF Written, Owned, Recovered, Files
<1> QED
  BY <1>1, <1>2, <1>3, <1>4

LEMMA CheckOwnClaimKeeps ==
    ASSUME TypeOK, Baton, NEW p \in Attempts, CheckOwnClaim(p), ~grabbed'
    PROVE Baton'
<1> USE SealAssumption, NoFileAssumption DEF TypeOK, File, Contents, disk, Baton, Made, Go, Stop, Undo,
    Unlocked, Early, Removing, Undoing, Building, Ended, CheckOwnClaim
<1>1. Written'
  BY DEF Written, Owned, Recovered
<1>2. Owned'
  BY DEF Written, Owned, Recovered
<1>3. Recovered'
  BY DEF Written, Owned, Recovered
<1>4. Files'
  BY DEF Written, Owned, Recovered, Files
<1> QED
  BY <1>1, <1>2, <1>3, <1>4

LEMMA CreateFinalKeeps ==
    ASSUME TypeOK, Baton, NEW p \in Attempts, CreateFinal(p), ~grabbed'
    PROVE Baton'
<1> USE SealAssumption, NoFileAssumption DEF TypeOK, File, Contents, disk, Baton, Made, Go, Stop, Undo,
    Unlocked, Early, Removing, Undoing, Building, Ended, CreateFinal
<1>1. Written'
  BY DEF Written, Owned, Recovered
<1>2. Owned'
  BY DEF Written, Owned, Recovered
<1>3. Recovered'
  BY DEF Written, Owned, Recovered
<1>4. Files'
  BY DEF Written, Owned, Recovered, Files
<1> QED
  BY <1>1, <1>2, <1>3, <1>4

LEMMA ReplaceClaimKeeps ==
    ASSUME TypeOK, Baton, NEW p \in Attempts, ReplaceClaim(p), ~grabbed'
    PROVE Baton'
<1> USE SealAssumption, NoFileAssumption DEF TypeOK, File, Contents, disk, Baton, Made, Go, Stop, Undo,
    Unlocked, Early, Removing, Undoing, Building, Ended, ReplaceClaim
<1>1. Written'
  BY DEF Written, Owned, Recovered, Files
<1>2. Owned'
  BY DEF Written, Owned, Recovered
<1>3. Recovered'
  BY DEF Written, Owned, Recovered
<1>4. Files'
  BY DEF Written, Owned, Recovered, Files
<1> QED
  BY <1>1, <1>2, <1>3, <1>4

LEMMA UndoBundleKeeps ==
    ASSUME TypeOK, Baton, NEW p \in Attempts, UndoBundle(p), ~grabbed'
    PROVE Baton'
<1> USE SealAssumption, NoFileAssumption DEF TypeOK, File, Contents, disk, Baton, Made, Go, Stop, Undo,
    Unlocked, Early, Removing, Undoing, Building, Ended, UndoBundle
<1>1. Written'
  BY DEF Written, Owned, Recovered
<1>2. Owned'
  BY DEF Written, Owned, Recovered
<1>3. Recovered'
  BY DEF Written, Owned, Recovered
<1>4. Files'
  BY DEF Written, Owned, Recovered, Files
<1> QED
  BY <1>1, <1>2, <1>3, <1>4

LEMMA UndoFinalKeeps ==
    ASSUME TypeOK, Baton, NEW p \in Attempts, UndoFinal(p), ~grabbed'
    PROVE Baton'
<1> USE SealAssumption, NoFileAssumption DEF TypeOK, File, Contents, disk, Baton, Made, Go, Stop, Undo,
    Unlocked, Early, Removing, Undoing, Building, Ended, UndoFinal
<1>1. Written'
  BY DEF Written, Owned, Recovered
<1>2. Owned'
  BY DEF Written, Owned, Recovered
<1>3. Recovered'
  BY DEF Written, Owned, Recovered
<1>4. Files'
  BY DEF Written, Owned, Recovered, Files
<1> QED
  BY <1>1, <1>2, <1>3, <1>4

LEMMA UndoClaimKeeps ==
    ASSUME TypeOK, Baton, NEW p \in Attempts, UndoClaim(p), ~grabbed'
    PROVE Baton'
<1> USE SealAssumption, NoFileAssumption DEF TypeOK, File, Contents, disk, Baton, Made, Go, Stop, Undo,
    Unlocked, Early, Removing, Undoing, Building, Ended, UndoClaim
<1>1. Written'
  BY DEF Written, Owned, Recovered
<1>2. Owned'
  BY DEF Written, Owned, Recovered
<1>3. Recovered'
  BY DEF Written, Owned, Recovered
<1>4. Files'
  BY DEF Written, Owned, Recovered, Files
<1> QED
  BY <1>1, <1>2, <1>3, <1>4

LEMMA FailWriteKeeps ==
    ASSUME TypeOK, Baton, NEW p \in Attempts, FailWrite(p), ~grabbed'
    PROVE Baton'
<1> USE SealAssumption, NoFileAssumption DEF TypeOK, File, Contents, disk, Baton, Made, Go, Stop, Undo,
    Unlocked, Early, Removing, Undoing, Building, Ended, FailWrite
<1>1. Written'
  BY DEF Written, Owned, Recovered
<1>2. Owned'
  BY DEF Written, Owned, Recovered
<1>3. Recovered'
  BY DEF Written, Owned, Recovered
<1>4. Files'
  BY DEF Written, Owned, Recovered, Files
<1> QED
  BY <1>1, <1>2, <1>3, <1>4

LEMMA KillKeeps ==
    ASSUME TypeOK, Baton, NEW p \in Attempts, Kill(p), ~grabbed'
    PROVE Baton'
<1> USE SealAssumption, NoFileAssumption DEF TypeOK, File, Contents, disk, Baton, Made, Go, Stop, Undo,
    Unlocked, Early, Removing, Undoing, Building, Ended, Kill
<1>1. Written'
  BY DEF Written, Owned, Recovered
<1>2. Owned'
  BY DEF Written, Owned, Recovered
<1>3. Recovered'
  BY DEF Written, Owned, Recovered
<1>4. Files'
  BY DEF Written, Owned, Recovered, Files
<1> QED
  BY <1>1, <1>2, <1>3, <1>4

\* The gap, once hit, is remembered.
LEMMA GapRemembered ==
    ASSUME [Next]_vars, ~grabbed'
    PROVE ~grabbed
BY DEF Next, Step, vars, disk, StatClaim, ReadClaim, LockClaim, CheckClaim, RemoveBundle, RemoveFinal, RemoveClaim, CreateClaim, WriteClaim, OwnClaim, CreateBundle, FillBundle, VerifyBundle, CheckOwnClaim, CreateFinal, ReplaceClaim, UndoBundle, UndoFinal, UndoClaim, FailWrite, Kill

LEMMA BatonPassed ==
    ASSUME IInv, [Next]_vars
    PROVE IInv'
<1>1. TypeOK'
  BY Types DEF IInv
<1>2. ASSUME ~grabbed' PROVE Baton'
  <2>1. TypeOK /\ Baton
    BY <1>2, GapRemembered DEF IInv
  <2>2. CASE UNCHANGED vars
    BY <2>1, <2>2 DEF vars, disk, Baton, Written, Owned, Recovered, Files
  <2>3. ASSUME NEW p \in Attempts, StatClaim(p) PROVE Baton'
    BY <1>2, <2>1, <2>3, StatClaimKeeps
  <2>4. ASSUME NEW p \in Attempts, ReadClaim(p) PROVE Baton'
    BY <1>2, <2>1, <2>4, ReadClaimKeeps
  <2>5. ASSUME NEW p \in Attempts, LockClaim(p) PROVE Baton'
    BY <1>2, <2>1, <2>5, LockClaimKeeps
  <2>6. ASSUME NEW p \in Attempts, CheckClaim(p) PROVE Baton'
    BY <1>2, <2>1, <2>6, CheckClaimKeeps
  <2>7. ASSUME NEW p \in Attempts, RemoveBundle(p) PROVE Baton'
    BY <1>2, <2>1, <2>7, RemoveBundleKeeps
  <2>8. ASSUME NEW p \in Attempts, RemoveFinal(p) PROVE Baton'
    BY <1>2, <2>1, <2>8, RemoveFinalKeeps
  <2>9. ASSUME NEW p \in Attempts, RemoveClaim(p) PROVE Baton'
    BY <1>2, <2>1, <2>9, RemoveClaimKeeps
  <2>10. ASSUME NEW p \in Attempts, CreateClaim(p) PROVE Baton'
    BY <1>2, <2>1, <2>10, CreateClaimKeeps
  <2>11. ASSUME NEW p \in Attempts, WriteClaim(p) PROVE Baton'
    BY <1>2, <2>1, <2>11, WriteClaimKeeps
  <2>12. ASSUME NEW p \in Attempts, OwnClaim(p) PROVE Baton'
    BY <1>2, <2>1, <2>12, OwnClaimKeeps
  <2>13. ASSUME NEW p \in Attempts, CreateBundle(p) PROVE Baton'
    BY <1>2, <2>1, <2>13, CreateBundleKeeps
  <2>14. ASSUME NEW p \in Attempts, FillBundle(p) PROVE Baton'
    BY <1>2, <2>1, <2>14, FillBundleKeeps
  <2>15. ASSUME NEW p \in Attempts, VerifyBundle(p) PROVE Baton'
    BY <1>2, <2>1, <2>15, VerifyBundleKeeps
  <2>16. ASSUME NEW p \in Attempts, CheckOwnClaim(p) PROVE Baton'
    BY <1>2, <2>1, <2>16, CheckOwnClaimKeeps
  <2>17. ASSUME NEW p \in Attempts, CreateFinal(p) PROVE Baton'
    BY <1>2, <2>1, <2>17, CreateFinalKeeps
  <2>18. ASSUME NEW p \in Attempts, ReplaceClaim(p) PROVE Baton'
    BY <1>2, <2>1, <2>18, ReplaceClaimKeeps
  <2>19. ASSUME NEW p \in Attempts, UndoBundle(p) PROVE Baton'
    BY <1>2, <2>1, <2>19, UndoBundleKeeps
  <2>20. ASSUME NEW p \in Attempts, UndoFinal(p) PROVE Baton'
    BY <1>2, <2>1, <2>20, UndoFinalKeeps
  <2>21. ASSUME NEW p \in Attempts, UndoClaim(p) PROVE Baton'
    BY <1>2, <2>1, <2>21, UndoClaimKeeps
  <2>22. ASSUME NEW p \in Attempts, FailWrite(p) PROVE Baton'
    BY <1>2, <2>1, <2>22, FailWriteKeeps
  <2>23. ASSUME NEW p \in Attempts, Kill(p) PROVE Baton'
    BY <1>2, <2>1, <2>23, KillKeeps
  <2> QED
    BY <2>2, <2>3, <2>4, <2>5, <2>6, <2>7, <2>8, <2>9, <2>10, <2>11, <2>12, <2>13, <2>14, <2>15, <2>16, <2>17, <2>18, <2>19, <2>20, <2>21, <2>22, <2>23 DEF Next, Step
<1> QED
  BY <1>1, <1>2 DEF IInv

LEMMA BatonAtFirst == Init => IInv
<1> SUFFICES ASSUME Init PROVE IInv
  OBVIOUS
<1> USE SealAssumption DEF Init
<1>1. TypeOK
  <2>1. failures \in 0..MaxFailures
    OBVIOUS
  <2>2. grabbed \in BOOLEAN
    OBVIOUS
  <2> QED
    BY <2>1, <2>2 DEF TypeOK, PCs, Ended
<1>2. Baton
  BY DEF Baton, Written, Owned, Recovered, Files, Removing, Undoing, Building
<1> QED
  BY <1>1, <1>2 DEF IInv

-----------------------------------------------------------------------------
(* Theorems.                                                               *)

\* The inductive invariant: the types, and the baton while it is honoured.
THEOREM BatonHeld == Spec => []IInv
<1>1. Init => IInv
  BY BatonAtFirst
<1>2. IInv /\ [Next]_vars => IInv'
  BY BatonPassed
<1> QED
  BY <1>1, <1>2, PTL DEF Spec

\* The three files, the locks and the program counters of the sealing attempts
\* keep their types.
THEOREM TypeCorrect == Spec => []TypeOK
<1>1. IInv => TypeOK
  BY DEF IInv
<1> QED
  BY <1>1, BatonHeld, PTL

\* What seal_delta_bundle reported sealed stays: receipt and bundle are the
\* caller's own, whatever other attempts recover or roll back.
THEOREM SuccessStays == Spec => []SuccessKept
<1>1. IInv => SuccessKept
  BY DEF IInv, Baton, Files, SuccessKept, TypeOK, Made
<1> QED
  BY <1>1, BatonHeld, PTL

\* No failure or kill leaves a bundle or a final receipt without the claim
\* that lets _acquire_seal_claim clear them away.
THEOREM LeftoversStayClaimed == Spec => []LeftoversClaimed
<1>1. IInv => LeftoversClaimed
  BY DEF IInv, Baton, Files, LeftoversClaimed
<1> QED
  BY <1>1, BatonHeld, PTL

\* At most one attempt is past its claim, sealing, rolling back or clearing up.
THEOREM OneAtATime == Spec => []OneAtWork
<1>1. ASSUME IInv, ~grabbed PROVE Cardinality(Sealers) <= 1
  <2>1. ASSUME NEW p \in Sealers, NEW q \in Sealers PROVE p = q
    BY <1>1, <2>1 DEF IInv, TypeOK, Baton, Owned, Recovered, Sealers, Removing, Undoing, Building, Made
  <2>2. CASE Sealers = {}
    BY <2>2, FS_EmptySet
  <2>3. ASSUME NEW p \in Sealers PROVE Cardinality(Sealers) <= 1
    <3>1. Sealers = {p}
      BY <2>1
    <3> QED
      BY <3>1, FS_Singleton
  <2> QED
    BY <2>2, <2>3
<1>2. IInv => OneAtWork
  BY <1>1 DEF OneAtWork
<1> QED
  BY <1>2, BatonHeld, PTL

\* An attempt that has succeeded takes no further step.
LEMMA SealedIsFinal ==
    ASSUME TypeOK, [Next]_vars, NEW p \in Attempts, pc[p] = "sealed"
    PROVE pc'[p] = "sealed"
<1>1. CASE UNCHANGED vars
  BY <1>1 DEF vars
<1>2. ASSUME NEW q \in Attempts, Step(q) \/ FailWrite(q) \/ Kill(q) PROVE pc'[p] = "sealed"
  BY <1>2 DEF TypeOK, Step, Go, Stop, Undo, Ended, StatClaim, ReadClaim, LockClaim, CheckClaim, RemoveBundle, RemoveFinal, RemoveClaim, CreateClaim, WriteClaim, OwnClaim, CreateBundle, FillBundle, VerifyBundle, CheckOwnClaim, CreateFinal, ReplaceClaim, UndoBundle, UndoFinal, UndoClaim, FailWrite, Kill
<1> QED
  BY <1>1, <1>2 DEF Next

\* The evidence that read_sealed_delta_bundle returns is written once and never
\* changes: as long as no fresh claim is grabbed, Seal implements SealOnce.
THEOREM SealsOnce == Spec /\ [](~grabbed) => SealedOnce
<1>1. ASSUME Init PROVE Register!Init
  BY <1>1 DEF Init, Register!Init, ReadSealed, Readable
<1>2. ASSUME IInv, IInv', ~grabbed, ~grabbed', [Next]_vars PROVE [Register!Seal]_ReadSealed
  <2> USE <1>2
  <2>1. ASSUME Readable PROVE ReadSealed' = ReadSealed
    <3>1. PICK p \in Attempts : claim = Made(p, "sealed") /\ pc[p] = "sealed" /\ bundle = Made(p, "sealed")
      BY <2>1 DEF IInv, TypeOK, File, Baton, Files, Readable
    <3>2. pc'[p] = "sealed"
      BY <3>1, SealedIsFinal DEF IInv
    <3>3. claim' = Made(p, "sealed") /\ bundle' = Made(p, "sealed")
      BY <3>2 DEF IInv, Baton, Files, Made
    <3> QED
      BY <3>1, <3>3, NoFileAssumption DEF ReadSealed, Readable, Made, File, Contents
  <2>2. ASSUME ~Readable PROVE ReadSealed = NoFile /\ ReadSealed' \in Evidence \cup {NoFile}
    BY <2>2, SealAssumption DEF IInv, TypeOK, File, ReadSealed, Readable
  <2> QED
    BY <2>1, <2>2 DEF Register!Seal
<1> QED
  BY <1>1, <1>2, BatonHeld, PTL DEF Spec, SealedOnce, Register!Spec
=============================================================================
