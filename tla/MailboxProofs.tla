--------------------------- MODULE MailboxProofs ---------------------------
(***************************************************************************)
(* Theorems about Mailbox, for any number of sessions, names, posts,       *)
(* crashes and slow lock holders.  The argument goes in four layers, each  *)
(* an induction that uses the ones before:                                 *)
(*   1. the type invariant, and what makes it inductive;                   *)
(*   2. mutual exclusion, as long as no live process is evicted;           *)
(*   3. what a session read under the lock stays true until it writes,     *)
(*      from which the order of the seqs, the joins and the cursors follow;*)
(*   4. what becomes of a message: it stays in the file, runs between the  *)
(*      boss and a member, and is passed over by no cursor.                *)
(***************************************************************************)
EXTENDS Mailbox, WellFoundedInduction, SequenceTheorems, TLAPS

\* A non-empty set of positions of a sequence has a last one: the distance
\* from the end has a least value.
LEMMA LastOfIn ==
    ASSUME NEW n \in Nat, NEW I \in SUBSET (1 .. n), I # {}
    PROVE  LastOf(I) \in I /\ \A j \in I : j =< LastOf(I)
<1> DEFINE Less == {ss \in Nat \X Nat : ss[1] < ss[2]}
<1> DEFINE T == {t \in Nat : n - t \in I}
<1>1. OpToRel(<, Nat) = Less
  BY Zenon DEF OpToRel
<1>2. IsWellFoundedOn(Less, Nat)
  BY <1>1, NatLessThanWellFounded, Zenon
<1>3. PICK i \in I : TRUE
  OBVIOUS
<1>4. n - i \in Nat /\ n - (n - i) = i
  OBVIOUS
<1>5. T \subseteq Nat /\ T # {}
  BY <1>3, <1>4
<1> HIDE DEF Less, T
<1>6. PICK t \in T : \A u \in T : ~ (<<u, t>> \in Less)
  BY <1>2, <1>5, WFMin, Zenon
<1>7. \A u \in T : t =< u
  <2>1. t \in Nat /\ T \subseteq Nat
    BY <1>5, <1>6
  <2>2. ASSUME NEW u \in T, u < t PROVE <<u, t>> \in Less
    BY <2>1, <2>2, SMT DEF Less
  <2>3. ASSUME NEW u \in T PROVE t =< u
    <3>1. ~ (u < t)
      BY <1>6, <2>2, Zenon
    <3> QED BY <3>1, <2>1, SMT
  <2> QED BY <2>3
<1>8. n - t \in I /\ t \in Nat
  BY <1>6 DEF T
<1>9. ASSUME NEW j \in I PROVE j =< n - t
  <2>1. j \in 1 .. n /\ n - (n - j) = j /\ n - j \in Nat
    BY <1>9
  <2>2. n - j \in T
    BY <2>1, <1>9 DEF T
  <2> QED BY <2>1, <2>2, <1>7, <1>8
<1> QED BY <1>8, <1>9 DEF LastOf

-----------------------------------------------------------------------------
(* Layer 1: types.  A record of a message needs a natural seq, so the      *)
(* invariant says when num is one; a post is addressed to a name, not to   *)
(* NoBoss, because a room with members has a boss.                         *)

RoomShape == /\ room.boss = NoBoss => room.members = {}
             /\ \A p \in Sessions : job[p].view.boss = NoBoss => job[p].view.members = {}

PostShape == /\ \A p \in Sessions : pc[p] \in {"loaded", "done"} /\ job[p].op = "post"
                                       => job[p].num \in Nat
             /\ open => file # << >>

TypeInv == TypeOK /\ RoomShape /\ PostShape

\* readMessages yields messages, and the last of them has a seq.
LEMMA ReadingTyped ==
    ASSUME TypeOK
    PROVE  /\ Messages \subseteq Message
           /\ Good \in SUBSET (1 .. Len(file)) /\ Len(file) \in Nat
           /\ Good # {} => LastOf(Good) \in Good /\ LastSeq \in Int
           /\ NextSeq \in Nat /\ NextSeq \in Int
           /\ \A n \in Names : unread(n) \subseteq Message
           /\ \A n \in Names : unread(n) # {} => BatchEnd(n) \in Int
<1>1. Len(file) \in Nat /\ DOMAIN file = 1 .. Len(file) /\ Good \in SUBSET (1 .. Len(file))
  BY DEF TypeOK, Good
<1>2. \A i \in Good : file[i] \in Message /\ file[i].seq \in Nat /\ file[i].seq \in Int
  <2>1. \A i \in DOMAIN file : file[i] \in Message \cup {Garbage}
    BY <1>1 DEF TypeOK, FilesOK, ProgramOK, HistoryOK
  <2> QED BY <2>1 DEF Good, Message
<1>3. Messages \subseteq Message
  BY <1>2 DEF Messages
<1>4. Good # {} => LastOf(Good) \in Good /\ LastSeq \in Nat /\ LastSeq \in Int
  BY <1>1, <1>2, LastOfIn DEF LastSeq
<1>5. NextSeq \in Nat /\ NextSeq \in Int
  BY <1>4 DEF NextSeq
<1>6. \A n \in Names : unread(n) \subseteq Message
  BY <1>3 DEF unread
<1>7. ASSUME NEW n \in Names, unread(n) # {} PROVE BatchEnd(n) \in Int
  <2> DEFINE mine == {i \in Good : file[i] \in unread(n)}
  <2>1. mine \in SUBSET (1 .. Len(file)) /\ mine # {}
    BY <1>1, <1>7 DEF unread, Messages
  <2> HIDE DEF mine
  <2>2. LastOf(mine) \in mine
    BY <2>1, <1>1, LastOfIn
  <2>3. BatchEnd(n) = file[LastOf(mine)].seq
    BY DEF BatchEnd, mine
  <2> QED BY <2>2, <2>3, <1>2 DEF mine
<1> QED BY <1>1, <1>3, <1>4, <1>5, <1>6, <1>7

\* An append keeps messages.jsonl a sequence of lines.
LEMMA AppendedTyped ==
    ASSUME TypeOK, PostShape, NEW line \in Message \cup {Garbage}
    PROVE  /\ Appended(line) \in Seq(Message \cup {Garbage})
           /\ Appended(line) # << >>
<1>1. CASE open
  <2>1. Len(file) \in 1 .. Len(file)
    BY <1>1 DEF TypeOK, PostShape
  <2> QED BY <1>1, <2>1, ExceptSeq DEF Appended, TypeOK, FilesOK, ProgramOK, HistoryOK
<1>2. CASE ~open
  <2>1. file \in Seq(Message \cup {Garbage}) /\ Appended(line) = Append(file, line)
    BY <1>2 DEF Appended, TypeOK, FilesOK
  <2> HIDE DEF Message
  <2> QED BY <2>1, AppendProperties
<1> QED BY <1>1, <1>2

LEMMA NoJobTyped == NoJob \in Jobs /\ NoRoom \in Rooms
  BY DEF NoJob, NoRoom, Jobs, Rooms, Commands

LEMMA RecordTyped ==
    ASSUME TypeOK, PostShape, NEW p \in Sessions,
           pc[p] \in {"loaded", "done"}, job[p].op = "post"
    PROVE  Record(p) \in Message
  BY SessionsAssumption DEF TypeOK, ProgramOK, PostShape, Record, Message, Jobs

LEMMA TypeInit == Init => TypeInv
<1> SUFFICES ASSUME Init PROVE TypeInv
  OBVIOUS
<1>1. FilesOK
  <2>1. file \in Seq(Message \cup {Garbage}) /\ room \in Rooms /\ cursor \in [Names -> Int]
    BY NoJobTyped DEF Init
  <2> QED BY <2>1 DEF Init, FilesOK
<1>2. ProgramOK
  BY NoJobTyped DEF Init, ProgramOK, PCs
<1>3. HistoryOK
  BY DEF Init, HistoryOK
<1>4. RoomShape /\ PostShape
  BY DEF Init, RoomShape, PostShape, NoJob, NoRoom
<1> QED BY <1>1, <1>2, <1>3, <1>4 DEF TypeInv, TypeOK

\* Every step keeps the types.
LEMMA TypeNext == TypeInv /\ [Next]_vars => TypeOK'
<1> SUFFICES ASSUME TypeInv, [Next]_vars PROVE TypeOK'
  OBVIOUS
<1>1. ASSUME NEW p \in Sessions, StartRoomCommand(p) PROVE TypeOK'
  <2> USE <1>1
  <2>1. FilesOK'
    BY DEF TypeInv, TypeOK, StartRoomCommand, Begin, Chore, FilesOK, files, locking, bounds, history
  <2>2. (job \in [Sessions -> Jobs])'
    <3>1. \A c \in {"host", "join"} : [NoJob EXCEPT !.op = c] \in Jobs
      BY DEF NoJob, NoRoom, Jobs, Rooms, Commands
    <3> QED BY <3>1 DEF TypeInv, TypeOK, StartRoomCommand, Begin, ProgramOK
  <2>3. (pc \in [Sessions -> PCs])'
    BY SessionsAssumption, NoJobTyped DEF TypeInv, TypeOK, StartRoomCommand, Begin, Chore, ProgramOK, PCs, Critical
  <2>4. (chores \in Nat)'
    BY SessionsAssumption, NoJobTyped DEF TypeInv, TypeOK, StartRoomCommand, Begin, Chore, ProgramOK
  <2>5. ProgramOK'
    BY <2>2, <2>3, <2>4 DEF TypeInv, TypeOK, StartRoomCommand, Begin, Chore, ProgramOK, files, locking, bounds, history
  <2>6. HistoryOK'
    BY DEF TypeInv, TypeOK, StartRoomCommand, Begin, Chore, HistoryOK, files, locking, bounds, history
  <2> QED BY <2>1, <2>5, <2>6 DEF TypeOK
<1>2. ASSUME NEW p \in Sessions, StartPost(p) PROVE TypeOK'
  <2> USE <1>2
  <2>1. FilesOK'
    BY DEF TypeInv, TypeOK, StartPost, Begin, FilesOK, files, locking, bounds, history
  <2>2. (job \in [Sessions -> Jobs])'
    <3>1. Recipients(NameOf[p]) \subseteq Names \cup {All}
      BY SessionsAssumption DEF TypeInv, TypeOK, FilesOK, RoomShape, Rooms, Recipients
    <3>2. \A to \in Names \cup {All} :
              [NoJob EXCEPT !.op = "post", !.to = to, !.text = posts] \in Jobs
      BY NoJobTyped DEF TypeInv, TypeOK, ProgramOK, Jobs, Commands
    <3> QED BY <3>1, <3>2 DEF TypeInv, TypeOK, StartPost, Begin, ProgramOK
  <2>3. (pc \in [Sessions -> PCs])'
    BY SessionsAssumption, NoJobTyped DEF TypeInv, TypeOK, StartPost, Begin, ProgramOK, PCs, Critical
  <2>4. (posts \in Nat)'
    BY SessionsAssumption, NoJobTyped DEF TypeInv, TypeOK, StartPost, Begin, ProgramOK
  <2>5. ProgramOK'
    BY <2>2, <2>3, <2>4 DEF TypeInv, TypeOK, StartPost, Begin, ProgramOK, files, locking, bounds, history
  <2>6. HistoryOK'
    BY DEF TypeInv, TypeOK, StartPost, Begin, HistoryOK, files, locking, bounds, history
  <2> QED BY <2>1, <2>5, <2>6 DEF TypeOK
<1>3. ASSUME NEW p \in Sessions, StartWait(p) PROVE TypeOK'
  <2> USE <1>3
  <2>1. FilesOK'
    BY DEF TypeInv, TypeOK, StartWait, Begin, FilesOK, files, locking, bounds, history
  <2>2. (job \in [Sessions -> Jobs])'
    <3>1. unread(NameOf[p]) \subseteq Message /\ BatchEnd(NameOf[p]) \in Int
      BY SessionsAssumption, ReadingTyped DEF TypeInv, StartWait
    <3>2. \A t \in Int : \A b \in SUBSET Message :
              [NoJob EXCEPT !.op = "wait", !.batch = b, !.through = t] \in Jobs
      BY NoJobTyped DEF Jobs, Commands
    <3> QED BY <3>1, <3>2 DEF TypeInv, TypeOK, StartWait, Begin, ProgramOK
  <2>3. (pc \in [Sessions -> PCs])'
    BY SessionsAssumption, NoJobTyped DEF TypeInv, TypeOK, StartWait, Begin, ProgramOK, PCs, Critical
  <2>4. ProgramOK'
    BY <2>2, <2>3 DEF TypeInv, TypeOK, StartWait, Begin, ProgramOK, files, locking, bounds, history
  <2>5. HistoryOK'
    BY DEF TypeInv, TypeOK, StartWait, Begin, HistoryOK, files, locking, bounds, history
  <2> QED BY <2>1, <2>4, <2>5 DEF TypeOK
<1>4. ASSUME NEW p \in Sessions, StartRead(p) PROVE TypeOK'
  <2> USE <1>4
  <2>1. FilesOK'
    BY DEF TypeInv, TypeOK, StartRead, Begin, Chore, FilesOK, files, locking, bounds, history
  <2>2. (job \in [Sessions -> Jobs])'
    <3>1. BatchEnd(NameOf[p]) \in Int
      BY SessionsAssumption, ReadingTyped DEF TypeInv, StartRead
    <3>2. \A t \in Int : [NoJob EXCEPT !.op = "read", !.through = t] \in Jobs
      BY NoJobTyped DEF Jobs, Commands
    <3> QED BY <3>1, <3>2 DEF TypeInv, TypeOK, StartRead, Begin, ProgramOK
  <2>3. (pc \in [Sessions -> PCs])'
    BY SessionsAssumption, NoJobTyped DEF TypeInv, TypeOK, StartRead, Begin, Chore, ProgramOK, PCs, Critical
  <2>4. (chores \in Nat)'
    BY SessionsAssumption, NoJobTyped DEF TypeInv, TypeOK, StartRead, Begin, Chore, ProgramOK
  <2>5. ProgramOK'
    BY <2>2, <2>3, <2>4 DEF TypeInv, TypeOK, StartRead, Begin, Chore, ProgramOK, files, locking, bounds, history
  <2>6. (settled \in [Names -> SUBSET Message])'
    <3>1. unread(NameOf[p]) \subseteq Message /\ NameOf[p] \in Names
      BY SessionsAssumption, ReadingTyped DEF TypeInv
    <3> QED BY <3>1 DEF TypeInv, TypeOK, StartRead, HistoryOK
  <2>7. HistoryOK'
    BY <2>6 DEF TypeInv, TypeOK, StartRead, Begin, Chore, HistoryOK, files, locking, bounds, history
  <2> QED BY <2>1, <2>5, <2>7 DEF TypeOK
<1>5. ASSUME NEW p \in Sessions, AckMail(p) PROVE TypeOK'
  <2> USE <1>5
  <2>1. FilesOK'
    BY DEF TypeInv, TypeOK, AckMail, End, FilesOK, files, locking, bounds, history
  <2>2. (pc \in [Sessions -> PCs])'
    BY SessionsAssumption, NoJobTyped DEF TypeInv, TypeOK, AckMail, End, ProgramOK, PCs, Critical
  <2>3. (job \in [Sessions -> Jobs])'
    BY SessionsAssumption, NoJobTyped DEF TypeInv, TypeOK, AckMail, End, ProgramOK
  <2>4. ProgramOK'
    BY <2>2, <2>3 DEF TypeInv, TypeOK, AckMail, End, ProgramOK, files, locking, bounds, history
  <2>5. (settled \in [Names -> SUBSET Message])'
    <3>1. job[p].batch \subseteq Message /\ NameOf[p] \in Names
      BY SessionsAssumption DEF TypeInv, TypeOK, ProgramOK, Jobs
    <3> QED BY <3>1 DEF TypeInv, TypeOK, AckMail, HistoryOK
  <2>6. HistoryOK'
    BY <2>5 DEF TypeInv, TypeOK, AckMail, End, HistoryOK, files, locking, bounds, history
  <2> QED BY <2>1, <2>4, <2>6 DEF TypeOK
<1>6. ASSUME NEW p \in Sessions, StartAck(p) PROVE TypeOK'
  <2> USE <1>6
  <2>1. FilesOK'
    BY DEF TypeInv, TypeOK, StartAck, Begin, Chore, FilesOK, files, locking, bounds, history
  <2>2. (job \in [Sessions -> Jobs])'
    <3>1. LastSeq \in Int
      BY ReadingTyped DEF TypeInv, StartAck
    <3>2. \A t \in Int : [NoJob EXCEPT !.op = "ack", !.through = t] \in Jobs
      BY NoJobTyped DEF Jobs, Commands
    <3> QED BY <3>1, <3>2 DEF TypeInv, TypeOK, StartAck, Begin, ProgramOK
  <2>3. (pc \in [Sessions -> PCs])'
    BY SessionsAssumption, NoJobTyped DEF TypeInv, TypeOK, StartAck, Begin, Chore, ProgramOK, PCs, Critical
  <2>4. (chores \in Nat)'
    BY SessionsAssumption, NoJobTyped DEF TypeInv, TypeOK, StartAck, Begin, Chore, ProgramOK
  <2>5. ProgramOK'
    BY <2>2, <2>3, <2>4 DEF TypeInv, TypeOK, StartAck, Begin, Chore, ProgramOK, files, locking, bounds, history
  <2>6. (settled \in [Names -> SUBSET Message])'
    <3>1. unread(NameOf[p]) \subseteq Message /\ NameOf[p] \in Names
      BY SessionsAssumption, ReadingTyped DEF TypeInv
    <3> QED BY <3>1 DEF TypeInv, TypeOK, StartAck, HistoryOK
  <2>7. HistoryOK'
    BY <2>6 DEF TypeInv, TypeOK, StartAck, Begin, Chore, HistoryOK, files, locking, bounds, history
  <2> QED BY <2>1, <2>5, <2>7 DEF TypeOK
<1>7. ASSUME NEW p \in Sessions, Acquire(p) PROVE TypeOK'
  <2> USE <1>7
  <2>1. (lock \in Sessions \cup {Free, Orphan})'
    BY SessionsAssumption, NoJobTyped DEF TypeInv, TypeOK, Acquire, FilesOK
  <2>2. (stale \in BOOLEAN)'
    BY SessionsAssumption, NoJobTyped DEF TypeInv, TypeOK, Acquire, FilesOK
  <2>3. FilesOK'
    BY <2>1, <2>2 DEF TypeInv, TypeOK, Acquire, FilesOK, files, locking, bounds, history
  <2>4. (pc \in [Sessions -> PCs])'
    BY SessionsAssumption, NoJobTyped DEF TypeInv, TypeOK, Acquire, ProgramOK, PCs, Critical
  <2>5. ProgramOK'
    BY <2>4 DEF TypeInv, TypeOK, Acquire, ProgramOK, files, locking, bounds, history
  <2>6. HistoryOK'
    BY DEF TypeInv, TypeOK, Acquire, HistoryOK, files, locking, bounds, history
  <2> QED BY <2>3, <2>5, <2>6 DEF TypeOK
<1>8. ASSUME NEW p \in Sessions, SeeStale(p) PROVE TypeOK'
  <2> USE <1>8
  <2>1. FilesOK'
    BY DEF TypeInv, TypeOK, SeeStale, FilesOK, files, locking, bounds, history
  <2>2. (pc \in [Sessions -> PCs])'
    BY SessionsAssumption, NoJobTyped DEF TypeInv, TypeOK, SeeStale, ProgramOK, PCs, Critical
  <2>3. ProgramOK'
    BY <2>2 DEF TypeInv, TypeOK, SeeStale, ProgramOK, files, locking, bounds, history
  <2>4. HistoryOK'
    BY DEF TypeInv, TypeOK, SeeStale, HistoryOK, files, locking, bounds, history
  <2> QED BY <2>1, <2>3, <2>4 DEF TypeOK
<1>9. ASSUME NEW p \in Sessions, Reclaim(p) PROVE TypeOK'
  <2> USE <1>9
  <2>1. (lock \in Sessions \cup {Free, Orphan})'
    BY SessionsAssumption, NoJobTyped DEF TypeInv, TypeOK, Reclaim, End, FilesOK
  <2>2. (stale \in BOOLEAN)'
    BY SessionsAssumption, NoJobTyped DEF TypeInv, TypeOK, Reclaim, End, FilesOK
  <2>3. FilesOK'
    BY <2>1, <2>2 DEF TypeInv, TypeOK, Reclaim, End, FilesOK, files, locking, bounds, history
  <2>4. (pc \in [Sessions -> PCs])'
    BY SessionsAssumption, NoJobTyped DEF TypeInv, TypeOK, Reclaim, End, ProgramOK, PCs, Critical
  <2>5. (job \in [Sessions -> Jobs])'
    BY SessionsAssumption, NoJobTyped DEF TypeInv, TypeOK, Reclaim, End, ProgramOK
  <2>6. ProgramOK'
    BY <2>4, <2>5 DEF TypeInv, TypeOK, Reclaim, End, ProgramOK, files, locking, bounds, history
  <2>7. (evicted \in BOOLEAN)'
    BY SessionsAssumption, NoJobTyped DEF TypeInv, TypeOK, Reclaim, End, HistoryOK
  <2>8. HistoryOK'
    BY <2>7 DEF TypeInv, TypeOK, Reclaim, End, HistoryOK, files, locking, bounds, history
  <2> QED BY <2>3, <2>6, <2>8 DEF TypeOK
<1>10. ASSUME NEW p \in Sessions, GiveUp(p) PROVE TypeOK'
  <2> USE <1>10
  <2>1. FilesOK'
    BY DEF TypeInv, TypeOK, GiveUp, End, FilesOK, files, locking, bounds, history
  <2>2. (pc \in [Sessions -> PCs])'
    BY SessionsAssumption, NoJobTyped DEF TypeInv, TypeOK, GiveUp, End, ProgramOK, PCs, Critical
  <2>3. (job \in [Sessions -> Jobs])'
    BY SessionsAssumption, NoJobTyped DEF TypeInv, TypeOK, GiveUp, End, ProgramOK
  <2>4. ProgramOK'
    BY <2>2, <2>3 DEF TypeInv, TypeOK, GiveUp, End, ProgramOK, files, locking, bounds, history
  <2>5. HistoryOK'
    BY DEF TypeInv, TypeOK, GiveUp, End, HistoryOK, files, locking, bounds, history
  <2> QED BY <2>1, <2>4, <2>5 DEF TypeOK
<1>11. ASSUME NEW p \in Sessions, Release(p) PROVE TypeOK'
  <2> USE <1>11
  <2>1. (lock \in Sessions \cup {Free, Orphan})'
    BY SessionsAssumption, NoJobTyped DEF TypeInv, TypeOK, Release, End, FilesOK
  <2>2. (stale \in BOOLEAN)'
    BY SessionsAssumption, NoJobTyped DEF TypeInv, TypeOK, Release, End, FilesOK
  <2>3. FilesOK'
    BY <2>1, <2>2 DEF TypeInv, TypeOK, Release, End, FilesOK, files, locking, bounds, history
  <2>4. (pc \in [Sessions -> PCs])'
    BY SessionsAssumption, NoJobTyped DEF TypeInv, TypeOK, Release, End, ProgramOK, PCs, Critical
  <2>5. (job \in [Sessions -> Jobs])'
    BY SessionsAssumption, NoJobTyped DEF TypeInv, TypeOK, Release, End, ProgramOK
  <2>6. ProgramOK'
    BY <2>4, <2>5 DEF TypeInv, TypeOK, Release, End, ProgramOK, files, locking, bounds, history
  <2>7. (confirmed \subseteq Message)'
    <3>1. pc[p] = "done" /\ job[p].op = "post" => Record(p) \in Message
      BY RecordTyped DEF TypeInv
    <3> QED BY <3>1 DEF TypeInv, TypeOK, Release, Record, HistoryOK
  <2>8. (joined \subseteq Names)'
    BY SessionsAssumption, NoJobTyped DEF TypeInv, TypeOK, Release, End, HistoryOK
  <2>9. (settled \in [Names -> SUBSET Message])'
    <3>1. job[p].batch \subseteq Message /\ NameOf[p] \in Names
      BY SessionsAssumption DEF TypeInv, TypeOK, ProgramOK, Jobs
    <3> QED BY <3>1 DEF TypeInv, TypeOK, Release, HistoryOK
  <2>10. HistoryOK'
    BY <2>7, <2>8, <2>9 DEF TypeInv, TypeOK, Release, End, HistoryOK, files, locking, bounds, history
  <2> QED BY <2>3, <2>6, <2>10 DEF TypeOK
<1>12. ASSUME NEW p \in Sessions, Load(p) PROVE TypeOK'
  <2> USE <1>12
  <2>1. FilesOK'
    BY DEF TypeInv, TypeOK, Load, FilesOK, files, locking, bounds, history
  <2>2. (job \in [Sessions -> Jobs])'
    <3> DEFINE view == IF job[p].op \in {"host", "join"} THEN room ELSE job[p].view
               num == IF job[p].op = "post" THEN NextSeq
                    ELSE IF job[p].op \in {"wait", "read", "ack"} THEN AckThrough(p)
                    ELSE job[p].num
    <3>1. job[p] \in Jobs /\ room \in Rooms /\ NameOf[p] \in Names /\ cursor[NameOf[p]] \in Int
      BY SessionsAssumption DEF TypeInv, TypeOK, ProgramOK, FilesOK
    <3>2. view \in Rooms
      BY <3>1 DEF Jobs
    <3>3. num \in Int
      <4>1. AckThrough(p) \in Int
        BY <3>1 DEF Jobs, Larger, AckThrough
      <4>2. NextSeq \in Int /\ job[p].num \in Int
        BY <3>1, ReadingTyped DEF TypeInv, Jobs
      <4> QED BY <4>1, <4>2
    <3>4. job' = [job EXCEPT ![p] = [job[p] EXCEPT !.view = view, !.num = num]]
      BY DEF Load, TypeInv, TypeOK, ProgramOK
    <3> HIDE DEF view, num
    <3>5. [job[p] EXCEPT !.view = view, !.num = num] \in Jobs
      BY <3>1, <3>2, <3>3 DEF Jobs
    <3> QED BY <3>4, <3>5 DEF TypeInv, TypeOK, ProgramOK
  <2>3. (pc \in [Sessions -> PCs])'
    BY SessionsAssumption, NoJobTyped DEF TypeInv, TypeOK, Load, ProgramOK, PCs, Critical
  <2>4. ProgramOK'
    BY <2>2, <2>3 DEF TypeInv, TypeOK, Load, ProgramOK, files, locking, bounds, history
  <2>5. HistoryOK'
    BY DEF TypeInv, TypeOK, Load, HistoryOK, files, locking, bounds, history
  <2> QED BY <2>1, <2>4, <2>5 DEF TypeOK
<1>13. ASSUME NEW p \in Sessions, SaveRoom(p) PROVE TypeOK'
  <2> USE <1>13
  <2>1. (room \in Rooms)'
    <3>1. job[p].view \in Rooms /\ NameOf[p] \in Names
      BY SessionsAssumption DEF TypeInv, TypeOK, ProgramOK, Jobs
    <3> QED BY <3>1 DEF SaveRoom, WithName, Rooms
  <2>2. FilesOK'
    BY <2>1 DEF TypeInv, TypeOK, SaveRoom, FilesOK, files, locking, bounds, history
  <2>3. (pc \in [Sessions -> PCs])'
    BY SessionsAssumption, NoJobTyped DEF TypeInv, TypeOK, SaveRoom, ProgramOK, PCs, Critical
  <2>4. ProgramOK'
    BY <2>3 DEF TypeInv, TypeOK, SaveRoom, ProgramOK, files, locking, bounds, history
  <2>5. HistoryOK'
    BY DEF TypeInv, TypeOK, SaveRoom, HistoryOK, files, locking, bounds, history
  <2> QED BY <2>2, <2>4, <2>5 DEF TypeOK
<1>14. ASSUME NEW p \in Sessions, Refuse(p) PROVE TypeOK'
  <2> USE <1>14
  <2>1. FilesOK'
    BY DEF TypeInv, TypeOK, Refuse, FilesOK, files, locking, bounds, history
  <2>2. (pc \in [Sessions -> PCs])'
    BY SessionsAssumption, NoJobTyped DEF TypeInv, TypeOK, Refuse, ProgramOK, PCs, Critical
  <2>3. ProgramOK'
    BY <2>2 DEF TypeInv, TypeOK, Refuse, ProgramOK, files, locking, bounds, history
  <2>4. HistoryOK'
    BY DEF TypeInv, TypeOK, Refuse, HistoryOK, files, locking, bounds, history
  <2> QED BY <2>1, <2>3, <2>4 DEF TypeOK
<1>15. ASSUME NEW p \in Sessions, AppendLine(p) PROVE TypeOK'
  <2> USE <1>15
  <2>1. (file \in Seq(Message \cup {Garbage}))'
    <3>1. Record(p) \in Message
      BY RecordTyped DEF TypeInv, AppendLine
    <3> QED BY <3>1, AppendedTyped DEF AppendLine, TypeInv
  <2>2. (open \in BOOLEAN)'
    BY SessionsAssumption, NoJobTyped DEF TypeInv, TypeOK, AppendLine, FilesOK
  <2>3. FilesOK'
    BY <2>1, <2>2 DEF TypeInv, TypeOK, AppendLine, FilesOK, files, locking, bounds, history
  <2>4. (pc \in [Sessions -> PCs])'
    BY SessionsAssumption, NoJobTyped DEF TypeInv, TypeOK, AppendLine, ProgramOK, PCs, Critical
  <2>5. ProgramOK'
    BY <2>4 DEF TypeInv, TypeOK, AppendLine, ProgramOK, files, locking, bounds, history
  <2>6. HistoryOK'
    BY DEF TypeInv, TypeOK, AppendLine, HistoryOK, files, locking, bounds, history
  <2> QED BY <2>3, <2>5, <2>6 DEF TypeOK
<1>16. ASSUME NEW p \in Sessions, CutAppend(p) PROVE TypeOK'
  <2> USE <1>16
  <2>1. (file \in Seq(Message \cup {Garbage}))'
    <3>1. Record(p) \in Message
      BY RecordTyped DEF TypeInv, CutAppend
    <3> QED BY <3>1, AppendedTyped DEF CutAppend, TypeInv
  <2>2. (open \in BOOLEAN)'
    BY SessionsAssumption, NoJobTyped DEF TypeInv, TypeOK, CutAppend, Die, FilesOK
  <2>3. (lock \in Sessions \cup {Free, Orphan})'
    BY SessionsAssumption, NoJobTyped DEF TypeInv, TypeOK, CutAppend, Die, FilesOK
  <2>4. FilesOK'
    BY <2>1, <2>2, <2>3 DEF TypeInv, TypeOK, CutAppend, Die, FilesOK, files, locking, bounds, history
  <2>5. (crashes \in Nat)'
    BY SessionsAssumption, NoJobTyped DEF TypeInv, TypeOK, CutAppend, Die, ProgramOK
  <2>6. (pc \in [Sessions -> PCs])'
    BY SessionsAssumption, NoJobTyped DEF TypeInv, TypeOK, CutAppend, Die, ProgramOK, PCs, Critical
  <2>7. (job \in [Sessions -> Jobs])'
    BY SessionsAssumption, NoJobTyped DEF TypeInv, TypeOK, CutAppend, Die, ProgramOK
  <2>8. ProgramOK'
    BY <2>5, <2>6, <2>7 DEF TypeInv, TypeOK, CutAppend, Die, ProgramOK, files, locking, bounds, history
  <2>9. (torn \in BOOLEAN)'
    BY SessionsAssumption, NoJobTyped DEF TypeInv, TypeOK, CutAppend, Die, HistoryOK
  <2>10. HistoryOK'
    BY <2>9 DEF TypeInv, TypeOK, CutAppend, Die, HistoryOK, files, locking, bounds, history
  <2> QED BY <2>4, <2>8, <2>10 DEF TypeOK
<1>17. ASSUME NEW p \in Sessions, WriteCursor(p) PROVE TypeOK'
  <2> USE <1>17
  <2>1. (cursor \in [Names -> Int])'
    <3>1. job[p].num \in Int
      BY DEF TypeInv, TypeOK, ProgramOK, Jobs
    <3> QED BY <3>1 DEF TypeInv, TypeOK, WriteCursor, FilesOK
  <2>2. FilesOK'
    BY <2>1 DEF TypeInv, TypeOK, WriteCursor, FilesOK, files, locking, bounds, history
  <2>3. (pc \in [Sessions -> PCs])'
    BY SessionsAssumption, NoJobTyped DEF TypeInv, TypeOK, WriteCursor, ProgramOK, PCs, Critical
  <2>4. ProgramOK'
    BY <2>3 DEF TypeInv, TypeOK, WriteCursor, ProgramOK, files, locking, bounds, history
  <2>5. HistoryOK'
    BY DEF TypeInv, TypeOK, WriteCursor, HistoryOK, files, locking, bounds, history
  <2> QED BY <2>2, <2>4, <2>5 DEF TypeOK
<1>18. ASSUME NEW p \in Sessions, Crash(p) PROVE TypeOK'
  <2> USE <1>18
  <2>1. (lock \in Sessions \cup {Free, Orphan})'
    BY SessionsAssumption, NoJobTyped DEF TypeInv, TypeOK, Crash, Die, FilesOK
  <2>2. FilesOK'
    BY <2>1 DEF TypeInv, TypeOK, Crash, Die, FilesOK, files, locking, bounds, history
  <2>3. (pc \in [Sessions -> PCs])'
    BY SessionsAssumption, NoJobTyped DEF TypeInv, TypeOK, Crash, Die, ProgramOK, PCs, Critical
  <2>4. (job \in [Sessions -> Jobs])'
    BY SessionsAssumption, NoJobTyped DEF TypeInv, TypeOK, Crash, Die, ProgramOK
  <2>5. (crashes \in Nat)'
    BY SessionsAssumption, NoJobTyped DEF TypeInv, TypeOK, Crash, Die, ProgramOK
  <2>6. ProgramOK'
    BY <2>3, <2>4, <2>5 DEF TypeInv, TypeOK, Crash, Die, ProgramOK, files, locking, bounds, history
  <2>7. (lost \in [Names -> SUBSET Message])'
    <3>1. job[p].batch \subseteq Message /\ NameOf[p] \in Names
      BY SessionsAssumption DEF TypeInv, TypeOK, ProgramOK, Jobs
    <3> QED BY <3>1 DEF TypeInv, TypeOK, Crash, HistoryOK
  <2>8. HistoryOK'
    BY <2>7 DEF TypeInv, TypeOK, Crash, Die, HistoryOK, files, locking, bounds, history
  <2> QED BY <2>2, <2>6, <2>8 DEF TypeOK
<1>19. ASSUME NEW p \in Sessions, Restart(p) PROVE TypeOK'
  <2> USE <1>19
  <2>1. FilesOK'
    BY DEF TypeInv, TypeOK, Restart, FilesOK, files, locking, bounds, history
  <2>2. (pc \in [Sessions -> PCs])'
    BY SessionsAssumption, NoJobTyped DEF TypeInv, TypeOK, Restart, ProgramOK, PCs, Critical
  <2>3. ProgramOK'
    BY <2>2 DEF TypeInv, TypeOK, Restart, ProgramOK, files, locking, bounds, history
  <2>4. HistoryOK'
    BY DEF TypeInv, TypeOK, Restart, HistoryOK, files, locking, bounds, history
  <2> QED BY <2>1, <2>3, <2>4 DEF TypeOK
<1>20. CASE Age
  <2>1. FilesOK'
    BY <1>20 DEF TypeInv, TypeOK, FilesOK, Age, files
  <2> QED BY <1>20, <2>1 DEF TypeInv, TypeOK, ProgramOK, HistoryOK, Age, bounds, history
<1>21. CASE UNCHANGED vars
  BY <1>21 DEF TypeInv, TypeOK, FilesOK, ProgramOK, HistoryOK, vars, files, locking, bounds, history
<1> QED
  BY <1>1, <1>2, <1>3, <1>4, <1>5, <1>6, <1>7, <1>8, <1>9, <1>10, <1>11, <1>12, <1>13, <1>14, <1>15, <1>16, <1>17, <1>18, <1>19, <1>20, <1>21 DEF Next, Step

\* Every step keeps a room with members a room with a boss, in room.json and
\* in every copy of it that a session holds.
LEMMA RoomShapeNext == TypeInv /\ [Next]_vars => RoomShape'
<1> SUFFICES ASSUME TypeInv, [Next]_vars PROVE RoomShape'
  OBVIOUS
<1> USE DEF TypeInv, TypeOK, ProgramOK, RoomShape
<1>0. NoJob.view.boss = NoBoss => NoJob.view.members = {}
  BY DEF NoJob, NoRoom
<1>1. ASSUME NEW p \in Sessions, job'[p].view = NoRoom, room' = room,
             \A q \in Sessions \ {p} : job'[q] = job[q]
      PROVE  RoomShape'
  BY <1>1 DEF NoRoom
<1>2. ASSUME NEW p \in Sessions, End(p), room' = room PROVE RoomShape'
  BY <1>0, <1>2 DEF End
<1>3. ASSUME NEW p \in Sessions, Die(p), room' = room PROVE RoomShape'
  BY <1>0, <1>3 DEF Die
<1>4. ASSUME UNCHANGED <<room, job>> PROVE RoomShape'
  BY <1>4
<1>5. ASSUME NEW p \in Sessions, Load(p) PROVE RoomShape'
  <2>1. room' = room /\ \A q \in Sessions : job'[q].view \in {job[q].view, room}
    BY <1>5 DEF Load, files, Jobs
  <2> QED BY <2>1
<1>6. ASSUME NEW p \in Sessions, SaveRoom(p) PROVE RoomShape'
  BY <1>6, SessionsAssumption DEF SaveRoom, WithName, Accepts, Jobs, Rooms
<1>7. ASSUME NEW p \in Sessions,
             \/ StartRoomCommand(p) \/ StartPost(p) \/ StartWait(p)
             \/ StartRead(p) \/ StartAck(p)
      PROVE  RoomShape'
  <2>1. NoJob \in Jobs /\ NoJob.view = NoRoom
    BY NoJobTyped DEF NoJob
  <2>2. job'[p].view = NoRoom
    <3>1. CASE StartRoomCommand(p)
      BY <2>1, <3>1 DEF StartRoomCommand, Begin, Jobs
    <3>2. CASE StartPost(p)
      BY <2>1, <3>2 DEF StartPost, Begin, Jobs
    <3>3. CASE StartWait(p)
      BY <2>1, <3>3 DEF StartWait, Begin, Jobs
    <3>4. CASE StartRead(p)
      BY <2>1, <3>4 DEF StartRead, Begin, Jobs
    <3>5. CASE StartAck(p)
      BY <2>1, <3>5 DEF StartAck, Begin, Jobs
    <3> QED BY <1>7, <3>1, <3>2, <3>3, <3>4, <3>5
  <2>3. room' = room
    BY <1>7 DEF StartRoomCommand, StartPost, StartWait, StartRead, StartAck, files
  <2>4. \A q \in Sessions \ {p} : job'[q] = job[q]
    BY <1>7 DEF StartRoomCommand, StartPost, StartWait, StartRead, StartAck, Begin
  <2> QED BY <1>1, <2>2, <2>3, <2>4
<1>8. ASSUME NEW p \in Sessions,
             \/ AckMail(p) \/ Acquire(p) \/ SeeStale(p) \/ Reclaim(p) \/ GiveUp(p)
             \/ Refuse(p) \/ AppendLine(p) \/ WriteCursor(p) \/ Release(p)
             \/ CutAppend(p) \/ Crash(p) \/ Restart(p)
      PROVE  RoomShape'
  <2>1. room' = room
    BY <1>8 DEF AckMail, Acquire, SeeStale, Reclaim, GiveUp, Refuse, AppendLine,
        WriteCursor, Release, CutAppend, Crash, Restart, files
  <2>2. End(p) \/ Die(p) \/ UNCHANGED job
    BY <1>8 DEF AckMail, Acquire, SeeStale, Reclaim, GiveUp, Refuse, AppendLine,
        WriteCursor, Release, CutAppend, Crash, Restart
  <2> QED BY <1>2, <1>3, <1>4, <2>1, <2>2
<1>9. CASE Age \/ UNCHANGED vars
  BY <1>4, <1>9 DEF Age, vars, files
<1> QED BY <1>5, <1>6, <1>7, <1>8, <1>9 DEF Next, Step

\* Every step keeps the seq of a post that was loaded natural, and only a cut
\* append, which leaves a line, leaves the last line open.
LEMMA PostShapeNext == TypeInv /\ [Next]_vars => PostShape'
<1> SUFFICES ASSUME TypeInv, [Next]_vars PROVE PostShape'
  OBVIOUS
<1> USE DEF TypeInv, TypeOK, ProgramOK, PostShape
<1>1. ASSUME NEW p \in Sessions, NEW state, pc' = [pc EXCEPT ![p] = state],
             state \notin {"loaded", "done"}, \A q \in Sessions \ {p} : job'[q] = job[q],
             UNCHANGED <<file, open>>
      PROVE  PostShape'
  BY <1>1
<1>2. ASSUME NEW p \in Sessions, Load(p) PROVE PostShape'
  <2>1. NextSeq \in Nat /\ UNCHANGED <<file, open>>
    BY <1>2, ReadingTyped DEF Load, files
  <2>2. job'[p].op = "post" => job'[p].num = NextSeq
    BY <1>2 DEF Load, Jobs
  <2>3. \A q \in Sessions \ {p} : job'[q] = job[q] /\ pc'[q] = pc[q]
    BY <1>2 DEF Load
  <2> QED BY <2>1, <2>2, <2>3
<1>3. ASSUME NEW p \in Sessions, SaveRoom(p) \/ WriteCursor(p) PROVE PostShape'
  BY <1>3 DEF SaveRoom, WriteCursor
<1>4. ASSUME NEW p \in Sessions, AppendLine(p) PROVE PostShape'
  BY <1>4 DEF AppendLine
<1>5. ASSUME NEW p \in Sessions, CutAppend(p) PROVE PostShape'
  <2>1. \A line \in {Garbage, Record(p)} : Appended(line) # << >>
    BY <1>5, AppendedTyped, RecordTyped DEF CutAppend
  <2>2. \E state \in {"down", "failed"} : pc' = [pc EXCEPT ![p] = state]
    BY <1>5 DEF CutAppend, Die
  <2>3. \A q \in Sessions \ {p} : job'[q] = job[q]
    BY <1>5 DEF CutAppend, Die
  <2>4. file' # << >>
    BY <1>5, <2>1 DEF CutAppend
  <2> QED BY <2>2, <2>3, <2>4
<1>6. ASSUME NEW p \in Sessions,
             \/ StartRoomCommand(p) \/ StartPost(p) \/ StartWait(p) \/ StartRead(p)
             \/ StartAck(p) \/ AckMail(p) \/ Acquire(p) \/ SeeStale(p) \/ Reclaim(p)
             \/ GiveUp(p) \/ Refuse(p) \/ Release(p) \/ Crash(p) \/ Restart(p)
      PROVE  PostShape'
  <2>1. UNCHANGED <<file, open>>
    BY <1>6 DEF StartRoomCommand, StartPost, StartWait, StartRead, StartAck, AckMail,
        Acquire, SeeStale, Reclaim, GiveUp, Refuse, Release, Crash, Restart, files
  <2>2. \E state \in PCs \ {"loaded", "done"} : pc' = [pc EXCEPT ![p] = state]
    BY <1>6 DEF StartRoomCommand, StartPost, StartWait, StartRead, StartAck, AckMail,
        Acquire, SeeStale, Reclaim, GiveUp, Refuse, Release, Crash, Restart, End, Die,
        PCs, Critical
  <2>3. \A q \in Sessions \ {p} : job'[q] = job[q]
    BY <1>6 DEF StartRoomCommand, StartPost, StartWait, StartRead, StartAck, AckMail,
        Acquire, SeeStale, Reclaim, GiveUp, Refuse, Release, Crash, Restart, End, Die, Begin
  <2> QED BY <1>1, <2>1, <2>2, <2>3
<1>7. CASE Age \/ UNCHANGED vars
  BY <1>7 DEF Age, vars, files
<1> QED BY <1>2, <1>3, <1>4, <1>5, <1>6, <1>7 DEF Next, Step

\* Every file, session and history variable has its type in every state, for
\* every interleaving of the commands of mailbox.mjs.
THEOREM TypeCorrect == Spec => []TypeOK
<1>1. Init => TypeInv
  BY TypeInit
<1>2. TypeInv /\ [Next]_vars => TypeInv'
  BY TypeNext, RoomShapeNext, PostShapeNext DEF TypeInv
<1>3. TypeInv => TypeOK
  BY DEF TypeInv
<1> QED BY <1>1, <1>2, <1>3, PTL DEF Spec

LEMMA TypeInvariant == Spec => []TypeInv
<1>1. TypeInv /\ [Next]_vars => TypeInv'
  BY TypeNext, RoomShapeNext, PostShapeNext DEF TypeInv
<1> QED BY <1>1, TypeInit, PTL DEF Spec

-----------------------------------------------------------------------------
(* Layer 2: mutual exclusion.                                              *)

LEMMA MutualExclusionNext ==
    TypeInv /\ MutualExclusion /\ [Next]_vars => MutualExclusion'
<1> SUFFICES ASSUME TypeInv, MutualExclusion, [Next]_vars, ~evicted'
             PROVE  \A q \in Sessions : Holds(q)' => lock' = q
  BY DEF MutualExclusion
<1> USE SessionsAssumption DEF TypeInv, TypeOK, FilesOK, ProgramOK, Holds, Critical
<1>1. ~evicted
  BY DEF Next, Step, vars, history, StartRoomCommand, StartPost, StartWait, StartRead, StartAck,
      AckMail, Acquire, SeeStale, Reclaim, GiveUp, Load, SaveRoom, Refuse, AppendLine,
      WriteCursor, Release, CutAppend, Crash, Restart, Age
<1>2. \A q \in Sessions : Holds(q) => lock = q
  BY <1>1 DEF MutualExclusion
<1>3. ASSUME NEW p \in Sessions, Acquire(p)
      PROVE  \A q \in Sessions : Holds(q)' => lock' = q
  BY <1>2, <1>3 DEF Acquire
<1>4. ASSUME NEW p \in Sessions, Reclaim(p)
      PROVE  \A q \in Sessions : Holds(q)' => lock' = q
  \* nobody is evicted, so nobody holds the lock that is removed
  <2>1. lock \notin Sessions
    BY <1>4 DEF Reclaim
  <2>2. \A q \in Sessions : ~ Holds(q)
    BY <1>2, <2>1
  <2> QED BY <1>4, <2>2 DEF Reclaim, End
<1>5. ASSUME NEW p \in Sessions, Release(p)
      PROVE  \A q \in Sessions : Holds(q)' => lock' = q
  BY <1>2, <1>5 DEF Release, End
<1>6. ASSUME NEW p \in Sessions, Die(p)
      PROVE  \A q \in Sessions : Holds(q)' => lock' = q
  BY <1>2, <1>6 DEF Die
<1>7. ASSUME NEW p \in Sessions, NEW state, pc' = [pc EXCEPT ![p] = state], lock' = lock,
             state \in Critical => Holds(p)
      PROVE  \A q \in Sessions : Holds(q)' => lock' = q
  BY <1>2, <1>7
<1>8. ASSUME NEW p \in Sessions,
             \/ StartRoomCommand(p) \/ StartPost(p) \/ StartWait(p) \/ StartRead(p)
             \/ StartAck(p) \/ AckMail(p) \/ SeeStale(p) \/ GiveUp(p) \/ Load(p)
             \/ SaveRoom(p) \/ Refuse(p) \/ AppendLine(p) \/ WriteCursor(p) \/ Restart(p)
      PROVE  \A q \in Sessions : Holds(q)' => lock' = q
  <2>1. lock' = lock
    BY <1>8 DEF StartRoomCommand, StartPost, StartWait, StartRead, StartAck, AckMail,
        SeeStale, GiveUp, Load, SaveRoom, Refuse, AppendLine, WriteCursor, Restart, locking
  <2>2. \E state : pc' = [pc EXCEPT ![p] = state] /\ (state \in Critical => Holds(p))
    BY <1>8 DEF StartRoomCommand, StartPost, StartWait, StartRead, StartAck, AckMail,
        SeeStale, GiveUp, Load, SaveRoom, Refuse, AppendLine, WriteCursor, Restart, End
  <2> QED BY <1>7, <2>1, <2>2
<1>9. ASSUME NEW p \in Sessions, CutAppend(p) \/ Crash(p)
      PROVE  \A q \in Sessions : Holds(q)' => lock' = q
  <2>1. CASE Die(p)
    BY <1>6, <2>1
  <2>2. CASE ~ Die(p)
    BY <1>7, <1>9, <2>2 DEF CutAppend, Crash
  <2> QED BY <2>1, <2>2
<1>10. CASE Age \/ UNCHANGED vars
  BY <1>2, <1>10 DEF Age, vars, locking
<1> QED BY <1>3, <1>4, <1>5, <1>8, <1>9, <1>10 DEF Next, Step

\* As long as no takeover has removed the lock of a live process, at most one
\* process is inside withLock's function, and the directory is its own.
THEOREM LockExcludes == Spec => []MutualExclusion
<1>1. Init => MutualExclusion
  BY DEF Init, MutualExclusion, Holds, Critical
<1> QED BY <1>1, TypeInvariant, MutualExclusionNext, PTL DEF Spec

-----------------------------------------------------------------------------
(* Layer 3: what is read under the lock is still so when it is written.    *)

\* a join that wrote room.json, or returned, is in it
JoinsDone ==
    ~evicted => \A p \in Sessions :
        pc[p] = "done" /\ job[p].op = "join" => NameOf[p] \in room.members

OrderInv == SeqsIncrease /\ ViewsCurrent /\ JoinsDone /\ JoinsKept

\* What an append does to the lines that parse: the last one may go, the new
\* one may come after all others, nothing else moves.
LEMMA AppendedGood ==
    ASSUME TypeInv, NEW line \in Message \cup {Garbage}, file' = Appended(line)
    PROVE  \A i \in Good' :
               \/ /\ i \in Good
                  /\ file'[i] = file[i]
               \/ /\ i = Len(file) + 1
                  /\ file'[i] = line
                  /\ \A k \in Good : k < i
<1> USE DEF TypeInv, TypeOK, FilesOK
<1>1. CASE open
  <2>1. Len(file) \in 1 .. Len(file)
    BY <1>1 DEF PostShape
  <2>2. file' = [file EXCEPT ![Len(file)] = Garbage]
    BY <1>1 DEF Appended
  <2> QED BY <2>1, <2>2 DEF Good
<1>2. CASE ~open
  <2>1. file' = Append(file, line) /\ file \in Seq(Message \cup {Garbage})
    BY <1>2 DEF Appended
  <2> HIDE DEF TypeInv, TypeOK, FilesOK
  <2>2. /\ Len(file') = Len(file) + 1 /\ DOMAIN file' = 1 .. Len(file')
        /\ \A i \in 1 .. Len(file) : file'[i] = file[i]
        /\ file'[Len(file) + 1] = line
        /\ Len(file) \in Nat /\ DOMAIN file = 1 .. Len(file)
    BY <2>1, AppendProperties
  <2> QED BY <2>2 DEF Good
<1> QED BY <1>1, <1>2

\* NextSeq is past the seq of every line, because the last one is the largest.
LEMMA NextSeqLast ==
    ASSUME TypeInv, SeqsIncrease, ~evicted
    PROVE  \A i \in Good : file[i].seq < NextSeq
<1>1. \A i \in Good : file[i].seq \in Int
  BY DEF TypeInv, TypeOK, FilesOK, Good, Message
<1> SUFFICES ASSUME NEW i \in Good PROVE file[i].seq < NextSeq
  OBVIOUS
<1>2. /\ Good \in SUBSET (1 .. Len(file)) /\ Len(file) \in Nat
      /\ LastOf(Good) \in Good
  BY ReadingTyped DEF TypeInv
<1>3. i =< LastOf(Good)
  BY <1>2, LastOfIn
<1>4. file[i].seq =< file[LastOf(Good)].seq
  BY <1>1, <1>2, <1>3 DEF SeqsIncrease
<1>5. NextSeq = file[LastOf(Good)].seq + 1
  BY <1>2 DEF NextSeq, LastSeq
<1>6. file[i].seq \in Int /\ file[LastOf(Good)].seq \in Int
  BY <1>1, <1>2
<1> QED BY <1>4, <1>5, <1>6

LEMMA NotYetEvicted == [Next]_vars /\ ~evicted' => ~evicted
  BY DEF Next, Step, vars, history, StartRoomCommand, StartPost, StartWait, StartRead, StartAck,
      AckMail, Acquire, SeeStale, Reclaim, GiveUp, Load, SaveRoom, Refuse, AppendLine,
      WriteCursor, Release, CutAppend, Crash, Restart, Age

\* A step that writes no file of the room and loads nothing: the sessions that
\* were "loaded" after it were so before it, with the same job.
LEMMA QuietStep ==
    ASSUME TypeInv, [Next]_vars, OrderInv, ~evicted', UNCHANGED <<room, file, cursor>>,
           \A q \in Sessions : pc'[q] \in {"loaded", "done"} =>
                                    pc'[q] = pc[q] /\ job'[q] = job[q],
           joined' \subseteq room.members
    PROVE  OrderInv'
<1>1. ~evicted /\ Good' = Good
  BY NotYetEvicted DEF Good
<1>2. SeqsIncrease'
  BY <1>1 DEF OrderInv, SeqsIncrease
<1>3. ViewsCurrent'
  BY <1>1 DEF OrderInv, ViewsCurrent
<1>4. JoinsDone' /\ JoinsKept'
  BY <1>1 DEF OrderInv, JoinsDone, JoinsKept
<1> QED BY <1>2, <1>3, <1>4 DEF OrderInv

LEMMA OrderNext ==
    TypeInv /\ MutualExclusion /\ OrderInv /\ [Next]_vars => OrderInv'
<1> SUFFICES ASSUME TypeInv, MutualExclusion, OrderInv, [Next]_vars, ~evicted'
             PROVE  OrderInv'
  BY DEF OrderInv, SeqsIncrease, ViewsCurrent, JoinsDone, JoinsKept
<1>0. ~evicted
  BY NotYetEvicted
<1> USE SessionsAssumption
\* whoever is inside is there alone
<1>1. ASSUME NEW p \in Sessions, NEW q \in Sessions \ {p}, Holds(p) PROVE ~ Holds(q)
  BY <1>0, <1>1 DEF MutualExclusion
<1>2. ASSUME NEW p \in Sessions, Load(p) PROVE OrderInv'
  <2> USE <1>2
  <2>1. /\ UNCHANGED <<room, file, cursor, evicted, joined>> /\ Good' = Good
        /\ \A q \in Sessions \ {p} : job'[q] = job[q] /\ pc'[q] = pc[q]
        /\ pc'[p] = "loaded" /\ job'[p].op = job[p].op
    BY DEF Load, files, history, Good, TypeInv, TypeOK, ProgramOK, Jobs
  <2>2. job[p].op \in {"host", "join"} => job'[p].view = room
    BY DEF Load, TypeInv, TypeOK, ProgramOK, Jobs
  <2>3. job[p].op = "post" => job'[p].num = NextSeq
    BY DEF Load, TypeInv, TypeOK, ProgramOK, Jobs
  <2>4. job[p].op \in {"wait", "read", "ack"} => job'[p].num >= cursor[NameOf[p]]
    <3>1. /\ cursor[NameOf[p]] \in Int /\ job[p].through \in Int
      BY DEF TypeInv, TypeOK, FilesOK, ProgramOK, Jobs
    <3>2. job[p].op \in {"wait", "read", "ack"} =>
              job'[p].num = AckThrough(p)
      BY DEF Load, TypeInv, TypeOK, ProgramOK, Jobs
    <3> QED BY <3>1, <3>2 DEF Larger, AckThrough
  <2>5. ViewsCurrent'
    BY <1>0, <2>1, <2>2, <2>3, <2>4, NextSeqLast DEF OrderInv, ViewsCurrent
  <2>6. SeqsIncrease' /\ JoinsDone' /\ JoinsKept'
    BY <1>0, <2>1 DEF OrderInv, SeqsIncrease, JoinsDone, JoinsKept
  <2> QED BY <2>5, <2>6 DEF OrderInv
<1>3. ASSUME NEW p \in Sessions, SaveRoom(p) PROVE OrderInv'
  <2> USE <1>3
  <2>1. UNCHANGED <<file, cursor, job, joined>> /\ Good' = Good
    BY DEF SaveRoom, history, Good
  <2>2. \A q \in Sessions : pc'[q] # "loaded"
    BY <1>1 DEF SaveRoom, Holds, Critical, TypeInv, TypeOK, ProgramOK
  <2>3. job[p].view = room
    BY <1>0 DEF SaveRoom, OrderInv, ViewsCurrent
  <2>4. /\ room.members \subseteq room'.members
        /\ job[p].op = "join" => NameOf[p] \in room'.members
    BY <2>3 DEF SaveRoom, WithName, TypeInv, TypeOK, FilesOK, Rooms
  <2>5. \A q \in Sessions \ {p} : pc'[q] = pc[q]
    BY DEF SaveRoom
  <2>6. ViewsCurrent' /\ SeqsIncrease'
    BY <1>0, <2>1, <2>2 DEF OrderInv, SeqsIncrease, ViewsCurrent
  <2>7. JoinsDone' /\ JoinsKept'
    BY <1>0, <2>1, <2>4, <2>5 DEF OrderInv, JoinsDone, JoinsKept
  <2> QED BY <2>6, <2>7 DEF OrderInv
<1>4. ASSUME NEW p \in Sessions, AppendLine(p) \/ CutAppend(p) PROVE OrderInv'
  <2> USE <1>4
  <2>1. /\ UNCHANGED <<room, cursor, joined>>
        /\ \A q \in Sessions \ {p} : job'[q] = job[q] /\ pc'[q] = pc[q]
        /\ pc[p] = "loaded" /\ job[p].op = "post"
        /\ pc'[p] # "loaded" /\ (pc'[p] = "done" => job'[p] = job[p])
    BY DEF AppendLine, CutAppend, Die, history, TypeInv, TypeOK, ProgramOK
  <2>2. PICK line \in {Garbage, Record(p)} : file' = Appended(line)
    BY DEF AppendLine, CutAppend
  <2>3. line \in Message \cup {Garbage}
    BY <2>1, RecordTyped DEF TypeInv
  <2>4. \A i \in Good' : \/ i \in Good /\ file'[i] = file[i]
                         \/ /\ i = Len(file) + 1 /\ file'[i] = line
                            /\ \A k \in Good : k < i
    BY <2>2, <2>3, AppendedGood
  <2>5. \A k \in Good : file[k].seq < job[p].num
    BY <1>0, <2>1 DEF OrderInv, ViewsCurrent
  <2>6. ASSUME NEW i \in Good', NEW k \in Good', i < k PROVE file'[i].seq < file'[k].seq
    <3>1. Good \subseteq 1 .. Len(file) /\ Len(file) \in Nat
      BY ReadingTyped DEF TypeInv
    <3>2. CASE i \in Good /\ file'[i] = file[i] /\ k \in Good /\ file'[k] = file[k]
      BY <1>0, <2>6, <3>2 DEF OrderInv, SeqsIncrease
    <3>3. CASE i \in Good /\ file'[i] = file[i] /\ file'[k] = line
      <4>1. line = Record(p)
        BY <2>2, <3>3 DEF Good
      <4> QED BY <2>5, <3>3, <4>1 DEF Record
    <3>4. CASE i = Len(file) + 1
      BY <2>4, <2>6, <3>1, <3>4
    <3> QED BY <2>4, <2>6, <3>2, <3>3, <3>4
  <2>7. SeqsIncrease'
    BY <2>6 DEF SeqsIncrease
  <2>8. \A q \in Sessions : pc'[q] # "loaded"
    BY <1>1, <2>1 DEF Holds, Critical
  <2>9. ViewsCurrent' /\ JoinsDone' /\ JoinsKept'
    BY <1>0, <2>1, <2>8 DEF OrderInv, ViewsCurrent, JoinsDone, JoinsKept
  <2> QED BY <2>7, <2>9 DEF OrderInv
<1>5. ASSUME NEW p \in Sessions, WriteCursor(p) PROVE OrderInv'
  <2> USE <1>5
  <2>1. UNCHANGED <<room, file, job, joined>> /\ Good' = Good
    BY DEF WriteCursor, history, Good
  <2>2. \A q \in Sessions : pc'[q] # "loaded"
    BY <1>1 DEF WriteCursor, Holds, Critical, TypeInv, TypeOK, ProgramOK
  <2>3. \A q \in Sessions : pc'[q] = "done" /\ job[q].op = "join" => pc[q] = "done"
    BY DEF WriteCursor, TypeInv, TypeOK, ProgramOK
  <2> QED BY <1>0, <2>1, <2>2, <2>3
          DEF OrderInv, SeqsIncrease, ViewsCurrent, JoinsDone, JoinsKept
<1>6. ASSUME NEW p \in Sessions,
             \/ StartRoomCommand(p) \/ StartPost(p) \/ StartWait(p) \/ StartRead(p)
             \/ StartAck(p) \/ AckMail(p) \/ Acquire(p) \/ SeeStale(p) \/ Reclaim(p)
             \/ GiveUp(p) \/ Refuse(p) \/ Release(p) \/ Crash(p) \/ Restart(p)
      PROVE  OrderInv'
  <2>1. UNCHANGED <<room, file, cursor>>
    BY <1>6 DEF StartRoomCommand, StartPost, StartWait, StartRead, StartAck, AckMail,
        Acquire, SeeStale, Reclaim, GiveUp, Refuse, Release, Crash, Restart, files
  <2>2. /\ pc'[p] \notin {"loaded", "done"}
        /\ \A q \in Sessions \ {p} : pc'[q] = pc[q]
    <3>1. \E state \in PCs \ {"loaded", "done"} : pc' = [pc EXCEPT ![p] = state]
      BY <1>6 DEF StartRoomCommand, StartPost, StartWait, StartRead, StartAck, AckMail,
          Acquire, SeeStale, Reclaim, GiveUp, Refuse, Release, Crash, Restart, End, Die,
          PCs, Critical
    <3> QED BY <3>1 DEF TypeInv, TypeOK, ProgramOK
  <2>3. \A q \in Sessions \ {p} : job'[q] = job[q]
    BY <1>6 DEF StartRoomCommand, StartPost, StartWait, StartRead, StartAck, AckMail,
        Acquire, SeeStale, Reclaim, GiveUp, Refuse, Release, Crash, Restart, End, Die, Begin,
        TypeInv, TypeOK, ProgramOK
  <2>4. joined' \subseteq room.members
    <3>1. CASE Release(p)
      BY <1>0, <3>1 DEF Release, OrderInv, JoinsDone, JoinsKept
    <3>2. CASE ~ Release(p)
      <4>1. joined' = joined
        BY <1>6, <3>2 DEF StartRoomCommand, StartPost, StartWait, StartRead, StartAck,
            AckMail, Acquire, SeeStale, Reclaim, GiveUp, Refuse, Crash, Restart, history
      <4> QED BY <1>0, <4>1 DEF OrderInv, JoinsKept
    <3> QED BY <3>1, <3>2
  <2> QED BY <2>1, <2>2, <2>3, <2>4, QuietStep
<1>7. CASE Age \/ UNCHANGED vars
  <2>1. UNCHANGED <<room, file, cursor, pc, job, joined>>
    BY <1>7 DEF Age, vars, files, history
  <2> QED BY <1>0, <2>1, QuietStep DEF OrderInv, JoinsKept
<1> QED BY <1>2, <1>3, <1>4, <1>5, <1>6, <1>7 DEF Next, Step

LEMMA OrderInvariant == Spec => []OrderInv
<1>1. Init => OrderInv
  BY DEF Init, OrderInv, SeqsIncrease, ViewsCurrent, JoinsDone, JoinsKept, Good
<1> QED BY <1>1, TypeInvariant, LockExcludes, OrderNext, PTL DEF Spec

\* Seqs strictly increase down messages.jsonl, for any number of concurrent
\* posts, crashes and torn lines, until a live process is evicted.
THEOREM SeqsInOrder == Spec => []SeqsIncrease
<1>1. OrderInv => SeqsIncrease
  BY DEF OrderInv
<1> QED BY <1>1, OrderInvariant, PTL

\* What a session read under the lock still holds when it writes.
THEOREM ReadsStayCurrent == Spec => []ViewsCurrent
<1>1. OrderInv => ViewsCurrent
  BY DEF OrderInv
<1> QED BY <1>1, OrderInvariant, PTL

\* A join that returned is never undone by another writer of room.json.
THEOREM JoinsStay == Spec => []JoinsKept
<1>1. OrderInv => JoinsKept
  BY DEF OrderInv
<1> QED BY <1>1, OrderInvariant, PTL

\* A cursor moves only when a session writes what it loaded, which is current.
LEMMA CursorNext ==
    ASSUME TypeInv, OrderInv, [Next]_vars, ~evicted', NEW n \in Names
    PROVE  cursor'[n] >= cursor[n]
<1>1. cursor[n] \in Int /\ cursor \in [Names -> Int]
  BY DEF TypeInv, TypeOK, FilesOK
<1>2. ASSUME NEW p \in Sessions, WriteCursor(p) PROVE cursor'[n] >= cursor[n]
  <2>1. job[p].num >= cursor[NameOf[p]]
    BY <1>2, NotYetEvicted DEF WriteCursor, OrderInv, ViewsCurrent
  <2> QED BY <1>1, <1>2, <2>1 DEF WriteCursor
<1>3. CASE UNCHANGED cursor
  BY <1>1, <1>3
<1>4. UNCHANGED cursor \/ \E p \in Sessions : WriteCursor(p)
  BY DEF Next, Step, vars, files, StartRoomCommand, StartPost, StartWait, StartRead, StartAck,
      AckMail, Acquire, SeeStale, Reclaim, GiveUp, Load, SaveRoom, Refuse, AppendLine,
      Release, CutAppend, Crash, Restart, Age
<1> QED BY <1>2, <1>3, <1>4

\* No acknowledgement moves a cursor back, whatever others did in between.
THEOREM CursorsAdvance == Spec => CursorAdvances
<1>1. TypeInv /\ OrderInv /\ [Next]_vars
      => (~evicted' => \A n \in Names : cursor'[n] >= cursor[n])
  BY CursorNext
<1> QED BY <1>1, TypeInvariant, OrderInvariant, PTL DEF Spec, CursorAdvances

-----------------------------------------------------------------------------
(* Layer 4: what becomes of a message.                                     *)

\* What the next two invariants need of a step that appends nothing.
LEMMA FileWriters ==
    ASSUME [Next]_vars
    PROVE  \/ UNCHANGED <<file, open>>
           \/ \E p \in Sessions : AppendLine(p) \/ CutAppend(p)
  BY DEF Next, Step, vars, files, StartRoomCommand, StartPost, StartWait, StartRead, StartAck,
      AckMail, Acquire, SeeStale, Reclaim, GiveUp, Load, SaveRoom, Refuse, WriteCursor,
      Release, Crash, Restart, Age

LEMMA RoomWriters ==
    ASSUME [Next]_vars
    PROVE  UNCHANGED room \/ \E p \in Sessions : SaveRoom(p)
  BY DEF Next, Step, vars, files, StartRoomCommand, StartPost, StartWait, StartRead, StartAck,
      AckMail, Acquire, SeeStale, Reclaim, GiveUp, Load, Refuse, AppendLine, WriteCursor,
      Release, CutAppend, Crash, Restart, Age

LEMMA NotYetTorn == [Next]_vars /\ ~torn' => ~torn
  BY DEF Next, Step, vars, history, StartRoomCommand, StartPost, StartWait, StartRead, StartAck,
      AckMail, Acquire, SeeStale, Reclaim, GiveUp, Load, SaveRoom, Refuse, AppendLine,
      WriteCursor, Release, CutAppend, Crash, Restart, Age

\* What a step does to the job of a session other than to end it.
LEMMA JobOf ==
    ASSUME TypeInv, [Next]_vars, NEW q \in Sessions
    PROVE  \/ pc'[q] = pc[q] /\ job'[q] = job[q]
           \/ job'[q] = NoJob /\ pc'[q] \in {"idle", "down"}
           \/ \/ StartRoomCommand(q) \/ StartPost(q) \/ StartWait(q) \/ StartRead(q)
              \/ StartAck(q) \/ AckMail(q) \/ Acquire(q) \/ SeeStale(q) \/ Reclaim(q)
              \/ Load(q) \/ SaveRoom(q) \/ Refuse(q) \/ AppendLine(q) \/ WriteCursor(q)
              \/ CutAppend(q) \/ Restart(q)
<1>1. pc \in [Sessions -> PCs] /\ job \in [Sessions -> Jobs]
  BY DEF TypeInv, TypeOK, ProgramOK
<1>2. ASSUME NEW p \in Sessions, p # q,
             \/ StartRoomCommand(p) \/ StartPost(p) \/ StartWait(p) \/ StartRead(p)
             \/ StartAck(p) \/ Step(p) \/ CutAppend(p) \/ Crash(p) \/ Restart(p)
      PROVE  pc'[q] = pc[q] /\ job'[q] = job[q]
  BY <1>1, <1>2 DEF Step, StartRoomCommand, StartPost, StartWait, StartRead, StartAck,
      AckMail, Acquire, SeeStale, Reclaim, GiveUp, Load, SaveRoom, Refuse, AppendLine,
      WriteCursor, Release, CutAppend, Crash, Restart, Begin, End, Die
<1>3. ASSUME GiveUp(q) \/ Release(q) \/ Crash(q)
      PROVE  job'[q] = NoJob /\ pc'[q] \in {"idle", "down"}
  BY <1>1, <1>3 DEF GiveUp, Release, Crash, End, Die
<1>4. ASSUME Age \/ UNCHANGED vars PROVE pc'[q] = pc[q] /\ job'[q] = job[q]
  BY <1>4 DEF Age, vars
<1> QED BY <1>2, <1>3, <1>4 DEF Next, Step

-----------------------------------------------------------------------------
\* A message from one name to another runs along an edge of the star.
Fits(from, to) == \/ from = room.boss /\ to \in room.members \cup {All}
                  \/ from \in room.members /\ to = room.boss

\* A post was checked against a room that has only grown since.
StarInv ==
    ~evicted => /\ \A m \in Messages : Fits(m.from, m.to)
                /\ \A p \in Sessions : job[p].op = "post" => Fits(NameOf[p], job[p].to)

\* room.json only grows: a boss stays, members stay.
LEMMA FitsStays ==
    ASSUME TypeInv, OrderInv, [Next]_vars, ~evicted', NEW from \in Names, NEW to,
           Fits(from, to)
    PROVE  Fits(from, to)'
<1>1. CASE UNCHANGED room
  BY <1>1 DEF Fits
<1>2. ASSUME NEW p \in Sessions, SaveRoom(p) PROVE Fits(from, to)'
  <2>1. job[p].view = room /\ room \in Rooms
    BY <1>2, NotYetEvicted DEF SaveRoom, OrderInv, ViewsCurrent, TypeInv, TypeOK, FilesOK
  <2>2. room.boss # NoBoss
    BY SessionsAssumption DEF Fits, TypeInv, RoomShape
  <2>3. room'.boss = room.boss /\ room.members \subseteq room'.members
    BY <1>2, <2>1, <2>2 DEF SaveRoom, Accepts, WithName, Rooms
  <2> QED BY <2>3 DEF Fits
<1> QED BY <1>1, <1>2, RoomWriters

\* What is in the file after a step was there before, or is a post's record.
LEMMA NewMessages ==
    ASSUME TypeInv, [Next]_vars, NEW m \in Messages'
    PROVE  m \in Messages \/ \E p \in Sessions : /\ pc[p] = "loaded" /\ job[p].op = "post"
                                                 /\ m = Record(p)
<1>1. CASE UNCHANGED file
  BY <1>1 DEF Messages, Good
<1>2. ASSUME NEW p \in Sessions, AppendLine(p) \/ CutAppend(p)
      PROVE  m \in Messages \/ m = Record(p)
  <2>1. PICK line \in {Garbage, Record(p)} : file' = Appended(line)
    BY <1>2 DEF AppendLine, CutAppend
  <2>2. line \in Message \cup {Garbage}
    BY <1>2, RecordTyped DEF TypeInv, AppendLine, CutAppend
  <2>3. PICK i \in Good' : m = file'[i]
    BY DEF Messages
  <2>4. \/ i \in Good /\ file'[i] = file[i]
        \/ file'[i] = line
    BY <2>1, <2>2, AppendedGood
  <2>5. file'[i] # Garbage
    BY DEF Good
  <2> QED BY <2>1, <2>3, <2>4, <2>5 DEF Messages
<1>3. ASSUME NEW p \in Sessions, AppendLine(p) \/ CutAppend(p)
      PROVE  pc[p] = "loaded" /\ job[p].op = "post"
  BY <1>3 DEF AppendLine, CutAppend
<1> QED BY <1>1, <1>2, <1>3, FileWriters

LEMMA StarNext == TypeInv /\ OrderInv /\ StarInv /\ [Next]_vars => StarInv'
<1> SUFFICES ASSUME TypeInv, OrderInv, StarInv, [Next]_vars, ~evicted' PROVE StarInv'
  BY DEF StarInv
<1> USE SessionsAssumption
<1>1. ~evicted
  BY NotYetEvicted
<1>2. \A from \in Names : \A to : Fits(from, to) => Fits(from, to)'
  BY FitsStays
<1>3. ASSUME NEW m \in Messages' PROVE Fits(m.from, m.to)'
  <2>1. CASE m \in Messages
    <3>1. m.from \in Names
      BY <2>1, ReadingTyped DEF TypeInv, Message
    <3> QED BY <1>1, <1>2, <2>1, <3>1 DEF StarInv
  <2>2. ASSUME NEW p \in Sessions, job[p].op = "post", m = Record(p)
        PROVE  Fits(m.from, m.to)'
    <3>1. m.from = NameOf[p] /\ m.to = job[p].to
      BY <2>2 DEF Record
    <3>2. Fits(NameOf[p], job[p].to)
      BY <1>1, <2>2 DEF StarInv
    <3> QED BY <1>2, <3>1, <3>2
  <2> QED BY <1>3, <2>1, <2>2, NewMessages
<1>4. ASSUME NEW p \in Sessions, job'[p].op = "post" PROVE Fits(NameOf[p], job[p].to)'
  <2> DEFINE me == NameOf[p]
  <2>1. CASE job'[p].op = job[p].op /\ job'[p].to = job[p].to
    BY <1>1, <1>2, <1>4, <2>1 DEF StarInv
  <2>2. CASE StartPost(p)
    <3>1. room' = room /\ job'[p].to \in Recipients(me)
      BY <2>2 DEF StartPost, Begin, files, TypeInv, TypeOK, ProgramOK, NoJob
    <3> QED BY <3>1 DEF Recipients, Fits
  <2>3. job \in [Sessions -> Jobs]
    BY DEF TypeInv, TypeOK, ProgramOK
  <2>4. CASE \/ StartRoomCommand(p) \/ StartWait(p) \/ StartRead(p) \/ StartAck(p)
    BY <1>4, <2>3, <2>4 DEF StartRoomCommand, StartWait, StartRead, StartAck, Begin, NoJob
  <2>5. CASE \/ AckMail(p) \/ Acquire(p) \/ SeeStale(p) \/ Reclaim(p)
             \/ Load(p) \/ SaveRoom(p) \/ Refuse(p) \/ AppendLine(p) \/ WriteCursor(p)
             \/ CutAppend(p) \/ Restart(p)
    <3>1. \/ job'[p].op = job[p].op /\ job'[p].to = job[p].to
          \/ job'[p] = NoJob
      BY <2>3, <2>5 DEF AckMail, Acquire, SeeStale, Reclaim, Load, SaveRoom, Refuse,
          AppendLine, WriteCursor, CutAppend, Restart, End, Die, Jobs
    <3> QED BY <1>4, <2>1, <3>1 DEF NoJob
  <2>6. job'[p] = NoJob => FALSE
    BY <1>4 DEF NoJob
  <2> QED BY <2>1, <2>2, <2>4, <2>5, <2>6, JobOf
<1> QED BY <1>3, <1>4 DEF StarInv

\* Until a live process is evicted every message in the file runs between the
\* room's boss, as it is now, and one of its members, although the check of
\* sender and recipient was made before the lock was taken.
THEOREM StarStays == Spec => []Star
<1>1. Init => StarInv
  BY DEF Init, StarInv, Messages, Good, NoJob
<1>2. StarInv => Star
  BY DEF StarInv, Star, Fits
<1> QED BY <1>1, <1>2, TypeInvariant, OrderInvariant, StarNext, PTL DEF Spec

-----------------------------------------------------------------------------
\* While no append was cut short the file ends in a newline, and the line of a
\* post that wrote it, or returned, is there.
KeptInv ==
    ~torn => /\ ~open
             /\ confirmed \subseteq Messages
             /\ \A p \in Sessions : pc[p] = "done" /\ job[p].op = "post"
                                        => Record(p) \in Messages

\* A file that ends in a newline only grows.
LEMMA MessagesGrow ==
    ASSUME TypeInv, ~open, NEW line \in Message, file' = Appended(line)
    PROVE  Messages' = Messages \cup {line}
<1>1. file' = Append(file, line) /\ file \in Seq(Message \cup {Garbage})
  BY DEF Appended, TypeInv, TypeOK, FilesOK
<1>2. line # Garbage
  BY GarbageAssumption
<1> HIDE DEF Message
<1>3. /\ Len(file') = Len(file) + 1 /\ DOMAIN file' = 1 .. Len(file')
      /\ \A i \in 1 .. Len(file) : file'[i] = file[i]
      /\ file'[Len(file) + 1] = line
      /\ Len(file) \in Nat /\ DOMAIN file = 1 .. Len(file)
  BY <1>1, AppendProperties
<1>4. Good' = Good \cup {Len(file) + 1}
  BY <1>2, <1>3 DEF Good
<1>5. Good \subseteq 1 .. Len(file)
  BY <1>3 DEF Good
<1> QED BY <1>3, <1>4, <1>5 DEF Messages

\* A step that tears nothing adds at most one line, that of a post.
LEMMA WholeStep ==
    ASSUME TypeInv, KeptInv, [Next]_vars, ~torn'
    PROVE  /\ ~torn /\ ~open'
           /\ \/ Messages' = Messages
              \/ \E p \in Sessions : /\ AppendLine(p)
                                     /\ Messages' = Messages \cup {Record(p)}
<1>1. ~torn /\ ~open
  BY NotYetTorn DEF KeptInv
<1>2. CASE UNCHANGED <<file, open>>
  BY <1>1, <1>2 DEF Messages, Good
<1>3. ASSUME NEW p \in Sessions, AppendLine(p)
      PROVE  ~open' /\ Messages' = Messages \cup {Record(p)}
  <2>1. Record(p) \in Message /\ file' = Appended(Record(p)) /\ open' = FALSE
    BY <1>3, RecordTyped DEF TypeInv, AppendLine
  <2> QED BY <1>1, <2>1, MessagesGrow
<1>4. ASSUME NEW p \in Sessions, CutAppend(p) PROVE FALSE
  BY <1>4 DEF CutAppend
<1> QED BY <1>1, <1>2, <1>3, <1>4, FileWriters

LEMMA KeptNext == TypeInv /\ KeptInv /\ [Next]_vars => KeptInv'
<1> SUFFICES ASSUME TypeInv, KeptInv, [Next]_vars, ~torn' PROVE KeptInv'
  BY DEF KeptInv
<1>1. ~torn /\ ~open' /\ Messages \subseteq Messages'
  BY WholeStep
<1>2. confirmed' \subseteq Messages'
  <2>1. ASSUME NEW p \in Sessions, Release(p) PROVE confirmed' \subseteq Messages
    BY <1>1, <2>1 DEF Release, KeptInv, Record
  <2>2. confirmed' = confirmed \/ \E p \in Sessions : Release(p)
    BY DEF Next, Step, vars, history, StartRoomCommand, StartPost, StartWait, StartRead,
        StartAck, AckMail, Acquire, SeeStale, Reclaim, GiveUp, Load, SaveRoom, Refuse,
        AppendLine, WriteCursor, CutAppend, Crash, Restart, Age
  <2> QED BY <1>1, <2>1, <2>2 DEF KeptInv
<1>3. ASSUME NEW p \in Sessions, pc'[p] = "done", job'[p].op = "post"
      PROVE  Record(p)' \in Messages'
  <2>1. pc \in [Sessions -> PCs] /\ job \in [Sessions -> Jobs]
    BY DEF TypeInv, TypeOK, ProgramOK
  <2>2. CASE pc'[p] = pc[p] /\ job'[p] = job[p]
    BY <1>1, <1>3, <2>2 DEF KeptInv, Record
  <2>3. CASE AppendLine(p)
    <3>1. job' = job /\ Record(p)' = Record(p)
      BY <2>3 DEF AppendLine, Record
    <3>2. Messages' = Messages \cup {Record(p)}
      <4>1. Record(p) \in Message /\ file' = Appended(Record(p))
        BY <2>3, RecordTyped DEF TypeInv, AppendLine
      <4> QED BY <1>1, <4>1, MessagesGrow DEF KeptInv
    <3> QED BY <3>1, <3>2
  <2>4. pc'[p] \notin {"idle", "down"}
    BY <1>3
  <2>5. ASSUME SaveRoom(p) \/ WriteCursor(p) PROVE FALSE
    BY <1>3, <2>5 DEF SaveRoom, WriteCursor
  <2>6. ASSUME \/ StartRoomCommand(p) \/ StartPost(p) \/ StartWait(p) \/ StartRead(p)
               \/ StartAck(p) \/ AckMail(p) \/ Acquire(p) \/ SeeStale(p) \/ Reclaim(p)
               \/ Load(p) \/ Refuse(p) \/ CutAppend(p) \/ Restart(p)
        PROVE  pc'[p] # "done"
    BY <2>1, <2>6 DEF StartRoomCommand, StartPost, StartWait, StartRead, StartAck,
        AckMail, Acquire, SeeStale, Reclaim, Load, Refuse, CutAppend, Restart, End, Die
  <2> QED BY <1>3, <2>2, <2>3, <2>4, <2>5, <2>6, JobOf
<1> QED BY <1>1, <1>2, <1>3 DEF KeptInv

LEMMA KeptInvariant == Spec => []KeptInv
<1>1. Init => KeptInv
  BY DEF Init, KeptInv, NoJob
<1> QED BY <1>1, TypeInvariant, KeptNext, PTL DEF Spec

\* A message whose post returned is in messages.jsonl from then on, whoever
\* crashes and whoever loses its lock, until an append is cut short.
THEOREM PostsStay == Spec => []PostsKept
<1>1. KeptInv => PostsKept
  BY DEF KeptInv, PostsKept
<1> QED BY <1>1, KeptInvariant, PTL

-----------------------------------------------------------------------------
\* Mail whose fate is known: delivered to n or dismissed by it, acknowledged
\* by a process that died, or acknowledged by one that is about to print it.
Accounted(m, n) ==
    \/ m \in settled[n] \cup lost[n]
    \/ \E q \in Sessions : NameOf[q] = n /\ pc[q] = "done" /\ m \in job[q].batch

\* x is no further than the file, and of n's mail up to x nothing is missing,
\* what is in the batch B put aside.
Passed(n, x, B) ==
    /\ x < 0 \/ \E m \in Messages : x =< m.seq
    /\ \A m \in Messages : addressed(m, n) /\ m.seq =< x => m \in B \/ Accounted(m, n)

\* Nothing is missing up to a cursor, nor up to where a command in progress
\* may move one: a seq it carries from before the lock, or the one it will write.
SkipInv ==
    ~evicted /\ ~torn =>
        /\ \A n \in Names : Passed(n, cursor[n], {})
        /\ \A q \in Sessions :
               /\ Passed(NameOf[q], job[q].through, job[q].batch)
               /\ pc[q] = "loaded" /\ job[q].op \in {"wait", "read", "ack"}
                      => Passed(NameOf[q], job[q].num, job[q].batch)
               /\ job[q].batch # {} => job[q].op = "wait"

\* A process inside withLock that has written leaves by returning or by dying.
LEMMA DoneThen ==
    ASSUME TypeInv, [Next]_vars, NEW q \in Sessions, pc[q] = "done"
    PROVE  \/ pc'[q] = pc[q] /\ job'[q] = job[q]
           \/ Release(q) \/ Crash(q)
<1>1. pc \in [Sessions -> PCs] /\ job \in [Sessions -> Jobs]
  BY DEF TypeInv, TypeOK, ProgramOK
<1>2. ASSUME NEW p \in Sessions, p # q,
             \/ StartRoomCommand(p) \/ StartPost(p) \/ StartWait(p) \/ StartRead(p)
             \/ StartAck(p) \/ Step(p) \/ CutAppend(p) \/ Crash(p) \/ Restart(p)
      PROVE  pc'[q] = pc[q] /\ job'[q] = job[q]
  BY <1>1, <1>2 DEF Step, StartRoomCommand, StartPost, StartWait, StartRead, StartAck,
      AckMail, Acquire, SeeStale, Reclaim, GiveUp, Load, SaveRoom, Refuse, AppendLine,
      WriteCursor, Release, CutAppend, Crash, Restart, Begin, End, Die
<1>3. ASSUME \/ StartRoomCommand(q) \/ StartPost(q) \/ StartWait(q) \/ StartRead(q)
             \/ StartAck(q) \/ AckMail(q) \/ Acquire(q) \/ SeeStale(q) \/ Reclaim(q)
             \/ GiveUp(q) \/ Load(q) \/ SaveRoom(q) \/ Refuse(q) \/ AppendLine(q)
             \/ WriteCursor(q) \/ CutAppend(q) \/ Restart(q)
      PROVE  FALSE
  BY <1>3 DEF StartRoomCommand, StartPost, StartWait, StartRead, StartAck,
      AckMail, Acquire, SeeStale, Reclaim, GiveUp, Load, SaveRoom, Refuse, AppendLine,
      WriteCursor, CutAppend, Restart
<1>4. ASSUME Age \/ UNCHANGED vars PROVE pc'[q] = pc[q] /\ job'[q] = job[q]
  BY <1>4 DEF Age, vars
<1> QED BY <1>2, <1>3, <1>4 DEF Next, Step

\* The histories only grow.
LEMMA HistoryGrows ==
    ASSUME TypeInv, [Next]_vars, NEW n \in Names
    PROVE  settled[n] \subseteq settled'[n] /\ lost[n] \subseteq lost'[n]
<1>1. settled \in [Names -> SUBSET Message] /\ lost \in [Names -> SUBSET Message]
  BY DEF TypeInv, TypeOK, HistoryOK
<1>2. settled' = settled \/ \E p \in Sessions : \E B :
          settled' = [settled EXCEPT ![NameOf[p]] = @ \cup B]
  <2>1. ASSUME NEW p \in Sessions, StartRead(p) \/ StartAck(p) \/ AckMail(p) \/ Release(p)
        PROVE  settled' = settled \/ \E B : settled' = [settled EXCEPT ![NameOf[p]] = @ \cup B]
    BY <2>1, Zenon DEF StartRead, StartAck, AckMail, Release
  <2>2. \/ settled' = settled
        \/ \E p \in Sessions : StartRead(p) \/ StartAck(p) \/ AckMail(p) \/ Release(p)
    BY DEF Next, Step, vars, history, StartRoomCommand, StartPost, StartWait,
        Acquire, SeeStale, Reclaim, GiveUp, Load, SaveRoom, Refuse,
        AppendLine, WriteCursor, CutAppend, Crash, Restart, Age
  <2> QED BY <2>1, <2>2
<1>3. lost' = lost \/ \E p \in Sessions : \E B : lost' = [lost EXCEPT ![NameOf[p]] = @ \cup B]
  <2>1. ASSUME NEW p \in Sessions, Crash(p)
        PROVE  lost' = lost \/ \E B : lost' = [lost EXCEPT ![NameOf[p]] = @ \cup B]
    BY <2>1, Zenon DEF Crash
  <2>2. lost' = lost \/ \E p \in Sessions : Crash(p)
    BY DEF Next, Step, vars, history, StartRoomCommand, StartPost, StartWait, StartRead,
        StartAck, AckMail, Acquire, SeeStale, Reclaim, GiveUp, Load, SaveRoom, Refuse,
        AppendLine, WriteCursor, Release, CutAppend, Restart, Age
  <2> QED BY <2>1, <2>2
<1> QED BY <1>1, <1>2, <1>3

LEMMA AccountedStays ==
    ASSUME TypeInv, SkipInv, ~evicted, ~torn, [Next]_vars, NEW n \in Names, NEW m,
           Accounted(m, n)
    PROVE  Accounted(m, n)'
<1>1. CASE m \in settled[n] \cup lost[n]
  BY <1>1, HistoryGrows DEF Accounted
<1>2. ASSUME NEW q \in Sessions, NameOf[q] = n, pc[q] = "done", m \in job[q].batch
      PROVE  Accounted(m, n)'
  <2>1. CASE pc'[q] = pc[q] /\ job'[q] = job[q]
    BY <1>2, <2>1 DEF Accounted
  <2>2. job[q].op = "wait"
    BY <1>2 DEF SkipInv
  <2>3. CASE Release(q)
    <3>1. m \in settled'[n]
      BY <1>2, <2>2, <2>3 DEF Release, TypeInv, TypeOK, HistoryOK
    <3> QED BY <3>1 DEF Accounted
  <2>4. CASE Crash(q)
    <3>1. m \in lost'[n]
      BY <1>2, <2>2, <2>4 DEF Crash, TypeInv, TypeOK, HistoryOK
    <3> QED BY <3>1 DEF Accounted
  <2> QED BY <1>2, <2>1, <2>3, <2>4, DoneThen
<1> QED BY <1>1, <1>2 DEF Accounted

\* A message that is posted later has a seq past everything passed.
LEMMA PassedStays ==
    ASSUME TypeInv, OrderInv, KeptInv, SkipInv, [Next]_vars, ~evicted', ~torn',
           NEW n \in Names, NEW x \in Int, NEW B, Passed(n, x, B)
    PROVE  Passed(n, x, B)'
<1>1. ~evicted /\ ~torn
  BY NotYetEvicted, NotYetTorn
<1>2. \A m : Accounted(m, n) => Accounted(m, n)'
  BY <1>1, AccountedStays
<1>3. Messages \subseteq Messages'
  BY WholeStep
<1>4. ASSUME NEW m \in Messages', m.seq =< x PROVE m \in Messages
  <2>1. ASSUME NEW p \in Sessions, AppendLine(p), m = Record(p) PROVE FALSE
    <3>1. /\ job[p].num \in Nat
          /\ \A i \in Good : file[i].seq < job[p].num
      BY <1>1, <2>1 DEF AppendLine, OrderInv, ViewsCurrent, TypeInv, PostShape
    <3>2. \A k \in Messages : k.seq < job[p].num /\ k.seq \in Int
      BY <3>1, ReadingTyped DEF Messages, TypeInv, Message
    <3>3. m.seq = job[p].num
      BY <2>1 DEF Record
    <3>4. x < 0 \/ \E k \in Messages : x =< k.seq
      BY DEF Passed
    <3> QED BY <1>4, <3>1, <3>2, <3>3, <3>4
  <2> QED BY <1>4, <2>1, WholeStep
<1>5. \A m \in Messages : addressed(m, n) /\ m.seq =< x => m \in B \/ Accounted(m, n)
  BY DEF Passed
<1>6. \A m \in Messages' : addressed(m, n) /\ m.seq =< x => m \in B \/ Accounted(m, n)'
  BY <1>2, <1>4, <1>5
<1>7. (x < 0 \/ \E m \in Messages : x =< m.seq)'
  BY <1>3 DEF Passed
<1> QED BY <1>6, <1>7 DEF Passed, addressed

\* The seq that a wait, a read or an ack carries is that of a message.
LEMMA EndsInFile ==
    ASSUME TypeInv
    PROVE  /\ Good # {} => \E m \in Messages : LastSeq =< m.seq
           /\ \A n \in Names : unread(n) # {} => \E m \in Messages : BatchEnd(n) =< m.seq
<1>1. \A i \in Good : file[i] \in Messages /\ file[i].seq \in Int
  BY ReadingTyped DEF Messages, TypeInv, Message
<1>2. Good \in SUBSET (1 .. Len(file)) /\ Len(file) \in Nat
  BY ReadingTyped DEF TypeInv
<1>3. ASSUME Good # {} PROVE \E m \in Messages : LastSeq =< m.seq
  <2>1. LastOf(Good) \in Good
    BY <1>3, ReadingTyped DEF TypeInv
  <2>2. file[LastOf(Good)].seq =< file[LastOf(Good)].seq
    BY <1>1, <2>1
  <2> QED BY <1>1, <2>1, <2>2 DEF LastSeq
<1>4. ASSUME NEW n \in Names, unread(n) # {}
      PROVE  \E m \in Messages : BatchEnd(n) =< m.seq
  <2> DEFINE mine == {i \in Good : file[i] \in unread(n)}
  <2>1. mine \in SUBSET (1 .. Len(file)) /\ mine # {}
    BY <1>2, <1>4 DEF unread, Messages
  <2> HIDE DEF mine
  <2>2. LastOf(mine) \in mine
    BY <2>1, <1>2, LastOfIn
  <2>3. LastOf(mine) \in Good /\ BatchEnd(n) = file[LastOf(mine)].seq
    BY <2>2 DEF BatchEnd, mine
  <2>4. file[LastOf(mine)].seq =< file[LastOf(mine)].seq
    BY <1>1, <2>3
  <2> QED BY <1>1, <2>3, <2>4
<1> QED BY <1>3, <1>4

\* All mail for n is accounted for once its unread mail is put aside.
LEMMA AllPassed ==
    ASSUME TypeInv, NEW n \in Names, Passed(n, cursor[n], {}), NEW x \in Int,
           x < 0 \/ \E m \in Messages : x =< m.seq
    PROVE  Passed(n, x, unread(n))
<1>1. cursor[n] \in Int /\ \A m \in Messages : m.seq \in Int
  BY ReadingTyped DEF TypeInv, TypeOK, FilesOK, Message
<1>2. \A m \in Messages : m.seq > cursor[n] \/ m.seq =< cursor[n]
  BY <1>1
<1> QED BY <1>2 DEF Passed, unread

\* Nothing is up to -1.
LEMMA NothingPassed ==
    ASSUME TypeInv, NEW n, NEW B
    PROVE  Passed(n, -1, B)
<1>1. \A m \in Messages : m.seq \in Nat
  BY ReadingTyped DEF TypeInv, Message
<1>2. \A m \in Messages : ~ (m.seq =< -1)
  BY <1>1
<1> QED BY <1>2 DEF Passed

\* A command that starts carries the seq of a message, with all the mail up to
\* it put aside or settled, or no seq at all.
LEMMA SkipStarts ==
    ASSUME TypeInv, OrderInv, KeptInv, SkipInv, [Next]_vars, TypeInv', ~evicted', ~torn',
           NEW q \in Sessions,
           \/ StartRoomCommand(q) \/ StartPost(q) \/ StartWait(q) \/ StartRead(q) \/ StartAck(q)
    PROVE  /\ Passed(NameOf[q], job[q].through, job[q].batch)'
           /\ job'[q].batch # {} => job'[q].op = "wait"
<1> DEFINE n == NameOf[q]
<1>1. n \in Names /\ job \in [Sessions -> Jobs] /\ ~evicted /\ ~torn
  BY SessionsAssumption, NotYetEvicted, NotYetTorn DEF TypeInv, TypeOK, ProgramOK
<1>2. Passed(n, cursor[n], {})
  BY <1>1 DEF SkipInv
<1>3. CASE StartRoomCommand(q) \/ StartPost(q)
  <2>1. job'[q].through = -1 /\ job'[q].batch = {}
    BY <1>1, <1>3 DEF StartRoomCommand, StartPost, Begin, NoJob
  <2>2. Passed(n, -1, {})'
    <3>1. Passed(n, -1, {})
      BY NothingPassed
    <3> QED BY <1>1, <3>1, PassedStays
  <2>3. ASSUME NEW x, x = job'[q].through, NEW B, B = job'[q].batch, x = -1, B = {}
        PROVE  Passed(NameOf[q], job[q].through, job[q].batch)'
    BY <2>2, <2>3
  <2> QED BY <2>1, <2>3
<1>4. CASE StartWait(q)
  <2>1. /\ job'[q].through = BatchEnd(n) /\ job'[q].batch = unread(n)
        /\ job'[q].op = "wait" /\ unread(n) # {}
    BY <1>1, <1>4 DEF StartWait, Begin, NoJob
  <2>2. BatchEnd(n) \in Int /\ \E m \in Messages : BatchEnd(n) =< m.seq
    BY <1>1, <2>1, ReadingTyped, EndsInFile DEF TypeInv
  <2>3. Passed(n, BatchEnd(n), unread(n))
    BY <1>1, <1>2, <2>2, AllPassed
  <2>4. ASSUME NEW x, x = BatchEnd(n), NEW B, B = unread(n)
        PROVE  Passed(NameOf[q], job[q].through, job[q].batch)'
    <3>1. Passed(n, x, B)'
      BY <1>1, <2>2, <2>3, <2>4, PassedStays
    <3>2. x = job'[q].through /\ B = job'[q].batch
      BY <2>1, <2>4
    <3> QED BY <3>1, <3>2
  <2> QED BY <2>1, <2>4
<1>5. CASE StartRead(q) \/ StartAck(q)
  <2>1. /\ job'[q].batch = {}
        /\ job'[q].through \in Int
        /\ \E m \in Messages : job'[q].through =< m.seq
        /\ unread(n) \subseteq settled'[n]
    <3>1. CASE StartRead(q)
      BY <1>1, <3>1, ReadingTyped, EndsInFile DEF StartRead, Begin, NoJob, TypeInv, TypeOK, HistoryOK
    <3>2. CASE StartAck(q)
      BY <1>1, <3>2, ReadingTyped, EndsInFile DEF StartAck, Begin, NoJob, TypeInv, TypeOK, HistoryOK
    <3> QED BY <1>5, <3>1, <3>2
  <2>2. ASSUME NEW x \in Int, x = job'[q].through, NEW B, B = unread(n)
        PROVE  Passed(NameOf[q], job[q].through, job[q].batch)'
    <3>1. Passed(n, x, B)
      BY <1>1, <1>2, <2>1, <2>2, AllPassed
    <3>2. Passed(n, x, B)'
      BY <1>1, <3>1, PassedStays
    <3>3. \A m : m \in B => Accounted(m, n)'
      BY <2>1, <2>2 DEF Accounted
    <3>4. Passed(n, x, {})'
      BY <3>2, <3>3 DEF Passed
    <3> QED BY <2>1, <2>2, <3>4
  <2> QED BY <2>1, <2>2
<1> QED BY <1>3, <1>4, <1>5

\* Load: the seq it will write is the larger of two that are passed.
LEMMA SkipLoad ==
    ASSUME TypeInv, OrderInv, KeptInv, SkipInv, [Next]_vars, ~evicted', ~torn',
           NEW q \in Sessions, Load(q), job[q].op \in {"wait", "read", "ack"}
    PROVE  Passed(NameOf[q], job[q].num, job[q].batch)'
<1> DEFINE n == NameOf[q]
<1>1. /\ n \in Names /\ job \in [Sessions -> Jobs] /\ ~evicted /\ ~torn
      /\ cursor[n] \in Int /\ job[q].through \in Int
  BY SessionsAssumption, NotYetEvicted, NotYetTorn DEF TypeInv, TypeOK, FilesOK, ProgramOK, Jobs
<1>2. Passed(n, cursor[n], {}) /\ Passed(n, job[q].through, job[q].batch)
  BY <1>1 DEF SkipInv
<1>3. Passed(n, AckThrough(q), job[q].batch) /\ AckThrough(q) \in Int
  BY <1>1, <1>2 DEF AckThrough, Larger, Passed
<1>4. job'[q].num = AckThrough(q) /\ job'[q].batch = job[q].batch
  BY <1>1 DEF Load, Jobs
<1>5. ASSUME NEW x \in Int, x = AckThrough(q), NEW B, B = job[q].batch
      PROVE  Passed(NameOf[q], job[q].num, job[q].batch)'
  <2>1. Passed(n, x, B)'
    BY <1>1, <1>3, <1>5, PassedStays
  <2> QED BY <1>4, <1>5, <2>1
<1> QED BY <1>3, <1>5

\* setCursor: the mail put aside is from now on that of a process that wrote.
LEMMA SkipWrites ==
    ASSUME TypeInv, OrderInv, KeptInv, SkipInv, [Next]_vars, ~evicted', ~torn',
           NEW q \in Sessions, WriteCursor(q)
    PROVE  Passed(NameOf[q], cursor[NameOf[q]], {})'
<1> DEFINE n == NameOf[q]
<1>1. /\ n \in Names /\ job \in [Sessions -> Jobs] /\ ~evicted /\ ~torn
      /\ cursor \in [Names -> Int] /\ job[q].num \in Int /\ pc \in [Sessions -> PCs]
  BY SessionsAssumption, NotYetEvicted, NotYetTorn DEF TypeInv, TypeOK, FilesOK, ProgramOK, Jobs
<1>2. Passed(n, job[q].num, job[q].batch)
  BY <1>1 DEF SkipInv, WriteCursor
<1>3. cursor'[n] = job[q].num /\ job' = job /\ pc'[q] = "done"
  BY <1>1 DEF WriteCursor
<1>4. ASSUME NEW x \in Int, x = job[q].num, NEW B, B = job[q].batch
      PROVE  Passed(NameOf[q], cursor[NameOf[q]], {})'
  <2>1. Passed(n, x, B)'
    BY <1>1, <1>2, <1>4, PassedStays
  <2>2. \A m : m \in B => Accounted(m, n)'
    BY <1>3, <1>4 DEF Accounted
  <2>3. Passed(n, x, {})'
    BY <2>1, <2>2 DEF Passed
  <2> QED BY <1>3, <1>4, <2>3
<1> QED BY <1>1, <1>4

LEMMA SkipNext ==
    /\ TypeInv /\ TypeInv' /\ OrderInv /\ KeptInv /\ SkipInv /\ [Next]_vars
    => SkipInv'
<1> SUFFICES ASSUME TypeInv, TypeInv', OrderInv, KeptInv, SkipInv, [Next]_vars,
                    ~evicted', ~torn'
             PROVE  SkipInv'
  BY DEF SkipInv
<1>1. /\ job \in [Sessions -> Jobs] /\ pc \in [Sessions -> PCs] /\ ~evicted /\ ~torn
      /\ cursor \in [Names -> Int] /\ \A q \in Sessions : NameOf[q] \in Names
  BY SessionsAssumption, NotYetEvicted, NotYetTorn DEF TypeInv, TypeOK, FilesOK, ProgramOK
<1>2. ASSUME NEW n \in Names PROVE Passed(n, cursor[n], {})'
  <2>1. Passed(n, cursor[n], {}) /\ cursor[n] \in Int
    BY <1>1 DEF SkipInv
  <2>2. CASE cursor'[n] = cursor[n]
    <3>1. ASSUME NEW x \in Int, x = cursor[n] PROVE Passed(n, cursor[n], {})'
      <4>1. Passed(n, x, {})'
        BY <2>1, <3>1, PassedStays
      <4> QED BY <2>2, <3>1, <4>1
    <3> QED BY <2>1, <3>1
  <2>3. ASSUME NEW q \in Sessions, WriteCursor(q), NameOf[q] = n
        PROVE  Passed(n, cursor[n], {})'
    BY <2>3, SkipWrites
  <2>4. ASSUME NEW q \in Sessions, WriteCursor(q), NameOf[q] # n PROVE cursor'[n] = cursor[n]
    BY <1>1, <2>4 DEF WriteCursor
  <2>5. UNCHANGED cursor \/ \E q \in Sessions : WriteCursor(q)
    BY DEF Next, Step, vars, files, StartRoomCommand, StartPost, StartWait, StartRead, StartAck,
        AckMail, Acquire, SeeStale, Reclaim, GiveUp, Load, SaveRoom, Refuse, AppendLine,
        Release, CutAppend, Crash, Restart, Age
  <2> QED BY <2>2, <2>3, <2>4, <2>5
<1>3. ASSUME NEW q \in Sessions
      PROVE  /\ Passed(NameOf[q], job[q].through, job[q].batch)'
             /\ job'[q].batch # {} => job'[q].op = "wait"
  <2>1. CASE /\ job'[q].through = job[q].through /\ job'[q].batch = job[q].batch
             /\ job'[q].op = job[q].op
    <3>1. Passed(NameOf[q], job[q].through, job[q].batch) /\ job[q].through \in Int
      BY <1>1 DEF SkipInv, Jobs
    <3>2. ASSUME NEW x \in Int, x = job[q].through, NEW B, B = job[q].batch
          PROVE  Passed(NameOf[q], job[q].through, job[q].batch)'
      <4>1. Passed(NameOf[q], x, B)'
        BY <1>1, <3>1, <3>2, PassedStays
      <4> QED BY <2>1, <3>2, <4>1
    <3> QED BY <1>1, <2>1, <3>1, <3>2 DEF SkipInv
  <2>2. CASE job'[q] = NoJob
    <3>1. job'[q].through = -1 /\ job'[q].batch = {}
      BY <2>2 DEF NoJob
    <3>2. (Passed(NameOf[q], -1, {}))'
      BY NothingPassed, PassedStays, <1>1
    <3> QED BY <3>1, <3>2
  <2>3. CASE \/ StartRoomCommand(q) \/ StartPost(q) \/ StartWait(q) \/ StartRead(q)
             \/ StartAck(q)
    BY <2>3, SkipStarts
  <2>4. CASE \/ AckMail(q) \/ Acquire(q) \/ SeeStale(q) \/ Reclaim(q)
             \/ Load(q) \/ SaveRoom(q) \/ Refuse(q) \/ AppendLine(q) \/ WriteCursor(q)
             \/ CutAppend(q) \/ Restart(q)
    <3>1. \/ /\ job'[q].through = job[q].through /\ job'[q].batch = job[q].batch
             /\ job'[q].op = job[q].op
          \/ job'[q] = NoJob
      BY <1>1, <2>4 DEF AckMail, Acquire, SeeStale, Reclaim, Load, SaveRoom, Refuse,
          AppendLine, WriteCursor, CutAppend, Restart, End, Die, Jobs
    <3> QED BY <2>1, <2>2, <3>1
  <2> QED BY <2>1, <2>2, <2>3, <2>4, JobOf
<1>4. ASSUME NEW q \in Sessions, pc'[q] = "loaded", job'[q].op \in {"wait", "read", "ack"}
      PROVE  Passed(NameOf[q], job[q].num, job[q].batch)'
  <2>1. CASE pc'[q] = pc[q] /\ job'[q] = job[q]
    <3>1. Passed(NameOf[q], job[q].num, job[q].batch) /\ job[q].num \in Int
      BY <1>1, <1>4, <2>1 DEF SkipInv, Jobs
    <3>2. ASSUME NEW x \in Int, x = job[q].num, NEW B, B = job[q].batch
          PROVE  Passed(NameOf[q], job[q].num, job[q].batch)'
      <4>1. Passed(NameOf[q], x, B)'
        BY <1>1, <3>1, <3>2, PassedStays
      <4> QED BY <2>1, <3>2, <4>1
    <3> QED BY <3>1, <3>2
  <2>2. CASE Load(q)
    <3>1. job'[q].op = job[q].op
      BY <1>1, <2>2 DEF Load, Jobs
    <3> QED BY <1>4, <2>2, <3>1, SkipLoad
  <2>3. ASSUME \/ StartRoomCommand(q) \/ StartPost(q) \/ StartWait(q) \/ StartRead(q)
               \/ StartAck(q) \/ AckMail(q) \/ Acquire(q) \/ SeeStale(q) \/ Reclaim(q)
               \/ SaveRoom(q) \/ Refuse(q) \/ AppendLine(q) \/ WriteCursor(q)
               \/ CutAppend(q) \/ Restart(q)
        PROVE  FALSE
    BY <1>1, <1>4, <2>3 DEF StartRoomCommand, StartPost, StartWait, StartRead,
        StartAck, AckMail, Acquire, SeeStale, Reclaim, SaveRoom, Refuse, AppendLine,
        WriteCursor, CutAppend, Restart, End, Die
  <2> QED BY <1>4, <2>1, <2>2, <2>3, JobOf
<1> QED BY <1>2, <1>3, <1>4 DEF SkipInv

LEMMA SkipInvariant == Spec => []SkipInv
<1>1. Init => SkipInv
  <2> SUFFICES ASSUME Init PROVE SkipInv
    OBVIOUS
  <2>1. Messages = {}
    BY DEF Init, Messages, Good
  <2> QED BY <2>1, SessionsAssumption DEF Init, SkipInv, Passed, NoJob
<1> QED BY <1>1, TypeInvariant, OrderInvariant, KeptInvariant, SkipNext, PTL DEF Spec

LEMMA SkipSuffices == SkipInv => NothingSkipped
<1> SUFFICES ASSUME SkipInv, ~evicted, ~torn, NEW n \in Names, NEW m \in Messages,
                    addressed(m, n), m.seq =< cursor[n]
             PROVE  m \in settled[n] \cup lost[n] \cup InHand(n)
  BY DEF NothingSkipped
<1>1. Accounted(m, n)
  BY DEF SkipInv, Passed
<1>2. ASSUME NEW q \in Sessions, NameOf[q] = n, pc[q] = "done", m \in job[q].batch
      PROVE  m \in InHand(n)
  BY <1>2 DEF InHand, Holds, Critical
<1> QED BY <1>1, <1>2 DEF Accounted

\* However the acknowledgements, the posts and the crashes of several sessions
\* fall between each other, no mail at or below a cursor was passed over, until
\* a live process is evicted or an append cut short.
THEOREM MailNotSkipped == Spec => []NothingSkipped
BY SkipSuffices, SkipInvariant, PTL
=============================================================================
