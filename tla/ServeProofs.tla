---------------------------- MODULE ServeProofs ----------------------------
(***************************************************************************)
(* Theorems about Serve, for any number of servers, runs and other         *)
(* sessions.  The room's invariants of MailboxProofs are taken through the *)
(* steps a server adds to Mailbox's; on them rests an induction over the   *)
(* server's turn: where it is and what its command is, that no mail up to  *)
(* the end of its batch is passed over, that what it takes for an answer   *)
(* came after the batch, and that what a run has seen ends up below the    *)
(* cursor.                                                                 *)
(***************************************************************************)
EXTENDS Serve, MailboxProofs

BoxInv == TypeInv /\ MutualExclusion /\ OrderInv /\ StarInv /\ KeptInv /\ SkipInv

LEMMA BoxInit == Init => BoxInv
<1> SUFFICES ASSUME Init PROVE BoxInv
  OBVIOUS
<1>1. TypeInv
  BY TypeInit
<1>2. MutualExclusion
  BY DEF Init, MutualExclusion, Holds, Critical
<1>3. OrderInv
  BY DEF Init, OrderInv, SeqsIncrease, ViewsCurrent, JoinsDone, JoinsKept, Good
<1>4. StarInv /\ KeptInv
  BY DEF Init, StarInv, KeptInv, Messages, Good, NoJob
<1>5. SkipInv
  <2>1. Messages = {}
    BY DEF Init, Messages, Good
  <2> QED BY <2>1, SessionsAssumption DEF Init, SkipInv, Passed, NoJob
<1> QED BY <1>1, <1>2, <1>3, <1>4, <1>5 DEF BoxInv

LEMMA BoxNext == BoxInv /\ [Next]_vars => BoxInv'
<1> SUFFICES ASSUME BoxInv, [Next]_vars PROVE BoxInv'
  OBVIOUS
<1> USE DEF BoxInv
<1>1. TypeInv'
  BY TypeNext, RoomShapeNext, PostShapeNext DEF TypeInv
<1> QED BY <1>1, MutualExclusionNext, OrderNext, StarNext, KeptNext, SkipNext

-----------------------------------------------------------------------------
(* Beside Mailbox's steps a server begins a command under guards of its    *)
(* own, and it is killed while no command of its own runs.                 *)

Aside(p) ==
    /\ pc[p] = "idle"
    /\ \E state \in {"mail", "locking", "down"} : pc' = [pc EXCEPT ![p] = state]
    /\ \E command \in Jobs : /\ job' = [job EXCEPT ![p] = command]
                             /\ command.batch = {} /\ command.view = NoRoom
    /\ lock' = lock \/ (lock = p /\ lock' = Orphan)
    /\ posts' \in Nat /\ crashes' \in Nat
    /\ settled' \in [Names -> SUBSET Message]
    /\ \A n \in Names : settled[n] \subseteq settled'[n]
    /\ UNCHANGED <<files, stale, chores, evicted, torn, confirmed, joined, lost>>

\* All that the invariants ask of the rest of the room.
LEMMA AsideRest ==
    ASSUME TypeInv, NEW p \in Sessions, Aside(p)
    PROVE  /\ UNCHANGED <<room, file, open, cursor, stale, chores, evicted, torn>>
           /\ UNCHANGED <<confirmed, joined, lost>>
           /\ Good' = Good /\ Messages' = Messages
           /\ \A q \in Sessions \ {p} : pc'[q] = pc[q] /\ job'[q] = job[q]
           /\ pc[p] = "idle" /\ pc'[p] \in {"mail", "locking", "down"}
           /\ job'[p] \in Jobs /\ job'[p].batch = {} /\ job'[p].view = NoRoom
           /\ pc' \in [Sessions -> PCs] /\ job' \in [Sessions -> Jobs]
<1>1. pc \in [Sessions -> PCs] /\ job \in [Sessions -> Jobs]
  BY DEF TypeInv, TypeOK, ProgramOK
<1>2. UNCHANGED <<room, file, open, cursor, stale, chores, evicted, torn, confirmed, joined, lost>>
  BY DEF Aside, files
<1>3. Good' = Good /\ Messages' = Messages
  BY <1>2 DEF Good, Messages
<1>4. PICK state \in {"mail", "locking", "down"} : pc' = [pc EXCEPT ![p] = state]
  BY DEF Aside
<1>5. PICK command \in Jobs : /\ job' = [job EXCEPT ![p] = command]
                              /\ command.batch = {} /\ command.view = NoRoom
  BY DEF Aside
<1>6. pc[p] = "idle"
  BY DEF Aside
<1>7. state \in PCs
  BY DEF PCs
<1> QED BY <1>1, <1>2, <1>3, <1>4, <1>5, <1>6, <1>7

LEMMA AsideTypes ==
    ASSUME TypeInv, NEW p \in Sessions, Aside(p)
    PROVE  TypeInv'
<1>1. FilesOK'
  <2>1. lock' \in Sessions \cup {Free, Orphan}
    BY DEF Aside, TypeInv, TypeOK, FilesOK
  <2> QED BY <2>1, AsideRest DEF TypeInv, TypeOK, FilesOK
<1>2. ProgramOK'
  BY AsideRest DEF TypeInv, TypeOK, ProgramOK, Aside
<1>3. HistoryOK'
  BY AsideRest DEF TypeInv, TypeOK, HistoryOK, Aside
<1>4. RoomShape'
  BY AsideRest DEF TypeInv, RoomShape, NoRoom
<1>5. PostShape'
  BY AsideRest DEF TypeInv, PostShape
<1> QED BY <1>1, <1>2, <1>3, <1>4, <1>5 DEF TypeInv, TypeOK

LEMMA AsideExcludes ==
    ASSUME TypeInv, MutualExclusion, NEW p \in Sessions, Aside(p)
    PROVE  MutualExclusion'
<1>1. \A q \in Sessions : Holds(q)' => q # p /\ Holds(q)
  BY AsideRest DEF Holds, Critical
<1>2. lock' = lock \/ lock = p
  BY DEF Aside
<1> QED BY <1>1, <1>2, AsideRest DEF MutualExclusion

LEMMA AsideOrder ==
    ASSUME TypeInv, OrderInv, NEW p \in Sessions, Aside(p)
    PROVE  OrderInv'
<1>1. \A q \in Sessions : pc'[q] \in {"loaded", "done"} => pc'[q] = pc[q] /\ job'[q] = job[q]
  BY AsideRest
<1>2. SeqsIncrease' /\ JoinsKept'
  BY AsideRest DEF OrderInv, SeqsIncrease, JoinsKept
<1>3. ViewsCurrent'
  BY <1>1, AsideRest DEF OrderInv, ViewsCurrent
<1>4. JoinsDone'
  BY <1>1, AsideRest DEF OrderInv, JoinsDone
<1> QED BY <1>2, <1>3, <1>4 DEF OrderInv

LEMMA AsideStar ==
    ASSUME TypeInv, StarInv, NEW p \in Sessions, Aside(p),
           job'[p].op = "post" => Fits(NameOf[p], job'[p].to)
    PROVE  StarInv'
<1>1. \A from, to : Fits(from, to)' <=> Fits(from, to)
  BY AsideRest DEF Fits
<1>2. ASSUME ~evicted PROVE \A m \in Messages' : Fits(m.from, m.to)'
  BY <1>1, <1>2, AsideRest DEF StarInv
<1>3. ASSUME ~evicted, NEW q \in Sessions, job'[q].op = "post"
      PROVE  Fits(NameOf[q], job[q].to)'
  <2>1. Fits(NameOf[q], job'[q].to)
    BY <1>3, AsideRest DEF StarInv
  <2> QED BY <2>1, AsideRest DEF Fits
<1> QED BY <1>2, <1>3, AsideRest DEF StarInv

LEMMA AsideKept ==
    ASSUME TypeInv, KeptInv, NEW p \in Sessions, Aside(p)
    PROVE  KeptInv'
<1>1. \A q \in Sessions : pc'[q] = "done" => pc'[q] = pc[q] /\ job'[q] = job[q]
  BY AsideRest
<1>2. \A q \in Sessions : pc'[q] = "done" => Record(q)' = Record(q)
  BY <1>1 DEF Record
<1> QED BY <1>1, <1>2, AsideRest DEF KeptInv

LEMMA AsidePassed ==
    ASSUME TypeInv, NEW p \in Sessions, Aside(p), NEW n \in Names, NEW x, NEW B,
           Passed(n, x, B)
    PROVE  Passed(n, x, B)'
<1>1. ASSUME NEW m, Accounted(m, n) PROVE Accounted(m, n)'
  <2>1. settled[n] \subseteq settled'[n] /\ lost' = lost
    BY AsideRest DEF Aside
  <2>2. \A q \in Sessions : pc[q] = "done" => pc'[q] = pc[q] /\ job'[q] = job[q]
    BY AsideRest
  <2> QED BY <1>1, <2>1, <2>2 DEF Accounted
<1> QED BY <1>1, AsideRest DEF Passed

LEMMA AsideSkip ==
    ASSUME TypeInv, SkipInv, NEW p \in Sessions, Aside(p),
           ~evicted /\ ~torn => Passed(NameOf[p], job[p].through, {})'
    PROVE  SkipInv'
<1> SUFFICES ASSUME ~evicted, ~torn PROVE SkipInv'
  BY AsideRest DEF SkipInv
<1>1. ASSUME NEW n \in Names PROVE Passed(n, cursor[n], {})'
  <2>1. ASSUME NEW x, x = cursor[n] PROVE Passed(n, cursor[n], {})'
    <3>1. Passed(n, x, {})'
      BY <2>1, AsidePassed DEF SkipInv
    <3> QED BY <2>1, <3>1, AsideRest
  <2> QED BY <2>1
<1>2. ASSUME NEW q \in Sessions \ {p}
      PROVE  /\ Passed(NameOf[q], job[q].through, job[q].batch)'
             /\ pc'[q] = "loaded" /\ job'[q].op \in {"wait", "read", "ack"}
                    => Passed(NameOf[q], job[q].num, job[q].batch)'
             /\ job'[q].batch # {} => job'[q].op = "wait"
  <2>1. NameOf[q] \in Names /\ pc'[q] = pc[q] /\ job'[q] = job[q]
    BY AsideRest, SessionsAssumption
  <2>2. ASSUME NEW x, x = job[q].through, NEW B, B = job[q].batch
        PROVE  Passed(NameOf[q], job[q].through, job[q].batch)'
    <3>1. Passed(NameOf[q], x, B)'
      BY <2>1, <2>2, AsidePassed DEF SkipInv
    <3> QED BY <2>1, <2>2, <3>1
  <2>3. ASSUME NEW x, x = job[q].num, NEW B, B = job[q].batch,
               pc[q] = "loaded", job[q].op \in {"wait", "read", "ack"}
        PROVE  Passed(NameOf[q], job[q].num, job[q].batch)'
    <3>1. Passed(NameOf[q], x, B)'
      BY <2>1, <2>3, AsidePassed DEF SkipInv
    <3> QED BY <2>1, <2>3, <3>1
  <2> QED BY <2>1, <2>2, <2>3 DEF SkipInv
<1>3. /\ Passed(NameOf[p], job[p].through, job[p].batch)'
      /\ pc'[p] # "loaded" /\ job'[p].batch = {}
  <2>1. Passed(NameOf[p], job[p].through, {})' /\ job'[p].batch = {}
    BY AsideRest
  <2>2. ASSUME NEW B, B = job'[p].batch, B = {}
        PROVE  Passed(NameOf[p], job[p].through, job[p].batch)'
    BY <2>1, <2>2
  <2> QED BY <2>1, <2>2, AsideRest
<1> QED BY <1>1, <1>2, <1>3 DEF SkipInv

LEMMA AsideBox ==
    ASSUME BoxInv, NEW p \in Sessions, Aside(p),
           job'[p].op = "post" => Fits(NameOf[p], job'[p].to),
           ~evicted /\ ~torn => Passed(NameOf[p], job[p].through, {})'
    PROVE  BoxInv'
  BY AsideTypes, AsideExcludes, AsideOrder, AsideStar, AsideKept, AsideSkip DEF BoxInv

-----------------------------------------------------------------------------
(* What a server's turn needs of the room, whoever moves.                  *)

Moves == [Next]_vars \/ \E p \in Servers : Aside(p)

LEMMA MovesOn ==
    ASSUME BoxInv, Moves
    PROVE  /\ ~evicted' => ~evicted
           /\ ~torn' => ~torn /\ Messages \subseteq Messages'
           /\ ~evicted' => \A n \in Names : cursor'[n] >= cursor[n]
<1>1. CASE [Next]_vars
  BY <1>1, NotYetEvicted, NotYetTorn, WholeStep, CursorNext DEF BoxInv
<1>2. ASSUME NEW p \in Servers, Aside(p)
      PROVE  /\ evicted' = evicted /\ torn' = torn /\ Messages' = Messages
             /\ \A n \in Names : cursor'[n] >= cursor[n]
  <2>1. p \in Sessions /\ \A n \in Names : cursor[n] \in Int
    BY ServersAssumption DEF BoxInv, TypeInv, TypeOK, FilesOK
  <2> QED BY <1>2, <2>1, AsideRest DEF BoxInv
<1> QED BY <1>1, <1>2 DEF Moves

LEMMA MovesPassed ==
    ASSUME BoxInv, Moves, ~evicted', ~torn', NEW n \in Names, NEW x \in Int, NEW B,
           Passed(n, x, B)
    PROVE  Passed(n, x, B)'
<1>1. CASE [Next]_vars
  BY <1>1, PassedStays DEF BoxInv
<1>2. ASSUME NEW p \in Servers, Aside(p) PROVE Passed(n, x, B)'
  BY <1>2, AsidePassed, ServersAssumption DEF BoxInv
<1> QED BY <1>1, <1>2 DEF Moves

\* Nothing in a batch is past the seq that acknowledges it.
LEMMA BatchBelow ==
    ASSUME TypeInv, SeqsIncrease, ~evicted, NEW n \in Names
    PROVE  \A m \in unread(n) : m.seq =< BatchEnd(n)
<1> DEFINE mine == {i \in Good : file[i] \in unread(n)}
<1> SUFFICES ASSUME NEW m \in unread(n) PROVE m.seq =< BatchEnd(n)
  OBVIOUS
<1>1. Good \in SUBSET (1 .. Len(file)) /\ Len(file) \in Nat
  BY ReadingTyped DEF TypeInv
<1>2. PICK i \in mine : file[i] = m
  BY DEF unread, Messages
<1>3. mine \in SUBSET (1 .. Len(file)) /\ mine # {} /\ mine \subseteq Good
  BY <1>1, <1>2
<1>4. \A k \in Good : file[k].seq \in Int
  BY ReadingTyped DEF Messages, TypeInv, Message
<1>5. BatchEnd(n) = file[LastOf(mine)].seq
  BY DEF BatchEnd
<1> HIDE DEF mine
<1>6. LastOf(mine) \in mine /\ i =< LastOf(mine)
  BY <1>1, <1>2, <1>3, LastOfIn
<1>7. i = LastOf(mine) \/ i < LastOf(mine)
  <2>1. i \in mine /\ \A k \in mine : k \in Int
    BY <1>1, <1>2, <1>3
  <2>2. i \in Int /\ LastOf(mine) \in Int
    BY <1>6, <2>1
  <2> QED BY <1>6, <2>2
<1>8. file[i].seq =< file[LastOf(mine)].seq
  <2>1. i \in Good /\ LastOf(mine) \in Good
    BY <1>2, <1>3, <1>6
  <2>2. file[i].seq \in Int /\ file[LastOf(mine)].seq \in Int
    BY <1>4, <2>1
  <2>3. i < LastOf(mine) => file[i].seq < file[LastOf(mine)].seq
    BY <2>1 DEF SeqsIncrease
  <2> QED BY <1>7, <2>2, <2>3
<1> QED BY <1>2, <1>5, <1>8

\* post's check of sender and recipient.
LEMMA Allowed ==
    ASSUME TypeInv, NEW n \in Names, NEW to \in Recipients(n)
    PROVE  to \in Names \cup {All} /\ Fits(n, to)
<1>1. room \in Rooms /\ (room.boss = NoBoss => room.members = {})
  BY DEF TypeInv, TypeOK, FilesOK, RoomShape
<1> QED BY <1>1 DEF Recipients, Fits, Rooms

-----------------------------------------------------------------------------
(* The server's turn.                                                      *)

ServeTypes ==
    /\ at \in [Servers -> {"off", "poll", "spawn", "run", "ack", "check", "post"}]
    /\ bossAt \in [Servers -> Names \cup {NoBoss}]
    /\ batch \in [Servers -> SUBSET Message] /\ handed \in [Servers -> SUBSET Message]
    /\ through \in [Servers -> Int] /\ last \in [Servers -> Int]
    /\ seen \in [Servers -> BOOLEAN]
    /\ answered \in [Servers -> SUBSET Int]
    /\ broken \in BOOLEAN /\ fails \in Nat

\* Where a server is tells which command it is in.
Placed(s) ==
    /\ at[s] \in {"poll", "spawn", "run", "check"} => pc[s] = "idle"
    /\ at[s] = "ack" => /\ pc[s] \notin {"idle", "down"}
                        /\ job[s].op = "read" /\ job[s].through = through[s]
    /\ at[s] = "post" => /\ pc[s] \notin {"idle", "down", "mail"}
                         /\ job[s].op = "post"

\* Its batch is all that has come for it up to the seq it will acknowledge.
BatchKept(s) ==
    ~evicted /\ ~torn /\ at[s] \in {"spawn", "run", "ack"} =>
        /\ batch[s] # {} /\ batch[s] \subseteq Messages
        /\ Passed(Me(s), through[s], batch[s])
        /\ \A m \in batch[s] : m.seq =< through[s]

\* What it posts itself comes after the last it read, as an answer has to.
AnswerComes(s) ==
    ~evicted /\ ~torn =>
        /\ at[s] \in {"run", "ack", "check", "post"} => \E m \in Messages : last[s] =< m.seq
        /\ at[s] = "post" /\ pc[s] \in {"loaded", "done"} => job[s].num > last[s]
        /\ \A seq \in answered[s] : \E m \in Messages : m.from = Me(s) /\ m.seq > seq

\* What a run has seen is acknowledged, or is of the turn that goes on.
SeenAcked(s) ==
    ~evicted /\ ~torn /\ ~broken =>
        /\ at[s] = "spawn" \/ (at[s] = "run" /\ ~seen[s]) => batch[s] \cap handed[s] = {}
        /\ \A m \in handed[s] :
               \/ m.seq =< cursor[Me(s)]
               \/ (at[s] = "ack" \/ (at[s] = "run" /\ seen[s])) /\ m.seq =< through[s]
        /\ at[s] = "ack" /\ pc[s] = "loaded" => job[s].num >= through[s]
        /\ at[s] = "ack" /\ pc[s] = "done" => cursor[Me(s)] >= through[s]

ServeInv ==
    /\ BoxInv /\ ServeTypes
    /\ \A s \in Servers : Placed(s) /\ BatchKept(s) /\ AnswerComes(s) /\ SeenAcked(s)

-----------------------------------------------------------------------------
\* the steps of a server that move its turn
Acts(s) ==
    \/ StartServe(s) \/ TakeMail(s) \/ Spawn(s) \/ RunStarts(s) \/ RunExits(s)
    \/ CheckAnswer(s) \/ ServeStep(s) \/ KillServer(s)

\* a server that another actor's step leaves where it is
Quiet(s) ==
    /\ at'[s] = at[s] /\ bossAt'[s] = bossAt[s]
    /\ batch'[s] = batch[s] /\ through'[s] = through[s]
    /\ last'[s] = last[s] /\ seen'[s] = seen[s]
    /\ handed'[s] = handed[s] /\ answered'[s] = answered[s]
    /\ at[s] = "off" \/ (pc'[s] = pc[s] /\ job'[s] = job[s])

\* A step of one session leaves the command of another alone.
LEMMA OthersWait ==
    ASSUME TypeInv, NEW p \in Sessions, NEW q \in Sessions \ {p},
           \/ StartRoomCommand(p) \/ StartPost(p) \/ StartWait(p) \/ Step(p)
           \/ CutAppend(p) \/ Crash(p) \/ Restart(p) \/ Die(p) \/ Aside(p)
    PROVE  pc'[q] = pc[q] /\ job'[q] = job[q]
<1>1. pc \in [Sessions -> PCs] /\ job \in [Sessions -> Jobs]
  BY DEF TypeInv, TypeOK, ProgramOK
<1> QED BY <1>1 DEF Step, StartRoomCommand, StartPost, StartWait,
      AckMail, Acquire, SeeStale, Reclaim, GiveUp, Load, SaveRoom, Refuse, AppendLine,
      WriteCursor, Release, CutAppend, Crash, Restart, Begin, End, Die, Aside

\* A server takes up the acknowledgement of a batch that its run has seen.
LEMMA AckAside ==
    ASSUME ServeInv, NEW s \in Servers, at[s] = "run", seen[s], StartServeAck(s)
    PROVE  /\ Aside(s) /\ BoxInv'
           /\ job'[s].op = "read" /\ job'[s].through = through[s]
           /\ pc'[s] = "mail"
<1> DEFINE n == Me(s)
<1>1. /\ s \in Sessions /\ n \in Names /\ batch[s] \in SUBSET Message /\ through[s] \in Int
      /\ TypeInv /\ BoxInv
  BY ServersAssumption, SessionsAssumption DEF ServeInv, ServeTypes, BoxInv, Me
<1>2. /\ pc \in [Sessions -> PCs] /\ job \in [Sessions -> Jobs]
      /\ settled \in [Names -> SUBSET Message] /\ posts \in Nat /\ crashes \in Nat
  BY <1>1 DEF TypeInv, TypeOK, ProgramOK, HistoryOK
<1>3. pc[s] = "idle"
  BY DEF ServeInv, Placed
<1> DEFINE command == [NoJob EXCEPT !.op = "read", !.through = through[s]]
<1>4. /\ command \in Jobs /\ command.batch = {} /\ command.view = NoRoom
      /\ command.op = "read" /\ command.through = through[s]
  BY <1>1, NoJobTyped DEF NoJob, Jobs, Commands
<1>5. job' = [job EXCEPT ![s] = command] /\ pc' = [pc EXCEPT ![s] = "mail"]
  BY DEF StartServeAck, Begin
<1> HIDE DEF command
<1>6. settled' = [settled EXCEPT ![n] = @ \cup batch[s]]
  BY DEF StartServeAck
<1>7. /\ settled' \in [Names -> SUBSET Message]
      /\ \A k \in Names : settled[k] \subseteq settled'[k]
      /\ batch[s] \subseteq settled'[n]
  BY <1>1, <1>2, <1>6
<1>8. Aside(s)
  <2>1. UNCHANGED <<files, stale, chores, evicted, torn, confirmed, joined, lost>>
    BY DEF StartServeAck, locking, bounds
  <2>2. lock' = lock /\ posts' = posts /\ crashes' = crashes
    BY DEF StartServeAck, locking, bounds
  <2> QED BY <1>2, <1>3, <1>4, <1>5, <1>7, <2>1, <2>2 DEF Aside
<1>9. job'[s].op = "read" /\ job'[s].through = through[s] /\ pc'[s] = "mail"
  BY <1>1, <1>2, <1>4, <1>5
<1>10. ASSUME ~evicted, ~torn PROVE Passed(NameOf[s], job[s].through, {})'
  <2>1. Passed(n, through[s], batch[s])
    BY <1>10 DEF ServeInv, BatchKept
  <2>2. ASSUME NEW x \in Int, x = through[s], NEW B, B = batch[s]
        PROVE  Passed(NameOf[s], job[s].through, {})'
    <3>1. Passed(n, x, B)'
      BY <1>1, <1>8, <2>1, <2>2, AsidePassed
    <3>2. \A m : m \in B => Accounted(m, n)'
      BY <1>7, <2>2 DEF Accounted
    <3>3. Passed(n, x, {})'
      BY <3>1, <3>2 DEF Passed
    <3> QED BY <1>9, <2>2, <3>3 DEF Me
  <2> QED BY <1>1, <2>2
<1>11. BoxInv'
  BY <1>1, <1>8, <1>9, <1>10, AsideBox
<1> QED BY <1>8, <1>9, <1>11

LEMMA StatusAside ==
    ASSUME ServeInv, NEW s \in Servers, at[s] = "check", StartStatus(s),
           StatusTo(s) \in Recipients(Me(s))
    PROVE  /\ Aside(s) /\ BoxInv'
           /\ job'[s].op = "post" /\ pc'[s] = "locking"
<1>1. /\ s \in Sessions /\ Me(s) \in Names /\ TypeInv /\ BoxInv
  BY ServersAssumption, SessionsAssumption DEF ServeInv, BoxInv, Me
<1>2. /\ pc \in [Sessions -> PCs] /\ job \in [Sessions -> Jobs]
      /\ settled \in [Names -> SUBSET Message] /\ posts \in Nat /\ crashes \in Nat
  BY <1>1 DEF TypeInv, TypeOK, ProgramOK, HistoryOK
<1>3. pc[s] = "idle"
  BY DEF ServeInv, Placed
<1>4. StatusTo(s) \in Names \cup {All} /\ Fits(Me(s), StatusTo(s))
  BY <1>1, Allowed
<1> DEFINE command == [NoJob EXCEPT !.op = "post", !.to = StatusTo(s), !.text = posts]
<1>5. /\ command \in Jobs /\ command.batch = {} /\ command.view = NoRoom
      /\ command.op = "post" /\ command.to = StatusTo(s) /\ command.through = -1
  BY <1>2, <1>4, NoJobTyped DEF NoJob, Jobs, Commands
<1>6. job' = [job EXCEPT ![s] = command] /\ pc' = [pc EXCEPT ![s] = "locking"]
  BY DEF StartStatus, Begin
<1> HIDE DEF command
<1>7. Aside(s)
  <2>1. /\ UNCHANGED <<files, stale, chores, evicted, torn, confirmed, joined, lost>>
        /\ lock' = lock /\ posts' = posts + 1 /\ crashes' = crashes /\ settled' = settled
    BY DEF StartStatus, locking, history
  <2>2. posts' \in Nat /\ crashes' \in Nat /\ settled' \in [Names -> SUBSET Message]
    BY <1>2, <2>1
  <2>3. \A k \in Names : settled[k] \subseteq settled'[k]
    BY <2>1
  <2> QED BY <1>3, <1>5, <1>6, <2>1, <2>2, <2>3 DEF Aside
<1>8. /\ job'[s].op = "post" /\ job'[s].to = StatusTo(s) /\ job'[s].through = -1
      /\ pc'[s] = "locking"
  BY <1>1, <1>2, <1>5, <1>6
<1>9. Passed(NameOf[s], job[s].through, {})'
  <2>1. Passed(NameOf[s], -1, {})'
    <3>1. Passed(NameOf[s], -1, {})
      BY <1>1, NothingPassed
    <3> QED BY <1>1, <1>7, <3>1, AsidePassed DEF Me
  <2>2. ASSUME NEW x, x = job'[s].through, x = -1
        PROVE  Passed(NameOf[s], job[s].through, {})'
    BY <2>1, <2>2
  <2> QED BY <1>8, <2>2
<1>10. Fits(NameOf[s], job'[s].to)
  BY <1>4, <1>8 DEF Me
<1>11. BoxInv'
  BY <1>1, <1>7, <1>9, <1>10, AsideBox
<1> QED BY <1>7, <1>8, <1>11

LEMMA KillAside ==
    ASSUME ServeInv, NEW s \in Servers, at[s] \in {"poll", "spawn", "run", "check"},
           Die(s), crashes' = crashes + 1,
           UNCHANGED <<files, stale, posts, chores, history>>
    PROVE  Aside(s) /\ BoxInv'
<1>1. /\ s \in Sessions /\ NameOf[s] \in Names /\ TypeInv /\ BoxInv
  BY ServersAssumption, SessionsAssumption DEF ServeInv, BoxInv
<1>2. /\ pc \in [Sessions -> PCs] /\ job \in [Sessions -> Jobs]
      /\ settled \in [Names -> SUBSET Message] /\ posts \in Nat /\ crashes \in Nat
  BY <1>1 DEF TypeInv, TypeOK, ProgramOK, HistoryOK
<1>3. pc[s] = "idle"
  BY DEF ServeInv, Placed
<1>4. NoJob \in Jobs /\ NoJob.batch = {} /\ NoJob.view = NoRoom /\ NoJob.op # "post" /\ NoJob.through = -1
  BY NoJobTyped DEF NoJob
<1>5. Aside(s)
  <2>1. /\ UNCHANGED <<files, stale, chores, evicted, torn, confirmed, joined, lost>>
        /\ posts' \in Nat /\ crashes' \in Nat /\ settled' = settled
    BY <1>2 DEF history
  <2>2. settled' \in [Names -> SUBSET Message] /\ \A k \in Names : settled[k] \subseteq settled'[k]
    BY <1>2, <2>1
  <2>3. /\ pc' = [pc EXCEPT ![s] = "down"] /\ job' = [job EXCEPT ![s] = NoJob]
        /\ lock' = lock \/ (lock = s /\ lock' = Orphan)
    BY DEF Die
  <2> HIDE DEF NoJob
  <2> QED BY <1>3, <1>4, <2>1, <2>2, <2>3 DEF Aside
<1>6. job'[s] = NoJob
  BY <1>1, <1>2 DEF Die
<1>7. Passed(NameOf[s], job[s].through, {})'
  <2>1. Passed(NameOf[s], -1, {})'
    <3>1. Passed(NameOf[s], -1, {})
      BY <1>1, NothingPassed
    <3> QED BY <1>1, <1>5, <3>1, AsidePassed
  <2>2. ASSUME NEW x, x = job'[s].through, x = -1
        PROVE  Passed(NameOf[s], job[s].through, {})'
    BY <2>1, <2>2
  <2> QED BY <1>4, <1>6, <2>2
<1> QED BY <1>1, <1>4, <1>5, <1>6, <1>7, AsideBox

-----------------------------------------------------------------------------
\* What a server's step is to the room: a step of Mailbox, or one beside it.
LEMMA ActsMove ==
    ASSUME ServeInv, NEW s \in Servers, Acts(s)
    PROVE  BoxInv' /\ Moves
<1>1. s \in Sessions /\ BoxInv
  BY ServersAssumption DEF ServeInv
<1>2. ASSUME UNCHANGED vars PROVE BoxInv' /\ Moves
  BY <1>1, <1>2, BoxNext DEF Moves
<1>3. ASSUME Step(s) \/ Crash(s) \/ CutAppend(s) PROVE BoxInv' /\ Moves
  <2>1. [Next]_vars
    BY <1>1, <1>3 DEF Next
  <2> QED BY <1>1, <2>1, BoxNext DEF Moves
<1>4. ASSUME StartServe(s) \/ TakeMail(s) \/ Spawn(s) \/ RunStarts(s) PROVE UNCHANGED vars
  BY <1>4 DEF StartServe, TakeMail, Spawn, RunStarts
<1>5. ASSUME RunExits(s) PROVE UNCHANGED vars \/ (Aside(s) /\ BoxInv')
  <2>1. at[s] = "run" /\ (UNCHANGED vars \/ (seen[s] /\ StartServeAck(s)))
    BY <1>5 DEF RunExits, DidRun
  <2> QED BY <2>1, AckAside
<1>6. ASSUME CheckAnswer(s) PROVE UNCHANGED vars \/ (Aside(s) /\ BoxInv')
  BY <1>6, StatusAside DEF CheckAnswer
<1>7. ASSUME ServeStep(s) PROVE Step(s)
  BY <1>7 DEF ServeStep
<1>8. ASSUME KillServer(s) PROVE Crash(s) \/ CutAppend(s) \/ (Aside(s) /\ BoxInv')
  BY <1>8, KillAside DEF KillServer
<1> QED BY <1>2, <1>3, <1>4, <1>5, <1>6, <1>7, <1>8 DEF Acts, Moves

\* It leaves the other servers where they are.
LEMMA OthersQuiet ==
    ASSUME ServeInv, NEW s \in Servers, Acts(s), NEW t \in Servers \ {s}
    PROVE  Quiet(t)
<1>1. s \in Sessions /\ t \in Sessions \ {s} /\ TypeInv
  BY ServersAssumption DEF ServeInv, BoxInv
<1>2. pc'[t] = pc[t] /\ job'[t] = job[t]
  <2>1. \/ UNCHANGED vars
        \/ Step(s) \/ Crash(s) \/ CutAppend(s) \/ Die(s)
        \/ StartServeAck(s) \/ StartStatus(s)
    BY DEF Acts, StartServe, TakeMail, Spawn, RunStarts, RunExits, CheckAnswer, ServeStep,
        KillServer
  <2>2. ASSUME StartServeAck(s) \/ StartStatus(s) PROVE pc'[t] = pc[t] /\ job'[t] = job[t]
    <3>1. pc \in [Sessions -> PCs] /\ job \in [Sessions -> Jobs]
      BY <1>1 DEF TypeInv, TypeOK, ProgramOK
    <3> QED BY <1>1, <2>2, <3>1 DEF StartServeAck, StartStatus, Begin
  <2>3. CASE UNCHANGED vars
    BY <2>3 DEF vars
  <2> QED BY <1>1, <2>1, <2>2, <2>3, OthersWait
<1>3. /\ at'[t] = at[t] /\ bossAt'[t] = bossAt[t]
      /\ answered'[t] = answered[t]
  <2>1. /\ at' = at \/ \E x : at' = [at EXCEPT ![s] = x]
        /\ bossAt' = bossAt \/ \E x : bossAt' = [bossAt EXCEPT ![s] = x]
        /\ answered' = answered \/ \E x : answered' = [answered EXCEPT ![s] = x]
    BY DEF Acts, StartServe, TakeMail, Spawn, RunStarts, RunExits, CheckAnswer, ServeStep,
        KillServer, Return, Break, Goto, past
  <2> QED BY <2>1 DEF ServeInv, ServeTypes
<1>4. /\ batch'[t] = batch[t] /\ through'[t] = through[t]
      /\ last'[t] = last[t] /\ seen'[t] = seen[t] /\ handed'[t] = handed[t]
  <2>1. /\ batch' = batch \/ \E x : batch' = [batch EXCEPT ![s] = x]
        /\ through' = through \/ \E x : through' = [through EXCEPT ![s] = x]
        /\ last' = last \/ \E x : last' = [last EXCEPT ![s] = x]
        /\ seen' = seen \/ \E x : seen' = [seen EXCEPT ![s] = x]
        /\ handed' = handed \/ \E x : handed' = [handed EXCEPT ![s] = x]
    BY DEF Acts, StartServe, TakeMail, Spawn, RunStarts, RunExits, CheckAnswer, ServeStep,
        KillServer, turn, past
  <2> QED BY <2>1 DEF ServeInv, ServeTypes
<1> QED BY <1>2, <1>3, <1>4 DEF Quiet

\* Every other step leaves them all, but for the room commands and the restart
\* of a session where no server runs.
LEMMA WhoMoves ==
    ASSUME ServeInv, [ServeNext]_allvars
    PROVE  /\ BoxInv' /\ Moves
           /\ \/ UNCHANGED serving /\ \A t \in Servers : Quiet(t)
              \/ \E s \in Servers : Acts(s)
<1>1. TypeInv /\ BoxInv /\ Servers \subseteq Sessions
  BY ServersAssumption DEF ServeInv, BoxInv
<1>2. ASSUME NEW p \in Sessions,
             \/ StartRoomCommand(p) \/ StartPost(p) \/ StartWait(p) \/ Step(p)
             \/ CutAppend(p) \/ Crash(p) \/ Restart(p),
             p \in Servers => at[p] = "off", UNCHANGED serving
      PROVE  BoxInv' /\ Moves /\ \A t \in Servers : Quiet(t)
  <2>1. [Next]_vars
    BY <1>2 DEF Next
  <2>2. \A t \in Servers \ {p} : pc'[t] = pc[t] /\ job'[t] = job[t]
    BY <1>1, <1>2, OthersWait
  <2> QED BY <1>1, <1>2, <2>1, <2>2, BoxNext DEF Moves, Quiet, serving, turn, past
<1>3. CASE (Age /\ UNCHANGED serving) \/ UNCHANGED allvars
  <2>1. [Next]_vars /\ UNCHANGED <<pc, job>> /\ UNCHANGED serving
    BY <1>3 DEF Next, Age, allvars, vars
  <2> QED BY <1>1, <2>1, BoxNext DEF Moves, Quiet, serving, turn, past
<1>4. ASSUME NEW p \in Runs, RunNext(p), UNCHANGED serving
      PROVE  BoxInv' /\ Moves /\ \A t \in Servers : Quiet(t)
  <2>1. p \in Sessions /\ p \notin Servers
    BY ServersAssumption DEF Runs
  <2> QED BY <1>2, <1>4, <2>1 DEF RunNext
<1>5. ASSUME NEW p \in Plain, PlainNext(p), UNCHANGED serving
      PROVE  BoxInv' /\ Moves /\ \A t \in Servers : Quiet(t)
  <2>1. p \in Sessions /\ p \notin Servers
    BY DEF Plain
  <2> QED BY <1>2, <1>5, <2>1 DEF PlainNext, RunNext
<1>6. ASSUME NEW s \in Servers, RunPosts(s)
      PROVE  UNCHANGED serving /\ BoxInv' /\ Moves /\ \A t \in Servers : Quiet(t)
  <2>1. RunOf[s] \in Sessions /\ RunOf[s] \notin Servers
    BY ServersAssumption
  <2> QED BY <1>2, <1>6, <2>1 DEF RunPosts
<1>7. ASSUME NEW s \in Servers, Restart(s), UNCHANGED serving
      PROVE  BoxInv' /\ Moves /\ \A t \in Servers : Quiet(t)
  <2>1. at[s] = "off"
    BY <1>7 DEF Restart, ServeInv, Placed, ServeTypes
  <2> QED BY <1>1, <1>2, <1>7, <2>1
<1>8. ASSUME NEW s \in Servers, at[s] = "off", StartRoomCommand(s), UNCHANGED serving
      PROVE  BoxInv' /\ Moves /\ \A t \in Servers : Quiet(t)
  BY <1>1, <1>2, <1>8
<1>9. ASSUME NEW s \in Servers, Acts(s) PROVE BoxInv' /\ Moves
  BY <1>9, ActsMove
<1> QED BY <1>3, <1>4, <1>5, <1>6, <1>7, <1>8, <1>9 DEF ServeNext, ServerNext, Acts

-----------------------------------------------------------------------------
(* What a turn keeps, whoever moves.                                       *)

\* Values and bounds that every step below reads.
LEMMA TurnTyped ==
    ASSUME ServeInv, NEW s \in Servers
    PROVE  /\ s \in Sessions /\ Me(s) \in Names /\ BoxInv /\ TypeInv /\ TypeOK
           /\ Placed(s) /\ BatchKept(s) /\ AnswerComes(s) /\ SeenAcked(s)
           /\ through[s] \in Int /\ last[s] \in Int /\ answered[s] \subseteq Int
           /\ batch[s] \subseteq Message /\ handed[s] \subseteq Message
           /\ seen[s] \in BOOLEAN /\ broken \in BOOLEAN
           /\ bossAt[s] \in Names \cup {NoBoss}
           /\ at[s] \in {"off", "poll", "spawn", "run", "ack", "check", "post"}
           /\ cursor \in [Names -> Int] /\ cursor[Me(s)] \in Int
           /\ pc \in [Sessions -> PCs] /\ job \in [Sessions -> Jobs]
           /\ job[s].num \in Int /\ job[s].through \in Int
           /\ Messages \subseteq Message
           /\ \A m \in Message : m.seq \in Nat /\ m.seq \in Int
<1>1. s \in Sessions /\ Me(s) \in Names /\ TypeOK
  BY ServersAssumption, SessionsAssumption DEF ServeInv, BoxInv, TypeInv, Me
<1>2. /\ cursor \in [Names -> Int] /\ cursor[Me(s)] \in Int
      /\ pc \in [Sessions -> PCs] /\ job \in [Sessions -> Jobs]
      /\ job[s].num \in Int /\ job[s].through \in Int
  BY <1>1 DEF TypeOK, FilesOK, ProgramOK, Jobs
<1>3. Messages \subseteq Message /\ \A m \in Message : m.seq \in Nat /\ m.seq \in Int
  BY <1>1, ReadingTyped DEF Message
<1>4. /\ BoxInv /\ TypeInv
      /\ Placed(s) /\ BatchKept(s) /\ AnswerComes(s) /\ SeenAcked(s)
  BY DEF ServeInv, BoxInv
<1> HIDE DEF Message
<1>5. /\ through[s] \in Int /\ last[s] \in Int /\ answered[s] \subseteq Int
      /\ batch[s] \subseteq Message /\ handed[s] \subseteq Message
      /\ seen[s] \in BOOLEAN /\ broken \in BOOLEAN
      /\ bossAt[s] \in Names \cup {NoBoss}
      /\ at[s] \in {"off", "poll", "spawn", "run", "ack", "check", "post"}
  BY DEF ServeInv, ServeTypes
<1> QED BY <1>1, <1>2, <1>3, <1>4, <1>5

\* What a batch is survives as long as it is the batch.
LEMMA BatchStays ==
    ASSUME ServeInv, Moves, NEW s \in Servers,
           at'[s] \in {"spawn", "run", "ack"} => /\ at[s] \in {"spawn", "run", "ack"}
                                                 /\ batch'[s] = batch[s] /\ through'[s] = through[s]
    PROVE  BatchKept(s)'
<1> SUFFICES ASSUME ~evicted', ~torn', at'[s] \in {"spawn", "run", "ack"}
             PROVE  /\ batch'[s] # {} /\ batch'[s] \subseteq Messages'
                    /\ Passed(Me(s), through[s], batch[s])'
                    /\ \A m \in batch'[s] : m.seq =< through'[s]
  BY DEF BatchKept
<1>1. ~evicted /\ ~torn /\ Messages \subseteq Messages'
  BY TurnTyped, MovesOn
<1>2. /\ batch[s] # {} /\ batch[s] \subseteq Messages
      /\ Passed(Me(s), through[s], batch[s])
      /\ \A m \in batch[s] : m.seq =< through[s]
  BY <1>1, TurnTyped DEF BatchKept
<1>3. ASSUME NEW x \in Int, x = through[s], NEW B, B = batch[s]
      PROVE  Passed(Me(s), through[s], batch[s])'
  <2>1. Passed(Me(s), x, B)'
    BY <1>2, <1>3, TurnTyped, MovesPassed
  <2> QED BY <1>3, <2>1 DEF Me
<1> QED BY <1>1, <1>2, <1>3, TurnTyped

\* So do the message that was last, and the answers.
LEMMA AnswersStay ==
    ASSUME ServeInv, Moves, NEW s \in Servers, answered'[s] = answered[s],
           at'[s] \in {"run", "ack", "check", "post"} =>
               at[s] \in {"run", "ack", "check", "post"} /\ last'[s] = last[s],
           ~evicted /\ ~torn /\ at'[s] = "post" /\ pc'[s] \in {"loaded", "done"} =>
               job'[s].num > last[s]
    PROVE  AnswerComes(s)'
<1> SUFFICES ASSUME ~evicted', ~torn'
             PROVE  /\ at'[s] \in {"run", "ack", "check", "post"}
                          => \E m \in Messages' : last'[s] =< m.seq
                    /\ at'[s] = "post" /\ pc'[s] \in {"loaded", "done"}
                          => job'[s].num > last'[s]
                    /\ \A seq \in answered'[s] :
                           \E m \in Messages' : m.from = Me(s) /\ m.seq > seq
  BY DEF AnswerComes, Me
<1>1. ~evicted /\ ~torn /\ Messages \subseteq Messages'
  BY TurnTyped, MovesOn
<1>2. /\ at[s] \in {"run", "ack", "check", "post"} => \E m \in Messages : last[s] =< m.seq
      /\ \A seq \in answered[s] : \E m \in Messages : m.from = Me(s) /\ m.seq > seq
  BY <1>1, TurnTyped DEF AnswerComes
<1> QED BY <1>1, <1>2

\* And the mail that a run has seen, wherever the cursor goes.
LEMMA HandedStays ==
    ASSUME ServeInv, BoxInv', Moves, NEW s \in Servers, ~evicted', ~torn', ~broken,
           NEW m \in handed[s]
    PROVE  \/ m.seq =< cursor'[Me(s)]
           \/ (at[s] = "ack" \/ (at[s] = "run" /\ seen[s])) /\ m.seq =< through[s]
<1>1. ~evicted /\ ~torn /\ cursor'[Me(s)] >= cursor[Me(s)]
  BY TurnTyped, MovesOn
<1>2. cursor'[Me(s)] \in Int
  BY TurnTyped DEF BoxInv, TypeInv, TypeOK, FilesOK
<1>3. m.seq \in Int
  BY TurnTyped
<1>4. \/ m.seq =< cursor[Me(s)]
      \/ (at[s] = "ack" \/ (at[s] = "run" /\ seen[s])) /\ m.seq =< through[s]
  BY <1>1, TurnTyped DEF SeenAcked
<1> QED BY <1>1, <1>2, <1>3, <1>4, TurnTyped

-----------------------------------------------------------------------------
(* The turn of a server that another actor's step leaves where it is.      *)

LEMMA BrokenStays ==
    ASSUME ServeInv, NEW s \in Servers, Acts(s), ~broken'
    PROVE  ~broken
  BY DEF Acts, StartServe, TakeMail, Spawn, RunStarts, RunExits, CheckAnswer, ServeStep,
      KillServer, Break, past, ServeInv, ServeTypes

\* What becomes of a server, of its turn, in one formula.
TurnKept(s) == Placed(s) /\ BatchKept(s) /\ AnswerComes(s) /\ SeenAcked(s)

LEMMA QuietStays ==
    ASSUME ServeInv, BoxInv', Moves, ~broken' => ~broken, NEW s \in Servers, Quiet(s)
    PROVE  TurnKept(s)'
<1>1. Placed(s)'
  BY TurnTyped DEF Quiet, Placed
<1>2. BatchKept(s)'
  BY BatchStays DEF Quiet
<1>3. AnswerComes(s)'
  BY AnswersStay, TurnTyped DEF Quiet, AnswerComes
<1>4. SeenAcked(s)'
  <2> SUFFICES ASSUME ~evicted', ~torn', ~broken' PROVE SeenAcked(s)'
    BY DEF SeenAcked
  <2>1. ~evicted /\ ~torn /\ ~broken /\ cursor'[Me(s)] >= cursor[Me(s)]
    BY TurnTyped, MovesOn
  <2>2. /\ at[s] = "spawn" \/ (at[s] = "run" /\ ~seen[s]) => batch[s] \cap handed[s] = {}
        /\ at[s] = "ack" /\ pc[s] = "loaded" => job[s].num >= through[s]
        /\ at[s] = "ack" /\ pc[s] = "done" => cursor[Me(s)] >= through[s]
    BY <2>1, TurnTyped DEF SeenAcked
  <2>3. cursor'[Me(s)] \in Int
    BY TurnTyped DEF BoxInv, TypeInv, TypeOK, FilesOK
  <2>4. at[s] = "ack" /\ pc[s] = "done" => cursor'[Me(s)] >= through[s]
    BY <2>1, <2>2, <2>3, TurnTyped
  <2>5. \A m \in handed[s] :
            \/ m.seq =< cursor'[Me(s)]
            \/ (at[s] = "ack" \/ (at[s] = "run" /\ seen[s])) /\ m.seq =< through[s]
    BY <2>1, HandedStays
  <2> QED BY <2>2, <2>4, <2>5 DEF Quiet, SeenAcked, Me
<1> QED BY <1>1, <1>2, <1>3, <1>4 DEF TurnKept

-----------------------------------------------------------------------------
(* The turn of the server that moves.                                      *)

LEMMA TypesStay ==
    ASSUME ServeInv, NEW s \in Servers, Acts(s)
    PROVE  ServeTypes'
<1> USE DEF ServeTypes, Goto
<1>1. ServeTypes /\ TypeOK /\ Me(s) \in Names
  BY TurnTyped DEF ServeInv
<1>2. CASE StartServe(s)
  <2>1. room.boss \in Names \cup {NoBoss}
    BY <1>1 DEF TypeOK, FilesOK, Rooms
  <2> QED BY <1>1, <1>2, <2>1 DEF StartServe, turn, past
<1>3. CASE TakeMail(s)
  <2>1. unread(Me(s)) \in SUBSET Message /\ Through(s) \in Int
    BY <1>1, <1>3, ReadingTyped DEF TakeMail, Through
  <2> QED BY <1>1, <1>3, <2>1 DEF TakeMail, past
<1>4. CASE Spawn(s)
  <2>1. (IF Good = {} THEN -1 ELSE LastSeq) \in Int
    BY <1>1, ReadingTyped
  <2> QED BY <1>1, <1>4, <2>1 DEF Spawn, past
<1>5. CASE RunStarts(s)
  BY <1>1, <1>5 DEF RunStarts
<1>6. CASE RunExits(s)
  BY <1>1, <1>6 DEF RunExits, turn, past
<1>7. ASSUME Break(s)
      PROVE  /\ at' \in [Servers -> {"off", "poll", "spawn", "run", "ack", "check", "post"}]
             /\ bossAt' \in [Servers -> Names \cup {NoBoss}]
             /\ answered' \in [Servers -> SUBSET Int] /\ broken' \in BOOLEAN
  BY <1>1, <1>7 DEF Break
<1>8. CASE CheckAnswer(s)
  <2>1. CASE Break(s)
    BY <1>1, <1>7, <1>8, <2>1 DEF CheckAnswer, turn
  <2>2. CASE ~ Break(s)
    BY <1>1, <1>8, <2>2 DEF CheckAnswer, turn
  <2> QED BY <2>1, <2>2
<1>9. CASE ServeStep(s)
  <2>1. CASE Break(s)
    BY <1>1, <1>7, <1>9, <2>1 DEF ServeStep, turn
  <2>2. CASE ~ Break(s)
    BY <1>1, <1>9, <2>2 DEF ServeStep, Return, turn
  <2> QED BY <2>1, <2>2
<1>10. CASE KillServer(s)
  <2>1. CASE Break(s)
    BY <1>1, <1>7, <1>10, <2>1 DEF KillServer, turn
  <2>2. CASE ~ Break(s)
    BY <1>1, <1>10, <2>2 DEF KillServer, turn
  <2> QED BY <2>1, <2>2
<1> QED BY <1>2, <1>3, <1>4, <1>5, <1>6, <1>8, <1>9, <1>10 DEF Acts

LEMMA AfterBreak ==
    ASSUME ServeInv, BoxInv', Moves, NEW s \in Servers, Break(s), UNCHANGED <<turn, handed>>
    PROVE  TurnKept(s)'
<1>1. at'[s] = "off" /\ answered'[s] = {} /\ handed'[s] = handed[s]
  BY DEF Break, Goto, ServeInv, ServeTypes
<1>2. ~broken' => ~broken /\ at[s] \in {"off", "poll"}
  BY DEF Break
<1>3. Placed(s)' /\ BatchKept(s)' /\ AnswerComes(s)'
  BY <1>1 DEF Placed, BatchKept, AnswerComes
<1>4. SeenAcked(s)'
  <2> SUFFICES ASSUME ~evicted', ~torn', ~broken', NEW m \in handed'[s]
               PROVE  m.seq =< cursor'[Me(s)]
    BY <1>1 DEF SeenAcked, Me
  <2>1. ~broken /\ at[s] \in {"off", "poll"}
    BY <1>2
  <2> QED BY <1>1, <2>1, HandedStays
<1> QED BY <1>3, <1>4 DEF TurnKept

LEMMA AfterStart ==
    ASSUME ServeInv, NEW s \in Servers, StartServe(s)
    PROVE  TurnKept(s)'
<1>1. /\ at[s] = "off" /\ at'[s] = "poll" /\ pc'[s] = "idle"
      /\ UNCHANGED <<file, cursor, evicted, torn, broken>> /\ Messages' = Messages
      /\ handed'[s] = handed[s] /\ answered'[s] = answered[s]
  BY DEF StartServe, Goto, vars, files, history, past, ServeInv, ServeTypes, Messages, Good
<1>2. Placed(s)' /\ BatchKept(s)'
  BY <1>1 DEF Placed, BatchKept
<1>3. AnswerComes(s)'
  BY <1>1, TurnTyped DEF AnswerComes, Me
<1>4. SeenAcked(s)'
  BY <1>1, TurnTyped DEF SeenAcked, Me
<1> QED BY <1>2, <1>3, <1>4 DEF TurnKept

\* The batch ends at the seq that acknowledges it, and what a run has seen
\* before is no longer unread.
LEMMA AfterTake ==
    ASSUME ServeInv, NEW s \in Servers, TakeMail(s)
    PROVE  TurnKept(s)'
<1> DEFINE n == Me(s)
<1>1. /\ at[s] = "poll" /\ at'[s] = "spawn" /\ UNCHANGED vars
      /\ batch'[s] = unread(n) /\ unread(n) # {} /\ through'[s] = BatchEnd(n)
      /\ handed'[s] = handed[s] /\ answered'[s] = answered[s] /\ broken' = broken
  BY DEF TakeMail, Goto, Through, past, ServeInv, ServeTypes
<1>2. /\ UNCHANGED <<file, cursor, evicted, torn, pc, job, settled, lost>>
      /\ Messages' = Messages
  BY <1>1 DEF vars, files, history, Messages, Good
<1>3. Placed(s)'
  BY <1>1, <1>2, TurnTyped DEF Placed
<1>4. ASSUME ~evicted, ~torn
      PROVE  /\ Passed(n, BatchEnd(n), unread(n))
             /\ \A m \in unread(n) : m.seq =< BatchEnd(n)
  <2>1. Passed(n, cursor[n], {}) /\ SeqsIncrease
    BY <1>4, TurnTyped DEF BoxInv, SkipInv, OrderInv
  <2>2. BatchEnd(n) \in Int /\ \E m \in Messages : BatchEnd(n) =< m.seq
    BY <1>1, TurnTyped, ReadingTyped, EndsInFile
  <2> QED BY <1>4, <2>1, <2>2, TurnTyped, AllPassed, BatchBelow
<1>5. BatchKept(s)'
  <2> SUFFICES ASSUME ~evicted', ~torn'
               PROVE  /\ batch'[s] # {} /\ batch'[s] \subseteq Messages'
                      /\ Passed(Me(s), through[s], batch[s])'
                      /\ \A m \in batch'[s] : m.seq =< through'[s]
    BY DEF BatchKept
  <2>1. ASSUME NEW x, x = BatchEnd(n), NEW B, B = unread(n)
        PROVE  Passed(Me(s), through[s], batch[s])'
    <3>1. Passed(n, x, B)
      BY <1>2, <1>4, <2>1
    <3>2. Passed(n, x, B)'
      BY <1>2, <3>1 DEF Passed, Accounted
    <3> QED BY <1>1, <2>1, <3>2 DEF Me
  <2>2. unread(n) \subseteq Messages
    BY DEF unread
  <2> QED BY <1>1, <1>2, <1>4, <2>1, <2>2
<1>6. AnswerComes(s)'
  BY <1>1, <1>2, TurnTyped DEF AnswerComes, Me
<1>7. SeenAcked(s)'
  <2> SUFFICES ASSUME ~evicted', ~torn', ~broken'
               PROVE  /\ batch'[s] \cap handed'[s] = {}
                      /\ \A m \in handed'[s] : m.seq =< cursor'[n]
    BY <1>1 DEF SeenAcked, Me
  <2>1. \A m \in handed[s] : m.seq =< cursor[n] /\ m.seq \in Int
    BY <1>1, <1>2, TurnTyped DEF SeenAcked
  <2>2. \A m \in unread(n) : m.seq > cursor[n]
    BY DEF unread
  <2>3. \A m \in unread(n) : m \notin handed[s]
    BY <2>1, <2>2, TurnTyped
  <2> QED BY <1>1, <1>2, <2>1, <2>3
<1> QED BY <1>3, <1>5, <1>6, <1>7 DEF TurnKept

\* The last seq read is that of a line in the file.
LEMMA AfterSpawn ==
    ASSUME ServeInv, Moves, NEW s \in Servers, Spawn(s)
    PROVE  TurnKept(s)'
<1>1. /\ at[s] = "spawn" /\ at'[s] = "run" /\ UNCHANGED vars /\ seen'[s] = FALSE
      /\ last'[s] = IF Good = {} THEN -1 ELSE LastSeq
      /\ batch'[s] = batch[s] /\ through'[s] = through[s]
      /\ handed'[s] = handed[s] /\ answered'[s] = answered[s] /\ broken' = broken
  BY DEF Spawn, Goto, past, ServeInv, ServeTypes
<1>2. /\ UNCHANGED <<file, cursor, evicted, torn, pc, job, settled, lost>>
      /\ Messages' = Messages
  BY <1>1 DEF vars, files, history, Messages, Good
<1>3. Placed(s)'
  BY <1>1, <1>2, TurnTyped DEF Placed
<1>4. BatchKept(s)'
  BY <1>1, BatchStays
<1>5. AnswerComes(s)'
  <2> SUFFICES ASSUME ~evicted', ~torn'
               PROVE  /\ \E m \in Messages' : last'[s] =< m.seq
                      /\ \A seq \in answered'[s] :
                             \E m \in Messages' : m.from = Me(s) /\ m.seq > seq
    BY <1>1 DEF AnswerComes, Me
  <2>1. Good # {}
    BY <1>1, <1>2, TurnTyped DEF BatchKept, Messages
  <2>2. \E m \in Messages : LastSeq =< m.seq
    BY <2>1, TurnTyped, EndsInFile
  <2>3. \A seq \in answered[s] : \E m \in Messages : m.from = Me(s) /\ m.seq > seq
    BY <1>2, TurnTyped DEF AnswerComes
  <2> QED BY <1>1, <1>2, <2>1, <2>2, <2>3
<1>6. SeenAcked(s)'
  BY <1>1, <1>2, TurnTyped DEF SeenAcked, Me
<1> QED BY <1>3, <1>4, <1>5, <1>6 DEF TurnKept

LEMMA AfterRunStarts ==
    ASSUME ServeInv, Moves, NEW s \in Servers, RunStarts(s)
    PROVE  TurnKept(s)'
<1>1. /\ at[s] = "run" /\ at'[s] = "run" /\ UNCHANGED vars /\ seen'[s] = TRUE
      /\ last'[s] = last[s] /\ batch'[s] = batch[s] /\ through'[s] = through[s]
      /\ handed'[s] = handed[s] \cup batch[s]
      /\ answered'[s] = answered[s] /\ broken' = broken
  BY DEF RunStarts, ServeInv, ServeTypes
<1>2. /\ UNCHANGED <<file, cursor, evicted, torn, pc, job, settled, lost>>
      /\ Messages' = Messages
  BY <1>1 DEF vars, files, history, Messages, Good
<1>3. Placed(s)' /\ AnswerComes(s)'
  BY <1>1, <1>2, TurnTyped DEF Placed, AnswerComes, Me
<1>4. BatchKept(s)'
  BY <1>1, BatchStays
<1>5. SeenAcked(s)'
  <2> SUFFICES ASSUME ~evicted', ~torn', ~broken', NEW m \in handed'[s]
               PROVE  m.seq =< cursor'[Me(s)] \/ m.seq =< through'[s]
    BY <1>1 DEF SeenAcked, Me
  <2>1. \A k \in batch[s] : k.seq =< through[s]
    BY <1>1, <1>2, TurnTyped DEF BatchKept
  <2>2. \A k \in handed[s] : k.seq =< cursor[Me(s)] \/ k.seq =< through[s]
    BY <1>1, <1>2, TurnTyped DEF SeenAcked
  <2> QED BY <1>1, <1>2, <2>1, <2>2
<1> QED BY <1>3, <1>4, <1>5 DEF TurnKept

\* A run that ended without its prompt in the log has seen nothing.
LEMMA AfterExit ==
    ASSUME ServeInv, Moves, NEW s \in Servers, RunExits(s)
    PROVE  TurnKept(s)'
<1>1. /\ at[s] = "run" /\ last'[s] = last[s]
      /\ batch'[s] = batch[s] /\ through'[s] = through[s] /\ seen'[s] = seen[s]
      /\ handed'[s] = handed[s] /\ answered'[s] = answered[s] /\ broken' = broken
  BY DEF RunExits, turn, past
<1>2. CASE ~seen[s] /\ at'[s] = "poll" /\ UNCHANGED vars
  <2>1. UNCHANGED <<file, cursor, evicted, torn, pc, job>> /\ Messages' = Messages
    BY <1>2 DEF vars, files, history, Messages, Good
  <2>2. Placed(s)' /\ BatchKept(s)'
    BY <1>1, <1>2, <2>1, TurnTyped DEF Placed, BatchKept
  <2>3. AnswerComes(s)' /\ SeenAcked(s)'
    BY <1>1, <1>2, <2>1, TurnTyped DEF AnswerComes, SeenAcked, Me
  <2> QED BY <2>2, <2>3 DEF TurnKept
<1>3. CASE seen[s] /\ at'[s] = "ack" /\ StartServeAck(s)
  <2>1. /\ Aside(s) /\ job'[s].op = "read" /\ job'[s].through = through[s]
        /\ pc'[s] = "mail"
    BY <1>1, <1>3, AckAside
  <2>2. Messages' = Messages /\ UNCHANGED <<cursor, evicted, torn>>
    BY <2>1, AsideRest, TurnTyped
  <2>3. Placed(s)'
    BY <1>1, <1>3, <2>1 DEF Placed
  <2>4. BatchKept(s)'
    BY <1>1, BatchStays
  <2>5. AnswerComes(s)' /\ SeenAcked(s)'
    BY <1>1, <1>3, <2>1, <2>2, TurnTyped DEF AnswerComes, SeenAcked, Me
  <2> QED BY <2>3, <2>4, <2>5 DEF TurnKept
<1>4. \/ ~seen[s] /\ at'[s] = "poll" /\ UNCHANGED vars
      \/ seen[s] /\ at'[s] = "ack" /\ StartServeAck(s)
  <2>1. at' = [at EXCEPT ![s] = "poll"] => at'[s] = "poll"
    BY DEF ServeInv, ServeTypes
  <2>2. at' = [at EXCEPT ![s] = "ack"] => at'[s] = "ack"
    BY DEF ServeInv, ServeTypes
  <2> QED BY <2>1, <2>2, TurnTyped DEF RunExits, DidRun, Goto
<1> QED BY <1>2, <1>3, <1>4

\* What counts as an answer came after the last seq of before the run.
LEMMA AfterCheck ==
    ASSUME ServeInv, BoxInv', Moves, NEW s \in Servers, CheckAnswer(s)
    PROVE  TurnKept(s)'
<1>1. /\ at[s] = "check" /\ last'[s] = last[s]
      /\ batch'[s] = batch[s] /\ through'[s] = through[s] /\ seen'[s] = seen[s]
      /\ handed'[s] = handed[s] /\ UNCHANGED <<turn, handed>>
  BY DEF CheckAnswer, turn
<1>2. CASE /\ Posted(s) /\ UNCHANGED vars /\ broken' = broken
           /\ Goto(s, "poll") /\ answered' = [answered EXCEPT ![s] = {last[s]}]
  <2>1. UNCHANGED <<file, cursor, evicted, torn, pc, job>> /\ Messages' = Messages
    BY <1>2 DEF vars, files, history, Messages, Good
  <2>2. at'[s] = "poll" /\ answered'[s] = {last[s]}
    BY <1>2 DEF Goto, ServeInv, ServeTypes
  <2>3. Placed(s)' /\ BatchKept(s)'
    BY <1>1, <2>1, <2>2, TurnTyped DEF Placed, BatchKept
  <2>4. AnswerComes(s)'
    BY <1>2, <2>1, <2>2 DEF AnswerComes, Posted, Me
  <2>5. SeenAcked(s)'
    BY <1>1, <1>2, <2>1, <2>2, TurnTyped DEF SeenAcked, Me
  <2> QED BY <2>3, <2>4, <2>5 DEF TurnKept
<1>3. CASE /\ StartStatus(s) /\ StatusTo(s) \in Recipients(Me(s))
           /\ Goto(s, "post") /\ UNCHANGED <<answered, broken>>
  <2>1. /\ Aside(s) /\ job'[s].op = "post" /\ pc'[s] = "locking"
    BY <1>1, <1>3, StatusAside
  <2>2. Messages' = Messages /\ UNCHANGED <<cursor, evicted, torn>>
    BY <2>1, AsideRest, TurnTyped
  <2>3. at'[s] = "post"
    BY <1>3 DEF Goto, ServeInv, ServeTypes
  <2>4. Placed(s)' /\ BatchKept(s)'
    BY <2>1, <2>3 DEF Placed, BatchKept
  <2>5. AnswerComes(s)'
    BY <1>1, <1>3, <2>1, <2>2, <2>3, TurnTyped DEF AnswerComes, Me
  <2>6. SeenAcked(s)'
    BY <1>1, <1>3, <2>1, <2>2, <2>3, TurnTyped DEF SeenAcked, Me
  <2> QED BY <2>4, <2>5, <2>6 DEF TurnKept
<1>4. CASE Break(s)
  BY <1>1, <1>4, AfterBreak
<1> QED BY <1>2, <1>3, <1>4 DEF CheckAnswer

-----------------------------------------------------------------------------
\* A step of an acknowledgement that does not end it.
LEMMA AckStep ==
    ASSUME TypeInv, NEW s \in Sessions, Step(s), job[s].op = "read", pc'[s] # "idle"
    PROVE  /\ pc[s] # "idle" /\ pc'[s] # "down"
           /\ job'[s].op = "read" /\ job'[s].through = job[s].through
           /\ pc'[s] = "loaded" => Load(s)
           /\ pc'[s] = "done" => WriteCursor(s)
<1>1. pc \in [Sessions -> PCs] /\ job \in [Sessions -> Jobs]
  BY DEF TypeInv, TypeOK, ProgramOK
<1>2. CASE Load(s)
  BY <1>1, <1>2 DEF Load, Jobs
<1>3. CASE WriteCursor(s)
  BY <1>1, <1>3 DEF WriteCursor
<1>4. CASE AckMail(s) \/ Acquire(s) \/ SeeStale(s) \/ Reclaim(s)
  BY <1>1, <1>4 DEF AckMail, Acquire, SeeStale, Reclaim, End
<1>5. ASSUME GiveUp(s) \/ Release(s) \/ SaveRoom(s) \/ Refuse(s) \/ AppendLine(s)
      PROVE  FALSE
  BY <1>1, <1>5 DEF GiveUp, Release, SaveRoom, Refuse, AppendLine, End
<1> QED BY <1>2, <1>3, <1>4, <1>5 DEF Step

\* A step of the automatic status that does not end it.
LEMMA PostStep ==
    ASSUME TypeInv, NEW s \in Sessions, Step(s), job[s].op = "post", pc'[s] # "idle",
           pc[s] # "mail"
    PROVE  /\ pc[s] # "idle" /\ pc'[s] \notin {"down", "mail"}
           /\ job'[s].op = "post"
           /\ pc'[s] = "loaded" => Load(s)
           /\ pc'[s] = "done" => pc[s] = "loaded" /\ job'[s] = job[s]
<1>1. pc \in [Sessions -> PCs] /\ job \in [Sessions -> Jobs]
  BY DEF TypeInv, TypeOK, ProgramOK
<1>2. CASE Load(s)
  BY <1>1, <1>2 DEF Load, Jobs
<1>3. CASE AppendLine(s)
  BY <1>1, <1>3 DEF AppendLine
<1>4. CASE Acquire(s) \/ SeeStale(s) \/ Reclaim(s)
  BY <1>1, <1>4 DEF Acquire, SeeStale, Reclaim, End
<1>5. ASSUME \/ AckMail(s) \/ GiveUp(s) \/ Release(s) \/ SaveRoom(s) \/ Refuse(s)
             \/ WriteCursor(s)
      PROVE  FALSE
  BY <1>1, <1>5 DEF AckMail, GiveUp, Release, SaveRoom, Refuse, WriteCursor, End
<1> QED BY <1>2, <1>3, <1>4, <1>5 DEF Step

\* The cursor that an acknowledgement loads and writes is not behind the batch.
LEMMA AckReaches ==
    ASSUME ServeInv, NEW s \in Servers, at[s] = "ack", Step(s), ~evicted, ~torn, ~broken
    PROVE  /\ Load(s) => job'[s].num >= through[s]
           /\ WriteCursor(s) => cursor'[Me(s)] >= through[s]
<1>1. /\ job[s].op = "read" /\ job[s].through = through[s]
  BY TurnTyped DEF Placed
<1>2. ASSUME Load(s) PROVE job'[s].num >= through[s]
  <2>1. job'[s].num = Larger(cursor[Me(s)], job[s].through)
    BY <1>1, <1>2, TurnTyped DEF Load, AckThrough, Jobs, Me
  <2> QED BY <1>1, <2>1, TurnTyped DEF Larger
<1>3. ASSUME WriteCursor(s) PROVE cursor'[Me(s)] >= through[s]
  <2>1. job[s].num >= through[s]
    BY <1>3, TurnTyped DEF SeenAcked, WriteCursor
  <2>2. cursor'[Me(s)] = job[s].num
    BY <1>3, TurnTyped DEF WriteCursor, Me
  <2> QED BY <2>1, <2>2
<1> QED BY <1>2, <1>3

\* The seq that the automatic status gets is past the last one read.
LEMMA StatusAnswers ==
    ASSUME ServeInv, NEW s \in Servers, at[s] = "post", Load(s), ~evicted, ~torn
    PROVE  job'[s].num > last[s]
<1>1. PICK m \in Messages : last[s] =< m.seq
  BY TurnTyped DEF AnswerComes
<1>2. m.seq < NextSeq /\ NextSeq \in Int
  BY TurnTyped, NextSeqLast, ReadingTyped DEF BoxInv, OrderInv, Messages
<1>3. job'[s].num = NextSeq
  BY TurnTyped DEF Load, Placed, Jobs
<1> QED BY <1>1, <1>2, <1>3, TurnTyped

LEMMA AfterStep ==
    ASSUME ServeInv, BoxInv', Moves, NEW s \in Servers, ServeStep(s)
    PROVE  TurnKept(s)'
<1>1. /\ Step(s) /\ UNCHANGED <<turn, handed>> /\ last'[s] = last[s]
      /\ batch'[s] = batch[s] /\ through'[s] = through[s] /\ seen'[s] = seen[s]
      /\ handed'[s] = handed[s]
  BY DEF ServeStep, turn
<1>2. /\ \A x : Goto(s, x) => at'[s] = x
      /\ answered' = [answered EXCEPT ![s] = {last[s]}] => answered'[s] = {last[s]}
  BY DEF Goto, ServeInv, ServeTypes
<1>3. ~evicted' /\ ~torn' => ~evicted /\ ~torn
  BY TurnTyped, MovesOn
<1>4. pc[s] # "idle"
  BY <1>1 DEF Step, AckMail, Acquire, SeeStale, Reclaim, GiveUp, Load, SaveRoom, Refuse,
      AppendLine, WriteCursor, Release
<1>5. at[s] \in {"off", "ack", "post"}
  BY <1>4, TurnTyped DEF Placed
<1>6. CASE Break(s)
  BY <1>1, <1>6, AfterBreak
<1>7. CASE ~ Break(s) /\ at[s] = "off"
  <2>1. at' = at /\ bossAt' = bossAt /\ answered' = answered /\ broken' = broken
    BY <1>7 DEF ServeStep, Return
  <2>2. Quiet(s)
    BY <1>1, <1>7, <2>1 DEF Quiet
  <2> QED BY <2>1, <2>2, QuietStays
<1>8. CASE at[s] = "ack" /\ pc'[s] # "idle"
  <2>1. at' = at /\ answered' = answered /\ broken' = broken
    BY <1>8 DEF ServeStep
  <2>2. job[s].op = "read" /\ job[s].through = through[s]
    BY <1>8, TurnTyped DEF Placed
  <2>3. /\ pc'[s] \notin {"idle", "down"}
        /\ job'[s].op = "read" /\ job'[s].through = through[s]
        /\ pc'[s] = "loaded" => Load(s)
        /\ pc'[s] = "done" => WriteCursor(s)
    BY <1>1, <1>8, <2>2, TurnTyped, AckStep
  <2>4. Placed(s)'
    BY <1>1, <1>8, <2>1, <2>3 DEF Placed
  <2>5. BatchKept(s)' /\ AnswerComes(s)'
    BY <1>1, <1>8, <2>1, BatchStays, AnswersStay
  <2>6. SeenAcked(s)'
    <3> SUFFICES ASSUME ~evicted', ~torn', ~broken' PROVE SeenAcked(s)'
      BY DEF SeenAcked
    <3>1. /\ pc'[s] = "loaded" => job'[s].num >= through[s]
          /\ pc'[s] = "done" => cursor'[Me(s)] >= through[s]
      BY <1>1, <1>3, <1>8, <2>1, <2>3, AckReaches
    <3>2. \A m \in handed[s] : m.seq =< cursor'[Me(s)] \/ m.seq =< through[s]
      BY <2>1, HandedStays
    <3> QED BY <1>1, <1>8, <2>1, <3>1, <3>2 DEF SeenAcked, Me
  <2> QED BY <2>4, <2>5, <2>6 DEF TurnKept
<1>9. CASE ~ Break(s) /\ at[s] = "ack" /\ pc'[s] = "idle"
  <2>1. /\ pc[s] \in {"done", "mail"} /\ Return(s) /\ broken' = broken
    BY <1>9 DEF ServeStep
  <2>2. at'[s] = "check" /\ answered' = answered
    BY <1>2, <1>9, <2>1 DEF Return
  <2>3. Placed(s)'
    BY <1>9, <2>2 DEF Placed
  <2>4. BatchKept(s)' /\ AnswerComes(s)'
    BY <1>1, <1>9, <2>2, BatchStays, AnswersStay
  <2>5. SeenAcked(s)'
    <3> SUFFICES ASSUME ~evicted', ~torn', ~broken', NEW m \in handed[s]
                 PROVE  m.seq =< cursor'[Me(s)]
      BY <1>1, <2>2 DEF SeenAcked, Me
    <3>1. ~evicted /\ ~torn /\ ~broken
      BY <1>3, <2>1
    \* ack returns at once only when the file has no message, and it has the batch
    <3>2. pc[s] = "done"
      <4>1. CASE pc[s] = "mail"
        <5>1. AckMail(s)
          BY <1>1, <4>1 DEF Step, AckMail, Acquire, SeeStale, Reclaim, GiveUp, Load, SaveRoom,
              Refuse, AppendLine, WriteCursor, Release
        <5>2. Good = {}
          BY <1>9, <5>1, TurnTyped DEF AckMail
        <5>3. batch[s] # {} /\ batch[s] \subseteq Messages
          BY <1>9, <3>1, TurnTyped DEF BatchKept
        <5> QED BY <5>2, <5>3 DEF Messages
      <4> QED BY <2>1, <4>1
    <3>3. cursor[Me(s)] >= through[s]
      BY <1>9, <3>1, <3>2, TurnTyped DEF SeenAcked
    <3>4. cursor'[Me(s)] >= cursor[Me(s)] /\ cursor'[Me(s)] \in Int
      BY TurnTyped, MovesOn DEF BoxInv, TypeInv, TypeOK, FilesOK
    <3>5. m.seq =< cursor'[Me(s)] \/ m.seq =< through[s]
      BY <3>1, HandedStays
    <3>6. m.seq \in Int
      BY TurnTyped
    <3> QED BY <3>3, <3>4, <3>5, <3>6, TurnTyped
  <2> QED BY <2>3, <2>4, <2>5 DEF TurnKept
<1>10. CASE at[s] = "post" /\ pc'[s] # "idle"
  <2>1. at' = at /\ answered' = answered /\ broken' = broken
    BY <1>10 DEF ServeStep
  <2>2. job[s].op = "post" /\ pc[s] # "mail"
    BY <1>10, TurnTyped DEF Placed
  <2>3. /\ pc'[s] \notin {"idle", "down", "mail"} /\ job'[s].op = "post"
        /\ pc'[s] = "loaded" => Load(s)
        /\ pc'[s] = "done" => pc[s] = "loaded" /\ job'[s] = job[s]
    BY <1>1, <1>10, <2>2, TurnTyped, PostStep
  <2>4. Placed(s)'
    BY <1>10, <2>1, <2>3 DEF Placed
  <2>5. ASSUME ~evicted, ~torn, pc'[s] \in {"loaded", "done"}
        PROVE  job'[s].num > last[s]
    <3>1. CASE pc'[s] = "loaded"
      BY <1>10, <2>3, <2>5, <3>1, StatusAnswers
    <3>2. CASE pc'[s] = "done"
      BY <1>10, <2>3, <2>5, <3>2, TurnTyped DEF AnswerComes
    <3> QED BY <2>5, <3>1, <3>2
  <2>6. BatchKept(s)' /\ AnswerComes(s)'
    BY <1>1, <1>10, <2>1, <2>5, BatchStays, AnswersStay
  <2>7. SeenAcked(s)'
    <3> SUFFICES ASSUME ~evicted', ~torn', ~broken' PROVE SeenAcked(s)'
      BY DEF SeenAcked
    <3>1. \A m \in handed[s] : m.seq =< cursor'[Me(s)]
      BY <1>10, <2>1, HandedStays
    <3> QED BY <1>1, <1>10, <2>1, <3>1 DEF SeenAcked, Me
  <2> QED BY <2>4, <2>6, <2>7 DEF TurnKept
<1>11. CASE ~ Break(s) /\ at[s] = "post" /\ pc'[s] = "idle"
  <2>1. /\ pc[s] = "done" /\ Return(s) /\ broken' = broken /\ job[s].op = "post"
    BY <1>11, TurnTyped DEF ServeStep, Placed
  <2>2. at'[s] = "poll" /\ answered'[s] = {last[s]}
    BY <1>2, <1>11, <2>1 DEF Return
  <2>3. Placed(s)' /\ BatchKept(s)'
    BY <1>11, <2>2 DEF Placed, BatchKept
  <2>4. AnswerComes(s)'
    <3> SUFFICES ASSUME ~evicted', ~torn'
                 PROVE  \E m \in Messages' : m.from = Me(s) /\ m.seq > last[s]
      BY <2>2 DEF AnswerComes, Me
    <3>1. Record(s) \in Messages /\ Messages \subseteq Messages'
      BY <1>3, <2>1, TurnTyped, MovesOn DEF BoxInv, KeptInv
    <3>2. job[s].num > last[s]
      BY <1>3, <1>11, <2>1, TurnTyped DEF AnswerComes
    <3>3. Record(s).from = Me(s) /\ Record(s).seq = job[s].num
      BY DEF Record, Me
    <3> QED BY <3>1, <3>2, <3>3
  <2>5. SeenAcked(s)'
    <3> SUFFICES ASSUME ~evicted', ~torn', ~broken' PROVE SeenAcked(s)'
      BY DEF SeenAcked
    <3>1. \A m \in handed[s] : m.seq =< cursor'[Me(s)]
      BY <1>11, <2>1, HandedStays
    <3> QED BY <1>1, <2>2, <3>1 DEF SeenAcked, Me
  <2> QED BY <2>3, <2>4, <2>5 DEF TurnKept
<1> QED BY <1>5, <1>6, <1>7, <1>8, <1>9, <1>10, <1>11

LEMMA AfterKill ==
    ASSUME ServeInv, BoxInv', Moves, NEW s \in Servers, KillServer(s)
    PROVE  TurnKept(s)'
<1>1. UNCHANGED <<turn, handed>>
  BY DEF KillServer
<1>2. CASE Break(s)
  BY <1>1, <1>2, AfterBreak
<1>3. CASE ~ Break(s)
  <2>1. /\ pc'[s] # "down" /\ CutAppend(s)
        /\ at' = at /\ bossAt' = bossAt /\ answered' = answered /\ broken' = broken
    BY <1>3, TurnTyped DEF KillServer, Crash, Die
  <2>2. torn' /\ pc'[s] = "failed" /\ job' = job /\ pc[s] = "loaded" /\ job[s].op = "post"
    BY <2>1, TurnTyped DEF CutAppend, Die
  <2>3. at[s] \in {"off", "post"}
    BY <2>2, TurnTyped DEF Placed
  <2>4. Placed(s)'
    BY <2>1, <2>2, <2>3 DEF Placed
  <2>5. BatchKept(s)' /\ AnswerComes(s)' /\ SeenAcked(s)'
    BY <2>2 DEF BatchKept, AnswerComes, SeenAcked
  <2> QED BY <2>4, <2>5 DEF TurnKept
<1> QED BY <1>2, <1>3

-----------------------------------------------------------------------------
LEMMA ServeStart == ServeInit => ServeInv
<1> SUFFICES ASSUME ServeInit PROVE ServeInv
  OBVIOUS
<1>1. BoxInv
  BY BoxInit DEF ServeInit
<1>2. ServeTypes
  <2>1. /\ at \in [Servers -> {"off"}] /\ bossAt \in [Servers -> {NoBoss}]
        /\ batch \in [Servers -> {{}}] /\ handed \in [Servers -> {{}}]
        /\ answered \in [Servers -> {{}}] /\ seen \in [Servers -> {FALSE}]
    BY DEF ServeInit
  <2>2. through \in [Servers -> Int] /\ last \in [Servers -> Int]
    BY DEF ServeInit
  <2>3. broken = FALSE /\ fails = 0
    BY DEF ServeInit
  <2> HIDE DEF ServeInit
  <2> QED BY <2>1, <2>2, <2>3 DEF ServeTypes
<1>3. ASSUME NEW s \in Servers
      PROVE  Placed(s) /\ BatchKept(s) /\ AnswerComes(s) /\ SeenAcked(s)
  <2>1. at[s] = "off" /\ answered[s] = {} /\ handed[s] = {}
    BY DEF ServeInit
  <2> QED BY <2>1 DEF Placed, BatchKept, AnswerComes, SeenAcked
<1> QED BY <1>1, <1>2, <1>3 DEF ServeInv

LEMMA ServeKept == ServeInv /\ [ServeNext]_allvars => ServeInv'
<1> SUFFICES ASSUME ServeInv, [ServeNext]_allvars PROVE ServeInv'
  OBVIOUS
<1>1. BoxInv' /\ Moves
  BY WhoMoves
<1>2. CASE UNCHANGED serving /\ \A t \in Servers : Quiet(t)
  <2>1. ServeTypes' /\ broken' = broken
    BY <1>2 DEF ServeInv, ServeTypes, serving, turn, past
  <2>2. \A t \in Servers : TurnKept(t)'
    BY <1>1, <1>2, <2>1, QuietStays
  <2> QED BY <1>1, <2>1, <2>2 DEF ServeInv, TurnKept
<1>3. ASSUME NEW s \in Servers, Acts(s) PROVE ServeInv'
  <2>1. ServeTypes'
    BY <1>3, TypesStay
  <2>2. TurnKept(s)'
    BY <1>1, <1>3, AfterStart, AfterTake, AfterSpawn, AfterRunStarts, AfterExit,
        AfterCheck, AfterStep, AfterKill DEF Acts
  <2>3. ~broken' => ~broken
    BY <1>3, BrokenStays
  <2>4. \A t \in Servers \ {s} : TurnKept(t)'
    BY <1>1, <1>3, <2>3, OthersQuiet, QuietStays
  <2> QED BY <1>1, <2>1, <2>2, <2>4 DEF ServeInv, TurnKept
<1> QED BY <1>2, <1>3, WhoMoves

LEMMA ServeInvariant == ServeSpec => []ServeInv
BY ServeStart, ServeKept, PTL DEF ServeSpec

\* Also with servers and their runs in the room, all that Mailbox promises of
\* its files and its lock holds: types, one process under the lock, seqs in
\* order, reads that stay current, joins and posts that stay, the star.
THEOREM RoomServed ==
    ServeSpec => [](/\ TypeOK /\ MutualExclusion /\ SeqsIncrease /\ ViewsCurrent
                    /\ JoinsKept /\ PostsKept /\ Star)
<1>1. ServeInv => /\ TypeOK /\ MutualExclusion /\ SeqsIncrease /\ ViewsCurrent
                  /\ JoinsKept /\ PostsKept /\ Star
  BY DEF ServeInv, BoxInv, TypeInv, OrderInv, KeptInv, PostsKept, StarInv, Star, Fits
<1> QED BY <1>1, ServeInvariant, PTL

\* No acknowledgement, a server's or anybody's, moves a cursor back.
THEOREM ServedCursorsAdvance == ServeSpec => CursorAdvances
<1>1. ServeInv /\ [ServeNext]_allvars
      => (~evicted' => \A n \in Names : cursor'[n] >= cursor[n])
  BY WhoMoves, MovesOn DEF ServeInv
<1> QED BY <1>1, ServeInvariant, PTL DEF ServeSpec, CursorAdvances

\* A server acknowledges no mail that no run of its own has seen, nor does
\* anybody else's acknowledgement pass mail over: serve's ack after the run.
THEOREM ServerSkipsNothing == ServeSpec => []NothingSkipped
<1>1. ServeInv => NothingSkipped
  BY SkipSuffices DEF ServeInv, BoxInv
<1> QED BY <1>1, ServeInvariant, PTL

\* A server that looks for mail again has answered the batch before, by a post
\* of the run or by its own status.
THEOREM TurnsAnswered == ServeSpec => []Answered
<1>1. ServeInv => Answered
  BY DEF ServeInv, AnswerComes, Answered
<1> QED BY <1>1, ServeInvariant, PTL

\* No mail is given to a second run when one has seen it, unless a turn was cut
\* short, whoever else posts, reads, acknowledges or crashes.
THEOREM RunsSeeOnce == ServeSpec => []HandedOnce
<1>1. ServeInv => HandedOnce
  BY DEF ServeInv, SeenAcked, HandedOnce
<1> QED BY <1>1, ServeInvariant, PTL
=============================================================================
