------------------------------ MODULE Mailbox ------------------------------
(***************************************************************************)
(* The boss-call mailbox, src/boss-call/src/mailbox.mjs: one room, kept in *)
(* files that several processes read and write with no server between      *)
(* them.  A room is a star: one boss, members that talk to the boss only.  *)
(*                                                                         *)
(*   room      room.json          replaced whole (temp file and rename)    *)
(*   file      messages.jsonl     one line per message, appended under     *)
(*                                the lock; `open` when the last line has  *)
(*                                no newline                               *)
(*   cursor    cursors/<name>     last acknowledged seq, -1 when absent    *)
(*   lock      .lock/             mkdir takes it, rmdir gives it back;     *)
(*                                `stale` when its mtime is over 10 s old  *)
(*                                                                         *)
(* A session is one process running boss-call commands under one name.     *)
(* A command's reads before the lock, its reads under the lock, each of    *)
(* its writes and each mkdir, stat-and-age and rmdir of the lock directory *)
(* is a step of its own, so other sessions and crashes fall between any    *)
(* two of them.                                                            *)
(*                                                                         *)
(* Next to some definitions stands a variant whose name ends in X: the     *)
(* same rule with a slip in it.  No definition uses them; put in place of  *)
(* the rule, each breaks a property, which shows that it guards the rule.  *)
(***************************************************************************)
EXTENDS Integers, Sequences, FiniteSets

CONSTANTS
    Sessions,      \* processes that run boss-call commands
    Names,         \* participant names (All may be one of them)
    NameOf,        \* the name each session runs its commands under
    All,           \* the recipient "all"
    NoBoss,        \* room.json absent, or its boss null
    Free,          \* no .lock directory
    Orphan,        \* a .lock directory left by a process that died
    Garbage,       \* a line that does not parse as JSON
    MaxPosts,      \* bound: post commands issued
    MaxChores,     \* bound: host, join, read and ack commands issued
    MaxCrashes,    \* bound: processes killed, and appends cut short
    SlowHolders    \* may a live process hold the lock for over 10 s?

ASSUME SessionsAssumption ==
    /\ NameOf \in [Sessions -> Names]
    /\ NoBoss \notin Names
    /\ Free \notin Sessions
    /\ Orphan \notin Sessions
    /\ Free # Orphan
    /\ SlowHolders \in BOOLEAN
    /\ MaxPosts \in Nat /\ MaxChores \in Nat /\ MaxCrashes \in Nat

(* What a line of messages.jsonl holds; kind, ts and ref are left out: no  *)
(* operation of the module reads them.  `text` is the number of the post   *)
(* command, so that two messages are equal only if they are the same post. *)
Message == [seq : Nat, from : Names, to : Names \cup {All}, text : Nat]

ASSUME GarbageAssumption == Garbage \notin Message

VARIABLES
    room, file, open, cursor, lock, stale,    \* the room's files
    pc, job,                                  \* each session's program
    posts, chores, crashes,                   \* counters of the bounds
    evicted,    \* history: some rmdir of a "stale" lock removed a live one
    torn,       \* history: some append was cut short
    confirmed,  \* history: messages whose post returned
    joined,     \* history: names whose join returned
    settled,    \* history: mail delivered to a name, or dismissed by it
    lost        \* history: mail acknowledged by a session that then died

files    == <<room, file, open, cursor>>
locking  == <<lock, stale>>
bounds   == <<posts, chores, crashes>>
history  == <<evicted, torn, confirmed, joined, settled, lost>>
vars     == <<files, locking, pc, job, bounds, history>>

Commands == {"none", "host", "join", "post", "wait", "read", "ack"}
Critical == {"holding", "loaded", "done", "failed"}
PCs      == {"idle", "down", "mail", "locking", "judged"} \cup Critical
NoRoom   == [boss |-> NoBoss, members |-> {}]
Rooms    == [boss : Names \cup {NoBoss}, members : SUBSET Names]

(* What a session carries from one step of its command to the next: its    *)
(* arguments (to, text, through, the batch of mail it read), and what it   *)
(* read under the lock (the room, or the number it will write).            *)
Jobs == [op : Commands, to : Names \cup {All}, text : Nat, through : Int,
         batch : SUBSET Message, view : Rooms, num : Int]

NoJob == [op |-> "none", to |-> All, text |-> 0, through |-> -1,
          batch |-> {}, view |-> NoRoom, num |-> -1]

-----------------------------------------------------------------------------
(* Reading the files.                                                      *)

\* readMessages: the positions of the lines that parse
Good == {i \in DOMAIN file : file[i] # Garbage}

Messages == {file[i] : i \in Good}

LastOf(I) == CHOOSE i \in I : \A j \in I : j =< i

LastSeq == file[LastOf(Good)].seq

NextSeqX == IF Good = {} THEN 0 ELSE LastSeq

\* `msgs.length ? msgs[msgs.length - 1].seq + 1 : 0`
NextSeq == IF Good = {} THEN 0 ELSE LastSeq + 1

addressed(m, me) == (m.to = me \/ m.to = All) /\ m.from # me

unread(me) == {m \in Messages : m.seq > cursor[me] /\ addressed(m, me)}

\* `msgs.at(-1).seq` of a batch of unread messages in file order
BatchEnd(me) == file[LastOf({i \in Good : file[i] \in unread(me)})].seq

\* identify: a name the room knows, explicitly given
Known(n) == n = room.boss \/ n \in room.members

RecipientsX(n) == IF n = room.boss THEN room.members \cup {All} ELSE {room.boss}

\* post: whom a message from n may be sent to, decided before the lock
Recipients(n) ==
    IF n = room.boss THEN room.members \cup {All}
    ELSE IF n \in room.members THEN {room.boss}
    ELSE {}

Larger(a, b) == IF a > b THEN a ELSE b

-----------------------------------------------------------------------------
Init ==
    /\ room = NoRoom
    /\ file = << >> /\ open = FALSE
    /\ cursor = [n \in Names |-> -1]
    /\ lock = Free /\ stale = FALSE
    /\ pc = [p \in Sessions |-> "idle"]
    /\ job = [p \in Sessions |-> NoJob]
    /\ posts = 0 /\ chores = 0 /\ crashes = 0
    /\ evicted = FALSE /\ torn = FALSE
    /\ confirmed = {} /\ joined = {}
    /\ settled = [n \in Names |-> {}]
    /\ lost = [n \in Names |-> {}]

-----------------------------------------------------------------------------
(* A command begins.  Commands that the code refuses before it takes the   *)
(* lock change nothing and are not steps; neither is a wait that times out.*)

Begin(p, command) == job' = [job EXCEPT ![p] = command]

\* its process is killed; a lock directory of its own stays behind
Die(p) == /\ pc' = [pc EXCEPT ![p] = "down"]
          /\ job' = [job EXCEPT ![p] = NoJob]
          /\ lock' = IF lock = p THEN Orphan ELSE lock

\* it ends, with a result or with an error
End(p) == /\ pc' = [pc EXCEPT ![p] = "idle"]
          /\ job' = [job EXCEPT ![p] = NoJob]

Chore == chores < MaxChores /\ chores' = chores + 1

\* host and joinRoom: everything they check is read under the lock
StartRoomCommand(p) ==
    /\ pc[p] = "idle" /\ Chore
    /\ pc' = [pc EXCEPT ![p] = "locking"]
    /\ \E command \in {"host", "join"} :
           Begin(p, [NoJob EXCEPT !.op = command])
    /\ UNCHANGED <<files, locking, posts, crashes, history>>

\* post: sender and recipient are checked against a room.json read here,
\* before the lock is asked for
StartPost(p) ==
    /\ pc[p] = "idle" /\ posts < MaxPosts
    /\ \E to \in Recipients(NameOf[p]) :
           Begin(p, [NoJob EXCEPT !.op = "post", !.to = to, !.text = posts])
    /\ posts' = posts + 1
    /\ pc' = [pc EXCEPT ![p] = "locking"]
    /\ UNCHANGED <<files, locking, chores, crashes, history>>

\* the poll of waitForMail that finds mail
StartWait(p) ==
    /\ pc[p] = "idle" /\ Known(NameOf[p])
    /\ unread(NameOf[p]) # {}
    /\ Begin(p, [NoJob EXCEPT !.op = "wait", !.batch = unread(NameOf[p]),
                              !.through = BatchEnd(NameOf[p])])
    /\ pc' = [pc EXCEPT ![p] = "mail"]
    /\ UNCHANGED <<files, locking, bounds, history>>

\* `read --ack`: the messages are printed first and acknowledged after
StartRead(p) ==
    /\ pc[p] = "idle" /\ Known(NameOf[p]) /\ Chore
    /\ unread(NameOf[p]) # {}
    /\ settled' = [settled EXCEPT ![NameOf[p]] = @ \cup unread(NameOf[p])]
    /\ Begin(p, [NoJob EXCEPT !.op = "read", !.through = BatchEnd(NameOf[p])])
    /\ pc' = [pc EXCEPT ![p] = "mail"]
    /\ UNCHANGED <<files, locking, posts, crashes,
                   evicted, torn, confirmed, joined, lost>>

\* ack's own readMessages: with no message in the file it returns at once
AckMail(p) ==
    /\ pc[p] = "mail"
    /\ IF Good = {}
       THEN /\ End(p)
            /\ settled' = [settled EXCEPT ![NameOf[p]] = @ \cup job[p].batch]
       ELSE /\ pc' = [pc EXCEPT ![p] = "locking"]
            /\ UNCHANGED <<job, settled>>
    /\ UNCHANGED <<files, locking, bounds,
                   evicted, torn, confirmed, joined, lost>>

\* `ack` with no sequence: everything in the file, read or not, is dismissed
StartAck(p) ==
    /\ pc[p] = "idle" /\ Known(NameOf[p]) /\ Chore
    /\ Good # {}
    /\ Begin(p, [NoJob EXCEPT !.op = "ack", !.through = LastSeq])
    /\ settled' = [settled EXCEPT ![NameOf[p]] = @ \cup unread(NameOf[p])]
    /\ pc' = [pc EXCEPT ![p] = "locking"]
    /\ UNCHANGED <<files, locking, posts, crashes,
                   evicted, torn, confirmed, joined, lost>>

-----------------------------------------------------------------------------
(* withLock: acquire, take over, give up, release.                         *)

AcquireX(p) ==    \* a mkdir that does not fail when the directory is there
    /\ pc[p] = "locking"
    /\ lock' = p /\ stale' = FALSE
    /\ pc' = [pc EXCEPT ![p] = "holding"]
    /\ UNCHANGED <<files, job, bounds, history>>

\* mkdirSync succeeds
Acquire(p) ==
    /\ pc[p] = "locking" /\ lock = Free
    /\ lock' = p /\ stale' = FALSE
    /\ pc' = [pc EXCEPT ![p] = "holding"]
    /\ UNCHANGED <<files, job, bounds, history>>

SeeStaleX(p) == FALSE    \* an age in seconds, compared with milliseconds

\* mkdirSync found the directory and statSync an mtime over 10 s old
SeeStale(p) ==
    /\ pc[p] = "locking" /\ lock # Free /\ stale
    /\ pc' = [pc EXCEPT ![p] = "judged"]
    /\ UNCHANGED <<files, locking, job, bounds, history>>

\* the rmdirSync that follows removes whatever directory is there by then;
\* the deadline of 5 s is looked at next
Reclaim(p) ==
    /\ pc[p] = "judged"
    /\ lock' = Free /\ stale' = FALSE
    /\ evicted' = (evicted \/ lock \in Sessions)
    /\ \/ pc' = [pc EXCEPT ![p] = "locking"] /\ UNCHANGED job
       \/ End(p)
    /\ UNCHANGED <<files, bounds, torn, confirmed, joined, settled, lost>>

\* "room ... is locked": past the deadline, with a lock that was not stale,
\* the command fails and nothing is written
GiveUp(p) ==
    /\ pc[p] = "locking" /\ lock # Free /\ ~stale
    /\ End(p)
    /\ UNCHANGED <<files, locking, bounds, history>>

\* the finally block: rmdirSync of whatever directory is there; the command
\* returns, or throws when the function under the lock threw
Release(p) ==
    /\ pc[p] \in {"done", "failed"}
    /\ lock' = Free /\ stale' = FALSE
    /\ End(p)
    /\ confirmed' = IF pc[p] = "done" /\ job[p].op = "post"
                    THEN confirmed \cup {[seq  |-> job[p].num,     from |-> NameOf[p],
                                          to   |-> job[p].to,  text |-> job[p].text]}
                    ELSE confirmed
    /\ joined' = IF pc[p] = "done" /\ job[p].op = "join"
                 THEN joined \cup {NameOf[p]} ELSE joined
    /\ settled' = IF pc[p] = "done" /\ job[p].op = "wait"
                  THEN [settled EXCEPT ![NameOf[p]] = @ \cup job[p].batch] ELSE settled
    /\ UNCHANGED <<files, bounds, evicted, torn, lost>>

\* time passes: the lock directory's mtime falls more than 10 s behind
Age ==
    /\ lock = Orphan \/ (SlowHolders /\ lock \in Sessions)
    /\ ~stale /\ stale' = TRUE
    /\ UNCHANGED <<files, lock, pc, job, bounds, history>>

-----------------------------------------------------------------------------
(* Under the lock: a step that reads, then a step that writes.             *)

AckThroughX(p) == job[p].through    \* no Math.max
AckThroughLastX(p) == Larger(cursor[NameOf[p]], NextSeq - 1)    \* no throughSeq

\* ack: `Math.max(getCursor(room, me), last)`
AckThrough(p) == Larger(cursor[NameOf[p]], job[p].through)

\* loadRoom, readMessages or getCursor
Load(p) ==
    /\ pc[p] = "holding"
    /\ job' = [job EXCEPT
           ![p].view = IF job[p].op \in {"host", "join"} THEN room ELSE @,
           ![p].num  = IF job[p].op = "post" THEN NextSeq
                       ELSE IF job[p].op \in {"wait", "read", "ack"} THEN AckThrough(p)
                       ELSE @]
    /\ pc' = [pc EXCEPT ![p] = "loaded"]
    /\ UNCHANGED <<files, locking, bounds, history>>

\* host refuses a second boss; joinRoom wants a boss, under another name
Accepts(p) ==
    LET me == NameOf[p] IN
    \/ job[p].op = "host" /\ job[p].view.boss \in {NoBoss, me}
    \/ job[p].op = "join" /\ job[p].view.boss \notin {NoBoss, me}

WithNameX(p) == IF job[p].op = "host"
                THEN [boss |-> NameOf[p], members |-> {}]
                ELSE [job[p].view EXCEPT !.members = @ \cup {NameOf[p]}]

\* the object that was loaded, with one entry set
WithName(p) == IF job[p].op = "host"
               THEN [job[p].view EXCEPT !.boss = NameOf[p]]
               ELSE [job[p].view EXCEPT !.members = @ \cup {NameOf[p]}]

\* saveRoom
SaveRoom(p) ==
    /\ pc[p] = "loaded" /\ job[p].op \in {"host", "join"} /\ Accepts(p)
    /\ room' = WithName(p)
    /\ pc' = [pc EXCEPT ![p] = "done"]
    /\ UNCHANGED <<file, open, cursor, locking, job, bounds, history>>

Refuse(p) ==
    /\ pc[p] = "loaded" /\ job[p].op \in {"host", "join"} /\ ~Accepts(p)
    /\ pc' = [pc EXCEPT ![p] = "failed"]
    /\ UNCHANGED <<files, locking, job, bounds, history>>

AppendedX(line) == <<line>>    \* opened "w", not "a"

\* What an append makes of the file: a last line with no newline swallows
\* the new text, and the two together are no JSON.
Appended(line) ==
    IF open THEN [file EXCEPT ![Len(file)] = Garbage] ELSE Append(file, line)

Record(p) == [seq |-> job[p].num, from |-> NameOf[p], to |-> job[p].to, text |-> job[p].text]

\* openSync "a", writeFileSync of the whole line, fsync, close
AppendLine(p) ==
    /\ pc[p] = "loaded" /\ job[p].op = "post"
    /\ file' = Appended(Record(p)) /\ open' = FALSE
    /\ pc' = [pc EXCEPT ![p] = "done"]
    /\ UNCHANGED <<room, cursor, locking, job, bounds, history>>

\* The write stops short of the newline: part of the line, or all of it but
\* the newline, is in the file.  The process was killed, or the write threw.
CutAppend(p) ==
    /\ pc[p] = "loaded" /\ job[p].op = "post" /\ crashes < MaxCrashes
    /\ \E line \in {Garbage, Record(p)} : file' = Appended(line)
    /\ open' = TRUE /\ torn' = TRUE /\ crashes' = crashes + 1
    /\ \/ /\ Die(p)
       \/ /\ pc' = [pc EXCEPT ![p] = "failed"]
          /\ UNCHANGED <<lock, job>>
    /\ UNCHANGED <<room, cursor, stale, posts, chores,
                   evicted, confirmed, joined, settled, lost>>

\* setCursor
WriteCursor(p) ==
    /\ pc[p] = "loaded" /\ job[p].op \in {"wait", "read", "ack"}
    /\ cursor' = [cursor EXCEPT ![NameOf[p]] = job[p].num]
    /\ pc' = [pc EXCEPT ![p] = "done"]
    /\ UNCHANGED <<room, file, open, locking, job, bounds, history>>

-----------------------------------------------------------------------------
\* A process is killed between two of its steps.
Crash(p) ==
    /\ pc[p] \notin {"idle", "down"} /\ crashes < MaxCrashes
    /\ Die(p)
    /\ crashes' = crashes + 1
    /\ lost' = IF job[p].op = "wait" /\ pc[p] = "done"
               THEN [lost EXCEPT ![NameOf[p]] = @ \cup job[p].batch] ELSE lost
    /\ UNCHANGED <<files, stale, posts, chores,
                   evicted, torn, confirmed, joined, settled>>

\* the next command run under that name is a new process
Restart(p) ==
    /\ pc[p] = "down"
    /\ pc' = [pc EXCEPT ![p] = "idle"]
    /\ UNCHANGED <<files, locking, job, bounds, history>>

Step(p) ==
    \/ AckMail(p) \/ Acquire(p) \/ SeeStale(p) \/ Reclaim(p) \/ GiveUp(p)
    \/ Load(p) \/ SaveRoom(p) \/ Refuse(p) \/ AppendLine(p) \/ WriteCursor(p)
    \/ Release(p)

Next ==
    \/ \E p \in Sessions :
           \/ StartRoomCommand(p) \/ StartPost(p) \/ StartWait(p) \/ StartRead(p)
           \/ StartAck(p) \/ Step(p) \/ CutAppend(p) \/ Crash(p) \/ Restart(p)
    \/ Age

Spec == Init /\ [][Next]_vars

(* Every process gets to run; a session listens (the boss-call skill has it *)
(* call `wait` whenever it has nothing to do), is started again after a     *)
(* crash, and clocks advance.  No fairness is asked of the lock itself:     *)
(* mkdir succeeds for whoever comes first.                                  *)
Fairness ==
    /\ WF_vars(Age)
    /\ \A p \in Sessions :
           /\ WF_vars(StartWait(p)) /\ WF_vars(Restart(p))
           /\ WF_vars(AckMail(p)) /\ WF_vars(Acquire(p)) /\ WF_vars(SeeStale(p))
           /\ WF_vars(Reclaim(p)) /\ WF_vars(Load(p)) /\ WF_vars(Release(p))
           /\ WF_vars(SaveRoom(p) \/ Refuse(p) \/ AppendLine(p) \/ WriteCursor(p))

FairSpec == Spec /\ Fairness

-----------------------------------------------------------------------------
(* Properties.  A takeover that removes the lock of a live process, and an  *)
(* append that is cut short, are what the promises below do not survive;    *)
(* each says which of the two it needs.                                     *)

Holds(p) == pc[p] \in Critical

FilesOK ==
    /\ room \in Rooms
    /\ file \in Seq(Message \cup {Garbage})
    /\ open \in BOOLEAN
    /\ cursor \in [Names -> Int]
    /\ lock \in Sessions \cup {Free, Orphan}
    /\ stale \in BOOLEAN

ProgramOK ==
    /\ pc \in [Sessions -> PCs]
    /\ job \in [Sessions -> Jobs]
    /\ posts \in Nat /\ chores \in Nat /\ crashes \in Nat

HistoryOK ==
    /\ evicted \in BOOLEAN /\ torn \in BOOLEAN
    /\ confirmed \subseteq Message /\ joined \subseteq Names
    /\ settled \in [Names -> SUBSET Message]
    /\ lost \in [Names -> SUBSET Message]

TypeOK == FilesOK /\ ProgramOK /\ HistoryOK

\* withLock: as long as no takeover removed a live process's lock, whoever is
\* inside the function under the lock still owns the directory on disk, so no
\* two processes are inside and no finally block frees another one's lock.
MutualExclusion == ~evicted => \A p \in Sessions : Holds(p) => lock = p

\* post: seqs strictly increase down the file, whatever was cut short or
\* skipped, although each is computed from a file other processes append to.
SeqsIncrease ==
    ~evicted => \A i, j \in Good : i < j => file[i].seq < file[j].seq

\* withLock: what a session read under the lock still holds when it writes: the
\* room it will save back with one entry set, a seq past every line's, a cursor
\* no lower than the one on disk.
ViewsCurrent ==
    ~evicted => \A p \in Sessions : pc[p] = "loaded" =>
        /\ job[p].op \in {"host", "join"} => job[p].view = room
        /\ job[p].op = "post" => \A i \in Good : file[i].seq < job[p].num
        /\ job[p].op \in {"wait", "read", "ack"} => job[p].num >= cursor[NameOf[p]]

\* post: a message whose post returned is in the file from then on.
PostsKept == ~torn => confirmed \subseteq Messages

\* host, joinRoom: a session whose join returned stays a member although
\* every writer replaces the whole of room.json.
JoinsKept == ~evicted => joined \subseteq room.members

\* post: sender and recipient are checked against a room.json read before
\* the lock was taken; by the room as it is now, every message still runs
\* between the boss and a member.
Star ==
    ~evicted => \A m \in Messages :
        \/ m.from = room.boss /\ m.to \in room.members \cup {All}
        \/ m.from \in room.members /\ m.to = room.boss

\* ack, setCursor: mail at or below a name's cursor was delivered to it or
\* dismissed by it, or is in the hands of a process that still has to print
\* it or died before it could; no message is passed over.
InHand(n) == UNION {job[p].batch : p \in {q \in Sessions : NameOf[q] = n /\ Holds(q)}}
NothingSkipped ==
    ~evicted /\ ~torn => \A n \in Names : \A m \in Messages :
        addressed(m, n) /\ m.seq =< cursor[n] => m \in settled[n] \cup lost[n] \cup InHand(n)

\* ack: two sessions of one name acknowledge in any order, with sequences they
\* read before the lock, and the cursor never goes back.
CursorAdvances == [][~evicted' => \A n \in Names : cursor'[n] >= cursor[n]]_vars

\* waitForMail, withLock: mail for a name that listens is taken in the end,
\* also when a process died holding the lock, and whatever locks are taken
\* over; unless room.json loses the name, as it can when two writers are in.
MailHeard ==
    \A n \in Names : (Known(n) /\ unread(n) # {}) ~> (unread(n) = {} \/ ~Known(n))

-----------------------------------------------------------------------------
(* What comments of the source say, and the code does not do.               *)

\* "A lock older than 10s belongs to a dead process and is taken over":
\* only a dead process's lock is taken over.
TakenOverFromTheDead == ~evicted

\* "append-only where it matters, so a crash loses nothing": a message whose
\* post returned stays in the file whatever crash came before or after.
CrashLosesNothing == ~evicted => confirmed \subseteq Messages
=============================================================================
