-------------------------------- MODULE Serve --------------------------------
(***************************************************************************)
(* boss-call serve (serve.mjs): a participant of the room that nobody sits *)
(* at.  It waits for mail, hands each batch to one run of kiso, a process  *)
(* that works under the same name and may post, acknowledges the batch     *)
(* when the run is over, and posts a status if the run posted nothing.     *)
(*                                                                         *)
(* The room, its files and its lock are module Mailbox; a server takes     *)
(* Mailbox's steps for each of its commands.  An error in one of these     *)
(* ends the server, and somebody starts it again; between two servers the  *)
(* session may host or join.                                               *)
(***************************************************************************)
EXTENDS Mailbox

CONSTANTS
    Servers,    \* the sessions that are servers
    RunOf,      \* the session that kiso's commands run in, of every server
    MaxFails    \* bound: runs that do not start

ASSUME ServersAssumption ==
    /\ Servers \subseteq Sessions
    /\ RunOf \in [Servers -> Sessions \ Servers]
    /\ \A s \in Servers : NameOf[RunOf[s]] = NameOf[s]
    /\ MaxFails \in Nat

VARIABLES
    at,             \* where a server is in its loop, "off" when none runs
    bossAt,         \* the room's boss when it started
    batch, through, \* the mail of this turn, and its last seq
    last,           \* the last seq in the room when kiso was spawned
    seen,           \* the run has logged its prompt
    handed,         \* history: mail that some run has seen
    answered,       \* history: the last of the turn before, if it came to its end
    broken,         \* history: some turn was cut short
    fails

turn    == <<batch, through, last, seen>>
past    == <<handed, answered, broken>>
serving == <<at, bossAt, turn, past, fails>>
allvars == <<vars, serving>>

Runs == {RunOf[s] : s \in Servers}
Plain == Sessions \ (Servers \cup Runs)
Me(s) == NameOf[s]

ServeInit ==
    /\ Init
    /\ at = [s \in Servers |-> "off"] /\ bossAt = [s \in Servers |-> NoBoss]
    /\ batch = [s \in Servers |-> {}] /\ through = [s \in Servers |-> -1]
    /\ last = [s \in Servers |-> -1] /\ seen = [s \in Servers |-> FALSE]
    /\ handed = [s \in Servers |-> {}] /\ answered = [s \in Servers |-> {}]
    /\ broken = FALSE /\ fails = 0

Goto(s, next) == at' = [at EXCEPT ![s] = next]

\* the server ends, and with it what it knows of the room
Break(s) ==
    /\ Goto(s, "off") /\ bossAt' = [bossAt EXCEPT ![s] = NoBoss]
    /\ answered' = [answered EXCEPT ![s] = {}]
    /\ broken' = (broken \/ at[s] \notin {"off", "poll"})

-----------------------------------------------------------------------------
(* One turn of serve's loop.                                               *)

\* identify and loadRoom, once
StartServe(s) ==
    /\ at[s] = "off" /\ pc[s] = "idle" /\ Known(Me(s))
    /\ Goto(s, "poll") /\ bossAt' = [bossAt EXCEPT ![s] = room.boss]
    /\ UNCHANGED <<vars, turn, past, fails>>

\* mutant: the first of the batch
ThroughX(s) == LET seqs == {m.seq : m \in unread(Me(s))} IN CHOOSE n \in seqs : \A k \in seqs : k >= n

Through(s) == BatchEnd(Me(s))

TakeMail(s) ==
    /\ at[s] = "poll" /\ unread(Me(s)) # {}
    /\ batch' = [batch EXCEPT ![s] = unread(Me(s))]
    /\ through' = [through EXCEPT ![s] = Through(s)]
    /\ Goto(s, "spawn")
    /\ UNCHANGED <<vars, bossAt, last, seen, past, fails>>

\* the messages are read again for the last seq, and kiso is spawned
Spawn(s) ==
    /\ at[s] = "spawn"
    /\ last' = [last EXCEPT ![s] = IF Good = {} THEN -1 ELSE LastSeq]
    /\ seen' = [seen EXCEPT ![s] = FALSE]
    /\ Goto(s, "run")
    /\ UNCHANGED <<vars, bossAt, batch, through, past, fails>>

\* kiso opens the session, unless a run that outlived its server still has it
RunStarts(s) ==
    /\ at[s] = "run" /\ ~seen[s] /\ pc[RunOf[s]] = "idle"
    /\ seen' = [seen EXCEPT ![s] = TRUE]
    /\ handed' = [handed EXCEPT ![s] = @ \cup batch[s]]
    /\ UNCHANGED <<vars, at, bossAt, batch, through, last, answered, broken, fails>>

\* the model posts, with boss_post
RunPosts(s) ==
    /\ at[s] = "run" /\ seen[s]
    /\ StartPost(RunOf[s])
    /\ UNCHANGED serving

StartServeAck(s) ==
    /\ Begin(s, [NoJob EXCEPT !.op = "read", !.through = through[s]])
    /\ pc' = [pc EXCEPT ![s] = "mail"]
    /\ settled' = [settled EXCEPT ![Me(s)] = @ \cup (IF seen[s] THEN batch[s] ELSE {})]
    /\ UNCHANGED <<files, locking, bounds, evicted, torn, confirmed, joined, lost>>

\* mutant: any end of a run is an end
DidRunX(s, exit) == TRUE

\* a run that fails did run if its prompt is in the session's log
DidRun(s, exit) == exit = 0 \/ seen[s]
RunExits(s) ==
    /\ at[s] = "run" /\ pc[RunOf[s]] \in {"idle", "down"}
    /\ \E exit \in {0, 1} :
          /\ exit = 0 => seen[s]
          /\ IF DidRun(s, exit)
             THEN StartServeAck(s) /\ Goto(s, "ack") /\ UNCHANGED fails
             ELSE /\ fails < MaxFails /\ fails' = fails + 1
                  /\ Goto(s, "poll") /\ UNCHANGED vars
    /\ UNCHANGED <<bossAt, turn, past>>

\* mutant: whatever this name has ever posted is an answer
PostedX(s) == \E m \in Messages : m.from = Me(s)

Posted(s) == \E m \in Messages : m.seq > last[s] /\ m.from = Me(s)

\* the automatic status goes to whom the server's role named when it started
StatusTo(s) == IF Me(s) = bossAt[s] THEN All ELSE bossAt[s]

StartStatus(s) ==
    /\ Begin(s, [NoJob EXCEPT !.op = "post", !.to = StatusTo(s), !.text = posts])
    /\ pc' = [pc EXCEPT ![s] = "locking"]
    /\ posts' = posts + 1
    /\ UNCHANGED <<files, locking, chores, crashes, history>>

\* post refuses a recipient that the room of now does not allow: an error
CheckAnswer(s) ==
    /\ at[s] = "check"
    /\ IF Posted(s)
       THEN /\ Goto(s, "poll") /\ answered' = [answered EXCEPT ![s] = {last[s]}]
            /\ UNCHANGED <<vars, bossAt, broken>>
       ELSE IF StatusTo(s) \in Recipients(Me(s))
       THEN StartStatus(s) /\ Goto(s, "post") /\ UNCHANGED <<bossAt, answered, broken>>
       ELSE Break(s) /\ UNCHANGED vars
    /\ UNCHANGED <<turn, handed, fails>>

\* a step of the command the server is in: what follows is decided by its end
Return(s) ==
    CASE at[s] = "ack"  -> Goto(s, "check") /\ UNCHANGED answered
      [] at[s] = "post" -> Goto(s, "poll") /\ answered' = [answered EXCEPT ![s] = {last[s]}]
      [] OTHER          -> UNCHANGED <<at, answered>>
ServeStep(s) ==
    /\ Step(s)
    /\ IF pc'[s] # "idle" THEN UNCHANGED <<at, bossAt, answered, broken>>
       ELSE IF pc[s] \in {"done", "mail"} THEN Return(s) /\ UNCHANGED <<bossAt, broken>>
       ELSE Break(s)
    /\ UNCHANGED <<turn, handed, fails>>

\* the server is killed in a command, or while kiso runs or has just returned
KillServer(s) ==
    /\ \/ Crash(s) \/ CutAppend(s)
       \/ /\ at[s] \in {"poll", "spawn", "run", "check"} /\ crashes < MaxCrashes
          /\ Die(s) /\ crashes' = crashes + 1
          /\ UNCHANGED <<files, stale, posts, chores, history>>
    /\ IF pc'[s] = "down" THEN Break(s) ELSE UNCHANGED <<at, bossAt, answered, broken>>
    /\ UNCHANGED <<turn, handed, fails>>

-----------------------------------------------------------------------------
ServerNext(s) ==
    \/ StartServe(s) \/ TakeMail(s) \/ Spawn(s) \/ RunStarts(s) \/ RunPosts(s)
    \/ RunExits(s) \/ CheckAnswer(s) \/ ServeStep(s) \/ KillServer(s)
    \/ at[s] = "off" /\ StartRoomCommand(s) /\ UNCHANGED serving
    \/ Restart(s) /\ UNCHANGED serving
RunNext(p) == Step(p) \/ CutAppend(p) \/ Crash(p) \/ Restart(p)
\* what somebody at a terminal does besides, read --ack and ack, is left to Mailbox
PlainNext(p) == StartRoomCommand(p) \/ StartPost(p) \/ StartWait(p) \/ RunNext(p)

ServeNext ==
    \/ \E s \in Servers : ServerNext(s)
    \/ UNCHANGED serving /\ (Age \/ (\E p \in Runs : RunNext(p)) \/ \E p \in Plain : PlainNext(p))

(* What Mailbox asks of a session that listens is asked of the server: it  *)
(* polls, its commands go on, a run that has started ends, one that has    *)
(* not started starts or fails, and it is started again.                   *)
ServeFairness ==
    /\ WF_allvars(Age /\ UNCHANGED serving)
    /\ \A p \in Plain : WF_allvars(StartWait(p) /\ UNCHANGED serving)
    /\ \A p \in Plain \cup Runs :
          WF_allvars((Step(p) \/ Restart(p)) /\ UNCHANGED serving)
    /\ \A s \in Servers :
          /\ WF_allvars(StartServe(s)) /\ WF_allvars(TakeMail(s)) /\ WF_allvars(Spawn(s))
          /\ WF_allvars(RunStarts(s)) /\ WF_allvars(RunExits(s))
          /\ WF_allvars(CheckAnswer(s)) /\ WF_allvars(ServeStep(s))
          /\ WF_allvars(Restart(s) /\ UNCHANGED serving)

ServeSpec == ServeInit /\ [][ServeNext]_allvars /\ ServeFairness

-----------------------------------------------------------------------------
(* Beside MailHeard and NothingSkipped of Mailbox.  For a server the first  *)
(* says that its mail is handed to a run in the end, the second that it     *)
(* acknowledges nothing that no run has seen.                               *)

\* A server that looks for mail again has answered the batch before: its name
\* has posted, the run or the server itself, since that batch was read.
Answered ==
    ~evicted /\ ~torn => \A s \in Servers : at[s] = "poll" =>
        \A seq \in answered[s] : \E m \in Messages : m.from = Me(s) /\ m.seq > seq

\* No mail is given to a second run when one has seen it, unless a turn was cut
\* short, whoever else reads or acknowledges under the server's name.
HandedOnce ==
    ~evicted /\ ~torn /\ ~broken => \A s \in Servers :
        at[s] = "run" /\ ~seen[s] => batch[s] \cap handed[s] = {}
=============================================================================
