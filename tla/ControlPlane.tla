---------------------------- MODULE ControlPlane ----------------------------
(***************************************************************************)
(* Who may change the desired-state file, and how the daemon learns of it: *)
(* the CLI's commands (jobs pause/resume/remove/add/edit, reload), the     *)
(* socket with its sequential server, the daemon's control channel, its    *)
(* start, stop and crash.  A request is served on the IPC thread; the main *)
(* thread reloads.                                                         *)
(***************************************************************************)
EXTENDS Integers, Sequences, FiniteSets

CONSTANTS
    Job, Broken, EmptyParses,   \* as in ConfigFile
    Client,                     \* commands run by users
    Tasks,                      \* what they may be: [op, job] or [op |-> "reload"] each
    Pid, NoPid,                 \* daemon processes
    NoClient,
    FirstFile,                  \* the file to begin with
    Supervised,                 \* one daemon process at a time
    MaxFaults                   \* stops, crashes, suspended commands, broken files: in all

VARIABLES
    file, history,              \* the file; every write to it, in order (a ghost)
    row, sock,                  \* daemon_state.state; whose socket is at the path
    main, stop, chan,           \* a daemon's main thread
    seen,                       \* how much of the history its schedule was built from
    ipc, serving, backlog, reply,           \* its IPC thread
    cand, base,                 \* a writer's candidate; how much of the history went
                                \* before a daemon's reading, or a jobs edit's comparison
    pc, task, seed, conn, sent, \* a command
    budget

daemonVars == <<main, stop, chan, seen>>
ipcVars    == <<ipc, serving, backlog, reply>>
clientVars == <<pc, task, seed, conn, sent>>
vars == <<file, history, row, sock, daemonVars, ipcVars, cand, base, clientVars, budget>>

\* A writer who goes through no daemon has written since w read the file.
Outsider(w) == \E n \in base[w] + 1 .. Len(history) : history[n].by \notin Pid

\* The daemon owns the file: it is recorded as running, no command started before
\* is still writing past it, and none has while a request is being handled.
Served ==
    /\ row = "running"
    /\ \A c \in Client : pc[c] # "writing"
    /\ \A p \in Pid : main[p] = "up" /\ ipc[p] = "write" => ~Outsider(p)

CF == INSTANCE ConfigFile WITH content <- file, served <- Served,
          log <- [n \in DOMAIN history |-> history[n].m]

\* What a command asks for.
Task == [op : {"pause", "resume", "remove", "add", "edit"}, job : Job] \cup [op : {"reload"}]

ASSUME ControlAssumption ==
    /\ NoPid \notin Pid /\ NoClient \notin Client /\ Broken \notin CF!Content
    /\ ({"cli", "user"} \cup Client) \cap Pid = {}
    /\ Tasks \subseteq [Client -> Task]
    /\ FirstFile \in CF!Content
    /\ Supervised \in BOOLEAN
    /\ MaxFaults \in Nat

\* The mutation a command asks for.  jobs edit sends back the text it was given
\* with the user's change in it; what the user changes is to switch a job off.
Typed(f, j) == IF f = Broken THEN FirstFile
               ELSE [f EXCEPT ![j] = IF @ = "off" THEN "on" ELSE "off"]
Mutation(c) ==
    IF task[c].op = "edit" THEN [op |-> "replace", to |-> Typed(seed[c], task[c].job)]
    ELSE task[c]

\* How commands end: each value is a message and an exit code.
Ended == {"applied", "nextstart", "refused", "failed", "unreachable", "unclear",
          "nochange", "killed"}

Alive(p) == main[p] \notin {"idle", "exited", "crashed"}
Listening(p) == Alive(p) /\ ipc[p] \in {"accept", "serve", "write", "reply"}

Init ==
    /\ file = FirstFile /\ history = <<>>
    /\ row = "none" /\ sock = NoPid
    /\ main = [p \in Pid |-> "idle"] /\ stop = [p \in Pid |-> FALSE]
    /\ chan = [p \in Pid |-> 0]
    /\ seen = [p \in Pid |-> 0]
    /\ ipc = [p \in Pid |-> "off"] /\ serving = [p \in Pid |-> NoClient]
    /\ backlog = [p \in Pid |-> <<>>] /\ reply = [p \in Pid |-> "refused"]
    /\ cand = [w \in Pid \cup Client |-> FirstFile]
    /\ base = [w \in Pid \cup Client |-> 0]
    /\ task \in Tasks
    /\ pc = [c \in Client |-> IF task[c].op = "edit" THEN "idle" ELSE "dispatch"]
    /\ seed = [c \in Client |-> FirstFile]
    /\ conn = [c \in Client |-> NoPid] /\ sent = [c \in Client |-> FALSE]
    /\ budget = MaxFaults

Spend == budget > 0 /\ budget' = budget - 1

\* config_edit::atomic_write: the file is replaced whole.  `by` is whose write it
\* is, `who` the command it serves.
Rename(content, by, who, m) ==
    /\ file' = content
    /\ history' = Append(history, [by |-> by, who |-> who, m |-> m])

\* The buffers of a writer who is done.
Forget(w) == /\ cand' = [cand EXCEPT ![w] = FirstFile]
             /\ base' = [base EXCEPT ![w] = 0]

-----------------------------------------------------------------------------
(* The command line.                                                         *)

\* run_jobs_edit reads the file and opens the editor on it.
OpenEditor(c) ==
    /\ pc[c] = "idle"
    /\ seed' = [seed EXCEPT ![c] = file]
    /\ pc' = [pc EXCEPT ![c] = "editing"]
    /\ UNCHANGED <<file, history, row, sock, daemonVars, ipcVars, cand, base, task,
                   conn, sent, budget>>

\* Mutant: the file is not compared.
CloseUnlooked(c) ==
    /\ pc[c] = "editing"
    /\ \/ pc' = [pc EXCEPT ![c] = "nochange"] /\ UNCHANGED base
       \/ /\ pc' = [pc EXCEPT ![c] = "dispatch"]
          /\ base' = [base EXCEPT ![c] = Len(history)]
    /\ UNCHANGED <<file, history, row, sock, daemonVars, ipcVars, cand, task, seed,
                   conn, sent, budget>>

\* The editor ends: nothing changed or an invalid buffer was given up, or the file
\* has changed meanwhile and the edit is refused, or the edit goes on its way.
CloseEditor(c) ==
    /\ pc[c] = "editing"
    /\ \/ pc' = [pc EXCEPT ![c] = "nochange"] /\ UNCHANGED base
       \/ file # seed[c] /\ pc' = [pc EXCEPT ![c] = "refused"] /\ UNCHANGED base
       \/ /\ file = seed[c] /\ pc' = [pc EXCEPT ![c] = "dispatch"]
          /\ base' = [base EXCEPT ![c] = Len(history)]
    /\ UNCHANGED <<file, history, row, sock, daemonVars, ipcVars, cand, task, seed,
                   conn, sent, budget>>

\* dispatch_mutation and run_reload: the recorded state decides which way to go.
\* A reload of a broken file is refused at once.
Dispatch(c) ==
    /\ pc[c] = "dispatch"
    /\ pc' = [pc EXCEPT ![c] =
           CASE task[c].op = "reload" /\ file = Broken -> "refused"
             [] row = "running" -> "connect"
             [] row # "running" /\ task[c].op = "reload" /\ file # Broken -> "nextstart"
             [] OTHER -> "direct"]
    /\ UNCHANGED <<file, history, row, sock, daemonVars, ipcVars, cand, base, task,
                   seed, conn, sent, budget>>

\* Client::connect: to whoever listens on the socket at the path, if anybody does.
Connect(c) ==
    /\ pc[c] = "connect"
    /\ IF sock # NoPid /\ Listening(sock)
         THEN /\ conn' = [conn EXCEPT ![c] = sock]
              /\ backlog' = [backlog EXCEPT ![sock] = Append(@, c)]
              /\ pc' = [pc EXCEPT ![c] = "connected"]
         ELSE /\ pc' = [pc EXCEPT ![c] = "unreachable"]
              /\ UNCHANGED <<conn, backlog>>
    /\ UNCHANGED <<file, history, row, sock, daemonVars, ipc, serving, reply, cand,
                   base, task, seed, sent, budget>>

\* The connection still has its other end.
Held(c) == /\ Listening(conn[c])
           /\ serving[conn[c]] = c \/ \E i \in DOMAIN backlog[conn[c]] : backlog[conn[c]][i] = c

\* Client::call writes the request, and then blocks until the answer.
Send(c) ==
    /\ pc[c] = "connected" /\ Held(c)
    /\ sent' = [sent EXCEPT ![c] = TRUE]
    /\ pc' = [pc EXCEPT ![c] = "waiting"]
    /\ UNCHANGED <<file, history, row, sock, daemonVars, ipcVars, cand, base, task,
                   seed, conn, budget>>

\* The connection is closed before an answer: nobody knows what became of it.
HangUp(c) ==
    /\ pc[c] \in {"connected", "waiting"} /\ ~Held(c)
    /\ pc' = [pc EXCEPT ![c] = "unclear"]
    /\ UNCHANGED <<file, history, row, sock, daemonVars, ipcVars, cand, base, task,
                   seed, conn, sent, budget>>

\* apply_to_disk on the CLI's side: read and edit ...
DirectRead(c) ==
    /\ pc[c] = "direct"
    /\ LET made == CF!Candidates(file, Mutation(c)) IN
         IF made = {} THEN /\ pc' = [pc EXCEPT ![c] = "refused"]
                           /\ UNCHANGED cand
         ELSE /\ cand' = [cand EXCEPT ![c] = CHOOSE f \in made : TRUE]
              /\ pc' = [pc EXCEPT ![c] = "writing"]
    /\ UNCHANGED <<file, history, row, sock, daemonVars, ipcVars, base, task, seed,
                   conn, sent, budget>>

\* ... and replace the file, which may fail.
DirectWrite(c) ==
    /\ pc[c] = "writing"
    /\ \/ Rename(cand[c], "cli", c, Mutation(c)) /\ pc' = [pc EXCEPT ![c] = "applied"]
       \/ UNCHANGED <<file, history>> /\ pc' = [pc EXCEPT ![c] = "failed"]
    /\ Forget(c)
    /\ UNCHANGED <<row, sock, daemonVars, ipcVars, task, seed, conn, sent, budget>>

\* A command is suspended (^Z) while it is connected; it may be killed later.
Suspend(c) ==
    /\ pc[c] \in {"connected", "waiting"} /\ Spend
    /\ pc' = [pc EXCEPT ![c] = "suspended"]
    /\ UNCHANGED <<file, history, row, sock, daemonVars, ipcVars, cand, base, task,
                   seed, conn, sent>>

Kill(c) ==
    /\ pc[c] = "suspended"
    /\ pc' = [pc EXCEPT ![c] = "killed"]
    /\ UNCHANGED <<file, history, row, sock, daemonVars, ipcVars, cand, base, task,
                   seed, conn, sent, budget>>

\* The user writes the file by hand, and gets it wrong.
HandEdit ==
    /\ Spend
    /\ Rename(Broken, "user", NoClient, [op |-> "replace", to |-> Broken])
    /\ UNCHANGED <<row, sock, daemonVars, ipcVars, cand, base, clientVars>>

-----------------------------------------------------------------------------
(* The IPC thread.                                                           *)

\* Mutant: a socket file a crashed daemon has left is in the way.
BindInUse(p) ==
    /\ ipc[p] = "bind" /\ main[p] # "crashed"
    /\ IF sock = NoPid THEN sock' = p /\ ipc' = [ipc EXCEPT ![p] = "accept"]
                       ELSE ipc' = [ipc EXCEPT ![p] = "done"] /\ UNCHANGED sock
    /\ UNCHANGED <<file, history, row, daemonVars, serving, backlog, reply, cand, base,
                   clientVars, budget>>

\* bind clears whatever socket file there is.
Bind(p) ==
    /\ ipc[p] = "bind" /\ main[p] # "crashed"
    /\ sock' = p
    /\ ipc' = [ipc EXCEPT ![p] = "accept"]
    /\ UNCHANGED <<file, history, row, daemonVars, serving, backlog, reply, cand, base,
                   clientVars, budget>>

Accept(p) ==
    /\ ipc[p] = "accept" /\ Alive(p) /\ ~stop[p] /\ backlog[p] # <<>>
    /\ serving' = [serving EXCEPT ![p] = Head(backlog[p])]
    /\ backlog' = [backlog EXCEPT ![p] = Tail(@)]
    /\ ipc' = [ipc EXCEPT ![p] = "serve"]
    /\ UNCHANGED <<file, history, row, sock, daemonVars, reply, cand, base, clientVars,
                   budget>>

\* Mutant: accept blocks, and the flag is seen after the next connection.
StopAfterNext(p) ==
    /\ ipc[p] = "accept" /\ Alive(p) /\ stop[p] /\ backlog[p] # <<>>
    /\ sock' = NoPid
    /\ backlog' = [backlog EXCEPT ![p] = <<>>]
    /\ ipc' = [ipc EXCEPT ![p] = "done"]
    /\ UNCHANGED <<file, history, row, daemonVars, serving, reply, cand, base,
                   clientVars, budget>>

\* The loop sees the stop flag: the file at the path is removed, whosever it is,
\* and the connections nobody has accepted are closed.
StopServing(p) ==
    /\ ipc[p] = "accept" /\ Alive(p) /\ stop[p]
    /\ sock' = NoPid
    /\ backlog' = [backlog EXCEPT ![p] = <<>>]
    /\ ipc' = [ipc EXCEPT ![p] = "done"]
    /\ UNCHANGED <<file, history, row, daemonVars, serving, reply, cand, base,
                   clientVars, budget>>

\* A request is read and handled: a reload is queued, a mutation is made to what
\* the file now holds.
Handle(p) ==
    LET c == serving[p]
        made == CF!Candidates(file, Mutation(c))
    IN
    /\ ipc[p] = "serve" /\ Alive(p) /\ sent[c]
    /\ sent' = [sent EXCEPT ![c] = FALSE]
    /\ IF task[c].op # "reload" /\ made # {}
         THEN /\ cand' = [cand EXCEPT ![p] = CHOOSE f \in made : TRUE]
              /\ base' = [base EXCEPT ![p] = Len(history)]
              /\ ipc' = [ipc EXCEPT ![p] = "write"]
              /\ UNCHANGED <<chan, reply>>
         ELSE /\ chan' = [chan EXCEPT ![p] = IF task[c].op = "reload" THEN @ + 1 ELSE @]
              /\ reply' = [reply EXCEPT ![p] =
                               IF task[c].op = "reload" THEN "applied" ELSE "refused"]
              /\ ipc' = [ipc EXCEPT ![p] = "reply"]
              /\ UNCHANGED <<cand, base>>
    /\ UNCHANGED <<file, history, row, sock, main, stop, seen, serving, backlog,
                   pc, task, seed, conn, budget>>

\* Mutant: the file is truncated and then written in place.
CommitInPlace(p) ==
    /\ ipc[p] = "write" /\ Alive(p)
    /\ \/ /\ file # Broken /\ file' = Broken
          /\ UNCHANGED <<history, chan, reply, ipc, cand, base>>
       \/ /\ file = Broken
          /\ Rename(cand[p], p, serving[p], Mutation(serving[p]))
          /\ chan' = [chan EXCEPT ![p] = @ + 1]
          /\ reply' = [reply EXCEPT ![p] = "applied"]
          /\ ipc' = [ipc EXCEPT ![p] = "reply"]
          /\ Forget(p)
    /\ UNCHANGED <<row, sock, main, stop, seen, serving, backlog, clientVars, budget>>

\* Mutant: the write is made and no reload queued.
CommitQuietly(p) ==
    /\ ipc[p] = "write" /\ Alive(p)
    /\ Rename(cand[p], p, serving[p], Mutation(serving[p]))
    /\ reply' = [reply EXCEPT ![p] = "applied"]
    /\ ipc' = [ipc EXCEPT ![p] = "reply"]
    /\ Forget(p)
    /\ UNCHANGED <<row, sock, daemonVars, serving, backlog, clientVars,
                   budget>>

\* Mutant: success is answered whatever became of the write.
CommitBlindly(p) ==
    /\ ipc[p] = "write" /\ Alive(p)
    /\ \/ Rename(cand[p], p, serving[p], Mutation(serving[p]))
       \/ UNCHANGED <<file, history>>
    /\ chan' = [chan EXCEPT ![p] = @ + 1]
    /\ reply' = [reply EXCEPT ![p] = "applied"]
    /\ ipc' = [ipc EXCEPT ![p] = "reply"]
    /\ Forget(p)
    /\ UNCHANGED <<row, sock, main, stop, seen, serving, backlog,
                   clientVars, budget>>

\* The write, then a reload is queued; the answer is Ok.  Or the write fails.
Commit(p) ==
    /\ ipc[p] = "write" /\ Alive(p)
    /\ \/ /\ Rename(cand[p], p, serving[p], Mutation(serving[p]))
          /\ chan' = [chan EXCEPT ![p] = @ + 1]
          /\ reply' = [reply EXCEPT ![p] = "applied"]
       \/ /\ reply' = [reply EXCEPT ![p] = "refused"]
          /\ UNCHANGED <<file, history, chan>>
    /\ ipc' = [ipc EXCEPT ![p] = "reply"]
    /\ Forget(p)
    /\ UNCHANGED <<row, sock, main, stop, seen, serving, backlog,
                   clientVars, budget>>

\* The answer reaches the command if it is still waiting; it prints it and ends.
Reply(p) ==
    /\ ipc[p] = "reply" /\ Alive(p)
    /\ ipc' = [ipc EXCEPT ![p] = "serve"]
    /\ pc' = [pc EXCEPT ![serving[p]] = IF @ = "waiting" THEN reply[p] ELSE @]
    /\ reply' = [reply EXCEPT ![p] = "refused"]
    /\ UNCHANGED <<file, history, row, sock, daemonVars, serving, backlog, cand, base,
                   task, seed, conn, sent, budget>>

\* End of file: the command is gone, and with nothing more to read the thread
\* takes the next connection.
EndOfFile(p) ==
    /\ ipc[p] = "serve" /\ Alive(p)
    /\ ~sent[serving[p]] /\ pc[serving[p]] \in Ended
    /\ serving' = [serving EXCEPT ![p] = NoClient]
    /\ ipc' = [ipc EXCEPT ![p] = "accept"]
    /\ UNCHANGED <<file, history, row, sock, daemonVars, backlog, reply, cand, base,
                   clientVars, budget>>

-----------------------------------------------------------------------------
(* The main thread.                                                          *)

\* daemon start, by a service manager or by hand; a daemon recorded as running is
\* in the way only of the latter (Supervision.tla has its heartbeat).
Start(p) ==
    /\ main[p] = "idle"
    /\ IF Supervised THEN \A q \in Pid : ~Alive(q) ELSE row # "running"
    /\ main' = [main EXCEPT ![p] = "starting"]
    /\ UNCHANGED <<file, history, row, sock, stop, chan, seen, ipcVars, cand,
                   base, clientVars, budget>>

\* load_validated_config: a broken file ends the start.
Load(p) ==
    /\ main[p] = "starting"
    /\ main' = [main EXCEPT ![p] = IF file = Broken THEN "exited" ELSE "loaded"]
    /\ seen' = [seen EXCEPT ![p] = Len(history)]
    /\ UNCHANGED <<file, history, row, sock, stop, chan, ipcVars, cand, base,
                   clientVars, budget>>

\* record_daemon_started, and the IPC thread is spawned.
Record(p) ==
    /\ main[p] = "loaded"
    /\ row' = "running"
    /\ main' = [main EXCEPT ![p] = "up"]
    /\ ipc' = [ipc EXCEPT ![p] = "bind"]
    /\ UNCHANGED <<file, history, sock, stop, chan, seen, serving, backlog,
                   reply, cand, base, clientVars, budget>>

\* A queued reload: what is loaded stays if the file is broken.
Reload(p) ==
    /\ main[p] = "up" /\ chan[p] > 0
    /\ chan' = [chan EXCEPT ![p] = @ - 1]
    /\ seen' = [seen EXCEPT ![p] = IF file = Broken THEN @ ELSE Len(history)]
    /\ UNCHANGED <<file, history, row, sock, main, stop, ipcVars, cand, base,
                   clientVars, budget>>

\* SIGTERM: the watcher raises the flag and wakes the loop.
Signal(p) ==
    /\ main[p] = "up" /\ ~stop[p] /\ Spend
    /\ stop' = [stop EXCEPT ![p] = TRUE]
    /\ UNCHANGED <<file, history, row, sock, main, chan, seen, ipcVars, cand,
                   base, clientVars>>

LeaveLoop(p) ==
    /\ main[p] = "up" /\ stop[p]
    /\ row' = "stopping"
    /\ main' = [main EXCEPT ![p] = "draining"]
    /\ UNCHANGED <<file, history, sock, stop, chan, seen, ipcVars, cand, base,
                   clientVars, budget>>

\* Runs are drained, the IPC thread is joined, the last word is recorded.
Join(p) ==
    /\ main[p] = "draining" /\ ipc[p] = "done"
    /\ row' = "stopped"
    /\ main' = [main EXCEPT ![p] = "exited"]
    /\ chan' = [chan EXCEPT ![p] = 0]
    /\ stop' = [stop EXCEPT ![p] = FALSE]
    /\ UNCHANGED <<file, history, sock, seen, ipcVars, cand, base,
                   clientVars, budget>>

\* The process dies with its threads; the row and the socket file stay.
Crash(p) ==
    /\ Alive(p) /\ Spend
    /\ main' = [main EXCEPT ![p] = "crashed"]
    /\ chan' = [chan EXCEPT ![p] = 0]
    /\ stop' = [stop EXCEPT ![p] = FALSE]
    /\ ipc' = [ipc EXCEPT ![p] = "done"]
    /\ serving' = [serving EXCEPT ![p] = NoClient]
    /\ backlog' = [backlog EXCEPT ![p] = <<>>]
    /\ Forget(p)
    /\ UNCHANGED <<file, history, row, sock, seen, reply, clientVars>>

-----------------------------------------------------------------------------
CommandStep(c) ==
    \/ Dispatch(c) \/ Connect(c) \/ Send(c) \/ HangUp(c)
    \/ DirectRead(c) \/ DirectWrite(c)
UserStep(c) == OpenEditor(c) \/ CloseEditor(c) \/ Suspend(c) \/ Kill(c)
IpcStep(p) ==
    \/ Bind(p) \/ Accept(p) \/ StopServing(p) \/ Handle(p) \/ Commit(p)
    \/ Reply(p) \/ EndOfFile(p)
MainStep(p) == Load(p) \/ Record(p) \/ Reload(p) \/ LeaveLoop(p) \/ Join(p)
Outside(p) == Start(p) \/ Signal(p) \/ Crash(p)

Next ==
    \/ \E c \in Client : CommandStep(c) \/ UserStep(c)
    \/ \E p \in Pid : IpcStep(p) \/ MainStep(p) \/ Outside(p)
    \/ HandEdit

Spec == Init /\ [][Next]_vars

\* Threads and commands are scheduled; users, signals and crashes owe nothing.
Fairness ==
    /\ \A c \in Client : WF_vars(CommandStep(c))
    /\ \A p \in Pid : WF_vars(IpcStep(p)) /\ WF_vars(MainStep(p))
FairSpec == Spec /\ Fairness

-----------------------------------------------------------------------------
(* Properties.                                                               *)

Text == CF!Content \cup {Broken}
Entry == [by : Pid \cup {"cli", "user"}, who : Client \cup {NoClient},
          m : CF!Surgical \cup CF!Replace \cup CF!ByHand \cup [op : {"reload"}]]

TypeOK ==
    /\ file \in Text /\ history \in Seq(Entry)
    /\ row \in {"none", "running", "stopping", "stopped"} /\ sock \in Pid \cup {NoPid}
    /\ main \in [Pid -> {"idle", "starting", "loaded", "up", "draining", "exited", "crashed"}]
    /\ stop \in [Pid -> BOOLEAN] /\ chan \in [Pid -> Nat] /\ seen \in [Pid -> Nat]
    /\ ipc \in [Pid -> {"off", "bind", "accept", "serve", "write", "reply", "done"}]
    /\ serving \in [Pid -> Client \cup {NoClient}] /\ backlog \in [Pid -> Seq(Client)]
    /\ reply \in [Pid -> {"applied", "refused"}]
    /\ cand \in [Pid \cup Client -> Text] /\ base \in [Pid \cup Client -> Nat]
    /\ pc \in [Client -> {"idle", "editing", "dispatch", "connect", "connected",
                          "waiting", "direct", "writing", "suspended"} \cup Ended]
    /\ task \in [Client -> Task] /\ seed \in [Client -> Text]
    /\ conn \in [Client -> Pid \cup {NoPid}] /\ sent \in [Client -> BOOLEAN]
    /\ budget \in Nat

\* While a daemon owns the file, crashes and restarts included, a pause, resume,
\* removal or addition is made to what the write before it left, so that it undoes
\* nobody's change of another job; and what is written always parses, unless it is
\* written by hand.  The whole text of a `jobs edit` is another matter: it replaces
\* whatever is there (apply_to_disk on the one IPC thread, dispatch_mutation's
\* choice of the way).
ImplementsConfigFile == CF!Spec

\* A `jobs edit` never overwrites a change made while the user was editing, by whatever
\* way it is written and whoever is the other writer: what it overwrites unseen was
\* written between its comparison and its own write, which nothing holds together
\* (run_jobs_edit's "staleness guard", dispatch_mutation, apply_to_disk).
EditClobbersOnlyTheNew ==
    [][\A c \in Client :
         /\ task[c].op = "edit"
         /\ history' # history /\ history'[Len(history')].who = c
         => file = seed[c] \/ Len(history) > base[c]]_vars

\* The writes made for a command.
Writes(c) == {n \in DOMAIN history : history[n].who = c}

\* What a command says is what was done: "applied" is one write, any refusal is
\* none, and only a connection that broke leaves it open (ipc_handler's promise
\* that reporting an error about a changed file "would be a lie").
AnswersAreTrue == \A c \in Client :
    /\ \A m, n \in Writes(c) : m = n
    /\ pc[c] = "applied" /\ task[c].op # "reload" => Writes(c) # {}
    /\ pc[c] \in Ended \ {"applied", "unclear", "killed"} => Writes(c) = {}

\* A daemon has made a write that its schedule does not know of.
Behind(p) == \E n \in seen[p] + 1 .. Len(history) : history[n].by = p

\* Every write a daemon makes reaches its own schedule, unless it goes down first
\* or somebody breaks the file meanwhile (a Reload is queued behind each write,
\* and a reload that meets a broken file is not made up for).
ScheduleCatchesUp == \A p \in Pid :
    Behind(p) ~> \/ ~Behind(p) \/ main[p] # "up"
                 \/ \E n \in seen[p] + 1 .. Len(history) : history[n].by = "user"

\* A daemon that is up gets the socket, whatever an earlier one left at the path.
SocketIsTaken == \A p \in Pid : main[p] = "up" ~> (sock = p \/ main[p] # "up" \/ stop[p])

\* A daemon told to stop ends, unless the connection it serves is held open by a
\* command that is suspended (serve_connection reads until end of file).
StopEnds == \A p \in Pid :
    stop[p] ~> \/ main[p] \in {"exited", "crashed"}
               \/ \E c \in Client : serving[p] = c /\ pc[c] = "suspended"
=============================================================================
