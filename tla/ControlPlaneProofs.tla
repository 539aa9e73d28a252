------------------------- MODULE ControlPlaneProofs -------------------------
(***************************************************************************)
(* What holds of the control plane for any number of commands, daemons,    *)
(* jobs and faults: types, the truth of every answer, and, when a service  *)
(* manager runs one daemon at a time, the refinement of ConfigFile.        *)
(***************************************************************************)
EXTENDS ControlPlane, SequenceTheorems, TLAPS

\* A command has yet to ask anybody, or has asked and got no answer.
Asking == {"idle", "editing", "dispatch", "connect", "connected", "direct", "writing"}
Asked  == {"waiting", "suspended", "killed", "unclear"}

\* The daemon p has a connection of c.
Has(p, c) == serving[p] = c \/ \E i \in DOMAIN backlog[p] : backlog[p][i] = c

\* A command is connected to one daemon, which handles its request once.
Session(p) ==
    /\ ipc[p] \in {"serve", "write", "reply"} => serving[p] \in Client
    /\ \A c \in Client : Has(p, c) =>
         conn[c] = p /\ pc[c] \in Asked \cup {"connected", "applied", "refused"}
    /\ ipc[p] = "write" =>
         /\ pc[serving[p]] \in Asked /\ ~sent[serving[p]]
         /\ task[serving[p]].op # "reload"
         /\ Writes(serving[p]) = {}
    /\ ipc[p] = "reply" =>
         /\ pc[serving[p]] \in Asked /\ ~sent[serving[p]]
         /\ reply[p] = "refused" => Writes(serving[p]) = {}
         /\ reply[p] = "applied" /\ task[serving[p]].op # "reload" => Writes(serving[p]) # {}

\* What a command has sent is still to be handled; and its answer is true.
Command(c) ==
    /\ pc[c] \in Asking => Writes(c) = {} /\ ~sent[c]
    /\ sent[c] => Writes(c) = {} /\ pc[c] \in Asked
    /\ \A m, n \in Writes(c) : m = n
    /\ pc[c] = "applied" /\ task[c].op # "reload" => Writes(c) # {}
    /\ pc[c] \in Ended \ {"applied", "unclear", "killed"} => Writes(c) = {}

Sessions == (\A p \in Pid : Session(p)) /\ (\A c \in Client : Command(c))

\* One daemon at a time; its IPC thread lives in it; while it drains it is recorded
\* as stopping.
OneDaemon ==
    /\ \A p, q \in Pid : Alive(p) /\ Alive(q) => p = q
    /\ \A p \in Pid : ipc[p] \notin {"off", "done"} => main[p] \in {"up", "draining"}
    /\ \A p \in Pid : main[p] = "draining" => row = "stopping"

\* A candidate is what its mutation makes of the file, until somebody writes; and
\* who writes is no daemon.
Fresh(p) == ipc[p] = "write" =>
    /\ base[p] <= Len(history)
    /\ \A n \in base[p] + 1 .. Len(history) : history[n].by \notin Pid
    /\ base[p] = Len(history) => cand[p] \in CF!Candidates(file, Mutation(serving[p]))

Ownership == OneDaemon /\ \A p \in Pid : Fresh(p)

-----------------------------------------------------------------------------
(* Types.                                                                    *)

LEMMA MutationType ==
  ASSUME TypeOK, NEW c \in Client
  PROVE  /\ Mutation(c) \in CF!Surgical \cup CF!Replace \cup [op : {"reload"}]
         /\ task[c].op # "reload" => Mutation(c) \in CF!Surgical \cup CF!Replace
<1> USE DEF TypeOK, Task
<1>1. task[c] \in Task OBVIOUS
<1>2. CASE task[c].op = "edit"
  <2>1. task[c].job \in Job BY <1>1, <1>2
  <2>2. Typed(seed[c], task[c].job) \in CF!Content
    BY <2>1, ControlAssumption DEF Typed, Text, CF!Content
  <2> QED BY <1>2, <2>2 DEF Mutation, CF!Replace
<1>3. CASE task[c].op # "edit"
  BY <1>1, <1>3 DEF Mutation, CF!Surgical
<1> QED BY <1>2, <1>3

LEMMA CandidateType ==
  ASSUME NEW f \in Text, NEW m \in CF!Surgical \cup CF!Replace \cup CF!ByHand \cup [op : {"reload"}]
  PROVE  CF!Candidates(f, m) \subseteq Text
<1>1. CASE m.op = "replace"
  BY <1>1 DEF CF!Candidates, CF!Replace, CF!ByHand, CF!Surgical, Text
<1>2. CASE m.op # "replace"
  <2>1. CF!Stays(m.op) \in {"absent", "on", "off"} BY DEF CF!Stays
  <2>2. CF!Allowed(f, m) => f \in CF!Content BY DEF CF!Allowed, Text
  <2>3. f \in CF!Content => [f EXCEPT ![m.job] = CF!Stays(m.op)] \in CF!Content
    BY <2>1 DEF CF!Content
  <2> QED BY <1>2, <2>2, <2>3 DEF CF!Candidates, Text
<1> QED BY <1>1, <1>2

\* The candidate a writer makes is one of the contents its mutation leaves.
LEMMA MadeType ==
  ASSUME TypeOK, NEW c \in Client, CF!Candidates(file, Mutation(c)) # {}
  PROVE  /\ (CHOOSE f \in CF!Candidates(file, Mutation(c)) : TRUE)
                \in CF!Candidates(file, Mutation(c))
         /\ (CHOOSE f \in CF!Candidates(file, Mutation(c)) : TRUE) \in Text
<1>1. CF!Candidates(file, Mutation(c)) \subseteq Text
  BY MutationType, CandidateType DEF TypeOK
<1> QED BY <1>1

LEMMA RenameType ==
  ASSUME TypeOK, NEW w \in Pid \cup {"cli", "user"}, NEW c \in Client \cup {NoClient},
         NEW m \in CF!Surgical \cup CF!Replace \cup CF!ByHand \cup [op : {"reload"}],
         NEW f \in Text,
         Rename(f, w, c, m)
  PROVE  /\ file' \in Text /\ history' \in Seq(Entry)
         /\ Len(history') = Len(history) + 1
         /\ \A n \in 1 .. Len(history) : history'[n] = history[n]
         /\ history'[Len(history) + 1] = [by |-> w, who |-> c, m |-> m]
<1>1. [by |-> w, who |-> c, m |-> m] \in Entry BY DEF Entry
<1>2. history \in Seq(Entry) BY DEF TypeOK
<1>3. file' = f /\ history' = Append(history, [by |-> w, who |-> c, m |-> m])
  BY DEF Rename
<1> HIDE DEF Entry
<1> QED BY <1>1, <1>2, <1>3, AppendProperties

LEMMA InitTypes == Init => TypeOK
<1> SUFFICES ASSUME Init PROVE TypeOK OBVIOUS
<1>1. FirstFile \in Text BY ControlAssumption DEF Text
<1>2. task \in [Client -> Task] BY ControlAssumption DEF Init
<1> QED BY <1>1, <1>2, ControlAssumption DEF Init, TypeOK, Ended

LEMMA CommandTypes ==
  ASSUME TypeOK, NEW c \in Client, CommandStep(c) \/ UserStep(c)
  PROVE  TypeOK'
<1> USE DEF TypeOK, daemonVars, ipcVars, clientVars, Ended
<1>1. CASE OpenEditor(c) BY <1>1 DEF OpenEditor
<1>2. CASE CloseEditor(c)
  <2>1. Len(history) \in Nat BY LenProperties
  <2>2. base' \in [Pid \cup Client -> Nat] BY <1>2, <2>1 DEF CloseEditor
  <2>3. pc' = [pc EXCEPT ![c] = "nochange"] \/ pc' = [pc EXCEPT ![c] = "refused"]
        \/ pc' = [pc EXCEPT ![c] = "dispatch"]
    BY <1>2 DEF CloseEditor
  <2> QED BY <1>2, <2>2, <2>3 DEF CloseEditor
<1>3. CASE Dispatch(c) BY <1>3 DEF Dispatch
<1>4. CASE Connect(c)
  <2>1. CASE sock # NoPid /\ Listening(sock)
    <3>1. sock \in Pid BY <2>1
    <3>2. Append(backlog[sock], c) \in Seq(Client) BY <3>1
    <3>3. conn' \in [Client -> Pid \cup {NoPid}] BY <1>4, <2>1 DEF Connect
    <3>4. backlog' \in [Pid -> Seq(Client)] BY <1>4, <2>1, <3>1, <3>2 DEF Connect
    <3>5. pc' = [pc EXCEPT ![c] = "connected"] BY <1>4, <2>1 DEF Connect
    <3> QED BY <1>4, <3>3, <3>4, <3>5 DEF Connect
  <2>2. CASE ~(sock # NoPid /\ Listening(sock)) BY <1>4, <2>2 DEF Connect
  <2> QED BY <2>1, <2>2
<1>5. CASE Send(c) BY <1>5 DEF Send
<1>6. CASE HangUp(c) BY <1>6 DEF HangUp
<1>7. CASE DirectRead(c)
  <2>1. CASE CF!Candidates(file, Mutation(c)) = {} BY <1>7, <2>1 DEF DirectRead
  <2>2. CASE CF!Candidates(file, Mutation(c)) # {}
    <3>1. (CHOOSE f \in CF!Candidates(file, Mutation(c)) : TRUE) \in Text
      BY <2>2, MadeType
    <3>3. cand' \in [Pid \cup Client -> Text] BY <1>7, <2>2, <3>1 DEF DirectRead
    <3>4. pc' = [pc EXCEPT ![c] = "writing"] BY <1>7, <2>2 DEF DirectRead
    <3> QED BY <1>7, <3>3, <3>4 DEF DirectRead
  <2> QED BY <2>1, <2>2
<1>8. CASE DirectWrite(c)
  <2>1. file' \in Text /\ history' \in Seq(Entry)
    <3>1. CASE Rename(cand[c], "cli", c, Mutation(c)) BY <3>1, RenameType, MutationType
    <3>2. CASE UNCHANGED <<file, history>> BY <3>2
    <3> QED BY <1>8, <3>1, <3>2 DEF DirectWrite
  <2>2. cand' \in [Pid \cup Client -> Text] /\ base' \in [Pid \cup Client -> Nat]
    BY <1>8, ControlAssumption DEF DirectWrite, Forget, Text
  <2> QED BY <1>8, <2>1, <2>2 DEF DirectWrite
<1>9. CASE Suspend(c) BY <1>9 DEF Suspend, Spend
<1>10. CASE Kill(c) BY <1>10 DEF Kill
<1> QED BY <1>1, <1>2, <1>3, <1>4, <1>5, <1>6, <1>7, <1>8, <1>9, <1>10
        DEF CommandStep, UserStep

LEMMA HandEditTypes == TypeOK /\ HandEdit => TypeOK'
<1> SUFFICES ASSUME TypeOK, HandEdit PROVE TypeOK' OBVIOUS
<1>1. [op |-> "replace", to |-> Broken] \in CF!ByHand BY DEF CF!ByHand
<1>2. file' \in Text /\ history' \in Seq(Entry)
  BY <1>1, RenameType DEF HandEdit, Text
<1> QED BY <1>2 DEF HandEdit, Spend, TypeOK, daemonVars, ipcVars, clientVars

LEMMA ForgetTypes ==
  ASSUME TypeOK, NEW w \in Pid \cup Client, Forget(w)
  PROVE  cand' \in [Pid \cup Client -> Text] /\ base' \in [Pid \cup Client -> Nat]
BY ControlAssumption DEF Forget, Text, TypeOK

LEMMA CountType ==
  ASSUME chan \in [Pid -> Nat], NEW p \in Pid,
         chan' = chan \/ chan' = [chan EXCEPT ![p] = chan[p] + 1]
  PROVE  chan' \in [Pid -> Nat]
<1>1. chan[p] + 1 \in Nat OBVIOUS
<1> QED BY <1>1

LEMMA IpcTypes ==
  ASSUME TypeOK, Sessions, NEW p \in Pid, IpcStep(p)
  PROVE  TypeOK'
<1> USE DEF TypeOK, daemonVars, ipcVars, clientVars, Ended
<1>1. CASE Bind(p) BY <1>1 DEF Bind
<1>2. CASE Accept(p)
  <2>1. Head(backlog[p]) \in Client /\ Tail(backlog[p]) \in Seq(Client)
    BY <1>2, HeadTailProperties DEF Accept
  <2> QED BY <1>2, <2>1 DEF Accept
<1>3. CASE StopServing(p) BY <1>3 DEF StopServing
<1>4. CASE Handle(p)
  <2> DEFINE c == serving[p]
             made == CF!Candidates(file, Mutation(c))
  <2>1. c \in Client BY <1>4 DEF Handle, Sessions, Session
  <2>2. CASE task[c].op # "reload" /\ made # {}
    <3>1. (CHOOSE f \in made : TRUE) \in Text BY <2>1, <2>2, MadeType
    <3>2. Len(history) \in Nat BY LenProperties
    <3>3. cand' = [cand EXCEPT ![p] = CHOOSE f \in made : TRUE]
      BY <1>4, <2>2 DEF Handle
    <3>4. cand' \in [Pid \cup Client -> Text] BY <3>1, <3>3
    <3>5. /\ base' = [base EXCEPT ![p] = Len(history)]
          /\ ipc' = [ipc EXCEPT ![p] = "write"]
          /\ sent' = [sent EXCEPT ![c] = FALSE]
          /\ UNCHANGED <<chan, reply>>
      BY <1>4, <2>2 DEF Handle
    <3> QED BY <1>4, <2>1, <3>2, <3>4, <3>5 DEF Handle
  <2>3. CASE ~(task[c].op # "reload" /\ made # {})
    <3>1. /\ chan' = [chan EXCEPT ![p] = IF task[c].op = "reload" THEN @ + 1 ELSE @]
          /\ reply' = [reply EXCEPT ![p] = IF task[c].op = "reload" THEN "applied"
                                                                   ELSE "refused"]
          /\ ipc' = [ipc EXCEPT ![p] = "reply"]
          /\ sent' = [sent EXCEPT ![c] = FALSE]
          /\ UNCHANGED <<cand, base>>
      BY <1>4, <2>3 DEF Handle
    <3>2. chan' \in [Pid -> Nat]
      <4>1. chan' = chan \/ chan' = [chan EXCEPT ![p] = chan[p] + 1] BY <3>1
      <4>2. chan \in [Pid -> Nat] OBVIOUS
      <4> HIDE DEF TypeOK
      <4> QED BY <4>1, <4>2, CountType
    <3> QED BY <1>4, <2>1, <3>1, <3>2 DEF Handle
  <2> QED BY <2>2, <2>3
<1>5. CASE Commit(p)
  <2>1. serving[p] \in Client BY <1>5 DEF Commit, Sessions, Session
  <2>2. file' \in Text /\ history' \in Seq(Entry)
    <3>1. CASE Rename(cand[p], p, serving[p], Mutation(serving[p]))
      BY <2>1, <3>1, RenameType, MutationType
    <3>2. CASE UNCHANGED <<file, history>> BY <3>2
    <3> QED BY <1>5, <3>1, <3>2 DEF Commit
  <2>3. cand' \in [Pid \cup Client -> Text] /\ base' \in [Pid \cup Client -> Nat]
    BY <1>5, ForgetTypes DEF Commit
  <2>4. chan' \in [Pid -> Nat]
    <3>1. chan' = chan \/ chan' = [chan EXCEPT ![p] = chan[p] + 1] BY <1>5 DEF Commit
    <3>2. chan \in [Pid -> Nat] OBVIOUS
    <3> HIDE DEF TypeOK
    <3> QED BY <3>1, <3>2, CountType
  <2>5. reply' \in [Pid -> {"applied", "refused"}] BY <1>5 DEF Commit
  <2>6. ipc' = [ipc EXCEPT ![p] = "reply"] BY <1>5 DEF Commit
  <2> QED BY <1>5, <2>2, <2>3, <2>4, <2>5, <2>6 DEF Commit
<1>6. CASE Reply(p)
  <2>1. reply[p] \in Ended OBVIOUS
  <2> QED BY <1>6, <2>1 DEF Reply
<1>7. CASE EndOfFile(p) BY <1>7 DEF EndOfFile
<1> QED BY <1>1, <1>2, <1>3, <1>4, <1>5, <1>6, <1>7 DEF IpcStep

LEMMA MainTypes ==
  ASSUME TypeOK, NEW p \in Pid, MainStep(p) \/ Outside(p)
  PROVE  TypeOK'
<1> USE DEF TypeOK, daemonVars, ipcVars, clientVars
<1>0. Len(history) \in Nat BY LenProperties
<1>1. CASE Load(p) BY <1>0, <1>1 DEF Load
<1>2. CASE Record(p) BY <1>2 DEF Record
<1>3. CASE Reload(p) BY <1>0, <1>3 DEF Reload
<1>4. CASE LeaveLoop(p) BY <1>4 DEF LeaveLoop
<1>5. CASE Join(p) BY <1>5 DEF Join
<1>6. CASE Start(p) BY <1>6 DEF Start
<1>7. CASE Signal(p) BY <1>7 DEF Signal, Spend
<1>8. CASE Crash(p)
  <2>1. cand' \in [Pid \cup Client -> Text] /\ base' \in [Pid \cup Client -> Nat]
    BY <1>8, ForgetTypes DEF Crash
  <2>2. backlog' \in [Pid -> Seq(Client)] BY <1>8 DEF Crash
  <2>3. /\ main' = [main EXCEPT ![p] = "crashed"] /\ ipc' = [ipc EXCEPT ![p] = "done"]
        /\ chan' = [chan EXCEPT ![p] = 0] /\ stop' = [stop EXCEPT ![p] = FALSE]
        /\ serving' = [serving EXCEPT ![p] = NoClient] /\ budget' \in Nat
    BY <1>8 DEF Crash, Spend
  <2> QED BY <1>8, <2>1, <2>2, <2>3 DEF Crash
<1> QED BY <1>1, <1>2, <1>3, <1>4, <1>5, <1>6, <1>7, <1>8 DEF MainStep, Outside

LEMMA NextTypes == TypeOK /\ Sessions /\ [Next]_vars => TypeOK'
<1> SUFFICES ASSUME TypeOK, Sessions, [Next]_vars PROVE TypeOK' OBVIOUS
<1>1. CASE UNCHANGED vars
  BY <1>1 DEF TypeOK, vars, daemonVars, ipcVars, clientVars
<1> QED BY <1>1, CommandTypes, HandEditTypes, IpcTypes, MainTypes DEF Next

-----------------------------------------------------------------------------
(* Answers.                                                                  *)

LEMMA WritesKept ==
  ASSUME history' = history, NEW c \in Client PROVE Writes(c)' = Writes(c)
BY DEF Writes

\* A write counts for the command it is made for, and for nobody else.
LEMMA WritesGrow ==
  ASSUME TypeOK, NEW w \in Pid \cup {"cli", "user"}, NEW d \in Client \cup {NoClient},
         NEW m \in CF!Surgical \cup CF!Replace \cup CF!ByHand \cup [op : {"reload"}],
         NEW f \in Text,
         Rename(f, w, d, m), NEW c \in Client
  PROVE  /\ c # d => Writes(c)' = Writes(c)
         /\ c = d => Writes(c)' = Writes(c) \cup {Len(history) + 1}
<1>1. history \in Seq(Entry) /\ history' \in Seq(Entry)
  BY RenameType DEF TypeOK
<1>2. /\ Len(history) \in Nat /\ Len(history') = Len(history) + 1
      /\ DOMAIN history = 1 .. Len(history) /\ DOMAIN history' = 1 .. Len(history) + 1
  BY <1>1, RenameType, LenProperties
<1>3. \A n \in 1 .. Len(history) : history'[n] = history[n] BY RenameType
<1>4. history'[Len(history) + 1] = [by |-> w, who |-> d, m |-> m] BY RenameType
<1>5. history'[Len(history) + 1].who = d BY <1>4
<1> QED BY <1>2, <1>3, <1>5 DEF Writes

LEMMA HasKept ==
  ASSUME NEW q \in Pid, NEW c \in Client, serving'[q] = serving[q], backlog'[q] = backlog[q]
  PROVE  Has(q, c)' <=> Has(q, c)
BY DEF Has

LEMMA CommandKept ==
  ASSUME NEW c \in Client, Command(c), pc'[c] = pc[c], sent'[c] = sent[c], task' = task,
         Writes(c)' = Writes(c)
  PROVE  Command(c)'
BY DEF Command

\* The connections of a daemon that does not move, whatever its clients do.
LEMMA SessionKept ==
  ASSUME NEW q \in Pid, Session(q), ipc'[q] = ipc[q], serving'[q] = serving[q],
         backlog'[q] = backlog[q], reply'[q] = reply[q], task' = task,
         \A c \in Client : Has(q, c) /\ pc[c] \in Asked =>
             pc'[c] \in Asked /\ sent'[c] = sent[c] /\ Writes(c)' = Writes(c),
         \A c \in Client : Has(q, c) =>
             conn'[c] = conn[c] /\ pc'[c] \in Asked \cup {"connected", "applied", "refused"}
  PROVE  Session(q)'
<1>1. \A c \in Client : Has(q, c)' <=> Has(q, c) BY HasKept
<1>2. ipc[q] \in {"write", "reply"} =>
        serving[q] \in Client /\ Has(q, serving[q]) /\ pc[serving[q]] \in Asked
  BY DEF Session, Has
<1> QED BY <1>1, <1>2 DEF Session

LEMMA InitSessions == Init => Sessions
<1> SUFFICES ASSUME Init PROVE Sessions OBVIOUS
<1>1. \A c \in Client : Writes(c) = {} BY DEF Init, Writes
<1>2. \A c \in Client : Command(c) BY <1>1 DEF Init, Command, Asking, Ended
<1>3. \A p \in Pid, c \in Client : ~Has(p, c) BY ControlAssumption DEF Init, Has
<1> QED BY <1>2, <1>3 DEF Init, Sessions, Session

\* A command's own steps.
LEMMA CommandSessions ==
  ASSUME TypeOK, Sessions, NEW c \in Client, CommandStep(c) \/ UserStep(c)
  PROVE  Sessions'
<1> USE DEF daemonVars, ipcVars, clientVars
<1>a. /\ task' = task
      /\ \A d \in Client \ {c} : pc'[d] = pc[d] /\ sent'[d] = sent[d] /\ conn'[d] = conn[d]
      /\ \A d \in Client \ {c} : Writes(d)' = Writes(d)
  <2>1. CASE history' = history
    BY <2>1, WritesKept
       DEF CommandStep, UserStep, OpenEditor, CloseEditor, Dispatch, Connect, Send, HangUp,
           DirectRead, DirectWrite, Suspend, Kill, TypeOK
  <2>2. CASE DirectWrite(c) /\ Rename(cand[c], "cli", c, Mutation(c))
    <3>1. cand[c] \in Text BY DEF TypeOK
    <3>2. \A d \in Client \ {c} : Writes(d)' = Writes(d)
      BY <2>2, <3>1, MutationType, WritesGrow
    <3> QED BY <2>2, <3>2 DEF DirectWrite, TypeOK
  <2> QED
    BY <2>1, <2>2
       DEF CommandStep, UserStep, OpenEditor, CloseEditor, Dispatch, Connect, Send, HangUp,
           DirectRead, DirectWrite, Suspend, Kill
<1>b. \A d \in Client \ {c} : Command(d)' BY <1>a, CommandKept DEF Sessions
\* Steps that leave the connections alone.
<1>c. ASSUME UNCHANGED <<ipcVars, conn>>, history' = history,
             pc[c] \in Asked => pc'[c] \in Asked /\ sent'[c] = sent[c],
             (\E q \in Pid : Has(q, c)) =>
                 pc'[c] \in Asked \cup {"connected", "applied", "refused"}
      PROVE \A q \in Pid : Session(q)'
  <2> SUFFICES ASSUME NEW q \in Pid PROVE Session(q)' OBVIOUS
  <2>1. \A d \in Client : Has(q, d) =>
          conn'[d] = conn[d] /\ pc'[d] \in Asked \cup {"connected", "applied", "refused"}
    BY <1>a, <1>c DEF Sessions, Session
  <2>2. \A d \in Client : pc[d] \in Asked =>
          pc'[d] \in Asked /\ sent'[d] = sent[d] /\ Writes(d)' = Writes(d)
    BY <1>a, <1>c, WritesKept
  <2>3. Session(q) BY DEF Sessions
  <2> QED BY <1>a, <1>c, <2>1, <2>2, <2>3, SessionKept
<1>d. ASSUME pc[c] \in {"idle", "editing", "dispatch", "connect", "direct", "writing"}
      PROVE  \A q \in Pid : ~Has(q, c)
  BY <1>d DEF Sessions, Session, Asked
<1>e. Command(c) BY DEF Sessions
<1>1. ASSUME OpenEditor(c) \/ CloseEditor(c) \/ Dispatch(c) PROVE Sessions'
  <2>1. /\ pc[c] \in {"idle", "editing", "dispatch"} /\ sent' = sent /\ history' = history
        /\ UNCHANGED <<ipcVars, conn>>
        /\ pc'[c] \in {"editing", "nochange", "refused", "dispatch", "connect", "nextstart",
                        "direct"}
    BY <1>1 DEF OpenEditor, CloseEditor, Dispatch, TypeOK
  <2>2. Command(c)'
    BY <1>a, <1>e, <2>1, WritesKept DEF Command, Asking, Asked, Ended
  <2> QED BY <1>b, <1>c, <1>d, <2>1, <2>2 DEF Sessions, Asked
<1>2. ASSUME Send(c) \/ HangUp(c) \/ Suspend(c) \/ Kill(c) PROVE Sessions'
  <2>1. /\ pc[c] \in {"connected", "waiting", "suspended"} /\ history' = history
        /\ UNCHANGED <<ipcVars, conn>>
        /\ pc'[c] \in Asked
        /\ sent'[c] = sent[c] \/ pc[c] = "connected"
    BY <1>2 DEF Send, HangUp, Suspend, Kill, TypeOK, Asked
  <2>2. Writes(c)' = Writes(c) /\ pc'[c] \in {"waiting", "unclear", "suspended", "killed"}
    BY <2>1, WritesKept DEF Asked
  <2>3. pc[c] = "connected" => Writes(c) = {} BY <1>e DEF Command, Asking
  <2>4. Command(c)'
    BY <1>a, <1>e, <2>1, <2>2, <2>3 DEF Command, Asking, Asked, Ended
  <2>5. pc[c] \in Asked => sent'[c] = sent[c] BY <2>1 DEF Asked
  <2> QED BY <1>b, <1>c, <2>1, <2>4, <2>5 DEF Sessions
<1>3. ASSUME DirectRead(c) PROVE Sessions'
  <2>1. /\ pc[c] = "direct" /\ sent' = sent /\ history' = history
        /\ UNCHANGED <<ipcVars, conn>>
        /\ pc'[c] \in {"refused", "writing"}
    BY <1>3 DEF DirectRead, TypeOK
  <2>2. Command(c)'
    BY <1>a, <1>e, <2>1, WritesKept DEF Command, Asking, Asked, Ended
  <2> QED BY <1>b, <1>c, <1>d, <2>1, <2>2 DEF Sessions, Asked
<1>4. ASSUME DirectWrite(c) PROVE Sessions'
  <2>1. /\ pc[c] = "writing" /\ sent' = sent /\ UNCHANGED <<ipcVars, conn>>
        /\ \/ Rename(cand[c], "cli", c, Mutation(c)) /\ pc'[c] = "applied"
           \/ history' = history /\ pc'[c] = "failed"
    BY <1>4 DEF DirectWrite, TypeOK
  <2>2. Writes(c) = {} /\ ~sent[c] BY <1>e, <2>1 DEF Command, Asking
  <2>3. \/ pc'[c] = "applied" /\ \E n : Writes(c)' = {n}
        \/ pc'[c] = "failed" /\ Writes(c)' = {}
    <3>1. CASE Rename(cand[c], "cli", c, Mutation(c)) /\ pc'[c] = "applied"
      <4>1. cand[c] \in Text BY DEF TypeOK
      <4>2. Writes(c)' = Writes(c) \cup {Len(history) + 1}
        BY <3>1, <4>1, MutationType, WritesGrow
      <4> QED BY <2>2, <3>1, <4>2
    <3>2. CASE history' = history /\ pc'[c] = "failed" BY <2>2, <3>2, WritesKept
    <3> QED BY <2>1, <3>1, <3>2
  <2>4. Command(c)' BY <1>a, <2>1, <2>2, <2>3 DEF Command, Asking, Ended
  <2>5. ASSUME NEW q \in Pid PROVE Session(q)'
    <3>1. \A d \in Client : pc[d] \in Asked =>
            pc'[d] \in Asked /\ sent'[d] = sent[d] /\ Writes(d)' = Writes(d)
      BY <1>a, <2>1 DEF Asked
    <3>2. \A d \in Client : Has(q, d) =>
            conn'[d] = conn[d] /\ pc'[d] \in Asked \cup {"connected", "applied", "refused"}
      BY <1>a, <1>d, <2>1 DEF Sessions, Session
    <3>3. Session(q) BY DEF Sessions
    <3> QED BY <1>a, <2>1, <3>1, <3>2, <3>3, SessionKept
  <2> QED BY <1>b, <2>4, <2>5 DEF Sessions
<1>5. ASSUME Connect(c) PROVE Sessions'
  <2>1. pc[c] = "connect" /\ history' = history /\ sent' = sent /\ UNCHANGED <<ipc, serving, reply>>
    BY <1>5 DEF Connect
  <2>2. Command(c)'
    <3>1. pc'[c] \in {"connected", "unreachable"} BY <1>5 DEF Connect, TypeOK
    <3> QED BY <1>a, <1>e, <2>1, <3>1, WritesKept DEF Command, Asking, Asked, Ended
  <2>3. ASSUME NEW q \in Pid, backlog'[q] = backlog[q] PROVE Session(q)'
    <3>1. \A d \in Client : Has(q, d) => d # c BY <1>d, <2>1
    <3>2. \A d \in Client : pc[d] \in Asked =>
            pc'[d] \in Asked /\ sent'[d] = sent[d] /\ Writes(d)' = Writes(d)
      BY <1>a, <2>1 DEF Asked
    <3>3. \A d \in Client : Has(q, d) =>
            conn'[d] = conn[d] /\ pc'[d] \in Asked \cup {"connected", "applied", "refused"}
      BY <1>a, <3>1 DEF Sessions, Session
    <3>4. Session(q) BY DEF Sessions
    <3> QED BY <1>a, <2>1, <2>3, <3>2, <3>3, <3>4, SessionKept
  <2>4. CASE sock # NoPid /\ Listening(sock)
    <3>0. PICK p \in Pid : p = sock BY <2>4 DEF TypeOK
    <3>1. /\ conn'[c] = p /\ pc'[c] = "connected"
          /\ backlog' = [backlog EXCEPT ![p] = Append(backlog[p], c)]
      BY <1>5, <2>4, <3>0 DEF Connect, TypeOK
    <3>2. \A d \in Client : Has(p, d)' => Has(p, d) \/ d = c
      <4>1. backlog'[p] = Append(backlog[p], c) BY <3>1 DEF TypeOK
      <4>2. backlog[p] \in Seq(Client) BY DEF TypeOK
      <4>3. \A i \in DOMAIN backlog'[p] :
              backlog'[p][i] = c \/ (i \in DOMAIN backlog[p]
                                      /\ backlog'[p][i] = backlog[p][i])
        BY <4>1, <4>2, AppendProperties, LenProperties
      <4> QED BY <2>1, <4>3 DEF Has
    <3>3. Session(p) BY DEF Sessions
    <3>4. \A d \in Client : Has(p, d)' =>
            conn'[d] = p /\ pc'[d] \in Asked \cup {"connected", "applied", "refused"}
      BY <1>a, <3>1, <3>2, <3>3 DEF Session
    <3>5. ipc[p] \in {"write", "reply"} => serving[p] \in Client \ {c}
      BY <2>1, <3>3 DEF Session, Asked
    <3>6. Session(p)' BY <1>a, <2>1, <3>3, <3>4, <3>5 DEF Session
    <3>7. \A q \in Pid \ {p} : backlog'[q] = backlog[q] BY <3>1 DEF TypeOK
    <3> QED BY <1>b, <2>2, <2>3, <3>6, <3>7 DEF Sessions
  <2>5. CASE ~(sock # NoPid /\ Listening(sock))
    <3>1. backlog' = backlog BY <1>5, <2>5 DEF Connect
    <3> QED BY <1>b, <2>2, <2>3, <3>1 DEF Sessions
  <2> QED BY <2>4, <2>5
<1> QED BY <1>1, <1>2, <1>3, <1>4, <1>5 DEF CommandStep, UserStep

\* The IPC thread's steps change what is known of the command it serves only.
LEMMA IpcSessions ==
  ASSUME TypeOK, Sessions, NEW p \in Pid, IpcStep(p)
  PROVE  Sessions'
<1> USE DEF daemonVars, ipcVars, clientVars
<1>c. PICK c : c = serving[p] OBVIOUS
<1>0. Session(p) BY DEF Sessions
<1>1. /\ task' = task /\ conn' = conn
      /\ \A q \in Pid \ {p} : /\ ipc'[q] = ipc[q] /\ serving'[q] = serving[q]
                              /\ backlog'[q] = backlog[q] /\ reply'[q] = reply[q]
      /\ \A d \in Client \ {c} : pc'[d] = pc[d] /\ sent'[d] = sent[d]
  BY <1>c DEF IpcStep, Bind, Accept, StopServing, Handle, Commit, Reply, EndOfFile, TypeOK
<1>2. \A d \in Client \ {c} : Writes(d)' = Writes(d)
  <2>1. CASE history' = history BY <2>1, WritesKept
  <2>2. CASE Commit(p) /\ Rename(cand[p], p, serving[p], Mutation(serving[p]))
    <3>1. c \in Client BY <1>c, <1>0, <2>2 DEF Commit, Session
    <3>2. cand[p] \in Text BY DEF TypeOK
    <3> QED BY <1>c, <2>2, <3>1, <3>2, MutationType, WritesGrow
  <2> QED
    BY <1>c, <2>1, <2>2 DEF IpcStep, Bind, Accept, StopServing, Handle, Commit, Reply, EndOfFile
<1>3. \A d \in Client \ {c} : Command(d)' BY <1>1, <1>2, CommandKept DEF Sessions
<1>4. ASSUME NEW q \in Pid \ {p} PROVE Session(q)'
  <2>1. Session(q) BY DEF Sessions
  <2>2. \A d \in Client : Has(q, d) => d # c /\ conn[d] = q
    BY <1>c, <1>0, <2>1 DEF Session, Has
  <2>3. \A d \in Client : Has(q, d) =>
          conn'[d] = conn[d] /\ pc'[d] \in Asked \cup {"connected", "applied", "refused"}
    BY <1>1, <2>1, <2>2 DEF Session
  <2>4. \A d \in Client : Has(q, d) /\ pc[d] \in Asked =>
          pc'[d] \in Asked /\ sent'[d] = sent[d] /\ Writes(d)' = Writes(d)
    BY <1>1, <1>2, <2>2
  <2> QED BY <1>1, <2>1, <2>3, <2>4, SessionKept
<1>5. ASSUME Session(p)', c \in Client => Command(c)' PROVE Sessions'
  BY <1>3, <1>4, <1>5 DEF Sessions
<1>6. c \in Client => Command(c) BY DEF Sessions
\* Steps that touch no command.
<1>7. ASSUME UNCHANGED <<clientVars, history>>, ipc'[p] \in {"accept", "done", "serve"},
             ipc'[p] = "serve" => serving'[p] \in Client,
             \A d \in Client : Has(p, d)' => Has(p, d)
      PROVE  Sessions'
  <2>1. c \in Client => Command(c)'
    BY <1>6, <1>7, WritesKept, CommandKept
  <2>2. Session(p)' BY <1>0, <1>7 DEF Session
  <2> QED BY <1>5, <2>1, <2>2
<1>8. CASE Bind(p)
  <2>1. \A d \in Client : Has(p, d)' <=> Has(p, d) BY <1>8, HasKept DEF Bind
  <2>2. ipc'[p] = "accept" BY <1>8 DEF Bind, TypeOK
  <2> QED BY <1>7, <1>8, <2>1, <2>2 DEF Bind
<1>9. CASE Accept(p)
  <2>1. backlog[p] \in Seq(Client) /\ backlog[p] # <<>> BY <1>9 DEF Accept, TypeOK
  <2>2. /\ Head(backlog[p]) = backlog[p][1] /\ 1 \in DOMAIN backlog[p]
        /\ Head(backlog[p]) \in Client
        /\ \A i \in DOMAIN Tail(backlog[p]) : /\ i + 1 \in DOMAIN backlog[p]
                                              /\ Tail(backlog[p])[i] = backlog[p][i + 1]
    BY <2>1, HeadTailProperties, LenProperties
  <2>3. /\ serving'[p] = Head(backlog[p]) /\ backlog'[p] = Tail(backlog[p])
        /\ ipc'[p] = "serve"
    BY <1>9 DEF Accept, TypeOK
  <2>4. \A d \in Client : Has(p, d)' => Has(p, d) BY <2>2, <2>3 DEF Has
  <2> QED BY <1>7, <1>9, <2>2, <2>3, <2>4 DEF Accept
<1>10. CASE StopServing(p)
  <2>1. serving'[p] = serving[p] /\ backlog'[p] = <<>> /\ ipc'[p] = "done"
    BY <1>10 DEF StopServing, TypeOK
  <2>2. \A d \in Client : Has(p, d)' => Has(p, d) BY <2>1 DEF Has
  <2> QED BY <1>7, <1>10, <2>1, <2>2 DEF StopServing
<1>11. CASE EndOfFile(p)
  <2>1. serving'[p] = NoClient /\ backlog'[p] = backlog[p] /\ ipc'[p] = "accept"
    BY <1>11 DEF EndOfFile, TypeOK
  <2>2. \A d \in Client : Has(p, d)' => Has(p, d) BY <2>1, ControlAssumption DEF Has
  <2> QED BY <1>7, <1>11, <2>1, <2>2 DEF EndOfFile
<1>12. CASE Handle(p)
  <2>1. c \in Client /\ sent[c] BY <1>c, <1>0, <1>12 DEF Handle, Session
  <2>2. Writes(c) = {} /\ pc[c] \in Asked BY <1>6, <2>1 DEF Command
  <2>3. /\ history' = history /\ serving' = serving /\ backlog' = backlog /\ pc' = pc
        /\ ~sent'[c]
        /\ \/ ipc'[p] = "write" /\ task[c].op # "reload"
           \/ /\ ipc'[p] = "reply"
              /\ reply'[p] = IF task[c].op = "reload" THEN "applied" ELSE "refused"
    BY <1>c, <1>12, <2>1 DEF Handle, TypeOK
  <2>4. Writes(c)' = {} BY <2>1, <2>2, <2>3, WritesKept
  <2>5. Command(c)' BY <2>2, <2>3, <2>4 DEF Command, Asking, Asked, Ended
  <2>6. \A d \in Client : Has(p, d)' <=> Has(p, d) BY <2>3, HasKept
  <2>7. Session(p)' BY <1>c, <1>0, <1>1, <2>1, <2>2, <2>3, <2>4, <2>6 DEF Session
  <2> QED BY <1>5, <2>5, <2>7
<1>13. CASE Commit(p)
  <2>1. /\ c \in Client /\ pc[c] \in Asked /\ ~sent[c] /\ task[c].op # "reload"
        /\ Writes(c) = {}
    BY <1>c, <1>0, <1>13 DEF Commit, Session
  <2>2. /\ serving' = serving /\ backlog' = backlog /\ pc' = pc /\ sent' = sent
        /\ ipc'[p] = "reply"
    BY <1>c, <1>13 DEF Commit, TypeOK
  <2>3. \/ reply'[p] = "applied" /\ Writes(c)' = {Len(history) + 1}
        \/ reply'[p] = "refused" /\ Writes(c)' = {}
    <3>1. CASE /\ Rename(cand[p], p, c, Mutation(c))
               /\ reply' = [reply EXCEPT ![p] = "applied"]
      <4>1. cand[p] \in Text BY DEF TypeOK
      <4>2. Writes(c)' = Writes(c) \cup {Len(history) + 1}
        BY <2>1, <3>1, <4>1, MutationType, WritesGrow
      <4> QED BY <2>1, <3>1, <4>2 DEF TypeOK
    <3>2. CASE history' = history /\ reply' = [reply EXCEPT ![p] = "refused"]
      BY <2>1, <3>2, WritesKept DEF TypeOK
    <3> QED BY <1>c, <1>13, <3>1, <3>2 DEF Commit
  <2>4. Command(c)' BY <2>1, <2>2, <2>3 DEF Command, Asking, Asked, Ended
  <2>5. \A d \in Client : Has(p, d)' <=> Has(p, d) BY <2>2, HasKept
  <2>6. Session(p)' BY <1>c, <1>0, <1>1, <2>1, <2>2, <2>3, <2>5 DEF Session
  <2> QED BY <1>5, <2>4, <2>6
<1>14. CASE Reply(p)
  <2>1. /\ c \in Client /\ pc[c] \in Asked /\ ~sent[c]
        /\ reply[p] = "refused" => Writes(c) = {}
        /\ reply[p] = "applied" /\ task[c].op # "reload" => Writes(c) # {}
    BY <1>c, <1>0, <1>14 DEF Reply, Session
  <2>2. /\ serving' = serving /\ backlog' = backlog /\ sent' = sent /\ history' = history
        /\ ipc'[p] = "serve"
        /\ pc'[c] = IF pc[c] = "waiting" THEN reply[p] ELSE pc[c]
    BY <1>c, <1>14, <2>1 DEF Reply, TypeOK
  <2>3. Writes(c)' = Writes(c) BY <2>1, <2>2, WritesKept
  <2>4. reply[p] \in {"applied", "refused"} BY DEF TypeOK
  <2>5. Command(c)'
    BY <1>1, <1>6, <2>1, <2>2, <2>3, <2>4 DEF Command, Asking, Asked, Ended
  <2>6. \A d \in Client : Has(p, d)' <=> Has(p, d) BY <2>2, HasKept
  <2>7. \A d \in Client : Has(p, d)' =>
          conn'[d] = p /\ pc'[d] \in Asked \cup {"connected", "applied", "refused"}
    BY <1>c, <1>0, <1>1, <2>1, <2>2, <2>4, <2>6 DEF Session
  <2>8. Session(p)' BY <1>c, <2>1, <2>2, <2>7 DEF Session
  <2> QED BY <1>5, <2>5, <2>8
<1> QED BY <1>8, <1>9, <1>10, <1>11, <1>12, <1>13, <1>14 DEF IpcStep

\* The main thread's steps, a crash among them, leave every command where it was.
LEMMA MainSessions ==
  ASSUME TypeOK, Sessions, NEW p \in Pid, MainStep(p) \/ Outside(p)
  PROVE  Sessions'
<1> USE DEF daemonVars, ipcVars, clientVars
<1>1. UNCHANGED <<clientVars, history>>
  BY DEF MainStep, Outside, Load, Record, Reload, LeaveLoop, Join, Start, Signal, Crash
<1>2. \A d \in Client : Command(d)'
  BY <1>1, WritesKept, CommandKept DEF Sessions
<1>3. ASSUME NEW q \in Pid PROVE Session(q)'
  <2>0. Session(q) BY DEF Sessions
  <2>1. CASE UNCHANGED ipcVars
    BY <1>1, <2>0, <2>1, WritesKept, SessionKept DEF Session
  <2>2. CASE Record(p)
    <3>1. /\ serving' = serving /\ backlog' = backlog /\ reply' = reply
          /\ ipc'[q] = ipc[q] \/ ipc'[q] = "bind"
      BY <2>2 DEF Record, TypeOK
    <3>2. \A d \in Client : Has(q, d)' <=> Has(q, d) BY <3>1, HasKept
    <3>3. \A d \in Client : Writes(d)' = Writes(d) BY <1>1, WritesKept
    <3> QED BY <1>1, <2>0, <3>1, <3>2, <3>3 DEF Session
  <2>3. CASE Crash(p)
    <3>1. /\ reply' = reply
          /\ \/ ipc'[q] = ipc[q] /\ serving'[q] = serving[q] /\ backlog'[q] = backlog[q]
             \/ ipc'[q] = "done" /\ serving'[q] = NoClient /\ backlog'[q] = <<>>
      BY <2>3 DEF Crash, TypeOK
    <3>2. \A d \in Client : Has(q, d)' => Has(q, d)
      BY <3>1, ControlAssumption DEF Has
    <3>3. \A d \in Client : Writes(d)' = Writes(d) BY <1>1, WritesKept
    <3> QED BY <1>1, <2>0, <3>1, <3>2, <3>3 DEF Session
  <2> QED
    BY <2>1, <2>2, <2>3
       DEF MainStep, Outside, Load, Reload, LeaveLoop, Join, Start, Signal
<1> QED BY <1>2, <1>3 DEF Sessions

LEMMA HandEditSessions == TypeOK /\ Sessions /\ HandEdit => Sessions'
<1> SUFFICES ASSUME TypeOK, Sessions, HandEdit PROVE Sessions' OBVIOUS
<1> USE DEF daemonVars, ipcVars, clientVars
<1>1. UNCHANGED <<clientVars, ipcVars>> BY DEF HandEdit
<1>2. [op |-> "replace", to |-> Broken] \in CF!ByHand BY DEF CF!ByHand
<1>3. \A c \in Client : Writes(c)' = Writes(c)
  BY <1>2, WritesGrow, ControlAssumption DEF HandEdit, Text
<1>4. \A c \in Client : Command(c)' BY <1>1, <1>3, CommandKept DEF Sessions
<1>5. ASSUME NEW q \in Pid PROVE Session(q)'
  <2>1. Session(q) BY DEF Sessions
  <2> QED BY <1>1, <1>3, <2>1, SessionKept DEF Session
<1> QED BY <1>4, <1>5 DEF Sessions

LEMMA NextSessions == TypeOK /\ Sessions /\ [Next]_vars => Sessions'
<1> SUFFICES ASSUME TypeOK, Sessions, [Next]_vars PROVE Sessions' OBVIOUS
<1>1. CASE UNCHANGED vars
  <2>1. UNCHANGED <<clientVars, ipcVars, history>> BY <1>1 DEF vars
  <2>2. \A c \in Client : Writes(c)' = Writes(c) BY <2>1, WritesKept
  <2>3. \A c \in Client : Command(c)' BY <2>1, <2>2, CommandKept DEF Sessions, clientVars
  <2>4. ASSUME NEW q \in Pid PROVE Session(q)'
    <3>1. Session(q) BY DEF Sessions
    <3> QED BY <2>1, <2>2, <3>1, SessionKept DEF Session, clientVars, ipcVars
  <2> QED BY <2>3, <2>4 DEF Sessions
<1> QED BY <1>1, CommandSessions, HandEditSessions, IpcSessions, MainSessions DEF Next

\* The types of the control plane's variables, and how far each command and each
\* connection has got (apply_to_disk, serve_connection, Client::call).
THEOREM ControlTypes == Spec => [](TypeOK /\ Sessions)
<1>1. Init => TypeOK /\ Sessions BY InitTypes, InitSessions
<1>2. TypeOK /\ Sessions /\ [Next]_vars => (TypeOK /\ Sessions)'
  BY NextTypes, NextSessions
<1> QED BY <1>1, <1>2, PTL DEF Spec

\* What a command says is what was done: "applied" is one write and a refusal is
\* none, with any number of commands and daemons, supervised or not, and whatever
\* crashes between the write and the answer (ipc_handler, run_jobs_edit).
THEOREM AnswersTrue == Spec => []AnswersAreTrue
<1>1. Sessions => AnswersAreTrue BY DEF Sessions, Command, AnswersAreTrue
<1> QED BY <1>1, ControlTypes, PTL

-----------------------------------------------------------------------------
(* One daemon at a time owns the file.                                       *)

\* A daemon's candidate is good as long as neither it nor the request it is made
\* for moves, whoever writes the file.
LEMMA FreshKept ==
  ASSUME TypeOK, NEW q \in Pid, Fresh(q), ipc'[q] = ipc[q],
         base'[q] = base[q], cand'[q] = cand[q],
         \/ file' = file /\ history' = history
         \/ /\ Len(history') = Len(history) + 1
            /\ \A n \in 1 .. Len(history) : history'[n] = history[n]
            /\ history'[Len(history) + 1].by \notin Pid,
         ipc[q] = "write" => Mutation(serving[q])' = Mutation(serving[q])
  PROVE  Fresh(q)'
<1>1. Len(history) \in Nat /\ base[q] \in Nat BY LenProperties DEF TypeOK
<1>2. CASE file' = file /\ history' = history BY <1>2 DEF Fresh
<1>3. CASE /\ Len(history') = Len(history) + 1
           /\ \A n \in 1 .. Len(history) : history'[n] = history[n]
           /\ history'[Len(history) + 1].by \notin Pid
  <2> SUFFICES ASSUME ipc[q] = "write" PROVE Fresh(q)' BY DEF Fresh
  <2>1. base[q] <= Len(history) /\ base'[q] # Len(history') /\ base'[q] <= Len(history')
    BY <1>1, <1>3 DEF Fresh
  <2>2. \A n \in base[q] + 1 .. Len(history) + 1 :
           (n \in 1 .. Len(history) /\ n \in base[q] + 1 .. Len(history))
              \/ n = Len(history) + 1
    BY <1>1
  <2>3. \A n \in base[q] + 1 .. Len(history') : history'[n].by \notin Pid
    BY <1>3, <2>2 DEF Fresh
  <2> QED BY <2>1, <2>3 DEF Fresh
<1> QED BY <1>2, <1>3

LEMMA CommandOwnership ==
  ASSUME TypeOK, Sessions, Ownership, NEW c \in Client, CommandStep(c) \/ UserStep(c)
  PROVE  Ownership'
<1> USE DEF daemonVars, ipcVars, clientVars
<1>1. /\ UNCHANGED <<main, ipc, row, serving, task>>
      /\ pc[c] # "idle" => seed' = seed
      /\ \A d \in Client \ {c} : seed'[d] = seed[d]
      /\ \A q \in Pid : base'[q] = base[q] /\ cand'[q] = cand[q]
  BY ControlAssumption
     DEF CommandStep, UserStep, OpenEditor, CloseEditor, Dispatch, Connect, Send, HangUp,
         DirectRead, DirectWrite, Forget, Suspend, Kill, TypeOK
<1>2. OneDaemon' BY <1>1 DEF Ownership, OneDaemon, Alive
<1>3. \/ file' = file /\ history' = history
      \/ /\ Len(history') = Len(history) + 1
         /\ \A n \in 1 .. Len(history) : history'[n] = history[n]
         /\ history'[Len(history) + 1].by \notin Pid
  <2>1. CASE DirectWrite(c) /\ Rename(cand[c], "cli", c, Mutation(c))
    <3>1. cand[c] \in Text BY DEF TypeOK
    <3>2. /\ Len(history') = Len(history) + 1
          /\ \A n \in 1 .. Len(history) : history'[n] = history[n]
          /\ history'[Len(history) + 1] = [by |-> "cli", who |-> c, m |-> Mutation(c)]
      BY <2>1, <3>1, RenameType, MutationType
    <3> QED BY <3>2, ControlAssumption
  <2>2. CASE UNCHANGED <<file, history>> BY <2>2
  <2> QED
    BY <2>1, <2>2
       DEF CommandStep, UserStep, OpenEditor, CloseEditor, Dispatch, Connect, Send, HangUp,
           DirectRead, DirectWrite, Suspend, Kill
<1>4. ASSUME NEW q \in Pid PROVE Fresh(q)'
  <2>1. Fresh(q) BY DEF Ownership
  <2>2. ipc[q] = "write" => serving[q] \in Client /\ pc[serving[q]] # "idle"
    BY DEF Sessions, Session, Asked
  <2>3. ipc[q] = "write" => Mutation(serving[q])' = Mutation(serving[q])
    BY <1>1, <2>2 DEF Mutation
  <2> QED BY <1>1, <1>3, <2>1, <2>3, FreshKept
<1> QED BY <1>2, <1>4 DEF Ownership

LEMMA HandEditOwnership == TypeOK /\ Ownership /\ HandEdit => Ownership'
<1> SUFFICES ASSUME TypeOK, Ownership, HandEdit PROVE Ownership' OBVIOUS
<1> USE DEF daemonVars, ipcVars, clientVars
<1>1. /\ UNCHANGED <<main, ipc, row, serving, base, cand, task, seed>>
  BY DEF HandEdit
<1>2. OneDaemon' BY <1>1 DEF Ownership, OneDaemon, Alive
<1>3. [op |-> "replace", to |-> Broken] \in CF!ByHand BY DEF CF!ByHand
<1>4. /\ Len(history') = Len(history) + 1
      /\ \A n \in 1 .. Len(history) : history'[n] = history[n]
      /\ history'[Len(history) + 1]
            = [by |-> "user", who |-> NoClient, m |-> [op |-> "replace", to |-> Broken]]
  BY <1>3, RenameType DEF HandEdit, Text
<1>5. history'[Len(history) + 1].by \notin Pid BY <1>4, ControlAssumption
<1>6. ASSUME NEW q \in Pid PROVE Fresh(q)'
  <2>1. Fresh(q) BY DEF Ownership
  <2>2. Mutation(serving[q])' = Mutation(serving[q]) BY <1>1 DEF Mutation
  <2> QED BY <1>1, <1>4, <1>5, <2>1, <2>2, FreshKept
<1> QED BY <1>2, <1>6 DEF Ownership

LEMMA IpcOwnership ==
  ASSUME TypeOK, Sessions, Ownership, NEW p \in Pid, IpcStep(p)
  PROVE  Ownership'
<1> USE DEF daemonVars, ipcVars, clientVars
<1>1. /\ UNCHANGED <<main, row, task, seed>>
      /\ ipc[p] \notin {"off", "done"}
      /\ \A q \in Pid \ {p} : ipc'[q] = ipc[q]
  BY DEF IpcStep, Bind, Accept, StopServing, Handle, Commit, Reply, EndOfFile, TypeOK
<1>2. OneDaemon' BY <1>1 DEF Ownership, OneDaemon, Alive
<1>3. \A q \in Pid : ipc'[q] = "write" => q = p
  BY <1>1 DEF Ownership, OneDaemon, Alive
<1>4. CASE Handle(p) /\ ipc'[p] = "write"
  <2>1. PICK c \in Client : c = serving[p] BY <1>4 DEF Handle, Sessions, Session
  <2>2. /\ CF!Candidates(file, Mutation(c)) # {}
        /\ cand' = [cand EXCEPT ![p] = CHOOSE f \in CF!Candidates(file, Mutation(c)) : TRUE]
        /\ base' = [base EXCEPT ![p] = Len(history)]
        /\ UNCHANGED <<file, history, serving>>
    BY <1>4, <2>1 DEF Handle, TypeOK
  <2>3. cand'[p] \in CF!Candidates(file, Mutation(c)) BY <2>2, MadeType DEF TypeOK
  <2>4. base'[p] = Len(history) BY <2>2 DEF TypeOK
  <2>5. Len(history) \in Nat BY LenProperties DEF TypeOK
  <2>6. Mutation(c)' = Mutation(c) BY <1>1 DEF Mutation
  <2>7. Fresh(p)' BY <2>1, <2>2, <2>3, <2>4, <2>5, <2>6 DEF Fresh
  <2> QED BY <1>2, <1>3, <2>7 DEF Ownership, Fresh
<1>5. CASE ipc'[p] # "write" BY <1>2, <1>3, <1>5 DEF Ownership, Fresh
<1>6. ipc'[p] = "write" => Handle(p)
  BY DEF IpcStep, Bind, Accept, StopServing, Commit, Reply, EndOfFile, TypeOK
<1> QED BY <1>4, <1>5, <1>6

LEMMA MainOwnership ==
  ASSUME Supervised, TypeOK, Ownership, NEW p \in Pid, MainStep(p) \/ Outside(p)
  PROVE  Ownership'
<1> USE DEF daemonVars, ipcVars, clientVars
<1>1. /\ UNCHANGED <<file, history, task, seed>>
      /\ \A q \in Pid \ {p} :
           /\ ipc'[q] = ipc[q] /\ main'[q] = main[q]
           /\ serving'[q] = serving[q] /\ base'[q] = base[q] /\ cand'[q] = cand[q]
  BY ControlAssumption
     DEF MainStep, Outside, Load, Record, Reload, LeaveLoop, Join, Start, Signal, Crash,
         Forget, TypeOK
<1>2. OneDaemon'
  <2>1. \/ main'[p] = main[p] /\ ipc'[p] = ipc[p] /\ row' = row
        \/ Start(p) /\ main'[p] = "starting" /\ ipc'[p] = ipc[p] /\ row' = row
        \/ Load(p) /\ main'[p] \in {"exited", "loaded"} /\ ipc'[p] = ipc[p] /\ row' = row
        \/ Record(p) /\ main'[p] = "up"
        \/ LeaveLoop(p) /\ main'[p] = "draining" /\ ipc'[p] = ipc[p] /\ row' = "stopping"
        \/ Join(p) /\ main'[p] = "exited" /\ ipc'[p] = ipc[p]
        \/ Crash(p) /\ main'[p] = "crashed" /\ ipc'[p] = "done" /\ row' = row
    BY DEF MainStep, Outside, Load, Record, Reload, LeaveLoop, Join, Start, Signal, Crash,
           TypeOK
  <2> USE DEF OneDaemon, Alive
  <2>0. OneDaemon BY DEF Ownership
  <2>2. CASE main'[p] = main[p] /\ ipc'[p] = ipc[p] /\ row' = row BY <1>1, <2>0, <2>2
  <2>3. CASE Start(p) /\ main'[p] = "starting" /\ ipc'[p] = ipc[p] /\ row' = row
    BY <1>1, <2>0, <2>3 DEF Start
  <2>4. CASE Load(p) /\ main'[p] \in {"exited", "loaded"} /\ ipc'[p] = ipc[p] /\ row' = row
    BY <1>1, <2>0, <2>4 DEF Load
  <2>5. CASE Record(p) /\ main'[p] = "up" BY <1>1, <2>0, <2>5 DEF Record
  <2>6. CASE LeaveLoop(p) /\ main'[p] = "draining" /\ ipc'[p] = ipc[p] /\ row' = "stopping"
    BY <1>1, <2>0, <2>6 DEF LeaveLoop
  <2>7. CASE Join(p) /\ main'[p] = "exited" /\ ipc'[p] = ipc[p]
    BY <1>1, <2>0, <2>7 DEF Join
  <2>8. CASE Crash(p) /\ main'[p] = "crashed" /\ ipc'[p] = "done" /\ row' = row
    BY <1>1, <2>0, <2>8 DEF Crash
  <2> QED BY <2>1, <2>2, <2>3, <2>4, <2>5, <2>6, <2>7, <2>8
<1>3. ASSUME NEW q \in Pid PROVE Fresh(q)'
  <2>1. Fresh(q) BY DEF Ownership
  <2>2. ipc'[q] = "write" => /\ ipc[q] = "write" /\ serving'[q] = serving[q]
                             /\ base'[q] = base[q] /\ cand'[q] = cand[q]
    BY <1>1
       DEF MainStep, Outside, Load, Record, Reload, LeaveLoop, Join, Start, Signal, Crash,
           TypeOK
  <2>3. CASE ipc'[q] = "write"
    <3>1. Mutation(serving[q])' = Mutation(serving[q]) BY <1>1, <2>2, <2>3 DEF Mutation
    <3> QED BY <1>1, <2>1, <2>2, <2>3, <3>1, FreshKept
  <2>4. CASE ipc'[q] # "write" BY <2>4 DEF Fresh
  <2> QED BY <2>3, <2>4
<1> QED BY <1>2, <1>3 DEF Ownership

\* Under a service manager there is one daemon at a time, and nobody but a command
\* started before it writes between its reading the file and its replacing it
\* (the sequential server, dispatch_mutation).
THEOREM OwnershipHolds ==
  ASSUME Supervised PROVE Spec => []Ownership
<1>1. Init => Ownership
  BY DEF Init, Ownership, OneDaemon, Alive, Fresh
<1>2. TypeOK /\ Sessions /\ Ownership /\ [Next]_vars => Ownership'
  <2> SUFFICES ASSUME TypeOK, Sessions, Ownership, [Next]_vars PROVE Ownership' OBVIOUS
  <2>1. CASE UNCHANGED vars
    <3>1. UNCHANGED <<file, history, main, row, ipc, base, cand, serving, task, seed>>
      BY <2>1 DEF vars, daemonVars, ipcVars, clientVars
    <3>2. OneDaemon' BY <3>1 DEF Ownership, OneDaemon, Alive
    <3>3. ASSUME NEW q \in Pid PROVE Fresh(q)'
      BY <3>1 DEF Ownership, Fresh, Mutation
    <3> QED BY <3>2, <3>3 DEF Ownership
  <2> QED BY <2>1, CommandOwnership, HandEditOwnership, IpcOwnership, MainOwnership DEF Next
<1> QED BY <1>1, <1>2, ControlTypes, PTL DEF Spec

LEMMA LogGrows ==
  ASSUME TypeOK, NEW w \in Pid \cup {"cli", "user"}, NEW d \in Client \cup {NoClient},
         NEW m \in CF!Surgical \cup CF!Replace \cup CF!ByHand \cup [op : {"reload"}],
         NEW f \in Text,
         Rename(f, w, d, m)
  PROVE  [n \in DOMAIN history' |-> history'[n].m]
            = Append([n \in DOMAIN history |-> history[n].m], m)
<1> DEFINE old == [n \in DOMAIN history |-> history[n].m]
           new == [n \in DOMAIN history' |-> history'[n].m]
           M   == CF!Surgical \cup CF!Replace \cup CF!ByHand \cup [op : {"reload"}]
<1>1. history \in Seq(Entry) /\ history' \in Seq(Entry) BY RenameType DEF TypeOK
<1>2. /\ Len(history) \in Nat /\ Len(history') = Len(history) + 1
      /\ DOMAIN history = 1 .. Len(history) /\ DOMAIN history' = 1 .. Len(history) + 1
  BY <1>1, RenameType, LenProperties
<1>a. /\ \A n \in 1 .. Len(history) : history'[n] = history[n]
      /\ history'[Len(history) + 1] = [by |-> w, who |-> d, m |-> m]
  BY RenameType
<1>b. /\ \A n \in DOMAIN history : history[n] \in Entry
      /\ \A n \in DOMAIN history' : history'[n] \in Entry
  BY <1>1, <1>2, ElementOfSeq
<1>3. \A e \in Entry : e.m \in M BY DEF Entry
<1>4. /\ old \in Seq(M) /\ new \in Seq(M) /\ Len(old) = Len(history)
      /\ Len(new) = Len(history) + 1
  BY <1>2, <1>3, <1>b, IsASeq, LenProperties
<1>5. /\ Append(old, m) \in Seq(M) /\ Len(Append(old, m)) = Len(history) + 1
      /\ \A n \in 1 .. Len(history) : Append(old, m)[n] = old[n]
      /\ Append(old, m)[Len(history) + 1] = m
  BY <1>4, AppendProperties
<1>6. \A n \in 1 .. Len(history) : new[n] = old[n] BY <1>2, <1>a
<1>7. new[Len(history) + 1] = m
  <2>1. Len(history) + 1 \in DOMAIN history' BY <1>2
  <2>2. new[Len(history) + 1] = history'[Len(history) + 1].m BY <2>1
  <2> QED BY <1>a, <2>2
<1>8. \A n \in 1 .. Len(history) + 1 : n \in 1 .. Len(history) \/ n = Len(history) + 1
  BY <1>2
<1>9. \A n \in 1 .. Len(new) : new[n] = Append(old, m)[n]
  BY <1>4, <1>5, <1>6, <1>7, <1>8
<1> HIDE DEF old, new, M
<1>10. new = Append(old, m) BY <1>4, <1>5, <1>9, SeqEqual
<1> QED BY <1>10 DEF old, new

\* Whoever replaces the file while one daemon owns it replaces what was there by
\* what one mutation makes of it.
LEMMA FileStep ==
  ASSUME Supervised, TypeOK, Sessions, Ownership, [Next]_vars,
         ~UNCHANGED <<file, history>>
  PROVE  ~Served \/ CF!Commit
<1> USE DEF daemonVars, ipcVars, clientVars
<1>1. CASE HandEdit
  <2> DEFINE m == [op |-> "replace", to |-> Broken]
  <2>1. m \in CF!ByHand BY DEF CF!ByHand
  <2>2. Rename(Broken, "user", NoClient, m) BY <1>1 DEF HandEdit
  <2>3. file' = Broken BY <2>2 DEF Rename
  <2>4. [n \in DOMAIN history' |-> history'[n].m]
           = Append([n \in DOMAIN history |-> history[n].m], m)
    BY <2>1, <2>2, LogGrows DEF Text
  <2>5. Broken \in CF!Candidates(file, m) BY DEF CF!Candidates
  <2> QED BY <2>1, <2>3, <2>4, <2>5 DEF CF!Commit, CF!Spoil, CF!Write
<1>2. ASSUME NEW c \in Client, DirectWrite(c) PROVE ~Served
  BY <1>2 DEF DirectWrite, Served
<1>3. ASSUME NEW p \in Pid, Commit(p), Served PROVE CF!Commit
  <2> DEFINE m == Mutation(serving[p])
  <2>1. ipc[p] = "write" /\ Rename(cand[p], p, serving[p], m)
    BY <1>3 DEF Commit
  <2>2. main[p] = "up" BY <1>3, <2>1 DEF Ownership, OneDaemon, Served
  <2>3. base[p] = Len(history)
    <3>1. base[p] <= Len(history) /\ base[p] \in Nat /\ Len(history) \in Nat
      BY <2>1, LenProperties DEF Ownership, Fresh, TypeOK
    <3>2. ~(Len(history) \in base[p] + 1 .. Len(history))
      BY <1>3, <2>1, <2>2 DEF Ownership, Fresh, Served, Outsider
    <3> QED BY <3>1, <3>2
  <2>4. serving[p] \in Client /\ task[serving[p]].op # "reload"
    BY <2>1 DEF Sessions, Session
  <2>5. m \in CF!Surgical \cup CF!Replace BY <2>4, MutationType
  <2>6. file' \in CF!Candidates(file, m)
    BY <2>1, <2>3 DEF Ownership, Fresh, Rename
  <2>7. cand[p] \in Text BY DEF TypeOK
  <2> HIDE DEF m
  <2>8. [n \in DOMAIN history' |-> history'[n].m]
           = Append([n \in DOMAIN history |-> history[n].m], m)
    BY <2>1, <2>4, <2>5, <2>7, LogGrows
  <2> QED BY <2>5, <2>6, <2>8 DEF CF!Commit, CF!Mutate, CF!Overwrite, CF!Write
<1>4. \/ HandEdit \/ \E c \in Client : DirectWrite(c)
      \/ \E p \in Pid : Commit(p)
  BY DEF Next, CommandStep, UserStep, OpenEditor, CloseEditor, Dispatch, Connect, Send,
         HangUp, DirectRead, Suspend, Kill, IpcStep, Bind, Accept, StopServing, Handle,
         Reply, EndOfFile, MainStep, Outside, Load, Record, Reload, LeaveLoop, Join, Start,
         Signal, Crash, vars
<1> QED BY <1>1, <1>2, <1>3, <1>4

\* While one daemon owns the file, with any number of commands going to it or past
\* it, hand edits, crashes and restarts included, a surgical mutation is applied to
\* what the write before it left, and a daemon writes nothing that does not parse
\* (apply_to_disk on the one IPC thread, dispatch_mutation's choice of the way).  It
\* does not say that a `jobs edit` overwrites nobody's change: that is false.
THEOREM ConfigFileImplemented ==
  ASSUME Supervised PROVE Spec => ImplementsConfigFile
<1>1. Init => CF!Init
  BY ControlAssumption DEF Init, CF!Init, Served
<1>2. TypeOK /\ Sessions /\ Ownership /\ [Next]_vars =>
        [(~Served \/ CF!Commit) /\ Served' \in BOOLEAN]_<<file, [n \in DOMAIN history |->
                                                                    history[n].m]>>
  <2> SUFFICES ASSUME TypeOK, Sessions, Ownership, [Next]_vars,
                      ~UNCHANGED <<file, history>>
               PROVE  (~Served \/ CF!Commit) /\ Served' \in BOOLEAN
    OBVIOUS
  <2>1. Served' \in BOOLEAN BY DEF Served
  <2> QED BY <2>1, FileStep
<1> QED BY <1>1, <1>2, ControlTypes, OwnershipHolds, PTL
        DEF Spec, ImplementsConfigFile, CF!Spec

-----------------------------------------------------------------------------
(* What a jobs edit overwrites.                                              *)

\* A command that is on its way to a write.
OnItsWay == {"dispatch", "connect", "connected", "direct", "writing"} \cup Asked

\* While nothing has been written since a jobs edit compared the file, it is what
\* the user was given.
Compared(c) ==
    /\ base[c] <= Len(history)
    /\ task[c].op = "edit" /\ pc[c] \in OnItsWay /\ base[c] = Len(history)
          => file = seed[c]

AllCompared == \A c \in Client : Compared(c)

LEMMA FileGrows ==
  ASSUME TypeOK, Sessions, [Next]_vars
  PROVE  UNCHANGED <<file, history>> \/ Len(history') = Len(history) + 1
<1> USE DEF daemonVars, ipcVars, clientVars
<1>1. CASE HandEdit
  <2>1. [op |-> "replace", to |-> Broken] \in CF!ByHand BY DEF CF!ByHand
  <2> QED BY <1>1, <2>1, RenameType DEF HandEdit, Text
<1>2. ASSUME NEW c \in Client, DirectWrite(c)
      PROVE  UNCHANGED <<file, history>> \/ Len(history') = Len(history) + 1
  <2>1. cand[c] \in Text BY DEF TypeOK
  <2> QED BY <1>2, <2>1, MutationType, RenameType DEF DirectWrite
<1>3. ASSUME NEW p \in Pid, Commit(p)
      PROVE  UNCHANGED <<file, history>> \/ Len(history') = Len(history) + 1
  <2>1. cand[p] \in Text BY DEF TypeOK
  <2>2. serving[p] \in Client BY <1>3 DEF Commit, Sessions, Session
  <2> QED BY <1>3, <2>1, <2>2, MutationType, RenameType DEF Commit
<1>4. \/ HandEdit \/ UNCHANGED <<file, history>>
      \/ \E c \in Client : DirectWrite(c)
      \/ \E p \in Pid : Commit(p)
  BY DEF Next, CommandStep, UserStep, OpenEditor, CloseEditor, Dispatch, Connect, Send,
         HangUp, DirectRead, Suspend, Kill, IpcStep, Bind, Accept, StopServing, Handle,
         Reply, EndOfFile, MainStep, Outside, Load, Record, Reload, LeaveLoop, Join, Start,
         Signal, Crash, vars
<1> QED BY <1>1, <1>2, <1>3, <1>4

\* A command gets on its way by comparing the file, or was there before; and only
\* its own steps touch what it has noted.
Notes(c) ==
    /\ task' = task
    /\ base'[c] \in {base[c], Len(history), 0}
    /\ task[c].op = "edit" /\ pc'[c] \in OnItsWay =>
         \/ pc[c] \in OnItsWay /\ base'[c] = base[c] /\ seed'[c] = seed[c]
         \/ /\ file = seed[c] /\ base'[c] = Len(history)
            /\ UNCHANGED <<file, history, seed>>

LEMMA NotesKept ==
  ASSUME TypeOK, [Next]_vars, NEW c \in Client
  PROVE  Notes(c)
<1>0. c \notin Pid BY ControlAssumption
<1>1. ASSUME NEW d \in Client, CommandStep(d) \/ UserStep(d) PROVE Notes(c)
  <2> USE DEF OnItsWay, Asked, Notes, TypeOK, daemonVars, ipcVars, clientVars
  <2>1. CASE OpenEditor(d) BY <2>1 DEF OpenEditor
  <2>2. CASE CloseEditor(d) BY <2>2 DEF CloseEditor
  <2>3. CASE Dispatch(d) BY <2>3 DEF Dispatch
  <2>4. CASE Connect(d) BY <2>4 DEF Connect
  <2>5. CASE Send(d) BY <2>5 DEF Send
  <2>6. CASE HangUp(d) BY <2>6 DEF HangUp
  <2>7. CASE DirectRead(d) BY <2>7 DEF DirectRead
  <2>8. CASE DirectWrite(d) BY <2>8 DEF DirectWrite, Forget
  <2>9. CASE Suspend(d) BY <2>9 DEF Suspend
  <2>10. CASE Kill(d) BY <2>10 DEF Kill
  <2> QED BY <1>1, <2>1, <2>2, <2>3, <2>4, <2>5, <2>6, <2>7, <2>8, <2>9, <2>10
          DEF CommandStep, UserStep
<1>2. ASSUME NEW p \in Pid, IpcStep(p) PROVE Notes(c)
  <2>1. /\ UNCHANGED <<task, seed>> /\ base'[c] = base[c]
        /\ pc' = pc \/ (Reply(p) /\ pc'[c] \in {pc[c], "applied", "refused"})
    BY <1>0, <1>2
       DEF IpcStep, Bind, Accept, StopServing, Handle, Commit, Reply, EndOfFile, Forget,
           TypeOK, clientVars
  <2> QED BY <2>1 DEF OnItsWay, Asked, Notes
<1>3. ASSUME NEW p \in Pid, MainStep(p) \/ Outside(p) PROVE Notes(c)
  BY <1>0, <1>3
     DEF MainStep, Outside, Load, Record, Reload, LeaveLoop, Join, Start, Signal, Crash,
         Forget, Notes, TypeOK, clientVars
<1>4. CASE HandEdit BY <1>4 DEF HandEdit, Notes, clientVars
<1>5. CASE UNCHANGED vars BY <1>5 DEF vars, Notes, clientVars
<1> QED BY <1>1, <1>2, <1>3, <1>4, <1>5 DEF Next

LEMMA ComparedHolds == Spec => []AllCompared
<1>1. Init => AllCompared
  <2> SUFFICES ASSUME Init, NEW c \in Client PROVE Compared(c) BY DEF AllCompared
  <2>1. base[c] = 0 /\ history = <<>> /\ file = seed[c] BY DEF Init
  <2> QED BY <2>1 DEF Compared
<1>2. TypeOK /\ Sessions /\ AllCompared /\ [Next]_vars => AllCompared'
  <2> SUFFICES ASSUME TypeOK, Sessions, [Next]_vars, NEW c \in Client, Compared(c)
               PROVE  Compared(c)'
    BY DEF AllCompared
  <2>1. Len(history) \in Nat /\ base[c] \in Nat BY LenProperties DEF TypeOK
  <2>2. UNCHANGED <<file, history>> \/ Len(history') = Len(history) + 1 BY FileGrows
  <2>3. Notes(c) BY NotesKept
  <2>4. base'[c] <= Len(history) BY <2>1, <2>3 DEF Compared, Notes
  <2>5. CASE UNCHANGED <<file, history>> BY <2>3, <2>4, <2>5 DEF Compared, Notes
  <2>6. base'[c] \in Nat BY <2>1, <2>3 DEF Notes
  <2>7. CASE Len(history') = Len(history) + 1
    <3>1. base'[c] <= Len(history') /\ base'[c] # Len(history')
      BY <2>1, <2>4, <2>7, <2>6
    <3> QED BY <3>1 DEF Compared
  <2> QED BY <2>2, <2>5, <2>7
<1> QED BY <1>1, <1>2, ControlTypes, PTL DEF Spec

\* The last entry of the history is the write just made.
LEMMA LastEntry ==
  ASSUME TypeOK, NEW w \in Pid \cup {"cli", "user"}, NEW c \in Client \cup {NoClient},
         NEW m \in CF!Surgical \cup CF!Replace \cup CF!ByHand \cup [op : {"reload"}],
         NEW f \in Text,
         Rename(f, w, c, m)
  PROVE  history'[Len(history')].who = c
<1>1. history'[Len(history')] = [by |-> w, who |-> c, m |-> m]
  <2>1. /\ Len(history') = Len(history) + 1
        /\ history'[Len(history) + 1] = [by |-> w, who |-> c, m |-> m]
    BY RenameType
  <2> QED BY <2>1
<1> QED BY <1>1

\* With any number of commands, daemons and faults, a `jobs edit` overwrites no
\* change made while the user was editing: what it overwrites unseen came after its
\* comparison (run_jobs_edit's "staleness guard").
THEOREM EditsSpareTheOld == Spec => EditClobbersOnlyTheNew
<1> DEFINE Spares(c) ==
      /\ task[c].op = "edit"
      /\ history' # history /\ history'[Len(history')].who = c
      => file = seed[c] \/ Len(history) > base[c]
<1>1. TypeOK /\ Sessions /\ AllCompared /\ [Next]_vars
        => [\A c \in Client : Spares(c)]_vars
  <2> SUFFICES ASSUME TypeOK, Sessions, AllCompared, Next,
                      NEW c \in Client, task[c].op = "edit", history' # history,
                      history'[Len(history')].who = c
               PROVE  file = seed[c] \/ Len(history) > base[c]
    OBVIOUS
  <2> USE DEF daemonVars, ipcVars, clientVars
  <2>1. Len(history) \in Nat /\ base[c] \in Nat BY LenProperties DEF TypeOK
  <2>2. pc[c] \in OnItsWay
    <3>1. CASE HandEdit
      <4>1. [op |-> "replace", to |-> Broken] \in CF!ByHand BY DEF CF!ByHand
      <4>2. Rename(Broken, "user", NoClient, [op |-> "replace", to |-> Broken])
        BY <3>1 DEF HandEdit
      <4>3. Broken \in Text BY DEF Text
      <4>4. history'[Len(history')].who = NoClient BY <4>1, <4>2, <4>3, LastEntry
      <4> QED BY <4>4, ControlAssumption
    <3>2. ASSUME NEW d \in Client, DirectWrite(d) PROVE pc[c] \in OnItsWay
      <4>1. cand[d] \in Text BY DEF TypeOK
      <4>2. Rename(cand[d], "cli", d, Mutation(d)) BY <3>2 DEF DirectWrite
      <4>3. history'[Len(history')].who = d BY <4>1, <4>2, MutationType, LastEntry
      <4> QED BY <3>2, <4>3 DEF DirectWrite, OnItsWay
    <3>3. ASSUME NEW p \in Pid, Commit(p) PROVE pc[c] \in OnItsWay
      <4>1. cand[p] \in Text BY DEF TypeOK
      <4>2. serving[p] \in Client /\ pc[serving[p]] \in Asked
        BY <3>3 DEF Commit, Sessions, Session
      <4>3. Rename(cand[p], p, serving[p], Mutation(serving[p])) BY <3>3 DEF Commit
      <4>4. history'[Len(history')].who = serving[p]
        BY <4>1, <4>2, <4>3, MutationType, LastEntry
      <4> QED BY <4>2, <4>4 DEF OnItsWay
    <3>4. HandEdit \/ (\E d \in Client : DirectWrite(d)) \/ (\E p \in Pid : Commit(p))
      BY DEF Next, CommandStep, UserStep, OpenEditor, CloseEditor, Dispatch, Connect,
             Send, HangUp, DirectRead, Suspend, Kill, IpcStep, Bind, Accept, StopServing,
             Handle, Reply, EndOfFile, MainStep, Outside, Load, Record, Reload, LeaveLoop,
             Join, Start, Signal, Crash
    <3> QED BY <3>1, <3>2, <3>3, <3>4
  <2> QED BY <2>1, <2>2 DEF AllCompared, Compared
<1> QED BY <1>1, ControlTypes, ComparedHolds, PTL DEF Spec, EditClobbersOnlyTheNew
=============================================================================
