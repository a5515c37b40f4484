------------------------------ MODULE Takeover ------------------------------
(***************************************************************************)
(* The main loop of the daemon (LOF_TAKEOVER in cliLOF.c): one thread that *)
(* in each iteration polls every channel, dispatches what it heard, keeps  *)
(* the root channel alive, walks the command list, sleeps, and reads new   *)
(* commands from a pipe.  Composes the conversation list and the command   *)
(* engine with the server, which answers requests late, negatively or      *)
(* never, pushes notifications, messages and invitations, and may close a  *)
(* channel at any time.                                                    *)
(***************************************************************************)
EXTENDS Commands

CONSTANTS
  Stranger,      \* a sender who is not in the contact list
  News,          \* the kinds of message the server sends of its own accord
  MaxNews,       \* bounds how many of them it sends in all
  MaxBatch,      \* bounds how many messages one poll returns
  MaxBeats,      \* bounds how many keep-alive requests are sent
  Instrs,        \* the instructions the pipe delivers
  PoliteServer   \* TRUE: UserLeft is the last thing said on a chat channel,
                 \* and only chat channels carry Conversation notifications

NewsKinds == {"MESSAGE", "INVITATION", "UserLeft", "UserEntered",
              "UserFailed", "DEREGISTRATION"}

ConversationEvents == {"UserLeft", "UserEntered", "UserFailed"}

ASSUME TakeoverAssumption ==
  /\ Stranger \notin Buddies
  /\ News \subseteq NewsKinds
  /\ MaxNews \in Nat /\ MaxBatch \in Nat /\ MaxBeats \in Nat
  /\ Instrs \subseteq Instructions
  /\ PoliteServer \in BOOLEAN

VARIABLES
  at,              \* the conversation the loop is at (ConversationListPtr)
  listenerError,   \* listener_error: 0, 1 (nothing heard) or 2 (closed)
  batch,           \* totalmsg: what the last poll returned
  news,            \* messages the server has sent of its own accord
  beats            \* keep-alive requests sent

loopVars == <<at, listenerError, batch, news, beats>>
vars == <<mode, pc, cmdVars, serverVars, convVars, loopVars>>

People == Buddies \cup {Stranger}

(* A message read from a channel: a reply, or news from somebody.          *)
ReplyMsg(r) == [type |-> "SIPC", reply |-> r, from |-> Stranger]
NewsMsg(k, p) == [type |-> k, reply |-> NoReply, from |-> p]

Message == [type : NewsKinds \cup {"SIPC"}, reply : Reply, from : People]

Init ==
  /\ ConvInit
  /\ CommandInit
  /\ mode = "running"
  /\ pc = "listen"
  /\ at = Root
  /\ listenerError = 0
  /\ batch = <<>>
  /\ news = 0
  /\ beats = 0

-----------------------------------------------------------------------------
(* What may arrive on a channel.                                           *)

Replies(v) ==
  {ReplyMsg([callid |-> p.callid, kind |-> p.kind, ok |-> b, by |-> p.by]) :
     p \in {q \in pending : q.on = v}, b \in BOOLEAN}

SentFrom(kinds, people) == {NewsMsg(k, p) : k \in kinds \cap News, p \in people}

Sent(v) ==
  SentFrom({"MESSAGE", "INVITATION"}, People)
    \cup SentFrom({"DEREGISTRATION"}, {Stranger})
    \cup (IF PoliteServer /\ v = Root THEN {}
          ELSE SentFrom(ConversationEvents, {Stranger}))

NewsIn(s) == {i \in DOMAIN s : s[i].type # "SIPC"}

(* Each request is answered at most once, in any order.                    *)
Batches(v) ==
  {s \in SeqOf(Replies(v) \cup Sent(v), MaxBatch) :
     /\ s # <<>>
     /\ news + Cardinality(NewsIn(s)) <= MaxNews
     /\ \A i, j \in DOMAIN s \ NewsIn(s) :
          i # j => s[i].reply.callid # s[j].reply.callid
     /\ PoliteServer =>
          \A i \in DOMAIN s : s[i].type = "UserLeft" => i = Len(s)}

(* One poll of a channel (LOF_SIP_FetionSip_listen): what was read, and    *)
(* the error flag.  A conversation that is not ready is not polled, and    *)
(* the flag keeps the value an earlier poll gave it.                       *)
Polls(v) ==
  IF conv[v].ready = -1 THEN {[msgs |-> <<>>, error |-> listenerError]}
  ELSE IF conv[v].tcp = "shut" THEN {[msgs |-> <<>>, error |-> 2]}
  ELSE {[msgs |-> <<>>, error |-> 1], [msgs |-> <<>>, error |-> 2]}
         \cup {[msgs |-> s, error |-> 0] : s \in Batches(v)}

(* The server's side of what was read: requests answered, texts accepted.  *)
Served(s) ==
  /\ pending' = {p \in pending :
                   \A i \in DOMAIN s : s[i].reply.callid # p.callid}
  /\ accepted' = accepted \cup
       {s[i].reply.by : i \in {j \in DOMAIN s :
                                 s[j].reply.ok /\ s[j].reply.kind \in TextKinds}}
  /\ news' = news + Cardinality(NewsIn(s))
  /\ UNCHANGED <<callid, sends>>

Polling ==
  /\ mode = "running"
  /\ pc = "listen"

(* The end of a chat channel: the peer closed it, or nothing was heard for *)
(* too long.  The root channel is never closed here.                       *)
Closes(v, error) ==
  /\ error = 2 \/ conv[v].timer >= ChannelMaxTime
  /\ v # Root

Listen ==
  \E p \in Polls(at) :
    /\ Polling
    /\ conv[at].ready # -1 => conv[at].tcp # "none"
    /\ ~Closes(at, p.error)
    /\ Served(p.msgs)
    /\ SetConv(at, [conv[at] EXCEPT
                      !.tcp = IF conv[at].ready # -1 /\ p.error = 2
                              THEN "shut" ELSE @,
                      !.timer = IF p.msgs # <<>> THEN 0 ELSE @])
    /\ batch' = p.msgs
    /\ listenerError' = p.error
    /\ pc' = "dispatch"
    /\ UNCHANGED <<mode, cmdVars, at, beats>>

(* What was heard in the same poll is dropped with the channel.            *)
CloseChannel ==
  \E p \in Polls(at) :
    /\ Polling
    /\ conv[at].tcp # "none"
    /\ Closes(at, p.error)
    /\ pending' = {q \in pending : q.on # at}
    /\ accepted' = accepted \cup
         {p.msgs[i].reply.by : i \in {j \in DOMAIN p.msgs :
            p.msgs[j].reply.ok /\ p.msgs[j].reply.kind \in TextKinds}}
    /\ news' = news + Cardinality(NewsIn(p.msgs))
    /\ DropConv(at)
    /\ at' = PreOf(at)
    /\ batch' = <<>>
    /\ listenerError' = 0
    /\ pc' = "dispatch"
    /\ UNCHANGED <<mode, cmdVars, callid, sends, beats>>

(* Polling or freeing a conversation that has no channel.                  *)
ListenNullChannel ==
  /\ Polling
  /\ conv[at].tcp = "none"
  /\ \/ conv[at].ready # -1
     \/ Closes(at, listenerError)
  /\ Stop("null channel")
  /\ UNCHANGED loopVars

-----------------------------------------------------------------------------
(* Dispatching what was heard, one message at a time.                      *)

Dispatching(type) ==
  /\ mode = "running"
  /\ pc = "dispatch"
  /\ batch # <<>>
  /\ Head(batch).type = type

NextMessage ==
  /\ batch' = Tail(batch)
  /\ UNCHANGED <<mode, pc, listenerError, news, beats>>

GotReply ==
  /\ Dispatching("SIPC")
  /\ Attach(Head(batch).reply)
  /\ NextMessage
  /\ UNCHANGED <<serverVars, convVars, at>>

(* LOF_SIP_parse_message acknowledges on the channel; the callback then    *)
(* arranges a command that sends the text back to a known sender.          *)
GotMessage ==
  /\ Dispatching("MESSAGE")
  /\ conv[at].tcp # "none"
  /\ IF Head(batch).from \in Buddies /\ Unused # {}
     THEN Enqueue(CHOOSE c \in Unused : TRUE, "MSG", Head(batch).from)
     ELSE UNCHANGED cmdVars
  /\ NextMessage
  /\ UNCHANGED <<serverVars, convVars, at>>

(* An invitation is taken on the root channel only: connect, register, and *)
(* list a conversation that waits for the buddy to enter.                  *)
GotInvitation ==
  LET v == CHOOSE v \in FreeChannels : TRUE IN
  /\ Dispatching("INVITATION")
  /\ at = Root
  /\ Head(batch).from \in Buddies
  /\ FreeChannels # {}
  /\ AppendConv(v, NewConv(Head(batch).from, "open"))
  /\ WriteRequest("REGISTER", NoCommand, v)
  /\ NextMessage
  /\ UNCHANGED <<cmdVars, at>>

IgnoreInvitation ==
  /\ Dispatching("INVITATION")
  /\ at # Root
  /\ NextMessage
  /\ UNCHANGED <<cmdVars, serverVars, convVars, at>>

(* The inviter is unknown, so a null conversation is listed; or the chat   *)
(* server cannot be reached, and the outputs of parse_invitation are read  *)
(* uninitialised.                                                          *)
BadInvitation ==
  /\ Dispatching("INVITATION")
  /\ at = Root
  /\ Stop("null conversation")
  /\ UNCHANGED loopVars

(* Slip: the pointer of the loop stays at the node that was freed.         *)
UserLeftInPlace ==
  /\ Dispatching("UserLeft")
  /\ at # Root
  /\ conv[at].tcp # "none"
  /\ DropConv(at)
  /\ Forget(at)
  /\ NextMessage
  /\ UNCHANGED <<cmdVars, sends, accepted, at>>

GotUserLeft ==
  /\ Dispatching("UserLeft")
  /\ at # Root
  /\ conv[at].tcp # "none"
  /\ DropConv(at)
  /\ Forget(at)
  /\ at' = PreOf(at)
  /\ NextMessage
  /\ UNCHANGED <<cmdVars, sends, accepted>>

(* The head of the list is freed as well; the list is lost with it.        *)
RootLeft ==
  /\ Dispatching("UserLeft")
  /\ at = Root
  /\ Stop("root destroyed")
  /\ UNCHANGED loopVars

GotUserEntered ==
  /\ Dispatching("UserEntered")
  /\ SetConv(at, [conv[at] EXCEPT !.ready = 1])
  /\ NextMessage
  /\ UNCHANGED <<cmdVars, serverVars, at>>

GotUserFailed ==
  /\ Dispatching("UserFailed")
  /\ SetConv(at, [conv[at] EXCEPT !.ready = -1])
  /\ NextMessage
  /\ UNCHANGED <<cmdVars, serverVars, at>>

GotDeregistration ==
  /\ Dispatching("DEREGISTRATION")
  /\ Stop("exited")
  /\ UNCHANGED loopVars

DispatchNullChannel ==
  /\ \/ Dispatching("MESSAGE")
     \/ Dispatching("UserLeft")
  /\ conv[at].tcp = "none"
  /\ Stop("null channel")
  /\ UNCHANGED loopVars

Dispatch ==
  \/ GotReply \/ GotMessage
  \/ GotInvitation \/ IgnoreInvitation \/ BadInvitation
  \/ GotUserLeft \/ RootLeft \/ GotUserEntered \/ GotUserFailed
  \/ GotDeregistration \/ DispatchNullChannel

(* The batch is done: the next conversation, or the end of the list.  The  *)
(* pointer is set back to the head before it is used again.                *)
NextChannel ==
  /\ mode = "running"
  /\ pc = "dispatch"
  /\ batch = <<>>
  /\ IF IsLast(at)
     THEN /\ pc' = "keepalive"
          /\ at' = Root
     ELSE /\ pc' = "listen"
          /\ at' = NextOf(at)
  /\ UNCHANGED <<mode, cmdVars, serverVars, convVars, listenerError, batch,
                 news, beats>>

-----------------------------------------------------------------------------
(* The rest of an iteration.                                               *)

ToCommands == pc' = IF queue = <<>> THEN "sleep" ELSE "commands"

(* LOF_TOOL_AutoKeepAlive; whether it is time for a request depends on a   *)
(* clock nothing else reads.                                               *)
KeepAlive ==
  /\ mode = "running"
  /\ pc = "keepalive"
  /\ \/ /\ beats < MaxBeats
        /\ beats' = beats + 1
        /\ WriteRequest("REGISTER", NoCommand, Root)
     \/ UNCHANGED <<beats, serverVars>>
  /\ ToCommands
  /\ UNCHANGED <<mode, cmdVars, convVars, at, listenerError, batch, news>>

Walk == CommandStep /\ UNCHANGED loopVars

Sleep ==
  /\ mode = "running"
  /\ pc = "sleep"
  /\ pc' = "tunnel"
  /\ UNCHANGED <<mode, cmdVars, serverVars, convVars, loopVars>>

(* LOF_TOOL_Command_ParseStr arranges what the pipe delivered.             *)
ArrangeCommand ==
  /\ mode = "running"
  /\ pc = "tunnel"
  /\ Unused # {}
  /\ \E i \in Instrs, b \in Buddies :
       Enqueue(CHOOSE c \in Unused : TRUE, i, b)
  /\ UNCHANGED <<mode, pc, serverVars, convVars, loopVars>>

(* The EXIT command, or the end of the loop after 3001 iterations.         *)
Exit ==
  /\ mode = "running"
  /\ pc = "tunnel"
  /\ Stop("exited")
  /\ UNCHANGED loopVars

LoopAgain ==
  /\ mode = "running"
  /\ pc = "tunnel"
  /\ pc' = "listen"
  /\ UNCHANGED <<mode, cmdVars, serverVars, convVars, loopVars>>

(* Time passes while the thread sleeps and during a walk.                  *)
Older(t, max) == IF t < max THEN t + 1 ELSE t

Tick ==
  /\ mode = "running"
  /\ pc \in {"sleep", "commands"}
  /\ cmd' = [c \in CommandIds |->
               IF outcome[c] = "listed"
               THEN [cmd[c] EXCEPT !.timer = Older(@, MaxTime + 1)]
               ELSE cmd[c]]
  /\ conv' = [v \in AllChannels |->
                IF v \in Listed \ {Root}
                THEN [conv[v] EXCEPT !.timer = Older(@, ChannelMaxTime)]
                ELSE conv[v]]
  /\ UNCHANGED <<mode, pc, queue, pos, execs, outcome, serverVars, convs,
                 loopVars>>

Loop ==
  \/ Listen \/ CloseChannel \/ ListenNullChannel
  \/ Dispatch \/ NextChannel
  \/ KeepAlive \/ Walk \/ Sleep \/ LoopAgain

(* The process has ended.                                                  *)
Halted == mode # "running" /\ UNCHANGED vars

Next == Loop \/ ArrangeCommand \/ Exit \/ Tick \/ Halted

Spec == Init /\ [][Next]_vars

(* The thread runs until it ends, and time passes.                         *)
FairSpec == Spec /\ WF_vars(Loop) /\ SF_vars(Tick)

-----------------------------------------------------------------------------
(* Properties.                                                             *)

TypeOK ==
  /\ ConvTypeOK
  /\ CommandTypeOK
  /\ pc \in {"listen", "dispatch", "keepalive", "commands", "sleep", "tunnel"}
  /\ at \in AllChannels
  /\ listenerError \in 0..2
  /\ batch \in Seq(Message)
  /\ news \in Nat
  /\ beats \in Nat

ListedCommands == {c \in CommandIds : outcome[c] = "listed"}

(***************************************************************************)
(* Whatever is late, lost, retried or freed in between, a command never    *)
(* holds the reply to another one's request (ack_sipc40 goes by call id    *)
(* alone, and retries keep old call ids).                                  *)
(***************************************************************************)
RepliesAreRouted ==
  \A c \in ListedCommands : Answered(c) => cmd[c].back.by = c

(***************************************************************************)
(* A command that is about to be reported as done, or was, had its text    *)
(* accepted by the server: no stale reply of an earlier step or of the     *)
(* first try passes for the delivery report (LOF_extra.c:318).             *)
(***************************************************************************)
DoneMeansAccepted ==
  \A c \in CommandIds :
    \/ outcome[c] = "listed" /\ cmd[c].instr # "DUMP"
         /\ cmd[c].status = "SUCCESS"
    \/ outcome[c] = "done" /\ sends[c] > 0
    => c \in accepted

(***************************************************************************)
(* The text of a command is written at most once per try, so at most twice *)
(* in all, across every path that leads back to Progress 0 or 4.           *)
(***************************************************************************)
OneTextPerTry ==
  \A c \in CommandIds :
    sends[c] <= IF outcome[c] = "listed" THEN cmd[c].retry + 1 ELSE 2

(***************************************************************************)
(* The command list holds each command that was arranged and not reported, *)
(* once: the walk that frees nodes under its own feet loses none and keeps *)
(* none.                                                                   *)
(***************************************************************************)
QueueIsExact ==
  /\ \A i, j \in DOMAIN queue : queue[i] = queue[j] => i = j
  /\ {queue[i] : i \in DOMAIN queue} = ListedCommands

(***************************************************************************)
(* The list starts with the root channel, has every conversation once, the *)
(* others belong to a buddy, and the loop's pointer is in it, although two *)
(* places of the loop and one of the engine free nodes.                    *)
(***************************************************************************)
ConvListOK ==
  /\ convs # <<>> /\ convs[1] = Root
  /\ \A i, j \in DOMAIN convs : convs[i] = convs[j] => i = j
  /\ \A i \in DOMAIN convs : convs[i] # Root => conv[convs[i]].contact \in Buddies
  /\ at \in Listed

(***************************************************************************)
(* A conversation that is polled or written to has a channel, as long as   *)
(* the server says nothing on a channel after UserLeft.                    *)
(***************************************************************************)
ReadyHasChannel ==
  \A v \in Listed : conv[v].ready # -1 => conv[v].tcp # "none"

(***************************************************************************)
(* No request is outstanding on a channel that was freed, so no reply can  *)
(* come in on the socket of another conversation.                          *)
(***************************************************************************)
RequestsOnOpenChannels ==
  \A p \in pending : p.on \in Listed /\ conv[p.on].tcp # "none"

(***************************************************************************)
(* Every command is reported in the end, unless the process ends: replies  *)
(* may be lost, conversations may hang half open, and commands may be kept *)
(* waiting behind MaxConcurrent others.                                    *)
(***************************************************************************)
EveryCommandEnds ==
  \A c \in CommandIds :
    outcome[c] = "listed" ~> (outcome[c] # "listed" \/ mode # "running")

(* The engine keeps the promise of CommandLifecycle.                       *)
Lifecycle == INSTANCE CommandLifecycle WITH
  stage <- [c \in CommandIds |->
              IF outcome[c] # "listed" THEN outcome[c]
              ELSE IF cmd[c].retry = 0 THEN "first" ELSE "second"],
  alive <- mode = "running"

KeepsPromise == Lifecycle!Spec

(***************************************************************************)
(* cliLOF.c:29: "the first item is the root channel, which should never be *)
(* destroyed".                                                             *)
(***************************************************************************)
RootNeverDestroyed == mode # "root destroyed"

(***************************************************************************)
(* LOF_extra.c:534: a command that is abandoned "Failed Twice".  A command *)
(* whose second try is given up before its time is over has a refusal of   *)
(* that try in its hands.                                                  *)
(***************************************************************************)
FailedTwice ==
  \A c \in ListedCommands :
    cmd[c].instr = "SMS" /\ cmd[c].retry = 1 /\ cmd[c].status = "FAIL"
      => cmd[c].back.callid = cmd[c].callid
=============================================================================
