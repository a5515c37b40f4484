------------------------------ MODULE Commands ------------------------------
(***************************************************************************)
(* The command engine of LOF_extra.c: the list of commands, the way a      *)
(* command is executed step by step over its Progress field, how a reply   *)
(* is attached to the command that waits for it, the single retry, and the *)
(* walk over the list (LOF_TOOL_Command_main) that the main loop runs once *)
(* per iteration.                                                          *)
(*                                                                         *)
(* Requests go to a server.  A request that was written to a channel is    *)
(* kept in `pending` until the server answers it; it may never do so.      *)
(***************************************************************************)
EXTENDS Conversations

CONSTANTS
  CommandIds,      \* the commands that can ever be arranged
  MaxTime,         \* LOF_COMMAND_MAX_TIME
  MaxConcurrent    \* LOF_MAX_CONCURRENT

NoCommand == "no command"
NoReply == [callid |-> 0, kind |-> "NONE", ok |-> FALSE, by |-> NoCommand]

ASSUME CommandsAssumption ==
  /\ NoCommand \notin CommandIds
  /\ MaxTime \in Nat
  /\ MaxConcurrent \in Nat \ {0}

VARIABLES
  mode,      \* "running", "exited", or what undefined behaviour was met
  pc,        \* where the only thread is in the main loop
  queue,     \* LOF_GLOBAL_Command_List: a sequence of commands
  cmd,       \* the LOF_TOOL_CommandType of each command
  pos,       \* the command the walk is at (listptr)
  execs,     \* execcount of the walk
  callid,    \* the global `callid` of LOF_sip.c: the next one to be used
  pending,   \* requests written to a channel and not answered yet
  outcome,   \* what has become of each command
  sends,     \* how often the text of each command was written to a channel
  accepted   \* the commands whose text the server has accepted

cmdVars == <<queue, cmd, pos, execs, outcome>>
serverVars == <<callid, pending, sends, accepted>>

Instructions == {"MSG", "SMS", "DUMP"}

RequestKinds == {"STARTCHAT", "REGISTER", "INVITEBUDDY", "TEXT", "SMS"}

(* The kinds of request that carry the text of a command.                  *)
TextKinds == {"TEXT", "SMS"}

Senders == CommandIds \cup {NoCommand}

Request == [callid : Nat, kind : RequestKinds, by : Senders, on : AllChannels]

Reply == [callid : Nat, kind : RequestKinds \cup {"NONE"}, ok : BOOLEAN,
          by : Senders]

Command ==
  [instr : Instructions, to : Buddies \cup {NoBuddy},
   status : {"NOT_HANDLED", "ON_HOLD", "SUCCESS", "FAIL"},
   progress : -1..6, retry : {0, 1}, callid : Nat, timer : 0..(MaxTime + 1),
   back : Reply]

(* LOF_TOOL_Command_new                                                    *)
NewCommand(instr, b) ==
  [instr |-> instr, to |-> b, status |-> "NOT_HANDLED", progress |-> 0,
   retry |-> 0, callid |-> 0, timer |-> 0, back |-> NoReply]

CommandInit ==
  /\ queue = <<>>
  /\ cmd = [c \in CommandIds |-> NewCommand("DUMP", NoBuddy)]
  /\ pos = 1
  /\ execs = 0
  /\ callid = 1
  /\ pending = {}
  /\ outcome = [c \in CommandIds |-> "unused"]
  /\ sends = [c \in CommandIds |-> 0]
  /\ accepted = {}

Unused == {c \in CommandIds : outcome[c] = "unused"}

(* A new command at the tail of the list (LOF_TOOL_Command_arrange).       *)
Enqueue(c, instr, b) ==
  /\ outcome[c] = "unused"
  /\ queue' = Append(queue, c)
  /\ cmd' = [cmd EXCEPT ![c] = NewCommand(instr, b)]
  /\ outcome' = [outcome EXCEPT ![c] = "listed"]
  /\ UNCHANGED <<pos, execs>>

(***************************************************************************)
(* LOF_TOOL_Command_ack_sipc40: the first command of the list that waits   *)
(* for this call id gets the reply, whatever reply it held before.         *)
(***************************************************************************)
Waiting(r) == {i \in DOMAIN queue : cmd[queue[i]].callid = r.callid}

Attach(r) ==
  /\ cmd' = IF Waiting(r) = {} THEN cmd
            ELSE LET c == queue[CHOOSE i \in Waiting(r) :
                                  \A j \in Waiting(r) : i <= j]
                 IN [cmd EXCEPT ![c].back = r]
  /\ UNCHANGED <<queue, pos, execs, outcome>>

(* Slip: the call id is not counted on.                                    *)
WriteSameId(kind, c, v) ==
  /\ pending' = pending \cup {[callid |-> callid, kind |-> kind,
                               by |-> c, on |-> v]}
  /\ UNCHANGED callid

(* FetionSip_set_type stamps the message with the global call id, and      *)
(* LOF_SIP_to_string increments it once the message is written.            *)
Write(kind, c, v) ==
  /\ pending' = pending \cup {[callid |-> callid, kind |-> kind,
                               by |-> c, on |-> v]}
  /\ callid' = callid + 1

(* Slip: the struct is freed and the socket stays open.                    *)
ForgetNothing(v) == UNCHANGED <<pending, callid>>

(* Closing a socket: what was asked on it is never answered.               *)
Forget(v) ==
  /\ pending' = {p \in pending : p.on # v}
  /\ UNCHANGED callid

(***************************************************************************)
(* The walk of LOF_TOOL_Command_main.                                      *)
(***************************************************************************)
Current == queue[pos]

InWalk ==
  /\ mode = "running"
  /\ pc = "commands"
  /\ pos <= Len(queue)

EndWalk ==
  /\ pc' = "sleep"
  /\ pos' = 1
  /\ execs' = 0

(* listptr = listptr->next with execcount = n, or the end of the list.     *)
Advance(n) ==
  IF pos = Len(queue) THEN EndWalk
  ELSE /\ pos' = pos + 1
       /\ execs' = n
       /\ UNCHANGED pc

(* `continue`: the same command is looked at again.                        *)
LookAgain == UNCHANGED <<pc, pos, execs>>

(* Slip: a command that waits for a reply is not timed.                    *)
TimedUnlessOnHold(c) == cmd[c].timer > MaxTime /\ cmd[c].status # "ON_HOLD"

TimedOut(c) == cmd[c].timer > MaxTime

Failed(c) == TimedOut(c) \/ cmd[c].status = "FAIL"

Finished(c) == Failed(c) \/ cmd[c].status = "SUCCESS"

(* Undefined behaviour: nothing is claimed of what happens next.           *)
Stop(why) ==
  /\ mode' = why
  /\ UNCHANGED <<pc, cmdVars, serverVars, convVars>>

(* Slips: the retry is not limited to one, or not counted at all.          *)
RetryForever ==
  LET c == Current IN
  /\ InWalk
  /\ Failed(c)
  /\ cmd' = [cmd EXCEPT ![c] = [@ EXCEPT !.retry = @ + 1,
               !.status = "NOT_HANDLED", !.progress = 0, !.timer = 0]]
  /\ Advance(execs)
  /\ UNCHANGED <<mode, queue, outcome, serverVars, convVars>>

RetryUncounted ==
  LET c == Current IN
  /\ InWalk
  /\ Failed(c)
  /\ cmd[c].retry = 0
  /\ cmd' = [cmd EXCEPT ![c] = [@ EXCEPT !.status = "NOT_HANDLED",
               !.progress = 0, !.timer = 0]]
  /\ Advance(execs)
  /\ UNCHANGED <<mode, queue, outcome, serverVars, convVars>>

(* A command that failed for the first time is started again.  Its call id *)
(* and the reply it holds, if any, stay as they are.                       *)
RetryCommand ==
  LET c == Current IN
  /\ InWalk
  /\ Failed(c)
  /\ cmd[c].retry = 0
  /\ cmd' = [cmd EXCEPT ![c] = [@ EXCEPT !.retry = 1,
               !.status = "NOT_HANDLED", !.progress = 0, !.timer = 0]]
  /\ Advance(execs)
  /\ UNCHANGED <<mode, queue, outcome, serverVars, convVars>>

(* Slips: the head of the list is unlinked instead of the node reported;   *)
(* a failed command is given up without a second try.                      *)
ReportHead ==
  LET c == Current IN
  /\ InWalk
  /\ Finished(c)
  /\ Failed(c) => cmd[c].retry = 1
  /\ outcome' = [outcome EXCEPT ![c] = IF Failed(c) THEN "failed" ELSE "done"]
  /\ queue' = Tail(queue)
  /\ cmd' = [cmd EXCEPT ![c] = NewCommand("DUMP", NoBuddy)]
  /\ IF pos = Len(queue) THEN EndWalk ELSE LookAgain
  /\ UNCHANGED <<mode, serverVars, convVars>>

ReportAtOnce ==
  LET c == Current IN
  /\ InWalk
  /\ Finished(c)
  /\ outcome' = [outcome EXCEPT ![c] = IF Failed(c) THEN "failed" ELSE "done"]
  /\ queue' = RemoveAt(queue, pos)
  /\ cmd' = [cmd EXCEPT ![c] = NewCommand("DUMP", NoBuddy)]
  /\ IF pos = Len(queue) THEN EndWalk ELSE LookAgain
  /\ UNCHANGED <<mode, serverVars, convVars>>

(* A command that succeeded, or failed twice, is reported and destroyed.   *)
ReportCommand ==
  LET c == Current IN
  /\ InWalk
  /\ Finished(c)
  /\ Failed(c) => cmd[c].retry = 1
  /\ outcome' = [outcome EXCEPT ![c] = IF Failed(c) THEN "failed" ELSE "done"]
  /\ queue' = RemoveAt(queue, pos)
  /\ cmd' = [cmd EXCEPT ![c] = NewCommand("DUMP", NoBuddy)]
  /\ IF pos = Len(queue) THEN EndWalk ELSE LookAgain
  /\ UNCHANGED <<mode, serverVars, convVars>>

(* Beyond the first MaxConcurrent commands, a command is only kept fresh.  *)
PostponeCommand ==
  LET c == Current IN
  /\ InWalk
  /\ ~Finished(c)
  /\ execs >= MaxConcurrent
  /\ cmd' = [cmd EXCEPT ![c].timer = 0]
  /\ Advance(execs)
  /\ UNCHANGED <<mode, queue, outcome, serverVars, convVars>>

(***************************************************************************)
(* One call of LOF_TOOL_Command_exec_... for the command the walk is at.   *)
(***************************************************************************)
Executes(c, instr) ==
  /\ InWalk
  /\ c = Current
  /\ ~Finished(c)
  /\ execs < MaxConcurrent
  /\ cmd[c].instr = instr

(* What a call that does not finish the command leaves behind.             *)
Executed(c, record) ==
  /\ cmd' = [cmd EXCEPT ![c] = record]
  /\ Advance(execs + 1)
  /\ UNCHANGED <<mode, queue, outcome>>

SucceededRecord(record, progress) ==
  [record EXCEPT !.status = "SUCCESS", !.progress = progress, !.back = NoReply]

Succeeded(c, progress) ==
  /\ cmd' = [cmd EXCEPT ![c] = SucceededRecord(@, progress)]
  /\ LookAgain
  /\ UNCHANGED <<mode, queue, outcome>>

FailedRecord(record) == [record EXCEPT !.status = "FAIL", !.progress = -1]

(* The reply is used up and freed.                                         *)
NextRecord(record, progress) ==
  [record EXCEPT !.progress = progress, !.back = NoReply]

Answered(c) == cmd[c].back # NoReply

(* The command waits for the reply to what it writes in this call.         *)
AskingRecord(record, progress) ==
  [record EXCEPT !.callid = callid, !.progress = progress,
                 !.status = "ON_HOLD"]

(* The text of the command is part of what is written.                     *)
WriteText(kind, c, v) ==
  /\ Write(kind, c, v)
  /\ sends' = [sends EXCEPT ![c] = @ + 1]
  /\ UNCHANGED accepted

WriteRequest(kind, c, v) ==
  /\ Write(kind, c, v)
  /\ UNCHANGED <<sends, accepted>>

(* exec_send_sms                                                           *)
SendSms ==
  LET c == Current IN
  /\ Executes(c, "SMS")
  /\ cmd[c].progress = 0
  /\ cmd[c].status = "NOT_HANDLED"
  /\ WriteText("SMS", c, Root)
  /\ Executed(c, AskingRecord(cmd[c], 1))
  /\ UNCHANGED convVars

(* Slip: any reply counts as a positive one.                               *)
SmsAnswered ==
  LET c == Current IN
  /\ Executes(c, "SMS")
  /\ cmd[c].progress = 1
  /\ Answered(c)
  /\ Succeeded(c, 2)
  /\ UNCHANGED <<serverVars, convVars>>

SmsAccepted ==
  LET c == Current IN
  /\ Executes(c, "SMS")
  /\ cmd[c].progress = 1
  /\ Answered(c)
  /\ cmd[c].back.ok
  /\ Succeeded(c, 2)
  /\ UNCHANGED <<serverVars, convVars>>

(* Slip: a refused text is written again within the same try.              *)
SmsSentAgain ==
  LET c == Current IN
  /\ Executes(c, "SMS")
  /\ cmd[c].progress = 1
  /\ Answered(c)
  /\ ~cmd[c].back.ok
  /\ Executed(c, [cmd[c] EXCEPT !.status = "NOT_HANDLED", !.progress = 0,
                                !.back = NoReply])
  /\ UNCHANGED <<serverVars, convVars>>

(* The refused reply stays in BackSipMsg.                                  *)
SmsRefused ==
  LET c == Current IN
  /\ Executes(c, "SMS")
  /\ cmd[c].progress = 1
  /\ Answered(c)
  /\ ~cmd[c].back.ok
  /\ Executed(c, FailedRecord(cmd[c]))
  /\ UNCHANGED <<serverVars, convVars>>

SmsWaits ==
  LET c == Current IN
  /\ Executes(c, "SMS")
  /\ cmd[c].progress = 1
  /\ ~Answered(c)
  /\ Executed(c, cmd[c])
  /\ UNCHANGED <<serverVars, convVars>>

(* exec_dump_status, exec_dump_contact, exec_dump_msg: a file is written.  *)
Dump ==
  LET c == Current IN
  /\ Executes(c, "DUMP")
  /\ \/ Succeeded(c, 1)
     \/ Executed(c, FailedRecord(cmd[c]))
  /\ UNCHANGED <<serverVars, convVars>>

(***************************************************************************)
(* exec_send_msg.  The conversation is searched for anew on every call.    *)
(***************************************************************************)
ExecutesMsg(c, progress) ==
  /\ Executes(c, "MSG")
  /\ cmd[c].progress = progress

(* With a conversation whose buddy is not there the command waits, whoever *)
(* opened the conversation.                                                *)
HoldMsg ==
  LET c == Current IN
  /\ ExecutesMsg(c, 0)
  /\ HasConv(cmd[c].to)
  /\ conv[ConvOf(cmd[c].to)].ready # 1
  /\ Executed(c, [cmd[c] EXCEPT !.status = "ON_HOLD"])
  /\ UNCHANGED <<serverVars, convVars>>

(* The conversation of a command under way is gone.                        *)
ConvLost ==
  LET c == Current IN
  /\ Executes(c, "MSG")
  /\ cmd[c].progress # 0
  /\ ~HasConv(cmd[c].to)
  /\ Executed(c, FailedRecord(cmd[c]))
  /\ UNCHANGED <<serverVars, convVars>>

(* A conversation without channel is listed, and asked for on the root.    *)
StartChat ==
  LET c == Current
      v == CHOOSE v \in FreeChannels : TRUE
  IN
  /\ ExecutesMsg(c, 0)
  /\ ~HasConv(cmd[c].to)
  /\ FreeChannels # {}
  /\ AppendConv(v, NewConv(cmd[c].to, "none"))
  /\ WriteRequest("STARTCHAT", c, Root)
  /\ Executed(c, AskingRecord(cmd[c], 1))

(* Only a positive reply to StartChat carries the address to connect to;   *)
(* LOF_SIP_get_auth_attr takes any other reply through a null pointer.     *)
HasCredential(r) == r.kind = "STARTCHAT" /\ r.ok

NoCredential ==
  LET c == Current IN
  /\ ExecutesMsg(c, 1)
  /\ HasConv(cmd[c].to)
  /\ Answered(c)
  /\ ~HasCredential(cmd[c].back)
  /\ Stop("no credential")

Connect ==
  LET c == Current
      v == ConvOf(cmd[c].to)
  IN
  /\ ExecutesMsg(c, 1)
  /\ HasConv(cmd[c].to)
  /\ Answered(c)
  /\ HasCredential(cmd[c].back)
  /\ SetConv(v, [conv[v] EXCEPT !.tcp = "open", !.ready = 0])
  /\ WriteRequest("REGISTER", c, v)
  /\ Executed(c, [AskingRecord(cmd[c], 2) EXCEPT !.back = NoReply])

(* The chat server cannot be reached: the listed conversation stays.       *)
ConnectFails ==
  LET c == Current IN
  /\ ExecutesMsg(c, 1)
  /\ HasConv(cmd[c].to)
  /\ Answered(c)
  /\ HasCredential(cmd[c].back)
  /\ Executed(c, [FailedRecord(cmd[c]) EXCEPT !.back = NoReply])
  /\ UNCHANGED <<serverVars, convVars>>

(* Whatever the reply to the registration, the buddy is invited.           *)
InviteBuddy ==
  LET c == Current
      v == ConvOf(cmd[c].to)
  IN
  /\ ExecutesMsg(c, 2)
  /\ HasConv(cmd[c].to)
  /\ Answered(c)
  /\ conv[v].tcp # "none"
  /\ WriteRequest("INVITEBUDDY", c, v)
  /\ Executed(c, [NextRecord(cmd[c], 3) EXCEPT !.callid = callid])
  /\ UNCHANGED convVars

InviteRefused ==
  LET c == Current IN
  /\ ExecutesMsg(c, 3)
  /\ HasConv(cmd[c].to)
  /\ Answered(c)
  /\ ~cmd[c].back.ok
  /\ Executed(c, [FailedRecord(cmd[c]) EXCEPT !.back = NoReply])
  /\ UNCHANGED <<serverVars, convVars>>

InviteAccepted ==
  LET c == Current IN
  /\ ExecutesMsg(c, 3)
  /\ HasConv(cmd[c].to)
  /\ Answered(c)
  /\ cmd[c].back.ok
  /\ conv[ConvOf(cmd[c].to)].ready # 1
  /\ Executed(c, NextRecord(cmd[c], 4))
  /\ UNCHANGED <<serverVars, convVars>>

(* The command is at Progress 4, or reaches it in this call.               *)
MayText(c) ==
  \/ cmd[c].progress \in {0, 4}
  \/ cmd[c].progress = 3 /\ Answered(c) /\ cmd[c].back.ok

(* Slip: the reply to the invitation is kept when the text is written.     *)
SendTextKeepingReply ==
  LET c == Current
      v == ConvOf(cmd[c].to)
  IN
  /\ Executes(c, "MSG")
  /\ HasConv(cmd[c].to)
  /\ MayText(c)
  /\ conv[v].ready = 1
  /\ conv[v].tcp # "none"
  /\ WriteText("TEXT", c, v)
  /\ Executed(c, [AskingRecord(cmd[c], 5) EXCEPT !.timer = 0])
  /\ UNCHANGED convVars

(* What LOF_USER_Conversation_send_sms writes has the call id of the       *)
(* command from now on; the reply of an earlier request is dropped.        *)
SendText ==
  LET c == Current
      v == ConvOf(cmd[c].to)
  IN
  /\ Executes(c, "MSG")
  /\ HasConv(cmd[c].to)
  /\ MayText(c)
  /\ conv[v].ready = 1
  /\ conv[v].tcp # "none"
  /\ WriteText("TEXT", c, v)
  /\ Executed(c, [AskingRecord(cmd[c], 5) EXCEPT !.timer = 0,
                                                 !.back = NoReply])
  /\ UNCHANGED convVars

(* The buddy could not be reached: the conversation is freed.              *)
BuddyFailed ==
  LET c == Current
      v == ConvOf(cmd[c].to)
  IN
  /\ ExecutesMsg(c, 4)
  /\ HasConv(cmd[c].to)
  /\ conv[v].ready = -1
  /\ conv[v].tcp # "none"
  /\ DropConv(v)
  /\ Forget(v)
  /\ UNCHANGED <<sends, accepted>>
  /\ Executed(c, FailedRecord(cmd[c]))

(* The call would use or free the channel of a conversation without one.   *)
UseNullChannel ==
  LET c == Current
      v == ConvOf(cmd[c].to)
  IN
  /\ Executes(c, "MSG")
  /\ HasConv(cmd[c].to)
  /\ conv[v].tcp = "none"
  /\ \/ cmd[c].progress = 2 /\ Answered(c)
     \/ MayText(c) /\ conv[v].ready = 1
     \/ cmd[c].progress = 4 /\ conv[v].ready = -1
  /\ Stop("null channel")

TextAccepted ==
  LET c == Current IN
  /\ ExecutesMsg(c, 5)
  /\ HasConv(cmd[c].to)
  /\ Answered(c)
  /\ cmd[c].back.ok
  /\ Succeeded(c, 6)
  /\ UNCHANGED <<serverVars, convVars>>

(* Nothing to do yet; a refused text is not even noticed.                  *)
MsgWaits ==
  LET c == Current IN
  /\ Executes(c, "MSG")
  /\ HasConv(cmd[c].to)
  /\ \/ cmd[c].progress \in {1, 2, 3} /\ ~Answered(c)
     \/ cmd[c].progress = 4 /\ conv[ConvOf(cmd[c].to)].ready = 0
     \/ cmd[c].progress = 5 /\ ~(Answered(c) /\ cmd[c].back.ok)
  /\ Executed(c, cmd[c])
  /\ UNCHANGED <<serverVars, convVars>>

ExecuteCommand ==
  \/ SendSms \/ SmsAccepted \/ SmsRefused \/ SmsWaits
  \/ Dump
  \/ HoldMsg \/ ConvLost \/ StartChat
  \/ NoCredential \/ Connect \/ ConnectFails
  \/ InviteBuddy \/ InviteRefused \/ InviteAccepted
  \/ SendText \/ BuddyFailed \/ UseNullChannel
  \/ TextAccepted \/ MsgWaits

CommandStep ==
  \/ RetryCommand \/ ReportCommand \/ PostponeCommand
  \/ ExecuteCommand

CommandTypeOK ==
  /\ mode \in {"running", "exited", "no credential", "null channel",
               "null conversation", "root destroyed"}
  /\ queue \in Seq(CommandIds)
  /\ cmd \in [CommandIds -> Command]
  /\ pos \in Nat \ {0}
  /\ execs \in 0..MaxConcurrent
  /\ callid \in Nat \ {0}
  /\ pending \subseteq Request
  /\ outcome \in [CommandIds -> {"unused", "listed", "done", "failed"}]
  /\ sends \in [CommandIds -> Nat]
  /\ accepted \subseteq CommandIds
=============================================================================
