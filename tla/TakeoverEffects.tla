-------------------------- MODULE TakeoverEffects ---------------------------
(***************************************************************************)
(* What a step of Takeover can do to the commands and to the requests that *)
(* are under way.  Each of the steps has one of eleven effects; the proofs *)
(* of the invariants go by effect and not by action.                       *)
(***************************************************************************)
EXTENDS TakeoverInvariants, ListLemmas

Sound == TypeOK /\ ListInv

KeepsCommands == UNCHANGED <<queue, cmd, outcome>>

(* Requests and replies may get lost; nothing else.                        *)
Untouched ==
  /\ KeepsCommands
  /\ UNCHANGED <<callid, sends, accepted>>
  /\ pending' \subseteq pending
  /\ Heard' \subseteq Heard

(* Requests are answered.                                                  *)
Polled ==
  /\ KeepsCommands
  /\ UNCHANGED <<callid, sends>>
  /\ pending' \subseteq pending
  /\ \A r \in Heard' : \E p \in pending :
       /\ r.callid = p.callid /\ r.kind = p.kind /\ r.by = p.by
       /\ r.ok /\ r.kind \in TextKinds => r.by \in accepted'
  /\ accepted \subseteq accepted'
  /\ \A c \in accepted' \ accepted :
       \E p \in pending : p.kind \in TextKinds /\ p.by = c

Attached ==
  /\ \E r \in Heard : Attach(r)
  /\ UNCHANGED serverVars
  /\ Heard' \subseteq Heard

(* A request that belongs to no command is written.                        *)
Asked ==
  /\ \E v \in AllChannels : WriteRequest("REGISTER", NoCommand, v)
  /\ KeepsCommands
  /\ Heard' \subseteq Heard

(* The command c is changed to k, which keeps what k has from c.           *)
Changes(c, k) ==
  /\ c \in ListedCommands
  /\ k \in Command
  /\ k.instr = cmd[c].instr /\ k.to = cmd[c].to /\ k.retry = cmd[c].retry
  /\ k.back \in {cmd[c].back, NoReply}
  /\ cmd' = [cmd EXCEPT ![c] = k]
  /\ UNCHANGED <<queue, outcome, batch>>

(* What may count as a success: a dump, or a positive reply to the text.   *)
TextAnswered(c) ==
  \/ cmd[c].instr = "DUMP"
  \/ /\ Answered(c) /\ cmd[c].back.ok
     /\ cmd[c].instr = "MSG" => cmd[c].progress = 5

(* The command moves on without writing anything.                          *)
Acted ==
  /\ \E c \in CommandIds, k \in Command :
       /\ Changes(c, k)
       /\ k.callid = cmd[c].callid
       /\ BeforeText(k) => BeforeText(cmd[c])
       /\ k.progress = 5 => cmd[c].progress = 5
       /\ k.status = "SUCCESS" => TextAnswered(c)
  /\ UNCHANGED <<callid, sends, accepted>>
  /\ pending' \subseteq pending

(* The command writes a request that does not carry its text.              *)
Requested ==
  \E c \in CommandIds, k \in Command, v \in AllChannels,
     kind \in RequestKinds \ TextKinds :
       /\ Changes(c, k)
       /\ k.instr = "MSG" /\ cmd[c].progress \in 0..2 /\ k.progress \in 1..3
       /\ k.status # "SUCCESS"
       /\ k.callid = callid
       /\ WriteRequest(kind, c, v)

(* The command writes its text.                                            *)
Texted ==
  \E c \in CommandIds, k \in Command, v \in AllChannels, kind \in TextKinds :
       /\ Changes(c, k)
       /\ k.instr # "DUMP" /\ BeforeText(cmd[c]) /\ ~BeforeText(k)
       /\ k.status # "SUCCESS"
       /\ k.callid = callid
       /\ k.instr = "SMS" => kind = "SMS"
       /\ k.instr = "MSG" => kind = "TEXT" /\ k.back = NoReply
       /\ WriteText(kind, c, v)

Retried ==
  \E c \in ListedCommands :
    /\ cmd[c].retry = 0
    /\ cmd' = [cmd EXCEPT ![c] = [@ EXCEPT !.retry = 1,
                 !.status = "NOT_HANDLED", !.progress = 0, !.timer = 0]]
    /\ UNCHANGED <<queue, outcome, serverVars, batch>>

Reported ==
  /\ pos \in 1..Len(queue)
  /\ \E c \in ListedCommands :
       /\ c = queue[pos]
       /\ outcome' = [outcome EXCEPT ![c] = IF Failed(c) THEN "failed" ELSE "done"]
       /\ Failed(c) => cmd[c].retry = 1
       /\ ~Failed(c) => cmd[c].status = "SUCCESS"
       /\ cmd' = [cmd EXCEPT ![c] = NewCommand("DUMP", NoBuddy)]
  /\ queue' = RemoveAt(queue, pos)
  /\ UNCHANGED <<serverVars, batch>>

Arranged ==
  /\ \E c \in Unused, i \in Instructions, b \in Buddies : Enqueue(c, i, b)
  /\ UNCHANGED serverVars
  /\ Heard' \subseteq Heard

Aged ==
  /\ \E age \in [CommandIds -> 0..(MaxTime + 1)] :
       cmd' = [c \in CommandIds |-> [cmd[c] EXCEPT !.timer = age[c]]]
  /\ UNCHANGED <<queue, outcome, serverVars, batch>>

Effect ==
  \/ Untouched \/ Polled \/ Attached \/ Asked
  \/ Acted \/ Requested \/ Texted
  \/ Retried \/ Reported \/ Arranged \/ Aged

-----------------------------------------------------------------------------
(* The command the walk is at is a listed one.                             *)
LEMMA CurrentIsListed ==
  ASSUME Sound, InWalk
  PROVE  Current \in ListedCommands /\ Current \in CommandIds
<1>1. pos \in 1..Len(queue) /\ queue \in Seq(CommandIds)
  <2>1. queue \in Seq(CommandIds) /\ pos \in Nat \ {0} /\ pos <= Len(queue)
    BY DEF Sound, TypeOK, CommandTypeOK, InWalk
  <2> QED BY <2>1, LenProperties
<1>2. pos \in DOMAIN queue
  BY <1>1, LenProperties
<1> QED
  BY <1>1, <1>2 DEF Sound, ListInv, QueueIsExact, Current, ListedCommands

(* The first conversation with a buddy is a listed one.                    *)
LEMMA ConvOfIsListed ==
  ASSUME Sound, NEW b, HasConv(b)
  PROVE  ConvOf(b) \in Listed /\ ConvOf(b) \in AllChannels
           /\ conv[ConvOf(b)].contact = b
<1>1. convs \in Seq(AllChannels)
  BY DEF Sound, TypeOK, ConvTypeOK
<1>2. DOMAIN convs = 1..Len(convs) /\ Len(convs) \in Nat
  BY <1>1, LenProperties
<1>3. WithBuddy(b) \in SUBSET Nat /\ WithBuddy(b) # {}
  BY <1>2 DEF WithBuddy, HasConv
<1>4. \E i \in WithBuddy(b) : \A j \in WithBuddy(b) : i <= j
  BY <1>3, LeastElement
<1>5. PICK i \in WithBuddy(b) : ConvOf(b) = convs[i]
  BY <1>4 DEF ConvOf
<1>6. i \in 1..Len(convs) /\ conv[convs[i]].contact = b
  BY <1>2 DEF WithBuddy
<1> QED BY <1>1, <1>2, <1>5, <1>6, ElementOfSeq DEF Listed

LEMMA RecordOfCommand ==
  ASSUME Sound, NEW c \in CommandIds
  PROVE  /\ cmd[c] \in Command
         /\ cmd[c].callid \in Nat /\ cmd[c].retry \in {0, 1}
         /\ cmd[c].back \in Reply /\ NoReply \in Reply
         /\ callid \in Nat /\ MaxTime \in Nat
BY CommandsAssumption
   DEF Sound, TypeOK, CommandTypeOK, Command, Reply, NoReply, Senders

(* m is the state k of a command with its status, its progress or its      *)
(* reply changed.                                                          *)
Revises(k, m) ==
  /\ m \in Command
  /\ m.instr = k.instr /\ m.to = k.to /\ m.retry = k.retry
  /\ m.callid = k.callid
  /\ m.back \in {k.back, NoReply}

LEMMA FailedRecords ==
  ASSUME NEW k \in Command, NoReply \in Reply
  PROVE  /\ Revises(k, FailedRecord(k))
         /\ FailedRecord(k).status = "FAIL"
         /\ FailedRecord(k).progress = -1
         /\ Revises(k, [FailedRecord(k) EXCEPT !.back = NoReply])
         /\ [FailedRecord(k) EXCEPT !.back = NoReply].status = "FAIL"
         /\ [FailedRecord(k) EXCEPT !.back = NoReply].progress = -1
<1> DEFINE p == -1
           m == [k EXCEPT !.status = "FAIL", !.progress = p]
           n == [m EXCEPT !.back = NoReply]
<1>1. p \in -1..6
  OBVIOUS
<1> HIDE DEF p
<1>2. Revises(k, m) /\ m.status = "FAIL" /\ m.progress = p
  BY <1>1 DEF Revises, Command
<1>3. Revises(k, n) /\ n.status = "FAIL" /\ n.progress = p
  BY <1>1 DEF Revises, Command
<1> QED BY <1>2, <1>3 DEF FailedRecord, p

(* The state left by a success, and by an accepted invitation.             *)
LEMMA OtherRecords ==
  ASSUME NEW k \in Command, NoReply \in Reply, NEW p \in -1..6
  PROVE  /\ Revises(k, SucceededRecord(k, p))
         /\ SucceededRecord(k, p).progress = p
         /\ Revises(k, NextRecord(k, p))
         /\ NextRecord(k, p).progress = p
         /\ NextRecord(k, p).status = k.status
<1> DEFINE m == SucceededRecord(k, p)
           n == NextRecord(k, p)
<1>1. Revises(k, m) /\ m.progress = p
  BY DEF Revises, Command, SucceededRecord
<1>2. Revises(k, n) /\ n.progress = p /\ n.status = k.status
  BY DEF Revises, Command, NextRecord
<1> QED BY <1>1, <1>2

(* The calls of the engine that write nothing.                             *)
LEMMA ActedSteps ==
  ASSUME Sound, UNCHANGED loopVars,
         \/ SmsWaits \/ SmsRefused \/ SmsAccepted \/ Dump
         \/ HoldMsg \/ ConvLost \/ ConnectFails
         \/ InviteRefused \/ InviteAccepted \/ BuddyFailed
         \/ TextAccepted \/ MsgWaits
  PROVE  Acted
<1> DEFINE c == Current
<1>1. InWalk /\ ~Finished(c)
  BY DEF SmsWaits, SmsRefused, SmsAccepted, Dump, HoldMsg, ConvLost,
         ConnectFails, InviteRefused, InviteAccepted, BuddyFailed,
         TextAccepted, MsgWaits, ExecutesMsg, Executes
<1>2. c \in ListedCommands /\ c \in CommandIds
  BY <1>1, CurrentIsListed
<1> DEFINE o == cmd[c]
<1>3. o \in Command /\ NoReply \in Reply /\ o.status # "SUCCESS"
  BY <1>1, <1>2, RecordOfCommand DEF Finished
<1> DEFINE Leaves(k) ==
             /\ Revises(o, k)
             /\ BeforeText(k) => BeforeText(o)
             /\ k.progress = 5 => o.progress = 5
             /\ k.status = "SUCCESS" => TextAnswered(c)
             /\ cmd' = [cmd EXCEPT ![c] = k]
<1> HIDE DEF c, o
<1>q. UNCHANGED <<queue, outcome, callid, sends, accepted>>
  BY DEF SmsWaits, SmsRefused, SmsAccepted, Dump, HoldMsg, ConvLost,
         ConnectFails, InviteRefused, InviteAccepted, BuddyFailed, Forget,
         TextAccepted, MsgWaits, Executed, Succeeded, serverVars
<1>p. pending' \subseteq pending
  BY DEF SmsWaits, SmsRefused, SmsAccepted, Dump, HoldMsg, ConvLost,
         ConnectFails, InviteRefused, InviteAccepted, BuddyFailed, Forget,
         TextAccepted, MsgWaits, serverVars
<1>4. ASSUME NEW k, Leaves(k)
      PROVE  Acted
  BY <1>2, <1>4, <1>p, <1>q DEF o, Acted, Changes, Revises, loopVars
<1>5. CASE SmsWaits
  <2> DEFINE k == o
  <2>1. Revises(o, k) /\ k = o
    BY <1>3 DEF Revises, Command
  <2>2. cmd' = [cmd EXCEPT ![c] = k]
    BY <1>5 DEF c, o, SmsWaits, Executed, Succeeded
  <2> HIDE DEF k
  <2>3. BeforeText(k) => BeforeText(o)
    BY <1>5, <2>1 DEF c, o, SmsWaits, Executes, BeforeText, Revises
  <2>4. /\ k.progress = 5 => o.progress = 5
        /\ k.status = "SUCCESS" => TextAnswered(c)
    BY <1>3, <1>5, <2>1 DEF c, o, SmsWaits, Executes, TextAnswered, Revises
  <2> QED BY <1>4, <2>1, <2>2, <2>3, <2>4
<1>6. CASE SmsRefused
  <2> DEFINE k == FailedRecord(o)
  <2>1. Revises(o, k) /\ k.status = "FAIL" /\ k.progress = -1
    BY <1>3, FailedRecords
  <2>2. cmd' = [cmd EXCEPT ![c] = k]
    BY <1>6 DEF c, o, SmsRefused, Executed, Succeeded
  <2> HIDE DEF k
  <2>3. BeforeText(k) => BeforeText(o)
    BY <1>6, <2>1 DEF c, o, SmsRefused, Executes, BeforeText, Revises
  <2>4. /\ k.progress = 5 => o.progress = 5
        /\ k.status = "SUCCESS" => TextAnswered(c)
    BY <1>3, <1>6, <2>1 DEF c, o, SmsRefused, Executes, TextAnswered, Revises
  <2> QED BY <1>4, <2>1, <2>2, <2>3, <2>4
<1>7. CASE SmsAccepted
  <2> DEFINE k == SucceededRecord(o, 2)
  <2>1. Revises(o, k) /\ k.progress = 2
    BY <1>3, OtherRecords
  <2>2. cmd' = [cmd EXCEPT ![c] = k]
    BY <1>7 DEF c, o, SmsAccepted, Executed, Succeeded
  <2> HIDE DEF k
  <2>3. BeforeText(k) => BeforeText(o)
    BY <1>7, <2>1 DEF c, o, SmsAccepted, Executes, BeforeText, Revises, Succeeded, Answered
  <2>4. /\ k.progress = 5 => o.progress = 5
        /\ k.status = "SUCCESS" => TextAnswered(c)
    BY <1>3, <1>7, <2>1 DEF c, o, SmsAccepted, Executes, TextAnswered, Revises, Succeeded, Answered
  <2> QED BY <1>4, <2>1, <2>2, <2>3, <2>4
<1>8. CASE HoldMsg
  <2> DEFINE k == [o EXCEPT !.status = "ON_HOLD"]
  <2>1. Revises(o, k) /\ k.status = "ON_HOLD" /\ k.progress = o.progress
    BY <1>3 DEF Revises, Command
  <2>2. cmd' = [cmd EXCEPT ![c] = k]
    BY <1>8 DEF c, o, HoldMsg, Executed, Succeeded
  <2> HIDE DEF k
  <2>3. BeforeText(k) => BeforeText(o)
    BY <1>8, <2>1 DEF c, o, HoldMsg, Executes, BeforeText, Revises, ExecutesMsg
  <2>4. /\ k.progress = 5 => o.progress = 5
        /\ k.status = "SUCCESS" => TextAnswered(c)
    BY <1>3, <1>8, <2>1 DEF c, o, HoldMsg, Executes, TextAnswered, Revises, ExecutesMsg
  <2> QED BY <1>4, <2>1, <2>2, <2>3, <2>4
<1>9. CASE ConvLost
  <2> DEFINE k == FailedRecord(o)
  <2>1. Revises(o, k) /\ k.status = "FAIL" /\ k.progress = -1
    BY <1>3, FailedRecords
  <2>2. cmd' = [cmd EXCEPT ![c] = k]
    BY <1>9 DEF c, o, ConvLost, Executed, Succeeded
  <2> HIDE DEF k
  <2>3. BeforeText(k) => BeforeText(o)
    BY <1>9, <2>1 DEF c, o, ConvLost, Executes, BeforeText, Revises
  <2>4. /\ k.progress = 5 => o.progress = 5
        /\ k.status = "SUCCESS" => TextAnswered(c)
    BY <1>3, <1>9, <2>1 DEF c, o, ConvLost, Executes, TextAnswered, Revises
  <2> QED BY <1>4, <2>1, <2>2, <2>3, <2>4
<1>10. CASE ConnectFails
  <2> DEFINE k == [FailedRecord(o) EXCEPT !.back = NoReply]
  <2>1. Revises(o, k) /\ k.status = "FAIL" /\ k.progress = -1
    BY <1>3, FailedRecords
  <2>2. cmd' = [cmd EXCEPT ![c] = k]
    BY <1>10 DEF c, o, ConnectFails, Executed, Succeeded
  <2> HIDE DEF k
  <2>3. BeforeText(k) => BeforeText(o)
    BY <1>10, <2>1 DEF c, o, ConnectFails, Executes, BeforeText, Revises, ExecutesMsg
  <2>4. /\ k.progress = 5 => o.progress = 5
        /\ k.status = "SUCCESS" => TextAnswered(c)
    BY <1>3, <1>10, <2>1 DEF c, o, ConnectFails, Executes, TextAnswered, Revises, ExecutesMsg
  <2> QED BY <1>4, <2>1, <2>2, <2>3, <2>4
<1>11. CASE InviteRefused
  <2> DEFINE k == [FailedRecord(o) EXCEPT !.back = NoReply]
  <2>1. Revises(o, k) /\ k.status = "FAIL" /\ k.progress = -1
    BY <1>3, FailedRecords
  <2>2. cmd' = [cmd EXCEPT ![c] = k]
    BY <1>11 DEF c, o, InviteRefused, Executed, Succeeded
  <2> HIDE DEF k
  <2>3. BeforeText(k) => BeforeText(o)
    BY <1>11, <2>1 DEF c, o, InviteRefused, Executes, BeforeText, Revises, ExecutesMsg
  <2>4. /\ k.progress = 5 => o.progress = 5
        /\ k.status = "SUCCESS" => TextAnswered(c)
    BY <1>3, <1>11, <2>1 DEF c, o, InviteRefused, Executes, TextAnswered, Revises, ExecutesMsg
  <2> QED BY <1>4, <2>1, <2>2, <2>3, <2>4
<1>12. CASE InviteAccepted
  <2> DEFINE k == NextRecord(o, 4)
  <2>1. Revises(o, k) /\ k.status = o.status /\ k.progress = 4
    BY <1>3, OtherRecords
  <2>2. cmd' = [cmd EXCEPT ![c] = k]
    BY <1>12 DEF c, o, InviteAccepted, Executed, Succeeded
  <2> HIDE DEF k
  <2>3. BeforeText(k) => BeforeText(o)
    BY <1>12, <2>1 DEF c, o, InviteAccepted, Executes, BeforeText, Revises, ExecutesMsg, Answered
  <2>4. /\ k.progress = 5 => o.progress = 5
        /\ k.status = "SUCCESS" => TextAnswered(c)
    BY <1>3, <1>12, <2>1 DEF c, o, InviteAccepted, Executes, TextAnswered, Revises, ExecutesMsg, Answered
  <2> QED BY <1>4, <2>1, <2>2, <2>3, <2>4
<1>13. CASE BuddyFailed
  <2> DEFINE k == FailedRecord(o)
  <2>1. Revises(o, k) /\ k.status = "FAIL" /\ k.progress = -1
    BY <1>3, FailedRecords
  <2>2. cmd' = [cmd EXCEPT ![c] = k]
    BY <1>13 DEF c, o, BuddyFailed, Executed, Succeeded
  <2> HIDE DEF k
  <2>3. BeforeText(k) => BeforeText(o)
    BY <1>13, <2>1 DEF c, o, BuddyFailed, Executes, BeforeText, Revises, ExecutesMsg
  <2>4. /\ k.progress = 5 => o.progress = 5
        /\ k.status = "SUCCESS" => TextAnswered(c)
    BY <1>3, <1>13, <2>1 DEF c, o, BuddyFailed, Executes, TextAnswered, Revises, ExecutesMsg
  <2> QED BY <1>4, <2>1, <2>2, <2>3, <2>4
<1>14. CASE TextAccepted
  <2> DEFINE k == SucceededRecord(o, 6)
  <2>1. Revises(o, k) /\ k.progress = 6
    BY <1>3, OtherRecords
  <2>2. cmd' = [cmd EXCEPT ![c] = k]
    BY <1>14 DEF c, o, TextAccepted, Executed, Succeeded
  <2> HIDE DEF k
  <2>3. BeforeText(k) => BeforeText(o)
    BY <1>14, <2>1 DEF c, o, TextAccepted, Executes, BeforeText, Revises, ExecutesMsg, Succeeded, Answered
  <2>4. /\ k.progress = 5 => o.progress = 5
        /\ k.status = "SUCCESS" => TextAnswered(c)
    BY <1>3, <1>14, <2>1 DEF c, o, TextAccepted, Executes, TextAnswered, Revises, ExecutesMsg, Succeeded, Answered
  <2> QED BY <1>4, <2>1, <2>2, <2>3, <2>4
<1>15. CASE MsgWaits
  <2> DEFINE k == o
  <2>1. Revises(o, k) /\ k = o
    BY <1>3 DEF Revises, Command
  <2>2. cmd' = [cmd EXCEPT ![c] = k]
    BY <1>15 DEF c, o, MsgWaits, Executed, Succeeded
  <2> HIDE DEF k
  <2>3. BeforeText(k) => BeforeText(o)
    BY <1>15, <2>1 DEF c, o, MsgWaits, Executes, BeforeText, Revises
  <2>4. /\ k.progress = 5 => o.progress = 5
        /\ k.status = "SUCCESS" => TextAnswered(c)
    BY <1>3, <1>15, <2>1 DEF c, o, MsgWaits, Executes, TextAnswered, Revises
  <2> QED BY <1>4, <2>1, <2>2, <2>3, <2>4
<1>16. CASE Dump
  <2>1. UNCHANGED <<queue, outcome, serverVars>>
    BY <1>16 DEF Dump, Executed, Succeeded
  <2>2. PICK k : /\ Revises(o, k) /\ k.progress # 5
                 /\ cmd' = [cmd EXCEPT ![c] = k]
    <3>1. CASE Succeeded(c, 1)
      <4> DEFINE m == SucceededRecord(o, 1)
      <4>1. Revises(o, m) /\ m.progress = 1
        BY <1>3, OtherRecords
      <4>2. cmd' = [cmd EXCEPT ![c] = m]
        BY <3>1 DEF o, Succeeded
      <4> HIDE DEF m
      <4>3. m.progress # 5
        BY <4>1
      <4> QED BY <4>1, <4>2, <4>3, Zenon
    <3>2. CASE Executed(c, FailedRecord(o))
      <4> DEFINE m == FailedRecord(o)
      <4>1. Revises(o, m) /\ m.progress = -1
        BY <1>3, FailedRecords
      <4>2. cmd' = [cmd EXCEPT ![c] = m]
        BY <3>2 DEF o, Executed
      <4> HIDE DEF m
      <4>3. m.progress # 5
        BY <4>1
      <4> QED BY <4>1, <4>2, <4>3, Zenon
    <3> QED BY <1>16, <3>1, <3>2 DEF Dump, c, o
  <2>3. o.instr = "DUMP"
    BY <1>16 DEF Dump, Executes, c, o
  <2> QED BY <1>4, <2>1, <2>2, <2>3 DEF o, BeforeText, TextAnswered, Revises
<1> QED
  BY <1>5, <1>6, <1>7, <1>8, <1>9, <1>10, <1>11, <1>12, <1>13, <1>14, <1>15, <1>16

(* m waits for the reply to what is written with the next call id.         *)
Reissues(k, m) ==
  /\ m \in Command
  /\ m.instr = k.instr /\ m.to = k.to /\ m.retry = k.retry
  /\ m.callid = callid
  /\ m.status # "SUCCESS"

(* What Connect, SendText and InviteBuddy make of the state k.             *)
AskedAgain(k, p) == [AskingRecord(k, p) EXCEPT !.back = NoReply]
AskedAnew(k, p) == [AskingRecord(k, p) EXCEPT !.timer = 0, !.back = NoReply]
AskedNext(k, p) == [NextRecord(k, p) EXCEPT !.callid = callid]

LEMMA AskingRecords ==
  ASSUME NEW k \in Command, NoReply \in Reply, NEW p \in -1..6, callid \in Nat,
         MaxTime \in Nat, k.status # "SUCCESS"
  PROVE  /\ Reissues(k, AskingRecord(k, p))
         /\ AskingRecord(k, p).progress = p
         /\ AskingRecord(k, p).back = k.back
         /\ \A m \in {AskedAgain(k, p), AskedAnew(k, p), AskedNext(k, p)} :
              Reissues(k, m) /\ m.progress = p /\ m.back = NoReply
<1> DEFINE m == AskingRecord(k, p)
<1>1. Reissues(k, m) /\ m.progress = p /\ m.back = k.back
  BY DEF Reissues, Command, AskingRecord
<1> HIDE DEF m
<1> DEFINE n == [m EXCEPT !.back = NoReply]
           t == [m EXCEPT !.timer = 0, !.back = NoReply]
<1>2. Reissues(k, n) /\ n.progress = p /\ n.back = NoReply
  BY <1>1 DEF Reissues, Command
<1>3. Reissues(k, t) /\ t.progress = p /\ t.back = NoReply
  <2>1. 0 \in 0..(MaxTime + 1)
    OBVIOUS
  <2> QED BY <1>1, <2>1 DEF Reissues, Command
<1> DEFINE a == NextRecord(k, p)
<1>4. Revises(k, a) /\ a.progress = p /\ a.status = k.status /\ a.back = NoReply
  BY OtherRecords DEF NextRecord, Command
<1> HIDE DEF a
<1> DEFINE b == [a EXCEPT !.callid = callid]
<1>5. Reissues(k, b) /\ b.progress = p /\ b.back = NoReply
  BY <1>4 DEF Reissues, Revises, Command
<1> QED
  BY <1>1, <1>2, <1>3, <1>5 DEF m, a, AskedAgain, AskedAnew, AskedNext

(* The calls of the engine that write a request.                           *)
LEMMA RequestedSteps ==
  ASSUME Sound, UNCHANGED loopVars, StartChat \/ Connect \/ InviteBuddy
  PROVE  Requested
<1> DEFINE c == Current
<1>1. InWalk /\ ~Finished(c)
  BY DEF StartChat, Connect, InviteBuddy, ExecutesMsg, Executes
<1>2. c \in ListedCommands /\ c \in CommandIds
  BY <1>1, CurrentIsListed
<1> DEFINE o == cmd[c]
<1>3. /\ o \in Command /\ NoReply \in Reply /\ callid \in Nat /\ MaxTime \in Nat
      /\ o.status # "SUCCESS"
  BY <1>1, <1>2, RecordOfCommand DEF Finished
<1> HIDE DEF c, o
<1>4. UNCHANGED <<queue, outcome>>
  BY DEF StartChat, Connect, InviteBuddy, Executed
<1>5. o.instr = "MSG"
  BY DEF c, o, StartChat, Connect, InviteBuddy, ExecutesMsg, Executes
<1>6. ASSUME NEW k, NEW v \in AllChannels, NEW kind \in RequestKinds \ TextKinds,
             Reissues(o, k), k.back \in {o.back, NoReply},
             o.progress \in 0..2, k.progress \in 1..3,
             cmd' = [cmd EXCEPT ![c] = k], WriteRequest(kind, c, v)
      PROVE  Requested
  BY <1>2, <1>4, <1>5, <1>6 DEF o, Requested, Changes, Reissues, loopVars
<1>7. CASE StartChat
  <2> DEFINE k == AskingRecord(o, 1)
  <2>1. Reissues(o, k) /\ k.progress = 1 /\ k.back = o.back
    BY <1>3, AskingRecords
  <2>2. cmd' = [cmd EXCEPT ![c] = k] /\ WriteRequest("STARTCHAT", c, Root)
    BY <1>7 DEF c, o, StartChat, Executed
  <2>3. o.progress = 0
    BY <1>7 DEF c, o, StartChat, ExecutesMsg
  <2> HIDE DEF k
  <2>4. Root \in AllChannels /\ "STARTCHAT" \in RequestKinds \ TextKinds
    BY DEF AllChannels, RequestKinds, TextKinds
  <2>6. o.progress \in 0..2 /\ k.progress \in 1..3 /\ k.back \in {o.back, NoReply}
    BY <2>1, <2>3
  <2> QED BY <1>6, <2>1, <2>2, <2>4, <2>6
<1>8. CASE Connect
  <2> DEFINE k == AskedAgain(o, 2)
             v == ConvOf(cmd[c].to)
  <2>1. Reissues(o, k) /\ k.progress = 2 /\ k.back = NoReply
    BY <1>3, AskingRecords
  <2>2. cmd' = [cmd EXCEPT ![c] = k] /\ WriteRequest("REGISTER", c, v)
    BY <1>8 DEF c, o, Connect, Executed, AskedAgain
  <2>3. o.progress = 1 /\ HasConv(cmd[c].to)
    BY <1>8 DEF c, o, Connect, ExecutesMsg
  <2>4. v \in AllChannels
    BY <2>3, ConvOfIsListed
  <2> HIDE DEF k, v
  <2>5. "REGISTER" \in RequestKinds \ TextKinds
    BY DEF RequestKinds, TextKinds
  <2>6. o.progress \in 0..2 /\ k.progress \in 1..3 /\ k.back \in {o.back, NoReply}
    BY <2>1, <2>3
  <2> QED BY <1>6, <2>1, <2>2, <2>4, <2>5, <2>6
<1>9. CASE InviteBuddy
  <2> DEFINE k == AskedNext(o, 3)
             v == ConvOf(cmd[c].to)
  <2>1. Reissues(o, k) /\ k.progress = 3 /\ k.back = NoReply
    BY <1>3, AskingRecords
  <2>2. cmd' = [cmd EXCEPT ![c] = k] /\ WriteRequest("INVITEBUDDY", c, v)
    BY <1>9 DEF c, o, InviteBuddy, Executed, AskedNext
  <2>3. o.progress = 2 /\ HasConv(cmd[c].to)
    BY <1>9 DEF c, o, InviteBuddy, ExecutesMsg
  <2>4. v \in AllChannels
    BY <2>3, ConvOfIsListed
  <2> HIDE DEF k, v
  <2>5. "INVITEBUDDY" \in RequestKinds \ TextKinds
    BY DEF RequestKinds, TextKinds
  <2>6. o.progress \in 0..2 /\ k.progress \in 1..3 /\ k.back \in {o.back, NoReply}
    BY <2>1, <2>3
  <2> QED BY <1>6, <2>1, <2>2, <2>4, <2>5, <2>6
<1> QED BY <1>7, <1>8, <1>9

(* The calls of the engine that write the text.                            *)
LEMMA TextedSteps ==
  ASSUME Sound, UNCHANGED loopVars, SendSms \/ SendText
  PROVE  Texted
<1> DEFINE c == Current
<1>1. InWalk /\ ~Finished(c)
  BY DEF SendSms, SendText, Executes
<1>2. c \in ListedCommands /\ c \in CommandIds
  BY <1>1, CurrentIsListed
<1> DEFINE o == cmd[c]
<1>3. /\ o \in Command /\ NoReply \in Reply /\ callid \in Nat /\ MaxTime \in Nat
      /\ o.status # "SUCCESS"
  BY <1>1, <1>2, RecordOfCommand DEF Finished
<1> HIDE DEF c, o
<1>4. UNCHANGED <<queue, outcome>>
  BY DEF SendSms, SendText, Executed
<1>5. ASSUME NEW k, NEW v \in AllChannels, NEW kind \in TextKinds,
             Reissues(o, k), k.back \in {o.back, NoReply},
             k.instr # "DUMP", BeforeText(o), ~BeforeText(k),
             k.instr = "SMS" => kind = "SMS",
             k.instr = "MSG" => kind = "TEXT" /\ k.back = NoReply,
             cmd' = [cmd EXCEPT ![c] = k], WriteText(kind, c, v)
      PROVE  Texted
  BY <1>2, <1>4, <1>5 DEF o, Texted, Changes, Reissues, loopVars
<1>6. CASE SendSms
  <2> DEFINE k == AskingRecord(o, 1)
  <2>1. Reissues(o, k) /\ k.progress = 1 /\ k.back = o.back
    BY <1>3, AskingRecords
  <2>2. cmd' = [cmd EXCEPT ![c] = k] /\ WriteText("SMS", c, Root)
    BY <1>6 DEF c, o, SendSms, Executed
  <2>3. o.progress = 0 /\ o.instr = "SMS"
    BY <1>6 DEF c, o, SendSms, Executes
  <2> HIDE DEF k
  <2>4. k.instr = "SMS" /\ BeforeText(o) /\ ~BeforeText(k)
    BY <2>1, <2>3 DEF BeforeText, Reissues
  <2> QED BY <1>5, <2>1, <2>2, <2>4 DEF AllChannels, TextKinds
<1>7. CASE SendText
  <2> DEFINE k == AskedAnew(o, 5)
             v == ConvOf(cmd[c].to)
  <2>1. Reissues(o, k) /\ k.progress = 5 /\ k.back = NoReply
    BY <1>3, AskingRecords
  <2>2. cmd' = [cmd EXCEPT ![c] = k] /\ WriteText("TEXT", c, v)
    BY <1>7 DEF c, o, SendText, Executed, AskedAnew
  <2>3. /\ o.instr = "MSG" /\ o.progress \in {0, 3, 4}
        /\ HasConv(cmd[c].to)
    BY <1>7 DEF c, o, SendText, Executes, MayText
  <2>4. v \in AllChannels
    BY <2>3, ConvOfIsListed
  <2> HIDE DEF k, v
  <2>5. k.instr = "MSG" /\ BeforeText(o) /\ ~BeforeText(k)
    BY <2>1, <2>3 DEF BeforeText, Reissues
  <2> QED BY <1>5, <2>1, <2>2, <2>4, <2>5 DEF TextKinds
<1> QED BY <1>6, <1>7

LEMMA WalkEffect ==
  ASSUME Sound, Walk
  PROVE  Effect
<1> USE DEF Effect
<1>1. UNCHANGED loopVars /\ CommandStep
  BY DEF Walk
<1>2. CASE RetryCommand
  <2>1. Current \in ListedCommands
    BY <1>2, CurrentIsListed DEF RetryCommand
  <2>2. Retried
    BY <1>1, <1>2, <2>1 DEF RetryCommand, Retried, loopVars
  <2> QED BY <2>2
<1>3. CASE ReportCommand
  <2>1. Current \in ListedCommands
    BY <1>3, CurrentIsListed DEF ReportCommand
  <2>2. pos \in 1..Len(queue)
    BY <1>3, LenProperties
       DEF ReportCommand, InWalk, Sound, TypeOK, CommandTypeOK
  <2>3. ~Failed(Current) => cmd[Current].status = "SUCCESS"
    BY <1>3 DEF ReportCommand, Finished
  <2>4. Reported
    BY <1>1, <1>3, <2>1, <2>2, <2>3 DEF ReportCommand, Reported, Current, loopVars
  <2> QED BY <2>4
<1>4. CASE PostponeCommand
  <2> DEFINE c == Current
             k == [cmd[c] EXCEPT !.timer = 0]
  <2>1. c \in ListedCommands /\ c \in CommandIds
    BY <1>4, CurrentIsListed DEF PostponeCommand
  <2>2. cmd[c] \in Command /\ MaxTime \in Nat
    BY <2>1, RecordOfCommand
  <2>3. Revises(cmd[c], k) /\ k.status = cmd[c].status /\ k.progress = cmd[c].progress
    <3>1. 0 \in 0..(MaxTime + 1)
      BY <2>2
    <3> QED BY <2>2, <3>1 DEF Revises, Command
  <2>4. cmd[c].status # "SUCCESS"
    BY <1>4 DEF PostponeCommand, Finished
  <2>5. cmd' = [cmd EXCEPT ![c] = k] /\ UNCHANGED <<queue, outcome, serverVars>>
    BY <1>4 DEF PostponeCommand
  <2> HIDE DEF c, k
  <2>6. Changes(c, k)
    BY <1>1, <2>1, <2>3, <2>5 DEF Changes, Revises, loopVars
  <2>7. BeforeText(k) => BeforeText(cmd[c])
    BY <2>3 DEF BeforeText, Revises
  <2>8. k \in Command /\ k.callid = cmd[c].callid
    BY <2>3 DEF Revises
  <2>9. Acted
    BY <2>1, <2>3, <2>4, <2>5, <2>6, <2>7, <2>8 DEF Acted, serverVars
  <2> QED BY <2>9
<1>5. CASE NoCredential \/ UseNullChannel
  <2>1. UNCHANGED <<cmdVars, serverVars, batch>>
    BY <1>1, <1>5 DEF NoCredential, UseNullChannel, Stop, loopVars
  <2> QED BY <2>1 DEF Untouched, KeepsCommands, Heard, cmdVars, serverVars
<1> QED
  BY <1>1, <1>2, <1>3, <1>4, <1>5, ActedSteps, RequestedSteps, TextedSteps
     DEF CommandStep, ExecuteCommand

-----------------------------------------------------------------------------
(* The next message is taken from the batch.                               *)
LEMMA NextHeard ==
  ASSUME Sound, batch # <<>>, batch' = Tail(batch)
  PROVE  /\ Head(batch) \in Message /\ batch' \in Seq(Message)
         /\ Head(batch).type = "SIPC" => Head(batch).reply \in Heard
         /\ Heard' \subseteq Heard
<1>1. batch \in Seq(Message)
  BY DEF Sound, TypeOK
<1>2. /\ Len(batch) \in Nat \ {0}
      /\ DOMAIN batch = 1..Len(batch)
      /\ Head(batch) = batch[1]
  BY <1>1, EmptySeq, LenProperties
<1>3. /\ batch' \in Seq(Message)
      /\ Len(batch') = Len(batch) - 1
      /\ \A i \in 1..Len(batch') : batch'[i] = batch[i + 1]
      /\ Head(batch) \in Message
  BY <1>1, HeadTailProperties
<1>4. DOMAIN batch' = 1..(Len(batch) - 1)
  BY <1>3, LenProperties
<1>5. \A i \in DOMAIN batch' : i + 1 \in DOMAIN batch /\ batch'[i] = batch[i + 1]
  BY <1>2, <1>3, <1>4
<1>6. Heard' \subseteq Heard
  BY <1>5 DEF Heard
<1>7. Head(batch).type = "SIPC" => Head(batch).reply \in Heard
  BY <1>2 DEF Heard
<1> QED BY <1>3, <1>6, <1>7

(* What a poll returns: replies to requests that are under way, and news.  *)
LEMMA PollsReturn ==
  ASSUME Sound, NEW p \in Polls(at)
  PROVE  /\ p.error \in 0..2
         /\ p.msgs \in Seq(Message)
         /\ \A i \in DOMAIN p.msgs :
              \/ /\ p.msgs[i].type = "SIPC"
                 /\ \E q \in pending :
                      /\ p.msgs[i].reply.callid = q.callid
                      /\ p.msgs[i].reply.kind = q.kind
                      /\ p.msgs[i].reply.by = q.by
              \/ p.msgs[i].type # "SIPC" /\ p.msgs[i].reply = NoReply
<1> DEFINE S == Replies(at) \cup Sent(at)
<1>1. \A m \in S :
        /\ m \in Message
        /\ \/ /\ m.type = "SIPC"
              /\ \E q \in pending :
                   /\ m.reply.callid = q.callid /\ m.reply.kind = q.kind
                   /\ m.reply.by = q.by
           \/ m.type # "SIPC" /\ m.reply = NoReply
  <2>1. ASSUME NEW m \in Replies(at)
        PROVE  /\ m \in Message /\ m.type = "SIPC"
               /\ \E q \in pending :
                   /\ m.reply.callid = q.callid /\ m.reply.kind = q.kind
                   /\ m.reply.by = q.by
    <3>1. PICK q \in pending, b \in BOOLEAN :
            m = ReplyMsg([callid |-> q.callid, kind |-> q.kind, ok |-> b, by |-> q.by])
      BY <2>1 DEF Replies
    <3>2. q \in Request
      BY DEF Sound, TypeOK, CommandTypeOK
    <3> QED
      BY <3>1, <3>2 DEF ReplyMsg, Message, Reply, Request, People
  <2>2. ASSUME NEW m \in Sent(at)
        PROVE  m \in Message /\ m.type # "SIPC" /\ m.reply = NoReply
    <3>1. PICK k \in NewsKinds, x \in People : m = NewsMsg(k, x)
      BY <2>2 DEF Sent, SentFrom, NewsKinds, ConversationEvents, People
    <3> QED
      BY <3>1 DEF NewsMsg, Message, Reply, NoReply, NewsKinds, Senders
  <2> QED BY <2>1, <2>2
<1>2. CASE p.msgs = <<>> /\ p.error \in 0..2
  BY <1>2, EmptySeq
<1>3. CASE p.msgs \in Batches(at) /\ p.error = 0
  <2>1. p.msgs \in UNION {[1..m -> S] : m \in 0..MaxBatch}
    BY <1>3 DEF Batches, SeqOf
  <2>2. MaxBatch \in Nat
    BY TakeoverAssumption
  <2>3. PICK m \in Nat : p.msgs \in [1..m -> S]
    BY <2>1, <2>2
  <2>4. p.msgs \in [1..m -> Message]
    BY <2>3, <1>1
  <2>5. p.msgs \in Seq(Message)
    BY <2>4, SeqDef
  <2> QED BY <1>3, <1>1, <2>3, <2>5
<1>4. (p.msgs = <<>> /\ p.error \in 0..2) \/ (p.msgs \in Batches(at) /\ p.error = 0)
  <2>1. listenerError \in 0..2
    BY DEF Sound, TypeOK
  <2> QED BY <2>1 DEF Polls
<1> QED BY <1>2, <1>3, <1>4

(* Polling answers requests; the replies are heard, or dropped with the    *)
(* channel they came in on.                                                *)
LEMMA PollEffect ==
  ASSUME Sound, Listen \/ CloseChannel
  PROVE  Polled
<1>1. PICK p \in Polls(at) :
        /\ UNCHANGED <<cmdVars, callid, sends>>
        /\ pending' \subseteq pending
        /\ batch' \in {p.msgs, <<>>}
        /\ accepted' = accepted \cup
             {p.msgs[i].reply.by : i \in {j \in DOMAIN p.msgs :
                p.msgs[j].reply.ok /\ p.msgs[j].reply.kind \in TextKinds}}
  BY DEF Listen, CloseChannel, Served
<1>2. \A i \in DOMAIN p.msgs :
        \/ /\ p.msgs[i].type = "SIPC"
           /\ \E q \in pending :
                /\ p.msgs[i].reply.callid = q.callid
                /\ p.msgs[i].reply.kind = q.kind
                /\ p.msgs[i].reply.by = q.by
        \/ p.msgs[i].type # "SIPC" /\ p.msgs[i].reply = NoReply
  BY PollsReturn
<1>3. ASSUME NEW r \in Heard'
      PROVE  \E q \in pending :
               /\ r.callid = q.callid /\ r.kind = q.kind /\ r.by = q.by
               /\ r.ok /\ r.kind \in TextKinds => r.by \in accepted'
  <2>1. PICK i \in DOMAIN batch' : batch'[i].type = "SIPC" /\ r = batch'[i].reply
    BY <1>3 DEF Heard
  <2>2. batch' = p.msgs
    <3>1. batch' # <<>>
      BY <2>1
    <3> QED BY <3>1, <1>1
  <2> QED BY <1>1, <1>2, <2>1, <2>2
<1>4. ASSUME NEW c \in accepted' \ accepted
      PROVE  \E q \in pending : q.kind \in TextKinds /\ q.by = c
  <2>1. PICK i \in DOMAIN p.msgs :
          /\ p.msgs[i].reply.ok /\ p.msgs[i].reply.kind \in TextKinds
          /\ c = p.msgs[i].reply.by
    BY <1>1, <1>4
  <2>2. p.msgs[i].reply # NoReply
    BY <2>1 DEF NoReply
  <2> QED BY <1>2, <2>1, <2>2
<1> QED BY <1>1, <1>3, <1>4 DEF Polled, KeepsCommands, cmdVars

LEMMA DispatchEffect ==
  ASSUME Sound, Dispatch
  PROVE  Effect
<1> USE DEF Effect
<1>1. CASE GotReply
  <2>1. batch # <<>> /\ batch' = Tail(batch) /\ Head(batch).type = "SIPC"
    BY <1>1 DEF GotReply, Dispatching, NextMessage
  <2>2. Attached
    BY <1>1, <2>1, NextHeard DEF GotReply, Attached
  <2> QED BY <2>2
<1>2. CASE GotMessage
  <2>1. batch # <<>> /\ batch' = Tail(batch) /\ UNCHANGED serverVars
    BY <1>2 DEF GotMessage, Dispatching, NextMessage
  <2>2. Heard' \subseteq Heard
    BY <2>1, NextHeard
  <2>3. CASE Head(batch).from \in Buddies /\ Unused # {}
    <3>1. Arranged
      BY <1>2, <2>1, <2>2, <2>3 DEF GotMessage, Arranged, Instructions
    <3> QED BY <3>1
  <2>4. CASE UNCHANGED cmdVars
    BY <2>1, <2>2, <2>4 DEF Untouched, KeepsCommands, cmdVars, serverVars
  <2> QED BY <1>2, <2>3, <2>4 DEF GotMessage
<1>3. CASE GotInvitation
  <2> DEFINE v == CHOOSE w \in FreeChannels : TRUE
  <2>1. batch # <<>> /\ batch' = Tail(batch) /\ UNCHANGED cmdVars
    BY <1>3 DEF GotInvitation, Dispatching, NextMessage
  <2>2. WriteRequest("REGISTER", NoCommand, v) /\ v \in AllChannels
    BY <1>3 DEF GotInvitation, FreeChannels, AllChannels
  <2>3. Heard' \subseteq Heard
    BY <2>1, NextHeard
  <2> HIDE DEF v
  <2>4. Asked
    BY <2>1, <2>2, <2>3 DEF Asked, KeepsCommands, cmdVars
  <2> QED BY <2>4
<1>4. CASE IgnoreInvitation \/ GotUserLeft \/ GotUserEntered \/ GotUserFailed
  <2>1. /\ batch # <<>> /\ batch' = Tail(batch)
        /\ UNCHANGED <<cmdVars, callid, sends, accepted>>
        /\ pending' \subseteq pending
    BY <1>4 DEF IgnoreInvitation, GotUserLeft, GotUserEntered, GotUserFailed,
                Dispatching, NextMessage, Forget, serverVars
  <2>2. Heard' \subseteq Heard
    BY <2>1, NextHeard
  <2> QED BY <2>1, <2>2 DEF Untouched, KeepsCommands, cmdVars
<1>5. CASE BadInvitation \/ RootLeft \/ GotDeregistration \/ DispatchNullChannel
  <2>1. UNCHANGED <<cmdVars, serverVars, batch>>
    BY <1>5 DEF BadInvitation, RootLeft, GotDeregistration,
                DispatchNullChannel, Stop, loopVars
  <2> QED BY <2>1 DEF Untouched, KeepsCommands, Heard, cmdVars, serverVars
<1> QED BY <1>1, <1>2, <1>3, <1>4, <1>5 DEF Dispatch

LEMMA TickEffect ==
  ASSUME Sound, Tick
  PROVE  Aged
<1> DEFINE age == [c \in CommandIds |->
                     IF outcome[c] = "listed"
                     THEN Older(cmd[c].timer, MaxTime + 1) ELSE cmd[c].timer]
<1>1. \A c \in CommandIds : cmd[c] \in Command
  BY RecordOfCommand
<1>2. age \in [CommandIds -> 0..(MaxTime + 1)]
  BY <1>1, CommandsAssumption DEF Older, Command
<1>3. \A c \in CommandIds : cmd[c] = [cmd[c] EXCEPT !.timer = cmd[c].timer]
  BY <1>1 DEF Command
<1>4. cmd' = [c \in CommandIds |-> [cmd[c] EXCEPT !.timer = age[c]]]
  BY <1>3 DEF Tick
<1>5. UNCHANGED <<queue, outcome, serverVars, batch>>
  BY DEF Tick, loopVars
<1> HIDE DEF age
<1> QED BY <1>2, <1>4, <1>5 DEF Aged

(* Every step of the daemon has one of the eleven effects.                 *)
LEMMA StepEffect ==
  ASSUME Sound, [Next]_vars
  PROVE  Effect
<1>1. CASE Walk
  BY <1>1, WalkEffect
<1>2. CASE Dispatch
  BY <1>2, DispatchEffect
<1>3. CASE Listen \/ CloseChannel
  BY <1>3, PollEffect DEF Effect
<1>4. CASE Tick
  BY <1>4, TickEffect DEF Effect
<1>5. CASE KeepAlive
  <2>1. UNCHANGED <<cmdVars, batch>> /\ Root \in AllChannels
    BY <1>5 DEF KeepAlive, AllChannels
  <2>2. Asked \/ Untouched
    BY <1>5, <2>1 DEF KeepAlive, Asked, Untouched, KeepsCommands, Heard,
                      cmdVars, serverVars
  <2> QED BY <2>2 DEF Effect
<1>6. CASE ArrangeCommand
  <2>1. UNCHANGED <<serverVars, batch>> /\ Instrs \subseteq Instructions
    BY <1>6, TakeoverAssumption DEF ArrangeCommand, loopVars
  <2>2. Arranged
    BY <1>6, <2>1 DEF ArrangeCommand, Arranged, Heard
  <2> QED BY <2>2 DEF Effect
<1>7. CASE \/ ListenNullChannel \/ NextChannel \/ Sleep \/ LoopAgain
            \/ Exit \/ Halted \/ UNCHANGED vars
  <2>1. UNCHANGED <<cmdVars, serverVars>> /\ (UNCHANGED batch)
    BY <1>7 DEF ListenNullChannel, NextChannel, Sleep, LoopAgain, Exit, Halted,
                Stop, loopVars, vars
  <2> QED
    BY <2>1 DEF Effect, Untouched, KeepsCommands, Heard, cmdVars, serverVars
<1> QED
  BY <1>1, <1>2, <1>3, <1>4, <1>5, <1>6, <1>7 DEF Next, Loop
=============================================================================
