--------------------------- MODULE DeliveryProofs ---------------------------
(***************************************************************************)
(* Proofs about what becomes of the commands of Takeover, for any number   *)
(* of them: replies reach the command that asked, a text is written once   *)
(* per try, a command is done only if its text was accepted, and with that *)
(* the engine implements CommandLifecycle.                                 *)
(***************************************************************************)
EXTENDS TakeoverProofs

LEMMA HeardReplies ==
  ASSUME Sound
  PROVE  Heard \subseteq Reply
<1>1. batch \in Seq(Message)
  BY DEF Sound, TypeOK
<1>2. \A i \in DOMAIN batch : batch[i] \in Message
  BY <1>1, ElementOfSeq, LenProperties
<1> QED BY <1>2 DEF Heard, Message

LEMMA TypesOfCommands ==
  ASSUME Sound
  PROVE  /\ cmd \in [CommandIds -> Command]
         /\ outcome \in [CommandIds -> {"unused", "listed", "done", "failed"}]
         /\ sends \in [CommandIds -> Nat]
         /\ callid \in Nat \ {0}
         /\ pending \subseteq Request
         /\ accepted \subseteq CommandIds
         /\ ListedCommands \subseteq CommandIds
BY DEF Sound, TypeOK, CommandTypeOK, ListedCommands

(* The command that takes a reply is listed and has its call id.           *)
LEMMA AttachedTo ==
  ASSUME Sound, NEW r \in Reply, Attach(r)
  PROVE  \/ cmd' = cmd
         \/ \E c \in ListedCommands :
              cmd[c].callid = r.callid /\ cmd' = [cmd EXCEPT ![c].back = r]
<1>1. CASE Waiting(r) = {}
  BY <1>1 DEF Attach
<1>2. CASE Waiting(r) # {}
  <2> DEFINE first == CHOOSE i \in Waiting(r) : \A j \in Waiting(r) : i <= j
             c == queue[first]
  <2>1. queue \in Seq(CommandIds)
    BY DEF Sound, TypeOK, CommandTypeOK
  <2>2. Waiting(r) \in SUBSET Nat
    BY <2>1, LenProperties DEF Waiting
  <2>3. first \in Waiting(r)
    BY <1>2, <2>2, LeastElement
  <2>4. cmd' = [cmd EXCEPT ![c].back = r]
    BY <1>2 DEF Attach
  <2> HIDE DEF first
  <2>5. cmd[c].callid = r.callid /\ first \in DOMAIN queue
    BY <2>3 DEF Waiting
  <2>6. c \in ListedCommands
    BY <2>5 DEF Sound, ListInv, QueueIsExact
  <2> HIDE DEF c
  <2> QED BY <2>4, <2>5, <2>6
<1> QED BY <1>1, <1>2

-----------------------------------------------------------------------------
(* Replies are routed.                                                     *)

(* A step that writes nothing keeps the call ids apart.                    *)
LEMMA RouteKept ==
  ASSUME RouteInv, Sound, callid' = callid,
         \A r \in pending' \cup Heard' : \E q \in pending \cup Heard :
           r.callid = q.callid /\ r.by = q.by,
         \A c \in CommandIds :
           /\ cmd'[c].callid \in {0, cmd[c].callid}
           /\ cmd'[c].back \in {cmd[c].back, NoReply} \/ cmd'[c].back.by = c
  PROVE  RouteInv'
<1>1. callid \in Nat \ {0} /\ \A c \in CommandIds : cmd[c].callid \in Nat
  BY TypesOfCommands, RecordOfCommand
<1>2. \A c \in CommandIds : cmd'[c].callid < callid'
  BY <1>1 DEF RouteInv
<1>3. \A r \in pending' \cup Heard' : r.callid \in 1..(callid' - 1)
  BY DEF RouteInv
<1>4. ASSUME NEW c \in CommandIds, NEW r \in pending' \cup Heard',
             r.callid = cmd'[c].callid
      PROVE  r.by = c
  <2>1. PICK q \in pending \cup Heard : r.callid = q.callid /\ r.by = q.by
    OBVIOUS
  <2>2. q.callid # 0
    BY <1>1 DEF RouteInv
  <2>3. cmd'[c].callid = cmd[c].callid
    BY <1>4, <2>1, <2>2
  <2>4. \A m \in pending \cup Heard : m.callid = cmd[c].callid => m.by = c
    BY DEF RouteInv
  <2>5. q.callid = cmd[c].callid
    BY <1>4, <2>1, <2>3
  <2>6. q.by = c
    BY <2>1, <2>4, <2>5
  <2> QED BY <2>1, <2>6
<1>5. \A c \in CommandIds : cmd'[c].back # NoReply => cmd'[c].back.by = c
  BY DEF RouteInv, Answered
<1> QED BY <1>2, <1>3, <1>4, <1>5 DEF RouteInv, Answered

(* A request has a call id nobody has held before.                         *)
LEMMA RouteWrites ==
  ASSUME RouteInv, Sound, NEW by, callid' = callid + 1,
         \A r \in pending' \cup Heard' :
           r \in pending \cup Heard \/ (r.callid = callid /\ r.by = by),
         \A c \in CommandIds :
           /\ cmd'[c].callid = IF c = by THEN callid ELSE cmd[c].callid
           /\ cmd'[c].back \in {cmd[c].back, NoReply}
  PROVE  RouteInv'
<1>1. callid \in Nat \ {0} /\ \A c \in CommandIds : cmd[c].callid \in Nat
  BY TypesOfCommands, RecordOfCommand
<1>2. \A c \in CommandIds : cmd'[c].callid < callid'
  BY <1>1 DEF RouteInv
<1>3. \A r \in pending' \cup Heard' : r.callid \in 1..(callid' - 1)
  BY <1>1 DEF RouteInv
<1>4. ASSUME NEW c \in CommandIds, NEW r \in pending' \cup Heard',
             r.callid = cmd'[c].callid
      PROVE  r.by = c
  <2>1. CASE r \in pending \cup Heard
    <3>1. r.callid \in 1..(callid - 1)
      BY <2>1 DEF RouteInv
    <3>2. cmd'[c].callid = cmd[c].callid
      BY <1>1, <1>4, <3>1
    <3> QED BY <1>4, <2>1, <3>2 DEF RouteInv
  <2>2. CASE r.callid = callid /\ r.by = by
    <3>1. cmd[c].callid # callid
      BY <1>1 DEF RouteInv
    <3> QED BY <1>4, <2>2, <3>1
  <2> QED BY <2>1, <2>2
<1>5. \A c \in CommandIds : cmd'[c].back # NoReply => cmd'[c].back.by = c
  BY DEF RouteInv, Answered
<1> QED BY <1>2, <1>3, <1>4, <1>5 DEF RouteInv, Answered

(* What a request adds to the messages that are under way.                 *)
LEMMA Written ==
  ASSUME NEW kind, NEW by, NEW v, Write(kind, by, v), Heard' \subseteq Heard
  PROVE  /\ callid' = callid + 1
         /\ \A r \in pending' :
              \/ r \in pending
              \/ r.callid = callid /\ r.by = by /\ r.kind = kind
         /\ \A r \in pending' \cup Heard' :
              \/ r \in pending \cup Heard
              \/ r \in pending' /\ r.callid = callid /\ r.by = by /\ r.kind = kind
<1> DEFINE p == [callid |-> callid, kind |-> kind, by |-> by, on |-> v]
<1>1. pending' = pending \cup {p} /\ callid' = callid + 1
  BY DEF Write
<1>2. p.callid = callid /\ p.kind = kind /\ p.by = by
  OBVIOUS
<1> HIDE DEF p
<1> QED BY <1>1, <1>2

LEMMA RouteStep ==
  ASSUME RouteInv, Sound, Effect
  PROVE  RouteInv'
<1>1. /\ cmd \in [CommandIds -> Command]
      /\ ListedCommands \subseteq CommandIds
  BY TypesOfCommands
<1>2. CASE Untouched
  BY <1>2, RouteKept DEF Untouched, KeepsCommands
<1>3. CASE Polled
  BY <1>3, RouteKept DEF Polled, KeepsCommands
<1>4. CASE Attached
  <2>1. PICK r \in Heard : Attach(r)
    BY <1>4 DEF Attached
  <2>2. r \in Reply
    BY HeardReplies
  <2>3. /\ pending' \cup Heard' \subseteq pending \cup Heard
        /\ UNCHANGED callid
    BY <1>4 DEF Attached, serverVars
  <2>4. CASE cmd' = cmd
    BY <2>3, <2>4, RouteKept
  <2>5. ASSUME NEW c \in ListedCommands, cmd[c].callid = r.callid,
               cmd' = [cmd EXCEPT ![c].back = r]
        PROVE  RouteInv'
    <3>1. r.by = c
      BY <1>1, <2>5 DEF RouteInv
    <3>2. \A d \in CommandIds :
            /\ cmd'[d].callid = cmd[d].callid
            /\ cmd'[d].back = IF d = c THEN r ELSE cmd[d].back
      BY <1>1, <2>5 DEF Command
    <3> QED BY <2>3, <3>1, <3>2, RouteKept
  <2> QED BY <2>1, <2>2, <2>4, <2>5, AttachedTo
<1>5. CASE Asked
  <2>1. PICK v \in AllChannels : WriteRequest("REGISTER", NoCommand, v)
    BY <1>5 DEF Asked
  <2>2. NoCommand \notin CommandIds
    BY CommandsAssumption
  <2>3. \A r \in pending' \cup Heard' :
          r \in pending \cup Heard \/ (r.callid = callid /\ r.by = NoCommand)
    <3>1. Write("REGISTER", NoCommand, v) /\ Heard' \subseteq Heard
      BY <1>5, <2>1 DEF Asked, WriteRequest
    <3> QED BY <3>1, Written
  <2>4. callid' = callid + 1 /\ cmd' = cmd
    BY <1>5, <2>1 DEF Asked, KeepsCommands, WriteRequest, Write
  <2> QED BY <2>2, <2>3, <2>4, RouteWrites
<1>6. CASE Acted
  <2>1. PICK c \in CommandIds, k \in Command :
          Changes(c, k) /\ k.callid = cmd[c].callid
    BY <1>6 DEF Acted
  <2>2. \A d \in CommandIds : /\ cmd'[d].callid = cmd[d].callid
                              /\ cmd'[d].back \in {cmd[d].back, NoReply}
    BY <1>1, <2>1 DEF Changes
  <2>3. pending' \cup Heard' \subseteq pending \cup Heard /\ callid' = callid
    BY <1>6, <2>1 DEF Acted, Changes, Heard
  <2> QED BY <2>2, <2>3, RouteKept
<1>7. CASE Requested \/ Texted
  <2>1. PICK c \in CommandIds, k \in Command, v \in AllChannels, kind \in RequestKinds :
          Changes(c, k) /\ k.callid = callid /\ Write(kind, c, v)
    <3>1. TextKinds \subseteq RequestKinds
      BY DEF TextKinds, RequestKinds
    <3> QED BY <1>7, <3>1 DEF Requested, Texted, WriteRequest, WriteText
  <2>2. \A d \in CommandIds :
          /\ cmd'[d].callid = IF d = c THEN callid ELSE cmd[d].callid
          /\ cmd'[d].back \in {cmd[d].back, NoReply}
    BY <1>1, <2>1 DEF Changes
  <2>3. \A r \in pending' \cup Heard' :
          r \in pending \cup Heard \/ (r.callid = callid /\ r.by = c)
    <3>1. Heard' = Heard
      BY <2>1 DEF Changes, Heard
    <3>2. Write(kind, c, v) /\ Heard' \subseteq Heard
      BY <2>1, <3>1
    <3> QED BY <3>2, Written
  <2>4. callid' = callid + 1
    BY <2>1 DEF Write
  <2> QED BY <2>2, <2>3, <2>4, RouteWrites
<1>8. CASE Retried \/ Reported \/ Aged
  <2>1. \A d \in CommandIds : /\ cmd'[d].callid \in {0, cmd[d].callid}
                              /\ cmd'[d].back \in {cmd[d].back, NoReply}
    <3>1. CASE Retried
      BY <1>1, <3>1 DEF Retried, Command
    <3>2. CASE Reported
      BY <1>1, <3>2 DEF Reported, NewCommand
    <3>3. CASE Aged
      BY <1>1, <3>3 DEF Aged, Command
    <3> QED BY <1>8, <3>1, <3>2, <3>3
  <2>2. UNCHANGED <<callid, pending>> /\ Heard' = Heard
    BY <1>8 DEF Retried, Reported, Aged, serverVars, Heard
  <2> QED BY <2>1, <2>2, RouteKept
<1>9. CASE Arranged
  <2>1. PICK c \in Unused, i \in Instructions, b \in Buddies : Enqueue(c, i, b)
    BY <1>9 DEF Arranged
  <2>2. \A d \in CommandIds : /\ cmd'[d].callid \in {0, cmd[d].callid}
                              /\ cmd'[d].back \in {cmd[d].back, NoReply}
    BY <1>1, <2>1 DEF Enqueue, NewCommand
  <2>3. pending' \cup Heard' \subseteq pending \cup Heard /\ callid' = callid
    BY <1>9 DEF Arranged, serverVars
  <2> QED BY <2>2, <2>3, RouteKept
<1> QED
  BY <1>2, <1>3, <1>4, <1>5, <1>6, <1>7, <1>8, <1>9 DEF Effect

LEMMA RouteInit ==
  ASSUME Init
  PROVE  RouteInv
<1>1. /\ callid = 1 /\ pending = {} /\ Heard = {}
      /\ \A c \in CommandIds : cmd[c].callid = 0 /\ cmd[c].back = NoReply
  BY EmptySeq, LenProperties DEF Init, CommandInit, NewCommand, Heard
<1> QED BY <1>1 DEF RouteInv, Answered

(* Requests and replies are routed by call id in every state: what               *)
(* RepliesReachTheirCommand follows from.                                      *)
THEOREM RouteAlways == Spec => []RouteInv
<1>1. Init => RouteInv
  BY RouteInit
<1>2. Sound /\ RouteInv /\ [Next]_vars => RouteInv'
  BY StepEffect, RouteStep
<1> QED BY <1>1, <1>2, SoundAlways, PTL DEF Spec

(* A command never holds the reply to another one's request, whatever is   *)
(* late, lost, retried or freed (LOF_TOOL_Command_ack_sipc40).             *)
THEOREM RepliesRouted == Spec => []RepliesAreRouted
<1>1. RouteInv => RepliesAreRouted
  BY DEF RouteInv, RepliesAreRouted, ListedCommands
<1> QED BY <1>1, RouteAlways, PTL

-----------------------------------------------------------------------------
(* A text is written once per try.                                         *)

TryOK(c) ==
  /\ outcome[c] = "unused" => sends[c] = 0
  /\ outcome[c] = "listed" =>
       /\ sends[c] <= cmd[c].retry + 1
       /\ BeforeText(cmd[c]) => sends[c] <= cmd[c].retry
       /\ cmd[c].instr = "DUMP" => sends[c] = 0
  /\ sends[c] <= 2

LEMMA TryStep ==
  ASSUME TryInv, Sound, Effect
  PROVE  TryInv'
<1>1. /\ cmd \in [CommandIds -> Command]
      /\ outcome \in [CommandIds -> {"unused", "listed", "done", "failed"}]
      /\ sends \in [CommandIds -> Nat]
      /\ ListedCommands \subseteq CommandIds
  BY TypesOfCommands
<1>2. \A c \in CommandIds : TryOK(c)
  BY DEF TryInv, TryOK
<1>3. SUFFICES ASSUME NEW d \in CommandIds
               PROVE  TryOK(d)'
  BY DEF TryInv, TryOK
<1>4. TryOK(d) /\ sends[d] \in Nat /\ cmd[d].retry \in {0, 1}
  BY <1>1, <1>2, RecordOfCommand
<1>5. CASE UNCHANGED <<sends[d], outcome[d], cmd[d]>>
  BY <1>4, <1>5 DEF TryOK, BeforeText
<1>6. CASE Untouched \/ Polled \/ Asked
  BY <1>5, <1>6
     DEF Untouched, Polled, Asked, KeepsCommands, WriteRequest
<1>7. CASE Attached
  <2>1. PICK r \in Heard : Attach(r)
    BY <1>7 DEF Attached
  <2>2. r \in Reply
    BY HeardReplies
  <2>3. UNCHANGED <<sends, outcome>>
    BY <1>7, <2>1 DEF Attached, Attach, serverVars
  <2>4. /\ cmd'[d].retry = cmd[d].retry /\ cmd'[d].instr = cmd[d].instr
        /\ cmd'[d].progress = cmd[d].progress
    <3>1. CASE cmd' = cmd
      BY <3>1
    <3>2. ASSUME NEW c \in ListedCommands, cmd' = [cmd EXCEPT ![c].back = r]
          PROVE  /\ cmd'[d].retry = cmd[d].retry
                 /\ cmd'[d].instr = cmd[d].instr
                 /\ cmd'[d].progress = cmd[d].progress
      BY <1>1, <3>2 DEF Command
    <3> QED BY <2>1, <2>2, <3>1, <3>2, AttachedTo
  <2> QED BY <1>4, <2>3, <2>4 DEF TryOK, BeforeText
<1>8. CASE Acted
  <2>1. PICK c \in CommandIds, k \in Command :
          Changes(c, k) /\ (BeforeText(k) => BeforeText(cmd[c]))
    BY <1>8 DEF Acted
  <2>2. UNCHANGED <<sends, outcome>>
    BY <1>8, <2>1 DEF Acted, Changes
  <2>3. CASE d = c
    <3>1. /\ cmd'[d].retry = cmd[d].retry /\ cmd'[d].instr = cmd[d].instr
          /\ BeforeText(cmd'[d]) => BeforeText(cmd[d])
      BY <1>1, <2>1, <2>3 DEF Changes
    <3> QED BY <1>4, <2>2, <3>1 DEF TryOK
  <2>4. CASE d # c
    BY <1>1, <1>5, <2>1, <2>2, <2>4 DEF Changes
  <2> QED BY <2>3, <2>4
<1>9. CASE Requested
  <2>1. PICK c \in CommandIds, k \in Command :
          /\ Changes(c, k)
          /\ k.instr = "MSG" /\ cmd[c].progress \in 0..2
          /\ UNCHANGED sends
    BY <1>9 DEF Requested, WriteRequest
  <2>2. UNCHANGED outcome
    BY <2>1 DEF Changes
  <2>3. CASE d = c
    <3>1. cmd'[d] = k /\ k.retry = cmd[d].retry /\ k.instr = cmd[d].instr
      BY <1>1, <2>1, <2>3 DEF Changes
    <3>2. BeforeText(cmd[d])
      <4>1. cmd[d].progress \in 0..4 /\ cmd[d].instr = "MSG"
        BY <2>1, <2>3, <3>1
      <4> QED BY <4>1 DEF BeforeText
    <3> QED BY <1>4, <2>1, <2>2, <3>1, <3>2 DEF TryOK
  <2>4. CASE d # c
    BY <1>1, <1>5, <2>1, <2>2, <2>4 DEF Changes
  <2> QED BY <2>3, <2>4
<1>10. CASE Texted
  <2>1. PICK c \in CommandIds, k \in Command :
          /\ Changes(c, k)
          /\ k.instr # "DUMP" /\ BeforeText(cmd[c]) /\ ~BeforeText(k)
          /\ sends' = [sends EXCEPT ![c] = @ + 1]
    BY <1>10 DEF Texted, WriteText
  <2>2. UNCHANGED outcome /\ outcome[c] = "listed"
    BY <2>1 DEF Changes, ListedCommands
  <2>3. CASE d = c
    <3>1. /\ cmd'[d].retry = cmd[d].retry /\ cmd'[d].instr # "DUMP"
          /\ BeforeText(cmd[d]) /\ ~BeforeText(cmd'[d])
      BY <1>1, <2>1, <2>3 DEF Changes
    <3>2. sends[d] <= cmd[d].retry /\ sends'[d] = sends[d] + 1
      BY <1>1, <1>4, <2>1, <2>2, <2>3, <3>1 DEF TryOK
    <3>3. sends'[d] <= cmd'[d].retry + 1 /\ sends'[d] <= 2
      BY <1>4, <3>1, <3>2
    <3> QED BY <2>2, <2>3, <3>1, <3>3 DEF TryOK
  <2>4. CASE d # c
    BY <1>1, <1>5, <2>1, <2>2, <2>4 DEF Changes
  <2> QED BY <2>3, <2>4
<1>11. CASE Retried
  <2>1. PICK c \in ListedCommands :
          /\ cmd[c].retry = 0
          /\ cmd' = [cmd EXCEPT ![c] = [@ EXCEPT !.retry = 1,
                       !.status = "NOT_HANDLED", !.progress = 0, !.timer = 0]]
          /\ UNCHANGED <<outcome, sends>>
    BY <1>11 DEF Retried, serverVars
  <2>2. CASE d = c
    <3>1. outcome[d] = "listed" /\ cmd'[d].retry = 1 /\ cmd[d].retry = 0
            /\ cmd'[d].instr = cmd[d].instr
      BY <1>1, <2>1, <2>2 DEF ListedCommands, Command
    <3>2. sends[d] <= 1
      BY <1>4, <3>1 DEF TryOK
    <3> QED BY <1>4, <2>1, <3>1, <3>2 DEF TryOK
  <2>3. CASE d # c
    BY <1>1, <1>5, <2>1, <2>3
  <2> QED BY <2>2, <2>3
<1>12. CASE Reported
  <2>1. PICK c \in ListedCommands :
          /\ outcome' = [outcome EXCEPT ![c] = IF Failed(c) THEN "failed" ELSE "done"]
          /\ cmd' = [cmd EXCEPT ![c] = NewCommand("DUMP", NoBuddy)]
          /\ UNCHANGED sends
    BY <1>12 DEF Reported, serverVars
  <2>2. CASE d = c
    <3>1. outcome'[d] \in {"failed", "done"}
      BY <1>1, <2>1, <2>2
    <3> QED BY <1>4, <2>1, <3>1 DEF TryOK
  <2>3. CASE d # c
    BY <1>1, <1>5, <2>1, <2>3
  <2> QED BY <2>2, <2>3
<1>13. CASE Arranged
  <2>1. PICK c \in Unused, i \in Instructions, b \in Buddies : Enqueue(c, i, b)
    BY <1>13 DEF Arranged
  <2>2. UNCHANGED sends
    BY <1>13 DEF Arranged, serverVars
  <2>3. CASE d = c
    <3>1. sends[d] = 0 /\ cmd'[d].retry = 0 /\ outcome'[d] = "listed"
      BY <1>1, <1>4, <2>1, <2>3 DEF TryOK, Enqueue, NewCommand
    <3> QED BY <2>2, <3>1 DEF TryOK
  <2>4. CASE d # c
    BY <1>1, <1>5, <2>1, <2>2, <2>4 DEF Enqueue
  <2> QED BY <2>3, <2>4
<1>14. CASE Aged
  <2>1. /\ cmd'[d].retry = cmd[d].retry /\ cmd'[d].instr = cmd[d].instr
        /\ cmd'[d].progress = cmd[d].progress
        /\ UNCHANGED <<sends, outcome>>
    BY <1>1, <1>14 DEF Aged, Command, serverVars
  <2> QED BY <1>4, <2>1 DEF TryOK, BeforeText
<1> QED
  BY <1>6, <1>7, <1>8, <1>9, <1>10, <1>11, <1>12, <1>13, <1>14 DEF Effect

LEMMA TryInit ==
  ASSUME Init
  PROVE  TryInv
BY DEF Init, CommandInit, TryInv

(* The tries of every command and its requests agree in every state: what      *)
(* NoDoubleSend follows from.                                                   *)
THEOREM TryAlways == Spec => []TryInv
<1>1. Init => TryInv
  BY TryInit
<1>2. Sound /\ TryInv /\ [Next]_vars => TryInv'
  BY StepEffect, TryStep
<1> QED BY <1>1, <1>2, SoundAlways, PTL DEF Spec

(* The text of a command is written at most once per try and at most twice *)
(* in all, on every path of exec_send_sms and exec_send_msg.               *)
THEOREM TextOncePerTry == Spec => []OneTextPerTry
<1>1. TryInv => OneTextPerTry
  BY DEF TryInv, OneTextPerTry
<1> QED BY <1>1, TryAlways, PTL
=============================================================================
