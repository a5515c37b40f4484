--------------------------- MODULE TakeoverProofs ---------------------------
(***************************************************************************)
(* Proofs about Takeover for any number of commands, buddies, channels and *)
(* messages: type correctness, the command list, the conversation list,    *)
(* and the channels of the conversations.                                  *)
(***************************************************************************)
EXTENDS TakeoverEffects, FiniteSetTheorems

(* The parts of Sound that the effects of a step determine.                *)
CommandsOK ==
  /\ queue \in Seq(CommandIds)
  /\ cmd \in [CommandIds -> Command]
  /\ outcome \in [CommandIds -> {"unused", "listed", "done", "failed"}]
  /\ QueueIsExact
  /\ \A c \in ListedCommands : cmd[c].to \in Buddies

ServerOK ==
  /\ callid \in Nat \ {0}
  /\ pending \subseteq Request
  /\ sends \in [CommandIds -> Nat]
  /\ accepted \subseteq CommandIds
  /\ \A p \in pending : p.kind \in TextKinds => p.by \in CommandIds

(* The list stays what it is when only the states of commands change.      *)
LEMMA SameList ==
  ASSUME CommandsOK, UNCHANGED <<queue, outcome>>,
         cmd' \in [CommandIds -> Command],
         \A c \in CommandIds : cmd'[c].to = cmd[c].to
  PROVE  CommandsOK'
<1>1. ListedCommands' = ListedCommands /\ ListedCommands \subseteq CommandIds
  BY DEF ListedCommands
<1>2. QueueIsExact'
  BY <1>1 DEF CommandsOK, QueueIsExact
<1>3. \A c \in ListedCommands' : cmd'[c].to \in Buddies
  BY <1>1 DEF CommandsOK
<1> QED BY <1>2, <1>3 DEF CommandsOK

(* Changing the state of one listed command.                               *)
LEMMA ChangesKeepCommandsOK ==
  ASSUME Sound, NEW c, NEW k, Changes(c, k)
  PROVE  CommandsOK'
<1>1. c \in CommandIds /\ cmd[c].to \in Buddies /\ k.to \in Buddies
  BY DEF Changes, ListedCommands, Sound, ListInv
<1>2. cmd' \in [CommandIds -> Command]
  BY DEF Changes, Sound, TypeOK, CommandTypeOK
<1>3. \A d \in CommandIds : cmd'[d].to = cmd[d].to
  BY <1>1 DEF Changes, Sound, TypeOK, CommandTypeOK
<1>4. UNCHANGED <<queue, outcome>>
  BY DEF Changes
<1>5. CommandsOK
  BY DEF Sound, TypeOK, CommandTypeOK, ListInv, CommandsOK
<1> QED BY <1>2, <1>3, <1>4, <1>5, SameList

LEMMA CommandsStep ==
  ASSUME Sound, Effect
  PROVE  CommandsOK'
<1>0. CommandsOK
  BY DEF Sound, TypeOK, CommandTypeOK, ListInv, CommandsOK
<1>1. CASE Untouched \/ Polled \/ Asked
  BY <1>0, <1>1
     DEF Untouched, Polled, Asked, KeepsCommands, CommandsOK, QueueIsExact,
         ListedCommands
<1>2. CASE Acted \/ Requested \/ Texted
  BY <1>2, ChangesKeepCommandsOK DEF Acted, Requested, Texted
<1>3. CASE Attached
  <2>1. PICK r \in Heard : Attach(r)
    BY <1>3 DEF Attached
  <2>2. r \in Reply
    <3>1. PICK i \in DOMAIN batch : r = batch[i].reply
      BY <2>1 DEF Heard
    <3>2. batch \in Seq(Message)
      BY DEF Sound, TypeOK
    <3>3. batch[i] \in Message
      BY <3>1, <3>2, ElementOfSeq, LenProperties
    <3> QED BY <3>1, <3>3 DEF Message
  <2>3. ASSUME NEW c, cmd' = [cmd EXCEPT ![c].back = r]
        PROVE  /\ cmd' \in [CommandIds -> Command]
               /\ \A d \in CommandIds : cmd'[d].to = cmd[d].to
    <3>1. cmd \in [CommandIds -> Command]
      BY <1>0 DEF CommandsOK
    <3>2. \A k \in Command : /\ [k EXCEPT !.back = r] \in Command
                             /\ [k EXCEPT !.back = r].to = k.to
      BY <2>2 DEF Command
    <3>3. \A d \in CommandIds :
            cmd'[d] = IF d = c THEN [cmd[d] EXCEPT !.back = r] ELSE cmd[d]
      BY <2>3, <3>1
    <3>4. cmd' = [d \in CommandIds |-> cmd'[d]]
      BY <2>3, <3>1
    <3>5. \A d \in CommandIds : cmd'[d] \in Command /\ cmd'[d].to = cmd[d].to
      BY <3>1, <3>2, <3>3
    <3> QED BY <3>4, <3>5
  <2> DEFINE first == queue[CHOOSE i \in Waiting(r) : \A j \in Waiting(r) : i <= j]
  <2>4. cmd' = cmd \/ cmd' = [cmd EXCEPT ![first].back = r]
    BY <2>1 DEF Attach
  <2> HIDE DEF first
  <2>5. /\ cmd' \in [CommandIds -> Command]
        /\ \A d \in CommandIds : cmd'[d].to = cmd[d].to
    BY <1>0, <2>3, <2>4 DEF CommandsOK
  <2>6. UNCHANGED <<queue, outcome>>
    BY <2>1 DEF Attach
  <2> QED BY <1>0, <2>5, <2>6, SameList
<1>4. CASE Retried
  <2>1. PICK c \in ListedCommands :
          cmd' = [cmd EXCEPT ![c] = [@ EXCEPT !.retry = 1,
                    !.status = "NOT_HANDLED", !.progress = 0, !.timer = 0]]
    BY <1>4 DEF Retried
  <2>2. 0 \in -1..6 /\ 0 \in 0..(MaxTime + 1)
    BY CommandsAssumption
  <2>3. /\ cmd' \in [CommandIds -> Command]
        /\ \A d \in CommandIds : cmd'[d].to = cmd[d].to
    BY <1>0, <2>1, <2>2 DEF CommandsOK, Command, ListedCommands
  <2> QED BY <1>0, <1>4, <2>3, SameList DEF Retried
<1>5. CASE Reported
  <2>1. PICK c \in ListedCommands :
          /\ c = queue[pos]
          /\ outcome' = [outcome EXCEPT ![c] = IF Failed(c) THEN "failed" ELSE "done"]
          /\ cmd' = [cmd EXCEPT ![c] = NewCommand("DUMP", NoBuddy)]
    BY <1>5 DEF Reported
  <2>2. queue' = RemoveAt(queue, pos) /\ pos \in 1..Len(queue)
    BY <1>5 DEF Reported
  <2>3. Distinct(queue) /\ Elements(queue) = ListedCommands
    BY <1>0 DEF CommandsOK, QueueIsExact, Distinct, Elements
  <2>4. /\ queue' \in Seq(CommandIds)
        /\ Distinct(queue') /\ Elements(queue') = ListedCommands \ {c}
    BY <1>0, <2>1, <2>2, <2>3, RemoveAtProperties, RemoveDistinct DEF CommandsOK
  <2>5. c \in CommandIds
    BY <2>1 DEF ListedCommands
  <2>6. outcome' \in [CommandIds -> {"unused", "listed", "done", "failed"}]
    BY <1>0, <2>1 DEF CommandsOK
  <2>7. ListedCommands' = ListedCommands \ {c}
    BY <1>0, <2>1, <2>5 DEF CommandsOK, ListedCommands
  <2>8. NewCommand("DUMP", NoBuddy) \in Command
    BY CommandsAssumption
       DEF NewCommand, Command, NoReply, Reply, Senders, Instructions
  <2>9. cmd' \in [CommandIds -> Command] /\ \A d \in CommandIds \ {c} : cmd'[d] = cmd[d]
    BY <1>0, <2>1, <2>8 DEF CommandsOK
  <2>10. \A d \in ListedCommands' : cmd'[d].to \in Buddies
    BY <1>0, <2>7, <2>9 DEF CommandsOK, ListedCommands
  <2> QED
    BY <2>4, <2>6, <2>7, <2>9, <2>10 DEF CommandsOK, QueueIsExact, Distinct, Elements
<1>6. CASE Arranged
  <2>1. PICK c \in Unused, i \in Instructions, b \in Buddies : Enqueue(c, i, b)
    BY <1>6 DEF Arranged
  <2>2. c \in CommandIds /\ outcome[c] = "unused" /\ c \notin ListedCommands
    BY <2>1 DEF Unused, ListedCommands
  <2>3. Distinct(queue) /\ Elements(queue) = ListedCommands
    BY <1>0 DEF CommandsOK, QueueIsExact, Distinct, Elements
  <2>4. /\ queue' \in Seq(CommandIds)
        /\ Distinct(queue') /\ Elements(queue') = ListedCommands \cup {c}
    BY <1>0, <2>1, <2>2, <2>3, AppendDistinct DEF CommandsOK, Enqueue
  <2>5. outcome' \in [CommandIds -> {"unused", "listed", "done", "failed"}]
    BY <1>0, <2>1 DEF CommandsOK, Enqueue
  <2>6. ListedCommands' = ListedCommands \cup {c}
    BY <1>0, <2>1, <2>2 DEF CommandsOK, ListedCommands, Enqueue
  <2>7. NewCommand(i, b) \in Command /\ NewCommand(i, b).to = b
    BY CommandsAssumption DEF NewCommand, Command, NoReply, Reply, Senders
  <2>8. /\ cmd' \in [CommandIds -> Command]
        /\ cmd'[c].to = b
        /\ \A d \in CommandIds \ {c} : cmd'[d] = cmd[d]
    BY <1>0, <2>1, <2>2, <2>7 DEF CommandsOK, Enqueue
  <2>9. \A d \in ListedCommands' : cmd'[d].to \in Buddies
    BY <1>0, <2>6, <2>8 DEF CommandsOK, ListedCommands
  <2> QED
    BY <2>4, <2>5, <2>6, <2>8, <2>9 DEF CommandsOK, QueueIsExact, Distinct, Elements
<1>7. CASE Aged
  <2>1. PICK age \in [CommandIds -> 0..(MaxTime + 1)] :
          cmd' = [c \in CommandIds |-> [cmd[c] EXCEPT !.timer = age[c]]]
    BY <1>7 DEF Aged
  <2>2. /\ cmd' \in [CommandIds -> Command]
        /\ \A d \in CommandIds : cmd'[d].to = cmd[d].to
    <3>1. cmd \in [CommandIds -> Command]
      BY <1>0 DEF CommandsOK
    <3>2. \A k \in Command, t \in 0..(MaxTime + 1) :
            [k EXCEPT !.timer = t] \in Command /\ [k EXCEPT !.timer = t].to = k.to
      BY DEF Command
    <3> QED BY <2>1, <3>1, <3>2
  <2> QED BY <1>0, <1>7, <2>2, SameList DEF Aged
<1> QED BY <1>1, <1>2, <1>3, <1>4, <1>5, <1>6, <1>7 DEF Effect

LEMMA ServerStep ==
  ASSUME Sound, Effect
  PROVE  ServerOK'
<1>0. ServerOK
  BY DEF Sound, TypeOK, CommandTypeOK, ListInv, ServerOK
<1>1. CASE UNCHANGED serverVars
  BY <1>0, <1>1 DEF serverVars, ServerOK
<1>2. CASE Untouched \/ Acted
  BY <1>0, <1>2 DEF Untouched, Acted, ServerOK
<1>3. CASE Polled
  <2>1. ASSUME NEW c \in accepted'
        PROVE  c \in CommandIds
    <3>1. CASE c \in accepted
      BY <1>0, <3>1 DEF ServerOK
    <3>2. CASE c \notin accepted
      <4>1. PICK p \in pending : p.kind \in TextKinds /\ p.by = c
        BY <1>3, <2>1, <3>2 DEF Polled
      <4> QED BY <1>0, <4>1 DEF ServerOK
    <3> QED BY <3>1, <3>2
  <2> QED BY <1>0, <1>3, <2>1 DEF Polled, ServerOK
<1>4. ASSUME NEW kind \in RequestKinds, NEW c \in Senders, NEW v \in AllChannels,
             Write(kind, c, v), kind \in TextKinds => c \in CommandIds
      PROVE  /\ callid' \in Nat \ {0}
             /\ pending' \subseteq Request
             /\ \A p \in pending' : p.kind \in TextKinds => p.by \in CommandIds
  BY <1>0, <1>4 DEF ServerOK, Write, Request
<1>5. CASE Asked \/ Requested
  <2>1. PICK kind \in RequestKinds \ TextKinds, c \in Senders, v \in AllChannels :
          WriteRequest(kind, c, v)
    <3>1. "REGISTER" \in RequestKinds \ TextKinds /\ NoCommand \in Senders
            /\ CommandIds \subseteq Senders
      BY DEF RequestKinds, TextKinds, Senders
    <3>2. CASE Asked
      BY <3>1, <3>2 DEF Asked
    <3>3. CASE Requested
      BY <3>1, <3>3 DEF Requested
    <3> QED BY <1>5, <3>2, <3>3
  <2> QED BY <1>0, <1>4, <2>1 DEF WriteRequest, ServerOK
<1>6. CASE Texted
  <2>1. PICK c \in CommandIds, v \in AllChannels, kind \in TextKinds :
          WriteText(kind, c, v)
    BY <1>6 DEF Texted
  <2>2. kind \in RequestKinds /\ c \in Senders
    BY <2>1 DEF TextKinds, RequestKinds, Senders
  <2>3. sends' \in [CommandIds -> Nat] /\ UNCHANGED accepted
    BY <1>0, <2>1 DEF WriteText, ServerOK
  <2> QED BY <1>0, <1>4, <2>1, <2>2, <2>3 DEF WriteText, ServerOK
<1> QED
  BY <1>1, <1>2, <1>3, <1>5, <1>6
     DEF Effect, Attached, Retried, Reported, Arranged, Aged

-----------------------------------------------------------------------------
(* What a step can do to the conversation list.                            *)
ConvOK ==
  /\ ConvTypeOK
  /\ convs # <<>> /\ convs[1] = Root
  /\ Distinct(convs)
  /\ \A v \in Listed : v # Root => conv[v].contact \in Buddies
  /\ conv[Root].contact = NoBuddy

Retouched ==
  /\ UNCHANGED convs
  /\ conv' \in [AllChannels -> ConvRecord]
  /\ \A v \in AllChannels : conv'[v].contact = conv[v].contact

Dropped(v) == v \in Listed \ {Root} /\ DropConv(v)

Opened(v) ==
  /\ v \in FreeChannels
  /\ \E b \in Buddies, tcp \in {"none", "open"} : AppendConv(v, NewConv(b, tcp))

LEMMA SoundConvs ==
  ASSUME Sound
  PROVE  ConvOK /\ at \in Listed /\ at \in AllChannels
<1>1. \A v \in Listed : v # Root => conv[v].contact \in Buddies
  BY DEF Sound, ListInv, ConvListOK, Listed
<1> QED
  BY <1>1 DEF Sound, TypeOK, ListInv, ConvListOK, ConvOK, Distinct

LEMMA ConvsList ==
  ASSUME ConvOK
  PROVE  /\ convs \in Seq(AllChannels) /\ Len(convs) \in Nat \ {0}
         /\ DOMAIN convs = 1..Len(convs)
         /\ Root \in Listed /\ Listed \subseteq AllChannels
         /\ Listed = Elements(convs)
         /\ \A v \in Listed : /\ IndexOf(v) \in 1..Len(convs)
                              /\ convs[IndexOf(v)] = v
<1>1. convs \in Seq(AllChannels) /\ convs # <<>> /\ convs[1] = Root
  BY DEF ConvOK, ConvTypeOK
<1>2. Len(convs) \in Nat \ {0} /\ DOMAIN convs = 1..Len(convs)
  BY <1>1, EmptySeq, LenProperties
<1>3. Root \in Listed
  <2>1. 1 \in DOMAIN convs
    BY <1>2
  <2> QED BY <1>1, <2>1 DEF Listed
<1>4. Listed \subseteq AllChannels
  BY <1>1, <1>2, ElementOfSeq DEF Listed
<1>5. ASSUME NEW v \in Listed
      PROVE  IndexOf(v) \in 1..Len(convs) /\ convs[IndexOf(v)] = v
  <2>1. \E i \in DOMAIN convs : convs[i] = v
    BY DEF Listed
  <2> QED BY <1>2, <2>1 DEF IndexOf
<1> QED BY <1>1, <1>2, <1>3, <1>4, <1>5 DEF Listed, Elements

(* The node before a node that is not the head stays in the list; the node *)
(* behind one that is not the last is in it.                               *)
LEMMA Neighbours ==
  ASSUME ConvOK, NEW v \in Listed
  PROVE  /\ v # Root => PreOf(v) \in Listed \ {v}
         /\ ~IsLast(v) => NextOf(v) \in Listed
<1>1. /\ Len(convs) \in Nat \ {0}
      /\ DOMAIN convs = 1..Len(convs)
      /\ IndexOf(v) \in 1..Len(convs)
      /\ convs[IndexOf(v)] = v
  BY ConvsList
<1>2. Distinct(convs) /\ convs[1] = Root
  BY DEF ConvOK
<1>3. v # Root => PreOf(v) \in Listed \ {v}
  <2>1. ASSUME v # Root
        PROVE  IndexOf(v) - 1 \in DOMAIN convs
    BY <1>1, <1>2, <2>1
  <2>2. ASSUME v # Root
        PROVE  convs[IndexOf(v) - 1] # v
    <3>1. IndexOf(v) \in DOMAIN convs /\ IndexOf(v) - 1 # IndexOf(v)
      BY <1>1
    <3> QED BY <1>1, <1>2, <2>1, <2>2, <3>1 DEF Distinct
  <2> QED BY <2>1, <2>2 DEF PreOf, Listed
<1>4. ~IsLast(v) => NextOf(v) \in Listed
  <2>1. ASSUME ~IsLast(v)
        PROVE  IndexOf(v) + 1 \in DOMAIN convs
    BY <1>1, <2>1 DEF IsLast
  <2> QED BY <2>1 DEF NextOf, Listed
<1> QED BY <1>3, <1>4

LEMMA DroppedConv ==
  ASSUME ConvOK, NEW v, Dropped(v)
  PROVE  ConvOK' /\ Listed' = Listed \ {v}
<1>1. /\ convs \in Seq(AllChannels)
      /\ Len(convs) \in Nat
      /\ v \in AllChannels \ {Root}
      /\ IndexOf(v) \in 1..Len(convs) /\ convs[IndexOf(v)] = v
      /\ Listed = Elements(convs)
      /\ convs[1] = Root /\ Distinct(convs)
  BY ConvsList DEF Dropped, ConvOK
<1>2. convs' = RemoveAt(convs, IndexOf(v))
        /\ conv' = [conv EXCEPT ![v] = NewConv(NoBuddy, "open")]
  BY DEF Dropped, DropConv
<1> DEFINE i == IndexOf(v)
<1> HIDE DEF i
<1>3. i \in 1..Len(convs) /\ i # 1 /\ convs[i] = v /\ convs' = RemoveAt(convs, i)
  BY <1>1, <1>2 DEF i
<1>4. Distinct(convs') /\ Elements(convs') = Elements(convs) \ {v}
  BY <1>1, <1>3, RemoveDistinct
<1>5. /\ convs' \in Seq(AllChannels)
      /\ Len(convs') = Len(convs) - 1
      /\ \A j \in 1..(Len(convs) - 1) :
           convs'[j] = IF j < i THEN convs[j] ELSE convs[j + 1]
  BY <1>1, <1>3, RemoveAtProperties
<1>6. convs' # <<>> /\ convs'[1] = Root
  <2>1. 1 \in 1..(Len(convs) - 1) /\ 1 < i
    BY <1>1, <1>3
  <2>2. convs'[1] = Root
    BY <1>1, <1>5, <2>1
  <2>3. Len(convs') # 0
    BY <1>1, <1>5, <2>1
  <2> QED BY <2>2, <2>3, EmptySeq
<1>7. Listed' = Listed \ {v}
  BY <1>1, <1>4 DEF Listed, Elements
<1>8. NewConv(NoBuddy, "open") \in ConvRecord
  BY ChannelsAssumption DEF NewConv, ConvRecord
<1>9. conv' \in [AllChannels -> ConvRecord]
        /\ \A w \in AllChannels \ {v} : conv'[w] = conv[w]
  BY <1>1, <1>2, <1>8 DEF ConvOK, ConvTypeOK
<1>10. conv'[Root].contact = NoBuddy
  BY <1>1, <1>9 DEF ConvOK, AllChannels
<1>11. \A w \in Listed' : w # Root => conv'[w].contact \in Buddies
  BY <1>7, <1>9, ConvsList DEF ConvOK
<1> QED
  BY <1>4, <1>5, <1>6, <1>7, <1>9, <1>10, <1>11 DEF ConvOK, ConvTypeOK

LEMMA OpenedConv ==
  ASSUME ConvOK, NEW v, Opened(v)
  PROVE  ConvOK' /\ Listed' = Listed \cup {v}
<1>1. /\ convs \in Seq(AllChannels)
      /\ v \in AllChannels \ {Root} /\ v \notin Elements(convs)
      /\ Listed = Elements(convs)
      /\ convs[1] = Root /\ convs # <<>> /\ Distinct(convs)
  BY ConvsList, ChannelsAssumption DEF Opened, ConvOK, FreeChannels, AllChannels
<1>2. PICK b \in Buddies, tcp \in {"none", "open"} :
        /\ convs' = Append(convs, v)
        /\ conv' = [conv EXCEPT ![v] = NewConv(b, tcp)]
  BY DEF Opened, AppendConv
<1>3. /\ convs' \in Seq(AllChannels)
      /\ Distinct(convs')
      /\ Elements(convs') = Elements(convs) \cup {v}
      /\ convs'[1] = Root
  BY <1>1, <1>2, AppendDistinct
<1>4. convs' # <<>>
  BY <1>1, <1>2, AppendProperties, EmptySeq, LenProperties
<1>5. Listed' = Listed \cup {v}
  BY <1>1, <1>3 DEF Listed, Elements
<1>6. NewConv(b, tcp) \in ConvRecord /\ NewConv(b, tcp).contact = b
  BY ChannelsAssumption DEF NewConv, ConvRecord
<1>7. /\ conv' \in [AllChannels -> ConvRecord]
      /\ conv'[v].contact = b
      /\ \A w \in AllChannels \ {v} : conv'[w] = conv[w]
  BY <1>1, <1>2, <1>6 DEF ConvOK, ConvTypeOK
<1>8. conv'[Root].contact = NoBuddy
  BY <1>1, <1>7 DEF ConvOK, AllChannels
<1>9. \A w \in Listed' : w # Root => conv'[w].contact \in Buddies
  BY <1>5, <1>7, ConvsList DEF ConvOK
<1> QED BY <1>3, <1>4, <1>5, <1>7, <1>8, <1>9 DEF ConvOK, ConvTypeOK

LEMMA RetouchedConv ==
  ASSUME ConvOK, Retouched \/ UNCHANGED convVars
  PROVE  ConvOK' /\ Listed' = Listed
<1>1. Listed' = Listed /\ Listed \subseteq AllChannels /\ Root \in Listed
  BY ConvsList DEF Retouched, Listed, convVars
<1> QED BY <1>1 DEF ConvOK, ConvTypeOK, Retouched, Distinct, convVars

-----------------------------------------------------------------------------
(* The control state of the loop.                                          *)
LoopOK ==
  /\ mode \in {"running", "exited", "no credential", "null channel",
               "null conversation", "root destroyed"}
  /\ pc \in {"listen", "dispatch", "keepalive", "commands", "sleep", "tunnel"}
  /\ pos \in Nat \ {0}
  /\ execs \in 0..MaxConcurrent
  /\ at \in Listed
  /\ pc \notin {"listen", "dispatch"} => at = Root
  /\ listenerError \in 0..2
  /\ batch \in Seq(Message)
  /\ news \in Nat
  /\ beats \in Nat

LEMMA SoundLoop ==
  ASSUME Sound
  PROVE  LoopOK
BY DEF Sound, TypeOK, CommandTypeOK, ListInv, ConvListOK, LoopOK

(* A call of the engine that connects, drops or opens a conversation, or   *)
(* none; the pointer of the loop is at the root channel meanwhile.         *)
LEMMA WalkConvs ==
  ASSUME Sound, Walk
  PROVE  ConvOK' /\ Root \in Listed'
<1>1. ConvOK /\ Root \in Listed
  BY SoundConvs, ConvsList
<1>2. CASE UNCHANGED convVars
  BY <1>1, <1>2, RetouchedConv
<1>3. CASE StartChat
  <2> DEFINE c == Current
             v == CHOOSE w \in FreeChannels : TRUE
  <2>1. InWalk /\ FreeChannels # {}
          /\ AppendConv(v, NewConv(cmd[c].to, "none"))
    BY <1>3 DEF StartChat, ExecutesMsg, Executes
  <2>2. c \in ListedCommands
    BY <2>1, CurrentIsListed
  <2>3. cmd[c].to \in Buddies
    BY <2>2 DEF Sound, ListInv
  <2>4. v \in FreeChannels
    BY <2>1
  <2> HIDE DEF c, v
  <2>5. Opened(v)
    BY <2>1, <2>3, <2>4 DEF Opened
  <2> QED BY <1>1, <2>5, OpenedConv
<1>4. CASE Connect
  <2> DEFINE v == ConvOf(cmd[Current].to)
  <2>1. /\ HasConv(cmd[Current].to)
        /\ SetConv(v, [conv[v] EXCEPT !.tcp = "open", !.ready = 0])
    BY <1>4 DEF Connect
  <2>2. v \in AllChannels
    BY <2>1, ConvOfIsListed
  <2> HIDE DEF v
  <2>3. conv \in [AllChannels -> ConvRecord]
    BY <1>1 DEF ConvOK, ConvTypeOK
  <2>4. /\ [conv[v] EXCEPT !.tcp = "open", !.ready = 0] \in ConvRecord
        /\ [conv[v] EXCEPT !.tcp = "open", !.ready = 0].contact = conv[v].contact
    BY <2>2, <2>3 DEF ConvRecord
  <2>5. Retouched
    BY <2>1, <2>2, <2>3, <2>4 DEF Retouched, SetConv
  <2> QED BY <1>1, <2>5, RetouchedConv
<1>5. CASE BuddyFailed
  <2> DEFINE v == ConvOf(cmd[Current].to)
  <2>1. InWalk /\ HasConv(cmd[Current].to) /\ DropConv(v)
    BY <1>5 DEF BuddyFailed, ExecutesMsg, Executes
  <2>2. cmd[Current].to \in Buddies
    BY <2>1, CurrentIsListed DEF Sound, ListInv
  <2>3. v \in Listed /\ conv[v].contact = cmd[Current].to
    BY <2>1, ConvOfIsListed
  <2> HIDE DEF v
  <2>4. v # Root
    BY <1>1, <2>2, <2>3, ChannelsAssumption DEF ConvOK
  <2>5. Dropped(v)
    BY <2>1, <2>3, <2>4 DEF Dropped
  <2> QED BY <1>1, <2>4, <2>5, DroppedConv
<1>6. \/ StartChat \/ Connect \/ BuddyFailed
      \/ UNCHANGED convVars
  BY DEF Walk, CommandStep, RetryCommand, ReportCommand, PostponeCommand,
         ExecuteCommand, SendSms, SmsAccepted, SmsRefused, SmsWaits, Dump,
         HoldMsg, ConvLost, NoCredential, ConnectFails, InviteBuddy,
         InviteRefused, InviteAccepted, SendText, UseNullChannel,
         TextAccepted, MsgWaits, Stop
<1> QED BY <1>2, <1>3, <1>4, <1>5, <1>6

LEMMA WalkLoop ==
  ASSUME Sound, Walk
  PROVE  LoopOK'
<1>1. LoopOK
  BY SoundLoop
<1>2. pc = "commands" /\ mode = "running" /\ UNCHANGED loopVars
  BY DEF Walk, CommandStep, RetryCommand, ReportCommand, PostponeCommand,
         ExecuteCommand, SendSms, SmsAccepted, SmsRefused, SmsWaits, Dump,
         HoldMsg, ConvLost, StartChat, NoCredential, Connect, ConnectFails,
         InviteBuddy, InviteRefused, InviteAccepted, SendText, BuddyFailed,
         UseNullChannel, TextAccepted, MsgWaits, ExecutesMsg, Executes, InWalk
<1> DEFINE Moves == \/ LookAgain \/ Advance(execs)
                    \/ execs < MaxConcurrent /\ Advance(execs + 1)
                    \/ EndWalk
<1>3. \/ UNCHANGED mode /\ Moves
      \/ Stop("no credential") \/ Stop("null channel")
  <2>1. CASE RetryCommand \/ ReportCommand \/ PostponeCommand
    BY <2>1 DEF RetryCommand, ReportCommand, PostponeCommand
  <2>2. CASE SendSms \/ SmsAccepted \/ SmsRefused \/ SmsWaits \/ Dump
               \/ HoldMsg \/ ConvLost \/ StartChat
    BY <2>2 DEF SendSms, SmsAccepted, SmsRefused, SmsWaits, Dump, HoldMsg,
                ConvLost, StartChat, ExecutesMsg, Executes, Executed, Succeeded
  <2>3. CASE Connect \/ ConnectFails \/ InviteBuddy \/ InviteRefused
               \/ InviteAccepted
    BY <2>3 DEF Connect, ConnectFails, InviteBuddy, InviteRefused,
                InviteAccepted, ExecutesMsg, Executes, Executed
  <2>4. CASE SendText \/ BuddyFailed \/ TextAccepted \/ MsgWaits
    BY <2>4 DEF SendText, BuddyFailed, TextAccepted, MsgWaits,
                ExecutesMsg, Executes, Executed, Succeeded
  <2>5. CASE NoCredential \/ UseNullChannel
    BY <2>5 DEF NoCredential, UseNullChannel
  <2> QED BY <2>1, <2>2, <2>3, <2>4, <2>5 DEF Walk, CommandStep, ExecuteCommand
<1>4. /\ mode' \in {"running", "no credential", "null channel"}
      /\ pc' \in {"commands", "sleep"}
      /\ pos' \in Nat \ {0} /\ execs' \in 0..MaxConcurrent
  <2>1. MaxConcurrent \in Nat \ {0} /\ pos \in Nat \ {0} /\ execs \in 0..MaxConcurrent
    BY <1>1, CommandsAssumption DEF LoopOK
  <2>2. CASE Moves /\ UNCHANGED mode
    BY <1>2, <2>1, <2>2 DEF LookAgain, Advance, EndWalk
  <2>3. CASE Stop("no credential") \/ Stop("null channel")
    BY <1>2, <2>1, <2>3 DEF Stop, cmdVars
  <2> QED BY <1>3, <2>2, <2>3
<1>5. Root \in Listed'
  BY WalkConvs
<1> QED BY <1>1, <1>2, <1>4, <1>5 DEF LoopOK, loopVars

LEMMA NewsCounted ==
  ASSUME NEW s \in Seq(Message)
  PROVE  Cardinality(NewsIn(s)) \in Nat
<1>1. DOMAIN s = 1..Len(s) /\ Len(s) \in Nat
  BY LenProperties
<1>2. NewsIn(s) \in SUBSET (1..Len(s))
  BY <1>1 DEF NewsIn
<1>3. IsFiniteSet(1..Len(s))
  BY <1>1, FS_Interval
<1>4. IsFiniteSet(NewsIn(s))
  BY <1>2, <1>3, FS_Subset
<1> QED BY <1>4, FS_CardinalityType

LEMMA PollConvs ==
  ASSUME Sound, Listen \/ CloseChannel
  PROVE  ConvOK' /\ LoopOK'
<1>1. /\ ConvOK /\ at \in Listed /\ at \in AllChannels /\ LoopOK
      /\ conv \in [AllChannels -> ConvRecord]
  BY SoundConvs, SoundLoop DEF ConvOK, ConvTypeOK
<1>2. CASE Listen
  <2>1. PICK p \in Polls(at) :
          /\ Polling /\ Served(p.msgs)
          /\ SetConv(at, [conv[at] EXCEPT
                            !.tcp = IF conv[at].ready # -1 /\ p.error = 2
                                    THEN "shut" ELSE @,
                            !.timer = IF p.msgs # <<>> THEN 0 ELSE @])
          /\ batch' = p.msgs
          /\ listenerError' = p.error
          /\ pc' = "dispatch"
          /\ UNCHANGED <<mode, cmdVars, at, beats>>
    BY <1>2 DEF Listen
  <2> DEFINE k == [conv[at] EXCEPT
                     !.tcp = IF conv[at].ready # -1 /\ p.error = 2
                             THEN "shut" ELSE @,
                     !.timer = IF p.msgs # <<>> THEN 0 ELSE @]
  <2>2. k \in ConvRecord /\ k.contact = conv[at].contact
    <3>1. 0 \in 0..ChannelMaxTime /\ conv[at] \in ConvRecord
      BY <1>1, ChannelsAssumption
    <3> QED BY <3>1 DEF ConvRecord
  <2>3. SetConv(at, k)
    BY <2>1
  <2> HIDE DEF k
  <2>4. Retouched
    BY <1>1, <2>2, <2>3 DEF Retouched, SetConv
  <2>5. ConvOK' /\ Listed' = Listed
    BY <1>1, <2>4, RetouchedConv
  <2>6. p.error \in 0..2 /\ p.msgs \in Seq(Message)
    BY PollsReturn
  <2>7. news' \in Nat
    <3>1. Cardinality(NewsIn(p.msgs)) \in Nat /\ news \in Nat
      BY <1>1, <2>6, NewsCounted DEF LoopOK
    <3>2. news' = news + Cardinality(NewsIn(p.msgs))
      BY <2>1 DEF Served
    <3> QED BY <3>1, <3>2
  <2>8. at' \in Listed' /\ UNCHANGED <<mode, pos, execs, beats>>
    BY <1>1, <2>1, <2>5 DEF cmdVars
  <2>9. batch' \in Seq(Message) /\ listenerError' \in 0..2 /\ pc' = "dispatch"
    BY <2>1, <2>6
  <2> QED BY <1>1, <2>5, <2>7, <2>8, <2>9 DEF LoopOK
<1>3. CASE CloseChannel
  <2>1. PICK p \in Polls(at) :
          /\ Closes(at, p.error)
          /\ news' = news + Cardinality(NewsIn(p.msgs))
          /\ DropConv(at)
          /\ at' = PreOf(at)
          /\ batch' = <<>>
          /\ listenerError' = 0
          /\ pc' = "dispatch"
          /\ UNCHANGED <<mode, cmdVars, beats>>
    BY <1>3 DEF CloseChannel
  <2>2. at # Root
    BY <2>1 DEF Closes
  <2>3. ConvOK' /\ Listed' = Listed \ {at}
    BY <1>1, <2>1, <2>2, DroppedConv DEF Dropped
  <2>4. at' \in Listed'
    BY <1>1, <2>1, <2>2, <2>3, Neighbours
  <2>5. news' \in Nat
    <3>1. p.msgs \in Seq(Message)
      BY PollsReturn
    <3>2. Cardinality(NewsIn(p.msgs)) \in Nat /\ news \in Nat
      BY <1>1, <3>1, NewsCounted DEF LoopOK
    <3> QED BY <2>1, <3>2
  <2>6. batch' \in Seq(Message) /\ listenerError' \in 0..2 /\ pc' = "dispatch"
          /\ UNCHANGED <<mode, pos, execs, beats>>
    BY <2>1, EmptySeq DEF cmdVars
  <2> QED BY <1>1, <2>3, <2>4, <2>5, <2>6 DEF LoopOK
<1> QED BY <1>2, <1>3

LEMMA DispatchConvs ==
  ASSUME Sound, Dispatch
  PROVE  ConvOK' /\ LoopOK'
<1>1. /\ ConvOK /\ at \in Listed /\ at \in AllChannels /\ LoopOK
      /\ conv \in [AllChannels -> ConvRecord]
  BY SoundConvs, SoundLoop DEF ConvOK, ConvTypeOK
<1>2. ASSUME batch # <<>>, NextMessage, UNCHANGED <<pos, execs>>, at' \in Listed',
             pc = "dispatch"
      PROVE  LoopOK'
  <2>1. batch' \in Seq(Message)
    BY <1>2, NextHeard DEF NextMessage
  <2> QED BY <1>1, <1>2, <2>1 DEF LoopOK, NextMessage
<1>3. CASE GotReply \/ GotMessage \/ IgnoreInvitation
  <2>1. /\ batch # <<>> /\ NextMessage /\ pc = "dispatch"
        /\ UNCHANGED <<pos, execs, at, convVars>>
    BY <1>3 DEF GotReply, GotMessage, IgnoreInvitation, Dispatching, Attach,
                Enqueue, cmdVars
  <2>2. ConvOK' /\ Listed' = Listed
    BY <1>1, <2>1, RetouchedConv
  <2> QED BY <1>1, <1>2, <2>1, <2>2
<1>4. CASE GotUserEntered \/ GotUserFailed
  <2>1. /\ batch # <<>> /\ NextMessage /\ pc = "dispatch"
        /\ UNCHANGED <<pos, execs, at>>
    BY <1>4 DEF GotUserEntered, GotUserFailed, Dispatching, cmdVars
  <2> DEFINE p == -1
  <2>2. p \in {-1, 0, 1} /\ 1 \in {-1, 0, 1}
    OBVIOUS
  <2>3. SetConv(at, [conv[at] EXCEPT !.ready = 1])
          \/ SetConv(at, [conv[at] EXCEPT !.ready = p])
    BY <1>4 DEF GotUserEntered, GotUserFailed
  <2> HIDE DEF p
  <2>4. \A r \in {1, p} : /\ [conv[at] EXCEPT !.ready = r] \in ConvRecord
                          /\ [conv[at] EXCEPT !.ready = r].contact = conv[at].contact
    BY <1>1, <2>2 DEF ConvRecord
  <2>5. Retouched
    <3>1. ASSUME NEW k, k \in ConvRecord, k.contact = conv[at].contact,
                 SetConv(at, k)
          PROVE  Retouched
      BY <1>1, <3>1 DEF Retouched, SetConv
    <3> QED BY <2>3, <2>4, <3>1
  <2>6. ConvOK' /\ Listed' = Listed
    BY <1>1, <2>5, RetouchedConv
  <2> QED BY <1>1, <1>2, <2>1, <2>6
<1>5. CASE GotInvitation
  <2> DEFINE v == CHOOSE w \in FreeChannels : TRUE
  <2>1. /\ batch # <<>> /\ NextMessage /\ pc = "dispatch"
        /\ UNCHANGED <<pos, execs, at>>
        /\ FreeChannels # {} /\ Head(batch).from \in Buddies
        /\ AppendConv(v, NewConv(Head(batch).from, "open"))
    BY <1>5 DEF GotInvitation, Dispatching, cmdVars
  <2>2. v \in FreeChannels
    BY <2>1
  <2> HIDE DEF v
  <2>3. Opened(v)
    BY <2>1, <2>2 DEF Opened
  <2>4. ConvOK' /\ Listed' = Listed \cup {v}
    BY <1>1, <2>3, OpenedConv
  <2> QED BY <1>1, <1>2, <2>1, <2>4
<1>6. CASE GotUserLeft
  <2>1. /\ batch # <<>> /\ NextMessage /\ pc = "dispatch"
        /\ UNCHANGED <<pos, execs>>
        /\ at # Root /\ DropConv(at) /\ at' = PreOf(at)
    BY <1>6 DEF GotUserLeft, Dispatching, cmdVars
  <2>2. ConvOK' /\ Listed' = Listed \ {at}
    BY <1>1, <2>1, DroppedConv DEF Dropped
  <2>3. at' \in Listed'
    BY <1>1, <2>1, <2>2, Neighbours
  <2> QED BY <1>2, <2>1, <2>2, <2>3
<1>7. CASE BadInvitation \/ RootLeft \/ GotDeregistration \/ DispatchNullChannel
  <2>1. /\ UNCHANGED <<pc, cmdVars, convVars, loopVars>>
        /\ mode' \in {"null conversation", "root destroyed", "exited", "null channel"}
    BY <1>7 DEF BadInvitation, RootLeft, GotDeregistration, DispatchNullChannel,
                Stop
  <2>2. ConvOK' /\ Listed' = Listed
    BY <1>1, <2>1, RetouchedConv
  <2> QED BY <1>1, <2>1, <2>2 DEF LoopOK, cmdVars, loopVars
<1> QED BY <1>3, <1>4, <1>5, <1>6, <1>7 DEF Dispatch

LEMMA TickConvs ==
  ASSUME Sound, Tick
  PROVE  ConvOK' /\ LoopOK'
<1>1. ConvOK /\ LoopOK /\ conv \in [AllChannels -> ConvRecord]
  BY SoundConvs, SoundLoop DEF ConvOK, ConvTypeOK
<1>2. \A v \in AllChannels :
        /\ [conv[v] EXCEPT !.timer = Older(@, ChannelMaxTime)] \in ConvRecord
        /\ [conv[v] EXCEPT !.timer = Older(@, ChannelMaxTime)].contact
             = conv[v].contact
  <2>1. \A t \in 0..ChannelMaxTime : Older(t, ChannelMaxTime) \in 0..ChannelMaxTime
    BY ChannelsAssumption DEF Older
  <2> QED BY <1>1, <2>1 DEF ConvRecord
<1>3. Retouched
  BY <1>1, <1>2 DEF Retouched, Tick
<1>4. ConvOK' /\ Listed' = Listed
  BY <1>1, <1>3, RetouchedConv
<1> QED BY <1>1, <1>4 DEF Tick, LoopOK, loopVars

LEMMA ConvsStep ==
  ASSUME Sound, [Next]_vars
  PROVE  ConvOK' /\ LoopOK'
<1>1. ConvOK /\ at \in Listed /\ LoopOK
  BY SoundConvs, SoundLoop
<1>2. CASE Walk
  BY <1>2, WalkConvs, WalkLoop
<1>3. CASE Dispatch
  BY <1>3, DispatchConvs
<1>4. CASE Listen \/ CloseChannel
  BY <1>4, PollConvs
<1>5. CASE Tick
  BY <1>5, TickConvs
<1>6. CASE NextChannel
  <2>1. /\ UNCHANGED <<mode, cmdVars, convVars, listenerError, batch, news, beats>>
        /\ \/ pc' = "keepalive" /\ at' = Root
           \/ pc' = "listen" /\ ~IsLast(at) /\ at' = NextOf(at)
    BY <1>6 DEF NextChannel
  <2>2. ConvOK' /\ Listed' = Listed
    BY <1>1, <2>1, RetouchedConv
  <2>3. at' \in Listed
    BY <1>1, <2>1, Neighbours, ConvsList
  <2>4. /\ pc' \in {"keepalive", "listen"}
        /\ pc' \notin {"listen", "dispatch"} => at' = Root
        /\ UNCHANGED <<mode, pos, execs, listenerError, batch, news, beats>>
    BY <2>1 DEF cmdVars
  <2> QED BY <1>1, <2>2, <2>3, <2>4 DEF LoopOK
<1>7. CASE KeepAlive
  <2>1. /\ UNCHANGED <<mode, cmdVars, convVars, at, listenerError, batch, news>>
        /\ pc = "keepalive" /\ pc' \in {"sleep", "commands"}
        /\ beats' \in {beats, beats + 1}
    BY <1>7 DEF KeepAlive, ToCommands
  <2>2. ConvOK' /\ Listed' = Listed
    BY <1>1, <2>1, RetouchedConv
  <2>3. at = Root /\ at' = Root /\ at' \in Listed'
    BY <1>1, <2>1, <2>2 DEF LoopOK
  <2>4. beats' \in Nat
    <3>1. beats \in Nat
      BY <1>1 DEF LoopOK
    <3>2. beats' = beats \/ beats' = beats + 1
      BY <2>1
    <3> QED BY <3>1, <3>2
  <2>5. UNCHANGED <<mode, pos, execs, listenerError, batch, news>>
    BY <2>1 DEF cmdVars
  <2>6. pc' \in {"sleep", "commands"}
    BY <2>1
  <2> QED BY <1>1, <2>2, <2>3, <2>4, <2>5, <2>6 DEF LoopOK
<1>8. CASE ArrangeCommand
  <2>1. UNCHANGED <<mode, pc, pos, execs, convVars, loopVars>>
    BY <1>8 DEF ArrangeCommand, Enqueue
  <2>2. ConvOK' /\ Listed' = Listed
    BY <1>1, <2>1, RetouchedConv
  <2> QED BY <1>1, <2>1, <2>2 DEF LoopOK, loopVars
<1>9. CASE \/ ListenNullChannel \/ Exit \/ Sleep \/ LoopAgain \/ Halted
            \/ UNCHANGED vars
  <2>1. /\ UNCHANGED <<cmdVars, convVars, loopVars>>
        /\ mode' \in {mode, "null channel", "exited"}
        /\ \/ UNCHANGED pc
           \/ pc = "sleep" /\ pc' = "tunnel"
           \/ pc = "tunnel" /\ pc' = "listen"
    BY <1>9 DEF ListenNullChannel, Exit, Sleep, LoopAgain, Halted, Stop, vars
  <2>2. ConvOK' /\ Listed' = Listed
    BY <1>1, <2>1, RetouchedConv
  <2> QED BY <1>1, <2>1, <2>2 DEF LoopOK, cmdVars, loopVars
<1> QED
  BY <1>2, <1>3, <1>4, <1>5, <1>6, <1>7, <1>8, <1>9 DEF Next, Loop

-----------------------------------------------------------------------------
(* Sound is inductive.                                                     *)
LEMMA SoundInit ==
  ASSUME Init
  PROVE  Sound
<1>1. convs = <<Root>> /\ conv = [v \in AllChannels |-> NewConv(NoBuddy, "open")]
        /\ at = Root
  BY DEF Init, ConvInit
<1>2. /\ convs \in Seq(AllChannels) /\ convs # <<>> /\ convs[1] = Root
      /\ DOMAIN convs = {1}
  BY <1>1 DEF AllChannels
<1>3. NewConv(NoBuddy, "open") \in ConvRecord /\ NewConv(NoBuddy, "open").contact = NoBuddy
  BY ChannelsAssumption DEF NewConv, ConvRecord
<1>4. ConvTypeOK /\ ConvListOK /\ conv[Root].contact = NoBuddy
  <2>1. conv \in [AllChannels -> ConvRecord] /\ conv[Root].contact = NoBuddy
    BY <1>1, <1>3 DEF AllChannels
  <2>2. at \in Listed
    BY <1>1, <1>2 DEF Listed
  <2> QED BY <1>2, <2>1, <2>2 DEF ConvTypeOK, ConvListOK
<1>5. NewCommand("DUMP", NoBuddy) \in Command
  BY CommandsAssumption
     DEF NewCommand, Command, NoReply, Reply, Senders, Instructions
<1>6. CommandTypeOK
  BY <1>5, CommandsAssumption, EmptySeq DEF Init, CommandInit, CommandTypeOK
<1>7. queue = <<>> /\ DOMAIN queue = {} /\ ListedCommands = {}
  BY EmptySeq, LenProperties DEF Init, CommandInit, ListedCommands
<1>8. QueueIsExact
  BY <1>7 DEF QueueIsExact
<1>9. TypeOK
  BY <1>1, <1>4, <1>6, EmptySeq DEF Init, TypeOK, AllChannels
<1> QED
  BY <1>4, <1>7, <1>8, <1>9 DEF Init, CommandInit, Sound, ListInv

LEMMA SoundStep ==
  ASSUME Sound, [Next]_vars
  PROVE  Sound'
<1>1. CommandsOK' /\ ServerOK'
  BY StepEffect, CommandsStep, ServerStep
<1>2. ConvOK' /\ LoopOK'
  BY ConvsStep
<1>3. (\A v \in Listed : v # Root => conv[v].contact \in Buddies)'
        => (\A i \in DOMAIN convs : convs[i] # Root => conv[convs[i]].contact \in Buddies)'
  BY DEF Listed
<1>4. ConvListOK'
  BY <1>2, <1>3 DEF ConvOK, LoopOK, ConvListOK, Distinct
<1>5. at' \in AllChannels
  <2>1. (convs \in Seq(AllChannels))' /\ at' \in Listed'
    BY <1>2 DEF ConvOK, ConvTypeOK, LoopOK
  <2> QED BY <2>1, ElementOfSeq, LenProperties DEF Listed
<1>6. TypeOK'
  BY <1>1, <1>2, <1>5
     DEF CommandsOK, ServerOK, ConvOK, LoopOK, TypeOK, CommandTypeOK
<1> QED
  BY <1>1, <1>2, <1>4, <1>6
     DEF CommandsOK, ServerOK, ConvOK, LoopOK, Sound, ListInv

(* The conversations, the list and the loop over it agree in every state.       *)
THEOREM SoundAlways == Spec => []Sound
<1>1. Init => Sound
  BY SoundInit
<1>2. Sound /\ [Next]_vars => Sound'
  BY SoundStep
<1> QED BY <1>1, <1>2, PTL DEF Spec

(* Every variable keeps its type, whatever the server sends and loses.     *)
THEOREM TypeCorrect == Spec => []TypeOK
<1>1. Sound => TypeOK
  BY DEF Sound
<1> QED BY <1>1, SoundAlways, PTL

(* The command list holds each unfinished command exactly once             *)
(* (LOF_TOOL_Command_main frees the node it stands on).                    *)
THEOREM QueueExact == Spec => []QueueIsExact
<1>1. Sound => QueueIsExact
  BY DEF Sound, ListInv
<1> QED BY <1>1, SoundAlways, PTL

(* The conversation list keeps its head and its buddies, and the loop's    *)
(* pointer stays in it (LOF_TAKEOVER frees the node it stands on).         *)
THEOREM ConvListSound == Spec => []ConvListOK
<1>1. Sound => ConvListOK
  BY DEF Sound, ListInv
<1> QED BY <1>1, SoundAlways, PTL

-----------------------------------------------------------------------------
(* The channels.  ChannelInv in two parts: what holds of the list, and     *)
(* what holds of the messages that are still to be dispatched.             *)
ChannelsOK ==
  /\ conv[Root].tcp # "none"
  /\ RequestsOnOpenChannels
  /\ PoliteServer => ReadyHasChannel

LastWords ==
  PoliteServer =>
    /\ \A i \in DOMAIN batch : batch[i].type = "UserLeft" => i = Len(batch)
    /\ batch # <<>> => conv[at].tcp # "none"
    /\ at = Root => \A i \in DOMAIN batch : batch[i].type # "UserLeft"

(* No conversation loses its socket or gets ready without one.             *)
KeepsChannels ==
  /\ UNCHANGED convs
  /\ \A v \in AllChannels :
       /\ conv[v].tcp # "none" => conv'[v].tcp # "none"
       /\ PoliteServer /\ conv'[v].ready # -1 =>
            conv[v].ready # -1 \/ conv'[v].tcp # "none"

(* What is written in the step is written on an open channel.              *)
WritesOnOpen ==
  \A p \in pending' \ pending : p.on \in Listed' /\ conv'[p.on].tcp # "none"

(* A step that keeps the channels keeps what ChannelsOK says of them.      *)
LEMMA KeptChannels ==
  ASSUME Sound, ChannelsOK, KeepsChannels, WritesOnOpen
  PROVE  ChannelsOK'
<1>1. Listed' = Listed /\ Listed \subseteq AllChannels /\ Root \in Listed
  BY SoundConvs, ConvsList DEF KeepsChannels, Listed
<1>2. conv'[Root].tcp # "none"
  BY <1>1 DEF ChannelsOK, KeepsChannels
<1>3. RequestsOnOpenChannels'
  <2>1. ASSUME NEW p \in pending'
        PROVE  p.on \in Listed' /\ conv'[p.on].tcp # "none"
    <3>1. CASE p \in pending
      BY <1>1, <3>1 DEF ChannelsOK, RequestsOnOpenChannels, KeepsChannels
    <3>2. CASE p \notin pending
      BY <3>2 DEF WritesOnOpen
    <3> QED BY <3>1, <3>2
  <2> QED BY <2>1 DEF RequestsOnOpenChannels
<1>4. PoliteServer => ReadyHasChannel'
  BY <1>1 DEF ChannelsOK, ReadyHasChannel, KeepsChannels
<1> QED BY <1>2, <1>3, <1>4 DEF ChannelsOK

(* A conversation that is listed anew is ready only with a socket.         *)
LEMMA OpenedChannels ==
  ASSUME Sound, ChannelsOK, NEW v \in FreeChannels, NEW b, NEW tcp,
         b \in Buddies, tcp \in {"none", "open"},
         AppendConv(v, NewConv(b, tcp)), WritesOnOpen
  PROVE  ChannelsOK'
<1>1. /\ ConvOK /\ Listed \subseteq AllChannels
      /\ conv \in [AllChannels -> ConvRecord]
  BY SoundConvs, ConvsList DEF ConvOK, ConvTypeOK
<1>2. Listed' = Listed \cup {v}
  BY <1>1, OpenedConv DEF Opened
<1>3. v \in AllChannels /\ v \notin Listed /\ v # Root
  BY ChannelsAssumption DEF FreeChannels, AllChannels
<1>4. conv'[v] = NewConv(b, tcp) /\ \A w \in AllChannels \ {v} : conv'[w] = conv[w]
  BY <1>1, <1>3 DEF AppendConv
<1>5. conv'[Root].tcp # "none"
  BY <1>3, <1>4 DEF ChannelsOK, AllChannels
<1>6. RequestsOnOpenChannels'
  <2>1. ASSUME NEW p \in pending'
        PROVE  p.on \in Listed' /\ conv'[p.on].tcp # "none"
    <3>1. CASE p \in pending
      BY <1>1, <1>2, <1>3, <1>4, <3>1 DEF ChannelsOK, RequestsOnOpenChannels
    <3>2. CASE p \notin pending
      BY <3>2 DEF WritesOnOpen
    <3> QED BY <3>1, <3>2
  <2> QED BY <2>1 DEF RequestsOnOpenChannels
<1>7. PoliteServer => ReadyHasChannel'
  <2>1. conv'[v].ready # -1 => conv'[v].tcp # "none"
    BY <1>4 DEF NewConv
  <2> QED BY <1>1, <1>2, <1>3, <1>4, <2>1 DEF ChannelsOK, ReadyHasChannel
<1> QED BY <1>5, <1>6, <1>7 DEF ChannelsOK

(* With a conversation go the requests that were written on its channel.   *)
LEMMA DroppedChannels ==
  ASSUME Sound, ChannelsOK, NEW v, Dropped(v),
         pending' \subseteq {p \in pending : p.on # v}
  PROVE  ChannelsOK'
<1>1. /\ ConvOK /\ Listed \subseteq AllChannels
      /\ conv \in [AllChannels -> ConvRecord]
  BY SoundConvs, ConvsList DEF ConvOK, ConvTypeOK
<1>2. Listed' = Listed \ {v} /\ v # Root
  BY <1>1, DroppedConv DEF Dropped
<1>3. \A w \in AllChannels \ {v} : conv'[w] = conv[w]
  BY <1>1 DEF Dropped, DropConv
<1>4. conv'[Root].tcp # "none"
  BY <1>2, <1>3 DEF ChannelsOK, AllChannels
<1>5. RequestsOnOpenChannels'
  BY <1>1, <1>2, <1>3 DEF ChannelsOK, RequestsOnOpenChannels
<1>6. PoliteServer => ReadyHasChannel'
  BY <1>1, <1>2, <1>3 DEF ChannelsOK, ReadyHasChannel
<1> QED BY <1>4, <1>5, <1>6 DEF ChannelsOK

(* A conversation that is not ready is not heard; UserLeft comes last, and *)
(* never on the root channel.                                              *)
LEMMA PollsHear ==
  ASSUME NEW p \in Polls(at), p.msgs # <<>>
  PROVE  /\ conv[at].ready # -1
         /\ PoliteServer =>
              /\ \A i \in DOMAIN p.msgs : p.msgs[i].type = "UserLeft" => i = Len(p.msgs)
              /\ at = Root => \A i \in DOMAIN p.msgs : p.msgs[i].type # "UserLeft"
<1>1. conv[at].ready # -1
  BY DEF Polls
<1>2. p.msgs \in Batches(at)
  BY <1>1 DEF Polls
<1> DEFINE S == Replies(at) \cup Sent(at)
<1>3. ASSUME PoliteServer, at = Root, NEW m \in S
      PROVE  m.type # "UserLeft"
  <2>1. CASE m \in Replies(at)
    BY <2>1 DEF Replies, ReplyMsg
  <2>2. CASE m \in Sent(at)
    BY <1>3, <2>2 DEF Sent, SentFrom, NewsMsg
  <2> QED BY <1>3, <2>1, <2>2
<1>4. PICK n : p.msgs \in [1..n -> S]
  BY <1>2 DEF Batches, SeqOf
<1> HIDE DEF S
<1>5. \A i \in DOMAIN p.msgs : p.msgs[i] \in S
  BY <1>4
<1>6. PoliteServer /\ at = Root => \A i \in DOMAIN p.msgs : p.msgs[i].type # "UserLeft"
  BY <1>3, <1>5
<1> QED BY <1>1, <1>2, <1>6 DEF Batches

(* Taking a message off the batch; nothing is left after UserLeft.         *)
LEMMA HeardLess ==
  ASSUME Sound, LastWords, PoliteServer, batch # <<>>, batch' = Tail(batch)
  PROVE  /\ \A i \in DOMAIN batch' : batch'[i].type = "UserLeft" => i = Len(batch')
         /\ Head(batch).type = "UserLeft" => batch' = <<>> /\ at # Root
         /\ conv[at].tcp # "none"
         /\ at = Root => \A i \in DOMAIN batch' : batch'[i].type # "UserLeft"
<1>1. batch \in Seq(Message)
  BY DEF Sound, TypeOK
<1>2. /\ Len(batch) \in Nat \ {0}
      /\ DOMAIN batch = 1..Len(batch)
      /\ Head(batch) = batch[1]
  BY <1>1, EmptySeq, LenProperties
<1>3. /\ batch' \in Seq(Message)
      /\ Len(batch') = Len(batch) - 1
      /\ \A i \in 1..Len(batch') : batch'[i] = batch[i + 1]
  BY <1>1, HeadTailProperties
<1>4. DOMAIN batch' = 1..(Len(batch) - 1)
  BY <1>3, LenProperties
<1>5. \A i \in DOMAIN batch : batch[i].type = "UserLeft" => i = Len(batch)
  BY DEF LastWords
<1>6. \A i \in DOMAIN batch' : i + 1 \in DOMAIN batch /\ batch'[i] = batch[i + 1]
  BY <1>2, <1>3, <1>4
<1>7. \A i \in DOMAIN batch' : batch'[i].type = "UserLeft" => i = Len(batch')
  <2> SUFFICES ASSUME NEW i \in DOMAIN batch', batch'[i].type = "UserLeft"
               PROVE  i = Len(batch')
    OBVIOUS
  <2>1. i + 1 = Len(batch)
    BY <1>5, <1>6
  <2> QED BY <1>2, <1>3, <1>4, <2>1
<1>8. Head(batch).type = "UserLeft" => batch' = <<>>
  <2>1. ASSUME Head(batch).type = "UserLeft"
        PROVE  Len(batch') = 0
    <3>1. 1 = Len(batch)
      BY <1>2, <1>5, <2>1
    <3> QED BY <1>3, <3>1
  <2> QED BY <1>3, <2>1, EmptySeq
<1>9. at = Root =>
        /\ Head(batch).type # "UserLeft"
        /\ \A i \in DOMAIN batch' : batch'[i].type # "UserLeft"
  <2>1. at = Root => \A i \in DOMAIN batch : batch[i].type # "UserLeft"
    BY DEF LastWords
  <2>2. 1 \in DOMAIN batch
    BY <1>2
  <2> QED BY <1>2, <1>6, <2>1, <2>2
<1> QED BY <1>7, <1>8, <1>9 DEF LastWords

(* A request is written on the channel v.                                  *)
LEMMA WritingOnOpen ==
  ASSUME NEW v, v \in Listed', conv'[v].tcp # "none",
         NEW kind, NEW c, WriteRequest(kind, c, v) \/ WriteText(kind, c, v)
  PROVE  WritesOnOpen
<1>1. \A p \in pending' \ pending : p.on = v
  BY DEF WriteRequest, WriteText, Write
<1> QED BY <1>1 DEF WritesOnOpen

(* A step that leaves the list alone and writes nothing.                   *)
LEMMA QuietChannels ==
  ASSUME Sound, ChannelsOK, UNCHANGED convVars, pending' \subseteq pending
  PROVE  ChannelsOK'
<1>1. KeepsChannels /\ WritesOnOpen
  BY DEF KeepsChannels, WritesOnOpen, convVars
<1> QED BY <1>1, KeptChannels

(* The engine writes on the root channel, or on a conversation after it    *)
(* has looked at its socket.                                               *)
LEMMA WalkChannels ==
  ASSUME Sound, ChannelsOK, Walk
  PROVE  ChannelsOK'
<1>1. /\ ConvOK /\ Root \in Listed /\ Root \in AllChannels
      /\ conv \in [AllChannels -> ConvRecord]
      /\ conv[Root].tcp # "none"
  BY SoundConvs, ConvsList DEF ConvOK, ConvTypeOK, AllChannels, ChannelsOK
<1>2. ASSUME NEW v \in Listed, conv[v].tcp # "none", UNCHANGED convVars,
             NEW kind, NEW c, WriteRequest(kind, c, v) \/ WriteText(kind, c, v)
      PROVE  ChannelsOK'
  <2>1. v \in Listed' /\ conv'[v].tcp # "none" /\ KeepsChannels
    BY <1>2 DEF convVars, Listed, KeepsChannels
  <2>2. WritesOnOpen
    BY <1>2, <2>1, WritingOnOpen
  <2> QED BY <2>1, <2>2, KeptChannels
<1>3. CASE UNCHANGED convVars /\ pending' \subseteq pending
  BY <1>3, QuietChannels
<1>4. CASE SendSms
  <2>1. WriteText("SMS", Current, Root) /\ UNCHANGED convVars
    BY <1>4 DEF SendSms
  <2> QED BY <1>1, <1>2, <2>1
<1>5. CASE InviteBuddy \/ SendText
  <2> DEFINE v == ConvOf(cmd[Current].to)
  <2>1. /\ HasConv(cmd[Current].to) /\ conv[v].tcp # "none"
        /\ UNCHANGED convVars
        /\ \/ WriteRequest("INVITEBUDDY", Current, v)
           \/ WriteText("TEXT", Current, v)
    BY <1>5 DEF InviteBuddy, SendText
  <2>2. v \in Listed
    BY <2>1, ConvOfIsListed
  <2> HIDE DEF v
  <2> QED BY <1>2, <2>1, <2>2
<1>6. CASE StartChat
  <2> DEFINE c == Current
             v == CHOOSE w \in FreeChannels : TRUE
  <2>1. /\ InWalk /\ FreeChannels # {}
        /\ AppendConv(v, NewConv(cmd[c].to, "none"))
        /\ WriteRequest("STARTCHAT", c, Root)
    BY <1>6 DEF StartChat, ExecutesMsg, Executes
  <2>2. cmd[c].to \in Buddies
    BY <2>1, CurrentIsListed DEF Sound, ListInv
  <2>3. v \in FreeChannels
    BY <2>1
  <2> HIDE DEF c, v
  <2>4. Root \in Listed' /\ v # Root
    <3>1. Listed' = Listed \cup {v}
      BY <1>1, <2>1, <2>2, <2>3, OpenedConv DEF Opened
    <3> QED BY <1>1, <2>3, <3>1 DEF FreeChannels
  <2>5. conv'[Root].tcp # "none"
    BY <1>1, <2>1, <2>4 DEF AppendConv
  <2>6. WritesOnOpen
    BY <2>1, <2>4, <2>5, WritingOnOpen
  <2> QED BY <2>1, <2>2, <2>3, <2>6, OpenedChannels
<1>7. CASE Connect
  <2> DEFINE v == ConvOf(cmd[Current].to)
  <2>1. /\ HasConv(cmd[Current].to)
        /\ SetConv(v, [conv[v] EXCEPT !.tcp = "open", !.ready = 0])
        /\ WriteRequest("REGISTER", Current, v)
    BY <1>7 DEF Connect
  <2>2. v \in AllChannels /\ v \in Listed
    BY <2>1, ConvOfIsListed
  <2> HIDE DEF v
  <2>3. PICK k : k = [conv[v] EXCEPT !.tcp = "open", !.ready = 0]
    OBVIOUS
  <2>4. k.tcp = "open"
    BY <1>1, <2>2, <2>3 DEF ConvRecord
  <2>5. /\ conv'[v] = k /\ UNCHANGED convs
        /\ \A w \in AllChannels \ {v} : conv'[w] = conv[w]
    BY <1>1, <2>1, <2>2, <2>3 DEF SetConv
  <2>6. KeepsChannels
    BY <2>4, <2>5 DEF KeepsChannels
  <2>7. v \in Listed' /\ conv'[v].tcp # "none"
    BY <2>2, <2>4, <2>5 DEF Listed
  <2>8. WritesOnOpen
    BY <2>1, <2>7, WritingOnOpen
  <2> QED BY <2>6, <2>8, KeptChannels
<1>8. CASE BuddyFailed
  <2> DEFINE v == ConvOf(cmd[Current].to)
  <2>1. InWalk /\ HasConv(cmd[Current].to) /\ DropConv(v) /\ Forget(v)
    BY <1>8 DEF BuddyFailed, ExecutesMsg, Executes
  <2>2. cmd[Current].to \in Buddies
    BY <2>1, CurrentIsListed DEF Sound, ListInv
  <2>3. v \in Listed /\ conv[v].contact = cmd[Current].to
    BY <2>1, ConvOfIsListed
  <2> HIDE DEF v
  <2>4. v # Root
    BY <1>1, <2>2, <2>3, ChannelsAssumption DEF ConvOK
  <2>5. Dropped(v) /\ pending' \subseteq {p \in pending : p.on # v}
    BY <2>1, <2>3, <2>4 DEF Dropped, Forget
  <2> QED BY <2>5, DroppedChannels
<1>9. \/ SendSms \/ InviteBuddy \/ SendText \/ StartChat \/ Connect \/ BuddyFailed
      \/ UNCHANGED convVars /\ pending' \subseteq pending
  BY DEF Walk, CommandStep, RetryCommand, ReportCommand, PostponeCommand,
         ExecuteCommand, SmsAccepted, SmsRefused, SmsWaits, Dump,
         HoldMsg, ConvLost, NoCredential, ConnectFails,
         InviteRefused, InviteAccepted, UseNullChannel,
         TextAccepted, MsgWaits, Stop, serverVars
<1> QED BY <1>3, <1>4, <1>5, <1>6, <1>7, <1>8, <1>9

(* A poll marks a channel that the peer has closed, or drops it.           *)
LEMMA PollChannels ==
  ASSUME Sound, ChannelInv, Listen \/ CloseChannel
  PROVE  ChannelsOK' /\ LastWords'
<1>1. /\ ConvOK /\ at \in Listed /\ at \in AllChannels
      /\ conv \in [AllChannels -> ConvRecord] /\ ChannelsOK
  BY SoundConvs DEF ConvOK, ConvTypeOK, ChannelInv, ChannelsOK
<1>2. CASE Listen
  <2>1. PICK p \in Polls(at) :
          /\ Served(p.msgs)
          /\ SetConv(at, [conv[at] EXCEPT
                            !.tcp = IF conv[at].ready # -1 /\ p.error = 2
                                    THEN "shut" ELSE @,
                            !.timer = IF p.msgs # <<>> THEN 0 ELSE @])
          /\ batch' = p.msgs
          /\ UNCHANGED at
    BY <1>2 DEF Listen
  <2>2. PICK k : k = [conv[at] EXCEPT
                        !.tcp = IF conv[at].ready # -1 /\ p.error = 2
                                THEN "shut" ELSE @,
                        !.timer = IF p.msgs # <<>> THEN 0 ELSE @]
    OBVIOUS
  <2>3. k.ready = conv[at].ready /\ k.tcp \in {conv[at].tcp, "shut"}
    BY <1>1, <2>2 DEF ConvRecord
  <2>4. /\ conv'[at] = k /\ UNCHANGED convs
        /\ \A w \in AllChannels \ {at} : conv'[w] = conv[w]
    BY <1>1, <2>1, <2>2 DEF SetConv
  <2>5. KeepsChannels /\ WritesOnOpen
    BY <2>1, <2>3, <2>4 DEF KeepsChannels, WritesOnOpen, Served
  <2>6. ChannelsOK'
    BY <1>1, <2>5, KeptChannels
  <2>7. LastWords'
    <3>1. ASSUME PoliteServer, p.msgs # <<>>
          PROVE  LastWords'
      <4>1. /\ conv[at].ready # -1
            /\ \A i \in DOMAIN batch' : batch'[i].type = "UserLeft" => i = Len(batch')
            /\ at' = Root => \A i \in DOMAIN batch' : batch'[i].type # "UserLeft"
        BY <2>1, <3>1, PollsHear
      <4>2. conv[at].tcp # "none"
        BY <1>1, <3>1, <4>1 DEF ChannelsOK, ReadyHasChannel
      <4>3. conv'[at'].tcp # "none"
        BY <2>1, <2>3, <2>4, <4>2
      <4> QED BY <4>1, <4>3 DEF LastWords
    <3>2. CASE p.msgs = <<>>
      BY <2>1, <3>2, EmptySeq DEF LastWords
    <3>3. CASE ~PoliteServer
      BY <3>3 DEF LastWords
    <3> QED BY <3>1, <3>2, <3>3
  <2> QED BY <2>6, <2>7
<1>3. CASE CloseChannel
  <2>1. /\ at # Root /\ DropConv(at) /\ batch' = <<>>
        /\ pending' = {q \in pending : q.on # at}
    BY <1>3 DEF CloseChannel, Closes
  <2>2. ChannelsOK'
    BY <1>1, <2>1, DroppedChannels DEF Dropped
  <2>3. LastWords'
    BY <2>1, EmptySeq DEF LastWords
  <2> QED BY <2>2, <2>3
<1> QED BY <1>2, <1>3

(* A message is dispatched at a channel that is there; the last words of   *)
(* a chat are followed by nothing.                                         *)
LEMMA DispatchChannels ==
  ASSUME Sound, ChannelInv, Dispatch
  PROVE  ChannelsOK' /\ LastWords'
<1>1. /\ ConvOK /\ at \in Listed /\ at \in AllChannels
      /\ conv \in [AllChannels -> ConvRecord] /\ ChannelsOK /\ LastWords
      /\ Root \in Listed
  BY SoundConvs, ConvsList DEF ConvOK, ConvTypeOK, ChannelInv, ChannelsOK, LastWords
<1>2. ASSUME batch # <<>>, batch' = Tail(batch), UNCHANGED at,
             PoliteServer /\ conv[at].tcp # "none" => conv'[at].tcp # "none"
      PROVE  LastWords'
  <2>1. ASSUME PoliteServer
        PROVE  LastWords'
    <3>1. /\ \A i \in DOMAIN batch' : batch'[i].type = "UserLeft" => i = Len(batch')
          /\ conv'[at'].tcp # "none"
          /\ at' = Root => \A i \in DOMAIN batch' : batch'[i].type # "UserLeft"
      BY <1>1, <1>2, <2>1, HeardLess
    <3> QED BY <3>1 DEF LastWords
  <2>2. CASE ~PoliteServer
    BY <2>2 DEF LastWords
  <2> QED BY <2>1, <2>2
<1>3. CASE GotReply \/ GotMessage \/ IgnoreInvitation
  <2>1. /\ batch # <<>> /\ batch' = Tail(batch)
        /\ UNCHANGED <<at, convVars, pending>>
    BY <1>3 DEF GotReply, GotMessage, IgnoreInvitation, Dispatching,
                NextMessage, serverVars
  <2>2. LastWords'
    BY <1>2, <2>1 DEF convVars
  <2> QED BY <1>1, <2>1, <2>2, QuietChannels
<1>4. CASE GotUserEntered \/ GotUserFailed
  <2>1. /\ batch # <<>> /\ batch' = Tail(batch) /\ UNCHANGED <<at, pending>>
    BY <1>4 DEF GotUserEntered, GotUserFailed, Dispatching, NextMessage,
                serverVars
  <2>2. PICK r \in {-1, 1} : SetConv(at, [conv[at] EXCEPT !.ready = r])
    BY <1>4 DEF GotUserEntered, GotUserFailed
  <2>3. PICK k : k = [conv[at] EXCEPT !.ready = r]
    OBVIOUS
  <2>4. k.tcp = conv[at].tcp
    BY <1>1, <2>3 DEF ConvRecord
  <2>5. /\ conv'[at] = k /\ UNCHANGED convs
        /\ \A w \in AllChannels \ {at} : conv'[w] = conv[w]
    BY <1>1, <2>2, <2>3 DEF SetConv
  <2>6. PoliteServer => conv'[at].tcp # "none"
    BY <1>1, <2>1, <2>4, <2>5 DEF LastWords
  <2>7. KeepsChannels /\ WritesOnOpen
    BY <2>1, <2>4, <2>5, <2>6 DEF KeepsChannels, WritesOnOpen
  <2> QED BY <1>1, <1>2, <2>1, <2>6, <2>7, KeptChannels
<1>5. CASE GotInvitation
  <2> DEFINE v == CHOOSE w \in FreeChannels : TRUE
  <2>1. /\ batch # <<>> /\ batch' = Tail(batch) /\ UNCHANGED at
        /\ FreeChannels # {} /\ Head(batch).from \in Buddies
        /\ AppendConv(v, NewConv(Head(batch).from, "open"))
        /\ WriteRequest("REGISTER", NoCommand, v)
    BY <1>5 DEF GotInvitation, Dispatching, NextMessage
  <2>2. v \in FreeChannels
    BY <2>1
  <2> HIDE DEF v
  <2>3. v \in Listed'
    <3>1. Listed' = Listed \cup {v}
      BY <1>1, <2>1, <2>2, OpenedConv DEF Opened
    <3> QED BY <3>1
  <2>4. v \in AllChannels /\ v # at
    BY <1>1, <2>2 DEF FreeChannels, AllChannels
  <2>5. conv'[v].tcp = "open" /\ conv'[at] = conv[at]
    BY <1>1, <2>1, <2>4 DEF AppendConv, NewConv
  <2>6. WritesOnOpen
    BY <2>1, <2>3, <2>5, WritingOnOpen
  <2>7. ChannelsOK'
    BY <1>1, <2>1, <2>2, <2>6, OpenedChannels
  <2> QED BY <1>2, <2>1, <2>5, <2>7
<1>6. CASE GotUserLeft
  <2>1. /\ batch # <<>> /\ batch' = Tail(batch)
        /\ Head(batch).type = "UserLeft"
        /\ at # Root /\ DropConv(at) /\ Forget(at)
    BY <1>6 DEF GotUserLeft, Dispatching, NextMessage
  <2>2. pending' \subseteq {p \in pending : p.on # at}
    BY <2>1 DEF Forget
  <2>3. ChannelsOK'
    BY <1>1, <2>1, <2>2, DroppedChannels DEF Dropped
  <2>4. PoliteServer => batch' = <<>>
    BY <1>1, <2>1, HeardLess
  <2>5. LastWords'
    BY <2>4, EmptySeq DEF LastWords
  <2> QED BY <2>3, <2>5
<1>7. CASE BadInvitation \/ RootLeft \/ GotDeregistration \/ DispatchNullChannel
  <2>1. UNCHANGED <<pending, convVars, loopVars>>
    BY <1>7 DEF BadInvitation, RootLeft, GotDeregistration, DispatchNullChannel,
                Stop, serverVars
  <2> QED BY <1>1, <2>1, QuietChannels DEF LastWords, loopVars, convVars
<1> QED BY <1>3, <1>4, <1>5, <1>6, <1>7 DEF Dispatch

LEMMA ChannelStep ==
  ASSUME Sound, ChannelInv, [Next]_vars
  PROVE  ChannelsOK' /\ LastWords'
<1>1. /\ Root \in Listed /\ ChannelsOK /\ LastWords
      /\ conv \in [AllChannels -> ConvRecord]
  BY SoundConvs, ConvsList
     DEF ConvOK, ConvTypeOK, ChannelInv, ChannelsOK, LastWords
<1>2. ASSUME ChannelsOK', UNCHANGED <<batch, at>>, at = Root
      PROVE  LastWords'
  BY <1>1, <1>2 DEF LastWords, ChannelsOK
<1>3. CASE Walk
  <2>1. UNCHANGED <<batch, at>>
    BY <1>3 DEF Walk, loopVars
  <2>2. at = Root
    <3>1. pc = "commands"
      BY <1>3 DEF Walk, CommandStep, RetryCommand, ReportCommand,
           PostponeCommand, ExecuteCommand, SendSms, SmsAccepted, SmsRefused,
           SmsWaits, Dump, HoldMsg, ConvLost, StartChat, NoCredential, Connect,
           ConnectFails, InviteBuddy, InviteRefused, InviteAccepted, SendText,
           BuddyFailed, UseNullChannel, TextAccepted, MsgWaits, ExecutesMsg,
           Executes, InWalk
    <3> QED BY <3>1 DEF Sound, ListInv
  <2>3. ChannelsOK'
    BY <1>1, <1>3, WalkChannels
  <2> QED BY <1>2, <2>1, <2>2, <2>3
<1>4. CASE Dispatch
  BY <1>4, DispatchChannels
<1>5. CASE Listen \/ CloseChannel
  BY <1>5, PollChannels
<1>6. CASE KeepAlive
  <2>1. /\ UNCHANGED <<batch, at, convVars>> /\ at = Root
        /\ \/ WriteRequest("REGISTER", NoCommand, Root)
           \/ UNCHANGED pending
    BY <1>6 DEF KeepAlive, serverVars, Sound, ListInv
  <2>2. KeepsChannels /\ Root \in Listed' /\ conv'[Root].tcp # "none"
    BY <1>1, <2>1 DEF KeepsChannels, convVars, Listed, ChannelsOK
  <2>3. WritesOnOpen
    <3>1. CASE UNCHANGED pending
      BY <3>1 DEF WritesOnOpen
    <3> QED BY <2>1, <2>2, <3>1, WritingOnOpen
  <2>4. ChannelsOK'
    BY <1>1, <2>2, <2>3, KeptChannels
  <2> QED BY <1>2, <2>1, <2>4
<1>7. CASE Tick
  <2>1. /\ UNCHANGED <<batch, at, convs, pending>> /\ at = Root
        /\ conv' = [v \in AllChannels |->
                      IF v \in Listed \ {Root}
                      THEN [conv[v] EXCEPT !.timer = Older(@, ChannelMaxTime)]
                      ELSE conv[v]]
    BY <1>7 DEF Tick, loopVars, serverVars, Sound, ListInv
  <2>2. \A v \in AllChannels :
          conv'[v].tcp = conv[v].tcp /\ conv'[v].ready = conv[v].ready
    <3>1. \A v \in AllChannels : \A t :
            /\ [conv[v] EXCEPT !.timer = t].tcp = conv[v].tcp
            /\ [conv[v] EXCEPT !.timer = t].ready = conv[v].ready
      BY <1>1 DEF ConvRecord
    <3> QED BY <2>1, <3>1
  <2>3. KeepsChannels /\ WritesOnOpen
    BY <2>1, <2>2 DEF KeepsChannels, WritesOnOpen
  <2>4. ChannelsOK'
    BY <1>1, <2>3, KeptChannels
  <2> QED BY <1>2, <2>1, <2>4
<1>8. CASE NextChannel
  <2>1. batch' = <<>> /\ UNCHANGED <<convVars, pending>>
    BY <1>8 DEF NextChannel, serverVars
  <2>2. LastWords'
    BY <2>1, EmptySeq DEF LastWords
  <2> QED BY <1>1, <2>1, <2>2, QuietChannels
<1>9. CASE \/ ArrangeCommand \/ ListenNullChannel \/ Exit \/ Sleep
           \/ LoopAgain \/ Halted \/ UNCHANGED vars
  <2>1. UNCHANGED <<pending, convVars, batch, at>>
    BY <1>9 DEF ArrangeCommand, ListenNullChannel, Exit, Sleep, LoopAgain,
                Halted, Stop, serverVars, loopVars, vars
  <2>2. LastWords'
    BY <1>1, <2>1 DEF LastWords, convVars
  <2> QED BY <1>1, <2>1, <2>2, QuietChannels
<1> QED
  BY <1>3, <1>4, <1>5, <1>6, <1>7, <1>8, <1>9 DEF Next, Loop

(* The root channel ends with a UserLeft on it and nothing else.           *)
LEMMA RootStays ==
  ASSUME Sound, ChannelInv, PoliteServer, [Next]_vars
  PROVE  RootNeverDestroyed'
<1>1. RootNeverDestroyed /\ LastWords
  BY DEF ChannelInv, LastWords
<1>2. ~RootLeft
  <2>1. ASSUME RootLeft
        PROVE  FALSE
    <3>1. at = Root /\ batch # <<>> /\ Head(batch).type = "UserLeft"
      BY <2>1 DEF RootLeft, Dispatching
    <3>2. batch \in Seq(Message)
      BY DEF Sound, TypeOK
    <3>3. 1 \in DOMAIN batch /\ Head(batch) = batch[1]
      BY <3>1, <3>2, EmptySeq, LenProperties
    <3> QED BY <1>1, <3>1, <3>3 DEF LastWords
  <2> QED BY <2>1
<1>3. UNCHANGED mode => RootNeverDestroyed'
  BY <1>1 DEF RootNeverDestroyed
<1>4. CASE Walk
  <2>1. \/ UNCHANGED mode
        \/ mode' \in {"no credential", "null channel"}
    BY <1>4 DEF Walk, CommandStep, RetryCommand, ReportCommand,
         PostponeCommand, ExecuteCommand, SendSms, SmsAccepted, SmsRefused,
         SmsWaits, Dump, HoldMsg, ConvLost, StartChat, NoCredential, Connect,
         ConnectFails, InviteBuddy, InviteRefused, InviteAccepted, SendText,
         BuddyFailed, UseNullChannel, TextAccepted, MsgWaits, ExecutesMsg,
         Executed, Succeeded, Stop
  <2> QED BY <1>3, <2>1 DEF RootNeverDestroyed
<1>5. CASE Dispatch
  <2>1. \/ UNCHANGED mode
        \/ mode' \in {"null conversation", "exited", "null channel"}
    BY <1>2, <1>5
       DEF Dispatch, GotReply, GotMessage, GotInvitation, IgnoreInvitation,
           BadInvitation, GotUserLeft, GotUserEntered, GotUserFailed,
           GotDeregistration, DispatchNullChannel, NextMessage, Stop
  <2> QED BY <1>3, <2>1 DEF RootNeverDestroyed
<1>6. CASE \/ Listen \/ CloseChannel \/ ListenNullChannel \/ NextChannel
            \/ KeepAlive \/ Sleep \/ LoopAgain \/ ArrangeCommand \/ Exit
            \/ Tick \/ Halted \/ UNCHANGED vars
  <2>1. UNCHANGED mode \/ mode' \in {"null channel", "exited"}
    BY <1>6 DEF Listen, CloseChannel, ListenNullChannel, NextChannel,
         KeepAlive, Sleep, LoopAgain, ArrangeCommand, Exit, Tick, Halted,
         Stop, vars
  <2> QED BY <1>3, <2>1 DEF RootNeverDestroyed
<1> QED BY <1>4, <1>5, <1>6 DEF Next, Loop

LEMMA ChannelInvStep ==
  ASSUME Sound, ChannelInv, [Next]_vars
  PROVE  ChannelInv'
BY ChannelStep, RootStays DEF ChannelInv, ChannelsOK, LastWords

LEMMA ChannelInit ==
  ASSUME Init
  PROVE  ChannelInv
<1>1. /\ convs = <<Root>> /\ batch = <<>> /\ pending = {}
      /\ conv = [v \in AllChannels |-> NewConv(NoBuddy, "open")]
  BY DEF Init, ConvInit, CommandInit
<1>2. \A v \in AllChannels : conv[v].tcp = "open"
  BY <1>1 DEF NewConv
<1>3. Listed \subseteq AllChannels
  BY <1>1 DEF Listed, AllChannels
<1> QED
  BY <1>1, <1>2, <1>3, EmptySeq
     DEF Init, ChannelInv, RequestsOnOpenChannels, ReadyHasChannel,
         RootNeverDestroyed, AllChannels

(* The channel invariant holds of the daemon, whatever the server does.    *)
THEOREM ChannelAlways == Spec => []ChannelInv
<1>1. Init => ChannelInv
  BY ChannelInit
<1>2. Sound /\ ChannelInv /\ [Next]_vars => ChannelInv'
  BY ChannelInvStep
<1> QED BY <1>1, <1>2, SoundAlways, PTL DEF Spec

(* Wherever the loop and the engine free a conversation, the requests that *)
(* were written on its socket go with it: no reply comes in on the socket  *)
(* of another conversation.                                                *)
THEOREM RequestsAnswerable == Spec => []RequestsOnOpenChannels
<1>1. ChannelInv => RequestsOnOpenChannels
  BY DEF ChannelInv
<1> QED BY <1>1, ChannelAlways, PTL

(* A conversation that is polled or written to has a channel, with a       *)
(* server that says nothing after UserLeft; without that assumption what   *)
(* follows is dispatched at the conversation before, which may have none.  *)
THEOREM ReadyChannels == Spec => [](PoliteServer => ReadyHasChannel)
<1>1. ChannelInv => (PoliteServer => ReadyHasChannel)
  BY DEF ChannelInv
<1> QED BY <1>1, ChannelAlways, PTL

(* cliLOF.c:29 says that the root channel is never destroyed.  That is so  *)
(* with a server that never says UserLeft on it; it is the only way.       *)
THEOREM RootKept == Spec => [](PoliteServer => RootNeverDestroyed)
<1>1. ChannelInv => (PoliteServer => RootNeverDestroyed)
  BY DEF ChannelInv
<1> QED BY <1>1, ChannelAlways, PTL
===============================================================================
