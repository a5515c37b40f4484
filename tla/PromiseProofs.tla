---------------------------- MODULE PromiseProofs ----------------------------
(***************************************************************************)
(* Proofs that a command is done only if the server accepted its text, and *)
(* that the daemon implements CommandLifecycle.                            *)
(***************************************************************************)
EXTENDS DeliveryProofs

(* The part of AcceptInv about the server and what it has said.            *)
ServerTruthful ==
  /\ \A c \in accepted : sends[c] > 0
  /\ \A p \in pending : p.kind \in TextKinds => sends[p.by] > 0
  /\ \A r \in Heard : Truthful(r)

(* The part of AcceptInv about the command c.                              *)
OwnMessages(c) ==
  \A r \in pending \cup Heard :
    r.by = c =>
      /\ outcome[c] # "unused"
      /\ OnlyTexts(c) => r.kind = "SMS"
      /\ outcome[c] = "listed" /\ cmd[c].instr = "MSG"
           /\ cmd[c].progress = 5 /\ r.callid = cmd[c].callid
           => r.kind = "TEXT"

OwnReply(c) ==
  outcome[c] = "listed" /\ Answered(c) =>
    /\ Truthful(cmd[c].back)
    /\ OnlyTexts(c) => cmd[c].back.kind = "SMS"
    /\ cmd[c].instr = "MSG" /\ cmd[c].progress = 5
         => cmd[c].back.kind = "TEXT"

OwnSuccess(c) ==
  /\ outcome[c] = "listed" /\ cmd[c].instr # "DUMP" /\ cmd[c].status = "SUCCESS"
       => c \in accepted
  /\ outcome[c] = "done" /\ sends[c] > 0 => c \in accepted

AcceptOK(c) == OwnMessages(c) /\ OwnReply(c) /\ OwnSuccess(c)

LEMMA AcceptParts ==
  AcceptInv <=> ServerTruthful /\ \A c \in CommandIds : AcceptOK(c)
<1>1. DoneMeansAccepted <=> \A c \in CommandIds : OwnSuccess(c)
  BY DEF DoneMeansAccepted, OwnSuccess
<1>2. (\A c \in ListedCommands : Answered(c) =>
         /\ Truthful(cmd[c].back)
         /\ OnlyTexts(c) => cmd[c].back.kind = "SMS"
         /\ cmd[c].instr = "MSG" /\ cmd[c].progress = 5
              => cmd[c].back.kind = "TEXT")
      <=> \A c \in CommandIds : OwnReply(c)
  BY DEF OwnReply, ListedCommands
<1>3. (\A c \in CommandIds : \A r \in pending \cup Heard :
         r.by = c =>
           /\ outcome[c] # "unused"
           /\ OnlyTexts(c) => r.kind = "SMS"
           /\ outcome[c] = "listed" /\ cmd[c].instr = "MSG"
                /\ cmd[c].progress = 5 /\ r.callid = cmd[c].callid
                => r.kind = "TEXT")
      <=> \A c \in CommandIds : OwnMessages(c)
  BY DEF OwnMessages
<1> QED BY <1>1, <1>2, <1>3, Zenon DEF AcceptInv, ServerTruthful, AcceptOK

LEMMA ServerTruthfulStep ==
  ASSUME ServerTruthful, Sound, Effect
  PROVE  ServerTruthful'
<1>1. /\ sends \in [CommandIds -> Nat]
      /\ accepted \subseteq CommandIds
      /\ \A p \in pending : p.kind \in TextKinds => p.by \in CommandIds
  BY TypesOfCommands DEF Sound, ListInv
<1>2. ASSUME UNCHANGED <<sends, accepted>>, pending' \subseteq pending,
             Heard' \subseteq Heard
      PROVE  ServerTruthful'
  BY <1>2 DEF ServerTruthful, Truthful
<1>3. CASE Untouched
  BY <1>2, <1>3 DEF Untouched
<1>4. CASE Attached \/ Acted \/ Retried \/ Reported \/ Arranged \/ Aged
  <2>1. UNCHANGED <<sends, accepted>> /\ pending' \subseteq pending
          /\ Heard' \subseteq Heard
    BY <1>4 DEF Attached, Acted, Retried, Reported, Arranged, Aged, Changes,
                serverVars, Heard
  <2> QED BY <1>2, <2>1
<1>5. CASE Polled
  <2>1. ASSUME NEW c \in accepted'
        PROVE  sends'[c] > 0
    <3>1. CASE c \in accepted
      BY <1>5, <3>1 DEF Polled, ServerTruthful
    <3>2. CASE c \notin accepted
      <4>1. PICK p \in pending : p.kind \in TextKinds /\ p.by = c
        BY <1>5, <2>1, <3>2 DEF Polled
      <4> QED BY <1>5, <4>1 DEF Polled, ServerTruthful
    <3> QED BY <3>1, <3>2
  <2>2. \A p \in pending' : p.kind \in TextKinds => sends'[p.by] > 0
    BY <1>5 DEF Polled, ServerTruthful
  <2>3. \A r \in Heard' : r.ok /\ r.kind \in TextKinds => r.by \in accepted'
    BY <1>5 DEF Polled
  <2> QED BY <2>1, <2>2, <2>3 DEF ServerTruthful, Truthful
<1>6. ASSUME NEW kind, kind \notin TextKinds, NEW by, NEW v,
             WriteRequest(kind, by, v), Heard' \subseteq Heard
      PROVE  ServerTruthful'
  <2>1. \A r \in pending' : r \in pending \/ r.kind = kind
    BY <1>6, Written DEF WriteRequest
  <2>2. UNCHANGED <<sends, accepted>>
    BY <1>6 DEF WriteRequest
  <2> QED BY <1>6, <2>1, <2>2 DEF ServerTruthful, Truthful
<1>7. CASE Asked
  <2>1. PICK v \in AllChannels : WriteRequest("REGISTER", NoCommand, v)
    BY <1>7 DEF Asked
  <2>2. "REGISTER" \notin TextKinds
    BY DEF TextKinds
  <2> QED BY <1>6, <1>7, <2>1, <2>2 DEF Asked
<1>8. CASE Requested
  <2>1. PICK c \in CommandIds, v \in AllChannels, kind \in RequestKinds \ TextKinds :
          WriteRequest(kind, c, v) /\ UNCHANGED batch
    BY <1>8 DEF Requested, Changes
  <2> QED BY <1>6, <2>1 DEF Heard
<1>9. CASE Texted
  <2>1. PICK c \in CommandIds, v \in AllChannels, kind \in TextKinds :
          WriteText(kind, c, v) /\ UNCHANGED batch
    BY <1>9 DEF Texted, Changes
  <2>2. \A r \in pending' : r \in pending \/ r.by = c
    <3>1. Write(kind, c, v) /\ Heard' \subseteq Heard
      BY <2>1 DEF WriteText, Heard
    <3> QED BY <3>1, Written
  <2>3. /\ sends'[c] > 0
        /\ \A d \in CommandIds : sends[d] > 0 => sends'[d] > 0
        /\ UNCHANGED accepted
    BY <1>1, <2>1 DEF WriteText
  <2>4. \A r \in pending' : r.kind \in TextKinds => sends'[r.by] > 0
    BY <1>1, <2>2, <2>3 DEF ServerTruthful
  <2>5. \A d \in accepted' : sends'[d] > 0
    BY <1>1, <2>3 DEF ServerTruthful
  <2>6. \A r \in Heard' : r.ok /\ r.kind \in TextKinds => r.by \in accepted'
    BY <2>1, <2>3 DEF ServerTruthful, Truthful, Heard
  <2> QED BY <2>4, <2>5, <2>6 DEF ServerTruthful, Truthful
<1> QED
  BY <1>3, <1>4, <1>5, <1>7, <1>8, <1>9 DEF Effect

(* What is said about the command d was said before.                       *)
NothingNew(d) ==
  \A r \in pending' \cup Heard' : r.by = d =>
    \E q \in pending \cup Heard :
      q.by = d /\ q.kind = r.kind /\ q.callid = r.callid

(* A step that leaves a command where it was, or moves it back.            *)
LEMMA Carried ==
  ASSUME NEW d \in CommandIds, AcceptOK(d), NothingNew(d),
         accepted \subseteq accepted',
         outcome'[d] = outcome[d], sends'[d] = sends[d],
         cmd'[d].instr = cmd[d].instr,
         cmd'[d].progress = 5 =>
           cmd[d].progress = 5 /\ cmd'[d].callid = cmd[d].callid,
         cmd'[d].back \in {cmd[d].back, NoReply},
         cmd'[d].status = "SUCCESS" =>
           \/ cmd[d].status = "SUCCESS"
           \/ cmd[d].instr = "DUMP"
           \/ d \in accepted'
  PROVE  AcceptOK(d)'
<1>1. OwnMessages(d)'
  <2>1. ASSUME NEW r \in pending' \cup Heard', r.by = d
        PROVE  /\ outcome'[d] # "unused"
               /\ outcome'[d] = "listed" /\ cmd'[d].instr = "SMS" => r.kind = "SMS"
               /\ outcome'[d] = "listed" /\ cmd'[d].instr = "MSG"
                    /\ cmd'[d].progress = 5 /\ r.callid = cmd'[d].callid
                    => r.kind = "TEXT"
    <3>1. PICK q \in pending \cup Heard :
            q.by = d /\ q.kind = r.kind /\ q.callid = r.callid
      BY <2>1 DEF NothingNew
    <3> QED BY <3>1 DEF AcceptOK, OwnMessages, OnlyTexts
  <2> QED BY <2>1 DEF OwnMessages, OnlyTexts
<1>2. OwnReply(d)'
  <2>1. OwnReply(d)
    BY DEF AcceptOK
  <2> QED BY <2>1 DEF OwnReply, Answered, Truthful, OnlyTexts
<1>3. OwnSuccess(d)'
  <2>1. OwnSuccess(d)
    BY DEF AcceptOK
  <2> QED BY <2>1 DEF OwnSuccess
<1> QED BY <1>1, <1>2, <1>3 DEF AcceptOK

LEMMA AcceptStep ==
  ASSUME AcceptInv, RouteInv, TryInv, Sound, Effect
  PROVE  AcceptInv'
<1>1. /\ cmd \in [CommandIds -> Command]
      /\ outcome \in [CommandIds -> {"unused", "listed", "done", "failed"}]
      /\ sends \in [CommandIds -> Nat]
      /\ ListedCommands \subseteq CommandIds
  BY TypesOfCommands
<1>2. ServerTruthful /\ \A c \in CommandIds : AcceptOK(c)
  BY AcceptParts
<1>3. ServerTruthful'
  BY <1>2, ServerTruthfulStep
<1>p. (AcceptInv <=> ServerTruthful /\ \A c \in CommandIds : AcceptOK(c))'
  BY AcceptParts, PTL
<1>4. SUFFICES ASSUME NEW d \in CommandIds
               PROVE  AcceptOK(d)'
  BY <1>3, <1>p
<1>5. AcceptOK(d) /\ \A c \in CommandIds : Answered(c) => cmd[c].back.by = c
  BY <1>2 DEF RouteInv
<1>6. ASSUME pending' \subseteq pending, Heard' \subseteq Heard
      PROVE  NothingNew(d)
  BY <1>6 DEF NothingNew
<1>7. ASSUME NothingNew(d), accepted \subseteq accepted', cmd'[d] = cmd[d],
             outcome'[d] = outcome[d], sends'[d] = sends[d]
      PROVE  AcceptOK(d)'
  BY <1>5, <1>7, Carried
<1>8. CASE Untouched
  BY <1>6, <1>7, <1>8 DEF Untouched, KeepsCommands
<1>9. CASE Polled
  <2>1. NothingNew(d)
    BY <1>9 DEF Polled, NothingNew
  <2> QED BY <1>7, <1>9, <2>1 DEF Polled, KeepsCommands
<1>10. CASE Asked
  <2>1. PICK v \in AllChannels : WriteRequest("REGISTER", NoCommand, v)
    BY <1>10 DEF Asked
  <2>2. Write("REGISTER", NoCommand, v) /\ Heard' \subseteq Heard
    BY <1>10, <2>1 DEF Asked, WriteRequest
  <2>3. NothingNew(d)
    BY <2>2, Written, CommandsAssumption DEF NothingNew
  <2> QED BY <1>7, <1>10, <2>1, <2>3 DEF Asked, KeepsCommands, WriteRequest
<1>11. CASE Attached
  <2>1. PICK r \in Heard : Attach(r)
    BY <1>11 DEF Attached
  <2>2. r \in Reply
    BY HeardReplies
  <2>3. /\ UNCHANGED <<outcome, sends, accepted, pending>>
        /\ Heard' \subseteq Heard
    BY <1>11, <2>1 DEF Attached, Attach, serverVars
  <2>4. NothingNew(d)
    BY <1>6, <2>3
  <2>5. CASE cmd' = cmd
    BY <1>7, <2>3, <2>4, <2>5
  <2>6. ASSUME NEW c \in ListedCommands, cmd[c].callid = r.callid,
               cmd' = [cmd EXCEPT ![c].back = r]
        PROVE  AcceptOK(d)'
    <3>1. CASE c # d
      <4>1. cmd'[d] = cmd[d]
        BY <1>1, <2>6, <3>1
      <4> QED BY <1>7, <2>3, <2>4, <4>1
    <3>2. CASE c = d
      <4>1. /\ cmd'[d].instr = cmd[d].instr
            /\ cmd'[d].progress = cmd[d].progress
            /\ cmd'[d].callid = cmd[d].callid
            /\ cmd'[d].status = cmd[d].status
            /\ cmd'[d].back = r
        BY <1>1, <2>6, <3>2 DEF Command
      <4>2. r.by = d
        BY <1>1, <2>6, <3>2 DEF RouteInv
      <4>3. Truthful(r) /\ r.callid = cmd[d].callid
        BY <1>2, <2>6, <3>2 DEF ServerTruthful
      <4>4. OwnMessages(d)'
        BY <1>5, <2>3, <4>1 DEF AcceptOK, OwnMessages, OnlyTexts
      <4>5. OwnReply(d)'
        <5>1. /\ OnlyTexts(d) => r.kind = "SMS"
              /\ outcome[d] = "listed" /\ cmd[d].instr = "MSG"
                   /\ cmd[d].progress = 5 => r.kind = "TEXT"
          BY <1>5, <4>2, <4>3 DEF AcceptOK, OwnMessages
        <5> QED BY <2>3, <4>1, <4>3, <5>1
                DEF OwnReply, Answered, Truthful, OnlyTexts
      <4>6. OwnSuccess(d)'
        BY <1>5, <2>3, <4>1 DEF AcceptOK, OwnSuccess
      <4> QED BY <4>4, <4>5, <4>6 DEF AcceptOK
    <3> QED BY <3>1, <3>2
  <2> QED BY <2>1, <2>2, <2>5, <2>6, AttachedTo
<1>12. CASE Acted
  <2>1. PICK c \in CommandIds, k \in Command :
          /\ Changes(c, k)
          /\ k.callid = cmd[c].callid
          /\ k.progress = 5 => cmd[c].progress = 5
          /\ k.status = "SUCCESS" => TextAnswered(c)
    BY <1>12 DEF Acted
  <2>2. UNCHANGED <<outcome, sends, accepted>> /\ NothingNew(d)
    BY <1>6, <1>12, <2>1 DEF Acted, Changes, Heard
  <2>3. CASE c # d
    <3>1. cmd'[d] = cmd[d]
      BY <1>1, <2>1, <2>3 DEF Changes
    <3> QED BY <1>7, <2>2, <3>1
  <2>4. CASE c = d
    <3>1. cmd'[d] = k /\ k.instr = cmd[d].instr /\ k.back \in {cmd[d].back, NoReply}
            /\ outcome[d] = "listed"
      BY <1>1, <2>1, <2>4 DEF Changes, ListedCommands
    <3>2. k.status = "SUCCESS" => cmd[d].instr = "DUMP" \/ d \in accepted'
      <4>1. SUFFICES ASSUME k.status = "SUCCESS", cmd[d].instr # "DUMP"
                     PROVE  d \in accepted
        BY <2>2
      <4>2. /\ Answered(d) /\ cmd[d].back.ok
            /\ cmd[d].instr = "MSG" => cmd[d].progress = 5
        BY <2>1, <2>4, <4>1 DEF TextAnswered
      <4>3. cmd[d].instr \in {"MSG", "SMS"}
        BY <1>1, <4>1 DEF Command, Instructions
      <4>4. cmd[d].back.kind \in TextKinds
        BY <1>5, <3>1, <4>2, <4>3 DEF AcceptOK, OwnReply, OnlyTexts, TextKinds
      <4>5. cmd[d].back.by = d
        BY <1>5, <4>2
      <4> QED BY <1>5, <3>1, <4>2, <4>4, <4>5 DEF AcceptOK, OwnReply, Truthful
    <3> QED BY <1>5, <2>1, <2>2, <2>4, <3>1, <3>2, Carried
  <2> QED BY <2>3, <2>4
<1>13. CASE Requested
  <2>1. PICK c \in CommandIds, k \in Command, v \in AllChannels,
             kind \in RequestKinds \ TextKinds :
          /\ Changes(c, k)
          /\ k.instr = "MSG" /\ k.progress \in 1..3
          /\ k.status # "SUCCESS"
          /\ WriteRequest(kind, c, v)
    BY <1>13 DEF Requested
  <2>2. Write(kind, c, v) /\ Heard' = Heard /\ UNCHANGED <<outcome, sends, accepted>>
    BY <2>1 DEF WriteRequest, Changes, Heard
  <2>3. CASE c # d
    <3>1. cmd'[d] = cmd[d]
      BY <1>1, <2>1, <2>3 DEF Changes
    <3>2. NothingNew(d)
      BY <2>2, <2>3, Written DEF NothingNew
    <3> QED BY <1>7, <2>2, <3>1, <3>2
  <2>4. CASE c = d
    <3>1. /\ cmd'[d] = k /\ k.back \in {cmd[d].back, NoReply}
          /\ cmd[d].instr = "MSG" /\ outcome'[d] = "listed" /\ outcome[d] = "listed"
      BY <1>1, <2>1, <2>4 DEF Changes, ListedCommands
    <3>2. k.instr = "MSG" /\ k.progress # 5 /\ k.status # "SUCCESS"
      BY <2>1
    <3>3. OwnMessages(d)' /\ OwnSuccess(d)'
      BY <3>1, <3>2 DEF OwnMessages, OwnSuccess, OnlyTexts
    <3>4. OwnReply(d)'
      BY <1>5, <2>2, <3>1, <3>2
         DEF AcceptOK, OwnReply, Answered, Truthful, OnlyTexts
    <3> QED BY <3>3, <3>4 DEF AcceptOK
  <2> QED BY <2>3, <2>4
<1>14. CASE Texted
  <2>1. PICK c \in CommandIds, k \in Command, v \in AllChannels, kind \in TextKinds :
          /\ Changes(c, k)
          /\ k.instr # "DUMP" /\ k.status # "SUCCESS"
          /\ k.callid = callid
          /\ k.instr = "SMS" => kind = "SMS"
          /\ k.instr = "MSG" => kind = "TEXT" /\ k.back = NoReply
          /\ WriteText(kind, c, v)
    BY <1>14 DEF Texted
  <2>2. Write(kind, c, v) /\ Heard' = Heard /\ UNCHANGED <<outcome, accepted>>
    BY <2>1 DEF WriteText, Changes, Heard
  <2>3. CASE c # d
    <3>1. cmd'[d] = cmd[d] /\ sends'[d] = sends[d]
      BY <1>1, <2>1, <2>3 DEF Changes, WriteText
    <3>2. NothingNew(d)
      BY <2>2, <2>3, Written DEF NothingNew
    <3> QED BY <1>7, <2>2, <3>1, <3>2
  <2>4. CASE c = d
    <3>1. /\ cmd'[d] = k /\ k.back \in {cmd[d].back, NoReply}
          /\ k.instr = cmd[d].instr /\ outcome'[d] = "listed" /\ outcome[d] = "listed"
      BY <1>1, <2>1, <2>4 DEF Changes, ListedCommands
    <3>2. OwnSuccess(d)'
      BY <2>1, <3>1 DEF OwnSuccess
    <3>3. OwnReply(d)'
      BY <1>5, <2>1, <2>2, <3>1
         DEF AcceptOK, OwnReply, Answered, Truthful, OnlyTexts
    <3>4. OwnMessages(d)'
      <4>1. ASSUME NEW r \in pending' \cup Heard', r.by = d
            PROVE  /\ k.instr = "SMS" => r.kind = "SMS"
                   /\ k.instr = "MSG" /\ r.callid = k.callid => r.kind = "TEXT"
        <5>1. CASE r \in pending \cup Heard
          <6>1. r.callid \in 1..(callid - 1) /\ callid \in Nat
            BY <5>1, TypesOfCommands DEF RouteInv
          <6>2. r.callid # callid
            BY <6>1
          <6> QED BY <1>5, <2>1, <3>1, <4>1, <5>1, <6>2
                  DEF AcceptOK, OwnMessages, OnlyTexts
        <5>2. CASE r.kind = kind
          BY <2>1, <5>2
        <5> QED BY <2>2, <5>1, <5>2, Written
      <4> QED BY <3>1, <4>1 DEF OwnMessages, OnlyTexts
    <3> QED BY <3>2, <3>3, <3>4 DEF AcceptOK
  <2> QED BY <2>3, <2>4
<1>15. CASE Retried
  <2>1. PICK c \in ListedCommands :
          cmd' = [cmd EXCEPT ![c] = [@ EXCEPT !.retry = 1,
                    !.status = "NOT_HANDLED", !.progress = 0, !.timer = 0]]
    BY <1>15 DEF Retried
  <2>2. UNCHANGED <<outcome, sends, accepted, pending>> /\ Heard' = Heard
    BY <1>15 DEF Retried, serverVars, Heard
  <2>3. NothingNew(d)
    BY <1>6, <2>2
  <2>4. /\ cmd'[d].instr = cmd[d].instr /\ cmd'[d].back = cmd[d].back
        /\ cmd'[d].callid = cmd[d].callid
        /\ cmd'[d].progress = 5 => cmd[d].progress = 5
        /\ cmd'[d].status = "SUCCESS" => cmd[d].status = "SUCCESS"
    BY <1>1, <2>1 DEF Command
  <2> QED BY <1>5, <2>2, <2>3, <2>4, Carried
<1>16. CASE Reported
  <2>1. PICK c \in ListedCommands :
          /\ outcome' = [outcome EXCEPT ![c] = IF Failed(c) THEN "failed" ELSE "done"]
          /\ ~Failed(c) => cmd[c].status = "SUCCESS"
          /\ cmd' = [cmd EXCEPT ![c] = NewCommand("DUMP", NoBuddy)]
    BY <1>16 DEF Reported
  <2>2. UNCHANGED <<sends, accepted, pending>> /\ Heard' = Heard
    BY <1>16 DEF Reported, serverVars, Heard
  <2>3. CASE c # d
    <3>1. cmd'[d] = cmd[d] /\ outcome'[d] = outcome[d]
      BY <1>1, <2>1, <2>3
    <3> QED BY <1>6, <1>7, <2>2, <3>1
  <2>4. CASE c = d
    <3>1. /\ outcome'[d] = IF Failed(d) THEN "failed" ELSE "done"
          /\ outcome[d] = "listed"
      BY <1>1, <2>1, <2>4 DEF ListedCommands
    <3>2. outcome'[d] = "done" /\ sends[d] > 0 => d \in accepted
      <4>1. SUFFICES ASSUME ~Failed(d), sends[d] > 0
                     PROVE  d \in accepted
        BY <3>1
      <4>2. cmd[d].instr # "DUMP"
        BY <1>1, <3>1, <4>1 DEF TryInv
      <4> QED BY <1>5, <2>1, <2>4, <3>1, <4>1, <4>2 DEF AcceptOK, OwnSuccess
    <3>3. outcome'[d] \in {"failed", "done"}
      BY <3>1
    <3> QED BY <2>2, <3>2, <3>3
            DEF AcceptOK, OwnMessages, OwnReply, OwnSuccess, OnlyTexts
  <2> QED BY <2>3, <2>4
<1>17. CASE Arranged
  <2>1. PICK c \in Unused, i \in Instructions, b \in Buddies : Enqueue(c, i, b)
    BY <1>17 DEF Arranged
  <2>2. UNCHANGED <<sends, accepted, pending>> /\ Heard' \subseteq Heard
    BY <1>17 DEF Arranged, serverVars
  <2>3. CASE c # d
    <3>1. cmd'[d] = cmd[d] /\ outcome'[d] = outcome[d]
      BY <1>1, <2>1, <2>3 DEF Enqueue
    <3> QED BY <1>6, <1>7, <2>2, <3>1
  <2>4. CASE c = d
    <3>1. /\ outcome[d] = "unused" /\ outcome'[d] = "listed"
          /\ cmd'[d].back = NoReply /\ cmd'[d].status = "NOT_HANDLED"
      BY <1>1, <2>1, <2>4 DEF Enqueue, NewCommand
    <3>2. \A r \in pending' \cup Heard' : r.by # d
      BY <1>5, <2>2, <3>1 DEF AcceptOK, OwnMessages
    <3> QED BY <3>1, <3>2
            DEF AcceptOK, OwnMessages, OwnReply, OwnSuccess, Answered
  <2> QED BY <2>3, <2>4
<1>18. CASE Aged
  <2>1. UNCHANGED <<outcome, sends, accepted, pending>> /\ Heard' = Heard
    BY <1>18 DEF Aged, serverVars, Heard
  <2>2. /\ cmd'[d].instr = cmd[d].instr /\ cmd'[d].back = cmd[d].back
        /\ cmd'[d].callid = cmd[d].callid
        /\ cmd'[d].progress = cmd[d].progress
        /\ cmd'[d].status = cmd[d].status
    BY <1>1, <1>18 DEF Aged, Command
  <2>3. NothingNew(d)
    BY <1>6, <2>1
  <2> QED BY <1>5, <2>1, <2>2, <2>3, Carried
<1> QED
  BY <1>8, <1>9, <1>10, <1>11, <1>12, <1>13, <1>14, <1>15, <1>16, <1>17,
     <1>18 DEF Effect

LEMMA AcceptInit ==
  ASSUME Init
  PROVE  AcceptInv
<1>1. /\ accepted = {} /\ pending = {} /\ Heard = {} /\ ListedCommands = {}
      /\ \A c \in CommandIds : outcome[c] = "unused"
  BY EmptySeq, LenProperties DEF Init, CommandInit, Heard, ListedCommands
<1> QED BY <1>1 DEF AcceptInv, DoneMeansAccepted

(* A command believed accepted was accepted, with what makes that inductive:    *)
(* the replies on their way say what the server did.                           *)
THEOREM AcceptAlways == Spec => []AcceptInv
<1>1. Init => AcceptInv
  BY AcceptInit
<1>2. Sound /\ RouteInv /\ TryInv /\ AcceptInv /\ [Next]_vars => AcceptInv'
  BY StepEffect, AcceptStep
<1> QED BY <1>1, <1>2, SoundAlways, RouteAlways, TryAlways, PTL DEF Spec

(* A command is only reported as done when the server has accepted its     *)
(* text: no stale reply stands in for the delivery report                  *)
(* (LOF_extra.c:318, 119-128).                                             *)
THEOREM DoneAccepted == Spec => []DoneMeansAccepted
<1>1. AcceptInv => DoneMeansAccepted
  BY DEF AcceptInv
<1> QED BY <1>1, AcceptAlways, PTL

-----------------------------------------------------------------------------
(* The daemon implements CommandLifecycle.                                 *)

Stage(c) ==
  IF outcome[c] # "listed" THEN outcome[c]
  ELSE IF cmd[c].retry = 0 THEN "first" ELSE "second"

stages == [c \in CommandIds |-> Stage(c)]

(* The process ends in a step that does nothing else.                      *)
LEMMA EndsAlone ==
  ASSUME [Next]_vars
  PROVE  \/ mode = "running" /\ mode' = "running"
         \/ mode = "running" /\ UNCHANGED <<cmdVars, serverVars>>
         \/ UNCHANGED vars
<1>1. CASE Walk
  BY <1>1
     DEF Walk, CommandStep, RetryCommand, ReportCommand, PostponeCommand,
         ExecuteCommand, SendSms, SmsAccepted, SmsRefused, SmsWaits, Dump,
         HoldMsg, ConvLost, StartChat, NoCredential, Connect, ConnectFails,
         InviteBuddy, InviteRefused, InviteAccepted, SendText, BuddyFailed,
         UseNullChannel, TextAccepted, MsgWaits, ExecutesMsg, Executes, InWalk,
         Executed, Succeeded, Stop
<1>2. CASE Dispatch
  BY <1>2
     DEF Dispatch, GotReply, GotMessage, GotInvitation, IgnoreInvitation,
         BadInvitation, GotUserLeft, RootLeft, GotUserEntered, GotUserFailed,
         GotDeregistration, DispatchNullChannel, Dispatching, NextMessage, Stop
<1>3. CASE \/ Listen \/ CloseChannel \/ ListenNullChannel \/ NextChannel
           \/ KeepAlive \/ Sleep \/ LoopAgain \/ ArrangeCommand \/ Exit \/ Tick
           \/ Halted \/ UNCHANGED vars
  BY <1>3
     DEF Listen, CloseChannel, ListenNullChannel, NextChannel, KeepAlive, Sleep,
         LoopAgain, ArrangeCommand, Exit, Tick, Halted, Polling, Stop
<1> QED BY <1>1, <1>2, <1>3 DEF Next, Loop

(* What an effect does to the stages and the texts.                        *)
LifecycleStep ==
  \/ UNCHANGED <<stages, sends, accepted>>
  \/ \E c \in CommandIds :
       /\ UNCHANGED accepted
       /\ \/ /\ Stage(c) = "unused"
             /\ stages' = [stages EXCEPT ![c] = "first"]
             /\ UNCHANGED sends
          \/ /\ Stage(c) \in {"first", "second"}
             /\ sends[c] < IF Stage(c) = "second" THEN 2 ELSE 1
             /\ sends' = [sends EXCEPT ![c] = @ + 1]
             /\ UNCHANGED stages
          \/ /\ Stage(c) = "first"
             /\ stages' = [stages EXCEPT ![c] = "second"]
             /\ UNCHANGED sends
          \/ /\ Stage(c) \in {"first", "second"}
             /\ sends[c] > 0 => c \in accepted
             /\ stages' = [stages EXCEPT ![c] = "done"]
             /\ UNCHANGED sends
          \/ /\ Stage(c) = "second"
             /\ stages' = [stages EXCEPT ![c] = "failed"]
             /\ UNCHANGED sends
  \/ /\ accepted \subseteq accepted' /\ accepted' \subseteq CommandIds
     /\ \A c \in accepted' : sends[c] > 0
     /\ UNCHANGED <<stages, sends>>

LEMMA EffectOnStages ==
  ASSUME Sound, Sound', TryInv, AcceptInv, AcceptInv', Effect
  PROVE  LifecycleStep
<1>1. /\ cmd \in [CommandIds -> Command]
      /\ outcome \in [CommandIds -> {"unused", "listed", "done", "failed"}]
      /\ sends \in [CommandIds -> Nat]
      /\ ListedCommands \subseteq CommandIds
      /\ accepted' \subseteq CommandIds
  BY TypesOfCommands, Sound' DEF Sound, TypeOK, CommandTypeOK
<1>2. ASSUME \A c \in CommandIds :
               outcome'[c] = outcome[c] /\ cmd'[c].retry = cmd[c].retry
      PROVE  UNCHANGED stages
  BY <1>2 DEF stages, Stage
<1>3. ASSUME NEW c \in CommandIds,
             \A d \in CommandIds \ {c} :
               outcome'[d] = outcome[d] /\ cmd'[d].retry = cmd[d].retry
      PROVE  stages' = [stages EXCEPT ![c] = Stage(c)']
  BY <1>3 DEF stages, Stage
<1>4. CASE Untouched \/ Asked
  BY <1>2, <1>4
     DEF Untouched, Asked, KeepsCommands, WriteRequest, LifecycleStep
<1>5. CASE Polled
  <2>1. \A c \in accepted' : sends[c] > 0
    BY <1>5 DEF Polled, AcceptInv
  <2>2. UNCHANGED stages
    BY <1>2, <1>5 DEF Polled, KeepsCommands
  <2> QED BY <1>1, <1>5, <2>1, <2>2 DEF Polled, LifecycleStep
<1>6. CASE Attached
  <2>1. PICK r \in Heard : Attach(r)
    BY <1>6 DEF Attached
  <2>2. r \in Reply
    BY HeardReplies
  <2>3. UNCHANGED <<outcome, sends, accepted>>
    BY <1>6, <2>1 DEF Attached, Attach, serverVars
  <2>4. ASSUME NEW c \in ListedCommands, cmd' = [cmd EXCEPT ![c].back = r]
        PROVE  \A d \in CommandIds : cmd'[d].retry = cmd[d].retry
    BY <1>1, <2>4 DEF Command
  <2>5. \A d \in CommandIds : cmd'[d].retry = cmd[d].retry
    BY <2>1, <2>2, <2>4, AttachedTo
  <2> QED BY <1>2, <2>3, <2>5 DEF LifecycleStep
<1>7. CASE Acted \/ Requested
  <2>1. PICK c \in CommandIds, k \in Command : Changes(c, k)
    BY <1>7 DEF Acted, Requested
  <2>2. UNCHANGED <<sends, accepted>>
    BY <1>7 DEF Acted, Requested, WriteRequest
  <2>3. \A d \in CommandIds :
          outcome'[d] = outcome[d] /\ cmd'[d].retry = cmd[d].retry
    BY <1>1, <2>1 DEF Changes
  <2> QED BY <1>2, <2>2, <2>3 DEF LifecycleStep
<1>8. CASE Texted
  <2>1. PICK c \in CommandIds, k \in Command :
          /\ Changes(c, k) /\ BeforeText(cmd[c])
          /\ sends' = [sends EXCEPT ![c] = @ + 1]
          /\ UNCHANGED accepted
    BY <1>8 DEF Texted, WriteText
  <2>2. \A d \in CommandIds :
          outcome'[d] = outcome[d] /\ cmd'[d].retry = cmd[d].retry
    BY <1>1, <2>1 DEF Changes
  <2>3. outcome[c] = "listed" /\ cmd[c].retry \in {0, 1}
    BY <1>1, <2>1, RecordOfCommand DEF Changes, ListedCommands
  <2>4. sends[c] <= cmd[c].retry
    BY <2>1, <2>3 DEF TryInv
  <2>5. /\ Stage(c) \in {"first", "second"}
        /\ sends[c] < IF Stage(c) = "second" THEN 2 ELSE 1
    BY <1>1, <2>3, <2>4 DEF Stage
  <2>6. UNCHANGED stages
    BY <1>2, <2>2
  <2> QED BY <2>1, <2>5, <2>6 DEF LifecycleStep
<1>9. CASE Retried
  <2>1. PICK c \in ListedCommands :
          /\ cmd[c].retry = 0
          /\ cmd' = [cmd EXCEPT ![c] = [@ EXCEPT !.retry = 1,
                       !.status = "NOT_HANDLED", !.progress = 0, !.timer = 0]]
          /\ UNCHANGED <<outcome, sends, accepted>>
    BY <1>9 DEF Retried, serverVars
  <2>2. /\ cmd'[c].retry = 1
        /\ \A d \in CommandIds \ {c} : cmd'[d] = cmd[d]
    BY <1>1, <2>1 DEF Command
  <2>3. outcome[c] = "listed" /\ c \in CommandIds
    BY <2>1 DEF ListedCommands
  <2>4. Stage(c) = "first" /\ Stage(c)' = "second"
    BY <2>1, <2>2, <2>3 DEF Stage
  <2>5. stages' = [stages EXCEPT ![c] = "second"]
    BY <1>3, <2>1, <2>2, <2>3, <2>4
  <2> QED BY <2>1, <2>3, <2>4, <2>5 DEF LifecycleStep
<1>10. CASE Reported
  <2>1. PICK c \in ListedCommands :
          /\ outcome' = [outcome EXCEPT ![c] = IF Failed(c) THEN "failed" ELSE "done"]
          /\ Failed(c) => cmd[c].retry = 1
          /\ ~Failed(c) => cmd[c].status = "SUCCESS"
          /\ cmd' = [cmd EXCEPT ![c] = NewCommand("DUMP", NoBuddy)]
          /\ UNCHANGED <<sends, accepted>>
    BY <1>10 DEF Reported, serverVars
  <2>2. outcome[c] = "listed" /\ c \in CommandIds /\ cmd[c].retry \in {0, 1}
    BY <1>1, <2>1, RecordOfCommand DEF ListedCommands
  <2>3. \A d \in CommandIds \ {c} :
          outcome'[d] = outcome[d] /\ cmd'[d].retry = cmd[d].retry
    BY <1>1, <2>1
  <2>4. outcome'[c] = IF Failed(c) THEN "failed" ELSE "done"
    BY <1>1, <2>1, <2>2
  <2>5. stages' = [stages EXCEPT ![c] = outcome'[c]]
    BY <1>3, <2>2, <2>3, <2>4 DEF Stage
  <2>6. CASE Failed(c)
    <3>1. Stage(c) = "second"
      BY <2>1, <2>2, <2>6 DEF Stage
    <3> QED BY <2>1, <2>2, <2>4, <2>5, <2>6, <3>1 DEF LifecycleStep
  <2>7. CASE ~Failed(c)
    <3>1. Stage(c) \in {"first", "second"}
      BY <2>2 DEF Stage
    <3>2. sends[c] > 0 => c \in accepted
      <4>1. cmd[c].instr = "DUMP" => sends[c] = 0
        BY <2>2 DEF TryInv
      <4>2. cmd[c].instr # "DUMP" => c \in accepted
        BY <2>1, <2>2, <2>7 DEF AcceptInv, DoneMeansAccepted
      <4> QED BY <4>1, <4>2
    <3> QED BY <2>1, <2>2, <2>4, <2>5, <2>7, <3>1, <3>2 DEF LifecycleStep
  <2> QED BY <2>6, <2>7
<1>11. CASE Arranged
  <2>1. PICK c \in Unused, i \in Instructions, b \in Buddies : Enqueue(c, i, b)
    BY <1>11 DEF Arranged
  <2>2. UNCHANGED <<sends, accepted>>
    BY <1>11 DEF Arranged, serverVars
  <2>3. c \in CommandIds /\ outcome[c] = "unused" /\ outcome'[c] = "listed"
          /\ cmd'[c].retry = 0
    BY <1>1, <2>1 DEF Unused, Enqueue, NewCommand
  <2>4. \A d \in CommandIds \ {c} :
          outcome'[d] = outcome[d] /\ cmd'[d].retry = cmd[d].retry
    BY <1>1, <2>1 DEF Enqueue
  <2>5. Stage(c) = "unused" /\ Stage(c)' = "first"
    BY <2>3 DEF Stage
  <2>6. stages' = [stages EXCEPT ![c] = "first"]
    BY <1>3, <2>3, <2>4, <2>5
  <2> QED BY <2>2, <2>3, <2>5, <2>6 DEF LifecycleStep
<1>12. CASE Aged
  <2>1. UNCHANGED <<outcome, sends, accepted>>
    BY <1>12 DEF Aged, serverVars
  <2>2. \A d \in CommandIds : cmd'[d].retry = cmd[d].retry
    BY <1>1, <1>12 DEF Aged, Command
  <2> QED BY <1>2, <2>1, <2>2 DEF LifecycleStep
<1> QED
  BY <1>4, <1>5, <1>6, <1>7, <1>8, <1>9, <1>10, <1>11, <1>12 DEF Effect

(* Each step of the daemon is a step of CommandLifecycle, or none.         *)
LEMMA LifecycleMove ==
  ASSUME Sound, Sound', TryInv, AcceptInv, AcceptInv', [Next]_vars
  PROVE  [Lifecycle!Next]_(Lifecycle!vars)
<1> DEFINE Stutter == UNCHANGED <<stages, sends, accepted>>
<1>1. ASSUME UNCHANGED <<stages, sends, accepted, mode>>
      PROVE  UNCHANGED Lifecycle!vars
  BY <1>1 DEF Lifecycle!vars, stages, Stage
<1>2. CASE UNCHANGED vars
  BY <1>1, <1>2 DEF vars, cmdVars, serverVars, stages, Stage
<1>3. CASE mode = "running" /\ UNCHANGED <<cmdVars, serverVars>>
  <2>1. Stutter
    BY <1>3 DEF cmdVars, serverVars, stages, Stage
  <2>2. CASE mode' = "running"
    BY <1>1, <1>3, <2>1, <2>2
  <2>3. CASE mode' # "running"
    <3>1. Lifecycle!Halt
      BY <1>3, <2>1, <2>3 DEF Lifecycle!Halt, stages, Stage
    <3> QED BY <1>3, <3>1 DEF Lifecycle!Next
  <2> QED BY <2>2, <2>3
<1>4. CASE mode = "running" /\ mode' = "running"
  <2>1. LifecycleStep
    BY StepEffect, EffectOnStages
  <2>2. CASE Stutter
    BY <1>1, <1>4, <2>2
  <2>3. CASE /\ accepted \subseteq accepted' /\ accepted' \subseteq CommandIds
             /\ \A c \in accepted' : sends[c] > 0
             /\ UNCHANGED <<stages, sends>>
    <3>1. Lifecycle!Accept
      BY <1>4, <2>3 DEF Lifecycle!Accept, stages, Stage
    <3> QED BY <1>4, <3>1 DEF Lifecycle!Next
  <2>4. ASSUME NEW c \in CommandIds, UNCHANGED accepted,
               \/ /\ Stage(c) = "unused"
                  /\ stages' = [stages EXCEPT ![c] = "first"]
                  /\ UNCHANGED sends
               \/ /\ Stage(c) \in {"first", "second"}
                  /\ sends[c] < IF Stage(c) = "second" THEN 2 ELSE 1
                  /\ sends' = [sends EXCEPT ![c] = @ + 1]
                  /\ UNCHANGED stages
               \/ /\ Stage(c) = "first"
                  /\ stages' = [stages EXCEPT ![c] = "second"]
                  /\ UNCHANGED sends
               \/ /\ Stage(c) \in {"first", "second"}
                  /\ sends[c] > 0 => c \in accepted
                  /\ stages' = [stages EXCEPT ![c] = "done"]
                  /\ UNCHANGED sends
               \/ /\ Stage(c) = "second"
                  /\ stages' = [stages EXCEPT ![c] = "failed"]
                  /\ UNCHANGED sends
        PROVE  Lifecycle!Next
    <3>1. \/ Lifecycle!Submit(c) \/ Lifecycle!SendOnce(c)
          \/ Lifecycle!TryAgain(c) \/ Lifecycle!Complete(c)
          \/ Lifecycle!Abandon(c)
      BY <1>4, <2>4
         DEF Lifecycle!Submit, Lifecycle!SendOnce, Lifecycle!TryAgain,
             Lifecycle!Complete, Lifecycle!Abandon, Lifecycle!Try, stages, Stage
    <3> QED BY <1>4, <3>1 DEF Lifecycle!Next
  <2> QED BY <2>1, <2>2, <2>3, <2>4 DEF LifecycleStep
<1> QED BY <1>2, <1>3, <1>4, EndsAlone

(* What a command's author is promised by CommandLifecycle: two tries, one *)
(* text per try, one true report (LOF_TOOL_Command_main and exec_...).     *)
THEOREM PromiseKept == Spec => KeepsPromise
<1>1. Init => Lifecycle!Init
  BY DEF Init, CommandInit, Lifecycle!Init
<1>2. /\ Sound /\ Sound' /\ TryInv /\ AcceptInv /\ AcceptInv' /\ [Next]_vars
      => [Lifecycle!Next]_(Lifecycle!vars)
  BY LifecycleMove
<1> QED
  BY <1>1, <1>2, SoundAlways, TryAlways, AcceptAlways, PTL
     DEF Spec, KeepsPromise, Lifecycle!Spec
=============================================================================
