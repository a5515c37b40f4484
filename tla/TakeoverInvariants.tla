------------------------- MODULE TakeoverInvariants -------------------------
(***************************************************************************)
(* What the safety properties of Takeover rest on: five invariants, each   *)
(* inductive once those before it are known.                               *)
(***************************************************************************)
EXTENDS Takeover

(* The pointer of the loop is in the list, at the head outside the polling *)
(* part of an iteration; the root channel belongs to nobody, a listed      *)
(* command to a buddy; and a text is only ever written for a command.      *)
ListInv ==
  /\ QueueIsExact
  /\ ConvListOK
  /\ conv[Root].contact = NoBuddy
  /\ pc \notin {"listen", "dispatch"} => at = Root
  /\ \A c \in ListedCommands : cmd[c].to \in Buddies
  /\ \A p \in pending : p.kind \in TextKinds => p.by \in CommandIds

(* The replies that have been read and not been dispatched yet.            *)
Heard == {batch[i].reply : i \in {j \in DOMAIN batch : batch[j].type = "SIPC"}}

(* A call id is used once.  A request or reply with the call id a command  *)
(* holds is that command's own, whatever became of the command since.      *)
RouteInv ==
  /\ \A c \in CommandIds : cmd[c].callid < callid
  /\ \A r \in pending \cup Heard : r.callid \in 1..(callid - 1)
  /\ \A c \in CommandIds : \A r \in pending \cup Heard :
       r.callid = cmd[c].callid => r.by = c
  /\ \A c \in CommandIds : Answered(c) => cmd[c].back.by = c

(* A command in the state k has not written its text in this try.          *)
BeforeText(k) ==
  \/ k.instr = "DUMP"
  \/ k.instr = "SMS" /\ k.progress = 0
  \/ k.instr = "MSG" /\ k.progress \in 0..4

TryInv ==
  \A c \in CommandIds :
    /\ outcome[c] = "unused" => sends[c] = 0
    /\ outcome[c] = "listed" =>
         /\ sends[c] <= cmd[c].retry + 1
         /\ BeforeText(cmd[c]) => sends[c] <= cmd[c].retry
         /\ cmd[c].instr = "DUMP" => sends[c] = 0
    /\ sends[c] <= 2

(* A reply r that says the server accepted a text tells the truth; a       *)
(* command that has only ever written a text waits for nothing else.       *)
Truthful(r) == r.ok /\ r.kind \in TextKinds => r.by \in accepted

OnlyTexts(c) == outcome[c] = "listed" /\ cmd[c].instr = "SMS"

AcceptInv ==
  /\ \A c \in accepted : sends[c] > 0
  /\ \A p \in pending : p.kind \in TextKinds => sends[p.by] > 0
  /\ \A r \in Heard : Truthful(r)
  /\ \A c \in CommandIds : \A r \in pending \cup Heard :
       r.by = c =>
         /\ outcome[c] # "unused"
         /\ OnlyTexts(c) => r.kind = "SMS"
         /\ outcome[c] = "listed" /\ cmd[c].instr = "MSG"
              /\ cmd[c].progress = 5 /\ r.callid = cmd[c].callid
              => r.kind = "TEXT"
  /\ \A c \in ListedCommands : Answered(c) =>
       /\ Truthful(cmd[c].back)
       /\ OnlyTexts(c) => cmd[c].back.kind = "SMS"
       /\ cmd[c].instr = "MSG" /\ cmd[c].progress = 5
            => cmd[c].back.kind = "TEXT"
  /\ DoneMeansAccepted

(* What the channels rest on: the root channel is never without a socket,  *)
(* and with a server that says nothing after UserLeft, and UserLeft never  *)
(* on the root channel, what is left of a batch was heard on a channel     *)
(* that is still there, and does not end the root channel.                 *)
ChannelInv ==
  /\ conv[Root].tcp # "none"
  /\ RequestsOnOpenChannels
  /\ PoliteServer =>
       /\ ReadyHasChannel
       /\ \A i \in DOMAIN batch : batch[i].type = "UserLeft" => i = Len(batch)
       /\ batch # <<>> => conv[at].tcp # "none"
       /\ at = Root => \A i \in DOMAIN batch : batch[i].type # "UserLeft"
       /\ RootNeverDestroyed
=============================================================================
