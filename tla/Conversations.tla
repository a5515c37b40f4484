--------------------------- MODULE Conversations ---------------------------
(***************************************************************************)
(* The conversation list of the daemon (LOF_GLOBAL_ConversationList): the  *)
(* root channel to the SIP proxy first, then one node per chat channel.    *)
(*                                                                         *)
(* A node stands for an LOF_USER_ConversationType: the buddy it talks to   *)
(* (currentContact), the flag `ready`, the TCP channel of its SIP struct   *)
(* (currentSip->tcp) and the age of its stop watch (timer).  The node is   *)
(* named by a member of Channels; the name of a freed node may be reused.  *)
(***************************************************************************)
EXTENDS Integers, Sequences, FiniteSets, SequencesExt

CONSTANTS
  Buddies,         \* the contacts in the user's contact list
  Channels,        \* names for the conversations; bounds how many are open
  Root,            \* the conversation of the root channel
  ChannelMaxTime   \* idle time after which a channel is closed
                   \* (LOF_COMMAND_MAX_TIME + 15)

NoBuddy == "nobody"

ASSUME ChannelsAssumption ==
  /\ Root \notin Channels
  /\ NoBuddy \notin Buddies
  /\ ChannelMaxTime \in Nat \ {0}

VARIABLES
  convs,   \* the list: a sequence of conversation names
  conv     \* what each name stands for

convVars == <<convs, conv>>

AllChannels == Channels \cup {Root}

(* ready: -1 no channel or the buddy could not be reached, 0 waiting for   *)
(* the buddy to enter, 1 the buddy is there.  tcp: "none" while the struct *)
(* has no connection, "shut" once the peer has closed it.                  *)
ConvRecord ==
  [contact : Buddies \cup {NoBuddy}, ready : {-1, 0, 1},
   tcp : {"none", "open", "shut"}, timer : 0..ChannelMaxTime]

(* Slip: a node without a SIP struct is marked like any other.             *)
NewConvWaiting(b, tcp) ==
  [contact |-> b, ready |-> 0, tcp |-> tcp, timer |-> 0]

(* LOF_USER_Conversation_new: without a SIP struct the node is not ready.  *)
NewConv(b, tcp) ==
  [contact |-> b, ready |-> IF tcp = "none" THEN -1 ELSE 0,
   tcp |-> tcp, timer |-> 0]

ConvInit ==
  /\ convs = <<Root>>
  /\ conv = [v \in AllChannels |-> NewConv(NoBuddy, "open")]

Listed == {convs[i] : i \in DOMAIN convs}

FreeChannels == Channels \ Listed

IndexOf(v) == CHOOSE i \in DOMAIN convs : convs[i] = v

IsLast(v) == convs[Len(convs)] = v

(* ptr->next and ptr->pre of a listed node (the ends point to themselves)  *)
NextOf(v) == convs[IndexOf(v) + 1]

PreOf(v) == convs[IndexOf(v) - 1]

(***************************************************************************)
(* The search of exec_send_msg: the first conversation of the list with    *)
(* the buddy, later ones are never looked at.                              *)
(***************************************************************************)
WithBuddy(b) == {i \in DOMAIN convs : conv[convs[i]].contact = b}

HasConv(b) == WithBuddy(b) # {}

ConvOf(b) ==
  convs[CHOOSE i \in WithBuddy(b) : \A j \in WithBuddy(b) : i <= j]

(* A new node at the tail of the list (LOF_TOOL_FxList_append).            *)
AppendConv(v, record) ==
  /\ convs' = Append(convs, v)
  /\ conv' = [conv EXCEPT ![v] = record]

(* LOF_TOOL_FxList_del of a node that is not the head, after its SIP       *)
(* struct and its socket were freed.                                       *)
DropConv(v) ==
  /\ convs' = RemoveAt(convs, IndexOf(v))
  /\ conv' = [conv EXCEPT ![v] = NewConv(NoBuddy, "open")]

SetConv(v, record) ==
  /\ conv' = [conv EXCEPT ![v] = record]
  /\ UNCHANGED convs

ConvTypeOK ==
  /\ convs \in Seq(AllChannels)
  /\ conv \in [AllChannels -> ConvRecord]
=============================================================================
