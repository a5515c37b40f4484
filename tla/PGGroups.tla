------------------------------- MODULE PGGroups -------------------------------
(***************************************************************************)
(* PG groups (LOF_group.c): the calls that ask for the list of groups, for *)
(* their data, members and the members' data, that invite a group and send *)
(* messages to it, and the parsers of what comes back.                     *)
(*                                                                         *)
(* No call waits.  Each leaves the call id of its request behind, and the  *)
(* client that reads the channel finds by it the parser for a reply.  That *)
(* client is not in src/: LOF_group.h says which parser is for which reply.*)
(***************************************************************************)
EXTENDS Requests, FiniteSets, SequencesExt

CONSTANTS
    Groups,      \* PG groups
    Owned,       \* those the user has made himself
    Users,       \* who may be a member of a group
    Members,     \* Members[g]: the members of a group, in the server's order
    Calls,       \* the calls made
    MaxCalls,    \* bound: calls
    MaxNews      \* bound: notifications, and groups joined or left

ASSUME PGAssumption ==
    /\ IsFiniteSet(Groups)
    /\ Owned \subseteq Groups
    /\ MaxCalls \in Nat
    /\ MaxNews \in Nat
    /\ Members \in [Groups -> Seq(Users)]
    /\ \A g \in Groups : IsInjective(Members[g])
    /\ None \notin [group : Groups, at : Nat]

VARIABLES
    pggroup,      \* user->pggroup after its head
    listCall,     \* user->pgGroupCallId
    infoCall,     \* user->groupInfoCallId
    walk,         \* update_group_info under way: the group, the position of the member
    made,         \* calls made
    news,         \* notifications sent, groups joined or left
    joined,       \* at the server: the groups the user is in, in its order
    invited       \* at the server: the invitations it has had, call id and group

pgVars == <<pggroup, listCall, infoCall, walk, made, news, joined, invited>>
vars == <<requestVars, pgVars>>

-----------------------------------------------------------------------------
(* Groups and members. *)

(* asked: how often the members have been asked for; the code does not count. *)
PGGroup_new(g) ==
    [uri |-> g, identity |-> IF g \in Owned THEN 1 ELSE 0, informed |-> FALSE,
     hasDetails |-> FALSE, hasAcked |-> FALSE, invite |-> 0, getMembers |-> 0, asked |-> 0,
     member |-> <<>>]

PGGroupMember_new(user) == [uri |-> user, status |-> 0, getInfo |-> 0, contact |-> None]

(* append puts in front, prepend at the end. *)
append(list, n) == <<n>> \o list
prepend(list, n) == Append(list, n)

parse_list(uris) ==
    LET list[n \in 0..Len(uris)] ==
            IF n = 0 THEN <<>>
            ELSE IF uris[n] \in Owned THEN prepend(list[n - 1], PGGroup_new(uris[n]))
                 ELSE append(list[n - 1], PGGroup_new(uris[n]))
    IN  list[Len(uris)]

At(g) == {i \in DOMAIN pggroup : pggroup[i].uri = g}
Known == {pggroup[i].uri : i \in DOMAIN pggroup}
Of(g) == pggroup[CHOOSE i \in At(g) : TRUE]

(* A uri that is not in the list ends the search at the head, and what follows is *)
(* written there, where nobody reads it.                                          *)
Change(g, pg) == [i \in DOMAIN pggroup |-> IF i \in At(g) THEN pg ELSE pggroup[i]]

(* The first member of the uri, if any. *)
First(member, user) ==
    CHOOSE i \in DOMAIN member :
        member[i].uri = user /\ \A j \in 1..(i - 1) : member[j].uri # user

Has(member, user) == \E i \in DOMAIN member : member[i].uri = user

-----------------------------------------------------------------------------
(* The calls. *)

Ready == running = "yes" /\ walk = None

Idle(op) == Ready /\ made < MaxCalls /\ op \in Calls /\ made' = made + 1

get_list ==
    /\ Idle("get_list")
    /\ Write(Stamped("S", <<Event("PGGetGroupList")>>), Body("groups", None, <<>>))
    /\ listCall' = callid
    /\ UNCHANGED <<running, pggroup, infoCall, walk, news, joined, invited>>

(* It asks for every group of the list. *)
get_info ==
    /\ Idle("get_info")
    /\ pggroup # <<>>
    /\ Write(Stamped("S", <<Event("PGGetGroupInfo")>>),
             Body("info", None, [i \in DOMAIN pggroup |-> pggroup[i].uri]))
    /\ infoCall' = callid
    /\ UNCHANGED <<running, pggroup, listCall, walk, news, joined, invited>>

subscribe(g) ==
    /\ Idle("subscribe")
    /\ Write(Stamped("SUB", <<Event("PGPresence")>>), Body("subscription", g, <<>>))
    /\ UNCHANGED <<running, pggroup, listCall, infoCall, walk, news, joined, invited>>

(* Slips: the call id is taken from the struct before it is stamped. *)
MembersAskedEarly(g) ==
    LET Asked == [Of(g) EXCEPT !.getMembers = sip.callid, !.asked = @ + 1] IN
    /\ Idle("get_group_members")
    /\ Write(Stamped("S", <<Event("PGGetGroupMembers")>>), Body("members", g, <<>>))
    /\ pggroup' = Change(g, Asked)
    /\ UNCHANGED <<running, listCall, infoCall, walk, news, joined, invited>>

get_group_members(g) ==
    LET Asked == [Of(g) EXCEPT !.getMembers = sip'.callid, !.asked = @ + 1] IN
    /\ Idle("get_group_members")
    /\ Write(Stamped("S", <<Event("PGGetGroupMembers")>>), Body("members", g, <<>>))
    /\ pggroup' = Change(g, Asked)
    /\ UNCHANGED <<running, listCall, infoCall, walk, news, joined, invited>>

(* Nobody to ask about: the call returns. *)
update_group_info(g) ==
    LET Detailed == [Of(g) EXCEPT !.hasDetails = TRUE] IN
    /\ Idle("update_group_info")
    /\ Of(g).member # <<>>
    /\ pggroup' = Change(g, Detailed)
    /\ walk' = [group |-> g, at |-> 1]
    /\ UNCHANGED <<requestVars, listCall, infoCall, news, joined, invited>>

(* Slips: the walk ends before the last member. *)
UpdateButLast ==
    LET user == Of(walk.group).member[walk.at].uri
        Asked == [Of(walk.group) EXCEPT !.member[walk.at].getInfo = callid]
    IN  /\ running = "yes"
        /\ walk # None
        /\ Write(Stamped("S", <<Event("GetContactInfo")>>), Body("contact", user, <<walk.group>>))
        /\ pggroup' = Change(walk.group, Asked)
        /\ walk' = IF SendFails \/ walk.at + 1 >= Len(Of(walk.group).member) THEN None
                   ELSE [walk EXCEPT !.at = @ + 1]
        /\ UNCHANGED <<running, listCall, infoCall, made, news, joined, invited>>

(* One member after the other, until a send fails. *)
UpdateNext ==
    LET user == Of(walk.group).member[walk.at].uri
        Asked == [Of(walk.group) EXCEPT !.member[walk.at].getInfo = callid]
    IN  /\ running = "yes"
        /\ walk # None
        /\ Write(Stamped("S", <<Event("GetContactInfo")>>), Body("contact", user, <<walk.group>>))
        /\ pggroup' = Change(walk.group, Asked)
        /\ walk' = IF SendFails \/ walk.at = Len(Of(walk.group).member) THEN None
                   ELSE [walk EXCEPT !.at = @ + 1]
        /\ UNCHANGED <<running, listCall, infoCall, made, news, joined, invited>>

To(g) == <<"T", g>>

send_invitation(g) ==
    LET Invited == [Of(g) EXCEPT !.invite = callid] IN
    /\ Idle("send_invitation")
    /\ Write(Stamped("I", <<To(g), <<"K", 5>>>>), Body("invitation", g, <<>>))
    /\ pggroup' = Change(g, Invited)
    /\ UNCHANGED <<running, listCall, infoCall, walk, news, joined, invited>>

(* Slips: the message bears a call id of its own. *)
MessageOnItsOwn(g) ==
    /\ Idle("send_message")
    /\ Write(Stamped("M", <<To(g), <<"C", 1>>, <<"K", 1>>>>), Body("message", g, <<>>))
    /\ UNCHANGED <<running, pggroup, listCall, infoCall, walk, news, joined, invited>>

(* The call id of the invitation; 0 if there was none. *)
send_message(g) ==
    /\ Idle("send_message")
    /\ Write(set_callid(Stamped("M", <<To(g), <<"C", 1>>, <<"K", 1>>>>), Of(g).invite),
             Body("message", g, <<>>))
    /\ UNCHANGED <<running, pggroup, listCall, infoCall, walk, news, joined, invited>>

send_sms(g) ==
    /\ Idle("send_sms")
    /\ Write(Stamped("M", <<To(g), Event("PGSendCatSMS")>>), Body("sms", g, <<>>))
    /\ UNCHANGED <<running, pggroup, listCall, infoCall, walk, news, joined, invited>>

-----------------------------------------------------------------------------
(* What comes back.  A message is recognised by its call id. *)

Hears(msg) ==
    /\ Ready
    /\ inbox # <<>>
    /\ msg = Head(inbox)
    /\ inbox' = Tail(inbox)
    /\ UNCHANGED <<callid, sip, asked, line, infoCall, walk, made, news, joined, invited>>

Messages == ToSet(inbox)

IsReply(msg, id) == msg.kind = "reply" /\ id # 0 /\ msg.callid = id

(* Slips: the new list is put before the old one. *)
ListKeepsOld ==
    \E msg \in Messages :
       /\ Hears(msg)
       /\ IsReply(msg, listCall)
       /\ pggroup' = parse_list(msg.body.ids) \o pggroup
       /\ UNCHANGED <<running, listCall>>

(* A refusal names no group.  An answer without a group makes the list NULL: the *)
(* empty list is never a head alone.                                             *)
ListCame ==
    \E msg \in Messages :
       /\ Hears(msg)
       /\ IsReply(msg, listCall)
       /\ pggroup' = parse_list(msg.body.ids)
       /\ UNCHANGED <<running, listCall>>

(* A parser looks for the groups of its message in a list that is NULL. *)
WalksNull(msg) == pggroup = <<>> /\ msg.body.ids # <<>>

parse_info(msg) ==
    [i \in DOMAIN pggroup |->
        IF pggroup[i].uri \in ToSet(msg.body.ids)
        THEN [pggroup[i] EXCEPT !.informed = TRUE] ELSE pggroup[i]]

InfoCame ==
    \E msg \in Messages :
       /\ Hears(msg)
       /\ IsReply(msg, infoCall)
       /\ \/ /\ ~WalksNull(msg)
             /\ pggroup' = parse_info(msg)
             /\ UNCHANGED running
          \/ /\ WalksNull(msg)
             /\ running' = "undefined"
             /\ UNCHANGED pggroup
       /\ UNCHANGED listCall

(* One member after the other is put in front. *)
Entered(member, users) ==
    Reverse([i \in DOMAIN users |-> PGGroupMember_new(users[i])]) \o member

(* Slips: the members go to the first group, whichever was asked about. *)
MembersToFirst(msg) ==
    [pggroup EXCEPT ![1].member = Entered(@, msg.body.ids)]

(* Each member of the answer becomes a node, whoever is in the list already. *)
parse_member_list(msg) ==
    LET Listed == [Of(msg.body.user) EXCEPT !.member = Entered(@, msg.body.ids)]
    IN  Change(msg.body.user, Listed)

(* An answer with a root and nothing in it is read through a NULL pointer; one of *)
(* no body is an error.                                                           *)
MembersCame(g) ==
    \E msg \in Messages :
       /\ Hears(msg)
       /\ IsReply(msg, Of(g).getMembers)
       /\ \/ /\ msg.body.kind = "members"
             /\ pggroup' = parse_member_list(msg)
             /\ UNCHANGED running
          \/ /\ msg.body.kind = "nothing"
             /\ running' = "undefined"
             /\ UNCHANGED pggroup
          \/ /\ msg.body.kind = "none"
             /\ UNCHANGED <<running, pggroup>>
       /\ UNCHANGED listCall

parse_contact_info(msg) == msg.body.user

(* The client keeps the contact it is given with the member. *)
ContactCame(g) ==
    \E msg \in Messages, i \in DOMAIN Of(g).member :
       LET Got == [Of(g) EXCEPT !.member[i].contact = parse_contact_info(msg)] IN
       /\ Hears(msg)
       /\ IsReply(msg, Of(g).member[i].getInfo)
       /\ pggroup' = IF msg.body.kind = "contact" THEN Change(g, Got) ELSE pggroup
       /\ UNCHANGED <<running, listCall>>

(* The acknowledgement takes its call id and its receiver from the reply.  The *)
(* client sends one for an invitation.                                         *)
send_invite_ack(g) ==
    \E msg \in Messages :
       LET Acked == [Of(g) EXCEPT !.hasAcked = TRUE] IN
       /\ Ready
       /\ msg = Head(inbox)
       /\ IsReply(msg, Of(g).invite)
       /\ msg.code = 200
       /\ ~Of(g).hasAcked
       /\ callid' = callid + 1
       /\ sip' = [set_callid(Stamped("A", <<To(g)>>), msg.callid) EXCEPT !.header = <<>>]
       /\ asked' = IF line = "open"
                   THEN Append(asked, to_string(set_callid(Stamped("A", <<To(g)>>), msg.callid),
                                                Body("ack", g, <<>>)))
                   ELSE asked
       /\ inbox' = Tail(inbox)
       /\ pggroup' = Change(g, Acked)
       /\ UNCHANGED <<line, running, listCall, infoCall, walk, made, news, joined, invited>>

(* The presence of a member; a group or a member not listed is the head again. *)
parse_member(msg) ==
    LET user == msg.body.ids[1]
        Present == [Of(msg.body.user) EXCEPT !.member[First(Of(msg.body.user).member, user)].status = 1]
    IN  IF At(msg.body.user) # {} /\ Has(Of(msg.body.user).member, user)
        THEN Change(msg.body.user, Present) ELSE pggroup

MemberPresent ==
    \E msg \in Messages :
       /\ Hears(msg)
       /\ msg.kind = "notification"
       /\ \/ /\ ~WalksNull(msg)
             /\ pggroup' = parse_member(msg)
             /\ UNCHANGED running
          \/ /\ WalksNull(msg)
             /\ running' = "undefined"
             /\ UNCHANGED pggroup
       /\ UNCHANGED listCall

Recognised(msg) ==
    \/ IsReply(msg, listCall)
    \/ IsReply(msg, infoCall)
    \/ \E g \in Known :
          \/ IsReply(msg, Of(g).getMembers)
          \/ IsReply(msg, Of(g).invite) /\ msg.code = 200 /\ ~Of(g).hasAcked
          \/ \E i \in DOMAIN Of(g).member : IsReply(msg, Of(g).member[i].getInfo)

ReplyDropped ==
    \E msg \in Messages :
       /\ Hears(msg)
       /\ msg.kind = "reply"
       /\ ~Recognised(msg)
       /\ UNCHANGED <<running, pggroup, listCall>>

-----------------------------------------------------------------------------
(* The server. *)

Invitation(id, g) == [id |-> id, group |-> g]

ResultBody(q) ==
    CASE q.body.kind = "groups" -> Body("groups", None, joined)
      [] q.body.kind = "members" -> Body("members", q.body.user, Members[q.body.user])
      [] q.body.kind \in {"info", "contact"} -> q.body
      [] OTHER -> NoBody

ServerUnchanged == UNCHANGED <<pggroup, listCall, infoCall, walk, made>>

Answers ==
    /\ asked # <<>>
    /\ Head(asked).body.kind # "ack"
    /\ \/ Answer(200, ResultBody(Head(asked)))
       \/ Answer(400, NoBody)
       \/ Head(asked).body.kind = "members" /\ Answer(200, Body("nothing", None, <<>>))
    /\ invited' = IF Head(asked).body.kind = "invitation"
                  THEN invited \cup {Invitation(Head(asked).callid, Head(asked).body.user)}
                  ELSE invited
    /\ UNCHANGED <<news, joined>>
    /\ ServerUnchanged

(* An acknowledgement is not answered. *)
TakesAck ==
    /\ asked # <<>>
    /\ Head(asked).body.kind = "ack"
    /\ asked' = Tail(asked)
    /\ UNCHANGED <<callid, sip, inbox, line, running, news, joined, invited>>
    /\ ServerUnchanged

Notifies ==
    /\ line = "open"
    /\ news < MaxNews
    /\ news' = news + 1
    /\ \E g \in Groups : \E user \in ToSet(Members[g]) :
          inbox' = Append(inbox, Notification(Body("presence", g, <<user>>)))
    /\ UNCHANGED <<callid, sip, asked, line, running, joined, invited>>
    /\ ServerUnchanged

JoinsOrLeaves ==
    /\ news < MaxNews
    /\ news' = news + 1
    /\ \E g \in Groups :
          \/ /\ g \notin ToSet(joined)
             /\ joined' = Append(joined, g)
          \/ \E i \in DOMAIN joined : joined[i] = g /\ joined' = RemoveAt(joined, i)
    /\ UNCHANGED <<requestVars, invited>>
    /\ ServerUnchanged

LineBreaks == Breaks /\ UNCHANGED <<news, joined, invited>> /\ ServerUnchanged

-----------------------------------------------------------------------------
Init ==
    /\ RequestsInit
    /\ joined \in SetToSeqs(Groups)
    /\ pggroup = parse_list(joined)
    /\ listCall = 0
    /\ infoCall = 0
    /\ walk = None
    /\ made = 0
    /\ news = 0
    /\ invited = {}

GroupCalls ==
    \/ get_list
    \/ get_info
    \/ \E g \in Known :
          \/ subscribe(g)
          \/ get_group_members(g)
          \/ update_group_info(g)
          \/ send_invitation(g)
          \/ send_message(g)
          \/ send_sms(g)
    \/ UpdateNext

Client ==
    \/ ListCame
    \/ InfoCame
    \/ \E g \in Known : MembersCame(g) \/ ContactCame(g) \/ send_invite_ack(g)
    \/ MemberPresent
    \/ ReplyDropped

Server == Answers \/ TakesAck \/ Notifies \/ JoinsOrLeaves \/ LineBreaks

Next == GroupCalls \/ Client \/ Server

Spec == Init /\ [][Next]_vars

-----------------------------------------------------------------------------
(* Properties. *)

(* The type invariant. *)
TypeOK ==
    /\ callid \in Nat \ {0}
    /\ listCall \in 0..(callid - 1) /\ infoCall \in 0..(callid - 1)
    /\ Known \subseteq Groups
    /\ \A i, j \in DOMAIN pggroup : pggroup[i].uri = pggroup[j].uri => i = j
    /\ walk # None => walk.group \in Known /\ walk.at \in DOMAIN Of(walk.group).member
    /\ made \in 0..MaxCalls
    /\ news \in 0..MaxNews

(* What is on its way back, by the kind of the request it answers: replies, and *)
(* the replies the server will write.                                           *)
OnTheWay(id) ==
    {asked[i].body : i \in {j \in DOMAIN asked : asked[j].callid = id}} \cup
    {inbox[i].body : i \in {j \in DOMAIN inbox : inbox[j].kind = "reply" /\ inbox[j].callid = id
                                                 /\ inbox[j].body.kind \notin {"none", "nothing"}}}

(* Every call id remembered names one request: whatever comes back with it goes *)
(* to the right parser, with the right group, whatever else was asked since.    *)
(* Only an invitation shares its id, with the messages sent under it.           *)
IdsRecognise ==
    /\ listCall # 0 => \A body \in OnTheWay(listCall) : body.kind = "groups"
    /\ infoCall # 0 => \A body \in OnTheWay(infoCall) : body.kind = "info"
    /\ \A i \in DOMAIN pggroup :
          LET pg == pggroup[i] IN
          /\ pg.getMembers # 0 => \A body \in OnTheWay(pg.getMembers) :
                 body.kind = "members" /\ body.user = pg.uri
          /\ pg.invite # 0 => \A body \in OnTheWay(pg.invite) :
                 body.kind \in {"invitation", "message", "ack"} /\ body.user = pg.uri
          /\ \A j \in DOMAIN pg.member : pg.member[j].getInfo # 0 =>
                 \A body \in OnTheWay(pg.member[j].getInfo) :
                    body.kind = "contact" /\ body.user = pg.member[j].uri

(* Is the invitation of a group under a call id written at one of the positions? *)
Written(id, g, positions) ==
    \E j \in positions :
        asked[j].body.kind = "invitation" /\ asked[j].callid = id /\ asked[j].body.user = g

(* A message is under an invitation of its own group, which the server has had  *)
(* or has before it: the last one written, unless the next was written after it *)
(* or the list was read anew (LOF_group.c:805).  Under no call id, 0, goes only *)
(* what was written when the group of the list had not been invited.  An        *)
(* acknowledgement is under an invitation of its group the server has had;      *)
(* though the answer that led to it may have been to a message under that.      *)
MessageUnderInvitation ==
    \A i \in DOMAIN asked :
        LET q == asked[i]
            g == q.body.user
        IN  /\ q.body.kind = "message" =>
                 /\ \/ q.callid = 0
                    \/ Invitation(q.callid, g) \in invited
                    \/ Written(q.callid, g, 1..(i - 1))
                 /\ \A j \in DOMAIN pggroup :
                       pggroup[j].uri = g /\ pggroup[j].invite \notin {0, q.callid} =>
                           Written(pggroup[j].invite, g, (i + 1)..Len(asked))
            /\ q.body.kind = "ack" => Invitation(q.callid, g) \in invited

(* A group whose members were asked for once lists nobody twice, and nobody who *)
(* is not a member.  Asked for again, its members are appended again            *)
(* (LOF_group.c:440).                                                           *)
NobodyTwice ==
    \A i \in DOMAIN pggroup :
        LET pg == pggroup[i] IN
        /\ pg.asked <= 1 => \A j, k \in DOMAIN pg.member :
               pg.member[j].uri = pg.member[k].uri => j = k
        /\ \A j \in DOMAIN pg.member :
               /\ pg.member[j].uri \in ToSet(Members[pg.uri])
               /\ pg.member[j].contact \in {None, pg.member[j].uri}

(* A group marked as having details has had every one of its members asked      *)
(* about; but for a channel that broke on the way, and members appended again.  *)
DetailsForAll ==
    \A i \in DOMAIN pggroup :
        LET pg == pggroup[i] IN
        (/\ pg.hasDetails
         /\ pg.asked <= 1
         /\ line # "reset"
         /\ walk = None \/ walk.group # pg.uri)
            => \A j \in DOMAIN pg.member : pg.member[j].getInfo # 0

(* Every request bears the headers queued for it, and no others. *)
HeadersOwn ==
    \A i \in DOMAIN asked :
        Len(asked[i].header) = CASE asked[i].body.kind = "message" -> 3
                                 [] asked[i].body.kind \in {"invitation", "sms"} -> 2
                                 [] OTHER -> 1
===============================================================================
