-------------------------------- MODULE Roster --------------------------------
(***************************************************************************)
(* The contact list and the buddy lists (LOF_contact.c, LOF_buddylist.c),  *)
(* and the local user's own data (LOF_user.c): the library calls that      *)
(* change them, on the root channel, beside what the server sends unasked. *)
(*                                                                         *)
(* A call is two steps: its request, and, if it waits, its answer.  It     *)
(* takes what comes next on the channel for its answer.  Out of memory is  *)
(* not modelled.                                                           *)
(***************************************************************************)
EXTENDS Requests, FiniteSets, SequencesExt

CONSTANTS
    Users,       \* people who are or could be contacts
    Buddies,     \* those who are at the start, in group 1
    MaxCalls,    \* bound: library calls
    MaxNews,     \* bound: notifications
    Calls,       \* the library calls made
    Values,      \* statuses, mood phrases and numbers of days: numbers
    Lists        \* group ids that a contact is put in, beside 1

-----------------------------------------------------------------------------
(* What requests and answers are about: the requests that no call waits for *)
(* and those that one does; the rest only the server says.                  *)

Untold == {"status", "keep-alive", "subscribe", "contact-info-by-no", "group-ids"}

Awaited == {"moodphrase", "information", "sms-status", "create-list", "delete-list",
            "edit-list", "contact-info", "permission", "displayname", "group-ids",
            "delete-buddy", "add-buddy", "handle-request"}

Kinds == Untold \cup Awaited \cup {"none", "challenge", "presence"}

Bodies == [kind : Kinds, user : Users \cup {None}, ids : Seq(Values \cup Nat)]

(* The fields of a challenge that its answer does not set: they are not         *)
(* initialised, whatever malloc has left there.                                 *)
Unset == {"code", "guid"}

ASSUME RosterAssumption ==
    /\ None \notin Users
    /\ None \notin [op : Calls, id : Nat, body : Bodies]
    /\ None \notin [challenge : Nat, unset : SUBSET Unset]
    /\ IsFiniteSet(Users)
    /\ Buddies \subseteq Users
    /\ MaxCalls \in Nat
    /\ MaxNews \in Nat
    /\ Lists \subseteq Nat

VARIABLES
    contacts,      \* user->contactList after its head: newest first
    groups,        \* user->groupList, likewise: the ids
    self,          \* the local user: status, impression, contactVersion
    verification,  \* user->verification: the challenge asked, and its fields not yet set
    call,          \* the call that waits for an answer, None if none does
    made,          \* calls made
    news,          \* notifications sent
    theirs,        \* what the server knows: groups, the group ids of buddies, ...
    strays,        \* has anything been sent that no call waits for?
    mixed,         \* has a call taken an answer that was not its own?
    doubted        \* users whose group ids here and at the server may differ

rosterVars == <<contacts, groups, self, verification, call, made, news, theirs,
                strays, mixed, doubted>>
vars == <<requestVars, rosterVars>>

-----------------------------------------------------------------------------
(* The lists. *)

Contact_new(user, groupids) == [id |-> user, groupids |-> groupids, online |-> FALSE]

list_append(list, node) == <<node>> \o list

Positions(user) == {i \in DOMAIN contacts : contacts[i].id = user}

find_by_userid(user) == CHOOSE i \in Positions(user) : \A j \in Positions(user) : i <= j

Listed(user) == Positions(user) # {}

GroupPositions(id) == {i \in DOMAIN groups : groups[i] = id}

BuddyGroup_remove(id) ==
    IF GroupPositions(id) = {} THEN groups
    ELSE RemoveAt(groups, CHOOSE i \in GroupPositions(id) : \A j \in GroupPositions(id) : i <= j)

SetGroupIds(user, ids) == [contacts EXCEPT ![find_by_userid(user)].groupids = ids]

(* Group ids are numbers in a string; the order matters to nobody. *)
Without(ids, id) ==
    LET Kept[i \in 0..Len(ids)] ==
            IF i = 0 THEN <<>>
            ELSE IF ids[i] = id THEN Kept[i - 1] ELSE Append(Kept[i - 1], ids[i])
    IN  Kept[Len(ids)]

-----------------------------------------------------------------------------
(* Bodies of requests: what the server is asked. *)

subscribe_body == Body("subscribe", None, <<>>)
contact_info_body(user) == Body("contact-info", user, <<>>)
contact_info_by_no_body(user) == Body("contact-info-by-no", user, <<>>)
set_mobileno_permission_body(user) == Body("permission", user, <<>>)
handle_contact_request_body(user, list, result) == Body("handle-request", user, <<list, result>>)
set_displayname_body(user) == Body("displayname", user, <<>>)
move_to_group_body(user, ids) == Body("group-ids", user, ids)
delete_buddy_body(user) == Body("delete-buddy", user, <<>>)
add_buddy_body(user, list) == Body("add-buddy", user, <<list>>)
group_body(user, ids) == Body("group-ids", user, ids)
create_buddylist_body == Body("create-list", None, <<>>)
edit_buddylist_body(id) == Body("edit-list", None, <<id>>)
delete_buddylist_body(id) == Body("delete-list", None, <<id>>)
set_status_body(state) == Body("status", None, <<state>>)
set_moodphrase_body(phrase) == Body("moodphrase", None, <<phrase>>)
update_information_body == Body("information", None, <<self.impression>>)
keep_alive_body == Body("keep-alive", None, <<>>)
set_sms_status_body(days) == Body("sms-status", None, <<days>>)

(* The event header each of them goes with. *)
Ack(challenge) == <<"Ack", challenge>>

EventOf(kind) ==
    CASE kind \in {"group-ids", "permission", "displayname"} -> Event("SetContactInfo")
      [] kind \in {"contact-info", "contact-info-by-no"} -> Event("GetContactInfo")
      [] kind \in {"moodphrase", "information", "sms-status"} -> Event("SetUserInfo")
      [] OTHER -> Event(kind)

-----------------------------------------------------------------------------
(* The two halves of a call. *)

Idle(op) == running = "yes" /\ call = None /\ made < MaxCalls /\ op \in Calls

(* A call that only sends. *)
Tell(type, body) ==
    /\ Write(Stamped(type, <<EventOf(body.kind)>>), body)
    /\ made' = made + 1
    /\ strays' = TRUE
    /\ UNCHANGED <<running, call, verification, mixed, news, theirs>>

(* A call that waits.  Most give up when the send fails; the others, and those *)
(* for which it does not, read.                                                *)
AskWith(op, headers, body, checksSend) ==
    /\ Write(Stamped("S", headers), body)
    /\ made' = made + 1
    /\ call' = IF checksSend /\ SendFails THEN None
               ELSE [op |-> op, id |-> callid, body |-> body]
    /\ UNCHANGED <<running, strays, verification, self, groups, mixed, news, theirs>>

Ask(op, body, checksSend) == AskWith(op, <<EventOf(body.kind)>>, body, checksSend)

Own(msg) == msg.kind = "reply" /\ msg.callid = call.id

(* The answer to op comes: whatever is next on the channel. *)
Takes(op, msg) ==
    /\ running = "yes"
    /\ call # None
    /\ call.op = op
    /\ mixed' = (mixed \/ ~Own(msg))
    /\ call' = None
    /\ UNCHANGED <<made, news, theirs, strays, doubted>>

Answered(op, msg) == get_response(msg) /\ Takes(op, msg)

Messages == ToSet(inbox)

(* An answer that the code parses without looking whether it is the right one *)
(* and that has not the nodes it reads.                                        *)
Unparsable(op) ==
    /\ running = "yes"
    /\ call # None
    /\ call.op = op
    /\ inbox # <<>>
    /\ running' = "undefined"
    /\ UNCHANGED <<callid, sip, asked, inbox, line, rosterVars>>

(* No answer: the read fails.  The calls of LOF_contact.c return an error; the *)
(* others look for the code in a NULL string.                                  *)
CheckedCalls == {"get_contact_info", "set_mobileno_permission", "set_displayname",
                 "copy_to_group", "remove_from_group", "delete_buddy", "add_buddy",
                 "handle_contact_request"}

NoAnswer ==
    /\ running = "yes"
    /\ call # None
    /\ ReadFails
    /\ IF call.op \in CheckedCalls
       THEN call' = None /\ UNCHANGED running
       ELSE running' = "undefined" /\ UNCHANGED call
    /\ UNCHANGED <<callid, sip, asked, inbox, line, contacts, groups, self, verification,
                   made, news, theirs, strays, mixed, doubted>>

WaitsForEver ==
    /\ running = "yes"
    /\ call # None
    /\ ReadNeverEnds
    /\ running' = IF call.op = "set_sms_status" THEN "undefined" ELSE "hung"
    /\ UNCHANGED <<callid, sip, asked, inbox, line, rosterVars>>

-----------------------------------------------------------------------------
(* The local user (LOF_user.c). *)

set_status(state) ==
    /\ Idle("set_status")
    /\ Tell("S", set_status_body(state))
    /\ self' = [self EXCEPT !.status = state]
    /\ UNCHANGED <<contacts, groups, doubted>>

set_moodphrase(phrase) ==
    /\ Idle("set_moodphrase")
    /\ Ask("set_moodphrase", set_moodphrase_body(phrase), FALSE)
    /\ UNCHANGED <<contacts, doubted>>

(* The answers to both requests of the event carry the new impression. *)
parse_set_moodphrase_response(msg) == Head(msg.body.ids)
HasImpression(msg) == msg.body.kind \in {"moodphrase", "information"}

MoodphraseSet ==
    \E msg \in Messages :
       \/ /\ get_code(msg) = 200 => HasImpression(msg)
          /\ Answered("set_moodphrase", msg)
          /\ self' = IF get_code(msg) = 200
                     THEN [self EXCEPT !.impression = parse_set_moodphrase_response(msg)]
                     ELSE self
          /\ UNCHANGED <<contacts, groups, verification>>
       \/ /\ msg = Head(inbox) /\ get_code(msg) = 200 /\ ~HasImpression(msg)
          /\ Unparsable("set_moodphrase")

update_info ==
    /\ Idle("update_info")
    /\ Ask("update_info", update_information_body, FALSE)
    /\ UNCHANGED <<contacts, doubted>>

InfoUpdated ==
    \E msg \in Messages :
       Answered("update_info", msg) /\ UNCHANGED <<contacts, groups, self, verification>>

keep_alive ==
    /\ Idle("keep_alive")
    /\ Tell("R", keep_alive_body)
    /\ UNCHANGED <<contacts, groups, self, doubted>>

set_sms_status(days) ==
    /\ Idle("set_sms_status")
    /\ Ask("set_sms_status", set_sms_status_body(days), FALSE)
    /\ UNCHANGED <<contacts, doubted>>

(* Reads the socket itself, and keeps what it reads: of a foreign answer it *)
(* takes nothing.                                                           *)
SmsStatusSet ==
    \E msg \in Messages :
       /\ \E n \in 1..Len(inbox) : Reads(msg, n)
       /\ Takes("set_sms_status", msg)
       /\ UNCHANGED running
       /\ self' = IF get_code(msg) = 200 /\ msg.body.kind = "sms-status"
                  THEN [self EXCEPT !.smsOnLineStatus = Head(msg.body.ids)]
                  ELSE self
       /\ UNCHANGED <<contacts, groups, verification>>

Sets(field) ==
    /\ running = "yes" /\ call = None
    /\ verification # None
    /\ verification' = [verification EXCEPT !.unset = @ \ {field}]
    /\ UNCHANGED <<requestVars, contacts, groups, self, call, made, news, theirs, strays,
                   mixed, doubted>>

set_verification_code == Sets("code")

(* The picture, and with it the guid, come over HTTP (LOF_login.c). *)
generate_pic_code == Sets("guid")

-----------------------------------------------------------------------------
(* Buddy lists (LOF_buddylist.c). *)

list_create ==
    /\ Idle("list_create")
    /\ Ask("list_create", create_buddylist_body, FALSE)
    /\ UNCHANGED <<contacts, doubted>>

(* The response names the new group and the version of the contact list. *)
ListCreated ==
    \E msg \in Messages :
       \/ /\ get_code(msg) = 200 => msg.body.kind = "create-list"
          /\ Answered("list_create", msg)
          /\ IF get_code(msg) = 200
             THEN /\ groups' = list_append(groups, msg.body.ids[1])
                  /\ self' = [self EXCEPT !.contactVersion = msg.body.ids[2]]
             ELSE UNCHANGED <<groups, self>>
          /\ UNCHANGED <<contacts, verification>>
       \/ /\ msg = Head(inbox) /\ get_code(msg) = 200 /\ msg.body.kind # "create-list"
          /\ Unparsable("list_create")

list_delete(id) ==
    /\ Idle("list_delete")
    /\ Ask("list_delete", delete_buddylist_body(id), FALSE)
    /\ UNCHANGED <<contacts, doubted>>

(* Slips: the code of the answer is not looked at. *)
ListDeletedAnyway ==
    \E msg \in Messages :
       /\ Answered("list_delete", msg)
       /\ groups' = BuddyGroup_remove(call.body.ids[1])
       /\ UNCHANGED <<contacts, self, verification>>

ListDeleted ==
    \E msg \in Messages :
       /\ Answered("list_delete", msg)
       /\ groups' = IF get_code(msg) = 200 THEN BuddyGroup_remove(call.body.ids[1]) ELSE groups
       /\ UNCHANGED <<contacts, self, verification>>

(* Slips: the answer is not read. *)
EditUnread(id) ==
    /\ Idle("list_edit")
    /\ Write(Stamped("S", <<Event("edit-list")>>), edit_buddylist_body(id))
    /\ made' = made + 1
    /\ UNCHANGED <<running, contacts, groups, self, verification, call, news, theirs, strays,
                   mixed, doubted>>

list_edit(id) ==
    /\ Idle("list_edit")
    /\ Ask("list_edit", edit_buddylist_body(id), FALSE)
    /\ UNCHANGED <<contacts, doubted>>

ListEdited ==
    \E msg \in Messages :
       Answered("list_edit", msg) /\ UNCHANGED <<contacts, groups, self, verification>>

-----------------------------------------------------------------------------
(* Contacts (LOF_contact.c). *)

subscribe_only ==
    /\ Idle("subscribe_only")
    /\ Tell("SUB", subscribe_body)
    /\ UNCHANGED <<contacts, groups, self, doubted>>

get_contact_info(user) ==
    /\ Idle("get_contact_info")
    /\ Listed(user)
    /\ Ask("get_contact_info", contact_info_body(user), FALSE)
    /\ UNCHANGED <<contacts, doubted>>

ContactInfoCame ==
    \E msg \in Messages :
       Answered("get_contact_info", msg) /\ UNCHANGED <<contacts, groups, self, verification>>

(* Its answer is not awaited: the code that reads it is commented out. *)
get_contact_info_by_no(user) ==
    /\ Idle("get_contact_info_by_no")
    /\ Tell("S", contact_info_by_no_body(user))
    /\ UNCHANGED <<contacts, groups, self, doubted>>

set_mobileno_permission(user) ==
    /\ Idle("set_mobileno_permission")
    /\ Ask("set_mobileno_permission", set_mobileno_permission_body(user), TRUE)
    /\ UNCHANGED <<contacts, doubted>>

parse_set_mobileno_permission_response(msg) == Head(msg.body.ids)

PermissionSet ==
    \E msg \in Messages :
       \/ /\ get_code(msg) = 200 => msg.body.kind = "permission"
          /\ Answered("set_mobileno_permission", msg)
          /\ self' = IF get_code(msg) = 200
                     THEN [self EXCEPT
                             !.contactVersion = parse_set_mobileno_permission_response(msg)]
                     ELSE self
          /\ UNCHANGED <<contacts, groups, verification>>
       \/ /\ msg = Head(inbox) /\ get_code(msg) = 200 /\ msg.body.kind # "permission"
          /\ Unparsable("set_mobileno_permission")

set_displayname(user) ==
    /\ Idle("set_displayname")
    /\ Ask("set_displayname", set_displayname_body(user), TRUE)
    /\ UNCHANGED <<contacts, doubted>>

DisplaynameSet ==
    \E msg \in Messages :
       Answered("set_displayname", msg) /\ UNCHANGED <<contacts, groups, self, verification>>

GroupIds(user) == contacts[find_by_userid(user)].groupids

(* The contact is changed before the request is sent.  A request that cannot be *)
(* sent leaves it changed.                                                      *)
GroupsAsked(user) ==
    doubted' = IF line = "open" THEN doubted ELSE doubted \cup {user}

(* No answer is awaited. *)
move_to_group(user, old, new) ==
    LET ids == Append(Without(GroupIds(user), old), new) IN
    /\ Idle("move_to_group")
    /\ Listed(user)
    /\ contacts' = SetGroupIds(user, ids)
    /\ Tell("S", move_to_group_body(user, ids))
    /\ GroupsAsked(user)
    /\ UNCHANGED <<groups, self>>

(* Slips: the new group is sent without the others. *)
CopyAlone(user, list) ==
    /\ Idle("copy_to_group")
    /\ Listed(user)
    /\ ~ Contains(GroupIds(user), list)
    /\ contacts' = SetGroupIds(user, Append(GroupIds(user), list))
    /\ Ask("copy_to_group", group_body(user, <<list>>), TRUE)
    /\ GroupsAsked(user)

copy_to_group(user, list) ==
    LET ids == Append(GroupIds(user), list) IN
    /\ Idle("copy_to_group")
    /\ Listed(user)
    /\ ~ Contains(GroupIds(user), list)
    /\ contacts' = SetGroupIds(user, ids)
    /\ Ask("copy_to_group", group_body(user, ids), TRUE)
    /\ GroupsAsked(user)

(* A contact that is in the group already: the call returns, and the header *)
(* stays on the SIP struct.                                                 *)
CopyReturns(user, list) ==
    /\ Idle("copy_to_group")
    /\ Listed(user)
    /\ Contains(GroupIds(user), list)
    /\ sip' = Stamped("S", <<EventOf("group-ids")>>)
    /\ made' = made + 1
    /\ UNCHANGED <<callid, asked, inbox, line, running, contacts, groups, self, verification,
                   call, news, theirs, strays, mixed, doubted>>

(* The code of the answer is read and forgotten. *)
CopiedToGroup ==
    \E msg \in Messages :
       Answered("copy_to_group", msg) /\ UNCHANGED <<contacts, groups, self, verification>>

(* (When no group is left the code reads the byte before an empty string; it *)
(* does nothing unless that is a semicolon.)                                 *)
remove_from_group(user, list) ==
    LET ids == Without(GroupIds(user), list) IN
    /\ Idle("remove_from_group")
    /\ Listed(user)
    /\ contacts' = SetGroupIds(user, ids)
    /\ Ask("remove_from_group", group_body(user, ids), TRUE)
    /\ GroupsAsked(user)

RemovedFromGroup ==
    \E msg \in Messages :
       Answered("remove_from_group", msg) /\ UNCHANGED <<contacts, groups, self, verification>>

delete_buddy(user) ==
    /\ Idle("delete_buddy")
    /\ Listed(user)
    /\ Ask("delete_buddy", delete_buddy_body(user), TRUE)
    /\ UNCHANGED <<contacts, doubted>>

(* The contact stays in the list. *)
BuddyDeleted ==
    \E msg \in Messages :
       Answered("delete_buddy", msg) /\ UNCHANGED <<contacts, groups, self, verification>>

(* A challenge is acknowledged, whoever it was given for and whatever its code and *)
(* guid hold.                                                                      *)
add_buddy(user, list) ==
    /\ Idle("add_buddy")
    /\ AskWith("add_buddy",
               IF verification = None THEN <<EventOf("add-buddy")>>
               ELSE <<EventOf("add-buddy"), Ack(verification.challenge)>>,
               add_buddy_body(user, list), FALSE)
    /\ UNCHANGED <<contacts, doubted>>

(* Printing a code or a guid that is not set may end anyhow. *)
UnsetPrinted ==
    /\ Idle("add_buddy")
    /\ verification # None /\ verification.unset # {}
    /\ running' = "undefined"
    /\ UNCHANGED <<callid, sip, asked, inbox, line, rosterVars>>

HasBuddyNode(msg) == msg.body.kind \in {"add-buddy", "handle-request"}

(* Slips: the id of no group, -1, goes where the groups are. *)
AddedAsStranger(msg) == Contact_new(msg.body.user, <<-1>>)

(* The new contact has a group id, and no group ids: the field that moving, *)
(* copying and removing read is empty.                                      *)
parse_add_buddy_response(msg) == Contact_new(msg.body.user, <<>>)

(* The algorithm, the type and the texts are set. *)
parse_add_buddy_verification(msg) == [challenge |-> Head(msg.body.ids), unset |-> Unset]

(* Slips: the challenge is kept when the server has accepted its code. *)
BuddyAddedUncleared ==
    \E msg \in Messages :
       /\ Answered("add_buddy", msg)
       /\ contacts' = IF get_code(msg) = 200 /\ HasBuddyNode(msg)
                      THEN list_append(contacts, parse_add_buddy_response(msg)) ELSE contacts
       /\ verification' = IF get_code(msg) = 420
                          THEN parse_add_buddy_verification(msg) ELSE verification
       /\ UNCHANGED <<groups, self>>

(* An accepted code is freed with its challenge: the fields not set are freed too. *)
BuddyAdded ==
    \E msg \in Messages :
       \/ /\ Answered("add_buddy", msg)
          /\ CASE get_code(msg) = 200 ->
                    /\ contacts' = IF HasBuddyNode(msg)
                                   THEN list_append(contacts, parse_add_buddy_response(msg))
                                   ELSE contacts
                    /\ verification' = None
               [] get_code(msg) = 420 ->
                    /\ verification' = parse_add_buddy_verification(msg)
                    /\ UNCHANGED contacts
               [] OTHER -> UNCHANGED <<contacts, verification>>
          /\ UNCHANGED <<groups, self>>
       \/ /\ msg = Head(inbox) /\ get_code(msg) = 200
          /\ verification # None /\ verification.unset # {}
          /\ Unparsable("add_buddy")

handle_contact_request(user, list, result) ==
    /\ Idle("handle_contact_request")
    /\ Ask("handle_contact_request", handle_contact_request_body(user, list, result), FALSE)
    /\ UNCHANGED <<contacts, doubted>>

(* Of an answer without the node a blank contact is made. *)
parse_handle_contact_request_response(msg) ==
    Contact_new(IF HasBuddyNode(msg) THEN msg.body.user ELSE None, <<>>)

(* Whether the request was accepted or turned down, the contact is listed. *)
ContactRequestHandled ==
    \E msg \in Messages :
       /\ Answered("handle_contact_request", msg)
       /\ contacts' = IF get_code(msg) = 200
                      THEN list_append(contacts, parse_handle_contact_request_response(msg))
                      ELSE contacts
       /\ UNCHANGED <<groups, self, verification>>

-----------------------------------------------------------------------------
(* The main loop, when no call waits: it reads what has come. *)

Hears(msg) ==
    /\ running = "yes" /\ call = None /\ inbox # <<>>
    /\ msg = Head(inbox)
    /\ inbox' = Tail(inbox)
    /\ UNCHANGED <<callid, sip, asked, line, running, groups, self, verification, call,
                   made, news, theirs, strays, mixed, doubted>>

(* A reply to a request of no command is dropped. *)
ReplyDropped ==
    \E msg \in Messages : msg.kind = "reply" /\ Hears(msg) /\ UNCHANGED contacts

parse_presence_body(body) ==
    IF Listed(body.user)
    THEN [contacts EXCEPT ![find_by_userid(body.user)].online = (body.ids = <<1>>)]
    ELSE contacts

PresenceHeard ==
    \E msg \in Messages :
       msg.kind = "notification" /\ Hears(msg) /\ contacts' = parse_presence_body(msg.body)

-----------------------------------------------------------------------------
(* The server: what it knows, and what it says. *)

(* What an accepted request does there. *)
Effect(q) ==
    LET grown == [theirs EXCEPT !.version = @ + 1] IN
    CASE q.body.kind = "group-ids" -> [grown EXCEPT !.of[q.body.user] = ToSet(q.body.ids)]
      [] q.body.kind = "add-buddy" ->
           [grown EXCEPT !.of[q.body.user] = ToSet(q.body.ids), !.challenge = 0]
      [] q.body.kind = "handle-request" ->
           IF q.body.ids[2] = 1
           THEN [grown EXCEPT !.of[q.body.user] = {q.body.ids[1]}] ELSE theirs
      [] q.body.kind = "delete-buddy" -> [grown EXCEPT !.of[q.body.user] = {}]
      [] q.body.kind = "create-list" -> [grown EXCEPT !.groups = @ \cup {theirs.version + 1}]
      [] q.body.kind = "delete-list" -> [grown EXCEPT !.groups = @ \ {q.body.ids[1]}]
      [] q.body.kind \in {"permission", "displayname", "edit-list"} -> grown
      [] OTHER -> theirs

(* What it answers.  A new group is named after the version it comes with. *)
ResultBody(q) ==
    CASE q.body.kind = "create-list" -> Body("create-list", None, <<theirs.version + 1, theirs.version + 1>>)
      [] q.body.kind = "permission" -> Body("permission", q.body.user, <<theirs.version + 1>>)
      [] q.body.kind \in {"add-buddy", "handle-request", "moodphrase", "information",
                          "sms-status", "contact-info"} -> q.body
      [] OTHER -> NoBody

ServerUnchanged == UNCHANGED <<contacts, groups, self, verification, call, made, news,
                               strays, mixed>>

Accepts ==
    /\ asked # <<>>
    /\ LET q == Head(asked) IN
       /\ Answer(200, ResultBody(q))
       /\ theirs' = Effect(q)
       /\ doubted' = IF q.body.kind = "group-ids" THEN doubted \ {q.body.user}
                     ELSE IF q.body.kind \in {"add-buddy", "handle-request", "delete-buddy"}
                     THEN doubted \cup {q.body.user} ELSE doubted
    /\ ServerUnchanged

Refuses ==
    /\ asked # <<>>
    /\ LET q == Head(asked) IN
       /\ Answer(400, NoBody)
       /\ doubted' = IF q.body.kind = "group-ids" THEN doubted \cup {q.body.user} ELSE doubted
    /\ UNCHANGED theirs
    /\ ServerUnchanged

(* 420 and 421: a code is wanted. *)
Challenges ==
    /\ asked # <<>>
    /\ Head(asked).body.kind = "add-buddy"
    /\ Answer(420, Body("challenge", None, <<made>>))
    /\ theirs' = [theirs EXCEPT !.challenge = made]
    /\ UNCHANGED doubted
    /\ ServerUnchanged

(* The presence of those who are contacts there. *)
Notifies ==
    /\ line = "open"
    /\ news < MaxNews
    /\ news' = news + 1
    /\ strays' = TRUE
    /\ \E user \in {u \in Users : theirs.of[u] # {}}, online \in {0, 1} :
          inbox' = Append(inbox, Notification(Body("presence", user, <<online>>)))
    /\ UNCHANGED <<callid, sip, asked, line, running, contacts, groups, self, verification,
                   call, made, theirs, mixed, doubted>>

LineBreaks ==
    /\ Breaks
    /\ doubted' = Users
    /\ UNCHANGED <<contacts, groups, self, verification, call, made, news, theirs, strays,
                   mixed>>

-----------------------------------------------------------------------------

Init ==
    /\ RequestsInit
    /\ contacts \in SetToSeqs({Contact_new(u, <<1>>) : u \in Buddies})
    /\ groups = <<1>>
    /\ self = [status |-> 0, impression |-> 0, smsOnLineStatus |-> 0, contactVersion |-> 1]
    /\ verification = None
    /\ call = None
    /\ made = 0
    /\ news = 0
    /\ theirs = [groups |-> {1}, of |-> [u \in Users |-> IF u \in Buddies THEN {1} ELSE {}],
                 version |-> 1, challenge |-> 0]
    /\ strays = FALSE
    /\ mixed = FALSE
    /\ doubted = {}

UserCalls ==
    \/ \E v \in Values : set_status(v) \/ set_moodphrase(v) \/ set_sms_status(v)
    \/ update_info
    \/ keep_alive
    \/ set_verification_code
    \/ generate_pic_code

ListCalls ==
    \/ list_create
    \/ \E id \in ToSet(groups) : list_delete(id) \/ list_edit(id)

ContactCalls ==
    \/ subscribe_only
    \/ UnsetPrinted
    \/ \E user \in Users :
          \/ get_contact_info(user)
          \/ get_contact_info_by_no(user)
          \/ set_mobileno_permission(user)
          \/ set_displayname(user)
          \/ delete_buddy(user)
    \/ \E user \in Users, id \in Lists \cup {1} :
          \/ copy_to_group(user, id)
          \/ CopyReturns(user, id)
          \/ remove_from_group(user, id)
          \/ \E new \in Lists : move_to_group(user, id, new)
    \/ \E user \in Users, id \in Lists :
          \/ add_buddy(user, id)
          \/ \E result \in {0, 1} : handle_contact_request(user, id, result)

CallEnds ==
    \/ MoodphraseSet \/ InfoUpdated \/ SmsStatusSet
    \/ ListCreated \/ ListDeleted \/ ListEdited
    \/ ContactInfoCame \/ PermissionSet \/ DisplaynameSet
    \/ CopiedToGroup \/ RemovedFromGroup \/ BuddyDeleted \/ BuddyAdded
    \/ ContactRequestHandled
    \/ NoAnswer
    \/ WaitsForEver

Loop == ReplyDropped \/ PresenceHeard

Server == Accepts \/ Refuses \/ Challenges \/ Notifies \/ LineBreaks

Next == UserCalls \/ ListCalls \/ ContactCalls \/ CallEnds \/ Loop \/ Server

Spec == Init /\ [][Next]_vars

-----------------------------------------------------------------------------
(* Properties. *)

(* The type invariant. *)
TypeOK ==
    /\ callid \in Nat
    /\ sip.callid \in Nat
    /\ line \in {"open", "closed", "reset"}
    /\ running \in {"yes", "hung", "undefined"}
    /\ contacts \in Seq([id : Users \cup {None}, groupids : Seq(Lists \cup {1}), online : BOOLEAN])
    /\ made \in 0..MaxCalls
    /\ news \in 0..MaxNews
    /\ strays \in BOOLEAN /\ mixed \in BOOLEAN
    /\ doubted \subseteq Users

(* A call that waits will be answered as long as the channel lives: its request *)
(* is with the server, or the answer is on its way and was not thrown away with *)
(* what an earlier call read too much (LOF_sip.c:408).                          *)
AnswerComing ==
    (call # None /\ line = "open" /\ running # "undefined") =>
        \/ \E i \in DOMAIN asked : asked[i].callid = call.id
        \/ \E i \in DOMAIN inbox : Own(inbox[i])

(* A call takes an answer that is not its own only if something that nobody *)
(* waits for was sent before: a request whose answer no call reads (status, *)
(* keep-alive, subscription, search by number, moving a contact), or a      *)
(* notification.                                                            *)
OwnAnswers == mixed => strays

(* As long as every call gets its own answer the buddy lists here are those the *)
(* server has, between any two calls.                                           *)
GroupListAgrees ==
    (~mixed /\ line = "open" /\ (call = None \/ call.op \notin {"list_create", "list_delete"}))
        => ToSet(groups) = theirs.groups

(* The group ids of a contact are changed before the server is asked.  Here and *)
(* there they differ only while a request is on its way, after a refusal, and   *)
(* where the code does not take them over: of a buddy just added or deleted.    *)
GroupIdsAgree ==
    ~mixed => \A user \in Users :
        (/\ Listed(user)
         /\ user \notin doubted
         /\ \A i \in DOMAIN asked : asked[i].body.kind = "group-ids" => asked[i].body.user # user)
        => ToSet(GroupIds(user)) = theirs.of[user]

(* A request ends with its own headers.  What may stand before them are the     *)
(* headers of copies that were not carried out (LOF_contact.c:463), never those *)
(* of a request already written.                                                *)
HeadersOwn ==
    \A i \in DOMAIN asked :
        LET header == asked[i].header
            own == IF header[Len(header)] \in {Ack(n) : n \in 1..MaxCalls} THEN 2 ELSE 1
        IN  /\ header[Len(header) - own + 1] = EventOf(asked[i].body.kind)
            /\ \A j \in 1..(Len(header) - own) : header[j] = Event("SetContactInfo")

(* One challenge is kept, not one per person (LOF_contact.c:576): an add_buddy    *)
(* acknowledges the challenge the server gave last, whoever that was given for    *)
(* and whoever is added now, as long as the server has accepted none since; and   *)
(* if it gave none, it acknowledges none.  So no challenge the server waits for   *)
(* is forgotten by a refusal, by another challenge or by the calls between, and   *)
(* none is answered twice once it was accepted.                                   *)
AckIsCurrent ==
    ~mixed => \A i \in DOMAIN asked : asked[i].body.kind = "add-buddy" =>
        {n \in 1..MaxCalls : Contains(asked[i].header, Ack(n))} = {theirs.challenge} \ {0}
===============================================================================
