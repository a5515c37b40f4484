----------------------------- MODULE RosterProofs -----------------------------
(***************************************************************************)
(* What the contact list and the buddy lists keep, for any number of       *)
(* users, calls and notifications.                                         *)
(*                                                                         *)
(* The properties of Roster relate a call to an answer that may be         *)
(* anywhere between here and the server.  What makes them inductive is     *)
(* that call ids grow along the way: the answers that have come, then the  *)
(* requests still out, the call that waits being the youngest.  So an      *)
(* answer that is the call's own finds no request behind it.               *)
(***************************************************************************)
EXTENDS Roster, ListLemmas, FiniteSetTheorems

-----------------------------------------------------------------------------
(* What is written and read. *)

Numbers == Values \cup Nat
Types == {"none", "S", "SUB", "R"}
Headers == (Kinds \cup {"SetContactInfo", "GetContactInfo", "SetUserInfo", "Ack"}) \X Nat

AboutUser == {"group-ids", "permission", "delete-buddy", "add-buddy", "handle-request"}
WithNumber == {"moodphrase", "information", "sms-status", "delete-list", "add-buddy",
               "handle-request"}

RequestBodies ==
    {body \in Bodies :
        /\ body.kind \in Untold \cup Awaited
        /\ body.kind \in AboutUser => body.user \in Users
        /\ body.kind = "group-ids" => body.ids \in Seq(Lists \cup {1})
        /\ body.kind \in WithNumber => body.ids # <<>>}

(* A header line, the headers queued before it being those of copies that were *)
(* not carried out.                                                            *)
Lines(header, own, kind) ==
    /\ header[Len(header) - own + 1] = EventOf(kind)
    /\ \A j \in 1..(Len(header) - own) : header[j] = Event("SetContactInfo")

HeaderOwn(q) ==
    LET last == q.header[Len(q.header)] IN
    \/ /\ Len(q.header) >= 1
       /\ last[1] # "Ack"
       /\ Lines(q.header, 1, q.body.kind)
    \/ /\ Len(q.header) >= 2
       /\ q.body.kind = "add-buddy"
       /\ last \in {Ack(n) : n \in 1..MaxCalls}
       /\ Lines(q.header, 2, q.body.kind)

RequestType ==
    {q \in [type : Types, callid : Nat, header : Seq(Headers), body : RequestBodies] :
        HeaderOwn(q)}

MessageType ==
    {m \in [kind : {"reply", "notification"}, callid : Nat, code : Nat, body : Bodies] :
        /\ HasBuddyNode(m) => m.body.user \in Users
        /\ m.body.kind \in {"moodphrase", "information", "sms-status", "permission"} =>
              m.body.ids # <<>>
        /\ m.body.kind = "create-list" => m.body.ids \in Nat \X Nat
        /\ m.code = 420 => m.body.ids \in Seq(1..MaxCalls) /\ m.body.ids # <<>>}

CallType ==
    {c \in [op : Calls, id : Nat, body : RequestBodies] :
        /\ c.op = "list_create" <=> c.body.kind = "create-list"
        /\ c.op = "list_delete" <=> c.body.kind = "delete-list"
        /\ c.op = "add_buddy" <=> c.body.kind = "add-buddy"}

(* The types of what TypeOK leaves open, and the requests that go with them. *)
RosterTypes ==
    /\ TypeOK
    /\ sip \in [type : Types, callid : Nat, header : Seq({Event("SetContactInfo")})]
    /\ asked \in Seq(RequestType)
    /\ inbox \in Seq(MessageType)
    /\ asked # <<>> => made >= 1
    /\ groups \in Seq(Nat)
    /\ self \in [status : Numbers, impression : Numbers, smsOnLineStatus : Numbers,
                 contactVersion : Numbers]
    /\ verification \in {None} \cup [challenge : 1..MaxCalls, unset : SUBSET Unset]
    /\ call \in {None} \cup CallType
    /\ theirs \in [groups : SUBSET Nat, of : [Users -> SUBSET Numbers], version : Nat,
                   challenge : 0..MaxCalls]

-----------------------------------------------------------------------------
(* Call ids grow along the way. *)

IdsGrow ==
    /\ line # "open" => asked = <<>>
    /\ call # None => call.id < callid
    /\ \A i \in DOMAIN asked :
          /\ asked[i].callid < callid
          /\ call # None => asked[i].callid <= call.id
          /\ \A j \in DOMAIN asked : i < j => asked[i].callid < asked[j].callid
    /\ \A i \in DOMAIN inbox : inbox[i].kind = "reply" =>
          /\ inbox[i].callid < callid
          /\ call # None => inbox[i].callid <= call.id
          /\ \A j \in DOMAIN asked : inbox[i].callid < asked[j].callid
          /\ \A j \in DOMAIN inbox :
                i < j /\ inbox[j].kind = "reply" => inbox[i].callid < inbox[j].callid

(* The answer of the call that waits is there. *)
Come(i) == call # None /\ i \in DOMAIN inbox /\ Own(inbox[i])
NotCome == \A i \in DOMAIN inbox : ~Come(i)

(* While nothing was sent that no call waits for, the channel holds at most the *)
(* request of the call that waits, or its answer.                               *)
Quiet ==
    ~strays =>
        /\ ~mixed
        /\ Len(asked) + Len(inbox) <= IF call = None THEN 0 ELSE 1
        /\ \A i \in DOMAIN asked : asked[i].callid = call.id
        /\ \A i \in DOMAIN inbox : Own(inbox[i])

(* As long as every call gets its own answer, a request that some call waits for *)
(* is that of the call that waits now.                                           *)
RequestOwn ==
    \A i \in DOMAIN asked :
        /\ call # None /\ asked[i].callid = call.id => asked[i].body = call.body
        /\ ~mixed /\ asked[i].body.kind \notin Untold => call # None /\ asked[i].callid = call.id

-----------------------------------------------------------------------------
(* The buddy lists. *)

(* The groups here once the answer m is taken. *)
GroupsAfter(m) ==
    IF call.op = "list_create" /\ m.code = 200 THEN ToSet(groups) \cup {m.body.ids[1]}
    ELSE IF call.op = "list_delete" /\ m.code = 200 THEN ToSet(groups) \ {call.body.ids[1]}
    ELSE ToSet(groups)

GroupsFollow ==
    (~mixed /\ line = "open") =>
        /\ Distinct(groups)
        /\ \A id \in theirs.groups : id <= theirs.version
        /\ NotCome => ToSet(groups) = theirs.groups
        /\ \A i \in DOMAIN inbox : Come(i) =>
              /\ theirs.groups = GroupsAfter(inbox[i])
              /\ call.op = "list_create" /\ inbox[i].code = 200 =>
                    /\ inbox[i].body.kind = "create-list"
                    /\ inbox[i].body.ids[1] \notin ToSet(groups)

-----------------------------------------------------------------------------
(* The group ids of contacts. *)

AsksGroups(q, user) == q.body.kind = "group-ids" /\ q.body.user = user

(* The last request about a contact's groups names those it has here. *)
LastAsked ==
    ~mixed => \A i \in DOMAIN asked, user \in Users :
        (/\ AsksGroups(asked[i], user)
         /\ \A j \in DOMAIN asked : i < j => ~AsksGroups(asked[j], user))
        => Listed(user) /\ GroupIds(user) = asked[i].body.ids

(* Who comes into the list with an answer is in doubt. *)
NewInDoubt ==
    ~mixed => \A i \in DOMAIN inbox :
        Come(i) /\ inbox[i].code = 200 /\ HasBuddyNode(inbox[i])
            => inbox[i].body.user \in doubted

-----------------------------------------------------------------------------
(* The verification of a buddy. *)

(* The challenge here, 0 if there is none, is the one the server waits for. *)
Challenge == IF verification = None THEN 0 ELSE verification.challenge

Challenged == Challenge = theirs.challenge

(* A request to add a buddy acknowledges that one, and no other request does. *)
Acknowledges(q) ==
    \A n \in 1..MaxCalls :
        Contains(q.header, Ack(n)) <=> q.body.kind = "add-buddy" /\ theirs.challenge = n

AcksFollow ==
    (~mixed /\ line = "open") =>
        /\ \A i \in DOMAIN asked : Acknowledges(asked[i])
        /\ NotCome => Challenged
        /\ \A i \in DOMAIN inbox : Come(i) =>
              CASE call.op = "add_buddy" /\ inbox[i].code = 420 ->
                     Head(inbox[i].body.ids) = theirs.challenge
                [] call.op = "add_buddy" /\ inbox[i].code = 200 -> theirs.challenge = 0
                [] OTHER -> Challenged

RosterInv ==
    /\ RosterTypes
    /\ IdsGrow
    /\ AnswerComing
    /\ Quiet
    /\ RequestOwn
    /\ GroupsFollow
    /\ LastAsked
    /\ GroupIdsAgree
    /\ NewInDoubt
    /\ AcksFollow

-----------------------------------------------------------------------------
(* What is written. *)

(* Taking an id out of a list of group ids leaves a list of group ids. *)
LEMMA WithoutIsSeq ==
    ASSUME NEW S, NEW ids \in Seq(S), NEW id
    PROVE  Without(ids, id) \in Seq(S)
<1>1. PICK n \in Nat : n = Len(ids)
  BY LenProperties
<1> DEFINE Q == Seq(S)
<1>2. <<>> \in Q /\ \A i \in 1..n : \A s \in Q : Append(s, ids[i]) \in Q
  BY <1>1, EmptySeq, ElementOfSeq, AppendProperties
<1> DEFINE step == [i \in 1..n |-> [s \in Q |-> IF ids[i] = id THEN s ELSE Append(s, ids[i])]]
           Unfold(f) == [i \in 0..Len(ids) |->
                          IF i = 0 THEN <<>>
                          ELSE IF ids[i] = id THEN f[i - 1] ELSE Append(f[i - 1], ids[i])]
           F == CHOOSE f : f = Unfold(f)
<1> HIDE DEF Q
<1>3. step \in [1..n -> [Q -> Q]]
  BY <1>2
<1>4. PICK f \in [0..n -> Q] : f[0] = <<>> /\ \A i \in 1..n : f[i] = step[i][f[i - 1]]
  <2> DEFINE base == <<>>
  <2>1. base \in Q
    BY <1>2
  <2> HIDE DEF step, base
  <2>2. \E f \in [0..n -> Q] : Iterates(f, base, step, n)
    BY <2>1, <1>3, Iteration
  <2> QED BY <2>2 DEF base, Iterates
<1>5. ASSUME NEW i \in 1..n
      PROVE  f[i] = IF ids[i] = id THEN f[i - 1] ELSE Append(f[i - 1], ids[i])
  <2>1. f[i - 1] \in Q
    <3>1. i - 1 \in 0..n
      OBVIOUS
    <3> QED BY <3>1, <1>4
  <2> QED BY <2>1, <1>4
<1>6. f = Unfold(f)
  <2>1. ASSUME NEW i \in 0..n PROVE f[i] = Unfold(f)[i]
    <3>1. CASE i = 0
      BY <3>1, <1>1, <1>4
    <3>2. CASE i # 0
      <4>1. f[i] = IF ids[i] = id THEN f[i - 1] ELSE Append(f[i - 1], ids[i])
        <5>1. i \in 1..n
          BY <3>2
        <5> QED BY <5>1, <1>5
      <4>2. Unfold(f)[i] = IF ids[i] = id THEN f[i - 1] ELSE Append(f[i - 1], ids[i])
        BY <3>2, <1>1
      <4> QED BY <4>1, <4>2
    <3> QED BY <3>1, <3>2
  <2>2. DOMAIN Unfold(f) = 0..n
    BY <1>1
  <2>3. Unfold(f) = [i \in 0..n |-> Unfold(f)[i]]
    BY <1>1
  <2>4. f = [i \in 0..n |-> f[i]]
    BY <1>4
  <2> QED BY <2>1, <2>3, <2>4
<1>7. F = Unfold(F)
  <2> HIDE DEF Unfold
  <2> QED BY <1>6
<1>8. /\ F[0] = <<>>
      /\ \A i \in 1..n :
            F[i] = IF ids[i] = id THEN F[i - 1] ELSE Append(F[i - 1], ids[i])
  <2> HIDE DEF F
  <2>1. \A i \in 0..n : F[i] = IF i = 0 THEN <<>>
                               ELSE IF ids[i] = id THEN F[i - 1] ELSE Append(F[i - 1], ids[i])
    BY <1>1, <1>7
  <2> QED BY <2>1
<1>9. F[n] \in Q
  <2> HIDE DEF F
  <2> DEFINE P == {i \in 0..n : F[i] \in Q}
  <2>1. 0 \in P
    BY <1>2, <1>8
  <2>2. ASSUME NEW i \in 1..n, i - 1 \in P PROVE i \in P
    <3>1. F[i] \in Q
      BY <2>2, <1>8, <1>2
    <3> QED BY <3>1
  <2> HIDE DEF P
  <2>3. n \in P
    BY <2>1, <2>2, UpTo
  <2> QED BY <2>3 DEF P
<1>10. Without(ids, id) = F[n]
  BY <1>1 DEF Without
<1> QED BY <1>9, <1>10 DEF Q

(* The event header of a request is a header line, and no acknowledgement. *)
LEMMA EventOfKind ==
    ASSUME NEW kind \in Kinds
    PROVE  EventOf(kind) \in Headers /\ EventOf(kind)[1] # "Ack"
BY DEF EventOf, Event, Headers, Kinds, Untold, Awaited

(* The struct once it is stamped. *)
LEMMA StampedIs ==
    ASSUME NEW Kept, sip \in [type : Types, callid : Nat, header : Kept],
           NEW type, NEW headers
    PROVE  Stamped(type, headers)
             = [type |-> type, callid |-> callid, header |-> sip.header \o headers]
<1>1. set_type(sip, type) = [type |-> type, callid |-> callid, header |-> sip.header]
  <2>1. PICK r : r = [sip EXCEPT !.type = type]
    OBVIOUS
  <2>2. r = [type |-> type, callid |-> sip.callid, header |-> sip.header]
    BY <2>1
  <2>3. [r EXCEPT !.callid = callid]
          = [type |-> type, callid |-> callid, header |-> sip.header]
    BY <2>2
  <2> QED BY <2>1, <2>3 DEF set_type
<1>2. add_header(set_type(sip, type), headers)
        = [type |-> type, callid |-> callid, header |-> sip.header \o headers]
  BY <1>1 DEF add_header
<1> QED BY <1>2 DEF Stamped

(* What is written bears the next call id, the headers left on the struct and *)
(* its own after them; the struct is left without any.                        *)
LEMMA Stamps ==
    ASSUME sip \in [type : Types, callid : Nat, header : Seq({Event("SetContactInfo")})],
           callid \in Nat, NEW type \in Types, NEW headers \in Seq(Headers), NEW body,
           Write(Stamped(type, headers), body)
    PROVE  /\ callid' = callid + 1
           /\ asked' = IF line = "open"
                       THEN Append(asked, [type |-> type, callid |-> callid,
                                           header |-> sip.header \o headers, body |-> body])
                       ELSE asked
           /\ sip' \in [type : Types, callid : Nat, header : Seq({Event("SetContactInfo")})]
           /\ UNCHANGED <<inbox, line>>
<1> DEFINE Kept == Seq({Event("SetContactInfo")})
<1>1. Stamped(type, headers) = [type |-> type, callid |-> callid, header |-> sip.header \o headers]
  BY StampedIs
<1> HIDE DEF Kept
<1>2. to_string(Stamped(type, headers), body)
        = [type |-> type, callid |-> callid, header |-> sip.header \o headers, body |-> body]
  BY <1>1 DEF to_string
<1>3. sip' = [type |-> type, callid |-> callid, header |-> <<>>]
  BY <1>1 DEF Write
<1>4. <<>> \in Kept
  BY EmptySeq DEF Kept
<1>5. sip' \in [type : Types, callid : Nat, header : Kept]
  BY <1>3, <1>4
<1> QED BY <1>2, <1>5 DEF Write, Kept

-----------------------------------------------------------------------------
(* The steps, by what they do to the channel. *)

SipType == [type : Types, callid : Nat, header : Seq({Event("SetContactInfo")})]

SelfType == [status : Numbers, impression : Numbers, smsOnLineStatus : Numbers,
             contactVersion : Numbers]

(* A contact's groups are changed before the request is written. *)
ContactsChanged(body) ==
    IF body.kind = "group-ids"
    THEN /\ Listed(body.user)
         /\ contacts' = SetGroupIds(body.user, body.ids)
         /\ GroupsAsked(body.user)
    ELSE UNCHANGED <<contacts, doubted>>

Sent(type, headers, body) ==
    /\ running = "yes" /\ call = None /\ made < MaxCalls
    /\ callid' = callid + 1
    /\ asked' = IF line = "open"
                THEN Append(asked, [type |-> type, callid |-> callid,
                                    header |-> sip.header \o headers, body |-> body])
                ELSE asked
    /\ sip' \in SipType
    /\ made' = made + 1
    /\ ContactsChanged(body)
    /\ UNCHANGED <<inbox, line, running, groups, verification, mixed, news, theirs>>

(* A call that only sends. *)
Tells ==
    \E type \in Types, body \in RequestBodies :
        /\ body.kind \in Untold
        /\ Sent(type, <<EventOf(body.kind)>>, body)
        /\ strays' = TRUE
        /\ call' = call
        /\ self' \in SelfType

HeadersOf(body, headers) ==
    headers = IF body.kind = "add-buddy" /\ verification # None
              THEN <<EventOf("add-buddy"), Ack(verification.challenge)>>
              ELSE <<EventOf(body.kind)>>

(* A call that waits, unless it finds that it cannot send. *)
Asks ==
    \E c \in CallType, headers \in Seq(Headers) :
        /\ c.body.kind \in Awaited
        /\ c.id = callid
        /\ HeadersOf(c.body, headers)
        /\ Sent("S", headers, c.body)
        /\ call' = c \/ (call' = None /\ line = "reset")
        /\ UNCHANGED <<strays, self>>

GroupsTaken(m) ==
    IF call.op = "list_create" /\ get_code(m) = 200
    THEN m.body.kind = "create-list" /\ groups' = list_append(groups, m.body.ids[1])
    ELSE IF call.op = "list_delete" /\ get_code(m) = 200
    THEN groups' = BuddyGroup_remove(call.body.ids[1])
    ELSE groups' = groups

ContactsTaken(m) ==
    \/ contacts' = contacts
    \/ /\ get_code(m) = 200 /\ HasBuddyNode(m)
       /\ contacts' = list_append(contacts, Contact_new(m.body.user, <<>>))
    \/ contacts' = list_append(contacts, Contact_new(None, <<>>))

VerificationTaken(m) ==
    IF call.op = "add_buddy" /\ get_code(m) = 200 THEN verification' = None
    ELSE IF call.op = "add_buddy" /\ get_code(m) = 420
    THEN verification' = parse_add_buddy_verification(m)
    ELSE verification' = verification

(* A call takes the next message for its answer, and n - 1 more away. *)
EndsWith(m, n) ==
    /\ running = "yes" /\ call # None
    /\ inbox # <<>> /\ n \in 1..Len(inbox)
    /\ m = Head(inbox)
    /\ inbox' = SubSeq(inbox, n + 1, Len(inbox))
    /\ running' \in {"yes", "undefined"}
    /\ call' = None
    /\ mixed' = (mixed \/ ~Own(m))
    /\ GroupsTaken(m)
    /\ ContactsTaken(m)
    /\ VerificationTaken(m)
    /\ self' \in SelfType
    /\ UNCHANGED <<callid, sip, asked, line, made, news, theirs, strays, doubted>>

Ends == \E m, n : EndsWith(m, n)

(* A call gets no answer, or none that can be read. *)
Stuck ==
    /\ running = "yes" /\ call # None
    /\ \/ call' = None /\ line = "reset" /\ inbox = <<>>
       \/ call' = call /\ (line = "open" => running' = "undefined")
    /\ running' \in {"yes", "hung", "undefined"}
    /\ UNCHANGED <<callid, sip, asked, inbox, line, contacts, groups, self, verification,
                   made, news, theirs, strays, mixed, doubted>>

(* What is not set has been printed. *)
Garbled ==
    /\ running' = "undefined"
    /\ UNCHANGED <<callid, sip, asked, inbox, line, rosterVars>>

(* A copy that is not carried out leaves its header on the struct. *)
LeavesHeader ==
    /\ sip' \in SipType
    /\ made < MaxCalls
    /\ made' = made + 1
    /\ UNCHANGED <<callid, asked, inbox, line, running, contacts, groups, self, verification,
                   call, news, theirs, strays, mixed, doubted>>

Heard ==
    /\ Hears(Head(inbox))
    /\ \/ contacts' = contacts
       \/ \E user : \E online \in BOOLEAN :
             /\ Listed(user)
             /\ contacts' = [contacts EXCEPT ![find_by_userid(user)].online = online]

(* The first position of a contact who is listed. *)
LEMMA Finds ==
    ASSUME RosterTypes, NEW user, Listed(user)
    PROVE  /\ find_by_userid(user) \in DOMAIN contacts
           /\ contacts[find_by_userid(user)].id = user
           /\ GroupIds(user) \in Seq(Lists \cup {1})
<1>1. /\ contacts \in Seq([id : Users \cup {None}, groupids : Seq(Lists \cup {1}), online : BOOLEAN])
      /\ DOMAIN contacts \in SUBSET Nat
  BY LenProperties DEF RosterTypes, TypeOK
<1>2. \E i \in Positions(user) : \A j \in Positions(user) : i <= j
  BY <1>1, LeastElement DEF Listed, Positions
<1>3. find_by_userid(user) \in Positions(user)
  BY <1>2 DEF find_by_userid
<1>4. find_by_userid(user) \in DOMAIN contacts /\ contacts[find_by_userid(user)].id = user
  BY <1>3 DEF Positions
<1>5. contacts[find_by_userid(user)]
        \in [id : Users \cup {None}, groupids : Seq(Lists \cup {1}), online : BOOLEAN]
  BY <1>1, <1>4, LenProperties, ElementOfSeq
<1> QED BY <1>4, <1>5 DEF GroupIds

(* A call that tells the server something, and waits for no answer.         *)
LEMMA TellIs ==
    ASSUME RosterTypes, NEW type \in Types, NEW body \in RequestBodies, body.kind \in Untold,
           NEW op, Idle(op), Tell(type, body), ContactsChanged(body),
           UNCHANGED groups, self' \in SelfType
    PROVE  Tells
<1>1. <<EventOf(body.kind)>> \in Seq(Headers)
  BY EventOfKind DEF Kinds
<1>2. sip \in [type : Types, callid : Nat, header : Seq({Event("SetContactInfo")})] /\ callid \in Nat
  BY DEF RosterTypes, TypeOK
<1>3. /\ callid' = callid + 1
      /\ asked' = IF line = "open"
                  THEN Append(asked, [type |-> type, callid |-> callid,
                                      header |-> sip.header \o <<EventOf(body.kind)>>,
                                      body |-> body])
                  ELSE asked
      /\ sip' \in SipType
      /\ UNCHANGED <<inbox, line>>
  BY <1>1, <1>2, Stamps DEF Tell, SipType
<1>4. Sent(type, <<EventOf(body.kind)>>, body)
  BY <1>3 DEF Sent, Tell, Idle
<1> QED BY <1>4 DEF Tells, Tell

(* A call that asks the server something, and waits for the answer.         *)
LEMMA AskIs ==
    ASSUME RosterTypes, NEW body \in RequestBodies, body.kind \in Awaited,
           NEW op, NEW headers \in Seq(Headers), NEW checksSend, HeadersOf(body, headers),
           Idle(op), AskWith(op, headers, body, checksSend), ContactsChanged(body),
           op = "list_create" <=> body.kind = "create-list",
           op = "list_delete" <=> body.kind = "delete-list",
           op = "add_buddy" <=> body.kind = "add-buddy"
    PROVE  Asks
<1>1. sip \in [type : Types, callid : Nat, header : Seq({Event("SetContactInfo")})] /\ callid \in Nat
  BY DEF RosterTypes, TypeOK
<1>2. "S" \in Types
  BY DEF Types
<1>3. /\ callid' = callid + 1
      /\ asked' = IF line = "open"
                  THEN Append(asked, [type |-> "S", callid |-> callid,
                                      header |-> sip.header \o headers, body |-> body])
                  ELSE asked
      /\ sip' \in SipType
      /\ UNCHANGED <<inbox, line>>
  BY <1>1, <1>2, Stamps DEF AskWith, SipType
<1> DEFINE c == [op |-> op, id |-> callid, body |-> body]
<1>4. c \in CallType /\ c.id = callid /\ c.body = body
  BY <1>1 DEF CallType, Idle
<1>5. Sent("S", headers, c.body)
  BY <1>3, <1>4 DEF Sent, AskWith, Idle
<1>6. call' = c \/ (call' = None /\ line = "reset")
  BY DEF AskWith, SendFails
<1>7. UNCHANGED <<strays, self>>
  BY DEF AskWith
<1> HIDE DEF c
<1> QED BY <1>4, <1>5, <1>6, <1>7 DEF Asks

(* A body is a request's if what it is about asks for no more than it has. *)
LEMMA BodyIs ==
    ASSUME NEW kind \in Untold \cup Awaited, NEW user \in Users \cup {None},
           NEW ids \in Seq(Numbers),
           kind \in AboutUser => user \in Users,
           kind = "group-ids" => ids \in Seq(Lists \cup {1}),
           kind \in WithNumber => ids # <<>>
    PROVE  Body(kind, user, ids) \in RequestBodies
<1>1. Body(kind, user, ids) \in Bodies
  BY DEF Body, Bodies, Numbers, Kinds
<1> QED BY <1>1 DEF Body, RequestBodies

(* Kinds of requests without a number, about nobody or about a user. *)
LEMMA PlainBodyIs ==
    ASSUME NEW kind \in (Untold \cup Awaited) \ ({"group-ids"} \cup WithNumber),
           NEW user \in Users \cup {None}, kind \in AboutUser => user \in Users
    PROVE  Body(kind, user, <<>>) \in RequestBodies
<1>1. <<>> \in Seq(Numbers)
  BY EmptySeq
<1>2. kind \in Untold \cup Awaited /\ kind # "group-ids" /\ kind \notin WithNumber
  OBVIOUS
<1> QED BY <1>1, <1>2, BodyIs

(* Kinds of requests with one number. *)
LEMMA NumberBodyIs ==
    ASSUME NEW kind \in (Untold \cup Awaited) \ {"group-ids"},
           NEW user \in Users \cup {None}, kind \in AboutUser => user \in Users,
           NEW v \in Numbers
    PROVE  Body(kind, user, <<v>>) \in RequestBodies
<1>1. <<v>> \in Seq(Numbers) /\ <<v>> # <<>>
  OBVIOUS
<1>2. kind \in Untold \cup Awaited /\ kind # "group-ids"
  OBVIOUS
<1> QED BY <1>1, <1>2, BodyIs

(* Lists of group ids are lists of numbers. *)
LEMMA GroupIdsAreNumbers ==
    ASSUME NEW ids \in Seq(Lists \cup {1})
    PROVE  ids \in Seq(Numbers)
<1>1. Lists \cup {1} \subseteq Numbers
  BY RosterAssumption DEF Numbers
<1> QED BY <1>1, SeqMonotonic

(* The calls that only send. *)
LEMMA TellSteps ==
    ASSUME RosterTypes,
           \/ \E v \in Values : set_status(v)
           \/ keep_alive
           \/ subscribe_only
           \/ \E user \in Users : get_contact_info_by_no(user)
           \/ \E user \in Users, id \in Lists \cup {1}, new \in Lists : move_to_group(user, id, new)
    PROVE  Tells
<1>1. /\ self \in SelfType
      /\ \A type \in {"S", "SUB", "R"} : type \in Types
  BY EmptySeq DEF RosterTypes, SelfType, Types
<1>2. ASSUME NEW v \in Values, set_status(v)
      PROVE  Tells
  <2>1. set_status_body(v) \in RequestBodies /\ set_status_body(v).kind = "status"
    <3>1. "status" \in (Untold \cup Awaited) \ {"group-ids"} /\ "status" \notin AboutUser
      BY DEF Untold, AboutUser
    <3> QED BY <3>1, NumberBodyIs DEF set_status_body, Numbers, Body
  <2>2. self' \in SelfType
    BY <1>1, <1>2 DEF set_status, SelfType, Numbers
  <2>3. Idle("set_status") /\ Tell("S", set_status_body(v))
        /\ UNCHANGED <<contacts, groups, doubted>>
    BY <1>2 DEF set_status
  <2>4. ContactsChanged(set_status_body(v))
    BY <2>1, <2>3 DEF ContactsChanged
  <2> QED BY <1>1, <2>1, <2>2, <2>3, <2>4, TellIs DEF Untold
<1>3. CASE keep_alive
  <2>1. keep_alive_body \in RequestBodies /\ keep_alive_body.kind = "keep-alive"
    <3>1. /\ "keep-alive" \in (Untold \cup Awaited) \ ({"group-ids"} \cup WithNumber)
          /\ "keep-alive" \notin AboutUser
      BY DEF Untold, AboutUser, WithNumber
    <3> QED BY <3>1, PlainBodyIs DEF keep_alive_body, Body
  <2>3. Idle("keep_alive") /\ Tell("R", keep_alive_body)
        /\ UNCHANGED <<contacts, groups, doubted>> /\ self' = self
    BY <1>3 DEF keep_alive
  <2>4. ContactsChanged(keep_alive_body)
    BY <2>1, <2>3 DEF ContactsChanged
  <2> QED BY <1>1, <2>1, <2>3, <2>4, TellIs DEF Untold
<1>4. CASE subscribe_only
  <2>1. subscribe_body \in RequestBodies /\ subscribe_body.kind = "subscribe"
    <3>1. /\ "subscribe" \in (Untold \cup Awaited) \ ({"group-ids"} \cup WithNumber)
          /\ "subscribe" \notin AboutUser
      BY DEF Untold, AboutUser, WithNumber
    <3> QED BY <3>1, PlainBodyIs DEF subscribe_body, Body
  <2>3. Idle("subscribe_only") /\ Tell("SUB", subscribe_body)
        /\ UNCHANGED <<contacts, groups, doubted>> /\ self' = self
    BY <1>4 DEF subscribe_only
  <2>4. ContactsChanged(subscribe_body)
    BY <2>1, <2>3 DEF ContactsChanged
  <2> QED BY <1>1, <2>1, <2>3, <2>4, TellIs DEF Untold
<1>5. ASSUME NEW user \in Users, get_contact_info_by_no(user)
      PROVE  Tells
  <2>1. /\ contact_info_by_no_body(user) \in RequestBodies
        /\ contact_info_by_no_body(user).kind = "contact-info-by-no"
    <3>1. /\ "contact-info-by-no" \in (Untold \cup Awaited) \ ({"group-ids"} \cup WithNumber)
          /\ "contact-info-by-no" \notin AboutUser
      BY DEF Untold, AboutUser, WithNumber
    <3> QED BY <3>1, PlainBodyIs DEF contact_info_by_no_body, Body
  <2>3. Idle("get_contact_info_by_no") /\ Tell("S", contact_info_by_no_body(user))
        /\ UNCHANGED <<contacts, groups, doubted>> /\ self' = self
    BY <1>5 DEF get_contact_info_by_no
  <2>4. ContactsChanged(contact_info_by_no_body(user))
    BY <2>1, <2>3 DEF ContactsChanged
  <2> QED BY <1>1, <2>1, <2>3, <2>4, TellIs DEF Untold
<1>6. ASSUME NEW user \in Users, NEW old \in Lists \cup {1}, NEW new \in Lists,
             move_to_group(user, old, new)
      PROVE  Tells
  <2> DEFINE ids == Append(Without(GroupIds(user), old), new)
             body == move_to_group_body(user, ids)
  <2>1. ids \in Seq(Lists \cup {1})
    BY <1>6, Finds, WithoutIsSeq, AppendProperties DEF move_to_group
  <2>2. /\ body \in RequestBodies /\ body.kind = "group-ids"
        /\ body.user = user /\ body.ids = ids
    <3> HIDE DEF ids
    <3>1. "group-ids" \in Untold \cup Awaited /\ "group-ids" \notin WithNumber
      BY DEF Untold, WithNumber
    <3> QED BY <2>1, <3>1, GroupIdsAreNumbers, BodyIs DEF move_to_group_body, Body
  <2>3. /\ Idle("move_to_group") /\ Tell("S", body) /\ UNCHANGED groups /\ self' = self
        /\ Listed(user) /\ contacts' = SetGroupIds(user, ids) /\ GroupsAsked(user)
    BY <1>6 DEF move_to_group
  <2> HIDE DEF ids, body
  <2>4. ContactsChanged(body)
    BY <2>2, <2>3 DEF ContactsChanged
  <2> QED BY <1>1, <2>2, <2>3, <2>4, TellIs DEF Untold
<1> QED BY <1>2, <1>3, <1>4, <1>5, <1>6

(* A call that asks with the event header alone. *)
LEMMA AskPlainIs ==
    ASSUME RosterTypes, NEW body \in RequestBodies, NEW kind, body.kind = kind, kind \in Awaited,
           NEW op, NEW checksSend, Idle(op), Ask(op, body, checksSend), ContactsChanged(body),
           op = "list_create" <=> kind = "create-list",
           op = "list_delete" <=> kind = "delete-list",
           op # "add_buddy", kind # "add-buddy"
    PROVE  Asks
<1>1. <<EventOf(body.kind)>> \in Seq(Headers)
  BY EventOfKind DEF Kinds
<1>2. HeadersOf(body, <<EventOf(body.kind)>>)
  BY DEF HeadersOf
<1> QED BY <1>1, <1>2, AskIs DEF Ask

(* The calls that wait. *)
LEMMA AskSteps ==
    ASSUME RosterTypes,
           \/ \E v \in Values : set_moodphrase(v) \/ set_sms_status(v)
           \/ update_info
           \/ list_create
           \/ \E id \in ToSet(groups) : list_delete(id) \/ list_edit(id)
           \/ \E user \in Users :
                 \/ get_contact_info(user)
                 \/ set_mobileno_permission(user)
                 \/ set_displayname(user)
                 \/ delete_buddy(user)
           \/ \E user \in Users, id \in Lists \cup {1} :
                 \/ copy_to_group(user, id)
                 \/ remove_from_group(user, id)
           \/ \E user \in Users, id \in Lists :
                 \/ add_buddy(user, id)
                 \/ \E result \in {0, 1} : handle_contact_request(user, id, result)
    PROVE  Asks
<1>1. /\ self.impression \in Numbers
      /\ \A id \in ToSet(groups) \cup Lists : id \in Numbers
      /\ \A v \in Values : v \in Numbers
  <2>1. DOMAIN groups = 1..Len(groups) /\ \A i \in 1..Len(groups) : groups[i] \in Nat
    BY LenProperties, ElementOfSeq DEF RosterTypes
  <2>2. self.impression \in Numbers
    BY DEF RosterTypes
  <2> QED BY <2>1, <2>2, RosterAssumption DEF ToSet, Numbers
<1>2. ASSUME NEW v \in Values, set_moodphrase(v)
      PROVE  Asks
  <2>1. set_moodphrase_body(v) \in RequestBodies /\ set_moodphrase_body(v).kind = "moodphrase"
    <3>1. /\ "moodphrase" \in (Untold \cup Awaited) \ {"group-ids"}
          /\ "moodphrase" \notin AboutUser
      BY DEF Awaited, AboutUser, WithNumber
    <3> QED BY <1>1, <3>1, NumberBodyIs DEF set_moodphrase_body, Body
  <2>2. Idle("set_moodphrase") /\ Ask("set_moodphrase", set_moodphrase_body(v), FALSE)
        /\ UNCHANGED <<contacts, doubted>>
    BY <1>2 DEF set_moodphrase
  <2>3. ContactsChanged(set_moodphrase_body(v))
    BY <2>1, <2>2 DEF ContactsChanged
  <2>4. "moodphrase" \in Awaited
    BY DEF Awaited
  <2> QED BY <2>1, <2>2, <2>3, <2>4, AskPlainIs
<1>3. ASSUME NEW v \in Values, set_sms_status(v)
      PROVE  Asks
  <2>1. set_sms_status_body(v) \in RequestBodies /\ set_sms_status_body(v).kind = "sms-status"
    <3>1. /\ "sms-status" \in (Untold \cup Awaited) \ {"group-ids"}
          /\ "sms-status" \notin AboutUser
      BY DEF Awaited, AboutUser, WithNumber
    <3> QED BY <1>1, <3>1, NumberBodyIs DEF set_sms_status_body, Body
  <2>2. Idle("set_sms_status") /\ Ask("set_sms_status", set_sms_status_body(v), FALSE)
        /\ UNCHANGED <<contacts, doubted>>
    BY <1>3 DEF set_sms_status
  <2>3. ContactsChanged(set_sms_status_body(v))
    BY <2>1, <2>2 DEF ContactsChanged
  <2>4. "sms-status" \in Awaited
    BY DEF Awaited
  <2> QED BY <2>1, <2>2, <2>3, <2>4, AskPlainIs
<1>4. CASE update_info
  <2>1. update_information_body \in RequestBodies /\ update_information_body.kind = "information"
    <3>1. /\ "information" \in (Untold \cup Awaited) \ {"group-ids"}
          /\ "information" \notin AboutUser
      BY DEF Awaited, AboutUser, WithNumber
    <3> QED BY <1>1, <3>1, NumberBodyIs DEF update_information_body, Body
  <2>2. Idle("update_info") /\ Ask("update_info", update_information_body, FALSE)
        /\ UNCHANGED <<contacts, doubted>>
    BY <1>4 DEF update_info
  <2>3. ContactsChanged(update_information_body)
    BY <2>1, <2>2 DEF ContactsChanged
  <2>4. "information" \in Awaited
    BY DEF Awaited
  <2> QED BY <2>1, <2>2, <2>3, <2>4, AskPlainIs
<1>5. CASE list_create
  <2> DEFINE body == create_buddylist_body
  <2>1. body \in RequestBodies /\ body.kind = "create-list"
    <3>1. /\ "create-list" \in (Untold \cup Awaited) \ ({"group-ids"} \cup WithNumber)
          /\ "create-list" \notin AboutUser
      BY DEF Awaited, AboutUser, WithNumber
    <3> QED BY <1>1, <3>1, PlainBodyIs DEF create_buddylist_body, Body
  <2>2. Idle("list_create") /\ Ask("list_create", body, FALSE) /\ UNCHANGED <<contacts, doubted>>
    BY <1>5 DEF list_create
  <2> HIDE DEF body
  <2>3. ContactsChanged(body)
    BY <2>1, <2>2 DEF ContactsChanged
  <2>4. PICK op, kind : op = "list_create" /\ kind = "create-list"
    OBVIOUS
  <2>5. /\ kind \in Awaited /\ body.kind = kind
        /\ op = "list_create" <=> kind = "create-list"
        /\ op = "list_delete" <=> kind = "delete-list"
        /\ op # "add_buddy" /\ kind # "add-buddy"
    BY <2>1, <2>4 DEF Awaited
  <2>6. Idle(op) /\ Ask(op, body, FALSE)
    BY <2>2, <2>4
  <2> QED BY <2>1, <2>3, <2>5, <2>6, AskPlainIs
<1>6. ASSUME NEW id \in ToSet(groups), list_delete(id)
      PROVE  Asks
  <2> DEFINE body == delete_buddylist_body(id)
  <2>1. body \in RequestBodies /\ body.kind = "delete-list"
    <3>1. /\ "delete-list" \in (Untold \cup Awaited) \ {"group-ids"}
          /\ "delete-list" \notin AboutUser
      BY DEF Awaited, AboutUser, WithNumber
    <3> QED BY <1>1, <3>1, NumberBodyIs DEF delete_buddylist_body, Body
  <2>2. Idle("list_delete") /\ Ask("list_delete", body, FALSE)
        /\ UNCHANGED <<contacts, doubted>>
    BY <1>6 DEF list_delete
  <2> HIDE DEF body
  <2>3. ContactsChanged(body)
    BY <2>1, <2>2 DEF ContactsChanged
  <2>4. "delete-list" \in Awaited
    BY DEF Awaited
  <2>5. /\ "list_delete" # "list_create" /\ "list_delete" # "add_buddy"
        /\ "delete-list" # "create-list" /\ "delete-list" # "add-buddy"
    OBVIOUS
  <2> QED BY <2>1, <2>2, <2>3, <2>4, <2>5, AskPlainIs
<1>7. ASSUME NEW id \in ToSet(groups), list_edit(id)
      PROVE  Asks
  <2>1. edit_buddylist_body(id) \in RequestBodies /\ edit_buddylist_body(id).kind = "edit-list"
    <3>1. /\ "edit-list" \in (Untold \cup Awaited) \ {"group-ids"}
          /\ "edit-list" \notin AboutUser
      BY DEF Awaited, AboutUser, WithNumber
    <3> QED BY <1>1, <3>1, NumberBodyIs DEF edit_buddylist_body, Body
  <2>2. Idle("list_edit") /\ Ask("list_edit", edit_buddylist_body(id), FALSE)
        /\ UNCHANGED <<contacts, doubted>>
    BY <1>7 DEF list_edit
  <2>3. ContactsChanged(edit_buddylist_body(id))
    BY <2>1, <2>2 DEF ContactsChanged
  <2>4. "edit-list" \in Awaited
    BY DEF Awaited
  <2> QED BY <2>1, <2>2, <2>3, <2>4, AskPlainIs
<1>8. ASSUME NEW user \in Users, get_contact_info(user)
      PROVE  Asks
  <2>1. contact_info_body(user) \in RequestBodies /\ contact_info_body(user).kind = "contact-info"
    <3>1. /\ "contact-info" \in (Untold \cup Awaited) \ ({"group-ids"} \cup WithNumber)
          /\ "contact-info" \notin AboutUser
      BY DEF Awaited, AboutUser, WithNumber
    <3> QED BY <1>1, <3>1, PlainBodyIs DEF contact_info_body, Body
  <2>2. Idle("get_contact_info") /\ Ask("get_contact_info", contact_info_body(user), FALSE)
        /\ UNCHANGED <<contacts, doubted>>
    BY <1>8 DEF get_contact_info
  <2>3. ContactsChanged(contact_info_body(user))
    BY <2>1, <2>2 DEF ContactsChanged
  <2>4. "contact-info" \in Awaited
    BY DEF Awaited
  <2> QED BY <2>1, <2>2, <2>3, <2>4, AskPlainIs
<1>9. ASSUME NEW user \in Users, set_mobileno_permission(user)
      PROVE  Asks
  <2>1. set_mobileno_permission_body(user) \in RequestBodies /\ set_mobileno_permission_body(user).kind = "permission"
    <3>1. /\ "permission" \in (Untold \cup Awaited) \ ({"group-ids"} \cup WithNumber)
      BY DEF Awaited, AboutUser, WithNumber
    <3> QED BY <1>1, <3>1, PlainBodyIs DEF set_mobileno_permission_body, Body
  <2>2. Idle("set_mobileno_permission") /\ Ask("set_mobileno_permission", set_mobileno_permission_body(user), TRUE)
        /\ UNCHANGED <<contacts, doubted>>
    BY <1>9 DEF set_mobileno_permission
  <2>3. ContactsChanged(set_mobileno_permission_body(user))
    BY <2>1, <2>2 DEF ContactsChanged
  <2>4. "permission" \in Awaited
    BY DEF Awaited
  <2> QED BY <2>1, <2>2, <2>3, <2>4, AskPlainIs
<1>10. ASSUME NEW user \in Users, set_displayname(user)
      PROVE  Asks
  <2>1. set_displayname_body(user) \in RequestBodies /\ set_displayname_body(user).kind = "displayname"
    <3>1. /\ "displayname" \in (Untold \cup Awaited) \ ({"group-ids"} \cup WithNumber)
          /\ "displayname" \notin AboutUser
      BY DEF Awaited, AboutUser, WithNumber
    <3> QED BY <1>1, <3>1, PlainBodyIs DEF set_displayname_body, Body
  <2>2. Idle("set_displayname") /\ Ask("set_displayname", set_displayname_body(user), TRUE)
        /\ UNCHANGED <<contacts, doubted>>
    BY <1>10 DEF set_displayname
  <2>3. ContactsChanged(set_displayname_body(user))
    BY <2>1, <2>2 DEF ContactsChanged
  <2>4. "displayname" \in Awaited
    BY DEF Awaited
  <2> QED BY <2>1, <2>2, <2>3, <2>4, AskPlainIs
<1>11. ASSUME NEW user \in Users, delete_buddy(user)
      PROVE  Asks
  <2>1. delete_buddy_body(user) \in RequestBodies /\ delete_buddy_body(user).kind = "delete-buddy"
    <3>1. /\ "delete-buddy" \in (Untold \cup Awaited) \ ({"group-ids"} \cup WithNumber)
      BY DEF Awaited, AboutUser, WithNumber
    <3> QED BY <1>1, <3>1, PlainBodyIs DEF delete_buddy_body, Body
  <2>2. Idle("delete_buddy") /\ Ask("delete_buddy", delete_buddy_body(user), TRUE)
        /\ UNCHANGED <<contacts, doubted>>
    BY <1>11 DEF delete_buddy
  <2>3. ContactsChanged(delete_buddy_body(user))
    BY <2>1, <2>2 DEF ContactsChanged
  <2>4. "delete-buddy" \in Awaited
    BY DEF Awaited
  <2> QED BY <2>1, <2>2, <2>3, <2>4, AskPlainIs
<1>12. ASSUME NEW user \in Users, NEW id \in Lists \cup {1}, copy_to_group(user, id)
      PROVE  Asks
  <2> DEFINE ids == Append(GroupIds(user), id)
             body == group_body(user, ids)
  <2>1. ids \in Seq(Lists \cup {1})
    BY <1>12, Finds, WithoutIsSeq, AppendProperties DEF copy_to_group
  <2>2. /\ body \in RequestBodies /\ body.kind = "group-ids"
        /\ body.user = user /\ body.ids = ids
    <3> HIDE DEF ids
    <3>1. "group-ids" \in Untold \cup Awaited /\ "group-ids" \notin WithNumber
      BY DEF Untold, WithNumber
    <3> QED BY <2>1, <3>1, GroupIdsAreNumbers, BodyIs DEF group_body, Body
  <2>3. /\ Idle("copy_to_group") /\ Ask("copy_to_group", body, TRUE)
        /\ Listed(user) /\ contacts' = SetGroupIds(user, ids) /\ GroupsAsked(user)
    BY <1>12 DEF copy_to_group
  <2> HIDE DEF ids, body
  <2>4. ContactsChanged(body)
    BY <2>2, <2>3 DEF ContactsChanged
  <2>5. "group-ids" \in Awaited
    BY DEF Awaited
  <2> QED BY <2>2, <2>3, <2>4, <2>5, AskPlainIs
<1>13. ASSUME NEW user \in Users, NEW id \in Lists \cup {1}, remove_from_group(user, id)
      PROVE  Asks
  <2> DEFINE ids == Without(GroupIds(user), id)
             body == group_body(user, ids)
  <2>1. ids \in Seq(Lists \cup {1})
    BY <1>13, Finds, WithoutIsSeq, AppendProperties DEF remove_from_group
  <2>2. /\ body \in RequestBodies /\ body.kind = "group-ids"
        /\ body.user = user /\ body.ids = ids
    <3> HIDE DEF ids
    <3>1. "group-ids" \in Untold \cup Awaited /\ "group-ids" \notin WithNumber
      BY DEF Untold, WithNumber
    <3> QED BY <2>1, <3>1, GroupIdsAreNumbers, BodyIs DEF group_body, Body
  <2>3. /\ Idle("remove_from_group") /\ Ask("remove_from_group", body, TRUE)
        /\ Listed(user) /\ contacts' = SetGroupIds(user, ids) /\ GroupsAsked(user)
    BY <1>13 DEF remove_from_group
  <2> HIDE DEF ids, body
  <2>4. ContactsChanged(body)
    BY <2>2, <2>3 DEF ContactsChanged
  <2>5. "group-ids" \in Awaited
    BY DEF Awaited
  <2> QED BY <2>2, <2>3, <2>4, <2>5, AskPlainIs
<1>14. ASSUME NEW user \in Users, NEW id \in Lists, add_buddy(user, id)
      PROVE  Asks
  <2> DEFINE body == add_buddy_body(user, id)
             headers == IF verification = None THEN <<EventOf("add-buddy")>>
                        ELSE <<EventOf("add-buddy"), Ack(verification.challenge)>>
  <2>1. body \in RequestBodies /\ body.kind = "add-buddy"
    <3>1. "add-buddy" \in (Untold \cup Awaited) \ {"group-ids"}
      BY DEF Awaited
    <3> QED BY <1>1, <3>1, NumberBodyIs DEF add_buddy_body, Body
  <2>2. EventOf("add-buddy") \in Headers
    BY EventOfKind DEF Kinds, Awaited
  <2>3. verification # None => Ack(verification.challenge) \in Headers
    BY RosterAssumption DEF RosterTypes, Ack, Headers
  <2>4. headers \in Seq(Headers)
    BY <2>2, <2>3
  <2>5. HeadersOf(body, headers)
    BY <2>1 DEF HeadersOf
  <2>6. /\ Idle("add_buddy") /\ AskWith("add_buddy", headers, body, FALSE)
        /\ UNCHANGED <<contacts, doubted>>
    BY <1>14 DEF add_buddy
  <2> HIDE DEF body, headers
  <2>7. ContactsChanged(body)
    BY <2>1, <2>6 DEF ContactsChanged
  <2> QED BY <2>1, <2>4, <2>5, <2>6, <2>7, AskIs DEF Awaited
<1>15. ASSUME NEW user \in Users, NEW id \in Lists, NEW result \in {0, 1},
             handle_contact_request(user, id, result)
      PROVE  Asks
  <2> DEFINE body == handle_contact_request_body(user, id, result)
  <2>1. body \in RequestBodies /\ body.kind = "handle-request"
    <3>1. "handle-request" \in Untold \cup Awaited
      BY DEF Awaited
    <3>2. <<id, result>> \in Seq(Numbers) /\ <<id, result>> # <<>>
      BY <1>1 DEF Numbers
    <3> QED BY <3>1, <3>2, BodyIs DEF handle_contact_request_body, Body
  <2>2. /\ Idle("handle_contact_request") /\ Ask("handle_contact_request", body, FALSE)
        /\ UNCHANGED <<contacts, doubted>>
    BY <1>15 DEF handle_contact_request
  <2> HIDE DEF body
  <2>3. ContactsChanged(body)
    BY <2>1, <2>2 DEF ContactsChanged
  <2>4. "handle-request" \in Awaited
    BY DEF Awaited
  <2> QED BY <2>1, <2>2, <2>3, <2>4, AskPlainIs
<1> QED BY <1>2, <1>3, <1>4, <1>5, <1>6, <1>7, <1>8, <1>9, <1>10, <1>11, <1>12, <1>13, <1>14, <1>15

(* A call takes an answer. *)
LEMMA EndIs ==
    ASSUME NEW op, NEW msg,
           \/ Answered(op, msg)
           \/ (\E n \in 1..Len(inbox) : Reads(msg, n)) /\ Takes(op, msg) /\ UNCHANGED running,
           GroupsTaken(msg), ContactsTaken(msg), VerificationTaken(msg), self' \in SelfType
    PROVE  Ends
<1>1. PICK n \in 1..Len(inbox) : Reads(msg, n) /\ running' \in {"yes", "undefined"} /\ Takes(op, msg)
  <2>1. CASE Answered(op, msg)
    BY <2>1 DEF Answered, get_response
  <2>2. CASE (\E n \in 1..Len(inbox) : Reads(msg, n)) /\ Takes(op, msg) /\ UNCHANGED running
    BY <2>2 DEF Takes
  <2> QED BY <2>1, <2>2
<1>2. EndsWith(msg, n)
  BY <1>1 DEF EndsWith, Reads, Takes
<1> HIDE DEF EndsWith
<1> QED BY <1>2 DEF Ends

(* An answer that is taken is a message, and the first. *)
LEMMA AnswerIs ==
    ASSUME RosterTypes, NEW op, NEW msg,
           \/ Answered(op, msg)
           \/ (\E n \in 1..Len(inbox) : Reads(msg, n)) /\ Takes(op, msg)
    PROVE  /\ inbox # <<>> /\ msg = Head(inbox) /\ msg \in MessageType
           /\ call # None /\ call.op = op
           /\ (get_code(msg) # 400 => msg.kind = "reply" /\ msg.code = get_code(msg))
           /\ (msg.body.ids # <<>> => Head(msg.body.ids) \in Numbers)
<1>1. inbox # <<>> /\ msg = Head(inbox) /\ call # None /\ call.op = op
  BY DEF Answered, get_response, Reads, Takes
<1>2. msg \in MessageType
  BY <1>1, HeadTailProperties DEF RosterTypes
<1>3. msg.body.ids \in Seq(Numbers)
  BY <1>2 DEF MessageType, Bodies, Numbers
<1> QED BY <1>1, <1>2, <1>3, HeadTailProperties DEF get_code

(* An answer that cannot be parsed. *)
LEMMA UnparsableIs ==
    ASSUME RosterTypes, NEW op, Unparsable(op)
    PROVE  Stuck
BY DEF Unparsable, Stuck, rosterVars

(* The calls that get what they take for their answer. *)
LEMMA EndSteps ==
    ASSUME RosterTypes,
           \/ MoodphraseSet \/ InfoUpdated \/ SmsStatusSet
           \/ ListCreated \/ ListDeleted \/ ListEdited
           \/ ContactInfoCame \/ PermissionSet \/ DisplaynameSet
           \/ CopiedToGroup \/ RemovedFromGroup \/ BuddyDeleted \/ BuddyAdded
           \/ ContactRequestHandled
    PROVE  Ends \/ Stuck
<1>1. self \in SelfType
  BY DEF RosterTypes, SelfType
<1>2. CASE InfoUpdated
  <2>1. PICK msg \in Messages :
           Answered("update_info", msg) /\ UNCHANGED <<contacts, groups, self, verification>>
    BY <1>2 DEF InfoUpdated
  <2>2. call.op = "update_info"
    BY <2>1, AnswerIs
  <2>3. GroupsTaken(msg) /\ ContactsTaken(msg) /\ VerificationTaken(msg)
    BY <2>1, <2>2 DEF GroupsTaken, ContactsTaken, VerificationTaken
  <2> QED BY <1>1, <2>1, <2>3, EndIs
<1>3. CASE ListEdited
  <2>1. PICK msg \in Messages :
           Answered("list_edit", msg) /\ UNCHANGED <<contacts, groups, self, verification>>
    BY <1>3 DEF ListEdited
  <2>2. call.op = "list_edit"
    BY <2>1, AnswerIs
  <2>3. GroupsTaken(msg) /\ ContactsTaken(msg) /\ VerificationTaken(msg)
    BY <2>1, <2>2 DEF GroupsTaken, ContactsTaken, VerificationTaken
  <2> QED BY <1>1, <2>1, <2>3, EndIs
<1>4. CASE ContactInfoCame
  <2>1. PICK msg \in Messages :
           Answered("get_contact_info", msg) /\ UNCHANGED <<contacts, groups, self, verification>>
    BY <1>4 DEF ContactInfoCame
  <2>2. call.op = "get_contact_info"
    BY <2>1, AnswerIs
  <2>3. GroupsTaken(msg) /\ ContactsTaken(msg) /\ VerificationTaken(msg)
    BY <2>1, <2>2 DEF GroupsTaken, ContactsTaken, VerificationTaken
  <2> QED BY <1>1, <2>1, <2>3, EndIs
<1>5. CASE DisplaynameSet
  <2>1. PICK msg \in Messages :
           Answered("set_displayname", msg) /\ UNCHANGED <<contacts, groups, self, verification>>
    BY <1>5 DEF DisplaynameSet
  <2>2. call.op = "set_displayname"
    BY <2>1, AnswerIs
  <2>3. GroupsTaken(msg) /\ ContactsTaken(msg) /\ VerificationTaken(msg)
    BY <2>1, <2>2 DEF GroupsTaken, ContactsTaken, VerificationTaken
  <2> QED BY <1>1, <2>1, <2>3, EndIs
<1>6. CASE CopiedToGroup
  <2>1. PICK msg \in Messages :
           Answered("copy_to_group", msg) /\ UNCHANGED <<contacts, groups, self, verification>>
    BY <1>6 DEF CopiedToGroup
  <2>2. call.op = "copy_to_group"
    BY <2>1, AnswerIs
  <2>3. GroupsTaken(msg) /\ ContactsTaken(msg) /\ VerificationTaken(msg)
    BY <2>1, <2>2 DEF GroupsTaken, ContactsTaken, VerificationTaken
  <2> QED BY <1>1, <2>1, <2>3, EndIs
<1>7. CASE RemovedFromGroup
  <2>1. PICK msg \in Messages :
           Answered("remove_from_group", msg) /\ UNCHANGED <<contacts, groups, self, verification>>
    BY <1>7 DEF RemovedFromGroup
  <2>2. call.op = "remove_from_group"
    BY <2>1, AnswerIs
  <2>3. GroupsTaken(msg) /\ ContactsTaken(msg) /\ VerificationTaken(msg)
    BY <2>1, <2>2 DEF GroupsTaken, ContactsTaken, VerificationTaken
  <2> QED BY <1>1, <2>1, <2>3, EndIs
<1>8. CASE BuddyDeleted
  <2>1. PICK msg \in Messages :
           Answered("delete_buddy", msg) /\ UNCHANGED <<contacts, groups, self, verification>>
    BY <1>8 DEF BuddyDeleted
  <2>2. call.op = "delete_buddy"
    BY <2>1, AnswerIs
  <2>3. GroupsTaken(msg) /\ ContactsTaken(msg) /\ VerificationTaken(msg)
    BY <2>1, <2>2 DEF GroupsTaken, ContactsTaken, VerificationTaken
  <2> QED BY <1>1, <2>1, <2>3, EndIs
<1>9. CASE MoodphraseSet
  <2>1. PICK msg \in Messages :
           \/ /\ get_code(msg) = 200 => HasImpression(msg)
              /\ Answered("set_moodphrase", msg)
              /\ self' = IF get_code(msg) = 200 THEN [self EXCEPT !.impression = parse_set_moodphrase_response(msg)] ELSE self
              /\ UNCHANGED <<contacts, groups, verification>>
           \/ Unparsable("set_moodphrase")
    BY <1>9 DEF MoodphraseSet
  <2>2. CASE Answered("set_moodphrase", msg)
             /\ (get_code(msg) = 200 => HasImpression(msg))
             /\ self' = (IF get_code(msg) = 200 THEN [self EXCEPT !.impression = parse_set_moodphrase_response(msg)] ELSE self)
             /\ UNCHANGED <<contacts, groups, verification>>
    <3>1. /\ call.op = "set_moodphrase" /\ msg \in MessageType
          /\ (msg.body.ids # <<>> => Head(msg.body.ids) \in Numbers)
      BY <2>2, AnswerIs
    <3>2. get_code(msg) = 200 => Head(msg.body.ids) \in Numbers
      BY <2>2, <3>1 DEF MessageType, HasImpression
    <3>3. self' \in SelfType
      BY <1>1, <2>2, <3>2 DEF SelfType, parse_set_moodphrase_response
    <3>4. GroupsTaken(msg) /\ ContactsTaken(msg) /\ VerificationTaken(msg)
      BY <2>2, <3>1 DEF GroupsTaken, ContactsTaken, VerificationTaken
    <3> QED BY <2>2, <3>3, <3>4, EndIs
  <2> QED BY <2>1, <2>2, UnparsableIs
<1>10. CASE PermissionSet
  <2>1. PICK msg \in Messages :
           \/ /\ get_code(msg) = 200 => msg.body.kind = "permission"
              /\ Answered("set_mobileno_permission", msg)
              /\ self' = IF get_code(msg) = 200 THEN [self EXCEPT !.contactVersion = parse_set_mobileno_permission_response(msg)] ELSE self
              /\ UNCHANGED <<contacts, groups, verification>>
           \/ Unparsable("set_mobileno_permission")
    BY <1>10 DEF PermissionSet
  <2>2. CASE Answered("set_mobileno_permission", msg)
             /\ (get_code(msg) = 200 => msg.body.kind = "permission")
             /\ self' = (IF get_code(msg) = 200 THEN [self EXCEPT !.contactVersion = parse_set_mobileno_permission_response(msg)] ELSE self)
             /\ UNCHANGED <<contacts, groups, verification>>
    <3>1. /\ call.op = "set_mobileno_permission" /\ msg \in MessageType
          /\ (msg.body.ids # <<>> => Head(msg.body.ids) \in Numbers)
      BY <2>2, AnswerIs
    <3>2. get_code(msg) = 200 => Head(msg.body.ids) \in Numbers
      BY <2>2, <3>1 DEF MessageType, HasImpression
    <3>3. self' \in SelfType
      BY <1>1, <2>2, <3>2 DEF SelfType, parse_set_mobileno_permission_response
    <3>4. GroupsTaken(msg) /\ ContactsTaken(msg) /\ VerificationTaken(msg)
      BY <2>2, <3>1 DEF GroupsTaken, ContactsTaken, VerificationTaken
    <3> QED BY <2>2, <3>3, <3>4, EndIs
  <2> QED BY <2>1, <2>2, UnparsableIs
<1>11. CASE SmsStatusSet
  <2>1. PICK msg \in Messages :
           /\ \E n \in 1..Len(inbox) : Reads(msg, n)
           /\ Takes("set_sms_status", msg)
           /\ UNCHANGED running
           /\ self' = IF get_code(msg) = 200 /\ msg.body.kind = "sms-status"
                      THEN [self EXCEPT !.smsOnLineStatus = Head(msg.body.ids)] ELSE self
           /\ UNCHANGED <<contacts, groups, verification>>
    BY <1>11 DEF SmsStatusSet
  <2>2. /\ call.op = "set_sms_status" /\ msg \in MessageType
        /\ (msg.body.ids # <<>> => Head(msg.body.ids) \in Numbers)
    BY <2>1, AnswerIs
  <2>3. self' \in SelfType
    <3>1. msg.body.kind = "sms-status" => Head(msg.body.ids) \in Numbers
      BY <2>2 DEF MessageType
    <3> QED BY <1>1, <2>1, <3>1 DEF SelfType
  <2>4. GroupsTaken(msg) /\ ContactsTaken(msg) /\ VerificationTaken(msg)
    BY <2>1, <2>2 DEF GroupsTaken, ContactsTaken, VerificationTaken
  <2> QED BY <2>1, <2>3, <2>4, EndIs
<1>12. CASE ListCreated
  <2>1. PICK msg \in Messages :
           \/ /\ get_code(msg) = 200 => msg.body.kind = "create-list"
              /\ Answered("list_create", msg)
              /\ IF get_code(msg) = 200
                 THEN /\ groups' = list_append(groups, msg.body.ids[1])
                      /\ self' = [self EXCEPT !.contactVersion = msg.body.ids[2]]
                 ELSE UNCHANGED <<groups, self>>
              /\ UNCHANGED <<contacts, verification>>
           \/ Unparsable("list_create")
    BY <1>12 DEF ListCreated
  <2>2. CASE /\ get_code(msg) = 200 => msg.body.kind = "create-list"
             /\ Answered("list_create", msg)
             /\ IF get_code(msg) = 200
                THEN /\ groups' = list_append(groups, msg.body.ids[1])
                     /\ self' = [self EXCEPT !.contactVersion = msg.body.ids[2]]
                ELSE UNCHANGED <<groups, self>>
             /\ UNCHANGED <<contacts, verification>>
    <3>1. call.op = "list_create" /\ msg \in MessageType
      BY <2>2, AnswerIs
    <3>2. get_code(msg) = 200 => msg.body.ids[2] \in Numbers
      BY <2>2, <3>1 DEF MessageType, Numbers
    <3>3. self' \in SelfType
      BY <1>1, <2>2, <3>2 DEF SelfType
    <3>4. GroupsTaken(msg) /\ ContactsTaken(msg) /\ VerificationTaken(msg)
      BY <2>2, <3>1 DEF GroupsTaken, ContactsTaken, VerificationTaken
    <3> QED BY <2>2, <3>3, <3>4, EndIs
  <2> QED BY <2>1, <2>2, UnparsableIs
<1>13. CASE ListDeleted
  <2>1. PICK msg \in Messages :
           /\ Answered("list_delete", msg)
           /\ groups' = IF get_code(msg) = 200 THEN BuddyGroup_remove(call.body.ids[1]) ELSE groups
           /\ UNCHANGED <<contacts, self, verification>>
    BY <1>13 DEF ListDeleted
  <2>2. call.op = "list_delete"
    BY <2>1, AnswerIs
  <2>3. GroupsTaken(msg) /\ ContactsTaken(msg) /\ VerificationTaken(msg)
    BY <2>1, <2>2 DEF GroupsTaken, ContactsTaken, VerificationTaken
  <2> QED BY <1>1, <2>1, <2>3, EndIs
<1>14. CASE BuddyAdded
  <2> DEFINE Taken(msg) ==
               /\ Answered("add_buddy", msg)
               /\ CASE get_code(msg) = 200 ->
                         /\ contacts' = IF HasBuddyNode(msg)
                                        THEN list_append(contacts, parse_add_buddy_response(msg))
                                        ELSE contacts
                         /\ verification' = None
                    [] get_code(msg) = 420 ->
                         /\ verification' = parse_add_buddy_verification(msg)
                         /\ UNCHANGED contacts
                    [] OTHER -> UNCHANGED <<contacts, verification>>
               /\ UNCHANGED <<groups, self>>
  <2>1. PICK msg \in Messages : Taken(msg) \/ Unparsable("add_buddy")
    BY <1>14 DEF BuddyAdded
  <2>2. CASE Taken(msg)
    <3>1. call.op = "add_buddy"
      BY <2>2, AnswerIs
    <3>2. GroupsTaken(msg)
      BY <2>2, <3>1 DEF GroupsTaken
    <3>3. ContactsTaken(msg)
      BY <2>2 DEF ContactsTaken, parse_add_buddy_response
    <3>4. VerificationTaken(msg)
      BY <2>2, <3>1 DEF VerificationTaken
    <3> QED BY <1>1, <2>2, <3>2, <3>3, <3>4, EndIs
  <2> QED BY <2>1, <2>2, UnparsableIs
<1>15. CASE ContactRequestHandled
  <2>1. PICK msg \in Messages :
           /\ Answered("handle_contact_request", msg)
           /\ contacts' = IF get_code(msg) = 200
                          THEN list_append(contacts, parse_handle_contact_request_response(msg))
                          ELSE contacts
           /\ UNCHANGED <<groups, self, verification>>
    BY <1>15 DEF ContactRequestHandled
  <2>2. call.op = "handle_contact_request"
    BY <2>1, AnswerIs
  <2>3. GroupsTaken(msg) /\ VerificationTaken(msg)
    BY <2>1, <2>2 DEF GroupsTaken, VerificationTaken
  <2>4. ContactsTaken(msg)
    BY <2>1 DEF ContactsTaken, parse_handle_contact_request_response
  <2> QED BY <1>1, <2>1, <2>3, <2>4, EndIs
<1> QED BY <1>2, <1>3, <1>4, <1>5, <1>6, <1>7, <1>8, <1>9, <1>10, <1>11, <1>12, <1>13, <1>14, <1>15

(* A copy that is not carried out, and what the loop reads. *)
LEMMA OtherSteps ==
    ASSUME RosterTypes,
           \/ \E user \in Users, id \in Lists \cup {1} : CopyReturns(user, id)
           \/ UnsetPrinted
           \/ NoAnswer \/ WaitsForEver
           \/ Loop
    PROVE  LeavesHeader \/ Garbled \/ Stuck \/ Heard
<1>1. ASSUME NEW user, NEW id, CopyReturns(user, id)
      PROVE  LeavesHeader
  <2> DEFINE Kept == Seq({Event("SetContactInfo")})
  <2>1. sip \in [type : Types, callid : Nat, header : Kept] /\ callid \in Nat /\ "S" \in Types
    BY DEF RosterTypes, TypeOK, Types
  <2>2. <<EventOf("group-ids")>> \in Kept
    BY DEF EventOf
  <2>3. sip.header \o <<EventOf("group-ids")>> \in Kept
    BY <2>1, <2>2, ConcatProperties
  <2> HIDE DEF Kept
  <2>4. sip' = [type |-> "S", callid |-> callid, header |-> sip.header \o <<EventOf("group-ids")>>]
    BY <1>1, <2>1, StampedIs DEF CopyReturns
  <2>5. sip' \in [type : Types, callid : Nat, header : Kept]
    BY <2>1, <2>3, <2>4
  <2> QED BY <1>1, <2>5 DEF CopyReturns, LeavesHeader, Idle, SipType, Kept
<1>2. CASE NoAnswer
  BY <1>2 DEF NoAnswer, Stuck, ReadFails
<1>3. CASE WaitsForEver
  BY <1>3 DEF WaitsForEver, Stuck, ReadNeverEnds, rosterVars
<1>4. CASE ReplyDropped
  <2>1. Hears(Head(inbox)) /\ contacts' = contacts
    BY <1>4 DEF ReplyDropped, Hears
  <2> QED BY <2>1 DEF Heard
<1>5. CASE PresenceHeard
  <2>1. PICK msg \in Messages : Hears(msg) /\ contacts' = parse_presence_body(msg.body)
    BY <1>5 DEF PresenceHeard
  <2>2. Hears(Head(inbox))
    BY <2>1 DEF Hears
  <2>3. CASE Listed(msg.body.user)
    <3>1. PICK online : online = (msg.body.ids = <<1>>)
      OBVIOUS
    <3>2. contacts' = [contacts EXCEPT ![find_by_userid(msg.body.user)].online = online]
      BY <2>1, <2>3, <3>1 DEF parse_presence_body
    <3>3. online \in BOOLEAN
      BY <3>1
    <3>4. \E user : \E online_1 \in BOOLEAN :
             /\ Listed(user)
             /\ contacts' = [contacts EXCEPT ![find_by_userid(user)].online = online_1]
      BY <2>3, <3>2, <3>3
    <3> QED BY <2>2, <3>4 DEF Heard
  <2>4. CASE ~Listed(msg.body.user)
    BY <2>1, <2>2, <2>4 DEF parse_presence_body, Heard
  <2> QED BY <2>3, <2>4
<1>6. CASE UnsetPrinted
  BY <1>6 DEF UnsetPrinted, Garbled, rosterVars
<1> QED BY <1>1, <1>2, <1>3, <1>4, <1>5, <1>6 DEF Loop

RosterStep ==
    \/ Tells \/ Asks \/ Ends \/ Stuck \/ Garbled \/ LeavesHeader \/ Heard
    \/ \E field \in Unset : Sets(field)
    \/ Accepts \/ Refuses \/ Challenges \/ Notifies \/ LineBreaks

(* Every step is one of these. *)
LEMMA NextIsRosterStep ==
    ASSUME RosterTypes, Next
    PROVE  RosterStep
<1>1. CASE UserCalls
  BY <1>1, TellSteps, AskSteps
     DEF UserCalls, RosterStep, set_verification_code, generate_pic_code, Unset
<1>2. CASE ListCalls
  BY <1>2, AskSteps DEF ListCalls, RosterStep
<1>3. CASE ContactCalls
  BY <1>3, TellSteps, AskSteps, OtherSteps DEF ContactCalls, RosterStep
<1>4. CASE CallEnds
  BY <1>4, EndSteps, OtherSteps DEF CallEnds, RosterStep
<1>5. CASE Loop
  BY <1>5, OtherSteps DEF RosterStep
<1>6. CASE Server
  BY <1>6 DEF Server, RosterStep
<1> QED BY <1>1, <1>2, <1>3, <1>4, <1>5, <1>6 DEF Next

-----------------------------------------------------------------------------
(* Types. *)

ContactType == [id : Users \cup {None}, groupids : Seq(Lists \cup {1}), online : BOOLEAN]

TheirsType == [groups : SUBSET Nat, of : [Users -> SUBSET Numbers], version : Nat,
               challenge : 0..MaxCalls]

(* A new request: what is left on the struct are headers of copies.         *)
LEMMA RequestIs ==
    ASSUME sip \in SipType, callid \in Nat,
           verification \in {None} \cup [challenge : 1..MaxCalls, unset : SUBSET Unset],
           NEW type \in Types, NEW body \in RequestBodies, NEW headers \in Seq(Headers),
           HeadersOf(body, headers),
           NEW q, q = [type |-> type, callid |-> callid, header |-> sip.header \o headers,
                       body |-> body]
    PROVE  /\ q \in RequestType
           /\ \A n \in 1..MaxCalls :
                 Contains(q.header, Ack(n)) <=> body.kind = "add-buddy" /\ Challenge = n
<1> DEFINE left == sip.header
           k == Len(left)
<1>1. /\ left \in Seq({Event("SetContactInfo")})
      /\ k \in Nat
      /\ \A j \in 1..k : left[j] = Event("SetContactInfo")
  BY LenProperties, ElementOfSeq DEF SipType
<1>2. Event("SetContactInfo") \in Headers
  BY DEF Event, Headers
<1>3. left \in Seq(Headers)
  BY <1>1, <1>2, SeqMonotonic
<1> HIDE DEF left
<1>4. /\ left \o headers \in Seq(Headers)
      /\ Len(left \o headers) = k + Len(headers)
      /\ \A i \in 1..(k + Len(headers)) :
            (left \o headers)[i] = IF i <= k THEN left[i] ELSE headers[i - k]
  BY <1>3, ConcatProperties
<1>5. body.kind \in Kinds /\ EventOf(body.kind) \in Headers /\ EventOf(body.kind)[1] # "Ack"
  BY EventOfKind DEF RequestBodies, Kinds
<1>6. Event("SetContactInfo")[1] # "Ack"
  BY DEF Event
<1> DEFINE h == left \o headers
<1>7. q.header = h /\ q.body = body
  BY DEF left
<1>8. \A n : Ack(n)[1] = "Ack"
  BY DEF Ack
<1> HIDE DEF h, k
<1>9. CASE ~(body.kind = "add-buddy" /\ verification # None)
  <2>1. /\ Len(headers) = 1 /\ headers[1] = EventOf(body.kind)
    <3>1. headers = <<EventOf(body.kind)>>
      BY <1>9 DEF HeadersOf
    <3> QED BY <3>1
  <2>2. /\ Len(h) = k + 1 /\ h[k + 1] = EventOf(body.kind)
        /\ \A j \in 1..k : h[j] = Event("SetContactInfo")
    BY <1>1, <1>4, <2>1 DEF h, k
  <2>3. HeaderOwn(q)
    <3>1. Lines(h, 1, body.kind)
      BY <1>1, <2>2 DEF Lines
    <3>2. Len(h) >= 1 /\ h[Len(h)][1] # "Ack"
      BY <1>1, <1>5, <2>2
    <3> QED BY <1>7, <3>1, <3>2 DEF HeaderOwn
  <2>4. \A n \in 1..MaxCalls : ~Contains(h, Ack(n))
    <3>1. \A i \in 1..Len(h) : h[i][1] # "Ack"
      BY <1>1, <1>5, <1>6, <2>2
    <3> QED BY <3>1, <1>8 DEF Contains
  <2>5. q \in RequestType
    BY <1>4, <2>3 DEF RequestType, h, left
  <2>6. ASSUME NEW n \in 1..MaxCalls, body.kind = "add-buddy", Challenge = n
        PROVE  FALSE
    BY <1>9, <2>6 DEF Challenge
  <2> QED BY <1>7, <2>4, <2>5, <2>6
<1>10. CASE body.kind = "add-buddy" /\ verification # None
  <2>1. /\ Len(headers) = 2 /\ headers[1] = EventOf(body.kind)
        /\ headers[2] = Ack(verification.challenge)
        /\ verification.challenge \in 1..MaxCalls
    <3>1. headers = <<EventOf("add-buddy"), Ack(verification.challenge)>>
      BY <1>10 DEF HeadersOf
    <3> QED BY <1>10, <3>1
  <2>2. /\ Len(h) = k + 2 /\ h[k + 1] = EventOf(body.kind)
        /\ h[k + 2] = Ack(verification.challenge)
        /\ \A j \in 1..k : h[j] = Event("SetContactInfo")
    BY <1>1, <1>4, <2>1 DEF h, k
  <2>3. HeaderOwn(q)
    <3>1. Lines(h, 2, body.kind)
      BY <1>1, <2>2 DEF Lines
    <3>2. h[Len(h)] \in {Ack(n) : n \in 1..MaxCalls} /\ Len(h) >= 2
      BY <1>1, <2>1, <2>2
    <3> QED BY <1>7, <1>10, <3>1, <3>2 DEF HeaderOwn
  <2>4. ASSUME NEW n \in 1..MaxCalls, Contains(h, Ack(n))
        PROVE  verification.challenge = n
    <3>1. PICK i \in 1..Len(h) : h[i] = Ack(n)
      BY <2>4 DEF Contains
    <3>2. Ack(n) # Event("SetContactInfo") /\ Ack(n) # EventOf(body.kind)
      BY <1>5, <1>6, <1>8
    <3>3. i \notin 1..k
      BY <2>2, <3>1, <3>2
    <3>4. i # k + 1
      BY <2>2, <3>1, <3>2
    <3>5. i = k + 2
      BY <1>1, <2>2, <3>3, <3>4
    <3> QED BY <2>2, <3>1, <3>5 DEF Ack
  <2>5. Contains(h, Ack(verification.challenge))
    <3>1. k + 2 \in 1..Len(h)
      BY <1>1, <2>2
    <3> QED BY <2>2, <3>1 DEF Contains
  <2>6. q \in RequestType
    BY <1>4, <2>3 DEF RequestType, h, left
  <2> QED BY <1>7, <1>10, <2>4, <2>5, <2>6 DEF Challenge
<1> QED BY <1>9, <1>10

(* What the server answers is a message.                                    *)
LEMMA ReplyIs ==
    ASSUME theirs \in TheirsType, made \in 1..MaxCalls, NEW q \in RequestType
    PROVE  /\ Reply(q, 200, ResultBody(q)) \in MessageType
           /\ Reply(q, 400, NoBody) \in MessageType
           /\ Reply(q, 420, Body("challenge", None, <<made>>)) \in MessageType
<1>1. q.callid \in Nat /\ q.body \in RequestBodies
  BY DEF RequestType
<1> USE DEF Kinds
<1>2. ASSUME NEW body \in Bodies, NEW code \in Nat
      PROVE  /\ Reply(q, code, body) \in [kind : {"reply", "notification"}, callid : Nat,
                                          code : Nat, body : Bodies]
             /\ Reply(q, code, body).body = body
             /\ Reply(q, code, body).code = code
  BY <1>1 DEF Reply
<1>3. NoBody \in Bodies /\ NoBody.kind = "none"
  <2>1. <<>> \in Seq(Numbers)
    BY EmptySeq
  <2> QED BY <2>1 DEF NoBody, Body, Bodies, Numbers
<1>4. Reply(q, 400, NoBody) \in MessageType
  BY <1>2, <1>3 DEF MessageType, HasBuddyNode
<1>5. Reply(q, 420, Body("challenge", None, <<made>>)) \in MessageType
  <2> DEFINE body == Body("challenge", None, <<made>>)
  <2>1. made \in Numbers /\ <<made>> \in Seq(1..MaxCalls) /\ <<made>> # <<>>
    BY RosterAssumption DEF Numbers
  <2>2. <<made>> \in Seq(Numbers)
    BY <2>1
  <2>3. body \in Bodies /\ body.kind = "challenge" /\ body.ids = <<made>>
    BY <2>2 DEF Body, Bodies, Numbers
  <2> HIDE DEF body
  <2>4. PICK m : m = Reply(q, 420, body)
    OBVIOUS
  <2>5. /\ m \in [kind : {"reply", "notification"}, callid : Nat, code : Nat, body : Bodies]
        /\ m.body = body
    BY <1>2, <2>3, <2>4
  <2>6. ~HasBuddyNode(m)
    BY <2>3, <2>5 DEF HasBuddyNode
  <2>7. m \in MessageType
    BY <2>1, <2>3, <2>5, <2>6 DEF MessageType
  <2> QED BY <2>4, <2>7 DEF body
<1>6. Reply(q, 200, ResultBody(q)) \in MessageType
  <2>1. CASE q.body.kind = "create-list"
    <3> DEFINE v == theirs.version + 1
               body == Body("create-list", None, <<v, v>>)
    <3>1. v \in Nat
      BY DEF TheirsType
    <3> HIDE DEF v
    <3>2. v \in Numbers
      BY <3>1 DEF Numbers
    <3>5. <<v, v>> \in Nat \X Nat
      BY <3>1
    <3>6. <<v, v>> \in Seq(Numbers)
      BY <3>2
    <3>7. "create-list" \in Kinds
      BY DEF Awaited
    <3>3. body \in Bodies /\ body.kind = "create-list" /\ body.ids = <<v, v>>
      BY <3>6, <3>7 DEF Body, Bodies, Numbers
    <3>4. ResultBody(q) = body
      BY <2>1 DEF ResultBody, v
    <3> HIDE DEF body
    <3>8. PICK m : m = Reply(q, 200, body)
      OBVIOUS
    <3>9. /\ m \in [kind : {"reply", "notification"}, callid : Nat, code : Nat, body : Bodies]
          /\ m.body = body /\ m.code = 200
      BY <1>2, <3>3, <3>8
    <3>10. m.body.kind = "create-list" /\ m.body.ids \in Nat \X Nat
      BY <3>3, <3>5, <3>9
    <3>11. ~HasBuddyNode(m)
      BY <3>10 DEF HasBuddyNode
    <3>12. m \in MessageType
      BY <3>9, <3>10, <3>11 DEF MessageType
    <3> QED BY <3>4, <3>8, <3>12
  <2>2. CASE q.body.kind = "permission"
    <3> DEFINE v == theirs.version + 1
               body == Body("permission", q.body.user, <<v>>)
    <3>1. v \in Nat
      BY DEF TheirsType
    <3> HIDE DEF v
    <3>2. <<v>> # <<>> /\ <<v>> \in Seq(Numbers)
      BY <3>1 DEF Numbers
    <3>3. body \in Bodies /\ body.kind = "permission" /\ body.ids = <<v>>
      BY <1>1, <2>2, <3>2 DEF Body, Bodies, Numbers, RequestBodies, AboutUser
    <3>4. ResultBody(q) = body
      BY <2>2 DEF ResultBody, v
    <3> HIDE DEF body
    <3>5. PICK m : m = Reply(q, 200, body)
      OBVIOUS
    <3>6. /\ m \in [kind : {"reply", "notification"}, callid : Nat, code : Nat, body : Bodies]
          /\ m.body = body /\ m.code = 200
      BY <1>2, <3>3, <3>5
    <3>7. m.body.kind = "permission" /\ m.body.ids # <<>>
      BY <3>2, <3>3, <3>6
    <3>8. ~HasBuddyNode(m)
      BY <3>7 DEF HasBuddyNode
    <3>9. m \in MessageType
      BY <3>6, <3>7, <3>8 DEF MessageType
    <3> QED BY <3>4, <3>5, <3>9
  <2>3. CASE q.body.kind \in {"add-buddy", "handle-request", "moodphrase", "information",
                              "sms-status", "contact-info"}
    <3>1. ResultBody(q) = q.body
      BY <2>3 DEF ResultBody
    <3>2. /\ q.body \in Bodies
          /\ q.body.kind \in {"add-buddy", "handle-request"} => q.body.user \in Users
          /\ q.body.kind \in {"moodphrase", "information", "sms-status"} => q.body.ids # <<>>
      BY <1>1 DEF RequestBodies, AboutUser, WithNumber
    <3>3. PICK m : m = Reply(q, 200, q.body)
      OBVIOUS
    <3>4. /\ m \in [kind : {"reply", "notification"}, callid : Nat, code : Nat, body : Bodies]
          /\ m.body = q.body /\ m.code = 200
      BY <1>2, <3>2, <3>3
    <3>5. m.body.kind # "create-list"
      BY <2>3, <3>4
    <3>6. HasBuddyNode(m) => m.body.user \in Users
      BY <3>2, <3>4 DEF HasBuddyNode
    <3>7. m.body.kind \in {"moodphrase", "information", "sms-status", "permission"} =>
             m.body.ids # <<>>
      BY <2>3, <3>2, <3>4
    <3>8. m \in MessageType
      BY <3>4, <3>5, <3>6, <3>7 DEF MessageType
    <3> QED BY <3>1, <3>3, <3>8
  <2>4. CASE q.body.kind \notin {"create-list", "permission", "add-buddy", "handle-request",
                                 "moodphrase", "information", "sms-status", "contact-info"}
    <3>1. ResultBody(q) = NoBody
      BY <2>4 DEF ResultBody
    <3> QED BY <1>2, <1>3, <3>1 DEF MessageType, HasBuddyNode
  <2> QED BY <2>1, <2>2, <2>3, <2>4
<1> QED BY <1>4, <1>5, <1>6

(* What an accepted request does at the server.                             *)
LEMMA EffectIs ==
    ASSUME theirs \in TheirsType, NEW q \in RequestType, NEW t, t = Effect(q)
    PROVE  /\ t \in TheirsType
           /\ t.version \in {theirs.version, theirs.version + 1}
           /\ t.groups = IF q.body.kind = "create-list"
                         THEN theirs.groups \cup {theirs.version + 1}
                         ELSE IF q.body.kind = "delete-list"
                         THEN theirs.groups \ {q.body.ids[1]} ELSE theirs.groups
           /\ q.body.kind = "create-list" => t.version = theirs.version + 1
           /\ t.challenge = IF q.body.kind = "add-buddy" THEN 0 ELSE theirs.challenge
           /\ \A user \in Users :
                 \/ t.of[user] = theirs.of[user]
                 \/ /\ q.body.user = user
                    /\ \/ q.body.kind \in {"add-buddy", "handle-request", "delete-buddy"}
                       \/ q.body.kind = "group-ids"
           /\ q.body.kind = "group-ids" => t.of[q.body.user] = ToSet(q.body.ids)
<1> DEFINE ids == q.body.ids
           user == q.body.user
           kind == q.body.kind
<1>1. /\ q.body \in RequestBodies
      /\ ids \in Seq(Numbers)
      /\ kind \in AboutUser => user \in Users
      /\ kind \in WithNumber => ids # <<>>
  BY DEF RequestType, RequestBodies, Bodies, Numbers
<1>2. ToSet(ids) \in SUBSET Numbers
  <2>1. \A i \in DOMAIN ids : ids[i] \in Numbers
    BY <1>1, LenProperties, ElementOfSeq
  <2> QED BY <2>1 DEF ToSet
<1>3. kind \in WithNumber => {ids[1]} \in SUBSET Numbers
  <2>1. ids # <<>> => 1 \in 1..Len(ids)
    BY <1>1, EmptySeq, LenProperties
  <2> QED BY <1>1, <2>1, ElementOfSeq
<1>4. PICK grown : grown = [theirs EXCEPT !.version = @ + 1]
  OBVIOUS
<1>5. /\ grown \in TheirsType
      /\ grown.version = theirs.version + 1
      /\ grown.groups = theirs.groups /\ grown.of = theirs.of
      /\ grown.challenge = theirs.challenge
  BY <1>4 DEF TheirsType
<1> HIDE DEF ids, user, kind
<1>6. CASE kind = "group-ids"
  <2>1. user \in Users
    BY <1>1, <1>6 DEF AboutUser
  <2>2. t = [grown EXCEPT !.of[user] = ToSet(ids)]
    BY <1>4, <1>6 DEF Effect, user, ids, kind
  <2>3. /\ t \in TheirsType
        /\ t.version = theirs.version + 1 /\ t.groups = theirs.groups
        /\ t.challenge = theirs.challenge
        /\ t.of = [theirs.of EXCEPT ![user] = ToSet(ids)]
    BY <1>2, <1>5, <2>1, <2>2 DEF TheirsType
  <2> QED BY <1>6, <2>1, <2>3 DEF user, ids, kind, TheirsType
<1>7. CASE kind = "add-buddy"
  <2>1. user \in Users
    BY <1>1, <1>7 DEF AboutUser
  <2>2. t = [grown EXCEPT !.of[user] = ToSet(ids), !.challenge = 0]
    BY <1>4, <1>7 DEF Effect, user, ids, kind
  <2>4. PICK r : r = [grown EXCEPT !.of[user] = ToSet(ids)]
    OBVIOUS
  <2>5. /\ r \in TheirsType
        /\ r.version = theirs.version + 1 /\ r.groups = theirs.groups
        /\ r.of = [theirs.of EXCEPT ![user] = ToSet(ids)]
    BY <1>2, <1>5, <2>1, <2>4 DEF TheirsType
  <2>6. PICK r0 : r0 = [r EXCEPT !.challenge = 0]
    OBVIOUS
  <2>7. /\ r0 \in TheirsType
        /\ r0.version = theirs.version + 1 /\ r0.groups = theirs.groups
        /\ r0.challenge = 0
        /\ r0.of = [theirs.of EXCEPT ![user] = ToSet(ids)]
    <3>1. 0 \in 0..MaxCalls
      BY RosterAssumption
    <3> QED BY <2>5, <2>6, <3>1 DEF TheirsType
  <2>8. t = r0
    BY <2>2, <2>4, <2>6
  <2>3. /\ t \in TheirsType
        /\ t.version = theirs.version + 1 /\ t.groups = theirs.groups
        /\ t.challenge = 0
        /\ t.of = [theirs.of EXCEPT ![user] = ToSet(ids)]
    BY <2>7, <2>8
  <2> QED BY <1>7, <2>1, <2>3 DEF user, ids, kind, TheirsType
<1>8. CASE kind = "handle-request"
  <2>1. user \in Users /\ {ids[1]} \in SUBSET Numbers
    BY <1>1, <1>3, <1>8 DEF AboutUser, WithNumber
  <2>2. t = theirs \/ t = [grown EXCEPT !.of[user] = {ids[1]}]
    BY <1>4, <1>8 DEF Effect, user, ids, kind
  <2>3. CASE t = theirs
    BY <1>8, <2>3 DEF user, ids, kind, TheirsType
  <2>4. CASE t = [grown EXCEPT !.of[user] = {ids[1]}]
    <3>1. /\ t \in TheirsType
          /\ t.version = theirs.version + 1 /\ t.groups = theirs.groups
          /\ t.challenge = theirs.challenge
          /\ t.of = [theirs.of EXCEPT ![user] = {ids[1]}]
      BY <1>5, <2>1, <2>4 DEF TheirsType
    <3> QED BY <1>8, <2>1, <3>1 DEF user, ids, kind, TheirsType
  <2> QED BY <2>2, <2>3, <2>4
<1>9. CASE kind = "delete-buddy"
  <2>1. user \in Users
    BY <1>1, <1>9 DEF AboutUser
  <2>2. t = [grown EXCEPT !.of[user] = {}]
    BY <1>4, <1>9 DEF Effect, user, ids, kind
  <2>3. /\ t \in TheirsType
        /\ t.version = theirs.version + 1 /\ t.groups = theirs.groups
        /\ t.challenge = theirs.challenge
        /\ t.of = [theirs.of EXCEPT ![user] = {}]
    BY <1>5, <2>1, <2>2 DEF TheirsType
  <2> QED BY <1>9, <2>1, <2>3 DEF user, ids, kind, TheirsType
<1>10. CASE kind = "create-list"
  <2>1. t = [grown EXCEPT !.groups = @ \cup {theirs.version + 1}]
    BY <1>4, <1>10 DEF Effect, user, ids, kind
  <2>2. /\ t \in TheirsType
        /\ t.version = theirs.version + 1
        /\ t.groups = theirs.groups \cup {theirs.version + 1}
        /\ t.challenge = theirs.challenge /\ t.of = theirs.of
    BY <1>5, <2>1 DEF TheirsType
  <2> QED BY <1>10, <2>2 DEF user, ids, kind
<1>11. CASE kind = "delete-list"
  <2>1. t = [grown EXCEPT !.groups = @ \ {ids[1]}]
    BY <1>4, <1>11 DEF Effect, user, ids, kind
  <2>2. /\ t \in TheirsType
        /\ t.version = theirs.version + 1
        /\ t.groups = theirs.groups \ {ids[1]}
        /\ t.challenge = theirs.challenge /\ t.of = theirs.of
    BY <1>5, <2>1 DEF TheirsType
  <2> QED BY <1>11, <2>2 DEF user, ids, kind
<1>12. CASE kind \notin {"group-ids", "add-buddy", "handle-request", "delete-buddy",
                         "create-list", "delete-list"}
  <2>1. t = theirs \/ t = grown
    BY <1>4, <1>12 DEF Effect, user, ids, kind
  <2> QED BY <1>5, <1>12, <2>1 DEF user, ids, kind, TheirsType
<1> QED BY <1>6, <1>7, <1>8, <1>9, <1>10, <1>11, <1>12

-----------------------------------------------------------------------------
(* The start. *)

(* Nothing has been asked and everybody is where the server has them.       *)
LEMMA InitRosterInv ==
    ASSUME Init
    PROVE  RosterInv
<1> DEFINE C == {Contact_new(u, <<1>>) : u \in Buddies}
<1>1. contacts \in Seq(C)
  <2>1. IsFiniteSet(Buddies)
    BY RosterAssumption, FS_Subset
  <2>2. IsFiniteSet(C)
    <3> DEFINE f == [u \in Buddies |-> Contact_new(u, <<1>>)]
    <3>1. f \in Surjection(Buddies, C)
      BY DEF Surjection
    <3> HIDE DEF f, C
    <3> QED BY <2>1, <3>1, FS_Surjection
  <2>3. PICK n \in Nat : n = Cardinality(C)
    BY <2>2, FS_CardinalityType
  <2> HIDE DEF C
  <2>4. contacts \in [1..n -> C]
    BY <2>3 DEF Init, SetToSeqs, C
  <2> QED BY <2>4
<1>2. \A i \in DOMAIN contacts : \E u \in Buddies :
          contacts[i] = [id |-> u, groupids |-> <<1>>, online |-> FALSE]
  <2>1. \A i \in DOMAIN contacts : contacts[i] \in C
    <3> HIDE DEF C
    <3> QED BY <1>1, LenProperties, ElementOfSeq
  <2> QED BY <2>1 DEF Contact_new
<1>3. contacts \in Seq(ContactType)
  <2>1. <<1>> \in Seq(Lists \cup {1})
    OBVIOUS
  <2>2. ASSUME NEW u \in Buddies PROVE Contact_new(u, <<1>>) \in ContactType
    <3>1. u \in Users
      BY RosterAssumption
    <3> QED BY <2>1, <3>1 DEF Contact_new, ContactType
  <2>3. C \subseteq ContactType
    BY <2>2
  <2> HIDE DEF C
  <2> QED BY <1>1, <2>3, SeqMonotonic
<1>4. RosterTypes
  <2>1. sip \in SipType /\ asked \in Seq(RequestType) /\ inbox \in Seq(MessageType)
    BY EmptySeq DEF Init, RequestsInit, FetionSip_new, SipType, Types
  <2>2. groups \in Seq(Nat)
    BY DEF Init
  <2>3. self \in SelfType
    BY DEF Init, SelfType, Numbers
  <2>4. theirs \in TheirsType
    <3>1. 0 \in 0..MaxCalls
      BY RosterAssumption
    <3> QED BY <3>1 DEF Init, TheirsType, Numbers
  <2>5. TypeOK
    <3>1. /\ callid = 1 /\ sip.callid = 0 /\ line = "open" /\ running = "yes"
          /\ made = 0 /\ news = 0 /\ strays = FALSE /\ mixed = FALSE /\ doubted = {}
      BY DEF Init, RequestsInit, FetionSip_new
    <3>2. MaxCalls \in Nat /\ MaxNews \in Nat
      BY RosterAssumption
    <3>3. /\ callid \in Nat /\ sip.callid \in Nat
          /\ line \in {"open", "closed", "reset"} /\ running \in {"yes", "hung", "undefined"}
          /\ made \in 0..MaxCalls /\ news \in 0..MaxNews
      BY <3>1, <3>2
    <3>4. strays \in BOOLEAN /\ mixed \in BOOLEAN /\ doubted \subseteq Users
      BY <3>1, Zenon
    <3>5. contacts \in Seq([id : Users \cup {None}, groupids : Seq(Lists \cup {1}),
                           online : BOOLEAN])
      BY <1>3 DEF ContactType
    <3> QED BY <3>3, <3>4, <3>5, Zenon DEF TypeOK
  <2> QED BY <2>1, <2>2, <2>3, <2>4, <2>5
          DEF RosterTypes, Init, RequestsInit, SipType, SelfType, TheirsType
<1>5. IdsGrow /\ AnswerComing /\ Quiet /\ RequestOwn /\ LastAsked /\ NewInDoubt
  BY DEF Init, RequestsInit, IdsGrow, AnswerComing, Quiet, RequestOwn, LastAsked, NewInDoubt
<1>6. GroupsFollow
  <2>1. Distinct(groups) /\ ToSet(groups) = {1}
    BY DEF Init, Distinct, ToSet
  <2> QED BY <2>1 DEF Init, RequestsInit, GroupsFollow
<1>7. AcksFollow
  BY DEF Init, RequestsInit, AcksFollow, Challenged, Challenge, Acknowledges
<1>8. GroupIdsAgree
  <2> SUFFICES ASSUME NEW user \in Users, Listed(user)
               PROVE  ToSet(GroupIds(user)) = theirs.of[user]
    BY DEF GroupIdsAgree
  <2>1. /\ find_by_userid(user) \in DOMAIN contacts
        /\ contacts[find_by_userid(user)].id = user
    BY <1>4, Finds
  <2>2. user \in Buddies /\ GroupIds(user) = <<1>>
    BY <1>2, <2>1 DEF GroupIds
  <2>3. theirs.of[user] = {1}
    BY <2>2 DEF Init
  <2>4. ToSet(<<1>>) = {1}
    BY DEF ToSet
  <2> QED BY <2>2, <2>3, <2>4
<1> QED BY <1>4, <1>5, <1>6, <1>7, <1>8 DEF RosterInv

-----------------------------------------------------------------------------
(* The contact list, before and after a step. *)

At(list, user) == {i \in DOMAIN list : list[i].id = user}

FirstAt(list, user) == CHOOSE i \in At(list, user) : \A j \in At(list, user) : i <= j

(* What Roster says of the contact list, with the list as a parameter.      *)
LEMMA ListedIn ==
    ASSUME NEW user
    PROVE  /\ Listed(user) <=> At(contacts, user) # {}
           /\ Listed(user)' <=> At(contacts', user) # {}
           /\ find_by_userid(user) = FirstAt(contacts, user)
           /\ GroupIds(user) = contacts[FirstAt(contacts, user)].groupids
           /\ GroupIds(user)' = contacts'[FirstAt(contacts', user)].groupids
BY DEF Listed, Positions, find_by_userid, GroupIds, At, FirstAt

(* The first position is the only one before all others.                    *)
LEMMA FirstIs ==
    ASSUME NEW list \in Seq(ContactType), NEW user, At(list, user) # {}
    PROVE  /\ FirstAt(list, user) \in At(list, user)
           /\ \A j \in At(list, user) : FirstAt(list, user) <= j
           /\ \A i \in At(list, user) :
                 (\A j \in At(list, user) : i <= j) => i = FirstAt(list, user)
<1>1. DOMAIN list \in SUBSET Nat
  BY LenProperties
<1>2. At(list, user) \in SUBSET Nat
  BY <1>1 DEF At
<1>3. \E i \in At(list, user) : \A j \in At(list, user) : i <= j
  BY <1>2, LeastElement
<1>4. /\ FirstAt(list, user) \in At(list, user)
      /\ \A j \in At(list, user) : FirstAt(list, user) <= j
  BY <1>3 DEF FirstAt
<1> QED BY <1>2, <1>4

Put(list, k, c) == [list EXCEPT ![k] = c]

(* A change of one contact that leaves the ids as they are.                 *)
LEMMA Changed ==
    ASSUME NEW list \in Seq(ContactType), NEW k \in DOMAIN list, NEW c \in ContactType,
           c.id = list[k].id, NEW new, new = Put(list, k, c)
    PROVE  /\ new \in Seq(ContactType)
           /\ \A user : At(new, user) = At(list, user) /\ FirstAt(new, user) = FirstAt(list, user)
           /\ \A i \in DOMAIN list : new[i] = IF i = k THEN c ELSE list[i]
<1>1. /\ Len(list) \in Nat
      /\ DOMAIN list = 1..Len(list)
  BY LenProperties
<1>2. /\ new \in Seq(ContactType)
      /\ Len(new) = Len(list)
      /\ \A i \in 1..Len(list) : new[i] = IF i = k THEN c ELSE list[i]
  BY <1>1, ExceptSeq DEF Put
<1>3. DOMAIN new = 1..Len(list)
  BY <1>2, LenProperties
<1>4. \A i \in DOMAIN list : new[i].id = list[i].id
  BY <1>1, <1>2
<1>5. \A user : At(new, user) = At(list, user)
  BY <1>1, <1>3, <1>4 DEF At
<1> QED BY <1>1, <1>2, <1>5 DEF FirstAt

(* A new contact at the head: the others are found one place further down.  *)
LEMMA Prepended ==
    ASSUME NEW list \in Seq(ContactType), NEW c \in ContactType,
           NEW new, new = list_append(list, c)
    PROVE  /\ new \in Seq(ContactType)
           /\ \A user : user # c.id =>
                 /\ At(new, user) = {} <=> At(list, user) = {}
                 /\ At(list, user) # {} =>
                       new[FirstAt(new, user)] = list[FirstAt(list, user)]
<1>1. /\ Len(list) \in Nat
      /\ DOMAIN list = 1..Len(list)
  BY LenProperties
<1>2. <<c>> \in Seq(ContactType) /\ Len(<<c>>) = 1 /\ <<c>>[1] = c
  OBVIOUS
<1>3. /\ new \in Seq(ContactType)
      /\ Len(new) = 1 + Len(list)
      /\ \A i \in 1..(1 + Len(list)) : new[i] = IF i <= 1 THEN <<c>>[i] ELSE list[i - 1]
  BY <1>2, ConcatProperties DEF list_append
<1>4. DOMAIN new = 1..(1 + Len(list))
  BY <1>3, LenProperties
<1>5. new[1] = c /\ \A i \in 1..Len(list) : new[i + 1] = list[i]
  <2>1. 1 \in 1..(1 + Len(list)) /\ \A i \in 1..Len(list) : i + 1 \in 1..(1 + Len(list))
    BY <1>1
  <2> QED BY <1>1, <1>2, <1>3, <2>1
<1>6. ASSUME NEW user, user # c.id
      PROVE  /\ At(new, user) = {} <=> At(list, user) = {}
             /\ At(list, user) # {} => new[FirstAt(new, user)] = list[FirstAt(list, user)]
  <2>1. \A i \in At(list, user) : i + 1 \in At(new, user)
    BY <1>1, <1>4, <1>5 DEF At
  <2>2. \A i \in At(new, user) : i - 1 \in At(list, user)
    <3> SUFFICES ASSUME NEW i \in At(new, user) PROVE i - 1 \in At(list, user)
      OBVIOUS
    <3>1. i \in 1..(1 + Len(list)) /\ new[i].id = user
      BY <1>4 DEF At
    <3>2. i # 1
      BY <3>1, <1>5, <1>6
    <3>3. i - 1 \in 1..Len(list)
      BY <3>1, <3>2, <1>1
    <3>4. new[i] = list[i - 1]
      BY <3>1, <3>2, <1>3, <1>1
    <3> QED BY <3>1, <3>3, <3>4, <1>1 DEF At
  <2>3. ASSUME At(list, user) # {}
        PROVE  new[FirstAt(new, user)] = list[FirstAt(list, user)]
    <3> DEFINE k == FirstAt(list, user)
    <3>1. k \in At(list, user) /\ \A j \in At(list, user) : k <= j
      BY <2>3, FirstIs
    <3>2. k \in 1..Len(list)
      BY <3>1, <1>1 DEF At
    <3> HIDE DEF k
    <3>3. k + 1 \in At(new, user)
      BY <3>1, <2>1
    <3>4. \A j \in At(new, user) : k + 1 <= j
      <4> SUFFICES ASSUME NEW j \in At(new, user) PROVE k + 1 <= j
        OBVIOUS
      <4>1. j \in Nat
        BY <1>1, <1>4 DEF At
      <4>2. k <= j - 1
        BY <2>2, <3>1
      <4> QED BY <4>1, <4>2, <3>2
    <3>5. FirstAt(new, user) = k + 1
      <4>1. At(new, user) # {}
        BY <3>3
      <4> QED BY <1>3, <3>3, <3>4, <4>1, FirstIs
    <3> QED BY <1>5, <3>2, <3>5 DEF k
  <2> QED BY <2>1, <2>2, <2>3
<1> QED BY <1>3, <1>6

(* Setting the group ids of a contact, as moving, copying and removing do   *)
(* before they ask.                                                         *)
LEMMA GroupIdsSet ==
    ASSUME RosterTypes, NEW body \in RequestBodies, ContactsChanged(body)
    PROVE  /\ contacts' \in Seq(ContactType)
           /\ doubted' \subseteq Users /\ doubted \subseteq doubted'
           /\ \A user : Listed(user)' <=> Listed(user)
           /\ \A user : body.kind # "group-ids" \/ body.user # user =>
                 (Listed(user) => GroupIds(user)' = GroupIds(user))
           /\ body.kind = "group-ids" =>
                 /\ Listed(body.user)
                 /\ GroupIds(body.user)' = body.ids
                 /\ line # "open" => body.user \in doubted'
<1>1. contacts \in Seq(ContactType) /\ doubted \subseteq Users
  BY DEF RosterTypes, TypeOK, ContactType
<1>2. CASE body.kind # "group-ids"
  <2>1. contacts' = contacts /\ doubted' = doubted
    BY <1>2 DEF ContactsChanged
  <2> QED BY <1>1, <1>2, <2>1, ListedIn
<1>3. CASE body.kind = "group-ids"
  <2> DEFINE k == FirstAt(contacts, body.user)
             c == [id |-> contacts[k].id, groupids |-> body.ids, online |-> contacts[k].online]
  <2>1. /\ Listed(body.user) /\ contacts' = SetGroupIds(body.user, body.ids)
        /\ GroupsAsked(body.user)
    BY <1>3 DEF ContactsChanged
  <2>2. At(contacts, body.user) # {} /\ k = find_by_userid(body.user)
    BY <2>1, ListedIn
  <2>3. k \in At(contacts, body.user)
    BY <1>1, <2>2, FirstIs
  <2>4. k \in DOMAIN contacts /\ contacts[k].id = body.user
    BY <2>3 DEF At
  <2>5. contacts[k] \in ContactType
    BY <1>1, <2>4, LenProperties, ElementOfSeq
  <2>6. body.user \in Users /\ body.ids \in Seq(Lists \cup {1})
    BY <1>3 DEF RequestBodies, AboutUser
  <2>7. c \in ContactType /\ c.id = contacts[k].id /\ c.groupids = body.ids
    BY <2>5, <2>6 DEF ContactType
  <2>8. [contacts[k] EXCEPT !.groupids = body.ids] = c
    BY <2>5 DEF ContactType
  <2>9. contacts' = Put(contacts, k, c)
    <3>1. contacts' = [contacts EXCEPT ![k] = [contacts[k] EXCEPT !.groupids = body.ids]]
      BY <2>1, <2>2 DEF SetGroupIds
    <3> QED BY <3>1, <2>8 DEF Put
  <2> HIDE DEF c, k
  <2>10. /\ contacts' \in Seq(ContactType)
         /\ \A user : /\ At(contacts', user) = At(contacts, user)
                      /\ FirstAt(contacts', user) = FirstAt(contacts, user)
         /\ \A i \in DOMAIN contacts : contacts'[i] = IF i = k THEN c ELSE contacts[i]
    BY <1>1, <2>4, <2>7, <2>9, Changed
  <2>11. \A user : Listed(user)' <=> Listed(user)
    BY <2>10, ListedIn
  <2>12. GroupIds(body.user)' = body.ids
    <3>1. GroupIds(body.user)' = contacts'[k].groupids
      BY <2>10, ListedIn DEF k
    <3> QED BY <3>1, <2>4, <2>7, <2>10
  <2>13. ASSUME NEW user, user # body.user, Listed(user)
         PROVE  GroupIds(user)' = GroupIds(user)
    <3> DEFINE i == FirstAt(contacts, user)
    <3>1. i \in At(contacts, user)
      BY <1>1, <2>13, FirstIs, ListedIn
    <3>2. i \in DOMAIN contacts /\ contacts[i].id = user
      BY <3>1 DEF At
    <3>3. GroupIds(user)' = contacts'[i].groupids /\ GroupIds(user) = contacts[i].groupids
      BY <2>10, ListedIn
    <3> QED BY <2>4, <2>10, <2>13, <3>2, <3>3
  <2>14. /\ doubted' \subseteq Users /\ doubted \subseteq doubted'
         /\ line # "open" => body.user \in doubted'
    BY <1>1, <2>1, <2>6 DEF GroupsAsked
  <2> QED BY <1>3, <2>1, <2>10, <2>11, <2>12, <2>13, <2>14
<1> QED BY <1>2, <1>3

(* A presence notification leaves ids and group ids as they are.            *)
LEMMA PresenceSet ==
    ASSUME RosterTypes, Heard
    PROVE  /\ contacts' \in Seq(ContactType)
           /\ \A user : /\ Listed(user)' <=> Listed(user)
                        /\ Listed(user) => GroupIds(user)' = GroupIds(user)
<1>1. contacts \in Seq(ContactType)
  BY DEF RosterTypes, TypeOK, ContactType
<1>2. CASE contacts' = contacts
  BY <1>1, <1>2, ListedIn
<1>3. CASE contacts' # contacts
  <2>1. PICK someone : \E online \in BOOLEAN :
            /\ Listed(someone)
            /\ contacts' = [contacts EXCEPT ![find_by_userid(someone)].online = online]
    BY <1>3 DEF Heard
  <2>0. PICK online \in BOOLEAN :
            /\ Listed(someone)
            /\ contacts' = [contacts EXCEPT ![find_by_userid(someone)].online = online]
    BY <2>1
  <2> DEFINE k == FirstAt(contacts, someone)
             c == [id |-> contacts[k].id, groupids |-> contacts[k].groupids, online |-> online]
  <2>2. At(contacts, someone) # {} /\ k = find_by_userid(someone)
    BY <2>0, ListedIn
  <2>3. k \in DOMAIN contacts
    BY <1>1, <2>2, FirstIs DEF At
  <2>4. contacts[k] \in ContactType
    BY <1>1, <2>3, LenProperties, ElementOfSeq
  <2>5. c \in ContactType /\ c.id = contacts[k].id /\ c.groupids = contacts[k].groupids
    BY <2>0, <2>4 DEF ContactType
  <2>6. [contacts[k] EXCEPT !.online = online] = c
    BY <2>4 DEF ContactType
  <2>7. contacts' = Put(contacts, k, c)
    <3>1. contacts' = [contacts EXCEPT ![k] = [contacts[k] EXCEPT !.online = online]]
      BY <2>0, <2>2
    <3> QED BY <3>1, <2>6 DEF Put
  <2> HIDE DEF c, k
  <2>8. /\ contacts' \in Seq(ContactType)
        /\ \A user : /\ At(contacts', user) = At(contacts, user)
                     /\ FirstAt(contacts', user) = FirstAt(contacts, user)
        /\ \A i \in DOMAIN contacts : contacts'[i] = IF i = k THEN c ELSE contacts[i]
    BY <1>1, <2>3, <2>5, <2>7, Changed
  <2>9. \A i \in DOMAIN contacts : contacts'[i].groupids = contacts[i].groupids
    BY <2>5, <2>8
  <2>10. ASSUME NEW user, Listed(user)
         PROVE  GroupIds(user)' = GroupIds(user)
    <3>1. FirstAt(contacts, user) \in DOMAIN contacts
      BY <1>1, <2>10, FirstIs, ListedIn DEF At
    <3> QED BY <2>8, <2>9, <3>1, ListedIn
  <2>11. \A user : Listed(user)' <=> Listed(user)
    BY <2>8, ListedIn
  <2> QED BY <2>8, <2>10, <2>11
<1> QED BY <1>2, <1>3

(* The contact that comes with an answer hides nobody but an earlier one of *)
(* the same name.                                                           *)
LEMMA ContactAdded ==
    ASSUME RosterTypes, NEW m \in MessageType, ContactsTaken(m)
    PROVE  /\ contacts' \in Seq(ContactType)
           /\ \A user \in Users :
                 \/ get_code(m) = 200 /\ HasBuddyNode(m) /\ m.body.user = user
                 \/ /\ Listed(user)' <=> Listed(user)
                    /\ Listed(user) => GroupIds(user)' = GroupIds(user)
<1>1. contacts \in Seq(ContactType)
  BY DEF RosterTypes, TypeOK, ContactType
<1>2. CASE contacts' = contacts
  BY <1>1, <1>2, ListedIn
<1>3. ASSUME NEW someone \in Users \cup {None},
             contacts' = list_append(contacts, Contact_new(someone, <<>>))
      PROVE  /\ contacts' \in Seq(ContactType)
             /\ \A user : user # someone =>
                   /\ Listed(user)' <=> Listed(user)
                   /\ Listed(user) => GroupIds(user)' = GroupIds(user)
  <2> DEFINE c == Contact_new(someone, <<>>)
  <2>1. <<>> \in Seq(Lists \cup {1})
    BY EmptySeq
  <2>2. c \in ContactType /\ c.id = someone
    BY <2>1 DEF Contact_new, ContactType
  <2> HIDE DEF c
  <2>3. /\ contacts' \in Seq(ContactType)
        /\ \A user : user # c.id =>
              /\ At(contacts', user) = {} <=> At(contacts, user) = {}
              /\ At(contacts, user) # {} =>
                    contacts'[FirstAt(contacts', user)] = contacts[FirstAt(contacts, user)]
    <3>1. contacts' = list_append(contacts, c)
      BY <1>3 DEF c
    <3> QED BY <1>1, <2>2, <3>1, Prepended
  <2> QED BY <2>2, <2>3, ListedIn
<1>4. CASE /\ get_code(m) = 200 /\ HasBuddyNode(m)
           /\ contacts' = list_append(contacts, Contact_new(m.body.user, <<>>))
  <2>1. m.body.user \in Users \cup {None}
    BY <1>4 DEF MessageType
  <2> QED BY <1>3, <1>4, <2>1
<1>5. CASE contacts' = list_append(contacts, Contact_new(None, <<>>))
  <2>1. None \notin Users
    BY RosterAssumption
  <2> QED BY <1>3, <1>5, <2>1
<1> QED BY <1>2, <1>4, <1>5 DEF ContactsTaken

-----------------------------------------------------------------------------
(* The channel, before and after a step. *)

Lengths ==
    /\ Len(asked) \in Nat /\ DOMAIN asked = 1..Len(asked)
    /\ Len(inbox) \in Nat /\ DOMAIN inbox = 1..Len(inbox)
    /\ \A i \in DOMAIN asked : asked[i] \in RequestType
    /\ \A i \in DOMAIN inbox : inbox[i] \in MessageType

(* Requests and messages have their places.                                 *)
LEMMA LengthsAre ==
    ASSUME RosterTypes
    PROVE  Lengths
<1>1. asked \in Seq(RequestType) /\ inbox \in Seq(MessageType)
  BY DEF RosterTypes
<1>2. /\ Len(asked) \in Nat /\ DOMAIN asked = 1..Len(asked)
      /\ Len(inbox) \in Nat /\ DOMAIN inbox = 1..Len(inbox)
  BY <1>1, LenProperties
<1> QED BY <1>1, <1>2, ElementOfSeq DEF Lengths

AckOf(q) ==
    \A n \in 1..MaxCalls :
        Contains(q.header, Ack(n)) <=> q.body.kind = "add-buddy" /\ Challenge = n

(* A request is the last of those that are out.                             *)
Posted(q) ==
    /\ line = "open"
    /\ q.callid = callid
    /\ q \in RequestType
    /\ AckOf(q)
    /\ asked' \in Seq(RequestType)
    /\ DOMAIN asked' = 1..(Len(asked) + 1)
    /\ Len(asked') = Len(asked) + 1
    /\ \A i \in 1..Len(asked) : asked'[i] = asked[i]
    /\ asked'[Len(asked) + 1] = q

(* A call that writes.                                                      *)
LEMMA SentIs ==
    ASSUME RosterTypes, NEW type \in Types, NEW headers \in Seq(Headers),
           NEW body \in RequestBodies, HeadersOf(body, headers), Sent(type, headers, body)
    PROVE  \/ line # "open" /\ asked' = asked
           \/ \E q : Posted(q) /\ q.body = body
<1> DEFINE q == [type |-> type, callid |-> callid, header |-> sip.header \o headers,
                 body |-> body]
<1>1. /\ sip \in SipType /\ callid \in Nat /\ asked \in Seq(RequestType)
      /\ verification \in {None} \cup [challenge : 1..MaxCalls, unset : SUBSET Unset]
  BY DEF RosterTypes, TypeOK, SipType
<1>2. q.callid = callid /\ q.body = body
  OBVIOUS
<1>3. asked' = IF line = "open" THEN Append(asked, q) ELSE asked
  BY DEF Sent
<1>4. /\ q \in RequestType
      /\ \A n \in 1..MaxCalls :
            Contains(q.header, Ack(n)) <=> body.kind = "add-buddy" /\ Challenge = n
  BY <1>1, RequestIs
<1> HIDE DEF q
<1>5. CASE line = "open"
  <2>1. asked' = Append(asked, q)
    BY <1>3, <1>5
  <2>2. /\ asked' \in Seq(RequestType)
        /\ DOMAIN asked' = 1..(Len(asked) + 1)
        /\ Len(asked') = Len(asked) + 1
        /\ \A i \in 1..Len(asked) : asked'[i] = asked[i]
        /\ asked'[Len(asked) + 1] = q
    BY <1>1, <1>4, <2>1, AppendIs
  <2>3. Posted(q)
    BY <1>2, <1>4, <1>5, <2>2 DEF Posted, AckOf
  <2> QED BY <1>2, <2>3
<1>6. CASE line # "open"
  BY <1>3, <1>6
<1> QED BY <1>5, <1>6

(* The server handles the first request and answers it.                     *)
Handled(m) ==
    /\ line = "open" /\ line' = "open"
    /\ Len(asked) >= 1
    /\ m \in MessageType
    /\ m.kind = "reply" /\ m.callid = asked[1].callid
    /\ asked' \in Seq(RequestType)
    /\ DOMAIN asked' = 1..(Len(asked) - 1) /\ Len(asked') = Len(asked) - 1
    /\ \A i \in 1..(Len(asked) - 1) : asked'[i] = asked[i + 1]
    /\ inbox' \in Seq(MessageType)
    /\ DOMAIN inbox' = 1..(Len(inbox) + 1) /\ Len(inbox') = Len(inbox) + 1
    /\ \A i \in 1..Len(inbox) : inbox'[i] = inbox[i]
    /\ inbox'[Len(inbox) + 1] = m
    /\ UNCHANGED <<callid, sip, running, contacts, groups, self, verification, call, made,
                   news, strays, mixed>>

Accepted(m) ==
    /\ m.code = 200 /\ m.body = ResultBody(asked[1])
    /\ theirs' = Effect(asked[1])
    /\ doubted' = IF asked[1].body.kind = "group-ids" THEN doubted \ {asked[1].body.user}
                  ELSE IF asked[1].body.kind \in {"add-buddy", "handle-request", "delete-buddy"}
                  THEN doubted \cup {asked[1].body.user} ELSE doubted

Refused(m) ==
    /\ m.code = 400
    /\ theirs' = theirs
    /\ doubted' = IF asked[1].body.kind = "group-ids" THEN doubted \cup {asked[1].body.user}
                  ELSE doubted

Contested(m) ==
    /\ asked[1].body.kind = "add-buddy"
    /\ m.code = 420 /\ Head(m.body.ids) = made
    /\ theirs' = [theirs EXCEPT !.challenge = made]
    /\ doubted' = doubted

(* The three things the server does with a request.                         *)
LEMMA HandledIs ==
    ASSUME RosterTypes, Accepts \/ Refuses \/ Challenges
    PROVE  \E m : Handled(m) /\ (Accepted(m) \/ Refused(m) \/ Contested(m))
<1>1. /\ asked \in Seq(RequestType) /\ inbox \in Seq(MessageType) /\ theirs \in TheirsType
      /\ asked # <<>>
  BY DEF RosterTypes, TheirsType, Accepts, Refuses, Challenges
<1>2. made \in 1..MaxCalls
  BY <1>1, RosterAssumption DEF RosterTypes, TypeOK
<1>3. /\ Tail(asked) \in Seq(RequestType)
      /\ Len(Tail(asked)) = Len(asked) - 1
      /\ DOMAIN Tail(asked) = 1..(Len(asked) - 1)
      /\ \A i \in 1..(Len(asked) - 1) : Tail(asked)[i] = asked[i + 1]
      /\ Head(asked) = asked[1] /\ asked[1] \in RequestType
  BY <1>1, TailIs
<1>4. Len(asked) >= 1
  BY <1>1, EmptySeq
<1>5. /\ Reply(asked[1], 200, ResultBody(asked[1])) \in MessageType
      /\ Reply(asked[1], 400, NoBody) \in MessageType
      /\ Reply(asked[1], 420, Body("challenge", None, <<made>>)) \in MessageType
  BY <1>1, <1>2, <1>3, ReplyIs
<1>6. ASSUME NEW code, NEW body, Answer(code, body), ServerUnchanged,
             NEW m \in MessageType, m = Reply(asked[1], code, body)
      PROVE  Handled(m) /\ m.code = code /\ m.body = body
  <2>1. m.kind = "reply" /\ m.callid = asked[1].callid /\ m.code = code /\ m.body = body
    BY <1>6 DEF Reply
  <2>2. asked' = Tail(asked) /\ inbox' = Append(inbox, m)
    BY <1>3, <1>6 DEF Answer
  <2>3. /\ inbox' \in Seq(MessageType)
        /\ DOMAIN inbox' = 1..(Len(inbox) + 1) /\ Len(inbox') = Len(inbox) + 1
        /\ \A i \in 1..Len(inbox) : inbox'[i] = inbox[i]
        /\ inbox'[Len(inbox) + 1] = m
    BY <1>1, <1>6, <2>2, AppendIs
  <2>4. line = "open" /\ line' = "open" /\ UNCHANGED <<callid, sip, running>>
    BY <1>6 DEF Answer
  <2> QED BY <1>3, <1>4, <1>6, <2>1, <2>2, <2>3, <2>4 DEF Handled, ServerUnchanged
<1>7. CASE Accepts
  <2>1. PICK m : m = Reply(asked[1], 200, ResultBody(asked[1]))
    OBVIOUS
  <2>2. Answer(200, ResultBody(asked[1])) /\ ServerUnchanged
    BY <1>3, <1>7 DEF Accepts
  <2>3. Handled(m) /\ m.code = 200 /\ m.body = ResultBody(asked[1])
    BY <1>5, <1>6, <2>1, <2>2
  <2>4. Accepted(m)
    BY <1>3, <1>7, <2>3 DEF Accepts, Accepted
  <2> QED BY <2>3, <2>4
<1>8. CASE Refuses
  <2>1. PICK m : m = Reply(asked[1], 400, NoBody)
    OBVIOUS
  <2>2. Answer(400, NoBody) /\ ServerUnchanged
    BY <1>8 DEF Refuses
  <2>3. Handled(m) /\ m.code = 400
    BY <1>5, <1>6, <2>1, <2>2
  <2>4. Refused(m)
    BY <1>3, <1>8, <2>3 DEF Refuses, Refused
  <2> QED BY <2>3, <2>4
<1>9. CASE Challenges
  <2>1. PICK m : m = Reply(asked[1], 420, Body("challenge", None, <<made>>))
    OBVIOUS
  <2>2. Answer(420, Body("challenge", None, <<made>>)) /\ ServerUnchanged
    BY <1>9 DEF Challenges
  <2>3. Handled(m) /\ m.code = 420 /\ m.body = Body("challenge", None, <<made>>)
    BY <1>5, <1>6, <2>1, <2>2
  <2>4. Head(m.body.ids) = made
    BY <2>3 DEF Body
  <2>5. Contested(m)
    BY <1>3, <1>9, <2>3, <2>4 DEF Challenges, Contested
  <2> QED BY <2>3, <2>5
<1> QED BY <1>7, <1>8, <1>9

(* What is read is taken off the front.                                     *)
Taken(n) ==
    /\ n \in 1..Len(inbox)
    /\ inbox' \in Seq(MessageType)
    /\ DOMAIN inbox' = 1..(Len(inbox) - n) /\ Len(inbox') = Len(inbox) - n
    /\ \A i \in 1..(Len(inbox) - n) : inbox'[i] = inbox[i + n]

(* A call that ends and the main loop both read.                            *)
LEMMA TakenIs ==
    ASSUME RosterTypes
    PROVE  /\ \A m, n : EndsWith(m, n) => Taken(n) /\ m = inbox[1] /\ m \in MessageType
           /\ Heard => Taken(1)
<1>1. inbox \in Seq(MessageType)
  BY DEF RosterTypes
<1>2. ASSUME NEW m, NEW n, EndsWith(m, n)
      PROVE  Taken(n) /\ m = inbox[1] /\ m \in MessageType
  <2>1. /\ inbox # <<>> /\ n \in 1..Len(inbox) /\ m = Head(inbox)
        /\ inbox' = SubSeq(inbox, n + 1, Len(inbox))
    BY <1>2 DEF EndsWith
  <2>2. Head(inbox) = inbox[1] /\ inbox[1] \in MessageType
    BY <1>1, <2>1, TailIs
  <2>3. n \in 0..Len(inbox)
    BY <2>1
  <2>4. /\ inbox' \in Seq(MessageType)
        /\ DOMAIN inbox' = 1..(Len(inbox) - n) /\ Len(inbox') = Len(inbox) - n
        /\ \A i \in 1..(Len(inbox) - n) : inbox'[i] = inbox[i + n]
    BY <1>1, <2>1, <2>3, DropFirst
  <2> QED BY <2>1, <2>2, <2>4 DEF Taken
<1>3. ASSUME Heard PROVE Taken(1)
  <2>1. inbox # <<>> /\ inbox' = Tail(inbox)
    BY <1>3 DEF Heard, Hears
  <2>2. 1 \in 1..Len(inbox)
    BY <1>1, <2>1, EmptySeq
  <2> QED BY <1>1, <2>1, <2>2, TailIs DEF Taken
<1> QED BY <1>2, <1>3

(* A notification is the last of what has come.                             *)
Noticed ==
    /\ line = "open" /\ line' = "open"
    /\ news' \in 0..MaxNews
    /\ strays' = TRUE
    /\ inbox' \in Seq(MessageType)
    /\ DOMAIN inbox' = 1..(Len(inbox) + 1) /\ Len(inbox') = Len(inbox) + 1
    /\ \A i \in 1..Len(inbox) : inbox'[i] = inbox[i]
    /\ inbox'[Len(inbox) + 1].kind = "notification"
    /\ UNCHANGED <<callid, sip, asked, running, contacts, groups, self, verification, call,
                   made, theirs, mixed, doubted>>

(* The server sends a notification of somebody's presence.                  *)
LEMMA NoticedIs ==
    ASSUME RosterTypes, Notifies
    PROVE  Noticed
<1>1. inbox \in Seq(MessageType) /\ news \in 0..MaxNews
  BY DEF RosterTypes, TypeOK
<1>2. news' \in 0..MaxNews
  BY <1>1, RosterAssumption DEF Notifies
<1>3. PICK user \in Users : \E online \in {0, 1} :
          inbox' = Append(inbox, Notification(Body("presence", user, <<online>>)))
  <2>1. \E user \in {u \in Users : theirs.of[u] # {}}, online \in {0, 1} :
            inbox' = Append(inbox, Notification(Body("presence", user, <<online>>)))
    BY DEF Notifies
  <2> QED BY <2>1
<1>4. PICK online \in {0, 1} :
          inbox' = Append(inbox, Notification(Body("presence", user, <<online>>)))
  BY <1>3
<1>5. PICK m : m = Notification(Body("presence", user, <<online>>))
  OBVIOUS
<1>6. m \in MessageType /\ m.kind = "notification"
  <2>1. <<online>> \in Seq(Numbers)
    BY <1>4 DEF Numbers
  <2>2. PICK b : b = Body("presence", user, <<online>>)
    OBVIOUS
  <2>3. b \in Bodies /\ b.kind = "presence"
    BY <2>1, <2>2 DEF Body, Bodies, Kinds, Numbers
  <2>4. /\ m \in [kind : {"reply", "notification"}, callid : Nat, code : Nat, body : Bodies]
        /\ m.body = b /\ m.code = 0 /\ m.kind = "notification"
    BY <1>5, <2>2, <2>3 DEF Notification
  <2> QED BY <2>3, <2>4 DEF MessageType, HasBuddyNode
<1>7. inbox' = Append(inbox, m)
  BY <1>4, <1>5
<1>8. /\ inbox' \in Seq(MessageType)
      /\ DOMAIN inbox' = 1..(Len(inbox) + 1) /\ Len(inbox') = Len(inbox) + 1
      /\ \A i \in 1..Len(inbox) : inbox'[i] = inbox[i]
      /\ inbox'[Len(inbox) + 1] = m
  BY <1>1, <1>6, <1>7, AppendIs
<1> QED BY <1>2, <1>6, <1>8 DEF Notifies, Noticed

-----------------------------------------------------------------------------
(* Every step keeps what there is to keep. *)

VerificationType == {None} \cup [challenge : 1..MaxCalls, unset : SUBSET Unset]

(* The types, one by one, of a state and of the one after it.               *)
LEMMA TypesOf ==
    ASSUME RosterTypes
    PROVE  /\ callid \in Nat /\ sip \in SipType
           /\ asked \in Seq(RequestType) /\ inbox \in Seq(MessageType)
           /\ line \in {"open", "closed", "reset"}
           /\ running \in {"yes", "hung", "undefined"}
           /\ contacts \in Seq(ContactType) /\ groups \in Seq(Nat) /\ self \in SelfType
           /\ verification \in VerificationType /\ call \in {None} \cup CallType
           /\ made \in Nat /\ made \in 0..MaxCalls /\ news \in 0..MaxNews
           /\ asked # <<>> => made >= 1
           /\ theirs \in TheirsType /\ strays \in BOOLEAN /\ mixed \in BOOLEAN
           /\ doubted \subseteq Users
           /\ MaxCalls \in Nat /\ None \notin Users /\ None \notin CallType
<1>1. MaxCalls \in Nat /\ MaxNews \in Nat /\ None \notin Users
  BY RosterAssumption
<1>2. None \notin CallType
  <2>1. \A c \in CallType : c \in [op : Calls, id : Nat, body : Bodies]
    BY DEF CallType, RequestBodies
  <2> QED BY <2>1, RosterAssumption
<1>3. made \in Nat
  BY <1>1 DEF RosterTypes, TypeOK
<1> QED BY <1>1, <1>2, <1>3
        DEF RosterTypes, TypeOK, SipType, ContactType, SelfType, VerificationType, TheirsType

(* The types of the next state, put together.                               *)
LEMMA TypesFrom ==
    ASSUME callid' \in Nat, sip' \in SipType,
           asked' \in Seq(RequestType), inbox' \in Seq(MessageType),
           line' \in {"open", "closed", "reset"},
           running' \in {"yes", "hung", "undefined"},
           contacts' \in Seq(ContactType), groups' \in Seq(Nat), self' \in SelfType,
           verification' \in VerificationType, call' \in {None} \cup CallType,
           made' \in 0..MaxCalls, news' \in 0..MaxNews,
           asked' # <<>> => made' >= 1,
           theirs' \in TheirsType, strays' \in BOOLEAN, mixed' \in BOOLEAN,
           doubted' \subseteq Users
    PROVE  RosterTypes'
<1>1. sip'.callid \in Nat
  BY DEF SipType
<1>2. contacts' \in Seq([id : Users \cup {None}, groupids : Seq(Lists \cup {1}),
                         online : BOOLEAN])
  BY DEF ContactType
<1>3. TypeOK'
  BY <1>1, <1>2, Zenon DEF TypeOK
<1>4. /\ sip' \in [type : Types, callid : Nat, header : Seq({Event("SetContactInfo")})]
      /\ self' \in [status : Numbers, impression : Numbers, smsOnLineStatus : Numbers,
                    contactVersion : Numbers]
      /\ verification' \in {None} \cup [challenge : 1..MaxCalls, unset : SUBSET Unset]
      /\ theirs' \in [groups : SUBSET Nat, of : [Users -> SUBSET Numbers], version : Nat,
                      challenge : 0..MaxCalls]
  BY DEF SipType, SelfType, VerificationType, TheirsType
<1> QED BY <1>3, <1>4, Zenon DEF RosterTypes

(* Where a call has its answer, no request is out behind it.                *)
LEMMA ComeLast ==
    ASSUME RosterTypes, IdsGrow, NEW i, Come(i)
    PROVE  asked = <<>> /\ Len(asked) = 0 /\ DOMAIN asked = {}
<1>1. Lengths /\ asked \in Seq(RequestType) /\ call \in CallType
  BY LengthsAre, TypesOf DEF Come
<1>2. /\ i \in DOMAIN inbox /\ inbox[i].kind = "reply" /\ inbox[i].callid = call.id
      /\ call # None
  BY DEF Come, Own
<1>3. \A j \in DOMAIN asked : /\ inbox[i].callid < asked[j].callid
                              /\ asked[j].callid <= call.id
  BY <1>2 DEF IdsGrow
<1>4. /\ call.id \in Nat
      /\ \A j \in DOMAIN asked : asked[j].callid \in Nat
  BY <1>1 DEF CallType, Lengths, RequestType
<1>5. DOMAIN asked = {}
  <2>1. ASSUME NEW j \in DOMAIN asked PROVE FALSE
    BY <1>2, <1>3, <1>4
  <2> QED BY <2>1
<1>6. Len(asked) = 0
  BY <1>1, <1>5 DEF Lengths
<1> QED BY <1>1, <1>5, <1>6, EmptySeq

(* What becomes of the call that writes: it only sends, it finds that it cannot *)
(* send, or it waits.                                                           *)
After(body) ==
    \/ call' = None /\ strays' = TRUE /\ body.kind \in Untold
    \/ call' = None /\ strays' = strays /\ line = "reset"
    \/ call' \in CallType /\ call'.id = callid /\ call'.body = body /\ strays' = strays

(* A call is made: its request is the youngest, and its answer cannot be    *)
(* there yet.                                                               *)
LEMMA SentKeeps ==
    ASSUME RosterInv, NEW type \in Types, NEW headers \in Seq(Headers),
           NEW body \in RequestBodies, HeadersOf(body, headers), Sent(type, headers, body),
           After(body), self' \in SelfType
    PROVE  RosterInv'
<1> USE DEF RosterInv
<1>1. /\ running = "yes" /\ call = None /\ made < MaxCalls
      /\ callid' = callid + 1 /\ sip' \in SipType /\ made' = made + 1
      /\ inbox' = inbox /\ line' = line /\ running' = running /\ groups' = groups
      /\ verification' = verification /\ mixed' = mixed /\ news' = news /\ theirs' = theirs
  BY DEF Sent
<1>2. Lengths
  BY LengthsAre
<1>3. \/ line # "open" /\ asked' = asked /\ asked = <<>> /\ DOMAIN asked = {} /\ Len(asked) = 0
      \/ \E q : Posted(q) /\ q.body = body
  <2>1. line # "open" => asked = <<>>
    BY DEF IdsGrow
  <2> QED BY <2>1, SentIs
<1>4. /\ contacts' \in Seq(ContactType)
      /\ doubted' \subseteq Users /\ doubted \subseteq doubted'
      /\ \A user : Listed(user)' <=> Listed(user)
      /\ \A user : body.kind # "group-ids" \/ body.user # user =>
            (Listed(user) => GroupIds(user)' = GroupIds(user))
      /\ body.kind = "group-ids" =>
            /\ Listed(body.user)
            /\ GroupIds(body.user)' = body.ids
            /\ line # "open" => body.user \in doubted'
  BY GroupIdsSet DEF Sent
<1>5. /\ callid \in Nat /\ made \in Nat /\ MaxCalls \in Nat
      /\ \A i \in DOMAIN asked : asked[i].callid \in Nat /\ asked[i].callid < callid
      /\ \A i \in DOMAIN inbox : inbox[i].callid \in Nat
      /\ \A i \in DOMAIN inbox : inbox[i].kind = "reply" => inbox[i].callid < callid
  BY <1>2, TypesOf DEF IdsGrow, Lengths, RequestType, MessageType
<1>6. call' # None => call'.id = callid /\ call'.body = body /\ strays' = strays
  BY DEF After
<1>7. \A i : ~Come(i) /\ ~Come(i)'
  BY <1>1, <1>5, <1>6 DEF Come, Own
<1>8. RosterTypes'
  <2>1. asked' \in Seq(RequestType)
    BY <1>3, TypesOf DEF Posted
  <2>2. made' \in 0..MaxCalls /\ made' >= 1
    BY <1>1, <1>5
  <2>3. strays' \in BOOLEAN
    BY TypesOf, Zenon DEF After
  <2>4. call' \in {None} \cup CallType
    BY DEF After
  <2> QED BY <1>1, <1>4, <1>5, <2>1, <2>2, <2>3, <2>4, TypesOf, TypesFrom
<1>9. IdsGrow'
  <2>1. CASE line # "open" /\ asked' = asked /\ DOMAIN asked = {}
    BY <1>1, <1>5, <1>6, <2>1 DEF IdsGrow
  <2>2. ASSUME NEW q, Posted(q) PROVE IdsGrow'
    BY <1>1, <1>2, <1>5, <1>6, <2>2 DEF IdsGrow, Posted, Lengths
  <2> QED BY <1>3, <2>1, <2>2
<1>10. AnswerComing'
  <2>1. ASSUME NEW q, Posted(q), call' # None
        PROVE  \E i \in DOMAIN asked' : asked'[i].callid = call'.id
    <3>1. Len(asked) + 1 \in DOMAIN asked' /\ asked'[Len(asked) + 1].callid = callid
      BY <1>2, <2>1 DEF Posted, Lengths
    <3> QED BY <1>6, <2>1, <3>1
  <2> QED BY <1>1, <1>3, <2>1 DEF AnswerComing
<1>11. Quiet'
  <2> SUFFICES ASSUME ~strays'
               PROVE  /\ ~mixed'
                      /\ Len(asked') + Len(inbox') <= IF call' = None THEN 0 ELSE 1
                      /\ \A i \in DOMAIN asked' : asked'[i].callid = call'.id
                      /\ \A i \in DOMAIN inbox' : Own(inbox[i])'
    BY DEF Quiet
  <2>1. ~strays
    BY DEF After
  <2>2. ~mixed /\ Len(asked) + Len(inbox) <= 0
    BY <1>1, <2>1 DEF Quiet
  <2>3. Len(asked) = 0 /\ Len(inbox) = 0 /\ DOMAIN asked = {} /\ DOMAIN inbox = {}
    BY <1>2, <2>2 DEF Lengths
  <2>4. CASE asked' = asked
    BY <1>1, <2>2, <2>3, <2>4
  <2>5. ASSUME NEW q, Posted(q)
        PROVE  /\ Len(asked') = 1 /\ DOMAIN asked' = 1..1 /\ asked'[1].callid = callid
               /\ call' # None
    <3>1. call' # None
      BY <2>5, TypesOf DEF After, Posted
    <3>2. Len(asked) + 1 = 1
      BY <2>3
    <3>3. DOMAIN asked' = 1..1 /\ Len(asked') = 1 /\ asked'[1] = q
      BY <2>5, <3>2 DEF Posted
    <3> QED BY <2>5, <3>1, <3>3 DEF Posted
  <2>6. CASE \E q : Posted(q)
    <3>1. PICK q : Posted(q)
      BY <2>6
    <3>2. /\ Len(asked') = 1 /\ DOMAIN asked' = 1..1 /\ asked'[1].callid = callid
          /\ call' # None /\ call'.id = callid
      BY <1>6, <2>5, <3>1
    <3>3. \A i \in DOMAIN asked' : asked'[i].callid = call'.id
      BY <3>2
    <3>4. Len(asked') + Len(inbox') = 1 /\ DOMAIN inbox' = {}
      BY <1>1, <2>3, <3>2
    <3> QED BY <1>1, <2>2, <3>2, <3>3, <3>4
  <2> QED BY <1>3, <2>4, <2>6
<1>12. RequestOwn'
  <2>1. CASE line # "open" /\ asked' = asked /\ DOMAIN asked = {}
    BY <2>1 DEF RequestOwn
  <2>2. ASSUME NEW q, Posted(q), q.body = body PROVE RequestOwn'
    <3>1. \A i \in 1..Len(asked) : ~mixed => asked[i].body.kind \in Untold
      BY <1>1, <1>2 DEF RequestOwn, Lengths
    <3>2. \A i \in 1..Len(asked) :
             /\ asked'[i].body = asked[i].body
             /\ asked'[i].callid = asked[i].callid
             /\ asked[i].callid < callid /\ asked[i].callid \in Nat
      BY <1>2, <1>5, <2>2 DEF Posted, Lengths
    <3>3. /\ asked'[Len(asked) + 1].body = body
          /\ asked'[Len(asked) + 1].callid = callid
      BY <2>2 DEF Posted
    <3>4. body.kind \notin Untold => call' # None
      BY <2>2, TypesOf DEF After, Posted
    <3>5. \A i \in DOMAIN asked' : i \in 1..Len(asked) \/ i = Len(asked) + 1
      BY <1>2, <2>2 DEF Posted, Lengths
    <3> QED BY <1>1, <1>5, <1>6, <3>1, <3>2, <3>3, <3>4, <3>5 DEF RequestOwn
  <2> QED BY <1>3, <2>1, <2>2
<1>13. GroupsFollow'
  BY <1>1, <1>7 DEF GroupsFollow, NotCome
<1>14. LastAsked'
  <2>1. CASE line # "open" /\ asked' = asked /\ DOMAIN asked = {}
    BY <2>1 DEF LastAsked
  <2>2. ASSUME NEW q, Posted(q), q.body = body PROVE LastAsked'
    <3> SUFFICES ASSUME ~mixed, NEW i \in DOMAIN asked', NEW user \in Users,
                        asked'[i].body.kind = "group-ids", asked'[i].body.user = user,
                        \A j \in DOMAIN asked' : i < j => ~(/\ asked'[j].body.kind = "group-ids"
                                                           /\ asked'[j].body.user = user)
                 PROVE  Listed(user)' /\ GroupIds(user)' = asked'[i].body.ids
      BY <1>1 DEF LastAsked, AsksGroups
    <3> DEFINE last == Len(asked) + 1
    <3>1. last \in DOMAIN asked' /\ asked'[last].body = body /\ last \in Nat
      BY <1>2, <2>2 DEF Posted, Lengths
    <3>2. CASE i = last
      BY <1>4, <3>1, <3>2
    <3>3. CASE i # last
      <4>1. i \in DOMAIN asked /\ asked'[i] = asked[i] /\ i < last
        BY <1>2, <2>2, <3>3 DEF Posted, Lengths
      <4>2. ~(body.kind = "group-ids" /\ body.user = user)
        BY <3>1, <4>1
      <4>3. \A j \in DOMAIN asked : i < j => ~AsksGroups(asked[j], user)
        BY <1>2, <2>2 DEF Posted, Lengths, AsksGroups
      <4>4. Listed(user) /\ GroupIds(user) = asked[i].body.ids
        BY <4>1, <4>3 DEF LastAsked, AsksGroups
      <4> QED BY <1>4, <4>1, <4>2, <4>4
    <3> QED BY <3>2, <3>3
  <2> QED BY <1>3, <2>1, <2>2
<1>15. GroupIdsAgree'
  <2> SUFFICES ASSUME ~mixed, NEW user \in Users, Listed(user)', user \notin doubted',
                      \A i \in DOMAIN asked' :
                          asked'[i].body.kind = "group-ids" => asked'[i].body.user # user
               PROVE  ToSet(GroupIds(user)') = theirs.of[user]
    BY <1>1 DEF GroupIdsAgree, ToSet
  <2>1. \A i \in DOMAIN asked : i \in DOMAIN asked' /\ asked'[i] = asked[i]
    BY <1>2, <1>3 DEF Posted, Lengths
  <2>2. ~(body.kind = "group-ids" /\ body.user = user)
    <3>1. ASSUME NEW q, Posted(q), q.body = body
          PROVE  ~(body.kind = "group-ids" /\ body.user = user)
      <4>1. Len(asked) + 1 \in DOMAIN asked' /\ asked'[Len(asked) + 1].body = body
        BY <1>2, <3>1 DEF Posted, Lengths
      <4> QED BY <4>1
    <3> QED BY <1>3, <1>4, <3>1
  <2>3. Listed(user) /\ user \notin doubted /\ GroupIds(user)' = GroupIds(user)
    BY <1>4, <2>2
  <2>4. ToSet(GroupIds(user)) = theirs.of[user]
    BY <2>1, <2>3 DEF GroupIdsAgree
  <2> QED BY <2>3, <2>4
<1>16. NewInDoubt'
  BY <1>7 DEF NewInDoubt
<1>17. AcksFollow'
  <2> SUFFICES ASSUME ~mixed, line = "open"
               PROVE  /\ \A i \in DOMAIN asked' : \A n \in 1..MaxCalls :
                             Contains(asked'[i].header, Ack(n)) <=>
                                 asked'[i].body.kind = "add-buddy" /\ theirs.challenge = n
                      /\ Challenged
    BY <1>1, <1>7 DEF AcksFollow, Acknowledges, Challenged, Challenge, Ack
  <2>1. Challenged
    BY <1>7 DEF AcksFollow, NotCome
  <2>2. PICK q : Posted(q) /\ q.body = body
    BY <1>3
  <2>3. ASSUME NEW i \in DOMAIN asked', NEW n \in 1..MaxCalls
        PROVE  Contains(asked'[i].header, Ack(n)) <=>
                   asked'[i].body.kind = "add-buddy" /\ theirs.challenge = n
    <3>1. CASE i = Len(asked) + 1
      BY <2>1, <2>2, <2>3, <3>1 DEF Posted, AckOf, Challenged
    <3>2. CASE i # Len(asked) + 1
      <4>1. i \in DOMAIN asked /\ asked'[i] = asked[i]
        BY <1>2, <2>2, <3>2 DEF Posted, Lengths
      <4>2. Acknowledges(asked[i])
        BY <1>1, <4>1 DEF AcksFollow
      <4> QED BY <4>1, <4>2 DEF Acknowledges
    <3> QED BY <3>1, <3>2
  <2> QED BY <2>1, <2>3
<1> QED BY <1>8, <1>9, <1>10, <1>11, <1>12, <1>13, <1>14, <1>15, <1>16, <1>17

(* The buddy lists once an answer is taken.                                 *)
LEMMA GroupsTakenAre ==
    ASSUME RosterTypes, NEW m \in MessageType, GroupsTaken(m)
    PROVE  /\ groups' \in Seq(Nat)
           /\ (/\ m.kind = "reply"
               /\ Distinct(groups)
               /\ call.op = "list_create" /\ m.code = 200 => m.body.ids[1] \notin ToSet(groups))
              => Distinct(groups') /\ ToSet(groups') = GroupsAfter(m)
<1>1. /\ groups \in Seq(Nat)
      /\ Len(groups) \in Nat /\ DOMAIN groups = 1..Len(groups)
  <2>1. groups \in Seq(Nat)
    BY TypesOf
  <2> QED BY <2>1, LenProperties
<1>2. get_code(m) \in {m.code, 400} /\ (m.kind = "reply" => get_code(m) = m.code)
  BY DEF get_code
<1>3. CASE call.op = "list_create" /\ get_code(m) = 200
  <2> DEFINE id == m.body.ids[1]
  <2>1. m.body.kind = "create-list" /\ groups' = list_append(groups, id)
    BY <1>3 DEF GroupsTaken
  <2>2. id \in Nat
    BY <2>1 DEF MessageType
  <2> HIDE DEF id
  <2>3. <<id>> \in Seq(Nat) /\ Len(<<id>>) = 1 /\ <<id>>[1] = id
    BY <2>2
  <2>4. /\ groups' \in Seq(Nat)
        /\ Len(groups') = 1 + Len(groups)
        /\ \A i \in 1..(1 + Len(groups)) : groups'[i] = IF i <= 1 THEN <<id>>[i] ELSE groups[i - 1]
    BY <1>1, <2>1, <2>3, ConcatProperties DEF list_append
  <2>5. DOMAIN groups' = 1..(1 + Len(groups))
    BY <2>4, LenProperties
  <2>6. 1 \in DOMAIN groups' /\ groups'[1] = id
    <3>1. 1 \in 1..(1 + Len(groups))
      BY <1>1
    <3> QED BY <2>3, <2>4, <2>5, <3>1
  <2>7. \A i \in DOMAIN groups : i + 1 \in DOMAIN groups' /\ groups'[i + 1] = groups[i]
    <3> SUFFICES ASSUME NEW i \in DOMAIN groups
                 PROVE  i + 1 \in DOMAIN groups' /\ groups'[i + 1] = groups[i]
      OBVIOUS
    <3>1. i + 1 \in 1..(1 + Len(groups)) /\ ~(i + 1 <= 1) /\ i + 1 - 1 = i
      BY <1>1
    <3>2. groups'[i + 1] = groups[i + 1 - 1]
      BY <2>4, <3>1
    <3> QED BY <2>5, <3>1, <3>2
  <2>8. \A i \in DOMAIN groups' : i = 1 \/ (i - 1 \in DOMAIN groups /\ groups'[i] = groups[i - 1])
    BY <1>1, <2>4, <2>5
  <2>9. ToSet(groups') = ToSet(groups) \cup {id}
    BY <2>6, <2>7, <2>8 DEF ToSet
  <2>10. ASSUME Distinct(groups), id \notin ToSet(groups) PROVE Distinct(groups')
    <3>1. \A i \in DOMAIN groups : groups[i] # id
      BY <2>10 DEF ToSet
    <3> SUFFICES ASSUME NEW i \in DOMAIN groups', NEW j \in DOMAIN groups', groups'[i] = groups'[j]
                 PROVE  i = j
      BY DEF Distinct
    <3>2. CASE i = 1 \/ j = 1
      BY <3>1, <3>2, <2>6, <2>8
    <3>3. CASE i # 1 /\ j # 1
      <4>1. i - 1 = j - 1
        BY <2>8, <2>10, <3>3 DEF Distinct
      <4> QED BY <4>1, <1>1, <2>5
    <3> QED BY <3>2, <3>3
  <2> QED BY <1>2, <1>3, <2>4, <2>9, <2>10 DEF GroupsAfter, id
<1>4. CASE call.op = "list_delete" /\ get_code(m) = 200
  <2> DEFINE id == call.body.ids[1]
  <2>1. groups' = BuddyGroup_remove(id)
    BY <1>4 DEF GroupsTaken
  <2> HIDE DEF id
  <2>2. CASE GroupPositions(id) = {}
    <3>1. groups' = groups /\ id \notin ToSet(groups)
      BY <2>1, <2>2 DEF BuddyGroup_remove, GroupPositions, ToSet
    <3>2. m.kind = "reply" => GroupsAfter(m) = ToSet(groups) \ {id}
      BY <1>2, <1>4 DEF GroupsAfter, id
    <3> QED BY <1>1, <3>1, <3>2
  <2>3. CASE GroupPositions(id) # {}
    <3> DEFINE k == CHOOSE i \in GroupPositions(id) : \A j \in GroupPositions(id) : i <= j
    <3>1. GroupPositions(id) \in SUBSET Nat
      BY <1>1 DEF GroupPositions
    <3>2. \E i \in GroupPositions(id) : \A j \in GroupPositions(id) : i <= j
      BY <2>3, <3>1, LeastElement
    <3>3. k \in GroupPositions(id)
      BY <3>2
    <3>4. k \in 1..Len(groups) /\ groups[k] = id
      BY <1>1, <3>3 DEF GroupPositions
    <3>5. groups' = RemoveAt(groups, k)
      BY <2>1, <2>3 DEF BuddyGroup_remove
    <3> HIDE DEF k
    <3>6. groups' \in Seq(Nat)
      BY <1>1, <3>4, <3>5, RemoveAtProperties
    <3>7. Distinct(groups) => /\ Distinct(groups')
                              /\ Elements(groups') = Elements(groups) \ {id}
      BY <1>1, <3>4, <3>5, RemoveDistinct
    <3>8. m.kind = "reply" => GroupsAfter(m) = ToSet(groups) \ {id}
      BY <1>2, <1>4 DEF GroupsAfter, id
    <3> QED BY <3>6, <3>7, <3>8 DEF Elements, ToSet
  <2> QED BY <2>2, <2>3
<1>5. CASE ~(call.op \in {"list_create", "list_delete"} /\ get_code(m) = 200)
  <2>1. groups' = groups
    BY <1>5 DEF GroupsTaken
  <2>2. m.kind = "reply" => GroupsAfter(m) = ToSet(groups)
    BY <1>2, <1>5 DEF GroupsAfter
  <2> QED BY <1>1, <2>1, <2>2
<1> QED BY <1>3, <1>4, <1>5

(* A challenge is told from none.                                           *)
LEMMA NoneIsNoChallenge == None \notin [challenge : 1..MaxCalls, unset : SUBSET Unset]
<1>1. None \notin [challenge : Nat, unset : SUBSET Unset]
  BY RosterAssumption
<1>2. \A v \in [challenge : 1..MaxCalls, unset : SUBSET Unset] :
          v \in [challenge : Nat, unset : SUBSET Unset]
  <2>1. 1..MaxCalls \subseteq Nat
    OBVIOUS
  <2> QED BY <2>1
<1> QED BY <1>1, <1>2

(* What is kept of a challenge.                                             *)
LEMMA ChallengeTyped ==
    ASSUME NEW m \in MessageType, m.code = 420
    PROVE  /\ parse_add_buddy_verification(m) \in [challenge : 1..MaxCalls, unset : SUBSET Unset]
           /\ parse_add_buddy_verification(m) # None
<1>1. PICK ids : ids = m.body.ids
  OBVIOUS
<1>2. ids \in Seq(1..MaxCalls) /\ ids # <<>>
  BY <1>1 DEF MessageType
<1>3. Head(ids) \in 1..MaxCalls
  BY <1>2, HeadTailProperties
<1>4. parse_add_buddy_verification(m) = [challenge |-> Head(ids), unset |-> Unset]
  BY <1>1 DEF parse_add_buddy_verification
<1>5. parse_add_buddy_verification(m) \in [challenge : 1..MaxCalls, unset : SUBSET Unset]
  BY <1>3, <1>4
<1> QED BY <1>5, NoneIsNoChallenge

(* A call takes what comes next: if that is its own answer, no request is   *)
(* left, and the lists follow the server.                                   *)
LEMMA EndsKeeps ==
    ASSUME RosterInv, NEW m, NEW n, EndsWith(m, n)
    PROVE  RosterInv'
<1> USE DEF RosterInv
<1>1. /\ running = "yes" /\ running' \in {"yes", "undefined"}
      /\ call # None /\ call' = None
      /\ mixed' = (mixed \/ ~Own(m))
      /\ GroupsTaken(m) /\ ContactsTaken(m) /\ VerificationTaken(m) /\ self' \in SelfType
      /\ callid' = callid /\ sip' = sip /\ asked' = asked /\ line' = line /\ made' = made
      /\ news' = news /\ theirs' = theirs /\ strays' = strays /\ doubted' = doubted
  BY DEF EndsWith
<1>2. Taken(n) /\ m = inbox[1] /\ m \in MessageType
  BY TakenIs
<1>3. Lengths /\ call \in CallType
  BY <1>1, LengthsAre, TypesOf
<1>4. /\ 1 \in DOMAIN inbox
      /\ \A i \in DOMAIN inbox' : i + n \in DOMAIN inbox /\ inbox'[i] = inbox[i + n]
  BY <1>2, <1>3 DEF Taken, Lengths
<1>5. n \in Nat /\ \A i \in DOMAIN inbox' : i \in Nat
  BY <1>2, <1>3 DEF Taken, Lengths
<1>6. ~mixed' => ~mixed /\ Own(m) /\ Come(1) /\ asked = <<>> /\ DOMAIN asked = {}
  BY <1>1, <1>2, <1>4, ComeLast DEF Come
<1>7. RosterTypes'
  <2>1. groups' \in Seq(Nat) /\ contacts' \in Seq(ContactType)
    BY <1>1, <1>2, GroupsTakenAre, ContactAdded
  <2>2. verification' \in VerificationType
    <3>1. CASE call.op = "add_buddy" /\ get_code(m) = 200
      BY <1>1, <3>1 DEF VerificationTaken, VerificationType
    <3>2. CASE call.op = "add_buddy" /\ get_code(m) = 420
      <4>1. m.code = 420
        BY <3>2 DEF get_code
      <4>2. verification' = parse_add_buddy_verification(m)
        BY <1>1, <3>2 DEF VerificationTaken
      <4> QED BY <1>2, <4>1, <4>2, ChallengeTyped DEF VerificationType
    <3>3. CASE ~(call.op = "add_buddy" /\ get_code(m) \in {200, 420})
      BY <1>1, <3>3, TypesOf DEF VerificationTaken
    <3> QED BY <3>1, <3>2, <3>3
  <2>3. mixed' \in BOOLEAN
    BY <1>1, Zenon
  <2>4. inbox' \in Seq(MessageType) /\ running' \in {"yes", "hung", "undefined"}
    BY <1>1, <1>2 DEF Taken
  <2> QED BY <1>1, <2>1, <2>2, <2>3, <2>4, TypesOf, TypesFrom
<1>8. IdsGrow'
  <2>1. \A i \in DOMAIN inbox', j \in DOMAIN inbox' : i < j => i + n < j + n
    BY <1>5
  <2> QED BY <1>1, <1>4, <2>1 DEF IdsGrow
<1>9. AnswerComing'
  BY <1>1 DEF AnswerComing
<1>10. Quiet'
  <2> SUFFICES ASSUME ~strays
               PROVE  /\ ~mixed'
                      /\ Len(asked') + Len(inbox') <= 0
                      /\ DOMAIN asked' = {} /\ DOMAIN inbox' = {}
    BY <1>1 DEF Quiet
  <2>1. ~mixed /\ Len(asked) + Len(inbox) <= 1 /\ Own(m)
    BY <1>1, <1>2, <1>4 DEF Quiet
  <2>2. Len(inbox) = 1 /\ Len(asked) = 0
    BY <1>3, <1>4, <2>1 DEF Lengths
  <2>3. n = 1
    BY <1>2, <2>2 DEF Taken
  <2>4. Len(inbox') = 0 /\ DOMAIN inbox' = 1..0
    BY <1>2, <2>2, <2>3 DEF Taken
  <2>5. DOMAIN asked = {} /\ DOMAIN inbox' = {}
    BY <1>3, <2>2, <2>4 DEF Lengths
  <2>6. Len(asked') + Len(inbox') = 0
    BY <1>1, <2>2, <2>4
  <2>7. ~mixed'
    BY <1>1, <2>1, Zenon
  <2> QED BY <1>1, <2>5, <2>6, <2>7
<1>11. RequestOwn'
  BY <1>1, <1>6 DEF RequestOwn
<1>12. GroupsFollow'
  <2> SUFFICES ASSUME ~mixed', line = "open"
               PROVE  /\ Distinct(groups')
                      /\ \A id \in theirs.groups : id <= theirs.version
                      /\ ToSet(groups') = theirs.groups
    BY <1>1 DEF GroupsFollow, Come
  <2>1. ~mixed /\ Own(m) /\ Come(1)
    BY <1>6
  <2>2. /\ Distinct(groups)
        /\ \A id \in theirs.groups : id <= theirs.version
        /\ theirs.groups = GroupsAfter(m)
        /\ call.op = "list_create" /\ m.code = 200 => m.body.ids[1] \notin ToSet(groups)
    BY <1>2, <1>4, <2>1 DEF GroupsFollow
  <2>3. Distinct(groups') /\ ToSet(groups') = GroupsAfter(m)
    BY <1>1, <1>2, <2>1, <2>2, GroupsTakenAre DEF Own
  <2> QED BY <2>2, <2>3
<1>13. LastAsked'
  BY <1>1, <1>6 DEF LastAsked
<1>14. GroupIdsAgree'
  <2> SUFFICES ASSUME ~mixed', NEW user \in Users, Listed(user)', user \notin doubted
               PROVE  ToSet(GroupIds(user)') = theirs.of[user]
    BY <1>1 DEF GroupIdsAgree, ToSet
  <2>1. ~mixed /\ Own(m) /\ Come(1) /\ DOMAIN asked = {}
    BY <1>6
  <2>2. ~(get_code(m) = 200 /\ HasBuddyNode(m) /\ m.body.user = user)
    BY <1>2, <1>4, <2>1 DEF NewInDoubt, Own, get_code
  <2>3. Listed(user) /\ GroupIds(user)' = GroupIds(user)
    BY <1>1, <1>2, <2>2, ContactAdded
  <2>4. ToSet(GroupIds(user)) = theirs.of[user]
    BY <2>1, <2>3 DEF GroupIdsAgree
  <2> QED BY <2>3, <2>4
<1>15. NewInDoubt'
  BY <1>1 DEF NewInDoubt, Come
<1>16. AcksFollow'
  <2> SUFFICES ASSUME ~mixed', line = "open"
               PROVE  (IF verification' = None THEN 0 ELSE verification'.challenge)
                          = theirs.challenge
    BY <1>1, <1>6 DEF AcksFollow, Challenged, Challenge, Come
  <2>1. ~mixed /\ Own(m) /\ Come(1)
    BY <1>6
  <2>2. get_code(m) = m.code
    BY <2>1 DEF Own, get_code
  <2>3. /\ call.op = "add_buddy" /\ m.code = 420 => Head(m.body.ids) = theirs.challenge
        /\ call.op = "add_buddy" /\ m.code = 200 => theirs.challenge = 0
        /\ ~(call.op = "add_buddy" /\ m.code \in {200, 420}) => Challenged
    BY <1>2, <1>4, <2>1 DEF AcksFollow
  <2>4. CASE call.op = "add_buddy" /\ m.code = 200
    BY <1>1, <2>2, <2>3, <2>4 DEF VerificationTaken
  <2>5. CASE call.op = "add_buddy" /\ m.code = 420
    <3>1. verification' = [challenge |-> Head(m.body.ids), unset |-> Unset]
      BY <1>1, <2>2, <2>5 DEF VerificationTaken, parse_add_buddy_verification
    <3>2. verification' # None
      BY <1>1, <1>2, <2>2, <2>5, ChallengeTyped DEF VerificationTaken
    <3> QED BY <2>3, <2>5, <3>1, <3>2
  <2>6. CASE /\ ~(call.op = "add_buddy" /\ m.code = 200)
              /\ ~(call.op = "add_buddy" /\ m.code = 420)
    BY <1>1, <2>2, <2>3, <2>6 DEF VerificationTaken, Challenged, Challenge
  <2> QED BY <2>4, <2>5, <2>6
<1> QED BY <1>7, <1>8, <1>9, <1>10, <1>11, <1>12, <1>13, <1>14, <1>15, <1>16

(* The main loop takes a message while no call waits.                       *)
LEMMA HeardKeeps ==
    ASSUME RosterInv, Heard
    PROVE  RosterInv'
<1> USE DEF RosterInv
<1>1. /\ running = "yes" /\ call = None /\ inbox # <<>>
      /\ callid' = callid /\ sip' = sip /\ asked' = asked /\ line' = line
      /\ running' = running /\ groups' = groups /\ self' = self
      /\ verification' = verification /\ call' = call /\ made' = made /\ news' = news
      /\ theirs' = theirs /\ strays' = strays /\ mixed' = mixed /\ doubted' = doubted
  BY DEF Heard, Hears
<1>2. Taken(1) /\ Lengths
  BY TakenIs, LengthsAre
<1>3. \A i \in DOMAIN inbox' : i + 1 \in DOMAIN inbox /\ inbox'[i] = inbox[i + 1] /\ i \in Nat
  BY <1>2 DEF Taken, Lengths
<1>4. /\ contacts' \in Seq(ContactType)
      /\ \A user : /\ Listed(user)' <=> Listed(user)
                   /\ Listed(user) => GroupIds(user)' = GroupIds(user)
  BY PresenceSet
<1>5. \A i : ~Come(i) /\ ~Come(i)'
  BY <1>1 DEF Come
<1>6. RosterTypes'
  <2>1. inbox' \in Seq(MessageType)
    BY <1>2 DEF Taken
  <2> QED BY <1>1, <1>4, <2>1, TypesOf, TypesFrom
<1>7. IdsGrow'
  <2>1. \A i \in DOMAIN inbox', j \in DOMAIN inbox' : i < j => i + 1 < j + 1
    BY <1>3
  <2> QED BY <1>1, <1>3, <2>1 DEF IdsGrow
<1>8. Quiet'
  <2>1. strays
    <3> SUFFICES ASSUME ~strays PROVE FALSE
      OBVIOUS
    <3>1. Len(asked) + Len(inbox) <= 0
      BY <1>1 DEF Quiet
    <3>2. 1 \in 1..Len(inbox)
      BY <1>2 DEF Taken
    <3> QED BY <1>2, <3>1, <3>2 DEF Lengths
  <2> QED BY <1>1, <2>1 DEF Quiet
<1>9. AnswerComing' /\ RequestOwn' /\ GroupsFollow' /\ NewInDoubt' /\ AcksFollow'
  BY <1>1, <1>5
     DEF AnswerComing, RequestOwn, GroupsFollow, NotCome, NewInDoubt, AcksFollow, Acknowledges,
         Challenged, Challenge, Ack
<1>10. LastAsked'
  BY <1>1, <1>4 DEF LastAsked, AsksGroups
<1>11. GroupIdsAgree'
  <2> SUFFICES ASSUME ~mixed, NEW user \in Users, Listed(user)', user \notin doubted,
                      \A i \in DOMAIN asked :
                          asked[i].body.kind = "group-ids" => asked[i].body.user # user
               PROVE  ToSet(GroupIds(user)') = theirs.of[user]
    BY <1>1 DEF GroupIdsAgree, ToSet
  <2>1. Listed(user) /\ GroupIds(user)' = GroupIds(user)
    BY <1>4
  <2>2. ToSet(GroupIds(user)) = theirs.of[user]
    BY <2>1 DEF GroupIdsAgree
  <2> QED BY <2>1, <2>2
<1> QED BY <1>6, <1>7, <1>8, <1>9, <1>10, <1>11

(* What neither writes nor reads: a call that ends without an answer, a copy *)
(* that is not carried out, a code that is given, what is not set printed.   *)
Still ==
    /\ \/ call' = call
       \/ call # None /\ call' = None /\ line = "reset" /\ inbox = <<>>
    /\ line = "open" => (running' = running \/ running' = "undefined")
    /\ running' \in {"yes", "hung", "undefined"}
    /\ sip' \in SipType
    /\ made' \in made..MaxCalls
    /\ verification' \in VerificationType
    /\ Challenge' = Challenge
    /\ self' = self
    /\ UNCHANGED <<callid, asked, inbox, line, contacts, groups, news, theirs, strays, mixed,
                   doubted>>

(* The steps that do no more than that.                                     *)
LEMMA StillIs ==
    ASSUME RosterTypes,
           \/ Stuck \/ Garbled \/ LeavesHeader \/ UNCHANGED vars
           \/ \E field \in Unset : Sets(field)
    PROVE  Still
<1>1. /\ sip \in SipType /\ made \in Nat /\ made \in 0..MaxCalls /\ MaxCalls \in Nat
      /\ verification \in VerificationType /\ running \in {"yes", "hung", "undefined"}
  BY TypesOf
<1>2. made \in made..MaxCalls
  BY <1>1
<1>3. CASE Stuck
  BY <1>1, <1>2, <1>3 DEF Stuck, Still, Challenge
<1>4. CASE LeavesHeader
  <2>1. made' \in made..MaxCalls
    BY <1>1, <1>4 DEF LeavesHeader
  <2> QED BY <1>1, <1>4, <2>1 DEF LeavesHeader, Still, Challenge
<1>5. CASE Garbled
  BY <1>1, <1>2, <1>5 DEF Garbled, Still, Challenge, rosterVars
<1>6. CASE \E field \in Unset : Sets(field)
  <2>1. PICK field \in Unset : Sets(field)
    BY <1>6
  <2>2. /\ verification # None
        /\ verification \in [challenge : 1..MaxCalls, unset : SUBSET Unset]
        /\ verification' = [verification EXCEPT !.unset = @ \ {field}]
    BY <1>1, <2>1 DEF Sets, VerificationType
  <2>3. /\ verification' \in [challenge : 1..MaxCalls, unset : SUBSET Unset]
        /\ verification'.challenge = verification.challenge
    BY <2>2
  <2>4. verification' # None
    BY <2>3, NoneIsNoChallenge
  <2> QED BY <1>1, <1>2, <2>1, <2>2, <2>3, <2>4
          DEF Sets, Still, VerificationType, Challenge, requestVars
<1>7. CASE UNCHANGED vars
  BY <1>1, <1>2, <1>7 DEF vars, requestVars, rosterVars, Still, Challenge
<1> QED BY <1>3, <1>4, <1>5, <1>6, <1>7

(* They keep what the channel and the lists keep.                           *)
LEMMA StillKeeps ==
    ASSUME RosterInv, Still
    PROVE  RosterInv'
<1> USE DEF RosterInv
<1>1. /\ callid' = callid /\ asked' = asked /\ inbox' = inbox /\ line' = line
      /\ contacts' = contacts /\ groups' = groups /\ news' = news /\ theirs' = theirs
      /\ strays' = strays /\ mixed' = mixed /\ doubted' = doubted /\ self' = self
      /\ sip' \in SipType /\ verification' \in VerificationType
      /\ running' \in {"yes", "hung", "undefined"}
  BY DEF Still
<1>2. \/ call' = call
      \/ /\ call # None /\ call' = None /\ line = "reset"
         /\ asked = <<>> /\ DOMAIN asked = {} /\ Len(asked) = 0
         /\ DOMAIN inbox = {} /\ Len(inbox) = 0
  BY DEF Still, IdsGrow
<1>3. Lengths
  BY LengthsAre
<1>4. RosterTypes'
  <2>1. made' \in 0..MaxCalls /\ (asked' # <<>> => made' >= 1)
    BY <1>1, TypesOf DEF Still
  <2>2. call' \in {None} \cup CallType
    BY <1>2, TypesOf
  <2> QED BY <1>1, <2>1, <2>2, TypesOf, TypesFrom
<1>5. IdsGrow'
  BY <1>1, <1>2 DEF IdsGrow
<1>6. AnswerComing'
  BY <1>1, <1>2 DEF AnswerComing, Still, Own
<1>7. CASE call' = call
  <2>1. \A i : Come(i)' <=> Come(i)
    BY <1>1, <1>7 DEF Come, Own
  <2>2. Quiet' /\ RequestOwn'
    BY <1>1, <1>7 DEF Quiet, RequestOwn, Own
  <2>3. GroupsFollow'
    BY <1>1, <1>7, <2>1 DEF GroupsFollow, NotCome, GroupsAfter
  <2>4. LastAsked' /\ GroupIdsAgree' /\ NewInDoubt'
    BY <1>1, <1>7, <2>1 DEF LastAsked, GroupIdsAgree, NewInDoubt, Listed, Positions, GroupIds, find_by_userid, AsksGroups, HasBuddyNode
  <2>5. AcksFollow'
    <3>1. Challenged => Challenged'
      BY <1>1 DEF Still, Challenged
    <3> QED BY <1>1, <1>7, <2>1, <3>1 DEF AcksFollow, Acknowledges, NotCome, Ack
  <2> QED BY <1>4, <1>5, <1>6, <2>2, <2>3, <2>4, <2>5
<1>8. CASE /\ call # None /\ call' = None /\ line = "reset"
           /\ DOMAIN asked = {} /\ Len(asked) = 0 /\ DOMAIN inbox = {} /\ Len(inbox) = 0
  <2>1. Quiet' /\ RequestOwn' /\ LastAsked' /\ NewInDoubt'
    BY <1>1, <1>8 DEF Quiet, RequestOwn, LastAsked, NewInDoubt
  <2>2. GroupsFollow' /\ AcksFollow'
    BY <1>1, <1>8 DEF GroupsFollow, AcksFollow, NotCome, Come, Acknowledges
  <2>3. GroupIdsAgree'
    BY <1>1 DEF GroupIdsAgree, Listed, Positions, GroupIds, find_by_userid
  <2> QED BY <1>4, <1>5, <1>6, <2>1, <2>2, <2>3
<1> QED BY <1>2, <1>7, <1>8

(* What the server knows and what is in doubt once a request is handled.    *)
LEMMA HandledTheirs ==
    ASSUME RosterTypes, NEW m, Handled(m), Accepted(m) \/ Refused(m) \/ Contested(m)
    PROVE  /\ theirs' \in TheirsType /\ doubted' \subseteq Users
           /\ asked[1] \in RequestType /\ asked[1].body \in RequestBodies
           /\ theirs'.version \in {theirs.version, theirs.version + 1}
           /\ theirs'.groups = theirs.groups
              \/ /\ Accepted(m)
                 /\ \/ /\ asked[1].body.kind = "create-list"
                       /\ theirs'.groups = theirs.groups \cup {theirs.version + 1}
                       /\ theirs'.version = theirs.version + 1
                    \/ /\ asked[1].body.kind = "delete-list"
                       /\ theirs'.groups = theirs.groups \ {asked[1].body.ids[1]}
           /\ Accepted(m) \/ theirs'.groups = theirs.groups
           /\ Accepted(m) /\ asked[1].body.kind = "delete-list" =>
                 theirs'.groups = theirs.groups \ {asked[1].body.ids[1]}
           /\ Accepted(m) /\ asked[1].body.kind = "create-list" =>
                 /\ theirs'.groups = theirs.groups \cup {theirs.version + 1}
                 /\ m.body.kind = "create-list" /\ m.body.ids[1] = theirs.version + 1
<1>1. theirs \in TheirsType /\ doubted \subseteq Users /\ made \in Nat
  BY TypesOf
<1>2. asked[1] \in RequestType
  <2>1. 1 \in DOMAIN asked
    BY LengthsAre DEF Handled, Lengths
  <2> QED BY <2>1, LengthsAre DEF Lengths
<1>3. asked[1].body \in RequestBodies
  BY <1>2 DEF RequestType
<1>4. asked[1].body.kind \in AboutUser => asked[1].body.user \in Users
  BY <1>3 DEF RequestBodies
<1>5. doubted' \subseteq Users
  <2>1. CASE Accepted(m)
    BY <1>1, <1>4, <2>1 DEF Accepted, AboutUser
  <2>2. CASE Refused(m)
    BY <1>1, <1>4, <2>2 DEF Refused, AboutUser
  <2>3. CASE Contested(m)
    BY <1>1, <2>3 DEF Contested
  <2> QED BY <2>1, <2>2, <2>3
<1>6. CASE Accepted(m)
  <2>1. theirs' = Effect(asked[1]) /\ m.body = ResultBody(asked[1])
    BY <1>6 DEF Accepted
  <2>2. /\ theirs' \in TheirsType
        /\ theirs'.version \in {theirs.version, theirs.version + 1}
        /\ theirs'.groups = IF asked[1].body.kind = "create-list"
                            THEN theirs.groups \cup {theirs.version + 1}
                            ELSE IF asked[1].body.kind = "delete-list"
                            THEN theirs.groups \ {asked[1].body.ids[1]} ELSE theirs.groups
        /\ asked[1].body.kind = "create-list" => theirs'.version = theirs.version + 1
    BY <1>1, <1>2, <2>1, EffectIs
  <2>3. asked[1].body.kind = "create-list" =>
           m.body.kind = "create-list" /\ m.body.ids[1] = theirs.version + 1
    BY <2>1 DEF ResultBody, Body
  <2> QED BY <1>2, <1>3, <1>5, <1>6, <2>2, <2>3
<1>7. CASE Refused(m)
  <2>1. theirs' = theirs /\ ~Accepted(m)
    BY <1>7 DEF Refused, Accepted
  <2> QED BY <1>1, <1>2, <1>3, <1>5, <2>1
<1>8. CASE Contested(m)
  <2>1. theirs' = [theirs EXCEPT !.challenge = made] /\ ~Accepted(m)
    BY <1>8 DEF Contested, Accepted
  <2>2. /\ theirs' \in TheirsType /\ theirs'.groups = theirs.groups
        /\ theirs'.version = theirs.version
    <3>1. made \in 0..MaxCalls
      BY TypesOf
    <3> QED BY <1>1, <2>1, <3>1 DEF TheirsType
  <2> QED BY <1>2, <1>3, <1>5, <2>1, <2>2
<1> QED BY <1>6, <1>7, <1>8

(* The server handles the oldest request: the answer is that of the call that *)
(* waits only when nothing is out behind it.                                  *)
LEMMA HandledKeeps ==
    ASSUME RosterInv, NEW m, Handled(m), Accepted(m) \/ Refused(m) \/ Contested(m)
    PROVE  RosterInv'
<1> USE DEF RosterInv
<1> DEFINE q == asked[1]
           last == Len(inbox) + 1
<1>1. /\ line = "open" /\ line' = "open" /\ m \in MessageType
      /\ m.kind = "reply" /\ m.callid = q.callid
      /\ callid' = callid /\ sip' = sip /\ running' = running /\ contacts' = contacts
      /\ groups' = groups /\ self' = self /\ verification' = verification /\ call' = call
      /\ made' = made /\ news' = news /\ strays' = strays /\ mixed' = mixed
  BY DEF Handled
<1>2. Lengths /\ 1 \in DOMAIN asked
  <2>1. Lengths
    BY LengthsAre
  <2> QED BY <2>1 DEF Lengths, Handled
<1>3. \A i : ~Come(i)
  BY <1>2, ComeLast
<1>4. \A i \in DOMAIN asked' :
         i + 1 \in DOMAIN asked /\ asked'[i] = asked[i + 1] /\ i \in Nat /\ 1 < i + 1
  BY <1>2 DEF Handled, Lengths
<1>5. /\ last \in DOMAIN inbox' /\ inbox'[last] = m
      /\ \A i \in DOMAIN inbox : i \in DOMAIN inbox' /\ inbox'[i] = inbox[i] /\ i < last
      /\ \A i \in DOMAIN inbox' : i = last \/ i \in DOMAIN inbox
  BY <1>2 DEF Handled, Lengths
<1>6. /\ theirs' \in TheirsType /\ doubted' \subseteq Users
      /\ q \in RequestType /\ q.body \in RequestBodies
  BY HandledTheirs
<1> HIDE DEF q, last
<1>7. \A i : Come(i)' => /\ i = last /\ inbox'[i] = m
                         /\ call # None /\ q.callid = call.id /\ q.body = call.body
  <2> SUFFICES ASSUME NEW i, Come(i)'
               PROVE  /\ i = last /\ inbox'[i] = m
                      /\ call # None /\ q.callid = call.id /\ q.body = call.body
    OBVIOUS
  <2>1. call # None /\ i \in DOMAIN inbox' /\ inbox'[i].kind = "reply" /\ inbox'[i].callid = call.id
    BY <1>1 DEF Come, Own
  <2>2. i = last
    BY <1>3, <1>5, <2>1 DEF Come, Own
  <2> QED BY <1>1, <1>2, <1>5, <2>1, <2>2 DEF RequestOwn, q
<1>8. call # None /\ q.callid = call.id => \E i \in DOMAIN inbox' : Come(i)'
  BY <1>1, <1>5 DEF Come, Own
<1>9. ~mixed /\ q.body.kind \notin Untold => call # None /\ q.callid = call.id /\ q.body = call.body
  BY <1>2 DEF RequestOwn, q
<1>10. \A i \in DOMAIN asked' :
          /\ q.callid < asked'[i].callid
          /\ ~mixed /\ q.body.kind \notin Untold => asked'[i].body.kind \in Untold
  <2> SUFFICES ASSUME NEW i \in DOMAIN asked'
               PROVE  /\ q.callid < asked'[i].callid
                      /\ ~mixed /\ q.body.kind \notin Untold => asked'[i].body.kind \in Untold
    OBVIOUS
  <2>1. q.callid < asked'[i].callid
    BY <1>2, <1>4 DEF IdsGrow, q
  <2>2. ~mixed /\ asked'[i].body.kind \notin Untold => asked'[i].callid = call.id
    BY <1>4 DEF RequestOwn
  <2>3. q.callid \in Nat
    BY <1>6 DEF RequestType
  <2> QED BY <1>9, <2>1, <2>2, <2>3
<1>11. RosterTypes'
  <2>1. asked' \in Seq(RequestType) /\ inbox' \in Seq(MessageType)
    BY DEF Handled
  <2>2. asked' # <<>> => made' >= 1
    BY <1>1, <1>2, TypesOf
  <2> QED BY <1>1, <1>6, <2>1, <2>2, TypesOf, TypesFrom
<1>12. IdsGrow'
  <2>1. \A i \in DOMAIN asked', j \in DOMAIN asked' : i < j => i + 1 < j + 1
    BY <1>4
  <2>2. q.callid < callid /\ (call # None => q.callid <= call.id)
    BY <1>2 DEF IdsGrow, q
  <2>3. \A i \in DOMAIN inbox : inbox[i].kind = "reply" => inbox[i].callid < q.callid
    BY <1>2 DEF IdsGrow, q
  <2>4. line' # "open" => asked' = <<>>
    BY <1>1
  <2>5. call' # None => call'.id < callid'
    BY <1>1 DEF IdsGrow
  <2>6. \A i \in DOMAIN asked' :
          /\ asked'[i].callid < callid'
          /\ call' # None => asked'[i].callid <= call'.id
          /\ \A j \in DOMAIN asked' : i < j => asked'[i].callid < asked'[j].callid
    BY <1>1, <1>4, <2>1 DEF IdsGrow
  <2>7. \A i \in DOMAIN inbox' : inbox'[i].kind = "reply" =>
          /\ inbox'[i].callid < callid'
          /\ call' # None => inbox'[i].callid <= call'.id
          /\ \A j \in DOMAIN asked' : inbox'[i].callid < asked'[j].callid
          /\ \A j \in DOMAIN inbox' :
                i < j /\ inbox'[j].kind = "reply" => inbox'[i].callid < inbox'[j].callid
    <3> SUFFICES ASSUME NEW i \in DOMAIN inbox', inbox'[i].kind = "reply"
                 PROVE  /\ inbox'[i].callid < callid'
                        /\ call' # None => inbox'[i].callid <= call'.id
                        /\ \A j \in DOMAIN asked' : inbox'[i].callid < asked'[j].callid
                        /\ \A j \in DOMAIN inbox' :
                              i < j /\ inbox'[j].kind = "reply" =>
                                  inbox'[i].callid < inbox'[j].callid
      OBVIOUS
    <3>1. CASE i = last
      <4>1. \A j \in DOMAIN inbox' : ~(last < j)
        BY <1>2, <1>5 DEF Lengths, last
      <4> QED BY <1>1, <1>5, <1>10, <2>2, <3>1, <4>1
    <3>2. CASE i \in DOMAIN inbox
      <4>1. inbox'[i] = inbox[i]
        BY <1>5, <3>2
      <4>2. \A j \in DOMAIN asked' : inbox'[i].callid < asked'[j].callid
        BY <1>4, <3>2, <4>1 DEF IdsGrow
      <4>3. \A j \in DOMAIN inbox' : i < j /\ inbox'[j].kind = "reply" =>
               inbox'[i].callid < inbox'[j].callid
        BY <1>1, <1>5, <2>3, <3>2, <4>1 DEF IdsGrow
      <4> QED BY <1>1, <3>2, <4>1, <4>2, <4>3 DEF IdsGrow
    <3> QED BY <1>5, <3>1, <3>2
  <2> QED BY <2>4, <2>5, <2>6, <2>7 DEF IdsGrow
<1>13. AnswerComing'
  <2> SUFFICES ASSUME call # None, running # "undefined"
               PROVE  \/ \E i \in DOMAIN asked' : asked'[i].callid = call.id
                      \/ \E i \in DOMAIN inbox' : Own(inbox[i])'
    BY <1>1 DEF AnswerComing
  <2>1. PICK i \in DOMAIN asked : asked[i].callid = call.id
    BY <1>1, <1>3 DEF AnswerComing, Come
  <2>2. CASE i = 1
    BY <1>8, <2>1, <2>2 DEF Come, q
  <2>3. CASE i # 1
    <3>1. i - 1 \in DOMAIN asked' /\ asked'[i - 1] = asked[i]
      BY <1>2, <2>3 DEF Handled, Lengths
    <3> QED BY <2>1, <3>1
  <2> QED BY <2>2, <2>3
<1>14. Quiet'
  <2> SUFFICES ASSUME ~strays
               PROVE  /\ ~mixed
                      /\ Len(asked') + Len(inbox') <= IF call = None THEN 0 ELSE 1
                      /\ \A i \in DOMAIN asked' : asked'[i].callid = call.id
                      /\ \A i \in DOMAIN inbox' : Own(inbox[i])'
    BY <1>1 DEF Quiet
  <2>1. /\ ~mixed
        /\ Len(asked) + Len(inbox) <= IF call = None THEN 0 ELSE 1
        /\ \A i \in DOMAIN asked : asked[i].callid = call.id
        /\ \A i \in DOMAIN inbox : Own(inbox[i])
    BY DEF Quiet
  <2>2. Len(asked') + Len(inbox') = Len(asked) + Len(inbox)
    BY <1>2 DEF Handled, Lengths
  <2>3. \A i \in DOMAIN asked' : asked'[i].callid = call.id
    BY <1>4, <2>1
  <2>4. \A i \in DOMAIN inbox' : Own(inbox[i])'
    BY <1>1, <1>2, <1>5, <2>1 DEF Own, q
  <2> QED BY <2>1, <2>2, <2>3, <2>4
<1>15. RequestOwn'
  BY <1>1, <1>4 DEF RequestOwn
<1>16. LastAsked'
  <2> SUFFICES ASSUME ~mixed, NEW i \in DOMAIN asked', NEW user \in Users,
                      AsksGroups(asked[i + 1], user),
                      \A j \in DOMAIN asked' : i < j => ~AsksGroups(asked[j + 1], user)
               PROVE  Listed(user) /\ GroupIds(user) = asked[i + 1].body.ids
    BY <1>1, <1>4
       DEF LastAsked, Listed, Positions, GroupIds, find_by_userid, AsksGroups
  <2>1. i + 1 \in DOMAIN asked
    BY <1>4
  <2>2. ASSUME NEW j \in DOMAIN asked, i + 1 < j PROVE ~AsksGroups(asked[j], user)
    <3>1. j - 1 \in DOMAIN asked' /\ i < j - 1 /\ j - 1 + 1 = j
      BY <1>2, <1>4, <2>2 DEF Handled, Lengths
    <3>2. ~AsksGroups(asked[j - 1 + 1], user)
      BY <3>1
    <3> QED BY <3>1, <3>2
  <2> QED BY <2>1, <2>2 DEF LastAsked
<1>17. GroupsFollow'
  <2> SUFFICES ASSUME ~mixed
               PROVE  /\ Distinct(groups)
                      /\ \A id \in theirs'.groups : id <= theirs'.version
                      /\ NotCome' => ToSet(groups) = theirs'.groups
                      /\ \A i \in DOMAIN inbox' : Come(i)' =>
                            /\ theirs'.groups = GroupsAfter(inbox[i])'
                            /\ call.op = "list_create" /\ inbox'[i].code = 200 =>
                                  /\ inbox'[i].body.kind = "create-list"
                                  /\ inbox'[i].body.ids[1] \notin ToSet(groups)
    BY <1>1 DEF GroupsFollow, ToSet
  <2>1. /\ Distinct(groups)
        /\ \A id \in theirs.groups : id <= theirs.version
        /\ ToSet(groups) = theirs.groups
    BY <1>1, <1>3 DEF GroupsFollow, NotCome
  <2>2. theirs.version \in Nat /\ theirs.groups \subseteq Nat
    BY TypesOf DEF TheirsType
  <2>3. \A id \in theirs'.groups : id <= theirs'.version
    BY <2>1, <2>2, HandledTheirs
  <2>4. NotCome' => theirs'.groups = theirs.groups
    <3> SUFFICES ASSUME NotCome' PROVE theirs'.groups = theirs.groups
      OBVIOUS
    <3>1. q.body.kind \in Untold
      BY <1>5, <1>8, <1>9 DEF NotCome
    <3>2. q.body.kind \notin {"create-list", "delete-list"}
      BY <3>1 DEF Untold
    <3> QED BY <3>2, HandledTheirs DEF q
  <2>5. ASSUME NEW i \in DOMAIN inbox', Come(i)'
        PROVE  /\ theirs'.groups = GroupsAfter(inbox[i])'
               /\ call.op = "list_create" /\ inbox'[i].code = 200 =>
                     /\ inbox'[i].body.kind = "create-list"
                     /\ inbox'[i].body.ids[1] \notin ToSet(groups)
    <3>1. inbox'[i] = m /\ call # None /\ q.body = call.body
      BY <1>7, <2>5
    <3>2. /\ call.op = "list_create" <=> q.body.kind = "create-list"
          /\ call.op = "list_delete" <=> q.body.kind = "delete-list"
      BY <3>1, TypesOf DEF CallType
    <3>3. GroupsAfter(inbox[i])' =
             IF call.op = "list_create" /\ m.code = 200 THEN ToSet(groups) \cup {m.body.ids[1]}
             ELSE IF call.op = "list_delete" /\ m.code = 200
             THEN ToSet(groups) \ {call.body.ids[1]} ELSE ToSet(groups)
      BY <1>1, <3>1 DEF GroupsAfter, ToSet
    <3>4. CASE Accepted(m)
      <4>1. m.code = 200
        BY <3>4 DEF Accepted
      <4>2. theirs.version + 1 \notin theirs.groups
        BY <2>1, <2>2
      <4>3. /\ q.body.kind = "create-list" =>
                  /\ theirs'.groups = theirs.groups \cup {theirs.version + 1}
                  /\ m.body.kind = "create-list" /\ m.body.ids[1] = theirs.version + 1
            /\ q.body.kind = "delete-list" =>
                  theirs'.groups = theirs.groups \ {q.body.ids[1]}
            /\ q.body.kind \notin {"create-list", "delete-list"} =>
                  theirs'.groups = theirs.groups
        BY <3>4, HandledTheirs DEF q
      <4> QED BY <2>1, <3>1, <3>2, <3>3, <4>1, <4>2, <4>3
    <3>5. CASE ~Accepted(m)
      <4>1. m.code # 200 /\ theirs'.groups = theirs.groups
        BY <3>5, HandledTheirs DEF Refused, Contested
      <4> QED BY <2>1, <3>1, <3>3, <4>1
    <3> QED BY <3>4, <3>5
  <2> QED BY <2>1, <2>3, <2>4, <2>5
<1>18. GroupIdsAgree'
  <2>0. \A user : (Listed(user)' <=> Listed(user)) /\ GroupIds(user)' = GroupIds(user)
    BY <1>1 DEF Listed, Positions, GroupIds, find_by_userid
  <2> SUFFICES ASSUME ~mixed, NEW user \in Users, Listed(user), user \notin doubted',
                      \A i \in DOMAIN asked' :
                          asked'[i].body.kind = "group-ids" => asked'[i].body.user # user
               PROVE  ToSet(GroupIds(user)) = theirs'.of[user]
    BY <1>1, <2>0 DEF GroupIdsAgree, ToSet
  <2>1. ASSUME theirs'.of[user] = theirs.of[user], user \notin doubted,
               ~AsksGroups(q, user)
        PROVE  ToSet(GroupIds(user)) = theirs'.of[user]
    <3>1. ASSUME NEW i \in DOMAIN asked PROVE ~AsksGroups(asked[i], user)
      <4>1. CASE i = 1
        BY <2>1, <4>1 DEF q
      <4>2. CASE i # 1
        <5>1. i - 1 \in DOMAIN asked' /\ asked'[i - 1] = asked[i]
          BY <1>2, <4>2 DEF Handled, Lengths
        <5> QED BY <5>1 DEF AsksGroups
      <4> QED BY <4>1, <4>2
    <3> QED BY <2>1, <3>1 DEF GroupIdsAgree, AsksGroups
  <2>2. CASE Accepted(m)
    <3>1. /\ theirs' = Effect(q)
          /\ doubted' = IF q.body.kind = "group-ids" THEN doubted \ {q.body.user}
                        ELSE IF q.body.kind \in {"add-buddy", "handle-request", "delete-buddy"}
                        THEN doubted \cup {q.body.user} ELSE doubted
      BY <2>2 DEF Accepted, q
    <3>2. /\ \/ theirs'.of[user] = theirs.of[user]
             \/ /\ q.body.user = user
                /\ \/ q.body.kind \in {"add-buddy", "handle-request", "delete-buddy"}
                   \/ q.body.kind = "group-ids"
          /\ q.body.kind = "group-ids" => theirs'.of[q.body.user] = ToSet(q.body.ids)
      <4>1. theirs \in TheirsType /\ q \in RequestType
        BY <1>6, TypesOf
      <4> HIDE DEF q
      <4>2. PICK t : t = Effect(q)
        OBVIOUS
      <4>3. /\ \/ t.of[user] = theirs.of[user]
               \/ /\ q.body.user = user
                  /\ \/ q.body.kind \in {"add-buddy", "handle-request", "delete-buddy"}
                     \/ q.body.kind = "group-ids"
            /\ q.body.kind = "group-ids" => t.of[q.body.user] = ToSet(q.body.ids)
        BY <4>1, <4>2, EffectIs
      <4> QED BY <3>1, <4>2, <4>3
    <3>3. CASE AsksGroups(q, user)
      <4>1. \A j \in DOMAIN asked : 1 < j => ~AsksGroups(asked[j], user)
        <5> SUFFICES ASSUME NEW j \in DOMAIN asked, 1 < j PROVE ~AsksGroups(asked[j], user)
          OBVIOUS
        <5>1. j - 1 \in DOMAIN asked' /\ asked'[j - 1] = asked[j]
          BY <1>2 DEF Handled, Lengths
        <5> QED BY <5>1 DEF AsksGroups
      <4>2. GroupIds(user) = q.body.ids
        BY <1>2, <3>3, <4>1 DEF LastAsked, q
      <4> QED BY <3>2, <3>3, <4>2 DEF AsksGroups
    <3>4. CASE ~AsksGroups(q, user)
      <4>1. theirs'.of[user] = theirs.of[user] /\ user \notin doubted
        BY <3>1, <3>2, <3>4 DEF AsksGroups
      <4> QED BY <2>1, <3>4, <4>1
    <3> QED BY <3>3, <3>4
  <2>3. CASE Refused(m)
    BY <2>1, <2>3 DEF Refused, AsksGroups, q
  <2>4. CASE Contested(m)
    <3>1. theirs'.of = theirs.of
      BY <2>4, TypesOf DEF Contested, TheirsType
    <3>2. doubted' = doubted /\ q.body.kind = "add-buddy"
      BY <2>4 DEF Contested, q
    <3> QED BY <2>1, <3>1, <3>2 DEF AsksGroups
  <2> QED BY <2>2, <2>3, <2>4
<1>19. NewInDoubt'
  <2> SUFFICES ASSUME NEW i \in DOMAIN inbox', Come(i)', inbox'[i].code = 200,
                      HasBuddyNode(inbox[i])'
               PROVE  inbox'[i].body.user \in doubted'
    BY <1>1 DEF NewInDoubt
  <2>1. inbox'[i] = m
    BY <1>7
  <2>2. Accepted(m)
    BY <2>1 DEF Refused, Contested
  <2>3. m.body.kind \in {"add-buddy", "handle-request"} /\ m.body = ResultBody(q)
    BY <2>1, <2>2 DEF HasBuddyNode, Accepted, q
  <2>4. m.body = q.body /\ q.body.kind \in {"add-buddy", "handle-request"}
    BY <2>3 DEF ResultBody, Body, NoBody
  <2>5. doubted' = doubted \cup {q.body.user}
    BY <2>2, <2>4 DEF Accepted, q
  <2> QED BY <2>1, <2>4, <2>5
<1>20. AcksFollow'
  <2> DEFINE Told(i) ==
               CASE call.op = "add_buddy" /\ inbox'[i].code = 420 ->
                      Head(inbox'[i].body.ids) = theirs'.challenge
                 [] call.op = "add_buddy" /\ inbox'[i].code = 200 -> theirs'.challenge = 0
                 [] OTHER -> Challenged'
  <2> SUFFICES ASSUME ~mixed
               PROVE  /\ \A i \in DOMAIN asked' : \A n \in 1..MaxCalls :
                            Contains(asked'[i].header, Ack(n)) <=>
                                asked'[i].body.kind = "add-buddy" /\ theirs'.challenge = n
                      /\ NotCome' => Challenged'
                      /\ \A i \in DOMAIN inbox' : Come(i)' => Told(i)
    BY <1>1 DEF AcksFollow, Acknowledges, Ack
  <2>1. /\ \A i \in DOMAIN asked : \A n \in 1..MaxCalls :
              Contains(asked[i].header, Ack(n)) <=>
                  asked[i].body.kind = "add-buddy" /\ theirs.challenge = n
        /\ Challenged
    BY <1>1, <1>3 DEF AcksFollow, Acknowledges, NotCome
  <2>2. CASE q.body.kind = "add-buddy"
    <3>1. q.body.kind \notin Untold
      BY <2>2 DEF Untold
    <3>2. /\ call # None /\ q.callid = call.id /\ q.body = call.body
          /\ \E i \in DOMAIN inbox' : Come(i)'
      BY <1>8, <1>9, <3>1
    <3>3. ~NotCome'
      BY <3>2 DEF NotCome
    <3>4. ASSUME NEW i \in DOMAIN asked', NEW n \in 1..MaxCalls
          PROVE  asked'[i].body.kind # "add-buddy" /\ ~Contains(asked'[i].header, Ack(n))
      <4>1. asked'[i].body.kind # "add-buddy"
        BY <1>10, <3>1 DEF Untold
      <4> QED BY <1>4, <2>1, <4>1
    <3>5. call.op = "add_buddy"
      BY <2>2, <3>2, TypesOf DEF CallType
    <3>6. ASSUME NEW i \in DOMAIN inbox', Come(i)'
          PROVE  Told(i)
      <4>1. inbox'[i] = m
        BY <1>7, <3>6
      <4>2. CASE Accepted(m)
        <5>1. theirs' = Effect(q) /\ theirs \in TheirsType
          BY <4>2, TypesOf DEF Accepted, q
        <5>2. theirs'.challenge = 0
          BY <1>6, <2>2, <5>1, EffectIs
        <5>3. inbox'[i].code = 200
          BY <4>1, <4>2 DEF Accepted
        <5> QED BY <3>5, <5>2, <5>3
      <4>3. CASE Refused(m)
        <5>1. Challenged'
          BY <1>1, <2>1, <4>3 DEF Refused, Challenged, Challenge
        <5>2. inbox'[i].code = 400
          BY <4>1, <4>3 DEF Refused
        <5> QED BY <5>1, <5>2
      <4>4. CASE Contested(m)
        <5>1. theirs'.challenge = made
          BY <4>4, TypesOf DEF Contested, TheirsType
        <5> QED BY <3>5, <4>1, <4>4, <5>1 DEF Contested
      <4> QED BY <4>2, <4>3, <4>4
    <3> QED BY <3>3, <3>4, <3>6
  <2>3. CASE q.body.kind # "add-buddy"
    <3>1. ~Contested(m)
      BY <2>3 DEF Contested, q
    <3>2. theirs'.challenge = theirs.challenge
      <4>1. CASE Accepted(m)
        <5>1. theirs' = Effect(q)
          BY <4>1 DEF Accepted, q
        <5> QED BY <1>6, <2>3, <5>1, TypesOf, EffectIs
      <4>2. CASE Refused(m)
        BY <4>2 DEF Refused
      <4> QED BY <3>1, <4>1, <4>2
    <3>3. Challenged'
      BY <1>1, <2>1, <3>2 DEF Challenged, Challenge
    <3>4. \A i \in DOMAIN inbox' : Come(i)' => Told(i)
      <4> SUFFICES ASSUME NEW i \in DOMAIN inbox', Come(i)'
                   PROVE  Told(i)
        OBVIOUS
      <4>1. call # None /\ q.body = call.body
        BY <1>7
      <4>2. call.op # "add_buddy"
        BY <2>3, <4>1, TypesOf DEF CallType
      <4> QED BY <3>3, <4>2
    <3> QED BY <1>4, <2>1, <3>2, <3>3, <3>4
  <2> QED BY <2>2, <2>3
<1> QED BY <1>11, <1>12, <1>13, <1>14, <1>15, <1>16, <1>17, <1>18, <1>19, <1>20

(* A notification is nobody's answer.                                       *)
LEMMA NoticedKeeps ==
    ASSUME RosterInv, Noticed
    PROVE  RosterInv'
<1> USE DEF RosterInv
<1>1. /\ line = "open" /\ line' = "open" /\ strays' = TRUE /\ news' \in 0..MaxNews
      /\ callid' = callid /\ sip' = sip /\ asked' = asked /\ running' = running
      /\ contacts' = contacts /\ groups' = groups /\ self' = self
      /\ verification' = verification /\ call' = call /\ made' = made /\ theirs' = theirs
      /\ mixed' = mixed /\ doubted' = doubted
  BY DEF Noticed
<1>2. /\ inbox' \in Seq(MessageType)
      /\ \A i \in DOMAIN inbox : i \in DOMAIN inbox' /\ inbox'[i] = inbox[i]
      /\ \A i \in DOMAIN inbox' : i \in DOMAIN inbox \/ inbox'[i].kind = "notification"
  BY LengthsAre DEF Noticed, Lengths
<1>3. \A i : /\ Come(i)' <=> Come(i)
             /\ Come(i) => inbox'[i] = inbox[i]
  BY <1>1, <1>2 DEF Come, Own
<1>4. RosterTypes'
  <2>1. strays' \in BOOLEAN
    BY <1>1, Zenon
  <2> QED BY <1>1, <1>2, <2>1, TypesOf, TypesFrom
<1>5. IdsGrow'
  BY <1>1, <1>2 DEF IdsGrow
<1>6. AnswerComing'
  BY <1>1, <1>2 DEF AnswerComing, Own
<1>7. Quiet'
  BY <1>1 DEF Quiet
<1>8. RequestOwn'
  BY <1>1 DEF RequestOwn
<1>9. GroupsFollow'
  <2>1. NotCome' => NotCome
    BY <1>2, <1>3 DEF NotCome
  <2>2. \A i \in DOMAIN inbox' : Come(i)' =>
           /\ i \in DOMAIN inbox /\ Come(i) /\ inbox'[i] = inbox[i]
           /\ GroupsAfter(inbox[i])' = GroupsAfter(inbox[i])
    BY <1>1, <1>3 DEF Come, GroupsAfter
  <2>3. NotCome' => (~mixed => ToSet(groups) = theirs.groups)
    BY <1>1, <2>1 DEF GroupsFollow
  <2> QED BY <1>1, <2>2, <2>3 DEF GroupsFollow
<1>10. LastAsked' /\ GroupIdsAgree'
  BY <1>1 DEF LastAsked, GroupIdsAgree, Listed, Positions, GroupIds, find_by_userid, AsksGroups
<1>11. NewInDoubt'
  BY <1>1, <1>2, <1>3 DEF NewInDoubt, Come, HasBuddyNode
<1>12. AcksFollow'
  BY <1>1, <1>2, <1>3 DEF AcksFollow, Acknowledges, NotCome, Come, Challenged, Challenge, Ack
<1> QED BY <1>4, <1>5, <1>6, <1>7, <1>8, <1>9, <1>10, <1>11, <1>12

(* The channel is lost, with the requests on it and perhaps the answers:    *)
(* everything is in doubt.                                                  *)
LEMMA BrokenKeeps ==
    ASSUME RosterInv, LineBreaks
    PROVE  RosterInv'
<1> USE DEF RosterInv
<1>1. /\ line' \in {"closed", "reset"} /\ asked' = <<>> /\ doubted' = Users
      /\ inbox' \in {inbox, <<>>}
      /\ callid' = callid /\ sip' = sip /\ running' = running /\ contacts' = contacts
      /\ groups' = groups /\ self' = self /\ verification' = verification /\ call' = call
      /\ made' = made /\ news' = news /\ theirs' = theirs /\ strays' = strays
      /\ mixed' = mixed
  BY DEF LineBreaks, Breaks
<1>2. /\ asked' \in Seq(RequestType) /\ inbox' \in Seq(MessageType)
      /\ DOMAIN asked' = {} /\ Len(asked') = 0
  <2>1. asked' \in Seq(RequestType)
    BY <1>1, EmptySeq
  <2>2. inbox' \in Seq(MessageType)
    <3>1. inbox \in Seq(MessageType)
      BY TypesOf
    <3>2. <<>> \in Seq(MessageType)
      BY EmptySeq
    <3> QED BY <1>1, <3>1, <3>2
  <2>3. DOMAIN asked' = {} /\ Len(asked') = 0
    BY <1>1
  <2> QED BY <2>1, <2>2, <2>3
<1>3. /\ \A i \in DOMAIN inbox' : i \in DOMAIN inbox /\ inbox'[i] = inbox[i]
      /\ Len(inbox') <= Len(inbox) /\ Len(inbox') \in Nat
  <2>1. DOMAIN <<>> = {} /\ Len(<<>>) = 0
    OBVIOUS
  <2> QED BY <1>1, <2>1, LengthsAre DEF Lengths
<1>4. RosterTypes'
  <2>1. line' \in {"open", "closed", "reset"}
    BY <1>1
  <2> QED BY <1>1, <1>2, <2>1, TypesOf, TypesFrom
<1>5. IdsGrow'
  BY <1>1, <1>2, <1>3 DEF IdsGrow
<1>6. AnswerComing' /\ GroupsFollow' /\ AcksFollow'
  BY <1>1 DEF AnswerComing, GroupsFollow, AcksFollow
<1>7. Quiet'
  <2>1. Len(asked') + Len(inbox') <= Len(asked) + Len(inbox)
    BY <1>2, <1>3, LengthsAre DEF Lengths
  <2>2. Len(asked) + Len(inbox) \in Nat /\ Len(asked') + Len(inbox') \in Nat
    BY <1>2, <1>3, LengthsAre DEF Lengths
  <2> SUFFICES ASSUME ~strays
               PROVE  /\ ~mixed
                      /\ Len(asked') + Len(inbox') <= IF call = None THEN 0 ELSE 1
                      /\ \A i \in DOMAIN inbox' : Own(inbox[i])'
    BY <1>1, <1>2 DEF Quiet
  <2>3. /\ ~mixed
        /\ Len(asked) + Len(inbox) <= IF call = None THEN 0 ELSE 1
        /\ \A i \in DOMAIN inbox : Own(inbox[i])
    BY DEF Quiet
  <2>4. \A i \in DOMAIN inbox' : Own(inbox[i])'
    BY <1>1, <1>3, <2>3 DEF Own
  <2> QED BY <2>1, <2>2, <2>3, <2>4
<1>8. RequestOwn' /\ LastAsked'
  BY <1>2 DEF RequestOwn, LastAsked
<1>9. GroupIdsAgree'
  BY <1>1 DEF GroupIdsAgree
<1>10. NewInDoubt'
  <2> SUFFICES ASSUME NEW i \in DOMAIN inbox', HasBuddyNode(inbox[i])'
               PROVE  inbox'[i].body.user \in Users
    BY <1>1 DEF NewInDoubt
  <2>1. inbox'[i] = inbox[i] /\ inbox[i] \in MessageType
    BY <1>3, LengthsAre DEF Lengths
  <2> QED BY <2>1 DEF MessageType, HasBuddyNode
<1> QED BY <1>4, <1>5, <1>6, <1>7, <1>8, <1>9, <1>10

(* So every step keeps the invariant.                                       *)
LEMMA RosterKeeps ==
    ASSUME RosterInv, [Next]_vars
    PROVE  RosterInv'
<1>1. RosterTypes
  BY DEF RosterInv
<1>2. RosterStep \/ UNCHANGED vars
  BY <1>1, NextIsRosterStep
<1>3. CASE Tells
  <2>1. PICK type \in Types : \E body \in RequestBodies :
            /\ body.kind \in Untold
            /\ Sent(type, <<EventOf(body.kind)>>, body)
            /\ strays' = TRUE
            /\ call' = call
            /\ self' \in SelfType
    BY <1>3 DEF Tells
  <2>2. PICK body \in RequestBodies :
            /\ body.kind \in Untold
            /\ Sent(type, <<EventOf(body.kind)>>, body)
            /\ strays' = TRUE
            /\ call' = call
            /\ self' \in SelfType
    BY <2>1
  <2> DEFINE headers == <<EventOf(body.kind)>>
  <2>3. headers \in Seq(Headers) /\ HeadersOf(body, headers)
    <3>1. body.kind # "add-buddy"
      BY <2>2 DEF Untold
    <3> QED BY <2>2, <3>1, EventOfKind DEF HeadersOf, Kinds
  <2>4. Sent(type, headers, body) /\ After(body)
    BY <2>2 DEF After, Sent
  <2> HIDE DEF headers
  <2> QED BY <2>2, <2>3, <2>4, SentKeeps
<1>4. CASE Asks
  <2>1. PICK c \in CallType : \E headers \in Seq(Headers) :
            /\ c.body.kind \in Awaited
            /\ c.id = callid
            /\ HeadersOf(c.body, headers)
            /\ Sent("S", headers, c.body)
            /\ call' = c \/ (call' = None /\ line = "reset")
            /\ UNCHANGED <<strays, self>>
    BY <1>4 DEF Asks
  <2>2. PICK headers \in Seq(Headers) :
            /\ c.id = callid
            /\ HeadersOf(c.body, headers)
            /\ Sent("S", headers, c.body)
            /\ call' = c \/ (call' = None /\ line = "reset")
            /\ UNCHANGED <<strays, self>>
    BY <2>1
  <2>3. "S" \in Types /\ c.body \in RequestBodies
    BY DEF Types, CallType
  <2>4. After(c.body) /\ self' \in SelfType
    BY <1>1, <2>2, TypesOf DEF After
  <2> QED BY <2>2, <2>3, <2>4, SentKeeps
<1>5. CASE Ends
  BY <1>5, EndsKeeps DEF Ends
<1>6. CASE Heard
  BY <1>6, HeardKeeps
<1>7. CASE \/ Stuck \/ Garbled \/ LeavesHeader \/ UNCHANGED vars
           \/ \E field \in Unset : Sets(field)
  BY <1>1, <1>7, StillIs, StillKeeps
<1>8. CASE Accepts \/ Refuses \/ Challenges
  <2>1. PICK m : Handled(m) /\ (Accepted(m) \/ Refused(m) \/ Contested(m))
    BY <1>1, <1>8, HandledIs
  <2> QED BY <2>1, HandledKeeps
<1>9. CASE Notifies
  BY <1>1, <1>9, NoticedIs, NoticedKeeps
<1>10. CASE LineBreaks
  BY <1>10, BrokenKeeps
<1> QED BY <1>2, <1>3, <1>4, <1>5, <1>6, <1>7, <1>8, <1>9, <1>10 DEF RosterStep

-----------------------------------------------------------------------------
(* The theorems. *)

(* The inductive invariant: call ids grow along the channel, and the lists  *)
(* here are where the server's are once the answer that has come is taken.  *)
THEOREM RosterSound == Spec => []RosterInv
<1>1. Init => RosterInv
  BY InitRosterInv
<1>2. RosterInv /\ [Next]_vars => RosterInv'
  BY RosterKeeps
<1> QED BY <1>1, <1>2, PTL DEF Spec

(* The types of the lists, the channel and the counters.                    *)
THEOREM RosterTyped == Spec => []TypeOK
<1>1. RosterInv => TypeOK
  BY DEF RosterInv, RosterTypes
<1> QED BY <1>1, RosterSound, PTL

(* A call that waits is answered as long as the channel lives, for any number *)
(* of calls and notifications: no read takes an answer of a later call away.  *)
THEOREM AnswersCome == Spec => []AnswerComing
<1>1. RosterInv => AnswerComing
  BY DEF RosterInv
<1> QED BY <1>1, RosterSound, PTL

(* While nothing was sent that no call waits for, every call takes its own  *)
(* answer.                                                                  *)
THEOREM AnswersAreOwn == Spec => []OwnAnswers
<1>1. RosterInv => OwnAnswers
  BY DEF RosterInv, Quiet, OwnAnswers
<1> QED BY <1>1, RosterSound, PTL

(* The buddy lists are the server's between calls that change them.         *)
THEOREM GroupListsAgree == Spec => []GroupListAgrees
<1>1. ASSUME RosterInv PROVE GroupListAgrees
  <2> SUFFICES ASSUME ~mixed, line = "open",
                      call = None \/ call.op \notin {"list_create", "list_delete"}
               PROVE  ToSet(groups) = theirs.groups
    BY DEF GroupListAgrees
  <2>1. /\ NotCome => ToSet(groups) = theirs.groups
        /\ \A i \in DOMAIN inbox : Come(i) => theirs.groups = GroupsAfter(inbox[i])
    BY <1>1 DEF RosterInv, GroupsFollow
  <2> QED BY <2>1 DEF NotCome, Come, GroupsAfter
<1> QED BY <1>1, RosterSound, PTL

(* A contact's group ids are the server's unless they are in doubt.         *)
THEOREM ContactGroupsAgree == Spec => []GroupIdsAgree
<1>1. RosterInv => GroupIdsAgree
  BY DEF RosterInv
<1> QED BY <1>1, RosterSound, PTL

(* A request carries its own headers behind those of copies that were not   *)
(* carried out.                                                             *)
THEOREM RequestHeadersOwn == Spec => []HeadersOwn
<1>1. ASSUME RosterInv PROVE HeadersOwn
  <2> SUFFICES ASSUME NEW i \in DOMAIN asked
               PROVE  LET header == asked[i].header
                          own == IF header[Len(header)] \in {Ack(n) : n \in 1..MaxCalls}
                                 THEN 2 ELSE 1
                      IN  Lines(header, own, asked[i].body.kind)
    BY DEF HeadersOwn, Lines
  <2>1. HeaderOwn(asked[i])
    BY <1>1, LengthsAre DEF RosterInv, Lengths, RequestType
  <2>2. \A n : Ack(n)[1] = "Ack"
    BY DEF Ack
  <2> DEFINE last == asked[i].header[Len(asked[i].header)]
  <2>3. last[1] # "Ack" => last \notin {Ack(n) : n \in 1..MaxCalls}
    BY <2>2
  <2> QED BY <2>1, <2>3 DEF HeaderOwn
<1> QED BY <1>1, RosterSound, PTL

(* A request to add a buddy acknowledges the challenge the server gave last, if *)
(* it has not been met since, and no other: for any number of users, challenges *)
(* and refusals.                                                                *)
THEOREM AcksAreCurrent == Spec => []AckIsCurrent
<1>1. ASSUME RosterInv PROVE AckIsCurrent
  <2> SUFFICES ASSUME ~mixed, NEW i \in DOMAIN asked, asked[i].body.kind = "add-buddy"
               PROVE  {n \in 1..MaxCalls : Contains(asked[i].header, Ack(n))}
                          = {theirs.challenge} \ {0}
    BY DEF AckIsCurrent
  <2>1. line = "open"
    BY <1>1 DEF RosterInv, IdsGrow
  <2>2. Acknowledges(asked[i])
    BY <1>1, <2>1 DEF RosterInv, AcksFollow
  <2>3. \A n \in 1..MaxCalls : Contains(asked[i].header, Ack(n)) <=> theirs.challenge = n
    BY <2>2 DEF Acknowledges
  <2>4. theirs.challenge \in 0..MaxCalls /\ MaxCalls \in Nat
    BY <1>1, TypesOf DEF RosterInv, TheirsType
  <2>5. {n \in 1..MaxCalls : theirs.challenge = n} = {theirs.challenge} \ {0}
    BY <2>4
  <2> QED BY <2>3, <2>5
<1> QED BY <1>1, RosterSound, PTL
===============================================================================
