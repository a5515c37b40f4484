---------------------------- MODULE PGGroupsProofs ----------------------------
(***************************************************************************)
(* What the PG groups keep, for any number of groups, members, calls and   *)
(* notifications.                                                          *)
(*                                                                         *)
(* The parsers are chosen by the call ids left behind.  The argument is    *)
(* about the set of these ids, each with what it was left for: an id is    *)
(* new when it is left, so no two are the same, and what comes under it is *)
(* what was asked for; only an invitation is written under again.          *)
(***************************************************************************)
EXTENDS PGGroups, ListLemmas, FiniteSetTheorems

-----------------------------------------------------------------------------
(* What is written and read. *)

Types == {"none", "S", "SUB", "I", "M", "A"}
HeaderTags == {"PGGetGroupList", "PGGetGroupInfo", "PGPresence", "PGGetGroupMembers",
               "GetContactInfo", "PGSendCatSMS", "T", "C", "K"}
HeaderLines == HeaderTags \X (Groups \cup Nat)

AboutGroup == {"subscription", "members", "invitation", "message", "sms", "ack", "presence"}
BodyKinds == AboutGroup \cup {"groups", "info", "contact", "nothing", "none"}

Bodies ==
    {body \in [kind : BodyKinds, user : Groups \cup Users \cup {None}, ids : Seq(Groups \cup Users)] :
        /\ body.kind \in AboutGroup => body.user \in Groups
        /\ body.kind \in {"groups", "info"} => body.user = None}

HeadersOf(kind) ==
    CASE kind = "message" -> 3 [] kind \in {"invitation", "sms"} -> 2 [] OTHER -> 1

RequestType ==
    {q \in [type : Types, callid : Nat, header : Seq(HeaderLines), body : Bodies] :
        Len(q.header) = HeadersOf(q.body.kind)}

MessageType ==
    {m \in [kind : {"reply", "notification"}, callid : Nat, code : Nat, body : Bodies] :
        /\ m.kind = "notification" => m.callid = 0 /\ m.body.kind = "presence"
        /\ m.body.kind = "groups" => m.body.ids \in Seq(Groups) /\ Distinct(m.body.ids)
        /\ m.body.kind \in {"none", "nothing"} => m.body.ids = <<>>
        /\ m.body.kind = "members" => m.body.ids = Members[m.body.user]}

MemberType == [uri : Users, status : Nat, getInfo : Nat, contact : Users \cup {None}]

GroupType ==
    [uri : Groups, identity : Nat, informed : BOOLEAN, hasDetails : BOOLEAN, hasAcked : BOOLEAN,
     invite : Nat, getMembers : Nat, asked : Nat, member : Seq(MemberType)]

WalkType == [group : Groups, at : Nat]

(* The types of what TypeOK leaves open. *)
PGTypes ==
    /\ TypeOK
    /\ sip \in [type : Types, callid : Nat, header : {<<>>}]
    /\ asked \in Seq(RequestType)
    /\ inbox \in Seq(MessageType)
    /\ pggroup \in Seq(GroupType)
    /\ walk \in {None} \cup WalkType
    /\ joined \in Seq(Groups)
    /\ Distinct(joined)

-----------------------------------------------------------------------------
(* The call ids left behind. *)

Left(id, kind, user) == [id |-> id, kind |-> kind, user |-> user]

(* Those a group has left. *)
LeftBy(pg) ==
    {Left(pg.getMembers, "members", pg.uri), Left(pg.invite, "invitation", pg.uri)}
        \cup {Left(pg.member[j].getInfo, "contact", pg.member[j].uri) : j \in DOMAIN pg.member}

Remembered ==
    {r \in {Left(listCall, "groups", None), Left(infoCall, "info", None)}
               \cup UNION {LeftBy(pggroup[i]) : i \in DOMAIN pggroup} :
        r.id # 0}

(* What may come under a call id. *)
Fits(r, kind, user) ==
    /\ user = r.user
    /\ IF r.kind = "invitation" THEN kind \in {"invitation", "message", "ack"} ELSE kind = r.kind

IdsOld ==
    /\ \A i \in DOMAIN asked : asked[i].callid < callid
    /\ \A i \in DOMAIN inbox : inbox[i].callid < callid
    /\ \A r \in Remembered : r.id < callid

Recognises ==
    \A r \in Remembered :
        /\ \A body \in OnTheWay(r.id) : Fits(r, body.kind, body.user)
        /\ \A s \in Remembered : s.id = r.id => s = r

(* A call id that one request or one reply bears at most. *)
Once(id) ==
    /\ \A i, j \in DOMAIN asked : asked[i].callid = id /\ asked[j].callid = id => i = j
    /\ \A i, j \in DOMAIN inbox : inbox[i].callid = id /\ inbox[j].callid = id => i = j
    /\ \A i \in DOMAIN asked, j \in DOMAIN inbox : ~(asked[i].callid = id /\ inbox[j].callid = id)

OnlyOnce == \A r \in Remembered : r.kind # "invitation" => Once(r.id)

-----------------------------------------------------------------------------
(* What a group knows of its members. *)

Walking(pg, j) == walk # None /\ walk.group = pg.uri /\ walk.at <= j

MembersOk(pg) ==
    /\ pg.asked = 0 => pg.member = <<>>
    /\ pg.asked = 0 <=> pg.getMembers = 0
    /\ pg.hasDetails => pg.member # <<>>
    /\ pg.asked <= 1 /\ pg.member # <<>> => OnTheWay(pg.getMembers) = {}
    /\ pg.asked <= 1 =>
          \A j, k \in DOMAIN pg.member : pg.member[j].uri = pg.member[k].uri => j = k
    /\ \A j \in DOMAIN pg.member :
          /\ pg.member[j].uri \in ToSet(Members[pg.uri])
          /\ pg.member[j].contact \in {None, pg.member[j].uri}

DetailsOk(pg) ==
    pg.hasDetails /\ pg.asked <= 1 /\ line # "reset" =>
        \A j \in DOMAIN pg.member : Walking(pg, j) \/ pg.member[j].getInfo # 0

GroupsOk == \A i \in DOMAIN pggroup : MembersOk(pggroup[i]) /\ DetailsOk(pggroup[i])

(* The inductive invariant. *)
PGInv == PGTypes /\ IdsOld /\ Recognises /\ OnlyOnce /\ GroupsOk

-----------------------------------------------------------------------------
(* What a step does to the channel. *)

SipType == [type : Types, callid : Nat, header : {<<>>}]

(* A request is written. *)
Sends(q) ==
    /\ callid' = callid + 1
    /\ sip' \in SipType
    /\ line' = line
    /\ asked' = IF line = "open" THEN Append(asked, q) ELSE asked

(* The requests on the way, without the first a, and perhaps with a new one. *)
AskedFrom(a, n, kind, user) ==
    \A i \in DOMAIN asked' :
        /\ i \in Nat \ {0}
        /\ \/ i + a \in DOMAIN asked /\ asked'[i] = asked[i + a]
           \/ /\ i = Len(asked) - a + 1
              /\ asked'[i].callid = n
              /\ asked'[i].body.kind = kind /\ asked'[i].body.user = user

(* What is on the way was there before, or was asked for just now under the    *)
(* call id n (0: nothing was); and nothing comes twice.                        *)
Way(n, kind, user) ==
    /\ callid' \in Nat /\ callid <= callid'
    /\ \A i \in DOMAIN asked' : asked'[i].callid < callid'
    /\ \A i \in DOMAIN inbox' : inbox'[i].callid < callid'
    /\ \A id \in Nat \ {0} : \A body \in OnTheWay(id)' :
          \/ \E old \in OnTheWay(id) : old.kind = body.kind /\ old.user = body.user
          \/ id = n /\ body.kind = kind /\ body.user = user
    /\ \A id \in Nat \ {0} : id # n /\ Once(id) => Once(id)'
    /\ n = callid => Once(n)'
    /\ \E a \in 0..Len(asked) : AskedFrom(a, n, kind, user)

(* What the struct is when it is stamped: no header was left on it. *)
LEMMA StampedIs ==
    ASSUME sip \in SipType, NEW type, NEW S, NEW headers \in Seq(S)
    PROVE  Stamped(type, headers) = [type |-> type, callid |-> callid, header |-> headers]
<1>1. set_type(sip, type) = [type |-> type, callid |-> callid, header |-> <<>>]
  <2>1. PICK r : r = [sip EXCEPT !.type = type]
    OBVIOUS
  <2>2. r = [type |-> type, callid |-> sip.callid, header |-> <<>>]
    BY <2>1 DEF SipType
  <2>3. [r EXCEPT !.callid = callid] = [type |-> type, callid |-> callid, header |-> <<>>]
    BY <2>2
  <2> QED BY <2>1, <2>3 DEF set_type
<1>2. <<>> \o headers = headers
  BY ConcatEmptySeq
<1>3. add_header(set_type(sip, type), headers)
        = [type |-> type, callid |-> callid, header |-> headers]
  BY <1>1, <1>2 DEF add_header
<1> QED BY <1>3 DEF Stamped

(* The headers of the calls, by their number. *)
LEMMA HeadersAre ==
    ASSUME NEW a \in HeaderLines
    PROVE  /\ <<a>> \in Seq(HeaderLines) /\ Len(<<a>>) = 1
           /\ \A b \in HeaderLines : <<a, b>> \in Seq(HeaderLines) /\ Len(<<a, b>>) = 2
           /\ \A b, c \in HeaderLines : <<a, b, c>> \in Seq(HeaderLines) /\ Len(<<a, b, c>>) = 3
  OBVIOUS

(* A request with the next call id. *)
LEMMA WritesNew ==
    ASSUME sip \in SipType, callid \in Nat, NEW type \in Types, NEW headers \in Seq(HeaderLines),
           NEW body \in Bodies, Len(headers) = HeadersOf(body.kind),
           Write(Stamped(type, headers), body),
           NEW q, q = [type |-> type, callid |-> callid, header |-> headers, body |-> body]
    PROVE  q \in RequestType /\ Sends(q) /\ inbox' = inbox
<1>1. Stamped(type, headers) = [type |-> type, callid |-> callid, header |-> headers]
  BY StampedIs
<1>2. to_string(Stamped(type, headers), body) = q
  BY <1>1 DEF to_string
<1>3. sip' = [type |-> type, callid |-> callid, header |-> <<>>]
  BY <1>1 DEF Write
<1>4. sip' \in SipType
  BY <1>3 DEF SipType
<1>5. q \in RequestType
  BY DEF RequestType
<1> QED BY <1>2, <1>4, <1>5 DEF Write, Sends

(* A request with a call id of before. *)
LEMMA WritesUnder ==
    ASSUME sip \in SipType, callid \in Nat, NEW type \in Types, NEW headers \in Seq(HeaderLines),
           NEW n \in Nat, NEW body
    PROVE  LET s == set_callid(Stamped(type, headers), n) IN
           /\ s = [type |-> type, callid |-> n, header |-> headers]
           /\ to_string(s, body) = [type |-> type, callid |-> n, header |-> headers, body |-> body]
           /\ [s EXCEPT !.header = <<>>] \in SipType
<1>1. Stamped(type, headers) = [type |-> type, callid |-> callid, header |-> headers]
  BY StampedIs
<1>2. PICK s : s = set_callid(Stamped(type, headers), n)
  OBVIOUS
<1>3. s = [type |-> type, callid |-> n, header |-> headers]
  BY <1>1, <1>2 DEF set_callid
<1>4. to_string(s, body) = [type |-> type, callid |-> n, header |-> headers, body |-> body]
  BY <1>3 DEF to_string
<1>5. [s EXCEPT !.header = <<>>] = [type |-> type, callid |-> n, header |-> <<>>]
  BY <1>3
<1>6. [s EXCEPT !.header = <<>>] \in SipType
  BY <1>5 DEF SipType
<1> QED BY <1>2, <1>3, <1>4, <1>6

(* What is on its way is the body of a request or of a reply that has one. *)
LEMMA OnTheWayIs ==
    ASSUME NEW id, NEW body
    PROVE  /\ body \in OnTheWay(id) <=>
                \/ \E i \in DOMAIN asked : asked[i].callid = id /\ body = asked[i].body
                \/ \E i \in DOMAIN inbox :
                      /\ inbox[i].kind = "reply" /\ inbox[i].callid = id
                      /\ inbox[i].body.kind \notin {"none", "nothing"}
                      /\ body = inbox[i].body
           /\ body \in OnTheWay(id)' <=>
                \/ \E i \in DOMAIN asked' : asked'[i].callid = id /\ body = asked'[i].body
                \/ \E i \in DOMAIN inbox' :
                      /\ inbox'[i].kind = "reply" /\ inbox'[i].callid = id
                      /\ inbox'[i].body.kind \notin {"none", "nothing"}
                      /\ body = inbox'[i].body
  BY Zenon DEF OnTheWay

(* The messages on the way, without the first b, and perhaps with a new one: a *)
(* notification, or the reply to the request that was taken.                   *)
InboxFrom(a, b) ==
    \A i \in DOMAIN inbox' :
        /\ i \in Nat \ {0}
        /\ \/ i + b \in DOMAIN inbox /\ inbox'[i] = inbox[i + b]
           \/ /\ i = Len(inbox) - b + 1
              /\ \/ inbox'[i].callid = 0
                 \/ /\ a >= 1 /\ 1 \in DOMAIN asked
                    /\ inbox'[i].callid = asked[1].callid
                    /\ \/ inbox'[i].body.kind \in {"none", "nothing"}
                       \/ /\ inbox'[i].body.kind = asked[1].body.kind
                          /\ inbox'[i].body.user = asked[1].body.user

(* What is taken off the front of the two queues, and put behind them, decides. *)
LEMMA WayIs ==
    ASSUME callid \in Nat \ {0}, callid' \in Nat, callid <= callid',
           asked \in Seq(RequestType), inbox \in Seq(MessageType),
           \A i \in DOMAIN asked : asked[i].callid < callid,
           \A i \in DOMAIN inbox : inbox[i].callid < callid,
           NEW n \in Nat, n < callid', NEW kind, NEW user,
           NEW a \in 0..Len(asked), NEW b \in 0..Len(inbox),
           AskedFrom(a, n, kind, user), InboxFrom(a, b)
    PROVE  Way(n, kind, user)
<1> USE DEF AskedFrom, InboxFrom
<1>1. /\ \A i \in DOMAIN asked : asked[i].callid \in Nat
      /\ \A i \in DOMAIN inbox : inbox[i].callid \in Nat
  BY ElementOfSeq, LenProperties DEF RequestType, MessageType
<1>2. Len(asked) \in Nat /\ Len(inbox) \in Nat
  BY LenProperties
<1>3. \A i \in DOMAIN asked' : asked'[i].callid < callid'
  BY <1>1
<1>4. \A i \in DOMAIN inbox' : inbox'[i].callid < callid'
  BY <1>1
<1>5. ASSUME NEW id \in Nat \ {0}, NEW body \in OnTheWay(id)'
      PROVE  \/ \E old \in OnTheWay(id) : old.kind = body.kind /\ old.user = body.user
             \/ id = n /\ body.kind = kind /\ body.user = user
  <2>1. CASE \E i \in DOMAIN asked' : asked'[i].callid = id /\ body = asked'[i].body
    <3>1. PICK i \in DOMAIN asked' : asked'[i].callid = id /\ body = asked'[i].body
      BY <2>1
    <3>2. CASE i + a \in DOMAIN asked /\ asked'[i] = asked[i + a]
      <4>1. body \in OnTheWay(id)
        BY <3>1, <3>2, OnTheWayIs
      <4> QED BY <4>1
    <3>3. CASE /\ asked'[i].callid = n
               /\ asked'[i].body.kind = kind /\ asked'[i].body.user = user
      BY <3>1, <3>3
    <3> QED BY <3>2, <3>3
  <2>2. CASE \E i \in DOMAIN inbox' :
                /\ inbox'[i].kind = "reply" /\ inbox'[i].callid = id
                /\ inbox'[i].body.kind \notin {"none", "nothing"}
                /\ body = inbox'[i].body
    <3>1. PICK i \in DOMAIN inbox' :
                /\ inbox'[i].kind = "reply" /\ inbox'[i].callid = id
                /\ inbox'[i].body.kind \notin {"none", "nothing"}
                /\ body = inbox'[i].body
      BY <2>2
    <3>2. CASE i + b \in DOMAIN inbox /\ inbox'[i] = inbox[i + b]
      <4>1. body \in OnTheWay(id)
        BY <3>1, <3>2, OnTheWayIs
      <4> QED BY <4>1
    <3>3. CASE /\ 1 \in DOMAIN asked
               /\ inbox'[i].callid = asked[1].callid
               /\ inbox'[i].body.kind = asked[1].body.kind
               /\ inbox'[i].body.user = asked[1].body.user
      <4>1. asked[1].body \in OnTheWay(id)
        BY <3>1, <3>3, OnTheWayIs
      <4> QED BY <3>1, <3>3, <4>1
    <3> QED BY <3>1, <3>2, <3>3
  <2> QED BY <1>5, <2>1, <2>2, OnTheWayIs
<1>6. ASSUME NEW id \in Nat \ {0}, id # n, Once(id)
      PROVE  Once(id)'
  <2>1. \A i, j \in DOMAIN asked' : asked'[i].callid = id /\ asked'[j].callid = id => i = j
    BY <1>2, <1>6 DEF Once
  <2>2. \A i, j \in DOMAIN inbox' : inbox'[i].callid = id /\ inbox'[j].callid = id => i = j
    <3>1. ASSUME NEW i \in DOMAIN inbox', inbox'[i].callid = id
          PROVE  \/ /\ i + b \in DOMAIN inbox
                    /\ inbox[i + b].callid = id
                 \/ /\ i = Len(inbox) - b + 1
                    /\ 1 \in DOMAIN asked
                    /\ asked[1].callid = id
      BY <1>6, <3>1
    <3>2. \A i \in DOMAIN inbox, j \in DOMAIN asked :
              ~(inbox[i].callid = id /\ asked[j].callid = id)
      BY <1>6 DEF Once
    <3>3. \A i, j \in DOMAIN inbox : inbox[i].callid = id /\ inbox[j].callid = id => i = j
      BY <1>6 DEF Once
    <3>4. \A i \in DOMAIN inbox' : i \in Nat
      OBVIOUS
    <3>5. ASSUME NEW i \in DOMAIN inbox', NEW j \in DOMAIN inbox',
                 inbox'[i].callid = id, inbox'[j].callid = id
          PROVE  i = j
      BY <1>2, <3>1, <3>2, <3>3, <3>4, <3>5
    <3> QED BY <3>5
  <2>3. ASSUME NEW i \in DOMAIN asked', NEW j \in DOMAIN inbox',
               asked'[i].callid = id, inbox'[j].callid = id
        PROVE  FALSE
    <3>1. i + a \in DOMAIN asked /\ asked[i + a].callid = id
      BY <1>6, <2>3
    <3>2. CASE j + b \in DOMAIN inbox /\ inbox'[j] = inbox[j + b]
      BY <1>6, <2>3, <3>1, <3>2 DEF Once
    <3>3. CASE a >= 1 /\ 1 \in DOMAIN asked /\ inbox'[j].callid = asked[1].callid
      <4>1. i + a = 1
        BY <1>6, <2>3, <3>1, <3>3 DEF Once
      <4> QED BY <3>3, <4>1
    <3> QED BY <2>3, <3>2, <3>3
  <2> QED BY <2>1, <2>2, <2>3 DEF Once
<1>7. n = callid => Once(n)'
  <2> SUFFICES ASSUME n = callid PROVE Once(n)'
    OBVIOUS
  <2>1. \A i, j \in DOMAIN asked' : asked'[i].callid = n /\ asked'[j].callid = n => i = j
    BY <1>1, <1>2
  <2>2. \A j \in DOMAIN inbox' : inbox'[j].callid # n
    BY <1>1
  <2> QED BY <2>1, <2>2 DEF Once
<1>8. \E x \in 0..Len(asked) : AskedFrom(x, n, kind, user)
  <2> SUFFICES AskedFrom(a, n, kind, user)
    OBVIOUS
  <2> QED OBVIOUS
<1> HIDE DEF AskedFrom, InboxFrom
<1> QED BY <1>3, <1>4, <1>5, <1>6, <1>7, <1>8 DEF Way

-----------------------------------------------------------------------------
(* The steps, by what they do to the channel. *)

Channel ==
    /\ callid \in Nat \ {0}
    /\ asked \in Seq(RequestType)
    /\ inbox \in Seq(MessageType)
    /\ \A i \in DOMAIN asked : asked[i].callid < callid
    /\ \A i \in DOMAIN inbox : inbox[i].callid < callid

ChannelTypes == asked' \in Seq(RequestType) /\ inbox' \in Seq(MessageType)

(* A message is taken, or none is. *)
Takes(b) ==
    \/ b = 0 /\ inbox' = inbox
    \/ b = 1 /\ inbox # <<>> /\ inbox' = Tail(inbox)

(* What is left once a message is taken.                                      *)
LEMMA TakesIs ==
    ASSUME Channel, NEW b \in {0, 1}, Takes(b)
    PROVE  /\ inbox' \in Seq(MessageType)
           /\ b \in 0..Len(inbox)
           /\ \A i \in DOMAIN inbox' :
                 i \in Nat \ {0} /\ i + b \in DOMAIN inbox /\ inbox'[i] = inbox[i + b]
<1>1. Len(inbox) \in Nat /\ DOMAIN inbox = 1..Len(inbox)
  BY LenProperties DEF Channel
<1>2. CASE b = 0 /\ inbox' = inbox
  BY <1>1, <1>2 DEF Channel
<1>3. CASE b = 1 /\ inbox # <<>> /\ inbox' = Tail(inbox)
  <2>1. PICK t : t = Tail(inbox)
    OBVIOUS
  <2>2. /\ t \in Seq(MessageType)
        /\ DOMAIN t = 1..(Len(inbox) - 1)
        /\ \A i \in 1..(Len(inbox) - 1) : t[i] = inbox[i + 1]
        /\ 1 \in DOMAIN inbox
    BY <1>3, <2>1, TailIs DEF Channel
  <2> QED BY <1>1, <1>3, <2>1, <2>2
<1> QED BY <1>2, <1>3 DEF Takes

(* A request is written, and perhaps a message taken. *)
LEMMA SentWay ==
    ASSUME Channel, NEW q \in RequestType, q.callid <= callid, Sends(q),
           NEW b \in {0, 1}, Takes(b)
    PROVE  Way(q.callid, q.body.kind, q.body.user) /\ ChannelTypes
<1>1. /\ inbox' \in Seq(MessageType)
      /\ b \in 0..Len(inbox)
      /\ \A i \in DOMAIN inbox' :
            i \in Nat \ {0} /\ i + b \in DOMAIN inbox /\ inbox'[i] = inbox[i + b]
  BY TakesIs
<1>2. q.callid \in Nat /\ q.callid < callid' /\ callid' \in Nat /\ callid <= callid'
  BY DEF RequestType, Channel, Sends
<1>3. Len(asked) \in Nat /\ DOMAIN asked = 1..Len(asked)
  BY LenProperties DEF Channel
<1>4. /\ asked' \in Seq(RequestType)
      /\ \A i \in DOMAIN asked' :
            /\ i \in Nat \ {0}
            /\ \/ i \in DOMAIN asked /\ asked'[i] = asked[i]
               \/ i = Len(asked) + 1 /\ asked'[i] = q
  <2>1. CASE line = "open"
    <3>1. PICK t : t = Append(asked, q)
      OBVIOUS
    <3>2. /\ t \in Seq(RequestType)
          /\ DOMAIN t = 1..(Len(asked) + 1)
          /\ \A i \in 1..Len(asked) : t[i] = asked[i]
          /\ t[Len(asked) + 1] = q
      BY <3>1, AppendIs DEF Channel
    <3>3. asked' = t
      BY <2>1, <3>1 DEF Sends
    <3> QED BY <1>3, <3>2, <3>3
  <2>2. CASE line # "open"
    BY <1>3, <2>2 DEF Sends, Channel
  <2> QED BY <2>1, <2>2
<1>5. Way(q.callid, q.body.kind, q.body.user)
  <2> DEFINE a == 0
  <2>1. a \in 0..Len(asked)
    BY <1>3
  <2>2. AskedFrom(a, q.callid, q.body.kind, q.body.user)
    BY <1>3, <1>4 DEF AskedFrom
  <2>3. InboxFrom(a, b)
    BY <1>1 DEF InboxFrom
  <2> HIDE DEF a
  <2> QED BY <1>1, <1>2, <2>1, <2>2, <2>3, WayIs DEF Channel
<1> QED BY <1>1, <1>4, <1>5 DEF ChannelTypes

(* Nothing is written: the queues lose what was first, if anything. *)
LEMMA QuietWay ==
    ASSUME Channel, callid' = callid, NEW a \in 0..Len(asked), NEW b \in 0..Len(inbox),
           asked' = SubSeq(asked, a + 1, Len(asked)), inbox' = SubSeq(inbox, b + 1, Len(inbox))
    PROVE  Way(0, "none", None) /\ ChannelTypes
<1>1. /\ Len(asked) \in Nat /\ DOMAIN asked = 1..Len(asked)
      /\ Len(inbox) \in Nat /\ DOMAIN inbox = 1..Len(inbox)
  BY LenProperties DEF Channel
<1>2. /\ asked' \in Seq(RequestType)
      /\ DOMAIN asked' = 1..(Len(asked) - a)
      /\ \A i \in 1..(Len(asked) - a) : asked'[i] = asked[i + a]
  <2>1. PICK t : t = SubSeq(asked, a + 1, Len(asked))
    OBVIOUS
  <2>2. /\ t \in Seq(RequestType)
        /\ DOMAIN t = 1..(Len(asked) - a)
        /\ \A i \in 1..(Len(asked) - a) : t[i] = asked[i + a]
    BY <2>1, DropFirst DEF Channel
  <2> QED BY <2>1, <2>2
<1>3. /\ inbox' \in Seq(MessageType)
      /\ DOMAIN inbox' = 1..(Len(inbox) - b)
      /\ \A i \in 1..(Len(inbox) - b) : inbox'[i] = inbox[i + b]
  <2>1. PICK t : t = SubSeq(inbox, b + 1, Len(inbox))
    OBVIOUS
  <2>2. /\ t \in Seq(MessageType)
        /\ DOMAIN t = 1..(Len(inbox) - b)
        /\ \A i \in 1..(Len(inbox) - b) : t[i] = inbox[i + b]
    BY <2>1, DropFirst DEF Channel
  <2> QED BY <2>1, <2>2
<1>4. Way(0, "none", None)
  <2> DEFINE n == 0
             kind == "none"
  <2>1. n \in Nat /\ n < callid' /\ callid' \in Nat /\ callid <= callid'
    BY DEF Channel
  <2>2. AskedFrom(a, n, kind, None)
    BY <1>1, <1>2 DEF AskedFrom
  <2>3. InboxFrom(a, b)
    BY <1>1, <1>3 DEF InboxFrom
  <2> HIDE DEF n, kind
  <2>4. Way(n, kind, None)
    BY <2>1, <2>2, <2>3, WayIs DEF Channel
  <2> QED BY <2>4 DEF n, kind
<1> QED BY <1>2, <1>3, <1>4 DEF ChannelTypes

(* The server puts a message behind: a notification, or the reply to the request *)
(* it has taken.                                                                 *)
LEMMA PutWay ==
    ASSUME Channel, callid' = callid, NEW a \in {0, 1}, NEW m \in MessageType,
           inbox' = Append(inbox, m),
           \/ a = 0 /\ asked' = asked /\ m.callid = 0
           \/ /\ a = 1 /\ asked # <<>> /\ asked' = Tail(asked) /\ m.callid = asked[1].callid
              /\ \/ m.body.kind \in {"none", "nothing"}
                 \/ m.body.kind = asked[1].body.kind /\ m.body.user = asked[1].body.user
    PROVE  Way(0, "none", None) /\ ChannelTypes
<1>1. /\ Len(asked) \in Nat /\ DOMAIN asked = 1..Len(asked)
      /\ Len(inbox) \in Nat /\ DOMAIN inbox = 1..Len(inbox)
  BY LenProperties DEF Channel
<1>2. /\ asked' \in Seq(RequestType)
      /\ a \in 0..Len(asked)
      /\ DOMAIN asked' = 1..(Len(asked) - a)
      /\ \A i \in 1..(Len(asked) - a) : asked'[i] = asked[i + a]
      /\ a = 1 => 1 \in DOMAIN asked
  <2>1. CASE a = 0 /\ asked' = asked
    BY <1>1, <2>1 DEF Channel
  <2>2. CASE a = 1 /\ asked # <<>> /\ asked' = Tail(asked)
    <3>1. PICK t : t = Tail(asked)
      OBVIOUS
    <3>2. /\ t \in Seq(RequestType)
          /\ DOMAIN t = 1..(Len(asked) - 1)
          /\ \A i \in 1..(Len(asked) - 1) : t[i] = asked[i + 1]
          /\ 1 \in DOMAIN asked
      BY <2>2, <3>1, TailIs DEF Channel
    <3> QED BY <1>1, <2>2, <3>1, <3>2
  <2> QED BY <2>1, <2>2
<1>3. /\ inbox' \in Seq(MessageType)
      /\ DOMAIN inbox' = 1..(Len(inbox) + 1)
      /\ \A i \in 1..Len(inbox) : inbox'[i] = inbox[i]
      /\ inbox'[Len(inbox) + 1] = m
  <2>1. PICK t : t = Append(inbox, m)
    OBVIOUS
  <2>2. /\ t \in Seq(MessageType)
        /\ DOMAIN t = 1..(Len(inbox) + 1)
        /\ \A i \in 1..Len(inbox) : t[i] = inbox[i]
        /\ t[Len(inbox) + 1] = m
    BY <2>1, AppendIs DEF Channel
  <2> QED BY <2>1, <2>2
<1>4. Way(0, "none", None)
  <2> DEFINE n == 0
             kind == "none"
             b == 0
  <2>1. /\ n \in Nat /\ n < callid' /\ callid' \in Nat /\ callid <= callid'
        /\ b \in 0..Len(inbox)
    BY <1>1 DEF Channel
  <2>2. AskedFrom(a, n, kind, None)
    BY <1>1, <1>2 DEF AskedFrom
  <2>3. InboxFrom(a, b)
    <3>1. ASSUME NEW i \in DOMAIN inbox'
          PROVE  /\ i \in Nat \ {0}
                 /\ \/ i \in DOMAIN inbox /\ inbox'[i] = inbox[i]
                    \/ i = Len(inbox) + 1 /\ inbox'[i] = m
      BY <1>1, <1>3
    <3>2. \/ m.callid = 0
          \/ /\ a >= 1 /\ 1 \in DOMAIN asked
             /\ m.callid = asked[1].callid
             /\ \/ m.body.kind \in {"none", "nothing"}
                \/ m.body.kind = asked[1].body.kind /\ m.body.user = asked[1].body.user
      BY <1>2
    <3> QED BY <1>1, <3>1, <3>2 DEF InboxFrom
  <2> HIDE DEF n, kind, b
  <2>4. Way(n, kind, None)
    BY <1>2, <2>1, <2>2, <2>3, WayIs DEF Channel
  <2> QED BY <2>4 DEF n, kind
<1> QED BY <1>2, <1>3, <1>4 DEF ChannelTypes

-----------------------------------------------------------------------------
(* The steps, by what they leave behind. *)

(* Under which id something was written: none; a new one; that of an invitation, *)
(* by a message or an acknowledgement of its group.                              *)
Ground(n, kind, user) ==
    \/ n = 0
    \/ n = callid /\ callid' = callid + 1
    \/ /\ kind \in {"message", "ack"}
       /\ \E r \in Remembered : r.id = n /\ r.kind = "invitation" /\ r.user = user

(* At most r is left behind that was not before, and only for what was asked. *)
Leaves(r, n, kind, user) ==
    /\ \A s \in Remembered' : s \in Remembered \/ s = r
    /\ r.id = 0 \/ (r.id = callid /\ n = callid /\ callid' = callid + 1 /\ Fits(r, kind, user))

(* An id that is remembered is not 0. *)
LEMMA RememberedId ==
    ASSUME PGTypes
    PROVE  \A r \in Remembered : r.id \in Nat \ {0}
<1>1. \A i \in DOMAIN pggroup : pggroup[i] \in GroupType
  BY ElementOfSeq, LenProperties DEF PGTypes
<1>2. ASSUME NEW i \in DOMAIN pggroup, NEW r \in LeftBy(pggroup[i])
      PROVE  r.id \in Nat
  <2>1. pggroup[i].getMembers \in Nat /\ pggroup[i].invite \in Nat
    BY <1>1 DEF GroupType
  <2>2. ASSUME NEW j \in DOMAIN pggroup[i].member
        PROVE  pggroup[i].member[j].getInfo \in Nat
    <3>1. pggroup[i].member \in Seq(MemberType)
      BY <1>1 DEF GroupType
    <3>2. pggroup[i].member[j] \in MemberType
      BY <2>2, <3>1, ElementOfSeq, LenProperties
    <3> QED BY <3>2 DEF MemberType
  <2> QED BY <1>2, <2>1, <2>2 DEF LeftBy, Left
<1>3. listCall \in Nat /\ infoCall \in Nat
  BY DEF PGTypes, TypeOK
<1> QED BY <1>2, <1>3 DEF Remembered, Left

(* What comes under an id that is left stays what was asked for under it.     *)
LEMMA RecognisesKept ==
    ASSUME PGTypes, IdsOld, Recognises, OnlyOnce,
           NEW n, NEW kind, NEW user, NEW r,
           Way(n, kind, user), Ground(n, kind, user), Leaves(r, n, kind, user)
    PROVE  IdsOld' /\ Recognises' /\ OnlyOnce'
<1>0. callid \in Nat \ {0} /\ callid' \in Nat /\ callid <= callid'
  BY DEF PGTypes, TypeOK, Way
<1>1. \A s \in Remembered : s.id \in Nat \ {0} /\ s.id < callid
  BY RememberedId DEF IdsOld
<1>2. \A s \in Remembered' : s.id # 0 /\ (s \in Remembered \/ (s = r /\ r.id = callid /\ n = callid
                                             /\ callid' = callid + 1 /\ Fits(r, kind, user)))
  <2>1. \A s \in Remembered' : s.id # 0
    BY DEF Remembered
  <2> QED BY <2>1 DEF Leaves
<1>3. \A s \in Remembered' : s.id < callid'
  BY <1>0, <1>1, <1>2
<1>4. ASSUME NEW s \in Remembered', NEW body \in OnTheWay(s.id)'
      PROVE  Fits(s, body.kind, body.user)
  <2>1. CASE s \in Remembered
    <3>1. CASE \E old \in OnTheWay(s.id) : old.kind = body.kind /\ old.user = body.user
      BY <2>1, <3>1 DEF Recognises
    <3>2. CASE s.id = n /\ body.kind = kind /\ body.user = user
      <4>1. /\ kind \in {"message", "ack"}
            /\ \E t \in Remembered : t.id = n /\ t.kind = "invitation" /\ t.user = user
        BY <1>0, <1>1, <2>1, <3>2 DEF Ground
      <4>2. s.kind = "invitation" /\ s.user = user
        BY <2>1, <3>2, <4>1 DEF Recognises
      <4> QED BY <3>2, <4>1, <4>2 DEF Fits
    <3>3. s.id \in Nat \ {0}
      BY <1>1, <2>1
    <3>4. PICK m : m = s.id
      OBVIOUS
    <3>5. body \in OnTheWay(m)' /\ m \in Nat \ {0}
      BY <1>4, <3>3, <3>4
    <3>6. \/ \E old \in OnTheWay(m) : old.kind = body.kind /\ old.user = body.user
          \/ m = n /\ body.kind = kind /\ body.user = user
      BY <3>5 DEF Way
    <3> QED BY <3>1, <3>2, <3>4, <3>6
  <2>2. CASE s = r /\ r.id = callid /\ n = callid /\ Fits(r, kind, user)
    <3>1. PICK m : m = s.id
      OBVIOUS
    <3>2. body \in OnTheWay(m)' /\ m \in Nat \ {0} /\ m = callid
      BY <1>0, <1>4, <2>2, <3>1
    <3>3. \/ \E old \in OnTheWay(m) : old.kind = body.kind /\ old.user = body.user
          \/ m = n /\ body.kind = kind /\ body.user = user
      BY <3>2 DEF Way
    <3>4. ~\E old : old \in OnTheWay(m)
      BY <1>0, <3>2, OnTheWayIs DEF IdsOld
    <3>5. body.kind = kind /\ body.user = user
      BY <3>3, <3>4
    <3> QED BY <2>2, <3>5
  <2> QED BY <1>2, <2>1, <2>2
<1>5. ASSUME NEW s \in Remembered', NEW t \in Remembered', t.id = s.id
      PROVE  t = s
  BY <1>1, <1>2, <1>5 DEF Recognises
<1>6. ASSUME NEW s \in Remembered', s.kind # "invitation"
      PROVE  Once(s.id)'
  <2>1. PICK m : m = s.id
    OBVIOUS
  <2>2. CASE s \in Remembered
    <3>1. Once(m) /\ m \in Nat \ {0}
      BY <1>1, <1>6, <2>1, <2>2 DEF OnlyOnce
    <3>2. m # n
      BY <1>0, <1>1, <1>6, <2>1, <2>2 DEF Ground, Recognises
    <3>3. Once(m)'
      BY <3>1, <3>2 DEF Way
    <3> QED BY <2>1, <3>3
  <2>3. CASE s = r /\ r.id = callid /\ n = callid
    <3>1. Once(n)'
      BY <2>3 DEF Way
    <3> QED BY <2>3, <3>1
  <2> QED BY <1>2, <2>2, <2>3
<1>7. IdsOld'
  BY <1>3 DEF IdsOld, Way
<1>8. Recognises'
  BY <1>4, <1>5 DEF Recognises
<1>9. OnlyOnce'
  BY <1>6 DEF OnlyOnce
<1> QED BY <1>7, <1>8, <1>9

-----------------------------------------------------------------------------
(* The groups. *)

(* A group of the list, and its members.                                      *)
LEMMA GroupsAre ==
    ASSUME PGTypes, NEW i \in DOMAIN pggroup
    PROVE  /\ pggroup[i] \in GroupType
           /\ pggroup[i].member \in Seq(MemberType)
           /\ DOMAIN pggroup[i].member = 1..Len(pggroup[i].member)
           /\ Len(pggroup[i].member) \in Nat
           /\ \A j \in DOMAIN pggroup[i].member : pggroup[i].member[j] \in MemberType
<1>1. pggroup[i] \in GroupType
  BY ElementOfSeq, LenProperties DEF PGTypes
<1>2. pggroup[i].member \in Seq(MemberType)
  BY <1>1 DEF GroupType
<1> QED BY <1>1, <1>2, ElementOfSeq, LenProperties

(* What a group has left is remembered.                                       *)
LEMMA LeftIs ==
    ASSUME NEW i \in DOMAIN pggroup
    PROVE  /\ pggroup[i].getMembers # 0 =>
                 Left(pggroup[i].getMembers, "members", pggroup[i].uri) \in Remembered
           /\ pggroup[i].invite # 0 =>
                 Left(pggroup[i].invite, "invitation", pggroup[i].uri) \in Remembered
           /\ \A j \in DOMAIN pggroup[i].member : pggroup[i].member[j].getInfo # 0 =>
                 Left(pggroup[i].member[j].getInfo, "contact", pggroup[i].member[j].uri)
                     \in Remembered
<1>1. \A r \in LeftBy(pggroup[i]) : r.id # 0 => r \in Remembered
  BY DEF Remembered
<1>2. \A id, kind, user : Left(id, kind, user).id = id
  BY DEF Left
<1> HIDE DEF Left, Remembered
<1>3. /\ Left(pggroup[i].getMembers, "members", pggroup[i].uri) \in LeftBy(pggroup[i])
      /\ Left(pggroup[i].invite, "invitation", pggroup[i].uri) \in LeftBy(pggroup[i])
      /\ \A j \in DOMAIN pggroup[i].member :
            Left(pggroup[i].member[j].getInfo, "contact", pggroup[i].member[j].uri)
                \in LeftBy(pggroup[i])
  BY DEF LeftBy
<1> QED BY <1>1, <1>2, <1>3

(* A group that is listed is found.                                           *)
LEMMA Found ==
    ASSUME PGTypes, NEW g \in Known
    PROVE  \E i \in DOMAIN pggroup : /\ pggroup[i].uri = g /\ At(g) = {i} /\ Of(g) = pggroup[i]
                                     /\ g \in Groups
<1>1. PICK i \in DOMAIN pggroup : pggroup[i].uri = g
  BY DEF Known
<1>2. At(g) = {i}
  BY <1>1 DEF At, PGTypes, TypeOK
<1>3. Of(g) = pggroup[i]
  BY <1>2 DEF Of
<1>4. g \in Groups
  BY DEF PGTypes, TypeOK
<1> QED BY <1>1, <1>2, <1>3, <1>4

(* A group is changed, the others are not.                                    *)
LEMMA Changed ==
    ASSUME PGTypes, NEW i \in DOMAIN pggroup, At(pggroup[i].uri) = {i},
           NEW x \in GroupType, x.uri = pggroup[i].uri, pggroup' = Change(pggroup[i].uri, x)
    PROVE  /\ pggroup' \in Seq(GroupType)
           /\ DOMAIN pggroup' = DOMAIN pggroup
           /\ pggroup'[i] = x
           /\ \A j \in DOMAIN pggroup : j # i => pggroup'[j] = pggroup[j]
           /\ \A j \in DOMAIN pggroup : pggroup'[j].uri = pggroup[j].uri
<1>1. PICK n \in Nat : n = Len(pggroup) /\ DOMAIN pggroup = 1..n
  BY LenProperties DEF PGTypes
<1>2. pggroup' = [j \in 1..n |-> IF j = i THEN x ELSE pggroup[j]]
  BY <1>1 DEF Change
<1>3. \A j \in 1..n : pggroup[j] \in GroupType
  BY <1>1, ElementOfSeq DEF PGTypes
<1>4. pggroup' \in [1..n -> GroupType]
  BY <1>2, <1>3
<1>5. pggroup' \in Seq(GroupType)
  BY <1>4
<1> QED BY <1>1, <1>2, <1>5

(* The list keeps its groups: what is known of it by their names stays.       *)
SameGroups ==
    /\ pggroup' \in Seq(GroupType)
    /\ DOMAIN pggroup' = DOMAIN pggroup
    /\ \A i \in DOMAIN pggroup : pggroup'[i].uri = pggroup[i].uri

(* Then the same groups are listed, each in its place.                        *)
LEMMA SameGroupsKeep ==
    ASSUME PGTypes, SameGroups
    PROVE  /\ Known' = Known
           /\ \A i, j \in DOMAIN pggroup' : pggroup'[i].uri = pggroup'[j].uri => i = j
           /\ \A i \in DOMAIN pggroup : \A g : g = pggroup[i].uri => Of(g)' = pggroup'[i]
<1>1. Known' = Known
  BY DEF Known, SameGroups
<1>2. \A i, j \in DOMAIN pggroup' : pggroup'[i].uri = pggroup'[j].uri => i = j
  BY DEF PGTypes, TypeOK, SameGroups
<1>3. ASSUME NEW i \in DOMAIN pggroup, NEW g, g = pggroup[i].uri
      PROVE  Of(g)' = pggroup'[i]
  <2>1. {j \in DOMAIN pggroup' : pggroup'[j].uri = g} = {i}
    BY <1>2, <1>3 DEF SameGroups
  <2>2. Of(g)' = pggroup'[CHOOSE k \in {j \in DOMAIN pggroup' : pggroup'[j].uri = g} : TRUE]
    BY DEF Of, At
  <2> QED BY <2>1, <2>2
<1> QED BY <1>1, <1>2, <1>3

(* What a changed group leaves behind.                                        *)
LEMMA LeavesBy ==
    ASSUME PGTypes, SameGroups, listCall' = listCall, infoCall' = infoCall, NEW r,
           \A i \in DOMAIN pggroup : \A s \in LeftBy(pggroup'[i]) :
              s.id = 0 \/ s \in LeftBy(pggroup[i]) \/ s = r
    PROVE  \A s \in Remembered' : s \in Remembered \/ s = r
<1> SUFFICES ASSUME NEW s \in Remembered' PROVE s \in Remembered \/ s = r
  OBVIOUS
<1>1. s.id # 0
  BY DEF Remembered
<1>2. CASE s \in {Left(listCall, "groups", None), Left(infoCall, "info", None)}
  BY <1>1, <1>2 DEF Remembered
<1>3. CASE \E i \in DOMAIN pggroup : s \in LeftBy(pggroup'[i])
  <2>1. PICK i \in DOMAIN pggroup : s \in LeftBy(pggroup'[i])
    BY <1>3
  <2>2. s \in LeftBy(pggroup[i]) \/ s = r
    BY <1>1, <2>1
  <2> QED BY <1>1, <2>2 DEF Remembered
<1>4. s \in UNION {LeftBy(pggroup'[i]) : i \in DOMAIN pggroup'} =>
        \E i \in DOMAIN pggroup : s \in LeftBy(pggroup'[i])
  BY DEF SameGroups
<1>5. \/ s \in {Left(listCall, "groups", None), Left(infoCall, "info", None)}
      \/ s \in UNION {LeftBy(pggroup'[i]) : i \in DOMAIN pggroup'}
  BY DEF Remembered
<1> QED BY <1>2, <1>3, <1>4, <1>5

(* As before, but for what is only shown, kept or left for an invitation.     *)
Alike(pg, x) ==
    /\ x \in GroupType
    /\ x.uri = pg.uri /\ x.asked = pg.asked /\ x.getMembers = pg.getMembers
    /\ x.hasDetails = pg.hasDetails
    /\ Len(x.member) = Len(pg.member)
    /\ \A j \in DOMAIN pg.member :
          /\ x.member[j].uri = pg.member[j].uri
          /\ x.member[j].getInfo = pg.member[j].getInfo
          /\ x.member[j].contact \in {None, pg.member[j].uri}

(* Nothing new comes under the id left for the members of a group.            *)
LEMMA MembersQuiet ==
    ASSUME PGTypes, IdsOld, Recognises, NEW i \in DOMAIN pggroup,
           NEW n, NEW kind, NEW user, Way(n, kind, user), Ground(n, kind, user),
           NEW m, m = pggroup[i].getMembers, m # 0, OnTheWay(m) = {}
    PROVE  OnTheWay(m)' = {}
<1>2. PICK l : l = Left(m, "members", pggroup[i].uri)
  OBVIOUS
<1>3. l \in Remembered /\ l.id = m /\ l.kind = "members"
  BY <1>2, LeftIs DEF Left
<1>4. m \in Nat \ {0} /\ m < callid /\ callid \in Nat
  BY <1>3, RememberedId DEF IdsOld, PGTypes, TypeOK
<1>5. m # n
  BY <1>3, <1>4 DEF Ground, Recognises
<1>6. OnTheWay(m)' = {}
  <2>1. \A old : old \notin OnTheWay(m)
    OBVIOUS
  <2>2. \A body : body \notin OnTheWay(m)'
    BY <1>4, <1>5, <2>1 DEF Way
  <2> QED BY <2>2
<1> QED BY <1>6

(* The members are the same, and were asked for as often.                     *)
Resembles(pg, x) ==
    /\ x \in GroupType
    /\ x.uri = pg.uri /\ x.asked = pg.asked /\ x.getMembers = pg.getMembers
    /\ Len(x.member) = Len(pg.member)
    /\ \A j \in DOMAIN pg.member :
          /\ x.member[j].uri = pg.member[j].uri
          /\ x.member[j].contact \in {None, pg.member[j].uri}

(* Nothing comes for the members of such a group that did not come before.    *)
LEMMA ResemblesKept ==
    ASSUME PGTypes, IdsOld, Recognises, NEW i \in DOMAIN pggroup,
           NEW n, NEW kind, NEW user, Way(n, kind, user), Ground(n, kind, user),
           NEW x, Resembles(pggroup[i], x), x.hasDetails => pggroup[i].member # <<>>,
           MembersOk(pggroup[i])
    PROVE  MembersOk(x)'
<1>1. PICK pg : pg = pggroup[i]
  OBVIOUS
<1>2. pg.member \in Seq(MemberType) /\ x.member \in Seq(MemberType)
  BY <1>1, GroupsAre DEF Resembles, GroupType
<1>3. DOMAIN x.member = DOMAIN pg.member
  BY <1>1, <1>2, LenProperties DEF Resembles
<1>4. x.member = <<>> <=> pg.member = <<>>
  BY <1>1, <1>2, EmptySeq, LenProperties DEF Resembles
<1>5. MembersOk(pg)
  BY <1>1
<1>6. x.asked <= 1 /\ x.member # <<>> => OnTheWay(x.getMembers)' = {}
  <2> SUFFICES ASSUME x.asked <= 1, x.member # <<>> PROVE OnTheWay(x.getMembers)' = {}
    OBVIOUS
  <2>1. PICK m : m = x.getMembers
    OBVIOUS
  <2>2. m = pggroup[i].getMembers /\ m # 0 /\ OnTheWay(m) = {}
    BY <1>1, <1>4, <1>5, <2>1 DEF MembersOk, Resembles
  <2>3. OnTheWay(m)' = {}
    BY <2>2, MembersQuiet
  <2> QED BY <2>1, <2>3
<1>7. \A j, k \in DOMAIN x.member :
         pg.asked <= 1 /\ x.member[j].uri = x.member[k].uri => j = k
  BY <1>1, <1>3, <1>5 DEF MembersOk, Resembles
<1>8. \A j \in DOMAIN x.member :
          /\ x.member[j].uri \in ToSet(Members[x.uri])
          /\ x.member[j].contact \in {None, x.member[j].uri}
  BY <1>1, <1>3, <1>5 DEF MembersOk, Resembles
<1>9. /\ x.asked = 0 => x.member = <<>>
      /\ x.asked = 0 <=> x.getMembers = 0
      /\ x.hasDetails => x.member # <<>>
      /\ x.asked = pg.asked
  BY <1>1, <1>4, <1>5 DEF MembersOk, Resembles
<1> QED BY <1>6, <1>7, <1>8, <1>9 DEF MembersOk

(* A group that changes in nothing that matters here.                         *)
LEMMA AlikeKept ==
    ASSUME PGTypes, IdsOld, Recognises, NEW i \in DOMAIN pggroup,
           NEW n, NEW kind, NEW user, Way(n, kind, user), Ground(n, kind, user),
           NEW x, Alike(pggroup[i], x), MembersOk(pggroup[i])
    PROVE  MembersOk(x)'
<1>1. Resembles(pggroup[i], x)
  BY DEF Alike, Resembles
<1>2. x.hasDetails => pggroup[i].member # <<>>
  BY DEF Alike, MembersOk
<1> QED BY <1>1, <1>2, ResemblesKept

(* Where the walk has not been, it comes, as before.                          *)
LEMMA AlikeDetails ==
    ASSUME PGTypes, NEW i \in DOMAIN pggroup, NEW x, Alike(pggroup[i], x), DetailsOk(pggroup[i]),
           line' # "reset" => line # "reset",
           \A j : Walking(pggroup[i], j) => Walking(x, j)'
    PROVE  DetailsOk(x)'
<1>1. PICK pg : pg = pggroup[i]
  OBVIOUS
<1>2. pg.member \in Seq(MemberType) /\ x.member \in Seq(MemberType)
  BY <1>1, GroupsAre DEF Alike, GroupType
<1>3. DOMAIN x.member = DOMAIN pg.member
  BY <1>1, <1>2, LenProperties DEF Alike
<1>4. DetailsOk(pg) /\ (\A j : Walking(pg, j) => Walking(x, j)')
  BY <1>1
<1> QED BY <1>1, <1>3, <1>4 DEF DetailsOk, Alike

(* A group that is as it was.                                                 *)
LEMMA SameIsAlike ==
    ASSUME PGTypes, GroupsOk, NEW i \in DOMAIN pggroup
    PROVE  Alike(pggroup[i], pggroup[i])
<1>1. \A j \in DOMAIN pggroup[i].member :
         pggroup[i].member[j].contact \in {None, pggroup[i].member[j].uri}
  BY DEF GroupsOk, MembersOk
<1> QED BY <1>1, GroupsAre DEF Alike

(* Every group is as it was or alike, and no walk begins, goes on or ends.    *)
LEMMA AllAlike ==
    ASSUME PGInv, NEW n, NEW kind, NEW user, Way(n, kind, user), Ground(n, kind, user),
           SameGroups, \A i \in DOMAIN pggroup : Alike(pggroup[i], pggroup'[i]),
           walk' = walk, line' # "reset" => line # "reset"
    PROVE  GroupsOk'
<1>1. PGTypes /\ IdsOld /\ Recognises
  BY DEF PGInv
<1>2. ASSUME NEW i \in DOMAIN pggroup, NEW x, x = pggroup'[i]
      PROVE  MembersOk(x)' /\ DetailsOk(x)'
  <2>1. Alike(pggroup[i], x)
    BY <1>2
  <2>2. MembersOk(pggroup[i]) /\ DetailsOk(pggroup[i])
    BY DEF PGInv, GroupsOk
  <2>3. MembersOk(x)'
    BY <1>1, <2>1, <2>2, AlikeKept
  <2>4. \A j : Walking(pggroup[i], j) => Walking(x, j)'
    BY <2>1 DEF Walking, Alike
  <2>5. DetailsOk(x)'
    BY <1>1, <2>1, <2>2, <2>4, AlikeDetails
  <2> QED BY <2>3, <2>5
<1>3. \A i \in DOMAIN pggroup' : (MembersOk(pggroup[i]) /\ DetailsOk(pggroup[i]))'
  <2> SUFFICES ASSUME NEW i \in DOMAIN pggroup' PROVE (MembersOk(pggroup[i]) /\ DetailsOk(pggroup[i]))'
    OBVIOUS
  <2>1. PICK x : x = pggroup'[i]
    OBVIOUS
  <2>2. MembersOk(x)' /\ DetailsOk(x)'
    BY <1>2, <2>1 DEF SameGroups
  <2> QED BY <2>1, <2>2
<1> QED BY <1>3 DEF GroupsOk

(* One group is changed, the others are as they were.                         *)
LEMMA OneChanged ==
    ASSUME PGInv, NEW n, NEW kind, NEW user, Way(n, kind, user), Ground(n, kind, user),
           NEW i \in DOMAIN pggroup, SameGroups,
           \A j \in DOMAIN pggroup : j # i => pggroup'[j] = pggroup[j],
           NEW x, x = pggroup'[i], MembersOk(x)', DetailsOk(x)',
           \A pg, j : pg.uri # x.uri /\ Walking(pg, j) => Walking(pg, j)',
           line' # "reset" => line # "reset"
    PROVE  GroupsOk'
<1>1. PGTypes /\ IdsOld /\ Recognises /\ GroupsOk
  BY DEF PGInv
<1>2. ASSUME NEW k \in DOMAIN pggroup, k # i, NEW y, y = pggroup[k]
      PROVE  MembersOk(y)' /\ DetailsOk(y)'
  <2>1. Alike(pggroup[k], y)
    BY <1>1, <1>2, SameIsAlike
  <2>2. MembersOk(pggroup[k]) /\ DetailsOk(pggroup[k])
    BY <1>1 DEF GroupsOk
  <2>3. MembersOk(y)'
    BY <1>1, <2>1, <2>2, AlikeKept
  <2>4. y.uri # x.uri
    BY <1>1, <1>2 DEF PGTypes, TypeOK, SameGroups
  <2>5. \A j : Walking(pggroup[k], j) => Walking(y, j)'
    BY <1>2, <2>4
  <2>6. DetailsOk(y)'
    BY <1>1, <2>1, <2>2, <2>5, AlikeDetails
  <2> QED BY <2>3, <2>6
<1>3. \A k \in DOMAIN pggroup' : (MembersOk(pggroup[k]) /\ DetailsOk(pggroup[k]))'
  <2> SUFFICES ASSUME NEW k \in DOMAIN pggroup' PROVE (MembersOk(pggroup[k]) /\ DetailsOk(pggroup[k]))'
    OBVIOUS
  <2>1. PICK y : y = pggroup'[k]
    OBVIOUS
  <2>2. MembersOk(y)' /\ DetailsOk(y)'
    <3>1. CASE k = i
      BY <2>1, <3>1
    <3>2. CASE k # i
      BY <1>2, <2>1, <3>2 DEF SameGroups
    <3> QED BY <3>1, <3>2
  <2> QED BY <2>1, <2>2
<1> QED BY <1>3 DEF GroupsOk

-----------------------------------------------------------------------------
(* The invariant, from what a step does to its parts. *)

(* The parts of the invariant, by name.                                       *)
LEMMA ChannelOk ==
    ASSUME PGInv
    PROVE  /\ Channel /\ PGTypes /\ IdsOld /\ Recognises /\ OnlyOnce
           /\ GroupsOk /\ sip \in SipType /\ TypeOK /\ callid \in Nat \ {0}
  BY DEF PGInv, PGTypes, TypeOK, IdsOld, Channel, SipType

(* Where the walk stands, in the groups that follow.                          *)
WalkFine ==
    /\ walk' \in {None} \cup WalkType
    /\ walk' # None => \E i \in DOMAIN pggroup : /\ pggroup[i].uri = walk'.group
                                                 /\ walk'.at \in DOMAIN pggroup'[i].member

ServerFine == news' \in 0..MaxNews /\ joined' \in Seq(Groups) /\ Distinct(joined')

Counted ==
    /\ listCall' \in 0..(callid' - 1) /\ infoCall' \in 0..(callid' - 1)
    /\ made' \in 0..MaxCalls
    /\ ServerFine

(* A step that keeps its parts keeps the invariant.                           *)
LEMMA StepKept ==
    ASSUME PGInv, NEW n, NEW kind, NEW user, NEW r,
           Way(n, kind, user), Ground(n, kind, user), Leaves(r, n, kind, user),
           ChannelTypes, sip' \in SipType, SameGroups, GroupsOk', WalkFine, Counted
    PROVE  PGInv'
<1>1. PGTypes /\ IdsOld /\ Recognises /\ OnlyOnce /\ callid \in Nat \ {0}
  BY ChannelOk
<1>2. IdsOld' /\ Recognises' /\ OnlyOnce'
  BY <1>1, RecognisesKept
<1>4. /\ Known' = Known
      /\ \A i, j \in DOMAIN pggroup' : pggroup'[i].uri = pggroup'[j].uri => i = j
      /\ \A i \in DOMAIN pggroup : \A g : g = pggroup[i].uri => Of(g)' = pggroup'[i]
  BY <1>1, SameGroupsKeep
<1>5. (walk # None => walk.group \in Known /\ walk.at \in DOMAIN Of(walk.group).member)'
  <2> SUFFICES ASSUME walk' # None
               PROVE  (walk.group \in Known /\ walk.at \in DOMAIN Of(walk.group).member)'
    OBVIOUS
  <2>1. PICK i \in DOMAIN pggroup : /\ pggroup[i].uri = walk'.group
                                    /\ walk'.at \in DOMAIN pggroup'[i].member
    BY DEF WalkFine
  <2>2. walk'.group \in Known'
    BY <1>4, <2>1 DEF Known
  <2>3. PICK g : g = pggroup[i].uri
    OBVIOUS
  <2>4. Of(g)' = pggroup'[i]
    BY <1>4, <2>3
  <2>5. Of(g)' = Of(walk.group)'
    BY <2>1, <2>3
  <2> QED BY <2>1, <2>2, <2>4, <2>5
<1>6. callid' \in Nat \ {0}
  BY <1>1 DEF Way
<1>7. Known' \subseteq Groups
  BY <1>1, <1>4 DEF PGTypes, TypeOK
<1>8. TypeOK'
  BY <1>4, <1>5, <1>6, <1>7 DEF TypeOK, Counted, ServerFine
<1>9. PGTypes'
  BY <1>8 DEF PGTypes, ChannelTypes, SipType, SameGroups, WalkFine, Counted, ServerFine
<1> QED BY <1>2, <1>9 DEF PGInv

(* A walk that stands still.                                                  *)
LEMMA WalkStill ==
    ASSUME PGTypes, SameGroups, walk' = walk,
           \A i \in DOMAIN pggroup : walk # None =>
              DOMAIN pggroup'[i].member = DOMAIN pggroup[i].member
    PROVE  WalkFine
<1>1. walk \in {None} \cup WalkType
  BY DEF PGTypes
<1>2. walk # None => walk.group \in Known /\ walk.at \in DOMAIN Of(walk.group).member
  BY DEF PGTypes, TypeOK
<1>3. walk # None => \E i \in DOMAIN pggroup : /\ pggroup[i].uri = walk.group
                                               /\ walk.at \in DOMAIN pggroup'[i].member
  BY <1>2, Found
<1> QED BY <1>1, <1>3 DEF WalkFine

(* Steps that change no group in what matters here.                           *)
LEMMA PlainStep ==
    ASSUME PGInv, NEW n, NEW kind, NEW user, NEW r,
           Way(n, kind, user), Ground(n, kind, user), Leaves(r, n, kind, user),
           ChannelTypes, sip' \in SipType, SameGroups,
           \A i \in DOMAIN pggroup : Alike(pggroup[i], pggroup'[i]),
           walk' = walk, line' # "reset" => line # "reset", Counted
    PROVE  PGInv'
<1>1. PGTypes
  BY ChannelOk
<1>2. GroupsOk'
  BY AllAlike
<1>3. \A i \in DOMAIN pggroup : DOMAIN pggroup'[i].member = DOMAIN pggroup[i].member
  <2> SUFFICES ASSUME NEW i \in DOMAIN pggroup
               PROVE  DOMAIN pggroup'[i].member = DOMAIN pggroup[i].member
    OBVIOUS
  <2>1. pggroup'[i].member \in Seq(MemberType) /\ Len(pggroup'[i].member) = Len(pggroup[i].member)
    BY DEF Alike, GroupType
  <2> QED BY <1>1, <2>1, GroupsAre, LenProperties
<1>4. WalkFine
  BY <1>1, <1>3, WalkStill
<1> QED BY <1>2, <1>4, StepKept

(* Nothing of the groups changes.                                             *)
LEMMA GroupsStill ==
    ASSUME PGInv, pggroup' = pggroup
    PROVE  /\ SameGroups
           /\ \A i \in DOMAIN pggroup : Alike(pggroup[i], pggroup'[i])
           /\ \A r : listCall' = listCall /\ infoCall' = infoCall =>
                 \A s \in Remembered' : s \in Remembered \/ s = r
<1>1. PGTypes /\ GroupsOk
  BY ChannelOk
<1>2. SameGroups
  BY <1>1 DEF SameGroups, PGTypes
<1>3. \A i \in DOMAIN pggroup : Alike(pggroup[i], pggroup'[i])
  BY <1>1, SameIsAlike
<1>4. ASSUME listCall' = listCall, infoCall' = infoCall
      PROVE  Remembered' = Remembered
  BY <1>4 DEF Remembered
<1> QED BY <1>2, <1>3, <1>4

-----------------------------------------------------------------------------
(* The server. *)

(* A sequence over one set is one over a larger set.                          *)
LEMMA SeqLarger ==
    ASSUME NEW S, NEW T, NEW s \in Seq(S), S \subseteq T
    PROVE  s \in Seq(T)
<1>1. Len(s) \in Nat /\ \A i \in 1..Len(s) : s[i] \in T
  BY LenProperties, ElementOfSeq
<1>2. s = [i \in 1..Len(s) |-> s[i]]
  BY LenProperties
<1>3. PICK n \in Nat : n = Len(s)
  BY <1>1
<1>4. [i \in 1..n |-> s[i]] \in [1..n -> T]
  BY <1>1, <1>3
<1>5. [i \in 1..n |-> s[i]] \in Seq(T)
  BY <1>4
<1> QED BY <1>2, <1>3, <1>5

(* The result of a request is about what was asked.                           *)
LEMMA ResultIs ==
    ASSUME PGTypes, NEW q \in RequestType, NEW body, body = ResultBody(q)
    PROVE  /\ body \in Bodies
           /\ body.kind = "none" \/ (body.kind = q.body.kind /\ body.user = q.body.user)
           /\ body.kind # "nothing"
           /\ body.kind = "groups" => body.ids \in Seq(Groups) /\ Distinct(body.ids)
           /\ body.kind = "members" => body.ids = Members[body.user]
           /\ body.kind = "none" => body.ids = <<>>
<1>1. q.body \in Bodies
  BY DEF RequestType
<1>2. CASE q.body.kind = "groups"
  <2>1. joined \in Seq(Groups) /\ Distinct(joined)
    BY DEF PGTypes
  <2>2. joined \in Seq(Groups \cup Users)
    BY <2>1, SeqLarger
  <2>3. body = [kind |-> "groups", user |-> None, ids |-> joined] /\ q.body.user = None
    BY <1>1, <1>2 DEF ResultBody, Body, Bodies
  <2>4. body \in Bodies
    BY <2>2, <2>3 DEF Bodies, BodyKinds, AboutGroup
  <2> QED BY <1>2, <2>1, <2>3, <2>4
<1>3. CASE q.body.kind = "members"
  <2>1. q.body.user \in Groups
    BY <1>1, <1>3 DEF Bodies, AboutGroup
  <2>2. Members[q.body.user] \in Seq(Users)
    BY <2>1, PGAssumption
  <2>3. Members[q.body.user] \in Seq(Groups \cup Users)
    BY <2>2, SeqLarger
  <2>4. body = [kind |-> "members", user |-> q.body.user, ids |-> Members[q.body.user]]
    BY <1>3 DEF ResultBody, Body
  <2>5. body \in Bodies
    BY <2>1, <2>3, <2>4 DEF Bodies, BodyKinds, AboutGroup
  <2> QED BY <1>3, <2>4, <2>5
<1>4. CASE q.body.kind \in {"info", "contact"}
  <2>1. body = q.body
    BY <1>4 DEF ResultBody
  <2> QED BY <1>1, <1>4, <2>1
<1>5. CASE q.body.kind \notin {"groups", "members", "info", "contact"}
  <2>1. body = [kind |-> "none", user |-> None, ids |-> <<>>]
    BY <1>5 DEF ResultBody, NoBody, Body
  <2>2. <<>> \in Seq(Groups \cup Users)
    BY EmptySeq
  <2>3. body \in Bodies
    BY <2>1, <2>2 DEF Bodies, BodyKinds, AboutGroup
  <2> QED BY <2>1, <2>3
<1> QED BY <1>2, <1>3, <1>4, <1>5

(* A reply with such a body, a refusal, and an answer with nothing in it.     *)
LEMMA ReplyIs ==
    ASSUME PGTypes, NEW q \in RequestType, NEW code \in Nat, NEW body,
           body \in {ResultBody(q), NoBody, Body("nothing", None, <<>>)},
           NEW m, m = Reply(q, code, body)
    PROVE  /\ m \in MessageType /\ m.callid = q.callid
           /\ \/ m.body.kind \in {"none", "nothing"}
              \/ m.body.kind = q.body.kind /\ m.body.user = q.body.user
<1>1. q.callid \in Nat
  BY DEF RequestType
<1>2. /\ body \in Bodies
      /\ body.kind \in {"none", "nothing"} \/ (body.kind = q.body.kind /\ body.user = q.body.user)
      /\ body.kind = "groups" => body.ids \in Seq(Groups) /\ Distinct(body.ids)
      /\ body.kind = "members" => body.ids = Members[body.user]
      /\ body.kind \in {"none", "nothing"} => body.ids = <<>>
  <2>1. CASE body = ResultBody(q)
    BY <2>1, ResultIs
  <2>2. CASE body \in {NoBody, Body("nothing", None, <<>>)}
    <3>1. PICK ids \in Seq(Groups \cup Users) : ids = <<>>
      BY EmptySeq
    <3>2. PICK kind \in {"none", "nothing"} : body = [kind |-> kind, user |-> None, ids |-> ids]
      BY <2>2, <3>1 DEF NoBody, Body
    <3>3. body \in Bodies
      BY <3>2 DEF Bodies, BodyKinds, AboutGroup
    <3> QED BY <3>1, <3>2, <3>3
  <2> QED BY <2>1, <2>2
<1>3. m = [kind |-> "reply", callid |-> q.callid, code |-> code, body |-> body]
  BY DEF Reply
<1>4. m \in [kind : {"reply", "notification"}, callid : Nat, code : Nat, body : Bodies]
  BY <1>1, <1>2, <1>3
<1>5. m.kind = "reply" /\ m.body = body /\ m.callid = q.callid
  BY <1>3
<1>6. /\ m.kind # "notification"
      /\ m.body.kind = "groups" => m.body.ids \in Seq(Groups) /\ Distinct(m.body.ids)
      /\ m.body.kind \in {"none", "nothing"} => m.body.ids = <<>>
      /\ m.body.kind = "members" => m.body.ids = Members[m.body.user]
  BY <1>2, <1>5
<1>7. m \in MessageType
  BY <1>4, <1>6 DEF MessageType
<1> QED BY <1>2, <1>5, <1>7

(* An interval that grows.                                                    *)
LEMMA Below ==
    ASSUME NEW a \in Nat, NEW b \in Nat, a <= b
    PROVE  \A x \in 0..(a - 1) : x \in 0..(b - 1)
  OBVIOUS

(* What is left of what stays.                                                *)
LEMMA CountedStill ==
    ASSUME PGInv, callid <= callid', callid' \in Nat, UNCHANGED <<listCall, infoCall, made>>,
           ServerFine
    PROVE  Counted
<1>1. /\ listCall \in 0..(callid - 1) /\ infoCall \in 0..(callid - 1) /\ callid \in Nat \ {0}
      /\ made \in 0..MaxCalls
  BY ChannelOk DEF TypeOK
<1>3. \A x \in 0..(callid - 1) : x \in 0..(callid' - 1)
  <2>1. callid \in Nat
    BY <1>1
  <2> QED BY <2>1, Below
<1>2. listCall' \in 0..(callid' - 1) /\ infoCall' \in 0..(callid' - 1)
  BY <1>1, <1>3
<1> QED BY <1>1, <1>2 DEF Counted

(* What the server does is no matter to the groups.                           *)
LEMMA ServerKeeps ==
    ASSUME PGInv, Way(0, "none", None), ChannelTypes, sip' = sip, ServerUnchanged,
           line' # "reset" => line # "reset", ServerFine
    PROVE  PGInv'
<1> DEFINE n == 0
           kind == "none"
<1>1. PICK r : r = Left(0, "none", None)
  OBVIOUS
<1>2. pggroup' = pggroup /\ walk' = walk /\ UNCHANGED <<listCall, infoCall, made>>
  BY DEF ServerUnchanged
<1>3. /\ SameGroups
      /\ \A i \in DOMAIN pggroup : Alike(pggroup[i], pggroup'[i])
      /\ \A s \in Remembered' : s \in Remembered \/ s = r
  BY <1>2, GroupsStill
<1>4. Leaves(r, n, kind, None) /\ Ground(n, kind, None)
  BY <1>1, <1>3 DEF Leaves, Ground, Left
<1>5. Way(n, kind, None)
  OBVIOUS
<1>6. Counted
  BY <1>2, CountedStill DEF Way
<1>7. sip' \in SipType
  BY ChannelOk
<1> HIDE DEF n, kind
<1>8. PICK user : user = None
  OBVIOUS
<1> QED BY <1>2, <1>3, <1>4, <1>5, <1>6, <1>7, <1>8, PlainStep

(* The server's steps.                                                        *)
LEMMA ServerSteps ==
    ASSUME PGInv, Server
    PROVE  PGInv'
<1>1. /\ Channel /\ PGTypes /\ callid \in Nat /\ news \in 0..MaxNews
      /\ joined \in Seq(Groups) /\ Distinct(joined)
  BY ChannelOk DEF PGTypes, TypeOK
<1>2. /\ Len(asked) \in Nat /\ DOMAIN asked = 1..Len(asked) /\ Len(inbox) \in Nat
      /\ asked # <<>> => 1 \in DOMAIN asked /\ asked[1] \in RequestType /\ Head(asked) = asked[1]
                         /\ Tail(asked) = SubSeq(asked, 2, Len(asked)) /\ Len(asked) >= 1
  <2>1. asked \in Seq(RequestType) /\ inbox \in Seq(MessageType)
    BY <1>1 DEF Channel
  <2>2. Len(asked) \in Nat /\ DOMAIN asked = 1..Len(asked) /\ Len(inbox) \in Nat
    BY <2>1, LenProperties
  <2> SUFFICES ASSUME asked # <<>>
               PROVE  /\ 1 \in DOMAIN asked /\ asked[1] \in RequestType /\ Head(asked) = asked[1]
                      /\ Tail(asked) = SubSeq(asked, 2, Len(asked)) /\ Len(asked) >= 1
    BY <2>2
  <2>3. Len(asked) # 0
    BY <2>1, EmptySeq
  <2>4. 1 \in 1..Len(asked)
    BY <2>2, <2>3
  <2>5. asked[1] \in RequestType
    BY <2>1, <2>4, ElementOfSeq
  <2>6. Head(asked) = asked[1] /\ Tail(asked) = SubSeq(asked, 2, Len(asked))
    BY <2>1, <2>2
  <2> QED BY <2>2, <2>4, <2>5, <2>6
<1>3. /\ SubSeq(asked, 0 + 1, Len(asked)) = asked /\ SubSeq(inbox, 0 + 1, Len(inbox)) = inbox
      /\ SubSeq(asked, Len(asked) + 1, Len(asked)) = <<>>
      /\ SubSeq(inbox, Len(inbox) + 1, Len(inbox)) = <<>>
  BY <1>1, <1>2 DEF Channel
<1>4. ASSUME NEW code \in Nat, NEW body \in {ResultBody(asked[1]), NoBody, Body("nothing", None, <<>>)},
             Answer(code, body)
      PROVE  Way(0, "none", None) /\ ChannelTypes
  <2>1. PICK m : m = Reply(asked[1], code, body)
    OBVIOUS
  <2>2. asked # <<>> /\ asked[1] \in RequestType
    BY <1>2, <1>4 DEF Answer
  <2>3. /\ m \in MessageType /\ m.callid = asked[1].callid
        /\ \/ m.body.kind \in {"none", "nothing"}
           \/ m.body.kind = asked[1].body.kind /\ m.body.user = asked[1].body.user
    BY <1>1, <2>1, <2>2, ReplyIs
  <2>4. callid' = callid /\ inbox' = Append(inbox, m) /\ asked' = Tail(asked)
    BY <1>2, <1>4, <2>1, <2>2 DEF Answer
  <2>5. PICK a \in {0, 1} : a = 1
    OBVIOUS
  <2> QED BY <1>1, <2>2, <2>3, <2>4, <2>5, PutWay
<1>5. CASE Answers
  <2>1. PICK code \in Nat, body \in {ResultBody(asked[1]), NoBody, Body("nothing", None, <<>>)} :
           Answer(code, body)
    <3>1. asked # <<>> /\ Head(asked) = asked[1]
      BY <1>2, <1>5 DEF Answers
    <3>2. \/ Answer(200, ResultBody(asked[1]))
          \/ Answer(400, NoBody)
          \/ Answer(200, Body("nothing", None, <<>>))
      BY <1>5, <3>1 DEF Answers
    <3>3. 200 \in Nat /\ 400 \in Nat
      OBVIOUS
    <3> QED BY <3>2, <3>3
  <2>2. Way(0, "none", None) /\ ChannelTypes
    BY <1>4, <2>1
  <2>3. sip' = sip /\ line' = line /\ UNCHANGED <<news, joined>> /\ ServerUnchanged
    BY <1>5, <2>1 DEF Answers, Answer
  <2> QED BY <1>1, <2>2, <2>3, ServerKeeps DEF ServerFine
<1>6. CASE TakesAck
  <2>1. Way(0, "none", None) /\ ChannelTypes
    <3>1. PICK a \in 0..Len(asked), b \in 0..Len(inbox) : a = 1 /\ b = 0
      BY <1>2, <1>6 DEF TakesAck
    <3>2. asked' = SubSeq(asked, a + 1, Len(asked)) /\ inbox' = SubSeq(inbox, b + 1, Len(inbox))
      BY <1>2, <1>3, <1>6, <3>1 DEF TakesAck
    <3>3. callid' = callid
      BY <1>6 DEF TakesAck
    <3> QED BY <1>1, <3>2, <3>3, QuietWay
  <2>2. sip' = sip /\ line' = line /\ UNCHANGED <<news, joined>> /\ ServerUnchanged
    BY <1>6 DEF TakesAck
  <2> QED BY <1>1, <2>1, <2>2, ServerKeeps DEF ServerFine
<1>7. CASE Notifies
  <2>1. PICK g \in Groups : \E user \in ToSet(Members[g]) :
           inbox' = Append(inbox, Notification(Body("presence", g, <<user>>)))
    BY <1>7 DEF Notifies
  <2>2. PICK user \in ToSet(Members[g]) :
           inbox' = Append(inbox, Notification(Body("presence", g, <<user>>)))
    BY <2>1
  <2>3. user \in Users
    <3>1. Members[g] \in Seq(Users)
      BY PGAssumption
    <3> QED BY <2>2, <3>1, ElementOfSeq, LenProperties DEF ToSet
  <2>4. PICK body : body = [kind |-> "presence", user |-> g, ids |-> <<user>>]
    OBVIOUS
  <2>5. body \in Bodies /\ body.kind = "presence"
    <3>1. <<user>> \in Seq(Groups \cup Users)
      BY <2>3
    <3> QED BY <2>4, <3>1 DEF Bodies, BodyKinds, AboutGroup
  <2>6. PICK m : m = [kind |-> "notification", callid |-> 0, code |-> 0, body |-> body]
    OBVIOUS
  <2>7. m \in MessageType /\ m.callid = 0
    BY <2>5, <2>6 DEF MessageType
  <2>8. inbox' = Append(inbox, m) /\ asked' = asked /\ callid' = callid
    BY <1>7, <2>2, <2>4, <2>6 DEF Notifies, Notification, Body
  <2>9. PICK a \in {0, 1} : a = 0
    OBVIOUS
  <2>10. Way(0, "none", None) /\ ChannelTypes
    BY <1>1, <2>7, <2>8, <2>9, PutWay
  <2>11. sip' = sip /\ line' = line /\ joined' = joined /\ ServerUnchanged /\ news' \in 0..MaxNews
    BY <1>1, <1>7, PGAssumption DEF Notifies
  <2> QED BY <1>1, <2>10, <2>11, ServerKeeps DEF ServerFine
<1>8. CASE JoinsOrLeaves
  <2>1. Way(0, "none", None) /\ ChannelTypes
    <3>1. PICK a \in 0..Len(asked), b \in 0..Len(inbox) : a = 0 /\ b = 0
      BY <1>2
    <3>2. asked' = SubSeq(asked, a + 1, Len(asked)) /\ inbox' = SubSeq(inbox, b + 1, Len(inbox))
      BY <1>3, <1>8, <3>1 DEF JoinsOrLeaves, requestVars
    <3>3. callid' = callid
      BY <1>8 DEF JoinsOrLeaves, requestVars
    <3> QED BY <1>1, <3>2, <3>3, QuietWay
  <2>2. joined' \in Seq(Groups) /\ Distinct(joined')
    <3>1. PICK g \in Groups :
             \/ g \notin ToSet(joined) /\ joined' = Append(joined, g)
             \/ \E i \in DOMAIN joined : joined[i] = g /\ joined' = RemoveAt(joined, i)
      BY <1>8 DEF JoinsOrLeaves
    <3>2. CASE g \notin ToSet(joined) /\ joined' = Append(joined, g)
      <4>1. g \notin Elements(joined)
        BY <3>2 DEF ToSet, Elements
      <4> QED BY <1>1, <3>2, <4>1, AppendDistinct
    <3>3. ASSUME NEW i \in DOMAIN joined, joined' = RemoveAt(joined, i)
          PROVE  joined' \in Seq(Groups) /\ Distinct(joined')
      <4>1. i \in 1..Len(joined)
        BY <1>1, LenProperties
      <4> QED BY <1>1, <3>3, <4>1, RemoveAtProperties, RemoveDistinct
    <3> QED BY <3>1, <3>2, <3>3
  <2>3. sip' = sip /\ line' = line /\ ServerUnchanged /\ news' \in 0..MaxNews
    BY <1>1, <1>8, PGAssumption DEF JoinsOrLeaves, requestVars
  <2> QED BY <2>1, <2>2, <2>3, ServerKeeps DEF ServerFine
<1>9. CASE LineBreaks
  <2>1. Way(0, "none", None) /\ ChannelTypes
    <3>1. PICK a \in 0..Len(asked), b \in 0..Len(inbox) :
             a = Len(asked) /\ inbox' = SubSeq(inbox, b + 1, Len(inbox))
      <4>3. Len(asked) \in 0..Len(asked) /\ 0 \in 0..Len(inbox) /\ Len(inbox) \in 0..Len(inbox)
        BY <1>2
      <4>1. CASE inbox' = inbox
        BY <1>3, <4>1, <4>3, Zenon
      <4>2. CASE inbox' = <<>>
        BY <1>3, <4>2, <4>3, Zenon
      <4> QED BY <1>9, <4>1, <4>2 DEF LineBreaks, Breaks
    <3>2. asked' = SubSeq(asked, a + 1, Len(asked))
      BY <1>3, <1>9, <3>1 DEF LineBreaks, Breaks
    <3>3. callid' = callid
      BY <1>9 DEF LineBreaks, Breaks
    <3> QED BY <1>1, <3>1, <3>2, <3>3, QuietWay
  <2>2. sip' = sip /\ line = "open" /\ UNCHANGED <<news, joined>> /\ ServerUnchanged
    BY <1>9 DEF LineBreaks, Breaks
  <2> QED BY <1>1, <2>1, <2>2, ServerKeeps DEF ServerFine
<1> QED BY <1>5, <1>6, <1>7, <1>8, <1>9 DEF Server

-----------------------------------------------------------------------------
(* The calls. *)

(* A request with the next call id, under which something may be left.        *)
LEMMA Asking ==
    ASSUME PGInv, NEW type \in Types, NEW headers \in Seq(HeaderLines), NEW body \in Bodies,
           Len(headers) = HeadersOf(body.kind), Write(Stamped(type, headers), body)
    PROVE  /\ Way(callid, body.kind, body.user) /\ Ground(callid, body.kind, body.user)
           /\ ChannelTypes /\ sip' \in SipType
           /\ callid' = callid + 1 /\ line' = line /\ callid \in Nat \ {0}
<1>1. Channel /\ sip \in SipType /\ callid \in Nat \ {0}
  BY ChannelOk
<1>2. PICK q : q = [type |-> type, callid |-> callid, header |-> headers, body |-> body]
  OBVIOUS
<1>3. q \in RequestType /\ Sends(q) /\ inbox' = inbox
  BY <1>1, <1>2, WritesNew
<1>4. PICK b \in {0, 1} : b = 0
  OBVIOUS
<1>5. Takes(b)
  BY <1>3, <1>4 DEF Takes
<1>6. q.callid = callid /\ q.body = body
  BY <1>2
<1>7. Way(q.callid, q.body.kind, q.body.user) /\ ChannelTypes
  BY <1>1, <1>3, <1>5, <1>6, SentWay
<1>8. callid' = callid + 1 /\ sip' \in SipType /\ line' = line
  BY <1>3 DEF Sends
<1>9. Ground(callid, body.kind, body.user)
  BY <1>8 DEF Ground
<1> QED BY <1>1, <1>6, <1>7, <1>8, <1>9

(* A call is counted, and made only when no walk is under way.                *)
LEMMA CallCounted ==
    ASSUME PGInv, NEW op, Idle(op), callid' = callid + 1,
           listCall' \in {listCall, callid}, infoCall' \in {infoCall, callid},
           UNCHANGED <<news, joined>>
    PROVE  Counted /\ walk = None
<1>1. /\ listCall \in 0..(callid - 1) /\ infoCall \in 0..(callid - 1) /\ callid \in Nat \ {0}
      /\ made \in 0..MaxCalls
  BY ChannelOk DEF TypeOK
<1>2. PICK next : next = callid'
  OBVIOUS
<1>3. \A x \in 0..(callid - 1) : x \in 0..(next - 1)
  <2>1. callid \in Nat /\ next \in Nat /\ callid <= next
    BY <1>1, <1>2
  <2> QED BY <2>1, Below
<1>4. callid \in 0..(next - 1)
  BY <1>1, <1>2
<1>5. listCall' \in 0..(callid' - 1) /\ infoCall' \in 0..(callid' - 1)
  BY <1>1, <1>2, <1>3, <1>4
<1>6. made' \in 0..MaxCalls
  BY <1>1, PGAssumption DEF Idle
<1>7. ServerFine
  BY ChannelOk DEF ServerFine, PGTypes, TypeOK
<1> QED BY <1>5, <1>6, <1>7 DEF Counted, Idle, Ready

(* A call that asks, and changes no group.                                    *)
LEMMA AskingKeeps ==
    ASSUME PGInv, NEW type \in Types, NEW headers \in Seq(HeaderLines), NEW body \in Bodies,
           Len(headers) = HeadersOf(body.kind), Write(Stamped(type, headers), body),
           body.kind \notin {"message", "ack"}, NEW op, Idle(op),
           UNCHANGED <<pggroup, walk, news, joined>>,
           NEW r, Leaves(r, callid, body.kind, body.user),
           listCall' \in {listCall, callid}, infoCall' \in {infoCall, callid}
    PROVE  PGInv'
<1>1. /\ Way(callid, body.kind, body.user) /\ Ground(callid, body.kind, body.user)
      /\ ChannelTypes /\ sip' \in SipType
      /\ callid' = callid + 1 /\ line' = line /\ callid \in Nat \ {0}
  BY Asking
<1>2. Counted
  BY <1>1, CallCounted
<1>3. SameGroups /\ \A i \in DOMAIN pggroup : Alike(pggroup[i], pggroup'[i])
  BY GroupsStill
<1>4. PICK n : n = callid
  OBVIOUS
<1>5. PICK kind, user : kind = body.kind /\ user = body.user
  OBVIOUS
<1>6. /\ Way(n, kind, user) /\ Ground(n, kind, user) /\ Leaves(r, n, kind, user)
  BY <1>1, <1>4, <1>5
<1> QED BY <1>1, <1>2, <1>3, <1>6, PlainStep

(* The bodies and the headers of the calls.                                   *)
LEMMA BodyIs ==
    ASSUME NEW kind \in BodyKinds, NEW user \in Groups \cup Users \cup {None},
           NEW ids \in Seq(Groups \cup Users),
           kind \in AboutGroup => user \in Groups, kind \in {"groups", "info"} => user = None
    PROVE  /\ Body(kind, user, ids) \in Bodies
           /\ Body(kind, user, ids).kind = kind /\ Body(kind, user, ids).user = user
  BY DEF Body, Bodies

(* The body of a request about a group.                                       *)
LEMMA AboutIs ==
    ASSUME NEW kind \in AboutGroup, NEW g \in Groups, NEW body, body = Body(kind, g, <<>>)
    PROVE  body \in Bodies /\ body.kind = kind /\ body.user = g
<1>1. PICK ids \in Seq(Groups \cup Users) : ids = <<>>
  BY EmptySeq
<1>2. kind \in BodyKinds /\ g \in Groups \cup Users \cup {None}
  BY DEF BodyKinds
<1>3. kind \in {"groups", "info"} => g = None
  BY DEF AboutGroup
<1>4. body = Body(kind, g, ids)
  BY <1>1
<1> QED BY <1>2, <1>3, <1>4, BodyIs

(* An event header is a header line.                                          *)
LEMMA EventIs ==
    ASSUME NEW name \in HeaderTags
    PROVE  /\ Event(name) \in HeaderLines
           /\ <<Event(name)>> \in Seq(HeaderLines) /\ Len(<<Event(name)>>) = 1
<1>1. Event(name) \in HeaderLines
  BY DEF Event, HeaderLines
<1> QED BY <1>1, HeadersAre

(* The call id of the list is left behind.                                    *)
LEMMA get_listKeeps ==
    ASSUME PGInv, get_list
    PROVE  PGInv'
<1>1. PICK kind, user, ids : kind = "groups" /\ user = None /\ ids = <<>>
  OBVIOUS
<1>2. PICK body : body = Body(kind, user, ids)
  OBVIOUS
<1>3. body \in Bodies /\ body.kind = "groups" /\ body.user = None
  <2>1. ids \in Seq(Groups \cup Users)
    BY <1>1, EmptySeq
  <2>2. kind \in BodyKinds /\ kind \notin AboutGroup /\ user \in Groups \cup Users \cup {None}
    BY <1>1 DEF BodyKinds, AboutGroup
  <2>3. kind \in AboutGroup => user \in Groups
    BY <2>2
  <2>4. kind \in {"groups", "info"} => user = None
    BY <1>1
  <2>5. Body(kind, user, ids) \in Bodies /\ Body(kind, user, ids).kind = kind
        /\ Body(kind, user, ids).user = user
    BY <2>1, <2>2, <2>3, <2>4, BodyIs
  <2> QED BY <1>1, <1>2, <2>5
<1>4. PICK type, headers : type = "S" /\ headers = <<Event("PGGetGroupList")>>
  OBVIOUS
<1>5. type \in Types /\ headers \in Seq(HeaderLines) /\ Len(headers) = HeadersOf(body.kind)
  BY <1>3, <1>4, EventIs DEF Types, HeaderTags, HeadersOf
<1>6. Write(Stamped(type, headers), body)
  BY <1>1, <1>2, <1>4 DEF get_list
<1>7. PICK r : r = Left(callid, "groups", None)
  OBVIOUS
<1>8. callid' = callid + 1
  BY <1>6 DEF Write
<1>9. \A s \in Remembered' : s \in Remembered \/ s = r
  BY <1>7 DEF get_list, Remembered
<1>10. Leaves(r, callid, body.kind, body.user)
  BY <1>3, <1>7, <1>8, <1>9 DEF Leaves, Left, Fits
<1>11. /\ Idle("get_list") /\ UNCHANGED <<pggroup, walk, news, joined>>
       /\ listCall' \in {listCall, callid} /\ infoCall' \in {infoCall, callid}
  BY DEF get_list
<1> QED BY <1>3, <1>5, <1>6, <1>10, <1>11, AskingKeeps

(* The call id of the data of all groups is left behind.                      *)
LEMMA get_infoKeeps ==
    ASSUME PGInv, get_info
    PROVE  PGInv'
<1>1. PICK kind, user, ids : kind = "info" /\ user = None /\ ids = [i \in DOMAIN pggroup |-> pggroup[i].uri]
  OBVIOUS
<1>2. PICK body : body = Body(kind, user, ids)
  OBVIOUS
<1>3. body \in Bodies /\ body.kind = "info" /\ body.user = None
  <2>1. ids \in Seq(Groups \cup Users)
    <3>1. PICK n \in Nat : DOMAIN pggroup = 1..n
      BY ChannelOk, LenProperties DEF PGTypes
    <3>2. \A i \in 1..n : pggroup[i].uri \in Groups \cup Users
      BY <3>1, ChannelOk, GroupsAre DEF GroupType
    <3>3. ids \in [1..n -> Groups \cup Users]
      BY <1>1, <3>1, <3>2
    <3>4. PICK S : S = Groups \cup Users
      OBVIOUS
    <3>5. ids \in Seq(S)
      BY <3>3, <3>4
    <3> QED BY <3>4, <3>5
  <2> QED BY <1>1, <1>2, <2>1, BodyIs DEF BodyKinds, AboutGroup
<1>4. PICK type, headers : type = "S" /\ headers = <<Event("PGGetGroupInfo")>>
  OBVIOUS
<1>5. type \in Types /\ headers \in Seq(HeaderLines) /\ Len(headers) = HeadersOf(body.kind)
  BY <1>3, <1>4, EventIs DEF Types, HeaderTags, HeadersOf
<1>6. Write(Stamped(type, headers), body)
  BY <1>1, <1>2, <1>4 DEF get_info
<1>7. PICK r : r = Left(callid, "info", None)
  OBVIOUS
<1>8. callid' = callid + 1
  BY <1>6 DEF Write
<1>9. \A s \in Remembered' : s \in Remembered \/ s = r
  BY <1>7 DEF get_info, Remembered
<1>10. Leaves(r, callid, body.kind, body.user)
  BY <1>3, <1>7, <1>8, <1>9 DEF Leaves, Left, Fits
<1>11. /\ Idle("get_info") /\ UNCHANGED <<pggroup, walk, news, joined>>
       /\ listCall' \in {listCall, callid} /\ infoCall' \in {infoCall, callid}
  BY DEF get_info
<1> QED BY <1>3, <1>5, <1>6, <1>10, <1>11, AskingKeeps

(* A group that is listed, and a call about it.                               *)
LEMMA subscribeKeeps ==
    ASSUME PGInv, NEW g \in Known, subscribe(g)
    PROVE  PGInv'
<1>1. PICK kind, ids : kind = "subscription" /\ ids = <<>>
  OBVIOUS
<1>2. PICK body : body = Body(kind, g, ids)
  OBVIOUS
<1>3. body \in Bodies /\ body.kind = "subscription"
  <2>1. ids \in Seq(Groups \cup Users)
    BY <1>1, EmptySeq
  <2>2. g \in Groups
    BY ChannelOk DEF TypeOK
  <2> QED BY <1>1, <1>2, <2>1, <2>2, BodyIs DEF BodyKinds, AboutGroup
<1>4. PICK type, headers : type = "SUB" /\ headers = <<Event("PGPresence")>>
  OBVIOUS
<1>5. type \in Types /\ headers \in Seq(HeaderLines) /\ Len(headers) = HeadersOf(body.kind)
  BY <1>3, <1>4, EventIs DEF Types, HeaderTags, HeadersOf
<1>6. Write(Stamped(type, headers), body)
  BY <1>1, <1>2, <1>4 DEF subscribe
<1>7. PICK r : r = Left(0, "none", None)
  OBVIOUS
<1>8. \A s \in Remembered' : s \in Remembered \/ s = r
  BY GroupsStill DEF subscribe
<1>9. Leaves(r, callid, body.kind, body.user)
  BY <1>7, <1>8 DEF Leaves, Left
<1>10. /\ Idle("subscribe") /\ UNCHANGED <<pggroup, walk, news, joined>>
       /\ listCall' \in {listCall, callid} /\ infoCall' \in {infoCall, callid}
  BY DEF subscribe
<1> QED BY <1>3, <1>5, <1>6, <1>9, <1>10, AskingKeeps

(* A short message leaves nothing behind.                                     *)
LEMMA send_smsKeeps ==
    ASSUME PGInv, NEW g \in Known, send_sms(g)
    PROVE  PGInv'
<1>1. PICK kind, ids : kind = "sms" /\ ids = <<>>
  OBVIOUS
<1>2. PICK body : body = Body(kind, g, ids)
  OBVIOUS
<1>3. body \in Bodies /\ body.kind = "sms" /\ g \in Groups
  <2>1. ids \in Seq(Groups \cup Users)
    BY <1>1, EmptySeq
  <2>2. g \in Groups
    BY ChannelOk DEF TypeOK
  <2> QED BY <1>1, <1>2, <2>1, <2>2, BodyIs DEF BodyKinds, AboutGroup
<1>4. PICK type, headers : type = "M" /\ headers = <<To(g), Event("PGSendCatSMS")>>
  OBVIOUS
<1>5. type \in Types /\ headers \in Seq(HeaderLines) /\ Len(headers) = HeadersOf(body.kind)
  <2>1. To(g) \in HeaderLines /\ Event("PGSendCatSMS") \in HeaderLines
    BY <1>3, EventIs DEF To, HeaderLines, HeaderTags
  <2>2. headers \in Seq(HeaderLines) /\ Len(headers) = 2
    BY <1>4, <2>1, HeadersAre
  <2> QED BY <1>3, <1>4, <2>2 DEF Types, HeadersOf
<1>6. Write(Stamped(type, headers), body)
  BY <1>1, <1>2, <1>4 DEF send_sms
<1>7. PICK r : r = Left(0, "none", None)
  OBVIOUS
<1>8. \A s \in Remembered' : s \in Remembered \/ s = r
  BY GroupsStill DEF send_sms
<1>9. Leaves(r, callid, body.kind, body.user)
  BY <1>7, <1>8 DEF Leaves, Left
<1>10. /\ Idle("send_sms") /\ UNCHANGED <<pggroup, walk, news, joined>>
       /\ listCall' \in {listCall, callid} /\ infoCall' \in {infoCall, callid}
  BY DEF send_sms
<1> QED BY <1>3, <1>5, <1>6, <1>9, <1>10, AskingKeeps

(* A request under the call id of an invitation, or under none.               *)
LEMMA UnderIs ==
    ASSUME PGInv, NEW i \in DOMAIN pggroup, NEW n, n = pggroup[i].invite,
           NEW type \in Types, NEW headers \in Seq(HeaderLines),
           NEW kind \in {"message", "ack"}, Len(headers) = HeadersOf(kind),
           callid' = callid + 1, line' = line,
           NEW s, s = set_callid(Stamped(type, headers), n), sip' = [s EXCEPT !.header = <<>>],
           asked' = IF line = "open"
                    THEN Append(asked, to_string(s, Body(kind, pggroup[i].uri, <<>>))) ELSE asked,
           NEW b \in {0, 1}, Takes(b)
    PROVE  /\ Way(n, kind, pggroup[i].uri) /\ Ground(n, kind, pggroup[i].uri)
           /\ ChannelTypes /\ sip' \in SipType /\ n # callid
<1>1. /\ Channel /\ sip \in SipType /\ callid \in Nat \ {0}
      /\ PGTypes /\ IdsOld
  BY ChannelOk
<1>2. n \in Nat /\ pggroup[i].uri \in Groups
  BY <1>1, GroupsAre DEF GroupType
<1>3. PICK g : g = pggroup[i].uri
  OBVIOUS
<1>4. PICK ids : ids = <<>>
  OBVIOUS
<1>5. PICK body : body = Body(kind, g, ids)
  OBVIOUS
<1>6. body \in Bodies /\ body.kind = kind /\ body.user = g
  <2>1. ids \in Seq(Groups \cup Users)
    BY <1>4, EmptySeq
  <2> QED BY <1>2, <1>3, <1>5, <2>1, BodyIs DEF BodyKinds, AboutGroup
<1>7. PICK q : q = [type |-> type, callid |-> n, header |-> headers, body |-> body]
  OBVIOUS
<1>8. to_string(s, body) = q /\ sip' \in SipType
  BY <1>1, <1>2, <1>7, WritesUnder
<1>9. q \in RequestType /\ q.callid = n /\ q.body = body
  BY <1>2, <1>6, <1>7 DEF RequestType
<1>10. asked' = IF line = "open" THEN Append(asked, q) ELSE asked
  BY <1>3, <1>4, <1>5, <1>8
<1>11. Sends(q)
  BY <1>8, <1>10 DEF Sends
<1>12. n < callid /\ (n # 0 => \E r \in Remembered : r.id = n /\ r.kind = "invitation" /\ r.user = g)
  <2>1. CASE n = 0
    BY <1>1, <2>1
  <2>2. CASE n # 0
    <3>1. PICK r : r = Left(n, "invitation", g)
      OBVIOUS
    <3>2. r \in Remembered
      BY <1>3, <2>2, <3>1, LeftIs
    <3>3. r.id = n /\ r.kind = "invitation" /\ r.user = g
      BY <3>1 DEF Left
    <3> QED BY <1>1, <3>2, <3>3 DEF IdsOld
  <2> QED BY <2>1, <2>2
<1>13. q.callid <= callid /\ n # callid
  BY <1>1, <1>2, <1>9, <1>12
<1>14. Way(q.callid, q.body.kind, q.body.user) /\ ChannelTypes
  BY <1>1, <1>9, <1>11, <1>13, SentWay
<1>15. Ground(n, kind, g)
  BY <1>12 DEF Ground
<1> QED BY <1>3, <1>6, <1>8, <1>9, <1>13, <1>14, <1>15

(* A message goes out under the call id of the invitation.                    *)
LEMMA send_messageKeeps ==
    ASSUME PGInv, NEW g \in Known, send_message(g)
    PROVE  PGInv'
<1>1. PGTypes
  BY ChannelOk
<1>2. PICK i \in DOMAIN pggroup : pggroup[i].uri = g /\ Of(g) = pggroup[i] /\ g \in Groups
  BY <1>1, Found
<1>3. PICK n : n = pggroup[i].invite
  OBVIOUS
<1>4. PICK type, headers : type = "M" /\ headers = <<To(g), <<"C", 1>>, <<"K", 1>>>>
  OBVIOUS
<1>5. PICK kind \in {"message", "ack"} : kind = "message"
  OBVIOUS
<1>6. type \in Types /\ headers \in Seq(HeaderLines) /\ Len(headers) = HeadersOf(kind)
  <2>1. To(g) \in HeaderLines /\ <<"C", 1>> \in HeaderLines /\ <<"K", 1>> \in HeaderLines
    BY <1>2 DEF To, HeaderLines, HeaderTags
  <2>2. headers \in Seq(HeaderLines) /\ Len(headers) = 3
    BY <1>4, <2>1, HeadersAre
  <2> QED BY <1>4, <1>5, <2>2 DEF Types, HeadersOf
<1>7. PICK s : s = set_callid(Stamped(type, headers), n)
  OBVIOUS
<1>8. Write(s, Body(kind, g, <<>>))
  BY <1>2, <1>3, <1>4, <1>5, <1>7 DEF send_message
<1>9. /\ callid' = callid + 1 /\ line' = line /\ sip' = [s EXCEPT !.header = <<>>]
      /\ asked' = IF line = "open"
                  THEN Append(asked, to_string(s, Body(kind, pggroup[i].uri, <<>>))) ELSE asked
  BY <1>2, <1>8 DEF Write
<1>10. PICK b \in {0, 1} : b = 0
  OBVIOUS
<1>11. Takes(b)
  BY <1>8, <1>10 DEF Write, Takes
<1>12. /\ Way(n, kind, pggroup[i].uri) /\ Ground(n, kind, pggroup[i].uri)
       /\ ChannelTypes /\ sip' \in SipType /\ n # callid
  BY <1>3, <1>6, <1>7, <1>9, <1>11, UnderIs
<1>13. PICK r : r = Left(0, "none", None)
  OBVIOUS
<1>14. pggroup' = pggroup /\ Idle("send_message") /\ UNCHANGED <<listCall, infoCall, walk, news, joined>>
  BY DEF send_message
<1>15. /\ SameGroups /\ \A k \in DOMAIN pggroup : Alike(pggroup[k], pggroup'[k])
       /\ \A t \in Remembered' : t \in Remembered \/ t = r
  BY <1>14, GroupsStill
<1>16. Leaves(r, n, kind, g)
  BY <1>13, <1>15 DEF Leaves, Left
<1>17. Counted
  BY <1>9, <1>14, CallCounted
<1> QED BY <1>2, <1>9, <1>12, <1>14, <1>15, <1>16, <1>17, PlainStep

(* One group changes, in nothing that matters here.                           *)
LEMMA ChangedAlike ==
    ASSUME PGInv, NEW i \in DOMAIN pggroup, At(pggroup[i].uri) = {i},
           NEW x, Alike(pggroup[i], x), pggroup' = Change(pggroup[i].uri, x)
    PROVE  /\ SameGroups /\ pggroup'[i] = x
           /\ \A j \in DOMAIN pggroup : j # i => pggroup'[j] = pggroup[j]
           /\ \A k \in DOMAIN pggroup : Alike(pggroup[k], pggroup'[k])
<1>1. PGTypes /\ GroupsOk
  BY ChannelOk
<1>2. x \in GroupType /\ x.uri = pggroup[i].uri
  BY DEF Alike
<1>3. /\ pggroup' \in Seq(GroupType)
      /\ DOMAIN pggroup' = DOMAIN pggroup
      /\ pggroup'[i] = x
      /\ \A j \in DOMAIN pggroup : j # i => pggroup'[j] = pggroup[j]
      /\ \A j \in DOMAIN pggroup : pggroup'[j].uri = pggroup[j].uri
  BY <1>1, <1>2, Changed
<1>4. ASSUME NEW k \in DOMAIN pggroup PROVE Alike(pggroup[k], pggroup'[k])
  <2>1. CASE k = i
    BY <1>3, <2>1
  <2>2. CASE k # i
    BY <1>1, <1>3, <2>2, SameIsAlike
  <2> QED BY <2>1, <2>2
<1> QED BY <1>3, <1>4 DEF SameGroups

(* What is left behind when one group changes.                                *)
LEMMA OneLeaves ==
    ASSUME PGInv, NEW i \in DOMAIN pggroup, SameGroups,
           \A j \in DOMAIN pggroup : j # i => pggroup'[j] = pggroup[j],
           listCall' = listCall, infoCall' = infoCall, NEW r,
           NEW x, x = pggroup'[i],
           \A s \in LeftBy(x) : s.id = 0 \/ s \in LeftBy(pggroup[i]) \/ s = r
    PROVE  \A s \in Remembered' : s \in Remembered \/ s = r
<1>1. PGTypes
  BY ChannelOk
<1>2. ASSUME NEW k \in DOMAIN pggroup, NEW s \in LeftBy(pggroup'[k])
      PROVE  s.id = 0 \/ s \in LeftBy(pggroup[k]) \/ s = r
  <2>1. CASE k = i
    BY <1>2, <2>1
  <2>2. CASE k # i
    BY <1>2, <2>2
  <2> QED BY <2>1, <2>2
<1> QED BY <1>1, <1>2, LeavesBy

(* The group keeps the call id of the invitation.                             *)
LEMMA send_invitationKeeps ==
    ASSUME PGInv, NEW g \in Known, send_invitation(g)
    PROVE  PGInv'
<1>1. PGTypes /\ GroupsOk /\ callid \in Nat \ {0}
  BY ChannelOk
<1>2. PICK i \in DOMAIN pggroup :
         pggroup[i].uri = g /\ At(g) = {i} /\ Of(g) = pggroup[i] /\ g \in Groups
  BY <1>1, Found
<1>3. PICK kind : kind = "invitation"
  OBVIOUS
<1>4. PICK body : body = Body(kind, g, <<>>)
  OBVIOUS
<1>5. body \in Bodies /\ body.kind = kind /\ body.user = g
  <2>1. kind \in AboutGroup
    BY <1>3 DEF AboutGroup
  <2> QED BY <1>2, <1>4, <2>1, AboutIs
<1>6. PICK type, headers : type = "I" /\ headers = <<To(g), <<"K", 5>>>>
  OBVIOUS
<1>7. type \in Types /\ headers \in Seq(HeaderLines) /\ Len(headers) = HeadersOf(body.kind)
  <2>1. To(g) \in HeaderLines /\ <<"K", 5>> \in HeaderLines
    BY <1>2 DEF To, HeaderLines, HeaderTags
  <2>2. headers \in Seq(HeaderLines) /\ Len(headers) = 2
    BY <1>6, <2>1, HeadersAre
  <2> QED BY <1>3, <1>5, <1>6, <2>2 DEF Types, HeadersOf
<1>8. Write(Stamped(type, headers), body)
  BY <1>3, <1>4, <1>6 DEF send_invitation
<1>9. /\ Way(callid, body.kind, body.user) /\ Ground(callid, body.kind, body.user)
      /\ ChannelTypes /\ sip' \in SipType
      /\ callid' = callid + 1 /\ line' = line
  BY <1>5, <1>7, <1>8, Asking
<1>10. PICK x : x = [pggroup[i] EXCEPT !.invite = callid]
  OBVIOUS
<1>11. x \in GroupType /\ x.invite = callid /\ x.uri = g /\ x.member = pggroup[i].member
       /\ x.getMembers = pggroup[i].getMembers /\ x.asked = pggroup[i].asked
       /\ x.hasDetails = pggroup[i].hasDetails
  BY <1>1, <1>2, <1>10, GroupsAre DEF GroupType
<1>12. Alike(pggroup[i], x)
  BY <1>1, <1>2, <1>11, SameIsAlike DEF Alike
<1>13. pggroup' = Change(g, x) /\ UNCHANGED <<listCall, infoCall, walk, news, joined>>
       /\ Idle("send_invitation")
  BY <1>2, <1>10 DEF send_invitation
<1>14. /\ SameGroups /\ pggroup'[i] = x
       /\ \A j \in DOMAIN pggroup : j # i => pggroup'[j] = pggroup[j]
       /\ \A k \in DOMAIN pggroup : Alike(pggroup[k], pggroup'[k])
  BY <1>2, <1>12, <1>13, ChangedAlike
<1>15. PICK r : r = Left(callid, "invitation", g)
  OBVIOUS
<1>16. \A s \in LeftBy(x) : s \in LeftBy(pggroup[i]) \/ s = r
  BY <1>2, <1>11, <1>15 DEF LeftBy
<1>17. \A s \in Remembered' : s \in Remembered \/ s = r
  BY <1>13, <1>14, <1>16, OneLeaves
<1>18. PICK n : n = callid
  OBVIOUS
<1>19. Leaves(r, n, kind, g)
  BY <1>3, <1>9, <1>15, <1>17, <1>18 DEF Leaves, Left, Fits
<1>20. Counted
  BY <1>9, <1>13, CallCounted
<1>21. Way(n, kind, g) /\ Ground(n, kind, g)
  BY <1>3, <1>5, <1>9, <1>18
<1> QED BY <1>9, <1>13, <1>14, <1>19, <1>20, <1>21, PlainStep

(* The struct keeps the call id of what was written last.                     *)
LEMMA StampStays ==
    ASSUME PGInv, NEW type, NEW headers \in Seq(HeaderLines), NEW body,
           Write(Stamped(type, headers), body)
    PROVE  sip'.callid = callid
<1>1. Stamped(type, headers) = [type |-> type, callid |-> callid, header |-> headers]
  BY ChannelOk, StampedIs
<1>2. sip' = [type |-> type, callid |-> callid, header |-> <<>>]
  BY <1>1 DEF Write
<1> QED BY <1>2

(* Nobody is in the list of a group before its members are asked for: a first *)
(* request finds it empty.                                                    *)
LEMMA get_group_membersKeeps ==
    ASSUME PGInv, NEW g \in Known, get_group_members(g)
    PROVE  PGInv'
<1>1. PGTypes /\ GroupsOk /\ callid \in Nat \ {0}
  BY ChannelOk
<1>2. PICK i \in DOMAIN pggroup :
         pggroup[i].uri = g /\ At(g) = {i} /\ Of(g) = pggroup[i] /\ g \in Groups
  BY <1>1, Found
<1>3. PICK kind : kind = "members"
  OBVIOUS
<1>4. PICK body : body = Body(kind, g, <<>>)
  OBVIOUS
<1>5. body \in Bodies /\ body.kind = kind /\ body.user = g
  <2>1. kind \in AboutGroup
    BY <1>3 DEF AboutGroup
  <2> QED BY <1>2, <1>4, <2>1, AboutIs
<1>6. PICK type, headers : type = "S" /\ headers = <<Event("PGGetGroupMembers")>>
  OBVIOUS
<1>7. type \in Types /\ headers \in Seq(HeaderLines) /\ Len(headers) = HeadersOf(body.kind)
  BY <1>3, <1>5, <1>6, EventIs DEF Types, HeaderTags, HeadersOf
<1>8. Write(Stamped(type, headers), body)
  BY <1>3, <1>4, <1>6 DEF get_group_members
<1>9. /\ Way(callid, body.kind, body.user) /\ Ground(callid, body.kind, body.user)
      /\ ChannelTypes /\ sip' \in SipType
      /\ callid' = callid + 1 /\ line' = line /\ sip'.callid = callid
  BY <1>5, <1>7, <1>8, Asking, StampStays
<1>10. PICK pg : pg = pggroup[i]
  OBVIOUS
<1>11. PICK x : x = [pg EXCEPT !.getMembers = callid, !.asked = pg.asked + 1]
  OBVIOUS
<1>12. x \in GroupType /\ x.invite = pg.invite /\ x.uri = g /\ x.member = pg.member
       /\ x.getMembers = callid /\ x.asked = pg.asked + 1 /\ x.hasDetails = pg.hasDetails
  <2>1. pg \in GroupType
    BY <1>1, <1>10, GroupsAre
  <2>2. PICK y : y = [pg EXCEPT !.getMembers = callid]
    OBVIOUS
  <2>3. y \in GroupType /\ y.invite = pg.invite /\ y.uri = pg.uri /\ y.member = pg.member
        /\ y.getMembers = callid /\ y.asked = pg.asked /\ y.hasDetails = pg.hasDetails
    BY <1>1, <2>1, <2>2 DEF GroupType
  <2>4. x = [y EXCEPT !.asked = y.asked + 1]
    BY <1>11, <2>1, <2>2, <2>3 DEF GroupType
  <2> QED BY <1>2, <1>10, <2>3, <2>4 DEF GroupType
<1>13. pggroup' = Change(g, x) /\ UNCHANGED <<listCall, infoCall, walk, news, joined>>
       /\ Idle("get_group_members")
  BY <1>2, <1>9, <1>10, <1>11 DEF get_group_members
<1>14. /\ SameGroups /\ pggroup'[i] = x
       /\ \A j \in DOMAIN pggroup : j # i => pggroup'[j] = pggroup[j]
  BY <1>1, <1>2, <1>12, <1>13, Changed DEF SameGroups
<1>15. pg.asked \in Nat /\ MembersOk(pg)
  BY <1>1, <1>10, GroupsAre DEF GroupType, GroupsOk
<1>16. MembersOk(x)'
  <2>1. x.asked # 0 /\ x.getMembers # 0 /\ (x.asked <= 1 => x.member = <<>>)
    BY <1>1, <1>12, <1>15 DEF MembersOk
  <2>2. x.asked <= 1 => DOMAIN x.member = {}
    BY <2>1
  <2> QED BY <1>2, <1>10, <1>12, <1>15, <2>1, <2>2 DEF MembersOk
<1>17. DetailsOk(x)'
  <2>1. x.asked <= 1 => x.member = <<>>
    BY <1>12, <1>15 DEF MembersOk
  <2>2. x.hasDetails => x.member # <<>>
    BY <1>12, <1>15 DEF MembersOk
  <2> QED BY <2>1, <2>2 DEF DetailsOk
<1>18. PICK n : n = callid
  OBVIOUS
<1>19. Way(n, kind, g) /\ Ground(n, kind, g)
  BY <1>3, <1>5, <1>9, <1>18
<1>20. GroupsOk'
  <2>1. \A y, j : y.uri # x.uri /\ Walking(y, j) => Walking(y, j)'
    BY <1>13 DEF Walking
  <2> QED BY <1>9, <1>14, <1>16, <1>17, <1>19, <2>1, OneChanged
<1>21. PICK r : r = Left(callid, "members", g)
  OBVIOUS
<1>22. \A s \in LeftBy(x) : s \in LeftBy(pggroup[i]) \/ s = r
  BY <1>2, <1>10, <1>12, <1>21 DEF LeftBy
<1>23. \A s \in Remembered' : s \in Remembered \/ s = r
  BY <1>13, <1>14, <1>22, OneLeaves
<1>24. Leaves(r, n, kind, g)
  BY <1>3, <1>9, <1>18, <1>21, <1>23 DEF Leaves, Left, Fits
<1>25. Counted /\ walk = None
  BY <1>9, <1>13, CallCounted
<1>26. WalkFine
  BY <1>13, <1>25 DEF WalkFine
<1> QED BY <1>9, <1>14, <1>19, <1>20, <1>24, <1>25, <1>26, StepKept

(* The walk begins: every member is still to come.                            *)
LEMMA update_group_infoKeeps ==
    ASSUME PGInv, NEW g \in Known, update_group_info(g)
    PROVE  PGInv'
<1>1. /\ Channel /\ PGTypes /\ GroupsOk /\ callid \in Nat \ {0} /\ sip \in SipType /\ TypeOK
      /\ IdsOld /\ Recognises
  BY ChannelOk
<1>2. PICK i \in DOMAIN pggroup :
         pggroup[i].uri = g /\ At(g) = {i} /\ Of(g) = pggroup[i] /\ g \in Groups
  BY <1>1, Found
<1>3. PICK pg : pg = pggroup[i]
  OBVIOUS
<1>4. PICK x : x = [pg EXCEPT !.hasDetails = TRUE]
  OBVIOUS
<1>5. /\ pg \in GroupType /\ MembersOk(pg) /\ pg.member \in Seq(MemberType)
      /\ DOMAIN pg.member = 1..Len(pg.member) /\ Len(pg.member) \in Nat
  BY <1>1, <1>3, GroupsAre DEF GroupsOk
<1>6. x \in GroupType /\ x.uri = g /\ x.member = pg.member /\ x.asked = pg.asked
      /\ x.getMembers = pg.getMembers /\ x.invite = pg.invite
  BY <1>2, <1>3, <1>4, <1>5 DEF GroupType
<1>7. /\ pggroup' = Change(g, x) /\ walk' = [group |-> g, at |-> 1]
      /\ UNCHANGED <<requestVars, listCall, infoCall, news, joined>>
      /\ walk = None /\ pg.member # <<>> /\ made \in Nat /\ made < MaxCalls /\ made' = made + 1
  BY <1>1, <1>2, <1>3, <1>4 DEF update_group_info, Idle, Ready, TypeOK
<1>8. /\ SameGroups /\ pggroup'[i] = x
      /\ \A j \in DOMAIN pggroup : j # i => pggroup'[j] = pggroup[j]
  BY <1>1, <1>2, <1>6, <1>7, Changed DEF SameGroups
<1>9. Way(0, "none", None) /\ ChannelTypes
  <2>1. PICK a \in 0..Len(asked), b \in 0..Len(inbox) : a = 0 /\ b = 0
    <3>1. Len(asked) \in Nat /\ Len(inbox) \in Nat
      BY <1>1, LenProperties DEF Channel
    <3> QED BY <3>1
  <2>2. asked' = SubSeq(asked, a + 1, Len(asked)) /\ inbox' = SubSeq(inbox, b + 1, Len(inbox))
    <3>1. SubSeq(asked, 1, Len(asked)) = asked /\ SubSeq(inbox, 1, Len(inbox)) = inbox
      BY <1>1 DEF Channel
    <3> QED BY <1>7, <2>1, <3>1 DEF requestVars
  <2> QED BY <1>1, <1>7, <2>2, QuietWay DEF requestVars
<1>10. PICK n, kind : n = 0 /\ kind = "none"
  OBVIOUS
<1>11. PICK r, user : r = Left(0, "none", None) /\ user = None
  OBVIOUS
<1>12. Way(n, kind, user) /\ Ground(n, kind, user)
  BY <1>9, <1>10, <1>11 DEF Ground
<1>13. \A s \in LeftBy(x) : s \in LeftBy(pggroup[i])
  BY <1>2, <1>3, <1>6 DEF LeftBy
<1>14. \A s \in Remembered' : s \in Remembered \/ s = r
  BY <1>7, <1>8, <1>13, OneLeaves
<1>15. Leaves(r, n, kind, user)
  BY <1>11, <1>14 DEF Leaves, Left
<1>16. Resembles(pggroup[i], x)
  BY <1>2, <1>3, <1>5, <1>6 DEF Resembles, MembersOk
<1>17. MembersOk(x)'
  BY <1>1, <1>3, <1>5, <1>7, <1>12, <1>16, ResemblesKept
<1>18. DetailsOk(x)'
  <2>1. ASSUME NEW j \in DOMAIN x.member PROVE Walking(x, j)'
    <3>1. j \in Nat /\ 1 <= j
      BY <1>5, <1>6, <2>1
    <3>2. walk'.group = x.uri /\ walk'.at = 1 /\ walk' # None
      <4>1. walk' \in WalkType
        BY <1>2, <1>7 DEF WalkType
      <4> QED BY <1>6, <1>7, <4>1, PGAssumption DEF WalkType
    <3> QED BY <3>1, <3>2 DEF Walking
  <2> QED BY <2>1 DEF DetailsOk
<1>19. GroupsOk'
  <2>1. \A y, j : y.uri # x.uri /\ Walking(y, j) => Walking(y, j)'
    BY <1>7 DEF Walking
  <2>2. line' = line
    BY <1>7 DEF requestVars
  <2> QED BY <1>8, <1>12, <1>17, <1>18, <2>1, <2>2, OneChanged
<1>20. WalkFine
  <2>1. 1 \in DOMAIN x.member
    BY <1>5, <1>6, <1>7, EmptySeq
  <2> QED BY <1>2, <1>7, <1>8, <2>1 DEF WalkFine, WalkType
<1>21. Counted
  <2>1. made' \in 0..MaxCalls
    BY <1>7, PGAssumption
  <2>2. callid' = callid
    BY <1>7 DEF requestVars
  <2> QED BY <1>1, <1>7, <2>1, <2>2 DEF Counted, ServerFine, PGTypes, TypeOK
<1>22. sip' \in SipType
  BY <1>1, <1>7 DEF requestVars
<1> QED BY <1>8, <1>9, <1>12, <1>15, <1>19, <1>20, <1>21, <1>22, StepKept

(* One member is changed, the others are not.                                 *)
LEMMA MemberSet ==
    ASSUME NEW member \in Seq(MemberType), NEW k \in DOMAIN member, NEW y \in MemberType,
           NEW m, m = [member EXCEPT ![k] = y]
    PROVE  /\ m \in Seq(MemberType) /\ Len(m) = Len(member) /\ DOMAIN m = DOMAIN member
           /\ m[k] = y /\ \A j \in DOMAIN member : j # k => m[j] = member[j]
<1>1. PICK n \in Nat : n = Len(member) /\ DOMAIN member = 1..n
  BY LenProperties
<1>2. \A j \in 1..n : member[j] \in MemberType
  BY <1>1, ElementOfSeq
<1>3. DOMAIN m = 1..n /\ m[k] = y /\ \A j \in 1..n : j # k => m[j] = member[j]
  BY <1>1
<1>4. m = [j \in 1..n |-> m[j]] /\ \A j \in 1..n : m[j] \in MemberType
  BY <1>1, <1>2, <1>3
<1>5. m \in [1..n -> MemberType]
  BY <1>4
<1>6. m \in Seq(MemberType)
  BY <1>5
<1>7. Len(m) = n
  BY <1>3, <1>6, LenProperties
<1> QED BY <1>1, <1>3, <1>6, <1>7

(* The walk asks about the member it stands at, and goes on to the next.      *)
LEMMA UpdateNextKeeps ==
    ASSUME PGInv, UpdateNext
    PROVE  PGInv'
<1>1. /\ Channel /\ PGTypes /\ GroupsOk /\ callid \in Nat \ {0} /\ sip \in SipType /\ TypeOK
      /\ IdsOld /\ Recognises
  BY ChannelOk
<1>2. PICK g, k : g = walk.group /\ k = walk.at
  OBVIOUS
<1>3. walk # None /\ g \in Known /\ k \in DOMAIN Of(g).member /\ walk \in WalkType
  BY <1>1, <1>2 DEF UpdateNext, TypeOK, PGTypes
<1>4. PICK i \in DOMAIN pggroup :
         pggroup[i].uri = g /\ At(g) = {i} /\ Of(g) = pggroup[i] /\ g \in Groups
  BY <1>1, <1>3, Found
<1>5. PICK pg : pg = pggroup[i]
  OBVIOUS
<1>6. /\ pg \in GroupType /\ MembersOk(pg) /\ pg.member \in Seq(MemberType)
      /\ DOMAIN pg.member = 1..Len(pg.member) /\ Len(pg.member) \in Nat
      /\ k \in DOMAIN pg.member /\ pg.member[k] \in MemberType /\ DetailsOk(pg) /\ k \in Nat
  BY <1>1, <1>3, <1>4, <1>5, GroupsAre DEF GroupsOk
<1>7. PICK contactOf : contactOf = pg.member[k].uri
  OBVIOUS
<1>8. PICK y : y = [pg.member[k] EXCEPT !.getInfo = callid]
  OBVIOUS
<1>9. /\ y \in MemberType /\ y.uri = contactOf /\ y.getInfo = callid
      /\ y.contact = pg.member[k].contact /\ contactOf \in Users
  BY <1>1, <1>6, <1>7, <1>8 DEF MemberType
<1>10. PICK m : m = [pg.member EXCEPT ![k] = y]
  OBVIOUS
<1>11. /\ m \in Seq(MemberType) /\ Len(m) = Len(pg.member) /\ DOMAIN m = DOMAIN pg.member
       /\ m[k] = y /\ \A j \in DOMAIN pg.member : j # k => m[j] = pg.member[j]
  BY <1>6, <1>9, <1>10, MemberSet
<1>12. PICK x : x = [pg EXCEPT !.member = m]
  OBVIOUS
<1>13. x \in GroupType /\ x.uri = g /\ x.member = m /\ x.asked = pg.asked
       /\ x.getMembers = pg.getMembers /\ x.invite = pg.invite /\ x.hasDetails = pg.hasDetails
  BY <1>4, <1>5, <1>6, <1>11, <1>12 DEF GroupType
<1>14. x = [pg EXCEPT !.member[k].getInfo = callid]
  BY <1>8, <1>10, <1>12
<1>15. PICK kind, ids : kind = "contact" /\ ids = <<g>>
  OBVIOUS
<1>16. PICK body : body = Body(kind, contactOf, ids)
  OBVIOUS
<1>17. body \in Bodies /\ body.kind = kind /\ body.user = contactOf
  <2>1. ids \in Seq(Groups \cup Users)
    BY <1>4, <1>15
  <2>2. kind \in BodyKinds /\ kind \notin AboutGroup /\ kind \notin {"groups", "info"}
    BY <1>15 DEF BodyKinds, AboutGroup
  <2>3. contactOf \in Groups \cup Users \cup {None}
    BY <1>9
  <2> QED BY <1>16, <2>1, <2>2, <2>3, BodyIs
<1>18. PICK type, headers : type = "S" /\ headers = <<Event("GetContactInfo")>>
  OBVIOUS
<1>19. type \in Types /\ headers \in Seq(HeaderLines) /\ Len(headers) = HeadersOf(body.kind)
  BY <1>15, <1>17, <1>18, EventIs DEF Types, HeaderTags, HeadersOf
<1>20. /\ Write(Stamped(type, headers), body)
       /\ pggroup' = Change(g, x)
       /\ walk' = IF SendFails \/ k = Len(pg.member) THEN None ELSE [walk EXCEPT !.at = k + 1]
       /\ UNCHANGED <<listCall, infoCall, made, news, joined>>
  BY <1>2, <1>4, <1>5, <1>7, <1>14, <1>15, <1>16, <1>18 DEF UpdateNext
<1>21. /\ Way(callid, body.kind, body.user) /\ Ground(callid, body.kind, body.user)
       /\ ChannelTypes /\ sip' \in SipType
       /\ callid' = callid + 1 /\ line' = line
  BY <1>17, <1>19, <1>20, Asking
<1>22. /\ SameGroups /\ pggroup'[i] = x
       /\ \A j \in DOMAIN pggroup : j # i => pggroup'[j] = pggroup[j]
  BY <1>1, <1>4, <1>13, <1>20, Changed DEF SameGroups
<1>23. PICK n : n = callid
  OBVIOUS
<1>24. Way(n, kind, contactOf) /\ Ground(n, kind, contactOf)
  BY <1>15, <1>17, <1>21, <1>23
<1>25. PICK r : r = Left(callid, "contact", contactOf)
  OBVIOUS
<1>26. \A s \in LeftBy(x) : s \in LeftBy(pggroup[i]) \/ s = r
  <2>1. ASSUME NEW j \in DOMAIN m
        PROVE  \/ Left(m[j].getInfo, "contact", m[j].uri) = r
               \/ Left(m[j].getInfo, "contact", m[j].uri) \in LeftBy(pg)
    <3>1. CASE j = k
      BY <1>9, <1>11, <1>25, <3>1
    <3>2. CASE j # k
      BY <1>11, <2>1, <3>2 DEF LeftBy
    <3> QED BY <3>1, <3>2
  <2>2. /\ Left(x.getMembers, "members", x.uri) \in LeftBy(pg)
        /\ Left(x.invite, "invitation", x.uri) \in LeftBy(pg)
    BY <1>4, <1>5, <1>13 DEF LeftBy
  <2>3. LeftBy(x) = {Left(x.getMembers, "members", x.uri), Left(x.invite, "invitation", x.uri)}
                       \cup {Left(m[j].getInfo, "contact", m[j].uri) : j \in DOMAIN m}
    BY <1>13 DEF LeftBy
  <2> QED BY <1>5, <2>1, <2>2, <2>3
<1>27. \A s \in Remembered' : s \in Remembered \/ s = r
  BY <1>20, <1>22, <1>26, OneLeaves
<1>28. Leaves(r, n, kind, contactOf)
  BY <1>15, <1>21, <1>23, <1>25, <1>27 DEF Leaves, Left, Fits
<1>29. Resembles(pggroup[i], x)
  <2>1. ASSUME NEW j \in DOMAIN pg.member
        PROVE  m[j].uri = pg.member[j].uri /\ m[j].contact \in {None, pg.member[j].uri}
    <3>1. pg.member[j].contact \in {None, pg.member[j].uri}
      BY <1>6, <2>1 DEF MembersOk
    <3>2. CASE j = k
      BY <1>7, <1>9, <1>11, <3>1, <3>2
    <3>3. CASE j # k
      BY <1>11, <2>1, <3>1, <3>3
    <3> QED BY <3>2, <3>3
  <2> QED BY <1>4, <1>5, <1>11, <1>13, <2>1 DEF Resembles
<1>30. MembersOk(x)'
  <2>1. MembersOk(pggroup[i]) /\ (x.hasDetails => pggroup[i].member # <<>>)
    BY <1>5, <1>6, <1>13 DEF MembersOk
  <2> QED BY <1>1, <1>24, <1>29, <2>1, ResemblesKept
<1>31. [walk EXCEPT !.at = k + 1] = [group |-> g, at |-> k + 1]
  BY <1>2, <1>3 DEF WalkType
<1>32. \/ walk' = None /\ (line = "reset" \/ k = Len(pg.member))
       \/ /\ k # Len(pg.member)
          /\ walk' \in WalkType /\ walk' # None /\ walk'.group = g /\ walk'.at = k + 1
  <2>1. [group |-> g, at |-> k + 1] \in WalkType /\ [group |-> g, at |-> k + 1] # None
    BY <1>4, <1>6, PGAssumption DEF WalkType
  <2> QED BY <1>20, <1>31, <2>1 DEF SendFails
<1>33. DetailsOk(x)'
  <2> SUFFICES ASSUME x.hasDetails, x.asked <= 1, line' # "reset", NEW j \in DOMAIN x.member
               PROVE  Walking(x, j)' \/ x.member[j].getInfo # 0
    BY DEF DetailsOk
  <2>1. j \in 1..Len(pg.member) /\ j \in DOMAIN pg.member
    BY <1>6, <1>11, <1>13
  <2>2. Walking(pg, j) \/ pg.member[j].getInfo # 0
    BY <1>6, <1>13, <1>21, <2>1 DEF DetailsOk
  <2>3. CASE j = k
    BY <1>1, <1>9, <1>11, <1>13, <2>3
  <2>4. CASE j # k /\ pg.member[j].getInfo # 0
    BY <1>11, <1>13, <2>1, <2>4
  <2>5. CASE j # k /\ Walking(pg, j)
    <3>1. k <= j /\ k # Len(pg.member)
      BY <1>2, <1>6, <2>1, <2>5 DEF Walking
    <3>2. walk' # None /\ walk'.group = x.uri /\ walk'.at <= j
      BY <1>6, <1>13, <1>21, <1>32, <2>1, <2>5, <3>1
    <3> QED BY <3>2 DEF Walking
  <2> QED BY <2>2, <2>3, <2>4, <2>5
<1>34. GroupsOk'
  <2>1. \A z, j : z.uri # x.uri /\ Walking(z, j) => Walking(z, j)'
    BY <1>2, <1>13 DEF Walking
  <2> QED BY <1>21, <1>22, <1>24, <1>30, <1>33, <2>1, OneChanged
<1>35. WalkFine
  <2>1. walk' # None => walk'.at \in DOMAIN x.member
    BY <1>6, <1>11, <1>13, <1>32
  <2> QED BY <1>4, <1>22, <1>32, <2>1 DEF WalkFine
<1>36. Counted
  <2>1. ServerFine
    BY <1>1, <1>20 DEF ServerFine, PGTypes, TypeOK
  <2>2. callid <= callid' /\ callid' \in Nat
    BY <1>1, <1>21
  <2> QED BY <1>20, <2>1, <2>2, CountedStill
<1> QED BY <1>21, <1>22, <1>24, <1>28, <1>34, <1>35, <1>36, StepKept

-----------------------------------------------------------------------------
(* What comes back. *)

(* A message that is heard is the first of the channel.                       *)
LEMMA HearsIs ==
    ASSUME PGInv, NEW msg, Hears(msg)
    PROVE  /\ Way(0, "none", None) /\ ChannelTypes /\ sip' \in SipType
           /\ msg \in MessageType /\ 1 \in DOMAIN inbox /\ msg = inbox[1] /\ inbox' = Tail(inbox)
           /\ callid' = callid /\ line' = line /\ walk = None /\ walk' = None
           /\ asked' = asked /\ infoCall' = infoCall
           /\ listCall' = listCall => Counted
<1>1. Channel /\ PGTypes /\ sip \in SipType /\ callid \in Nat \ {0}
  BY ChannelOk
<1>2. /\ inbox # <<>> /\ msg = Head(inbox) /\ inbox' = Tail(inbox) /\ walk = None
      /\ UNCHANGED <<callid, sip, asked, line, infoCall, walk, made, news, joined>>
  BY DEF Hears, Ready
<1>3. PICK b \in {0, 1} : b = 1
  OBVIOUS
<1>4. inbox \in Seq(MessageType) /\ asked \in Seq(RequestType)
  BY <1>1 DEF Channel
<1>5. /\ inbox[1] \in MessageType /\ 1 \in DOMAIN inbox /\ Head(inbox) = inbox[1]
  BY <1>2, <1>4, TailIs
<1>6. Way(0, "none", None) /\ ChannelTypes
  <2>1. Len(asked) \in Nat /\ Len(inbox) \in Nat /\ DOMAIN inbox = 1..Len(inbox)
    BY <1>4, LenProperties
  <2>2. PICK x \in 0..Len(asked), y \in 0..Len(inbox) : x = 0 /\ y = 1
    BY <1>5, <2>1
  <2>3. asked' = SubSeq(asked, x + 1, Len(asked))
    <3>1. SubSeq(asked, 1, Len(asked)) = asked
      BY <1>4
    <3> QED BY <1>2, <2>2, <3>1
  <2>4. inbox' = SubSeq(inbox, y + 1, Len(inbox))
    <3>1. Tail(inbox) = SubSeq(inbox, 2, Len(inbox))
      BY <1>2, <1>4
    <3> QED BY <1>2, <2>2, <3>1
  <2> QED BY <1>1, <1>2, <2>3, <2>4, QuietWay
<1>7. listCall' = listCall => Counted
  <2>1. ServerFine
    BY <1>1, <1>2 DEF ServerFine, PGTypes, TypeOK
  <2>2. callid <= callid' /\ callid' \in Nat
    BY <1>1, <1>2
  <2> QED BY <1>2, <2>1, <2>2, CountedStill
<1> QED BY <1>1, <1>2, <1>5, <1>6, <1>7

(* A reply comes under the call id that was left for it, with what fits.      *)
LEMMA ReplyFits ==
    ASSUME PGInv, NEW msg \in MessageType, 1 \in DOMAIN inbox, msg = inbox[1],
           NEW r, IsReply(msg, r.id), r.id # 0 => r \in Remembered,
           msg.body.kind \notin {"none", "nothing"}
    PROVE  msg.body \in OnTheWay(r.id) /\ r \in Remembered /\ Fits(r, msg.body.kind, msg.body.user)
<1>1. msg.kind = "reply" /\ r.id # 0 /\ msg.callid = r.id /\ r \in Remembered
  BY DEF IsReply
<1>2. msg.body \in OnTheWay(r.id)
  BY <1>1, OnTheWayIs
<1> QED BY <1>1, <1>2, ChannelOk DEF Recognises

(* Nothing is left behind by a message that only changes what is shown.       *)
LEMMA HeardKeeps ==
    ASSUME PGInv, NEW msg, Hears(msg), listCall' = listCall, SameGroups,
           \A i \in DOMAIN pggroup : Alike(pggroup[i], pggroup'[i]),
           \A i \in DOMAIN pggroup : \A s \in LeftBy(pggroup'[i]) : s \in LeftBy(pggroup[i])
    PROVE  PGInv'
<1>1. /\ Way(0, "none", None) /\ ChannelTypes /\ sip' \in SipType
      /\ callid' = callid /\ line' = line /\ walk = None /\ walk' = None
      /\ infoCall' = infoCall /\ Counted
  BY HearsIs
<1>2. PICK n, kind : n = 0 /\ kind = "none"
  OBVIOUS
<1>3. PICK r, user : r = Left(0, "none", None) /\ user = None
  OBVIOUS
<1>4. Way(n, kind, user) /\ Ground(n, kind, user)
  BY <1>1, <1>2, <1>3 DEF Ground
<1>5. PGTypes
  BY ChannelOk
<1>6. \A s \in Remembered' : s \in Remembered \/ s = r
  BY <1>1, <1>5, LeavesBy
<1>7. Leaves(r, n, kind, user)
  BY <1>3, <1>6 DEF Leaves, Left
<1> QED BY <1>1, <1>4, <1>7, PlainStep

(* One group changes in what is shown.                                        *)
LEMMA ShownKeeps ==
    ASSUME PGInv, NEW msg, Hears(msg), listCall' = listCall,
           NEW i \in DOMAIN pggroup, At(pggroup[i].uri) = {i},
           NEW x, Alike(pggroup[i], x), x.invite = pggroup[i].invite,
           pggroup' = Change(pggroup[i].uri, x)
    PROVE  PGInv'
<1>1. /\ SameGroups /\ pggroup'[i] = x
      /\ \A j \in DOMAIN pggroup : j # i => pggroup'[j] = pggroup[j]
      /\ \A k \in DOMAIN pggroup : Alike(pggroup[k], pggroup'[k])
  BY ChangedAlike
<1>2. LeftBy(x) = LeftBy(pggroup[i])
  <2>1. DOMAIN x.member = DOMAIN pggroup[i].member
    <3>1. x.member \in Seq(MemberType) /\ Len(x.member) = Len(pggroup[i].member)
      BY DEF Alike, GroupType
    <3> QED BY <3>1, ChannelOk, GroupsAre, LenProperties
  <2> QED BY <2>1 DEF Alike, LeftBy
<1>3. ASSUME NEW k \in DOMAIN pggroup, NEW s \in LeftBy(pggroup'[k])
      PROVE  s \in LeftBy(pggroup[k])
  BY <1>1, <1>2, <1>3
<1> QED BY <1>1, <1>3, HeardKeeps

(* The list changes in nothing.                                               *)
LEMMA IgnoredKeeps ==
    ASSUME PGInv, NEW msg, Hears(msg), UNCHANGED <<pggroup, listCall>>
    PROVE  PGInv'
<1>1. SameGroups /\ \A i \in DOMAIN pggroup : Alike(pggroup[i], pggroup'[i])
  BY GroupsStill
<1> QED BY <1>1, HeardKeeps

(* What is known of the groups is not what the invariant is about.            *)
LEMMA InfoCameKeeps ==
    ASSUME PGInv, InfoCame
    PROVE  PGInv'
<1> SUFFICES ASSUME NEW msg, Hears(msg), listCall' = listCall, pggroup' = parse_info(msg)
             PROVE  PGInv'
  BY IgnoredKeeps DEF InfoCame
<1>1. Hears(msg) /\ pggroup' = parse_info(msg) /\ listCall' = listCall
  OBVIOUS
<1>2. PGTypes /\ GroupsOk
  BY ChannelOk
<1>3. PICK n \in Nat : n = Len(pggroup) /\ DOMAIN pggroup = 1..n
  BY <1>2, LenProperties DEF PGTypes
<1>4. ASSUME NEW i \in DOMAIN pggroup
      PROVE  /\ Alike(pggroup[i], pggroup'[i])
             /\ \A s \in LeftBy(pggroup'[i]) : s \in LeftBy(pggroup[i])
  <2>1. CASE pggroup'[i] = pggroup[i]
    BY <1>2, <2>1, SameIsAlike
  <2>2. CASE pggroup'[i] = [pggroup[i] EXCEPT !.informed = TRUE]
    <3>1. PICK pg, x : pg = pggroup[i] /\ x = [pg EXCEPT !.informed = TRUE]
      OBVIOUS
    <3>2. pg \in GroupType
      BY <1>2, <3>1, GroupsAre
    <3>3. x \in GroupType /\ x.invite = pg.invite /\ x.uri = pg.uri /\ x.member = pg.member
          /\ x.getMembers = pg.getMembers /\ x.asked = pg.asked /\ x.hasDetails = pg.hasDetails
      BY <3>1, <3>2 DEF GroupType
    <3>4. Alike(pg, x)
      BY <1>2, <3>1, <3>3, SameIsAlike DEF Alike
    <3>5. LeftBy(x) = LeftBy(pg)
      BY <3>3 DEF LeftBy
    <3> QED BY <2>2, <3>1, <3>4, <3>5
  <2> QED BY <1>1, <2>1, <2>2 DEF parse_info
<1>5. SameGroups
  <2>1. pggroup' = [i \in 1..n |-> pggroup'[i]] /\ DOMAIN pggroup' = 1..n
    BY <1>1, <1>3 DEF parse_info
  <2>2. \A i \in 1..n : pggroup'[i] \in GroupType /\ pggroup'[i].uri = pggroup[i].uri
    BY <1>3, <1>4 DEF Alike
  <2>3. pggroup' \in [1..n -> GroupType]
    BY <2>1, <2>2
  <2>4. pggroup' \in Seq(GroupType)
    BY <2>3
  <2> QED BY <1>3, <2>1, <2>2, <2>4 DEF SameGroups
<1> QED BY <1>1, <1>4, <1>5, HeardKeeps

(* One field of one member.                                                   *)
LEMMA MemberShown ==
    ASSUME PGInv, NEW i \in DOMAIN pggroup, NEW k \in DOMAIN pggroup[i].member,
           NEW y \in MemberType, y.uri = pggroup[i].member[k].uri,
           y.getInfo = pggroup[i].member[k].getInfo,
           y.contact \in {None, pggroup[i].member[k].uri},
           NEW x, x = [pggroup[i] EXCEPT !.member = [pggroup[i].member EXCEPT ![k] = y]]
    PROVE  Alike(pggroup[i], x) /\ x.invite = pggroup[i].invite
<1>1. PGTypes /\ GroupsOk
  BY ChannelOk
<1>2. PICK pg : pg = pggroup[i]
  OBVIOUS
<1>3. PICK m : m = [pg.member EXCEPT ![k] = y]
  OBVIOUS
<1>4. pg \in GroupType /\ pg.member \in Seq(MemberType)
  BY <1>1, <1>2, GroupsAre
<1>5. /\ m \in Seq(MemberType) /\ Len(m) = Len(pg.member) /\ DOMAIN m = DOMAIN pg.member
      /\ m[k] = y /\ \A j \in DOMAIN pg.member : j # k => m[j] = pg.member[j]
  BY <1>2, <1>3, <1>4, MemberSet
<1>6. x \in GroupType /\ x.uri = pg.uri /\ x.member = m /\ x.asked = pg.asked
      /\ x.getMembers = pg.getMembers /\ x.invite = pg.invite /\ x.hasDetails = pg.hasDetails
  BY <1>2, <1>3, <1>4, <1>5 DEF GroupType
<1>7. \A j \in DOMAIN pg.member : pg.member[j].contact \in {None, pg.member[j].uri}
  BY <1>1, <1>2 DEF GroupsOk, MembersOk
<1>8. ASSUME NEW j \in DOMAIN pg.member
      PROVE  /\ m[j].uri = pg.member[j].uri /\ m[j].getInfo = pg.member[j].getInfo
             /\ m[j].contact \in {None, pg.member[j].uri}
  <2>1. CASE j = k
    BY <1>2, <1>5, <2>1
  <2>2. CASE j # k
    BY <1>5, <1>7, <1>8, <2>2
  <2> QED BY <2>1, <2>2
<1> QED BY <1>2, <1>5, <1>6, <1>8 DEF Alike

(* What comes for a member is about that member.                              *)
LEMMA ContactCameKeeps ==
    ASSUME PGInv, NEW g \in Known, ContactCame(g)
    PROVE  PGInv'
<1>1. PGTypes /\ GroupsOk
  BY ChannelOk
<1>2. PICK i \in DOMAIN pggroup :
         pggroup[i].uri = g /\ At(g) = {i} /\ Of(g) = pggroup[i] /\ g \in Groups
  BY <1>1, Found
<1>3. PICK pg : pg = pggroup[i]
  OBVIOUS
<1>4. PICK msg : \E k \in DOMAIN pg.member :
         /\ Hears(msg) /\ IsReply(msg, pg.member[k].getInfo) /\ listCall' = listCall
         /\ pggroup' = IF msg.body.kind = "contact"
                       THEN Change(g, [pg EXCEPT !.member[k].contact = msg.body.user]) ELSE pggroup
  <2>1. PICK msg \in Messages : \E k \in DOMAIN Of(g).member :
           /\ Hears(msg) /\ IsReply(msg, Of(g).member[k].getInfo) /\ listCall' = listCall
           /\ pggroup' = IF msg.body.kind = "contact"
                         THEN Change(g, [Of(g) EXCEPT !.member[k].contact = msg.body.user])
                         ELSE pggroup
    BY Zenon DEF ContactCame, parse_contact_info
  <2>2. Of(g) = pg
    BY <1>2, <1>3
  <2> QED BY <2>1, <2>2
<1>7. PICK k \in DOMAIN pg.member :
         /\ Hears(msg) /\ IsReply(msg, pg.member[k].getInfo) /\ listCall' = listCall
         /\ pggroup' = IF msg.body.kind = "contact"
                       THEN Change(g, [pg EXCEPT !.member[k].contact = msg.body.user]) ELSE pggroup
  BY <1>4
<1>5. CASE msg.body.kind # "contact"
  BY <1>7, <1>5, IgnoredKeeps
<1>6. CASE msg.body.kind = "contact"
  <2>1. msg \in MessageType /\ 1 \in DOMAIN inbox /\ msg = inbox[1]
    BY <1>7, HearsIs
  <2>2. PICK r : r = Left(pg.member[k].getInfo, "contact", pg.member[k].uri)
    OBVIOUS
  <2>3. r.id = pg.member[k].getInfo /\ r.kind = "contact" /\ r.user = pg.member[k].uri
    BY <2>2 DEF Left
  <2>4. IsReply(msg, r.id) /\ (r.id # 0 => r \in Remembered)
    BY <1>3, <1>7, <2>2, <2>3, LeftIs
  <2>5. Fits(r, msg.body.kind, msg.body.user)
    BY <1>6, <2>1, <2>4, ReplyFits
  <2>6. msg.body.user = pg.member[k].uri
    BY <2>3, <2>5 DEF Fits
  <2>7. pg.member[k] \in MemberType
    BY <1>1, <1>3, GroupsAre
  <2>8. PICK y : y = [pg.member[k] EXCEPT !.contact = msg.body.user]
    OBVIOUS
  <2>9. /\ y \in MemberType /\ y.uri = pg.member[k].uri /\ y.getInfo = pg.member[k].getInfo
        /\ y.contact = pg.member[k].uri
    BY <2>6, <2>7, <2>8 DEF MemberType
  <2>10. PICK x : x = [pg EXCEPT !.member = [pg.member EXCEPT ![k] = y]]
    OBVIOUS
  <2>11. x = [pg EXCEPT !.member[k].contact = msg.body.user]
    BY <2>8, <2>10
  <2>12. Alike(pggroup[i], x) /\ x.invite = pggroup[i].invite
    BY <1>3, <2>9, <2>10, MemberShown
  <2>13. pggroup' = Change(g, x)
    BY <1>7, <1>6, <2>11
  <2> QED BY <1>2, <1>7, <2>12, <2>13, ShownKeeps
<1> QED BY <1>5, <1>6

(* The first of a name is found where there is one.                           *)
LEMMA FirstIs ==
    ASSUME NEW member \in Seq(MemberType), NEW name, Has(member, name)
    PROVE  First(member, name) \in DOMAIN member
<1>1. PICK n \in Nat : DOMAIN member = 1..n
  BY LenProperties
<1>2. PICK T : T = {i \in DOMAIN member : member[i].uri = name}
  OBVIOUS
<1>3. T \in SUBSET Nat /\ T # {}
  BY <1>1, <1>2 DEF Has
<1>4. PICK i \in T : \A j \in T : i <= j
  BY <1>3, LeastElement
<1>5. i \in 1..n /\ member[i].uri = name
  BY <1>1, <1>2
<1>6. \A j \in 1..(i - 1) : member[j].uri # name
  <2> SUFFICES ASSUME NEW j \in 1..(i - 1), member[j].uri = name PROVE FALSE
    OBVIOUS
  <2>1. j \in T
    BY <1>1, <1>2, <1>5
  <2> QED BY <1>4, <1>5, <2>1
<1> QED BY <1>1, <1>5, <1>6 DEF First

(* A member that is present.                                                  *)
LEMMA MemberPresentKeeps ==
    ASSUME PGInv, MemberPresent
    PROVE  PGInv'
<1> SUFFICES ASSUME NEW msg, Hears(msg), listCall' = listCall, pggroup' = parse_member(msg)
             PROVE  PGInv'
  BY IgnoredKeeps DEF MemberPresent
<1>1. Hears(msg) /\ pggroup' = parse_member(msg) /\ listCall' = listCall
  OBVIOUS
<1>2. PGTypes /\ GroupsOk
  BY ChannelOk
<1>3. PICK g, name : g = msg.body.user /\ name = msg.body.ids[1]
  OBVIOUS
<1>4. CASE ~(At(g) # {} /\ Has(Of(g).member, name))
  BY <1>1, <1>3, <1>4, IgnoredKeeps DEF parse_member
<1>5. CASE At(g) # {} /\ Has(Of(g).member, name)
  <2>1. g \in Known
    BY <1>5 DEF At, Known
  <2>2. PICK i \in DOMAIN pggroup : pggroup[i].uri = g /\ At(g) = {i} /\ Of(g) = pggroup[i]
    BY <1>2, <2>1, Found
  <2>3. PICK pg : pg = pggroup[i]
    OBVIOUS
  <2>4. pg.member \in Seq(MemberType) /\ \A j \in DOMAIN pg.member : pg.member[j] \in MemberType
    BY <1>2, <2>3, GroupsAre
  <2>5. PICK k : k = First(pg.member, name)
    OBVIOUS
  <2>6. k \in DOMAIN pg.member
    BY <1>5, <2>2, <2>3, <2>4, <2>5, FirstIs
  <2>7. PICK y : y = [pg.member[k] EXCEPT !.status = 1]
    OBVIOUS
  <2>8. /\ y \in MemberType /\ y.uri = pg.member[k].uri /\ y.getInfo = pg.member[k].getInfo
        /\ y.contact = pg.member[k].contact
    BY <2>4, <2>6, <2>7 DEF MemberType
  <2>9. y.contact \in {None, pg.member[k].uri}
    BY <1>2, <2>3, <2>6, <2>8 DEF GroupsOk, MembersOk
  <2>10. PICK x : x = [pg EXCEPT !.member = [pg.member EXCEPT ![k] = y]]
    OBVIOUS
  <2>11. x = [pg EXCEPT !.member[k].status = 1]
    BY <2>7, <2>10
  <2>12. Alike(pggroup[i], x) /\ x.invite = pggroup[i].invite
    BY <2>3, <2>6, <2>8, <2>9, <2>10, MemberShown
  <2>13. pggroup' = Change(g, x)
    BY <1>1, <1>3, <1>5, <2>2, <2>3, <2>5, <2>11 DEF parse_member
  <2> QED BY <1>1, <2>2, <2>12, <2>13, ShownKeeps
<1> QED BY <1>4, <1>5

(* The new members come before the old ones, the last of the answer first.    *)
LEMMA EnteredIs ==
    ASSUME NEW member \in Seq(MemberType), NEW users \in Seq(Users),
           NEW m, m = Entered(member, users)
    PROVE  /\ m \in Seq(MemberType)
           /\ Len(users) \in Nat /\ DOMAIN users = 1..Len(users)
           /\ Len(m) = Len(users) + Len(member) /\ DOMAIN m = 1..(Len(users) + Len(member))
           /\ \A j \in 1..Len(users) : m[j] = PGGroupMember_new(users[Len(users) - j + 1])
           /\ \A j \in 1..Len(member) : m[Len(users) + j] = member[j]
<1>1. PICK n \in Nat : n = Len(users) /\ DOMAIN users = 1..n
  BY LenProperties
<1>2. Len(member) \in Nat
  BY LenProperties
<1>3. PICK new : new = [i \in 1..n |-> PGGroupMember_new(users[i])]
  OBVIOUS
<1>4. \A i \in 1..n : new[i] \in MemberType
  <2>1. \A i \in 1..n : users[i] \in Users
    BY <1>1, ElementOfSeq
  <2> QED BY <1>3, <2>1 DEF PGGroupMember_new, MemberType
<1>5. new \in Seq(MemberType) /\ Len(new) = n
  <2>1. new \in [1..n -> MemberType]
    BY <1>3, <1>4
  <2>2. new \in Seq(MemberType)
    BY <2>1
  <2>3. DOMAIN new = 1..n
    BY <1>3
  <2> QED BY <2>2, <2>3, LenProperties
<1>6. PICK back : back = [i \in 1..n |-> new[(n - i) + 1]]
  OBVIOUS
<1>7. \A i \in 1..n : (n - i) + 1 \in 1..n /\ back[i] = new[(n - i) + 1]
  BY <1>6
<1>8. back \in Seq(MemberType) /\ Len(back) = n
  <2>1. \A i \in 1..n : back[i] \in MemberType
    BY <1>4, <1>7
  <2>2. back \in [1..n -> MemberType]
    BY <1>6, <2>1
  <2>3. back \in Seq(MemberType)
    BY <2>2
  <2>4. DOMAIN back = 1..n
    BY <1>6
  <2> QED BY <2>3, <2>4, LenProperties
<1>9. m = back \o member
  <2>1. Reverse(new) = back
    BY <1>5, <1>6 DEF Reverse
  <2> QED BY <1>1, <1>3, <2>1 DEF Entered
<1>10. /\ m \in Seq(MemberType) /\ Len(m) = n + Len(member)
       /\ \A j \in 1..(n + Len(member)) : m[j] = IF j <= n THEN back[j] ELSE member[j - n]
  <2>1. back \in Seq(MemberType)
    BY <1>8
  <2>2. /\ back \o member \in Seq(MemberType)
        /\ Len(back \o member) = Len(back) + Len(member)
        /\ \A j \in 1..(Len(back) + Len(member)) :
              (back \o member)[j] = IF j <= Len(back) THEN back[j] ELSE member[j - Len(back)]
    BY <2>1, ConcatProperties
  <2> QED BY <1>8, <1>9, <2>2
<1>11. DOMAIN m = 1..(n + Len(member))
  BY <1>10, LenProperties
<1>12. \A j \in 1..n : m[j] = PGGroupMember_new(users[n - j + 1])
  <2> SUFFICES ASSUME NEW j \in 1..n PROVE m[j] = PGGroupMember_new(users[n - j + 1])
    OBVIOUS
  <2>1. j \in 1..(n + Len(member)) /\ j <= n
    BY <1>2
  <2>2. m[j] = back[j]
    BY <1>10, <2>1
  <2>3. back[j] = new[n - j + 1] /\ n - j + 1 \in 1..n
    BY <1>7
  <2> QED BY <1>3, <2>2, <2>3
<1>13. ASSUME NEW j \in 1..Len(member) PROVE m[n + j] = member[j]
  <2>1. n + j \in 1..(n + Len(member)) /\ ~(n + j <= n) /\ (n + j) - n = j
    BY <1>2
  <2> QED BY <1>10, <2>1
<1> QED BY <1>1, <1>10, <1>11, <1>12, <1>13

(* The members of a group are listed: nothing comes after them under the id   *)
(* that was left.                                                             *)
LEMMA ListedMembers ==
    ASSUME PGInv, NEW g \in Known, NEW msg, Hears(msg), IsReply(msg, Of(g).getMembers),
           msg.body.kind = "members", pggroup' = parse_member_list(msg), listCall' = listCall
    PROVE  PGInv'
<1>1. PGTypes /\ GroupsOk /\ IdsOld /\ Recognises /\ OnlyOnce
  BY ChannelOk
<1>2. PICK i \in DOMAIN pggroup :
         pggroup[i].uri = g /\ At(g) = {i} /\ Of(g) = pggroup[i] /\ g \in Groups
  BY <1>1, Found
<1>3. PICK pg : pg = pggroup[i]
  OBVIOUS
<1>4. /\ pg \in GroupType /\ MembersOk(pg) /\ DetailsOk(pg) /\ pg.member \in Seq(MemberType)
      /\ DOMAIN pg.member = 1..Len(pg.member) /\ Len(pg.member) \in Nat /\ pg.asked \in Nat
  BY <1>1, <1>3, GroupsAre DEF GroupsOk, GroupType
<1>5. /\ Way(0, "none", None) /\ ChannelTypes /\ sip' \in SipType
      /\ msg \in MessageType /\ 1 \in DOMAIN inbox /\ msg = inbox[1] /\ inbox' = Tail(inbox)
      /\ callid' = callid /\ line' = line /\ walk = None /\ walk' = None
      /\ asked' = asked /\ infoCall' = infoCall /\ Counted
  BY HearsIs
<1>6. PICK t : t = Left(pg.getMembers, "members", g)
  OBVIOUS
<1>7. t.id = pg.getMembers /\ t.kind = "members" /\ t.user = g
  BY <1>6 DEF Left
<1>8. /\ t \in Remembered /\ Fits(t, msg.body.kind, msg.body.user) /\ pg.getMembers # 0
      /\ msg.body \in OnTheWay(pg.getMembers) /\ msg.callid = pg.getMembers
  <2>1. IsReply(msg, t.id) /\ (t.id # 0 => t \in Remembered)
    BY <1>2, <1>3, <1>6, <1>7, LeftIs
  <2> QED BY <1>5, <1>7, <2>1, ReplyFits DEF IsReply
<1>9. msg.body.user = g
  BY <1>7, <1>8 DEF Fits
<1>10. PICK users : users = Members[g]
  OBVIOUS
<1>11. msg.body.ids = users /\ users \in Seq(Users) /\ IsInjective(users)
  BY <1>2, <1>5, <1>9, <1>10, PGAssumption DEF MessageType
<1>12. PICK m : m = Entered(pg.member, users)
  OBVIOUS
<1>13. /\ m \in Seq(MemberType)
       /\ Len(users) \in Nat /\ DOMAIN users = 1..Len(users)
       /\ Len(m) = Len(users) + Len(pg.member) /\ DOMAIN m = 1..(Len(users) + Len(pg.member))
       /\ \A j \in 1..Len(users) : m[j] = PGGroupMember_new(users[Len(users) - j + 1])
       /\ \A j \in 1..Len(pg.member) : m[Len(users) + j] = pg.member[j]
  BY <1>4, <1>11, <1>12, EnteredIs
<1>14. PICK x : x = [pg EXCEPT !.member = m]
  OBVIOUS
<1>15. x \in GroupType /\ x.uri = g /\ x.member = m /\ x.asked = pg.asked
       /\ x.getMembers = pg.getMembers /\ x.invite = pg.invite /\ x.hasDetails = pg.hasDetails
  BY <1>2, <1>3, <1>4, <1>13, <1>14 DEF GroupType
<1>16. pggroup' = Change(g, x)
  BY <1>2, <1>3, <1>9, <1>11, <1>12, <1>14 DEF parse_member_list
<1>17. /\ SameGroups /\ pggroup'[i] = x
       /\ \A j \in DOMAIN pggroup : j # i => pggroup'[j] = pggroup[j]
  BY <1>1, <1>2, <1>15, <1>16, Changed DEF SameGroups
<1>18. ASSUME NEW j \in DOMAIN m
       PROVE  \/ /\ j \in 1..Len(users)
                 /\ Len(users) - j + 1 \in DOMAIN users
                 /\ m[j].uri = users[Len(users) - j + 1] /\ m[j].getInfo = 0
                 /\ m[j].contact = None
              \/ \E k \in DOMAIN pg.member : m[j] = pg.member[k]
  <2>1. CASE j <= Len(users)
    <3>1. m[j] = PGGroupMember_new(users[Len(users) - j + 1])
      BY <1>13, <2>1
    <3>2. Len(users) - j + 1 \in DOMAIN users /\ j \in 1..Len(users)
      BY <1>13, <2>1
    <3> QED BY <3>1, <3>2 DEF PGGroupMember_new
  <2>2. CASE j > Len(users)
    <3>1. PICK k : k = j - Len(users)
      OBVIOUS
    <3>2. k \in 1..Len(pg.member) /\ j = Len(users) + k
      BY <1>4, <1>13, <2>2, <3>1
    <3> QED BY <1>4, <1>13, <3>2
  <2> QED BY <1>13, <2>1, <2>2
<1>19. \A j \in DOMAIN m : /\ m[j].uri \in ToSet(users)
                           /\ m[j].contact \in {None, m[j].uri}
  <2>1. \A k \in DOMAIN pg.member : /\ pg.member[k].uri \in ToSet(users)
                                    /\ pg.member[k].contact \in {None, pg.member[k].uri}
    BY <1>2, <1>3, <1>4, <1>10 DEF MembersOk
  <2> QED BY <1>18, <2>1 DEF ToSet
<1>20. pg.asked # 0 /\ (pg.asked <= 1 => pg.member = <<>>)
  BY <1>8, <1>4 DEF MembersOk
<1>21. pg.asked <= 1 => \A j, k \in DOMAIN m : m[j].uri = m[k].uri => j = k
  <2> SUFFICES ASSUME pg.asked <= 1, NEW j \in DOMAIN m, NEW k \in DOMAIN m, m[j].uri = m[k].uri
               PROVE  j = k
    OBVIOUS
  <2>1. DOMAIN pg.member = {}
    BY <1>20
  <2>2. PICK a, b : a = Len(users) - j + 1 /\ b = Len(users) - k + 1
    OBVIOUS
  <2>3. a \in DOMAIN users /\ b \in DOMAIN users /\ users[a] = users[b]
        /\ j \in 1..Len(users) /\ k \in 1..Len(users)
    BY <1>18, <2>1, <2>2
  <2>4. a = b
    BY <1>11, <2>3 DEF IsInjective
  <2> QED BY <1>13, <2>2, <2>3, <2>4
<1>22. OnTheWay(pg.getMembers)' = {}
  <2>1. PICK c : c = pg.getMembers
    OBVIOUS
  <2>2. Once(c) /\ msg.callid = c
    BY <1>1, <1>7, <1>8, <2>1 DEF OnlyOnce
  <2>3. ASSUME NEW j \in DOMAIN inbox', inbox'[j].callid = c PROVE FALSE
    <3>1. PICK s : s = Tail(inbox)
      OBVIOUS
    <3>2. inbox \in Seq(MessageType) /\ inbox # <<>>
      BY <1>1, <1>5 DEF PGTypes
    <3>3. /\ DOMAIN s = 1..(Len(inbox) - 1) /\ \A k \in 1..(Len(inbox) - 1) : s[k] = inbox[k + 1]
          /\ Len(inbox) \in Nat /\ DOMAIN inbox = 1..Len(inbox)
      BY <3>1, <3>2, TailIs, LenProperties
    <3>4. j + 1 \in DOMAIN inbox /\ inbox[j + 1].callid = c /\ j + 1 # 1
      BY <1>5, <2>3, <3>1, <3>3
    <3> QED BY <1>5, <2>2, <3>4 DEF Once
  <2>4. ASSUME NEW j \in DOMAIN asked', asked'[j].callid = c PROVE FALSE
    BY <1>5, <2>2, <2>4 DEF Once
  <2>5. \A body : body \notin OnTheWay(c)'
    BY <2>3, <2>4, OnTheWayIs
  <2> QED BY <2>1, <2>5
<1>23. x.hasDetails => x.member # <<>>
  <2>1. x.hasDetails => Len(pg.member) # 0
    BY <1>4, <1>15, EmptySeq DEF MembersOk
  <2>2. x.hasDetails => Len(m) # 0
    BY <1>4, <1>13, <2>1
  <2> QED BY <1>13, <1>15, <2>2, EmptySeq
<1>24. MembersOk(x)'
  <2>1. OnTheWay(x.getMembers)' = {}
    BY <1>15, <1>22
  <2> QED BY <1>4, <1>8, <1>10, <1>15, <1>19, <1>20, <1>21, <1>23, <2>1 DEF MembersOk
<1>25. DetailsOk(x)'
  <2>1. x.hasDetails /\ x.asked <= 1 => FALSE
    BY <1>4, <1>15, <1>20 DEF MembersOk
  <2> QED BY <2>1 DEF DetailsOk
<1>26. PICK n, kind : n = 0 /\ kind = "none"
  OBVIOUS
<1>27. PICK r, user : r = Left(0, "none", None) /\ user = None
  OBVIOUS
<1>28. Way(n, kind, user) /\ Ground(n, kind, user)
  BY <1>5, <1>26, <1>27 DEF Ground
<1>29. \A s \in LeftBy(x) : s.id = 0 \/ s \in LeftBy(pggroup[i]) \/ s = r
  <2>1. ASSUME NEW j \in DOMAIN m, NEW s, s = Left(m[j].getInfo, "contact", m[j].uri)
        PROVE  s.id = 0 \/ s \in LeftBy(pg)
    <3>1. CASE m[j].getInfo = 0
      BY <2>1, <3>1 DEF Left
    <3>2. CASE \E k \in DOMAIN pg.member : m[j] = pg.member[k]
      BY <2>1, <3>2 DEF LeftBy
    <3> QED BY <1>18, <3>1, <3>2
  <2>2. /\ Left(x.getMembers, "members", x.uri) \in LeftBy(pg)
        /\ Left(x.invite, "invitation", x.uri) \in LeftBy(pg)
    BY <1>2, <1>3, <1>15 DEF LeftBy
  <2>3. LeftBy(x) = {Left(x.getMembers, "members", x.uri), Left(x.invite, "invitation", x.uri)}
                       \cup {Left(m[j].getInfo, "contact", m[j].uri) : j \in DOMAIN m}
    BY <1>15 DEF LeftBy
  <2> QED BY <1>3, <2>1, <2>2, <2>3
<1>30. \A s \in Remembered' : s \in Remembered \/ s = r
  BY <1>5, <1>17, <1>29, OneLeaves
<1>31. Leaves(r, n, kind, user)
  BY <1>27, <1>30 DEF Leaves, Left
<1>32. GroupsOk'
  <2>1. \A y, j : y.uri # x.uri /\ Walking(y, j) => Walking(y, j)'
    BY <1>5 DEF Walking
  <2> QED BY <1>5, <1>17, <1>24, <1>25, <1>28, <2>1, OneChanged
<1>33. WalkFine
  BY <1>5 DEF WalkFine
<1> QED BY <1>5, <1>17, <1>28, <1>31, <1>32, <1>33, StepKept

(* An answer about members; one that is refused or read amiss lists nobody.   *)
LEMMA MembersCameKeeps ==
    ASSUME PGInv, NEW g \in Known, MembersCame(g)
    PROVE  PGInv'
<1>1. PICK msg : /\ Hears(msg) /\ IsReply(msg, Of(g).getMembers) /\ listCall' = listCall
                 /\ \/ msg.body.kind = "members" /\ pggroup' = parse_member_list(msg)
                    \/ pggroup' = pggroup
  BY DEF MembersCame
<1>2. CASE pggroup' = pggroup
  BY <1>1, <1>2, IgnoredKeeps
<1>3. CASE msg.body.kind = "members" /\ pggroup' = parse_member_list(msg)
  BY <1>1, <1>3, ListedMembers
<1> QED BY <1>1, <1>2, <1>3

(* A reply that nobody asks for any more.                                     *)
LEMMA ReplyDroppedKeeps ==
    ASSUME PGInv, ReplyDropped
    PROVE  PGInv'
<1>1. PICK msg : Hears(msg) /\ UNCHANGED <<pggroup, listCall>>
  BY DEF ReplyDropped
<1> QED BY <1>1, IgnoredKeeps

(* An acknowledgement goes out under the call id of the invitation.           *)
LEMMA send_invite_ackKeeps ==
    ASSUME PGInv, NEW g \in Known, send_invite_ack(g)
    PROVE  PGInv'
<1>1. PGTypes /\ GroupsOk /\ callid \in Nat \ {0} /\ Channel /\ TypeOK
  BY ChannelOk
<1>2. PICK i \in DOMAIN pggroup :
         pggroup[i].uri = g /\ At(g) = {i} /\ Of(g) = pggroup[i] /\ g \in Groups
  BY <1>1, Found
<1>3. PICK pg, x : pg = pggroup[i] /\ x = [pg EXCEPT !.hasAcked = TRUE]
  OBVIOUS
<1>4. PICK type, headers : type = "A" /\ headers = <<To(g)>>
  OBVIOUS
<1>5. PICK kind \in {"message", "ack"} : kind = "ack"
  OBVIOUS
<1>6. type \in Types /\ headers \in Seq(HeaderLines) /\ Len(headers) = HeadersOf(kind)
  <2>1. To(g) \in HeaderLines
    BY <1>2 DEF To, HeaderLines, HeaderTags
  <2>2. headers \in Seq(HeaderLines) /\ Len(headers) = 1
    BY <1>4, <2>1, HeadersAre
  <2> QED BY <1>4, <1>5, <2>2 DEF Types, HeadersOf
<1>7. PICK n : n = pg.invite
  OBVIOUS
<1>8. PICK s : s = set_callid(Stamped(type, headers), n)
  OBVIOUS
<1>9. /\ callid' = callid + 1 /\ line' = line /\ sip' = [s EXCEPT !.header = <<>>]
      /\ asked' = IF line = "open"
                  THEN Append(asked, to_string(s, Body(kind, g, <<>>))) ELSE asked
      /\ inbox # <<>> /\ inbox' = Tail(inbox) /\ walk = None
      /\ pggroup' = Change(g, x)
      /\ UNCHANGED <<listCall, infoCall, walk, made, news, joined>>
  <2>1. PICK msg \in Messages :
           /\ callid' = callid + 1 /\ line' = line /\ msg.callid = Of(g).invite
           /\ sip' = [set_callid(Stamped("A", <<To(g)>>), msg.callid) EXCEPT !.header = <<>>]
           /\ asked' = IF line = "open"
                       THEN Append(asked, to_string(set_callid(Stamped("A", <<To(g)>>), msg.callid),
                                                    Body("ack", g, <<>>)))
                       ELSE asked
           /\ inbox' = Tail(inbox) /\ walk = None
           /\ pggroup' = Change(g, [Of(g) EXCEPT !.hasAcked = TRUE])
           /\ UNCHANGED <<listCall, infoCall, walk, made, news, joined>>
    BY DEF send_invite_ack, Ready, IsReply
  <2>2. msg.callid = n
    BY <1>2, <1>3, <1>7, <2>1
  <2>3. s = set_callid(Stamped("A", <<To(g)>>), msg.callid)
    BY <1>4, <1>8, <2>2
  <2>4. inbox # <<>>
    BY <2>1 DEF Messages, ToSet
  <2>5. pggroup' = Change(g, x)
    BY <1>2, <1>3, <2>1
  <2> QED BY <1>5, <2>1, <2>3, <2>4, <2>5
<1>10. PICK b \in {0, 1} : b = 1
  OBVIOUS
<1>11. Takes(b)
  BY <1>9, <1>10 DEF Takes
<1>12. /\ Way(n, kind, g) /\ Ground(n, kind, g)
       /\ ChannelTypes /\ sip' \in SipType /\ n # callid
  <2>1. n = pggroup[i].invite
    BY <1>3, <1>7
  <2>2. asked' = IF line = "open"
                 THEN Append(asked, to_string(s, Body(kind, pggroup[i].uri, <<>>))) ELSE asked
    BY <1>2, <1>9
  <2>3. /\ Way(n, kind, pggroup[i].uri) /\ Ground(n, kind, pggroup[i].uri)
        /\ ChannelTypes /\ sip' \in SipType /\ n # callid
    BY <1>6, <1>8, <1>9, <1>11, <2>1, <2>2, UnderIs
  <2> QED BY <1>2, <2>3
<1>13. pg \in GroupType
  BY <1>1, <1>3, GroupsAre
<1>14. x \in GroupType /\ x.invite = pg.invite /\ x.uri = pg.uri /\ x.member = pg.member
       /\ x.getMembers = pg.getMembers /\ x.asked = pg.asked /\ x.hasDetails = pg.hasDetails
  BY <1>3, <1>13 DEF GroupType
<1>15. Alike(pggroup[i], x)
  BY <1>1, <1>3, <1>14, SameIsAlike DEF Alike
<1>16. /\ SameGroups /\ pggroup'[i] = x
       /\ \A j \in DOMAIN pggroup : j # i => pggroup'[j] = pggroup[j]
       /\ \A k \in DOMAIN pggroup : Alike(pggroup[k], pggroup'[k])
  BY <1>2, <1>9, <1>15, ChangedAlike
<1>17. PICK r : r = Left(0, "none", None)
  OBVIOUS
<1>18. \A t \in LeftBy(x) : t \in LeftBy(pggroup[i])
  BY <1>3, <1>14 DEF LeftBy
<1>19. \A t \in Remembered' : t \in Remembered \/ t = r
  BY <1>9, <1>16, <1>18, OneLeaves
<1>20. Leaves(r, n, kind, g)
  BY <1>17, <1>19 DEF Leaves, Left
<1>21. Counted
  <2>1. ServerFine
    BY <1>1, <1>9 DEF ServerFine, PGTypes, TypeOK
  <2>2. callid <= callid' /\ callid' \in Nat
    BY <1>1, <1>9
  <2> QED BY <1>9, <2>1, <2>2, CountedStill
<1> QED BY <1>9, <1>12, <1>16, <1>20, <1>21, PlainStep

-----------------------------------------------------------------------------
(* The list, from the start and each time it comes. *)

NewGroups == {PGGroup_new(g) : g \in Groups}

(* Nothing is known of a new group, and it has left no call id.               *)
LEMMA NewGroup ==
    ASSUME NEW pg \in NewGroups
    PROVE  /\ pg \in GroupType /\ \A r \in LeftBy(pg) : r.id = 0
           /\ MembersOk(pg) /\ DetailsOk(pg) /\ MembersOk(pg)' /\ DetailsOk(pg)'
<1>1. PICK g \in Groups : pg = PGGroup_new(g)
  BY DEF NewGroups
<1>2. PICK none : none = <<>>
  OBVIOUS
<1>3. none \in Seq(MemberType) /\ DOMAIN none = {}
  BY <1>2, EmptySeq
<1>4. /\ pg.uri = g /\ pg.hasDetails = FALSE /\ pg.invite = 0 /\ pg.getMembers = 0
      /\ pg.asked = 0 /\ pg.member = none
  BY <1>1, <1>2 DEF PGGroup_new
<1>5. pg \in GroupType
  BY <1>1, <1>2, <1>3 DEF PGGroup_new, GroupType
<1>6. \A r \in LeftBy(pg) : r.id = 0
  BY <1>3, <1>4 DEF LeftBy, Left
<1>7. MembersOk(pg) /\ MembersOk(pg)'
  BY <1>2, <1>3, <1>4 DEF MembersOk
<1>8. DetailsOk(pg) /\ DetailsOk(pg)'
  BY <1>4 DEF DetailsOk
<1> QED BY <1>5, <1>6, <1>7, <1>8

(* One group more, in front or at the end, that is not in the list.           *)
LEMMA PutIs ==
    ASSUME NEW list \in Seq(NewGroups), NEW pg \in NewGroups,
           \A i, j \in DOMAIN list : list[i].uri = list[j].uri => i = j,
           \A i \in DOMAIN list : list[i].uri # pg.uri,
           NEW l, l \in {append(list, pg), prepend(list, pg)}
    PROVE  /\ l \in Seq(NewGroups)
           /\ \A i, j \in DOMAIN l : l[i].uri = l[j].uri => i = j
           /\ \A i \in DOMAIN l : l[i] = pg \/ \E j \in DOMAIN list : l[i] = list[j]
<1>1. PICK n \in Nat : n = Len(list) /\ DOMAIN list = 1..n
  BY LenProperties
<1>2. CASE l = append(list, pg)
  <2>1. PICK one : one = <<pg>>
    OBVIOUS
  <2>2. one \in Seq(NewGroups) /\ Len(one) = 1 /\ one[1] = pg
    BY <2>1
  <2>3. /\ one \o list \in Seq(NewGroups)
        /\ Len(one \o list) = Len(one) + Len(list)
        /\ \A i \in 1..(Len(one) + Len(list)) :
              (one \o list)[i] = IF i <= Len(one) THEN one[i] ELSE list[i - Len(one)]
    BY <2>2, ConcatProperties
  <2>4. l = one \o list
    BY <1>2, <2>1 DEF append
  <2>5. l \in Seq(NewGroups) /\ Len(l) = 1 + n
        /\ \A i \in 1..(1 + n) : l[i] = IF i <= 1 THEN one[i] ELSE list[i - 1]
    BY <1>1, <2>2, <2>3, <2>4
  <2>6. DOMAIN l = 1..(1 + n)
    BY <2>5, LenProperties
  <2>7. \A i \in 1..(1 + n) : \/ i = 1 /\ l[i] = pg
                              \/ i - 1 \in 1..n /\ l[i] = list[i - 1]
    BY <2>2, <2>5
  <2>8. ASSUME NEW i \in 1..(1 + n), NEW j \in 1..(1 + n), l[i].uri = l[j].uri
        PROVE  i = j
    <3>1. CASE i = 1 /\ l[i] = pg
      BY <1>1, <2>7, <2>8, <3>1
    <3>2. CASE i - 1 \in 1..n /\ l[i] = list[i - 1]
      <4>1. j - 1 \in 1..n /\ l[j] = list[j - 1]
        BY <1>1, <2>7, <2>8, <3>2
      <4>2. i - 1 = j - 1
        BY <1>1, <2>8, <3>2, <4>1
      <4> QED BY <4>2
    <3> QED BY <2>7, <3>1, <3>2
  <2> QED BY <1>1, <2>5, <2>6, <2>7, <2>8
<1>3. CASE l = prepend(list, pg)
  <2>1. /\ l \in Seq(NewGroups)
        /\ DOMAIN l = 1..(n + 1)
        /\ \A i \in 1..n : l[i] = list[i]
        /\ l[n + 1] = pg
    BY <1>1, <1>3, AppendIs DEF prepend
  <2>2. \A i \in 1..(n + 1) : \/ i = n + 1 /\ l[i] = pg
                              \/ i \in 1..n /\ l[i] = list[i]
    BY <2>1
  <2>3. ASSUME NEW i \in 1..(n + 1), NEW j \in 1..(n + 1), l[i].uri = l[j].uri
        PROVE  i = j
    <3>1. CASE i = n + 1 /\ l[i] = pg
      BY <1>1, <2>2, <2>3, <3>1
    <3>2. CASE i \in 1..n /\ l[i] = list[i]
      BY <1>1, <2>2, <2>3, <3>2
    <3> QED BY <2>2, <3>1, <3>2
  <2> QED BY <1>1, <2>1, <2>2, <2>3
<1> QED BY <1>2, <1>3

(* What is put into the list at its n-th step.                                *)
Entry(uris, n, list) ==
    IF uris[n] \in Owned THEN prepend(list, PGGroup_new(uris[n]))
    ELSE append(list, PGGroup_new(uris[n]))

(* The list is built group after group.                                       *)
LEMMA ParseSteps ==
    ASSUME NEW uris \in Seq(Groups), NEW n \in Nat, n = Len(uris)
    PROVE  \E f : /\ parse_list(uris) = f[n] /\ f[0] = <<>>
                  /\ \A i \in 1..n : f[i] = Entry(uris, i, f[i - 1])
<1> DEFINE Q == Seq(NewGroups)
<1>1. <<>> \in Q /\ \A i \in 1..n : \A s \in Q : Entry(uris, i, s) \in Q
  <2>1. ASSUME NEW i \in 1..n, NEW s \in Q PROVE Entry(uris, i, s) \in Q
    <3>1. uris[i] \in Groups
      BY ElementOfSeq
    <3>2. PICK pg \in NewGroups : pg = PGGroup_new(uris[i])
      BY <3>1 DEF NewGroups
    <3>3. prepend(s, pg) \in Q
      BY AppendProperties DEF prepend
    <3>4. append(s, pg) \in Q
      <4>1. PICK one : one = <<pg>>
        OBVIOUS
      <4>2. one \in Seq(NewGroups)
        BY <4>1
      <4> QED BY <4>1, <4>2, ConcatProperties DEF append
    <3> QED BY <3>2, <3>3, <3>4 DEF Entry
  <2> QED BY <2>1, EmptySeq
<1> DEFINE step == [i \in 1..n |-> [s \in Q |-> Entry(uris, i, s)]]
           Unfold(f) == [i \in 0..Len(uris) |-> IF i = 0 THEN <<>> ELSE Entry(uris, i, f[i - 1])]
           F == CHOOSE f : f = Unfold(f)
<1> HIDE DEF Q
<1>2. step \in [1..n -> [Q -> Q]]
  BY <1>1
<1>3. PICK f \in [0..n -> Q] : f[0] = <<>> /\ \A i \in 1..n : f[i] = step[i][f[i - 1]]
  <2> DEFINE base == <<>>
  <2>1. base \in Q
    BY <1>1
  <2> HIDE DEF step, base
  <2>2. \E f \in [0..n -> Q] : Iterates(f, base, step, n)
    BY <2>1, <1>2, Iteration
  <2> QED BY <2>2 DEF base, Iterates
<1>4. ASSUME NEW i \in 1..n
      PROVE  f[i] = Entry(uris, i, f[i - 1])
  <2>1. f[i - 1] \in Q
    <3>1. i - 1 \in 0..n
      OBVIOUS
    <3> QED BY <3>1, <1>3
  <2> QED BY <2>1, <1>3
<1>5. f = Unfold(f)
  <2>1. ASSUME NEW i \in 0..n PROVE f[i] = Unfold(f)[i]
    <3>1. CASE i = 0
      BY <3>1, <1>3
    <3>2. CASE i # 0
      <4>1. f[i] = Entry(uris, i, f[i - 1])
        <5>1. i \in 1..n
          BY <3>2
        <5> QED BY <5>1, <1>4
      <4>2. Unfold(f)[i] = Entry(uris, i, f[i - 1])
        BY <3>2
      <4> QED BY <4>1, <4>2
    <3> QED BY <3>1, <3>2
  <2>2. Unfold(f) = [i \in 0..n |-> Unfold(f)[i]]
    OBVIOUS
  <2>3. f = [i \in 0..n |-> f[i]]
    BY <1>3
  <2> QED BY <2>1, <2>2, <2>3
<1>6. F = Unfold(F)
  <2> HIDE DEF Unfold
  <2> QED BY <1>5
<1>7. \A i \in 0..n : F[i] = IF i = 0 THEN <<>> ELSE Entry(uris, i, F[i - 1])
  <2> HIDE DEF F
  <2> QED BY <1>6
<1>8. parse_list(uris) = F[n]
  BY DEF parse_list, Entry
<1> HIDE DEF F
<1>9. F[0] = <<>> /\ \A i \in 1..n : F[i] = Entry(uris, i, F[i - 1])
  BY <1>7
<1> QED BY <1>8, <1>9

(* Groups named once are listed once.                                         *)
LEMMA ParsedIs ==
    ASSUME NEW uris \in Seq(Groups), Distinct(uris), NEW l, l = parse_list(uris)
    PROVE  /\ l \in Seq(NewGroups)
           /\ \A i, j \in DOMAIN l : l[i].uri = l[j].uri => i = j
<1>1. PICK n \in Nat : n = Len(uris) /\ DOMAIN uris = 1..n
  BY LenProperties
<1>2. PICK f : /\ parse_list(uris) = f[n] /\ f[0] = <<>>
               /\ \A i \in 1..n : f[i] = Entry(uris, i, f[i - 1])
  BY <1>1, ParseSteps
<1> DEFINE Fine(k) == /\ f[k] \in Seq(NewGroups)
                      /\ \A i, j \in DOMAIN f[k] : f[k][i].uri = f[k][j].uri => i = j
                      /\ \A i \in DOMAIN f[k] : \E j \in 1..k : f[k][i].uri = uris[j]
           P == {k \in 0..n : Fine(k)}
<1>3. 0 \in P
  <2>1. PICK none : none = f[0]
    OBVIOUS
  <2>2. none \in Seq(NewGroups) /\ DOMAIN none = {}
    BY <1>2, <2>1, EmptySeq
  <2>3. Fine(0)
    BY <2>1, <2>2
  <2> QED BY <2>3
<1>4. ASSUME NEW k \in 1..n, k - 1 \in P PROVE k \in P
  <2>1. PICK list : list = f[k - 1]
    OBVIOUS
  <2>2. /\ list \in Seq(NewGroups)
        /\ \A i, j \in DOMAIN list : list[i].uri = list[j].uri => i = j
        /\ \A i \in DOMAIN list : \E j \in 1..(k - 1) : list[i].uri = uris[j]
    BY <1>4, <2>1
  <2>3. uris[k] \in Groups
    BY <1>1, ElementOfSeq
  <2>4. PICK pg \in NewGroups : pg = PGGroup_new(uris[k])
    BY <2>3 DEF NewGroups
  <2>5. pg.uri = uris[k]
    BY <2>4 DEF PGGroup_new
  <2>6. \A j \in 1..(k - 1) : uris[j] # uris[k]
    BY <1>1 DEF Distinct
  <2>7. \A i \in DOMAIN list : list[i].uri # pg.uri
    BY <2>2, <2>5, <2>6
  <2>8. PICK m : m = f[k]
    OBVIOUS
  <2>9. m \in {append(list, pg), prepend(list, pg)}
    BY <1>2, <2>1, <2>4, <2>8 DEF Entry
  <2>10. /\ m \in Seq(NewGroups)
         /\ \A i, j \in DOMAIN m : m[i].uri = m[j].uri => i = j
         /\ \A i \in DOMAIN m : m[i] = pg \/ \E j \in DOMAIN list : m[i] = list[j]
    BY <2>2, <2>7, <2>9, PutIs
  <2>11. \A i \in DOMAIN m : \E j \in 1..k : m[i].uri = uris[j]
    <3> SUFFICES ASSUME NEW i \in DOMAIN m PROVE \E j \in 1..k : m[i].uri = uris[j]
      OBVIOUS
    <3>1. CASE m[i] = pg
      BY <2>5, <3>1
    <3>2. CASE \E j \in DOMAIN list : m[i] = list[j]
      <4>1. \E j \in 1..(k - 1) : m[i].uri = uris[j]
        BY <2>2, <3>2
      <4>2. 1..(k - 1) \subseteq 1..k
        OBVIOUS
      <4> QED BY <4>1, <4>2
    <3> QED BY <2>10, <3>1, <3>2
  <2> QED BY <2>8, <2>10, <2>11
<1> HIDE DEF P
<1>5. \A k \in 0..n : k \in P
  BY <1>3, <1>4, UpTo
<1>6. n \in 0..n
  OBVIOUS
<1>7. Fine(n)
  BY <1>5, <1>6 DEF P
<1> QED BY <1>2, <1>7

(* A new list is a list of groups that are all listed once and as new.        *)
LEMMA NewList ==
    ASSUME NEW uris \in Seq(Groups), Distinct(uris), NEW l, l = parse_list(uris)
    PROVE  /\ l \in Seq(GroupType)
           /\ \A i, j \in DOMAIN l : l[i].uri = l[j].uri => i = j
           /\ \A i \in DOMAIN l : l[i] \in NewGroups /\ l[i].uri \in Groups
<1>1. /\ l \in Seq(NewGroups)
      /\ \A i, j \in DOMAIN l : l[i].uri = l[j].uri => i = j
  BY ParsedIs
<1>2. NewGroups \subseteq GroupType
  BY NewGroup
<1>3. l \in Seq(GroupType)
  BY <1>1, <1>2, SeqLarger
<1>4. \A i \in DOMAIN l : l[i] \in NewGroups
  BY <1>1, ElementOfSeq, LenProperties
<1>5. \A i \in DOMAIN l : l[i].uri \in Groups
  BY <1>2, <1>4 DEF GroupType
<1> QED BY <1>1, <1>3, <1>4, <1>5

(* The list that came names the groups of the answer, and nothing else of them. *)
LEMMA NewListIs ==
    ASSUME PGInv, ListCame
    PROVE  /\ pggroup' \in Seq(GroupType)
           /\ \A i, j \in DOMAIN pggroup' : pggroup'[i].uri = pggroup'[j].uri => i = j
           /\ \A i \in DOMAIN pggroup' :
                 pggroup'[i] \in NewGroups /\ pggroup'[i].uri \in Groups /\ pggroup'[i].invite = 0
<1>1. PICK msg : /\ Hears(msg) /\ IsReply(msg, listCall)
                 /\ pggroup' = parse_list(msg.body.ids) /\ listCall' = listCall
  BY DEF ListCame
<1>2. msg \in MessageType /\ 1 \in DOMAIN inbox /\ msg = inbox[1]
  BY <1>1, HearsIs
<1>3. PICK uris : uris = msg.body.ids
  OBVIOUS
<1>4. uris \in Seq(Groups) /\ Distinct(uris)
  <2>1. CASE msg.body.kind \in {"none", "nothing"}
    <3>1. uris = <<>>
      BY <1>2, <1>3, <2>1 DEF MessageType
    <3> QED BY <3>1, EmptySeq DEF Distinct
  <2>2. CASE msg.body.kind \notin {"none", "nothing"}
    <3>1. PICK t : t = Left(listCall, "groups", None)
      OBVIOUS
    <3>2. t.id = listCall /\ t.kind = "groups"
      BY <3>1 DEF Left
    <3>3. IsReply(msg, t.id) /\ (t.id # 0 => t \in Remembered)
      BY <1>1, <3>1, <3>2 DEF Remembered
    <3>4. Fits(t, msg.body.kind, msg.body.user)
      BY <1>2, <2>2, <3>3, ReplyFits
    <3>5. msg.body.kind = "groups"
      BY <3>2, <3>4 DEF Fits
    <3> QED BY <1>2, <1>3, <3>5 DEF MessageType
  <2> QED BY <2>1, <2>2
<1>5. /\ pggroup' \in Seq(GroupType)
      /\ \A i, j \in DOMAIN pggroup' : pggroup'[i].uri = pggroup'[j].uri => i = j
      /\ \A i \in DOMAIN pggroup' : pggroup'[i] \in NewGroups /\ pggroup'[i].uri \in Groups
  <2>1. PICK l : l = parse_list(uris)
    OBVIOUS
  <2>2. /\ l \in Seq(GroupType)
        /\ \A i, j \in DOMAIN l : l[i].uri = l[j].uri => i = j
        /\ \A i \in DOMAIN l : l[i] \in NewGroups /\ l[i].uri \in Groups
    BY <1>4, <2>1, NewList
  <2> QED BY <1>1, <1>3, <2>1, <2>2
<1>6. \A pg \in NewGroups : pg.invite = 0
  BY DEF NewGroups, PGGroup_new
<1> QED BY <1>5, <1>6

(* The list came: what the old one had left is forgotten.                     *)
LEMMA ListCameKeeps ==
    ASSUME PGInv, ListCame
    PROVE  PGInv'
<1>1. PGTypes /\ IdsOld /\ Recognises /\ OnlyOnce /\ TypeOK
      /\ callid \in Nat \ {0}
  BY ChannelOk
<1>2. PICK msg : /\ Hears(msg) /\ IsReply(msg, listCall)
                 /\ pggroup' = parse_list(msg.body.ids) /\ listCall' = listCall
  BY DEF ListCame
<1>3. /\ Way(0, "none", None) /\ ChannelTypes /\ sip' \in SipType
      /\ msg \in MessageType /\ 1 \in DOMAIN inbox /\ msg = inbox[1]
      /\ callid' = callid /\ walk' = None /\ infoCall' = infoCall /\ Counted
  BY <1>2, HearsIs
<1>6. /\ pggroup' \in Seq(GroupType)
      /\ \A i, j \in DOMAIN pggroup' : pggroup'[i].uri = pggroup'[j].uri => i = j
      /\ \A i \in DOMAIN pggroup' : pggroup'[i] \in NewGroups /\ pggroup'[i].uri \in Groups
  BY NewListIs
<1>7. PICK n, kind : n = 0 /\ kind = "none"
  OBVIOUS
<1>8. PICK r, user : r = Left(0, "none", None) /\ user = None
  OBVIOUS
<1>9. Way(n, kind, user) /\ Ground(n, kind, user)
  BY <1>3, <1>7, <1>8 DEF Ground
<1>10. \A s \in Remembered' : s \in Remembered
  <2> SUFFICES ASSUME NEW s \in Remembered' PROVE s \in Remembered
    OBVIOUS
  <2>1. s.id # 0
    BY DEF Remembered
  <2>2. CASE s \in {Left(listCall, "groups", None), Left(infoCall, "info", None)}
    BY <2>1, <2>2 DEF Remembered
  <2>3. ASSUME NEW i \in DOMAIN pggroup', s \in LeftBy(pggroup'[i]) PROVE FALSE
    BY <1>6, <2>1, <2>3, NewGroup
  <2>4. \/ s \in {Left(listCall', "groups", None), Left(infoCall', "info", None)}
        \/ \E i \in DOMAIN pggroup' : s \in LeftBy(pggroup'[i])
    BY DEF Remembered
  <2> QED BY <1>2, <1>3, <2>2, <2>3, <2>4
<1>11. Leaves(r, n, kind, user)
  BY <1>8, <1>10 DEF Leaves, Left
<1>12. IdsOld' /\ Recognises' /\ OnlyOnce'
  BY <1>1, <1>9, <1>11, RecognisesKept
<1>14. GroupsOk'
  <2>1. \A i \in DOMAIN pggroup' : (MembersOk(pggroup[i]) /\ DetailsOk(pggroup[i]))'
    <3> SUFFICES ASSUME NEW i \in DOMAIN pggroup'
                 PROVE  (MembersOk(pggroup[i]) /\ DetailsOk(pggroup[i]))'
      OBVIOUS
    <3>1. PICK pg : pg = pggroup'[i]
      OBVIOUS
    <3>2. MembersOk(pg)' /\ DetailsOk(pg)'
      BY <1>6, <3>1, NewGroup
    <3> QED BY <3>1, <3>2
  <2> QED BY <2>1 DEF GroupsOk
<1>15. TypeOK'
  <2>1. Known' \subseteq Groups
    BY <1>6 DEF Known
  <2> QED BY <1>1, <1>3, <1>6, <2>1 DEF TypeOK, Counted, ServerFine
<1>16. PGTypes'
  BY <1>3, <1>6, <1>15 DEF PGTypes, ChannelTypes, SipType, Counted, ServerFine
<1> QED BY <1>12, <1>14, <1>16 DEF PGInv

-----------------------------------------------------------------------------
(* The invariant. *)

(* The list at the start names the groups the user is in.                     *)
LEMMA FirstList ==
    ASSUME Init
    PROVE  /\ joined \in Seq(Groups) /\ Distinct(joined) /\ pggroup \in Seq(GroupType)
           /\ \A i, j \in DOMAIN pggroup : pggroup[i].uri = pggroup[j].uri => i = j
           /\ \A i \in DOMAIN pggroup :
                 pggroup[i] \in NewGroups /\ pggroup[i].uri \in Groups /\ pggroup[i].invite = 0
<1>1. pggroup = parse_list(joined) /\ joined \in SetToSeqs(Groups)
  BY DEF Init
<1>2. joined \in Seq(Groups) /\ Distinct(joined)
  <2>1. /\ joined \in [1..Cardinality(Groups) -> Groups]
        /\ \A i, j \in 1..Cardinality(Groups) : i # j => joined[i] # joined[j]
    BY <1>1, Zenon DEF SetToSeqs
  <2>2. PICK k \in Nat : k = Cardinality(Groups)
    BY PGAssumption, FS_CardinalityType
  <2>3. joined \in [1..k -> Groups]
    BY <2>1, <2>2
  <2>4. joined \in Seq(Groups)
    BY <2>3
  <2>5. DOMAIN joined = 1..Cardinality(Groups)
    BY <2>1
  <2> QED BY <2>1, <2>4, <2>5 DEF Distinct
<1>3. \A pg \in NewGroups : pg.invite = 0
  BY DEF NewGroups, PGGroup_new
<1> QED BY <1>1, <1>2, <1>3, NewList

(* At the start nothing is asked for, and the list is new.                    *)
LEMMA InitSound == Init => PGInv
<1> SUFFICES ASSUME Init PROVE PGInv
  OBVIOUS
<1>1. /\ callid = 1 /\ sip = FetionSip_new /\ asked = <<>> /\ inbox = <<>>
      /\ pggroup = parse_list(joined) /\ listCall = 0 /\ infoCall = 0 /\ walk = None
      /\ made = 0 /\ news = 0 /\ joined \in SetToSeqs(Groups)
  BY DEF Init, RequestsInit
<1>2. joined \in Seq(Groups) /\ Distinct(joined)
  BY FirstList
<1>3. /\ pggroup \in Seq(GroupType)
      /\ \A i, j \in DOMAIN pggroup : pggroup[i].uri = pggroup[j].uri => i = j
      /\ \A i \in DOMAIN pggroup : pggroup[i] \in NewGroups /\ pggroup[i].uri \in Groups
  BY FirstList
<1>4. TypeOK
  <2>1. MaxCalls \in Nat /\ MaxNews \in Nat
    BY PGAssumption
  <2>2. Known \subseteq Groups
    BY <1>3 DEF Known
  <2> QED BY <1>1, <1>3, <2>1, <2>2 DEF TypeOK
<1>5. PGTypes
  <2>1. sip \in [type : Types, callid : Nat, header : {<<>>}]
    BY <1>1 DEF FetionSip_new, Types
  <2>2. asked \in Seq(RequestType) /\ inbox \in Seq(MessageType)
    BY <1>1, EmptySeq
  <2> QED BY <1>1, <1>2, <1>3, <1>4, <2>1, <2>2 DEF PGTypes
<1>6. ASSUME NEW r \in Remembered PROVE FALSE
  <2>1. r.id # 0
    BY DEF Remembered
  <2>2. \A s \in {Left(listCall, "groups", None), Left(infoCall, "info", None)} : s.id = 0
    BY <1>1 DEF Left
  <2>3. \A i \in DOMAIN pggroup : \A s \in LeftBy(pggroup[i]) : s.id = 0
    BY <1>3, NewGroup
  <2>4. \/ r \in {Left(listCall, "groups", None), Left(infoCall, "info", None)}
        \/ \E i \in DOMAIN pggroup : r \in LeftBy(pggroup[i])
    BY DEF Remembered
  <2> QED BY <2>1, <2>2, <2>3, <2>4
<1>7. DOMAIN asked = {} /\ DOMAIN inbox = {}
  BY <1>1
<1>8. IdsOld
  BY <1>6, <1>7 DEF IdsOld
<1>9. Recognises /\ OnlyOnce
  BY <1>6 DEF Recognises, OnlyOnce
<1>11. GroupsOk
  BY <1>3, NewGroup DEF GroupsOk
<1> QED BY <1>5, <1>8, <1>9, <1>11 DEF PGInv

(* A step of nobody.                                                          *)
LEMMA StutterSound ==
    ASSUME PGInv, UNCHANGED vars
    PROVE  PGInv'
<1> USE DEF vars, pgVars, requestVars
<1>1. IdsOld' /\ Recognises' /\ OnlyOnce'
  BY DEF PGInv, IdsOld, Recognises, OnlyOnce, Once, Remembered, OnTheWay
<1>3. GroupsOk'
  <2>1. \A id : OnTheWay(id)' = OnTheWay(id)
    BY DEF OnTheWay
  <2>2. \A pg : MembersOk(pg) => MembersOk(pg)'
    BY <2>1 DEF MembersOk
  <2>3. \A pg : DetailsOk(pg) => DetailsOk(pg)'
    BY DEF DetailsOk, Walking
  <2> QED BY <2>2, <2>3 DEF PGInv, GroupsOk
<1>4. PGTypes'
  BY DEF PGInv, PGTypes, TypeOK, Known, Of, At
<1> QED BY <1>1, <1>3, <1>4 DEF PGInv

(* Every call, whatever comes and whatever the server does keep the invariant. *)
LEMMA StepSound == PGInv /\ [Next]_vars => PGInv'
<1> SUFFICES ASSUME PGInv, [Next]_vars PROVE PGInv'
  OBVIOUS
<1>1. CASE GroupCalls
  <2>1. CASE get_list
    BY <2>1, get_listKeeps
  <2>2. CASE get_info
    BY <2>2, get_infoKeeps
  <2>3. ASSUME NEW g \in Known,
               \/ subscribe(g) \/ get_group_members(g) \/ update_group_info(g)
               \/ send_invitation(g) \/ send_message(g) \/ send_sms(g)
        PROVE  PGInv'
    BY <2>3, subscribeKeeps, get_group_membersKeeps, update_group_infoKeeps,
       send_invitationKeeps, send_messageKeeps, send_smsKeeps
  <2>4. CASE UpdateNext
    BY <2>4, UpdateNextKeeps
  <2> QED BY <1>1, <2>1, <2>2, <2>3, <2>4 DEF GroupCalls
<1>2. CASE Client
  <2>1. CASE ListCame
    BY <2>1, ListCameKeeps
  <2>2. CASE InfoCame
    BY <2>2, InfoCameKeeps
  <2>3. ASSUME NEW g \in Known, MembersCame(g) \/ ContactCame(g) \/ send_invite_ack(g)
        PROVE  PGInv'
    BY <2>3, MembersCameKeeps, ContactCameKeeps, send_invite_ackKeeps
  <2>4. CASE MemberPresent
    BY <2>4, MemberPresentKeeps
  <2>5. CASE ReplyDropped
    BY <2>5, ReplyDroppedKeeps
  <2> QED BY <1>2, <2>1, <2>2, <2>3, <2>4, <2>5 DEF Client
<1>3. CASE Server
  BY <1>3, ServerSteps
<1>4. CASE UNCHANGED vars
  BY <1>4, StutterSound
<1> QED BY <1>1, <1>2, <1>3, <1>4 DEF Next

(* The call ids left behind tell the answers apart, whatever is asked, comes, *)
(* is refused or is lost (LOF_group.c, user->pgGroupCallId and the call ids   *)
(* of the groups and their members).                                          *)
THEOREM PGGroupsSound == Spec => []PGInv
<1> QED BY InitSound, StepSound, PTL DEF Spec

(* The groups are groups and listed once, and a walk over the members of a    *)
(* group is at a member of a listed group: update_group_info never runs off   *)
(* the list it walks over (LOF_group.c:628).                                  *)
THEOREM PGGroupsTyped == Spec => []TypeOK
<1>1. PGInv => TypeOK
  BY DEF PGInv, PGTypes
<1> QED BY <1>1, PGGroupsSound, PTL

(* Whatever comes back under a call id goes to the parser for what was asked, *)
(* and names the group or the member that was asked about.                    *)
THEOREM CallIdsRecognise == Spec => []IdsRecognise
<1>1. PGInv => IdsRecognise
  <2> SUFFICES ASSUME PGInv PROVE IdsRecognise
    OBVIOUS
  <2>1. ASSUME NEW r \in Remembered, NEW body \in OnTheWay(r.id)
        PROVE  Fits(r, body.kind, body.user)
    BY ChannelOk, <2>1 DEF Recognises
  <2>2. listCall # 0 => \A body \in OnTheWay(listCall) : body.kind = "groups"
    <3>1. PICK r : r = Left(listCall, "groups", None)
      OBVIOUS
    <3>2. r.id = listCall /\ r.kind = "groups" /\ (listCall # 0 => r \in Remembered)
      BY <3>1 DEF Left, Remembered
    <3> QED BY <2>1, <3>2 DEF Fits
  <2>3. infoCall # 0 => \A body \in OnTheWay(infoCall) : body.kind = "info"
    <3>1. PICK r : r = Left(infoCall, "info", None)
      OBVIOUS
    <3>2. r.id = infoCall /\ r.kind = "info" /\ (infoCall # 0 => r \in Remembered)
      BY <3>1 DEF Left, Remembered
    <3> QED BY <2>1, <3>2 DEF Fits
  <2>4. ASSUME NEW i \in DOMAIN pggroup, NEW pg, pg = pggroup[i]
        PROVE  /\ pg.getMembers # 0 => \A body \in OnTheWay(pg.getMembers) :
                      body.kind = "members" /\ body.user = pg.uri
               /\ pg.invite # 0 => \A body \in OnTheWay(pg.invite) :
                      body.kind \in {"invitation", "message", "ack"} /\ body.user = pg.uri
               /\ \A j \in DOMAIN pg.member : pg.member[j].getInfo # 0 =>
                      \A body \in OnTheWay(pg.member[j].getInfo) :
                         body.kind = "contact" /\ body.user = pg.member[j].uri
    <3>1. PICK r, s : /\ r = Left(pg.getMembers, "members", pg.uri)
                      /\ s = Left(pg.invite, "invitation", pg.uri)
      OBVIOUS
    <3>2. /\ r.id = pg.getMembers /\ r.kind = "members" /\ r.user = pg.uri
          /\ s.id = pg.invite /\ s.kind = "invitation" /\ s.user = pg.uri
      BY <3>1 DEF Left
    <3>3. /\ pg.getMembers # 0 => r \in Remembered
          /\ pg.invite # 0 => s \in Remembered
      BY <2>4, <3>1, LeftIs
    <3>4. ASSUME NEW j \in DOMAIN pg.member, pg.member[j].getInfo # 0,
                 NEW body \in OnTheWay(pg.member[j].getInfo)
          PROVE  body.kind = "contact" /\ body.user = pg.member[j].uri
      <4>1. PICK t : t = Left(pg.member[j].getInfo, "contact", pg.member[j].uri)
        OBVIOUS
      <4>2. t.id = pg.member[j].getInfo /\ t.kind = "contact" /\ t.user = pg.member[j].uri
        BY <4>1 DEF Left
      <4>3. t \in Remembered
        BY <2>4, <3>4, <4>1, LeftIs
      <4> QED BY <2>1, <3>4, <4>2, <4>3 DEF Fits
    <3> QED BY <2>1, <3>2, <3>3, <3>4 DEF Fits
  <2> QED BY <2>2, <2>3, <2>4 DEF IdsRecognise
<1> QED BY <1>1, PGGroupsSound, PTL

(* The members of a group are listed once if they were asked for once, and    *)
(* nobody is listed who is no member (LOF_group.c:440).                       *)
THEOREM NobodyListedTwice == Spec => []NobodyTwice
<1>1. PGInv => NobodyTwice
  BY DEF PGInv, GroupsOk, MembersOk, NobodyTwice
<1> QED BY <1>1, PGGroupsSound, PTL

(* Once a group has details and the walk over it has ended, every member was  *)
(* asked about, but for a channel that broke and members listed again.        *)
THEOREM EveryDetailAsked == Spec => []DetailsForAll
<1>1. PGInv => DetailsForAll
  BY DEF PGInv, GroupsOk, DetailsOk, Walking, DetailsForAll
<1> QED BY <1>1, PGGroupsSound, PTL

(* No header is left on the struct for the next request to take along         *)
(* (LOF_sip.c, fetion_sip_to_string).                                         *)
THEOREM PGHeadersOwn == Spec => []HeadersOwn
<1>1. PGInv => HeadersOwn
  <2> SUFFICES ASSUME PGInv, NEW i \in DOMAIN asked
               PROVE  Len(asked[i].header) = HeadersOf(asked[i].body.kind)
    BY DEF HeadersOwn, HeadersOf
  <2>1. asked[i] \in RequestType
    BY ChannelOk, ElementOfSeq, LenProperties DEF PGTypes
  <2> QED BY <2>1 DEF RequestType
<1> QED BY <1>1, PGGroupsSound, PTL

-----------------------------------------------------------------------------
(* Messages and their invitations.  What follows rests on PGInv.               *)

(* The invitations the list names: the last of each group, 0 for none.         *)
Current ==
    {v \in {Invitation(pggroup[j].invite, pggroup[j].uri) : j \in DOMAIN pggroup} : v.id # 0}

(* Is the request at j the invitation v, or a message or an acknowledgement    *)
(* under it?                                                                   *)
Under(j, v) == asked[j].callid = v.id /\ asked[j].body.user = v.group
Invites(j, v) == asked[j].body.kind = "invitation" /\ Under(j, v)

(* A message is under an invitation the server has had, or has before it.      *)
InvitedBefore ==
    \A i \in DOMAIN asked : asked[i].body.kind = "message" =>
        \/ asked[i].callid = 0
        \/ Invitation(asked[i].callid, asked[i].body.user) \in invited
        \/ \E j \in 1..(i - 1) : Invites(j, Invitation(asked[i].callid, asked[i].body.user))

(* The group was invited anew, if at all, after the message.                   *)
InvitedAfter ==
    \A i \in DOMAIN asked : asked[i].body.kind = "message" =>
        \A v \in Current : v.group = asked[i].body.user /\ ~Under(i, v) =>
            \E j \in (i + 1)..Len(asked) : Invites(j, v)

AcksInvited ==
    \A i \in DOMAIN asked : asked[i].body.kind = "ack" =>
        Invitation(asked[i].callid, asked[i].body.user) \in invited

(* What the list names the server has had, or has before it, unless the        *)
(* channel broke; and nothing is answered under it before.                     *)
CurrentGiven ==
    /\ line = "open" => \A v \in Current :
           v \in invited \/ \E j \in 1..Len(asked) : Invites(j, v)
    /\ \A v \in Current, i \in DOMAIN inbox :
           inbox[i].kind = "reply" /\ inbox[i].callid = v.id => v \in invited
    /\ line # "open" => asked = <<>>

InvitationInv == InvitedBefore /\ InvitedAfter /\ AcksInvited /\ CurrentGiven

(* An invitation is named by a group of the list, now and after the step.      *)
LEMMA CurrentIs ==
    /\ \A v : v \in Current <=>
          \E j \in DOMAIN pggroup :
             /\ v = Invitation(pggroup[j].invite, pggroup[j].uri)
             /\ v.id = pggroup[j].invite /\ v.group = pggroup[j].uri /\ v.id # 0
    /\ \A v : v \in Current' <=>
          \E j \in DOMAIN pggroup' :
             /\ v = Invitation(pggroup'[j].invite, pggroup'[j].uri)
             /\ v.id = pggroup'[j].invite /\ v.group = pggroup'[j].uri /\ v.id # 0
  BY DEF Current, Invitation

(* A group is named with one invitation.                                       *)
LEMMA OneCurrent ==
    ASSUME PGTypes, NEW i \in DOMAIN pggroup
    PROVE  \A v \in Current : v.group = pggroup[i].uri => v.id = pggroup[i].invite
  BY CurrentIs DEF PGTypes, TypeOK

(* What changes a group elsewhere changes no invitation.                       *)
LEMMA CurrentStill ==
    ASSUME NEW g, NEW x, pggroup' = Change(g, x),
           At(g) # {} => x.uri = g /\ x.invite = Of(g).invite,
           \A i, j \in DOMAIN pggroup : pggroup[i].uri = pggroup[j].uri => i = j
    PROVE  Current' = Current
<1>1. DOMAIN pggroup' = DOMAIN pggroup
  BY DEF Change
<1>2. ASSUME NEW i \in DOMAIN pggroup
      PROVE  pggroup'[i].uri = pggroup[i].uri /\ pggroup'[i].invite = pggroup[i].invite
  <2>1. CASE i \in At(g)
    <3>1. \A k : k \in At(g) <=> k \in DOMAIN pggroup /\ pggroup[k].uri = g
      BY DEF At
    <3>2. At(g) = {i} /\ pggroup[i].uri = g
      BY <2>1, <3>1
    <3>3. Of(g) = pggroup[i]
      BY <3>2 DEF Of
    <3>4. pggroup'[i] = x
      BY <2>1 DEF Change
    <3> QED BY <2>1, <3>2, <3>3, <3>4
  <2>2. CASE i \notin At(g)
    BY <2>2 DEF Change
  <2> QED BY <2>1, <2>2
<1>3. \A v : v \in Current' <=> v \in Current
  BY <1>1, <1>2, CurrentIs
<1> QED BY <1>3

(* Nothing is written and nothing handled; no reply comes that was not there.  *)
NoNewReply ==
    \A i \in DOMAIN inbox' : inbox'[i].kind = "reply" =>
        \E k \in DOMAIN inbox : inbox[k].kind = "reply" /\ inbox[k].callid = inbox'[i].callid

(* A step that writes nothing and handles nothing invites nobody.              *)
LEMMA InvitedStill ==
    ASSUME InvitationInv, UNCHANGED <<asked, line, invited>>, NoNewReply, Current' \subseteq Current
    PROVE  InvitationInv'
<1>1. \A j, v : Invites(j, v)' = Invites(j, v) /\ Under(j, v)' = Under(j, v)
  BY DEF Invites, Under
<1>2. InvitedBefore'
  <2> SUFFICES ASSUME NEW i \in DOMAIN asked', asked'[i].body.kind = "message"
               PROVE  \/ asked'[i].callid = 0
                      \/ Invitation(asked'[i].callid, asked'[i].body.user) \in invited'
                      \/ \E j \in 1..(i - 1) :
                            (Invites(j, Invitation(asked[i].callid, asked[i].body.user)))'
    BY DEF InvitedBefore
  <2>1. PICK v : v = Invitation(asked[i].callid, asked[i].body.user)
    OBVIOUS
  <2>2. \/ asked[i].callid = 0 \/ v \in invited \/ \E j \in 1..(i - 1) : Invites(j, v)
    BY <2>1 DEF InvitationInv, InvitedBefore
  <2> QED BY <1>1, <2>1, <2>2 DEF Invites, Under
<1>3. InvitedAfter'
  BY <1>1 DEF InvitationInv, InvitedAfter, Invites, Under
<1>4. AcksInvited'
  BY DEF InvitationInv, AcksInvited
<1>5. CurrentGiven'
  <2>1. (line = "open" => \A v \in Current :
             v \in invited \/ \E j \in 1..Len(asked) : Invites(j, v))'
    BY DEF InvitationInv, CurrentGiven, Invites, Under
  <2>2. (\A v \in Current, i \in DOMAIN inbox :
           inbox[i].kind = "reply" /\ inbox[i].callid = v.id => v \in invited)'
    BY DEF InvitationInv, CurrentGiven, NoNewReply
  <2>3. (line # "open" => asked = <<>>)'
    BY DEF InvitationInv, CurrentGiven
  <2> QED BY <2>1, <2>2, <2>3 DEF CurrentGiven
<1> QED BY <1>2, <1>3, <1>4, <1>5 DEF InvitationInv

(* A request is written, if the channel is open.  Its invitation is the only new  *)
(* one; what is not an invitation is under the one the list names.                *)
LEMMA InvitedWrites ==
    ASSUME PGTypes, InvitationInv, UNCHANGED <<line, invited>>,
           NEW q, asked' = IF line = "open" THEN Append(asked, q) ELSE asked,
           NoNewReply,
           NEW w, w = Invitation(q.callid, q.body.user),
           \A v \in Current' : v \in Current \/
              /\ v = w /\ q.body.kind = "invitation"
              /\ \A i \in DOMAIN inbox : inbox[i].callid # q.callid,
           q.body.kind = "message" =>
              /\ q.callid = 0 \/ w \in Current
              /\ \A v \in Current' : v.group = q.body.user => v.id = q.callid,
           q.body.kind = "ack" => w \in invited
    PROVE  InvitationInv'
<1>1. w.id = q.callid /\ w.group = q.body.user
  BY DEF Invitation
<1>2. asked \in Seq(RequestType) /\ DOMAIN asked = 1..Len(asked) /\ Len(asked) \in Nat
  <2>1. asked \in Seq(RequestType)
    BY DEF PGTypes
  <2> QED BY <2>1, LenProperties
<1>3. CASE line = "open"
  <2>1. /\ Len(asked') = Len(asked) + 1 /\ DOMAIN asked' = 1..(Len(asked) + 1)
        /\ \A i \in 1..Len(asked) : asked'[i] = asked[i]
        /\ asked'[Len(asked) + 1] = q
    BY <1>2, <1>3
  <2>2. \A i \in 1..Len(asked) : \A v : /\ Invites(i, v)' <=> Invites(i, v)
                                        /\ Under(i, v)' <=> Under(i, v)
    BY <2>1 DEF Invites, Under
  <2> PICK last : last = Len(asked) + 1
    OBVIOUS
  <2>3. ASSUME NEW v \in Current', v \notin Current
        PROVE  /\ v = w /\ Invites(last, v)'
               /\ \A i \in DOMAIN inbox : inbox[i].callid # v.id
    BY <1>1, <2>1, <2>3 DEF Invites, Under
  <2>4. \A v \in Current : v \in invited \/ \E j \in 1..Len(asked) : Invites(j, v)
    BY <1>3 DEF InvitationInv, CurrentGiven
  <2>5. InvitedBefore'
    <3> SUFFICES ASSUME NEW i \in DOMAIN asked', asked'[i].body.kind = "message", asked'[i].callid # 0,
                        NEW v, v = Invitation(asked'[i].callid, asked'[i].body.user)
                 PROVE  v \in invited \/ \E j \in 1..(i - 1) : Invites(j, v)'
      BY DEF InvitedBefore, Invites, Under
    <3>1. CASE i \in 1..Len(asked)
      <4>1. v \in invited \/ \E j \in 1..(i - 1) : Invites(j, v)
        BY <1>2, <2>1, <3>1 DEF InvitationInv, InvitedBefore
      <4>2. \A j \in 1..(i - 1) : j \in 1..Len(asked)
        BY <1>2, <3>1
      <4> QED BY <2>2, <4>1, <4>2
    <3>2. CASE i = Len(asked) + 1
      <4>1. v = w /\ w \in Current /\ i - 1 = Len(asked)
        BY <1>2, <2>1, <3>2
      <4> QED BY <2>2, <2>4, <4>1
    <3> QED BY <1>2, <2>1, <3>1, <3>2
  <2>6. InvitedAfter'
    <3> SUFFICES ASSUME NEW i \in DOMAIN asked', asked'[i].body.kind = "message",
                        NEW v \in Current', v.group = asked'[i].body.user, ~Under(i, v)'
                 PROVE  \E j \in (i + 1)..Len(asked') : Invites(j, v)'
      BY DEF InvitedAfter, Invites, Under
    <3>1. CASE i = Len(asked) + 1
      BY <2>1, <3>1 DEF Under
    <3>2. CASE i \in 1..Len(asked)
      <4>1. CASE v \in Current
        <5>1. \E j \in (i + 1)..Len(asked) : Invites(j, v)
          BY <1>2, <2>1, <2>2, <3>2, <4>1 DEF InvitationInv, InvitedAfter
        <5>2. \A j \in (i + 1)..Len(asked) : j \in 1..Len(asked) /\ j \in (i + 1)..Len(asked')
          BY <1>2, <2>1, <3>2
        <5> QED BY <2>2, <5>1, <5>2
      <4>2. CASE v \notin Current
        <5>1. last \in (i + 1)..Len(asked')
          BY <1>2, <2>1, <3>2
        <5> QED BY <2>3, <4>2, <5>1
      <4> QED BY <4>1, <4>2
    <3> QED BY <1>2, <2>1, <3>1, <3>2
  <2>7. AcksInvited'
    <3> SUFFICES ASSUME NEW i \in DOMAIN asked', asked'[i].body.kind = "ack"
                 PROVE  Invitation(asked'[i].callid, asked'[i].body.user) \in invited
      BY DEF AcksInvited
    <3>1. CASE i \in 1..Len(asked)
      BY <1>2, <2>1, <3>1 DEF InvitationInv, AcksInvited
    <3>2. CASE i = Len(asked) + 1
      BY <2>1, <3>2
    <3> QED BY <1>2, <2>1, <3>1, <3>2
  <2>8. CurrentGiven'
    <3>1. ASSUME NEW v \in Current'
          PROVE  v \in invited \/ \E j \in 1..Len(asked') : Invites(j, v)'
      <4>1. Len(asked') = last
        BY <2>1
      <4>2. last \in 1..last /\ \A j \in 1..Len(asked) : j \in 1..last
        BY <1>2
      <4> QED BY <2>2, <2>3, <2>4, <4>1, <4>2
    <3>2. ASSUME NEW v \in Current', NEW i \in DOMAIN inbox',
                 inbox'[i].kind = "reply", inbox'[i].callid = v.id
          PROVE  v \in invited
      BY <2>3, <3>2 DEF NoNewReply, InvitationInv, CurrentGiven
    <3>3. (line = "open" => \A v \in Current :
             v \in invited \/ \E j \in 1..Len(asked) : Invites(j, v))'
      BY <3>1 DEF Invites, Under
    <3>4. (\A v \in Current, i \in DOMAIN inbox :
           inbox[i].kind = "reply" /\ inbox[i].callid = v.id => v \in invited)'
      BY <3>2
    <3>5. (line # "open" => asked = <<>>)'
      BY <1>3
    <3> QED BY <3>3, <3>4, <3>5 DEF CurrentGiven
  <2> QED BY <2>5, <2>6, <2>7, <2>8 DEF InvitationInv
<1>4. CASE line # "open"
  <2>1. asked = <<>> /\ asked' = <<>> /\ line' # "open"
    BY <1>4 DEF InvitationInv, CurrentGiven
  <2>2. InvitedBefore' /\ InvitedAfter' /\ AcksInvited'
    BY <2>1 DEF InvitedBefore, InvitedAfter, AcksInvited
  <2>3. ASSUME NEW v \in Current', NEW i \in DOMAIN inbox',
               inbox'[i].kind = "reply", inbox'[i].callid = v.id
        PROVE  v \in invited
    BY <1>1, <2>3 DEF NoNewReply, InvitationInv, CurrentGiven
  <2>4. CurrentGiven'
    BY <2>1, <2>3 DEF CurrentGiven
  <2> QED BY <2>2, <2>4 DEF InvitationInv
<1> QED BY <1>3, <1>4

(* The request before the server is handled.  An invitation it now has had; and   *)
(* whoever is answered under an invitation was, or had been, invited.             *)
LEMMA InvitedHandled ==
    ASSUME PGTypes, InvitationInv, asked # <<>>, NEW q, q = Head(asked),
           asked' = Tail(asked), line' = line, Current' = Current, invited \subseteq invited',
           NEW w, w = Invitation(q.callid, q.body.user),
           q.body.kind = "invitation" => w \in invited',
           \A v \in Current : v.id = q.callid =>
              q.body.kind \in {"invitation", "message", "ack"} /\ q.body.user = v.group,
           \A i \in DOMAIN inbox' : inbox'[i].kind = "reply" =>
              \/ \E k \in DOMAIN inbox : inbox[k].kind = "reply" /\ inbox[k].callid = inbox'[i].callid
              \/ inbox'[i].callid = q.callid /\ q.body.kind # "ack"
    PROVE  InvitationInv'
<1>1. w.id = q.callid /\ w.group = q.body.user
  BY DEF Invitation
<1>2. /\ asked \in Seq(RequestType) /\ DOMAIN asked = 1..Len(asked) /\ Len(asked) \in Nat \ {0}
      /\ q = asked[1]
  <2>1. asked \in Seq(RequestType)
    BY DEF PGTypes
  <2> QED BY <2>1, LenProperties, TailIs
<1>3. /\ DOMAIN asked' = 1..(Len(asked) - 1) /\ Len(asked') = Len(asked) - 1
      /\ \A i \in DOMAIN asked' : i + 1 \in DOMAIN asked /\ asked'[i] = asked[i + 1]
  BY <1>2
<1>4. line = "open"
  BY DEF InvitationInv, CurrentGiven
<1>5. \A i \in DOMAIN asked' : \A j, v : j = i + 1 =>
         (Invites(i, v)' <=> Invites(j, v)) /\ (Under(i, v)' <=> Under(j, v))
  BY <1>3 DEF Invites, Under
<1>6. ASSUME NEW v, v = Invitation(v.id, v.group), Invites(1, v)
      PROVE  v \in invited'
  BY <1>1, <1>2, <1>6 DEF Invites, Under
<1>7. \A v \in Current : v = Invitation(v.id, v.group)
  BY CurrentIs
<1>8. InvitedBefore'
  <2> SUFFICES ASSUME NEW i \in DOMAIN asked', asked'[i].body.kind = "message", asked'[i].callid # 0,
                      NEW v, v = Invitation(asked'[i].callid, asked'[i].body.user)
               PROVE  v \in invited' \/ \E j \in 1..(i - 1) : Invites(j, v)'
    BY DEF InvitedBefore, Invites, Under
  <2>1. v \in invited \/ \E j \in 1..i : Invites(j, v)
    BY <1>2, <1>3 DEF InvitationInv, InvitedBefore
  <2>2. ASSUME NEW j \in 1..i, Invites(j, v) PROVE v \in invited' \/ \E k \in 1..(i - 1) : Invites(k, v)'
    <3>1. CASE j = 1
      BY <1>6, <2>2, <3>1 DEF Invitation
    <3>2. CASE j # 1
      <4>1. PICK k : k = j - 1
        OBVIOUS
      <4>2. k \in 1..(i - 1) /\ k \in DOMAIN asked' /\ j = k + 1
        BY <1>2, <1>3, <3>2, <4>1
      <4> QED BY <1>5, <2>2, <4>2
    <3> QED BY <3>1, <3>2
  <2> QED BY <2>1, <2>2
<1>9. InvitedAfter'
  <2> SUFFICES ASSUME NEW i \in DOMAIN asked', asked'[i].body.kind = "message",
                      NEW v \in Current, v.group = asked'[i].body.user, ~Under(i, v)'
               PROVE  \E j \in (i + 1)..Len(asked') : Invites(j, v)'
    BY DEF InvitedAfter, Invites, Under
  <2>1. PICK j \in (i + 2)..Len(asked) : Invites(j, v)
    <3>1. PICK k : k = i + 1
      OBVIOUS
    <3>2. k \in DOMAIN asked /\ asked'[i] = asked[k] /\ ~Under(k, v)
      BY <1>3, <1>5, <3>1
    <3>3. \E j \in (k + 1)..Len(asked) : Invites(j, v)
      BY <3>2 DEF InvitationInv, InvitedAfter
    <3> QED BY <1>2, <1>3, <3>1, <3>3
  <2>2. PICK k : k = j - 1
    OBVIOUS
  <2>3. k \in (i + 1)..Len(asked') /\ k \in DOMAIN asked' /\ j = k + 1
    BY <1>2, <1>3, <2>2
  <2> QED BY <1>5, <2>1, <2>3
<1>10. AcksInvited'
  BY <1>3 DEF InvitationInv, AcksInvited
<1>11. CurrentGiven'
  <2>1. ASSUME NEW v \in Current
        PROVE  v \in invited' \/ \E j \in 1..Len(asked') : Invites(j, v)'
    <3>1. CASE v \in invited
      BY <3>1
    <3>2. ASSUME NEW j \in 1..Len(asked), Invites(j, v)
          PROVE  v \in invited' \/ \E k \in 1..Len(asked') : Invites(k, v)'
      <4>1. CASE j = 1
        BY <1>6, <1>7, <3>2, <4>1
      <4>2. CASE j # 1
        <5>1. PICK k : k = j - 1
          OBVIOUS
        <5>2. k \in 1..Len(asked') /\ k \in DOMAIN asked' /\ j = k + 1
          BY <1>2, <1>3, <4>2, <5>1
        <5> QED BY <1>5, <3>2, <5>2
      <4> QED BY <4>1, <4>2
    <3> QED BY <1>4, <3>1, <3>2 DEF InvitationInv, CurrentGiven
  <2>2. ASSUME NEW v \in Current, NEW i \in DOMAIN inbox',
               inbox'[i].kind = "reply", inbox'[i].callid = v.id
        PROVE  v \in invited'
    <3>1. CASE \E k \in DOMAIN inbox : inbox[k].kind = "reply" /\ inbox[k].callid = inbox'[i].callid
      BY <2>2, <3>1 DEF InvitationInv, CurrentGiven
    <3>2. CASE inbox'[i].callid = q.callid /\ q.body.kind # "ack"
      <4>1. v = w /\ q.body.kind \in {"invitation", "message"}
        BY <1>1, <1>7, <2>2, <3>2
      <4>2. CASE q.body.kind = "message"
        <5>1. v.id # 0
          BY CurrentIs
        <5>2. 1 \in DOMAIN asked /\ asked[1].callid # 0
          BY <1>2, <2>2, <3>2, <5>1
        <5>3. w \in invited
          BY <1>2, <4>2, <5>2 DEF InvitationInv, InvitedBefore
        <5> QED BY <4>1, <5>3
      <4> QED BY <4>1, <4>2
    <3> QED BY <2>2, <3>1, <3>2
  <2>3. (line = "open" => \A v \in Current :
             v \in invited \/ \E j \in 1..Len(asked) : Invites(j, v))'
    BY <2>1 DEF Invites, Under
  <2>4. (\A v \in Current, i \in DOMAIN inbox :
           inbox[i].kind = "reply" /\ inbox[i].callid = v.id => v \in invited)'
    BY <2>2
  <2>5. (line # "open" => asked = <<>>)'
    BY <1>4
  <2> QED BY <2>3, <2>4, <2>5 DEF CurrentGiven
<1> QED BY <1>8, <1>9, <1>10, <1>11 DEF InvitationInv

(* What was asked is lost with the channel.                                       *)
LEMMA InvitedBreaks ==
    ASSUME InvitationInv, LineBreaks
    PROVE  InvitationInv'
<1>1. asked' = <<>> /\ line' # "open" /\ invited' = invited /\ pggroup' = pggroup
      /\ inbox' \in {inbox, <<>>}
  BY DEF LineBreaks, Breaks, ServerUnchanged
<1>2. InvitedBefore' /\ InvitedAfter' /\ AcksInvited'
  BY <1>1 DEF InvitedBefore, InvitedAfter, AcksInvited
<1>3. Current' = Current
  BY <1>1 DEF Current
<1>4. ASSUME NEW v \in Current', NEW i \in DOMAIN inbox',
             inbox'[i].kind = "reply", inbox'[i].callid = v.id
      PROVE  v \in invited
  <2>1. i \in DOMAIN inbox /\ inbox' = inbox
    BY <1>1
  <2> QED BY <1>3, <1>4, <2>1 DEF InvitationInv, CurrentGiven
<1>5. CurrentGiven'
  BY <1>1, <1>4 DEF CurrentGiven
<1> QED BY <1>2, <1>5 DEF InvitationInv

(* A call that asks for something, and invites nobody.                            *)
LEMMA InvitedAsks ==
    ASSUME PGInv, InvitationInv, NEW s, NEW body, Write(s, body),
           body.kind \notin {"message", "ack"}, invited' = invited, Current' \subseteq Current
    PROVE  InvitationInv'
<1>1. PICK q : q = to_string(s, body)
  OBVIOUS
<1>2. q.body = body
  BY <1>1 DEF to_string
<1>3. /\ asked' = IF line = "open" THEN Append(asked, q) ELSE asked
      /\ UNCHANGED <<line, inbox>>
  BY <1>1 DEF Write
<1>4. PICK w : w = Invitation(q.callid, q.body.user)
  OBVIOUS
<1>5. NoNewReply
  BY <1>3 DEF NoNewReply
<1>6. PGTypes
  BY DEF PGInv
<1> QED BY <1>2, <1>3, <1>4, <1>5, <1>6, InvitedWrites

(* What a search of the list finds.                                            *)
LEMMA GroupIs ==
    ASSUME PGInv, NEW g, At(g) # {}
    PROVE  Of(g) \in GroupType /\ Of(g).uri = g
<1>1. PGTypes
  BY DEF PGInv
<1>2. g \in Known
  BY DEF At, Known
<1>3. PICK i \in DOMAIN pggroup :
         pggroup[i].uri = g /\ At(g) = {i} /\ Of(g) = pggroup[i] /\ g \in Groups
  BY <1>1, <1>2, Found
<1> QED BY <1>1, <1>3, GroupsAre

(* The calls that change no group.                                             *)
LEMMA PlainInvited ==
    ASSUME PGInv, InvitationInv,
           \/ get_list \/ get_info \/ \E g \in Known : subscribe(g) \/ send_sms(g)
    PROVE  InvitationInv'
<1>1. PICK s, body : /\ Write(s, body) /\ body.kind \notin {"message", "ack"}
                     /\ UNCHANGED <<pggroup, invited>>
  <2>1. \A user, ids : /\ Body("groups", user, ids).kind = "groups"
                       /\ Body("info", user, ids).kind = "info"
                       /\ Body("subscription", user, ids).kind = "subscription"
                       /\ Body("sms", user, ids).kind = "sms"
    BY DEF Body
  <2> DEFINE Asks(kind) == \E s, user, ids :
           Write(s, Body(kind, user, ids)) /\ UNCHANGED <<pggroup, invited>>
  <2>2. \E kind \in {"groups", "info", "subscription", "sms"} : Asks(kind)
    <3>1. CASE get_list
      BY <3>1 DEF get_list
    <3>2. CASE get_info
      BY <3>2 DEF get_info
    <3>3. ASSUME NEW g \in Known, subscribe(g) PROVE Asks("subscription")
      BY <3>3 DEF subscribe
    <3>4. ASSUME NEW g \in Known, send_sms(g) PROVE Asks("sms")
      BY <3>4 DEF send_sms
    <3> QED BY <3>1, <3>2, <3>3, <3>4
  <2>3. PICK kind, s, user, ids : /\ kind \in {"groups", "info", "subscription", "sms"}
                                  /\ Write(s, Body(kind, user, ids)) /\ UNCHANGED <<pggroup, invited>>
    BY <2>2
  <2>4. Body(kind, user, ids).kind \notin {"message", "ack"}
    BY <2>1, <2>3
  <2> QED BY <2>3, <2>4
<1>2. Current' = Current
  BY <1>1 DEF Current
<1> QED BY <1>1, <1>2, InvitedAsks

(* Who is in a group, and what is known of it, is no matter of invitations.       *)
LEMMA MembersInvited ==
    ASSUME PGInv, InvitationInv, NEW g \in Known,
           get_group_members(g) \/ update_group_info(g)
    PROVE  InvitationInv'
<1>1. At(g) # {} /\ \A i, j \in DOMAIN pggroup : pggroup[i].uri = pggroup[j].uri => i = j
  BY DEF Known, At, PGInv, PGTypes, TypeOK
<1>2. PICK pg : pg = Of(g)
  OBVIOUS
<1>3. pg \in GroupType /\ pg.uri = g
  BY <1>1, <1>2, GroupIs
<1>4. CASE get_group_members(g)
  <2>1. PICK n : n = sip'.callid
    OBVIOUS
  <2>2. PICK x : x = [Of(g) EXCEPT !.getMembers = n, !.asked = @ + 1]
    OBVIOUS
  <2>3. pggroup' = Change(g, x)
    BY <1>4, <2>1, <2>2 DEF get_group_members
  <2>4. x.uri = g /\ x.invite = Of(g).invite
    <3>1. PICK y : y = [pg EXCEPT !.getMembers = n]
      OBVIOUS
    <3>2. y.uri = g /\ y.invite = pg.invite /\ x = [y EXCEPT !.asked = @ + 1]
          /\ DOMAIN y = DOMAIN pg
      BY <1>2, <1>3, <2>2, <3>1 DEF GroupType
    <3> QED BY <1>2, <1>3, <3>2 DEF GroupType
  <2>5. Current' = Current
    BY <1>1, <2>3, <2>4, CurrentStill
  <2>6. PICK s, body : Write(s, body) /\ body.kind \notin {"message", "ack"} /\ invited' = invited
    <3>1. Body("members", g, <<>>).kind = "members"
      BY DEF Body
    <3> QED BY <1>4, <3>1 DEF get_group_members
  <2> QED BY <2>5, <2>6, InvitedAsks
<1>5. CASE update_group_info(g)
  <2>1. PICK x : x = [Of(g) EXCEPT !.hasDetails = TRUE]
    OBVIOUS
  <2>2. pggroup' = Change(g, x) /\ UNCHANGED <<asked, line, invited, inbox>>
    BY <1>5, <2>1 DEF update_group_info, requestVars
  <2>3. x.uri = g /\ x.invite = Of(g).invite
    BY <1>2, <1>3, <2>1 DEF GroupType
  <2>4. Current' = Current
    BY <1>1, <2>2, <2>3, CurrentStill
  <2>5. NoNewReply
    BY <2>2 DEF NoNewReply
  <2> QED BY <2>2, <2>4, <2>5, InvitedStill
<1> QED BY <1>4, <1>5

(* Nor are the data of the members.                                            *)
LEMMA UpdateInvited ==
    ASSUME PGInv, InvitationInv, UpdateNext
    PROVE  InvitationInv'
<1>1. PICK g : g = walk.group
  OBVIOUS
<1>2. At(g) # {} /\ \A i, j \in DOMAIN pggroup : pggroup[i].uri = pggroup[j].uri => i = j
  BY <1>1 DEF UpdateNext, Known, At, PGInv, PGTypes, TypeOK
<1>3. PICK x : x = [Of(g) EXCEPT !.member[walk.at].getInfo = callid]
  OBVIOUS
<1>4. pggroup' = Change(g, x)
  BY <1>1, <1>3 DEF UpdateNext
<1>5. x.uri = g /\ x.invite = Of(g).invite
  <2>1. Of(g) \in GroupType /\ Of(g).uri = g
    BY <1>2, GroupIs
  <2> QED BY <1>3, <2>1 DEF GroupType
<1>6. Current' = Current
  BY <1>2, <1>4, <1>5, CurrentStill
<1>7. PICK s, body : Write(s, body) /\ body.kind \notin {"message", "ack"} /\ invited' = invited
  <2>1. \A user, ids : Body("contact", user, ids).kind = "contact"
    BY DEF Body
  <2>2. PICK s, user, ids : Write(s, Body("contact", user, ids)) /\ invited' = invited
    BY DEF UpdateNext
  <2> QED BY <2>1, <2>2
<1> QED BY <1>6, <1>7, InvitedAsks

(* The invitation becomes the one the list names; its call id is new.             *)
LEMMA InvitingInvited ==
    ASSUME PGInv, InvitationInv, NEW g \in Known, send_invitation(g)
    PROVE  InvitationInv'
<1>1. PGTypes /\ IdsOld /\ Channel /\ sip \in SipType /\ callid \in Nat \ {0}
  BY ChannelOk DEF PGInv
<1>2. PICK i \in DOMAIN pggroup :
         pggroup[i].uri = g /\ At(g) = {i} /\ Of(g) = pggroup[i] /\ g \in Groups
  BY <1>1, Found
<1>3. PICK type, headers, body :
         /\ type = "I" /\ headers = <<To(g), <<"K", 5>>>> /\ body = Body("invitation", g, <<>>)
  OBVIOUS
<1>4. body.kind = "invitation" /\ body.user = g
  BY <1>3 DEF Body
<1>5. PICK q : q = to_string(Stamped(type, headers), body)
  OBVIOUS
<1>6. q.callid = callid /\ q.body = body
  <2>1. To(g) \in HeaderLines /\ <<"K", 5>> \in HeaderLines
    BY <1>2 DEF To, HeaderLines, HeaderTags
  <2>2. headers \in Seq(HeaderLines)
    BY <1>3, <2>1, HeadersAre
  <2>3. Stamped(type, headers) = [type |-> type, callid |-> callid, header |-> headers]
    BY <1>1, <2>2, StampedIs
  <2> QED BY <1>5, <2>3 DEF to_string
<1>7. /\ asked' = IF line = "open" THEN Append(asked, q) ELSE asked
      /\ UNCHANGED <<line, inbox, invited>>
  BY <1>3, <1>5 DEF send_invitation, Write
<1>8. PICK n, x : n = callid /\ x = [Of(g) EXCEPT !.invite = n]
  OBVIOUS
<1>9. pggroup' = Change(g, x)
  BY <1>8 DEF send_invitation
<1>10. x.uri = g /\ x.invite = n
  <2>1. Of(g) \in GroupType /\ Of(g).uri = g
    BY <1>2, GroupIs
  <2> QED BY <1>8, <2>1 DEF GroupType
<1>11. PICK w : w = Invitation(q.callid, q.body.user)
  OBVIOUS
<1>12. \A k \in DOMAIN inbox : inbox[k].callid # q.callid
  <2>1. \A k \in DOMAIN inbox : inbox[k].callid < callid
    BY <1>1 DEF Channel
  <2> QED BY <1>1, <1>6, <2>1 DEF Channel, MessageType
<1>13. ASSUME NEW v \in Current' PROVE v \in Current \/ v = w
  <2>1. PICK j \in DOMAIN pggroup' :
           v = Invitation(pggroup'[j].invite, pggroup'[j].uri) /\ v.id # 0
    BY CurrentIs
  <2>2. CASE j = i
    BY <1>2, <1>4, <1>6, <1>8, <1>9, <1>10, <1>11, <2>1, <2>2 DEF Change
  <2>3. CASE j # i
    <3>1. j \in DOMAIN pggroup /\ pggroup'[j] = pggroup[j]
      BY <1>2, <1>9, <2>1, <2>3 DEF Change
    <3> QED BY <2>1, <3>1 DEF Current
  <2> QED BY <2>2, <2>3
<1>14. NoNewReply
  BY <1>7 DEF NoNewReply
<1> QED BY <1>1, <1>4, <1>6, <1>7, <1>11, <1>12, <1>13, <1>14, InvitedWrites

(* A message bears the invitation the list names, or 0.                           *)
LEMMA MessageInvited ==
    ASSUME PGInv, InvitationInv, NEW g \in Known, send_message(g)
    PROVE  InvitationInv'
<1>1. PGTypes
  BY DEF PGInv
<1>2. PICK i \in DOMAIN pggroup :
         pggroup[i].uri = g /\ At(g) = {i} /\ Of(g) = pggroup[i] /\ g \in Groups
  BY <1>1, Found
<1>3. PICK s, n, body :
         /\ n = Of(g).invite /\ body = Body("message", g, <<>>)
         /\ s = set_callid(Stamped("M", <<To(g), <<"C", 1>>, <<"K", 1>>>>), n)
  OBVIOUS
<1>4. PICK q : q = to_string(s, body)
  OBVIOUS
<1>5. q.callid = n /\ q.body.kind = "message" /\ q.body.user = g
  <2>1. sip \in SipType /\ callid \in Nat
    BY ChannelOk
  <2>2. <<To(g), <<"C", 1>>, <<"K", 1>>>> \in Seq(HeaderLines)
    <3>1. To(g) \in HeaderLines /\ <<"C", 1>> \in HeaderLines /\ <<"K", 1>> \in HeaderLines
      BY <1>2 DEF To, HeaderLines, HeaderTags
    <3> QED BY <3>1, HeadersAre
  <2>3. n \in Nat
    BY <1>1, <1>2, <1>3, GroupsAre DEF GroupType
  <2>4. PICK type \in Types : type = "M"
    BY DEF Types
  <2>5. PICK headers \in Seq(HeaderLines) : headers = <<To(g), <<"C", 1>>, <<"K", 1>>>>
    BY <2>2
  <2>6. to_string(s, body) = [type |-> type, callid |-> n, header |-> headers, body |-> body]
    BY <1>3, <2>1, <2>3, <2>4, <2>5, WritesUnder
  <2> QED BY <1>3, <1>4, <2>6 DEF Body
<1>6. /\ asked' = IF line = "open" THEN Append(asked, q) ELSE asked
      /\ UNCHANGED <<line, inbox, invited, pggroup>>
  BY <1>3, <1>4 DEF send_message, Write
<1>7. PICK w : w = Invitation(q.callid, q.body.user)
  OBVIOUS
<1>8. q.callid = 0 \/ w \in Current
  BY <1>2, <1>3, <1>5, <1>7 DEF Current, Invitation
<1>9. Current' = Current
  BY <1>6 DEF Current
<1>10. \A v \in Current' : v.group = q.body.user => v.id = q.callid
  BY <1>1, <1>2, <1>3, <1>5, <1>9, OneCurrent
<1>11. NoNewReply
  BY <1>6 DEF NoNewReply
<1> QED BY <1>1, <1>5, <1>6, <1>7, <1>8, <1>9, <1>10, <1>11, InvitedWrites

(* What is acknowledged came under the invitation the list names.                 *)
LEMMA AckInvited ==
    ASSUME PGInv, InvitationInv, NEW g \in Known, send_invite_ack(g)
    PROVE  InvitationInv'
<1>1. PGTypes /\ Channel /\ sip \in SipType /\ callid \in Nat
  BY ChannelOk DEF PGInv
<1>2. PICK i \in DOMAIN pggroup :
         pggroup[i].uri = g /\ At(g) = {i} /\ Of(g) = pggroup[i] /\ g \in Groups
  BY <1>1, Found
<1>3. PICK msg \in Messages :
         /\ msg = Head(inbox) /\ IsReply(msg, Of(g).invite)
         /\ asked' = IF line = "open"
                     THEN Append(asked, to_string(set_callid(Stamped("A", <<To(g)>>), msg.callid),
                                                  Body("ack", g, <<>>)))
                     ELSE asked
         /\ inbox' = Tail(inbox) /\ UNCHANGED <<line, invited>>
         /\ pggroup' = Change(g, [Of(g) EXCEPT !.hasAcked = TRUE])
  BY DEF send_invite_ack
<1>4. PICK n, body, s : /\ n = msg.callid /\ body = Body("ack", g, <<>>)
                        /\ s = set_callid(Stamped("A", <<To(g)>>), n)
  OBVIOUS
<1>5. n = Of(g).invite /\ n # 0 /\ msg.kind = "reply"
  BY <1>3, <1>4 DEF IsReply
<1>6. PICK q : q = to_string(s, body)
  OBVIOUS
<1>7. q.callid = n /\ q.body.kind = "ack" /\ q.body.user = g
  <2>1. PICK type \in Types : type = "A"
    BY DEF Types
  <2>2. PICK headers \in Seq(HeaderLines) : headers = <<To(g)>>
    <3>1. To(g) \in HeaderLines
      BY <1>2 DEF To, HeaderLines, HeaderTags
    <3> QED BY <3>1, HeadersAre
  <2>3. n \in Nat
    BY <1>1, <1>2, <1>5, GroupsAre DEF GroupType
  <2>4. to_string(s, body) = [type |-> type, callid |-> n, header |-> headers, body |-> body]
    BY <1>1, <1>4, <2>1, <2>2, <2>3, WritesUnder
  <2> QED BY <1>4, <1>6, <2>4 DEF Body
<1>8. asked' = IF line = "open" THEN Append(asked, q) ELSE asked
  BY <1>3, <1>4, <1>6
<1>9. PICK w : w = Invitation(q.callid, q.body.user)
  OBVIOUS
<1>10. w \in Current /\ w.id = n
  BY <1>2, <1>5, <1>7, <1>9 DEF Current, Invitation
<1>11. inbox # <<>> /\ inbox \in Seq(MessageType)
  BY <1>1, <1>3 DEF Messages, ToSet, Channel
<1>12. 1 \in DOMAIN inbox /\ inbox[1] = msg
  BY <1>3, <1>11, TailIs
<1>13. w \in invited
  BY <1>4, <1>5, <1>10, <1>12 DEF InvitationInv, CurrentGiven
<1>14. NoNewReply
  <2>1. \A k \in DOMAIN inbox' : k + 1 \in DOMAIN inbox /\ inbox'[k] = inbox[k + 1]
    BY <1>3, <1>11
  <2> QED BY <2>1 DEF NoNewReply
<1>15. PICK x : x = [Of(g) EXCEPT !.hasAcked = TRUE]
  OBVIOUS
<1>16. x.uri = g /\ x.invite = Of(g).invite
  <2>1. Of(g) \in GroupType /\ Of(g).uri = g
    BY <1>2, GroupIs
  <2> QED BY <1>15, <2>1 DEF GroupType
<1>17. Current' = Current
  <2>1. pggroup' = Change(g, x)
    BY <1>3, <1>15
  <2>2. \A a, b \in DOMAIN pggroup : pggroup[a].uri = pggroup[b].uri => a = b
    BY <1>1 DEF PGTypes, TypeOK
  <2> QED BY <1>16, <2>1, <2>2, CurrentStill
<1> QED BY <1>1, <1>3, <1>7, <1>8, <1>9, <1>13, <1>14, <1>17, InvitedWrites

(* What is heard invites nobody.                                                  *)
LEMMA HeardInvited ==
    ASSUME PGInv, InvitationInv, NEW msg, Hears(msg), Current' \subseteq Current
    PROVE  InvitationInv'
<1>1. inbox # <<>> /\ inbox' = Tail(inbox) /\ UNCHANGED <<asked, line, invited>>
  BY DEF Hears
<1>2. inbox \in Seq(MessageType)
  BY ChannelOk DEF Channel
<1>3. NoNewReply
  <2>1. \A k \in DOMAIN inbox' : k + 1 \in DOMAIN inbox /\ inbox'[k] = inbox[k + 1]
    BY <1>1, <1>2
  <2> QED BY <2>1 DEF NoNewReply
<1> QED BY <1>1, <1>3, InvitedStill

(* Only the acknowledgement writes; a list read anew names no invitation.      *)
LEMMA ClientInvited ==
    ASSUME PGInv, InvitationInv, Client
    PROVE  InvitationInv'
<1>1. PGTypes /\ \A i, j \in DOMAIN pggroup : pggroup[i].uri = pggroup[j].uri => i = j
  BY DEF PGInv, PGTypes, TypeOK
<1>2. ASSUME NEW msg, Hears(msg), pggroup' = pggroup PROVE InvitationInv'
  <2>1. Current' = Current
    BY <1>2 DEF Current
  <2> QED BY <1>2, <2>1, HeardInvited
<1>3. ASSUME NEW msg, Hears(msg), NEW g, At(g) # {}, NEW x, pggroup' = Change(g, x),
             x.uri = Of(g).uri, x.invite = Of(g).invite
      PROVE  InvitationInv'
  <2>1. Of(g).uri = g
    BY <1>3, GroupIs
  <2>2. Current' = Current
    BY <1>1, <1>3, <2>1, CurrentStill
  <2> QED BY <1>3, <2>2, HeardInvited
<1>4. CASE ListCame
  <2>1. PICK msg : Hears(msg) /\ IsReply(msg, listCall) /\ pggroup' = parse_list(msg.body.ids)
    BY <1>4 DEF ListCame
  <2>2. \A i \in DOMAIN pggroup' : pggroup'[i].invite = 0
    BY <1>4, NewListIs
  <2>3. Current' \subseteq Current
    BY <2>2, CurrentIs
  <2> QED BY <2>1, <2>3, HeardInvited
<1>5. CASE InfoCame
  <2>1. PICK msg : /\ Hears(msg)
                   /\ pggroup' = parse_info(msg) \/ pggroup' = pggroup
    BY <1>5 DEF InfoCame
  <2>2. CASE pggroup' = parse_info(msg)
    <3>1. ASSUME NEW i \in DOMAIN pggroup
          PROVE  i \in DOMAIN pggroup' /\ pggroup'[i].uri = pggroup[i].uri
                 /\ pggroup'[i].invite = pggroup[i].invite
      <4>1. pggroup[i] \in GroupType
        BY <1>1, GroupsAre
      <4> QED BY <2>2, <4>1 DEF parse_info, GroupType
    <3>2. DOMAIN pggroup' = DOMAIN pggroup
      BY <2>2 DEF parse_info
    <3>3. \A v : v \in Current' => v \in Current
      BY <3>1, <3>2, CurrentIs
    <3> QED BY <2>1, <3>3, HeardInvited
  <2> QED BY <1>2, <2>1, <2>2
<1>6. ASSUME NEW g \in Known, MembersCame(g)
      PROVE  InvitationInv'
  <2>1. PICK msg : Hears(msg) /\ (pggroup' = parse_member_list(msg) \/ pggroup' = pggroup)
    BY <1>6 DEF MembersCame
  <2>2. CASE pggroup' = parse_member_list(msg)
    <3>1. PICK h, x, entered : /\ h = msg.body.user
                               /\ entered = Entered(Of(h).member, msg.body.ids)
                               /\ x = [Of(h) EXCEPT !.member = Entered(@, msg.body.ids)]
      OBVIOUS
    <3>2. pggroup' = Change(h, x)
      BY <2>2, <3>1 DEF parse_member_list
    <3>3. CASE At(h) # {}
      <4>1. Of(h) \in GroupType
        BY <3>3, GroupIs
      <4>2. x.uri = Of(h).uri /\ x.invite = Of(h).invite
        BY <3>1, <4>1 DEF GroupType
      <4> QED BY <1>3, <2>1, <3>2, <3>3, <4>2
    <3>4. CASE At(h) = {}
      <4>1. Current' = Current
        BY <1>1, <3>2, <3>4, CurrentStill
      <4> QED BY <2>1, <4>1, HeardInvited
    <3> QED BY <3>3, <3>4
  <2> QED BY <1>2, <2>1, <2>2
<1>7. ASSUME NEW g \in Known, ContactCame(g)
      PROVE  InvitationInv'
  <2>1. PICK msg, i :
           /\ Hears(msg)
           /\ \/ pggroup' = Change(g, [Of(g) EXCEPT !.member[i].contact = parse_contact_info(msg)])
              \/ pggroup' = pggroup
    BY <1>7, Zenon DEF ContactCame
  <2>2. At(g) # {}
    BY DEF Known, At
  <2>3. PICK x : x = [Of(g) EXCEPT !.member[i].contact = parse_contact_info(msg)]
    OBVIOUS
  <2>4. x.uri = Of(g).uri /\ x.invite = Of(g).invite
    <3>1. Of(g) \in GroupType
      BY <2>2, GroupIs
    <3> QED BY <2>3, <3>1 DEF GroupType
  <2> QED BY <1>2, <1>3, <2>1, <2>2, <2>3, <2>4
<1>8. CASE MemberPresent
  <2>1. PICK msg : Hears(msg) /\ (pggroup' = parse_member(msg) \/ pggroup' = pggroup)
    BY <1>8 DEF MemberPresent
  <2>2. PICK h, i : h = msg.body.user /\ i = First(Of(msg.body.user).member, msg.body.ids[1])
    OBVIOUS
  <2>3. PICK x : x = [Of(h) EXCEPT !.member[i].status = 1]
    OBVIOUS
  <2>4. pggroup' = pggroup \/ (At(h) # {} /\ pggroup' = Change(h, x))
    BY <2>1, <2>2, <2>3 DEF parse_member
  <2>5. CASE At(h) # {}
    <3>1. Of(h) \in GroupType
      BY <2>5, GroupIs
    <3>2. x.uri = Of(h).uri /\ x.invite = Of(h).invite
      BY <2>3, <3>1 DEF GroupType
    <3> QED BY <1>2, <1>3, <2>1, <2>4, <2>5, <3>2
  <2> QED BY <1>2, <2>1, <2>4, <2>5
<1>9. CASE ReplyDropped
  BY <1>2, <1>9 DEF ReplyDropped
<1> QED BY <1>4, <1>5, <1>6, <1>7, <1>8, <1>9, AckInvited DEF Client

(* The server handles a request, speaks unasked, or the channel breaks.        *)
LEMMA ServerInvited ==
    ASSUME PGInv, InvitationInv, Server
    PROVE  InvitationInv'
<1>1. PGTypes /\ Channel /\ \A r \in Remembered : \A body \in OnTheWay(r.id) : Fits(r, body.kind, body.user)
  BY ChannelOk DEF Recognises
<1>2. ServerUnchanged => Current' = Current
  BY DEF ServerUnchanged, Current
<1>3. PICK q, w : q = Head(asked) /\ w = Invitation(q.callid, q.body.user)
  OBVIOUS
<1>4. ASSUME asked # <<>>
      PROVE  \A v \in Current : v.id = q.callid =>
                q.body.kind \in {"invitation", "message", "ack"} /\ q.body.user = v.group
  <2> SUFFICES ASSUME NEW v \in Current, v.id = q.callid
               PROVE  q.body.kind \in {"invitation", "message", "ack"} /\ q.body.user = v.group
    OBVIOUS
  <2>1. PICK j \in DOMAIN pggroup :
           v.id = pggroup[j].invite /\ v.group = pggroup[j].uri /\ v.id # 0
    BY CurrentIs
  <2>2. PICK r : r = Left(pggroup[j].invite, "invitation", pggroup[j].uri)
    OBVIOUS
  <2>3. r \in Remembered /\ r.id = v.id /\ r.kind = "invitation" /\ r.user = v.group
    <3>1. r.id = v.id /\ r.kind = "invitation" /\ r.user = v.group
      BY <2>1, <2>2 DEF Left
    <3> QED BY <2>1, <2>2, <3>1, LeftIs
  <2>4. 1 \in DOMAIN asked /\ q = asked[1]
    BY <1>1, <1>3, <1>4, TailIs DEF Channel
  <2>5. q.body \in OnTheWay(r.id)
    BY <2>3, <2>4, OnTheWayIs
  <2>6. Fits(r, q.body.kind, q.body.user)
    BY <1>1, <2>3, <2>5
  <2> QED BY <2>3, <2>6 DEF Fits
<1>5. CASE Answers
  <2>1. PICK code, body : Answer(code, body)
    BY <1>5 DEF Answers
  <2>2. /\ asked # <<>> /\ q.body.kind # "ack" /\ ServerUnchanged
        /\ invited' = IF q.body.kind = "invitation" THEN invited \cup {w} ELSE invited
    BY <1>3, <1>5 DEF Answers
  <2>3. PICK m : m = Reply(q, code, body)
    OBVIOUS
  <2>4. asked' = Tail(asked) /\ inbox' = Append(inbox, m) /\ line' = line /\ m.callid = q.callid
    BY <1>3, <2>1, <2>3 DEF Answer, Reply
  <2>5. ASSUME NEW i \in DOMAIN inbox', inbox'[i].kind = "reply"
        PROVE  \/ \E k \in DOMAIN inbox : inbox[k].kind = "reply" /\ inbox[k].callid = inbox'[i].callid
               \/ inbox'[i].callid = q.callid /\ q.body.kind # "ack"
    <3>1. inbox \in Seq(MessageType)
      BY <1>1 DEF Channel
    <3>2. (i \in DOMAIN inbox /\ inbox'[i] = inbox[i]) \/ inbox'[i] = m
      BY <2>4, <3>1
    <3> QED BY <2>2, <2>4, <2>5, <3>2
  <2>6. invited \subseteq invited' /\ (q.body.kind = "invitation" => w \in invited')
    BY <2>2
  <2> QED BY <1>1, <1>2, <1>3, <1>4, <2>2, <2>4, <2>5, <2>6, InvitedHandled
<1>6. CASE TakesAck
  <2>1. /\ asked # <<>> /\ q.body.kind = "ack" /\ asked' = Tail(asked)
        /\ UNCHANGED <<line, inbox, invited>> /\ ServerUnchanged
    BY <1>3, <1>6 DEF TakesAck
  <2>2. \A i \in DOMAIN inbox' : inbox'[i].kind = "reply" =>
              \/ \E k \in DOMAIN inbox : inbox[k].kind = "reply" /\ inbox[k].callid = inbox'[i].callid
              \/ inbox'[i].callid = q.callid /\ q.body.kind # "ack"
    BY <2>1
  <2> QED BY <1>1, <1>2, <1>3, <1>4, <2>1, <2>2, InvitedHandled
<1>7. CASE Notifies
  <2>1. UNCHANGED <<asked, line, invited>> /\ ServerUnchanged
    BY <1>7 DEF Notifies
  <2>2. PICK m : inbox' = Append(inbox, m) /\ m.kind = "notification"
    <3>1. \A body : Notification(body).kind = "notification"
      BY DEF Notification
    <3> QED BY <1>7, <3>1 DEF Notifies
  <2>3. NoNewReply
    <3>1. inbox \in Seq(MessageType)
      BY <1>1 DEF Channel
    <3>2. \A i \in DOMAIN inbox' : (i \in DOMAIN inbox /\ inbox'[i] = inbox[i]) \/ inbox'[i] = m
      BY <2>2, <3>1
    <3> QED BY <2>2, <3>2 DEF NoNewReply
  <2> QED BY <1>2, <2>1, <2>3, InvitedStill
<1>8. CASE JoinsOrLeaves
  <2>1. UNCHANGED <<asked, line, inbox, invited>> /\ ServerUnchanged
    BY <1>8 DEF JoinsOrLeaves, requestVars
  <2>2. NoNewReply
    BY <2>1 DEF NoNewReply
  <2> QED BY <1>2, <2>1, <2>2, InvitedStill
<1> QED BY <1>5, <1>6, <1>7, <1>8, InvitedBreaks DEF Server

(* Every step keeps the messages with their invitations.                       *)
LEMMA StepInvited == PGInv /\ InvitationInv /\ [Next]_vars => InvitationInv'
<1> SUFFICES ASSUME PGInv, InvitationInv, [Next]_vars PROVE InvitationInv'
  OBVIOUS
<1>1. CASE GroupCalls
  BY <1>1, PlainInvited, MembersInvited, UpdateInvited, InvitingInvited, MessageInvited DEF GroupCalls
<1>2. CASE UNCHANGED vars
  <2>1. UNCHANGED <<asked, line, inbox, invited, pggroup>>
    BY <1>2 DEF vars, requestVars, pgVars
  <2>2. NoNewReply /\ Current' = Current
    BY <2>1 DEF NoNewReply, Current
  <2> QED BY <2>1, <2>2, InvitedStill
<1> QED BY <1>1, <1>2, ClientInvited, ServerInvited DEF Next

(* At the start nobody is invited.                                             *)
LEMMA InvitedFirst == Init => InvitationInv
<1> SUFFICES ASSUME Init PROVE InvitationInv
  OBVIOUS
<1>1. asked = <<>> /\ inbox = <<>> /\ line = "open" /\ \A i \in DOMAIN pggroup : pggroup[i].invite = 0
  BY FirstList DEF Init, RequestsInit
<1>2. Current = {}
  BY <1>1, CurrentIs
<1> QED BY <1>1, <1>2 DEF InvitationInv, InvitedBefore, InvitedAfter, AcksInvited, CurrentGiven

(* A message to a group is under an invitation of that group which the server     *)
(* has had or has before it, the last one unless another was written after it or  *)
(* the list was read anew; under 0 only if the group of the list had not been     *)
(* invited.  An acknowledgement is under an invitation the server has had         *)
(* (LOF_group.c:774, 805).                                                        *)
THEOREM MessagesUnderInvitation == Spec => []MessageUnderInvitation
<1>1. PGInv /\ InvitationInv => MessageUnderInvitation
  <2> SUFFICES ASSUME PGInv, InvitationInv, NEW i \in DOMAIN asked,
                      NEW q, q = asked[i], NEW g, g = q.body.user
               PROVE  /\ q.body.kind = "message" =>
                            /\ \/ q.callid = 0
                               \/ Invitation(q.callid, g) \in invited
                               \/ Written(q.callid, g, 1..(i - 1))
                            /\ \A j \in DOMAIN pggroup :
                                  pggroup[j].uri = g /\ pggroup[j].invite \notin {0, q.callid} =>
                                      Written(pggroup[j].invite, g, (i + 1)..Len(asked))
                      /\ q.body.kind = "ack" => Invitation(q.callid, g) \in invited
    BY DEF MessageUnderInvitation
  <2>1. ASSUME NEW id, NEW positions, \E j \in positions : Invites(j, Invitation(id, g))
        PROVE  Written(id, g, positions)
    BY <2>1 DEF Invites, Under, Written, Invitation
  <2>2. q.body.kind = "message" =>
           \/ q.callid = 0 \/ Invitation(q.callid, g) \in invited
           \/ Written(q.callid, g, 1..(i - 1))
    <3>1. q.body.kind = "message" =>
             \/ q.callid = 0 \/ Invitation(q.callid, g) \in invited
             \/ \E j \in 1..(i - 1) : Invites(j, Invitation(q.callid, g))
      BY DEF InvitationInv, InvitedBefore
    <3> QED BY <2>1, <3>1
  <2>3. ASSUME q.body.kind = "message", NEW j \in DOMAIN pggroup, pggroup[j].uri = g,
               pggroup[j].invite \notin {0, q.callid}
        PROVE  Written(pggroup[j].invite, g, (i + 1)..Len(asked))
    <3>1. PICK v : v = Invitation(pggroup[j].invite, g)
      OBVIOUS
    <3>2. v \in Current /\ v.group = g /\ v.id = pggroup[j].invite
      BY <2>3, <3>1 DEF Current, Invitation
    <3>3. \E k \in (i + 1)..Len(asked) : Invites(k, v)
      BY <2>3, <3>2 DEF InvitationInv, InvitedAfter, Under
    <3> QED BY <2>1, <3>1, <3>3
  <2>4. q.body.kind = "ack" => Invitation(q.callid, g) \in invited
    BY DEF InvitationInv, AcksInvited
  <2> QED BY <2>2, <2>3, <2>4
<1>2. Spec => []PGInv
  BY PGGroupsSound
<1>3. Spec => []InvitationInv
  BY <1>2, InvitedFirst, StepInvited, PTL DEF Spec
<1> QED BY <1>1, <1>2, <1>3, PTL
===============================================================================
