------------------------------- MODULE Requests -------------------------------
(***************************************************************************)
(* Requests on the root channel, and the answers to them (LOF_sip.c).      *)
(*                                                                         *)
(* A library call stamps the SIP struct with a type and the next call id,  *)
(* queues headers on it, turns it into text and writes it.  A synchronous  *)
(* call then reads the channel and takes what comes for its answer.  The   *)
(* server handles the requests of a channel in the order they are written. *)
(***************************************************************************)
EXTENDS Integers, Sequences

CONSTANT
    None       \* nobody, nothing: a model value

VARIABLES
    callid,    \* the global counter of call ids
    sip,       \* the root SIP struct: its type, the call id stamped, the headers queued
    asked,     \* requests written that the server has not handled, oldest first
    inbox,     \* what the server has written that nobody has read, oldest first
    line,      \* the root channel: open, closed by the server, or reset
    running    \* yes; hung in a read that never ends; undefined behaviour

requestVars == <<callid, sip, asked, inbox, line, running>>

-----------------------------------------------------------------------------
(* The SIP struct. *)

FetionSip_new == [type |-> "none", callid |-> 0, header |-> <<>>]

(* Slips: the call id is not stamped. *)
UnstampedType(s, type) == [s EXCEPT !.type = type]

set_type(s, type) == [s EXCEPT !.type = type, !.callid = callid]

set_callid(s, id) == [s EXCEPT !.callid = id]

(* One add_header after the other. *)
add_header(s, headers) == [s EXCEPT !.header = @ \o headers]

Stamped(type, headers) == add_header(set_type(sip, type), headers)

(* An event header: its name, and the challenge it answers (0: none). *)
Event(name) == <<name, 0>>

(* The body of a request or an answer: what it is about. *)
Body(kind, user, ids) == [kind |-> kind, user |-> user, ids |-> ids]

to_string(s, body) ==
    [type |-> s.type, callid |-> s.callid, header |-> s.header, body |-> body]

(* Slips: the headers stay queued. *)
WriteKeepingHeaders(s, body) ==
    /\ callid' = callid + 1
    /\ sip' = s
    /\ asked' = IF line = "open" THEN Append(asked, to_string(s, body)) ELSE asked
    /\ UNCHANGED <<inbox, line>>

(* to_string takes the headers off the struct and uses up a call id.  A write  *)
(* on a channel the server has closed succeeds; nobody reads it.               *)
Write(s, body) ==
    /\ callid' = callid + 1
    /\ sip' = [s EXCEPT !.header = <<>>]
    /\ asked' = IF line = "open" THEN Append(asked, to_string(s, body)) ELSE asked
    /\ UNCHANGED <<inbox, line>>

SendFails == line = "reset"

-----------------------------------------------------------------------------
(* What comes from the server: a reply to a request, or a notification. *)

NoBody == Body("none", None, <<>>)

Reply(q, code, body) == [kind |-> "reply", callid |-> q.callid, code |-> code, body |-> body]

Notification(body) == [kind |-> "notification", callid |-> 0, code |-> 0, body |-> body]

(* The code stands between "4.0 " and the next space; a message without it is *)
(* taken for a refusal.                                                       *)
get_code(msg) == IF msg.kind = "reply" THEN msg.code ELSE 400

(* One recv takes what the socket holds, up to 20 kilobytes.  The first        *)
(* message decides the length of the copy: what follows it is lost, and is     *)
(* copied over the end of the buffer.                                          *)
Reads(msg, n) ==
    /\ inbox # <<>>
    /\ msg = Head(inbox)
    /\ inbox' = SubSeq(inbox, n + 1, Len(inbox))
    /\ UNCHANGED <<callid, sip, asked, line>>

get_response(msg) ==
    \E n \in 1..Len(inbox) :
       /\ Reads(msg, n)
       /\ running' \in IF n = 1 THEN {"yes"} ELSE {"yes", "undefined"}

(* A read that fails returns no answer; one on a closed channel returns 0 bytes *)
(* again and again, and the loop for the end of the header never ends.          *)
ReadFails == inbox = <<>> /\ line = "reset"
ReadNeverEnds == inbox = <<>> /\ line = "closed"

-----------------------------------------------------------------------------
(* The server's end of the channel. *)

Answer(code, body) ==
    /\ line = "open"
    /\ asked # <<>>
    /\ asked' = Tail(asked)
    /\ inbox' = Append(inbox, Reply(Head(asked), code, body))
    /\ UNCHANGED <<callid, sip, line, running>>

Breaks ==
    /\ line = "open"
    /\ line' \in {"closed", "reset"}
    /\ inbox' \in {inbox, <<>>}
    /\ asked' = <<>>
    /\ UNCHANGED <<callid, sip, running>>

RequestsInit ==
    /\ callid = 1
    /\ sip = FetionSip_new
    /\ asked = <<>>
    /\ inbox = <<>>
    /\ line = "open"
    /\ running = "yes"
===============================================================================
