-------------------------------- MODULE Session --------------------------------
(***************************************************************************)
(* A login: LOF_INIT of cliLOF.c (fx_login of cliofetion.c takes the same  *)
(* steps), LOF_login.c, and what a login leaves in data.db for the next    *)
(* one (LOF_user.c, LOF_contact.c).                                        *)
(*                                                                         *)
(* One process at a time, for one account.  It may end between any two     *)
(* writes.  A transaction of the data base is one write: SQLite undoes it  *)
(* when it is cut off.                                                     *)
(***************************************************************************)
EXTENDS Integers, Sequences

CONSTANTS
    None,         \* no user object: a model value
    Users,        \* people
    Lists,        \* ids of buddy lists: positive numbers
    Quoted,       \* people and lists with a quote in a field: no row can be inserted
    Passwords,
    Snapshots,    \* contact lists the server may keep
    MaxLogins,    \* bound: logins
    MaxChanges    \* bound: changes at the server

STRANGER == -1
NOT_GROUPED == 0

ASSUME SessionAssumption ==
    /\ Lists \subseteq Nat \ {0}
    /\ MaxLogins \in Nat
    /\ MaxChanges \in Nat
    /\ \A s \in Snapshots :
          /\ s.groups \subseteq Lists
          /\ DOMAIN s.buddies \subseteq Users
          /\ \A u \in DOMAIN s.buddies : s.buddies[u] \subseteq s.groups
          /\ s.strangers \subseteq Users \ DOMAIN s.buddies
          /\ s.twice \in BOOLEAN

VARIABLES
    at,        \* where the process is in LOF_INIT; "out": there is none
    user,      \* the local user
    disk,      \* data.db
    theirs,    \* what the server knows
    logins     \* logins begun

vars == <<at, user, disk, theirs, logins>>

-----------------------------------------------------------------------------
(* Contacts and what is stored of them. *)

NoContacts == [u \in {} |-> 0]

(* The "l" attribute of a buddy is a list of ids; a buddy in none or in several *)
(* lists counts as not grouped.                                                 *)
ContactOf(ids) ==
    [groupids |-> IF ids = {} THEN {NOT_GROUPED} ELSE ids,
     groupid |-> IF \E id \in ids : ids = {id} THEN CHOOSE id \in ids : TRUE ELSE NOT_GROUPED]

StrangerFrom(contacts, u) ==
    [groupids |-> IF u \in DOMAIN contacts THEN contacts[u].groupids ELSE {},
     groupid |-> STRANGER]

(* from: the version the user had when they were stored.  The code keeps no such *)
(* note; the properties use it.                                                  *)
NoTable == [rows |-> FALSE, groups |-> {}, contacts |-> NoContacts, from |-> 0]
NoRow == [rows |-> FALSE, password |-> "", version |-> 0]

-----------------------------------------------------------------------------
(* The user object. *)

LocalUser_new(password) ==
    [given |-> password, password |-> password, known |-> FALSE, dir |-> FALSE,
     proxy |-> FALSE, loginStatus |-> 0, version |-> 0, groups |-> {},
     contacts |-> NoContacts, read |-> FALSE, full |-> FALSE]

(* Slips: that there is no row goes unnoticed. *)
LoadUnchecked(u, readable) ==
    IF readable /\ u.dir
    THEN [u EXCEPT !.password = disk.user.password, !.version = disk.user.version]
    ELSE u

(* No table or no row: the user stays as it is.  A row is taken whole: its *)
(* password takes the place of the one given.                              *)
LocalUser_load(u, readable) ==
    IF readable /\ u.dir /\ disk.user.rows
    THEN [u EXCEPT !.password = disk.user.password, !.version = disk.user.version]
    ELSE u

(* tables: how many of the two tables can be read, the groups coming first. *)
BuddyContact_load(u, tables) ==
    LET usable == u.dir /\ disk.list.rows
    IN  [u EXCEPT !.groups = IF usable /\ tables >= 1 THEN disk.list.groups ELSE @,
                  !.contacts = IF usable /\ tables = 2 THEN disk.list.contacts ELSE @,
                  !.read = tables = 2]

(* Slips: buddies that are known already keep their old groups. *)
NewBuddiesOnly(u, list, version) ==
    IF u.version = version THEN u
    ELSE [u EXCEPT !.version = version,
                   !.full = TRUE,
                   !.groups = @ \cup list.groups,
                   !.contacts = [c \in DOMAIN @ \cup DOMAIN list.buddies |->
                       IF c \in DOMAIN @ THEN @[c] ELSE ContactOf(list.buddies[c])]]

(* A list of the version stored is not read.  Of another one, groups and      *)
(* buddies are found or appended; what the server no longer lists stays.      *)
parse_contact_list(u, list, version) ==
    IF u.version = version THEN u
    ELSE [u EXCEPT !.version = version,
                   !.full = TRUE,
                   !.groups = @ \cup list.groups,
                   !.contacts = [c \in DOMAIN @ \cup DOMAIN list.buddies |->
                       IF c \in DOMAIN list.buddies THEN ContactOf(list.buddies[c]) ELSE @[c]]]

parse_stranger_list(u, strangers) ==
    [u EXCEPT !.contacts = [c \in DOMAIN @ \cup strangers |->
        IF c \in strangers THEN StrangerFrom(@, c) ELSE @[c]]]

(* A buddy met twice in the list: the wrong pointer moves on, and runs off the *)
(* end of its list.                                                            *)
BuddyTwice(u, list, version) == u.version # version /\ list.twice

-----------------------------------------------------------------------------
(* Ends of a login. *)

Goes(from, to) == at = from /\ at' = to

(* LOF_INIT returns 1, and so does main. *)
Fails(from) == Goes(from, "failed")

(* The process is gone, by a signal, an assertion or a NULL pointer. *)
Dies == at' = "out" /\ user' = None

(* The read of an answer on a channel that the server has closed. *)
Hangs(from) == Goes(from, "hung")

-----------------------------------------------------------------------------
(* LOF_INIT, call by call. *)

LOF_INIT(password) ==
    /\ Goes("out", "ssi")
    /\ logins < MaxLogins
    /\ logins' = logins + 1
    /\ user' = LocalUser_new(password)
    /\ UNCHANGED <<disk, theirs>>

AuthError(status) == status \in {400, 401, 404}
NeedConfirm(status) == status \in {420, 421}

(* The addresses of the user become known. *)
parse_ssi_auth_success(u) == [u EXCEPT !.known = TRUE]

(* Without an answer there is nothing to parse but NULL; an answer of another   *)
(* status than those tested leaves the user id empty, which init_config asserts *)
(* it is not.                                                                   *)
ssi_auth(status) ==
    /\ at = "ssi"
    /\ status = 200 => user.password = theirs.password
    /\ \/ /\ status = 200
          /\ at' = "config"
          /\ user' = parse_ssi_auth_success([user EXCEPT !.loginStatus = status])
       \/ /\ AuthError(status) \/ NeedConfirm(status)
          /\ at' = "failed"
          /\ user' = [user EXCEPT !.loginStatus = status]
       \/ /\ ~(status = 200 \/ AuthError(status) \/ NeedConfirm(status))
          /\ Dies
    /\ UNCHANGED <<disk, theirs, logins>>

ssi_unreachable ==
    /\ at = "ssi"
    /\ Dies
    /\ UNCHANGED <<disk, theirs, logins>>

(* A directory that cannot be made is reported by 1, and -1 is tested for. *)
init_config ==
    /\ Goes("config", "download")
    /\ \E usable \in BOOLEAN : user' = [user EXCEPT !.dir = usable]
    /\ UNCHANGED <<disk, theirs, logins>>

(* An answer that cannot be parsed leaves the address of the proxy empty. *)
parse_configuration_xml(u, parsed) == [u EXCEPT !.proxy = parsed]

(* Without a connection to the server the login ends. *)
download_configuration ==
    /\ \/ Fails("download") /\ UNCHANGED user
       \/ /\ Goes("download", "load")
          /\ \E parsed \in BOOLEAN : user' = parse_configuration_xml(user, parsed)
    /\ UNCHANGED <<disk, theirs, logins>>

load ==
    /\ Goes("load", "connect")
    /\ \E readable \in BOOLEAN, tables \in 0..2 :
          user' = BuddyContact_load(LocalUser_load(user, readable), tables)
    /\ UNCHANGED <<disk, theirs, logins>>

connect ==
    /\ Fails("connect") \/ (Goes("connect", "register") /\ user.proxy)
    /\ UNCHANGED <<user, disk, theirs, logins>>

(* An answer without a challenge is parsed through a NULL pointer. *)
sipc_reg ==
    /\ \/ Fails("register") /\ UNCHANGED user
       \/ Hangs("register") /\ UNCHANGED user
       \/ Goes("register", "auth") /\ UNCHANGED user
       \/ at = "register" /\ Dies
    /\ UNCHANGED <<disk, theirs, logins>>

(* Slips: only a refusal of the password ends the login. *)
ConfirmIgnored(code, body) ==
    LET list == theirs.lists[Len(theirs.lists)]
        listed == parse_contact_list(user, list, Len(theirs.lists))
    IN  /\ at = "auth"
        /\ code = 200 => user.password = theirs.password
        /\ code # 401
        /\ at' = "save"
        /\ user' = [parse_stranger_list(listed, list.strangers) EXCEPT !.loginStatus = code]
        /\ theirs' = IF code = 200 THEN [theirs EXCEPT !.accepted = @ \cup {user.password}]
                     ELSE theirs
        /\ UNCHANGED <<disk, logins>>

(* The answer to the authentication.  The server accepts its own password, and *)
(* may ask for a code or refuse for reasons of its own.                        *)
parse_sipc_auth_response(code, body) ==
    LET list == theirs.lists[Len(theirs.lists)]
        listed == parse_contact_list(user, list, Len(theirs.lists))
    IN  /\ at = "auth"
        /\ code = 200 => user.password = theirs.password
        /\ code = 401 => user.password # theirs.password
        /\ \/ /\ code = 200 /\ body /\ ~BuddyTwice(user, list, Len(theirs.lists))
              /\ at' = "save"
              /\ user' = [parse_stranger_list(listed, list.strangers) EXCEPT !.loginStatus = code]
           \/ /\ code = 200 /\ body /\ BuddyTwice(user, list, Len(theirs.lists))
              /\ Dies
           \/ /\ code # 200 \/ ~body
              /\ at' = "failed"
              /\ user' = [user EXCEPT !.loginStatus = code]
        /\ theirs' = IF code = 200 THEN [theirs EXCEPT !.accepted = @ \cup {user.password}]
                     ELSE theirs
        /\ UNCHANGED <<disk, logins>>

sipc_aut_unanswered ==
    /\ Fails("auth") \/ Hangs("auth")
    /\ UNCHANGED <<user, disk, theirs, logins>>

(* LocalUser_save: the row is deleted, then inserted; each is a write.  A data *)
(* base that cannot be opened is left alone.  An insert that fails is logged.  *)
LocalUser_delete ==
    /\ \/ Goes("save", "contacts") /\ UNCHANGED disk
       \/ /\ Goes("save", "insert")
          /\ user.dir
          /\ disk' = [disk EXCEPT !.user = NoRow]
    /\ UNCHANGED <<user, theirs, logins>>

Row(u) == [rows |-> TRUE, password |-> u.password, version |-> u.version]

LocalUser_insert ==
    /\ Goes("insert", "contacts")
    /\ \/ disk' = [disk EXCEPT !.user = Row(user)]
       \/ UNCHANGED disk
    /\ UNCHANGED <<user, theirs, logins>>

(* Slips: the contacts are stored without their lists. *)
StoredAlone(u) ==
    [rows |-> TRUE,
     groups |-> disk.list.groups,
     contacts |-> [c \in DOMAIN u.contacts \ Quoted |-> u.contacts[c]],
     from |-> u.version]

(* One transaction; a row that cannot be inserted is left out. *)
Stored(u) ==
    [rows |-> TRUE,
     groups |-> u.groups \ Quoted,
     contacts |-> [c \in DOMAIN u.contacts \ Quoted |-> u.contacts[c]],
     from |-> u.version]

BuddyContact_save ==
    /\ Goes("contacts", "subscribe")
    /\ \/ user.dir /\ disk' = [disk EXCEPT !.list = Stored(user)]
       \/ UNCHANGED disk
    /\ UNCHANGED <<user, theirs, logins>>

(* The subscription is sent and the tunnels are made; LOF_INIT returns 0. *)
subscribe_and_prepare ==
    /\ Goes("subscribe", "in")
    /\ UNCHANGED <<user, disk, theirs, logins>>

(* The process ends, where it should or anywhere. *)
Exit ==
    /\ at # "out"
    /\ Dies
    /\ UNCHANGED <<disk, theirs, logins>>

-----------------------------------------------------------------------------
(* The server: another contact list, another password. *)

Changes == Len(theirs.lists) - 1 + theirs.changed

NewList(list) ==
    /\ Changes < MaxChanges
    /\ theirs' = [theirs EXCEPT !.lists = Append(@, list)]
    /\ UNCHANGED <<at, user, disk, logins>>

NewPassword(password) ==
    /\ Changes < MaxChanges
    /\ password # theirs.password
    /\ theirs' = [theirs EXCEPT !.password = password, !.changed = @ + 1]
    /\ UNCHANGED <<at, user, disk, logins>>

-----------------------------------------------------------------------------
Init ==
    /\ at = "out"
    /\ user = None
    /\ disk = [user |-> NoRow, list |-> NoTable]
    /\ logins = 0
    /\ \E password \in Passwords, list \in Snapshots :
          theirs = [password |-> password, lists |-> <<list>>, accepted |-> {}, changed |-> 0]

Statuses == {200, 401, 421, 500}

Next ==
    \/ \E password \in Passwords : LOF_INIT(password) \/ NewPassword(password)
    \/ \E list \in Snapshots : NewList(list)
    \/ \E status \in Statuses :
          \/ ssi_auth(status)
          \/ \E body \in BOOLEAN : parse_sipc_auth_response(status, body)
    \/ ssi_unreachable
    \/ init_config
    \/ download_configuration
    \/ load
    \/ connect
    \/ sipc_reg
    \/ sipc_aut_unanswered
    \/ LocalUser_delete
    \/ LocalUser_insert
    \/ BuddyContact_save
    \/ subscribe_and_prepare
    \/ Exit

Spec == Init /\ [][Next]_vars

-----------------------------------------------------------------------------
(* Properties. *)

Contact == [groupids : SUBSET (Lists \cup {NOT_GROUPED}), groupid : Lists \cup {NOT_GROUPED, STRANGER}]

Contacts == UNION {[D -> Contact] : D \in SUBSET Users}

UserType ==
    [given : Passwords, password : Passwords, known : BOOLEAN, dir : BOOLEAN, proxy : BOOLEAN,
     loginStatus : {0} \cup Statuses, version : Nat, groups : SUBSET Lists,
     contacts : Contacts, read : BOOLEAN, full : BOOLEAN]

DiskType ==
    [user : {NoRow} \cup [rows : {TRUE}, password : Passwords, version : Nat],
     list : [rows : BOOLEAN, groups : SUBSET Lists, contacts : Contacts, from : Nat]]

ServerType ==
    [password : Passwords, lists : Seq(Snapshots), accepted : SUBSET Passwords, changed : Nat]

(* What the variables range over; only an absent process has no user object. *)
TypeOK ==
    /\ at \in {"out", "ssi", "config", "download", "load", "connect", "register", "auth",
               "save", "insert", "contacts", "subscribe", "in", "failed", "hung"}
    /\ IF at = "out" THEN user = None ELSE user \in UserType
    /\ disk \in DiskType
    /\ theirs \in ServerType
    /\ logins \in 0..MaxLogins

(* kept has every list and everyone of the server's list, each where the server *)
(* has it: but for those who cannot be stored.                                  *)
Covers(kept, list) ==
    /\ list.groups \ Quoted \subseteq kept.groups
    /\ \A u \in DOMAIN list.buddies \ Quoted :
          u \in DOMAIN kept.contacts /\ kept.contacts[u] = ContactOf(list.buddies[u])
    /\ \A u \in list.strangers \ Quoted :
          u \in DOMAIN kept.contacts /\ kept.contacts[u].groupid = STRANGER

(* The contacts stored are those of the version stored, or of a later one. *)
UpToDate ==
    disk.user.rows =>
        /\ disk.list.from >= disk.user.version
        /\ Covers(disk.list, theirs.lists[disk.list.from])

(* Contacts that are up to date on disk stay so, but for two gaps: the user row *)
(* is written before the contacts, and the contacts that could not be read are  *)
(* not missed when the server's version is the stored one.  Every other order of *)
(* failures, ends and server changes is harmless: a version not stored, or not  *)
(* loaded, has the next login read the whole list (LOF_login.c:615).             *)
OnlyTheGapsTear ==
    [][UpToDate /\ ~UpToDate' => at = "insert" \/ (at = "contacts" /\ ~user.read)]_vars

(* Nobody's contact, in memory or on disk, is in a list without a row or node:   *)
(* lists and contacts are stored and loaded together.  Lists whose names cannot  *)
(* be stored are the exception.                                                  *)
ListsOfContactsKnown ==
    /\ \A u \in DOMAIN disk.list.contacts :
          disk.list.contacts[u].groupids \subseteq disk.list.groups \cup {NOT_GROUPED} \cup Quoted
    /\ at # "out" =>
          \A u \in DOMAIN user.contacts :
             user.contacts[u].groupids \subseteq user.groups \cup {NOT_GROUPED} \cup Quoted

(* The password stored has been accepted by the server: a login that was refused *)
(* at either stage stores nothing.                                               *)
StoredPasswordAccepted == disk.user.rows => disk.user.password \in theirs.accepted

(* A password that is right is refused only because another one, stored by an    *)
(* earlier login, was sent in its place (LOF_user.c:934).                        *)
RefusedForTheStored ==
    [][at = "auth" /\ at' = "failed" /\ user'.loginStatus = 401 /\ user.given = theirs.password
          => disk.user.rows /\ disk.user.password # user.given]_vars

(* "Contact list is the same as that stored in the local disk!" *)
SameAsStored ==
    at = "save" /\ ~user.full => Covers(user, theirs.lists[user.version])
===============================================================================
