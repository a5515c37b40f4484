----------------------------- MODULE SessionProofs -----------------------------
(***************************************************************************)
(* What a login keeps, for any number of logins and server changes.        *)
(*                                                                         *)
(* The properties of Session are not inductive: what may be written to     *)
(* data.db depends on what was loaded, parsed and accepted on the way.     *)
(* SessionInv says what each stage of a login knows.                       *)
(***************************************************************************)
EXTENDS Session, TLAPS

-----------------------------------------------------------------------------
(* The inductive invariant. *)

Before == {"ssi", "config", "download", "load"}
Loaded == {"connect", "register", "auth"}
Accepted == {"save", "insert", "contacts", "subscribe", "in"}
Saving == {"save", "insert", "contacts"}

(* Nothing is in memory before it is loaded. *)
NothingYet ==
    at \in Before =>
        /\ user.version = 0
        /\ user.groups = {}
        /\ user.contacts = NoContacts
        /\ user.password = user.given

(* What loading brings is what is on disk: a password or a version that did not *)
(* come with the login came from the row.                                       *)
AsLoaded ==
    at \in Loaded =>
        /\ user.password # user.given =>
               disk.user.rows /\ disk.user.password = user.password
        /\ user.version # 0 =>
               user.dir /\ disk.user.rows /\ disk.user.version = user.version
        /\ user.dir /\ user.read /\ disk.list.rows =>
               user.groups = disk.list.groups /\ user.contacts = disk.list.contacts
        /\ ~user.full
        /\ user.loginStatus # 401

NotRefusedYet == at \in {"config", "download", "load"} => user.loginStatus # 401

FreshAtStart == at \in Before => ~user.full

(* Stored passwords, and those about to be stored, are accepted ones. *)
PasswordsAccepted ==
    /\ StoredPasswordAccepted
    /\ at \in Accepted => user.password \in theirs.accepted

(* Versions are positions in the server's history of lists. *)
VersionsKnown ==
    /\ Len(theirs.lists) >= 1
    /\ disk.user.rows => disk.user.version \in 1..Len(theirs.lists)
    /\ disk.list.from \in 0..Len(theirs.lists)
    /\ ~disk.list.rows => disk.list.from = 0

(* When the login is accepted memory is at the server's version: because the   *)
(* list was read, or because what is stored is of that version.                *)
ReadyToSave ==
    at \in Saving =>
        /\ user.version \in 1..Len(theirs.lists)
        /\ disk.user.rows => disk.user.version <= user.version
        /\ disk.list.from <= user.version
        /\ user.full => Covers(user, theirs.lists[user.version])
        /\ ~user.full /\ disk.user.rows => disk.user.version = user.version
        /\ (/\ ~user.full
            /\ user.read
            /\ disk.list.from = user.version
            /\ Covers(disk.list, theirs.lists[user.version]))
              => Covers(user, theirs.lists[user.version])

SessionInv ==
    /\ TypeOK
    /\ NothingYet
    /\ FreshAtStart
    /\ NotRefusedYet
    /\ AsLoaded
    /\ PasswordsAccepted
    /\ VersionsKnown
    /\ ReadyToSave
    /\ ListsOfContactsKnown

-----------------------------------------------------------------------------
(* Contacts. *)

(* What a buddy of a list of the server becomes is a contact in the lists the  *)
(* server names, or in none.                                                   *)
LEMMA ContactFromList ==
    ASSUME NEW ids \in SUBSET Lists
    PROVE  /\ ContactOf(ids) \in Contact
           /\ ContactOf(ids).groupids \subseteq ids \cup {NOT_GROUPED}
<1>1. CASE \E id \in ids : ids = {id}
  <2>1. (CHOOSE id \in ids : TRUE) \in ids
    BY <1>1
  <2>2. QED
    BY <1>1, <2>1 DEF ContactOf, Contact
<1>2. CASE ~ \E id \in ids : ids = {id}
  BY <1>2 DEF ContactOf, Contact
<1>3. QED
  BY <1>1, <1>2

(* Contacts is closed under giving some people contacts and leaving others out. *)
LEMMA ContactsAre ==
    ASSUME NEW D \in SUBSET Users, NEW f \in [D -> Contact]
    PROVE  f \in Contacts
BY DEF Contacts

(* What each contact is, and that its lists are numbers. *)
LEMMA ContactsHave ==
    ASSUME NEW f \in Contacts
    PROVE  /\ DOMAIN f \in SUBSET Users
           /\ f \in [DOMAIN f -> Contact]
BY DEF Contacts

(* Knowing nobody is a way to know people. *)
LEMMA NobodyIsContacts == NoContacts \in Contacts
<1>1. NoContacts \in [{} -> Contact]
  BY DEF NoContacts
<1>2. QED
  BY <1>1, ContactsAre

(* The contact list of the server is taken over: everyone is who they should be, *)
(* in lists that are there.                                                      *)
LEMMA ListTakenOver ==
    ASSUME NEW u \in UserType, NEW list \in Snapshots, NEW version \in Nat,
           NEW v, v = parse_contact_list(u, list, version),
           \A c \in DOMAIN u.contacts :
              u.contacts[c].groupids \subseteq u.groups \cup {NOT_GROUPED} \cup Quoted
    PROVE  /\ v \in UserType
           /\ \A c \in DOMAIN v.contacts :
                 v.contacts[c].groupids \subseteq v.groups \cup {NOT_GROUPED} \cup Quoted
           /\ v.version = version
           /\ v.password = u.password
           /\ v.read = u.read
           /\ u.version = version => v = u
           /\ u.version # version =>
                 /\ v.full
                 /\ list.groups \subseteq v.groups
                 /\ \A c \in DOMAIN list.buddies :
                       c \in DOMAIN v.contacts /\ v.contacts[c] = ContactOf(list.buddies[c])
<1>1. CASE u.version = version
  BY <1>1 DEF parse_contact_list
<1>2. CASE u.version # version
  <2> DEFINE new == [c \in DOMAIN u.contacts \cup DOMAIN list.buddies |->
                       IF c \in DOMAIN list.buddies THEN ContactOf(list.buddies[c])
                       ELSE u.contacts[c]]
  <2>1. v = [u EXCEPT !.version = version, !.full = TRUE,
                      !.groups = u.groups \cup list.groups, !.contacts = new]
    BY <1>2 DEF parse_contact_list
  <2>2. /\ list.groups \subseteq Lists
        /\ DOMAIN list.buddies \subseteq Users
        /\ \A c \in DOMAIN list.buddies : list.buddies[c] \subseteq list.groups
    BY SessionAssumption
  <2>3. /\ DOMAIN u.contacts \in SUBSET Users
        /\ u.contacts \in [DOMAIN u.contacts -> Contact]
    BY ContactsHave DEF UserType
  <2>4. \A c \in DOMAIN list.buddies :
           /\ ContactOf(list.buddies[c]) \in Contact
           /\ ContactOf(list.buddies[c]).groupids \subseteq list.groups \cup {NOT_GROUPED}
    BY <2>2, ContactFromList
  <2>5. /\ DOMAIN new \in SUBSET Users
        /\ new \in [DOMAIN new -> Contact]
    BY <2>2, <2>3, <2>4
  <2>6. new \in Contacts
    BY <2>5, ContactsAre
  <2> HIDE DEF new
  <2>7. v \in UserType
    BY <2>1, <2>2, <2>6 DEF UserType
  <2>8. /\ v.contacts = new
        /\ v.groups = u.groups \cup list.groups
        /\ v.version = version
        /\ v.full
        /\ v.password = u.password
        /\ v.read = u.read
    BY <2>1 DEF UserType
  <2>9. \A c \in DOMAIN new :
           new[c].groupids \subseteq u.groups \cup list.groups \cup {NOT_GROUPED} \cup Quoted
    BY <2>4 DEF new
  <2>10. \A c \in DOMAIN list.buddies :
            c \in DOMAIN new /\ new[c] = ContactOf(list.buddies[c])
    BY DEF new
  <2>11. QED
    BY <1>2, <2>7, <2>8, <2>9, <2>10
<1>3. QED
  BY <1>1, <1>2

(* The strangers of the list come in, and nobody else is touched. *)
LEMMA StrangersTakenOver ==
    ASSUME NEW u \in UserType, NEW strangers \in SUBSET Users,
           NEW v, v = parse_stranger_list(u, strangers),
           \A c \in DOMAIN u.contacts :
              u.contacts[c].groupids \subseteq u.groups \cup {NOT_GROUPED} \cup Quoted
    PROVE  /\ v \in UserType
           /\ \A c \in DOMAIN v.contacts :
                 v.contacts[c].groupids \subseteq v.groups \cup {NOT_GROUPED} \cup Quoted
           /\ v.version = u.version
           /\ v.password = u.password
           /\ v.read = u.read
           /\ v.full = u.full
           /\ v.groups = u.groups
           /\ \A c \in strangers : c \in DOMAIN v.contacts /\ v.contacts[c].groupid = STRANGER
           /\ \A c \in DOMAIN u.contacts \ strangers :
                 c \in DOMAIN v.contacts /\ v.contacts[c] = u.contacts[c]
<1> DEFINE new == [c \in DOMAIN u.contacts \cup strangers |->
                     IF c \in strangers THEN StrangerFrom(u.contacts, c) ELSE u.contacts[c]]
<1>1. v = [u EXCEPT !.contacts = new]
  BY DEF parse_stranger_list
<1>2. /\ DOMAIN u.contacts \in SUBSET Users
      /\ u.contacts \in [DOMAIN u.contacts -> Contact]
  BY ContactsHave DEF UserType
<1>3. \A c \in strangers :
         /\ StrangerFrom(u.contacts, c) \in Contact
         /\ StrangerFrom(u.contacts, c).groupid = STRANGER
         /\ StrangerFrom(u.contacts, c).groupids \subseteq u.groups \cup {NOT_GROUPED} \cup Quoted
  BY <1>2 DEF StrangerFrom, Contact
<1>4. DOMAIN new \in SUBSET Users /\ new \in [DOMAIN new -> Contact]
  BY <1>2, <1>3
<1>5. new \in Contacts
  BY <1>4, ContactsAre
<1>6. /\ \A c \in DOMAIN new :
            new[c].groupids \subseteq u.groups \cup {NOT_GROUPED} \cup Quoted
      /\ \A c \in strangers : c \in DOMAIN new /\ new[c].groupid = STRANGER
      /\ \A c \in DOMAIN u.contacts \ strangers : c \in DOMAIN new /\ new[c] = u.contacts[c]
  BY <1>3
<1> HIDE DEF new
<1>7. v \in UserType
  BY <1>1, <1>5 DEF UserType
<1>8. /\ v.contacts = new
      /\ v.groups = u.groups
      /\ v.version = u.version
      /\ v.password = u.password
      /\ v.read = u.read
      /\ v.full = u.full
  BY <1>1 DEF UserType
<1>9. QED
  BY <1>6, <1>7, <1>8

-----------------------------------------------------------------------------
(* The steps, by what they change. *)

(* A program that has not been started has nothing in memory or on disk. *)
LEMMA InvHolds == Init => SessionInv
<1> SUFFICES ASSUME Init PROVE SessionInv
  OBVIOUS
<1>1. PICK password \in Passwords, list \in Snapshots :
         theirs = [password |-> password, lists |-> <<list>>, accepted |-> {}, changed |-> 0]
  BY DEF Init
<1>2. TypeOK
  <2>1. NoTable \in [rows : BOOLEAN, groups : SUBSET Lists, contacts : Contacts, from : Nat]
    BY NobodyIsContacts DEF NoTable
  <2>2. <<list>> \in Seq(Snapshots)
    OBVIOUS
  <2>3. theirs \in ServerType
    BY <1>1, <2>2 DEF ServerType
  <2>4. disk \in DiskType
    BY <2>1 DEF Init, DiskType
  <2>5. QED
    BY <2>3, <2>4, SessionAssumption DEF Init, TypeOK
<1>3. VersionsKnown /\ PasswordsAccepted
  <2>1. Len(theirs.lists) = 1
    BY <1>1
  <2>2. ~disk.user.rows /\ disk.list.from = 0
    BY DEF Init, NoRow, NoTable
  <2>3. VersionsKnown
    BY <2>1, <2>2 DEF VersionsKnown
  <2>4. PasswordsAccepted
    BY <2>2 DEF PasswordsAccepted, StoredPasswordAccepted, Init, Accepted
  <2>5. QED
    BY <2>3, <2>4
<1>4. ListsOfContactsKnown
  BY DEF Init, ListsOfContactsKnown, NoTable, NoContacts
<1>5. QED
  BY <1>2, <1>3, <1>4 DEF Init, SessionInv, NothingYet, FreshAtStart, NotRefusedYet, AsLoaded,
     ReadyToSave, Before, Loaded, Accepted, Saving

(* A login that ends, well or badly, leaves nothing behind but what is on disk. *)
LEMMA Ends ==
    ASSUME SessionInv,
           UNCHANGED <<disk, logins>>,
           theirs'.lists = theirs.lists,
           theirs.accepted \subseteq theirs'.accepted,
           theirs' \in ServerType,
           \/ at' = "out" /\ user' = None
           \/ /\ at # "out" /\ at' # "out"
              /\ at' \in {"failed", "hung"}
              /\ user' \in UserType
              /\ user'.groups = user.groups
              /\ user'.contacts = user.contacts
    PROVE  SessionInv'
<1>1. TypeOK'
  BY DEF SessionInv, TypeOK
<1>2. VersionsKnown' /\ PasswordsAccepted'
  <2>1. VersionsKnown'
    BY DEF SessionInv, VersionsKnown
  <2>2. PasswordsAccepted'
    BY DEF SessionInv, PasswordsAccepted, StoredPasswordAccepted, Accepted
  <2>3. QED
    BY <2>1, <2>2
<1>3. ListsOfContactsKnown'
  BY DEF SessionInv, ListsOfContactsKnown, TypeOK
<1>4. QED
  BY <1>1, <1>2, <1>3 DEF SessionInv, NothingYet, FreshAtStart, NotRefusedYet, AsLoaded,
     ReadyToSave, Before, Loaded, Saving

(* The steps before anything is loaded leave the lists and versions of memory empty. *)
LEMMA Prepares ==
    ASSUME SessionInv,
           UNCHANGED <<disk, theirs>>,
           at' \in Before,
           logins' \in 0..MaxLogins,
           user' \in UserType,
           user'.version = 0,
           user'.groups = {},
           user'.contacts = NoContacts,
           user'.password = user'.given,
           ~user'.full,
           at' = "ssi" \/ user'.loginStatus # 401
    PROVE  SessionInv'
<1>1. TypeOK'
  <2>1. at' # "out"
    BY DEF Before
  <2>2. disk' = disk /\ theirs' = theirs
    OBVIOUS
  <2>3. QED
    BY <2>1, <2>2 DEF SessionInv, TypeOK, Before
<1>2. VersionsKnown' /\ PasswordsAccepted'
  <2>1. VersionsKnown'
    BY DEF SessionInv, VersionsKnown
  <2>2. PasswordsAccepted'
    BY DEF SessionInv, PasswordsAccepted, StoredPasswordAccepted, Accepted, Before
  <2>3. QED
    BY <2>1, <2>2
<1>3. ListsOfContactsKnown'
  BY DEF SessionInv, ListsOfContactsKnown, NoContacts
<1>4. QED
  BY <1>1, <1>2, <1>3 DEF SessionInv, NothingYet, FreshAtStart, NotRefusedYet, AsLoaded,
     ReadyToSave, Before, Loaded, Saving

(* The steps that only go on to the next one of the same phase. *)
LEMMA GoesOn ==
    ASSUME SessionInv,
           UNCHANGED <<user, disk, theirs, logins>>,
           \/ at \in Loaded /\ at' \in Loaded
           \/ at \in Saving /\ at' \in Saving
           \/ at \in Accepted /\ at' \in Accepted \ Saving
    PROVE  SessionInv'
<1>1. TypeOK'
  BY DEF SessionInv, TypeOK, Loaded, Saving, Accepted
<1>2. VersionsKnown' /\ PasswordsAccepted'
  <2>1. VersionsKnown'
    BY DEF SessionInv, VersionsKnown
  <2>2. PasswordsAccepted'
    BY DEF SessionInv, PasswordsAccepted, StoredPasswordAccepted, Accepted, Loaded, Saving
  <2>3. QED
    BY <2>1, <2>2
<1>3. ListsOfContactsKnown'
  BY DEF SessionInv, ListsOfContactsKnown, Loaded, Saving, Accepted
<1>4. AsLoaded' /\ NothingYet' /\ FreshAtStart' /\ NotRefusedYet'
  BY DEF SessionInv, AsLoaded, NothingYet, FreshAtStart, NotRefusedYet, Before, Loaded, Accepted,
         Saving
<1>5. ReadyToSave'
  BY DEF SessionInv, ReadyToSave, Covers, Loaded, Accepted, Saving
<1>6. QED
  BY <1>1, <1>2, <1>3, <1>4, <1>5 DEF SessionInv

(* LOF_INIT, the SSI authentication, the directory and the configuration. *)
LEMMA StartingSteps ==
    ASSUME SessionInv,
           \/ \E password \in Passwords : LOF_INIT(password)
           \/ \E status \in Statuses : ssi_auth(status)
           \/ ssi_unreachable
           \/ init_config
           \/ download_configuration
    PROVE  SessionInv'
<1> USE DEF Goes, Fails, Dies
<1>0. theirs \in ServerType
  BY DEF SessionInv, TypeOK
<1>1. ASSUME NEW password \in Passwords, LOF_INIT(password) PROVE SessionInv'
  <2>1. user' \in UserType
    BY <1>1, NobodyIsContacts DEF LOF_INIT, LocalUser_new, UserType
  <2>2. logins' \in 0..MaxLogins
    BY <1>1, SessionAssumption DEF LOF_INIT, SessionInv, TypeOK
  <2>3. QED
    BY <1>1, <2>1, <2>2, Prepares DEF LOF_INIT, LocalUser_new, Before
<1>2. ASSUME NEW status \in Statuses, ssi_auth(status) PROVE SessionInv'
  <2>0. user \in UserType
    BY <1>2 DEF ssi_auth, SessionInv, TypeOK
  <2>1. CASE at' = "config" /\ status = 200
             /\ user' = parse_ssi_auth_success([user EXCEPT !.loginStatus = status])
    <3>0. user' = [user EXCEPT !.loginStatus = status, !.known = TRUE]
      BY <2>1 DEF parse_ssi_auth_success
    <3>1. user' \in UserType
      BY <2>0, <2>1, <3>0 DEF UserType
    <3>2. /\ user'.version = user.version /\ user'.groups = user.groups
          /\ user'.contacts = user.contacts /\ user'.password = user.password
          /\ user'.given = user.given /\ user'.full = user.full /\ user'.loginStatus = 200
      BY <2>0, <2>1, <3>0 DEF UserType
    <3>3. /\ user.version = 0 /\ user.groups = {} /\ user.contacts = NoContacts
          /\ user.password = user.given /\ ~user.full /\ logins \in 0..MaxLogins
      BY <1>2 DEF ssi_auth, SessionInv, NothingYet, FreshAtStart, TypeOK, Before
    <3>4. UNCHANGED <<disk, theirs, logins>>
      BY <1>2 DEF ssi_auth
    <3>5. at' \in Before
      BY <2>1 DEF Before
    <3>6. QED
      BY <3>1, <3>2, <3>3, <3>4, <3>5, Prepares
  <2>2. CASE at' = "failed" /\ user' = [user EXCEPT !.loginStatus = status]
    BY <1>0, <1>2, <2>0, <2>2, Ends DEF ssi_auth, UserType
  <2>3. CASE Dies
    BY <1>0, <1>2, <2>3, Ends DEF ssi_auth
  <2>4. QED
    BY <1>2, <2>1, <2>2, <2>3 DEF ssi_auth
<1>3. CASE ssi_unreachable
  BY <1>0, <1>3, Ends DEF ssi_unreachable
<1>4. CASE init_config
  <2>1. PICK usable \in BOOLEAN : user' = [user EXCEPT !.dir = usable]
    BY <1>4 DEF init_config
  <2>2. user \in UserType
    BY <1>4 DEF init_config, SessionInv, TypeOK
  <2>3. user' \in UserType
    BY <2>1, <2>2 DEF UserType
  <2>4. /\ user'.version = user.version /\ user'.groups = user.groups
        /\ user'.contacts = user.contacts /\ user'.password = user.password
        /\ user'.given = user.given /\ user'.full = user.full
        /\ user'.loginStatus = user.loginStatus
    BY <2>1, <2>2 DEF UserType
  <2>5. /\ user.version = 0 /\ user.groups = {} /\ user.contacts = NoContacts
        /\ user.password = user.given /\ ~user.full /\ user.loginStatus # 401
        /\ logins \in 0..MaxLogins
    BY <1>4 DEF init_config, SessionInv, NothingYet, FreshAtStart, NotRefusedYet, TypeOK, Before
  <2>6. at' \in Before /\ UNCHANGED <<disk, theirs, logins>>
    BY <1>4 DEF init_config, Before
  <2>7. QED
    BY <2>3, <2>4, <2>5, <2>6, Prepares
<1>5. CASE download_configuration
  <2>1. CASE Fails("download") /\ UNCHANGED user
    BY <1>0, <1>5, <2>1, Ends DEF download_configuration, SessionInv, TypeOK
  <2>2. CASE /\ Goes("download", "load")
             /\ \E parsed \in BOOLEAN : user' = parse_configuration_xml(user, parsed)
    <3>1. PICK parsed \in BOOLEAN : user' = [user EXCEPT !.proxy = parsed]
      BY <2>2 DEF parse_configuration_xml
    <3>2. user \in UserType
      BY <2>2 DEF SessionInv, TypeOK
    <3>3. user' \in UserType
      BY <3>1, <3>2 DEF UserType
    <3>4. /\ user'.version = user.version /\ user'.groups = user.groups
          /\ user'.contacts = user.contacts /\ user'.password = user.password
          /\ user'.given = user.given /\ user'.full = user.full
          /\ user'.loginStatus = user.loginStatus
      BY <3>1, <3>2 DEF UserType
    <3>5. /\ user.version = 0 /\ user.groups = {} /\ user.contacts = NoContacts
          /\ user.password = user.given /\ ~user.full /\ user.loginStatus # 401
          /\ logins \in 0..MaxLogins
      BY <2>2 DEF SessionInv, NothingYet, FreshAtStart, NotRefusedYet, TypeOK, Before
    <3>6. at' \in Before /\ UNCHANGED <<disk, theirs, logins>>
      BY <1>5, <2>2 DEF download_configuration, Before
    <3>7. QED
      BY <3>3, <3>4, <3>5, <3>6, Prepares
  <2>3. QED
    BY <1>5, <2>1, <2>2 DEF download_configuration
<1>6. QED
  BY <1>1, <1>2, <1>3, <1>4, <1>5

(* The user and the contacts come from disk, or stay as they are. *)
LEMMA LoadStep ==
    ASSUME SessionInv, load
    PROVE  SessionInv'
<1> USE DEF Goes
<1>1. PICK readable \in BOOLEAN, tables \in 0..2 :
         user' = BuddyContact_load(LocalUser_load(user, readable), tables)
  BY DEF load
<1>2. /\ at = "load" /\ at' = "connect"
      /\ UNCHANGED <<disk, theirs, logins>>
      /\ user \in UserType
      /\ disk \in DiskType
  BY DEF load, SessionInv, TypeOK
<1>3. /\ user.version = 0 /\ user.groups = {} /\ user.contacts = NoContacts
      /\ user.password = user.given /\ ~user.full /\ user.loginStatus # 401
  BY <1>2 DEF SessionInv, NothingYet, FreshAtStart, NotRefusedYet, Before
<1> DEFINE u == LocalUser_load(user, readable)
<1>4. /\ u \in UserType
      /\ u.groups = {} /\ u.contacts = NoContacts /\ ~u.full /\ u.loginStatus # 401
      /\ u.dir = user.dir
      /\ u.given = user.given
      /\ u.password # u.given => disk.user.rows /\ disk.user.password = u.password
      /\ u.version # 0 => u.dir /\ disk.user.rows /\ disk.user.version = u.version
  <2>1. CASE readable /\ user.dir /\ disk.user.rows
    <3>1. u = [user EXCEPT !.password = disk.user.password, !.version = disk.user.version]
      BY <2>1 DEF LocalUser_load
    <3>2. disk.user.password \in Passwords /\ disk.user.version \in Nat
      <4>1. disk.user \in {NoRow} \cup [rows : {TRUE}, password : Passwords, version : Nat]
        BY <1>2 DEF DiskType
      <4>2. ~ NoRow.rows
        BY DEF NoRow
      <4>3. disk.user # NoRow
        BY <2>1, <4>2
      <4>4. QED
        BY <4>1, <4>3
    <3> HIDE DEF u
    <3>3. u \in UserType
      BY <1>2, <3>1, <3>2 DEF UserType
    <3>4. /\ u.groups = user.groups /\ u.contacts = user.contacts /\ u.full = user.full
          /\ u.loginStatus = user.loginStatus /\ u.dir = user.dir /\ u.given = user.given
          /\ u.password = disk.user.password /\ u.version = disk.user.version
      BY <1>2, <3>1 DEF UserType
    <3>5. QED
      BY <1>3, <2>1, <3>3, <3>4
  <2>2. CASE ~(readable /\ user.dir /\ disk.user.rows)
    <3>1. u = user
      BY <2>2 DEF LocalUser_load
    <3> HIDE DEF u
    <3>2. QED
      BY <1>2, <1>3, <3>1
  <2>3. QED
    BY <2>1, <2>2
<1> DEFINE groups == IF u.dir /\ disk.list.rows /\ tables >= 1 THEN disk.list.groups ELSE u.groups
           contacts == IF u.dir /\ disk.list.rows /\ tables = 2 THEN disk.list.contacts
                       ELSE u.contacts
           read == tables = 2
<1>5. user' = [u EXCEPT !.groups = groups, !.contacts = contacts, !.read = read]
  BY <1>1 DEF BuddyContact_load
<1>6. groups \in SUBSET Lists /\ contacts \in Contacts /\ read \in BOOLEAN
  BY <1>2, <1>4, NobodyIsContacts DEF DiskType
<1>7. /\ u.dir /\ read /\ disk.list.rows => groups = disk.list.groups /\ contacts = disk.list.contacts
      /\ \A c \in DOMAIN contacts :
             contacts[c].groupids \subseteq groups \cup {NOT_GROUPED} \cup Quoted
  <2>1. CASE u.dir /\ disk.list.rows /\ tables = 2
    <3>1. groups = disk.list.groups /\ contacts = disk.list.contacts
      BY <2>1
    <3> HIDE DEF groups, contacts
    <3>2. QED
      BY <3>1 DEF SessionInv, ListsOfContactsKnown
  <2>2. CASE ~(u.dir /\ disk.list.rows /\ tables = 2)
    <3>1. contacts = NoContacts
      BY <1>4, <2>2
    <3>2. ~(u.dir /\ read /\ disk.list.rows)
      BY <2>2
    <3> HIDE DEF groups, contacts, read
    <3>3. QED
      BY <3>1, <3>2 DEF NoContacts
  <2>3. QED
    BY <2>1, <2>2
<1> HIDE DEF u, groups, contacts
<1>8. user' \in UserType
  <2>1. u \in UserType
    BY <1>4
  <2>2. QED
    BY <1>5, <1>6, <2>1 DEF UserType
<1> HIDE DEF read
<1>9. /\ user'.groups = groups /\ user'.contacts = contacts /\ user'.read = read
      /\ user'.full = u.full /\ user'.loginStatus = u.loginStatus /\ user'.dir = u.dir
      /\ user'.given = u.given /\ user'.password = u.password /\ user'.version = u.version
  BY <1>4, <1>5 DEF UserType
<1>10. TypeOK'
  BY <1>2, <1>8 DEF SessionInv, TypeOK
<1>11. VersionsKnown'
  BY <1>2 DEF SessionInv, VersionsKnown
<1>12. PasswordsAccepted'
  BY <1>2 DEF SessionInv, PasswordsAccepted, StoredPasswordAccepted, Accepted
<1>13. ListsOfContactsKnown'
  BY <1>2, <1>7, <1>9 DEF SessionInv, ListsOfContactsKnown
<1>14. AsLoaded'
  BY <1>2, <1>4, <1>7, <1>9 DEF AsLoaded
<1>15. QED
  BY <1>2, <1>10, <1>11, <1>12, <1>13, <1>14 DEF SessionInv, NothingYet, FreshAtStart,
     NotRefusedYet, ReadyToSave, Before, Saving

(* The server has accepted the password, and the list is taken over. *)
LEMMA AcceptedStep ==
    ASSUME SessionInv, NEW list, list = theirs.lists[Len(theirs.lists)],
           at = "auth", at' = "save", UNCHANGED <<disk, logins>>,
           user.password = theirs.password,
           theirs' = [theirs EXCEPT !.accepted = theirs.accepted \cup {user.password}],
           user' = [parse_stranger_list(parse_contact_list(user, list, Len(theirs.lists)),
                                        list.strangers) EXCEPT !.loginStatus = 200]
    PROVE  SessionInv'
<1> DEFINE version == Len(theirs.lists)
           listed == parse_contact_list(user, list, version)
           known == parse_stranger_list(listed, list.strangers)
<1>1. /\ user \in UserType /\ disk \in DiskType /\ theirs \in ServerType
      /\ user.dir /\ user.read /\ disk.list.rows =>
             user.groups = disk.list.groups /\ user.contacts = disk.list.contacts
      /\ user.version # 0 => user.dir /\ disk.user.rows /\ disk.user.version = user.version
      /\ ~user.full
      /\ \A c \in DOMAIN user.contacts :
             user.contacts[c].groupids \subseteq user.groups \cup {NOT_GROUPED} \cup Quoted
  BY DEF SessionInv, TypeOK, AsLoaded, ListsOfContactsKnown, Loaded
<1>2. /\ theirs.lists \in Seq(Snapshots)
      /\ version \in Nat /\ version >= 1
      /\ list \in Snapshots
  <2>1. theirs.lists \in Seq(Snapshots) /\ Len(theirs.lists) >= 1
    BY <1>1 DEF SessionInv, VersionsKnown, ServerType
  <2>2. QED
    BY <2>1
<1>3. /\ DOMAIN list.buddies \subseteq Users
      /\ list.strangers \subseteq Users \ DOMAIN list.buddies
  BY <1>2, SessionAssumption
<1>4. /\ listed \in UserType
      /\ \A c \in DOMAIN listed.contacts :
            listed.contacts[c].groupids \subseteq listed.groups \cup {NOT_GROUPED} \cup Quoted
      /\ listed.version = version
      /\ listed.password = user.password
      /\ listed.read = user.read
      /\ user.version = version => listed = user
      /\ user.version # version =>
            /\ listed.full
            /\ list.groups \subseteq listed.groups
            /\ \A c \in DOMAIN list.buddies :
                  c \in DOMAIN listed.contacts /\ listed.contacts[c] = ContactOf(list.buddies[c])
  BY <1>1, <1>2, ListTakenOver
<1> HIDE DEF listed
<1>5. /\ known \in UserType
      /\ \A c \in DOMAIN known.contacts :
            known.contacts[c].groupids \subseteq known.groups \cup {NOT_GROUPED} \cup Quoted
      /\ known.version = listed.version
      /\ known.password = listed.password
      /\ known.read = listed.read
      /\ known.full = listed.full
      /\ known.groups = listed.groups
      /\ \A c \in list.strangers :
            c \in DOMAIN known.contacts /\ known.contacts[c].groupid = STRANGER
      /\ \A c \in DOMAIN listed.contacts \ list.strangers :
            c \in DOMAIN known.contacts /\ known.contacts[c] = listed.contacts[c]
  BY <1>3, <1>4, StrangersTakenOver
<1>6. user' = [known EXCEPT !.loginStatus = 200]
  BY DEF listed
<1> HIDE DEF known
<1>7. user' \in UserType
  BY <1>5, <1>6 DEF UserType, Statuses
<1>8. /\ user'.groups = known.groups /\ user'.contacts = known.contacts
      /\ user'.version = version /\ user'.password = user.password
      /\ user'.read = user.read /\ user'.full = listed.full
  BY <1>4, <1>5, <1>6 DEF UserType
<1>9. /\ theirs' \in ServerType
      /\ theirs'.lists = theirs.lists
      /\ theirs'.accepted = theirs.accepted \cup {user.password}
  BY <1>1 DEF ServerType, UserType
<1>10. TypeOK'
  BY <1>7, <1>9 DEF SessionInv, TypeOK
<1>11. VersionsKnown'
  BY <1>9 DEF SessionInv, VersionsKnown
<1>12. PasswordsAccepted'
  BY <1>8, <1>9 DEF SessionInv, PasswordsAccepted, StoredPasswordAccepted
<1>13. ListsOfContactsKnown'
  BY <1>5, <1>8 DEF SessionInv, ListsOfContactsKnown
<1>14. ReadyToSave'
  <2>1. /\ user'.version \in 1..Len(theirs'.lists)
        /\ disk'.user.rows => disk'.user.version <= user'.version
        /\ disk'.list.from <= user'.version
    BY <1>2, <1>8, <1>9 DEF SessionInv, VersionsKnown
  <2>2. ASSUME user'.full PROVE Covers(user', list)
    <3>1. user.version # version
      BY <1>1, <1>4, <1>8, <2>2
    <3>2. QED
      BY <1>3, <1>4, <1>5, <1>8, <3>1 DEF Covers
  <2>3. ASSUME ~user'.full
        PROVE  /\ user.version = version
               /\ listed = user
               /\ user.dir /\ disk.user.rows /\ disk.user.version = version
    BY <1>1, <1>2, <1>4, <1>8, <2>3
  <2>4. ASSUME ~user'.full, user'.read, disk.list.from = version, Covers(disk.list, list)
        PROVE  Covers(user', list)
    <3>1. disk.list.rows
      BY <1>2, <2>4 DEF SessionInv, VersionsKnown
    <3>2. listed.groups = disk.list.groups /\ listed.contacts = disk.list.contacts
      BY <1>1, <1>8, <2>3, <2>4, <3>1
    <3>3. QED
      BY <1>3, <1>5, <1>8, <2>4, <3>2 DEF Covers
  <2>5. theirs'.lists[user'.version] = list /\ disk' = disk
    BY <1>8, <1>9
  <2>6. QED
    BY <1>8, <2>1, <2>2, <2>3, <2>4, <2>5 DEF ReadyToSave
<1>15. QED
  BY <1>10, <1>11, <1>12, <1>13, <1>14 DEF SessionInv, NothingYet, FreshAtStart,
     NotRefusedYet, AsLoaded, Before, Loaded

(* Connecting, registering and authenticating. *)
LEMMA ConnectedSteps ==
    ASSUME SessionInv,
           \/ connect
           \/ sipc_reg
           \/ \E code \in Statuses, body \in BOOLEAN : parse_sipc_auth_response(code, body)
           \/ sipc_aut_unanswered
           \/ subscribe_and_prepare
           \/ Exit
    PROVE  SessionInv'
<1> USE DEF Goes, Fails, Dies, Hangs
<1>0. theirs \in ServerType /\ (at # "out" => user \in UserType)
  BY DEF SessionInv, TypeOK
<1>1. CASE connect
  <2>1. CASE at = "connect" /\ at' = "failed"
    BY <1>0, <1>1, <2>1, Ends DEF connect
  <2>2. CASE at = "connect" /\ at' = "register"
    BY <1>1, <2>2, GoesOn DEF connect, Loaded
  <2>3. QED
    BY <1>1, <2>1, <2>2 DEF connect
<1>2. CASE sipc_reg
  <2>1. CASE at = "register" /\ at' \in {"failed", "hung"} /\ UNCHANGED user
    BY <1>0, <1>2, <2>1, Ends DEF sipc_reg
  <2>2. CASE at = "register" /\ at' = "auth" /\ UNCHANGED user
    BY <1>2, <2>2, GoesOn DEF sipc_reg, Loaded
  <2>3. CASE Dies
    BY <1>0, <1>2, <2>3, Ends DEF sipc_reg
  <2>4. QED
    BY <1>2, <2>1, <2>2, <2>3 DEF sipc_reg
<1>3. ASSUME NEW code \in Statuses, NEW body \in BOOLEAN, parse_sipc_auth_response(code, body)
      PROVE  SessionInv'
  <2> DEFINE list == theirs.lists[Len(theirs.lists)]
             listed == parse_contact_list(user, list, Len(theirs.lists))
  <2>1. /\ at = "auth"
        /\ code = 200 => user.password = theirs.password
        /\ theirs' = IF code = 200 THEN [theirs EXCEPT !.accepted = @ \cup {user.password}]
                     ELSE theirs
        /\ UNCHANGED <<disk, logins>>
    BY <1>3 DEF parse_sipc_auth_response
  <2>2. user \in UserType
    BY <1>0, <2>1
  <2>3. CASE /\ code = 200 /\ at' = "save"
             /\ user' = [parse_stranger_list(listed, list.strangers) EXCEPT !.loginStatus = code]
    BY <2>1, <2>3, AcceptedStep
  <2>4. /\ theirs' \in ServerType
        /\ theirs'.lists = theirs.lists
        /\ theirs.accepted \subseteq theirs'.accepted
    BY <1>0, <2>1, <2>2 DEF ServerType, UserType
  <2>5. CASE Dies
    BY <2>1, <2>4, <2>5, Ends
  <2>6. CASE at' = "failed" /\ user' = [user EXCEPT !.loginStatus = code]
    <3>1. /\ user' \in UserType /\ user'.groups = user.groups
          /\ user'.contacts = user.contacts
      BY <2>2, <2>6 DEF UserType
    <3>2. QED
      BY <2>1, <2>4, <2>6, <3>1, Ends
  <2>7. QED
    BY <1>3, <2>3, <2>5, <2>6 DEF parse_sipc_auth_response
<1>4. CASE sipc_aut_unanswered
  BY <1>0, <1>4, Ends DEF sipc_aut_unanswered
<1>5. CASE subscribe_and_prepare
  BY <1>5, GoesOn DEF subscribe_and_prepare, Accepted, Saving
<1>6. CASE Exit
  BY <1>0, <1>6, Ends DEF Exit
<1>7. QED
  BY <1>1, <1>2, <1>3, <1>4, <1>5, <1>6

(* The row of the user, in two writes. *)
LEMMA RowSteps ==
    ASSUME SessionInv, LocalUser_delete \/ LocalUser_insert
    PROVE  SessionInv'
<1> USE DEF Goes
<1>1. CASE UNCHANGED disk
  <2>1. at \in Saving /\ at' \in Saving
    BY DEF LocalUser_delete, LocalUser_insert, Saving
  <2>2. UNCHANGED <<user, disk, theirs, logins>>
    BY <1>1 DEF LocalUser_delete, LocalUser_insert
  <2>3. QED
    BY <2>1, <2>2, GoesOn
<1>2. CASE \E row : disk' = [disk EXCEPT !.user = row] /\ (row = NoRow \/ row = Row(user))
  <2>1. PICK row : disk' = [disk EXCEPT !.user = row] /\ (row = NoRow \/ row = Row(user))
    BY <1>2
  <2>2. /\ at \in Saving /\ at' \in Saving /\ at \in Accepted /\ at' \in Accepted
        /\ at # "out" /\ at' # "out"
        /\ UNCHANGED <<user, theirs, logins>>
    BY DEF LocalUser_delete, LocalUser_insert, Saving, Accepted
  <2>3. user \in UserType /\ disk \in DiskType
    BY <2>2 DEF SessionInv, TypeOK
  <2>4. /\ row \in {NoRow} \cup [rows : {TRUE}, password : Passwords, version : Nat]
        /\ row.rows => row.password = user.password /\ row.version = user.version
    <3>1. CASE row = NoRow
      <4>1. ~NoRow.rows
        BY DEF NoRow
      <4>2. QED
        BY <3>1, <4>1
    <3>2. CASE row = Row(user)
      <4>1. user.password \in Passwords /\ user.version \in Nat
        BY <2>3 DEF UserType
      <4>2. QED
        BY <3>2, <4>1 DEF Row
    <3>3. QED
      BY <2>1, <3>1, <3>2
  <2>5. /\ disk' \in DiskType
        /\ disk'.user = row /\ disk'.list = disk.list
    BY <2>1, <2>3, <2>4 DEF DiskType
  <2>6. TypeOK'
    BY <2>2, <2>5 DEF SessionInv, TypeOK, Saving
  <2>7. PasswordsAccepted'
    BY <2>2, <2>4, <2>5 DEF SessionInv, PasswordsAccepted, StoredPasswordAccepted
  <2>8. VersionsKnown'
    BY <2>2, <2>4, <2>5 DEF SessionInv, VersionsKnown, ReadyToSave
  <2>9. ListsOfContactsKnown'
    BY <2>2, <2>5 DEF SessionInv, ListsOfContactsKnown
  <2>10. ReadyToSave'
    <3>1. user.version \in 1..Len(theirs.lists)
      BY <2>2 DEF SessionInv, ReadyToSave
    <3>2. QED
      BY <2>2, <2>4, <2>5, <3>1 DEF SessionInv, ReadyToSave, Covers
  <2>11. QED
    BY <2>2, <2>6, <2>7, <2>8, <2>9, <2>10 DEF SessionInv, NothingYet, FreshAtStart,
       NotRefusedYet, AsLoaded, Before, Loaded, Saving
<1>3. QED
  BY <1>1, <1>2 DEF LocalUser_delete, LocalUser_insert

(* Only what has a row in its own table is stored, lists and contacts alike. *)
LEMMA StoredLists ==
    ASSUME SessionInv, at \in Saving
    PROVE  /\ Stored(user) \in [rows : BOOLEAN, groups : SUBSET Lists, contacts : Contacts, from : Nat]
           /\ Stored(user).rows
           /\ Stored(user).from = user.version
           /\ \A c \in DOMAIN Stored(user).contacts :
                 Stored(user).contacts[c].groupids
                     \subseteq Stored(user).groups \cup {NOT_GROUPED} \cup Quoted
<1> DEFINE new == [c \in DOMAIN user.contacts \ Quoted |-> user.contacts[c]]
<1>1. user \in UserType /\ at # "out"
  BY DEF SessionInv, TypeOK, Saving
<1>2. /\ DOMAIN user.contacts \in SUBSET Users
      /\ user.contacts \in [DOMAIN user.contacts -> Contact]
  BY <1>1, ContactsHave DEF UserType
<1>3. DOMAIN new \in SUBSET Users /\ new \in [DOMAIN new -> Contact]
  BY <1>2
<1>4. new \in Contacts
  BY <1>3, ContactsAre
<1>5. \A c \in DOMAIN new :
         new[c].groupids \subseteq (user.groups \ Quoted) \cup {NOT_GROUPED} \cup Quoted
  BY <1>1 DEF SessionInv, ListsOfContactsKnown
<1> HIDE DEF new
<1>6. Stored(user) = [rows |-> TRUE, groups |-> user.groups \ Quoted, contacts |-> new,
                      from |-> user.version]
  BY DEF Stored, new
<1>7. QED
  BY <1>1, <1>4, <1>5, <1>6 DEF UserType

(* Lists and contacts, in one write. *)
LEMMA ContactsStep ==
    ASSUME SessionInv, BuddyContact_save
    PROVE  SessionInv'
<1> USE DEF Goes
<1>1. CASE UNCHANGED disk
  BY <1>1, GoesOn DEF BuddyContact_save, Accepted, Saving
<1>2. CASE disk' = [disk EXCEPT !.list = Stored(user)]
  <2>1. /\ at = "contacts" /\ at' = "subscribe"
        /\ UNCHANGED <<user, theirs, logins>>
        /\ user \in UserType /\ disk \in DiskType
    BY DEF BuddyContact_save, SessionInv, TypeOK
  <2>2. /\ Stored(user) \in [rows : BOOLEAN, groups : SUBSET Lists, contacts : Contacts, from : Nat]
        /\ Stored(user).rows
        /\ Stored(user).from = user.version
        /\ \A c \in DOMAIN Stored(user).contacts :
              Stored(user).contacts[c].groupids
                  \subseteq Stored(user).groups \cup {NOT_GROUPED} \cup Quoted
    BY <2>1, StoredLists DEF Saving
  <2>3. disk' \in DiskType /\ disk'.user = disk.user /\ disk'.list = Stored(user)
    BY <1>2, <2>1, <2>2 DEF DiskType
  <2>4. TypeOK'
    BY <2>1, <2>3 DEF SessionInv, TypeOK
  <2>5. PasswordsAccepted'
    BY <2>1, <2>3 DEF SessionInv, PasswordsAccepted, StoredPasswordAccepted, Accepted
  <2>6. VersionsKnown'
    BY <2>1, <2>2, <2>3 DEF SessionInv, VersionsKnown, ReadyToSave, Saving
  <2>7. ListsOfContactsKnown'
    BY <2>1, <2>2, <2>3 DEF SessionInv, ListsOfContactsKnown
  <2>8. QED
    BY <2>1, <2>4, <2>5, <2>6, <2>7 DEF SessionInv, NothingYet, FreshAtStart, NotRefusedYet,
       AsLoaded, ReadyToSave, Before, Loaded, Saving
<1>3. QED
  BY <1>1, <1>2 DEF BuddyContact_save

(* The server's history of lists only grows, and the password changes there only. *)
LEMMA ServerSteps ==
    ASSUME SessionInv,
           \/ \E list \in Snapshots : NewList(list)
           \/ \E password \in Passwords : NewPassword(password)
    PROVE  SessionInv'
<1>0. UNCHANGED <<at, user, disk, logins>>
  BY DEF NewList, NewPassword
<1>1. /\ theirs' \in ServerType
      /\ theirs'.accepted = theirs.accepted
      /\ Len(theirs'.lists) >= Len(theirs.lists)
      /\ Len(theirs.lists) \in Nat /\ Len(theirs'.lists) \in Nat
      /\ \A i \in 1..Len(theirs.lists) : theirs'.lists[i] = theirs.lists[i]
  <2>1. theirs \in ServerType /\ theirs.lists \in Seq(Snapshots)
    BY DEF SessionInv, TypeOK, ServerType
  <2>2. ASSUME NEW list \in Snapshots, NewList(list)
        PROVE  /\ theirs' \in ServerType
               /\ theirs'.accepted = theirs.accepted
               /\ theirs'.lists = Append(theirs.lists, list)
    <3>1. theirs' = [theirs EXCEPT !.lists = Append(theirs.lists, list)]
      BY <2>2 DEF NewList
    <3>2. Append(theirs.lists, list) \in Seq(Snapshots)
      BY <2>1
    <3>3. QED
      BY <2>1, <3>1, <3>2 DEF ServerType
  <2>3. ASSUME NEW password \in Passwords, NewPassword(password)
        PROVE  /\ theirs' \in ServerType
               /\ theirs'.accepted = theirs.accepted
               /\ theirs'.lists = theirs.lists
    <3>1. theirs' = [theirs EXCEPT !.password = password, !.changed = theirs.changed + 1]
      BY <2>3 DEF NewPassword
    <3>2. theirs.changed + 1 \in Nat
      BY <2>1 DEF ServerType
    <3>3. QED
      BY <2>1, <3>1, <3>2 DEF ServerType
  <2>4. CASE \E list \in Snapshots : NewList(list)
    <3>1. PICK list \in Snapshots : NewList(list)
      BY <2>4
    <3>2. QED
      BY <2>1, <2>2, <3>1
  <2>5. CASE \E password \in Passwords : NewPassword(password)
    BY <2>1, <2>3, <2>5
  <2>6. QED
    BY <2>4, <2>5
<1>2. TypeOK'
  BY <1>0, <1>1 DEF SessionInv, TypeOK
<1>3. PasswordsAccepted'
  BY <1>0, <1>1 DEF SessionInv, PasswordsAccepted, StoredPasswordAccepted
<1>4. VersionsKnown'
  BY <1>0, <1>1 DEF SessionInv, VersionsKnown
<1>5. ReadyToSave'
  BY <1>0, <1>1 DEF SessionInv, ReadyToSave, Covers
<1>6. ListsOfContactsKnown'
  BY <1>0 DEF SessionInv, ListsOfContactsKnown
<1>7. NothingYet' /\ FreshAtStart' /\ NotRefusedYet' /\ AsLoaded'
  BY <1>0 DEF SessionInv, NothingYet, FreshAtStart, NotRefusedYet, AsLoaded
<1>8. QED
  BY <1>2, <1>3, <1>4, <1>5, <1>6, <1>7 DEF SessionInv

(* Every step keeps SessionInv, and so does stuttering. *)
LEMMA InvKept == SessionInv /\ [Next]_vars => SessionInv'
<1> SUFFICES ASSUME SessionInv, [Next]_vars PROVE SessionInv'
  OBVIOUS
<1>1. CASE UNCHANGED vars
  BY <1>1 DEF vars, SessionInv, TypeOK, NothingYet, FreshAtStart, NotRefusedYet, AsLoaded,
     PasswordsAccepted, StoredPasswordAccepted, VersionsKnown, ReadyToSave,
     ListsOfContactsKnown, Covers
<1>2. CASE Next
  BY <1>2, StartingSteps, LoadStep, ConnectedSteps, RowSteps, ContactsStep, ServerSteps DEF Next
<1>3. QED
  BY <1>1, <1>2

-----------------------------------------------------------------------------
(* Theorems. *)

(* SessionInv holds always, whatever fails, ends or changes. *)
THEOREM SessionSound == Spec => []SessionInv
<1>1. Init => SessionInv
  BY InvHolds
<1>2. SessionInv /\ [Next]_vars => SessionInv'
  BY InvKept
<1>3. QED
  BY <1>1, <1>2, PTL DEF Spec

(* A user object, and what is stored of one, is always well formed. *)
THEOREM SessionTypes == Spec => []TypeOK
<1>1. SessionInv => TypeOK
  BY DEF SessionInv
<1>2. QED
  BY <1>1, SessionSound, PTL

(* No contact, in memory or stored, is in a list that is not there too. *)
THEOREM ListsKnown == Spec => []ListsOfContactsKnown
<1>1. SessionInv => ListsOfContactsKnown
  BY DEF SessionInv
<1>2. QED
  BY <1>1, SessionSound, PTL

(* Only passwords that the server has accepted are stored. *)
THEOREM AcceptedStored == Spec => []StoredPasswordAccepted
<1>1. SessionInv => StoredPasswordAccepted
  BY DEF SessionInv, PasswordsAccepted
<1>2. QED
  BY <1>1, SessionSound, PTL

(* The right password is refused only because a stored one was sent for it. *)
LEMMA RefusalStep ==
    ASSUME SessionInv, [Next]_vars,
           at = "auth", at' = "failed", user'.loginStatus = 401, user.given = theirs.password
    PROVE  disk.user.rows /\ disk.user.password # user.given
<1>1. user \in UserType /\ user.loginStatus # 401
      /\ (user.password # user.given => disk.user.rows /\ disk.user.password = user.password)
  BY DEF SessionInv, TypeOK, AsLoaded, Loaded
<1>2. user' # user
  BY <1>1
<1>3. PICK code \in Statuses, body \in BOOLEAN : parse_sipc_auth_response(code, body)
  BY <1>2 DEF Next, vars, LOF_INIT, ssi_auth, ssi_unreachable, init_config,
     download_configuration, load, connect, sipc_reg, sipc_aut_unanswered, LocalUser_delete,
     LocalUser_insert, BuddyContact_save, subscribe_and_prepare, Exit, NewList, NewPassword,
     Goes, Fails, Dies, Hangs
<1>4. user' = [user EXCEPT !.loginStatus = code]
  BY <1>3 DEF parse_sipc_auth_response, Dies
<1>5. code = 401
  BY <1>1, <1>4 DEF UserType
<1>6. user.password # theirs.password
  BY <1>3, <1>5 DEF parse_sipc_auth_response
<1>7. QED
  BY <1>1, <1>6

(* parse_sipc_auth_response sees 401 for a right password only when            *)
(* LocalUser_load has put the stored one in its place.                         *)
THEOREM RefusedOnlyForTheStored == Spec => RefusedForTheStored
<1>1. SessionInv /\ [Next]_vars =>
         [at = "auth" /\ at' = "failed" /\ user'.loginStatus = 401 /\ user.given = theirs.password
             => disk.user.rows /\ disk.user.password # user.given]_vars
  BY RefusalStep
<1>2. QED
  BY <1>1, SessionSound, PTL DEF Spec, RefusedForTheStored

(* What is stored covers the list of its version as memory does. *)
LEMMA StoredCovers ==
    ASSUME NEW u, NEW list, Covers(u, list)
    PROVE  Covers(Stored(u), list)
BY DEF Covers, Stored

(* Contacts that are up to date on disk stay so, but for the two gaps. *)
LEMMA TearStep ==
    ASSUME SessionInv, [Next]_vars, UpToDate, ~UpToDate'
    PROVE  at = "insert" \/ (at = "contacts" /\ ~user.read)
<1> USE DEF Goes, Fails, Dies, Hangs
<1> SUFFICES ASSUME at # "insert", at = "contacts" => user.read PROVE FALSE
  OBVIOUS
<1>1. CASE UNCHANGED disk /\ \A i \in 1..Len(theirs.lists) : theirs'.lists[i] = theirs.lists[i]
  <2>1. disk.user.rows => disk.list.from \in 1..Len(theirs.lists)
    BY DEF UpToDate, SessionInv, VersionsKnown
  <2>2. QED
    BY <1>1, <2>1 DEF UpToDate, Covers
<1>2. CASE LocalUser_delete /\ ~UNCHANGED disk
  <2>1. disk \in DiskType
    BY DEF SessionInv, TypeOK
  <2>2. disk' = [disk EXCEPT !.user = NoRow]
    BY <1>2 DEF LocalUser_delete
  <2>3. disk'.user = NoRow
    BY <2>1, <2>2 DEF DiskType
  <2>4. ~NoRow.rows
    BY DEF NoRow
  <2>5. QED
    BY <2>3, <2>4 DEF UpToDate
<1>3. CASE BuddyContact_save /\ ~UNCHANGED disk
  <2>1. disk \in DiskType
    BY DEF SessionInv, TypeOK
  <2>2. /\ at \in Saving /\ user.read
        /\ disk' = [disk EXCEPT !.list = Stored(user)]
        /\ theirs' = theirs
    BY <1>3 DEF BuddyContact_save, Saving
  <2>3. disk'.user = disk.user /\ disk'.list = Stored(user)
    BY <2>1, <2>2 DEF DiskType
  <2>4. disk.user.rows /\ Stored(user).from = user.version
    BY <2>3, <2>2, StoredLists DEF UpToDate
  <2>5. disk.user.version <= user.version
    BY <2>2, <2>4 DEF SessionInv, ReadyToSave
  <2>6. Covers(user, theirs.lists[user.version])
    <3>1. CASE user.full
      BY <2>2, <3>1 DEF SessionInv, ReadyToSave
    <3>2. CASE ~user.full
      <4>1. disk.user.version = user.version /\ disk.list.from <= user.version
        BY <2>2, <2>4, <3>2 DEF SessionInv, ReadyToSave
      <4>2. disk.list.from >= user.version /\ Covers(disk.list, theirs.lists[disk.list.from])
        BY <2>4, <4>1 DEF UpToDate
      <4>3. disk.list.from \in Nat /\ user.version \in Nat
        BY <2>2 DEF SessionInv, ReadyToSave, VersionsKnown
      <4>4. disk.list.from = user.version
        BY <4>1, <4>2, <4>3
      <4>5. QED
        BY <2>2, <3>2, <4>2, <4>4 DEF SessionInv, ReadyToSave
    <3>3. QED
      BY <3>1, <3>2
  <2>7. Covers(Stored(user), theirs.lists[user.version])
    BY <2>6, StoredCovers
  <2>8. disk.user.version \in Nat /\ user.version \in Nat
    BY <2>2, <2>4 DEF SessionInv, ReadyToSave, VersionsKnown
  <2>9. QED
    BY <2>2, <2>3, <2>4, <2>5, <2>7, <2>8 DEF UpToDate
<1>4. CASE UNCHANGED vars
  BY <1>1, <1>4 DEF vars
<1>5. CASE \E list \in Snapshots : NewList(list)
  <2>1. PICK list \in Snapshots : NewList(list)
    BY <1>5
  <2>2. theirs \in ServerType /\ theirs.lists \in Seq(Snapshots)
    BY DEF SessionInv, TypeOK, ServerType
  <2>3. theirs' = [theirs EXCEPT !.lists = Append(theirs.lists, list)]
    BY <2>1 DEF NewList
  <2>4. theirs'.lists = Append(theirs.lists, list)
    BY <2>2, <2>3 DEF ServerType
  <2>5. QED
    BY <1>1, <2>1, <2>2, <2>4 DEF NewList
<1>6. CASE UNCHANGED disk /\ theirs'.lists = theirs.lists
  BY <1>1, <1>6
<1>7. CASE Next /\ ~ \E list \in Snapshots : NewList(list)
  <2>1. theirs \in ServerType
    BY DEF SessionInv, TypeOK
  <2>2. ASSUME NEW code \in Statuses, NEW body \in BOOLEAN, parse_sipc_auth_response(code, body)
        PROVE  UNCHANGED disk /\ theirs'.lists = theirs.lists
    BY <2>1, <2>2 DEF parse_sipc_auth_response, ServerType
  <2>3. ASSUME NEW password \in Passwords, NewPassword(password)
        PROVE  UNCHANGED disk /\ theirs'.lists = theirs.lists
    BY <2>1, <2>3 DEF NewPassword, ServerType
  <2>4. CASE LocalUser_insert
    BY <2>4 DEF LocalUser_insert
  <2>5. CASE LocalUser_delete \/ BuddyContact_save
    BY <1>2, <1>3, <1>6, <2>5 DEF LocalUser_delete, BuddyContact_save
  <2>6. QED
    BY <1>6, <1>7, <2>2, <2>3, <2>4, <2>5 DEF Next, LOF_INIT, ssi_auth, ssi_unreachable,
       init_config, download_configuration, load, connect, sipc_reg, sipc_aut_unanswered,
       subscribe_and_prepare, Exit
<1>8. QED
  BY <1>4, <1>5, <1>7

(* What is stored falls behind the version stored with it only between the     *)
(* saves of LOF_INIT, or in BuddyContact_save when an insert fails.            *)
THEOREM TornOnlyInTheGaps == Spec => OnlyTheGapsTear
<1>1. SessionInv /\ [Next]_vars =>
         [UpToDate /\ ~UpToDate' => at = "insert" \/ (at = "contacts" /\ ~user.read)]_vars
  BY TearStep
<1>2. QED
  BY <1>1, SessionSound, PTL DEF Spec, OnlyTheGapsTear
================================================================================
