# LOF, verified: the daemon of libOpenFetion

LOF is a fork of the OpenFetion client turned into a daemon. It logs in to the
Fetion service, keeps one *root* channel to the SIP proxy and one *chat* channel
per conversation, reads commands from a named pipe (`CommandTunnel`) and writes
their results to another one (`ResultTunnel`). This directory holds TLA+ models
of its core, of a login, and of the library calls that keep contacts and groups;
TLC configurations that check them on small instances; and proofs checked by
TLAPS that hold for every instance.

    tlc -workers 2 -config Delivery.cfg MCTakeover      # one of the runs below
    tlc -workers 2 -config StaleContacts.cfg MCSession  # finds a violation
    tlapm PromiseProofs.tla                             # one of the proof modules

## 1. The system

### Components

| component | source | state | operations | modelled |
|---|---|---|---|---|
| main loop | `cliLOF.c` `LOF_TAKEOVER` | the node it is at, the batch it has read, `listener_error`, the sleep flag | poll, dispatch, close, keep alive, walk, sleep, read the pipe | yes |
| command engine | `LOF_extra.c` | the command list, per command Status, Progress, Retry, Callid, Timer, BackSipMsg | arrange, execute, acknowledge, retry, report | yes, but for parsing |
| conversations | `LOF_conversation.c` | contact, `ready`, SIP struct, stop watch | new, send a text, nudge | yes, but for the helpers of the old client |
| linked list | `LOF_list.c` | `pre` and `next`; the ends point to themselves | new, append, del | as sequences |
| SIP layer | `LOF_sip.c` | the global call id, type and queued headers of a SIP struct | set_type, to_string, listen, get_response, parse_* | call ids, headers, `get_response`, what `listen` returns, message kinds |
| connections | `LOF_connection.c` | a socket, SSL | connect, send, recv, free | none, open or shut |
| tunnels | `LOF_extra.c`, `cliLOF.c` | two descriptors | prepare, open, read, write | what is read |
| login | `LOF_login.c`, `LOF_INIT` | nonce, keys, verification | SSI, registration, authentication, saves | yes, but for digests and personal data |
| user, presence | `LOF_user.c` | the local user, the `user` row of `data.db` | load, save, status, mood phrase, data, SMS status, keep alive, presence | yes, but for portraits and synchronisation |
| contacts, buddy lists | `LOF_contact.c`, `LOF_buddylist.c` | contact and group lists, the tables `groups` and `contacts_2_2_0` | subscribe, look up, add, answer a request, delete, move, copy, load, save; create, rename and delete a group | yes, but for display data |
| PG groups | `LOF_group.c` | groups, members, the call ids of requests | list, data, members, members' data, invite, message, SMS, and the parsers | yes, but for display data |
| configuration | `LOF_config.c` | addresses, a directory | initialise, download, load, save | as `LOF_INIT` depends on it |
| messages, history, direct SMS, share, debug | `LOF_message.c` and others | | | no, see section 7 |
| old client, cJSON | `cliofetion.c`, `cJSON.c` | | | no, see section 7 |

### How they interact

There is one thread. An iteration of `LOF_TAKEOVER` polls every conversation of
the list with `LOF_SIP_FetionSip_listen`; everything one poll returns is
dispatched before the next conversation is polled. A reply (`SIP-C/4.0`) is
attached to the first command with its call id (`LOF_TOOL_Command_ack_sipc40`);
a message is stored, acknowledged, and echoed to its sender by a new command; an
invitation appends a conversation; a Conversation notification marks the
conversation it is heard on as entered or failed, or frees it. Then the root
channel is kept alive, `LOF_TOOL_Command_main` walks over the command list and
moves each command a step, the thread sleeps, and the pipe is read.

A command is thus a coroutine driven by polling: `Progress` says which request it
has written, `Callid` which reply it waits for, `BackSipMsg` holds the reply.
Commands share conversations, the engine and the loop both free conversations,
and the engine frees commands under its own walk.

Before the loop there is `LOF_INIT`. It authenticates at the SSI server, downloads
the configuration, loads the user and the contacts from `data.db`, registers and
authenticates at the SIP proxy, whose answer holds the contact list, saves the
user and the contacts, and subscribes. What it saves is where the next login
starts from: the version of the contact list decides whether the server's list is
read at all, and the stored password replaces the one given.

A program that links the library changes contacts, groups and its own data by
calls that write a request on the root channel. Most of them wait: they read the
same socket the loop reads, and take what comes for their answer
(`LOF_SIP_get_response`); nothing compares call ids. The calls of `LOF_group.c`
do not wait. They leave the call id of the request in the group or the member, and
whoever reads the channel finds the parser for a reply by it.

### What is hard

The concurrency is with the outside: the server answers late, negatively, or
never; the buddy enters, fails, leaves, or opens a chat of his own while one is
being set up for him; a channel ends in any state; time passes between any two
steps and turns a command into a failure that is retried with the call id and the
reply of its first try still in it. `PROJECT.json` lists the hazards with their
lines. What makes each part correct:

* engine: a command's end is announced once; "done" only if the server accepted
  its text; the text goes out at most once per try; every command ends;
* acknowledgement: a reply reaches the command that asked;
* command list: a walk that frees its nodes loses none;
* conversation list: the root stays, the loop's pointer is in the list, no
  conversation without a channel is polled or written to, no socket outlives its
  conversation with a request on it;
* login: what is on disk after a login that ended anywhere does not mislead the
  next one; only an accepted password is stored;
* synchronous calls: each takes its own answer, and the local lists are what the
  server has;
* PG groups: an answer goes to the parser and the group it is for;
* listen: every message that was received whole is returned once, in order.

## 2. The modules

| module | models | state |
|---|---|---|
| `Conversations` | `LOF_conversation.c` 40-60, `LOF_list.c` as used for conversations | `convs`, `conv` |
| `Commands` | `LOF_extra.c` 41-619: the engine, and the requests it has outstanding | `mode`, `pc`, `queue`, `cmd`, `pos`, `execs`, `callid`, `pending`, `outcome`, `sends`, `accepted` |
| `Takeover` | `cliLOF.c` 21-277, the callbacks, the server's side; composes the two above | `at`, `listenerError`, `batch`, `news`, `beats` |
| `CommandLifecycle` | the abstract promise of the engine: no lists, channels, call ids, clocks | `stage`, `sends`, `accepted`, `alive` |
| `Requests` | `LOF_sip.c` on the root channel: the SIP struct, `to_string`, `get_response`; the server's end | `callid`, `sip`, `asked`, `inbox`, `line`, `running` |
| `Roster` | `LOF_contact.c`, `LOF_buddylist.c`, the requests of `LOF_user.c`, beside presence; extends `Requests` | `contacts`, `groups`, `self`, `verification`, `call`, `theirs`, and what the properties record |
| `PGGroups` | `LOF_group.c`, with the client of its header; extends `Requests` | `pggroup`, `listCall`, `infoCall`, `walk`, `joined`, `invited` |
| `Session` | `LOF_INIT`, `LOF_login.c`, the tables of `data.db` | `at`, `user`, `disk`, `theirs`, `logins` |
| `MCTakeover`, `MCRoster`, `MCPGGroups`, `MCSession` | instances for TLC | |
| `TakeoverInvariants` | the parts of the inductive invariants | |
| `ListLemmas` | facts on `Append`, `RemoveAt`, `Tail` and `SubSeq`, and on functions defined step by step | |
| `TakeoverEffects` | what each action changes, proved | |
| `TakeoverProofs`, `DeliveryProofs`, `PromiseProofs` | the theorems about `Takeover` | |
| `SessionProofs`, `RosterProofs`, `PGGroupsProofs` | the theorems about `Session`, `Roster` and `PGGroups` | |

### State and code

* `queue` is `LOF_GLOBAL_Command_List` in list order, `pos` the position of
  `listptr`, `execs` is `execcount`. The four ways the walk unlinks a node
  (`LOF_extra.c` 548-580) are one: remove position `pos`, and look at what is
  there now, or end the walk if it was the last.
* `cmd[c]` is the `LOF_TOOL_CommandType`: `timer` is the age its stop watch would
  show, `back` is `BackSipMsg`, `status` and `progress` are the fields. A field
  that a code path does not assign is not changed: a refused SMS keeps `back`
  (127-133), a retry keeps `callid` and `back` (522-526).
* `Failed` and `Finished` combine the timer test at 516 with the status tests at
  521 and 522, because the code assigns FAIL and reads it in the same pass. A
  command that succeeded is looked at again (`continue` at 592), and when time
  passes in between the timer test makes it a failure: this is `Tick` during the
  walk.
* `convs` is `LOF_GLOBAL_ConversationList`; `NextOf` and `PreOf` are the pointers.
  `conv[v].tcp` is the connection of its SIP struct. A conversation listed by
  StartChat has none until its reply comes.
* Each `exec_` function is one action per way through it. `InviteAccepted` and
  `SendText` share Progress 3: when the buddy is there already, one call takes the
  reply and writes the text (`MayText`), as the code falls through 291-324.
* A dispatch step handles one message of `batch`. `NextMessage` is 212-221.
* `mode` becomes something else where the process ends (`exit`, the end of the
  loop) or its behaviour is undefined: a NULL connection is used or freed, a reply
  without address is parsed, a NULL conversation is listed, the root is freed.
  The model stops there, and says nothing of what follows.
* The server is `pending` (requests written, not answered), `accepted` (texts it
  accepted) and the choice `Polls` makes. It answers a request at most once, in
  any order, with either result, or never. The record of a reply carries the
  command that asked (`by`): the properties use it, the code does not.
* `outcome` is what a reader of the result tunnel could be told.

Of the library calls (`Requests`, `Roster`, `PGGroups`):

* `sip` is the root `FetionSipType`: `Stamped` is `set_type` followed by
  `add_header`, `Write` is `to_string`, which takes the headers off the struct and
  uses up a call id, with the send of its result. `asked` and `inbox` are the two
  directions of the channel, `line` its state.
* A call that waits is two actions, `copy_to_group` and `CopiedToGroup` for
  instance. `call` is the call in between, and its answer is the head of `inbox`,
  whatever that is. `get_response` may take more than one message off the channel
  and returns the first; the copy of the rest overruns the buffer, so `running`
  may become `undefined`. `hung` is the read that never ends.
* `CopyReturns` is the early return of `copy_to_group`, with the header queued.
* `verification` is the one challenge the user object holds, whoever it was given
  for, and `unset` the fields of it that are not initialised: the parser clears
  eight bytes of it (`LOF_contact.c:1103`), and the code and the guid are set by
  `set_verification_code` and `generate_pic_code`, if they are called. `add_buddy`
  does not ask whether they were (576). Printing or freeing what is not set may
  do anything: `UnsetPrinted` and the second part of `BuddyAdded` end in
  `undefined`, beside the steps in which nothing bad happens and the request goes
  out with what was there.
* `mixed`, `strays` and `doubted` record history for the properties: that a call
  took an answer not its own, that something was sent which no call waits for, and
  whose group ids the code has no reason to agree on with the server.
* `PGGroup`'s field `asked` is such a record too. `walk` is the loop of
  `update_group_info`, one member per step, so that answers may come in between.
* The client that calls `LOF_group.c` is not in the repository. `ListCame`,
  `MembersCame` and so on call the parser that `LOF_group.h` names for a reply
  whose call id is the one remembered. After an answer without a group the list is
  NULL, head and all (`LOF_group.c:86`), and the parsers that look for a group in
  it end in `undefined` (`WalksNull`).
* `invited` are the invitations the server has had, by call id and group: what a
  message's id must be one of.

Of a login (`Session`):

* `at` is the call of `LOF_INIT` the process is in. `Exit` ends it anywhere; what
  is written before stays in `disk`. `failed` is a return of 1, `hung` a read that
  never ends.
* `disk.user` is the row of the table `user`, `disk.list` the two tables of
  `BuddyContact_save`, which are written in one transaction and thus in one step.
  `LocalUser_save` has no transaction: deletion and insertion are two steps, and
  either may fail. `from` records of which version the tables are.
* `theirs.lists` are the server's contact lists, its version being its length.
* `Quoted` are the people and groups whose row cannot be inserted, because a name
  with a quote is put into the SQL text as it is.

### What is abstracted

Names, texts, headers and credentials. The contents of dumps. Presence, contact,
sync and group notifications and nudges, none of which touches the lists the
models keep (the reply to a nudge is a request no command waits for; keep-alive
requests stand for those). Whether it is time for a keep-alive request is
decided by a clock of its own, so `KeepAlive` may write one or not.
Time advances while the thread sleeps and during a walk. The code may also spend
time polling, but nothing between a poll and the next walk compares a command's
age, and a conversation's age compared in a poll could have been reached in the
sleep before. A connection attempt blocks for up to seven seconds; `Tick` in the
walk covers it.
`LOF_MAX_CONCURRENT` counts calls, not commands: a command that failed and
is set up for its retry is not counted, and the model keeps that.

In `Roster` a group id list is a sequence without the text around it, and of a
contact only its groups and whether it is online are kept. The server may accept
or refuse any request, and answers in order. In `PGGroups` headers are kept
by their number only where they differ. In `Session` the user's own data, keys and
digests are left out: `known`, `proxy` and `dir` are what later calls depend on.

## 3. Properties

Of `Takeover`:

| property | states | kind |
|---|---|---|
| `TypeOK` | the type invariant (it also says a retry counter never exceeds 1, and a Progress stays in its range) | invariant |
| `RepliesAreRouted` | a command never holds the reply to another one's request | invariant |
| `DoneMeansAccepted` | a command that succeeded, or was reported as done, had its text accepted | invariant |
| `OneTextPerTry` | a text is written at most once per try | invariant |
| `QueueIsExact` | the list holds exactly the commands arranged and not reported, once each | invariant |
| `ConvListOK` | the root is first, nothing is listed twice, the loop's pointer is in the list | invariant |
| `ReadyHasChannel` | a conversation that will be polled has a channel | invariant |
| `RequestsOnOpenChannels` | no request is outstanding on a channel that was freed | invariant |
| `KeepsPromise` | the daemon implements `CommandLifecycle` | refinement |
| `EveryCommandEnds` | every command is reported, unless the process ends | liveness |
| `RootNeverDestroyed` | the comment at `cliLOF.c:29` | does not hold |
| `FailedTwice` | the log line at `LOF_extra.c:534` | does not hold |

Of `Roster`:

| property | states | kind |
|---|---|---|
| `TypeOK` | the types; a contact is only ever in groups that were named | invariant |
| `AnswerComing` | a call that waits has a request with the server or an answer on its way: no earlier call has thrown it away | invariant |
| `OwnAnswers` | a call takes a foreign answer only if something was sent that no call waits for | invariant |
| `GroupListAgrees` | with every answer taken by its own call, the local groups are the server's between calls | invariant |
| `GroupIdsAgree` | likewise the group ids of a contact, but for refusals, requests on their way, and the fields the code does not take over | invariant |
| `HeadersOwn` | a request bears its own header; what else it bears is left from copies not carried out | invariant |
| `AckIsCurrent` | while every call took its own answer, a request to add a buddy acknowledges exactly the challenge the server gave last, if it gave one and has accepted none since | invariant |

Of `PGGroups`:

| property | states | kind |
|---|---|---|
| `TypeOK` | the types; no group twice; the walk stands on a member | invariant |
| `IdsRecognise` | a remembered call id brings the answer of the right kind to the right group | invariant |
| `MessageUnderInvitation` | a message goes out under the call id of an invitation of its own group that the server has had or has before it, the last one written by then; under 0 only if the group was not invited; an acknowledgement under an invitation of its group the server has had | invariant |
| `NobodyTwice` | a group asked about once lists its members, each once, with their own data | invariant |
| `DetailsForAll` | a group marked as detailed has had every member asked about | invariant |
| `HeadersOwn` | a request bears exactly its own headers | invariant |

Of `Session`:

| property | states | kind |
|---|---|---|
| `TypeOK` | the types; there is a user object while there is a process | invariant |
| `ListsOfContactsKnown` | no contact, in memory or stored, is in a list that is not there | invariant |
| `StoredPasswordAccepted` | a stored password has been accepted | invariant |
| `OnlyTheGapsTear` | stored contacts fall behind the stored version only between the two saves, or when contacts could not be read while the user row could | action |
| `RefusedForTheStored` | a right password is refused only for the stored one's sake | action |
| `SameAsStored` | the log line at `LOF_login.c:616` | does not hold |

`RootNeverDestroyed`, `FailedTwice` and `SameAsStored` are disagreements between
the code and what it says of itself.

* *The root channel.* The close path tests `currentContact != NULL` before it
  frees a conversation; the UserLeft path does not. `RootDestroyed.cfg` finds
  UserLeft on the root channel, in four steps of the loop. It takes a server that
  sends a Conversation notification on the root channel.
* *"Failed Twice".* `exec_send_sms` leaves a refusal in `BackSipMsg`, and the
  retry does not clear it. The second try writes the text, waits one round, reads
  the first refusal and gives up. `FailedTwice.cfg` finds it with one command. The
  property demands that the refusal in a failed second try's hands has the call
  id of that try. (A second try that runs out of time has status FAIL only in the
  pass that reports it and is not concerned.)
* *"The same as that stored".* `parse_contact_list` skips the list when its version
  is that of the user row. The row is written before the contacts, and read even
  where they cannot be. `StaleContacts.cfg` finds a first login that ends between
  the two saves, and a second one that is told nothing new by the server and goes
  on with nobody. (Contacts that cannot be read have the same end.)

## 4. The runs

| run | instance | states | shows |
|---|---|---|---|
| `Delivery` | one MSG, two chats, invitations and Conversation events, two messages per poll, timers 1 and 2 | 0.9 M | the whole Progress machine with both tries |
| `Engine` | three SMS, two executed per walk | 2.4 M | routing, retry, limit and the walk's removals |
| `RootChannel` | SMS, dump or echo; messages, deregistration, one keep-alive | 1.6 M | traffic on the root channel |
| `Crossed` | two MSG to the same buddy, who may invite back | 4.6 M | commands sharing chats |
| `RudeServer` | one MSG, three unsolicited messages, anywhere | 1.1 M | what survives a server that breaks the protocol |
| `Progress` | MSG or SMS, one slot, fairness | 0.4 M | every command ends |
| `Roster` | a buddy and another person, three of any 19 calls, one notification | 2.7 M | which answers are taken, and what the lists are worth |
| `PGGroups` | two groups, three calls, one notification or change of membership | 2.4 M | answers, late, refused or empty |
| `Session` | two people, two lists, two passwords, three logins, two changes at the server | 0.8 M | what a login leaves for the next |
| `RootDestroyed` | impolite server | | the violation above |
| `FailedTwice` | one SMS | | the violation above |
| `StaleContacts` | as `Session` | | the violation above |

`RequestsOnOpenChannels`, `ConvListOK`, `RepliesAreRouted` and the refinement hold
against the rude server as well. `ReadyHasChannel` does not, and is checked with
`PoliteServer`: after UserLeft the loop goes on with the rest of the batch on
behalf of the previous conversation, and a UserEntered there can mark a
conversation ready that has no channel yet.

### Bounds, and why they are enough

* `CommandIds` bounds the commands ever arranged, the echoed ones included.
  Commands interact through the concurrency limit (a limit of two and three
  commands make one wait behind two; a limit of one and two commands, one behind
  one), through call ids (two suffice) and through a shared conversation (two).
* `Channels` bounds how many chats are open; with two, one buddy can have the two
  conversations (asked for and invited) between which the search prefers the
  first. When none is free, a StartChat or an invitation is not taken.
* `Buddies`: conversations of different buddies only meet in the list, where a
  second conversation of the same buddy takes the same place. `Stranger` is not
  in the contact list.
* `MaxTime` and `ChannelMaxTime` stand for 30 and 45 seconds. With `MaxTime = 0`
  one tick is a timeout; `Delivery` has a tick that is none. A channel may time
  out only after a command that started with it does, as in the code.
* `MaxNews` bounds what the server says unasked, `MaxBatch` what one poll
  returns, `MaxBeats` keep-alive requests. Replies are bounded by requests, and
  requests by the two tries.
* Symmetry is not used: the actions pick names with CHOOSE.
* The loop ends after 3001 iterations; `Exit` may come in any.
* `Roster`: `MaxCalls` is three because a hazard takes two calls to set up (a
  request that nobody waits for, then one that takes its answer; a challenge, then
  another) and a third to show. There are two people so that a challenge given for
  the one can be answered when the other is added, and an answer about the one be
  taken for the other's; two group ids, 1 where the buddy is at the start and 2,
  make moving and copying differ. `Values` has one value: nothing compares statuses
  or phrases.
* `PGGroups`: two groups, so that an answer could go to the wrong one, one of them
  the user's own and so at the other end of the list; one has two members, so that
  a walk can stop half way. Three calls reach asking for the members, hearing them
  and walking over them, or inviting, writing and reading the list anew.
* `Session`: a first login stores, a second loads and may tear, a third shows it;
  two changes at the server are a list and a password, or two lists. The lists move
  a person between groups, make a buddy a stranger, and have one buddy twice.
* `CHECK_DEADLOCK FALSE` in these three: the calls, logins and changes run out.

### Fairness

`FairSpec` asks for weak fairness of `Loop` and strong fairness of `Tick`. The
thread does not stop by itself: it polls without blocking, sleeps for a bounded
time and opens pipes without blocking, so a step of the loop that stays possible
is taken. (The exception is a message that ends in the middle, on which `listen`
waits; a half message is not in the model.) Time passes: the loop sleeps 0.8 or 3
seconds in each iteration, so `Tick` is possible again and again, never for ever,
which takes strong fairness. Nothing is assumed of the server, of the buddy or of
the pipe; no reply need ever come. `ArrangeCommand` and `Exit` are not fair.

## 5. What is proved

The theorems of `TakeoverProofs`, `DeliveryProofs` and `PromiseProofs` are about
`Spec` of `Takeover` under the assumptions its modules name
(`ChannelsAssumption`, `CommandsAssumption`, `TakeoverAssumption`): any sets of
buddies, channels and commands, any limits, polite server or not. Those of
`SessionProofs` are about `Spec` of `Session` under `SessionAssumption`: any
people, lists and passwords, any contact lists whose buddies are in lists they
have, any number of logins and changes. `RosterProofs` assumes
`RosterAssumption`, `PGGroupsProofs` `PGAssumption`: any finite set of people or
of groups, any members without repetition, any number of calls and
notifications, and that the constant `None` is not what it stands beside.

All safety properties that the passing runs check are proved, the action properties
and the refinement among them.

| theorem | module | states |
|---|---|---|
| `SoundAlways` | `TakeoverProofs` | the inductive invariant `Sound` |
| `TypeCorrect` | `TakeoverProofs` | `Spec => []TypeOK` |
| `QueueExact` | `TakeoverProofs` | `Spec => []QueueIsExact` |
| `ConvListSound` | `TakeoverProofs` | `Spec => []ConvListOK` |
| `ChannelAlways` | `TakeoverProofs` | the inductive invariant `ChannelInv` |
| `RequestsAnswerable` | `TakeoverProofs` | `Spec => []RequestsOnOpenChannels` |
| `ReadyChannels` | `TakeoverProofs` | `Spec => [](PoliteServer => ReadyHasChannel)` |
| `RootKept` | `TakeoverProofs` | `Spec => [](PoliteServer => RootNeverDestroyed)` |
| `RepliesRouted` | `DeliveryProofs` | `Spec => []RepliesAreRouted` |
| `TextOncePerTry` | `DeliveryProofs` | `Spec => []OneTextPerTry` |
| `DoneAccepted` | `PromiseProofs` | `Spec => []DoneMeansAccepted` |
| `PromiseKept` | `PromiseProofs` | `Spec => KeepsPromise` |
| `SessionSound` | `SessionProofs` | the inductive invariant `SessionInv` |
| `SessionTypes` | `SessionProofs` | `Spec => []TypeOK` |
| `ListsKnown` | `SessionProofs` | `Spec => []ListsOfContactsKnown` |
| `AcceptedStored` | `SessionProofs` | `Spec => []StoredPasswordAccepted` |
| `RefusedOnlyForTheStored` | `SessionProofs` | `Spec => RefusedForTheStored` |
| `TornOnlyInTheGaps` | `SessionProofs` | `Spec => OnlyTheGapsTear` |
| `RosterSound` | `RosterProofs` | the inductive invariant `RosterInv` |
| `RosterTyped` | `RosterProofs` | `Spec => []TypeOK` |
| `AnswersCome` | `RosterProofs` | `Spec => []AnswerComing` |
| `AnswersAreOwn` | `RosterProofs` | `Spec => []OwnAnswers` |
| `GroupListsAgree` | `RosterProofs` | `Spec => []GroupListAgrees` |
| `ContactGroupsAgree` | `RosterProofs` | `Spec => []GroupIdsAgree` |
| `RequestHeadersOwn` | `RosterProofs` | `Spec => []HeadersOwn` |
| `AcksAreCurrent` | `RosterProofs` | `Spec => []AckIsCurrent` |
| `PGGroupsSound` | `PGGroupsProofs` | the inductive invariant `PGInv` |
| `PGGroupsTyped` | `PGGroupsProofs` | `Spec => []TypeOK` |
| `CallIdsRecognise` | `PGGroupsProofs` | `Spec => []IdsRecognise` |
| `MessagesUnderInvitation` | `PGGroupsProofs` | `Spec => []MessageUnderInvitation` |
| `NobodyListedTwice` | `PGGroupsProofs` | `Spec => []NobodyTwice` |
| `EveryDetailAsked` | `PGGroupsProofs` | `Spec => []DetailsForAll` |
| `PGHeadersOwn` | `PGGroupsProofs` | `Spec => []HeadersOwn` |

### The argument

*Effects.* There are some forty actions and a dozen invariant parts. Rather than
one proof per pair, `TakeoverEffects` proves what each action does to the state
in a few shapes (a command record changes, a request is written, replies are read,
a command leaves the list, ...), and the invariants are proved for the shapes.

*`Sound`* is `TypeOK` with `ListInv`: both lists have no duplicates and hold
exactly what they should, the loop's pointer is in the conversation list and at
its head outside the polling part of an iteration, the root channel belongs to
nobody, and every listed command to a buddy. The last two are why `ConvListOK` is
not inductive alone: a conversation found for a command's buddy must not be the
root, or `BuddyFailed` would drop the head; and a StartChat lists a conversation
of the command's buddy. `QueueIsExact` needs the types: the walk's removal is
exact only for a position inside the list.

*`RouteInv`* is why a reply by call id alone goes to the right command although
retries keep old call ids: call ids below the counter are never given out again,
so every command, request and reply that carries one has the one who wrote it.
The obvious invariant (`RepliesAreRouted`) only speaks of replies already held;
the induction needs it of requests outstanding and replies still in the batch.

*`TryInv`* counts: a command at Progress 5, or an SMS at 1, has used up the text
of its try, and at a lower Progress it has not. A command goes back to Progress 0
only through FAIL and the retry.

*`AcceptInv`* says which replies a command can hold where it reads them. At
Progress 5 `SendText` has cleared `BackSipMsg` (`LOF_extra.c:319`) and the call id
is that of a text, so what is attached from then on is the answer to a text. An
SMS command writes nothing but its text, so whatever it carries into its second
try (section 3) answers that text. Either way a positive reply means that the text
was accepted, and the server's side has recorded it: a stale reply can turn a
success into a failure, as `FailedTwice` shows, and never the other way round.

*`ChannelInv`* has one part for any server: the root channel is never without a
socket, and no request is outstanding on a channel that was freed. It holds
because each of the three places that free a conversation closes its socket (the
requests on it are forgotten before the name is used again), and everything else
writes on the root, on a conversation just connected, or after a test for NULL.
The part for a polite server is about the batch: what is left of it was heard on
a channel that is still there, UserLeft is last in it, and none is in a batch of
the root channel. UserEntered can then only mark a conversation with a socket as
ready, and `RootLeft` is out of reach, so that the comment at `cliLOF.c:29` is
true under exactly the assumption that `RootDestroyed` drops.

*`PromiseKept`* maps every step to a step of `CommandLifecycle` or a stutter:
`ArrangeCommand` and an echoed message to Submit, the two actions that write a text to SendOnce, reading
replies to Accept, `RetryCommand` to TryAgain, `ReportCommand` to Complete or
Abandon, and `Stop` to Halt.

*`SessionInv`* ties memory to disk along `LOF_INIT`. Before `load` memory holds no
contacts and no version, and the password is the one given (`NothingYet`,
`FreshAtStart`, `NotRefusedYet`). From `load` to the answer of the authentication,
a password or a version that did not come with the login is that of the row, and
contacts that were read are those of the tables (`AsLoaded`). From the answer on
the password is one the server has accepted (`PasswordsAccepted`). Versions are
positions in the history of the server's lists (`VersionsKnown`). While saving,
memory is at a version of the server, and either the list of that version was read
and memory covers it, or the version is the stored one and memory covers its list
if it was read from contacts that do (`ReadyToSave`). `StoredPasswordAccepted` is
not inductive alone: a password is stored two steps after it was accepted, and
stays acceptable in between.

*`TornOnlyInTheGaps`* is an action property; its proof goes through the steps that
write. Deleting the row makes `UpToDate` hold trivially. Inserting it is the first
gap. Writing the contacts keeps `UpToDate`: their version is that of memory, and
by `ReadyToSave` they cover its list, as what they replace did, unless they were
not read, which is the second gap. No other step writes, and the server's history
only grows, so what covers the list of a version goes on covering it.

*`RosterInv`* rests on the order of the channel (`IdsGrow`): call ids grow from
the answers on their way through the requests not answered yet to the counter,
and the call that waits has the highest of them. So its own answer is the last
one in `inbox`, and there is no request behind it. `AnswerComing` follows: what a
call takes and throws away off the channel, it does when it ends, before the next
one writes; while it waits, nothing but its own end takes from the channel. `Quiet` says what is on the
channel while nothing was sent that no call waits for, which is at most one
message, and gives `OwnAnswers`. `GroupListAgrees` speaks of the time between
calls, where the answer has been taken; the induction needs what the lists will
be once it is (`GroupsFollow`): while the own answer is not there, the lists
agree; once it is, they agree after it. `LastAsked` does the same for
`GroupIdsAgree`, contact by contact: of the requests about a contact's groups the
last one names those it has here. `AcksFollow` ties what `add_buddy` will
acknowledge (`Challenge`, 0 for none) to the challenge at the server, both ways:
every request to add a buddy that is not answered yet acknowledges that one and
no other; between calls the two are the same; and while the answer to an
`add_buddy` is on its way, a 420 brings the server's new challenge, and after a
200 it has none, which is when the code frees its own. It needs `RequestOwn` and the
order of the channel: only one such request is ever unanswered, so the challenge
does not change under it. The fields that are not set play no part; whose
challenge it is plays none either, since the code does not keep it.

*`PGInv`* is about the set `Remembered` of call ids a client holds, each with what
it was left for. An id is fresh when it is left, so no two are equal, and what is
on the channel under it is a request or answer of that kind about that group or
member (`Recognises`). Only an invitation's id is written under again, by
messages and acknowledgements; every other one is borne by at
most one request or answer (`OnlyOnce`). That is why a group that was asked about
once is told its members once (`GroupsOk`, from which `NobodyTwice`): when the
members are listed, nothing more comes under that id. `DetailsForAll` needs the
walk in the invariant: the members before it have been asked about, and no member
enters while it lasts.

*`MessagesUnderInvitation`* has an invariant of its own on top, `InvitationInv`,
proved with `PGInv` as a hypothesis. `CurrentGiven`: the invitation a group of the
list names is with the server, or among the requests before it, as long as the
channel lives, and nothing answers it before the server has had it. So a message
written now has its invitation before it (`InvitedBefore`), and stays behind it
until the server has taken it, when it is in `invited`. A message that is not
under what the list names was written before that invitation, which is then
behind it (`InvitedAfter`). An acknowledgement is written for an answer under the
id, which the server gives only to what it has had (`AcksInvited`).

*Recursion.* `parse_list` and `Without` are recursive functions over positions,
and no prover here takes an induction theorem with an operator for the induction
hypothesis. `UpTo` in `ListLemmas` states induction for a set instead, from the
least element of what is not in it, and `Iteration` that a function defined by its
first value and a step exists. So what the two build is proved for answers of any
length.

### Only model-checked

`EveryCommandEnds`: liveness under fairness is out of the prover's reach. The three
violations are counterexamples of TLC. The inductive invariants were checked by
TLC on the instances of section 4 before they were proved.

## 6. Plan

In the order of what they add:

1. `FxList`: the nodes and pointers of `LOF_list.c` and the walk's four removal
   cases, shown to implement the sequences used here; the run-time invariants
   (ends point to themselves, `pre` and `next` agree) proved. Run: lists of up to
   four nodes, every sequence of append and delete, one walker.
2. `SipFraming`: `LOF_SIP_FetionSip_listen` over chunks as they come from the
   socket: every whole message once and in order, and the wait for the rest of a
   message whose channel has closed. Runs: two messages in every split.
3. `Tunnels`: both pipes, their readers and writers coming and going; results
   are announced or known to be lost.
4. Proofs: the list refinement and the framing invariant; which of the stops
   `null channel` and `no credential` a polite server leaves possible.

## 7. Not modelled, and why

* Command parsing (`ParseStr`, `ParseJson`), XML and header parsing, dumps: pure
  data; the models take their results.
* `LOF_directsms.c`, `LOF_share.c`, `LOF_message.c`'s unacknowledged list: used by
  the old client or by nothing.
* Portraits and the synchronisation of user data in `LOF_user.c`: transfers of
  data on which no other call depends.
* Digests, keys and the picture code in `LOF_login.c`: pure data, of which a login
  takes only whether the server accepts it.
* `LOF_history.c`, `LOF_debug.c`: output only.
* `cliofetion.c`: the old interactive client, superseded by the daemon. Its login
  takes the same calls as `LOF_INIT`.
* `cJSON.c`: vendored.
* `LOF_config.c` beyond what `LOF_INIT` takes from it: files, proxies, phrases and
  a user list data base that the old client shows.
