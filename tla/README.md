# ChatBot Shark: a TLA+ development

This directory models ChatBot Shark in TLA+: a chat program of which the
repository keeps three generations. `Shark_2_0_CLI` holds its data in memory on
both sides; `Shark_3_0_Postgres` puts the server's data into PostgreSQL;
`Shark_3_0_Qt` adds a desktop client with a monitor thread and a rewritten
server. The last one is modelled in most detail, as that is where the data is
durable and where threads meet; of the two older ones, each is modelled as a
whole: its server, its console clients, and what becomes of both when the server
ends.

Paths below are relative to the root of the repository, in short form: "server/"
stands for `Shark_3_0_Qt/src/server/`, "client/" for `Shark_3_0_Qt/src/client/`,
unless a sentence is about an older generation.

## 1. Inventory

| Part | State | Operations | Hard because |
|---|---|---|---|
| Message store (server/sql_queries, processors that write) | tables users, chats, messages, message_status, participants | CreateUser, CreateChat, CreateMessage, SetLastReadMessage, InitDatabase | clients stamp messages with their own clocks; each request is one statement whose CTEs see one snapshot; the connection to PostgreSQL breaks with or without the commit; an empty result ends the process |
| Accounts (server/sql_queries/user_sql_*) | rows of users, users_passhash | create, change data, block/unblock, ban/unban, check login and password, search | flags are written in one place and read in another, or nowhere |
| Server loop (server.cpp, server_session.cpp, session_transport, packet_parser) | listening socket, one connection slot | accept, poll, receive a frame, dispatch, send | one slot for all clients; requests without an answer; SIGPIPE; exceptions nobody catches |
| Client link (client/core, client/tcp_transport) | socket_fd_, status_online_, the monitor's local `online` | request, monitor loop, find server, connect | two threads share a descriptor and a flag without a lock; recv has no time limit |
| Client session (client/client_session.cpp, client/processors) | ChatSystem copy of one user's chats | login, load, create chat and message, set last read, search, block, ban | state is built from several packets; the local copy is changed after the server's answer |
| Client domain (core/chat, core/chat_system, core/user) | chats with messages by time stamp, last read ids, deleted ids | add message, count unread, set last read | the unread count depends on the order in which messages are added and on ids that are filled in later |
| Qt forms (Shark_UI/screen_register, screen_login, screen_user_profile) | texts, and flags of what was checked when a field was left | edit, register, sign in, save, cancel | buttons go by the flags and send the texts; a press is up to three requests, any of which may get no answer |
| Qt screens (the rest of Shark_UI) | widgets, models | user actions | mostly layout; they drive the client session |
| Serialisation (core/system/serialize.cpp, dto) | none | encode and decode packets | pure; wide but shallow |
| Shark_3_0_Postgres | same tables, console client | as above, older code around the statements | every start drops the schema; results are cleared twice; a client waits in recv |
| Shark_2_0_CLI | ChatSystem in memory on both sides | register, log in, search, new chat, post, read | two copies of the state; chat ids are given back and handed out again; all is gone when the server ends, but not the clients |

How they interact: a screen calls the client session on the GUI thread; the
session serialises packets and calls the link, which sends one frame and blocks
for one frame; the server loop reads the frame, dispatches it to a processor,
which runs SQL on the only PostgreSQL connection and sends one frame, or none.
Beside that, a monitor thread in the client opens, polls and closes the socket,
and a discovery thread in the server answers broadcasts.

What makes each part correct:

* store: status rows complete; read pointers name messages of the chat that were
  read; nothing unread hides behind a pointer; messages and read marks are never
  lost; a request touches nobody else's marks; a refused request has no effect;
* link: a reply answers the request that was sent; every request returns; a
  client that lost the server comes back; the window tells the truth; the slot
  is given up when a client leaves;
* accounts: a blocked or banned user is treated as such, and can be restored;
* forms: whoever is at work in an account made it; what is registered or saved is
  what was checked and edited;
* console systems: a copy that was loaded from the running server agrees with it;
  nothing that was answered is taken back; the server answers whatever clients
  send that were served by it from the beginning;
* client session and domain: what the client shows after a request agrees with
  the database; the unread count is the number of unread messages.

The hazards, with their lines and the properties aimed at them, are listed in
`PROJECT.json`.

## 2. Modules

| Module | What it is |
|---|---|
| `ChatSql` | the SQL statements of the writers as operators on a database value |
| `ChatStore` | the server's write requests as actions over `ChatSql`; properties of the store |
| `Mailbox` | the abstract specification of the store: groups, a log, what is unread to whom |
| `SeedData` | the real rows a new database gets |
| `Ordered` | numbers in the order of a key, as a multimap keeps them |
| `Lemmas` | what recursive functions, insertions and `Ordered` compute, proved by induction, and what another number changes; then each statement of `ChatSql`: tables consistent before and after, messages and marks kept |
| `ChatStoreProofs` | the inductive invariant of `ChatStore`; what a request may do to stored messages and marks; `ChatStore` implements `Mailbox` |
| `Link` | server loop, connections, GUI and monitor threads of the clients |
| `LinkProofs` | the inductive invariant of `Link` and theorems |
| `ClientChats` | one user's chats in the Qt client, their unread counts, and what its requests do to the database (over `ChatSql`) |
| `ClientChatsProofs` | the inductive invariants of `ClientChats` and theorems |
| `Contacts` | the contacts page: search, block and unblock, choosing the participants of a new chat |
| `ContactsProofs` | the inductive invariant of `Contacts` and theorems |
| `Forms` | the registration, login and profile forms of the Qt client with the accounts of the server |
| `FormsProofs` | the inductive invariant of `Forms` and theorems |
| `Console` | the console client of the two older generations, its socket, its menus, and the server's slot |
| `CliServer` | what the server of 2.0 does with a request, as operators on its memory |
| `CliSystem` | `Console` with `CliServer`: the whole of 2.0 |
| `CliProofs` | the inductive invariant of `CliSystem` and theorems |
| `PgServer` | what the server of 3.0 Postgres does with a request, over the statements of `ChatSql` |
| `PgSystem` | `Console` with `PgServer`: the whole of 3.0 Postgres |
| `PgProofs` | the inductive invariants of `PgSystem` and theorems |
| `MC*` | values for TLC |

### ChatSql and ChatStore

The database is one record: `users`, `chats` (participants with their read
pointers), `messages` (chat, sender, time stamp, who has a status row, whose row
says READ), and `tables`, which is false between DROP SCHEMA and the next
successful creation. Every writer is one SQL statement with data-modifying CTEs,
so each is one operator: all its reads see the state before it. `Requesters`
send requests with any ids and any time stamps: the clients take time stamps from
their own clocks, and ids from a database that may have been recreated since.

Each action is one processor case together with its SQL: carried out (`Carry`),
or failed (`Fail`): by an error of the database, without effect, or because the
connection broke, before or after the commit, after which every statement fails,
as nothing reopens the connection. The result says what the client learns: `ok`,
`failed`, `silence` (the processor sends nothing) or `crash` (an empty result
set goes into `std::string` or `std::stoul` as a null pointer and the exception
leaves `main`). Any request may also end with `crash` because the process is killed
before it has answered, whatever its statements have done by then (`Finish`).
`InitDatabase` is two statements and two transactions and may stop, or be killed,
after any of them, also after both commits and before the answer.

`bigserial` values that failed statements burn are left out: ids are consecutive
here, and only their order and uniqueness is used. Deleted flags
(`status_deleted`, `deleted_from_chat`) are written as false by every statement
and never changed, so they are left out. The message text and the user's other
columns do not matter to any property.

### Link

`server`, `slot`, `backlog` and `conn` are the server's side: the loop of
`server.cpp` is blocked in accept while the slot is empty, else it polls the one
connection. A request is received, then answered, left unanswered, refused, or
ends the process. A refused one has a header that is not one: the server closes
the slot of a client that is still there (`Refuse`). The process may also be
stopped from outside at any point (`Stop`). Answering a client that is gone may end the process as well: SendFrame
sends the length and the body separately, without MSG_NOSIGNAL, and the second
one meets the reset the first has caused. `gui` and `monitor` are program
counters of the two threads of a client; a step is one system call or one access
to shared state. Both threads use the same descriptor number, as a socket that
is opened after a close gets the lowest free number, which is the old one. `fd`
is the connection to which the number referred when the request began. That the
short-lived probe socket of `Search` may get the number too is left out.

The monitor reopens the socket whatever the GUI thread is doing: no step of it
waits for the other thread. The code counts on time instead. The monitor closes
a socket only when the server's end is gone, so no call of the GUI thread blocks
on it, and then sleeps for 500 ms before it looks for the server. `Timely` says
that this is long enough: the monitor opens the next socket when the GUI thread
has returned. It is a constraint on steps and not part of `Next`, so that what
needs it is visible: `LinkSafety` runs without it, the liveness runs under
`TimelySpec`. Section 5 says what happens without it.

### ClientChats

`chats` is the client's copy: per chat the messages in the order of the
multimap, the user's last read id, the map from ids to time stamps (which
`insert` does not overwrite) and the unread count that the row of the list
shows. `current` is the chat whose row is selected in the list of all chats;
selecting a row opens the chat, which reports its last message as read. The list
behind it is shared with the contacts tab: going there fills it with the chats of
the first contact and selects the first row on the page of all chats as well, which
opens that chat (`OpenContacts`); another contact fills it again and selects
nothing there (`SelectContact`). A row that is not in the list has no count; its
`shown` is what the row would say. The
database is the record of `ChatSql`, and the requests of the client and of
everybody else are its operators.

A step is one reaction of the GUI thread, the request and its answer included:
nothing else runs in that thread while it waits. `Faults` says which requests
may lose their answer. `handlers` counts how often the slot of the send button
is connected, once per login; `press` holds what is left of one press, so that
what the slots do one after the other can be compared with what was asked for.
`lost` and the fields `asked` and `stored` of `press` exist for the properties
only. Only the order of stamps matters: by a clock that agrees with the others a new
message gets the stamp after the latest one, and by one that does not it may get any
of `Behind`. A client that follows a null pointer at login is started again.

`ClientAssumption` says of the database a client finds that its tables are consistent,
that the user is in it, and that a chat somebody is in has a message, as a chat is only
ever made with one. If the stored messages are in the order of their stamps
(`InOrder`), it also says that everything before one of the user's messages is read
(`OwnPostsRead`), as posting does.

Left out: the chat page's own widgets, deleted messages (nothing deletes), and
attachments (nothing sends them).

### Contacts

What the page knows of a contact is kept four times: in the database (`active`),
in the copy made at login (`known`), in the rows of the list (`rows`, filled
from the copy or from a search) and in the form beside it, which holds a login
and the index of a row. The participants of a new chat are kept twice: as names
(`names`) and as the model that is sent (`picked`). The widgets that are enabled
or visible are state (`tab`, `addShown`, `mode`, `panel`, `made`, the form's
`buttons`), since they are what keeps these copies together. `offered` is the
participants that the row of the unsent chat shows. `doubtful` and `edited` exist
for the properties only.

`Copies` has the contacts that the client may have loaded at login, the empty set for
a user who is new and has no chats. `Contacts` are the other users: the statement of the
search leaves out the login that asks.

A model reset clears the current index without a signal, and selecting the row
that is current gives none either; both matter for what the form shows. Bans are
left out, as both their statements fail (see section 5). The client is logged in
all the time; what a second login does is in `ClientChats`.

### Forms

A person sits at each client and has one password. `form` and `checked` are the
registration form: its texts, and apart from them the flags that the last check
of each field left. `profile` is the profile form in the same way (`changed` are
the flags of the columns, `canSave` is whether the button is enabled). A press
of a button is a chain of requests: a check of the login, the creation of the
user, the login itself; `pending` is the request that comes next. Each request
has an action in which it is carried out and one in which it gets no answer;
between two of them the server may lose this client and take another one
(`link`), since it serves one at a time. `users` is the part of the tables that
the forms see, `copy` the texts as they were loaded at the login.

An edit stands for "type and leave the field": the checks run on
`editingFinished`, and a button cannot be pressed without leaving the field. One
field stands for e-mail and phone, which are treated alike. A program that ends
is started again, and the texts left in a form that is not shown are taken as
cleared where the next opening clears them. `unsure`, `behind` and the field
`touched` exist for the properties only.

### Console, CliServer and PgServer

The console client is one thread that blocks in every request, and the server
stays with the client it has accepted until that one leaves. So a request, what
the server does and its answer are one step, which nobody else can come between;
what can happen is that there is no answer. `Console` is the client: `client[c]`
says where in the menus it is (`menu`), whom it knows (`known`), the copy of the
user's chats (`copy`), the packets of a login that are not worked off yet
(`queue`), and the chat being composed (`draft`). `link[c]` is the state of its
socket, as far as the next send or recv depends on it: whether a recv returns 0,
an error, or nothing, and whether the next one connects anew or raises SIGPIPE.

`Console` knows the server only as `Handle(store, request)`, which gives the new
store and the request's fate: an answer, an answer without packets, silence, or
the end of the server. `CliServer` and `PgServer` define it. In `CliServer` the
store is what `ChatSystem` holds, with the ids that were given back (`free`) and
the chats that still stand under them (`listed` is false). In `PgServer` it is
the database of `ChatSql`, whose statements are the same text; what the
processors do with empty results is not. A `PGresult` that is cleared twice is
undefined behaviour: the server aborts, or goes on without an answer.

`CliSystem` and `PgSystem` extend the server's module and instantiate `Console` with
`CliHandle` and `PgHandle`. They assume of the seed what each program's own seed has: that
of 2.0 is a store without abandoned chats, whose chats are listed, of known users and not
empty (`SeedAssumption`); that of 3.0 Postgres is consistent, every chat in it has a
message, and every sender is in the chat (`PgSeedAssumption`). TLC evaluates both for
the seeds of the runs, which are the real ones or cut from them. `ClientsAssumption` and
`PgClientsAssumption` say that the value for an empty slot is not a client.

The clients of 3.0 Postgres differ in one menu, which chooses several
participants out of one search by their numbers; `PgSystem` has its own `Choose`.

In 3.0 Postgres a statement may also fail (`execSQL` returns nullptr), or be carried
out on a connection that breaks before the result is there. `Fails(c, r)` is that for
any request `r`; what follows depends on the handler. The login, a search and the
request for users return without sending (`SilentOnError`), so the client is left in
its recv. The others answer FALSE or with an empty list, which the client takes for an
answer: the login is free or unknown, the password wrong, the chat not created
(`EntranceFails`, `ChatFails`). A SELECT of chats or messages that fails within a login
leaves these out of the answer and sends the rest, so the client logs in with a part of
what is its own (`SignInPartly`, `Parts`). `failures` counts the statements that failed,
up to `MaxFailures`, and a client is `stale` from the failure of one of its statements
to its next login that is told of everything.

`stale` exists for the properties: the clients whose copy was loaded from a
server that has ended since, or that are not logged in. So do `ended` and `why`.

## 3. Runs

| Run | Question | Bounds |
|---|---|---|
| `ChatStore` | do all write requests, in any order, with failures, keep the store consistent and implement `Mailbox`? | 3 logins (2 from the seed, 1 that may register), 2 of them sending, 2 chats, 3 messages, clocks 1..2 |
| `LinkSafety` | are replies ever mixed up, requests given up while their connection works, or descriptors leaked, for any interleaving? | 2 clients, one on the server's host, one of them and the server killed at will, all four outcomes of a request, backlog 1, no timing assumption |
| `LinkOneClient` | does every request return, does the client come back, does the window tell the truth? | 1 client, client and server killed at will, requests answered, refused or fatal, backlog 2, `Timely` |
| `LinkTwoClients` | do clients get their turn in the slot? | 2 clients, one is killed again and again, backlog 2, `Timely` |
| `ClientChats` | does what the window shows agree with the database, whatever answers get lost, however often the user logs in and whosever clock is behind? | users a and e, 3 messages in 2 chats at the start, 5 messages, 3 chats, 2 logins of a, new messages stamped last or 1 |
| `ReadMessages` | does a row count only messages that the server has as unread? (no) | the same with clocks that agree and no lost answers |
| `SecondLogin` | does one press of the button post once, and where it was meant to? (not after a second login) | the same with clocks that agree, answers to posts may be lost |
| `Contacts` | do the form, the list and the choice of participants stay together under any sequence of actions? | 2 contacts, 1 of them blocked, who is loaded at login or nobody is, 2 chats, 2 picks |
| `CliSystem` | what do two users of 2.0 see of each other's chats, over posts, new chats, failed attempts, a stop of the server and a new start? | 2 clients that type the login a of the seed or n of nobody, 3 logins, 2 creations, 1 stop, 1 failed attempt |
| `CliLogin` | does a client always know who wrote the messages it loads? (no) | 1 client, the whole seed of 9 logins, 2 creations |
| `PgSystem` | the same as `CliSystem` for 3.0 Postgres, and what does a statement that fails do to the tables, the copies and the clients? | as there, with the 8 users of its seed and n; or, instead of ends of the server, 2 failures, with 1 more creation for each |
| `Forms` | whose account is a client at work in, and what do registrations and saves write? | 2 persons who may want the same login, 1 good text per field besides a refused, a too wide and an empty one, 2 edits beyond two forms filled in |

Why the bounds suffice: the store's properties relate one message, one user, one
chat and one pointer; two chats tell "of this chat" from "of any chat", two time
stamps tell older from younger and allow ties, three messages allow one before,
one at and one behind a pointer, in either order of time. The seeds of `ChatStore`
are cut to one message each so that there is room for two more; that the real
ones are consistent too is evaluated as an assumption of `PgSystem`. For the link, two clients are what it takes to compete for the
slot, and a connection number is reused only when nothing refers to it, so
`1 + Backlog + |Clients|` numbers never run out. The kernel's backlog is 5; two
entries already hold a probe connection and a real one, and with one the second
client waits outside as well as in the backlog.

For the client, the initial chats hold a message of each side, one of them
unread; two more messages allow an own one and another's in both orders, before
and after a login, and the second login is the first that finds a slot connected
already. A stamp of 1, the oldest one's, puts a new message before all that is newer
in its chat, so that the message added last is not the last one. The properties of `Contacts` relate one row to the form and one name to
one pick; two contacts give lists of no, one and two rows in which the same index
means different contacts, and two chats allow a chat to be sent twice. No
fairness is assumed in either, as nothing they promise has to happen by itself.

For the console systems, two clients are what it takes for one to write what the
other one reads; both may log in as the same user. Of the logins that are typed,
one is known from the start and one is not, so that checks, searches and
registrations go either way; the other participants of the seed are there but
nobody types them. Two creations allow a new user and a chat with it, or a chat
and a post, or an abandoned chat and the one that gets its id. One stop lets a
client come back with what the old server told it; a request that ends the
server adds another stop, which is why `stops` goes to `MaxStops + 1`. One
failed attempt is enough to make the second one send two messages. `CliSystem`
has 1 chat in its seed; `CliLogin` has both, as it needs no second client. Two failures
let a login be told of a part of its chats and a later request go wrong as well. Behaviours
with both a failure and an end of the server are cut off (`MCMishaps`), as they take too long
to check: each ends by itself what `OnlySearchHurts` promises, and `StoreConsistent` and
`CopiesFaithful` are proved for any number of both. A failed creation counts as one,
so each failure leaves room for one more.

For the forms, two persons and one login are what it takes to sign in to somebody
else's account. A client in `Prepared` begins with its registration form filled
in, which saves the edits for the interesting ones: two more allow to empty or
spoil a field after it was checked, and to edit one profile field, give it up and
edit another.

Fairness: the server's loop, the monitor's loop and the steps of a GUI thread
inside a request are weakly fair, since they are loops or straight-line code that
nothing but a blocking call stops, and a blocked call is a disabled action here.
Users are not fair: no one has to ask, kill a client or start the server.

## 4. What is proved

`ChatStoreProofs` shows `Spec => []Inv` for any set of logins, any consistent
seeds and any bounds. `Inv` is `TypeOK` with four parts: foreign keys, complete
status rows, pointers to read messages, and nothing unread behind a pointer.
None of the last three is inductive alone: that posting a message keeps the
pointers right needs the status rows to be complete (the row the update marks
must exist), and that nothing hides behind the new pointer needs the sender's
rows for all earlier messages of the chat. There is one lemma per statement
(consistent before, consistent after), one for each way a request can end, and
the theorem puts them together. `FailureTheorem` gets the action property
`FailureHasNoEffect` from the same case analysis.

Assumed: `StoreAssumption` (seeds are consistent), which `SeedData` establishes
for the real seed and TLC evaluates.

What a statement does is proved in `Lemmas`, on the database alone, as the
console server of 3.0 Postgres runs the same statements. There is also, for each of
them, how the messages of the database grow (`Grown`): every old message is still
there, equal but for its READ rows, which only become more, and only for the
requester where it has a row. Both ways a request can end keep that, so
`MessagesKept` (`HistoryTheorem`) and `OnlyOwnMarks` (`MarksTheorem`) follow from the
same lemma, `StepGrown`. They need `Inv` for the types of the rows only.

The last part of `ChatStoreProofs` shows `Spec => BoxSpec` (`RefinementTheorem`).
`Groups`, `Log` and `News` are the refinement mapping as operators on a database; per
statement there is a lemma that says what it does to the three, in terms of `Opened`,
`Delivered` and `Looked`, which are the steps of `Mailbox`. Failures and restarts are
stutters or the statement's step. `Inv` is needed twice: the read mark of a chat that
does not exist is a stutter only because every message is in a chat that exists, and
`InitDatabase` is a `Recreate` only because the status rows of the seed are complete.

`FormsProofs` shows three properties of the forms for any number of persons and
any texts: `OnlyOwnAccount`, `RegisteredAsChecked` and `SavesOnlyEdited`. Its
invariant `FormsInv` is `TypeOK` with five parts. `Own` says whose account a
client is at work in; it needs `Aligned`, that the login which signs in is the
one whose form is shown, as a check of the form counts for whatever the form
holds by then. `Sound` relates the flags to the texts: a set flag means that the
text passed its check or is empty. With `Aligned` it gives `RegisteredAsChecked`,
since a creation sends the texts and goes by the flags. `Shown` and `Fresh` say
that an unedited field of the profile form shows the copy, and that the copy is
the row unless `behind`; together they give `SavesOnlyEdited`.

`LinkProofs` shows `ReplyMatches`, `GivenUpIfLost` and `SocketsOwned` for any number
of clients, any backlog, any outcomes and any timing. Its invariant `LinkInv` is
`TypeOK` with three parts. `Kernel` says what the operating system keeps: the slot
and the backlog hold different connections whose server end is open, and a closed
end holds no messages. `Distinct` says that no two clients refer to one socket.
`Threads` says of each client where its two threads may be, given their sockets,
and that on the socket it has open nothing is on its way unless its GUI thread
waits, and then one request or the reply to it. The hard case is a receiver that
is blocked on a socket which the monitor has closed and replaced: the replies of
the old one are gone (`Kernel`), and the new one is quiet (`Threads`). For
`GivenUpIfLost` one more fact is needed, which steps may disturb only together with
it: where in a request a client's thread is says whether the connection on which the
request began is the one it refers to, or is gone. `SocketsOwned` adds to `LinkInv`
who holds each open end. The invariants were found with
TLC, on the bounds of `LinkSafety`.

`ContactsProofs` shows every property that the run `Contacts` checks, for any
contacts, any copy of them and any number of chats and picks. `ContactsInv` is
`TypeOK` and `FoundIsCurrent` with five more parts: a list shows no contact twice after
a search (`FoundOnce`); the form is that of the selected row, and without one it has no
buttons unless the list is empty (`FormFollows`); block and unblock are disabled while
participants are chosen (`NoBlockingMeanwhile`, a theorem of its own); the panel of a
new chat is there as long as the mode (`PanelIsMode`); and names and picks stand for
the same contacts (`NamesArePicks`).
`FormIsRow` and `CanCancel` follow in a step; `SentAsOffered` is the action property
that a chat is sent with the participants its row shows, but for the two exceptions
that section 5 describes. What the server answers is built row by row in a recursive function, so
that a search returns each contact at most once needs an induction.

The first half of `Lemmas` has these inductions. A theorem that takes a predicate as a parameter
cannot be used here, so they are stated over sets: a set of numbers that is not empty
has a least one (`LeastNat`, from the library's well-founded induction), a set that
holds 0 and the successor of each of its members holds all numbers (`NatInSet`),
and a function is defined by its first value and a table of steps (`Recursion`). From
them follow what `Inserted` and `InKeyOrder` return: the numbers that were asked for,
all of them, and nothing else. As `Lemmas` extends `ChatSql` for its second half, the
models without that database take it as an instance, `Data`.

`PgProofs` shows `StoreConsistent`, that the tables of 3.0 Postgres stay consistent whatever
clients send, also those that go on with ids of a database which is gone, and whichever
statements fail (`ConsistentTables`); its invariant says of clients only what EXCEPT needs. For
`OnlySearchHurts` the invariant `PgInv` adds what is true until a statement fails or the
server ends: every
chat has a message and the senders of its messages are in it (`Inhabited`), a client's
user, contacts and chats are in the database (`IsCurrent`), and what it has not worked
off of a login is what the database holds (`IsPacket`). A client follows a null pointer
if it loads a chat without messages or one whose sender it does not know, so both
must be ruled out from the packet to the copy, while other clients change the
database in between; `Kept` says that they only add to it.

`CliProofs` shows `TypeOK`, `FreeAreAbandoned`, `CalmBeforeFirstEnd`, `AckedStays` and
`CopiesFaithful` for 2.0, from the invariant `CliInv`. Types are the harder part here: that an open chat is one of the
list, and that every time stamp of a copy is that of a message, needs the packets and
the copies to be typed through loading, sending and reading, and the ids that were
given back to be those of chats in no list. `CalmInv` is what is true until the
first end: the store is `Settled`, as the menus name known users only, and nobody has a
failed attempt behind. (There the sender of a message may be unknown, which is what
`CliLogin` shows.) `AckedForever` follows from `Kept`, which every step of the system
satisfies: users, chats, participants and messages of a running server only get more
(`Grows`), so a user's list keeps every packet with its messages as a prefix.

`CopiesStayFaithful` needs a second invariant, `FreshInv`, as two writers must agree
through every step: the server and the copy the client keeps beside it. A client that
is not `stale` is the one in the slot, so nobody else writes while it is there
(`IsFresh`). While it loads, its queue is what the server would answer now, and its copy
the part of that without messages (`StillToLoad`); then the copy has each of the user's
chats once (`ShowsAll`), and each is the server's chat of that id (`Mirrors`): the
participants, the messages, and that the message the pointer stands at is the server's,
or one the user wrote. That last disjunct is what loading does, which moves the
pointer to the user's own messages, and it is why the unread count is bounded from one
side. Whom such a client has picked is known to the server (`Agrees`), so a chat is
created at the first try, or the server ends because an id was given back to it before;
it never answers that the chat could not be created.

The theorem of that name in `PgProofs` says the same of 3.0 Postgres, and its `FreshInv`
has the same parts; who is logged out has nothing left of a login (`IsEmpty`). What
differs is the server's side of a chat, which there is no record to compare with: it is
joined from tables, and its messages are sorted by their time stamps when they are asked
for (`Messages`). So `Lemmas` has what `InKeyOrder` does when a row with the latest key
comes (`LastNumber`: it goes to the end) and that rows of other chats make no difference
(`NoNumber`); from them follows, per statement, what the user sees afterwards of the chat
it is about, and that the user sees the same of every other (`SameFor`). A client one of
whose statements has failed is `stale`, and what it stored by then changes no chat that
another fresh client sees, as that one is not in the slot. A stored message
is the last of its chat as clocks agree, which `Now` assumes (section 5). A mirror stays
one as long as the user sees the same (`MirrorStays`), so each step of a fresh client has
to be looked at for one chat only. Nobody else comes in between: a step of another client
logs only that one in, and does not reach a server whose slot is taken (`Apart`), for
which the slot must tell free from taken (`PgClientsAssumption`).

`ClientChatsProofs` shows every property that the run `ClientChats`
checks, for any user, database, bounds and lost answers. Its invariant
`ChatsInv` is inductive also when clocks do not agree. Then it says, besides what the
types need, that each copied chat is one the user is in and has a message, and that it
is numbered (`IsNumbered`): the last message has an id, every id is of a message of the
chat, and unless a message has none the copy consists of messages of the database
(`InDb`). This is `LocalFaithful`, without an assumption on the clocks: a message that is
posted goes somewhere into the copy (`With`), and if that is not the end it is the one
that stays without an id for ever. `InOrder` is a condition on the database and not on the
clients: if it holds now it has always held (`OrderWas`), and the latest message was late
when it was stored (`NewIsLate`). As long as the messages are stored
in the order of their stamps (`InOrder`), the invariant
says four things more. A copy always is `InDb`, and its stamps increase (`Increasing`), so
a new message goes to the end and gets its id. What the copy's own pointer
would hide has been read at the server (`PointerRead`), unless a report was lost. A row
counts at least what is unread (`Counted`): this is `NothingMissed`, and it needs
`PointerRead` whenever a row is counted anew, as the count goes by the pointer. And the
selected chat is read (`IsView`): this is `OpenedIsRead`. `PointerRead` is where the
argument lies, since loading moves the pointer from the one that was loaded to the user's
last own message: all up to either of the two are read, the first by the consistency of
the tables, the second since a post marks what came before it. That a loaded copy is what
the invariant says is an induction over the messages of the database (`LoadedChatIs`).

`PointerForward`, again with messages in order, follows from what a step does to the database (`Kept`, `Moved`): a
pointer moves only to the message just posted, which is the latest, or to the last one of
the copy, which is the latest that the client knows. `FirstPressOnce` has an invariant of
its own, `PressInv`, which needs neither clocks nor the database: with one slot connected
a press has one message to store and then none, in the chat it was meant for. Also
`TypeOK` needs no clocks.

Assumed in all of these are the named assumptions of the modules and nothing else:
logins, clients, seeds and bounds are arbitrary.

Only model-checked:

* liveness (`Answered`, `SlotFreed`, `Reconnects`, `TurnComes`) and `VisibleState`, which
  is stated with "eventually": out of the prover's reach;
* `FailuresStayLocal`, whose invariant would have to describe the clients that logged in
  with a part of their chats.

Every other property that a passing run checks is the statement of a theorem.

## 5. Disagreements with the documentation

Shown by a run that expects a violation:

* `ReadMessages`: messages that were read are counted as unread after a login.
  Loading adds the messages one by one with `addMessageToChat`, and each own one
  overwrites the pointer that was loaded before it, so answers the user has read
  count as unread again.
* `SecondLogin`: every login connects the lambda of the send button once more.
  If the answer to a post is lost the editor keeps its text, and the next of the
  connected slots posts it again, into the chat that is selected by then.
* `CliLogin`: the author of a group chat is not in it. The branch of the new-chat
  menu for one recipient adds the author to the participants, the one for several
  does not; the addressees are sent messages of somebody they do not know, and
  their client ends at every login.

Read in the code, without a run:

* Bans: the README of the Qt generation (`Shark_3_0_Qt/README.md:29`) lists "ban/unban operations".
  Both statements set a column `bun_until` that the schema calls `ban_until`, so
  they fail whenever they are asked for. No run shows that, as a statement that
  always fails changes no state.
* `InitDatabase` is not one transaction (see `InitDatabase` in `ChatStore`): a
  creation that is answered with false may have dropped all chats and messages.
* `changeUserPasswordCl` never sends what the profile form offers to change
  (`client_session.cpp:184`).
* "Login, name and password fields must be filled." (`screen_register.cpp:187`)
  is not what the form checks: a field that is emptied again keeps the flag of
  its last check, so an empty text can be registered.

Seen while modelling, without a document that says otherwise.

The link: a failed CreateMessage or CreateChat has no answer, and the client,
whose recv has no time limit, waits for as long as the server runs; the runs that
check liveness therefore state under which outcomes a request returns. A failure
of the old socket that is reported after the monitor has opened a new one sets
the flag to false although the link works, without a signal to the window, and
nothing sets it again while that socket lives. A GUI thread that has sent its
request on the old socket and comes to its recv on the new one waits there for a
reply nobody owes it. Both take a GUI thread that is held up for more than the
monitor's 500 ms, and both are excluded by `Timely`, under which `Answered`,
`Reconnects`, `VisibleState` and `TurnComes` are checked; the properties that
hold without it are those of `LinkSafety`.

Contacts: "Remove contact from the list" removes the name and not the pick, so the
contact gets into the chat; a contact that was blocked can be picked for a chat
after a change of tabs, as the list is filled from a copy that blocking does not
change; after a cancelled chat "block" is enabled for a first row that is blocked
already; with an empty list, as a new user has it, there is no first row to select, and
"block" is enabled over the form as it was, which is empty (the request fails) or shows
somebody found by a search that has ended (whom it blocks, without a row to update); a
name that is added after a chat was cancelled stays in the list for the
next chat, where the contact counts as chosen and is not picked. `SentAsOffered`
excludes the removed and the left-over names.

The client's chats: some properties hold only under conditions which they state.
The id in an answer is given to the last message of the copy, which is not the new
one if the user's clock is behind another's: then the window shows the new message
without an id and the last one with the id of the new, until the next login.
`LocalFaithful` says that nothing else gets mixed up, and that a message without an id
is left in every such copy. The last message shown is then not the last one stored
either, so `NothingMissed`, `OpenedIsRead` and `PointerForward` speak of a database
whose messages are in the order of their stamps (`InOrder`). A report of the last read
message that gets lost is not repeated, as the local pointer has moved
(`NothingMissed`, `OpenedIsRead`); and the server's pointer may go back from a message
that no copy knows, a stored post whose answer was lost (`PointerForward`).

The forms: a check of the login that is not answered counts as "free"; a creation
that failed still goes on to the login, which asks for no password after a
registration, so a client may end up in the account of another person who took
the login in between; that is the exception in `OnlyOwnAccount`. A password that
was refused is registered all the same once both fields agree. A name that was
refused in the profile form is saved along with another field that changed. An
e-mail wider than its column makes the creation fail and the login that follows
gets no answer. The copy is not updated after a save, so a form that is opened
again shows, and may save, the old texts.

The console clients: an id that was given back is handed out again while the
abandoned chat still stands under it, so the next chat's first message lands in
the abandoned one, whose participants are those added before the failure. A
creation that failed leaves its message in the draft, so that the next attempt
sends two. After a restart of the 2.0 server a client goes on with ids of chats
that do not exist any more, until it logs in again; what a copy shows is
promised only while it is not `stale`. In 3.0 Postgres a search whose result is
cleared twice may end the server; a refused entry in the menu leaves the picks
made so far, and "," picks nobody, which makes a statement over no logins that
fails, and an answer without packets. A statement that fails leaves a client waiting
for ever at the login (`server_session.cpp:607-646`), in a search or at the request for
users (`server_session.cpp:379-380`), as nothing is sent; `OnlySearchHurts` therefore
speaks of the time before the first failure, and `FailuresStayLocal` of the time after.
A login that was told of a chat without its messages ends the client, which takes the
last message of each when it lists them.

Assumed about users and machines: a field is left before a button is pressed;
e-mail and phone go the same way; a program that ended is started again; in the
console systems the clocks agree, and a double free aborts or does nothing.

## 6. Plan

Done: the message store, its proofs and its refinement; the link and its proofs;
the contacts page and its proofs; the client's chats and their proofs; the forms and
their proofs;
the server and client of Shark 2.0, and those of Shark 3.0 Postgres, with proofs about
the stores, the clients' copies and what ends a server or a client.

Questions about the older generations that were asked before they were modelled,
and the answers:

* may an id that was given back be handed out while its chat still stands under
  it? Yes (`Abandoned`, `NextId` in `CliServer`).
* does a copy agree with the server after an answer was lost and the user tried
  again? While the copy is not stale and the attempt was answered; the second
  attempt sends the first one's message too (`CliSystem`).
* does everybody who is in a chat find it at the next login? The author of a
  group chat is not in it, and its addressees cannot log in (`CliLogin`).
* what does a client hold after the server restarted? Chats that may be others
  by now; the properties of the copy are promised for a copy of the running
  server only (`stale`).

Left: the store behind the link of the Qt generation, with a client that repeats
requests. `ChatStore` and `Link` are checked apart, joined by the outcomes a request may
have.

Not modelled: serialisation and DTOs, and the system utilities, as pure functions
whose results every module takes as the structures they stand for; delegates, the
message view and the other painting; the logger and the error bus, which nobody
reads back; bans, which always fail; deleted messages, which nothing sets;
`client_sql_lite.cpp`, which no menu calls; the broadcast of the discovery, which
has no state; third-party code and build files.
