# A formal model of NetRadio

NetRadio is a small radio network over TCP and multicast. *Streamers*
("diffuseurs", Java) broadcast numbered text messages by multicast and serve
clients over TCP; a *manager* ("gestionnaire", C) keeps the register of the
streamers and gives it to clients; *clients* (C and Java) list the streamers,
listen to one, ask it for its last messages, or post a message.

This directory holds TLA+ modules translated from the source, the
configurations with which TLC checks them, and proofs checked by TLAPS.

## 1. The system

| Component | State | Operations | Interacts with |
|---|---|---|---|
| Manager, `c/manager.c` | `broadcaster_register` (slots, free when the first byte is null), `register_mutex`, one thread per connection with its socket and its pointer to a slot (`canary`) | accept, REGI (register, answer, then RUOK/IMOK for ever), LIST (LINB, ITEM...), MESS (relay to every streamer) | streamers and clients by TCP; the threads by the register |
| Manager session, `java/ManagerService.java` | its socket | send REGI, read REOK/RENO, answer IMOK to each RUOK | the manager |
| Streamer, `java/Streamer.java`, `MulticastService.java`, `ClientService.java` | posts (`diffMess`, `IDs`), `current`, `num`, the ring `lastStreamed`, `lastSend`; the monitor of the `Streamer` object | build and send DIFF; serve LAST (OLDM..., ENDM) and MESS (ACKM) | clients by TCP and multicast; the threads by the monitor |
| Images, `java/ImageMulticastService.java` | `images`, `currentImage` | send the next image | the threads of the streamer by the monitor |
| Codec, `c/message.c`, `c/utils.c`, `java/Message.java` | none | build, recognise and take apart messages, numbers, addresses | everybody |
| C client library, `c/client.c` | none between calls | `get_streamer_list`, `get_last_mess`, `send_mess_to_streamer` | manager, streamer; `handle_mess` of the manager calls it |
| Clients, `c/client_keyboard.c`, `java/JavaClient*.java` | none that lasts | menus; copy keyboard, sockets and screen | manager, streamer |
| Start-up files, `java/StreamFile.java` | none | read the configuration, posts, images | the streamer |

What is hard in it: the threads of the manager share an array that they fill
in two writes; copies of it are used after the mutex is released; a streamer
may die, hang, answer late or reset its connection at any step; every error of
a Java thread ends the thread; a reply to LAST is written under the monitor
that the broadcast needs; three counters of the streamer go back to zero at
three different bounds, one of which moves. `PROJECT.json` lists these hazards
at their lines, with the properties that are about them.

What makes each component correct:

- *manager*: a slot has one owner and describes the broadcaster that owner
  monitors; a consultation returns exactly the registered broadcasters; a
  registration is refused only when the register is full; the dead leave it
  and the dropped learn it; nobody waits for ever; one peer harms no other;
- *streamer*: the ring is the recent past; a reply is exactly the last
  messages asked for; numbers are consecutive and distinct in the ring; an
  acknowledged post is broadcast; a client cannot stop the broadcast;
- *codec*: what one side builds the other recognises, with the same fields,
  from the keyboard of one program to the memory of another;
- *relay*: a message sent to the manager comes to each streamer once for each
  entry that leads to it, but for those on which a call fails, whatever the
  other streamers do, and the relay ends;
- *client library*: the result does not depend on how TCP cuts the stream.

## 2. Modules

| Module | Contents |
|---|---|
| `Registry` | what the manager promises: an atomic register |
| `Manager` | the manager's threads and its peers, down to system calls; its properties; its refinement of `Registry` |
| `MCManager` | symmetry, for the runs of `Manager` |
| `ManagerProofs` | the register of `Manager`: its inductive invariant and theorems |
| `ConnectionProofs` | the connections of `Manager`, on top of `ManagerProofs` |
| `RegistryProofs` | `Manager` implements `Registry`, on top of `ConnectionProofs` |
| `Feed` | what a streamer promises: a numbered feed, atomic answers |
| `Streamer` | the threads of a streamer; its properties; its refinement of `Feed` |
| `MCStreamer` | instances and symmetry, for the runs of `Streamer` |
| `ClientLib` | one call of a C client over a stream that TCP cuts and joins; its properties |
| `MCClientLib` | where TCP may cut, for the runs of `ClientLib` |
| `Message` | messages as fields of fixed width, built and recognised in C, built and read in Java; numbers and addresses as texts |
| `Journey` | a value from where it is typed to its last user, through those codecs; its properties |
| `MCJourney` | values around the ends of fields and types |
| `Relay` | the manager and its streamers composed: the relay of a MESS; its properties |
| `MCRelay` | addresses, for the run of `Relay` |
| `RelayProofs` | the inductive invariant of `Relay` and its theorems |
| `StreamerProofs` | the broadcast of `Streamer`: its inductive invariant and theorems |
| `RingProofs` | the ring and the replies of `Streamer`, which implements `Feed`; on top of `StreamerProofs` |
| `ClientLibProofs` | the inductive invariant of `ClientLib` and its theorems |
| `JourneyProofs` | lemmas about the codecs of `Message`, the inductive invariant of `Journey` and its theorems |

`Manager`, `Streamer` and `ClientLib` each have one process in detail and its
peers as far as they matter to it. `Relay` composes the manager, as the atomic
register that `Manager` is shown to implement, with streamers of which it
keeps the port, the monitor and the count of messages added. `Journey` composes
the codecs along the paths of the data and leaves the scheduling to the others.

Definitions preceded by a comment `Variant:` are what the definition after
them would be with a plausible mistake. No specification uses them: they are
substituted for the real definitions to see that the properties notice.

### Manager

A connection `c` stands for a socket, the thread `handle_tcp` that serves it
and the peer at its other end. `pc[c]` is where the thread stands; each label
is a point where another thread can act.

| Labels | Code |
|---|---|
| `recv`, `quit` | `handle_tcp` 330, 374 |
| `regLock` ... `regUnlock` | `register_broadcaster` 81-94: one step per turn of the loop, one for `strcpy`, one for `strncpy` |
| `regReply` | `handle_regi` 196-211 |
| `ruok`, `imok` | the loop of `monitor_broadcaster` |
| `clearLock`, `clear`, `clearUnlock` | its `error:` part |
| `copyLock`, `copying`, `copyUnlock` | `copy_broadcaster_register` |
| `linb`, `item` | `handle_list` after the copy |
| `relay` | the loop of `handle_mess`: one call of `send_mess_to_streamer` a step |

`register[s]` is a message, of which only the type and the broadcaster
described are kept; type `NUL` is the null first byte. `idx` is the loop
variable, `copy` the local array. `link[c]` is the connection seen from the
manager: `open`, `fin` (the peer closed), `reset`, `shut`, or `bad` for
descriptor -1. What was sent and not read is in `toManager` and `toPeer`. The
peer of a REGI is `ManagerService.run`, statement by statement; a client only
reads. A peer may go at any time, with a FIN or a reset. A send on a reset
connection fails, or raises SIGPIPE where MSG_NOSIGNAL is missing, and then
the process is no longer `running`.

Left out: the verbose output, the sleep (a thread may stay at any label as long
as it likes), the result of the relay (unused), and `setsockopt` failing. The
options of `main` are in `Journey`, the inside of the relay in `Relay`.

TCP may cut an IMOK in two. `recv` (150) puts what it gets over the RUOK that
`msg_buf` still holds (136) and does not end it by a null byte, so that two or
three bytes of `IMOK` are completed by the `OK` of `RUOK`: of a cut answer, a
start of two bytes or more is accepted, and the rest (`REST`) is read after the
next RUOK, alone or in front of the next answer. It is no IMOK, and the manager
drops a streamer that has answered in time. The first byte alone is not
accepted. More than two segments change nothing, as the second one already ends
the monitoring.

### Streamer

`caster` is where `MulticastService` stands. The block it runs under the
monitor is one step, `Build`: nothing in it waits, and nothing it touches is
read without the monitor. The datagram is a step of its own, which may fail.
`ClientService` is at `read`, then at the entrance of its synchronized block
(`last`, `mess`); the reply to LAST is one step per flush because a flush
waits for the client to read (`Window` messages fit unread). `hung` is a
thread that ended without closing its socket. `recent` is a history variable:
the last `RingSize` messages built.

A post is an author and a text; a text is plain, with a `#` in it (`sharp`),
what is left of that (`cut`), or `blank`. `removeDefChar` and `split` are
modelled by what they do to these: a text ends at its first `#` when it comes
back from bytes, and a message whose last two fields are empty cannot be
built. `getLastMess` is translated as it is written. A request is LAST with a
number from 0 to `MaxLast` (three digits in the code, below the ring's 1000),
MESS, or something else, which stands for a well-formed message of another
type, an unreadable one and the end of the stream: all three leave the socket
open. A client's own id in a MESS is its connection, or blank.

`imager` is where `ImageMulticastService` stands: it takes an image under the
monitor and sends it outside. `ImageFile` is the list of lines of the file of
images that can be read; `addImagesFromFile` takes the first for an id. The
thread does not exist when there is no image.

### ClientLib

A behaviour is one call: of `get_streamer_list`, `get_last_mess` or
`send_mess_to_streamer` (`client.c`), or of the conversation of the keyboard
that does the same (`communication_gest`, `last_diff`, `mess_diff`), with
another room for `recv`. Calls share nothing: the threads of
`scenario_many_clients.c` and of the manager's relay are so many behaviours.
`pc` is the `recv` where the call waits. The server sends a reply message by
message, as `handle_list` and `ClientService` do, and may stop between two by
a FIN or a reset, or stay silent.

The stream is counted in bytes, with the lengths of `msglen`. `recv` returns
what it has room for, all that is there, or anything up to a `CutPoints`: the
end of a message or one of a few offsets inside. A `chunk` is what one `recv`
returned. What the code reads from memory it did not write (`ackm`, the number
of a LINB cut after four bytes, the type after a failed `recv` in
`get_last_mess`) is any value the code tells apart. Left out: the content of
the messages, negative numbers of messages asked for, a text that holds the
name of a type just where a chunk begins, and the sockets that are never
closed (`Relay` lets any call fail, `socket` included). For the functions of
the keyboard client `result` tells which `return` was taken: there EXIT_FAILURE
is 1, the value of their success, so that their callers, which test `!r`, do
not tell the two apart.

### Message and Journey

A message is the sequence of its fields, each with a kind, a width and a value;
what takes it apart (`Extract`, `verify_msg`) knows offsets from 0 only, written
as in the code. A name or a text is a sequence of three characters: a letter,
the separator and the filler. `add_int` is what `snprintf` with a precision and
a limit does: the first digits are kept, and a sign takes the place of one.
`createPost` is `createMsg` on a line with `split`: the id ends at the first
blank, a line of blanks has no field, an id too long is an
`ArrayIndexOutOfBounds`. `LineOf` is what `readLine` gives to a streamer.
`inet_aton` reads a field that starts with 0 as octal. The C side never builds
a REGI and the Java side never verifies one. The offset of a field is the
number of bytes before it (`Start`), and the sizes of an int, of an unsigned
long and of a port are parameters.

A behaviour of `Journey` is one of: a post from a client in C or in Java, sent
to a streamer or to the manager, added, broadcast, repeated in a reply to LAST;
a post of the streamer's own file; a registration, listed, then read by one who
connects; a number of messages asked for; the arguments of the manager, and the
count in the LINB it then sends. `lost` is an error before the value is used,
`mute` an exception that ends the broadcast.

### Relay

`pc[r]` is where `handle_mess` stands for connection `r`: `next` is the top of
its loop, `send` and `wait` the calls of `send_mess_to_streamer`, `acked` the
moment after the streamer's `addMess`. `todo` is what remains of the copy;
`entry` the entry the relay is on, `link` the streamer at the other end. The
copy has no order here: a step takes any of its entries. Any call may fail, for
a streamer that serves too: `ConnectFails` is a failure of `inet_aton`,
`socket` or `connect` (the descriptors of `client.c:111` are never closed, so
that `socket` fails in the end), `LinkFails` and `LinkBreaks` one of `send` or
`recv`. The relay then goes on with the next entry, and a streamer that already
has the message may add it later (`late`, `StreamerAddsLate`). A streamer
starts, takes its port (`Bind`, or `deaf` when another one has it: the rest
goes on without service), registers with an address, may be forgotten by the
manager, may die at any step (its connections are reset, or its host vanishes
without a word and they are left as they are), and its monitor may be kept by a
client of its own for any time. One that restarts is another process with the
same address. `reads` is what `inet_aton` makes of an address. `parsable` tells
whether the message survives `createMsg` in the streamers: a thread that throws
on it leaves its socket open. `steady`, `failed` and `got` are there for the
properties.

## 3. Runs

| Run | Instance | What it shows |
|---|---|---|
| `manager_safety` | 3 connections, 2 slots, 3 descriptors (about 932 000 states) | the safety properties of `Manager`; it implements `Registry` |
| `manager_liveness` | 2 connections, 1 slot, no symmetry | the liveness properties |
| `manager_sigpipe` | 2 connections | violated: see 6 |
| `streamer_safety` | 2 clients, ring of 3, numbers 0-3, replies of up to 2, no post or two at the start, the network may fail | the safety properties of `Streamer`; it implements `Feed` |
| `streamer_liveness` | 2 clients, ring of 3, numbers 0-2, one post, a file of 3 images (about 254 000 states) | the liveness properties, of posts, requests and images |
| `streamer_last_wraps` | 1 client, ring of 3 | violated: see 6 |
| `streamer_blank` | 1 client | violated: see 6 |
| `client_cuts` | up to 4 messages asked for, up to 4 streamers listed, cuts at 3, 4, 5, 6 and 28 bytes (about 41 000 states) | the properties of `ClientLib` |
| `client_list_joined`, `client_overrun` | 1 or 2 messages or streamers, messages never cut | violated: see 6 |
| `journeys` | ids of 2 and texts of 3 characters, one more typed; `INT_MAX` of 2^17 - 1 and `ULONG_MAX` of 2^22 - 1, ports of 16 bits; NB_SECONDS_ONE_DAY and the 99 slots as they are (about 198 000 states) | the properties of `Journey` |
| `relays` | 3 streamers, 2 of them at one address, the third at one `inet_aton` does not read; 2 slots; 1 relay (about 672 000 states) | the properties of `Relay` |

Why the bounds are enough. Three connections for two slots give two
registrations and a list, or a third registration that finds the register full,
or that takes the slot a dead broadcaster leaves. A connection serves one
request in its life, as in the code, so the runs need no other bound. In
`Streamer`, a ring of three with replies of two has a ring that is not full, a
reply inside the array, and one around its end that leaves the zero arrays of
section 6. The copy after the end of the array (`i <= lastSend`) needs a reply
of three or more: no run reaches it, and the theorems of `RingProofs`, for any
size of ring and of reply, do. Numbers and ring go round at different bounds (4
and 3), so that every alignment of the two occurs. `recent` is bounded by the
ring: the runs go round for ever and nothing is cut. Two clients are one that
consults while the other posts. `Window = 1` makes every reply wait for its
reader. In `ClientLib`, the offsets are before and after the end of the type,
at each byte of the number of LINB that the code reads apart, and inside the
longer messages; four ITEM after LINB fit in the first `recv` with room to
spare, three OLDM fill the 511 bytes of the keyboard and cut the fourth. In
`Journey`, widths of 2 and 3 with every line of up to 3 and 4 characters have
each order of letter, blank and filler, empty, exact and too long; the code
treats positions alike, so that wider fields have no other case. Numbers are
around each bound of the code and each end of a type; the types are narrower
than in C because TLC counts on 32 bits, in the order that matters: a port,
then a day in seconds, then an int, then a long. Octets have each length, with
and without a digit above 7. In `Relay`, two streamers at one address and one
unreachable are the cases of `connect`, two slots refuse the third; one relay
is enough because relays share nothing but monitors, which `LocalEnters` keeps
for longer than any relay. The proofs have no such bound.

Fairness. In `Manager`, a thread that can go on does (`Handler`), and so does
the Java thread at the other end (`PeerReads`): the scheduler of the system.
Weak fairness is enough for the mutex because each connection takes it at most
twice, so nobody can be overtaken for ever. `RecvImokFails` may always happen
instead of an answer: the two-second timeout. Nobody has to connect, to send a
request or to leave, and `Relay` may never return, since
`send_mess_to_streamer` has no timeout. In `Streamer`, the multicast thread and
the clients' threads run when they can, and *clients read what they asked for*:
without that last assumption neither liveness property holds, as one flush that
waits keeps the monitor. That is the client's doing, and the code has no
protection from it. In `ClientLib`, the caller's thread runs; nothing is
assumed of the server, and `CallReturns` is about servers that are gone: no
call has a timeout, so a silent server keeps its client. In `Relay`, the step
of a relay that is possible is taken, the streamer's thread included; nobody
has to leave a monitor, so `RelayEnds` assumes that the relay is in the end on
no streamer that keeps it, cannot take its message apart, or was on a host that
vanished: TCP tells nothing of that to a `recv` that waits. The failures of the
network (`LinkBreaks`) are not assumed to happen. The image thread runs like
the others of the streamer.

## 4. Properties

`Manager`: `TypeOK`; `SlotOwnership`, `CopiesAreItems`, `OnlineIsListed` (REOK
agrees with the register until the connection is shut), `HeartbeatPaired` (the
monitoring goes on only on the start of the answer to the last RUOK; all that
may be left of an earlier one is an end that makes the manager drop the
streamer), `ListReplyComplete`; `DeadIsUnlisted`,
`DroppedIsTold`, `RequestServed`; `ImplementsRegistry`.

`ImplementsRegistry` maps a broadcaster's entry to the moment its type becomes
ITEM, its end to the null byte, a refusal and a consultation to the end of the
scan under the mutex. The view of a consultation is compared as the number of
occurrences of each broadcaster: the code does not refuse the same one twice.

`Streamer`: `TypeOK`; `RingIsRecent`, `NumbersDistinct`, `RingLeadsByOne` (the
last message of the ring is the only one that may not be on the air: while it
is being sent, and for ever after the network refused it, since the thread is
dead and LAST goes on repeating it), `AnswerIsRecent`, `DatagramsConsecutive`;
`AckedIsBroadcast`, `RequestEnds`; `ImagesAreBroadcast` (each image that was
added is sent again and again, which says nothing of the first line of the
file, see 6); `ImplementsFeed`, which maps the answer to a LAST to the moment
its ENDM is written. `AnswerIsRecent` is about replies that reach ENDM: section
6 tells which do not.

`ClientLib`: `TypeOK`; `LastIsWhole` (however the stream is cut, a success is
the whole reply), `ListIsReply` (the same for a list, but for the end of its
last ITEM), `LastErrorIsCut` (`get_last_mess` fails on a complete reply only
when a message was cut, where `get_streamer_list` also fails when messages
are joined); `CallReturns`.

`Journey`: `TypeOK` (the widths are those of `msglen`); `PostKept` (what of an
author's name and text is kept, byte for byte, on every path),
`RelayTransparent` (the manager's relay changes no byte), `VerifyAccepts` (the
manager recognises what others build), `MuteIsBlank` (the only post of a client
that ends a broadcast), `OldmRepeatsDiff`; `ReachedAsRegistered` (a register
entry leads to the streamer, and in C exactly unless an octet means something
else in octal); `LastRead`, `OptionsAsTyped`, `ListIsAnnounced` (numbers).

`Relay`: `TypeOK`, with one owner for a port; `OncePerEntry` (nobody has a
message more often than the copy leads to it, those who add it after the relay
gave them up included); `RelayedToAll` (at the end of a relay, one who served
all along has it at least once for each entry that leads there, less the
entries on which a call failed: a failure costs its own entry only);
`RelayEnds`.

## 5. Proofs

Every safety property that a passing run checks, the two refinements and the
action properties are theorems, for every value of the constants that the
assumptions allow. Each inductive invariant below was first checked by TLC as
an invariant of the instance of its run.

| Module | Theorems | For every |
|---|---|---|
| `ManagerProofs` | `TypeOK`, `SlotOwnership`, `CopiesAreItems` | finite set of connections, set of broadcasters, register of 1 to 99 slots, number of descriptors (`ManagerAssumption`) |
| `ConnectionProofs` | `OnlineIsListed`, `HeartbeatPaired`, `ListReplyComplete` | the same |
| `RegistryProofs` | `ImplementsRegistry` | the same |
| `StreamerProofs` | `RingLeadsByOne`, `DatagramsConsecutive` | finite set of clients, size of the ring, bound of the numbers no lower than it, requests below the ring's size, posts and files (`StreamerAssumption`) |
| `RingProofs` | `TypeOK`, `RingIsRecent`, `NumbersDistinct`, `AnswerIsRecent`, `ImplementsFeed` | the same |
| `ClientLibProofs` | `TypeOK`, `LastIsWhole`, `ListIsReply`, `LastErrorIsCut` | number of messages asked for, number of streamers listed up to 99, places where TCP may cut (`ClientLibAssumption`) |
| `JourneyProofs` | `TypeOK`, `PostKept`, `RelayTransparent`, `VerifyAccepts`, `MuteIsBlank`, `OldmRepeatsDiff`, `ReachedAsRegistered`, `LastRead`, `OptionsAsTyped`, `ListIsAnnounced` | line, address, port, number and argument that can be typed; width of a name and of a text; size of an int, of a long and of a port (`MessageAssumption`, `JourneyAssumption`) |
| `RelayProofs` | `TypeOK`, `OncePerEntry`, `RelayedToAll` | finite sets of streamers and relays, addresses, reading of addresses and capacity (`RelayAssumption`) |

### The register

`SlotOwnership` is not inductive: nothing in it keeps a second thread out of a
slot between the scan and the write, nor tells what the slot holds before its
type is set. `IInv` adds that a thread that serves REGI still has the request
(`ReqIsRegi`), that the mutex is held exactly by the thread between lock and
unlock (`MutexIsHeld`), that a pointer is null until a slot is found and set
from then on (`CanaryIsSet`), and that between `strcpy` and `strncpy` the slot
holds the request (`SlotIsWritten`). `TypeStep` and `ControlStep` prove the
first parts action by action. For the rest, `QuietStep` deals with the steps
that change no slot, pointer or copy; `ScanFreeStep`, `OwnSlotStep` and
`CopySlotStep` with the five that do, from `SlotSeen`: a thread that has the
mutex and is not writing sees complete entries only.

### The connections of the manager

What a streamer believes and what its thread does are two ends of two streams,
and the properties say nothing of what is in them. `ConnInv` says, for each
place of the thread and each state of its peer, what is under way in each
direction: nothing before the request is read; then REOK and at most one RUOK,
or RENO, or the part of the copy that the loop of `handle_list` has come to;
and towards the manager the request, or the end of an answer that was accepted
by its start, then at most one answer, to the last RUOK
(`InboxFits`, `RegisteringFits`, `OnlineFits`, `ClientFits`). A step is about
one connection (`StepTouchesOne`), and the proof is about that one. That a
thread frees its slot only after it has stopped expecting answers gives
`OnlineIsListed`.

`ImplementsRegistry` compares counts: the listed connections with the occupied
slots, the copy with the broadcasters registered when the scan ends. `LoopInv`
has what the loops know half-way: a scan has only seen occupied slots
(`ScanFits`), and a copy holds each broadcaster as often as the slots it has
passed (`CopyFits`), which stays true because whoever writes the register has
the mutex (`WritesUnderMutex`, `WriterIsAlone`). The pointer `canary` is a
bijection between listed connections and occupied slots (`CanaryBijection`), so
that a full scan is a full register. Then the store of ITEM is `Register`, the
end of a scan without a free slot `Refuse`, the null byte `Unregister`, the end
of a copy `Consult`; every other step, those of peers and failures included,
changes nothing in `Registry` (`SilentStep`).

### The relay

The properties count messages at one end and entries of the copy at the other,
and say nothing of a relay under way. The invariant `Accounted` relates them,
relay by streamer. From above: what a streamer has, what it may still add after
the relay gave it up (`late`), and the message on its way to it (`Pending`), are
together at most the number of entries the relay has come to that lead there
(`Passed`); hence `OncePerEntry`. From below, for one that served all along: what
it has, with the message on its way, is at least the number of those entries on
which no call failed (`Due`). `CopyOK` keeps what is left inside the copy, and
`EntryOK` says of the entry the relay is on that no call failed on it yet and
that it leads to the streamer at the other end. A step adds one entry and one
message to both sides (`AccountedConnect`), gives up an entry that then is no
longer due, before a connection (`AccountedFails`) or with its message late or
lost (`AccountedGivenUp`, with `DueGivenUp` on cardinalities), turns a message on
its way, or a late one, into one received (`AccountedAdds`, `AccountedLate`), or
ends a streamer with the messages it would have added (`AccountedDie`). At `done`
nothing is left, and `Due` is `Entries` less `failed`.

### The streamer

`DatagramsConsecutive` is not inductive: `NumbersFollow` adds that the packet
being sent has the number after the last datagram, and `num` the one after the
packet, and that after a refused datagram the thread is dead with the packet
that is not on the air, from which `RingLeadsByOne`. `PostsOK` adds that what
clients post is a post, so that each packet is a DIFF. `SuccIsMod` shows that
the tests of lines 25-26 of `MulticastService` are a remainder, and `PushLast`
what the history has at its end.

`RingFits` tells the place `i` of the array from the history (`PlaceOf`): the
end of it before `lastSend`, the start of it after, once the ring is full.
`NumbersFit` tells a number from its rank and from `num`, across the bound
where numbers go back to zero; two ranks of one ring cannot meet because the
bound is no lower than the ring (`RanksDiffer`). `LastMessIsRecent` shows that
what `getLastMess` copies, in one part or in two, is the end of the history.
A reply is written over many steps: `AnswerInv` says what was written and what
remains of an array that stays that of the ring (`Copying`, `Copied`) because
the thread has had the monitor since it took it. `ImplementsFeed` follows: a
`Build` is a broadcast (`BuildBroadcasts`), an `addMess` a post (`MessPosts`),
the ENDM of a reply the answer (`EndmAnswers`), and the rest is hidden
(`OthersHidden`).

### The client library

The offset of a message in the stream, a sum, is told from the number of
messages of each type before it (`OffsetIsSum`), so that `LastPlaces` and
`ListPlaces` give the place of each one without induction. `CallInv` says that
each chunk kept by a call starts with a message, and further in the stream than
the one before (`ReadingLast`, `ReadingList`): the code recognises a message by
the four bytes at the start of what `recv` returned, so a chunk that starts
inside of one ends the call. Since the library counts chunks and the server
messages, a call that has as many chunks as messages has each at its place. An
error of `get_last_mess` on a complete reply then comes from a chunk that ends
inside a message (`LastErrorIsCut`, lemma `ErrorIsCut`).

### The codecs

The code builds by appending and reads at offsets. The lemmas `NumberPlaces`,
`MessPlaces`, `DiffPlaces` and `AddressPlaces` compute the offset of every field
of the four forms of messages by counting the bytes before it (`StartNext`),
for every width of a name and of a text; hence what `Extract` and `verify_msg`
find there (`MessRead`, `MessVerified`, ...). For numbers, `WrittenWhole` and
`DigitsKept` say what `snprintf` leaves of one, and `IntIsRead` that an int comes
back from `strtoul` and the conversion to int. For names and texts,
`Kept(r, s, w, C)` says that `r` is what a reader that stops at the characters
`C` keeps of `s` in a field of `w`: there is one such text (`KeptUnique`), it is
what `removeDefChar` returns from a padded field (`PaddedKeeps`), and it is not
changed by a second trip (`CleanIsKept`, `PaddedTwice`). `LineSplit` says where
`split` cuts the line made of a name and a text, and `Carries` what of a name
and a text a line and its fields carry on, whatever blanks the name has.
`JourneyInv` puts them together: at each place, what the message or its user has
of the job, said of the job itself and not of the step before.

### What is only model-checked

Liveness (`DeadIsUnlisted`, `DroppedIsTold`, `RequestServed`,
`AckedIsBroadcast`, `RequestEnds`, `ImagesAreBroadcast`, `CallReturns`,
`RelayEnds`): temporal reasoning under fairness is out of the prover's reach.
And the five runs that refute a statement of the code's documents, where the
run is the answer.

No theorem assumes more than the constants' assumptions, each of which is a
declaration or a test of the code: 99 slots is the test of `main`, a request
below the size of the ring is three digits against 1000, a bound of the numbers
no lower than the ring is 9999 against 1000, and a port fits an int.

## 6. Where the code and its documents disagree

- `manager_sigpipe`: `monitor_broadcaster` is said to watch a broadcaster
  indefinitely (`manager.c:108`). A peer that resets its connection while the
  manager answers it (lines 202, 211, 258, 269: no MSG_NOSIGNAL) ends the
  process by SIGPIPE, with every thread.
- `streamer_last_wraps`: once the ring has turned, `getLastMess`
  (`Streamer.java:167-172`) leaves zero arrays at the end of a reply that
  spans the end of the ring; converting them throws, no ENDM is sent and the
  socket stays open.
- `streamer_blank`: a post with an empty id and an empty text is acknowledged
  and announced as broadcast (`Streamer.java:237`), and ends the multicast
  thread when its turn comes.
- `client_list_joined`: `get_streamer_list` (`client.c:54`) loses the ITEM that
  arrive with LINB and fails, where `client.h:40` promises the list.
- `client_overrun`: `get_last_mess` (`client.c:189`) writes past the array that
  `client.h:26` promises when all the messages asked for exist.

Others are in the models without a run of their own:

- `send_mess_to_streamer` (`client.c:142`) may return 0, which `client.h:14`
  keeps for the absence of errors, when the streamer closes without ACKM;
- `monitor_broadcaster` (`manager.c:150`) takes one `recv` for an answer: an IMOK
  that TCP cuts in two is accepted by its start and its end is taken for the next
  answer, so that a streamer that answers every RUOK in time is dropped
  (`HeartbeatPaired` says no more than the code does);
- `mess_diff` (`client_keyboard.c:150`) announces an error for every
  acknowledged message;
- the address of a streamer with an octet from 8 to 99 is written with zeros
  before it and read in octal by `inet_aton` (`client.c:106`): 192.168.1.15 leads
  to 192.168.1.13, and 192.168.1.9 nowhere. `ReachedAsRegistered` says exactly
  when; Java clients read it as decimal;
- a name with a blank in it is cut at the blank by every streamer, and what
  follows goes before the text (`Message.java:233`, `176`): `PostKept` keeps the
  text only for the others. In C the name takes 8 characters, blanks included;
- a name too long in the streamer's own file of messages, or an empty one with
  empty lines, ends the broadcast when its turn comes (`Message.java:211`);
- `verify_msg` looks for the last separator of DIFF and OLDM in the text
  (`message.c:294`); it never receives one;
- 1500 messages asked for from C are read as 150 (`message.c:122`), where Java
  throws; a negative number is one the streamer cannot answer, or throws on;
- a port above 65535 is taken modulo 65536, and 4294967297 slots are one slot
  (`utils.c:62`);
- `README.md:60` of the repository makes the number of streamers optional, with
  100 by default; `manager.c:532` requires it and refuses 100;
- the first line of a file of images is not broadcast (`StreamFile.java:50`),
  where `README.md:49-50` has one image a line.

## 7. What is left

Modelled: every process that has a state of its own, their composition around
the relay, and the codecs between them. Proved: all that the runs check but
liveness.

Worth adding: a client composed with the manager and a streamer, which is given
the entry of a streamer that is gone or deaf (`Relay` has that case for the
manager); and the steps of a liveness argument that need no fairness, for
instance that a bound on what remains of a scan goes down with each step.

Not modelled, and why: the menus of the clients, the windows and the display of
datagrams and images (I/O only, no state that outlives a line);
`scenario_many_clients.c` (threads that call `ClientLib`'s functions and share a
barrier); the verbose output; memory and descriptors, but for those of the
manager; the Makefile and the unit tests.
