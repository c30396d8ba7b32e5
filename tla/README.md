# P2PSharer in TLA+

P2PSharer shares video files between the Windows clients of a network. A server
(`src/master_udp`) knows which clients are online and at which UDP address; a
Redis server knows which client, named by its MAC address, owns which file,
named by its MD5 value; a client (`src/P2PSharer`) scans its disks, registers
what it finds, searches, downloads a file in blocks of 1300 bytes from all its
owners at once and serves blocks to others. All traffic between clients and with
the server is UDP: any datagram may be lost, duplicated or late.

This directory models every part that keeps state of the system: the download,
the list of who is online, the way to a client behind a router, the serving of
blocks, the index of what a client offers, and the window with its searches.
Source lines are named for every definition in `PROJECT.json` ("map"); the
sources are GB18030 text with CRLF line ends, and lines are counted as they are
there.

| module | what it is |
|---|---|
| `FileTransfer` | what a download promises (abstract) |
| `Downloader` | one download with all its threads; implements `FileTransfer` |
| `DownloaderProofs` | its theorems: accounting, completeness, implementation of `FileTransfer`, the list of senders, the limits of map, batch and tasks |
| `Directory` | what the server's list promises those who look clients up (abstract) |
| `Presence` | the server's online list and the clients that log in; implements `Directory` |
| `PresenceProofs` | theorems of `Presence` |
| `HolePunch` | how a sender's thread finds and reaches a provider: peers, flags, the shared socket |
| `HolePunchProofs` | theorems of `HolePunch`: flags, pointers, punched addresses |
| `HolePunchAloneProofs` | more of them: when a thread that shares its provider with none gives up |
| `HolePunchPairProofs` | the same of two threads that share a provider |
| `BlockServer` | one provider that answers one requester, directly or through the server |
| `BlockServerProofs` | theorems of `BlockServer` |
| `ResourceIndex` | scanning, listing, registering, and finding a file |
| `ResourceIndexProofs` | theorems of `ResourceIndex` |
| `Dialog` | searches, rows, the map of downloads and the messages to the window |
| `DialogProofs` | theorems of `Dialog` |
| `MCDownloader`, `MCPresence`, `MCHolePunch`, `MCBlockServer`, `MCResourceIndex`, `MCDialog` | model values, symmetry and bounds for TLC |

How the parts meet: `Dialog` starts and deletes what `Downloader` runs; a sender
of `Downloader` reaches its provider as in `HolePunch`, and its requests are
answered as in `BlockServer`; both ask the server for the list of `Presence`, of
which `Directory` is what they rely on; the provider finds the file as in
`ResourceIndex`. The state is cut where one thread hands a value to another
(a task, a datagram, a message), so that each module takes its neighbour's
result as a choice: `Downloader` any outcome of a send, `HolePunch` and
`BlockServer` any address the list may have, `Dialog` any message a download may
post. Two of these cuts are checked from the other side: `Presence` implements
`Directory`, and `BlocksComeOfRequests` is what `Downloader` takes for granted of
the network.

## 1. Inventory

### Downloader (`CDownloader`), request senders (`CReqSender`), file receiver (`CFileClient`)

*State.* The downloader: the map of outstanding blocks with the time each was
requested (0: not requested), the next block to cut, the batch in hand, the
providers ever added, the list of senders and its lock. A sender: its task, the
request message it reuses, its retry counter, whether it goes through the
server. The receiver: the cache of blocks, the number of blocks received.

*Operations.* One round of the downloader (every 100 ms): ask Redis for new
owners and start a sender for each, top the map up, walk the senders and hand a
batch to each that has none, reset stamps when a walk found nothing to hand out.
A sender moves its task into the message, sends it, retries, asks the user
whether to go through the server, and at last removes itself. The reader thread
(`ServerEX::run`) hands an arriving block to `Recieve`, the receiver writes and
counts it, and posts *finished* at its total. The last sender to leave posts
*abort*. The dialog deletes the downloader on either message.

*Hard.* Five kinds of threads on one object; self-deleting senders and receiver;
duplicated and late blocks; requests lost or given up half-way; a message object
that is reused without being cleared; 32-bit arithmetic; a phantom block past
the end of the file.

*Correct if* no block is counted twice or lost track of; *finished* implies
complete; the list of senders agrees with the senders and does not move under
the walk; the map and the batches stay within their limits; a download with a
working sender finishes, and one without any ends.

### Online list server (`CMsgHandler`, `master_service`), list of peers (`PeerList`), login (`ServerEX`, `CAutoLogin`)

*State.* The server: the list of peers, each operation of which locks, and one
UDP socket with the one peer address it last read from or was set to write to.
A client: what it knows of itself (`m_peerInfo`, which every acknowledgement
replaces), when it last heard from the server, the login thread's retries.

*Operations.* Login (old entry deleted, new one appended, acknowledgement),
answer to a query, the sweep every 15 s (stale entries deleted, the others
queried); on the client login, retry, error message, acknowledgement, answer.

*Hard.* Sweep and reader interleave on a list walked by index and by pointers
kept outside its lock; both use the one socket's peer address; unsigned time
differences wrap; there is no logout; the list does not survive a restart;
routers assign new addresses; acknowledgements cross retries.

*Correct if* a MAC address is listed once; the sweep misses no stale entry and
deletes only silent clients; a client stays who it is; entries of the dead go,
and a client that is removed or forgotten comes back.

### Resource manager and scans (`CResourceMgr`, `CFileScan`), Redis client

*State.* The list file; two maps from MD5 value to line, the one requests are
answered from and the one being built; each scan's cache of up to 100 lines; in
Redis the owners of each file and the names it is searched by. On the serving
side, the files flagged as missing and the block servers that are open.

*Operations.* Load the list, scan all drives in parallel, append what is new,
load again, register each file the first map does not have (name, then owner),
swap the maps. Meanwhile requests look files up (`operator[]`, which inserts).

*Hard.* The scans and look-ups share the first map without a lock; three stores
are written at different times, with ends of the program between; a file may be
removed or moved at any time; a full cache.

*Correct if* whatever Redis says the client owns it can find, across restarts,
and whatever it finds is registered at last.

### Hole punching (`ServerEX`, `CFlagMgr`, `PeerList`), the server's relay of connections

*State.* The client's list of peers, each with its last address and, once
punched, the address the peer's acknowledgement came from (`P2PAddr`); the map of
flags; the one UDP socket with the one peer address; each sender thread's
counters.

*Operations.* A sender thread looks its provider up in the list, asks the server
for it, waits for a flag, writes to the provider, asks the server to forward,
waits for another flag, and sends the batch to the punched address. The reader
adds the server's answer to the list, replaces the entry of a peer that
acknowledges, and sets the flags. The server answers from its list or forwards.

*Hard.* Several threads wait for answers the one reader handles; flags are named
by MAC or by address and shared; entries are added unconditionally and replaced
in two steps; pointers are used unchecked; a send and a read disagree on where
the socket points.

*Correct if* a flag that is set means what its waiter takes it to mean; no
pointer to no peer is followed; requests go to an address that is the peer's; and
nobody gives up on a provider that is there.

### Serving blocks (`ProcMsgGetBlocks`, `CFileServer`), the server's relay of blocks

*State.* The request in hand and the blocks of it still to be answered; where the
provider's socket points; in a relayed transfer, the requester's address in the
message.

*Operations.* Read a request, read and send each of its blocks; on the server,
forward a request to the provider's present address and a block to the address
it carries.

*Hard.* Another thread's write moves the socket's peer in the middle of the
answers; requester and provider get new addresses, the server forgets its list.

*Correct if* answers go to whoever asked; only what was asked for arrives; and a
transfer either completes or depends on an address that has changed.

### Search and dialog (`CSearchResultMgr`, `CP2PSharerDlg`)

*State.* The flag and the word of the one search object; rows, and the map from
files to rows; the map of downloads; messages posted to the window.

*Operations.* A click on Search, the search thread with its result-by-result
hand-over, a double click, and the messages *progress*, *finished*, *abort*.

*Hard.* The flag is set by the thread, not the click; the map of rows is never
emptied; a message is about a file, not about a download, and carries a pointer
into an object that may be gone; a double click replaces a running download.

*Correct if* the user can always search again; the list shows the last search;
progress is in the row of its file; the map leads to living downloads; and a
message ends the download it comes from.

### Not modelled

| part | why it is out |
|---|---|
| Application shell (`P2PSharer.cpp`, `stdafx`, `targetver`, resources) | start-up of an MFC program: no state |
| `mythread.cpp`, `CMsgHandler::CacheMsgData` and `run` | never called, or a queue that is never filled |
| `ProcLogoutMsg`, `DeleteAllPeer`, `GetAPeerBasedOnIP`, `SendMsg_P2PData`, `GetMACFromIP` | called by nothing that runs |
| Layout of the messages (`CommonDefine.h`, `StructDef.h`), list control, painting, logging | the models' messages are records of the fields the handlers read |
| Redis reconnection (`RedisClient.cpp:69`) | deletes a connection the command object still uses: the behaviour of freed memory. The models let the command fail |
| What lies behind the fifth address of a `Peer_Info` (`MsgHandler.cpp:144`) | overwritten memory |
| MD5 computation, drive enumeration, path conversion | pure functions of the operating system's answers |

Throughout, what a thread does with an object another thread has freed is not
modelled. Where the code may do so the model says how far it goes: `Downloader`
stops when the dialog has deleted the download, and `Presence` lets the sweep go
on with an entry marked `freed`, whose address and MAC may be readable or not.

## 2. The models

### Downloader

One step of the downloader thread is one action of `Round`; `pc` names the place:
*update* (`AddProvider`, `UpdateDone`), *split*
(`SplitFileSizeIntoBlockMap`), *get / take / push* (`GetBlocks` looks at the map
unlocked, `TakeBatch` is its locked half, `PushTask` hands the batch over),
*timeout*, *sleep*. `idle` and `issued` are the map of blocks by stamp, and
`fresh` those stamped in the current tick at the latest: the timeout's
subtraction is the wrong way round (`Downloader.cpp:264`), so that every stamp of
an earlier tick counts as old and the round's 100 ms are the only time that
matters. Splitting looks at the map's size unlocked, then holds its lock around the
whole loop (`Downloader.cpp:191`), so that filling up to the window, or to the end of
the file, is one step.

Sender `p` is in state `sPc[p]`; `MakeRequestHeader` lets the slots a short batch
does not fill keep what the message held, `Garbage` being what a new message
holds. A retry goes back to waiting for a *new* task, as in the code: the batch
that failed is lost until its stamps are reset. A send succeeds (`SendOk`) when the
client's own socket took the datagram. Whether anybody answers is another matter: a
provider in `MayIgnore` may have gone offline or moved, or have flagged the file as
missing, and leave the request unanswered. A vanished sender is one whose
thread ended in `SendMsg_P2PConnect` (`ServerEX.cpp:242`).

`data` is the set of blocks some provider has been asked for and has: it stands
for requests and answers under way alike, is lossy (`Lose`) and may deliver
twice (`Recieve` need not remove). The provider answers for every block it can
read at least one byte of (`HasData`).

Arithmetic: products of DWORDs are taken modulo `DWordMod`; the file size, a
`long long`, is not, but the receiver gets it as a DWORD (`TotalBlocks`).

Init is a download just started, as `CDownloader::Init` leaves it; a sender is
started and listed in one step, because one without a task only polls.

### Presence

`SweepStart`, `Look`, `SweepDelete`, `SweepSetPeer`, `SweepWrite` are the sweep;
`mN` is the size of the list it started with, which stays the bound of its loop
while the list shrinks and grows. `ReadLogin`, `LoginDelete`, `LoginAdd`,
`ReadActive` are the reader: the peer address is read *after* on_read has
returned (`LoginDelete`), when the sweep may have changed it. `AddAPeer` and the
sending of the acknowledgement are one step: the reader touches nothing shared
between them except the socket, whose lock the sweep holds only from
`SweepSetPeer` to `SweepWrite`, and the sweep's other steps commute with either.

Time is counted in sweeps. An age is 0 (since the last sweep took the time), 1
(in the 15 s before) or `Old`; the sweep's limit of 15.6 s makes `Old` stale and 1
not, unless a sweep took more than 600 ms (`SlowSweep`). Age 0 may be stale: the
entry became active after the sweep took the time, and the unsigned difference
wraps (`MsgHandler.cpp:239`).

An address is a client and a number: 0 its local one, `nat[c]` the one its router
gives it now. A client on the server's own network is seen under number 0. An
entry keeps only the last address; the five a `Peer_Info` has room for, and the
overwriting of what lies behind them, are left out. A client's own socket has
the same race as the server's; an answer sent astray by it is a lost one here.

Init is a server that just started and clients that have not logged in.

`Directory` is read off the list: a client's entry is the address it is listed
under. A login of a listed client is a `Remove`, then a `Register`; the sweep's
deletion is a `Remove`; a restart is a `Clear`. That `Register` finds no entry is
the point: a duplicate would be a step the directory does not have.

### HolePunch

A sender's thread is a record: where it is (`pc`), which of the two rounds of
`SendMsg_P2PData_BaseMAC` and which turn of a waiting loop it is in, the address
of the peer it points to, and how many calls have failed. Each look-up of the
list is a step of its own (`Check`, `Connect`, `Lookup`, `Fetch`), since the
reader may change the list between any two. `Send` is the locked part of
`SendData`; as the reader takes no lock, `SendAstray` lets its read come between
the setting of the address and the write. The reader's handlers are split where
another thread can see the difference: between taking the datagram and asking the
socket for its source, between `DeleteAPeer` and `AddPeer`, and before the flag is
set. `CFlagMgr` keeps 0 and 1; absent and 0 are told apart nowhere, so `flags` is
the set of names at 1.

A provider in `Caller` downloads from this client at the same time (`CallClient`). Its
request to connect comes directly or by way of the server; the handler
(`ServerEX.cpp:364`) asks the socket which (`TakeCall`), acknowledges a forwarded one to
the address it carries, and for a direct one fills in the punched address of the
caller's entry, if that has none, from what the socket points to *then*
(`AnswerCall`). As with acknowledgements, a thread's write may come before either
question. Where the code writes to each of a peer's up to five addresses in turn
(`ServerEX.cpp:262`, `:376`), the model has the last, as `Presence` has.

`opened` and `wrote` are the routers: the client's lets in a provider the client
has written to, whatever the port; the provider's lets in a client the provider
has written to from that port. `Move` gives a provider a new outside address,
`Unlist` removes it from the server's list; `LogIn` repairs both. A null pointer
followed ends the program (`Crashed`).

Faults are counted by what they spoil: `trouble` (a loss, a late answer, a failed
or misdirected send), `muddles` (a write between the reader's read and its
question for the source), `shifts` (moves and removals), so that a property can
say which of them it needs.

### BlockServer

`Ask` may name any batch, stale slots included; what a batch may hold is
`Downloader`'s business. `ProviderReads` takes a request and leaves the socket
pointing to where it came from; each `Serve` reads one block and sends it there
(the order of the blocks is left open, which covers the code's), or sends nothing
where the file has no data; `OtherWrite` is any other thread's write. A requester
with a new address has no router of the provider's to pass: what a direct answer
needs then is in `HolePunch`. In a
relayed transfer the message carries the requester's address as it was when
relaying began (`StartRelay`), the server forwards a request to the provider's
present address (`ForwardRequest`) and a block to the address it carries
(`ForwardData`). Whether the file can be opened is `ResourceIndex`'s.

### Dialog

The UI thread handles one click or message at a time, so each is one action. A
search is `OnBnClickedButtonSearch` and then its thread: `ReadKeyword`,
`SetSearching`, `FindResource` (or its failure after all retries),
`UpdateSearchResult` for each result, `EndSearch`. A download is reduced to what
the window sees: whether the object is there (`held`), whether its receiver runs
(`rcv`), and the messages either may post. A message of an object that is gone
may be taken to be about no known file: the handlers then choose. A search finds
*resources*, the fields of the Redis table: a name and an MD5 value
(`RedisClient.cpp:120`), so that a file registered under two names is two rows, and
the map from files to rows leads to the one that was added last. `overlaps` and
`early` count the two misuses (a search started while another is under way, a
download while one of the same file is not over) that some properties exclude.

### ResourceIndex

`phase` is where the manager's thread is; scans (`Visit`, `ScanEnds`) run one per
drive and meet files in any order. A file stands for its content, so that two
drives may have the same. The key of the map is the MD5 value but `NewLines`
looks the whole line up, as the code does: nothing is ever found. A full cache
is written and the line that found it full is dropped. `GetBlocks` is the part
of `ProcMsgGetBlocks` that finds the file, inserting an entry without a path
when there is none, and flags it as missing for good. `AddFile` and `RemoveFile`
are the user; a file that is open is not removed. `Stop` ends the program:
everything but the disk, the list file and Redis is lost. Lines are appended to
the list by one scan at a time in one step (the lock around it is each scan's
own, but each append is one open and close of the file). Left out: modal error
boxes, a failing `GetDiskDrives`, files whose MD5 value cannot be computed, and
the data race on the tree of the map itself.

## 3. The runs

Every run takes at most two minutes with two workers. Those marked **violated** show
a finding each (section 5). Model values `p1`, `p2`, `c1`, `c2`, ... are declared in
the MC modules; a cfg that does not use one in its sets still assigns it.

| run | bounds | properties | shows |
|---|---|---|---|
| `dl_safety` | one provider that may fail, vanish and ignore, 3 blocks and the phantom one, window 2, batches of 2, 1 retry, garbage naming blocks 0 and 2 | `TypeOK`, `IndInv`, `CountExact`, `FinishedComplete`, `NothingAfterClose`, `WithinBounds`, `ImplementsFileTransfer` | the accounting of blocks under loss, duplication, retries and reused messages |
| `dl_two_senders` | two providers that may fail and vanish (symmetric), 1 block and the phantom, window 4 | `BlockInOnePlace`, `ListMatchesSenders`, `TaskGoesToLiving` | two senders on the shared map and list, leaving in any order; no task is handed to one that is gone |
| `dl_live` | two providers, `p1` may vanish and may ignore requests, requests to `p2` may fail; one block | `EndsWhileAnswered`, `OneSteadySenderSuffices` | downloads end as long as the first living sender is answered, and a sender that stays picks up what a vanished one took with it |
| `dl_vanished_sender` | one provider whose look-up may fail | `EndsSomeTime`: **violated** | finding: the thread that ends in `SendMsg_P2PConnect` leaves the download hanging |
| `dl_large_file` | 10 bytes where a DWORD counts modulo 8 | `FinishedComplete`: **violated** | finding: files of 4 GiB and more are finished too early |
| `pr_safety` | two clients (symmetric), one datagram under way, slow sweeps, no other fault | `TypeOK`, `UniqueMac`, `PresenceInv`, `SweepMissesNone`, `ImplementsDirectory` | sweep and reader on one list, which is a directory to those who ask |
| `pr_live` | one client, two attempts, two outside addresses, one fault of any kind, two datagrams | `GhostsGo`, `KeepsComingBack` | the dead leave, the living come back |
| `pr_identity` | two clients, two datagrams, no fault but loss | `OwnIdentity`: **violated** | finding: a client takes over another's MAC address |
| `hp_safety` | two threads (symmetric) to one provider with two addresses, which calls this client, two turns, two rounds, two calls, one fault of any kind | `TypeOK`, `FlagsTellTheTruth`, `NullOnlyInGap`, `PunchedAddressIsPeers`, `GivesUpOnlyAfterFaults` | threads that share peers, flags and socket find the provider and punch through to it |
| `bs_relay` | a block and a number past the file, two addresses each, one request under way, two faults | `TypeOK`, `OnlyToWhoAsked`, `BlocksComeOfRequests`, `DirectArrives`, `RelayArrives` | answers go to whoever asked, and transfers arrive unless the end they depend on moves |
| `ri_index` | two drives, two files, cache of 1, two starts that may end at any moment, one change by the user | `TypeOK`, `OfferedIsKnown`, `OfferedInTime`, `FlaggedInGap` | list, maps and Redis agree across restarts, what is found is offered but for what a full cache drops and an interrupted start left, and present files are flagged as missing in two gaps only |
| `dialog` | two files, one of them under two names, two words, two searches, two downloads, two messages under way, Redis may fail | `TypeOK`, `FlagFollowsThreads`, `ShowsTheLastSearch`, `ProgressFindsItsRow`, `MapHoldsTheLiving`, `DeletesItsOwn` | what the window shows and deletes is what it should |

### Why the bounds are enough

*Downloads.* Three blocks through a window of two make the map refill at least
once, a full batch of two and a short one of one, which leaves a slot of the
reused message to what was there before. A size that is a multiple of the block
size brings the phantom block. One retry reaches both branches of the failure.
What is shared between senders is the list, the map and the batch in hand: two
of them already compete for each. For safety the theorems remove all these
bounds; liveness depends on them, and in `dl_live`, where two providers and the
fairness conditions are costly, one block has to do: it is lost with a failed send,
with a vanished thread, on the way, and to the provider that ignores it. Which of the
two senders is first is open.

*Presence.* Two clients are what it takes for one to be mistaken for another and
for an entry to move up under the sweep's index. In `pr_safety` there is no fault
but loss, since the theorem `EveryMacIsUnique` covers all; `pr_live` fires every
fault, one per behaviour. Datagrams beyond `MaxNet` are lost at once, which is a
behaviour of the network anyway. `pr_live` assumes sweeps faster than 600 ms.

*Hole punching.* Two threads on one provider are what flags, peers and the socket
are shared by; with two turns of a loop the first may be spoilt and the second
succeed; the numbers of turns, rounds and calls are the program's own
(`MAX_TRY_NUMBER`, the 2 of the loop, `MAX_SEND_DATA_RETRY` = 1). The second call is
needed, as the first may fail without a fault, and with three threads on one
provider `GivesUpOnlyAfterFaults` fails (finding 8). One fault shows what each kind
does alone. Three devices keep the run small. `VIEW Followed` leaves the socket's peer
out where it is not read before it is written again. `OneCallAfterFault` follows each
thread through one call only once something went wrong: a second call starts from a
state like the first's, and `GivesUpOnlyAfterFaults` says nothing any more.
`CallsEarly` has one call of the provider under way at a time, while the threads are
in their first round, where an address is filled in between any two of their steps,
and before it moves or is removed.
What the properties lose by these the theorems of section 4 cover: they are for any
providers, calls, rounds and faults. With one provider no request goes astray to
another, so that the reader's NULL (finding 9) is met by the theorem only.

*Serving.* One block that is there and one number past the end meet both branches
of `Serve`; a batch may hold either or both. Two faults let an end move while
something is lost, both ends move, or the server forget a client that has moved.

*Dialog.* One word finds the two names of a file, the other one of them and another
file, so that a second search lists rows the map remembers elsewhere, and a file has
two rows. Two downloads are what it takes for one to be replaced; a queue of two lets
messages of both be under way.

*ResourceIndex.* Two drives with the same file, two files on a drive and a second
start are where list, maps and Redis can disagree. With `CacheMax` = 1 the second
file of a drive finds the cache full and is dropped, a third would not (100 in the
program): `OfferedInTime` counts what may be dropped of the files of a drive, one in
`CacheMax` + 1. The program may end at any moment, also between the writing of a
file's line and its registration; as every later start takes such a file for an old
one, `OfferedInTime` speaks of those that have no line yet, or an owner. `RedisFails`
is FALSE: a registration that fails is not repeated either, by the same test, and no
state tells in advance which it will be.

`CHECK_DEADLOCK FALSE` stands in the runs of `ResourceIndex`, `HolePunch` and
`Dialog`. In the first the number of starts is bounded, and a program that was
ended may stay off; in the second threads end with their batch sent or given up,
and the program may crash; in the third clicks are bounded and messages run out.

### Fairness

*Downloader.* Weak fairness for every thread (they are never stopped while the
download lives), for the user who answers whether to relay, and for the dialog's
message loop. Strong fairness for: the timeout check, because it is made when
500 ms have passed at one of the rounds that reach it; the lock a failed sender
waits for, because the downloader releases it in every round; the success of a
send and the arrival of a block that is tried for ever, which is what
retrying over UDP rests on. A block is under way only once a provider has answered for
it, and nothing makes one in `MayIgnore` answer: the premises of the two properties
say of which senders it is assumed. Nothing is assumed of `AddProvider`, `SendFail`,
`Lose` or `LookupExit`.

*Presence.* Weak fairness for the sweep, the reader, each client's login thread
(once nothing was heard for 15 s for certain; the user confirms the error
message) and its reader. Strong fairness for the reading of a client's login:
repeated without end, it gets through. A datagram to an address nobody has does
not stay under way for ever.

*BlockServer.* Strong fairness for asking for a block that is missing and for
reading a request that names it: `Downloader` asks again after every timeout, and
what is sent again and again gets through some time. Weak fairness for the server,
the readers, the logins of both and the network, which delivers or drops. Losses
and moves are faults, bounded and never forced.

*ResourceIndex.* Weak fairness for the manager's thread and the scans of a
running program.

## 4. What is proved

`tlapm` checks every proof to the last leaf.

`DownloaderProofs` (constants as in `SizesAssumption` and `PeersAssumption`):

- `Accounting`: Spec => []IndInv. The counter alone is not inductive: that it
  counts *different* blocks needs that the cache has no repetitions and is
  disjoint from what was written, which needs that a block leaves the map when it
  enters the cache and is cut only once, which is `BlockInOnePlace`. The other
  parts say that only blocks with data travel (`OnlyRealBlocks`), that no block is
  cut past the end (`CutWithinFile`) and that the receiver leaves its loop exactly
  at its total (`ReceiverAtTotal`). There is one lemma per part and, in it, one
  step per action that can disturb it.
- `TypeCorrect`, `BlocksAreInOnePlace`, `CountIsExact`: its parts as theorems of the
  specification.
- `FinishedIsComplete`, `NothingIsLeftBehind`, under `SmallFile` (no write fails;
  the file and one block more can be addressed by a DWORD): what is written are
  blocks of the file, and there are exactly `TotalBlocks` of those, so a counter at
  its total means all of them, and an empty cache.
- `DownloaderImplementsFileTransfer`, under `SmallFile`: every behaviour of the
  download is one of `FileTransfer`, with `written` as what is stored, and the
  outcome read off the receiver and the downloader's deletion. Only the
  receiver's write and close and the dialog's deletion are visible; all other
  steps stutter.

`SmallFile` is necessary: `dl_large_file` breaks the conclusion without it.

- `NoTotalNeverFinishes`: a file of which a DWORD keeps 0 bytes, the empty one above
  all, is never reported finished. Its total is 0, and the counter, which only ever
  goes up, is compared to it only after it went up.
- `ListMatchesTheSenders`: the list of senders by the invariant `ListInv`, which adds
  to `ListMatchesSenders` that the index of the walk names an entry. A sender takes
  itself off the list and ends in one hold of the lock; that exactly its entry goes
  (`EntriesUnlist`) needs that nobody is listed twice, which is why providers are
  remembered after their senders are gone.
- `TasksGoToTheLiving`: `TaskGoesToLiving`. The entry `PushTask` takes unchecked is
  there, and its sender has not deleted itself, because whoever is listed is alive
  (`ListMatchesSenders`), and who leaves waits for the lock of the walk.
- `LimitsHold`: `WithinBounds`. A task is a batch that was in hand, a batch is taken
  from the map up to its limit, and the map is filled up to the window only.

`PresenceProofs` (`PresenceAssumption`):

- `PresenceInvariant`: Spec => []PresenceInv. `UniqueMac` needs to know, at the
  moment a login appends its entry, that no entry bears the MAC address: true
  since `LoginDelete` removed the one there was, and kept because only the reader
  appends and the sweep only removes. The type of the sweep's index needs that a
  sweep with an entry in hand is within its loop.
- `PresenceTypeCorrect`, `EveryMacIsUnique`: its parts.
- `PresenceImplementsDirectory`: every behaviour of the list is one of `Directory`.
  Four steps are visible: the two that delete by MAC address (`Remove`), the one
  that adds (`Register`, which needs that the client is under no address, the last
  conjunct of `PresenceInv`), and the restart (`Clear`). That deleting one entry
  leaves nobody under it is `UniqueMac`.
- `SweepIsCovering`, `SweepLeavesNoneStale`: the action property `SweepMissesNone` by
  the invariant `SweepCovers`: while no login disturbs the sweep, all entries behind
  its index are fresh, the entry in hand is still the one at the index, and the list
  is no longer than when the sweep began. A deletion moves the entries behind it
  down by one, under the index, which is not advanced then; this is what
  `WithoutNth` says.

`HolePunchProofs` (`HolePunchAssumption`, `HolePunchDistinct`: nobody, the server
and the providers' addresses are apart):

- `HolePunchInvariant`: Spec => []HolePunchInv. It rests on two facts about a
  provider that, once true, stay true: it is *known* (listed, or just being
  replaced), and it is *punched* (an entry of it has a punched address, or is just
  being replaced). `Stays` says that of a step, and everything else only has to say
  what shows which fact: a flag, a thread past its look-up, a request for a
  connection (both the provider it names and, unless `SendAstray` led it to another,
  the one it reaches), an acknowledgement. A third fact stays too: that a provider may
  have been *misled*, by a request gone astray to it as it called, and then it
  acknowledges although nobody looked it up. From any other an acknowledgement comes
  only if it is known, for who acknowledges was reached by a request, and who is
  reached is known: hence where the reader's unchecked pointer may be NULL. What a call
  fills in is an address of the caller's, by the same fact about the socket that serves
  acknowledgements (`WantsSource`), and touches one entry, of which it changes nothing
  else (`EntryFilled`).
- `HolePunchTypeCorrect`, `FlagsAreTrue`, `NoNullElsewhere`, `PunchedIsPeers`: the
  safety properties of the run but `GivesUpOnlyAfterFaults`.

`HolePunchAloneProofs` and `HolePunchPairProofs` are about `GivesUpOnlyAfterFaults`.
The property itself is false in general: threads that share a provider take each
other's flags and leave blank duplicates of its entry (finding 8). It is a theorem
where a provider is shared by two threads at most.

- `LoneThreadIsServed`: a thread that has its provider to itself (`Alone`) ends for
  want of an address only after as many faults as it has tries, and offers the way
  through the server only after some fault, unless a provider moves or is removed.
  Any number of other threads share its reader, list, flags and socket meanwhile, and
  any providers call, its own among them: a call only fills in what is blank.
  The invariant `AloneInv` has three parts. `StillPart`: while no provider has moved,
  every address of it that anybody has, in a datagram, an entry, a thread or a
  router, is its first one, so that flags named by address are told apart as those
  named by MAC address are. `TriesPaid`: each turn beyond the first was paid for by
  a fault, as the inquiry, once sent, is somewhere on its way (`IpComing`) until its
  flag is taken or something goes wrong. `Smooth`: without faults there is one
  inquiry (`OneInquiry`), hence one entry of the provider (`OneEntry`), hence the
  acknowledgement that sets the flag of the punch leaves a punched entry, which is
  the one the second round finds; and what the thread waits for is on its way
  (`OnItsWay`), so that it does not time out. The premise `MaxRounds > 1` is the 2 of
  the code's loop: with one round a call ends before it looks for what it punched.

`HolePunchPairProofs` (in addition `EnoughTries`: at least two turns of a loop, two
rounds and one more call, the program's own numbers; with one call less the
conclusion fails):

- `PairIsServed`: a thread that shares its provider with one other at most (`Few`)
  neither ends nor offers the way through the server without a fault, unless a
  provider moves or is removed, whatever threads of other providers do and however
  many there are. The invariant is `PairInv`, for one provider `PairPart`, on top of
  `StillPart`. It counts two things.
  *Flags.* A thread times out on its look-up only if the other took the flag both
  wait on, and then the other is through for good, because nothing empties the list
  (`Through`, `OtherThrough`); so it does not time out twice.
  *Blank entries.* Until the provider is punched, every blank entry of it, in the
  list or on the way there (`Load`), was asked for in a turn of some thread
  (`Asked`), and a thread that got through took one answer. With two threads this
  makes three (`Load(p) <= 3`). From then on a handled acknowledgement replaces the
  first blank one by a punched one at the end of the list, so that blanks before the
  first punched entry (`Blanks`) never grow. `Course` says that those, the rounds
  already spent in vain (`Spent`), the acknowledgement this round has seen (`Told`)
  and the one in hand (`Handling`) are three at most while there is a blank: the
  fourth round, which is the last of the second call, finds the punched entry. That
  an acknowledgement does come for every request is `ConnComing`, which needs that
  requests go where they were sent (`Straight`).
- `PairsGiveUpOnlyAfterFaults`: hence `GivesUpOnlyAfterFaults`, where no three threads
  share a provider.

How a provider is counted rests on lemmas about the list: adding and deleting change
the number of blanks by at most one (`BlanksAfterAdding`, `BlanksAfterDeleting`, the
latter by a bijection of what is left), and a look-up finds a blank entry exactly if
there is one before the first punched entry (`FoundBlank`). Steps of others are
`OthersPass`, those of a thread of the provider are `OwnStep`, with a lemma for each
place it may be in.

`BlockServerProofs` (`BlockServerAssumption`, `BlockServerDistinct`: the model
values for nobody, the server and a third client are apart from addresses):

- `ServingInvariant`: Spec => []ServingInv. `OnlyToWhoAsked` speaks of answers
  under way and is not inductive: that the next answer goes to whoever asked needs
  `Handled`, that the request in hand was addressed to the provider, hence came
  from the requester or is relayed, and that the socket still points to its
  source unless another thread wrote.
- `BlockServerTypeCorrect`, `AnswersGoToWhoAsked`: its parts.
- `DataComesOfRequests`: the action property `BlocksComeOfRequests`, by one lemma
  (`WayStep`) that goes through the actions and says of each that it puts no block
  under way that was not, except `Ask`, and those of its batch.

`DialogProofs` (`DialogAssumption`):

- `DialogInvariant`: Spec => []DialogInv, in three parts that hardly depend on each
  other. `SearchPart`: the flag is up only while a thread is under way, and, with
  no overlap, is up from the question to the last result; for this at most one
  thread is under way. `RowPart`: every listed file is mapped to a row with it;
  the map keeps older entries, and a row added overrides them. `DownloadPart`: the
  map leads to living downloads of the file it is asked for, and, with no early
  restart, everything that lingers of a file is of one download, which is what
  makes a message end its own.
- `DialogTypeCorrect`, `FlagIsRight`, `ProgressIsInItsRow`,
  `OnlyTheLivingAreMapped`, `MessagesDeleteTheirOwn`: what follows from it.
- `ListIsOfTheLastSearch`: `ShowsTheLastSearch` by the further invariant `ListPart`:
  threads are used in their order, and while none overlapped, the one under way is
  the last, it searches for the word the object holds, and the rows are what that
  word has found less what is not yet shown. That there are as many resources as rows,
  each name of each file once, is `ListedOnce`, by a bijection.

`ResourceIndexProofs` (`ResourceAssumption`):

- `IndexTypeCorrect`. What a scan writes is a recursive function of its cache
  (`NewLines`). An induction theorem cannot be applied to it here, but what it writes
  can be shown to be lines of the cache by a smallest counterexample: the set of
  lengths for which the loop does not exist, or strays, has no least element
  (`LoopExists`, `NewLinesAreLines`).
- `WhatIsOfferedIsKnown`: `OfferedIsKnown` by `KnownInv`. Every file that is in Redis,
  or is about to be, has a line in the list *file*; that only grows; and a map loaded
  from it has all its files. That is what carries the property across ends of the
  program between the three stores, for any number of starts and failures.
- `FlagsOnlyInGaps`: the action property `FlaggedInGap` by `TruthInv`: while the user
  changes nothing, every line, cached or listed, and every path in a map leads to a
  file that is there, so that a request that finds none came before the list was
  loaded or in the registering phase.

Only model-checked, on the instances above: all liveness (`EndsWhileAnswered`,
`OneSteadySenderSuffices`, `GhostsGo`, `KeepsComingBack`, `OfferedInTime`,
`DirectArrives`, `RelayArrives`), as liveness under fairness and ENABLED are beyond the
prover. Every invariant and action property of a passing run is stated by a theorem,
under the premises named above (`SmallFile`, `EnoughTries` and `Few`). Induction over data goes
through well-founded minimal elements where it is needed; no module declares a
RECURSIVE operator.

## 5. Findings

Shown by a run of its own:

1. A file of 4 GiB or more is reported finished after its size modulo 2^32
   (`Downloader.cpp:55`; `dl_large_file`).
2. A provider whose address the server does not know ends the sender's thread
   without unlisting it; the download hangs (`ServerEX.cpp:242`;
   `dl_vanished_sender`).
3. A client can be given another client's identity (`MsgHandler.cpp:129`;
   `pr_identity`).

Built into a model, where a property states how far it goes or a constant
switches it on:

4. A request counts as sent when the client's own socket took it
   (`ReqSender.cpp:106`, `:146`). The code documents P2PWithTransmit as returning 1 when
   the server fails to forward (`ReqSender.cpp:128`), but it never learns of that: the
   server drops a request for a client it does not list, or forwards it to one that is
   gone. Such a sender (`MayIgnore`) is never removed, and a download with it alone
   neither finishes nor aborts. Worse, the batch of the smallest blocks is offered to
   the first listed sender anew each time it comes back (`Downloader.cpp:144`): a first
   sender whose provider never answers takes the last blocks (up to the 290 of a
   request) again and again, no other gets them, and the download hangs although other
   providers work. Hence the premises of `EndsWhileAnswered` (`FirstIsAnswered`) and
   `OneSteadySenderSuffices` (`AnsweredUpTo`).
5. A file is registered before it can be found, and requests are answered before
   the list is loaded; a request in between flags the file as missing until the
   program is started again (`ResourceMgr.cpp:200`). `FlaggedInGap` names the two
   phases and fails without either.
6. The file found when a scan's cache is full is dropped (`FileScan.cpp:103`), where a
   comment has it "written to the file"; and a file whose line is written when the
   program ends, or Redis fails, but which is not registered, is never registered
   later (`ResourceMgr.cpp:168`). `OfferedInTime` excepts both and nothing else. That a
   file may have a line already is never noticed when lines are written, as the whole
   line is looked up among keys that are MD5 values (`FileScan.cpp:119`): every start
   appends all lines again.
7. A client that logs in from the address it names keeps its old active time
   (`MsgHandler.cpp:133`, `:136`), so that the next sweep may remove it; this is in
   `LoginAdd`, and `KeepsComingBack` holds all the same, as the client returns.
8. Two threads that look up one provider add two entries; the blank duplicate may
   be found instead of the punched one, and a call fails without any fault
   (`ServerEX.cpp:504`): with `MaxSendRetry` = 0 `GivesUpOnlyAfterFaults` fails. They
   also take each other's flag (`FlagMgr.cpp:90`): with three threads on one provider
   and the program's own numbers, two of them may take the answers the third waits
   for in both its turns, and it ends (`ServerEX.cpp:242`) although nothing went wrong.
   That `GivesUpOnlyAfterFaults` holds of two is a theorem.
9. While the reader replaces an entry, a thread that has just been told of the peer
   finds none and follows NULL (`ServerEX.cpp:352`). The reader itself follows NULL
   (`:349`) when a request that went astray is acknowledged by a provider that just
   called, hence lets the client in, but is not listed. `NullOnlyInGap` says that
   these are the only places.
10. A write between the reader's read and its question makes it keep somebody
    else's address as the peer's, from an acknowledgement (`ServerEX.cpp:346`) or from
    a call (`:391`), which is why `PunchedAddressIsPeers` has the premise `muddles = 0`;
    likewise the rest of a request's answers go where another thread wrote to (`:570`,
    `:644`), hence `diverted = 0` in `OnlyToWhoAsked`.
11. A direct transfer never punches anew once it has an address, and a relayed one
    keeps the requester's address it began with (`ReqSender.cpp:134`): the
    exceptions in `DirectArrives` and `RelayArrives`.
12. Two clicks in a row start two searches on one object (`P2PSharerDlg.cpp:223`),
    and a second double click replaces the entry of a running download, whose
    *finished* message then deletes its successor (`:395`): the premises
    `overlaps = 0` and `early = 0`.
13. Progress of a file that is not listed is shown in whatever row has its old
    index, or in the first (`:309`). That of a file listed under several names is shown
    in the row that came last, whichever was clicked (`:301`).
14. An empty file, or one of a multiple of 4 GiB, is never reported finished
    (`FileClient.cpp:97`): the theorem `NoTotalNeverFinishes`.

Seen while reading, outside the models: an abort always writes its 0 into the
first row (`P2PSharerDlg.cpp:339`); a retry of `FindResource` starts from the cursor
a failed call left (`RedisClient.cpp:103`).

## 6. What is left

1. A composition of `HolePunch` with `Downloader`'s senders in place of the choice
   of outcomes. It was left out because each alone is near what TLC can do in the
   time a run has.
2. What the threads of a deleted download do: it depends on freed memory.
