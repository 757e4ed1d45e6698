# VPNOverSteam in TLA+

VPNOverSteam tunnels IP packets between machines over Steam's peer-to-peer
messages. One process is the server, the others are clients; each has a TUN
device. The server admits a client that sends the right password, gives it an
address of a pool and tells the members about each other.

This directory holds a model of that program, checked with TLC, and theorems
about the model, proved with TLAPS. Paths below are relative to the repository.

- [Inventory](#inventory): the parts of the system and what makes each correct
- [Modules](#modules): which module models what
- [Correspondence](#correspondence-with-the-code): state and actions against the code
- [Runs](#runs): what each run checks, bounds, fairness
- [Disagreements](#where-the-code-disagrees-with-what-it-says)
- [Proofs](#proofs)
- [What is not modelled](#what-is-not-modelled)
- [Plan](#plan)

## Inventory

| part | state | operations | talks to |
|---|---|---|---|
| `IpPool` (`src/lib/IpPool.cpp`) | `free_` queue, `used_` set | constructor, `Allocate`, `Release` | called by `Server` |
| `Server` (`src/lib/Server.cpp`) | `usersList`, `ipPool`, `running`, `pingThread` | password, ping and pong handlers, TUN and Steam data handlers, `PingLoop`, `Start`, `Stop` | `SteamMessageProcessor`, `TUN`, `IpPool` |
| `Client` (`src/lib/Client.cpp`) | `usersList`, `mtx_ready` with its mutex and condition variable | `Start`, `JoinMember`, `LeftMember`, handshake handler, TUN and Steam data handlers, `Stop` | the same, and a callback into `client_start` |
| `SteamMessageProcessor` | `running`, two receiver threads, one per channel | `Start`, `Stop`, `Send...`, `ReceiveDataLoop` | Steam, the handlers of `Server` or `Client` |
| `SteamLoop` | `running`, `callback`, the callback thread | `Start`, `Stop`, `OnSteamConnected` | Steam, `client_start`, `server_start` |
| `AutomaticMain` (`src/app/`) | `mtxReady` with a mutex and a condition variable | `parse_args`, `client_start`, `server_start` | all of the above, `Config` |
| `TUNLinux`, `TUNWindows` | the descriptor, or adapter and session; `running`, receiver thread | constructor, `Start`, `Stop`, `SendData`, `Receiver` | the operating system |
| `Config` (`include/lib/Config.h`) | static settings; `config.txt` | `Init`, `Load`, `Save` | the file, which all processes of a directory share |
| `Utils` (`src/lib/Utils.cpp`) | none | `ToString`, `FromString`, `SHA512`, `PrintBytes` | called by `Server`, `Client`, `IpPool` |
| `Messages`, `DebugLog` | none; log buffers | layout of messages, logging | |

How they interact. Each process runs the main thread, the Steam callback
thread, a receiver for packets and one for system messages, the receiver of the
TUN device and, in the server, `PingLoop`. They share `usersList`, `mtx_ready`,
`mtxReady` and the `running` flags. No mutex is ever taken by two threads: the
only locks are the two `unique_lock`s that `wait_for` is given. Processes share
Steam and, on one machine, `config.txt`.

What is hard, and what makes each part correct:

| part | hard because | must hold |
|---|---|---|
| `IpPool` | long call sequences, wrong `Release` calls, two byte orders, a loop over unsigned numbers | no address is lost, doubled or both free and out; refusal only when all are out; a returned address is used again |
| `Server` | three threads on an unlocked `vector`, positions kept across calls to Steam, erase and reallocation under them | positions stay inside written memory; one address, one user; a join completes once; what is announced is true; silent users leave |
| `Client` | joins and departures in any order, a wait across which a position is kept, a notification without the mutex | the list is a directory; nothing leaves before the handshake; no wake-up is lost for good |
| server and clients | two channels without a common order, delayed messages, removed members that are not told, clients that end untold | all agree on whose an address is; a member's device has its address; a packet is lost only before the handshake; a password is answered |
| `AutomaticMain` | callbacks from other threads into the frame, a flag used twice, exceptions between the steps of starting, a fixed order of stops | a wait ends, and only on a signal of its phase; no thread outlives the frame or uses Steam's callbacks after the shutdown; the exit completes |
| `TUN` | set-up fails and nobody looks, which leaves undefined behaviour; stopped twice | a device is closed only when nobody is left who uses it |
| `Config` | several processes load and save one file, which is emptied and then written; processes end in between; a line that throws | what a user wrote and the GUID chosen first survive |
| `Utils` | two spellings of one address, a comparison of texts | what is printed is read back, nothing else is taken for it |

`PROJECT.json` lists the hazards one by one, at the lines where they bite.

## Modules

| module | models | composed of |
|---|---|---|
| `AddressPool` | abstract: addresses handed out to one holder at a time | |
| `IpPool` | `lib/IpPool` | implements `AddressPool` |
| `Membership` | abstract: leases, joining and listed members of a server | |
| `Server` | `lib/Server` | has an `IpPool`; implements `Membership` |
| `Directory` | abstract: what a client knows, one entry per user | |
| `Client` | `lib/Client` | implements `Directory` |
| `Network` | one server, its clients, Steam's channels | has a `Server` and the `Client`s; implements `Server` and `Client` |
| `SteamLoop`, `SteamMessageProcessor`, `TUN` | the classes of the same names as threads that are started, run and joined | |
| `AutomaticMain` | a process from its arguments to its end | has one of each of these three |
| `Config` | the settings of several processes over one file | |
| `Utils` | addresses as texts and as numbers | |
| `Startup` | what a process makes of its settings: `IpPool`'s constructor, the addresses in `Server::Start` and `Client::Start` | extends `Config` and `Utils`, implements `Config`; its pool is the initial `IpPool` |
| `MCIpPool`, `MCServer`, `MCClient`, `MCNetwork`, `MCStartup` | small instances for TLC | |
| `MCHearing` | `MCClient` with what its client was last told of each user | |
| `QueueLemmas`, `IpPoolProofs`, `ServerProofs`, `ClientProofs`, `NetworkProofs`, `UtilsProofs`, `StartupProofs`, `MainProofs` | theorems and their proofs | |

`Network` is about messages, `AutomaticMain` about threads and `Startup` about
settings; they are not composed: they share no property, and their product would
only multiply states.

Operators introduced by "Slip:" are plausible mistakes in the definition below
them. No specification uses them; each shows that a property would notice.

## Correspondence with the code

`PROJECT.json` maps each definition to its lines. What a reader should know
beside it:

**What one step is.** A pass over a list in memory (`find_if`, `remove_if` with
`erase`, `push_back`) is one step, so torn reads inside such a pass are not
modelled. Every call that leaves the class (a message sent, a device started, a
wait) ends a step, and a position kept across it is a variable of the thread.
Two passes are two steps also when nothing is called in between, as the erase of
`PingLoop` (`PingRound`) and the beginning of its range-for (`PingStart`). One
exception is `ReceivePassword`, which sends the handshake and reads `usersList`
for the announcement in one step, since nobody can tell: an erase in between
might as well have come before the handshake, and its receipt after the reading.
A method that throws or returns early without effect has an action of its own
where the caller can tell, and none where it cannot (ill-formed messages,
unexpected types, wrong passwords, logging).

**`usersList`.** A `vector` is a sequence of memory blocks of which the last is
current, and a size. `push_back` writes behind the last element or, when the
block is full, moves to a new block or not, which leaves the growth policy open.
`erase` moves elements forward and leaves the old slots as they were. A thread
holds a block number and a place in it. Reading a place of the current block
gives its content, stale or not; reading a freed block gives its old content or
`NoUser`, an identity that is nobody's.

**Time.** `lastPingTime` is its age in minutes, saturated just above the limit.
The value-initialised `time_point` (the epoch) is an age of its own, above all
others, so that a property can tell "never pinged" from "pinged long ago".
`sleep_for` lasts at least as long as told. `wait_for` may time out at any
moment once blocked: durations are not compared.

**Condition variables.** A thread evaluates the predicate, then blocks, in two
steps. Neither callback takes the mutex, so a notification can come in between
and is lost. A blocked thread leaves by a notification or by the timeout.

**Messages.** Both channels are reliable (`SteamMessageProcessor.cpp:67`): the
system messages to a client are a queue, packets a set of pending senders, and
nothing orders one against the other. Results of sends are ignored as in the
code. The batch of up to ten messages that `ReceiveDataLoop` takes at once is
one message in `SteamMessageProcessor`.

**A client never pings.** Its system receiver knows types 1 to 5 only. In
`Network` pings are therefore no messages, the server's members show no sign of
life, and every ping round removes all of them. Whom the round then pings and
tells of the departures was enlisted by a `push_back` between the erase and the
range-for. Such a user hears of departures of users it was never told of, and
drops them: `DeparturesNameStrangers` says so. `Server` on its own does have
pings and pongs.

**The handshake.** A message is off the queue when its handler is called. The
handler calls back, starts the device (with two calls of `system()` on Linux),
sets `mtx_ready` and notifies: each is a step, and `handshake[u]` in `Network`
says where it is. Packets arrive, and the process may end, in between.

**A client's end.** `Ends` of `Client`, `ClientEnds` in `Network`, may come at any
moment of a started client: on a key, after ten seconds without a handshake, or
by force. A thread that has a step left then takes it no more (`Alive`). The
server is not told and learns nothing from failed sends. Who starts the program
again logs on anonymously and has another Steam identity: another user of the
model. `Server` on its own also has a user that asks again under the same one.

**Threads.** In `SteamLoop`, `SteamMessageProcessor` and `TUN` a thread's value
is the place where it is; `"none"` is a `std::thread` without a thread and
`"ended"` one that has yet to be joined. On the way out `main.next` in
`AutomaticMain` is an index into `Quitting`, the calls in the order C++ makes
them, the bodies of the destructors included. `AtStops`, `AtPeer` and `AtLoop`
are where the way out begins after a key, after a failure with the peer
constructed, and before that.

**Undefined behaviour and uncaught exceptions.** `StartCrashes` and `MayCrash`
name what can end the process: a call through a null pointer does, waiting on no
descriptor, using a session that is not there or ending it twice may or may not. On Linux so
does the exception of a client's TUN receiver, when `mtx_ready` comes late.

**`config.txt`.** A line is a key and a text; the file's other texts are left
out. The file is shorter than a stream's buffer: `Load` reads it in one step.
`Save` is two steps, since opening empties the file and closing writes it, and
others run in between. If another process has written more than this one is
about to, its last lines stay behind this one's; the sets in `Tails` are those
lines' keys. Either open may fail although the file is there (`LoadUnopened`,
`OpenFails`); then `Load` goes on as if it were not. `taken` is what `Load` takes from a line: a text, nothing
(`Missing`), or an exception (`Throws`). `kept` and `undisturbed` are history:
what the file is to keep, and whether one of the disturbances has happened that
are known to lose it.

**Addresses.** A text is a sequence of digits, dots and others, and
`FromString` is its loops, one character after the other: `Read` is what one
character does to `value`, `parts` and `result`, `ReadAll` a recursive function
that applies it along the text. Radix, the largest octet, the number of octets
and the byte swap are parameters, so the theorems are about addresses of any
size. `Spellings` are the texts `ReadsWhatIsPrinted` is about: for TLC all up to
a length, for the proofs any set of texts.

**External.** `htonl`, the clock, Steam's delivery and `std::vector`'s memory are
not under `src/` and are modelled from how the code uses them.

## Runs

| run | instance | distinct states | checks |
|---|---|---|---|
| `ip_pool` | 16 addresses, of which a range in host order that is no range in network order; `Release` of any number | 326 | `TypeOK`, `Partition`, `KeepsPromise`, `NoAddressStarves` |
| `server` | 2 users, 3 addresses | 294,820 | `TypeOK`, `OneAddressOneUser`, `OnePlacePerAddress`, `PingLoopTellsMembers`, `KeepsMembership`, `JoinCompletes`, `SilentUserIsRemoved` |
| `server_join` | 3 users, 4 addresses, no TUN packets | 691,074 | `PassedOverByErase` |
| `client` | 1 client that hears of 2 users and 2 addresses | 290,841 | `TypeOK`, `KeepsDirectory`, `BlockedUntilHandshake`, `HandshakeUnblocks` |
| `network` | server, 3 clients of which one may end, 2 addresses, one packet at a time | 379,133 | `AddressAgreement`, `MembersAreConfigured`, `HandshakeComesFirst`, `DeparturesNameStrangers`, `ClientPacketsReachOwner`, `LostOnlyBeforeHandshake`, `PasswordIsAnswered` |
| `startup` | a server and a client over one file, 16 addresses of two binary octets | 314,712 | `SettingsSurvive`, `ServerHasItsPool`, `AsksIfPlain`, `AddressesReadBack` |
| `main` | client and server, Linux and Windows | 40,258 | `LoopRunsOnSteam`, `NoThreadOutlivesFrame`, `DeviceOutlivesItsUsers`, `PassedOnFreshSignal`, `WaitIsDecided`, `ExitStallsOnlyInSelect` |

and five runs that end in a counterexample, below.

**Bounds, and why they are enough.**
- Addresses are numbers of two small digits and the byte swap exchanges the
  digits, so host and network order differ and sort differently: a forgotten
  conversion shows.
- No counter needs a cap. The pool bounds the number of joins, since a removed
  member's address never comes back; this also bounds lists, blocks and queues.
- With 3 addresses two users can join, be removed and join again, be listed
  twice, and have blocks replaced under every thread that holds a position.
- To pass a member over, an announcement needs three listed entries: `erase`
  leaves the last slot's content, and of two entries the second is found there
  again. Hence 4 addresses and 3 users (the first of a user's two entries only
  is refreshed) in `server_join`; the TUN receiver only reads and stays idle.
- `PingTimeout` is 1 tick and `PingPeriod` 1 in `server`, so a member can be
  refreshed, age, and survive a round; where members never ping it is 0.
- Three clients with two addresses in `network`: two join, one is refused, and a
  removed member's address would be reused by the third if it could be. The first
  of two can be removed, and the second enlisted before the round's range-for.
  With one that ends (`OneEnds`), a member can end with its device running, a
  client with its password or its handshake under way, and the others go on.
  Which one it is does not matter: clients that have asked are alike.
- `OnePacket` in `network`: one packet is looked up, waits or is under way. No
  packet affects another, and the properties speak of one. `FullBlockMoves`
  fixes the growth policy of `std::vector` up to four elements, which `server`
  and `client` leave open. `InOrder` numbers the clients by the order they start
  in, since a symmetry set is not sound with liveness. `RoundsRemove` leaves out
  the rounds that remove nobody and so tell nobody of a departure.
- In `startup` octets have two binary digits and an address two octets, and the
  pool may end at the largest number: the loop that never ends, until memory
  for 17 entries is used up, is among its behaviours. `Written` has for each key
  what the properties tell apart: a GUID that is too short, one that throws,
  addresses with a leading zero, a dot at the end, an octet missing, a range
  that ends before it begins. At most one line is not a default (`EditsAreFew`),
  so that no mistake hides another; edits come before both processes are there
  (`EditsAreEarly`); nobody else moves during the pool's loop, which shares
  nothing (`LoopRunsAlone`).
- `AddressesReadBack` is over every text of up to seven characters. The longest
  plain address has five, which leaves room for two superfluous characters.
- Symmetry is over `Users`, in `server_join` and `members_know_each_other`.
- `client` and `main` end in a process that has ended, hence
  `CHECK_DEADLOCK FALSE` there and in `replaces_entry`; in all others a deadlock
  would be reported.

**Fairness.** Weak fairness of a thread's own steps: the operating system runs
every thread, no thread of this program waits for a lock, and the loops have no
exit but the ones modelled. Nothing is assumed of what users send, of keys, of
packets, or of Steam connecting. `Tick` is fair: time passes. `Network` also
assumes that Steam delivers a reliable message, which is what
`k_nSteamNetworkingSend_Reliable` asks for; one condition, on what all system
receivers have to do, is enough there, because every user asks once and the
answers are finitely many. In `AutomaticMain` the main thread's way up, its way
out and each thread have a condition of their own, and a start through a null
pointer does crash; what undefined behaviour merely may do is not fair.

**What the runs show.** The properties hold in every interleaving of these
instances. Some deserve a sentence:
- `OneAddressOneUser`, `AddressAgreement`: that the server never releases an
  address is a leak, and also the only reason why a removed member, which is not
  told and keeps its device running, cannot share its address with a new one.
  The slip `PingRoundReleasing` adds the missing `Release` and both break: to
  return addresses safely, the code would have to tell who was removed.
- `PassedOverByErase`: an announcement can miss a listed member. The property
  bounds the damage: no more members are missed than entries were erased
  meanwhile.
- `LostOnlyBeforeHandshake`: a packet may overtake the handshake, since it
  travels on another channel, and is written to a device that is not started.
  Only a packet of the server's can, and only while the handshake is the next
  message or its handler has not yet started the device.
- `MembersAreConfigured`: that the handshake is next, or being handled, is all a
  listed member may still lack; a client that has ended keeps what it had.
- `DeparturesNameStrangers`: the departures `PingLoop` announces are of no use to
  anybody. No entry of a client's list is ever erased, although `Client` on its
  own can erase them.
- `PassedOnFreshSignal`: the second wait cannot be passed on what the first left
  in `mtxReady`, because of the second reset. It does not say which callback came.
- `DeviceOutlivesItsUsers`: it rests on the receivers' being joined before the
  device; the slip `PeerStopTunFirst` exchanges the two.
- `ExitStallsOnlyInSelect`: on the way out, every `join` gets through, with a
  single exception on Linux.
- `SettingsSurvive`: it takes one of four disturbances to lose a setting: a
  process that ends between opening the file and writing it, one that takes its
  defaults while another is saving, one that cannot open the file to load it, or
  an edit during a save. A line that throws is not one, because the exception
  leaves `Init` before `Save`.
- `ServerHasItsPool`: a range that ends at the largest number makes the loop run
  until memory is used up. No server comes up with addresses twice in its queue.
- `AsksIfPlain`: a client whose `ServerIp` has a zero or a dot too many starts,
  and asks nothing.

## Where the code disagrees with what it says

Five runs end in a counterexample to something the repository says:

| run | property | what happens |
|---|---|---|
| `removed_for_old_ping` | `RemovedForOldPing` (`Server.cpp:292`) | the first round after a join removes the new member, whose `lastPingTime` is the epoch |
| `refusal_means_full` | `RefusalMeansFull` (`IpPool.cpp:31`) | removed members' addresses are not released; joins are refused with nobody listed |
| `packet_reaches_owner` | `PacketReachesOwner` (`README.md:29`) | an erase between `find_if` and `SendMessage` sends a packet to another member |
| `members_know_each_other` | `MembersKnowEachOther` (`README.md:5`) | a new member is never told of the members there are |
| `replaces_entry` | `ReplacesEntry` (`Client.cpp:42`) | a second join message about a user, with another address, is said to replace the entry and does not |

Others follow from the same models but have no run of their own:
- `Server::Stop` leaves `pingThread` running (`Server.cpp:70`): a server that is
  left on a key announces "Quitting..." (`AutomaticMain.cpp:117`) and ends by
  `std::terminate` in its destructor, which is what `DestroyPingThread` comes to.
- A `config.txt` that is there but cannot be opened is called not found
  (`Config.h:53`), and `Save` may write the defaults over it: `LoadUnopened`, a
  disturbance of `SettingsSurvive`.
- A callback that runs before `AutomaticMain.cpp:46` or `:63` resets `mtxReady` is
  forgotten, and the start is given up.
- A reconnection of Steam runs the first wait's callback again, and passes the
  second wait without a handshake (`AutomaticMain.cpp:39`, `:64`).
- `steamLoop.Stop` shuts Steam's API down while the receivers still use it
  (`AutomaticMain.cpp:74`, `:119`); `LoopRunsOnSteam` holds of the callback thread
  only.
- On Linux `Stop` joins a thread that is in `select` without a timeout
  (`TUNLinux.cpp:55`): the exit waits for the device's next packet, which is what
  `InSelect` stands for.
- An announcement can miss a listed member (`Server.cpp:169`), see
  `PassedOverByErase`.
- A shorter `Save` over a longer one leaves the longer one's last lines behind
  (`Config.h:139`), see `Tails`.

## Proofs

TLC looks at instances; the theorems hold for any users, address range, byte
swap, ping times, processes and settings that satisfy the named assumptions, and
in behaviours of any length.

| theorem | module | states |
|---|---|---|
| `PoolPartition` | `IpPoolProofs` | `free_` and `used_` partition the range, whatever is released |
| `PoolTypes` | | `TypeOK` |
| `PoolKeepsPromise` | | `IpPool` implements `AddressPool` |
| `ServerTypes` | `ServerProofs` | types; every position a thread holds lies in a written slot |
| `OneUserPerAddress` | | `OneAddressOneUser` |
| `OneAddressOnePlace` | | `OnePlacePerAddress` |
| `ServerKeepsMembership` | | `Server` implements `Membership` |
| `ServerPingLoopTellsMembers` | | `PingLoopTellsMembers` |
| `ServerPassedOverByErase` | | `PassedOverByErase` |
| `ClientTypes` | `ClientProofs` | types; the position kept over the wait was written |
| `NothingBeforeHandshake` | | `BlockedUntilHandshake` |
| `ClientKeepsDirectory` | | `Client` implements `Directory` |
| `NetworkAddressAgreement` | `NetworkProofs` | `AddressAgreement` |
| `NetworkMembersAreConfigured` | | `MembersAreConfigured` |
| `NetworkHandshakeComesFirst` | | `HandshakeComesFirst` |
| `NetworkClientPacketsReachOwner` | | `ClientPacketsReachOwner` |
| `NetworkDeparturesNameStrangers` | | `DeparturesNameStrangers` |
| `NetworkLostOnlyBeforeHandshake` | | `LostOnlyBeforeHandshake` |
| `NetworkServerIsServer` | | the server of `Network` implements `Server` |
| `NetworkClientsAreClients` | | each client of `Network` implements `Client` |
| `ReadBack` | `UtilsProofs` | `FromString(ToString(ip)) = ip` for every address |
| `ReadsRight` | | `ReadsWhatIsPrinted`, for texts of any length |
| `FromStringType` | | `FromString` gives an address or throws: `result` never overflows |
| `PlainIffPrinted` | | a text is printed as it was read if and only if nothing in it is superfluous |
| `ConfigSurvives` | `StartupProofs` | `SettingsSurvive`, of `Config` alone |
| `StartupIsConfig` | | `Startup` implements `Config` |
| `SettingsSurviveStart` | | `SettingsSurvive`, of `Startup` |
| `SwapsBytes` | | a swap of the octets' order is what `IpPool` assumes of `htonl` |
| `ServersHaveTheirPools` | | `ServerHasItsPool` |
| `ClientsAskIfPlain` | | `AsksIfPlain` |
| `TextsReadBack` | | `AddressesReadBack` |
| `MainLoopRunsOnSteam` | `MainProofs` | `LoopRunsOnSteam` |
| `MainNoThreadOutlivesFrame` | | `NoThreadOutlivesFrame` |
| `MainDeviceOutlivesItsUsers` | | `DeviceOutlivesItsUsers` |
| `MainPassedOnFreshSignal` | | `PassedOnFreshSignal` |

**Assumptions.** `PoolAssumption` (`IpPool`), `ServerPoolAssumption` (`Server`)
and part of `NetworkAssumption`: the byte swap is its own inverse on a range of
numbers, and the pool's first address is not above its last in host order.
`UserAssumption`, `ClientAssumption`, `NetworkAssumption`: `NoUser` is nobody,
the server's identity is no user's, its address and `NoIp` are not handed out.
`PingAssumption`: the loop sleeps at least one tick. `ConfigAssumption`: what
`Load` takes from a line, and every default, is read back when it is written.
`UtilsAssumption`: an octet is large enough for a digit, and the byte swap
reverses the order of the octets, which is what `htonl` does on a little-endian
host; that it is its own inverse on the addresses is proved from it
(`SwapsBytes`). `StartupAssumption`: a process is server or client, not both, and
memory ends somewhere beyond the number of all addresses. TLC evaluates each of
them in a run.

**`IpPool`.** `IInv == TypeOK /\ Partition` is inductive. The work is in
`QueueLemmas`: taking the head of a queue without duplicates, or putting an
element of the set behind it, keeps a partition (`TakeHead`, `PutBack`).
`SwapInjective` carries it over to network order, where the promise is stated.

**`Server`.** `OneAddressOneUser` is not inductive: that a newly allocated
address belongs to nobody needs the pool's partition, and that every address with
an owner is in `used_` (`LeasesUsed`). `OnePlacePerAddress` needs the same of the
address being announced. `IInv` is the conjunction of these with `TypeOK`. Of the
list's memory three lemmas are used: `PushBackFacts` and `KeepFacts` say which
elements stay and that no slot ever holds anything but an old or the new entry,
from which `PositionsStay` follows: no block gets shorter. There is one lemma per
action for the types, and one for each of the actions that touch a lease;
`LeasesQuiet` treats the others together. A step of `Server` then is a step of
`Membership`: `ReceivePassword` gives, `Enlist` admits, `PingRound` expels, all
others stutter.

Two properties have an invariant of their own beside `IInv`. `RangeKept`: while
`PingLoop` sends, what is in its range is in the list, since nobody else erases
and `push_back`, also into another block, keeps what there is.
`PassedOverByErase` is a counting argument. The members that have not been told
and lie behind the announcement's position are those `Missed`; an erase moves in
front of the position (`Moved`) at most as many entries as it erases there,
because it keeps the order (`MovedInFront`). So `Missed` never outgrows the
number erased (`MissedFew`), and at the end all that is untold is missed.

**`Client`.** Three facts are added to the types: nobody is listed twice
(`ListedOnce`), the device is started before `mtx_ready` is set, and a packet
past the wait has found `mtx_ready` set (`HandshakeFirst`). Without the first,
`erase` of the first entry found would not forget the user. `JoinFacts` and
`EraseKnown` turn `push_back` and `erase` into adding and removing one element of
a set; the rest of the refinement is a case for each handler.

**`Network`.** `NetInv` has a part for each place an address can be. `PoolInv`:
an address goes from the pool to one owner. `ListInv`: nobody listed was ever
pinged, so a round erases everybody. `ThreadInv`, `ClientInv`, `ChannelInv`: what
the server's threads hold, the clients list (to which they only add) and the
channels carry was made from a lease. `StageInv` follows one user's way:
`Outside`, with no lease; `Answering`, with the handshake at the head of its
inbox; `Handling`, with the handshake in the handler and the device not started;
`Inside`, with a device that runs on its own address. Until then it is
`Innocent`: it knows nobody but the server. `AddressAgreement`,
`MembersAreConfigured` and the action properties on packets follow from what
`NetInv` says of the state a step starts in.

That clients only add to their lists rests on a second invariant, of what a
departure can reach. `StrangerInv`: whoever is in a slot of the list's memory, or
among the departed, is `Settled`, its own join being over; who is not has heard
of nobody (`Newcomer`). Who may still be told of the departures (the `Audience`:
whoever was listed since the erase, or is in the rest of the range) is a stranger
to everybody erased: it neither lists such a user nor has a message about its
joining under way, and will not have one, since a settled user is not announced
again. `DeparturesNameStrangers` follows; so does that
`ReceiveDisconnected` leaves a list alone, on which `NetInv` rests, so the two are
shown to be kept together (`NetInvariant`).

The facts about the pool are proved
here once more, for the instance `S!ipPool`: a theorem of a module with
assumptions is not available through `INSTANCE`. `NetworkServerIsServer` and
`NetworkClientsAreClients` are refinements, every step of `Network` being one of
`Server`'s, one of `Client`'s, both or none; what `ServerProofs` and
`ClientProofs` show of a server and of clients alone thereby holds among each
other. For the server this is so whatever the clients do. For the clients it
needs `NetInv`: `Client` receives messages only of a user of the network with an
address of the pool, and only after it has asked (`ClientMessages`).

**`Config`.** `SettingsSurvive` speaks of moments at which nobody writes. In
between, the file is empty or what another process has written whole (`OnDisk`);
what a process is going to write is read back (`Readable`) and is what the file
was to keep (`Faithful`); and two processes save at once only when every key has
been decided (`Decided`), so they write the same. All of this is said of a file
that is `undisturbed`, which a failed open on loading ends.

**`Utils`.** `ToString` and `FromString` are recursive functions, and all that is
known of a function defined by recursion is that it is the one its definition
describes, if there is one. `Recursion` shows that there is: the numbers up to
which it exists are all numbers, by `NatInd`, an induction over a set instead of
a predicate, which follows from the pigeonhole principle. The text of a number
with its highest octet first, a dot behind each, is `dotted`; `PrintsDotted`
says that `ToString` prints it, without the last dot, for the swapped number,
from what division leaves (`Octets`, `HighestFirst`). `ReadSoFar` is the
invariant of `FromString`'s loops along a plain text: what has been read is
`dotted` of `result`, followed by the digits of `value`. So a plain text that is
accepted is a printed one (`PlainIsPrinted`), and a printed one is accepted
(`ReadsOctet`, `ReadsDotted`): together `ReadBack`. In a text that is not plain
the superfluous character changes nothing: the loops are in the same state with
and without it (`ZeroIsNothing`, `DotIsNothing`, `ReadsAlike`). Hence
`PlainIffPrinted`, by the length: taking out the superfluous characters one by
one makes a text shorter, and ends at what `ToString` prints (`PrintedIsShorter`).

**`Startup`.** `StartInv` adds to the types that a process which is past `Init`
has a text for every setting (`Loaded`); that the queue holds the addresses from
the first to the loop's variable (`Pushed`), as long as the pool does not end at
the largest number, where the loop never ends and no server comes up; and what a
client has compared (`Asked`). `ServerHasItsPool` is `Pushed` at the loop's end,
`AsksIfPlain` is `Asked` and `PlainIffPrinted`.

**`AutomaticMain`.** `Early` says which threads there may be by where the main
thread is, `Late` which calls are behind it on its way out and hence which
threads are gone; `Ended`, that the device ends only then; `Loop`, that the
callback thread runs on Steam. `Calls` lists where in `Quitting` the joins are.
`Fresh` is the invariant for `PassedOnFreshSignal`.

**Only model-checked:** the liveness properties (`NoAddressStarves`,
`JoinCompletes`, `SilentUserIsRemoved`, `HandshakeUnblocks`,
`PasswordIsAnswered`, `WaitIsDecided`, `ExitStallsOnlyInSelect`), since fairness
and `ENABLED` are beyond the prover. Every safety and every action property of a
passing run is a theorem.

## What is not modelled

- `DebugLog`: its shared buffers are a data race, and no other state depends on
  them.
- `Main`, `ManualMain`: administrator rights, and an empty function.
- `TUNMock`: replaces the device in a build that no build file describes.
- `Utils::SHA512`, `PrintBytes`: passwords are compared by identity.
- The layout of messages and checks of their length: ill-formed messages are
  dropped without effect. Refusals are sent but are no messages of the model,
  since a client ignores them; wrong passwords are dropped likewise.
- `Server::LeftMember`, which would release an address: nothing calls it.
- How a device is configured (`ioctl`, Wintun, routes): calls of the operating
  system. `TUN` has what succeeds and fails of it.
- `tunFd` before `InitializeTun` sets it: when its `ioctl` fails, `Cleanup` closes
  whatever number is in it (`TUNLinux.cpp:82`).
- Torn reads and writes inside one pass over `usersList`. What two threads do to
  each other between passes is modelled.
- The mutex of `Client` is unlocked by a thread that does not own it
  (`Client.cpp:100`). `Client` models what the usual libraries do: it excludes
  nobody.
- A pool that contains `ServerIp` (`Server.cpp:14`): `NetworkAssumption` says that
  the address is outside.
- A client process that restarts under the same identity while the server knows
  it: `Server` has a user joining again, `Network` does not, since Steam gives an
  anonymous logon an identity of its own.

## Plan

The modules were written in the order of what depends on them: `IpPool`, `Server`
and `Client`, then `Network` and `AutomaticMain`, then `Config`, `Utils` and
`Startup`; proofs follow TLC's verdict in the same order. What is left, the most
important first:

1. **`ServerIp` inside the pool**: `Network` without that part of
   `NetworkAssumption`, and what `AddressAgreement` becomes then.
2. **Several restarts** of clients in `Network`, with more addresses than clients
   that end, and a server that restarts while clients go on.
3. **Messages as bytes**: lengths and types of what the handlers accept.
