# A TLA+ model of AmuleD

AmuleD (`src/`) is an ED2K/Kademlia client in Python: one asyncio process, the
*kernel*, that downloads files from many peers at once, serves shared files to
others from a bounded set of upload slots, and finds both through ED2K servers and
the KAD network; and a command line that talks to the kernel or, when none runs,
does the work itself. This directory specifies the parts of it that keep state or
depend on the order of events, model-checks them on small instances and proves the
central properties of most of them for all instances. Line numbers refer to
`src/src/amuled_v2/` unless a path says otherwise; `README.md:n` inside modules is
the repository's own README.

    tlc -workers 2 -config Local.cfg MCLocal        # any run of section 4
    tlapm DownloadQueueProofs.tla                   # any proof module

## 1. Inventory

All components of a process run on one event loop. A synchronous method is one
atomic step for every other task; a coroutine can be interleaved at each `await`
and cancelled there. State survives a restart only in DuckDB (`state.py`), which
one process at a time can open, in `temp/`, in `incoming/` and in a few files
under `db/`.

| Component (code) | State it keeps | What makes it hard | What must hold | Module |
|---|---|---|---|---|
| Part file (`core/download/partfile.py`) | gap list, data file, sidecar | half-open intervals, clipping, merging, chunk edges | gap list, bitmap and byte counts agree; nothing counted that is not on disk | `PartFile` ⊑ `PartFileAbs` |
| Download queue (`core/download/queue.py`, table `downloads`) | status row, part file, sidecar, `incoming/` | four stores written one after the other, killed anywhere; leftovers of an earlier life of the same hash | no phantom bytes; `complete` means no gaps; only verified files are vouched for; no part lost | `DownloadQueue` |
| Block selection (`core/download/ics.py`, `runner.py:374-464`) | requested ranges per file | sessions between awaits, retries, clipping | no byte asked of two peers; no session starved while blocks are free | `Ics`, `Shares` |
| Download runner (`core/download/runner.py`) | race: rounds, active peers, tasks, regions, throttled writes | racing tasks, writes detached from their task, cancellation, user, restart | the assembled file is the right one; nobody writes after it; a run ends and leaves nothing behind | `DownloadRun` |
| Verification and recovery (`core/hashes/*`, `runner.py:1134-1312`) | hash sets, AICH trees | leaves of short parts, two formats of the hash set | authentic answers accepted, damage refetched | `Hashes` |
| Peer session, both sides (`core/peer/client.py`, `listener.py`, `codec.py`, `obfuscation.py`, `upload/engine.py`) | handshake, keystreams, ranges, compressed blocks | timers inside packets, packets in any order, two offset widths, retries | keystreams in step; both verified; a slot is heard of; every byte at its place | `Peer`, `Blocks` |
| Incoming server (`listener.py:1341-1551`) | accepted connections, waiters per address | waiters matched by address in order of registration | who waits can be found | `Inbound` |
| Upload queue, credits (`core/upload/queue.py`, `state.py`, `kernel.py:206-235`) | waiting clients with rank, slots with age, ledger | two sort orders, clients that ask again | slots bounded; no overtaking; those who give are favoured | `UploadQueue` |
| Upload sessions (`listener.py:882-1325`) | held or served, granted key | several connections of a user, rotation under a session, errors | every slot returns; a held client is served | `Upload` |
| Kernel and command line (`core/kernel.py`, `kernel_control.py`, `cli.py`) | download tasks and boxes, control connections, owner of the database | tasks that overlap, late requests, crash while a command waits | one race per file; autoresume; re-ask; every command returns; a stop ends | `Kernel` |
| Shared files (`core/sharing/shared_files.py`, `state.py:1160-1420`) | directories, rows per hash | files change while they are hashed | what was scanned has a row | `SharedFiles` |
| IP filter (`core/ipfilter.py`, `server_filter.py`) | list on disk, stamp | kill between write and move, two updaters | one list at a time | `IpFilter` |
| ED2K servers (`core/ed2k/server_session.py`, `server_client.py`) | candidates, failure counts, one login | three processes share one blacklist; candidates go stale | no dial in the cooldown; a good server is reached | `Server` |
| KAD lookups (`core/kad/search.py`, `source_search.py`, `publish.py`) | candidates, asked, answered | lies, moved nodes, late answers, three clocks | whoever answered is searched; the walk ends | `KadLookup` |
| KAD routing (`core/kad/routing.py`) | tree of bins | splits at depth and size limits | closest really is closest | `KadRouting` |
| KAD pool (`core/kad/spider.py`) | nodes, open requests, cache file | sweep against late answers, crash | only the silent are evicted | `KadPool` |
| KAD buddies (`core/kad/buddy.py`, `buddy_customer.py`) | one slot, registry | reconnect while the old session ends | relays reach the newest session | `Buddy` |
| KAD bootstrap (`core/kad/bootstrap.py`, `nodes_dat.py`, `runtime.py`) | contacts alive, files on disk | duplicate, unasked and broken answers; five file formats | answers are kept | `Bootstrap` |
| NAT traversal (`core/natt/session.py`, `utp.py`) | rendezvous, stream | loss, duplication, reordering | the stream is what was written | `Natt` |
| UDP search at servers, UDP obfuscation, QUIC, UPnP, safety policy, geoip, configuration, logging, menu | little or none | — | — | section 7 |

How they interact on the paths that are modelled:

* **download**: command → kernel task → `DownloadRunner.run` → one `_attempt_peer`
  task per peer → `PeerClient` (handshake, slot, transfer) → selector (registry) →
  `_persist_block` → `DownloadQueue.record_block` → `PartFile` → row. The end of a
  task wakes `run()`, which reads the row, cancels the others and calls `finalize`.
  A firewalled source dials back (`Inbound`) or is reached by rendezvous (`Natt`).
* **upload**: connection → `IncomingPeerSession` (obfuscation, handshake) →
  `UploadQueue.enqueue`, `next_for_slot`, `grant_slot` → engine, whose hook calls
  the queue again → `release_slot`. The rotation timer and the credit hooks change
  the same queue and ledger from outside.
* **finding**: `nodes.dat` → bootstrap → routing table or pool → lookup → source
  table → runner; and servers → login → search and source requests.

`PROJECT.json` lists every component with what is left out of it, and the hazards
at the lines where they bite, each with the properties that would notice.

## 2. Plan

The order was: what can lose or corrupt a user's file, then what can starve or leak
a slot, then the kernel that ties tasks together, then the network. Done: all
modules of section 3. Left:

1. Composition: `DownloadRun` shown to implement the race that `Kernel` assumes
   (records blocks, ends); `Upload` over the session of `Peer`.
2. Several uTP sessions at one socket, and windows that wrap around.

## 3. Modules

| Module | Models | Correspondence |
|---|---|---|
| `PartFileAbs` | what a part file promises | a set of missing offsets and its durable copy |
| `PartFile` | `partfile.py` | `gaps`, `sidecar` are lists of half-open intervals as in the code; one action per method, one operator per pure helper; `_normalize_gaps` takes the gaps as a set, since it sorts them and merging drops copies; refines `PartFileAbs` through `Covered` |
| `DownloadQueue` | `download/queue.py` | a row, part file and sidecar per hash; one action per method plus a `CrashIn…` action per method with more than one durable effect; a file is a set of block positions with content zero, good or bad |
| `Ics`, `Shares` | `ics.py`, registry and gate of `runner.py`, request loop of `client.py`; `_regions_from_gaps` | inclusive ranges; scores, rarity modes and windows as in `ics.py`, random draws nondeterministic; `Told` are the peers whose part status is known, `due` and `stage` what a session waits for and where it is; `Share` is the set form of a region, in closed form |
| `DownloadRun` | `run`, `_attempt_peer`, `transfer` | an action is what `run()` or a task does between two awaits; instantiates `DownloadQueue` for the files and `Share` for the regions |
| `Hashes` | `hashes/aich.py`, `hashes/ed2k.py`, `engine.py`, `codec.py`, narrowing and audit of `runner.py` | a digest is the sequence that names what was hashed, so trees can be compared; sizes small, the arithmetic the code's; one attempt at a source whose own copy may be damaged, for the whole file or a stripe, with whatever master earlier attempts stored |
| `Peer` | `client.py` handshake, `listener.py` session, `obfuscation.py` | packets of a header and a payload, delivered in pieces; keystream positions are counted; timers may fire anywhere |
| `Blocks` | `transfer` and `codec.py` of the client, `engine.py` | a byte is its offset, a compressed byte `<<start, end, index>>`; the sub-packets of both offset widths, whose number and limits are in closed form; requests queue at the server, packets at the client |
| `Inbound` | accept loop, `expect_connection_from`, dial-back attempts | waiters of one IP address and its connections |
| `UploadQueue` | `upload/queue.py`, ledger, rotation | every method is an operator on the queue record, so that a caller can apply several between two awaits |
| `Upload` | `listener.py:882-1131`, engine hook | extends `UploadQueue`; one action per packet or timer of a session |
| `Kernel` | task table, re-ask, autoresume, control handlers, `cli.py` dispatch | who has the database; boxes, tasks, one command at a time, a request that outlives its client; a listener that, closing, waits for its peers (`guest`) |
| `SharedFiles` | scans, `share.add`, the tables | a row is keyed by content and names one path; a scan hashes one file per step |
| `IpFilter` | update, load, sweep | a file is two halves, so that a kill can cut it; two updaters; ranges are a set and the order of the sorted list a relation |
| `Server` | server session, blacklist, commands | three users of one table; time is the expiry of a cooldown |
| `KadLookup` | the three walks and their second phases | `Dist`, `Knows`, `Answers` describe the network; deadlines are counters of quiet windows; a node sends results only when it was searched |
| `KadRouting` | `routing.py` | an ID is its bits, those of its XOR distance to ours; zones are prefixes; of two numbers the one is smaller that is at the first bit where they differ (`Closer`); the descents are one recursion over the levels |
| `KadPool` | spider loop, receiver, sweep, snapshots | a cycle is the unit of time |
| `Buddy` | both ends of a serving buddy | one registry, TCP sessions, datagrams that may come late, twice or never |
| `Bootstrap` | runtime, `nodes.dat`, answers | a contact is the word it was taken from |
| `Natt` | rendezvous, uTP | two ends and a lossy network; `st[e]` is the stream object of an end, `air` the datagrams under way |
| `Induction` | | recursion and induction over numbers for the proofs |
| `PartFileProofs`, `DownloadQueueProofs`, `DownloadRunProofs`, `KernelProofs`, `PeerProofs`, `TransferProofs`, `DiscoveryProofs` | | the theorems of section 5 |

`MCLocal`, `MCPeer`, `MCSharing` and `MCDiscovery` put components that share no
state side by side: a behaviour is about one of them and the others rest in an
initial state, so that the states of a run are the sum of theirs and no interleaving
is lost. They extend the components that are proved about (`MCLocal`:
`DownloadQueue`, `Kernel`, `IpFilter`, `PartFile`; `MCPeer`: `Peer`, `Inbound`, `Ics`, `Blocks`;
`MCSharing`: `UploadQueue`, `SharedFiles`; `MCDiscovery`: `Buddy`, `Bootstrap`,
`Server`, `KadPool`, `KadLookup`), whose names are told apart for it (`PartInit`, `IcsNext`,
`KernelSpec`, …), and take the others with INSTANCE. `MCUpload`, `MCDownloadRun` and
`MCNatt` extend one component each. What a run checks and what a theorem states is
therefore the same definition.

Operators that stand before a definition of the code and are named for a mistake,
often with "faulty" or "slip" in the comment (`ReceivedUnordered`,
`CommitScanStaleFirst`, `EngineEndsKeepsSlot`, …) are plausible slips in that code;
no specification uses them. Replacing the definition by the slip must make a
property fail, which is how each property was shown to depend on the code it talks
about.

Main abstractions:

* **Content.** A block is `zero`, `good` or `bad`; a hash matches exactly when
  what is hashed is the same. MD4, SHA-1, RSA, RC4 and Diffie-Hellman are external.
* **Time.** Timers are actions that may fire at any moment; ages become "has
  reached the limit", arrival times the order they induce. Where several clocks
  decide together (`KadLookup`, `KadPool`), time is counted in windows or cycles.
* **Peers and nodes.** They can refuse, stall, fail, lie, answer in any order or
  stop anywhere. In `DownloadRun`, connecting and handshake are one step (`Connect`)
  because they do not touch the state of the race; `Peer` opens it up.
* **Scheduling.** In `DownloadRun` the selector may return any free blocks; which
  ones it prefers is `Ics`. `NoDuplicateRequest` is what justifies taking the two
  apart.
* **Races in the kernel.** A race is a task that records blocks and ends. That it
  ends is `RunEnds` of `DownloadRun`.
* **Credit.** Bytes are counted up to `MaxTraffic`; the bonus is kept in twelfths
  so that it stays an integer.

History variables record what happened; no guard reads them. `moved`, `damaged`
and `vouched` (`DownloadQueue`) mark downloads that were handed over, hit by a crash
window in which the code does lose information, or finalized: the windows are listed
in section 6 and the properties hold for all other downloads. `indexed` and `twins`
(`SharedFiles`), `mixed` (`IpFilter`), `skipped` (`Kernel`), `silent` and `unsaved`
(`KadPool`), `last` (`Buddy`), and `asked`, `spoken`, `heard`, `named`
(`Bootstrap`) serve one property each.

## 4. Runs

| Run | Question | States | Bounds |
|---|---|---|---|
| `local` | what one process does to its disk and its tasks: queue, kernel, part file, hashes, IP filter | 384 931 | below |
| `download_run` | safety and termination of the race, and that an undisturbed download is assembled | 233 035 | 2 peers, one of which sends bad blocks, 3 blocks, batches of 2, 3 rounds as in the code; the downloads of `Various`: two parts or one part with a user, one part in stripes and throttled ones with restarts, two parts that nobody disturbs |
| `sharing` | scans against users; the upload queue in every order | 2 079 148 | 2 directories, 2 names, 2 contents (a swap, a rename and a twin need no more); 3 users, 1 file, 2 slots, 2 priorities, ledger up to 1 |
| `upload` | slots and held clients under the sessions | 248 742 | 3 sessions, 1 slot (the promoted, the next and one behind), 2 files; modes `busy` (errors, second requests), `patient` (strangers or two sessions of one user), `leaving` |
| `peer` | a session from obfuscation to transfer, selection, dial-backs | 1 229 844 | below |
| `natt` | rendezvous and stream | 34 552 | 2 chunks one way, both ends close, 2 datagrams in flight, so that one is overtaken, doubled or lost; numbers modulo 8, which the instance does not use up |
| `discovery` | KAD lookups, routing, pool, buddies, bootstrap; servers | 758 080 | below |
| `download_run_restarted`, `upload_queue_credit`, `upload_ghost`, `parts_unverified`, `kernel_reask` | *violated* | | section 6 |

`local`: the queue with one download of 3 blocks, both volumes apart, verification
on and off (sharing of names between downloads is covered by the theorem for all
`Files` and `Names`); the kernel with one download, at most 2 tasks of it (the one that
ends and the one that begins), 2 boots, one request that outlives its client; a part
file of 5 bytes in chunks of 2 (two full chunks and a short one, blocks across, inside
and on the edge of gaps); 23 file sizes of one block to nine parts and eight sets of
damaged blocks, with parts of 43 = 4·9+7 bytes as the real part is a number of blocks
and a rest; two filter lists, one with an inverted range and ranges of different levels
that overlap, one with two levels for the same range, and 3 downloads, so that one
updater can leave something and two others find it.

`peer`: plain, obfuscated with the right or the wrong hash, and Diffie-Hellman
connections, two rank refreshes; a listener with one connection slot and two connections
per 5 s, three attempts and two connections of one address; 7 bytes in parts of 4 and
blocks of 2 for the selector, two sessions, of which one knows what its peer has; 22
bytes past a 4-bit offset field for the transfer, blocks of 6 split at 3, compressed to 1
(one piece) or 4 (two), and one job whose region takes two linear rounds.

`discovery`: 6 contacts, of which two share an address, one has moved, one is old and one
dead, three answers of the routing table, one of them with a node at two endpoints,
windows of 3 and 5 for the deadlines; IDs of 3 bits and bins of 2, all
contacts in every order; 2 pool nodes, one of them a seed, eviction after 2 failures
and a bootstrap every cycle; one client, two buddies and 2 sessions, one more than it can
register; 4 endpoints, of which two are asked and one is unroutable; 3 servers, a threshold
of 3 failures and 5 commands.

What the properties say:

* `local` — *queue*: `NoPhantomBytes`, also over files and sidecars that a cancelled or
  crashed earlier life left behind; `IncomingVerified`; `CompleteMeansNoGaps`, without
  which `run()` gives up on an unfinished file; `NoLostPart`. *Part file*: `AbsSpec`, the
  refinement of `PartFileAbs`: a write removes exactly what it wrote from what is
  missing and a resume goes back exactly to the last save. *Kernel*: `BoxTruthful` (one
  task per box that is not done), `StopEnds` (a kernel told to stop goes down and leaves the
  database free, whatever runs, unless a peer of its listener never leaves),
  `ResumedAfterRestart`, `CommandReturns`.
  *Hashes*: `RecoveryAuthentic` (no authentic recovery answer is taken for a forged one),
  `DamageRefetched` (the damage in a part found corrupt is fetched again, whatever master is
  stored, and a file of several parts never gets a master that nobody has confirmed).
  *Filter*: `SweptByOneList`.
* `download_run` — `FinalizedIsQuiet`: no task of any run is transferring or about to
  punch once the file has been moved; `IdleIsClean`; `AssembledIsGood`, with bad blocks,
  punched parts and late writes; `RunEnds`; `EventuallyFinished`.
* `sharing` — `IndexedIsShared`, `NoOvertaking`.
* `upload` — `SlotsReturn`: also slots of failed sessions and slots granted inside the
  engine, which no session releases, come back through the rotation; `SlotsAccounted`;
  `HeldIsServed`.
* `peer` — `StreamsInStep`, `SlotHeard`, `MutuallyVerified`, `DialEnds`;
  `NoDuplicateRequest` and `SelectorExhaustive`: an empty answer, which ends a session,
  means that nothing is free, as long as fewer than `max_blocks` parts are completely
  requested; `ServedAsAsked`; `WaitersFound`.
* `natt` — `ReadIsWritten`, `WrittenArrives`.
* `discovery` — `RespondersAsked`, `WalkEnds`; `ClosestIsClosest`; `EvictedSilent`;
  `RelayFollowsSession`; `AnswersKept`; `NoDialInCooldown`, `ReachesGood`.

Fairness, in every case that the event loop runs what is due and that the timeouts of
the code fire:

* `DownloadRun`: `run()` and each session go on when they can (every wait has a timeout,
  `client.py:1389-1439`), delayed writes are let through (the throttle only sleeps), a run
  is started again (`download.run`, autoresume), who pauses resumes. No fairness forces a
  peer to deliver: `RunEnds` holds for peers that fail or stall. In the undisturbed
  downloads the peers are `steady`, an assumption about the network that
  `EventuallyFinished` names.
* `Upload`: the rank timer of a held session, the rotation and the passing of `slot_ttl`
  fire, and a client being served is done some time (the engine has an idle timeout);
  nothing is assumed of a client that waits.
* `Kernel`: tasks, handlers and commands go on; lookups and races end (their timeouts, and
  `RunEnds`). No fairness for users or crashes, nor for the peers a closing listener waits
  for: `wait_closed()` returns when they have all gone, since Python 3.12.1.
* `Peer`: the dialer reads what is there and its timers fire; none for the acceptor or the
  network.
* `KadLookup`: the walk goes on and time passes; none for answers.
* `Server`: the manager goes on, and `login()` is cut by its timeout.
* `Natt`: as above, and strong fairness for the network: what is sent again and again gets
  through at times. Without it nothing can be promised.

Deadlock is checked in `download_run`, `sharing` and `natt`; the other runs contain components that
really end (a transfer, a lookup, a verification, sessions that are closed).

## 5. Proofs

Every theorem is about the specification a run checks, without its bounds: for any
number of files, users, sessions, peers and nodes, any limits, and behaviours of any
length. Constants are restricted only by the named assumption of their module
(`DownloadQueueAssumption`, `KernelAssumption`, …), which TLC evaluates on the
instances; what a proof needs beyond it is said below.

| Module | Theorem | States |
|---|---|---|
| `PartFileProofs` | `ImplementsPartFile` | `AbsSpec`: `PartFile` implements `PartFileAbs` |
| | `GapsCanonical`, `PartTypeCorrect`, `NothingPhantom` | the gap list is canonical; types; no offset counted that was not written |
| | `TransferServesAsAsked` | `ServedAsAsked`, with `BlocksAssumption` |
| `DownloadQueueProofs` | `PhantomFree`, `CompleteIsGapless`, `PartIsKept`, `VerifiedIncoming`, `TypeCorrect` | `NoPhantomBytes`, `CompleteMeansNoGaps`, `NoLostPart`, `IncomingVerified` |
| `DownloadRunProofs` | `NobodyTouchesAssembled`, `RunsLeaveNothing`, `AssembledIsTheFile`, `RunTypeCorrect` | `FinalizedIsQuiet`, `IdleIsClean`, `AssembledIsGood` |
| | `RoundsCoverTheGaps` | the regions of a round are disjoint and hold every missing block |
| | `RaceUsesTheQueue`, `QueueKeptInRace` | a race is a behaviour of `DownloadQueue`, which keeps its invariants |
| `KernelProofs` | `BoxesTellTheTruth`, `DatabaseHasOneOwner`, `KernelTypeCorrect` | `BoxTruthful` |
| | `PlacesKept`, `SlotsBounded`, `NeverWaitsAndHolds`, `OneOrder`, `QueueTypeCorrect` | `NoOvertaking`, and the shape of the upload queue |
| | `EverySlotHasASession`, `SessionsKeepOrder`, `SessionsKeepQueue`, `SessionsTypeCorrect` | `SlotsAccounted`; the queue's theorems under sessions |
| | `SeenIsShared`, `FilesTypeCorrect` | `IndexedIsShared` |
| | `SweepGoesByOneList`, `ListDecides` | `SweptByOneList`; what a list says of an address |
| `PeerProofs` | `DialBacksFound` | `WaitersFound` |
| | `KeystreamsMeet`, `SlotIsHeard`, `BothVerify` | `StreamsInStep`, `SlotHeard`, `MutuallyVerified` |
| `TransferProofs` | `NothingAskedTwice`, `SelectorFindsFree`, `RegistryIsExact`, `IcsTypeCorrect` | `NoDuplicateRequest`, `SelectorExhaustive`; the registry holds the live ranges |
| | `StreamIsFaithful` | `ReadIsWritten` |
| `DiscoveryProofs` | `AnswersStay`, `RelayReachesClient`, `SilentNodesLeave`, `NoDialsInCooldown` | `AnswersKept`, `RelayFollowsSession`, `EvictedSilent`, `NoDialInCooldown` |
| | `AllResponders` | `RespondersAsked` |
| | `ClosestAreReturned`, `NoneIsLost` | `ClosestIsClosest`; no ID leaves the routing table |

Why they hold:

**Part file.** `_normalize_gaps` is a recursive function over the sorted clipped gaps.
`SortedIs`: a finite set of ranges has a sorted list. `MergeStep`: merging the next range
into a canonical list keeps it canonical and adds just the offsets of the range, if no
later range starts before the last one, which sorting provides. `NormalizeIs` puts the
two together: normal form of a set of gaps, covering what they cover inside the file;
`FillIs` and `PunchIs` say what a write and a punch do to the covered set. `PartInv`, that
both lists are canonical, is then inductive, and each method is one step of `PartFileAbs`
or none.

**Download queue.** With the history variables each property is inductive together with
`TypeOK`, because what it says of a download only depends on that download's own files.
There is one step per method and one per crash. `damaged` is what makes them inductive: a
crash window adds the download to it and `add` removes it only together with rewriting
the sidecar.

**Race.** `Inv` consists of what holds of files (`FilesInv`: a finalized part file is gone)
and of tasks (`TasksInv`: only transfers have ranges, only a race has live tasks).
`FinalizedIsQuiet` alone is not inductive: who is about to punch must not be so because of a
block that arrives after the move. `StepIsMethod` shows that each step satisfies the
preconditions of the queue method it calls, so that the queue's theorems carry over.
`RoundsCoverTheGaps` needs `Rank`, the position of a missing block among the missing
ones, by which regions are cut.

**Kernel.** `BoxTruthful` is not inductive: a handler starts tasks, and must not do so in a
dead kernel, where the boxes of its last life are still there. `KernelInv` adds that tasks
end with the process (`NoOrphanTask`) and that a request, also one whose client has gone,
is only with a kernel whose control server is open (`AskedOfServer`).

**Upload queue.** `SlotBound` needs that a granted key held no slot, hence `NeverTwice`;
`enqueue` keeps `ArrivalTotal` only if the new key is in no pair of `ahead`, hence that
`ahead` relates waiting clients only. `Good(q)` is their conjunction over one queue
record, and one lemma per method says that it keeps `Good`, so that the theorems hold for any
caller. **Sessions** apply several methods between two awaits: `Follows(A, B)` says that
the queue B comes from A without overtaking, it is transitive, and each step of a session
is a chain of it. `SlotsAccounted` needs `GrantsAreOwn`: what a session remembers as granted
is the key of the file it shares.

**Shared files.** A row goes when its directory is removed or its file is found gone, so it
is not enough that a row exists. `RowIsNear`: the row of a content recorded in one directory
only names a path in that directory, which goes when the file does.

**Filter.** While the updaters take turns, the part file is as far as the one that writes it
(`PartFollows`), so that what `os.replace` moves is a list in full (`FileIsList`); leftovers
of a kill are truncated by the next `open`. The two halves of a list are the list
(`HalvesAreAll`). `ListDecides` needs that of the ranges that contain an address one comes
first in the order of the code (`OneIsFirst`).

**Dial-backs.** `WaitersStand`: who waits is in the list it registered in; `HandedToOne`: a
connection is in the hands of at most one attempt.

**Session.** `StreamsInv` relates, for each direction, the position of the sender's keystream,
the offsets of what is on the wire and the receiver's position. For `SlotHeard` and
`MutuallyVerified` the wire is read as whole packets, however they are cut (`Packed`,
`Halfway`). `SessionInv` then is `EarlyInv` until the obfuscation is settled, and
afterwards `Framed` (packets are read whole unless a timer has cut one), `Granting` (the hash set is sent before
the acceptance while the dialer waits for it) and `Proving` (keys before signatures, and a
signature before the packet that ends the wait of the other end).

**Selection.** A requested range is `Closed`: it lies in one block, and no gap of that block
sticks out of it. As gaps only shrink, a window computed later is inside it or apart from
it; so `shrink_to_avoid` returns all of a window or nothing, and what it returns
is free. `IcsInv` says that the ranges of all transfers are closed and disjoint and are what
the registry holds.
`SelectorFindsFree` counts turns: a turn that returns nothing was spent on a saturated part
(`Wasted`), and there are fewer of those than `max_blocks`. `Flow` bounds what has been received
by what was missing when it was asked for.

**Streams.** `NattInv`: sent packets carry consecutive numbers (`Numbered`), what is accepted is
the prefix up to the acknowledgement and early packets beyond it (`Accepted`, `Hears`), and
packets under way (`Carried`) or kept for retransmission (`Resent`) are those of the stream.
The theorem has the hypothesis `NumbersSuffice`: a stream does not use up the numbers. It is
needed, `utp.py:160-180` compares numbers as integers: past 2^16 packets a receiver
takes wrapped packets for old ones, a sender takes them for acknowledged, and a wrapped FIN
ends a stream early.

**Discovery.** *Bootstrap*: exactly those who were heard or named are known, and those who
were heard by their own word (`Recorded`); `Offered` says what has been offered at each
stage. *Buddy*: an entry of the registry is
held by a live session, and the newest session of a client is its entry. *Pool*: every failure
counted for a node is a request it left without an answer (`FailsAreSilence`). *Server*: the candidates of a pass that are still to come are not in a
cooldown although the list is older than the failures in it, since only the one that is
tried can fail and none comes twice (`PassIsClean`). *Lookup*: candidates and asked nodes are
dictionaries keyed by the distance, so that no two of them are at one distance (`Keyed`, for
seeds by `FreshAre`, for what an answer names by `FollowedAre`): the endpoint that is found
again from the distance of a responder is the one that answered. `AnsweredAsked` says
that it was searched in the step that recorded the answer, `SearchSent` that results only
come from nodes that were searched.

**Routing table.** `Tree`: no leaf lies below another (`Apart`), every ID has a leaf
(`Covers`), and each contact is in the leaf of its ID, once (`Placed`). A split keeps the tree
and its contacts (`SplitIsTree`) whether it happens once or level after level (`GrownIsTree`).
`closest` is proved from the leaves up: `Best(s, U, …)` says that s lists the closest of U, as
many as are wanted or all of them. A sorted leaf is such a list (`NearestIsBest`), and of
two halves of a zone every contact of the one that holds the target is closer
(`HalvesOf`), so that the other one has only to be appended (`NearFirst`). `InOrderLists`, that
a finite set has a list in any strict order, stands for `sorted()`.

**Transfer.** `ServedAsAsked` is not inductive: that a byte comes once depends on everything
that is still on its way. `BlocksInv` therefore speaks of every packet. `Placed`: what is in
it belongs where it says. `Running`: the packets of a compressed block follow one another,
and what has been gathered ends where the next of them begins. `Separate`: asked for, under
way, gathered and written bytes are apart from each other, with AmuleD's engine or a selector. `Accounted`: `receivedBytes` is
the number of bytes written. `Balanced`: with AmuleD's engine a round waits for exactly as
many bytes as are asked for or under way, so that it never waits for nothing. That the pieces
of a block make up the block comes from the closed form of the splitting loop
(`PieceCount`), with `Products` and `Quotient` for what the solver does not know of
multiplication and division.

**Recursion.** The provers do not instantiate operator parameters, so `Induction` states
induction and recursion over numbers with sets and functions: `LeastNumber`, `AllNumbers`,
`NumbersUpTo`, and `RecursionExists`, that a recursive function over `0..N` has the values its
definition says.

Only model-checked:

* liveness (`RunEnds`, `EventuallyFinished`, `SlotsReturn`, `HeldIsServed`, `StopEnds`,
  `ResumedAfterRestart`, `CommandReturns`, `DialEnds`, `WalkEnds`, `ReachesGood`,
  `WrittenArrives`), which needs fairness and is out of the prover's reach;
* `RecoveryAuthentic` and `DamageRefetched`: the trees of `Hashes` are RECURSIVE operators.

## 6. Where the code departs from what it says

Five runs state a sentence of the repository and are violated:

* `download_run_restarted` — the process is killed after the last block was
  recorded and before `finalize`. The row says `complete`, `run()` returns
  `already_complete` (`core/download/runner.py:1509`) and nothing else calls
  `finalize`: the file stays in `temp/`. README: "resumes after pauses and
  restarts".
* `upload_queue_credit` — `_credit_bonus` (`core/kernel.py:231`) divides the bytes
  sent to a client by the bytes received from it, so that giving lowers a
  client's bonus. `upload/queue.py:24`: "promoting clients that gave us more
  bytes".
* `upload_ghost` — a held client that disconnects stays in the waiting list
  (`core/peer/listener.py:1005`; nothing calls `UploadQueue.cancel`); as the head of
  the queue it blocks every later promotion. `tests/test_listener.py:377`: "when
  the slot holder leaves, the next rank refresh promotes it".
* `parts_unverified` — `_verify_parts_against_hashset` (`runner.py:1227`) drops the
  first part hash, which the parser has already dropped, finds one hash too few and
  verifies no part of a file that has several. README.md:141: "After the transfer
  every part's MD4 is verified against the peer hashset".
* `kernel_reask` — the re-ask loop (`kernel.py:451`) reads `file_hash` from rows whose
  key is `hash` and looks up nothing. `kernel.py:415`: "refresh KAD sources for every
  queued/download entry".

Statements that are in the modules and that TLC refutes; no run repeats them:

* `Hashes!RecoveryServed` — `aich.py:277` counts the leaves of a subtree by dividing its
  bytes, so that for files of nine parts and more the identifiers no longer fit and
  recovery data is refused to the owner of the file. `RecoveryAuthentic` therefore
  speaks of files of up to eight parts.
* `KadPool!SavedInTime` — `spider.py:890` compares the monotonic clock of the loop with a
  wall-clock stamp (571, 896): no periodic snapshot is ever taken.
* `Peer!GraceHarmless` — a timeout of the identification grace is raised by the read and
  fails a handshake that is complete (`client.py:641-646`).
* `Peer!SourcesAnswered` — the capability is announced (`codec.py:177`), and a request
  for sources is answered before the slot request only: a held client gets a rank for it,
  a served one and the drain after it nothing (`listener.py:721` against 964-1004).
* `Kernel!StopsGracefully` — the kernel awaits `IncomingPeerServer.close()`
  (`kernel.py:1328`), which awaits `wait_closed()` before it closes its sessions
  (`listener.py:1451-1458`). From Python 3.12.1 on (`pyproject.toml` asks for 3.12) this
  waits for every accepted connection: while a held client, a buddy or an upload stays, the
  kernel has removed its status file and keeps the database open. README.md:127: "shuts
  down gracefully on Ctrl+C or `amuled daemon stop`".
* `Hashes!MasterVerified` — the audit follows every complete attempt that begins at
  offset 0 (`runner.py:1042`), also a stripe that nothing has verified; for a file of one
  part the cross-check is left out (1283), so that the master of an incomplete file is
  stored (1308), and a source with the same wrong bytes confirms a false one.
  `runner.py:1043-1046`: "store the recovery-verified master".

Exempt from the passing properties by the condition that is named:

* `queue.py:206` the sidecar is saved before the data handle is flushed;
  `partfile.py:287` the sidecar is truncated before it is written; `queue.py:253`
  `punch_gaps` writes the sidecar before the row (`damaged`). `queue.py:300` a move
  across volumes can leave a partial file under the final name (`vouched` excludes
  names whose finalize never returned). `queue.py:150` a finalized download can be
  started again although its part file is gone (`moved`).
* `ics.py:379` `select_blocks` spends a turn on each part that is completely
  requested and has `max_blocks` turns (second condition of `SelectorExhaustive`).
* `runner.py:509` throttled writes are not awaited: the last one can complete the
  row after the run is over; `runner.py:1579` a pause between the last block and
  the reading of the row has the same effect (`EventuallyFinished` speaks of
  undisturbed downloads).
* `listener.py:978` two sessions of one user share one entry, and the promotion of
  one leaves the other held without a place (`Alone`); `listener.py:1120` an error
  in the engine leaves the slot to the rotation; `kernel.py:1094` the rotation does
  not tell the session it takes the slot from; `listener.py:1057` a client promoted
  for a second file is answered for the first (`SlotsAccounted` is about modes without
  errors and second requests).
* `ipfilter.py:256` the kernel and `ipfilter update` at work at once write the same part
  file, so that a list can be cut although no one is killed (`mixed`).
* `listener.py:1207` a source hashes its copy anew for each request: if the copy is damaged
  and its master is the one stored, the source's damaged blocks are taken for good
  (`DamageRefetched` exempts `stored = Source.hash` with `theirs` not empty).
* `client.py:1192-1199` in linear rounds a peer that cuts a round short is not asked for
  the rest of it (`ServedAsAsked`).
* `state.py:1303` a content recorded under two directories has one row, which goes with
  either (`twins`).
* `bootstrap.py:321-358` an answer nobody asked for and a second answer overwrite what is
  known of a node with TCP port 0 and version 0 (`AnswersKept` speaks of whose word is
  kept, not of its ports).

Met while modelling, without a property:

* `client.py:1386` after OUTOFPARTREQS the ranges of the round stay registered and are not
  asked for again in that session. `runner.py:443` the A4AF gate looks at the first and
  last part of each gap, so a peer that has only parts in its middle is refused.
  `runner.py:1605` a healthy peer that found nothing free in a round is pruned with the
  dead ones. `runner.py:1008` parts are compared only when one session alone received
  the whole file.
* `state.py:850-858` sources are cut to a limit in the order of their client IDs before
  `runner.py:561-600` filters them.
* `ipfilter.py:179-195` the first of several overlapping ranges decides.
* `upload/queue.py:216` slots are granted by priority and arrival, ranks computed with
  the bonus too.
* `udp_global.py:309` the receiver stores answers in an attribute that the protocol object
  does not have: no UDP search result is ever collected.
* `nodes_dat.py:119` a version-0 file that ends with its last record is refused.
* `direct_callback.py:211` a callback request to a buddy is framed as a TCP packet, which
  the receiver of datagrams does not take (`Buddy` lets other nodes send them).
* `kernel.py:797` and 564: the republish loop and the command write the same box, and the
  result of one is lost. `cli.py:2233` closes the state object that the process shares.
* `utp.py`: a data chunk that equals `b"FIN"` or `b"SYN"` is sent again as a control
  packet; each retransmission moves its own deadline; the numbers are compared without
  regard to their wrap at 2^16. `Natt` keeps the second and leaves the other two out:
  chunks are not control words, and `Modulus` is larger than what is sent.

## 7. Not modelled

* **ED2K server UDP search** — nothing happens after the request (section 6).
* **QUIC transport** — a wrapper around a library, which does the work.
* **UDP obfuscation, the rest of the wire codecs, MD4 and RSA** — stateless, byte-level,
  tested with vectors.
* **UPnP** — blocking calls to a router. **Safety policy, shield guard, geoip** —
  lookups, whose verdict is one of the ways a peer is refused.
* **Configuration, logging, menu, scripts** — no protocol.
* Inside modelled components: log and progress output, database errors other than the end
  of the process, disk-full refusals (they leave everything as it was), the throttle of
  the engine (it only delays), message texts and server lists of a server session, search
  history and statistics, the publishing schedule and the UDP firewall test of KAD, the
  sweep of the routing table (no caller), persistence of our own ID and of the Kadabra
  weights, several uTP sessions at one socket.
