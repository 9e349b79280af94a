# Ditty in TLA+

A model of the Ditty cache-coherence system: private caches, a last-level cache
with an embedded directory, and three deflection-routed networks between them.
The modules follow the code in `src/hls` (the two HLS handlers and their row
tables), `src/integration` (the SpinalHDL wiring) and `src/hoplite-rt` (the
routers). TLC checks the system on small instances; TLAPS proves, for every
size, the structural invariants, the coherence of the protocol, what its copies
and messages contain, when the directory can be full, what the queues have to
hold, and that the whole implements one memory but for lines that one of three
faults of the code has spoiled.

## 1. The system

| part | code | state | operations |
|---|---|---|---|
| private cache (one per core) | `hls/private_cache.cpp`, table `hls/MSIProtocol_actions.inc.h` | tag and data arrays, one pending request `pr` with its ack counters, one `mshr` | a load or store of the core; FwdGetS, FwdGetM, Inv; Data, Ack |
| LLC and directory | `hls/llc.cpp`, table `hls/MSIProtocol_dir_actions.inc.h` | directory entries, data array, `blocking`, the `pending_request` stream | GetS, GetM, PutS, PutM, replacement of a victim; Data, RespOk, Ack |
| networks | `integration/SystemKernel.scala`, `HopliteRT.scala`, `hoplite-rt/torus.v`, `switch.v`, `mux.v` | output registers of each router | request, forward and response network, each a torus; at every clock edge a router moves up to three flits |
| injection ports | `hoplite-rt/pewrap.v`, `counter.v` | `rate_cntr`, `token_cntr` | a token bucket lets flits in |
| wrappers | `integration/PrivateCache.scala`, `LLC.scala` | `busy`, queues | arbitration between the sources of a handler, fork of a combined request |
| multicast adapter | `integration/RequestAdapter.scala` | `in_reg`, the destination counter | one flit per destination, one after the other |
| router 0 of the response network | `integration/SystemKernel.scala` | round-robin arbiter | core 0 and the directory share it: merge what they send, part what they get |
| memory | `hls/dram_module.cpp` | DRAM | read, write |
| bench and scripts | `hls/sinker.cpp`, `hls/main_splash3.cpp`, `aws/` | - | trace replay, builds |
| latency analysis | `intc_analysis/hoplitert-bounds` | - | offline bounds for the torus |

**Interaction.** A core that misses sends GetS or GetM to the directory on the
request network; when its set is full the same flit carries the write-back of
a victim, which the LLC wrapper forks into a queue of its own. The directory
answers with Data, or forwards to the owner, or invalidates the sharers, on the
forward network; owners answer the requestor (and for GetS the directory),
sharers acknowledge to the requestor. The requestor ends the directory's
transaction with RespOk. While an entry is in transition the directory reads
no new request, but goes on reading responses and write-backs, and keeps the
request it works on in `pending_request`: a write-back that crosses a forward
makes it start over. A request that needs an LLC way recalls a victim first.

**What is hard.** Nothing orders messages of different networks, of different
sources, or the copies of one multicast: forwards overtake the data they
depend on, acks overtake the data that says how many to expect, write-backs
cross forwards and invalidations, both sharers of a line leave before the
directory knows they were sharers. Capacities (ways, queues, one MSHR) are
small. The handlers stop in `assert(false)` for any event without a row.
`PROJECT.json` lists these hazards at their lines.

Below that, a router has no buffers: a flit that turns pushes the one from the
north out of its way, and a PE gets in only where the passing traffic leaves a
gap. Nothing is ever retried, and nobody is told that a receive queue is full.

**What makes each part right.**
Private cache: one place per line, a way for the pending line, MSHR and PR in
step, modified data always handed on, a row for each event.
Directory: entries that cover the copies, exact sharer and ack counts,
inclusion, blocking for exactly one line, a way for every request.
System: one writer or many readers, data values, every request answered; to
the cores it is one memory.
Networks: no flit lost, duplicated or handed to the wrong PE, a bound on its
flight, nobody kept out; of every message one copy for every destination.

## 2. Modules

| module | models |
|---|---|
| `Interconnect` | message records, the three networks as sets, reset |
| `PrivateCache` | one action per row family of `private_cache()` |
| `LLC` | one action per row family of `llc()`, and DRAM |
| `Ditty` | composition, fairness, properties |
| `Transactions` | no code: the inductive invariants of `Ditty`, line by line: who holds what and which messages are under way, and what they contain |
| `CoherentMemory` | abstract: what caches and directory promise the cores together |
| `AckedStores` | `Ditty` with a history variable: what the cores were told of their stores |
| `DittyMemory` | `Ditty` with history variables, its mapping to `CoherentMemory`, which lines the code's faults have spoiled, and what a pending load may still return (`LoadsInv`) |
| `Hoplite` | one torus with its injection ports, one action for a clock edge |
| `TorusTraffic` | a torus whose PEs offer flits at any time |
| `RequestAdapter` | the multicast adapter |
| `Delivery` | abstract: what a network promises the caches |
| `Network` | the response network from adapter to receive queue (`Hoplite`, `RequestAdapter`, arbiter, demux, queues), and its mapping to `Delivery` |
| `MCDitty`, `MCAckedStores`, `MCDittyMemory`, `MCTorus`, `MCNetwork` | values and symmetry for TLC |
| `DittyProofs`, `CacheCoherenceProofs`, `CoherenceProofs`, `CoherentMemoryProofs`, `DittyMemoryProofs`, `HopliteProofs`, `TorusTrafficProofs`, `NetworkProofs` | theorems |

`Ditty` takes the networks to be sets of messages; `Network` shows for the
networks of the code that this is right: `Delivery` is such a set, with the
copies counted.

**Correspondence.** One step is one call of a handler: it consumes a message,
looks the line up, applies the row and makes all its updates and sends. The
row tables are functions (`NextOnInv`, `NextOnDataAck`, `NextOnRespOk`, ...)
whose domain is the set of states that have a row; an event outside the domain
does not happen in the model and is what `NoUnspecifiedEvent` forbids.

- *Cache arrays.* All modelled lines map to one set. The ways are kept by line:
  `tag[c][a]` is the state of a's entry, "I" if no way holds one, and at most
  `Ways` lines are held. The victim is any held line; the code takes the least
  recently used, so every choice of the code is one of the model. `toCore[c]`
  is the last response written to `to_core`, until the core issues again; a
  store is answered without data, `StoreDone`. Contents that no handler will read
  again are set to `Garbage`.
- *PR and MSHR.* `OUTSTANDING_REQUESTS` and `MSHR_ENTRIES` are 1: a record or
  `None`. The core port's `busy` flag is set exactly while the MSHR is taken.
- *LLC.* `dir[a]` is a directory entry, `llc[a]` the contents or `None`, with
  at most `DirWays` and `LlcWays` of them. The victim is any held line.
- *Networks.* `req`, `wb`, `fwd`, `rsp` are sets of records; delivery in any
  order is the choice of the next handler call. No two equal messages are ever
  in flight: a core has one request, and an Ack or Data names its sender.
  `sharer` in a response is a ghost field that tells apart the Acks the LLC
  sends in place of several sharers.
- *Routers.* `xPkt[r]` and `yPkt[r]` are the two output registers of a router,
  `None` if no valid bit goes with them. `Route` keeps the code's equations for
  grants, select bits and valid bits apart, as `switch.v` does. Addresses are
  router coordinates; `src` and `budget` in a flit are ghosts, its origin and a
  count that goes down from the latency bound.
- *Ports of the network.* A port is a destination bit: a core's number, or
  `MaxCores` (16 in the code) for the directory. A cache hands a message over
  with `Send` and reads one with `Consume`; everything between is in `Tick`.
- *Memory.* In `DittyMemory` a line's value is `latest`, permission is the tag,
  a request is the MSHR's. `current[c]` is a history variable: the values the
  line of c's pending load has had since it was requested.
- *Spoiled lines.* Findings 2, 3 and 5 below put a line's contents at risk. The
  history variable `spoiled` has the lines to which one of the three has
  happened since the last store to them: the victim that was written to another
  line's place and the line of that place (`Misplaced`), the line whose RespOk
  was read before the owner's data (`Overtaken`), the line that was read at
  another way than its own (`Misread`). A completed store takes a line out
  again (`Stored`). What the data properties claim they claim of all other lines.
- *Ghosts.* `latest[a]` is what the last completed store gave the line,
  `acked[a]` (`AckedStores`) what the last store acknowledged to a core gave it.
  They differ after a store hit, see finding 1.

**Assumptions that are constants.** Each is something the code does not
enforce; the runs show what depends on it.

| constant | TRUE means | if FALSE |
|---|---|---|
| `TimelyForwards` | a forward reaches its core before the core, having lost the line meanwhile, asks for it again | a stale forward is taken for a new one and meets a state without a row (`private_cache.cpp:367`) |
| `DataBeforeRespOk` | the owner's data reaches the LLC before the RespOk of the core that got the same data | run `LateOwnerData` |
| `DefinedReads` | the LLC's way index, where it is read without having been set, is that of the line looked up | run `UnsetWay` |

One more is built in: once the LLC has taken a request, the write-back of the
same flit is read before any further request (`WritebackDue`). In `LLC.scala`
that write-back is one queue stage behind its request and `wb_in` has priority.
`TimelyForwards` is TRUE in all runs and assumed by the theorems on coherence:
with FALSE, `NoUnspecifiedEvent` fails. What stands behind it is time, the latency of a
forward against that of an eviction and a miss, which the protocol model does
not have. No theorem assumes the other two; `Evict` has both FALSE.
`Workload` bounds the lines each core accesses.

## 3. Runs

| run | instance | question |
|---|---|---|
| `Reorder` | 3 cores, 1 line, `DataBeforeRespOk` FALSE, fair | races for one line under full reordering: single writer, rows for every event, the inductive invariant without `DataBeforeRespOk`, every request answered |
| `Evict` | 2 cores of 1 way, 2 lines, 2 values, `DataBeforeRespOk` and `DefinedReads` FALSE | evictions crossing requests and forwards: contents in caches, LLC and DRAM; requests and write-backs fit their queues; `Ditty` implements `CoherentMemory` |
| `Replace` | 3 cores of 1 way that share a line, one of them with a second line, 1 LLC way | recalls of victims: directory against caches, counts, inclusion, blocking, responses and forwards under way, and the invariant `OrderedInv` |
| `Capacity` | 2 cores of 1 way, 3 lines, 2 directory ways, 2 LLC ways, fair | evictions and recalls of lines for one another: a request lacks a directory way only before a write-back of its core, a cache never lacks the way it reserved, `OrderedInv`, every request is answered |
| `Torus` | 2 x 2 routers, a token every 2 cycles, bucket of 2; every PE sends to router 0, router 0 to itself and to the far corner | flits conserved and in place, flight time, burst |
| `Network` | 2 x 2 routers, 2 cores and the directory, receive queues of 2 | adapter, arbiter, routers, demux and queues implement `Delivery`; every multicast ends |
| `LostStore`, `ReplaceAddress`, `LateOwnerData`, `DirectoryFull`, `UnsetWay`, `SelfFlight` | 2 cores; for the last a 2 x 2 torus with bucket and period 4 | the findings below |

**Bounds.** No counter is cut off: the state is finite because a core has one
request. Three cores on one line are needed for an invalidation, an upgrade
and a forward to involve three parties; two lines and one way make every miss
an eviction; one LLC way with two lines makes every miss of the other line a
replacement. The number of values matters only to the data properties: two
tell the last store from an older one, and runs about states have one. The
directory has `Ways` x cores ways in all runs, as `DIR_NWAY` in the code, and
so cannot overflow with two lines; `Capacity` adds a third.
Of the networks, 2 x 2 is the smallest torus in which a flit turns, is
deflected and makes a round in either direction; router 0 is where all requests
meet and where two ports share a router. `Torus` lets every PE offer any of its
flits at any time, so that every pattern at the inputs of a router occurs.
`SystemKernel.scala` sets bucket and period both to the number of routers, as
equal as in `Torus`, where 2 stands for 4: with 4 the traffic has too many states
to finish in reasonable time. `SelfFlight` has the 4 of the code, and
`TorusTrafficProofs` has every size. `Network` needs two copies owed to one port at once, and
three senders for two to meet at router 0 while the third is served. No counter is
cut off there either: `Send` keeps to what the receive queues hold. Its LLC sends
data to core 0 with bit 31 set as well as clear.
Deadlock is checked in every passing run.
Symmetry is used without liveness only, over cores (and lines) that the
workload treats alike.

**Fairness.** Weak fairness for delivering a forward to a core, a response to
a core, a write-back and a response to the LLC: the routers deliver within a
bound, handlers run whenever a stream has data, and the arbiters prefer
sources that hold a bounded number of messages. Strong fairness for each
core's request at the LLC: `req_in` is a FIFO, which blocking disables now and
then. Cores are not obliged to issue requests. In `Network` only the clock is
fair (`ClockRuns`); caches need neither send nor read.

**Refinement.** `ImplementsMemory`: every step of a handler is a step of the
abstract memory or none. A store completes at one moment, when no other core may
read the line; a load returns a value the line had between its request and its
answer, which for data that crosses an invalidation (state IS_DI) need not be
the latest. A load of a spoiled line may return anything, which is the action
`Spoil` and the parameter `unreliable` of `CoherentMemory`. A
store that hits a modified line is answered and has no effect (`StoreHit`), as in
the code: that is finding 1, and the run `LostStore` is about it.
`ImplementsDelivery`: each
clock edge moves copies from "under way" to "arrived" or does nothing; a copy
that is lost, made twice or handed to the other port of router 0 is no step of
`Delivery`.

**Findings.**
1. `LostStore`: the row (Store, M) acknowledges without `data_insert`; the
   stored data is lost. The data properties hold for `latest`, that is, for
   stores that complete through a miss or an upgrade.
2. `ReplaceAddress`: replacing a line only the LLC holds writes its contents to
   the requested line's DRAM address (`llc.cpp:400`).
3. `LateOwnerData`: the rows (DirDataResp, MS_D) and (DirDataResp, MI_D) drop
   the owner's data. With two lines the same order also brings a PutS to MS_D,
   which has no row.
4. `DirectoryFull`: a request read before its own write-back can find a full
   directory (`llc.cpp:297`).
5. `UnsetWay`: a GetS in V is answered from an unset way index (`llc.cpp:287`).
6. `SelfFlight`: `inflight_latency` (`runnoc.py:380`) gives 2 cycles for a flit to
   its own router, which `switch.v:64` sends round the column. Core 0 and the
   directory send each other such flits.

`Evict` has an LLC way for each line and so keeps clear of 2, which
`ContentsInvariant` and the theorems after it have not left out.

**Latency analysis against the routers.** What the models show next to the scripts
in `intc_analysis/hoplitert-bounds`, and to `counter.v`:
- `inflight_latency` is kept to by flits between two routers. One for its own
  router needs up to the round of the column, deflected in every row, on top
  (`Round`): that is `FlightBound`, which holds, and without `Round` it is
  `WithinLatency`, which does not (finding 6).
- The comment in `counter.v:6` calls `MAX_TOKEN` the "max burst of consecutive
  packets". The bucket lets out more: one flit for which the token comes in the
  cycle of its last one, and those that come while it empties. A bucket and
  period of 4 let out 6 in a row. `BurstBound` is the bound that holds for every
  bucket and period.
- How long a PE waits for its gap in the traffic, which `calc.py` computes from
  the flows' regulations, is not checked: only that in `Network` the wait ends.
- Flits between the same two routers may overtake each other: the first is
  deflected, the second is not. `Delivery` therefore promises no order.

## 4. Proofs

Proved for all values of the constants, from the assumptions in the modules
only (finite sets of cores and lines, distinct special values, at least one
way; on the torus, at least one router, token and cycle per token; in the
network, ports for core 0 and the directory, and a router for every core). Where a
theorem needs one of the constants of section 2 to be TRUE it says so.

**Each component.** `Inv` = types of the messages, `CacheInv`, `LLCInv` needs
none of them:

- `CacheInv`: types, `HitExclusive`, `WaysFit`, `MshrMatchesPr`, and
  `ForwardeeKnown` (a pending line that owes a forward has recorded to whom).
  `WaysFit` needs the others: when a completed line takes its way, PR must give
  one up (`MshrMatchesPr`), and the line must not be counted twice
  (`HitExclusive`). `ForwardeeKnown` makes the data sent on completion a typed
  message.
- `LLCInv`: types, `Inclusive`, `BlockingDiscipline`, and `OwnerKnown` (states
  in which a forward goes to the owner have one). Data sent from the LLC is
  typed because of `Inclusive`; a replacement is not started while a line is in
  transition because of `BlockingDiscipline`, so no two transactions share the
  `blocking` flag and the one pending request.

A component's handler preserves its own part and the message types whatever
well-typed messages the others send; `DittyProofs` combines the two halves
(`NextInv`), and its theorems `TypeCorrect`, `NoDoubleHit`, `PendingLineHasWay`,
`MshrAgreesWithPr`, `LLCInclusive` and `DirectoryBlocks` follow from
`InvInvariant`. `Inv` is part of `CoherenceInv`, which `Reorder` checks.

**Coherence.** `CoherenceInv` (`Transactions`) is inductive if forwards are
timely, and nothing else is assumed: `CoherenceInvariant`. A property such as
one writer or many readers says nothing of the messages that will make the next
copy, so it is far from inductive; `CoherenceInv` accounts for all of them:

- What a core is to a line is one of a few roles, which exclude one another:
  `Absent`, `Sharing`, `Owning`, `Leaving` (its write-back is on its way),
  `Expecting` and `Receiving` (served by another core), `Collecting`
  acknowledgements, `OwningFor` (it owns the line and owes it on). Each says
  what the tag, PR, the request network, the write-backs and the data under way
  to that core are, in full.
- `HoldersInv(a)` says for every state of a's directory entry which roles the
  cores have, and what is on its way to the LLC. Examples: in S the sharers
  share or are leaving; in MM either the former owner still has to hand the
  line over and the new one expects it, or it has the line and the RespOk is on
  its way; in SM the new owner has counted, or is owed, exactly as many
  acknowledgements as the directory promised (`Debtors`), whichever of Ack, Inv
  or PutS stands for each.
- `ForwardsInv(a)`: a forward is either stale, its core having given the line
  up, or is the one the transaction in progress waits for; and none is under way
  to a core that will have the line when the transaction ends. The second half
  is what makes a stale forward harmless, and `TimelyForwards` what keeps it so
  when the core asks again.
- `RequestsInv`: an unserved request is its core's only one, and the one PR
  waits for; a request put aside for a replacement is still unserved.
- `SharerCount` belongs to it: last-PutS and last-Ack rows are chosen by the
  count alone.

`CacheCoherenceProofs` begins with the frame: a step that changes nothing of
what a role speaks of keeps the role (`SameCoreKept`), and one that keeps all
roles, the entry and what is on its way to the LLC keeps `LineInv`
(`LineKept`). Each handler then changes the roles of one core (a cache's) or
the entry of one line (the LLC's), and has one lemma per row family:
`CacheStepCoherent` collects those of the caches, `DirectoryStepCoherent` in
`CoherenceProofs` those of the LLC. From the invariant follow `SingleWriter`,
`CopiesCovered`, `SharersCounted`, `AcksConserved`, `ForwardsAreSettled` and
`CollectorsUndisturbed`.

`EveryEventSpecified` says that every message finds a row, but for one: if the
RespOk of a GetS is read before the owner's data the entry gets to MS_D, which has
none for PutS (`OnlyLatePutSUnspecified`, finding 3). It needs that RespOks go to the
LLC only (`RespOkToDirectory`). TLC checks `CoherenceInv` in `Reorder`, where
`DataBeforeRespOk` is FALSE, and in `Replace` and `Capacity`, where it is TRUE, with
the further conjunct that MS_D and MI_D are never entered (`OrderedInv`); there and
in `Reorder`, whose one line is never evicted, `NoUnspecifiedEvent` itself holds.

**The directory's capacity.** `CapacitySuffices` (`FullOnlyBeforeWriteback`)
assumes `DirWays >= Ways * Cardinality(Cores)`, which the code has with equality,
and says that only a request whose core still has a write-back on its way can find the
directory full; finding 4 is that this case happens. When the LLC may read a request no entry is in
transition, so by `CoherenceInv` every entry is accounted for by a core that
shares, owns or is leaving the line (`Covered`). A core accounts for no more
than `Ways` lines: those it holds, which `WaysFit` bounds, and one more, either
the line it waits for or the one it writes back. It cannot be both, because the
write-back is not read before the request of the same flit is gone from the
network, and while the request is there its line has not been granted; for this
one has to know that an upgrade, whose line is still counted as shared, evicts nothing
(`UpgradesInv`). The core whose request is read has, if its write-back is done,
a way for the line it asks for, hence one line less (`RequestorFits`). Counting
over the cores (`CoverBound`) leaves a way.

**The queues.** A message that finds a receive queue full is lost. A core has one
request under way (`RequestsInv`), but nothing in that bounds the write-backs:
what a request leaves behind when the LLC takes it could add up. `RequestsBounded`
(`RequestsFit`) adds `OneDue` to `CoherenceInv`: at most one write-back has been
left behind, because the LLC reads it before the next request (`WritebackDue`);
every other goes with its core's request (`RequestsCounted`). The numbers for 16
cores, 16 requests and 17 write-backs, fit `req_in` and `wb_in` with `pre_wb`
of `LLC.scala`, each 16 deep.

`ResponsesBounded` (`ResponsesFit`) bounds the responses to one destination by
the number of cores. To a core they are the datum and an ack from each other
core, all for the line its PR waits for (`ResponsesToCore`). To the LLC all are
for the line in transition (`ResponsesToDirectory`): an ack from each sharer, or
the owner's datum and a RespOk, which are two. A GetS of the owner itself would
break this on one core: `TwoCores` says that it does not happen.

`ForwardsBounded` (`ForwardsFit`) is weaker: one forward for each core and line.
There is no bound by the number of cores: an Inv may still be under way
to a core that has left the line, the sharers' PutS having ended the directory's
transaction, and every line adds one; TLC finds more forwards than cores in the
instance of `Capacity`. That 16 places are enough for those is a
matter of the time forwards take, which this model does not have.

**Contents.** `DittyMemoryProofs` proves that `ContentsInv` stays true beside
`CoherenceInv`: for every line that is not spoiled (`Current`) a readable copy has
the line's `latest` value, and so have the datum on its way to a requestor and
what a core that collects acknowledgements has put by (`DataCurrent`), a PutM, and
the owner's datum for the LLC (`WritebacksCurrent`), the LLC's own contents in the
states in which it will serve or keep them, and DRAM once it has nothing
(`MemoryCurrent`). Only the end of a store changes `latest`, so the crux is that at
this moment nothing with the old contents is left that anyone will read: the core
that completes is the line's only holder in the sense of the roles above, no other
datum or PutM for the line is on its way, and the LLC's copy is not one to be
served. All three follow from `LineInv`. That is also why a completed
store takes a line out of `spoiled`. The second conjunct of `ContentsInv` is that a
line whose late data the LLC still waits for is spoiled: no store to it completes
before they come.

`CopiesCurrentUnlessSpoiled` (`CopiesUnspoiled`) and `MemoryCurrentUnlessSpoiled`
(`MemoryUnspoiled`) follow. They are about `MemorySpec` as it is, with
replacements, owner data in any order and any way read in V, and any number of LLC ways;
each of the three faults costs the line it meets until its next store, and no
other. `DirtyDataKept` (`DirtyDataHandedOn`) is about all lines: what it uses of
`CoherenceInv` is that the message a modified line is handed on with is a new one,
not one that was under way before.

**The memory.** `Implementation`: `MemorySpec` implies `ImplementsMemory`, each
handler call being a step of `CoherentMemory` or none. `SingleWriter` gives that
a store completes when no other core has permission. For loads it takes
`LoadsInv` (`DittyMemory`): the datum a pending load will be answered with is
one of the values the line has had since the request, which `current` records.
For a load that nothing has crossed it is the latest; for one in IS_DI it is the
only datum under way to that core (`Granted`), sent before the store that
invalidated it completed, and stays in `current` when `latest` moves on. While a
load's line is spoiled `current` has every value.

`CoherentMemoryProofs` shows what this is worth: in every state that the
abstract memory can reach permission to write excludes every other permission
(`MemoryExclusive`).

**The torus.**

`HopliteProofs` has lemmas on what a clock edge does to a torus, whatever its PEs
offer. `TorusTrafficProofs` proves of any size what `Torus` checks on 2 x 2:
`TorusTypeCorrect` (tokens stay within the bucket), `TorusDelivers`,
`TorusFlightBounded`, `TorusBurstBounded` and `TorusConserves`. The bound on the flight is not
inductive: it says that some of the budget is left, not that enough is. What is
inductive (`InputsOK`) is that the budget of a flit that comes into a router
covers the way it has to go if it is deflected in every row: for one from the
west the columns and, for every row, a step south and a round of it; for one
from the north, which may be deflected at once, a round more. The budget is the
ghost that `Offered` sets from `InflightLatency` and every clock edge lowers, so
it is exactly at its start that runnoc.py's formula is used; a flit for its own
router has a deflected round of its column on top (`Round`). The bound on the burst,
`(burst - 1) * (MAX_RATE - 1) <= MAX_RATE * MAX_TOKEN`, needs the tokens that are
left and the time since the last one came beside it (`BurstOK`), and nothing about
bucket or period.
Conservation (`TorusConserves`) needs no history: of a router's three inputs at
least one is absent or not accepted, and the other two are what it registers, in
one order or the other, whatever the inputs are (`RoutePermutes`, from the
conditions that switch.v lines 67 to 79 compute apart). Nothing is assumed of
the traffic.

**The response network.** `NetworkTypeCorrect` proves the types of `Network`, the
depths of its queues among them, from `TypeInv`: an adapter that is not ready
holds a message for ports, the arbiter stays locked only on a port that still
asks (so that what it grants is there), and south registers hold a flit just if
one of their valid bits is set. `NetworkDelivers` proves `ImplementsDelivery`
from `CopiesInv`, which adds

- `FlitsAddressed`: every flit in a queue or a register is a copy from some port
  to some port; destination router and bit 31 then name one port only
  (`CopyUnique`), and demux and torus agree on it (`PortOfCopy`,
  `FlitsInPlace`);
- `QueuesHold`: what is under way to a port and what is in its queue together do
  not exceed the queue, so that a copy that arrives finds room
  (`RoomForArrival`), as nothing would stop it (`toExt.ready` is ignored).

For any two ports the copies from one to the other are in three places, and a
clock edge moves a copy from the first to the second when the adapter's flit is
taken (`MakeStep`), from the second to the third when the torus accepts it
(`LeaveStep`, `AcceptedCopies`), and from there to the receive queue
(`FlightStep`, `ArriveStep`). All may happen in the same edge. That registers
neither lose nor duplicate copies is `ClockConserves`: what a router takes in it
registers, and every register is read by one router only. `Owed` sums over the
ports without recursion, as the size of a set of pairs (`Total`).

Every sender clears bit 31 but the LLC in its data for a core
(`llc.cpp:501`), for which either value is allowed (`BitAssumption`). A copy reaches
the port that its destination and the bit name together (`Named`): with the bit set, data for core 0
comes to the LLC, once and whole, and `ImplementsDelivery` does not say that
this is the port it was meant for. `BitsApart` keeps two copies of one message from meeting in one
port. That `Send` hands over only what the destination's queue can hold is part of
the model, and up to the protocol (`ResponsesFit`). Torus size, ports, depths and
workload are arbitrary. TLC has checked `CopiesInv` in the instance of `Network`.

**Model-checked only.** Liveness (`RequestServed`, `MulticastEnds`) is outside what
the prover supports. `OrderedInv` and `NoUnspecifiedEvent` hold only where their
runs say, and are not theorems. `AckAccounting`, `Inclusive` and the other
invariants of the passing runs are proved.

## 5. Not modelled

- The contents of flits in the network modules, and the request and the forward
  network as such: they are the response network without arbiter and demux.
- Simultaneous reset of the parts: every module starts in the reset state.
- Where data should go that the LLC sends with bit 31 set: `ImplementsDelivery`
  follows the bit (section 4), nothing claims that core 0 gets its data.
- Time in the protocol: that a stale forward arrives before the core asks again is
  the constant `TimelyForwards`, and nothing covers what happens otherwise.
- The GP variant of the protocol (`isGP`, `GPMSIProtocol_*`): its tables are
  not in the repository.
- The software reset of the handlers: it runs once, before the first request.
- The DRAM kernel: of `dram_module.cpp` the model has a memory that answers with what was
  written last.
- Bench and scripts: no protocol state. Of the latency analysis only
  `inflight_latency` is; its waiting times are arithmetic without a state.
- Bit widths: `pr_acks` holds 0..15 and at most 15 acks are ever due with 16
  cores; addresses and tags are model values.

## 6. Plan

1. Done: networks, private cache, LLC and directory, their composition; the
   invariants of each component proved.
2. Done: the abstract memory and the refinement; the routers with their token
   buckets; adapter, arbiter, demux and queues and their refinement.
3. Done: proofs about `Hoplite` for every size: token counts and burst,
   `FlitsInPlace`, and `FlightBound` by the distance a flit can still have to go.
4. Done: the message accounting (`Transactions`) behind coherence, directory
   precision, the ack counts and `NoUnspecifiedEvent`, proved for every size.
5. Done: the contents of copies and messages (`ContentsInv`), for `DataValue`
   and `MemoryValue` of lines that no fault has spoiled, and the refinement of `CoherentMemory`.
6. Done: when the directory can be full, from the lines each core's ways and
   write-backs account for.
7. Done: the torus' conservation of flits.
8. Done: the types of `Network`, and that it implements `Delivery`.
9. Done: what the receive queues have to hold, for requests, write-backs and
   responses by the number of cores, for forwards by core and line.
10. Left: a bound on the wait for a token that depends on the flows alone, as
   `calc.py` computes one, and a model of time that would justify
   `TimelyForwards`.
