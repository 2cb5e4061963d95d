# A TLA+ model of ibmad

`ibmad` is a Rust library that talks to an InfiniBand or NVLink fabric through
the Linux user MAD interface: it discovers a subnet with directed-route SMPs,
reads performance counters, and contains a fabric simulator that answers on the
other end of a pair of named pipes. An example does the same discovery with
concurrent tasks. This directory holds TLA+ modules that
model it, TLC configurations that check them on small instances, and proofs for
TLAPS. Paths below are those of the crate: `discovery/lib.rs` stands for
`src/src/discovery/lib.rs`, and so on.

## 1. The system

| component | code | state | operations |
|---|---|---|---|
| transport | `discovery/lib.rs` `next_tid`, `send_and_match_with_retries`; `mad/mod.rs` `send`, `recv`; `mad/types.rs` | `Fabric.tid`, three counters, the locals of a call, the port file | draw an id, send, poll, read, match, retry with a doubled window |
| node discovery | `discovery/lib.rs` `discover_node`, `populate_node_ports`, `attach_port_to_node`, `fetch_*` | `node_map`, `nodes`, the `Node` and `Port` records | fetch NodeInfo, NodeDesc, each PortInfo; build and enter a node |
| InfiniBand traversal | `discovery/ib.rs` | the queue of ports, `remote_port` links, `switches`, `hcas` | breadth-first walk, first hop, linking, categorization |
| NVLink traversal | `discovery/nvlink.rs` | the same | depth-first walk of the ring ports, one probe of every other port of a switch |
| performance query | `mad/mod.rs` `query_port_counters_extended` | the port file; a process-wide id counter | one write, one read |
| simulator: responder | `sim/mod.rs` `run`, `process_one_umad` | the simulated nodes and ports | follow the route of an SMP, build the reply; look up a LID for counters |
| simulator: builders | `sim/mod.rs` `connect_ports`, `build_*` | `remote_port` of the simulated ports | add nodes, join ports |
| device selection | `ca.rs` `get_ca_dev_paths`; `mad/mod.rs` `open_port`, `open_smp_port` | four best candidates, then three paths in `IbCa.dev_paths` | go through a directory in any order, choose, open |
| adapter inventory | the rest of `ca.rs` | files under `/sys` | read them |
| agent registration | `mad/mod.rs` `register_agent` | one ioctl | |
| attribute layouts | `mad/{helpers,port,perf,node,dr_smp,types}.rs`, `enums.rs` | none | bytes to fields and back |
| asynchronous example: tasks | `examples/async_discovery.rs` `main`, `start`, `IbMadPortAsync` | three bounded channels, the map of open requests, readiness of the file | build, send, write, wait, read, expire |
| asynchronous example: crawl | `examples/async_discovery.rs` `process_response`, `recv_*` | the fabric it builds, the nodes it has visited | handle one answer, which makes more requests |
| other examples | `examples/simple_*.rs` | | send one MAD and print the answer |

**How they interact.** A traversal calls `discover_node` or `fetch_node_info`;
each fetch draws a transaction id and makes one call of
`send_and_match_with_retries`; that call writes 320-byte records to the port
file and reads records from it until one carries its id. The other end of the
file is the kernel or the simulator, a thread of its own. Everything on the
caller's side of the library is one thread, so the concurrency is between this
thread, the responder, the clock, and whoever changes the cabling. In the
asynchronous example a main loop, a send task and a read task pass messages in a
circle; hundreds of requests are under way, and the clock expires them.

**What is hard.** Replies that are late, lost, short or left over from an
earlier call, and an id that is all they are told apart by; two blocking
writers on two finite pipes; a window that is doubled in a `u32`; partial
failures in the middle of a node; links that are found from both ends at
different times and from NodeInfos that are asked for twice; a fabric that
changes between two exchanges; a second discovery on the same `Fabric`; routes
at their last entry; a simulated fabric whose connections overwrite each other.
In the example: three bounded channels in a circle; one poll for each request,
though a poll may get the answer to another; requests that expire while they
wait to be sent; answers out of order. `PROJECT.json` lists each hazard with its line.

**What makes each part correct.**
*Transport*: a call returns the reply to its own request or an error, always
returns, stays within its retries, counts what it did.
*Node discovery*: the map and the list agree, no node twice, a gap leaves a
trace in a counter, a switch's ports carry its LID.
*Traversals*: exactly the reachable graph without failures, only true and
symmetric links with them, redundancy where the fabric has it, termination.
*Performance query*: answers in order, with a lag that is accounted for; no mutual
block as long as queries take what is there.
*Device selection*: independent of the directory's order; SMPs and other MADs apart.
*Tasks of the example*: each request closed once and by its id, the end only with
none open, no mutual block below a stated load, no hang without a cause.
*Crawl of the example*: the whole fabric whatever the order of answers, no more
requests than its size asks for.

## 2. Modules

```
A <- B : B builds on A                       A <== B : B implements A

Rpc <== MadTransport <- MadTransport_proofs

Collections, DirectedRoute <- NodeRecord <- NodeDiscovery
NodeDiscovery <- IbDiscovery     <- MCIbDiscovery
NodeDiscovery <- NvlinkDiscovery <- MCNvlinkDiscovery
IbDiscovery, StandardFabric      <- MCStandardFabric

PerfQuery           <- MCPerfQuery
PerfQuery, DevPaths <- PerfSession <- MCPerfSession, PerfSession_proofs

Outstanding <== AsyncPipeline  <- AsyncPipeline_proofs
Outstanding <== AsyncDiscovery <- MCAsyncDiscovery
Collections, DirectedRoute <- AsyncDiscovery

DirectedRoute_proofs <- NodeDiscovery_proofs <- IbDiscovery_proofs, NvlinkDiscovery_proofs
DirectedRoute_proofs <- AsyncDiscovery_proofs
```

**`Rpc`** is the abstract specification of one call of
`send_and_match_with_retries`: it is invoked, and it returns the answer to this
very request or an error. The discovery modules use an exchange in just this
form, so that what is proved of the transport is what they rely on.

**`MadTransport`** is the transport with the responder. `tid` is `Fabric.tid`;
`pc` is where the call is (`send`, then `wait` before and `polled` after its
first `recv` of an attempt, then `idle`; `panic` where a debug build panics);
`toSim`, `inSim`, `toClient` are the two pipes and the record the responder
works on. `Begin` is `next_tid` with the head of the call; `Send`, `SendFails`
are `mad::send`; `DeadlinePassed` is the test at the head of the receive loop
and `PollTimedOut`, `ShortRead`, `MatchReply`, `DiscardReply`, `RecvError` are
the arms of the match on `mad::recv`. `AttemptOver` is the end of an attempt, with the doubling of the window and its
overflow. `SimRead`, `SimReply`, `SimDrop` are the loop of `sim::Fabric::run`;
`KernelTimeout`, which is external, is the bare header a umad device delivers
for a request nobody answered. A record is reduced to its id; `req` in it, the
serial of its call, is a ghost that no guard of the model reads.

**`Collections`** has the two things the code does with its maps and iterators,
`HashMap::insert` and `filter`, in a form that can be proved about.

**`DirectedRoute`** has routes (`initial_path`, with entry 0 unused by a route
that starts at a channel adapter) and `Arrival`, the path traversal of
`process_one_umad`, as a recursive function over the entries, each of them one `Hop`. The port the
agent is at is a variable that is chosen at the start from `RootPorts`, so that one
run covers agents on adapters and on switches. `Ball` is the
reference definition of reachability that the traversals are held against; it
knows nothing of routes.

**`NodeRecord`** has `Attach`, which is `attach_port_to_node` with the LID
rules, and the filter for ports worth following.

**`NodeDiscovery`** is `discover_node` with everything it calls. One step is
one MAD exchange, so the fabric may change between any two of them. A traversal
sets `job`; `FetchNodeInfo`, `FetchNodeDesc` and `FetchPortInfo` move it on;
the traversal takes over again when `job.phase` is `found` or `lost`. `Outcome`
is what an exchange can end in: what the fabric answers, or, as often as
`MaxFaults` allows, `TimedOut`, `InvalidInput` or another error. `Unplug`, an
external action, removes a cable at any moment. The module also holds the part
of the loop that both traversals share and the properties of the graph.

**`IbDiscovery`** is `seq_discover` with `first_hop_discovery_ib`. `Traverse`
pops ports until one can be followed; `Probe` is the loop's own NodeInfo;
`LoopFound` and `LoopLost` are the return of `discover_node` to the loop.

**`NvlinkDiscovery`** is `seq_discover_nvlink` with
`first_hop_discovery_nvlink` and `discover_connected_nodes_nvlink`. Ports 73
and 74 are the constant `RingPorts`. The set of visited nodes that the code
keeps is never read and is left out.

**`PerfQuery`** is `query_port_counters_extended`, called again and again, with
the counter branch of the responder. Its transaction id is drawn and sent but
never compared, so the model does not have it. `window` is `total_timeout_ms`, computed
by `TotalTimeout` in saturating arithmetic. `Send` and `SendFails` are `mad::send`; `mad::recv` ends
in `OutOfRange` (the window is longer than `poll` accepts), `RecvFails` (`poll` or `read`
fails), `PollTimedOut`, or `Receive`, of which the first two read nothing even if an answer is there.

**`DevPaths`** is the device part of `get_ca` with `get_ca_dev_paths`,
`open_smp_port` and `open_port`. `best` is the four options the loop keeps, an
option being a set of at most one entry; `Visit` is one turn of the loop, in any order;
`Slots` says which of the options a device file is a candidate for; `Select` is the end of the function
and `ReadDirFails` its `?`. An opening may fail. That `open_port` falls back to
the SMI device is in the model but never happens: every umad device is already
the second choice for the first path.

**`PerfSession`** composes the two in the way of `tests/discovery.rs:700-830`: an
adapter is looked up, ports are opened, and the port of `open_port` is queried.

**`StandardFabric`** computes the cabling `build_standard_fabric` leaves behind.
`ConnectPorts` overwrites `remote_port` at the two ports it is given and leaves
what the ports connected before remember of them. `MCStandardFabric` lets
`IbDiscovery` discover the result.

**`Outstanding`** is the abstract specification of the example's bookkeeping:
requests with ids of their own, open until answered or expired, the oldest
first, and no end while one is open. Two modules implement it, each with the
half of the example the other one abstracts from.

**`AsyncPipeline`** is the tasks: `Main` (`Build`, `SendRequest`, `LoopHead`,
`ProcessResponse`), the send task (`TakeRequest`, `WriteRequest`, `AskForRead`) and the
read task (`StartPoll`, `Read`, `ReadFails`, `PollTimesOut`, `WaitFails`, `PutResult`), between them
`tx_chan`, `recv_chan` and `res_chan`. The device answers in any order
(`Arrive`) and AsyncFd learns of it later (`SeeEvent`), which matters because the
readiness is cleared after each read. An answer is about nothing here: its
handler builds any number of requests up to `Fanout`. Expiry is by age; a poll takes as
long as a request lives, so what was built before the poll that timed out has
expired, and of the rest a prefix may have.

**`AsyncDiscovery`** is the crawl: one step per message main takes, which is
atomic in the code since main handles a message to its end. `ProcessAnswer` is
`process_response` with `recv_nodeinfo`, `recv_nodedesc` and `recv_portinfo`,
`ProcessTimeout` expires the oldest requests, `LoopEnds` is the exit of the loop.

Properties are at the end of each module. Definitions that begin with the word
*Mutant* in their comments are not part of the model: each is a plausible
mistake in one definition (a dropped guard, a missing reset, an off-by-one, a
swapped order), kept to show that some property notices it. `PROJECT.json` says
which property notices which, and maps every definition to the lines it models.

## 3. Runs

Each run is `tlc -config <cfg> <module>`. "States" are distinct states.

| run | cfg | states | what it asks |
|---|---|---|---|
| `transport_wrap` | `MadTransport_wrap` | 150 thousand | late, lost and short replies against retries while the ids wrap; windows that reach the end of a `u32` |
| `transport_live` | `MadTransport_live` | 44 thousand | pipes of two records: no mutual block, every call returns |
| `ib_host` | `MCIbDiscovery_host` | 411 thousand | all 764 cablings of three switches and a host, agent on the host or a switch, with at most one failed exchange |
| `ib_changes` | `MCIbDiscovery_changes` | 56 thousand | a failed exchange, an unplugged cable, a second discovery, short routes, ports in state Init; termination |
| `ib_allports` | `MCIbDiscovery_allports` | violation | the comment on which ports are used, see section 5 |
| `nvlink_host` | `MCNvlinkDiscovery_host` | 2.0 million | all 2620 cablings of three ring switches and two more nodes, agent on the host or a switch, with at most one failed exchange |
| `nvlink_changes` | `MCNvlinkDiscovery_changes` | 49 thousand | a ring, a failed exchange, an unplugged cable; termination |
| `perf_session` | `MCPerfSession` | 310 thousand | every order of eight directories, devices that do not open, queries that time out or fail while their answers are on the way; a file with room for one record each way, and what it takes for a query and the responder to wait for each other |
| `perf_stale` | `MCPerfQuery` | violation | an answer is about the port asked for, see section 5 |
| `async_tasks` | `AsyncPipeline` | 1.0 million | the three tasks with a lost answer, a late one, a failing read or wait |
| `async_crawl` | `MCAsyncDiscovery` | 553 thousand | four fabrics, answers in order or not, expiry |
| `standard_fabric` | `MCStandardFabric` | 16 thousand | the discovery of the builder's fabric with at most one failed exchange |

What they show:

* **Transport.** A call never takes a reply to another call (`AcceptedReplyIsOwn`).
  After a success nothing of an earlier call is left in the pipe (`DrainedOnSuccess`),
  because the pipe keeps its order and stale records are read on the way to the
  right one; this is also the reason why ids may wrap. No call puts more than
  `Retries + 1` records on the wire (`RetryBudget`). `mads_sent` counts calls and
  misses only those counted in `mad_errors` (`CountersAddUp`). The transport
  implements `Rpc` (`KeepsPromise`, and `KeepsPromiseLive` with its fairness).
  With windows that all fit a `u32`, as those of the run do, a debug build panics at the end of the last
  attempt only, in place of the `TimedOut` it would return (`PanicIsLate`); of the two timeouts of the
  run one makes the last doubling overflow and the other does not.
* **InfiniBand.** Without a failure the discovered nodes are exactly those within
  reach of a route and the links exactly the cables of the traversed switches
  (`Complete`), also in a second discovery and where routes are too short for some
  nodes, which a traversal by longer routes than the shortest would miss. With a
  failure and with a cable unplugged on the way,
  links still are cables and recorded at both ends (`LinksTrue`), no link between
  two traversed switches is lost by one failure (`LinksSurviveOneLoss`), a recorded node that
  lacks a port other than port 0 was counted (`GapsAreCounted`), and the collections agree (`Enumerated`).
  A switch's LID reaches its ports (`LidPropagated`).
* **NVLink.** Where only ring ports join switches, a discovery from an adapter finds and
  links everything (`RingComplete`; of one from a switch, whose own ports are never
  pushed, it claims nothing); a closed ring (each part of it is joined to the rest by two
  cables) is walked from its other side when one exchange
  is lost (`RingSurvivesOneLoss`); a discovery that knew its first node is given
  up only when a port was left out as invalid, and that was counted
  (`GivenUpForCause`).
* **Both traversals** end whatever is lost or unplugged (`Terminates`).
* **Performance query.** An
  answer is late by no more queries than have returned without reading anything
  (`LagIsBounded`): while every query reads its record, matching is not missed.
  A query's write and the responder's can wait for each other for ever (`Embrace`): time-outs of
  `poll` do not lead there, however many, since they leave nothing they could have read, but errors of
  `recv` do, as many as one direction has room for (`EmbraceTakesErrors`). Every query that
  does not end so returns (`QueryReturns`).
* **Device selection.** The choice is the least of its kind whatever the order, and
  somebody else's device only for want of an own one (`ChoiceIsLeast`). Where there
  are devices of both kinds, SMPs and other MADs never share one (`SeparatePorts`).
* **Builder.** Every leaf has a port that leads to every spine and the other way
  round, though not always by the same cable (an assumption of `MCStandardFabric`,
  which TLC evaluates). A discovery records links that follow a connection of one end at
  least, and those across a cable that nothing else was connected to are right
  (`LinksAsConnected`); the cables of hosts are such, which is another assumption TLC evaluates. Without a failure it finds every
  node (`EveryNodeFound`), which is a matter of the builder's proportions, see section 5.
* **Tasks of the example.** They keep what `Outstanding` promises, whatever is lost,
  late or failing (`KeepsTrack`). Whatever was sent is in one place or has had its
  poll (`EverySendPolled`). All three tasks can block each other for ever, and that takes
  as many requests under way as the channels and the tasks hold, and one more
  (`GridlockTakesAll`): 388 with the code's 128, 1 and 256. Main can wait for a message nobody
  will send; a lost answer alone does not do it, and without a cause no request
  expires (`TroubleForCause`). Apart from these two the crawl ends (`Ends`).
* **Crawl of the example.** Answers in any order make the same graph (`CrawlComplete`),
  links are cables (`LinksTrueOrOwn`) and no cycle makes it ask for ever
  (`RequestBudget`), all with the exception of switches whose port 0 reports to be
  up, which the properties state and section 5 describes.

**Bounds, and why they are enough.** Three ids (`TidMod = 4`) and four calls, the first
with the largest id, make the ids wrap and the first id be used again, while
`MaxStreak = 2` lets the replies to an unanswered call be late; with `Retries = 1` there is a first attempt
and a last one that repeats it. `Capacity` is six in `transport_wrap`, so that all records of
a streak fit, and two where blocking is the question. A discovery meets five
nodes: a host and a ring of three switches is the smallest fabric with a cycle
that does not contain the root, parallel cables and a loop-back cable, and every
cabling of these ports is an initial state of the `_host` runs. `PathLen` is the
length of a route, 64 in the code; 4 makes the longest chains end at its last
entry, so `Complete` tells an off-by-one. One fault suffices for each property that
speaks of one; the kinds of fault are the three that `populate_node_ports` tells
apart. Two runs on one `Fabric` are what stale state needs. Performance queries
need two to be late and three to be late by two. That a query and the responder block each other takes
`2 * Capacity + 1` unread records; with `Capacity = 1`, the two that time-outs leave and one that an error
leaves, so that `perf_session` gets there with the fourth query, and with no fewer errors than
`EmbraceTakesErrors` says. `U32` and `PollMax` are scaled down to 256 and 127: one timeout makes a window that
`poll` accepts, the other, and the larger number of retries, one that it does not. `MCPerfSession` has the directories
with and without each kind of device, two of each kind, and the least number on a
device of somebody else.

The channels of `async_tasks` hold one message each: a larger one only takes more
requests to fill, and `GridlockTakesAll` is proved for all capacities. An answer
brings up to six requests (`Fanout`), as it takes to fill the circle; a crawl has up to
seven (`MaxRequests`), and up to four (`MaxTroubled`) once something has been lost,
late or has failed, of each of which there is one. In `async_crawl` an answer may overtake two
older requests (`Overtake`), and requests expire once (`MaxExpiries`). `standard_fabric` has two spines,
four leaves and four hosts on each, in place of 16, 32 and 32: the proportions
are kept, so that uplinks meet at the same ports as they do in the code.

Fabrics are cabled symmetrically, each port once: what
`connect_ports` produces when called once per port. `standard_fabric` has the one
that calls it several times.

**Symmetry** is not used: the discovery iterates over ports in order, which
model values under permutation would not respect.

**Deadlock** is not checked: in each model a session ends when its bound of
calls, discoveries or queries is reached (and in a transport that has panicked).
What deadlock checking would find of the real system is asked for directly, by
`NoCircularWait`, `KeepsPromiseLive`, `QueryReturns`, `Terminates` and `Ends`.

**Fairness.** `MadTransport`: weak fairness of the sender, of the deadline, of
the receiving arms and of the responder's read and answer. The caller's thread
runs until its call returns, time passes, and `run` loops for ever; nothing
makes the caller call, the send succeed or the reply be sent rather than
dropped, and these have no fairness. Weak fairness of `Send` does not unblock a
full pipe; that it empties is what the check shows. `IbDiscovery` and
`NvlinkDiscovery`: weak fairness of the discovery's own steps, justified by
`KeepsPromiseLive` of the transport; none for starting one, for faults or for
cables. `PerfQuery` and the session around it: as the transport; nothing makes a
caller open a port or ask, or a system call fail. `AsyncPipeline`: weak
fairness of main, of the send task and its write, of the
read task, of the device and of the runtime's events, for the runtime polls every task that can
go on, the poll has a timeout, and the device is taken to become writable again after a
write. None for what is lost, late or fails. `AsyncDiscovery` has none: that its crawl
ends follows from `RequestBudget`, since each answer closes a request.

`transport_live` assumes `Prompt`: an attempt polls at least once before its
deadline is looked at. The code computes the deadline and then looks at the clock,
so this asks that the window is not over by then; without it, attempts can give
up without reading and both pipes can fill.

## 4. Proofs

The eight `_proofs` modules are checked by `tlapm` with SMT, Zenon and LS4, for every
value of the constants that the named assumptions allow.

| module | theorem | states |
|---|---|---|
| `MadTransport_proofs` | `TypeCorrect` | `Spec => []TypeOK` |
| | `OwnReply` | `Spec => []AcceptedReplyIsOwn` |
| | `StaleRepliesDrained` | `Spec => []DrainedOnSuccess` |
| | `RetriesBounded` | `Spec => []RetryBudget` |
| | `OverflowIsLate` | `Spec => []PanicIsLate` |
| | `EveryCallCounted` | `Spec => []CountersAddUp` |
| | `NoDeadlyEmbrace` | under `Attentive`, `Spec => []NoCircularWait` |
| | `ImplementsRpc` | `Spec => KeepsPromise`: every step is a step of `Rpc` or a stutter |
| `IbDiscovery_proofs` | `Types` | `Spec => []TypeOK` |
| | `EnumeratedOnce` | `Spec => []Enumerated` |
| | `LidsPropagated` | `Spec => []LidPropagated` |
| | `GapsCounted` | `Spec => []GapsAreCounted` |
| | `LinksAreCables` | for fabrics with `IsCabling`, `Spec => []LinksTrue` |
| | `LinksFollowConnections` | for all fabrics, `Spec => []LinksAsConnected` |
| | `FindsAllInReach` | for such fabrics whose ports are Active or Init when up, `Spec => []Complete` |
| | `OneLossLeavesLinks` | for the same fabrics, `Spec => []LinksSurviveOneLoss` |
| `NvlinkDiscovery_proofs` | `RingTypes` | `Spec => []GraphTypeOK` |
| | `RingEnumeratedOnce` | `Spec => []Enumerated` |
| | `RingRecords` | `Spec => [](LidPropagated /\ GapsAreCounted)` |
| | `GivenUpOnlyForCause` | `Spec => []GivenUpForCause` |
| | `RingLinksAreCables` | for fabrics with `IsCabling`, `Spec => []LinksTrue` |
| | `RingFindsAll` | for such fabrics whose ports are Active or Init when up, `Spec => []RingComplete` |
| | `OneLossLeavesRing` | for the same fabrics, `Spec => []RingSurvivesOneLoss` |
| `PerfSession_proofs` | `TypeCorrect` | `Spec => []TypeOK`, of the queries |
| | `SessionOrderDoesNotMatter` | `SessionSpec => []ChoiceIsLeast` |
| | `SessionPortsAreSeparate` | `SessionSpec => []SeparatePorts` |
| | `SessionLagBounded` | `SessionSpec => []LagIsBounded` |
| | `SessionAnswersInOrder` | `SessionSpec => []InOrder` |
| | `BlockTakesErrors` | `Spec => []EmbraceTakesErrors`, of the queries |
| `AsyncPipeline_proofs` | `TypeCorrect` | `Spec => []TypeOK` |
| | `EverySendIsPolled` | `Spec => []EverySendPolled` |
| | `GridlockNeedsAll` | `Spec => []GridlockTakesAll` |
| | `TroubleHasCause` | `Spec => []TroubleForCause` |
| | `ImplementsOutstanding` | `Spec => KeepsTrack`: every step is a step of `Outstanding` or a stutter |
| `AsyncDiscovery_proofs` | `LinksAreTrueOrOwn` | under `RoutesHaveRoom`, `Spec => []LinksTrueOrOwn` |
| | `RequestsAreBounded` | under `RoutesHaveRoom`, `Spec => []RequestBudget` |
| | `CrawlFindsAll` | under `RoutesHaveRoom` and `AgentHasOnePort`, `Spec => []CrawlComplete` |
| | `ImplementsOutstanding` | `Spec => KeepsTrack`, for the crawl |

Each inductive invariant named below was checked by TLC as an invariant of the
component's run before it was proved.

**Transport.** `AcceptedReplyIsOwn` is not inductive: nothing in it relates an
id to a call. `IInv` adds `WireInv` and `TidInv`: each record under way belongs
to a call not older than the last one answered, carries the id that call drew
(`Back` computes it from the current id and the age of the call), and the records are in
the order of their calls along the whole pipe. Matching the current id then
means age 0, since ages stay below the number of ids (`BackInjective`): this
is where the assumption `MaxStreak <= TidMod - 2` is used, in the code that fewer than
2^32 - 2 calls in a row go unanswered. When a record is matched,
the order says that everything behind it is of the same call, which is
`DrainedOnSuccess` and re-establishes `WireInv` for the new `answered`.

*Retries.* `RetryBudget` counts the records of the current call in three places: the two pipes
and the responder's hand. `BudgetInv` bounds their number by the attempts begun, and no record
is of a future call, so that a new call starts from none. The lemmas on `Count` say what
appending, taking off and concatenating do to it. *Windows.* `PanicIsLate` needs
that the window of an attempt is `Windows(t)[attempt]` for the timeout `t` the call began
with (`WindowInv`), and that windows grow with the attempt; if the last fits a `u32`, so do those before.
*Counters.* `CountersAddUp` is inductive once `CountInv` adds that a call which has not
sent its first request yet has not been counted.
*No mutual block.* `LoadInv` counts: `Load` is what is under way and `Slack` the
receive errors so far. An attempt
sends one record and, if it polls, either reads one or finds nothing; so the
pipes never hold more than a constant and the errors. Both directions full would need more.
The assumption `Attentive` names the conditions: `Prompt`, no window of zero, and
fewer receive errors in the session than one direction has room for.
Outside of it the claim is false, and a release build whose window has wrapped to
zero is outside.

**Node discovery.** What `discover_node` keeps true does not depend on who calls it.
`NodeDiscovery_proofs` proves `GraphInv` of each of its steps and of the external ones, and the
two traversals cite it. It says that the node under way is the one its route leads to, is not
in the map yet, and has answered for the ports below `job.next` only; and, for `GapsAreCounted`, that the ports missing from
the map and from the node under way are no more than the counters say. Its hardest part is that `Attach`
and the placeholder for a port that timed out keep the LID of a switch, whichever of them comes first.

**Traversals.** A link joins the port an entry of the queue names and the port its
NodeInfo answered from, so the invariants (`IInv` of `IbDiscovery_proofs` and of
`NvlinkDiscovery_proofs`) say of every entry of the queue that its route leads across the cable of its
port. For a port of a node just found this follows from `OneHopMore`: a route
extended by a port arrives at the other end of the cable, when the old one arrives at the node.
A cable unplugged meanwhile only removes answers (`FewerCables`): routes are judged by the
fabric as it was. `RemoteOK` then says that links are cables and recorded at both ends.
This holds where `IsCabling` does; `MCStandardFabric` uses the same
module with connections that only one end knows of, where it is false, so it is a hypothesis of these two
theorems and not an assumption of the module. `LinksAsConnected` is what is left without it, and
is proved for every fabric that calls of `connect_ports` can build: `RemoteOK` carries it along, since a link is
only ever made between a port and the one its connection leads to, and neither of the two can be a
port of another cable that is private (`LinkedConnected`). That the cables of hosts are private in the fabric of
`build_standard_fabric` is a fold over its calls, so induction over data, and TLC evaluates it for the
proportions of the run. For `GivenUpForCause`, the NVLink
traversal leaves its loop early in one place only, which has counted an error.

**Nothing is overlooked.** `Complete` needs that whatever is not recorded yet is still
asked for by something. `QInv` says so of a discovery in which nothing failed and
nothing was unplugged: every node known has a route as long as its distance
and the record of its whole answer; the queue is in the order of the routes' lengths, and a node it names
is traversed; each cabled port of a traversed switch is recorded at both ends, or is in the queue, or is
the one under way, or its switch is about to push its ports; a neighbour of the first node is known or still to be
called; and links are recorded at traversed switches only. At the end nothing is pending, so all cabled ports of all switches
traversed are recorded, and `DoneFound` concludes hop by hop: `Ball` of the first node's distance
is known, then of every greater one. That routes are shortest is what bounds them: a node
within reach is found by a route that fits `PathLen`, and one out of
reach is not found by a longer. Two hypotheses are
necessary. A cable with one end only is not followed back (`IsCabling`), and `LinkAndTraverse` goes through
ports in state Active or Init, so that a switch behind an Armed port is not found.

*The NVLink traversal* goes depth first, so that routes are not shortest and the argument is
another. Its `QInv` bounds a route by what is known: one to a known switch has passed fewer
nodes than are known (`RouteSees`), for each of them was entered before a route went past it. In a
fabric with fewer nodes than a route has entries (`WellWired`) there is always room for one more hop
(`RouteHasRoom`). A cabled port of a known switch is recorded, in the queue, under way, or
one of those of the switch whose ends are probed, where it is still to be pushed (a ring port) or to be
probed (an end). Behind an end no switch is found, since the fabric is well wired, and
nothing has to be pushed for it. The rest is as before: at the end nothing is pending, and
what is known is closed under the cables of the switches and of the first node.

**One loss.** `LinksSurviveOneLoss` is about a discovery in which one exchange fails, whichever it is.
`MissInv` says that one port at most is missed (`IsMissed`: none before the failure). Every record has
every cabled port but that one (`IsWholeBut`), and every other cable (`CablesBut`) of a traversed switch is
noted, queued or being asked about. Noted means linked, or leading to a node known that
has no record of the port at its end, which `LinkAndTraverse` gives up on. The step that fails chooses the
port: that of the PortInfo, the loop's current one, or the first node's when the exchange belongs to a first
hop. The first switch is traversed only because a cable of its own comes back to it, so one of
those must still be followed, or being followed, or have got its ports into the queue (`RootMinds`). At the end the queue is
empty; a link between two recorded ports was made from the end that was not missed, since a cable is linked at
both ends at once, and a cable from the first switch to itself has two ends, of which one loss leaves one.

*In a ring* one loss must not cost a switch (`RingSurvivesOneLoss`). `MissInv` of `NvlinkDiscovery_proofs` again
allows one missed port. Every other cable from a known switch to a switch (`Bridges`) leads to a known one, is in
the stack, is being asked about, or belongs to the switch whose ports are about to be pushed (`SwitchesMind`); those
of the first node are followed one by one and never pushed (`RootMinds`). A cable is forgotten for
three reasons only: the missed port is its own, the exchange across it failed, which makes it the missed one, or
it is linked already, and then the switch behind it is known (`LinksMind`). There is always room for one more hop,
since a route to a known switch has passed no more nodes than are known, and one more when the first hop goes from a
switch back to itself (`Slack`). At the end the switches known are closed under all bridges; two cables leave
each part of a closed ring, of which one is not missed, so that no switch is unknown (`DoneMinds`). `ClosedRing`
asks for these two cables of every part because two neighbours of every switch do not make one ring: two
separate rings have them too, and the second is never found.

**Routes.** `Arrival`, `Ball` and `Kept` are recursive functions, and the library's theorems
of induction take the predicate as a parameter, which these provers cannot
instantiate. `DirectedRoute_proofs` does without: a non-empty set of
numbers has a least element (`LeastNat`), so the set of indices where a claim fails is empty, or has a first
one, which the step before refutes. This gives that the recursive functions exist, where a route with one more
hop leads, and what filtering keeps.

**Performance session.** `DevInv` belongs to the choice of the device files, `IInv` to the queries;
a step of the session is a step of one half that leaves the other alone, so that their conjunction
is inductive without more. `ChoiceIsLeast` speaks of the end of the loop. `BestSoFar` says
the same of the entries visited so far; that one more turn keeps it is
`LowerIsLeast`, where names being unique in a directory is needed, for two entries of one
kind with one number would be chosen between by order. `SeparatePorts` follows from
`ChoiceIsLeast`: with devices of both kinds neither opener gets to its fallback. `IInv` says that what
is under way is newer than anything
received and increases along the pipe (`WireInv`), and that each query that has
returned has either consumed a record with a serial of its own or is one of the unread (`LagInv`).
`LagIsBounded` follows since the result's serial is `answered`. `LoadInv` counts what is under way: a query
adds one record and takes one, or found `toClient` empty when its poll timed out, or ended with an error of
`recv`, which `overlooked` counts. So no more than `Capacity + 1 + overlooked` records are left between two
queries, and an embrace needs `2 * Capacity + 1` of them (`BlockTakesErrors`).

**Tasks of the example.** `IInv` is `TypeOK`, `SentAtOnce` (main goes to build only when
its handler has something to build, and every request built is sent at once, so that
the id counter is `requests_sent`, or one more while main sends) and `EverySendPolled`.
`GridlockTakesAll` is then arithmetic: when all three block, `InFlight` is
the capacities and the two tasks, and main holds one more. For
`Outstanding`, the ids in `smp_map` are below `tid`, so a new one is new.

*Trouble.* `TroubleForCause` takes `CauseInv` on top. Requests go to the device in the order of
their ids (`OrderInv`), and for
each one not written when the poll under way began there is another poll to come (`MarkInv`). While the device is `Calm` (nothing late, nothing
failed, no event overlooked), there are at least as many polls to come as answers, and exactly as many if
none is lost (`EnoughPolls`): then no poll times out, which is the second half of the property. If
some are lost, every open request has its answer or its expiry on the way to main, or an
answer to come, or there is a poll in excess, which will expire it (`AllCovered`); so main does not wait in
vain, which is the first half.

**Crawl of the example.** A link is recorded from a request alone: from the node that sent it and the last hop of its
route. So `CrawlInv` speaks of the open requests: the route of each leads where
its sender says (`AsksBeyond` across a cable of a known node, `AsksNode` to the node itself), and is
no longer than the nodes it may have passed (`Leads`). The length matters because a route whose last
entry is taken has no room for the next hop. `RoutesHaveRoom`, the hypothesis of `LinksAreTrueOrOwn`,
asks for fewer than 63 switches in the code's terms; in a larger fabric the code may index past
the end of a route and panic. Switches whose port 0 reports to be up are the exception that
`LinksTrueOrOwn` names. That each request is closed once needs less (`TrackInv`): the open ids increase and are below
`tid`, and after the end none is open.

*Budget.* `BudgetInv` says that the nodes known are in reach, and that the ids drawn, with one for each
PortInfo under way whose answer will ask for a NodeInfo (`OpenIds`), are within the budget of the nodes
known. A node found for the first time brings as much to the budget as its requests take and its open
questions will; the answer to a PortInfo spends what was set aside for it, and a timeout only gives up
some. Three facts about recursive functions carry it: `Ball` reaches a fixed point in as many hops as there are
nodes, since it grows by a node at least as long as it grows (`ReachIsClosed`), so that what answers is in
reach; and the sum of `RequestBudget` is the size of a set (`SumIsSize`), by induction over the subsets of the nodes
(`SubsetInduction`), so that sums compare as sets do.

*What the crawl finds.* `CrawlComplete` needs that whatever is not known yet is asked for by an open
request or will be when one is answered. `ComesInv` says so as long as nothing has expired: of the description of each
known node (`DescsCome`), of each port of a node that routes go on from (`PortsCome`), and of each cable of such a
node, for which a PortInfo of its port or a NodeInfo across it is open, or the far node is known and both ends are
recorded (`CablesCome`). None of this is about order. The links of a switch whose port 0 is up are: port 0 leads
back to the switch, and its answer links two ports no cable joins. `LinksCome` says that when answers come in order the link of
each port is recorded for good afterwards: the PortInfo of port 0 is older than that of the port, so the
NodeInfo through port 0 is older than the one across the cable, and is answered first. At the end nothing is open, and
the nodes known are all in reach by induction over `Ball`. The second hypothesis, `AgentHasOnePort`,
is what the simulator says of adapters (`sim/mod.rs:745`), and is necessary: `recv_portinfo` records all ports of the agent's
adapter as port 1 (`async_discovery.rs:807`), so that of an adapter with two ports only one is known.

**Only proved.** `InOrder` (answers come in order and none twice) is in no run: it is
what `WireInv` says, and `LagIsBounded`, which is in one, rests on it.

**Only model-checked.** `EveryNodeFound` is about the proportions of the one
fabric of `MCStandardFabric`, and is false of others. `KeepsPromiseLive`, `QueryReturns`, `Terminates` and `Ends` are
liveness, which, with fairness and `ENABLED`, is out of reach of this prover.

## 5. Where the code and its documents disagree

* **`ib_allports`.** `discovery/ib.rs:16-17` says of the traversal that "Any
  active/init port on a discovered switch is eligible to be traversed". When the
  agent is on a switch, `first_hop_discovery_ib` discovers the neighbours and queues
  the ports of those that are switches, but never the first switch's own. A link from
  it to another switch is found from the other side; a link from it to a channel
  adapter is not recorded. `Complete` states what the code does instead: the first
  switch is traversed only if a cable of its own comes back to it.
* **`perf_stale`.** The test of `query_port_counters_extended` asserts of an answer
  that its port is the requested one (`src/tests/mad.rs:355-359`). The function
  compares neither id nor port, so after a query that timed out the next one
  returns the late answer about another port.

Met while modelling, and visible in the definitions:

* Two channel adapters cabled back to back: the link is never recorded, since only
  ports of switches are queued.
* When port 0 of a switch times out, the switch takes its LID from the port it was
  reached by, if that one reports any, although the log says none is available.
* The second entry of a switch's ports into the queue, when it neighbours the first
  node twice, is harmless: linked ports are skipped.
* A port of an NVLink neighbour that was refused as invalid ends the whole discovery
  with an error; the InfiniBand traversal passes over it.
* A performance query whose window is above `i32::MAX` milliseconds, as the saturating
  arithmetic at `mad/mod.rs:196` makes it for large timeouts and retries, does not wait for as long as it can,
  as the comment there suggests, but fails at `mad/mod.rs:329` after its request was sent; its
  answer is left for the next query. After enough such errors the writes of the two sides block each other.
* A short record counts as `TimedOut` whatever request it belongs to, so a left-over
  one costs the next call an attempt.
* **The builder.** `sim/mod.rs:127` says "connect leaf to all spines for a non blocking
  fabric", and `sim/mod.rs:45` has the two ports remember each other. With the code's
  numbers the calls meet at the same ports: of the 4048 ports that are connected in the
  end, 2110 are connected to one that leads back, the hosts' 2048 among them, and the only leaf
  with such an uplink is the last. A discovery still finds all 1072 nodes, since every leaf
  has a port to every spine and the other way round. With other proportions, such
  as two spines, three leaves and two hosts, it would miss one.
* **The crawl of the example.** Its log of a new link (`async_discovery.rs:677-682`) names
  the port it came through as the one of the asking node, and the link made two
  lines below (`684-686`) joins the other pair of ports; the second is right, since a
  NodeInfo's local port is that of the node that answers.
* It follows port 0 of a switch like any other, and the route to what is behind it is
  that of the switch itself. Where port 0 reports to be up, the switch is linked with
  itself, and when answers come out of order that link can stand in the place of
  another port's.
* A read that fails is logged and its zeroed buffer handled as an answer. It carries
  id 0, so it closes the first request if that is open, and nothing is made of it.
* Every request brings one poll, whichever answer that poll gets. An answer that comes after its
  poll has timed out leaves the crawl one poll ahead, and main can end in a wait for a
  message no poll will give.

## 6. Not modelled

Contents of attributes beyond what the properties use; real time (a
deadline may pass whenever an attempt waits); the hop count of an SMP, which
the simulator never reads (it follows the route to its end, and so does
`Arrival`). An exchange in the discovery models is atomic, though an unplugged cable
takes effect between any two: discovery and transport are composed by `Rpc`, tasks and
crawl of the example by `Outstanding`, not in one state space. A port that is plugged
in during a discovery, or moved between the two NodeInfos of one port, is not modelled;
the code cannot tell.

* *Id generator of the performance query* (`mad/mod.rs:118-126`): the query compares its
  id with nothing. That ids differ within a round of 2^32 - 1 draws is `fetch_add`'s doing.
* *Stop signal of the responder* (`sim/mod.rs:685`): it is looked at between two
  blocking reads; nothing in the library or its tests waits for the responder to stop.
* *Adapter inventory, agent registration*: reads of files and one ioctl, with no state
  kept from one to the next.
* *Bit fields and enums*: conversions without state. Two setters of `PortInfo` overlap
  (`mad/port.rs:135`); no component modelled here uses them.
* *Devices that change* between lookup and opening, other than going away: the code keeps only the path.
* *Start of the example's tasks*: `start` throws the results of both spawns away; the
  model begins with both tasks running. *Statuses of answers*, which the example does
  not look at, and *its hop limit*: its routes are shorter than 63 hops here, where an entry past
  the end would panic (`RoutesHaveRoom` in `AsyncDiscovery_proofs` says when they are). *Adapters with more
  than one port* as the agent's own, which the crawl mixes up (section 4).
* *Short records in the example*: what a umad device delivers for a request nobody answered is
  shorter than a record, and `read_exact` (`async_discovery.rs:61`) would wait for the rest without the limit
  of the wait before it. The simulator writes whole records, and the model has only those; `Ends` rests on it.
* *Other examples*: one MAD each.

## 7. Plan

Modelled, most important first: the transport and its promise; node discovery and the
InfiniBand traversal; the NVLink traversal; the performance query; the tasks of the
asynchronous example and its crawl; the builder; device selection. Worth adding:

1. Cables plugged in during a discovery, or moved between the two NodeInfos of one port
   (`discovery/ib.rs:57` and `75`), with a property that says which links can be false then.
2. A timed transport: windows against response delays, the retries a slow responder
   causes, the zero window of a release build.
