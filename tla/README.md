# A TLA+ development of ncdn

ncdn is a small CDN in Go: DNS-based global load balancing (`gslb/`), an XDP
layer-4 balancer per point of presence (`l4lb/`), two tiers of caching HTTP
nodes (`popcache/`), demo origins (`origin/`), latency probers (`prober/`) and a
request-rate meter (`httprps/`).  This directory models its core in TLA+, checks
the models with TLC on small instances, and proves with TLAPS, for instances of any size,
every safety property of the passing runs and both refinements.  `PROJECT.json` maps
every definition to the lines it stands for.

## 1. The system

| part | state | operations | talks to | what is hard |
| --- | --- | --- | --- | --- |
| cache node, edge (`popcache/cmd/popcache`) | LRU of 256 objects, host table, peers, shields | `ServeHTTP`, `CacheAndFetch`, `Shard`, `Forward`, `Fetch` | clients, peer edges, shields, origins | routing under disagreeing files, fallbacks, shared header maps, errors that are cached |
| cache node, shield (`popcache/cmd/shield`) | the same without a lower tier | the same, chain `Shard` then origin | edges, peer shields, origins | as above |
| rate meter (`httprps`) | `curr`, a ring of slots, running total | `ServeHTTP`, tick, `GetRPS` | node programs, origin | a tick in two steps against concurrent readers |
| Maglev table (`l4lbdrv/drv.go`) | `offsets`, `skips`, `deadDests` | `PopulateLookupTable` | kernel map | counting, wrap-around, repeatability |
| L4 balancer process (`l4lb/cmd`, `l4lbdrv`) | `deadDests`, BPF maps, link, attacher goroutine | `New`, tick, `HealthCheckAll`, `PopulateLookupTable`, `Sync`, `Close` | destinations, kernel | unlocked append, updates the kernel sees half done, start-up and shutdown order |
| XDP program (`l4lb/c/lb.c`) | per-CPU counters | `lb_main` | kernel maps | verdict order, checksum, padding |
| GSLB core (`gslb/gslbcore`) | PoP statuses, latencies per region, serial | `Run`, `UpdatePoPStatus`, `UpdateLatency`, `Query` | PoPs, probers, DNS plugin, web UI | deadlines shared by a round, queries in the middle of one |
| CoreDNS plugin (`gslb/corednsplugin`) | none of its own | `ServeDNS` | core | which answer and code a question gets, from which client's region |
| origin server (`origin/`) | the resized images, the cache of derived images, a rate meter | `loadSite`, `buildAssets`, the routes of three profiles, `derivedBytes` | both cache tiers | a bounded pool at start-up that must end when images fail, derived images resized twice at once |
| prober, web UI, generators, lab scripts | see section 8 | | | |

How they interact: a resolver asks the CoreDNS plugin, which asks the core for
the PoP nearest to the client's region; the client's packets reach that PoP's
balancer, whose XDP program picks a cache node from the table the balancer
process keeps in the kernel; the edge answers from its cache, or asks the edge
that owns the key, a shield, or the origin.  The balancer's health check and the
core's status fetch both use the nodes' `/statusz`, the probers `/latencyz`.

What must hold, part by part: a request ends, does not loop, stays with its
tenant and is not multiplied (cache tiers); a table serves exactly the live
destinations, fairly, and is a function of who is alive (Maglev); the kernel's
table follows the destinations' health, through failures of every step (balancer
process); a frame is counted once, and what is sent on is well formed and whole
(XDP); an answer is the nearest PoP by the last completed measurements, and the
serial moves with the data (GSLB core); it is that of the client's region, and no
name is denied that exists (plugin); start-up ends whatever the images are, and
requests that race are answered as if each were alone (origin); the rate is that of
the last window, wherever requests fall (meter).

## 2. Modules

```
CdnService    what clients of the cache tiers may see          (abstract)
   ^ refined by
CacheTier     edges and shields, request by request      MCCacheTier  CacheTierProofs
Maglev        the fill loop of PopulateLookupTable       MCMaglev     MaglevProofs
   : its result is the constant Lookup of
L4lb          the balancer process and the kernel's maps MCL4lb       L4lbProofs
LbMain        the XDP program, frame by frame            MCLbMain     LbMainProofs
GslbCore      the core's worker, and Query               MCGslbCore   GslbCoreProofs
   ^ extended by
GslbDns       the DNS plugin on top of the core          MCGslbDns    GslbDnsProofs
HttpRps       the request rate meter                                  HttpRpsProofs
   ^ extended, and refined, by
Origin        the origin server with its meter           MCOrigin     OriginProofs
```

`MC*` modules give TLC its instances, `*Proofs` modules hold the theorems.
Operators named `X_Slip` (or `X_...`) are plausible mistakes in the definition
`X` that follows them.  They occur in no behaviour; each one shows that some
property would notice the mistake.

### CacheTier

A client request is a stack of handlers, `stack[r]`: one frame for every
`CacheServer.ServeHTTP` it is passing through, the last one running, the others
waiting inside `Backend.Fetch`.  A frame knows its node, whether its request
carries `X-Shard`, how far it is (`pc`) and the response it has.  Requests
interleave freely; Go runs one goroutine for each.

| code | model |
| --- | --- |
| `ServeHTTP`, host check | `RejectUnknownHost`; `ServeHit`/`ServeMiss` otherwise |
| `CacheAndFetch`, lookup | `ServeHit` (with `SetHit`), `ServeMiss` |
| `Shard` | `ShardHop` (where to), `ShardMark` (the header), `Callee` (which peer) |
| `Forward`, chains in the two `main.go` | `BelowShard`, `NextHop`, `FellBack` |
| `Backend.Fetch` | `Fetch`, `FetchFails`, `FetchOrigin`, `FetchOriginFails`, `Return` |
| `io.ReadAll` fails | `CutBody` |
| header clean-up, `Put`, `Add("X-Cache")` | `CacheAndReply` with `Stripped`, `AddMiss`, `Put` |
| request contexts | `Unwound`: a broken connection or a dead node cancels the frames above it |
| `lookupTable[r.Host]`, yaml files | constants `Knows`, `EdgeOwner`, `ShieldOwner` |

Data is kept down to what the properties tell apart: an object is a code, the
query it answers and a version number; of the headers the node id and `X-Cache`
remain, as sequences, so that a duplicated value shows.

Abstractions.  `RendezvousSelect` is a constant per node, so that nodes started
with different files may disagree arbitrarily; in particular a node may believe
any other one to be the owner.  The victim of a full LRU is any other key, since
the order of use is not kept.  Cancelling a request's context removes the frames
above at once; in Go they notice a little later, with no effect but a late `Put`
of a good object.  A `net/http` transport's own retry on a stale idle connection
is not modelled.  Methods are all GET.  A node that is up answers (no hung
peers).  The `Put` and the header it adds a line later are one step; what a
concurrent `Clone` of the shared map may do to the process is listed as a hazard
and planned below.

### CdnService

The abstract specification: origins publish versions, a request gets at most one
outcome, a version published by then, or an error, and a 500 only if an exchange
of its own host has failed.  No freshness is promised, because the code has none:
nothing is revalidated or expires, and any status is cached.  `CacheTier`
implements it under the mapping in `CacheTier!Service`: `outcome` is the code and
version of the client's answer, `"lost"` when its connection broke.

### Maglev

`PopulateLookupTable` up to the finished table, one action per probe of the inner
loop, again and again as health reports change `dead`.  The hash of an address is
an arbitrary constant of the destination: `Init` leaves it open, so that TLC goes
through all of them.  `offsets` is state that survives from one fill to the next,
as `lb.offsets` does.  `share`, `turn` and `last` are history.  Putting the table
into the kernel's map is left to `L4lb`.

### L4lb

The balancer process: start-up in the order of `New`, the tick of `main`, one
goroutine per destination in `HealthCheckAll` (probe, compare with
`deadDests`, append), the table written entry by entry, the link attacher's
goroutine, the signal and `Close`.  The XDP program runs on its own in the kernel
and can read the maps between any two steps, so the invariants speak of what it
would find.  How a table is computed is a constant `Lookup`, assumed to have what
`Maglev` shows of it.

`changed = append(changed, i)` has no lock, which is a data race; the model lets
the goroutines read the slice header and write it in separate steps, so elements
get lost (`AppendRead`, `AppendWrite`), and lets a reader combine a new length
with the old nil pointer, which ends the process (`AppendTorn`).

`LinkAttacher` is a goroutine that shares `attachedLink` with `Close`, without a lock.

| `link.go` | model |
| --- | --- |
| line 27, the goroutine | `Attach` |
| line 43, reading `attachedLink` for the call | `Tick` |
| the call: it attaches, or `EBUSY` | `Reattach` |
| any other error, logged | `ReattachFails` |
| the call with a nil link | `TickPanics` |
| line 62 (without effect, the `break` leaves the `select`) and 64 | `Detach`, `DetachFails` |
| line 67 | `Forget` |

So a tick can be on its way to the kernel while `Close` runs.  A nil `netlink.Link` is
what `Forget` leaves behind; that a call on it panics is the library's behaviour.  The
panic ends the process, as does one on an interface value read half written.  The
descriptors of the maps, which `bindings.Close` closes next, make no difference to the
program, whose own descriptor stays open until the process ends.

### GslbCore

The worker `Run`: it waits for the web interface (`StartWeb`), then goes round and
round: a status from every PoP (`FetchStatus`, `StoreStatus`), a latency from every
region's prober to every PoP (`Measured`, `NotMeasured`, `StoreLatency`), a sleep.
Each call of `UpdatePoPStatus` and `UpdateLatency` is a step of its own, with PoPs,
probers and the network changing in between; `late` is the context of the round
whose deadline has passed, or which was cancelled.  `Query` holds the lock from its
first read to its last and writes nothing, so it is an operator, `Answer(s)`, that
the properties read in every state.

| code | model |
| --- | --- |
| `prefix.Contains`, `prefix.Bits() > bestBits` | `Matches`, `RegionOf` |
| `latency < minLatency`, `getMostAveragePop` | `FirstLeast`, `getMostAveragePop` |
| `MeasureLatency` fails at once | `NotMeasured` without `Hangs` |
| `MeasureLatency` ends with the context | `NotMeasured` with `Hangs`, `late` |
| `select` of timer and context | `WakeUp`, `Return` |
| `clog.Fatalf` when the web server fails | `WebFails` |
| supervisord | `Restart` |

A PoP or prober is up, refuses (any error of the transport that comes at once), or hangs
(takes the connection and is silent).  The prober does not look at the status of the
answer it times, so a PoP that answers every request with an error is up, and is measured
like any other (`prober/main.go`, `probe`).  An address is known by the prefixes that contain it, a
latency is a small number below `Default`.  `measured`, `calm` and `current` are
history: which regions have been measured since the start, and which of the stored
latencies come from a round since which nothing has changed.  `popstate` is kept
although nothing in the program reads it.

### GslbDns

The CoreDNS plugin, composed with the core: the specification is `GslbCore`'s, and the
reply to a question is a state function read in every state, because the plugin keeps
nothing of its own.

| code | model |
| --- | --- |
| `ServeDNS`, the dispatch on the name | `ServeDNS`, `Ours`, `Below` |
| `serveNs`, `serveRoot`, `serveSub` | the operators of these names |
| client subnet options | `srcIP`, then `Answer` of the core |
| `soaRecord` | `soaRecord`, whose data is the core's `serial` |

A name is the sequence of its labels from the root, in lower case (CoreDNS lowers the
case before `ServeDNS` sees it).  TTLs and the wording of records are left out.  A PoP
that has no IPv4 address makes `As4` panic, which CoreDNS turns into SERVFAIL; the
model has this (`HasIp4`).  A subnet option whose address cannot be used is not modelled.

### HttpRps

The rate meter: `Count` for a request that passes `ServeHTTP`, and the goroutine of
`NewMiddleware` in two steps, because it takes the count before it takes the lock
(`Swap`, `Store`).  `GetRPS` reads under the lock and is the variable `total`.
`age[r]` is history: how many ticks ago request `r` has been counted.

### Origin

Start-up (`ReadOriginals`, `Launch`, `Register`, `Release`, `Done`, `Built`: `loadSite`
and `buildAssets`, with the semaphore channel, the `WaitGroup` and the deferred calls in
their order), then the handlers.  A goroutine is known by the turns of the two loops it
was started in, a pair of indices; turns that are skipped have none.  Of all routes only the derived images change anything:
`Misses` and `Resize` are the two halves of `derivedBytes`, between which other requests
run; every other route is the function `Get`.  Every request passes the meter
(`Request` contains `Count`), and `Origin` implements `HttpRps` with the
same variables, so `RateCountsWindow` and `RateForgets` are checked where the meter is
used.  An image is the file it comes from and its width; site configurations and what is
wrong with the files are inputs.  Templates, the demo pixels and the origin without a
site are left out; so are templates that do not parse and JSON files that cannot be read,
which end the program before it serves anything.

### LbMain

One run of the XDP program on one CPU is one step: which of the checks a frame fails
(`Class`, in the order of `lb_main`), what it adds to the counters (`Counted`), and
what is sent (`Encapsulated`).  The outer header is ten 16-bit words with the values the
CPU loads on a little-endian machine, its checksum is computed as the code computes it,
and padding is cut as the code cuts it.  `StartReading` and `ReadCpu` are
`ReadStatCountersAggregate`, one CPU after the other while frames keep coming.  The hash
of a flow, the table and the destinations are constants here; `Maglev` and `L4lb` have
them move.  A reader that sees a packet counted and its bytes not yet is not modelled
(a CPU's counters are copied in one step), nor is `ResetStatCounters`, which only a test
calls.

## 3. Runs

| run | instance | checks | distinct states |
| --- | --- | --- | --- |
| `tier_routes` | 2 edges, 2 shields, all views skewed, 1 request, 6 faults, fair | no loop, at most five contacts with the origin, every request ends | 71 000 |
| `tier_tenants` | 2 hosts, 2 requests, 2 versions, caches of one object, one shield does not know host B, 2 faults | types and capacity, tenant isolation, truthful headers, placement, refinement of `CdnService` | 690 000 |
| `maglev` | 3 destinations, table of 5, all 8000 hashes, destination 2 or all of them fail and return, fair | all properties of the fill | 536 000 |
| `l4lb` | 2 destinations, table of 3, 3 faults, fair | types, changes noticed, table follows health, no packet to nowhere, failover, failback, link heals | 131 000 |
| `xdp` | 2 CPUs, 12 kinds of frames of which 3 arrive, 2 destinations | counters account for every frame, a reading is between two states, what is sent arrives | 295 000 |
| `gslb_core` | 3 PoPs (one without IPv4 address), 2 regions with nested prefixes, 2 latency tables, 12 questions, serial modulo 6, 2 faults, fair | nearest PoP after a calm round and when the faults are over, dead PoPs left, serial, end of `Run`; replies to the client's region, name errors | 314 000 |
| `origin` | 3 images, 3 sites (one for each profile), 4 mishaps, 2 CPUs, 7 paths, 2 requests, window of 2, fair | start-up ends and is complete, derived images truthful, links served, the rate | 140 000 |
| `tier_meter`, `l4lb_race`, `gslb_hang`, `lb_padding` | small | one statement of the repository each, violated (section 6) | |

Why these bounds are enough to be interesting.  Two edges and two shields are the
longest path there is (a request passes through two nodes of each tier at most,
which is itself proved for any number), and skewed views make every node send to
its peer.  `OriginLoad`'s five is reached: edge, peer edge,
shield and peer shield; each turns to the origin in turn as the one above it dies,
the first edge by way of a shield once more before it does so itself.  That takes
four crashes; six faults leave room for others.  Caches of one
object make every `Put` of another key evict.  Two requests share keys, owners and
crashes; two hosts are needed for isolation.  For the table, five slots are the
smallest prime with wrap-around for most skips and with unequal shares for two and
for three destinations; the number of slots has to be a prime for `FillEnds` only,
as 65537 is.  `SecondOrAllFail` reports go back and forth between all alive, one
dead and all dead, which is what failback needs.  For the balancer, two destinations make
two concurrent appends, one of which can be lost; the destinations' health is arbitrary
at the beginning and recoveries are not counted as faults, so all-dead episodes occur.
The four invariants of `l4lb` also hold with three destinations (2 213 000 states, 2
faults), where the liveness properties take too long to be checked with them.
For the core, three PoPs give a first, a nearest and a tie; two regions make a round
that can be half done, a prober whose region depends on the others' sums, and a
longest match that is not the first; two faults are one that goes and comes, or a
PoP and a prober down at once.  The serial wraps at 6 instead of 2^32.
The twelve questions take every branch of `ServeDNS`, with resolvers inside, outside and
in no region, and clients that are not where their resolver is.
For the origin, the dynamic and the gallery profile have nothing to resize at start-up;
the catalog has one variant of three images, so that two tokens fill the semaphore before
the third, and two broken images would hold both tokens for ever if an error kept one.
Two requests for one image miss together; two widths and an image narrower than either
make the copies differ.  A window of two makes the ring go round while a request is in it.
For the XDP program, the frames end at each check and in each way; one identification
makes the checksum carry twice and the next one once; two frames are shorter than a wire
would leave them.  Three frames on two CPUs put one on each, and one between the readings.

Bounds by name: `MaxVersion` (versions an origin publishes), `MaxFaults` (crashes,
broken links, outages; failures of map, link and probe; changes around the GSLB),
`SerialMod` (the serial), `Cap` (the LRU's
capacity), `Requests` (each asked once), `Reports` (health reports), `MaxFrames` (frames
that arrive), `W` (seconds in the meter's window).  `CHECK_DEADLOCK`
is off where the system may stop: when all requests are answered, or the process
has ended.  `Maglev` and `LbMain` (a reader can always come) are checked for deadlock.

What the invariants say, beyond the comments in the modules:

- `TenantIsolation` relates every cache, every frame and every answer to the
  version history and to the hosts that have had failures.  It holds although
  errors are cached, because the key contains the host and an error is about a
  host; it does not say that an error goes away when its cause does.  It does not.
  The key is a pair of host and URI in the model and a concatenation in the code, which
  is the same: the URI begins with "/", and a host contains none.
- `Placement` is for nodes with the same files.  A copy on an edge that does not
  own the key comes from a client having asked there; on a shield from nothing.
- `TableMatchesHealth` and the failover properties except a table whose last
  update failed: `main` logs that and does not try again before the next change.
- `NoPacketToNowhere` says that every slot names a destination whenever the program
  balances, from the moment in `New` when the VIP is in its map.  The destinations' own
  entries follow in a second map: between the two updates of `Sync` packets to the VIP
  are sent to zeroed entries.  The window is short, but `New` leaves the program attached
  if the second update fails, so the property demands the entries only when `New` has
  returned.
- `LinkHeals` ends with `Close`, about which the repository promises nothing (section 6).
- `SentArrives` says exactly when the destination accepts the outer header: unless a
  second carry out of the sum is lost (`CarriesAgain`), and only then.  The code folds
  once.  With destination 192.168.1.254 the identification 59536 is such a case; it
  depends on identification, length and addresses, for most of which it cannot happen.
- `CountersAccount` is about every frame.  The program counts and passes frames that fail a
  check, while the help texts of `lb.c` call them dropped.
- `NameErrorsAgree` is about the domain tree: a resolver that has got a name error does
  not ask for the names below it.
- `ClientGetsNearest` is the way from the client subnet option through the prefixes to
  the measured latencies; a PoP without an IPv4 address counts, and its SERVFAIL is
  accepted as the answer: that such a PoP is configured at all is not questioned.
- `NearestIsServed` and `DeadPopIsLeft` are about the time when the faults are over,
  which `MaxFaults` brings about; the state they start from is whatever the faults
  left.  `Reached` says exactly how much the shared deadline lets through: a
  measurement counts if nothing hangs before it in the round.  That a PoP behind
  one that hangs is not measured is the finding of `gslb_hang`.

## 4. Fairness

`CacheTier!FairSpec` has weak fairness of each request's handler, which is a
goroutine of `net/http`; clients, faults, restarts and origins get none.
`Maglev!FairSpec` has weak fairness of the loop, which runs on the main goroutine
and waits for nothing.  `L4lb!FairSpec` has weak fairness of the main goroutine
(its ticker fires every second), of each health check goroutine (the HTTP client
has a timeout of 500 ms, so a probe returns) and of the attacher (its ticker;
a call to the kernel returns).
`GslbCore!FairSpec` has weak fairness of the worker, whose every wait ends: the calls
with the deadline of their round, the sleep with the timer or the context.
`Origin!FairSpec` has weak fairness of the main goroutine, of the goroutines of
`buildAssets` together (there are finitely many), of each handler, and of the meter's
goroutine with its ticker; clients need not come.  `LbMain` claims no liveness.
No recovery, failure or signal is forced.

## 5. Proofs

The theorems are proved for all values of the constants that satisfy the named
assumptions of the modules they extend (`TopologyAssumption`: two disjoint tiers, and
views that name nodes; `FiniteAssumption`: finitely many hosts and URIs;
`BoundsAssumption`; `SizesAssumption`; `ReportsAssumption`; `LookupAssumption`: a table
is made of live destinations and has each of them, which is what `Maglev` shows;
`PrefixesAssumption` and `NetworksAssumption`: finitely many prefixes, latencies below
the default one; `ZoneAssumption` and `QuestionsAssumption`: names are sequences of
labels; `WindowAssumption` and `RequestsAssumption`: a window of at least one second,
finitely many requests; `FramesAssumption` and `MapsAssumption`: well-formed frames, a
table that names entries; `ImagesAssumption`, `ConfigsAssumption`, `DamagesAssumption`
and `NumCPUAssumption`: a site lists at least one image, its variants have names of their
own, "full" exactly if the width is 0, damage is to files of the site, and there is a
processor).  TLC evaluates the assumptions in every run.  `loadSite` checks that there is
an image; what is assumed of a site's variants it does not check, and the three sites of
`origin/sites/` have it: two variants of one name would overwrite each other's images in
the order the goroutines come.  `SizesAssumption` of `GslbCore`
has a serial of more than one value, as a `uint32` has; without that `AnswersKeepToSerial`
is false.  One theorem has a hypothesis of its own: `FirstComeFirst` needs the table's size
to be a prime, as 65537 is, because with another size a permutation may come back to a slot.

**No routing loop** (`LoopFree`) and **types and capacity** (`TypeCorrect`).
`NoRoutingLoop` is about whole stacks and is not inductive: nothing in it says why
a fifth frame cannot be pushed.  The inductive invariant `IInv` is `TypeOK` and
`StackOK`, which gives each active stack a `Shape`: locally, a frame that waits for
a peer is marked and does not own the key (`Sane`); pairwise, a frame called by a
peer is in the same tier, is not itself waiting for a peer, and still carries the
mark while it has not chosen its hop; a frame called through `Forward` is a shield
below an edge (`Calls`).  `ShapeIsLoopFree` gets the global statement from the
local ones.  That every step keeps the shape is proved once for each way a stack
changes: its last frame moves (`TopMoves`), it grows (`CallKeepsShape`), it is cut
(`PrefixKeepsShape`, `UnwoundKeepsShape`).  The steps of the handler and of the
environment then only say which of these they are.  Capacity rests on
`PutIsBounded`, a lemma on cardinalities.

**The tenants** (`TenantsAreApart`).  `TenantIsolation` needs little strengthening
(`Isolated`: who has an answer has asked), but it is about every place a response can
be in, and every action moves responses between them.  `Carries(s, t, resp)` says that
stack `t` has the responses of stack `s`, and perhaps `resp`; each way a stack changes
is proved to do no more (`TopCarries`, `CallCarries`, `PrefixCarries`, `UnwoundCarries`),
so an action has to account for one response only.  What is sound stays so, as versions
and the set of hosts in trouble grow (`GoodStays`).  The cache rests on `KeyIsInjective`
(host and URI are in the key) and on `PutHolds` (a `Put` moves nothing to another key).

**The cost and the headers of a request** (`LoadIsBounded`, `HeadersAreTruthful`,
`CopiesAreInPlace`, from `BooksAreKept`).  A frame has an allowance: how often it, and the
handlers it may still call, can turn to the origin.  A frame that waits is left with what it
falls back to should its call fail, and no step makes contacts and allowances together
grow; a request of a client starts with five.  The same books say what the frame that
replies has written: one node id, its own; at most one `X-Cache`; and that objects are
cached without a node id, so that a copy's headers are not doubled.  When the views agree,
every frame after the first is at the owner of the key, so nobody else gets a copy.

**The service** (`ServiceImplemented`).  Every step of the tiers maps to one of
`CdnService` or to a stutter: steps inside a request to a stutter, the answer to the client
to `Finish`, a broken connection to `Finish` with `Lost`, a crash to `LoseMany`.  That the
answer is one `Finish` allows is what `Isolated` says of the response in the first frame.

**The table** (`ServesAlive`, `Fair`, `TypeCorrect`).  A full table is a matter of
counting (`n` is the number of filled slots, `Counted`), and so are shares.
Fairness is a matter of turns: there is a `q` such that the live destinations in
front of `i` have been given `q + 1` slots and the others `q` (`Level`).  The
invariant is stated for a fill in progress and for the finished table, in which the
last destination served is still `i` (`Served`).

**The same table again** (`FailbackRestores`, `FirstComeFirst`, from `OrderIsKept`).
`Given` describes a table by the order in which its slots were given away: no turn is left
out, live destinations take turns, each takes the first slot of its permutation that is
left.  Two tables like that, for the same hashes and the same dead, are equal
(`SameTable`): otherwise take the first turn in which they differ (well-founded
induction); the same destination had it in both, and found the same slots taken.
`Walked` and `Turning` carry this through the fill: every destination's offset is behind
slots that are taken, and since the last turn only dead destinations have been passed over.
`FirstComeFirstServed` names for each slot its place in the permutation; it follows from
`Given` because a permutation visits no slot twice in a table whose size is a prime, which
is number theory done here from division with remainder.

**The rate** (`WindowIsCounted`, `TypeCorrect` in `HttpRpsProofs`).  That `total` is the
number of requests in the window is not inductive: a tick subtracts a slot, and nothing
says what is in it.  The inductive invariant says that slot `i` counts exactly the
requests of one age, `SlotOf(i)`, which depends on how far `i` is behind `currentIdx`
around the ring; that `curr` and `newCount` count the requests not yet reported; and that
`total` counts all ages in the window.  A tick makes every request one second older and
moves the index on, so all slots but the one overwritten keep their requests.

**The origin's rate** (`MeterRefinement`, `OriginRate` in `OriginProofs`).  Every step of
`Origin` is a step of the meter or leaves it alone, so `Origin` implements `HttpRps`,
and the theorem above holds there too.

**The origin's start-up** (`StartCompleteness`, `SiteIsServed`, `OriginTypes`).  The
invariant `StartInv` says what the goroutines have done together, whichever have run: the
semaphore and the `WaitGroup` count those under way (`Counts`), the map holds the originals
and exactly what the goroutines that succeeded have made (`AssetsAreMade`; two with the
same key make the same image), and `firstEr` tells of an error exactly if one has failed
(`ErrorIsKept`).  When `wg.Wait` returns after the last launch no goroutine is under way,
so all are done, and there is an error or nothing is missing.  That a site links to nothing
that is not there follows without another invariant; that every image is on exactly one
page is division with remainder (`PagesPartition`), for any page size.

**Derived images** (`DerivedIsTruthful`).  `DerivedInv` adds that a handler that resizes
has passed the check of the width and has found the original (`HandlersAreServed`), while
the site's images stay what they are.  What it stores is then the same whoever else
stores it, so a handler that finds a copy answers as one that makes it.

**Frames sent on** (`SentFramesArrive` in `LbMainProofs`).  The checksum is a fact about
one's complement arithmetic on sums of ten 16-bit words: with the complement of the folded
sum in place, folding gives 65535 if and only if the first fold left 16 bits.  The other
half, that nothing of a packet is cut off a frame that came over a wire, follows from
the frame being at least 60 bytes long, for every length and every header.

**The counters** (`CountersTell`, `ReadingsAreBetween`).  A total is a fold over the CPUs;
`SumMoves` says what it becomes when one CPU counts, `SumMonotone` that it follows the
counters upwards.  For a reading there are, for each counter, the values the CPUs had when
it began and those that have been read: each of the latter lies between the former and what
the CPU has now (`Between`), and so do the sums when the last CPU has been read.

**The balancer process** (`RoundsNotice`, `TableFollows`, `PacketsHaveDestination`,
`TypeCorrect` in `L4lbProofs`).  That lost appends never hide a change is a matter of
the one that comes last.  `Noticing` says that a destination whose state differs from
the one before the round has not been judged yet, or is about to be appended, or that
`changed` is not empty; `Counting` bounds what a goroutine can have seen of the slice by
the goroutines that have ended.  `Tables` says what the kernel has in each phase: the part
already written while a table is being put, the table of the last complete update
otherwise.  `Phases` ties the order of `New` to what is in the maps by then, and that of
`Close` to the link: only after `Forget` can a tick find it nil, when no round of health
checks is on.

**The nearest PoP** (`NearestIsAnswered`, `SerialIsTelling`, `AnswersKeep`, `TypeCorrect`
in `GslbCoreProofs`).  The invariant looks at what is stored from the world's side: as long
as nothing has changed, a measurement is what `Seen` says (the network's latency, or the
default one if something before it in the round has hung), both in the results of the
region being measured (`RoundTruthful`, with `late` exactly if something has hung so far)
and in those stored (`StoreTruthful`).  That `Answer` is then nearest needs that
`FirstLeast`, a `CHOOSE`, exists and is least, which rests on the well-foundedness of the
natural numbers.  The serial needs `FirstRound`: before every region has been measured
it is at most the number of the region being measured.  That answers keep to the serial
needs no invariant but the types: `Answer` reads the latencies only, and whatever writes
those takes the serial to another value.

**DNS answers** (`ClientIsServed`, `NamesAreNotDenied` in `GslbDnsProofs`).  The first
is the core's invariant read through the client's subnet.  The second compares names label
by label (`BelowProperty`): a name below a denied one is in the zone, is not the name
server's, and has more than one label above the zone or one that is not `www`.

Only model-checked: the liveness properties (`EveryRequestEnds`, `FillEnds`,
`DownLosesFlows`, `UpGetsFlows`, `LinkHeals`, `RateForgets`, `StartEnds`,
`NearestIsServed`, `DeadPopIsLeft`, `CancelEndsRun`), since fairness and ENABLED are beyond
the prover; and the four statements of section 6, which are false.

## 6. What the checks found

- The cache meter of the demo sites looks for `X-Cache: Hit`, the nodes write
  `HIT`: every hit is shown as an answer from outside the CDN (`tier_meter`).
- The unlocked `append` in `HealthCheckAll` can end the process; losing elements
  alone is harmless, as `ChangeNoticed` shows (`l4lb_race`).
- All measurements of a round share one deadline: a PoP that hangs keeps the ones
  after it from being measured; if it is the first PoP, nothing is measured and it is
  handed out itself, while the others answer (`gslb_hang`).
- "Drop padding of the original packet if needed" assumes a frame padded to 60 bytes.  A
  frame of a virtual link, which nobody pads, has none: a TCP segment of 40 bytes loses
  its last 6 on the way to the destination (`lb_padding`).

Met while modelling, and no violation of anything the models are asked: `X-Shard`
outlives a failed peer and reaches the shield tier, whose own sharding is then skipped;
that makes no difference when the files agree, and `OriginLoad`'s five accounts for it.
Fragments after the first are hashed with bytes of their payload as ports.  The plugin's
reply carries no scope for the client subnet it used, its name errors are not
authoritative, and the apex answers a type it has not got without an SOA record.
The `break` in the attacher's goroutine leaves the `select` and not the loop, so it outlives
`close(linkCheckDone)`.  A tick that has read the link before `Close` forgets it can attach
the program again after it was taken off, and leave it on the interface when the process
has gone; a tick after that panics on the nil link.  Only the short time until `main` returns
is exposed to either, and no comment or test says what should happen.

## 7. Plan

1. `CacheNode`: the object shared between the LRU and the response, methods (a HEAD that
   misses is cached without a body), upstreams that hang, no-store.  `Rendezvous`: the
   maximum, its ties, and that removing a node moves only that node's keys.
2. `LbMain` on the maps of `L4lb`, for the window at start-up and updates half done.
3. Proofs: for what is modelled now every safety property is a theorem.  What is left is
   what the liveness properties rest on (why no state short of the goal is stuck), and
   what the modules above will need.

## 8. Not modelled

The web UI's JSON and the prober's timestamps; the origin's templates, its demo pixels
and the server without a site, which have no state; `types/` (records and formatting);
the BPF bindings, which are generated, and their generators; the lab's scripts; parsing
of configuration files and of the plugin's options, whose errors end the program at
start-up.
