# Formal models of the Wildroot resolution layer

TLA+ modules, TLC configurations and TLAPS proofs for the code under `src/`
(`src/src` holds the Handshake and shared modules, `src/namespaces/<ns>/src`
one chapter each). The code is the reference: every definition that models code
is listed in `PROJECT.json` ("map") with the lines it stands for. Some
definitions are plausible slips of the code beside the definition they replace
("mutants"); no specification uses them.

Run from this directory: `tlc -workers 2 -config HnsWalk.cfg MCHnsWalk` checks a
model, `tlapm HnsWalkProofs.tla` checks its proofs.

## The system

A browser's resolution layer: one Node/Electron process, single threaded, whose
operations interleave at every `await`, beside two child processes (a
Handshake node and a Tor client) and any number of remote servers.

| Component | State it keeps | Operations | Talks to |
|---|---|---|---|
| Chain resolver (`resolver.js`) | `cache`, `cacheEpoch`; per lookup a zone, its DS, the server asked | `resolve`, `txtRecords`, `forget`, `clearCache` | node, name servers |
| Handshake node (`spv.js`) | child, url/key/ports, supervisor, proxy | `start`, `stop`, `setProxy`, `getResource`, `isSynced` | hsd over RPC and DNS, files of earlier runs |
| DNSSEC, denial (`dnssec.js`, `nsec*.js`, `denial.js`) | none | validation of a chain, of a DS, of an absence | called by the resolver |
| Pointers (`pointers.js`) | none | parse, rank, merge | called by both resolvers |
| Delivery mode (`delivery-mode.js`) | `mode`, and the mode in the config file | `set`, `apply`, `policyFor` | anonymizer, config file |
| Anonymizer (`anonymize.js`) | `mode`, `status`, `_transitioning`, `_switchSeq` | `setMode`, `isOn`, `torSocks` | every browser session's proxy, Tor client |
| Tor client (`tor.js`) | child, `_available`, `_ready`, waiters, deadline, supervisor | `start`, `stop`, `whenReady` | tor process, pid file |
| Private lookups (`doh.js`, `odoh.js`, `odoh-bridge.js`) | fresh names, key configs, recent evidence | `resolve`, `_query`, `query`, `recentEvidence` | relays, targets, delivery mode |
| WebSocket proxy (`ws-proxy.js`) | connections, contexts, slots, generation, route | `start`, `stop`, `policyChanged` | resolver, anonymizer, sockets |
| Origin warming (`origin-warm.js`, `block-presence.js`) | downloads in flight, what the node is known to hold | `warm`, `sliceWarm`, `warmIfOurs`, `idle` | kubo, HTTPS origins |
| Name routing (`router.js`, `classify-host.cjs`, `hns-host.js`) | none | which naming system a host belongs to | everything above |
| Trust panels (`trust-path.js`, `route-path.js`) | none | what the user is told was verified | resolver's results |
| Chapters (ENS, HIP-5, Nostr, Arweave, onion, did, keys) | per request | one fetch over several gateways or hops | their networks |

What is hard in it, and what makes each part correct:

* *The cache*: a publish may finish while a lookup of the same name, or of a
  name below it, is in flight. Correct: nothing read before an invalidation is
  served or kept after it, the map stays bounded, and a lookup ends however
  often it is overtaken.
* *The walk*: any of some ten replies may be lost, forged, in error, or come
  from a zone above or below the right one. Correct: in a signed tree the answer
  is the zone's; `dnssecValidated` covers the whole answer; losing a reply never
  turns into a statement about the name; the lock says no more than that.
* *Private routing*: a switch is a sequence of awaits, and switches overlap one
  another and the Tor client's life. Correct: when the mode says Tor every
  session is on Tor; the mode, the file and the sessions agree in the end; a
  switch does not stay half way.
* *The processes*: a client or node dies, is replaced, is stopped while being
  started, or survives the browser. Correct: one runs at most, none is
  forgotten, what it offers ends with it, and it comes back.
* *Private lookups*: the mode, the keys and the name change while questions are
  out. Correct: nothing in the clear, no absence from a loss, a rotation is
  ridden out.
* *Slots, downloads, evidence*: results that come after their request gave up.
* *Denials and signatures*: records that are each genuine, chosen and combined
  by whoever answers.

`PROJECT.json` lists the hazards one by one, each at its line, with the
properties aimed at it.

## The modules

| Module | Models | Extends or uses |
|---|---|---|
| `FreshNames` | what `resolve()` promises about freshness, abstractly | |
| `HnsCache` | `resolve()`, `forget()`, `clearCache()` | implements `FreshNames` |
| `HnsWalk` | one walk: `getResource`, `_withFailover`, `_fromZone`, `_descend`, `txtRecords` | |
| `TrustPath` | the panel's steps and the lock (`hnsSteps`, `summarize`) | |
| `SecurityPanel` | the lock over what a walk returned, before and after connecting | `HnsWalk`, `TrustPath` |
| `Anonymizer` | IP Protection, with the Tor client as it sees it | |
| `DeliveryMode` | `set()` and `apply()` of the delivery mode | `Anonymizer` |
| `TorRoute` | what a Tor client promises to those who route through it, abstractly | |
| `TorNode` | the Tor process: start, grace, deadline, exit, supervisor, stop | implements `TorRoute` |
| `SpvNode` | the Handshake node's process: start, adoption, spawn, supervisor, `setProxy`, stop | |
| `PrivateLookup` | a lookup over DoH and oblivious DoH | |
| `WsProxy` | the CONNECT tunnel for WebSockets | |
| `Router` | classification, dispatch, link rewriting, the PAC script | |
| `Denial` | NSEC and NSEC3 predicates over whole zones | |
| `DnssecChain` | anchoring of keys, and what is verified under them | |
| `NsAddress` | whose address a name server is asked at | |
| `Pointers` | precedence, links, conflicts and origins of a name's TXT records | |
| `Bridge` | the web engine's questions and the evidence they leave | |
| `RegistryOp` | names delegated to a registry contract | |
| `EnsLookup` | ENS names: contract, off-chain lookups, pages | |
| `OnionHops` | a request to an onion service with its redirects | |
| `RelayUnion` | a filter put to several Nostr relays | |
| `Arweave` | gateways, the second gateway's header, verification | |
| `OriginWarm` | downloads of an archive and what is remembered of them | |
| `Requests` | one request of any of the twelve kinds above | the twelve, `INSTANCE` |
| `MCHnsCache`, `MCHnsWalk`, `MCRequests` | the instances TLC looks at | |
| `*Proofs` | theorems about the module they are named for | TLAPS |

### HnsCache

State: `cache` (name to version and age) and `older` (the order of the
JavaScript `Map`, which decides who is evicted), `walk` (the locals of the calls
in flight). `version` stands for the zones outside, `floor` and `served` are
histories. `resolve()` runs without interruption between its awaits, so its
actions are `Hit`, `Miss`, `Read` (the moment inside `_resolve` at which the
zone was seen), and after the await `Rerun`, `GiveUp`, `Fail` or `Finish`.
`cacheEpoch` is only ever compared with the value the same attempt read, so a
call keeps the comparison (`current`). `Store` keeps two details of the code:
it evicts whenever the map is full, also when the name is there already, and
`Map.set` on a present name keeps its place.

`KeepsPromise` is the refinement: `FreshNames` says a call returns a state of
the name that was current at some moment since its last invalidation. It also
says what is *not* promised: without an invalidation two lookups may return, and
store, out of order.

### HnsWalk, TrustPath and SecurityPanel

A name is its labels counted from the right, so a zone is a number; `cut` is the
set of delegations on the way to the name, `ds` the DS each zone has in its parent
(`odd`: only algorithms this program does not have). `anchor` is `ctx.dsRecords`.
One action is one step between awaits that matter: the chain's records
(`AskChain`), `_absent` (`Absent`), the next server (`Candidate`), then at that
server the TXT (`AskText`, which may `Descend`), the DNSLink (`AskLink`), the two
address families (`AskAddress`) and the TLSA (`AskPin`). `CatchUp` is the node
reaching the tip at any moment in between.

Replies are quantified over: lost, a server error, what the zone publishes, or
anything else. In an anchored zone a reply may always fail to validate, and
validates only if it says what the zone publishes (`Provable`: in the zone that
holds the name, its records; in a zone above a cut over the name, that there is
nothing, because the NSEC at the cut spans what is below it). That is the
assumption about cryptography, and the only one; what the predicates behind it
accept is the subject of `Denial` and `DnssecChain`.

Histories say what the properties may hold the code to: `honest` (every reply
that came was the truth), `unasked` (the three losses the code reads as an
absence: part of the chain's answer, the target of an alias, a server error), and
`trusted` (the two unsigned steps it takes in an anchored zone: an in-zone alias
that a reply claims, and a referral to a name that is not a cut, which the NSEC
form of the missing-DS proof does not exclude). Of an alias the model requires no
more than the code: `WithAddress` takes the first address of a reply whose first
signature verifies over *some* RRset, and `WithoutAddress` follows the first CNAME,
whoever its owner. What the answer may then be false in is the exception that
`SignedAnswersAreTrue`, `ValidatedIsGenuine` and `GreenIsProven` state: the address,
and in a zone above a cut that it has not noticed, that there is no pointer.
`TrueContent` (pointer, pin, consent to plaintext) and `TrueAddress` are the two
halves of a true answer.

`SecurityPanel` reads a walk's result as the panel does. The chain's part of a
result is `result`, what a registry or a connection adds is quantified over.

Assumptions about code outside `src/`: the node's root server answers an NS query
with a referral that carries the DS as well; a node that is not synced answers
with nothing.

### Anonymizer and DeliveryMode

`setMode('off')` and `setMode('tor')` are split at their awaits: `SetTor` to
`tor.start()`, `StartReturns` or `StartUnavailable` to the loop over the sessions,
`Route` for each session of a loop, `Settle` for what follows it, `AwaitReady`
and `AwaitFailed` for `whenReady()`. `_switchSeq` is, like the epoch, kept as a
comparison (`current`, `starting`, `awaiting`). `passes` are the `_applyRules()`
loops in flight, oldest first.

The Tor client may offer a port, bootstrap, or be revoked at any time; a
revocation while the mode is `off` is not heard (`RevokeUnheard`), as in the
constructor's listener. These are the steps of `TorRoute`, which `TorNode`
implements; that `Anonymizer` assumes no more of its client than `TorRoute`
promises is by inspection of the two, not checked.

`DeliveryMode` adds `set()` and `apply()`: `SetPrivate` flips the mode and starts
a write, `Saved` is the end of a write in whatever order writes end, `SetFast`
takes the anonymizer off and `Routed` flips the mode when that is done. The
launch (`apply()`) is a write that needs no writing. Two `set()` calls may overlap.

Assumptions about Electron: a session carries out its `setProxy()` calls in the
order given, so passes end in the order they began; a call that was superseded
and only returns is dropped from the model. A `tor.start()` that fails leaves no
port behind. A restart of the browser is not part of this module: `Agreement`
says that at rest the file is what a restart would need.

### TorNode

`proc` and `pidfile` are outside the browser and survive `Crash`; the rest are the
client's fields. A call in flight (`job`) is where it waits (`port`, `grace`,
`external`, `probe`) and what it closed over: the client it spawned and whether
that one has died. `Start`, `PortChosen`, `GraceEnds`/`GraceFails`,
`ExternalFound`/`NoneFound` are `start()` between its awaits; `Tick`,
`ProbeAnswered`, `ProbeFailed` are the supervisor's; `Exit` and `Bootstrapped` are
the child's events; `Deadline` is any boot deadline that fires, `held` the one the
object can still clear and `stale` the number of those it cannot. Nothing keeps
two calls apart, and nothing does in the model. A spawn and the write of its pid are
one synchronous piece, in which the write may fail (`WritePid`): the code swallows
that, and a browser killed between the two leaves the same state. The clients this
happened to are the history `unwritten`, and `OneClient` speaks of the others.

### SpvNode

`node` (a process and the `--proxy` it was given), `files` (the node that the key and
the ports on disk name) and `pidfile` survive `Crash`. The four callers of the same two
procedures are four jobs; `StopChild`/`Stopped`, `LocalProbed`, `OrphanProbed`,
`Claimed`, `Polled` are the procedures between their awaits. `ClaimedUnwritten` is
a spawn whose ports or pid were not written (both writes are swallowed) or whose
browser was killed before the pid was; `SpawnErrs` is the child's `error` event;
`ClaimThrows` is everything of `_spawn()` that rejects.

The calls overlap freely. `strays` are the nodes the code itself lets go, each added
in the step that does it: a write beside the node failed; an orphan did not answer
its one probe; the files of an orphan nobody adopted were removed (`Unadopted`);
a node was spawned while another call was between letting go and spawning
(`Overlaps`). Every other node, those of a `stop()` during a `start()`'s poll
included, is named by both files as long as it runs (`NoNodeIsLost`).
`LostNodeIsReplaced` excepts one state of rest, `LeftWithoutUrl`: a recovery or a
`setProxy()` that threw before `_spawn()` had set `this.url`.

### PrivateLookup

`ask` holds the one or two questions that are out; each goes to every relay of
every target (`key` is what `_cfgs` holds of a target's key, which may turn old
at any time), then, unless Private was on when it was asked, to every plain
endpoint. `Walk` is `resolve()`, `txtRecords()` or `addressOf()` going on with what
came; `Switch`, `Rotate`, `Expire` and `Forget` come at any await. `lost`,
`exposed` and `kept` are histories.

### WsProxy

`ctx` is a connection's context and the locals of `_handle`; `Progress` are its
steps between awaits, `Settle` is the end of an operation, also one nobody waits
for any more, and `PolicyMoves` is the route changing outside, before any handler
has compared (`refreshPolicy`). A context of an older generation was aborted when
the route was compared, so the generation is not kept.

### Requests and its twelve kinds

These parts share no state in the code, so `Requests` chooses one kind at the
start and runs its module by `INSTANCE`, with the same two variables (`given`:
what the world is; `call`: the locals of the request) for all but the archive,
whose `presence` outlives its requests. Functions without awaits are one action
each, or operators of one; what makes these runs worth having is what the world
may be:

* `Router`: every shape of host, typed, linked and dialled by a WebSocket.
* `Denial`: every zone of the bounded shape (see the runs), every question, and
  whoever answers drops any of the zone's own records, one after the other.
* `DnssecChain`: any key set, answer and signature that exists, those of earlier
  times and of revoked or foreign keys included.
* `NsAddress`: each name server registered on either root or both, with or
  without glue, any question lost; the servers of its TLD asked one by one, those
  without glue (`given.glued`) looked up at ICANN's root, as the code does.
* `Pointers`: every order of the records at the name and at its DNSLink.
* `RegistryOp`, `EnsLookup`: every endpoint may fail at every call; blocks differ
  between calls; gateways fail, lie, or ask for another lookup.
* `OnionHops`: every Location a service may send (`Locations`: scheme, host, port),
  classified as the code does, with GET, HEAD and POST, and protection switched off
  at any time. Whose bytes are at an address (`Owner`) is said apart from the
  classification, so that the two can disagree.
* `RelayUnion`, `Arweave`: events and headers in any order, after the end too, and
  gateways that lie. What a relay sent while it was asked and what it sent later are
  kept apart (`given.events`, `given.late`).
* `Bridge`: questions ending in any order, rows pushed out by the cap, time.
* `OriginWarm`: an open and reads at several places at once over shared
  downloads, garbage collection whenever the node pleases, a node that is not there or
  cannot say what it has (`OpenUnanswered`).

## The runs

| Run | Bounds | Properties |
|---|---|---|
| `hns_cache` | 2 names, one under the other; 2 lookups; 1 entry; 3 attempts; 1 tick; 1 publish per name | `NothingPreForget` `KeepsPromise` `EveryLookupEnds` |
| `hns_walk` | 3 labels; 2 servers; 1 delegation; 2 pointers and none; every small tree | `AnchorIsTrue` `SignedAnswersAreTrue` `ValidatedIsGenuine` `LossNeverLies` `GreenIsProven` `WalkEnds` |
| `private_routing` | 2 sessions; 3 switches; 2 passes before another revocation | `TorMeansRouted` `DirectOnlyUntilBlocked` `Agreement` `PrivateSettles` |
| `tor_client` | 3 processes, 2 of them at a time besides those whose pid was not written; 2 overlapping starts and the supervisor; 2 strikes; 3 calls; 1 fault; 1 counted stale deadline | `OneClient` `DeadlineCoversWait` `OfferGoesWithItsClient` `LostRouteReturns` `KeepsRoutePromise` |
| `spv_node` | 3 processes; 2 proxies; 1 strike; 3 calls; 1 fault | `ChildHonoursProxy` `NoNodeIsLost` `LostNodeIsReplaced` |
| `private_lookup` | 1 target, 2 relays; 2 endpoints; 2 attempts; 1 switch; 2 rotations; 1 forget | `NoPlainInPrivate` `LossIsNoAnswer` `RotationIsRidden` `CallsEnd` |
| `ws_proxy` | 3 connections over 2 places; 2 slots; a route that dials and one that refuses | `NothingIsLeaked` `StreamsFollowRoute` `StopDrains` |
| `requests` | 2 endpoints, gateways, relays, hosts; 2 lookups and redirects; 3 questions to the bridge over 2 sites and 2 rows; zones of up to 2 owners below the apex; 3 name servers; 3 records at a name and 2 at its DNSLink (`MaxTexts`, `MaxLinks`); 3 slices | `OneNamespacePerHost` `DenialIsTrueAbove` `HonestDenialIsProven` `AcceptedIsPublished` `OwnRootFirst` `OrderDecidesNothing` `EvidenceIsLatest` `ContractsAreReadWhole` `ShownIsFetched` `VerifiedIsSigned` `BeliefsExpire` `EveryRequestEnds` |
| `blocked_announced` | as `private_routing`, 2 switches | violates `OnMeansCovered`, which is R19 of the Tor chapter |
| `private_instant` | the same | violates `PrivateFromThatInstant`, a comment on `set()` |
| `walk_absence` | as `hns_walk` | violates `UnregisteredIsAFact`, 6.9 of the Handshake chapter |
| `denial_true` | as `requests` | violates `DenialIsTrue`, a comment in `nsec.js` |

Each property is stated in words where it is defined.

Why the bounds are enough to meet the cases. `hns_cache`: two lookups of the same
or related names are what it takes for an invalidation to fall between one's
miss and the other's store, and with one entry every second store evicts.
`private_routing`: two sessions are what it takes to see a pass half way, three
switches allow every there-back-there; `MaxPasses` bounds only how many
revocations may pile up. `hns_walk`: three labels give a TLD, a delegated zone
and a name in it, with one delegation allowed and a second refused; two servers
give failover and its end; `MCWorlds` takes one of several worlds that differ only
in what no step looks at. `tor_client`: two starts and the supervisor's tick are
the three who can spawn; two processes (`MaxProcs`) are the one in use and the one on
its way out, and a third is the one whose pid was not written, for which the one fault
is; the calls are shared by start, stop and crashes of the browser. `spv_node`:
each of the three processes may be the child, the one being stopped, and the one
the files name; three calls and the supervisor are enough for two to overlap after a
crash, and the one fault may be a death, a write, or a spawn. One strike instead of
three only makes a recovery come sooner. `private_lookup`: two relays show a key fetched again once per
target and spent on the second relay; the second rotation is the one that is not
ridden out; one switch and one forget can fall at any await, and the proofs cover
repetitions. `ws_proxy`: three connections at two places make one wait for a slot
that a request which gave up still holds. `requests`: with two of everything the
first may be lost and the last may be reached; a denial of a name needs at most
three records, and two owners below the apex give each of them an owner of its
own, in any order, at a cut, at a DNAME or at a wildcard.

The safety properties of all passing runs are proved as well, and so do not depend
on the bounds at all; liveness is only checked, within them.

Deadlock is not asked for where a behaviour ends: a walk and a request when they
are done, a Tor client and a node when the calls are used up and none runs.

### What the four violations say

* `_cannotRoute()` sets the mode to `blocked` before it applies the blackhole, so
  on the way from `off`, `isOn()` is true while sessions are still direct. What
  does hold is `DirectOnlyUntilBlocked`: the blackhole is on its way.
* `set('fast')` ends by writing the mode, whoever switched meanwhile; a
  `set('private')` made while it waited is undone in the mode, though the
  anonymizer is being turned on. `Agreement` and `PrivateSettles` hold for `set()`
  calls that do not overlap.
* `getResource()` answers with what the queries that came back brought, and
  `txtRecords()` calls a name without NS records `unregistered`; with the NS reply
  lost and the DS reply there, that is no fact. `LossNeverLies` says what is left:
  an absence is a fact unless a loss was read as one (`unasked`).
* `provesNxdomain()` takes any covering NSEC, also one at a delegation or at a DNAME
  above the name, where `nsec3.js` refuses. `DenialIsTrueAbove` is what holds.

### Seen while modelling

What the code does, kept by the models, where a reader may have expected
something else. Each is a disjunct, an exception of a property, or a history.

Where a comment, a SPEC or a message of the repository says otherwise than the code,
and the properties state it as their exception:

| The code | says otherwise | The exception is in |
|---|---|---|
| `resolver.js` 1047-1071, 1098-1118: the first address of a reply is used while the RRset of the first signature's owner is validated; the first CNAME of any owner is followed | 6.5f of the Handshake chapter (and line 846): alias and address are validated to the anchor | `SignedAnswersAreTrue`, `ValidatedIsGenuine` |
| `resolver.js` 999-1010, `trust-path.js` 115-128: a pointer from an unsigned zone has no step of the zone's, and the lock is green | 4 of the Handshake chapter: an unsigned answer is unverified | `GreenIsProven` |
| `resolver.js` 467-506: a TLD whose records are lost, or whose servers do not answer, falls through to ICANN's root, and a server of it without glue is looked up there | the comment at 435-439: only a TLD without chain records falls through | `OwnRootFirst` |
| `doh.js` 345-348, 412: a lost TXT or DNSLink is one that is not there, and the name may end as `unregistered` | the comment at 392-397: never `unregistered` | `LossIsNoAnswer` |
| `tor.js` 218-223: a pid that is not written is not reported, and the client of that run is not found by the next | the comment at 213-214: an orphan is reaped before a spawn | `OneClient` |
| `spv.js` 389-435: the same of ports and pid; 366-382: an orphan is probed once | the comment at 366-368: it is adopted instead of spawning a second node | `NoNodeIsLost` |
| `spv.js` 220: the tick returns without a url | the comment at 245: the next tick retries | `LostNodeIsReplaced` |
| `onion-protocol.js` 143-178: the body is read, and redirects are followed, without asking again whether protection is on | R5 of the Tor chapter | `ShownIsFetched` |
| `ccip-read.js` 196-210: a gateway that does not answer within a batch becomes a revert, and the name one without content | `ens-protocol.js` 238-242: unreachable | `ContractsAreReadWhole` |
| `hip5-op.js` 384: a contenthash call that is lost is a resolver without one | the comment on the line | `ContractsAreReadWhole` |
| `onion-protocol.js` 148-157, `ar.js` 395-402: a request without a timeout | (nothing) | `EveryRequestEnds` (`AwaitsForGood`) |

Also:

* Resolver: the TLD's own address (SYNTH4, SYNTH6) beside a delegation to a
  registry counts as a name server that then has none to ask
  (`resolver.js` 719-767); the name ends as `unregistered` (`Shadowed`).
  A lost DS query during a delegation ends the walk as `unreachable`, where HS-15
  hands the question to the next server.
* Lock: the refusals that put no step on the panel (`Unstepped`) are shown verified.
* DNSSEC: while two keys sign the key set, the signature that is found first may
  not be the anchored key's, and an honest zone is refused (`rolling`); for a DS
  the wildcard's own proof is not asked for.
* Denial: an NSEC zone cannot prove NODATA at a name that exists only for those
  below it; the closer wildcard and the order of the NSEC loop are as in the code.
* Pointers: of two TXT pointers of one kind the order of the records decides.
* Routing: a bare label that is a top-level domain of ICANN is a search when typed
  and Handshake as a link or a WebSocket; `isHnsHost` does not ask `isBareNumberOff`.
* Registry: the parts of one answer may come from different blocks. ENS: a gateway
  that hands over what is not genuine makes the contract revert, and the name is one
  without content.
* Arweave: a range, a body too large to hold and a rendered page are shown over a
  verified header without being compared, and no more than the header is claimed.
* Nostr: a relay may repeat one event until the limit is reached.
* Bridge: a row pushed out by the cap of rows lets an older answer for the same
  host stand.
* Tor: `stop()` during the grace of a `start()` is followed by an offer.
* Block presence: what was confirmed may be collected before the next confirmation,
  and a late no may forget a fresh import, which costs a download; `BeliefsExpire` asks
  only that what is believed has a time from which it is confirmed again.

### Fairness

* `HnsCache`: each lookup in flight keeps going. Every query has a timeout
  (`HNSResolver.timeout`), and what follows a settled promise runs.
* `HnsWalk`: the walk takes its next step. Nothing is assumed of the node or a server,
  beyond the timeout on asking it.
* `Requests`: the same of the requests whose fetches have a timeout, which are all but
  two kinds. An onion service and an Arweave gateway are asked without one, so nothing
  is assumed of what waits for them (`Goes` has only their steps that wait for nobody,
  `Decide` and `Works`): `EveryRequestEnds` says that such a request ends or stands
  still with a question out (`AwaitsForGood`), and never goes round for ever.
* `DeliveryMode`: `tor.start()` returns (two seconds of grace, a 1.5 s probe),
  writes and `setProxy()` calls end, continuations run, and the boot deadline ends
  a bootstrap that nothing else ends. Nothing is assumed of the user, and the
  client need not ever come up.
* `TorNode`: the supervisor's interval fires, its probe, its `anyFreePort()` and its
  grace end, a process that was told to go goes. Nothing is assumed of bootstrapping,
  of a deadline, or of the calls of `start()`.
* `SpvNode`: probes and polls end, the interval fires, a node that is being killed
  dies, one that is starting comes up or dies.
* `PrivateLookup`: every request has a timeout.
* `WsProxy`: heads, operations and refusals have timeouts and events are delivered;
  that an operation whose request gave up settles is *not* assumed.

## The proofs

All of them hold for every value of the constants allowed by the modules'
assumptions (`CacheAssumption`, `AnonymizerAssumption`, `WalkAssumption`,
`TorNodeAssumption`, `SpvAssumption`, `LookupAssumption`, `WsAssumption`,
and, for the requests, `RequestsAssumption` and `ZonesAssumption`), which TLC
evaluates on the runs. `ZonesAssumption` says of the names in play that they are
finitely many, that a zone has an apex and is made of them, and that no two have one
hash, as a signer has to see to. Nothing is assumed of what is at the names. For
each, the invariant that is inductive and why it takes more than the property:

* `HnsCacheProofs`. `older` orders the cached names strictly and totally (so exactly
  one entry is the oldest, and evicting it makes room), and every entry, and every
  lookup whose epoch has not moved, carries a version between the name's floor and
  its present version. From it: `TypeCorrect`, `CacheIsBounded`, `NothingIsStale`,
  `NoAnswerOutlivesForget`, and `CacheKeepsPromise` step by step: `Hit` and `Finish`
  are `Serve`, `Forget` and `ClearCache` are `Invalidate`, `Publish` is itself, the
  rest stutters.
* `HnsWalkProofs`. The result is put together from several replies, so `WalkInv` says
  what holds between the steps: the anchor is the truth about the zone
  (`AnchorIsTrue`); the pointer read is provable (`TextIsTrue`); none was overlooked
  when the address is asked for (`NoPointerMissed`); the address found is the name's
  own unless an alias was claimed (`FoundIsTrue`). From it: `WalkIsTyped`, `AnchorsAreTrue`,
  `SignedTreesAnswerTruly`, `ValidatedAnswersAreGenuine`. `LossesNeverLie` needs the
  same between the steps for signed and unsigned zones alike, as long as every reply
  that came was the truth (`NameRead`), and what the place the walk is at says of the
  chain's records (`ChainRead`). `GreenLocksAreProven` goes back from the lock to the
  walk: a green lock leaves few of the kinds a result may be of (`Outcome`), and each
  of those was made of records that an anchored zone proved, or is the chain's own.
* `DeliveryProofs`. `TorIsRouted`: mode `tor` is announced by a pass that is current
  and has reached every session; the invariant says of each session that the last
  pass to have reached it decides its proxy, that passes are in order, and that no
  pass that could still send a session elsewhere is in flight behind an
  announcement. `DirectIsBrief`: while the mode is not `off`, a direct session lies
  ahead of some blackhole pass. `DeliveryAgrees`: as long as no `set()` is called
  during another, at most one call is at work, in one place (its write, its pass, or
  the start of Tor: `OneAtATime`); what the mode and the file hold at that place
  (`Wanted`), and what the anonymizer has done or still will (`Driven`), add up to
  `Agreement` once nothing is in flight.
* `TorNodeProofs`. Every step does one of a few things to the offer (`OfferStep`);
  `WaitsAreCovered`, `LostClientEndsOffer` and the refinement `NodeKeepsRoute` are
  read off from those. `OneClientRuns` is inductive with the types: the pid file is
  read again before each spawn, and names whatever runs and was written to it.
* `SpvNodeProofs`. `ChildKeepsProxy`: a call about to spawn reads `proxy` in the step
  that spawns, and `setProxy()` puts the child aside in the step that changes it.
  `NodesAreKept` needs what each call in flight has established before its await
  (`Kept`): as long as a node runs and is no stray, neither the child nor the adopted
  pid is another, no call is about to spawn over it or to remove its files, and a call
  that probes an orphan probes this one. No two calls need to be kept apart for that.
* `PrivateLookupProofs`. A question keeps what it was told when it was asked, and runs
  out of relays without a fault only by a key that turned old after it was fetched
  again (`Sound`); what was lost goes with how far the walk has come. From them:
  `PrivateIsOblivious`, `LossesAreNoAnswers`, `RotationsAreRidden`.
* `WsProxyProofs`. `Owned` says of one context, whatever its stage, what it may hold
  and over which route; a change of the route makes a context of the old one a
  context of the new by aborting it. The slots are counted by cardinality lemmas.
  From it: `SlotsAndSocketsAreOwned`, `StreamsAreOnRoute`.

* `RequestsProofs`. A step is one of the request's own module, so each kind has its
  own invariant, of that module's `Init` and `Next`:
  * `DenialInv` is only that the records shown are the zone's; the work is in what
    follows from it. Of any finite set in a strict total order, the points of a gap are
    not in the set, and all of the set lies beyond the one end or the other
    (`GapIsEmpty`); every other point has a gap (`GapExists`). The canonical order of
    names is such an order, and what lies between two names with a common ancestor
    shares it (`Between`); so of a name's ancestors that exist, the longest is shared
    with one end of the gap it lies in (`NsecEncloserIs`), and the encloser, whose
    wildcard answers, is the right one. For hashes the same gaps serve without the
    order of names. From it: `AcceptedDenialsAreTrue`, and `AbsencesAreProvable`,
    its converse. `Delegated` counts a wildcard that is a delegation, which the run's
    zones do not have.
  * `ContentInv` is the property itself; a rank is found by its least position
    (`PointerWins`, `OneWinner`), whatever the order of the sequence (`AllAreRead`).
    From it: `OrderOfRecordsDecidesNothing`.
  * `WebInv`: whatever question is over has a row of its host at its time or later,
    among the rows or those pushed out (`Stands`). From it: `LatestQuestionStands`.
  * `NsInv` says which root was asked for the server at hand and what it said;
    `ArInv` that a header is kept only if it was verified; `ChainInv` that keys once
    anchored are those the zone publishes; `EnsInv` and `RegistryInv` which answers
    the parts so far are of; `OnionInv` that one request goes out for every hop and
    that whatever is waited for is the service's own; `NostrInv` (`HeardOnce`) that what
    was taken of each relay is what it sent while it was open; `WarmInv` is the
    property. Each theorem's property states its exceptions, and the proof is of all of
    it, the exceptions as narrow as they stand. From them: `OwnRootIsFirst`, `VerifiedBytesAreSigned`,
    `AcceptedAnswersArePublished`, `ContractsAreBelievedWhole`, `WhatIsShownWasFetched`,
    `WhatIsBelievedExpires`. `HostsHaveOneNamespace` needs no invariant: three readers
    of one host are compared by its shape.

Only model-checked: liveness (`EveryLookupEnds`, `PrivateSettles`, `WalkEnds`,
`LostRouteReturns`, `LostNodeIsReplaced`, `CallsEnd`, `StopDrains`,
`EveryRequestEnds`), which is out of the prover's reach. Where an argument needs
induction over data it goes by least elements: any set of numbers has one
(`Smallest`), and a finite ordered set has one because the numbers of elements below
each do (`LeastExists`).

## Not modelled, and why

* Encodings and wire formats (DNS packets, CIDs, CAR files, nip19, torrents,
  contenthash codecs), hashes and signatures: arithmetic over bytes, covered by the
  repository's own vectors; the models say what they establish. With them the IPFS
  formats, the identity chapter and the keys chapter, which are that and one-shot
  fetches.
* Pages, headers, log lines, the timing panel, the route panel: presentation. (The
  route panel may describe an answer that a cache gave by the route that would be
  taken now.)
* Other namespaces' steps of the trust panel: one table per chapter, without state.
* The external proxy mode of the anonymizer, and `reapply()`, which nothing calls.
* `authoritative` and `serverFor` of the resolver, which its tests use.
* web3 addresses: one contract call each.
* The ICANN snapshot and policy: data, and a choice of settings.

What would come next: `Anonymizer` over `TorRoute` by `INSTANCE` rather than by
inspection.
