# A TLA+ model of cacheBench

cacheBench is a memory cache in C with a slab allocator, a server that offers
it over a nanomsg PAIR socket, a client library with the same interface, and a
workload simulator that measures the throughput. nanomsg (0.8-beta) is part of
the repository. This directory holds TLA+ modules for the parts of both, TLC
configurations that check them on small instances, and TLAPS proofs about the
slab allocator, the cache, the server, the timers, the holds on a socket and
the benchmark.

## The system

| Part | Source | What it does |
| --- | --- | --- |
| linked list | `tools/list.c` | create, append, find, delete, destroy |
| slab allocator | `tools/slabs.c` | list of slabs of 1 MB, each with a class, status words and `isFull`; add, get an address, delete |
| cache | `cache.c`, `tools/tools.c` | 30 buckets of metas (key, address, size, timer, class) over the allocator; set, get, delete, space used |
| server | `server.c` | one global cache and `cache_has_been_set`; memsize, shutdown, PUT, GET, DELETE, HEAD |
| client, simulator | `client.c`, `workload_sim.c` | send a request, then receive what has arrived, for 30 s |
| worker | `nanomsg/src/aio` | one thread for timers, tasks and file descriptors; state machines with a queue of events per context |
| socket core | `nanomsg/src/core` | table of sockets, holds, endpoints, blocking calls, closing, statistics, pipes |
| socket types | `nanomsg/src/protocols` | PAIR, PUSH, PULL, BUS, PUB, SUB, REQ, REP, SURVEYOR, RESPONDENT over lists of ready pipes |
| transports | `nanomsg/src/transports` | tcp, ipc, tcpmux, ws: an endpoint, its connections, sessions and handshakes; inproc: two sessions in one process |

A request goes from the simulator through the client library into its PAIR
socket, over a pipe to a TCP session, through the worker to the operating
system, and the same way up in the server, which calls the cache and replies
before it takes the next one. A set deletes the old value of the key, asks the
allocator for an entry, lets it add a slab if the limit allows, else evicts the
value of the same class with the largest timer and asks again.

In nanomsg every socket has a context, a lock with a queue of events. A thread
enters it, makes its call, and processes all events that were raised, before
it leaves. The interleavings are therefore those of whole stays in a context,
of what the code does outside of any (the hold counters, the descriptors, a
handle between the timer set and its owner), and of events that are on their
way between contexts. The modules take steps of that size.

## Modules

The cache and its server:

| Module | What it models |
| --- | --- |
| `List` | `tools/list.c` on sequences |
| `SlabOps` | `tools/slabs.c` as operators on the list of slabs, and the predicates that relate the slabs to a set of held addresses |
| `SlotPool` | what the allocator promises: a pool of slots |
| `Slabs` | the slab manager with a caller that makes any calls; refines `SlotPool` |
| `CacheOps` | `cache.c` and `tools/tools.c` as operators on a cache object |
| `Store` | what the repository's README promises: a get returns the value set last or nil, a deleted value is never returned |
| `Cache` | the library with a caller that makes any calls; refines `Store` |
| `Server` | the request handlers over `CacheOps`; refines `Store` |
| `Bench` | the simulator, the client and the server's loop over a PAIR connection that fills, breaks and refuses replies that are too long |

nanomsg:

| Module | What it models |
| --- | --- |
| `Timer` | `nn_timer`, the timer set, the task queue and the loop of the worker |
| `PipeBase` | `core/pipe.c`: the pipes of one socket and the queue of its context |
| `Priolist`, `Dist` | the ready lists: `nn_priolist` with `nn_lb` and `nn_fq`, and `nn_dist` |
| `Xpair`, `Xpush`, `Xpull`, `Xbus`, `Xpub`, `Xsub` | one socket type each |
| `Req`, `Rep`, `Surveyor`, `Respondent` | the types with a protocol state machine, with peers that answer late, twice or never |
| `MCSockets` | one socket of any of the ten types |
| `Trie`, `MCTrie` | the subscriptions of a SUB socket |
| `Aio` | what transports are built on: usocks, timers, resolver, event queue, pipe |
| `Streamhdr`, `Tcp`, `Ipc`, `Tcpmux`, `Ws` | the state machines of the transports |
| `Transports` | one endpoint of any of the four, with its application, peers and worker |
| `Inproc` | the inproc transport: name service, both endpoint types, sessions in two contexts, the queue in chunks |
| `Lifetime` | what the holds on a socket promise |
| `Core` | `core/global.c`, `core/sock.c`, `core/ep.c` with two threads; refines `Lifetime` for each socket |

`MCCache`, `MCServer` and the `.cfg` files only give constants. `SlabLemmas`,
`SlabsProofs`, `CacheLemmas`, `CacheProofs`, `ServerProofs`, `TimerProofs`,
`CoreProofs` and `BenchProofs` hold proofs.

Definitions have the names of the C functions and states they stand for;
`PROJECT.json` names the lines. Conventions:

- A status word is the set of its 1 bits, counted from the most significant. A
  pointer into a slab is the slab's position in the list and an offset; `NULL`
  is position 0. The bytes of a value are kept with its meta, and `Write`
  changes the value of *every* meta with that address, so sharing an entry
  shows as a corrupted value. A call or request is one step, as the program is
  sequential. `junk` of a slab is history that no operator reads.
- `size` is computed modulo `CAP` (2^32), timers modulo `TimerMod` (256).
- In `Aio` and what uses it, the state is one record `w` and a handler maps
  `w` to the records it may leave; `w.q` is the context's queue and `Process`
  takes one event from it. `w.held` are the usocks a handshake has borrowed.
- In `PipeBase` the variables are those of the socket's context; an outer step
  needs an empty queue, as the code has it when a thread enters.
- In `Core` one step is one stay under the global lock or in a context, or one
  access without either; the read and the write of an unprotected decrement
  are two steps.
- Instants in `Timer` are relative to the clock: a tick brings them nearer.
- Undefined or unspecified outcomes are choices: what `malloc` left in a status
  word, what a 32-byte key becomes when the address overwrites its terminator,
  the uninitialised `peer_gone` of `cws.c`, what `nn_trie_match` reads behind
  the end of a message.
- A failing assertion or an unexpected event (`nn_fsm_bad_action`) sets `bad`
  (`crash`, `Dead`, `"aborted"`) and ends the behaviour.

Operators introduced by `Fault:` are wrong variants of the operator after
them. The modules never use them; with the variant in its place the property
that guards against that mistake must fail.

## Runs

Runs that pass:

| Run | Shows |
| --- | --- |
| `slabs` | with any calls and whatever `malloc` left, each entry has exactly one owner (`OwnedExactly`), full marks are never stale (`FullMeansFull`), and the manager is a pool: it says NULL only if the class has no free entry (`ImplementsPool`) |
| `cache` | metas and slots agree, no two metas share a slot or a name, counters do not drift or wrap, the assertion of `cache_get` fires only for a value with an embedded zero (`Consistent`); the cache is the store of the README (`ImplementsStore`); a value is evicted only for lack of room in its own class, it is the one its timer says was idle longest, and never the one the previous call has set or read, unless the set deletes an old value first (`EvictsOnlyForRoom`) |
| `server` | no request but a shutdown discards values (`FlagTrue`), all that the header counts is reachable (`UsedIsReachable`), the replies implement the store |
| `bench` | a connection carries its client's messages in order, and only the first reply can be another client's (`InOrder`); clients come to their end (`Finishes`) and the server comes back to receiving (`ServerFree`) unless both wait to send |
| `timer` | a stop is final and nothing unexpected reaches a timer (`NeverBad`), a timer fires once and not early (`OnTime`), it fires unless stopped (`Fires`), a stop completes (`StopCompletes`) |
| `sockets` | no socket type uses a pipe it has lost or in the wrong state, and a closing REQ is the only one that can release a message twice (`NeverBad`); its lists are exactly the pipes that are ready (`OffersTrue`); pipes are served by priority and in turn (`ServedInOrder`); REQ: a sent request is tied to a live pipe (`SentToLive`) and is answered in the end (`Answered`); REP, RESPONDENT: a reply reaches its asker or nobody (`ToTheAsker`); SURVEYOR: an application that goes on receiving is told the end of each survey, once, and gets no response to it afterwards (`SurveyEnds`) |
| `transports` | which aborts are reachable, for each transport and role (`OnlyKnownAborts`); events go to the machine in charge and the socket has a pipe exactly while the session is active (`PipeFollowsSession`); an active endpoint accepts or counts as connecting (`AtWork`); a message is read and delivered in one piece (`OneMessage`); closing ends, handshakes end, connections are retried (`CloseEnds`, `HandshakeEnds`, `Reconnects`) |
| `inproc` | between linked sessions nothing is lost, doubled or reordered, and no wake-up is lost (`NothingLost`); closing ends (`CloseEnds`); only calls that open or close and overlap others can crash (`SafeUnlessRacing`) |
| `trie` | matching agrees with the bag of subscribed topics, a message that is only the beginning of a topic is never sure to match, and nodes stay well-formed (`Matches`) |
| `core` | only calls that must not overlap can crash (`SafeUnlessRacing`); descriptors tell the truth (`SignalsTrue`); the table of sockets is sound (`TableSound`); calls use a socket as its holds allow (`ImplementsLifetime`); blocked calls are released by a close (`Released`); `nn_close` returns (`CloseReturns`), with the two exceptions below |

Runs in which the code refutes a statement of the repository:

| Run | Statement | What happens |
| --- | --- | --- |
| `key_fills_array` | `README.md:10`, a value set is returned | a key of 32 bytes is stored and never found |
| `req_late_reply` | `req.c:178` "Ignore replies with incorrect request IDs." | every message is received into the place of the answer before its number is looked at, so a late reply to a cancelled request replaces an answer that has not been fetched yet |

### Bounds

- `Slabs`: up to 3 slabs of 4 bytes, 2 words of 2 bits, classes 1, 2 and 4: a
  class that fills all words (64 in the source), one that fills one word
  exactly, one with a partial word (64 KB and above). With three slabs one
  class can have two, so that a mark is set while the search goes on.
- `MCCache`: three keys in two buckets, two classes, room for no, one and two
  slabs, timers modulo 3 so that they wrap; values larger than the memory of a
  slab and than the slab, one with an embedded zero and one refused for its
  last byte. `MCServer`: two keys in one bucket, a key that is too
  long, limits clamped from below and above.
- `Bench`: two clients one after the other or at once, queues of one message
  (`Cap`), five requests, two failures of the network. One message per
  direction is enough for both sides to wait for each other.
- `Timer`: two timers, timeouts 0 to 2: equal, earlier and later handles.
- `MCSockets`: three pipes of two priorities, one of which completes calls at
  once; REQ and SURVEYOR with two requests (`MaxId`) and two faults
  (`MaxFaults`). The third pipe lets a list have a first, a middle and a last.
- `Transports`: three connection objects (`Slots`) for a bound tcp or tcpmux
  endpoint (`Busy`), so that it accepts while it has two connections, one ends
  while another starts, and a close stops a list of two; a bound ipc or ws
  endpoint has one connection beside the one it accepts. One message and one
  frame per connection at a time; a text ends within a code point or not.
- `Inproc`: two bound and one connecting endpoint, two threads, chunks of two
  messages and room for four, three messages up and one down: the queue fills,
  and passes from chunk to chunk.
- `MCTrie`: prefixes of one character and two sparse children (10 and 8 in the
  source), eight topics over four characters, each subscribed up to twice:
  nodes are split, merged, and change between sparse and dense.
- `Core`: two threads, a table of two slots and two sockets, one endpoint each,
  of which one stops late; one direction of transfer, as sending and receiving
  are the same code; one round of statistics.

No state constraint is used: guards bound every counter. Keys and pipes are not
declared symmetric, as hashes and priorities tell them apart.

Deadlock is checked in `slabs` and `timer`. Elsewhere the system may
stop: the process exits or aborts, all clients are through, all sockets are
closed, or a bound is used up.

### Fairness

- `Timer`: the worker thread runs and time passes. Owners need not do anything.
- `Bench`: both processes run; a client that wants to connect does so in the
  end, since nanomsg retries; the end of a process and a message that is too
  long are noticed. The network need not fail.
- `MCSockets`, for REQ: the context's events are processed, the resend
  timer fires, and on two of the pipes connections come up, sends complete and
  peers answer. Faults are bounded, which makes the last assumption fair; that
  timers fire and stop is what `timer` shows. For SURVEYOR: events are
  processed, and the worker (deadline, stop of the timer) and an application
  that goes on receiving get at the socket again and again (strong: other
  threads may have it for a moment). Peers need not answer.
- `Transports`: the queue of events is empty again and again, that is, events
  are processed and no peer for ever sends as fast as it is read; the worker's
  tasks and timer steps are taken (strong: a step of the application in between
  may disable them for a moment). Peers and resolver need not answer.
- `Inproc`: a thread delivers the events it has raised, as `nn_ctx_leave` does.
- `Core`: threads go on, a lock that is free again and again is obtained
  (strong), endpoints stop, the statistics worker runs.

## What the models show about the code

Reachable aborts that `OnlyKnownAborts` lists. They are part of the property
so that nothing else can hide among them:

- stream header: an error of the usock while the timer is being stopped after
  a good handshake (`streamhdr.c:287`), on all of tcp, ipc and tcpmux;
- tcp: binding to an interface that does not resolve (assertion); tcp and
  tcpmux: connecting again after `bind()` of the local address failed finds
  the usock in the wrong state;
- ipc: a path that does not fit `sun_path`;
- tcpmux: the bound endpoint is destroyed while its backoff timer runs, and
  does not expect the daemon to hang up while it is active, registering or
  stopping; the connecting one does not expect it during the greeting, which
  has no timer either;
- ws: an opening or a response that ends but lacks a header the parser waits
  for, or that fills the buffer to its last byte (`ws_handshake.c:474`, `656`);
  a code point of four bytes that is split between fragments (`sws.c:626`); a
  read that is started on a usock whose error was ignored; data after the application sent a close frame; a failing listen
  (`bws.c:376`), a failing local bind, and fragments and the remembered opcode
  of a message that a reconnect left over (`sws.c:347`);
- ws: sending a close frame stops the pipe inside `nn_pipe_send`; `nn_lb_send`
  then advances a list that has lost the pipe (`lb.c:81`, `priolist.c:154`), and
  `nn_dist_send` may erase an entry that was freed (`dist.c:98`). A PAIR, which
  is what cacheBench uses, has no list;
- all transports: the first OUT of a pipe and what its session does next are
  queued together. A REQ whose request waited for a pipe sends it in the handler
  of OUT (`nn_req_out`), where the usock may have failed already
  (`nn_usock_send`, `nn_usock_recv`) or fail at once, so that an IN or OUT that
  is still queued reaches a pipe that was removed; and a session that has ended
  over an oversize message or a broken frame (tcp, ws) does not expect the SENT
  or SHUTDOWN that comes late. Other socket types only note that the pipe is
  ready, and the models of socket types (`PipeBase`) start a call with the queue
  empty; this is the one case they leave to `Transports`.

Exceptions that other properties name:

- a closing bound ws endpoint can wait for ever (`bws.c:200`) for a connection
  that has ended unnoticed (`Unnoticed`, and only for such a one), the ws server
  gives a pipe to a client it has rejected, and `cws` may stop retrying because
  `peer_gone` was never set (`cws.c:105`);
- REQ: `nn_req_in` receives into `task.reply` and releases what is not the awaited
  reply there; if the socket is closed then, `nn_req_term` releases it again
  (`req.c:113`, `ReleasedTwice`);
- SURVEYOR: `nn_survey.txt` says that responses after the deadline are dropped.
  The code still returns those that arrive while the timer is being stopped,
  before it reports the end; `SurveyEnds` speaks of what comes after the report;
- inproc: a second peer of a PAIR socket is refused and ends the process;
  calls that open or close endpoints of one address while other calls are
  under way can find a session in a state that does not expect the event;
- trie: unsubscribing from an empty trie follows a null pointer, a nested
  `-EINVAL` is taken for a removal, conversions between sparse and dense reset
  a reference count (`trie.c:384`, `609`) and an unsubscription may look at the
  wrong node (`trie.c:490`); `slip` is set by the calls that lead there. A
  message that ends with a node without subscription is compared with the byte
  behind it (`trie.c:467`), so the 0 that `tests/trie.c:88-91` expects is the
  likely answer, not the certain one;
- core: the two decrements of `nn_close` (`global.c:585`) are outside the lock.
  A lost one leaves the counter too high: no memory is freed early
  (`ImplementsLifetime`), but `nn_close` waits for nobody (`HoldsLost`), against
  the comment that it waits "until all other consumers of the socket have
  dropped their holds". With statistics on, the worker wants the global lock
  with a context its owner wants (`Embrace`). `nn_bind`, `nn_connect` and
  protocol options may meet a socket that `nn_close` has stopped, and `nn_term`
  may meet sockets that are being closed or have endpoints;
- bench: client and server freeze when both directions are full (the freeze
  `README.md:61` reports); a reply to a client that has left goes to the next.

Seen while modelling the cache, part of the model and not stated as properties:
a set fails with 4 if all slabs belong to other classes, where the comment at
`cache.c:222` promises a fallback to the closest class, and the old value is gone
(`cache.c:330`); timers are advanced by sets and deletes and not by gets, and wrap
at 256, so the value with the greatest timer is only roughly the one used least
recently, and among equals the order of the buckets decides; a value with timer 0 is never evicted (`cache.c:243`); a cache
of exactly one slab stores nothing (`cache.c:172`); a value with an embedded
zero aborts the get (`cache.c:373`); the limit for values includes the slab's
bookkeeping (`cache.c:298`), after which the model claims nothing; `memsize`
replaces a cache in which nothing has been set (`server.c:94`).

## Proofs

All theorems hold for every value of the constants that satisfies the named
assumption of the module.

**Slab manager** (`SlabsProofs`, from `SlabAssumption`: each class fits the
memory, and a slab has a status bit for every entry): `TypeCorrect`,
`EntriesOwnedExactly` (`[]OwnedExactly`), `MarksNeverStale`
(`[]FullMeansFull`), `ManagerIsPool` (the refinement of `SlotPool`).
The inductive invariant is `Sound(slabs, held)`: types, every
held address is that of an entry, a bit is 1 exactly if its entry is held,
dirty or not there, dirty entries are not held, and a slab marked full has no
clear bit. None of the parts is inductive alone. That a request hands out a
fresh entry needs the equivalence for bits; that a deletion frees exactly one
entry needs different entries to have different addresses
(`EntryAddrInjective`); that a full mark stays true needs that only a deletion
clears bits, and it clears the mark as well. `SlabLemmas` has what each
operator does to the bits and shows that each operation keeps the invariant for
any caller; `SlabsProofs` adds one step per action.

**Cache** (`CacheProofs`, from `CacheAssumption`: among others, the largest
class is a whole slab and a limit of two slabs is below `CAP`; the keys, the
values, the hash, the modulus of the timers and what `malloc` leaves are
arbitrary): `CacheConsistent` (`[]Consistent`), and, if no key is exactly as
long as the array of a meta (`KeysFit`), `CacheIsStore` (the refinement of
`Store`), `EvictionIsLastResort` (`EvictsOnlyForRoom`) and
`StoredUnlessKeyFills` (`[]StoredIfSaid`). The run `key_fills_array` shows that
the last needs its hypothesis; consistency does not: a 32-byte key loses its
value, not the tables.

The inductive invariant is `Good`: the invariant of the slab manager with the
addresses of the metas as the held ones, every meta in the bucket its key
hashes to and of the class of its slab, names and addresses distinct, the size
in a meta that of its value, `num_values` and `size` equal to
what they count, and no metas without a cache. Beside it the timer of the key
used last is 0 (`Fresh`), which is what saves it from the next eviction. That
the victim has the greatest timer of its class follows from the loop of
`cache_evict`, on the cache as the delete inside the set has left it. The
parts need each other: that a new value overwrites no other needs distinct
addresses and the bits; that the delete inside `cache_set` leaves no second
copy needs distinct names in their own buckets; that a set after an eviction
finds room needs the class of the meta to be that of its slab. `CacheLemmas`
goes up the call graph: what unlinking, appending and the timers do to the
places of the metas (`Carried`, `Still`), then `cache_delete`, `cache_evict`,
`expand_cache`, `free_space`, and at last `SetIs`, `GetIs` and `DeleteKey`, one
statement for each call. Trying to prove `EvictsOnlyForRoom` showed that an
eviction may also follow an added slab: if `malloc` left all bits of its partial
word set the new slab has no free entry, and `cache_set` goes on to evict. The
property says so.

**Server** (`ServerProofs`, from `ServerAssumption` and the above):
`FlagTellsTruth` (`[]FlagTrue`) and, with `KeysFit`, `ServerIsStore` (the
refinement of `Store`). The invariant is `Good` for the global cache, with the
flag and the cache in step; the proofs use the same statements about the
library's calls. A set that fails for want of room keeps an empty cache empty,
which is why a failed PUT need not raise the flag.

**Timers** (`TimerProofs`, from `TimerAssumption`: timeouts are naturals):
`TimersNeverBad` (`[]NeverBad`) and `TimersOnTime` (`OnTime`), for any set of
timers. The two task queues are seen as one. The invariant says of each timer:
a stop task is queued exactly in STOPPING and behind the start task; in ACTIVE
a start task is queued exactly while the timeout has not been passed on; of
start task, handle in the set and expired handle at most one exists, and as
long as one does the owner has been told nothing; an expired handle is due.
Of the set: it is ordered by due time, has one handle per timer, and none is
due before the time its owner asked for. "Told once" needs all of this: it
rests on the fact that the one thing that can lead to a timeout is used up.

**Socket core** (`CoreProofs`, from `CoreAssumption`: 0 is neither a socket nor
a thread, and the directions are those of the code), for any number of threads,
sockets, slots, endpoints and messages:
`SafeApartFromRaces` (`[]SafeUnlessRacing`), `DescriptorsTellTheTruth`
(`[]SignalsTrue`), `TableIsSound` (`[]TableSound`), `LifetimeImplemented`
(`ImplementsLifetime`, the refinement of `Lifetime` for every socket), and
`HoldsProtect`: nobody refers to a socket that `nn_close` has begun to destroy.
The last also says what the abstract specification is good for: `NoneLeft` of
`Lifetime` holds in the core.

One invariant, `Inv`, carries all of them; its parts need each other.

- `Covered`: the counter of holds is at least the number of references, and so
  is what a thread in the middle of a decrement has read of it. Overwritten
  decrements only make the counter too high, so the first post of the semaphore
  is the last decrement. This part is kept by every step of `Lifetime`
  (`StaysCovered`), whatever the core does.
- `Calls` and `Table`: a call refers to a socket that exists, at most one call
  closes a socket and it does so from the slot the socket is in, the owner of
  the global lock is where the lock is held, and a socket is in one slot from
  its creation until `nn_close` gives it back. They are what makes a step of the
  core a step of `Lifetime`: that `nn_close` finds the reference of the table,
  that nobody decrements while another call takes a hold.
- `Stack`: the entries below the top of the stack of unused slots are distinct
  and are the free slots. `TableSound` alone is not inductive: it counts the
  slots, and a duplicate could hide behind a count.
- `Signals`: flags, descriptors and what the type can do agree after each stay
  in the context. An `nn_efd_unsignal` of a descriptor that is not set would
  abort the process, so safety needs it.
- `Orderly`, as long as `slip` is false: endpoints are left only in a socket
  that is active or stops them, nobody is about to add one to a socket that is
  closing, and `nn_term` makes zombies of active sockets only. Each race that
  `slip` records may break one of its conjuncts; apart from them every action
  keeps it.

There is one lemma per action; it shows that the action keeps all parts but
`Covered` and is a step of `Lifetime`, or none, for each socket, which in turn
gives `Covered`. `Inductive` puts them together. In this module Zenon is tried
before the SMT solver (`USE`): most steps are first-order, and it is faster.

**Benchmark** (`BenchProofs`, from `BenchAssumption`): `RepliesInOrder`
(`[]InOrder`) for any clients, capacity, number of requests and failures. The
messages on the way are four sequences: the reply seen last, the replies on the
connection, the one the server holds, the requests. The invariant orders each
and each pair of them, and bounds the numbers by what their client has sent, so
that the next request is the greatest.

Only model-checked: `UsedIsReachable` (a sum over the metas, whose properties
need induction); the invariants of the socket types, the transports and inproc;
`Matches` of the trie; both violations; and all liveness properties. Liveness
under fairness is beyond the prover, and so is what recursive definitions compute
(`Trie`, and the rounds over priorities in `Priolist` that the socket types
share). The transports and inproc are dozens of states each whose invariants
would have to list which events may be under way in which of them; no attempt
has been made.

## Not modelled

- Cache: print functions, the wording of replies, `resize_keys` (nothing calls
  it), parsing of malformed requests, the hash function (any assignment of
  keys to numbers), allocation failure (not handled), and the simulator's
  random choices and arithmetic.
- OS sockets: batching of reads, iovec bookkeeping, the pollers, and the
  Windows files, which are not built here.
- Core: option values, the counters of the statistics, copying of messages, an
  `nn_socket` that fails half-way, `nn_poll`, which keeps no state.
- Transports: addresses beyond good and bad, the
  text of the ws handshake, masking, which bytes a UTF-8 code point has.
- Devices (`nn_device`, `tcpmuxd`): loops over the public interface that
  cacheBench does not use; the daemon is part of the environment of `Tcpmux`.
- Containers, wrappers of system calls, parsers and encoders, command line
  tools, benchmarks and bindings: data without control of their own.
