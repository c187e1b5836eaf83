# A TLA+ model of swarmstate

swarmstate keeps the state of agent programs: a sharded in-memory key/value
store written in Rust, a LangGraph checkpointer and other adapters in Python on
top of it, backends that keep the same table in SQLite, Postgres or Redis, and a
deterministic handoff graph that routes between agents. This directory holds TLA+ modules of its core, the TLC configurations that check
them on small instances, and TLAPS proofs of some of the properties for every
instance. Run everything from this directory:

    tlc -config store_atomic.cfg MCStore     # any <run>.cfg with its MC module
    tlapm StoreProofs.tla                    # any module whose name ends in Proofs

`PROJECT.json` lists components, runs, mutants (deliberately wrong versions of
definitions, each of which makes one property fail), the source lines behind
every definition, findings, hazards and theorems.

## Inventory

| Part (source) | State | Operations | Hard behaviour |
|---|---|---|---|
| Store (`rust/src/store.rs`) | 16 shard maps under RwLocks, one byte counter per shard, snapshot id counter, last id, history | set, get, set_many, get_many, delete, delete_many, delete_namespace, clear, snapshot, restore, history | threads run in parallel (the GIL is released), operations that take many locks, counters changed outside locks |
| SwarmStateSaver (`python/.../integrations/langgraph.py`) | rows in a store (checkpoints, pending writes, channel blobs, latest pointers) and two in-process hint tables | put, put_writes, get_tuple, list, prune, delete_thread, delete_for_runs, copy_thread, delta history; async twins | several store calls per operation, several savers on one store, retries, retention, forks, rollbacks |
| HandoffGraph (`rust/src/graph.rs`) | nodes, ordered edges with conditions, per-node state paths | add_node, add_edge, route, is_dag | cycle refusal over a sequence of edges, routing on a partial copy of the state |
| Condition language (`rust/src/condition.rs`) | none | parse, evaluate, collect paths | the paths collected must cover what evaluation reads |
| Codec (`rust/src/codec.rs`) | none | Python objects to MessagePack and back | widths and depth of values |
| DiskStore (`python/.../backends/disk.py`) | a table in a SQLite file, a connection per thread and the list of all | as Store, close | transactions that fail half-way, the one write lock, close against connect |
| PostgresStore (`backends/postgres.py`) | a table in a server, a pool per event loop | as Store, async twins, close, aclose | READ COMMITTED, row locks and deadlocks, tasks that race to open a pool |
| RedisStore (`backends/redis.py`) | a hash per namespace in a server, a client per event loop | as Store, async twins, aclose | SCAN against other clients, transactions against pipelines |
| Snapshots and prefixes (`backends/_snapshot.py`, `_prefix.py`) | id counter, last id | next, diff; prefix_upper_bound | ends of the code point range |
| Portability (`portability.py`) | files | copy_store, dump_store, load_store | writers and interruption between batches, a truncated file |
| CrewMemory (`integrations/crewai.py`) | rows of one namespace, a cached counter per object | save, search, reset | key order and lost entries with several writers, search against reset |
| Observability, protocols, module glue | counters of calls only | wrappers | none for stored state |

The saver, the crew memory and the portability functions call a store (the
in-memory one, or a backend with the same interface) and nothing else; the
in-memory store calls nothing, a backend its database. The graph is independent
of both; `handoff_router` in `langgraph.py` wraps `route` for LangGraph. What
makes the parts correct: for the store, that sharding cannot be noticed
(snapshots, restores, batches, byte totals, lineage); for the saver, that what
was put is what is read, that the latest checkpoint is the newest, and that
retention and deletion lose nothing that is needed and leave nothing that is
not; for the backends, that batches and restores are all or nothing, and that
connections are neither lost nor used when closed; for the portability
functions, that what is copied is what was stored; for the crew memory, that no
memory is lost and keys keep their order; for the graph, that it stays acyclic when asked to and routes as the
conditions say.

## Modules

| Module | Models |
|---|---|
| `Store` | the in-memory store, with its locks and counters |
| `AtomicStore` | what the store promises: no shards, locks or counters |
| `StoreRefinement` | the mapping from `Store` to `AtomicStore` |
| `StoreProofs` | theorems about `Store`: types, locks, snapshots, restores; empty namespaces, diff, lineage, history |
| `StoreRefinementProofs` | that `Store` implements `AtomicStore` |
| `Saver` | the checkpointer, one step per store call |
| `SaverProofs` | theorems about `Saver`: what each action does, types, and what holds with many callers |
| `SaverCallerProofs` | theorems about `Saver` for a caller that is alone with the store, or that alone changes checkpoints |
| `HandoffGraph` | nodes, edges, cycle refusal, path refresh |
| `HandoffRouting` | the graph algorithms, condition evaluation, routing |
| `HandoffGraphProofs` | theorems about `HandoffGraph` |
| `Backend` | what the backends share: rows, calls, statements, snapshots |
| `DiskStore`, `PostgresStore`, `RedisStore` | the statements of each operation and what the database does with them |
| `Backends` | callers of a store on any of the three |
| `BackendsProofs` | theorems about `Backends` |
| `Connections` | opening, sharing and closing connections, pools and clients |
| `ConnectionsProofs` | theorems about `Connections` |
| `SharedStore` | a store as its clients see it, and the prefix range |
| `Portability` | copy, dump and load over a `SharedStore` |
| `CrewMemory` | the crew memory over a `SharedStore` |
| `Clients` | the two of them and a writing program over one store |
| `ClientsProofs` | theorems about `Clients` |
| `MCStore`, `MCSaver`, `MCGraph`, `MCBackends`, `MCConnections`, `MCClients` | instances for TLC |

### Store

A thread is a caller of the store. `maps` holds the maps of all shards (a
namespace belongs to the shard `ShardOf` names; `NoMap` is a namespace that the
shard does not hold), `bytes` the counters, `readers` and `writer` the RwLocks,
`counter`, `last_id` and `history` the snapshot bookkeeping, `snaps` the
snapshots callers have been handed. `pc`, `idx`, `batch`, `got`, `acc`, `snap`
are the local variables of a call in progress.

An operation with one critical section and all its effects inside it (set,
delete) is one step. The others are split where another thread can come in:
the batch operations per shard lock and, while the lock is held, per entry;
`clear` and `delete_namespace` between the change of the map and the later
change of the counter, because their guard is a temporary that is dropped at
the end of its statement; `snapshot` and `restore` per lock, per clone, per
counter, then id, parent and history separately. Byte counters wrap at
`ByteMod`. Single-row reads are a `get_many` with one row; `keys`,
`namespaces` and `contains` read under one shard lock at a time and change
nothing.

Left out: timestamps, recovery of poisoned locks (nothing in a critical section
panics), codec errors (values are encoded before any lock is taken, so the call
fails with nothing changed), and pointer comparison in `diff`, a shortcut for
equality.

### AtomicStore and the refinement

`AtomicStore` has a table of rows. A batch is applied some whole namespaces at
a time, a batched read sees each namespace at one moment, a snapshot is the
table at one moment of the call, a restore replaces the table in one step.
`StoreRefinement` says when each of these happens in the code: a batched write
when it obtains a shard's lock (`TableNow` shows the rows its holder will
leave), a restore when it obtains its last lock, a snapshot when it obtains its
last read lock.

### Saver

A caller (`Proc`) uses a saver; savers share one store, as several processes or
several saver objects do. `ck`, `wr`, `bl`, `lt` are the four kinds of rows;
`max_seen` and `prune_floor` the hint tables; `backup` a store snapshot an
operator may restore. `arch`, `awr` and `done` are history: everything ever
put, with nothing deleted, to compare with.

A step is one call of the store with the Python code around it. `RowOrder` says
how the store applies the two rows of a put: together (the SQL backends and
Redis), or one at a time in either order (the in-memory store, when the two
namespaces are in different shards). `NativeAsync` selects the one-read check
of `aput_writes`; the other async methods make the same store calls as their
sync twins. `IntVersions` selects LangGraph's default channel versions, which
count up from the parent's, or unique ones.

Checkpoint ids are numbers in the order LangGraph generates them; a channel's
value is the id of the checkpoint that wrote it, so a value read back from the
wrong checkpoint is seen. Each thread has one `checkpoint_ns`. Serialization,
metrics and tracing are left out, and so are the per-row fallbacks for custom
stores without batch operations.

External, from how the saver uses it: which checkpoints LangGraph puts
(`Continuation`, `Parents`, `Updates`: a fresh id continuing one of the newest
`Window` stored checkpoints, with new versions for some channels).

### HandoffGraph and HandoffRouting

`HandoffGraph` has the state and the two operations; a refused or invalid edge
changes nothing and is no step. `on_cycle` is chosen when the graph is made.
Reachability is defined there by closed sets of
nodes, which the prover can handle; `HandoffRouting` has the code's iterative
search, and `SearchDecides` checks that the two agree. `HandoffRouting` also has
Kahn's algorithm, the evaluator, `collect_paths` and `route`. Routing states are
trees of maps over a few keys. Strings are atoms: non-empty, and neither ordered
nor contained in one another.

### Backends

`rows` are the committed rows. `call` holds, for each caller, the call under
way: what it asks for, the statements still to send, the rows it has read or
written so far, its locks, and (history) the contents the table has had since
it began. A call takes effect in one `Land`; everything before that is seen by
nobody else, and `Fail` may end it at any point with its locks given back: a
dropped connection, a dead process, a refused statement, SQLite's busy timeout.

* `DiskStore`: single statements autocommit; `set_many`, `delete_many` and
  `restore` are `BEGIN IMMEDIATE`, a step per statement, `COMMIT`. One write
  lock for the file. `get_many` is one query per namespace, each of what is
  committed at that moment.
* `PostgresStore`: `set_many` and `restore` are transactions, the rest single
  statements. Rows are locked one at a time and held to the end. A `DELETE`
  fixes its rows when it starts and skips those that others delete meanwhile;
  an `INSERT` of `restore` that meets a row committed since raises. In a cycle of
  waiting transactions the server aborts one.
* `RedisStore`: a command or MULTI/EXEC is one step. `get_many` is a plain
  pipeline, a step per row. SCAN comes by one hash per step, in any order, and
  returns those that are there; `snapshot` reads each after that, `clear` and
  `restore` delete the list at the end.

How the databases behave (locks, visibility, deadlock detection, SCAN) is
external: it is what the code relies on. `Task` names the callers that use the
asynchronous methods; those send the same statements, and there are none for
clear, snapshot and restore. Left out: more than `_MAX_PARAMS - 1` keys of one
namespace (several queries), SCAN returning a hash twice (it is read twice, the
second value stays), single-row reads (`get_many` with one row) and `keys`,
`namespaces` and `max_key`, which are one query or a scan that changes nothing.

### Connections

A handle is a SQLite connection, a pool or a client. `known` is the registry
(`_conns`, or the running loop's entry of `_apools` or `_aclients`), `mine` the
thread-local connection. Threads of a `DiskStore` interleave at every statement
of `_connect` and `close`. Tasks of an event loop change over only where they
await: opening a pool, closing one, using one; `_ar` of `RedisStore` does not
await and is one step. `clean` remembers whether a close has overlapped a call.
Left out: the synchronous pool of `PostgresStore`, which the constructor opens
and `close` closes for good, injected pools and clients, and a task that is
cancelled at an await: if that is the one at `postgres.py:345`, its spare pool
stays open.

### SharedStore, Portability, CrewMemory, Clients

`SharedStore` has the rows and, for every client that reads in several steps,
the contents they have had since its call began, to compare its result with. A
namespace is a sequence of code points, because the listing by prefix that
`DiskStore` answers with an index range (`UpperBound`, `NamespacesFrom`) is part
of what a copy depends on. Namespaces and keys are listed in primary-key order.

`Portability`: one process copies, dumps and loads. `_entries` is split at every
store call: the namespaces, the keys of each, `get_many` for a batch, `contains`
for each None in it. A file is a list of frames, `cut` if it ends inside one. An
exception (`Raise`) runs the cleanup of `dump_store`; a crash does not and
leaves any part of the temporary file. `load_store` reads frame by frame and
applies full batches. The header is not modelled: files are those `dump_store`
wrote, and a dump that was cut inside its header is refused before anything is
applied. Nor are two dumps to one path at once, which share the temporary file
(`portability.py:102`).

`CrewMemory`: `save` is a key under the object's lock, then a `set`; `search` and
`reset` list the keys and then go through them one store call at a time. A key
is a number and a suffix; a text is an atom with a score. That random suffixes
do not repeat is external. `Restart` puts a new object in the place of an old
one.

## Runs

| Run | Instance | Checks |
|---|---|---|
| `store_atomic` | 2 threads, 2 calls each, 2 shards, all operations, a batch of three rows over both shards | types, point-in-time snapshots and restores, no empty namespace, one lineage chain, refinement of `AtomicStore`, read locks protect, every call returns |
| `store_bytes` | 2 threads, 2 calls each, operations that count under their lock | counters and snapshot sizes exact at every step (`BytesExact`) |
| `store_serial` | 1 thread, 5 calls, all operations | byte totals, history, diff |
| `saver_serial` | 1 caller, 5 calls, all operations but copy, retention limit 1 with slack 2; the thread may start with a checkpoint of a version that kept no pointers | types, latest, leftovers, pending writes, retention bound, write-once |
| `saver_retention` | 1 caller, two delta channels, limit 2, ids out of order, forks | delta history, values |
| `saver_copy` | 1 caller, 2 threads, a plain and a delta channel, copy, prune, delete, snapshot and restore | values, latest |
| `saver_concurrent` | a trimming writer and a reader with their own savers on an indexed async store | values, fresh reads |
| `graph` | 3 nodes; cycles refused with 2 edges per node, 4 conditions, 144 routing states; cycles allowed with 3 edges per node | types, acyclicity, partial state, search and Kahn's algorithm |
| `backends` | each backend, 2 callers (one asynchronous), 2 calls each, 3 rows in 2 namespaces, batches over the same rows in opposite orders, 1 snapshot, failures anywhere | reads as coherent as the database makes them, writes land whole, every call returns |
| `connections` | 3 users, 2 closers, 4 handles, 3 closes, for each of the three kinds | no handle lost, open handles after a close |
| `clients` | dumps, crashes and loads against 1 or 2 writes; a copy against a crew; a crew of 3 threads and 2 objects | rows carried faithfully, files whole, loads whole batches, search faithful, no memory lost, keys ordered |
| `blob_fork` | see Findings | `TupleValues`, violated |

Bounds. Two threads and two shards are the least with which locks can be taken
in different orders and a snapshot can be torn; two calls each allow a write
before or after a snapshot and a restore after it, and values of sizes 1 and 2
with `ByteMod` 8 make a full shard wrap. One caller with five calls can put
three times and still trim, delete or roll back and put again. Four ids give a
chain long enough that a trim drops an ancestor, keeps an ancestor, and keeps a
fork. The graph bounds give every cycle shape of three nodes, parallel edges
and self-loops included. Two calls per caller let a restore follow the snapshot
it needs while the other caller writes twice. Four handles and three closes let
every user lose its connection to one close and reconnect during the next.
`Budgets` deals out calls so that each mix of clients is explored to its own
depth: three portability calls are a crash, a dump over its leftovers and a
load; four crew calls are two saves, a reset or restart and a save or search.
Code points 0 to 3 with 2 a surrogate give prefixes that end at the top and just
below the surrogates; batches of two leave a full and a partial one.

Deadlock is not checked where callers make a bounded number of calls and then
stop. That no call hangs is `CallsReturn`.

Fairness. `store_atomic` and `backends` need it. In the first `FairSpec` has
weak fairness of each thread inside a call: the operating system schedules every
thread, and a `RwLock` that stays free is granted. Calls are finite in number,
so no thread can starve another one; nothing is assumed about writers overtaking
readers, and no caller is obliged to start a call. In the second it has weak
fairness of the next step of each call under way: a process runs, and a database
answers a statement whose locks are free. Nothing is assumed of `Fail`; that a
deadlocked pair of transactions is resolved is a step of the server, which
Postgres guarantees (`deadlock_timeout`).

## Findings

`blob_fork` is a run whose property TLC finds violated: with integer versions
two forks of one parent use the same (channel, version) for different values,
which the comment at `langgraph.py:324` rules out; the second one reads back the
first one's value.

Further disagreements of the code with its comments, found with the same
modules. They need other constants than the runs above; take the cfg named and
check only the property given:

| What | Reproduce with |
|---|---|
| `clear` zeroes a shard's counter after its lock is released (`store.rs:560`): a `set` in between is stored and never counted, though the comment at 216-222 says that counters only change under the lock | `store_serial` with `Thread = {t1, t2}`, `Key = {k1}`, `MaxCalls = 2`, `Batches <- BothShards`: `QuiescentBytes` |
| `Snapshot.size_bytes` differs from the contents while a `delete_namespace` has yet to subtract (`store.rs:474-478`, doc at 116) | `store_bytes` with `Ops <- AllOps`: `BytesExact` |
| a snapshot's parent can be newer than itself (`store.rs:581-587`, doc at 110) | `store_serial` with two threads, one call each: `ParentIsPrevious` |
| `history` can be out of order (`store.rs:599-609`, doc at 615) | the same: `HistoryIsTail` |
| when the hint table is full it is cleared (`langgraph.py:391`), which the comment at 62-63 calls harmless; an out-of-order put then moves the latest pointer back | `blob_fork` with two threads, `MaxHints = 1`, `InOrder = FALSE`, `Ops <- PutOps`: `LatestIsMax` |
| after `delete_for_runs` of the latest checkpoint the hint is gone, and an out-of-order put becomes latest (`langgraph.py:1009`) | `blob_fork` with two runs, `InOrder = FALSE`, `Ops <- RunOps`: `LatestIsMax` |
| two savers that put at once may leave the pointer at the older id (`langgraph.py:388-393`) | `blob_fork` with two callers and savers (`OneEach`), `TwoWriters`, `Window = 1`: `LatestIsMax` |
| a reader that republishes a dangling pointer races a put (`langgraph.py:504-508`) | `saver_concurrent` with `Indexed = FALSE`, `Limit = 0`: `LatestIsMax` |
| two attempts at one task's `put_writes` both find nothing stored (`langgraph.py:432-436`) | `blob_fork` with two callers, `OneSaver`, `TwoTasks`, `WVal = {1, 2}`: `WriteOnce` |
| `copy_thread` into a thread with its own history mixes blobs of equal versions (`langgraph.py:609-622`) | `blob_fork` with two threads, `BlobOps`, `Window = 1`: `TupleValues` |
| a prune that scanned the survivors before a put wrote its row drops the put's blobs (`langgraph.py:995-997` against 326-327) | `blob_fork` with two callers and savers, `WriterPruner`, `Window = 1`: `TupleValues` |

A snapshot of a `RedisStore` mixes hashes of different moments
(`redis.py:233-238`), where `protocols.py:38` speaks of "a point-in-time view of
a store" and `_snapshot.py` of snapshots that are the same whichever store made
them: `backends` with `Kinds = {"redis"}` and the invariant `PointInTime`. On
Postgres and Redis a `clear`, `delete_many` or `restore` can leave a row that was
created while it ran; `WholeWrites` allows exactly that (`MayMiss`).

A reader of a checkpoint that a trim is dropping can see it without some of its
values, because blobs go before rows (991-1000). `TupleValues` therefore speaks
of checkpoints that stay.

## Proofs

`StoreProofs` proves for any threads, namespaces, keys, values, number of
shards, batches and history limit, from `ConstantsAssumption`:

* `StoreTypes`: `TypeOK`;
* `SnapshotIsConsistent`: `SnapshotConsistent`;
* `RestoreIsConsistent`: `RestoreConsistent`;
* `ReadGuardsHold`: `ReadGuardsProtect`.

None of these is inductive alone. `SnapshotConsistent` speaks of a thread that
has cloned every shard; to know that its clones are still current one needs
that the shards cloned so far have not changed, hence that nobody writes a
shard that is read-locked, hence which locks a thread holds at each point. The
inductive invariant `IInv` is `TypeOK` with `LockInv` (a lock has readers or one
writer; which shards each thread holds at each `pc` and `idx`), `Cloned` (the
shards below `idx` that a snapshot has cloned are as in the store) and
`Installed` (the same for a restore). The proof of `Inductive` has a step per
action. The two invariants are the case where the loop has passed the last
shard; the action property needs `LockInv` only.

Going on from `IInv`:

* `NamespacesAreNotEmpty`: `NoEmptyNamespace`. Inductive with what snapshots and
  half-finished restores hold (`DenseInv`): a restore would bring an empty
  namespace back if a snapshot had one.
* `DiffIsComplete`: `DiffExplains`. Uses that no content has an empty namespace:
  two contents that differ only in one have an empty diff and are not equal.
* `LineageIsOneChain`: `LineageIsChain`. An id is drawn in one step and its
  parent linked in another. `ChainInv` adds that the ids taken and not yet linked
  are different from each other and from those linked, and that all are below
  the counter.
* `HistoryIsTheTail`: `HistoryIsTail`, for one thread, which is a hypothesis of
  the theorem: with two it is false (see Findings). `HistoryInv` adds where the counter
  and `last_id` stand between the steps of a snapshot.

`StoreRefinementProofs` proves `StoreImplementsAtomicStore`: `Spec` implies
`AtomicStore` under the mapping of `StoreRefinement`. Each action is a lemma, by
what it does to the mapped variables: most change nothing a caller can see, and
the step that obtains a lock is the one at which `TableNow` jumps to the rows its
holder will leave, so that the entries written under the lock are stutters. The
invariant `RefInv` is `IInv` with `NoValues` (a batch that deletes or reads
carries no values) and `NothingRead` (only a batched read has results).

`HandoffGraphProofs` proves for any set of nodes and any conditions, from
`GraphAssumption`, that edges connect registered nodes (`GraphTypes`) and that a
graph that refuses cycles stays acyclic (`GraphStaysAcyclic`). The argument:
adding an edge from `a` to `b` can only create a path that uses it; if `b` does
not reach `a`, the set of nodes reachable from `b` is closed also with the new
edge, and so no node on the new edge reaches itself. Cycle detection enters by
what it decides, reachability; that the iterative search decides it is
model-checked (`SearchDecides`).

`ConnectionsProofs` proves for any users, closers and bounds, from
`ConnectionsAssumption`, `ConnectionsNoOrphan` (`NoOrphan`) and
`ConnectionsWorkAfterClose` (`WorksAfterClose`). That a handle is open when it is
used is an argument about who may close it. The inductive invariant `IInv` adds
to `TypeOK` and `NoOrphan`: `Registered` (what is registered is open, and no
closer is closing it), `Owned` (a connection not yet registered is open, in no
closer's hands and in those of one call), `Spared` (the pool a losing task is
about to close is not the registered one), `Remembered` (a thread's own
connection is registered unless a close is under way, which will make all
threads forget theirs) and `Current` (a call that no close has overlapped works
with a registered handle). `NoOrphan` follows each handle from hand to hand;
`WorksAfterClose` is `Current` with `Registered`. `IInv` was model-checked on the
`connections` instance before it was proved.

`BackendsProofs` proves for any callers, rows, batches and bounds and each of the
three databases, from `BackendAssumption`, `ReadsAreCoherent` (`ReadsCoherent`)
and `WritesLandWhole` (`WholeWrites`). What a call has read or is about to write
must be related to what the table has been since the call began. The inductive
invariant says so of each call (`CallOK`): what it has seen includes the table as
it is (`SeenOK`); every row it asks for has been written, will be by a statement
still to come, or was missing at some moment and may be passed over, and a
statement that leaves a row otherwise is followed by one that does not (`PlanOK`);
a hash that a scan passed by was not there (`ScanOK`); what is to be read together
is as it was at one moment, or none of it has been read yet (`ReadOK`); and the
step fits the operation (`PcOK`). A step of another caller only adds to the history (`Grow`), and all of
these allow that. The invariant was model-checked on the `backends` instance
before it was proved.

`ClientsProofs` proves every property of the `clients` run, for any rows, values,
callers, objects, prefixes, batch size and limit, from `PointAssumption`,
`PortAssumption`, `CrewAssumption` and `RowsAssumption`. These say that the
surrogates are a range of code points, that there are finitely many rows to
begin with, and that the crew's namespace holds entries or None, none under a
suffix that will be drawn.

* `PathHoldsAWholeDump` (`FileWhole`): the temporary file of a dump under way holds
  exactly what the dump has emitted (`FileInv`).
* `LoadsAreFaithful` (`LoadFaithful`): what is applied and what is pending make up
  the frames read so far (`LoadInv`). Rests on `RowsOfConcat` (applying two lists
  one after the other is applying their concatenation) and arithmetic of `%`.
* `EntriesAreFaithful` (`EntriesFaithful`): the invariant follows each row that was there
  throughout from the namespaces listed to the keys listed, the batch and the
  entries emitted (`CoverInv`), each emitted one back to a moment at which it had
  its value (`BatchInv`, `OutInv`), and keeps what is still to be read apart from
  what was (`ScanInv`). `RangeIsPrefix` is the lemma about `_prefix.py`: a stored
  string is in the index range if and only if it starts with the prefix.
  `ListOfIs`: the entries of a batch are its rows, each once.
* `MemoriesAreKept` (`EntryKept`) and `KeysKeepTheirOrder` (`KeysOrdered`): a suffix
  that is being saved is nobody else's (`SuffixInv`), and the counter of an object
  is no smaller than the number of any memory of it (`NumberInv`).
* `SearchesAreFaithful` (`SearchFaithful`): a memory that was there throughout is
  still to be read, has been read with the value it has, or is no answer
  (`Covered`); the page is the first `Limit` of a linear order (`FirstRanks`).

`SaverProofs` and `SaverCallerProofs` prove, from `ConstantsAssumption`, for any savers, threads, channels,
keys, bounds and configuration of the saver, and for the callers that each
theorem names:

* `SaverTypes` (`TypeOK`), any callers. `TypeInv` types every local by where the
  call is (`Shape`) and says that what is stored or in the backup was put (`Known`).
* `WholeTuples` (`TupleValues`), any callers, when the saver keeps values in the
  row. `Same` says that an id names one record, in every thread, in the backup and
  in a put under way; `RowsRead` that a reader holds that record.
* `WritesStay` (`WriteOnce`), any callers of which one writes (LangGraph runs the
  attempts at a task one after the other; with two at once it is false, see
  Findings). `Asked`: the keys `put_writes` has asked for are still not stored.
  Copies and rollbacks may bring an earlier value back and are excluded.
* `ReadsFresh` (`FreshRead`), any callers and savers, on an indexed store, for
  threads of plain channels. A trim can drop the checkpoint that a reader was told
  is the newest only after a newer one was stored; `ReadInv` follows what each
  trim listed (`Listed`, `Splits`) and relates every reader to every trim
  (`Apart`). Deleting by run, copying and rolling back may take the newest away
  under a reader and are excluded.
* `RetentionHolds` (`RetentionBound`), any callers and savers. `RetInv`: a thread
  is within the bound, or some call under way has still to count it, or its
  trim leaves few enough (`Cares`). Copies are excluded (a copy makes the target
  longer and does not trim), and so are rollbacks while others work.

In `SaverCallerProofs`:

* `LeavesNothing` (`NoLeftovers`), one caller, all operations. `TidyInv` says where in
  a call which kind of leftover may be (`DirtyWr`, `DirtyBl`, `DirtyLt`) and what
  the call knows that will remove it (`TidyPut`, `TidyTrim`, `TidyDrop`, `TidyDel`),
  and the same of the backup.
* `LatestHolds` (`LatestIsMax`), one caller that puts ids in order, all operations.
  `PointInv` adds to `TidyInv` that ids are used up in order (`InTurn`), that hints
  name used ones (`Seen`), and where the pointer may be behind (`Behind`).
* `WritesReturned` (`TupleWrites`), one caller, all operations but `copy_thread`:
  a copy puts the source's writes over the target's, so what the target's
  checkpoint was given is no longer one history. `GivenInv` adds to `TidyInv` that
  what is stored agrees with what was given but for the checkpoint a call works on
  (`Given`, `Busy`), where the batch makes up the difference (`Pending`).
* `BlobTuples` (`TupleValues`), also when values are in blobs (`incremental`): one
  caller changes checkpoints with any sequence of calls, the others read, list, put
  writes and take snapshots (`OneWriter`; the callers of every run that checks
  `TupleValues` and passes are of this kind). A row is worth what its
  blobs are, so `BlobInv` says what blobs are worth. `OneValue`: a version of a
  channel stands for one value among all checkpoints ever put, which is what makes
  it sound to share a blob and to skip one that is stored; it is why versions
  have to be unique, and `blob_fork` shows what integer versions do. `Right`: every
  blob has that value. `Whole`: every blob a row refers to is there, but for rows
  that a trim is about to drop and rows a copy has yet to bring the blobs of.
  `BlobPut`: the blobs of a put's row are stored, in its batch or still to be looked
  for; `BlobDrop`: what a trim keeps and drops is all there is, and no blob it
  deletes is referred to by what it keeps. `Tuple` relates each reader to the
  writer: once its values are attached they are the ones that were put, or the
  checkpoint is gone or about to go. That a dropped checkpoint does not come back
  is needed there, and therefore the writer neither copies nor restores while
  there are others; alone it may do both.

One caller, or one that changes checkpoints, is a hypothesis where the code
promises nothing to several: a put that is under way while its thread is deleted
leaves its rows behind (see hazards), and a prune can drop the blobs of a put
(see Findings).
The invariants were model-checked on the saver instances before they were proved.

Induction over data is out of the prover's reach. Where these proofs need it (the
least string of a set, the greatest suffix, the rank of a key), they take a
smallest counterexample instead: a non-empty family of finite sets has a member
that includes no other (`MinimalSet`).

Only model-checked: the `CallsReturn` properties (temporal, under fairness), byte
accounting (`BytesExact`, `QuiescentBytes`: sums over sets), `DeltaPreserved` (the
delta history is a recursive function along the parents), and everything in
`HandoffRouting`, whose operators are recursive.

## Plan

1. Done: store, its abstract specification and first theorems; saver; graph;
   backends and their connections; portability and crew memory.
2. Proofs. Done: every safety property of the `store_atomic`, `backends`,
   `connections` and `clients` runs, the refinement of `AtomicStore`, acyclicity of
   the graph, and the saver but for `DeltaPreserved`. Left: that one, byte
   accounting, which needs facts about sums, and the routing of `HandoffRouting`.
3. The condition parser (precedence, depth limits) and the codec as pure
   modules checked against reference definitions.
4. Several `checkpoint_ns` per thread in `Saver`; two dumps to one path.

## Not modelled

Codec and condition parser: conversions between text or bytes and trees without
any state; the models start from the trees. Observability wraps calls in metrics
and spans and changes no stored state; protocol classes and module glue have no
behaviour. `diff`, `keys` and `size_bytes` of copied snapshots are comprehensions
over their rows. The synchronous pool of `PostgresStore` is opened once and
closed for good.

`handoff_router` is one call of `route`. Benchmarks, examples and tests are no
part of the system.
