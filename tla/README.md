# DevMap in TLA+

DevMap shows several coding agents, working in the worktrees of one Git
repository, what each of them plans and has done.  Every agent talks to its own
`devmap` process (an MCP server, a hook, a command); these processes share one
*runtime owner* per repository, and the owner reads and writes the repository's
store under `.git/devmap`.

This directory holds TLA+ models of that system, TLC configurations that check
them on small instances, and TLAPS proofs.  Run everything from this directory:

    tlc -workers 2 -config RuntimeOwnerSafety.cfg MCRuntimeOwner.tla
    tlapm ProcessProofs.tla

## 1. The system

Paths are relative to `src/src/`.

| component | state it keeps | operations | hard part |
|---|---|---|---|
| owner election (`runtime/mod.rs`, `owner.rs`, `unix.rs`) | `startup.lock`, `owner.lock`, the socket file, the child process | connect, spawn, bind, accept, idle exit, finish | races between clients and processes, kills, deadlines |
| executor (`runtime/executor.rs`, `executor/cohort.rs`) | four reservations, bounded channel, barrier job, cohort | reserve, submit, collect, execute, answer, shut down | reservations that outlive their client, batching, order |
| exchange (`runtime/transport.rs`, `owner.rs` serve, `retry.rs`, `mutation_proxy.rs`, `proxy.rs`) | request ids, frames under way, retry loop | begin, upload, result, retry, reconnect | lost replies, stale answers, retries after a commit |
| route plans (`route_plan.rs`) | plans with revision and request receipts | set, list | compare-and-set, retries after later edits, torn writes |
| journal (`journal.rs`, `events.rs`, `capture.rs`) | per session: segment, intent, index, temporary files, lock | append, recover, replay | crash between any two files, retried batches |
| task bindings (`journal.rs`, `store/origin_links.rs`) | history, watermarks, origin links, cursors | observe, import | crash between watermark and history, delayed observations |
| store and migration (`store/*.rs`) | SQLite database, intent, snapshots, transition guard | prepare, ensure, freeze, import, activate, decide, read | crash in the middle, old binaries, removed worktrees, readers without a guard |
| query reading (`runtime/query_validation.rs`, `application.rs`, `store/snapshot.rs`, `store/origin_observation/`) | proofs, cached rows, cached Git facts | four query paths | content that changes between evidence and use |
| client views (`application.rs`, `proxy.rs`, `dock.rs`) | inventory, last map, ancestry cache | accept, project, retry | observations out of order, lost answers |
| Git processes (`git_process.rs`) | permits, health | admit, spawn, supervise, clean | child that cannot be reaped, deadlines |
| Git relationships (`git_relationship.rs`, `shared_facts.rs`) | none beyond a resolution | probe, choose targets, compute, publish | a repository that moves between commands, killed commands |
| dock (`dock.rs`, `git_topology.rs`, `worktrees.rs`) | the map a client shows | collect, reduce, bound, project | old evidence, limits that cut what conclusions rest on |
| presence, hooks, capture (`presence.rs`, `hook.rs`, `capture.rs`, `mutation.rs`) | session record, projection cursor | prepare, capture, project, expire | repeated calls, projection that fails after acceptance |
| agent synchronisation (`agent_sync.rs`) | catalog, followed tasks, cache | poll, connect, receive, save, overlay | revisions, owners that change, late answers |
| adapters (`adapter.rs`) | configuration files of agents | approve, install, uninstall | the user writes the same file, half-done transactions |
| viewer, context (`viewer.rs`, `context.rs`) | none beyond a request | render | pure |
| MCP server, command line (`mcp.rs`, `commands.rs`, `cli.rs`) | session | parse, dispatch | pure |

How they interact: a front end prepares a mutation or a query once, hands it to
its proxy, and the proxy calls the owner through the transport, retrying with
the *same bytes*.  The owner's `serve` task takes a reservation, reads the
upload and puts a job into a bounded channel.  One application thread executes
jobs in order (equivalent queries together) against the store; the answer goes
back through a oneshot.  Everything the application thread does to the store is
protected from another owner only by `owner.lock`, which must therefore outlive
the thread.

What makes it correct, in one line each:

* election: one writer; work only under the lock; nobody's socket or child is
  taken away; connect always returns; an abandoned owner goes away;
* executor: reservations conserved; admitted jobs fit; order kept; accepted
  work ends; answers are fresh and true;
* exchange: calls look like calls of an atomic store in which a mutation takes
  effect at most once; no call hangs;
* route plans: no lost update, a retried request is answered as the first time,
  what was answered stays, and the journal stays readable;
* journal: accepted batches are in the log whole and once, and no crash makes a
  session unreadable; a delayed observation of a task undoes no newer one;
* migration: the live backend holds every accepted write, readers included, and
  a migration that was cut off can be completed;
* queries: an answer is assembled from one world, or from none that has moved;
* views: never older than what their client has already seen;
* Git processes: an answered call has reaped its child and sent SIGKILL to the
  child's group, and every call ends;
* relationships, dock: nothing is published that was not true at one instant of
  the observation, and what a limit cuts off is never concluded from;
* presence: what is shown is what was accepted, each event counted once, and only
  the database lets a projection refuse an event;
* agents: an activity that is shown was the task's; what a user writes into his
  configuration survives every transaction, but for two writes that are named.

## 2. Modules

| module | models | composed of |
|---|---|---|
| `RuntimeOwner` | election, life and death of owner processes | |
| `Executor` | the owner's application thread and its admission | |
| `SharedStore` | abstract: what a caller may rely on | |
| `RuntimeExchange` | clients, connections, serve tasks | extends `Executor`, implements `SharedStore` |
| `RoutePlans` | `RoutePlanStore::set` on the file and the SQL journal | implements `PlanRegister` |
| `PlanRegister` | abstract: revision-checked registers with receipts | |
| `Journal` | a session's event journal, files and SQL | implements `OnceLog` |
| `OnceLog` | abstract: batches enter a log whole and once | |
| `TaskBindings` | which task works where: watermarks, history, SQL links | |
| `BackendMigration` | the move from domain files to SQLite | |
| `QueryRead` | one query of the owner, its caches and their evidence | |
| `OriginEvidence` | the capture of all worktrees' evidence by several threads | |
| `ClientView` | what a client shows and what it may forget | |
| `Dock` | the map of chats: lanes, passengers, bindings, budget | |
| `GitTopology` | the graph of the map: collection, coverage, limits | |
| `Relationships` | how worktrees relate to what they were forked from | |
| `GitProcess` | permits, deadlines and clean-up of Git children | |
| `Presence` | hook and tool captures and their projection | |
| `AgentSync` | what the desktop tells of its tasks | |
| `AdapterConfig` | installing hooks into a configuration the user owns | |
| `ProcessProofs` | theorems | `RuntimeOwner`, `GitProcess` |
| `ExecutorProofs` | theorems | `Executor` |
| `RuntimeExchangeProofs` | theorems | `RuntimeExchange`, `ExecutorProofs` |
| `RoutePlansProofs` | theorems | `RoutePlans` |
| `EventStoreProofs` | theorems | `Journal`, `TaskBindings` |
| `BackendMigrationProofs` | theorems | `BackendMigration` |
| `ObservationProofs` | theorems | `QueryRead`, `OriginEvidence`, `ClientView`, `Dock`, `GitTopology` |
| `AgentsProofs` | theorems | `AgentSync`, `Relationships`, `Presence`, `AdapterConfig` |
| `MC*` | small instances for TLC | |

Definitions named `Fault...` are plausible bugs of the definition that follows
them.  No specification uses them; replacing the definition by its fault breaks
the property that is meant to catch it.

### RuntimeOwner

`pc[c]` walks through `connect_with_idle`: a first probe without a lock
(`probe`), the wait for `startup.lock` (`startup`), the loop of `reprobe`,
`owner` (try the lifetime lock), `spawn` and `check` (deadline, sleep), the
error path in two stages (`failing`: the child has been killed, the locks are
still open; `err`), and `in`.  `expected[c]` is the nonce of the child it
spawned.  `op[i]` walks through `owner::run` and `finish_owner`: `started`,
`locked` (the executor's thread exists: `worker`), `serving` (the socket is
bound), `draining` (reactor dropped), `joined` (executor dropped), `exited`
(lock dropped); `dying` is a killed process the kernel has not torn down, whose
lock is still held.  `busy` are owners with accepted, unfinished work.

Deadlines (start budget 15 s, handshake 2 s, idle) are actions that may fire
whenever the wait they bound is on; TLC therefore explores every relative speed.
`SpawnedOwner::drop` waits at most one second, so closing the locks does not
wait for the child's death.  A refused or failed handshake closes the stream; a
closed stream is `unavailable` to the client, a mismatch or a time-out is not.

### Executor

`loc[l]` says where the reservation of connection `l` is: with the serve task
(`serve`), in a job (`queue`, `pending`, `group`), in a completed answer
(`reply`, `writing`) or returned (`none`).  `waiting` are the serve tasks that
still await their oneshot; a task that gives up leaves its job alone.  The
thread's `phase` is `recv`, `collect` (the one-millisecond window),
`execute`, `deliver`.  The store is the sequence `log` of committed mutations: a
mutation commits together with its receipt, and one whose receipt is found is
replayed.  (`RoutePlans` models one domain's receipts and how they are found.)
`order` and `seen` are history variables.

### SharedStore and RuntimeExchange

`SharedStore` is the promise to a caller: `Call`, `TakeEffect`, `Return`.  A
mutation takes effect at most once, after it was issued; an `ok` answer of a
mutation names its place in the store, an `ok` answer of a query a length of the
store between the call and the return; errors promise nothing.

`RuntimeExchange` adds to `Executor` the wire (two frame sequences per
connection, lost when an end goes away), the serve loop and the client's retry
loop: one reconnect per operation, Busy retried on the same connection, the
request prepared once.  A connection survives an abandoned exchange, as
`RuntimeClient` does, so frames of an old request can be met by a new one.  (The request ids are a
second line of defence there: with the comparison left out, `Linearizable` still
holds, because the old answer precedes the new Ready and is out of place.)
`Linearizable == Contract!StoreSpec` maps `store` to `log`, `calling` and
`since` to fields of `call`.

### PlanRegister and RoutePlans

`PlanRegister` is the promise of the plan store: one register per route, opened
at revision one and replaced by compare-and-set, and a receipt for every request
that changed one.

`RoutePlans` is one call of `RoutePlanStore::set` after the other, by callers
that run concurrently in different processes: `Call`; then, once the chain of
transition guard, SQLite transaction and file lock is free, `Replay` of the
receipt, `Refuse` with the first obstacle `build` meets, or `Build` of a record,
which keeps the locks (`holder`); then `Commit`, `GiveUp` (limit, origins),
`WriteFails` or `Die`.  A refusal or a replay reads and returns in one step, as
nothing it read can change under its locks.  The journal is the sequence
`records`; an interrupted write leaves nothing, the whole record, or in the file
backend a partial line (`damage = "tail"`), behind which the next read refuses
to work.  Bytes written behind a partial line would make an unreadable line
inside the journal (`damage = "line"`).  `Readable` is what `parse_records`
checks; `Latest` and `KnownRoutes` are what readers derive.  Inputs carry what
the rules look at (request id, route, expected revision, worktree); goal, target,
milestones and delivery are copied and compared as a whole, and are part of the
request id's identity.  Fresh route ids are unused ones: 128 random bits.  A
crash of the machine, which could undo a record that was written but not synced,
is not modelled, only of processes.

### Journal, OnceLog and TaskBindings

`Journal` walks each process through `append`: `lock`, the repair of what an
interrupted operation left (`clean`, `recover`, `load`), the verdict on the batch
(`build`: new, known as a whole, in conflict), and the writes: temporary intent,
rename, segment (`append`), index, removal of the intent (`clear` in a recovery,
`finish` in an append).  `Interrupt` cuts an operation off
between any two, and inside the segment write, where the first bytes of a record
remain (`torn`).  A record is its event; sequence numbers, hash links and digests
follow from its position, so `Corrupt(p)` says which combination of files the
code would refuse.  The log of the refinement is the segment, or its prefix and
the batch of the intent while there is one: the batch is accepted when the intent
is renamed into place.  The file backend looks at its record limit before it
recognises a repeated batch (`journal.rs:1024`), the SQL backend after; the model
keeps the difference.

`TaskBindings` has the two steps of the file store, watermarks (through a
`.pending` file) and then records, with an interruption between any two, the
single transaction of the SQL store with its origin links and cursors, the import
of one into the other, and worktrees that are removed and made anew.  `broken` says
that an interruption left a `.pending` file or half a line: every later operation is
then refused (`journal.rs:78`, `journal.rs:202`), and `BindingsReadable` says that the
files are refused exactly then.  `NewestObservationHolds` excuses the task whose record
such an interruption lost after its watermark (`cut`).

### BackendMigration

A writer goes through `prepare_first_write` and `domain_write` (`"strict"`) or
`origin_write` (`"qualified"`), an administrator through `ensure` with a
directory of his own: `freeze`, `import_shadow`, `activate`.  Every file that is
read on the way is a variable (`db`, `imported`, `fence`, `attempt`, `dirs`,
`legacy`), every decision of the code a predicate on them.  `Crash` stops a
process between any two steps; `OldWrite` is an older binary that knows only the
lock of the domain file it appends to; `RemoveWorktree` and `LoseDatabase` are the
user's.  A reader decides without the guard (`ReadDecide`) and reads afterwards.
A manifest carries its time of evaluation, so two manifests of the same files
differ and a manifest is named by its directory.  A database file that an agent
inventory created before any migration is `db = "empty"` or `"shadow"` with
`cached`.

### QueryRead and OriginEvidence

`QueryRead` keeps a world of counters (rows, database version, worktrees, Git
configuration) that any step may change, and follows one query of the owner along
its four paths: `epoch`, `verified`, `cold`, `fallback`, with the caches each path
may reuse and what it checks before and after.  A leased proof (`epoch`) holds while
the configuration its source was proven under and its own evidence hold
(`OriginValid`): on the way in the query falls back to another path, at the closing
it is refused (`Refused`; `application.rs:284`, asserted by
`query_validation/tests.rs:1029`).  The cap of sixteen proven sources and the
relocation of a worktree are left out.  `OriginEvidence` is the capture by
threads: tasks taken one by one, every byte reserved in a shared account before it
is kept, cancellation, panics, and the join that compares what two fragments saw
of a shared directory; `Serial` is the capture by one thread it must agree with.

### ClientView

A client's accepted inventory, the map it shows and the warning of a rewritten
head, through lost answers, repeated calls, worktrees that go and come back, and a
restarted owner, with and without a proxy; the owner's cache of ancestry with its
limit is what clients share.

### Dock and GitTopology

`Dock` follows chats that report where they work and move on (`host`), lists of
them that age on their way (`lists`) and the map a client makes: `LaneChats`,
`Passengers`, `Bindings`, and the budget that takes bindings and any chats away.
`lastIn`, `lastOut` and `lastHere` are history variables: when a chat's agent was
last in a worktree, when the chat was last no passenger of it, and when it was last
not archived.  `bound_model` reduces twice; since the second reduction
works on what the first left, it is one operator here.  Route plans in the map,
branch groups and the order of rows are left out.

`GitTopology` is one collection: the opening key, worktrees, references and
history, relationships, the closing key, while `MoveRepository` changes a
reference or HEAD once; which commits are shallow is chosen at the start.  A change that is taken back between
the two keys is not seen by them.  `git for-each-ref` lists one reference more than
is shown (`Counted`: 257 in the code), for the graph and for the key alike
(`Keyed`): a reference behind these names may move between the two readings unseen.
A shallow repository has no key at all.  In both cases graph and relationships may
be of two instants, and `TopologyHonest` claims only what is left: they agree on the
references the keys hold, and on all of them when the graph is complete.  The topology cache of
`DockService` (the command line's) is not modelled.

### Relationships

One resolution: parallel probes, the choice of targets, groups of worktrees at one
head computed once from object ids and published only if the closing capture
equals the opening one, and every other worktree asked by name, where each command
may meet another state of the repository.  `since` holds every state the
repository had since the resolution began.  `stopped` remembers that a supervisor
ended a command.  What `optional_text` reads (the configured target, origin's HEAD,
a merge base) takes any other failure for absence (`Optional`).  A tag that is changed
and changed back is not seen by the captures; `SharedFactsCurrent` leaves tags out once
the repository changed twice (`changes > 1`).  Of a row read by name `RowsReal` asserts
the base and the distance; ahead and behind are of one command.  Counts of dirty files and
the admission of configuration files are left out.

### GitProcess

`git[c].pc` walks through `admit`, `spawn`, `run`, `clean`, `drain`; `child` is the
direct child, `tree` the handle of its process group and `kin` what it and its group
started.  `KillGroup` sends SIGKILL to the group, `CleanUp` reaps the child, and
nobody waits for a descendant: one in the group dies after the answer (`dying`), one
that called setsid is out of reach (`escaped`), as `git_process/unix.rs:1` says.
`NoStrayChildren` therefore claims of an answered call that its child is reaped and
that nothing of the group is left that was not sent the signal, and that the signal
is sent while the leader still holds the group's number.  `CleanUpFails` may happen
for ever: it takes the process out of service (`healthy`) and keeps the permit.

### Presence, AgentSync, AdapterConfig

`Presence` prepares a call once and may execute it several times; events are
accepted and projected together (SQL) or one after the other (file, where the
projection may fail or be skipped).  `validate_record` takes fewer identifiers of
sessions and routes than `hook.rs:705`, `journal.rs:1728` and `mutation.rs:63` do
(`Safe`; `"odd"` are the others, such as `user@host`): for one of them the database
rolls the acceptance back, which `tests/sqlite_presence.rs:114` and `:224` assert, and
the file backend accepts the events and skips the update.  `trace` records what was to
be projected, in order; `exact` remembers whether the file backend, which has no
cursor, has so far projected every accepted event once, and without that nothing is
claimed of its record.  The other checks of `validate_record` hold by construction.  `AgentSync` is the thread that holds the lock, its connection to the
desktop (`wire`), snapshots and patches with revisions, owners that change, and the
cache a viewer lays over its own client's inventory; that revisions count a task's
changes whoever owns it is assumed of the desktop.  `AdapterConfig` works with
files under three names and a user who writes whenever he likes, through a name or
through a file he opened earlier; `HooksKept` asks of whatever document has the name what
merging and stripping hooks would make of it.  `fate` says what became of the user's
last write, when he wrote.  Two writes in place are lost and are the exceptions of
`UserContentKept`: one between the second look at the backup and its removal (`"late"`;
`adapter.rs:835` says that the look narrows this window) and one through a file opened
earlier that has no name any more (`"lost"`).

## 3. Runs

Components that share no state share a run, so that one configuration gives each
of them its small instance: the initial value of `part` (or of `stalled`) chooses
which of them a behaviour is of, and the others keep their initial state.

| run | instance | properties |
|---|---|---|
| `owner_safety` | 3 connects, 3 possible owners, 2 builds, 1 connection permit, 2 kills | OneWriter, EndpointKept, SpawnedOwnerWins, NoLeakedOwner |
| `owner_liveness` | 2 connects, 2 owners, 1 kill, one side stalled for good; beside it 2 callers of Git on 1 permit | ConnectEndsUnaided, OwnerRetiresUnaided; GitCallsEnd, NoStrayChildren |
| `owner_peers` | 3 connects, no kill | PeersUnaffected: **violated**, see findings |
| `executor` | 3 connections, 2 reservations, 2 mutations, 1 query | ReservationsConserved, SoundAnswers, AcceptedWorkEnds |
| `exchange_retry` | 1 client, 2 connections, 2 request ids each, 2 mutations, 1 query, 1 reservation | Linearizable, EveryCallReturns |
| `exchange_shared` | 2 clients with a connection each, 3 calls in all, 1 mutation, 1 query, 2 reservations | Linearizable with cohorts |
| `exchange_busy` | as `exchange_retry` with 1 mutation | BusyMeansNotAccepted: **violated**, see findings |
| `route_plans` | 2 callers, 5 inputs (three opens where two fit, two rival edits, one request id used twice), 2 plans, 3 records, changing HEADs | StaysReadable, AnswersKept, RetryNeverRefused, ImplementsRegister |
| `event_store`, journal | 2 processes, 5 overlapping batches, at most 4 records, 4 operations, 2 interruptions, files and SQL | NeverCorrupt, OnceOnly |
| `event_store`, bindings | 2 tasks, 2 worktrees of up to 3 lives, 5 observations, 2 interruptions, files imported into SQL or SQL from the start | BindingsReadable, NewestObservationHolds |
| `migration` | 2 processes, 2 items in the main and a linked worktree, 2 directories, 4 operations, 1 crash, 2 mishaps | AcceptedKept, ReadsSeeAccepted, CutOffCompletes |
| `observation`, query | 2 clients, interchangeable (`MCSymmetry`: they occur in no other part, and no property is a liveness property), 3 changes of the world, 3 states of the store | AnswersCurrent |
| `observation`, evidence | 3 worktrees in four chunks, 2 threads, budgets that just suffice, just do not, or fail early | CapturesAgree |
| `observation`, view | 4 inventories at 3 times, 2 heads and an absent one, a cache of 2 | RewritesShown, ViewNeverStepsBack |
| `observation`, moving | 1 chat that reports and moves (2 deeds), 3 ticks of which 1 is fresh | PassengersHonest |
| `observation`, rosters | 2 chats, 1 deed, every list and every cut of the budget | PassengersHonest |
| `observation`, topology | 4 commits with a merge, 4 references of three kinds of which 3 are read and 2 shown, at most 3 commits, 1 shallow boundary | TopologyHonest |
| `agents`, installer(s) | 1 installer, 2 edits, 1 crash; 2 installers, 1 edit; native and generic host | UserContentKept |
| `agents`, document | 6771 documents a host may have at first (`Found`): a group of up to two handlers for one event, up to two groups for the other; the installers' instances check it of what they install | HooksKept |
| `agents`, presence | 3 calls, one repeats another's event, one names a route; sessions and routes the projection takes or not; 1 fault, lease of 1, time to 2 | PresenceFaithful, CaptureAnswered |
| `agents`, sync | 1 task, 2 owners, 3 revisions, 2 polls, 2 frames, 2 changes of owner, 2 threads | ActivityReal |
| `agents`, moving, failing | 2 worktrees at one head, 3 commits, 2 changes, or 1 change and 1 failed command | SharedFactsCurrent, RowsReal, SupervisionSurfaces |

The type invariants are not among the runs' properties: `TypeOK`, `ExecTypeOK`,
`ExchangeTypeOK`, `PlansTypeOK`, `JournalTypeOK`, `BindingsTypeOK` and `GitTypeOK`
are proved, and so are those of the other components as part of their inductive
invariants; `MigrationTypeOK` can be added to the configuration of its run as an
`INVARIANT`, and holds there.

Why the bounds are enough.  Election: three clients give a spawner, a rival and
a peer of another build; three owners let a killed one be replaced twice; one
connection permit makes the limit reachable.  Executor: three connections
against two reservations make admission fail, a cohort of two and a barrier
behind it; two mutations make order visible.  Exchange: two calls on two
connections with two request ids give every overlap of an abandoned exchange
with a new one, before and after the reconnect.  Plans: two callers with three
records give an open, a rival edit and a retry of either afterwards, in every
order and with a crash at any point; a third route meets the limit of two.
Journal: two interruptions let a recovery be interrupted itself; a pair, its
second half, an overlapping pair, the same identifier with other content and a
batch of its own give every verdict, and four records make the limit reachable.
Bindings: two observations at the same time that disagree, and one later.
Migration: four operations are two writers and two administrators, or a reader
between them; one crash anywhere, followed by whoever comes next.  Query: three
changes are one before, one during and one after the evidence was read.
Relationships: one change lets any two commands meet two states, a second one
lets it be taken back; an instance with two changes and a failed command at once
(five million states) was checked as well.  Dock: three ticks let a list be older
than its freshness, and a report older than the list; a third deed of a chat exceeds
what the run can enumerate, and is covered by the proof.  Presence: two calls share a
host identifier but not their batch, so a batch may be found in the journal in part.
Topology: one change per
attempt, and the attempt is made twice, as in the code.  The real limits are
higher (64 plans, 100 000 records, 32 bindings, 1024 ancestry entries, four Git
children); nothing depends on their value but when a case is reached.

`CHECK_DEADLOCK FALSE` is used where all calls may be over and every bound
reached: the election, the stores, the migration, the observation and the agents.
The executor, the exchange and the plans are checked for deadlock.

Fairness.  Clients: `WF` of a client's own steps and of the expiry of its start
budget; they are threads with timers, and nothing is assumed of owners
(`stalled = "owners"`).  Owners: `WF` of the idle exit, of the end of a serve task
whose client is gone, of the steps of `finish_owner`, of the kernel's reaping
and of the application finishing its work, and nothing is assumed of clients
(`stalled = "clients"`).  Exchange: `WF` of a client's steps and deadlines.
Executor: `WF` of the application thread as a whole; it never waits with a job at
hand.  Git: `WF` of a caller's own steps and of its deadline; a child need never
exit and a clean-up need never succeed.

### Findings

* `BusyMeansNotAccepted`: `runtime/retry.rs:5` says Busy means that the owner
  has not accepted the request.  That is so of one attempt.  The loop returns
  the Busy of its last attempt for the whole operation, and an earlier attempt,
  lost to a transport error, may have been accepted and still commits.
* `PeersUnaffected`: a client that spawned the owner and whose own handshake
  then exceeds two seconds returns an error, and `SpawnedOwner::drop` kills the
  owner although other clients have been welcomed and have work accepted there.

## 4. Proofs

Every theorem is of the component's specification, for all values of its constants
that satisfy the component's `ASSUME`.  An invariant is proved from an inductive one.

`ProcessProofs`, the election: `TypeCorrect`, `AtMostOneWriter`, `AcceptedWorkUnderLock`,
`EndpointIsKept` for any sets of clients, owners and builds.  None of the
three safety properties is inductive alone: the strengthening `LockDiscipline`
says that an owner between `locked` and `joined` holds `owner.lock`, that an
application thread belongs to such an owner and accepted work to such a thread,
and that a serving owner is the endpoint; two owners with a thread would both be
the holder of the lock.  `SpawnedOwnerIsReached` and `OwnersAreAnsweredFor` add
`ElectionInv`: an owner that has been spawned and has not tried its lock has the
client that spawned it, waiting for it under `startup.lock`; and while that client
waits, nobody else holds `owner.lock` or is about to try it.  A client therefore
meets no owner but its own, and a connect that fails has killed its child before it
lets go of the locks.

`ProcessProofs`, Git: `GitTypeCorrect` and `NoStrays`, for any number of threads and
permits.  `GitInv` says that the permits taken are counted by the calls between
`spawn` and `drain` (`PermitsCounted`), that only a call that supervises or cleans up
has a child to reap or something alive in its group (`Supervised`), and that a group
not yet killed has a leader nobody has reaped (`Armed`); since the supervised calls are
some of those counted, there are never more groups than permits.  One lemma for each thing
a step can do to the permits, and one for each group of actions.

`ExecutorProofs`: `ExecTypeCorrect`, `PermitsConserved`, `AdmittedJobsFit`,
`ServedInOrder`, `AnswersHold` for any connections, commands
and number of reservations (`Links` finite).  The inductive invariant `IInv`
ties the thread's sequences to `loc`: the group, the barrier job and the channel
list exactly the links whose reservation is in a job, each once (`ShapeInv`);
so the channel is never longer than the accepted reservations, of which there
are at most `MaxExchanges` minus the one a submitting task still holds, which is
why an admitted job fits.  The answer part says that a link without a job has no
answer, that a cohort shares one command, and that what a link has seen is never
past the store.  `IInv` was checked with TLC before it was proved.

`RuntimeExchangeProofs`: `ExchangeTypeCorrect`, `ExecutorUnderExchanges` (the theorems
about the executor hold of one that is driven by real exchanges) and
`CallsLinearize`: `RuntimeExchange` implements `SharedStore`, for any clients,
connections, commands, retries and replacements of the owner.  The invariant is about
the one conversation of a client on the connection it has: what is first on the wire
to the client answers the request in progress, or carries an older id and breaks the
exchange; between Begin and Ready nothing under the new id has passed the admission,
and after it whatever the owner holds under that id belongs to the call's command.
Each step is then a step of the abstract store or a stutter: the thread's commit is
`TakeEffect`, the end of a call `Return`, and an attempt given up is nothing.  That an
answer of a query names a length of the store between call and return needs
`SoundAnswers` and that the store only grows.

`RoutePlansProofs`: the six properties of `route_plans` and the refinement
`PlansImplementRegister`, for any callers, inputs, routes and limits.
`StaysReadable` is not inductive: what a caller writes must extend the journal
to a readable one.  `WriterInv` says that whoever writes holds the lock, that the
journal is undamaged then, and that the journal with the drafted record is
readable; `BuiltReadable` derives that from the guards of `build`, by counting:
a route's latest revision is the number of its records (`LatestRevision`), and
the number of known routes grows only when the limit allows.  `HasLast` (a route
with records has a last one) is carried along, since the maximum of a finite set
is an induction the prover does not do.  With it every answer stands in the
journal (`AnswersKept`), and one answer per request and one request per revision
follow from what a readable journal is.

`EventStoreProofs`, the journal: `JournalTypeCorrect`, `StaysReadable` and `ImplementsOnceLog`, for
any writers, batches, record limit and numbers of operations and interruptions.
What must hold of the files at every instant, because an interruption may come at
any, is `FilesMatch`: the lines are the beginning of the accepted log, a torn line
is of its next record, and without an intent an index that exists is the journal's.
What the holder of the lock has in memory is `Progress`, by its step: at `append`
what is left to write is exactly what the lines lack of the log (`Continues`); an
index being written is of the present lines, and either all accepted records are
in them (`Complete`) or there is no intent; an intent being written begins at the
present end and has new identifiers only.  `LockHeld` makes every other process
stand outside its operation when the files change, so one lemma (`OneMoves`) settles
all of them and each operation has a lemma of its own.  The rename of the intent and
the commit of the transaction extend the abstract log, `Answer` acknowledges a batch,
and every other step, recovery and interruptions among them, leaves it as it is.
The invariant was checked with TLC in the instance of `event_store` before it was
proved.
It rests on the callers' batches not having an identifier twice
(`JournalAssumption`): `hook.rs` numbers the events of a batch, but `append_legacy`
itself compares a batch with the journal and not with itself, which
`prepare_records`, used by recovery and the SQL backend, does.

`EventStoreProofs`, bindings: `BindingsStayReadable`, `NewestObservationWins` and
`BindingsTypeCorrect`, for any tasks, worktrees, observations and interruptions.  The
records an update is about to append still fit the history while it waits
(`TodoFits`); no record is newer than its task's watermark (`RecordsTimed`), so an
observation that passes the watermark passes every record; and a task's last record
is where its newest observation put it, unless its update is under way or was cut off
(`NewestKept`).  In the SQL store links and cursors agree with the history
(`LinksValid`, `CursorValid`), the import included.

`BackendMigrationProofs`: `NoAcceptedWriteLost`, `ReadersMissNothing` and
`InterruptedMigrationResumes`, for any processes, items, worktrees and directories.
Whoever changes the database or decides where to write holds the transition guard
(`GuardHeld`), so what an operation found when it decided (`Decision`) still holds when
it acts, whatever others do meanwhile (`OthersStand`).  What the intent names and what
the database says it imported are complete snapshots (`ImportsComplete`), and the life
of the database (`DatabaseLife`) excludes an active one without a cut-over.  A reader
has no guard: `Reading` says what it may still count on when it reads.

`ObservationProofs`:

* queries, `AnswersAreCurrent`: every counter of the world only grows and what was
  read is remembered with the value it had, so `QueryInv` compares what the query, the
  reader and the application hold with the world as it is now: proofs are of the past,
  cached rows are the rows of their version, Git facts are no older than the list of
  worktrees they are of, and what the query has seen lies between its start and now; a
  leased proof is of the configuration its source was proven under;
* views, `NeverBack` and `NoHiddenRewrite`: the first needs that the view does not
  change while a call is under way (`CallFaithful`), so that the subset `QueryProxy`
  handed in is still the one of the view the answer is applied to; the second that no
  cached answer calls a rewrite an advance (`CacheTrue`);
* the map, `MapsAreHonest`: the three histories only grow, so what a report or a list
  said when it was made stays a lower bound of them, however late it arrives and
  however much of it the budget takes away;
* the capture by threads, `ParallelCaptureAgrees`: what a worktree has used of the
  budget is what its thread has read of it, and nobody else is at that worktree
  (`Balanced`); hence a chunk that is refused would not have fitted the serial capture
  either (`RefusedIsTooMuch`), and once all threads are joined nothing is reserved and
  nothing is missing unless a thread panicked or none was started (`JoinedIsDone`);
* the graph, `TopologyIsHonest`: what the recursion along the parents reaches is the
  least set closed under them (`ReachedIsWalk`, by the place in `TopoOrder`), so fewer
  parents reach less, and a graph that holds the history reaches as much as the history;
  what was read between the two keys is what the closing key compares, since the
  repository moves at most once in between (`KeyTaken`); and after any round of the
  budget every end it detached has a boundary (`WithinIs`).  `TopologyInv` was checked
  with TLC in the instance of `observation`.

`AgentsProofs`:

* synchronisation, `ActivityIsReal`: a task's history only grows, so frames on the
  wire, what the peer holds, what was saved and what is shown all speak of one of its
  revisions;
* relationships, `SupervisionAlwaysSurfaces`: a command its supervisor ended leaves a
  mark nothing removes; `RowsAreReal`: what a row says was read of states the
  repository had since the resolution began; `SharedFactsAreCurrent`: only tags may
  move between equal captures, and with one change a tag that was read is that of the
  opening capture or that of the repository as it has become;
* presence, `CapturesAreAnswered` and `PresenceIsFaithful`: an identifier is in the
  journal once and the second event of a batch follows the first, so a batch that is
  known in part is there as a whole or never will be; the record says what the trace
  says, event by event, and in the file backend it is, while `exact` holds, behind
  by the batch of the call that holds the guard (`Pending`); what the database has in its
  journal its projection takes (`Fit`), so what it refuses for its identifiers is not in it;
* adapters, `HooksAreKept` and `UserContentIsKept`: by induction over the groups of an
  event, taking our handlers away leaves the user's in their order and every group with
  a matcher of his (`KeptUsers`, `KeptClean`), and what is appended adds none, so no plan
  touches what is the user's (`DesiredKeeps`).  The transaction moves files between free
  names; before it removes the backup, either the replacement has the name, or the user
  has written since and that is in the configuration, or what he wrote last is the
  content that was reviewed (`Replaced`), or it is one of the two writes `fate` calls
  lost.  `AdapterInv` was checked with TLC in the
  instances of `agents`.

Induction.  The prover cannot instantiate the library's induction theorems, so where
a number has to be reached (how often an event counts, the sum of what was read, the
place of a task's last record) the proof takes the least counterexample, which
`LeastOf` derives from the well-foundedness of the order on the natural numbers, or the
sequence of least length (`BySequences`).

Assumptions: only the named `ASSUME`s of the component modules.  Most say that a
placeholder (`Nobody`, `Absent`, `Unset`, `Nowhere`) is no value of the kind it stands
for, that a limit is a natural number and that inputs have the shape the code gives
them.  Those with content: an observation names a task once and has a time
(`BindingAssumption`: the commands that observe tasks refuse an inventory that lists
one twice), a batch names an
identifier once (`JournalAssumption`), the rows of an inventory have times that can be
compared (`ViewAssumption`), every item belongs to a worktree or to the repository
(`MigrationAssumption`), and a history has an order in which children come before their
parents, as `git rev-list --topo-order` lists it (`TopologyAssumption`).  `AdapterAssumption` says
that what a host or its user writes has the form `validate_document` asks for.

What the proofs corrected in the models: `CASE` with overlapping arms became the
`if`-chain the code has; the archiving of a chat was lost in a list that is late, and
`lastHere` now records it; `CaptureAnswered` asked for less than the code does where a
batch is known in part (two calls that share a host identifier and differ in length,
`journal.rs:1061` and `journal.rs:1877`).

Proved and no longer checked by a run: the type invariants named above,
`WorkUnderLock`, `QueueHasRoom`, `FifoService`, `SameAnswer`, `NoLostUpdate`.

Checked with TLC only: liveness (`ConnectEndsUnaided`, `OwnerRetiresUnaided`,
`GitCallsEnd`, `AcceptedWorkEnds`, `EveryCallReturns`), which is out of the prover's
reach.

## 5. Not modelled

* Exchange: Ping; chunking and digests of transfers (a transfer is one frame or a
  broken stream); permissions of socket and directories; JSON bounds.
  `AcceptInventory` behaves in the channel as a query nobody shares.
* Stores: machine crashes that undo what was written but not synced; the contents
  of domain tables beyond which items they hold; backup verification by digest.
* Queries: the cap of sixteen proven sources and a worktree that is relocated.
* Presence: the best-effort projection of the file backend is one step that may
  fail; the order of sessions in a list.
* Dock: order and wording of rows, branch groups, route plans in the map,
  `DockService`'s own topology cache.
* Relationships: dirty counts and the admission of configuration files.
* Git processes: the Windows job objects and the reading of `/proc`.
* `viewer.rs`, `context.rs`, `mcp.rs`, `commands.rs`, `cli.rs`: rendering, argument
  parsing, JSON-RPC framing and dispatch to the components above; no state of
  their own that outlives a request.
* `runtime/windows.rs`, `fs_security.rs`: system calls of one platform each.

## 6. Plan

What remains, in this order:

1. Ping and idle of the exchange, chunked transfers as a refinement of a frame.
2. `DockService`'s cache and the refresh loop of the viewer.
