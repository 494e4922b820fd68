# A TLA+ model of ethereum-head-watcher

The watcher polls the head of the beacon chain, hands each new block to five
handlers that run in threads, and sends alerts through Alertmanager. This
directory holds TLA+ modules of its parts, the TLC configurations that check
them, and proofs of the most important properties. Paths below are relative to
the repository's root (`src/watcher.py` is the main module).

## The system

### Components, their state and operations

| part | code | state | operations |
|---|---|---|---|
| main loop | `src/watcher.py` | `handled_headers`, the running tasks, the two updaters | poll, start handlers, wait, record, log a failure and go on |
| range mode | `src/watcher.py` `run` | position in `SLOTS_RANGE` | the same, slot by slot, and a wait for the updaters |
| alert sending | `src/handlers/handler.py`, `src/providers/alertmanager/client.py` | `sent_alerts` of each handler | look up, post, remember, forget the oldest |
| fork detection | `listen_chain_reorg_event`, `src/handlers/fork.py` | `chain_reorgs` | store an event, judge and delete events, check the head's parent |
| slashing and exit alerts | `src/handlers/slashing.py`, `src/handlers/exit.py` | none of their own | classify a validator, send alerts by owner |
| validators index | `_update_validators`, `parse_validators` | `indexed_validators_keys` | fill in place from a stream, once an epoch |
| exit request cache | `src/utils/exit.py`, `src/utils/events.py` | `last_requested_exit_indexes`, `last_total_vebo_requests_processed` (one pair in `ExitsHandler`, one in `ConsolidationHandler`) | read the total, fetch a range of events, prune, store the total |
| ConsolidationBus cache | `_update_last_consolidations` | `last_requested_consolidations` | fetch a range of events, prune |
| consolidation requests | `src/handlers/consolidation.py` | (uses the caches above) | sort requests into lists, judge them, send |
| withdrawal requests | `src/handlers/el_triggered_exit.py` | none | three passes over the requests, send |
| Keys API source | `src/keys_source/keys_api_source.py`, `src/providers/keys_api/client.py` | `keys_api_status`, `keys_api_nonce` | status, modules, operators, keys |
| file source | `src/keys_source/file_source.py` | `keys_file_modification_time` | look at the time, read |
| HTTP providers | `src/providers/http_provider.py` | none | try host after host |
| decoding | `src/utils/dataclass.py`, `src/providers/consensus/` | none | keep known fields, convert nested ones, merge header and block |
| configuration and start | `src/main.py`, `src/variables.py`, `src/web3py/extensions/contracts.py` | the environment, the loaded contracts | check, choose the keys source, load, wait, exit |
| health check | `src/metrics/healthcheck_server.py` | `_last_pulse` | answer the probe |

### How they interact

The main loop is the only writer of `handled_headers`. It starts the two
updaters (threads), which write `user_keys` (replaced as a whole) and
`indexed_validators_keys` (filled in place), and one task per handler, which
read all three without a lock. Tasks and updaters are run by the pool of the
`unsync` library, which has a bounded number of threads. The listener thread
and the fork handler share `chain_reorgs`; the lock around each access is a new
object every time and excludes nobody. The first handler that fails ends the
wait of the loop: the others of that attempt go on as **orphans**, next to the
retry, on the same handler objects (`sent_alerts`, the caches).

### What is hard, and what correctness means

* Main loop: overlapping attempts, failures between two alerts, lost answers, a
  full pool, a restart with nothing persisted. Correct: a head counts as
  handled only when its alerts are delivered; a head that stays is handled in
  the end.
* Fork detection: lost, overwritten and doubly deleted events. Correct: a block
  of the chain that was not handled is named by some alert.
* Caches: failures between two fetches or two events, orphans that prune and
  write totals back late, a reorganised chain, window and step boundaries.
  Correct: after an update nothing of the lookback window is missing, so no
  expected exit is reported as unexpected.
* Tables and handlers: tables change between two lookups. Correct: who was
  known when the handler began is reported as known, in one way, in full.
* Keys sources: the source changes between the requests of one update, which
  may stop anywhere; each request may be answered by another host. Correct: what
  is remembered as seen was delivered.
* HTTP: each host fails in its own way. Correct: a usable host serves, and the
  error that means something wins.
* Decoding: optional parts, nulls, fields of later forks. Correct: what reaches
  the handlers reads as it was sent, and additions do no harm.
* Start: a configuration checked in one place and relied on in four others,
  contracts that are not there yet. Correct: only what is configured is asked,
  and a watcher that can run comes to run.

`PROJECT.json` lists every hazard with its line and the properties that watch
it.

## The modules

Each module's header says what it abstracts. `MC*` modules give values to
constants that a `.cfg` cannot write. `PROJECT.json` ("map") has the source
lines of every definition.

**HeadLoop** (with **HeadMonitor**, **MCHeadLoop**, **HeadLoop_proofs**).
`Poll`, `Raise` and `Complete` are the three ways an iteration of `run` goes
on; `Start` gives a queued task one of the pool's `Threads`, and `Skip`,
`StartPost`, `PostOk`, `PostFails`, `Crash`, `Finish` are the steps it then
takes. `task[a][h]` is the task of handler `h` in attempt `a`; what `Raise`
leaves in the pool are the orphans. `Restart` is a process that stopped and was
started again, with every object new. `Due[h][b]` are the alerts handler `h`
sends for block `b`; in the program their text also depends on the tables,
whose part is modelled in the handlers' own modules. `acked`, `late` (how many
alerts orphans appended since the head came) and `failures` are history
variables. The pool takes queued tasks in any order; the program's takes the
oldest first, which allows less. HeadMonitor is the abstract specification:
alerts are delivered one by one and a head becomes the last handled one when
all due for it are; a restart forgets it (`Forget`), and never what was
delivered.

**ForkWatch** (**MCForkWatch**, **ForkWatch_proofs**, **ForkChain_proofs**). A
node that moves its head through a tree of blocks and sends a reorg event to
those who have subscribed; the listener, which the loop starts (`Listen`), which
has the node answer (`Subscribe`), stores what it is sent (`ListenerStores`) and
ends with its request or its stream (`ListenerDies`); the loop
(`Poll`, `PollNothing`, `Complete`, `Raise`, `OtherRaises`) and the fork
handler step by step (`Snapshot`, `Judge`, `EventPosted`, `Delete`,
`CheckParent`, `HeadPosted`, `PostFails`). `OtherRaises` is the failure of any
other handler, which orphans the fork handler's task. The event's depth is
counted from the higher of the two heads to their common ancestor; clients
differ in this, and it is an assumption of `ChainCovered`. `unheard` and
`misjudged` are history variables: a reorg fell between a listener's start and
its subscription; the events a task dropped as known because of its own head
(`KnownByOwnHead`), a head that was never handled.

**ExitRequests** (**ExitRequests_proofs**). Tasks run
`_update_last_requested_exit_indexes`: `Begin` copies the total, `EarlyReturn`
writes the copy back; otherwise `ReadTotal` and `Open` lead to the steps of the
range: `Fetch` gets the logs of a step, `NewEntry` makes the entry of a block,
`AddRequest` fills it, `StepAdded` goes on to the next step, and `AllAdded`
prunes and stores the total. A task may fail or be overtaken between any two
(`Fails`). `Begin` is for the newest head so far, as the loop retries only
that; tasks begun earlier go on. Consolidation handling has its own instance of
the same cache.

**BusRequests**. The same reader without a total: each update fetches from the
newest cached block to its head, with `AddBatch` for `AddRequest`. `Reorg`
replaces the newest block of the chain. **MCCaches** checks both caches of
ExitsHandler (**Caches_proofs** is about this one).

**OwnerAlerts**. The two tables with their updaters, and the handlers for
slashings and exits, over slots and epochs. `SendFails` ends an attempt between
two alerts; the head is tried again with the tables as they are by then. A
validator is looked up in both tables in one step, which changes no outcome as
neither table loses entries.

**ElWithdrawals**, **Consolidations** (**Consolidations_proofs**). One block's
requests, the handler's lookups one at a time, `KeysUpdated` at any moment, the
alerts one POST at a time, a failed attempt begun again. `Alerts` of
ElWithdrawals are the four the code may send, in its order; `ToTell` is the
`if` before each. A block with no request returns at once and is left out.
**Handlers_proofs** is about ElWithdrawals and OwnerAlerts.

**KeysApiSource**, **FileSource**. The steps of `update_keys` and of the
watcher's `_update_user_keys`, with a source that changes in between. The loop
starts no second update while one runs (`keys_updater.done()`), so there is
one. The Keys API is a list of hosts; the chain goes on (`NewBlock`), each host
follows when it likes (`Refresh`), and every request is answered by any of them,
as it falls back over the list by itself (which host that is, given what each
does, is HttpFallback's). `mixed` and `mixedTaken` are history variables:
another host answered with the keys than with the status.

**RangeRun**, **HttpFallback**. Range mode; a request over the list of hosts.
**Parts** gathers these two, both keys sources and Startup under one roof;
**Parts_proofs** is about these five.

**Decoding**. The dataclasses as a table of fields with their annotations;
`New`, `Convert` and `Kept` are the constructor, `__post_init__` and
`from_response`, applied to JSON of the specified shape with at most one edit
per answer: a field too many, missing, null or empty, at any level.
`GetHeader`, `GetDetails` and `Merge` are the stages of
`_get_header_full_info`; `GetOther` is an answer that is read by itself. It has
RECURSIVE operators and stays with TLC.

**Startup**. `Check` to `Run` are the start in the order of `src/main.py`, with
`Versions` and `Sleep` as the recursion that waits for contracts; `Restart` is
Docker's. `Ask` is the running watcher, asking the services that each handler's
guards let it ask.

**HealthCheck**. The probe, the server and a main loop that tells it nothing.

**MCCaches**, **MCHandlers** (Consolidations, ElWithdrawals, OwnerAlerts) and
**MCParts** (the five of Parts, Decoding, and a small instance of HeadLoop for
its liveness) put parts that share no variable into one run: one part is chosen
in the initial state and the others rest, so the states add up and do not
multiply. The first module of each is extended, the others are instances.

Modules are kept apart where they share no state that the properties relate.
The shared assumption is that `user_keys` and the index only grow: keys are
never deleted at the Keys API (`src/providers/keys_api/client.py:24`). It does
not hold when a lagging host answers with fewer (KeysApiSource has that) or a
key is taken out of a file: the handlers' properties are about the other cases.

## The runs

| run | shows | bounds and why they are enough |
|---|---|---|
| `head_loop` | `HandledMeansDelivered`, `OnlyOrphansPushOut`, `MonitorSpec`, `TypeOK` | two handlers, three threads, three blocks (two of one slot), two failures or restarts: two orphaned attempts next to the current one, and tasks that wait for a thread; lists of 2, so that both are trimmed, and the sent alerts of a handler with two alerts due overflow as soon as an orphan adds one |
| `fork_watch` | `HandledParentCovered`, `ChainCovered`, `TypeOK` | a listener that is dead, started or subscribed; a chain of five blocks that two forks leave, one at its first block and one at its third, so that reorgs are deep and shallow, up and down, and two may end at one slot; two overlapping fork tasks (symmetric: no definition tells them apart), one failure, one broken stream, two reorgs; `handled_headers` trimmed at 2 |
| `caches` | `ExpectedExitsKnown`, `BatchesKnown`, `TypeOK`, `BusTypeOK` | two overlapping tasks, any number of failures, four blocks, a window of two, steps of one, so that several steps, pruning and a late task's writes occur; two validators with three requests, or two batches, so that an entry may be empty or half-filled, and one reorganisation for the batches; tasks, validators and batches are symmetric, as no definition tells them apart |
| `handlers` | `ForeignOrJudged`, `JudgedIsTold`, `StrangersTold`, `KnownRequestsReported`, `OneVerdict`, `KnownUsersReported`, `TypeOK`, `ElTypeOK`, `OwnerTypeOK` | two consolidation requests among three validators, one unknown to the beacon node, balances on both sides of the limit; two withdrawal requests, two validators, amounts 0, 1, 2; two validators slashed or exiting, one per block as they are classified one by one, epochs of two slots, three slots; one failure |
| `parts` | `StatusCovered`, `KeysOfFile`, `FileTaken`, `LaterSlotsSeeKeys`, `FirstUsableServes`, `MissedSlotWins`, `ReadAsSent`, `AdditionsIgnored`, `OnlyConfigured`, `ComesUp`, `StableHeadHandled`, `TypeOK`, `FileTypeOK`, `RangeTypeOK`, `StartTypeOK` | two hosts of the Keys API, any of which may lag, three snapshots, two failures, operators that appear late; edits of the file of all kinds; four slots; three hosts and all they may do; one edit in each of the two answers of a head, or in one of a list; every set of variables left out, a recursion that reaches its end, a failed start; a main loop whose handlers share one thread, one failure or restart, a `handled_headers` of one |

Runs that end in a counterexample, each a disagreement between the code and
what the repository says of it (details under "findings"):

| run | violated | what the code does |
|---|---|---|
| `keys_api_nonce` | `SameNonceSameKeys` | stores the nonce before fetching; a failed fetch leaves old keys until the nonce grows |
| `keys_api_hosts` | `KeysNotOutdated` | lets a lagging host answer with the keys after another answered with the status, which is remembered for them |
| `head_loop_ten` | `NotSentAgain` | forgets an alert of the head at hand when an orphan appends to the list of ten, and posts it again |
| `bus_retry` | `RangeNotEmpty` | a head handled again after its own block was cached fails with ValueError |
| `owner_epoch` | `EpochRefreshed` | the index is not refreshed in an epoch whose first slot has no block |
| `el_withdrawals_keys` | `OurSourceReported` | a key that arrives between two passes drops the request |
| `health_check` | `SilenceIsReported` | the probe renews the pulse before the server looks at it, so a loop that hangs is answered 200 |

`CHECK_DEADLOCK FALSE` stands where a run really ends: a handler that has
returned, a range that is finished, a tree of blocks or a number of slots that
is used up. `parts` checks deadlock; a range or a request that is over stutters
there.

Two more things the models reach, without a run. A range whose first slot is
missed ends with an AttributeError (`NoUpdater` of RangeRun): the updaters the
loop waits for have not been started (`src/watcher.py:92`). And after a start
the handlers of the first heads run while the updaters do: when the index has a
validator and `user_keys` is still empty, its exit counts as someone else's and
is never reported (OwnerAlerts has such behaviours; nothing promises
otherwise).

### Conditions of the results

* `OnlyOrphansPushOut` says when the list of sent alerts is long enough: while
  it has room for what is due for the head at hand and for what orphans appended
  since that head came. The code has 10. With no more than nine alerts for a
  head (consolidations) one alert of an orphan fits, and not always two; the run
  `head_loop_ten`, with the code's numbers, shows an alert posted twice. That it
  is posted at all does not depend on it (`HandledMeansDelivered`).
* `StatusCovered` is about keys that came from the host that answered with the
  status. Otherwise the keys may be older than the status remembered for them
  (`keys_api_hosts`) and stay so until a host has a newer one. Modules and
  operators may come from any host: a nonce of a host ahead is
  `keys_api_nonce`'s question, an operator missing on a lagging one a KeyError.
* `HandledParentCovered` is about heads of one run of the program; nothing is
  persisted, so the gap across a restart is not told by anyone. HeadLoop has
  the restart: what it promises of a handled head holds across it.
* `ExpectedExitsKnown` and `BatchesKnown` excuse blocks some update found in
  the cache with less than the chain has in them (`skipped`, `torn`): an entry
  left half-filled by a failure, being filled by another task, or, for batches,
  of a block since replaced. The next range starts behind the newest entry, so
  nothing fetches the rest; without the excuse TLC finds a request and a batch
  missed. The chain of ExitRequests does not reorganise.
* `ChainCovered` does not hold with two reorgs that end at one slot, with a
  failed request for events or a broken stream, or with a reorg after a listener
  was started and before the node has answered it (`Calm`): the second event may
  be deleted unjudged, the others are lost.
  Two more limits of the fork handler are excused by name. When the reorg alert
  about a head's parent is out, `head_parent_is_alerted` keeps the other alert
  back, which would have named every slot since the head handled last; what
  lies between that head and the fork is in neither (`Hidden`). And a task
  takes its own head for known; if the attempt is given up and another head
  handled instead, the event it deleted on that ground is gone, and nobody
  tells of that head (`Misjudged`). No document of the repository promises
  more. A tree with a single fork at its root reaches neither; the run's tree
  reaches both, and TLC refutes the property without either excuse.
* In ExitRequests, an update may open an empty range too: beside another task
  for the same head, when both pass the total and the later one finds the
  head's block cached; or after an attempt that failed among the events of that
  block, whose total was not stored. The ValueError fails that attempt, in the
  second case each one until the head changes.

### Fairness

`parts` is the run with fairness. For HeadLoop, weak fairness of the main
loop's next step (the loop is `while True` with every exception caught) and of
each task's next step other than failing (the pool serves its queue; every
request has a timeout, so it ends, and as failures are bounded one of them is
finally answered). There is no fairness for the chain, and none for failures.
Weak fairness, too, of the file source's updates (heads keep coming, and each
starts one) and of the start's steps and Docker's restart ("restart:
unless-stopped"). It is stated for the part that is chosen; the contracts, the
file and the outages are under no fairness.

## The proofs

Checked by TLAPS, for all values of the constants that satisfy the modules'
named assumptions.

**HeadLoop_proofs.** `TypeCorrect` is inductive by itself.
`HandledMeansDelivered` is not: a head is recorded because its tasks are "ok",
so the invariant `IInv` adds what a task has achieved: what is due for its
block is delivered or still ahead of it (`TasksProgress`); what is remembered
was delivered, as an alert that is skipped must have been (`SentDelivered`);
the tasks waited for are about the head to be recorded (`CurrentTasks`); and
that head stays one that was not handled last (`FreshHead`).
`HandledAreDelivered` follows, and `ImplementsMonitor`: with `last` mapped to
the newest recorded head, `Complete` is a step `Handle` of HeadMonitor,
`PostOk` and the accepted half of `PostFails` are `Deliver`, all else stutters.

`OrphansPushOut` holds for any bound of the list. Its invariant `KeptInv`
counts: what was accepted for the head at hand lies among the newest `k`
elements of the list (`Latest`), and `k` is at most what orphans appended since
the head came (`late`) and the alerts the head's own attempts appended (`own`).
These are distinct and due for the head, so no more than are due: an attempt
posts only what it did not find in the list, and what its task is about to post
is not one of `own` (`Posting`). That needs the list to hold all of `own`, which
is the room the property speaks of, so the count stands only while there is room
(`Kept`); `late` never falls while a head stays, so room once lost is not found
again. When the head changes both start at nothing. Orphans of an attempt at the
same head count as orphans: one may append what the retry appends too.

**ExitRequests_proofs.** `TypeCorrect` and `NoRequestMissed`. The invariant
says that the totals of the chain grow strictly where there are requests; that
no entry is missing below another one (`EntriesBelow`: the reason an update may
start behind the newest one, even after a half-way failure; what those entries
lack is then counted as `skipped`); that a stored or copied total vouches for
the requests up to the block it was read at (`Vouched`: the reason an early
return is right, and a late write-back harmless); and that what was asked up to
where a task has come is known or among the events it has ahead (`Gathered`,
`TaskOnCourse`). An entry is made only when nothing below its block is ahead
any more, which keeps the order of the entries. All of it is relative to the
window of the newest head: what an older task prunes lies outside.

**Consolidations_proofs.** `TypeCorrect`, `OursAreForeignOrJudged`,
`StrangersAreTold`, `JudgementsAreTold`. The invariant says what each lookup of
a request has settled (`LookedUp`: a key looked up and not found leaves the
request in a foreign list, one found stays found for the lookup of both
together, and one known when the attempt began was found), and that of the
alerts of each stage those behind are out when there was something to tell
(`StagesInOrder`). A failed attempt starts both over and keeps what was sent.

**ForkWatch_proofs.** `TypeCorrect` and `ParentsAreCovered`, for any tree, any
number of tasks, failures, broken streams and reorgs, and any bound of
`handled_headers`. That a parent is covered is decided in a task, several steps
before its head is recorded, so the invariant says what the task knows
(`TaskSound`): `parentAlerted` is true only when a delivered alert names the
parent, a task that has ended well has its parent covered (or is the first
ever), and the event a task is about is one the node sent
(`EventsGenuine`: its slot is that of its new head, so the alert made of it
does name that block). `ListsAgree` ties the trimmed `handled_headers` to the
history of all handled heads. An orphan needs nothing of its own: what it
deletes from `chain_reorgs` cannot make an alert unsent.

**ForkChain_proofs.** `ChainIsCovered`, beside the invariant of
ForkWatch_proofs. The property speaks of a moment when all events are judged;
the invariant says what holds before. A block is accounted for (`Accounted`)
when it is told of, or one of the property's two exceptions, or when an event
in the stream or in `chain_reorgs` reaches back to it (`Awaits`). Under `Calm`:

* below every handled head all blocks are accounted for, by events no newer
  than it (`HandledLine`). So are those on the line of the node's head and on
  that of the head at hand, as far as handling got; and where the two lines
  part, the node's up to the slot of the head at hand (`NodeLine`, `HeadLine`).
  The node may switch forks at any time, so a handled head need not be on its
  line: what a switch adds below is named by its event, whose depth is counted
  to the fork (`NewOnLine`), and the listener has been started as soon as there
  is a head at hand (`Listens`), and hears every reorg from then on, or
  `unheard` says so.
* an event a task is about to delete is settled (`Settled`): its alert is out,
  or it is misjudged, or its head is known and all blocks below that are
  accounted for by older events. That order is what keeps two events from
  resting on each other. With one event for each slot (`EventsApart`), what a
  task deletes is the event it has judged, however many tasks overlap.
* a block may wait for an event about itself only while no task has it for its
  head (`Untried`), because that task would take it for known.
* what a task that ended well knows of its head's parent (`ParentSeen`) closes
  the line between its head and the head handled last: the alert reaches back
  to that (`Reaches`), or a reorg alert ends at the parent (`ParentAlerted`)
  and names the blocks down to the fork, which leaves those that `Hidden` is
  about.

That a line is ordered and its prefixes are lines is proved from `Parent`,
`Slot` and the equation of `Ancestors`, by the oldest block at which it would
fail.

**Caches_proofs.** `BusTypeCorrect` and `BatchesAreKnown`, from the composed
specification `MCSpec`, for any number of overlapping tasks and reorganisations
and any window and step. A batch is settled when its block has an entry, and
the entry holds it or some update has begun behind it while it was not whole
(`torn`). `Settles` says of each task that what was requested in the blocks of
the newest window it has passed is settled or still pending; `EntriesInOrder`
that within that window no entry is missing below another one. Each rests on
the other: an update begins behind the newest entry and trusts all those below,
whoever made them. A block replaced while a task is at it counts only for tasks
started since (`Fixed`).

**Handlers_proofs.** `ElTypeCorrect`, `VerdictsAreOne`, `RequestsAreReported`
for ElWithdrawals: keys only come, so a request the first pass took for ours is
not taken for a stranger's later (`ElLooked`), and the alerts ahead are those
of the lists as they are, those behind are out (`ElAlertsInOrder`).
`OwnerTypeCorrect` and `UsersAreReported` for OwnerAlerts: as long as a head is
tried, each validator both tables knew at the first attempt is still to
classify, classified as ours, or reported (`TaskOnCourse`); a failed attempt
starts over with tables that have lost nothing.

**Parts_proofs.** Each theorem is about the part's own specification.
`ApiTypeCorrect` and `StatusIsCovered`, for any number of hosts: the status is
remembered last and is the one read first; in between the keys are read, and
when the same host answers, from a snapshot no older, as a host does not go
back. `ApiOnCourse` carries that along the update, with who answered: keys of
one host are no older than the status to be remembered, and the watcher's keys,
unless they were mixed, no older than the status remembered before.
`KeysAreOfFile` needs that an update that reads has found an older time, and
that what it has read is no older than the time it will remember
(`FileOnCourse`). `LaterSlotsDoSeeKeys` needs that the loop comes back to "run"
only with the updaters done (`RangeOnCourse`). `FirstUsableDoesServe` and
`MissedSlotDoesWin` hold when the request ends because, while it runs, each
host before the one at hand has its error at its place and could not serve
(`ErrorsOfHosts`). `OnlyConfiguredIsAsked` needs what the start has established
where it is (`Checked`, `Chosen`): the variables required are set, the source
is known, and there is an execution client exactly with the Keys API, and none
before its contracts have answered.

The assumptions are those the modules name: numbers are numbers, bounds are
positive where a list, a window, a step, a host or a slot must exist, and in
ForkWatch that `Ancestors` is what `Parent` makes it and slots grow along it.

Only model-checked:

* the properties of Decoding, which is recursive: an induction over the data.
* liveness (`StableHeadHandled`, `FileTaken`, `ComesUp`): it needs fairness and
  ENABLED, which TLAPS does not do.

## Not modelled

The fallback library and the middleware under the execution client (what a call
answers and that it may fail is in the modules that call), the provider
consistency check (never called, like `list_of_dataclasses`,
`has_contract_address_changed`, `get_config_spec` and `get_block_root`),
metrics, logging, the wording of alerts, ABI decoding, and deployment files but
for the restart and the probe.

## Plan

The order, most important behaviour first; done unless marked:

1. HeadLoop, HeadMonitor and their proofs: what "handled" means, with a bounded
   pool and restarts.
2. ExitRequests and BusRequests, with proofs: the caches behind "unexpected",
   event by event and with a reorganisation in the second.
3. ForkWatch and proofs: what was not handled is told.
4. OwnerAlerts, ElWithdrawals, Consolidations, with proofs: the handlers beside
   the updaters, attempt after attempt.
5. KeysApiSource, FileSource, HttpFallback, RangeRun, with proofs.
6. Decoding, Startup (with proofs), HealthCheck: the ends of the program.
7. ExitRequests event by event, with its proofs. To do: reorganisations in it,
   with the processed total; keys that become fewer (a lagging host, a key taken
   out of a file) in the handlers' modules.
8. What the list of sent alerts keeps (`OnlyOrphansPushOut`), proved for any
   bound of it, and the code's ten refuted (`NotSentAgain`).
