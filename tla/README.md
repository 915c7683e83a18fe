# cosmos-worker in TLA+

A verification project for the Cosmos worker of the Figment indexer (Go, in
`src/`). The worker takes tasks from managers over gRPC streams, fetches blocks
and transactions from a Cosmos node, converts them and sends them back. This
directory models the parts where its own logic lives, checks them with TLC and
proves the most important results with TLAPS.

## The system

| part | state | operations | talks to |
|---|---|---|---|
| **streams and runners** (`client/client.go` 74-137) | map of streams under `sLock`; 20 `Run` goroutines per stream | `RegisterStream`, `Run`, `CloseStream` | handlers, the manager's stream |
| **range tasks** (139-195, 358-410, 599-659) | one task: handler, `out`, `fin`, context | `GetTransactions`, `GetLatest`, `sendResp` | `getRange`, the stream |
| **latest range** (412-436) | none | `getLastHeightRange` | `GetLatest` |
| **getRange pipeline** (438-597) | `chIn`, `chOut`, `errored`, one response channel per height, 5 workers, `populateRange` | `getRange`, `populateRange`, `asyncBlockAndTx`, `blockAndTx` | `GetBlock`, `SearchTx`, `out`, the pools |
| **channel pools** (`client/pool.go`) | two buffered channels of channels | `Get`, `Put` | every `getRange` call |
| **account and block tasks** (197-356) | none | `GetBlock`, `GetReward`, `GetAccountBalance`, `GetAccountDelegations` | one node call, `sendResp` |
| **block cache, GetBlock** (`api/block_cache.go`, `api/block.go`) | map by height, queue of insertions | `Add`, `Get`, `GetBlock` | all workers, the node |
| **transaction search and mapping** (`api/transaction.go`, `api/mapper`, `api/util`) | page, converted transactions | `SearchTx`, `rawToTransaction`, `findLog`, mappers, `produceTransfers` | the node |
| **life cycle** (`cmd/worker-cosmos/main.go`) | two servers, exit and signal channels | start, stop | everything |

What is hard here: five workers and a producer per range over bounded channels,
with an error path that must stop all of them; a context that can end at any
moment while two goroutines hand data to each other; channels recycled between
tasks through pools; two goroutines writing to one stream; unsigned arithmetic
on heights; a cache shared by all workers; paging against a node whose index is
still growing. PROJECT.json lists these hazards line by line.

What makes each part correct: a range arrives in order, whole or up to its first
failure, and a call returns and leaves nothing behind (pipeline); a task is
answered, its responses are numbered without a gap, and END without an error
means everything was sent (tasks); a poll asks for a sane range and skips
nothing (latest range); map and queue of the cache agree (cache); pages join
and a transfer is credited to the message that made it (search); no call gets a
response, a channel or an end that belongs to another (pools); a stream's tasks
are answered while it lives and its runners end with it (streams); the process
stops whatever it is doing, with both its servers (life cycle).

## Modules

**HeightRange** - the range of a task, `cStructs.OutResp` and the two facts both
levels share: `populateRange` is a do-while, so the first height is fetched even
in an inverted range (`LastHeight`).

**OrderedRange** - the abstract promise of `getRange`, over the sequence put on
`out` and the way the call ended (`status`). `Emit` appends the only response,
or the Error, that may follow the last one; `Finish` needs the whole range;
`Fail` needs an Error at the end. `WholeInOrder` is what a caller can rely on,
said without the steps: no response repeated or out of place, nothing missing in
front of one, nothing missing at all after a return of nil, an Error only at the
end.

**RangePipeline** - one `getRange` call. One action per channel operation:
`PopulateOut/In/Last` and their `...Err` twins are the cases of the three
selects of `populateRange` (which case a select takes is free; the `break` that
leaves only the select is there); `WorkerRecv`, `WorkerFetch`, `WorkerSend`,
`WorkerExit` are `asyncBlockAndTx`; `RangeNext`, `InnerRecv`, `EmitOut`,
`RangeEnd`, `WaitWorkers`, `PurgeEntry`, `PurgeEnd` are `getRange`; `TakeOut`,
`SenderLeaves`, `CancelCtx` are what the task does around it. A response channel
has one writer and one reader and its contents follow from the height and the
outcome of the fetch, so it is two counters, `sent` and `read`. `errored` is a
counter of tokens and `errClosed` the deferred close. Which heights the node
fails to deliver is free within `MayFail`; with a context that is done every
fetch fails. Taking an Error from a height's channel and putting the token on
`errored` is one step: the channel has room for seven and only one is ever sent.

**RangeTask** - a task from its payload to its last response: handler and
`sendResp` as two processes over `out`, `fin`, the context and the stream.
`getRange` is its promise: `GetRange == INSTANCE OrderedRange`, bounded by the
capacity of `out`. `RangeSticks` is the `getRange` that never returns, as the
findings below show it can: the handler stays where it is and only the ten
minutes of `Run` (`Timeout`) end the context. `stream` is what was passed to
`Send`; an error of `Send` is only logged by the code and is not modelled, and
`Send` is taken to return. The panic of the zero end height is a state of its
own.

**LatestRange** - `getLastHeightRange` over integers modulo `W`, in a loop of
polls: the node may answer at any height between `MinLatest` and `MaxLatest`
(it may go back), and the manager goes on from the end of a range or, if the
range failed, from where it was. Node and manager are external.

**BlockCache** - callers of `GetBlock` between lookup, fetch and add. A block is
its height; `blocks` is the buffered channel. `Get` reads the map under the
height of its own empty result (`GetKey`), as the code does.

**TxMapping** - `rawToTransaction` as functions. A TypeUrl is its parts; the
three `add...SubEvent` switches are records of records, one row per mapper with
event type, module, the arguments it gives to `produceTransfers` and its way to
fail. Coin strings are sequences of runs of digits and of other characters,
which is what the regular expression of `GetCurrency` tells apart. Two rows say
what the code does and the list of supported types does not:
`MsgFundCommunityPool` with coins panics (`Numeric` is never allocated,
`mapper/distribution.go` 105) and `MsgSubmitEvidence` always fails (the Any is
decoded without unpacking, so `GetEvidence` is nil).

**SearchTx** - the paging loop, with the node's indexer as a second process
between pages.

**PooledRanges** - several `getRange` calls on shared `oRespPool` and
`oHBTxPool`. Channels are identities, named after the `Get` that makes them;
`nil` is one no send or receive succeeds on. `GotFrom` and `Drained` are the
`Get`s, `RespPut` and `HBTxPut` the `Put`s, with `close` on a full pool and the
panic of closing nil. A call has the goroutines of RangePipeline, but the
responses of a height and its Partial are one message, and `out` is always
received from: RangePipeline has these details, this module what several calls
do to each other. The goroutines a returned call leaves behind stay in the model
and go on with the channels they hold, whoever holds them now. A send on a
closed channel, chOut's or a response channel, ends the process (`crashed`). A
receive from a closed one has a case for chIn only: `PooledChannelsIdle` shows
that the others do not happen until a call has returned an error; after that the
model stops where the code would go on with the zero value of a closed channel.

**Streams** - the map of streams and the runners of each: `RegisterStream`,
`CloseStream`, and the three cases of the select of `Run` (`RunContextDone`,
`RunFinish`, `RunTake`; several may be ready, any is taken). The account tasks
are modelled step by step: decoding, each node call of `api/reward.go`,
`api/account_balance.go` and `api/delegations.go`, and `sendResp` with its
choice between `ctx.Done` and the response. A range task is a step that returns
or never does. `Send` is a step that returns: what a transport that blocks or
fails would do is left out. What the transport does (`Ask`, `EndContext`, `CloseFinish`) is
external.

**Lifecycle** - `main` from its start to its return, `runGRPC`, `runHTTP` and
the exit channel. A signal is received or not: `osSig` has no buffer.

**Worker** - Streams and Lifecycle together: streams are registered while the
gRPC server serves, `grpcServer.Stop` ends their contexts, and nothing runs
after `main` has returned. The panic of the zero end height, which would end the
process too, is in RangeTask only.

**OrderedRangeProofs, RangePipelineProofs, RangeTaskProofs, LatestRangeProofs,
BlockCacheProofs, SearchTxProofs, PooledRangesProofs, WorkerProofs** - theorems.
**MCRangePipeline, MCRangeTask, MCBlockCache, MCSearchTx, MCPooledRanges,
MCWorker** - values for TLC.

Definitions marked *Mutant* are bugs someone could have written: each replaces
one definition of the model and must break the property it is listed with in
PROJECT.json. No specification uses them.

## Runs

| run | instance | shows |
|---|---|---|
| `range` | 5 heights of which any may fail, 2 workers, chIn, chOut and response channels of 3, out of 2, cancellation | order, a whole range, first failure ends it, the inductive invariant, idle handed-back channels, never everyone waiting, return and end of all goroutines where they can be expected (below) |
| `range_stuck` | 6 heights, chOut of 2, height 2 fails | **violated**: `getRange` never returns |
| `range_context` | 4 heights, none fails, chIn, chOut and response channels that hold the whole range, out of 2, cancellation | **violated**: `getRange` blocks on `out` after `sendResp` left |
| `task` | 3 heights, out of 2, all requests to both handlers, cancellation | numbering, END means every block and every transaction was sent, handler and `sendResp` never both wait, every task answered unless its handler panics, also when `getRange` never returns; `sendResp` ends, and the handler unless it is stuck in `getRange` |
| `latest_range` | width 16, `MaxHeights` 3, chain of 1 to 12 | sane ranges, no gap |
| `cache` | 2 callers, 3 heights, capacity 2 | coherence, eviction order, the right block |
| `cache_lookup` | the same | **violated**: a cached height is fetched again |
| `search` | pages of 2, blocks of up to 5 transactions, every message type | pages join, events made from the log of their own message, transfers true, search ends |
| `pools` | 2 calls of 2 and 1 heights, 2 workers each, hBTx channels of 2, pools of 1 | until a call has returned an error every call delivers its own range, whole if it returns without an error, and pooled channels are idle; without failures nothing panics, no call is stuck, and all calls return |
| `pools_nil` | 2 calls of one height, pools of 2 | **violated**: a clean call gets the nil channel a failed one has pooled and never returns |
| `pools_lost` | 3 calls of one height, 1 worker, hBTx channels and pools of 1 | **violated**: a call takes the end marker of another for its own and returns without its range, a third delivers the response of the second |
| `worker` | 1 stream, 2 runners, 4 tasks (an unknown type, a range, a reward over 1 validator, a range), the process stopping at any moment | whole answers, no task and no runner lost, service while a runner is left and `Send` returns, end of runners, end of the process |

Bounds. Capacities are as small as keeps every case: a full channel, a
non-empty one and an empty one, a range longer than the channels and one that
fits, more workers than heights left and fewer. The code's 5 workers, 10, 201
and 1000 entries differ in number only; for the safety results the proofs
remove the bound. In `range` the call is expected to return only
`[](sender /\ RestFits)`: `sendResp` stays, and once an Error was met what
`populateRange` has yet to send fits in chOut, and the responses of every height
in its channel. Without the first the call hangs as in `range_context`, without
the second as in `range_stuck` (in the code: a failure ten or more heights
before the end, or a block with more than 998 transactions that is no longer
read). In `range_context` only `out` can be full, so that the run shows this way
to hang and no other: with an `out` that holds the range the property holds.
Pools of one entry make `Put` on a full pool, `Get` from an empty one and
recycling all happen with two calls. Two calls are not enough for what follows a
failed one: the call that gets its chOut may be cut short, and only a third can
receive what the second leaves behind, so `pools_lost` has three. It has one
worker and one height per call, which stands for a range in which every worker
meets an error: as many failing fetches as workers. That more calls change
nothing before the first error is what `DeliversOwn` and `IdleInPool` prove. Two runners and two ranges that may block
cover a stream with and without a runner left; streams share only the map and
`Stop`, so `worker` has one. Heights do not
wrap: an `EndHeight` of 2^64-1, for which `populateRange` never ends, is
outside the model.

`CHECK_DEADLOCK FALSE` where a call, a task or a search ends; that none of them
stops early is what `ReturnsIfRestFits`, `GoroutinesExit`, `TaskEnds`, `TaskAnswered`, `AllReturn`,
`Served`, `RunnersEnd`, `Stops` and `SearchEnds` say, and for calls and tasks
also the invariants `PipelineNotStuck`, `TaskNotStuck` and `CallsNotStuck`, which
can be proved: as long as it is not over, one of its goroutines can take a step.
Their `...CanGo` operators spell out what the guards of a goroutine's actions
come to; that each implies ENABLED of its goroutine was checked with TLC. `cache` and `latest_range` never stop and are checked for
deadlock.

Fairness. Weak fairness per goroutine (`Populate`, each `Worker(w)`,
`GetRange`, `TakeOut`; `Handler`, `SendResp`; `Search`; in Worker each runner
and `main`): the Go scheduler runs what can run, and node calls end by
`TimeoutBlockCall`, `TimeoutSearchTxCall` or the twenty seconds of the account
tasks. In RangeTask also the timer of `Run` (`Timeout`), and nothing about
`getRange`: `RangeSticks` is one of the handler's steps. A runner whose
`getRange` sticks is not free again. `Send` returning is assumed of the transport
in RangeTask and Worker; `TaskEnds`, `TaskAnswered` and `Served` depend on it.
None on the choice a `select` makes, on the context, nor
on a fetch succeeding; none on managers, the rest of the transport, signals, the end of a
server or of an HTTP request.

## Findings

Each violated run states what a comment, a document or the code's own error
message says; PROJECT.json quotes it. `range_stuck`, `range_context` and
`pools_nil` are ways a range call is lost, and with it one of the twenty runners
of its stream; `pools_lost` is a range that is reported complete and is not, and a response
that reaches a task which did not ask for it;
`cache_lookup` makes the cache useless.

Four more facts of the code are in the models, kept out of the properties'
way and so caught by none of them (their hazards in PROJECT.json say so):

* `GetTransactions` with `EndHeight` 0 calls `err.Error()` on a nil error
  (`client.go` 159) and panics: `TaskAnswered` speaks of tasks without a panic.
* On a chain shorter than `maximumHeightsToGet` the first poll subtracts below
  zero (`client.go` 416) and asks for a start height near 2^64: `RangeSane`
  speaks of ranges that end above `MaxHeights`.
* `SearchTx` pages up to the total of the node's last answer
  (`transaction.go` 75). What the node indexes of the block after that is not
  asked for: `NothingLeftBehind` speaks of what was indexed when the last page
  was answered.
* The foreign producer of `pools_lost` may instead meet its channel closed by
  `Put` on a full pool, and the purge may put the nil channel into a full pool:
  both panic (`crashed` in PooledRanges).

## Proofs

All for every value of the constants, under the ASSUME of the module.

* **OrderedRangeProofs** - `DeliversRange`: `WholeInOrder` for every behaviour of
  the abstract specification. `RangeInv` adds to it that each response which is
  no Error is the one of its height and place in the block; then an `Emit` puts
  the next one behind the last and leaves nothing out. It is the one argument
  both users of the promise share, through an INSTANCE; its hypothesis `RangeOK`
  follows from the assumptions of both.
* **RangePipelineProofs** - `Invariance` proves `[]IInv`. None of the properties
  is inductive alone: that `out` is in order needs chOut to be consecutive
  (`ChOutConsecutive`: until an Error is met it holds exactly the heights from
  the current one to the one `populateRange` stands at), that a response read
  belongs to the height needs each height to be fetched once
  (`HeightsFetchedOnce`: chIn ascending, busy workers distinct and below it,
  nothing ahead fetched), and both need the counters of the response channels
  (`ResponsesCounted`) and the position of `out` for every place in `getRange`
  (`OutPosition`). One lemma per action shows each part preserved.
  `TypeCorrect` and `HandedBackIdle` follow; `Refinement` proves that `Spec`
  implements `OrderedRange`, step by step: `EmitOut` is `Emit`, `RangeEnd` is
  `Finish`, `PurgeEnd` is `Fail`, everything else stutters. `DeliversWhole` is
  then `DeliversRange` of the instance. `PipelineNeverStuck` is the safety core
  of `ReturnsIfRestFits` and `GoroutinesExit`: goroutines that wait in a circle
  are excluded for every number of workers and every capacity. It needs
  `ProgressInv`: until an Error is met no height is lost between chIn, the
  workers and its answer (`NoHeightLost`); a worker has ended for a reason
  (`ExitsExplained`: chIn is closed and empty, or it failed at a height below
  all that wait, which getRange meets first); and behind an Error chOut holds no
  more than `RestFits` allows (`FailedBehind`).
* **RangeTaskProofs** - `TaskInvariance`, from which `TaskTypeCorrect` and
  `ConsecutiveOrders` follow. `OrdersConsecutive` needs that
  `sendResp` counts exactly what it takes from `out` and that END is its last
  send (`RelayInv`); `EndMeansComplete` needs the order in which the handler acts
  (`HandlerInv`): out is closed only after a complete range or an error that has
  been sent, and `sendResp` is cancelled by the handler only when it is through.
  With `EndCounted`, END comes after as many responses as `out` holds.
  `RangeBehind` shows that a task drives `out` and `status` exactly as
  `OrderedRange` allows, so that `WholeInOrder` holds of them (`RangeWhole`);
  `CompleteAtEnd` joins the two: END without an error means that every block of
  the range and every transaction of it is on the stream. That rests on the promise, which
  `pools_lost` shows broken once another call has returned an error, and on
  `SearchTx` having returned all transactions of a block. `TaskNeverStuck` is
  the safety core of `TaskEnds`, with the same exception of a handler stuck in
  `getRange`; it needs which places of handler and `sendResp`
  go together (`PairInv`), so that whoever waits on `out` or on `fin` has a
  partner still to come.
* **LatestRangeProofs** - `LatestTypeCorrect`, `SaneRanges` and
  `NoHeightSkipped`, for every width `W`.
* **BlockCacheProofs** - `Coherence`: agreement of map and queue; the type part
  (`CacheTypeCorrect`) is needed so that the block added is one of the chain.
  `EvictsOldest` is an action property: it follows from coherence, because a
  block that leaves the map is the head of the queue. `AnswersRightBlock` needs
  that what a caller has found or fetched is the height it wants, which no step
  of another caller can change.
* **SearchTxProofs** - `SearchInvariance`, with `SearchTypeCorrect`, `JoinedPages`
  and the action property `NoneLeftBehind`. Inductive with `AtPage`: when a page
  is asked for, all pages before it are complete, so the offset is where the
  result ends. How a transaction is converted is not expanded: the pages join
  whatever the conversion does. `OwnEvents` expands it: a transaction handed back
  has one event per message, of the kind and module its mapper gives, with
  transfers made from a log whose index is the message's, or from none, and an
  error event behind them if the transaction failed. It rests on what `findLog`
  returns (the log at the position of the message if the index fits, else the
  first with that index) and uses `produceTransfers` as a whole.
* **PooledRangesProofs** - `PooledInvariance`, with `PoolTypeCorrect`,
  `DeliversOwn` and `IdleInPool`. The invariant has two halves. Types and the
  places that goroutines of one call can be in together (`PhaseOK`) hold always.
  The other half holds until a call has returned an error (`SomeFailed`), and
  says who owns each channel. An hBTx channel has at most one user among the
  chIn and chOut of all calls and the entries of the pool (`OneUser`). What lies
  in the two channels of a call is its own, in order and complete (`QueuesOK`).
  A response channel is claimed for one height of one call, by getRange, which
  will read it (held by populateRange, in chOut, or current), and by the worker
  that will write it (held, in chIn, or its job); while a writer has a claim it is empty,
  and the one message it may hold is that of the claim (`OneClaim`,
  `ClaimedOK`); a pooled channel has no claim (`PooledOK`) and one that was
  never made is empty (`FreshOK`). Most steps only drop claims; the others take
  a channel from a pool, which makes a claim where there was none, or end the
  last claim on a channel (`Freed`). This is the exact place where the code's
  argument ends: `Return` after an error gives up chOut while `populateRange`
  still uses it, so `OneUser` cannot be kept, and `pools_lost` shows what comes
  of it. `CallsNeverStuck`, the safety core of `AllReturn`, adds `FlowInv` for
  behaviours without a failing fetch: no Error in a channel, no nil in a pool and
  no panic (`NoErrors`); no nil channel in use, and workers that end only behind
  a closed and empty chIn (`Flowing`, `InClosed`); and for every response getRange
  is still to read, a message in the channel or a worker that will write it
  (`Backed`). That a step of one call leaves the channels of the
  others alone is what the ownership half gives.
* **WorkerProofs** - `WorkerInvariance` for Streams and Lifecycle together, with
  `WorkerTypeCorrect`, `WholeAnswers`, `TasksKept` and `NoServerLeft`. `AnswersWhole` needs
  that at most one runner has a task (`OneRunner`), that a task nobody took has
  no answer (`Untouched`), and what has been sent at each place of a handler
  (`RunnersOK`). `TasksKept`, the safety core of `Served`, is part of the same
  invariant: a runner lets go of a task only behind its Final response, and
  ends only with its stream. `BothStopped` needs that what is on the exit channel is true and
  there once, and what main knows at each place of its loop (`LifeInv`).

Assumptions. Besides types the constants need: at least one worker
(`PipelineAssumption`, `PoolAssumption`; the code starts five), channels of
positive capacity, and in SearchTx that blocks are sequences of transactions
with sequences of messages and logs. Each ASSUME is evaluated by TLC in the runs
of its module.

Each inductive invariant was checked with TLC on the instance of its run before
it was proved.

Only model-checked: liveness (`ReturnsIfRestFits`, `GoroutinesExit`,
`TaskAnswered`, `TaskEnds`, `SearchEnds`, `AllReturn`, `Served`, `RunnersEnd`,
`Stops`), which rests on fairness and is out of the prover's reach, beyond the
safety cores above; and `TransfersTrue`, which is about what folds over the
attributes of a log compute and would need induction over data. With `OwnEvents`
proved, what is left of it is `produceTransfers` on the log of one message.

## Not modelled

The handler `GetBlock` of `client/client.go`, for which `Run` has no case, the
pings to managers, and the HTTP handlers for health, metrics and profiles.
Configuration, logging, metrics, profiling and the wire types keep no
state the properties depend on; the converter plugin is a placeholder that no
longer matches the API client. `GetBlockAsync` and `GetBlocksMeta` are never called.
The contents of a SubsetEvent that are copied field by field are left out, and
so are the fee of a transaction and the way `rawToTransaction` fails when a
decoded transaction cannot be marshalled again (`transaction.go` 103). A
transaction without a body is one without messages.

## What is left

Every invariant and action property of the runs is proved for all constants,
`TransfersTrue` excepted, and the liveness properties rest on TLC. A next step
would be to let PooledRanges implement several `OrderedRange`s at once, which
holds until a call has returned an error, and so to put the pools under
RangeTask; and to state lemmas about queues once that several proof modules now
state for themselves. When the errors of `range_stuck`, `pools_nil` or
`pools_lost` are repaired in the code, `RestFits` and the condition `SomeFailed`
are the places where the models and the proofs become stronger.
