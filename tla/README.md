# A formal model of Sixchange

Sixchange is a simulated exchange: text commands come in on standard input, a
gateway turns them into engine commands, a matching engine applies them to one
order book with price-time priority, and its events become replies. This
directory models that program in TLA+, checks the models with TLC on small
instances, and proves the properties that matter most with TLAPS for every
value of the constants. Paths below are relative to the repository
(`src/engine/...` is `src/src/engine/...` in `PROJECT.json`).

Run everything from this directory:

    tlc -workers 2 -config OrderBook_invariants.cfg MCOrderBook.tla
    tlc -workers 2 -config OrderBook_refinement.cfg MCOrderBook.tla
    tlc -workers 2 -config OrderBook_liveness.cfg   MCOrderBook.tla
    tlc -workers 2 -config MatchingEngine.cfg       MCMatchingEngine.tla
    tlc -workers 2 -config Exchange.cfg             MCExchange.tla
    tlc -workers 2 -config PriceLevel.cfg           MCPriceLevel.tla
    tlc -workers 2 -config FixedOrderMap.cfg        MCFixedOrderMap.tla
    tlc -workers 2 -config TextCodec.cfg            MCTextCodec.tla
    tlc -workers 2 -config SpscRing.cfg             SpscRing.tla
    tlc -workers 2 -config AsyncFileLogger_safety.cfg   MCAsyncFileLogger.tla
    tlc -workers 2 -config EndlessLogger.cfg        MCEndlessLogger.tla
    tlapm OrderBook_proofs.tla
    tlapm MatchingEngine_proofs.tla
    tlapm Exchange_proofs.tla
    tlapm PriceLevel_proofs.tla
    tlapm FixedOrderMap_proofs.tla
    tlapm SpscRing_proofs.tla
    tlapm AsyncFileLogger_proofs.tla
    tlapm TextCodec_proofs.tla

## The system

| Component | State it keeps | Operations | Talks to |
|---|---|---|---|
| Order book (`engine/OrderBook.cpp`) | pool, id map, price levels of both sides, cached best prices, counts of active orders, execution count | `admit`, `execute` (match loop, then rest or release), `cancel` | calls the match sink in the middle of an execution |
| Order pool (`engine/OrderPool.h`) | an array of orders, a free list through `Order::next`, a high-water mark | `allocate`, `release` | owned by the book |
| Price level (`engine/PriceLevel.h`) | head and tail of an intrusive list, total quantity | `push_back`, `remove`, `front` | owned by the book |
| Lookup map (`engine/FixedOrderMap.h`) | an open-addressing table of fixed size | `insert`, `find`, `erase` (backward shift) | owned by the book |
| Matching engine (`engine/MatchingEngine.cpp`) | next order id, next trade id | `process`, `on_match` | calls the book, emits engine events synchronously |
| Sequencer (`engine/Sequencer.cpp`) | one counter of the process | `next` | called by the gateway |
| Order gateway (`gateway/OrderGateway.cpp`) | client order id to engine id, never shrinking | `handle`, `on_engine_event` | calls the engine, and is called back by it inside that call |
| Event dispatcher (`core/EngineEventDispatcher.h`) | at most eight sinks | `add_sink`, `on_engine_event` | engine to gateway |
| Text codec (`protocol/TextCodec.cpp`) | none | `decode`, `encode` | called by the program's loop |
| Log ring and file logger (`logging/SpscRing.h`, `logging/AsyncFileLogger.cpp`) | two atomic indices and the slots, a count of drops, the file | `try_push`, `try_pop`; `enqueue_record`, `run`, the destructor | the only two threads of the program meet here |
| Command line (`apps/sixchange_cli.cpp`) | none | read, decode, handle, reply | all of the above |

Everything but the logger's worker runs on one thread: a command is handled to
its end before the next line is read. What is hard there is not interleaving
but long sequences of legal calls over state kept twice: a pool and a map that
have to agree, caches (best price, counts, totals) that have to follow the
levels, a queue whose middle can be cut out, an execution that changes two
orders and may remove one of them while it runs, and callbacks made half way.
The logger adds two threads, a lock-free ring whose indices wrap, and a
shutdown. `PROJECT.json` lists these hazards at their lines.

What makes each component correct:

- order book: pool and map agree; levels hold exactly the resting orders, in
  order of arrival; the caches are exact; the book is never crossed; every
  execution is the one price-time priority asks for; `execute` returns;
- pool, level and map: each is the set, the queue or the partial function that
  the book takes it for, and the free list and the list links never overlap;
- engine: order ids are consumed only by accepted orders and never used twice,
  trade ids have no gaps, events come in an order from which a listener can
  rebuild the book, quantities are conserved;
- gateway: one reply to each request, no reply names another client order, a
  client order id is accepted at most once, the consistency check that
  terminates the process is never reached;
- codec: decoding accepts exactly the grammar, with the reason of the first
  field that is wrong, numbers at their width;
- logger: the ring is a bounded FIFO although both sides use stale indices;
  every record is written or counted as dropped, drops are reported once, and
  the destructor comes to its end with everything accepted on file.

## Modules

How they hang together (`A -> B`: A extends B; `A => B`: A implements B):

    Exchange -> MatchingEngine -> OrderBook        the program, layer by layer
    Exchange => Session     MatchingEngine => EventStream
    OrderBook => PriceTimePriority
    PriceLevel => OrderQueues                      what OrderBook takes pool and levels for
    FixedOrderMap => LookupMap                     what OrderBook takes orders_by_id_ for
    TextCodec                                      what Exchange takes decoding for
    AsyncFileLogger -> SpscRing => BoundedFifo     the two threads of the log
    EndlessLogger -> AsyncFileLogger               the same in a program that never stops logging

### PriceTimePriority: what the book promises

The abstract specification: the book is a set of orders, an incoming order
trades with the one order that has priority over all others it can trade with,
what is left of it joins the book when nothing can trade with it. It has no
levels, caches, map or pool. It says when a command may be refused: for want of
room only when as many orders rest as the book has room for, as unknown only if
no such order rests, as somebody else's only if it is.

### OrderBook: what the code does

| TLA+ | Code |
|---|---|
| `orders`, `free` | `OrderPool orders_`: contents of the slots, and which may be allocated |
| `orders_by_id` | `FixedOrderMap`, as a function to a slot or `NoSlot` |
| `levels[side][p]`, `totals[side][p]` | `bids_[p]`, `asks_[p]`: the linked list as a sequence, and `total_quantity` |
| `best`, `active_orders` | `best_bid_`, `best_ask_`, `active_bid_orders_`, `active_ask_orders_` |
| `execution_count` | `execution_count_` |
| `aggressor` | the order between `admit` and the return of `execute` |
| `arrivals`, `seq` | sequence numbers, renumbered by arrival |
| `output` | the result of the call, or the `MatchExecution` given to the sink |
| `Admit`, `RejectNew` | `admit`: every check in its order, the roll-back when the map refuses |
| `FillPartially`, `FillCompletely` | one iteration of the loop of `match_buy` or `match_sell`, with the removal of a filled order |
| `Rest`, `FinishFilled` | the two endings of `execute` |
| `Cancel`, `RejectCancel` | `cancel` |
| `BestAfterRemoval` | the scans `update_best_bid_after_removal` and `update_best_ask_after_removal` |

`bids` and `asks` are mirror images in the code, and one definition over a side
here; `Better`, `Opposite` and the scan say where they differ. An iteration is
one action: it is the smallest part of `execute` after which anybody else could
look at the book, and taking iterations one at a time is what lets the
invariants be checked in the middle of a sweep. `admit` and `execute` are
separate, as in the code, and nothing else happens between them: the book's
only caller does the second right after the first (`MatchingEngine.cpp:88` and
`:122`), and so `aggressor` is part of every guard. The branch of `cancel` that
reports a failed erase (`OrderBook.cpp:219`) is not there, since the id was
found a few lines above; the assertions of the code are the invariants below.

Quantities are numbers below `QuantityLimit`, which stands for 2^64. Only the
cached total of a level can exceed it, and is computed modulo the limit.

### MatchingEngine: the engine around its book

`MatchingEngine` extends `OrderBook`: each of its actions is an action of the
book together with what the engine does around the call, and the three
variables it adds are `next_order_id_`, `next_trade_id_` and the event emitted
last.

| TLA+ | Code (`MatchingEngine.cpp`) |
|---|---|
| `RefuseUnsupported`, `AcceptNewOrder`, `RefuseNewOrder` | `process_new_order` up to the call of `execute`: the order type, the time in force, the call of `admit`, the id, `OrderAccepted` |
| `OnMatch` | `on_match`, inside an iteration of the match loop |
| `ReportRested`, `ReportNothing` | the end of `process_new_order` |
| `CancelOrder`, `RefuseCancelOrder` | `process_cancel_order` |
| `RefuseReplaceOrder` | `process` for a command that is not implemented |

`EventStream` is its abstract specification, written from the side of a
listener that sees the events and nothing else: it knows the orders of the
market by id, applies each event as it comes, and can rely on ids and trade ids
being consecutive, on trades being between orders whose prices meet, at the
resting order's price and for as much as both want, on the remainders the event
states being right, and on an order coming to rest only when it meets no other.
The mapping computes what the listener knows from the pool and the lookup map.
A filled order is forgotten at the trade that fills it, one step before the
book releases its slot.

### Exchange: the program

`Exchange` extends `MatchingEngine` with the gateway: `client_orders_`, whether
`std::terminate` was called, and the replies to the last line. The engine's
events reach the gateway inside the call that caused them, so an action
conjoins the engine's step with `OnEngineEvent`, which reads the event the step
emits. The event dispatcher has the one sink the program registers.

| TLA+ | Code |
|---|---|
| `NewOrderRequest`, `CancelOrderRequest`, `DecodeErrors` | what `TextCodec::decode` can return |
| `RejectLine` | the branch of `main` for a line that cannot be decoded |
| `HandleNewOrder`, `HandleCancelOrder` | the handlers of `OrderGateway.cpp`, with their checks in order, then `engine_.process` |
| `OnEngineEvent`, `RepliesTo`, `MappingAfter` | `OrderGateway::on_engine_event` |
| `ContinueNewOrder` | the rest of `process_new_order`, event by event |

All orders have the one `client_id` of the gateway, and so the owner of an order
is its client order id. `Session` is the abstract specification, what the
client may rely on: one reply to each line, client order ids good for one
order each, engine ids consecutive, a cancel refused as unknown only if the
order is not open, never for the owner or for an error of the engine; and an
order of which the client is told nothing when it trades.

### PriceLevel: the pool and the levels, link by link

`OrderBook` keeps a set of free slots and a sequence of slots per level. In the
code both are lists through the orders themselves, and through the same two
fields: `next` threads the free list while an order is unused, `next` and `prev`
the list of its level while it rests.

| TLA+ | Code |
|---|---|
| `links`, `free_head`, `size` | `prev` and `next` of each `Order`; `free_head_`, `size_` of `OrderPool.h` |
| `ends` | `head` and `tail` of each `PriceLevel` |
| `pending` | the order between `admit` and the end of `execute` |
| `Allocate`, `PoolExhausted`, `Release` | `allocate`, `release` |
| `PushBack`, `Removed`, `EndsWithout` | `push_back`, `remove` |
| `Place`, `Refuse`, `Discard`, `Rest`, `FillFront`, `Cancel` | the calls the book makes with one order, from `admit`, `rest`, the match loop and `cancel` |

An action is everything the book does with one order in one go, so that a removal
and the release after it are one step, as in `OrderBook`. Prices are left out:
an order may join or fill any level, which is more than the book ever does.
`OrderQueues` is the abstract specification, in the form `OrderBook` keeps its
orders: `free` a set, a sequence per level, allocation refused exactly when no
slot is free. A slot is free in it if it is in the free list or was never used.

### FixedOrderMap: the lookup map, bucket by bucket

| TLA+ | Code (`FixedOrderMap.h`) |
|---|---|
| `entries`, `size` | `entries_`, `size_` |
| `home` | `bucket`, the hash: any function from keys to buckets |
| `Insert`, `Find` | `insert`, `find` and `contains` |
| `EraseMissing`, `EraseBegins`, `Examine`, `EraseReturns` | `erase`: not found; the key taken out; one turn of the loop; the end of the loop |
| `erasing`, `hole`, `scan`, `examined` | the local variables of that loop |

A hash function is drawn in the initial state among all there are and stays, so
that every pattern of collisions is covered whatever the code's mixing of bits
does. The probing loops of `insert` and `find_index` change nothing until they
end: they are the first probe that ends them. `Masked` is the masking of an
index that is at most once round. `LookupMap` is the abstract specification, and
what `OrderBook` assumes: an insert is refused as full only if `Capacity` keys
are held, never for the way they collide.

### TextCodec: decoding a line

A line is a sequence of blanks (a space or tab each) and words; a word is a
number, a number with something behind it, or a text, and a text is a value.
`line` also says whether a carriage return ends it. `cursor` is `remaining_` of
the `TokenCursor`, `kind` the message type once it is read, `fields` the values
parsed so far, `result` what `decode` returns. `ReadType`, `ReadField` and
`Finish` are the successive calls of `tokens.next()` and `tokens.empty()` with
the test after each; the two decode functions differ in their list of fields
and in which refusals carry the client order id (`RejectedId`).

The properties say what a line means without a cursor, on the sequence of its
words (`WordsAmong`: the words among the first tokens of a text, by their
number). `Exchange` has the results as `NewOrderRequest`, `CancelOrderRequest`
and `DecodeErrors`; that a refused new order has no id and a refused cancel may
have one is what `RefusalsTraceable` shows of the codec.

### SpscRing: the ring between the two threads

| TLA+ | Code (`SpscRing.h`) |
|---|---|
| `storage`, `head`, `tail` | `storage_`, `head_`, `tail_` |
| `seen_tail`, `seen_head` | what the acquire loads of lines 27 and 42 can return |
| `PushRefused`, `PushBegins`, `PushCopies`, `PushPublishes` | `try_push`: the check, the assignment, the release store |
| `PopFindsNothing`, `PopBegins`, `PopCopies`, `PopReleases` | `try_pop` |
| `TailArrives`, `HeadArrives` | a store becomes visible to the other thread |

A thread's own index is read relaxed and is exact, since nobody else stores it.
A load of the other's index may return an old value, so each thread has a view
that lags behind the index and only moves forward. Release and acquire order the
cells with the indices: a thread that has seen an index has seen the cells, and
so the cells are plain memory. What remains to be shown is that the copies
themselves never meet, because the assignment of a record is not atomic:
`NoSharedCell`. Indices count modulo `IndexLimit`, which stands for 2^64.

`BoundedFifo` is the abstract specification: a queue of `Capacity` places whose
two users learn of each other's steps late. The mapping counts as queued
everything from the first cell not yet copied out to the last one published.

### AsyncFileLogger: the worker and the thread that logs

Extends `SpscRing`; each step of the two threads that touches the ring is a step
of the ring conjoined with what the logger does at that point.

| TLA+ | Code (`AsyncFileLogger.cpp`) |
|---|---|
| `LogFiltered`, `LogStarts`, `LogRefused`, `CopyRecord`, `PublishRecord`, `CountDropped` | `Logger::enqueue` and `enqueue_record` |
| `RequestStop`, `Join` | the destructor |
| `Terminate` | the process ended by `std::terminate` between two statements, as at `OrderGateway.cpp:171` |
| `TestStop`, `TestEmpty` | the two tests of the loop condition, in their order |
| `StartPop`, `CopyOut`, `WriteRecord`, `FindNothing`, `BatchEnds` | the batch |
| `Exchange`, `FlushIfDue`, `LastExchange`, `LastFlush` | the report of drops, the flush once a second, the end of `run` |
| `written`, `reported`, `flushed` | the output stream, and how much of it is on disk |
| `StopArrives`, `SecondPasses` | the stop state becomes visible; the clock |

The stream may write through at any write, and is sure to at a flush. Seeing the
stop request is seeing what was done before it, so `TestStop` brings the
worker's view of the head up to date; it need not be otherwise. The counter of
drops is relaxed: its increments and exchanges are still single steps, and the
last exchange comes after the stop request has been seen. `accepted`, `refused`
and `calls` are history. The worker's nap changes nothing and is part of
`FlushIfDue`. Records carry a level and a number; formatting is left out. The
numbers repeat after `Distinct` statements.

`Exchange` shows that the program never gets to its one call of
`std::terminate`. `Terminate` is modelled all the same: what is said of the file
of this logger holds wherever its process ends.

### EndlessLogger: the logger of a program that never stops logging

That every accepted record reaches the disk must not rest on the program running
out of things to log. Here the two threads are those of `AsyncFileLogger`,
action by action, and `MaxCalls` bounds no more than the history that is kept.
When that is full, `Forget` leaves out of it what the threads have done with:
the records written, the drops reported, and the exact value of a counter of
drops of which the code asks only whether it is zero. Then the main thread logs
on, for ever if it likes. `Watch` singles out an accepted record, any one, and
`Forget` keeps that one until it is on the disk. Both are means of the
specification and model no code.

### Properties of MatchingEngine and Exchange

- `IdsConsecutive`: ids follow the count of accepted orders and of executions,
  so that refusals consume none.
- `OrderIdsFresh`: the next id is above every id in the book, and no order is
  refused by the lookup map for its id.
- `LevelsInIdOrder`: the queue of a level is in order of the ids, so that a
  listener can tell time priority from ids.
- `ImplementsEventStream`: the refinement above.
- `GatewayNeverTerminates`: the gateway's consistency check never fires.
- `ClientsReachTheirOrders`: the client order id of every order in the book is
  mapped to that order.
- `ImplementsSession`: the refinement above.

### Properties of OrderBook

- `TypeOK`: the types.
- `PoolAndMapAgree`: a slot is free exactly when it holds no order, the map
  finds each order at its slot and nothing else. No leak, no double release, no
  dangling id.
- `LevelsHoldRestingOrders`: levels hold exactly the resting orders, each under
  its own side and price and with something left.
- `ArrivalOrder`: each level is in order of arrival, whatever left its middle.
- `BestPricesCurrent`, `CountsExact`: the caches are those of the levels at
  every point of a match.
- `BookNotCrossed`: no bid at or above an ask, also while an order sweeps.
- `ExecutionsUseUpOrders`: executions plus orders that still want something
  never exceed the orders admitted.
- `TotalsModuloWidth`: the cached total of a level is the sum of its orders'
  quantities, counted unit by unit (`LevelUnits`), modulo the width of the
  counter. The sum itself may be larger:
  nothing in the code prevents two orders of nearly 2^64 at one price, and the
  total is then wrong until enough of them has left.
- `ImplementsPriceTimePriority`: the book implements PriceTimePriority, under
  the mapping that sends a slot to its order and forgets everything else.
- `ExecuteTerminates`: an admitted order is filled or comes to rest.

### Properties of PriceLevel, FixedOrderMap and TextCodec

- `LevelsReadBothWays`: a level read from its tail by `prev` is the level read
  from its head by `next`, reversed: no removal leaves a link behind.
- `EveryOrderInOnePlace`: the free list, the levels and the book's hands hold
  every order ever handed out exactly once.
- `ImplementsOrderQueues`, `ImplementsLookupMap`: the refinements above.
- `ProbePathsUnbroken`: between calls, every bucket from a key's home to its
  place is occupied, so that a search does not stop short of it.
- `KeysOnce`: no key in two buckets, also while an erase moves entries.
- `DecodesTheProtocol`: a line becomes a request exactly if it is one, with the
  value of each word in its own field, whatever the spacing; the carriage
  return counts for the length.
- `FirstFaultNamed`: a bad price or quantity is named exactly if it is the first
  fault of the line.
- `RefusalsTraceable`: a refusal carries a client order id exactly if it is that
  of a cancel which names it.

The types of the map (`TypeOK`) bound its counter by the table, those of the
level tie indices to the pool; both are refuted by plausible slips in the code.

### Properties of SpscRing and AsyncFileLogger

- `IndicesInOrder`: round the ring come what the producer knows of the tail, the
  tail, what the consumer knows of the head, the head, all within `Capacity`;
  what a thread found at its check still holds when it acts on it.
- `NoSharedCell`: the two copies never meet in a cell.
- `ImplementsBoundedFifo`: the refinement above.
- `RecordsInOrder`: the file, the record in the worker's hands and the ring are,
  one after the other, the accepted records. So wherever the process dies, the
  file holds an initial part of the log, nothing twice.
- `DropsCountedOnce`: refused records are reported, counted or about to be
  counted, each in one of these.
- `NothingLeftBehind`: after the destructor everything accepted and every drop
  is in the file and on the disk.
- `DestructorReturns`: a destructor that has begun ends.
- `RecordsReachTheDisk`: while the process lives each accepted record gets to the
  disk, even if the program never stops logging, never ends, and never lets the
  worker find the ring empty. A worker that did not end its batch at the limit
  would write for ever and never come to a flush.

The types of the ring are part of those of the logger (`LoggerTypeOK`), whose
worker has a limit to exceed.

What is *not* promised: a critical record logged right before `std::terminate`
(`OrderGateway.cpp:166`) may be lost, like all that the worker has not written.
`RecordsInOrder` holds of what is left. `GatewayNeverTerminates` says the
program never gets there.

## Runs

| Run | Bounds | Shows |
|---|---|---|
| `book_invariants` | 3 slots, 3 ids, 3 prices, quantities 0, 1, 3 below a limit of 4, 4 admissions | the nine invariants, in every reachable state |
| `book_refinement` | the same with 2 owners and 3 admissions | every step and everything it reports is allowed by price-time priority |
| `engine` | 3 slots, 2 owners, 3 prices, quantities 0, 1, 3, 3 admissions, every order type and time in force | ids, and what a listener of the events can rely on |
| `exchange` | 2 slots, 4 client order ids, 3 price levels, quantities 1, 3 | one client: replies, the gateway's mapping, its consistency check |
| `book_liveness` | 2 slots, 2 ids, 2 prices, 3 admissions, fairness | every execution ends |
| `order_links` | 5 orders, 3 levels | pool and levels over shared links are a set and queues |
| `lookup_map` | 4 buckets, 5 keys, 2 values, all 4^5 hash functions | the table is a map; full tables, paths round the end |
| `codec` | about 20000 lines of up to 17 blanks and words, numbers below 8, lines longer than the limit of 17 | decoding, reasons, ids of refusals |
| `ring` | 4 cells, indices modulo 12, 2 records | the ring under late visibility and wrapping indices |
| `logger_safety` | 2 cells, indices modulo 4, batches of 2, 5 statements of 2 levels | both threads, drops, the destructor, termination |
| `logger_liveness` | the same with a history of 3 statements of one level, logged for ever, fairness | the destructor returns, each record reaches the disk |

The bounds are named constants (`MaxArrivals`, `MaxCalls` and `Distinct` are
those that are not in the code). Three prices give a level that is neither the first nor the last, so
that the scans skip an empty level and reach both ends; three slots let a level
hold an order on either side of one that leaves, with the pool full; four
admissions reuse a slot and an id; quantities 1 and 3 give partial fills of
either order and, with a limit of 4, totals that wrap; a price at
`PriceLevelCount`, a quantity 0 and a second symbol reach the refusals. The
map's own refusal cannot happen in a book whose map is no smaller than its
pool, which the constructor demands: it is modelled, as part of
`AdmitRefusal`, and never taken. Slots, ids and owners are interchangeable and
declared symmetric in the safety runs; the liveness run uses no symmetry. The
view of the safety runs leaves out `output`, which is written and never read.

In `engine` and `exchange` order ids are the numbers the engine gives out, with
one above the number of admissions so that a refusal after the last of them has
an id to test. Four client order ids over two slots fill the book, refuse an
order for want of room and accept it later under the same id, and let ids of
orders long filled be cancelled. A client order id is accepted at most once, so
that `MaxArrivals` restricts nothing in `exchange`. The views leave out what is
written and never read: the last event, result and replies.

Five orders and three levels give a level a head, a middle and a tail with
neighbours still in place after a removal, while the pool is exhausted and its
free list has more than one order. Five keys over four buckets fill the table
with a key left to refuse, and let a probe path go all the way round. Words of a
line are right or wrong in each way the code tells apart, at each place, in all
combinations; 7 and 8 stand for the largest number and the one too large. The
ring's indices wrap every third round, not in step with the two records, and
every lag of the views occurs; its state space is finite by itself. In
`logger_safety` `MaxCalls` bounds the statements: five fill and refill the two
cells, with batches that end at their limit and drops before, between and after
them. In `logger_liveness` it bounds the history. Three is one more than the
cells, so that records are dropped. The main thread then waits only while
nothing can be forgotten, the three being records in the ring, in the worker's
hands or under watch, or a drop not yet reported; and the ring is refilled
as fast as the worker empties it. The safety run tells all records apart
(`Distinct` is 6), the liveness run does not (1), since neither thread looks at
what is in a record but its level. The logger,
like the codec, really may stop (a destroyed logger, a decoded line), so those
runs do not check for deadlock.

Fairness in `book_liveness` is weak fairness of the steps `execute` takes by itself
(`ExecuteStep`). The code runs them in a loop on one thread without waiting for
anything, so one that can be taken is taken. No fairness is assumed of
commands: nobody has to send any.

Fairness in `logger_liveness` is weak fairness of each thread's own steps (the
operating system schedules both), of stores becoming visible (the language
promises finite time) and of the clock. Not of logging, of beginning the
destructor or of terminating, since the program decides those, and not of
`Forget`. `RecordsReachTheDisk` needs neither the destructor nor an end to the
logging, since a batch ends at its limit.

## Proofs

`OrderBook_proofs` proves, for every number of slots, ids, owners, prices and
every quantity width, that `IInv` is an invariant of `Spec` and draws from it
the invariants above, each a theorem of its own. The assumptions are those the
module `OrderBook` names: finitely many slots and at least one, a map no smaller
than the pool, at least one price, quantities below the limit. All but the
finiteness are what the constructor (`OrderBook.cpp:23`) tests.

`IInv` is the conjunction of seven named invariants, none of which is inductive
by itself. That a cancel or a fill takes out the right order needs the levels
(`LevelsHoldRestingOrders`) and the pool (`PoolAndMapAgree`) at once; that the
order is found once only needs `ArrivalOrder`, which makes the entries of a
level distinct; that the front of the best level exists needs
`BestPricesCurrent`; that the scan's shortcut on a count of zero is right needs
`CountsExact`; that an order may come to rest needs `BookNotCrossed` and the
best price together.

The argument has one lemma per action. The steps that remove a resting order
(`FillCompletely`, `Cancel`) share the lemmas about `Departure`: what leaving
does to the queue, the pool and map, the counts, the best price and the
uncrossed book. Underneath are lemmas on removing an entry from a sequence, on
the least and greatest price of a set, and on what the scan returns.
`BoundedWork` adds that every execution makes the set of orders that still want
something smaller.

`TotalsExact` proves `TotalsModuloWidth`, with `IInv`. The sum of a level is the
number of its units, pairs of an order and a number up to what it wants, so that
sums are additions of finite sets instead of folds: an order that joins, leaves
or is filled adds or takes away exactly its own units (`OneOfTheResidents`). The
cached total is added to and subtracted from modulo its width; that the
remainders still agree after a subtraction below zero or an addition beyond the
width is a matter of remainders, from their definition (`WrapOnceMore`).

Its second part shows that the book implements `PriceTimePriority`
(`BookIsPriceTimePriority`), again with one lemma per action, from `IInv` alone.
An execution is the abstract trade because the best price is current, so that no
order the incoming one can trade with is better priced (`Partners`), and because
levels are in arrival order, so that the front of the level is the oldest
(`StandingHasPriority`). An order that rests has no partner, by `Partners` again.
That a refusal for want of room means a full book is a matter of counting: the
slots in use, the mapped ids and the orders of the abstract book are as many
(`BookSize`, `RoomInBook`, by bijections), so that the branch for a full map is
never taken before the one for an empty pool.

`MatchingEngine_proofs` lifts `IInv` to the engine (`EngineStepOfBook`: a step
of the engine is a step of the book or leaves it alone) and adds that order ids
are arrival numbers (`IdsFollowArrivals`). With `ArrivalOrder` of the book that
gives fresh ids and levels sorted by id; with `PoolAndMapAgree` it shows that
the id about to be given out is not in the map, so that the branch of `admit`
for a duplicate is dead in the program. It assumes that `OrderIds` are the
numbers up to `MaxArrivals + 1`. `EngineIsEventStream` then shows that the events
implement `EventStream`: the orders a listener knows from them are those of the
book that still want something, under the ids they were announced with. That an
event speaks of one order only needs ids to be distinct (`WantingDistinct`), and
the trade an execution announces has the ids, price and quantity of the two
orders it changes because the front of the level is the order the book reduces.

`Exchange_proofs` adds the typing of the mapping and the two gateway invariants,
each needing the other: an accepted order is not yet mapped because the handler
tested it, and orders already in the book keep their mapping because theirs are
mapped, hence different, client order ids. `OnlyKnownOrders` says of all other
steps that they bring no order into the book. `ExchangeIsSession` shows that the
whole program implements `Session`. It needs two more invariants: that no two
client order ids are mapped to one engine id (`MappedOnce`), so that an order
that is filled or cancelled closes that client order id and no other, and that a
step leaves no more than one reply behind (`AtMostOneReply`).

`SpscRing_proofs` proves the ring for every capacity, every set of records and
every width of the indices that is a multiple of the capacity, at least twice
(`RingAssumption`; the code has 2^14 cells and 2^64 indices). `RingInv` is
`IndicesInOrder`, the types, and `CopyDone`, that a record about to be
published is in its cell. The order of four indices on a circle is what carries
the proof: stale views can only be behind the index they lag and ahead of the
other one, so that a check made with them errs on the safe side. Underneath are
lemmas about remainders, from their definition: two indices less than `Capacity`
apart are in different cells, also across the wrap, because the width is a
multiple of the capacity. `RingIsFifo` maps each step to one of `BoundedFifo` or
to none.

`AsyncFileLogger_proofs` proves the logger over any ring, batch limit, number
of statements and set of levels. `LoggerInv` adds to `RingInv` that a thread is
inside the ring exactly while its program counter says so (`ThreadsInStep`) and
how far the worker is once the stop request is made, seen and acted upon
(`StopInOrder`): seen the request, it knows the head for good; past an empty
ring it has everything. `NothingLeftBehind` then needs `RecordsInOrder` and
`DropsCountedOnce`. One step of the logger is no step of
`SpscRing`, the worker's view of the head brought up to date at the stop request;
it has lemmas of its own (`SeesHead`).

`PriceLevel_proofs` proves the links of pool and levels, for every capacity and
any set of levels. What a list contains is found by following links, and no
theorem about such a walk can be had by induction over it. The invariant
`LinksInv` therefore speaks of the neighbours: the free list and the queue of
each level are sequences of orders, and every link of an order in one of them is
the entry before or after it (`FreeListLinked`, `LevelLinked`), no order being in
two (`HoldEveryOrderOnce`). `ChainIsThread` closes the circle: a sequence without
repetition whose entries are linked in this way is the walk from its first
entry. There is one such walk only, or there would be a first step at which two
differed (`WalkUnique`, by the well-foundedness of the numbers); it cannot be
cut short, because no more orders are linked than there are (`ListsFit`). Each
action then has to write the links of the list it changes and of no other: the
lemmas end in `RemovalLinks`, the removal of any entry of a level, front, middle
and back alike. `LevelsReadTheSameBothWays` and `OrdersInOnePlace` follow from
`LinksInv`, and `LinksAreOrderQueues` is the refinement of `OrderQueues`, for which
every lemma about an action also shows the abstract action of the same name.

`FixedOrderMap_proofs` proves the table for every capacity, every set of keys
and every hash. On a circle "before" and "after" mean nothing, so the invariant
finds a bucket to cut it open: `MapInv` says that there is a bucket `w` past
which no probe path leads, such that, counted from `w`, every entry stands at
or behind its home with nothing but occupied buckets, and at most the hole,
between (`Straight`), and that what the hole breaks lies ahead of the scan
(`HoleMends`: `StillAhead`, or no path crosses the hole any more). An insert into
the last vacant bucket moves the cut behind itself. `TableIsMap` is the whole
refinement of `LookupMap`: that a probe finds a key exactly if it is there, and
that the counter is the number of keys (by `FiniteSetTheorems`).

`TextCodec_proofs` proves the codec for every set of lines, of any length, and
every limit. The three invariants speak of all the words of the line, those
behind the first fault too, while the code has only a cursor. `ReadingInOrder`
joins the two: the cursor is a suffix of the line, the words before it are the
type and the fields, and each field is what `Parse` made of the word in its
place. The words are counted by a function on the tokens read; that there is one
is shown by a first number at which there is none (`AmongExists`, by the
well-foundedness of the numbers), and `WordsOneByOne` is all that the rest needs
of it. `CursorFinds` then says that the word `Skipped` leaves at the front is the
next of the line, or that there are no more. `FieldRead` compares the parsers with
the grammar: a word is accepted for a field exactly if it may stand there. With
that each way a line can be refused is one lemma, `WrongLength` (too few words or
too many) or `WrongWord`, each of which shows for the reason and the id at once
that they are those of the first fault.

Checked with TLC only: liveness (`ExecuteTerminates`, `DestructorReturns`,
`RecordsReachTheDisk`), which the prover cannot do under fairness. `BoundedWork` is
the safety part of the first of these. Every invariant and every other action
property or refinement the runs check is also a theorem.

## Next steps

That the orders of `OrderBook` implement `OrderQueues` and `LookupMap`, so that the
links and the table are shown to be used as their proofs assume.

## Not modelled

- Wording: log lines and replies (`core/EnumNames.h`, `TextCodec::encode`, which
  has one text for each reply and reason, and the formatting in
  `AsyncFileLogger.cpp`), and the capture of arguments (`logging/LogRecord.h`).
- The thread-local pointer to the logger (`logging/Log.cpp`) and the logger that
  drops everything: the program sets the pointer once, before it reads a line.
- `Sequencer.cpp`, one counter: `OrderBook` uses only that it grows.
- Further sinks of the event dispatcher, of which the program registers one.
- The streams and their failures: the code looks at none after opening the log.
- The load generators under `scripts/` and the build.

Replacing an order is not implemented in the code either: the engine refuses it.
