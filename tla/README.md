# A formal model of the execution service

The program moves a futures position to a target: a *parent execution* is worked
by *child orders* (Chase or TWAP) until the target is filled, the deadline is
reached or a caller cancels. What can go wrong is money: trading more than was
asked for, missing a fill, ending while an order is still on the book, never
ending. The modules here state those properties of the code under
`src/src/`, model-check them with TLC on small instances, and prove the most
important ones with TLAPS for all instances.

## 1. The system

| Component | State | Operations and interactions | What makes it correct |
| --- | --- | --- | --- |
| Execution engine (`execution/engine.py`) | `ExecutionRecord`: status, final reason, children, exposure, reject and rate-limit gates | `create_execution`, `run_once`, `cancel_execution`, `reconcile_execution`, `apply_reconciliation_result`; calls the adapter at every `await` | never overfills; counts every fill once; ends with the status its fills have earned; ends |
| Actor lock (`execution/events.py`) | one `asyncio.Lock` per execution | serialises the operations, held across awaits | operations do not interleave, the venue does |
| State machines (`execution/state_machine.py`) | none | transition tables for parents and children | results are final; closed children stay closed |
| Exposure tracker (`ExposureTracker`) | confirmed, live, pending submit, pending cancel, unknown | reserve, release, move, rebuild from the children | covers what may still trade, within the target |
| Fill ledger (`engine.py:939-1029`, `1639-1827`) | seen trade ids, fill intervals, VWAP inputs | snapshots and trades, late, repeated, with and without a position | no lot is counted twice, in the quantity or in the price |
| Binance adapter (`binance_usdm.py`) | none that matters here | create, cancel and lookup; every HTTP outcome becomes one of the engine's errors | what it calls refused has not happened |
| Venue (`exchanges/base.py`, `simulator.py`, `binance_usdm.py`) | orders, trades, position | create, cancel, lookup, reconcile, user events; may time out, rate limit, ban | the truth the engine has to find out |
| TWAP (`algorithms/twap.py`) | none | scheduled quantity | schedule is monotone and ends at the target |
| Chase, validation, rounding (`algorithms/chase.py`, `risk/`, `engine.py:1109-1352`) | last repricing, reject gate, submit times | price of a child, its checks, repricing, child timeout, the two deadline policies | never a price outside the range; never a rejected quote again; ends in time |
| User stream supervision (`api/runtime.py:409-660`, `binance_usdm.py:590-667`) | the supervisor task, the listen-key keepalive task, the tables that hold them, failure counters, the stream's health flag, unavailable environments | connect, deliver events, reconcile gaps, renew or replace the listen key, give up; the two tasks cancel and await each other, `stop()` both | a stream is never lost unnoticed; no request follows a ban; `stop()` returns |
| Service, runtime (`execution/service.py`, `api/runtime.py`) | background tasks, unavailable environments, the runtime lock | `create_execution` with its conflict check, `start()`, `stop()`, the loop over `run_once`, API and stream calls | one active execution per symbol; every active one is driven; `stop()` ends and leaves nothing |
| API, config, observability, scripts | settings, files | parsing and output | not about behaviour |

What is hard here is not in any one function. An operation holds the lock over
many awaits, and between any two of them the order it is working on may fill,
expire or arrive late. Answers may be lost (timeouts), refused (rate limit, ban)
or old (user events, order snapshots read before the trades). The task itself may
be cancelled at an await. `PROJECT.json` lists these hazards at their lines.

## 2. The modules

| Module | Models |
| --- | --- |
| `Lifecycle` | statuses and transition tables (`state_machine.py`), `_set_child_status` with its shortcuts |
| `Exposure` | the exposure buckets and the operations on them |
| `Venue` | the exchange as one execution sees it: orders, the lots traded, bans |
| `ExecutionEngine` | one execution: every operation, every call it makes, every answer the call can get |
| `ExecutionPromise` | abstract: what an execution promises its caller, in terms of the account alone |
| `EngineProperties` | the properties, the refinement mapping to `ExecutionPromise`, the inductive invariant |
| `MCEngine` | the module TLC runs; its instances are the `.cfg` files |
| `ExposureProofs`, `LedgerProofs`, `EngineProofs` | lemmas on counting lots and on the ledger, the inductive invariant, the theorems |
| `FillLedger`, `MCLedger`, `FillLedgerProofs` | the fills of one order on their way into child, parent and VWAP |
| `BinanceOutcome`, `MCOutcome`, `OutcomeProofs` | HTTP replies, what the adapter calls them, what the engine then believes |
| `Pricing`, `MCPricing`, `PricingProofs` | what a Chase execution pays, and when it replaces a child or gives up |
| `Runtime`, `MCRuntime`, `RuntimeProofs` | the supervisor of an environment: executions, their loops, the API, start and stop |
| `UserStream`, `MCUserStream`, `UserStreamProofs` | the user stream supervisor, the listen-key keepalive and their end |

The modules meet at stated seams rather than in one composition, whose states
would be the product of all of them. `ExecutionEngine` composes `Lifecycle`,
`Exposure` and `Venue`, and implements `ExecutionPromise`. What it leaves to a free
choice is decided by the module below it: whether to reprice, what passes
validation and how long a gate holds by `Pricing`; which errors a call may end with
and whether an order may have been left by `BinanceOutcome`; which lots a
report stands for by `FillLedger`. What it offers is used by the module above
it: `Runtime` takes as the result of an operation exactly the statuses and classes of
`final_reason` that `ExecutionEngine` ends it with, and `UserStream` stands behind
`streaming` and the reconciliations there.

How the code of the engine becomes actions:

- **Steps.** `pc` names the next step of the operation that holds the lock;
  `"idle"` is a free lock. The labels are the calls to the venue (`refresh`,
  `exact`, `cancel`, `read_orders`, `read_trades`, and the submit inside `Submit`)
  and the decisions between them (`observed`, `passive`, `timedout`, `active`,
  `repriced`, `stale`, `closing`, `settle`, ...), in the order of `run_once`,
  `cancel_execution` and `reconcile_execution`. `cont` is the step after a loop
  and `cur` the last child the loop has dealt with.
- **Calls.** A call, its effect on the venue and the handling of its answer are
  one action, because nobody can see the engine's state between them: the lock
  is held and the venue does not read it. Everything else of the world moves
  between any two actions. A call without an answer leaves its effect to the
  venue: `Arrive` for a create, `Expire` for a cancel.
- **The cancelled task.** `SubmitAborted` and `CancelAborted` are the state left
  by an `asyncio.CancelledError` at the two awaits whose callers have already
  changed the ledger.
- **Who calls.** `Actors` selects the callers: the background loop (`run`), the
  API (`cancel`), reconnect and shutdown reconciliation (`reconcile`), the user
  stream (`event`), task cancellation (`abort`) and the venue's bans (`ban`).
- **Data.** Quantities are whole lots (the code floors every quantity to the
  quantity step). Prices, market freshness, stream health, order validation and
  the child timeout are free choices at the point where the code consults them.
  Time is the number of completed slices of the duration, the last one being
  the deadline, and a rate-limit backoff is waiting or elapsed. Slices are at
  the same time TWAP's boundaries and the grain of the deadline.
- **`final_reason`** keeps the five classes the code or its callers branch on;
  wording is left out.

Quantities of the venue: a resting order trades one lot per `Fill`; post-only
orders never take. An order that is sent as immediate-or-cancel (the aggressive attempt
after the deadline) takes what it can get and is cancelled, as on Binance, or rests
like any other order, as in the simulator (`simulator.py:371-384`). A ban may end at any time
(`Lift`), in the middle of an operation too. User events are any report that was true at
some time, so they arrive late, twice, in any order or never.

`UserStream` has no lock to go by: its two tasks interleave at every await. `user`
and `keep` name the await a task is in, and what a task does between two awaits is
one action.

| Label of `user` | Await of `_supervise_adapter_stream` |
| --- | --- |
| `connect`, `stream` | the next event of `stream_user_events`: before and after the connection is made |
| `handle`, `expired` | the reconciliation for an event, for a `listenKeyExpired` event |
| `gap`, `sleep` | the reconciliation after a disconnect, the restart delay |
| `stop_keep`, `farewell` | giving up: the end of the keepalive, the last reconciliation |

| Label of `keep` | Await of `_run_listen_key_keepalive` |
| --- | --- |
| `sleep`, `renew` | the interval, `renew_listen_key` |
| `restart_read`, `restart_wait` | `_restart_user_stream`: the reconciliation, the end of the old stream |
| `give_up_wait`, `farewell` | giving up: the end of the stream, the last reconciliation |

- **Cancellation.** `task.cancel()` puts a task into `cancelled`. It then does
  nothing but leave its await (`UserCancelled`, `KeepCancelled`); a task that waits
  in `asyncio.gather` for another one leaves when that one has ended. A supervisor
  cancelled inside the stream closes it; one cancelled, or leaving by `break`, while
  it is busy with an event abandons the generator, which the event loop closes later
  (`closing`, `AbandonedCloses`).
- **What the account did** is `unseen`: changes that were neither delivered nor
  read, by how they lie to the window of the next reconciliation, which starts with
  the current attempt to connect and goes back a minute at most. `inbox` holds what is delivered and not
  taken. A reconciliation that ends without reading (a failure, a rate limit, a ban) leaves `unseen`
  alone and may mark the environment; both marks are `"rate"`.
- **One life.** The model starts where `start()` has registered the tasks and ends with
  `stop()`. The first part of `stop()`, which ends the background loops and cancels the
  executions, is the phase `draining`: it ends, and what it does is outside the module.
- `_stop_user_stream` of a stream that has ended already returns at once; the model
  takes one more step, which no other task can tell.

`FillLedger` follows one order. The venue's trades are the ends of intervals of lots
(`marks`); a fill names its trade, its quantity and its position. A user event
carries the position from the order's beginning; a reconciliation counts it from the
start of its window, as the adapter sums up what it has read (`FillFrom`), and trades
of one millisecond may come sorted by the text of their ids (`Turned`).
`TradeEvent`, `StatusEvent`, `Answer`, `ReadOrders` and `ReadTrades` are the ways into
the engine; when the trades cannot be read, what was read of the orders is lost (`TradesFail`); `IgnoreRepeat`, `CountTrade`, `DropUnplaced` and `ApplySnapshot` are the
branches of `_update_child_cumulative_fill_locked`. A report is applied fill by fill under
the actor lock. `cut` and `uncounted` are history variables for the properties.

`BinanceOutcome` has the replies of the venue as data: status, code and text, as far as
the classification tells them apart (`AllReplies`), and
`Outcome` and `RulesOutcome` are the classification in the order the code asks. An order at the venue and the
engine's word for it are two variables; `Refusals`, the replies that mean that nothing
has been executed, is a constant, so that trust in the venue is an assumption and not
a definition. `Submit`, `Cancel` and `Lookup` send, `...Answer`, `LookupFound`,
`LookupMissing` and `LookupFails` receive.

`Runtime` has one step for the beginning and one for the end of an engine operation
(`Begin`, `Returns`, `Raises`), between which its actor lock (`op`) is held. A background task
is at `run`, `repair` (the reconciliation after an error) or `sleep`; one whose cancellation is on its
way is in `killed`. `create_execution` holds the runtime lock from `checking` (the scan of
active executions, each read under its actor lock, `Read`) to `placing` and its return;
`start()` and the beginning and end of `stop()` take the same lock. `stop` names the
await of `stop()`: the ends of the loops, the scan, the cancels and reconciliations,
the end of the streams.

`Pricing` has the step of `run_once` in `pc`: `look` at a resting child, `demand` for a new
one (`repriced` when an old one was just replaced), `sending` while the venue has it. The market
(`Moves`) and the clock (`Tick`, `Deadline`) go on between any two. Prices
are half ticks in the run, so that quotes need rounding. The reads and the cancel of a child are
one action with what fills meanwhile. Ages stop at the limit they are compared with.
The trading status of the symbol and its support of post-only orders change at any time
(`RulesChange`); the code reads them anew for every demand, repricing and order, the step, the tick and the
minima are fixed. An aggressive child is taken, is cancelled by the venue or rests (`Taken`); one that rests
fills, is replaced when `_maybe_reprice_chase_locked` finds it too far from the passive price (`Reprice`), or is
cancelled at its timeout (`Begin`). `attempts` counts them up to two. `TerminallyRejected` is every reject that is
not retried. One order lives at a time and every call is answered, because `ExecutionEngine` has the
rest.

## 3. Assumptions on the venue

- `LookupSettles`: an order a lookup did not find never appears later. With
  `TRUE` (the simulator; the runs and the theorems) this is the engine's own
  assumption. The module can be run with `FALSE`: an answer "no such order" may then be
  followed by the order's arrival, and the engine has freed its quantity too early.
- A submit that fails with an unexpected error left no order (`SubmitFails`):
  the engine forgets such a child. `BinanceOutcome` shows where this comes from: it is
  `ForgottenIsGone`, which holds under `Trusted`, that the venue's refusals are what
  they say. The run `doubt_503` is the one place where the code and a document of
  the repository disagree about what a refusal is.
- During a ban all calls fail, and a banned create leaves no order. A ban may end at any
  time, between two calls of an operation too.
- The trades read in a reconciliation are at least as new as its orders. A
  window given by the caller may leave out closed orders with their trades.
- A request is executed at most once, and if so before its reply is taken
  (`BinanceOutcome`); the venue trades an order in whole lots and numbers its
  trades (`FillLedger`).
- Of the market nothing is assumed (`Pricing`): it may cross, go stale and come back. Tick, step
  and minima of the symbol are positive and fixed, its trading status and order types are not.

## 4. What the runs check

Deadlock checking is off where the system may stop: an execution that has ended with its
orders closed, an order that is filled, two tasks after `stop()`. It is on for
`Runtime`, which may always be started again.

| Run | Instance | Shows |
| --- | --- | --- |
| `engine` | targets 1 and 2, both algorithms and policies, 2 slices, 2 children, 3 faults, all actors; 1 697 733 states | safety, action properties, refinement, the inductive invariant |
| `endings` | target 2, both algorithms and policies, manual cancels, 2 faults; 247 833 states | `DeadlineEnds`, `CancelEnds`, `CancelSettles` |
| `ledger` | an order of 4 lots, with and without a child for it; 293 726 states | every order, repetition and window of its trades |
| `outcome` | all replies, 3 attempts; 521 states | classification, no twin, doubts are resolved |
| `pricing` | 4 prices at two to a tick, target 2, minimum quantity and notional that bind, halts of the symbol, 2 rejects; 251 202 states | prices, reject gate, repricing, deadlines |
| `runtime` | 2 executions of one symbol, API cancels, both stream calls; 97 343 states | supervision, start and stop, no deadlock |
| `stream` | 2 listen keys, 3 tolerated failures, everything happens; 540 100 states | the user stream and its inductive invariant |
| `cancel_lost`, `adopted`, `doubt_503`, `loop_ban`, `stream_gap` | only what the claim needs | the disagreements of section 6 |

Every type invariant is checked as the first conjunct of `IInv`.

The properties of the engine:

- `NoOverfill`: lots traded plus lots that may still trade never exceed the
  target. `ReservedCoversVenue`: what the engine confirmed or reserved covers
  both. Together they say that no bucket is released too early.
- `WithinTarget`: the exposure assertion cannot raise when the buckets are rebuilt,
  nor anywhere the engine decides or cancels. It is not claimed at the labels
  where fills have just been learned and the buckets are not rebuilt yet: when a
  lookup raises after a reconciliation has learned fills, the operation leaves
  with a total above the target until the next refresh, and an exception of the
  assertion is then modelled as leaving the operation. One exception remains
  (`OnlyPasses`): `cancel_execution`, rate limited in its reconciliation, goes on to its
  cancel loop with old buckets. It needs three faults to go wrong, and does not, because
  the backoff check of `_cancel_child_locked` lets the loop pass over every child.
  The assertion at the end of `_cancel_child_locked` (`engine.py:845`) is in the model as well (`CancelAnswered`); no
  run reaches a state in which it raises.
- `LedgerAgrees`: each lot is counted once, and only lots that traded.
- `CleanEnd`: an execution that ends without failing leaves no order, has missed
  no fill and reports the status its fills have earned.
- `LegalMoves`, `ReportsOnlyAdd`: no illegal transition (none of
  the calls to `transition_execution` raises), no report takes a fill back or
  reopens a child.
- `SubmitsAlone`: no order is sent while an earlier one may still trade, and none for an execution that
  was cancelled or has ended with a result. It does not say so of one that has failed: after a ban that fails it in
  a refresh, `run_once` goes on to its demand (`engine.py:900-902`, `389-489`) and sends an order, which is refused
  while the ban holds and taken when it has lapsed (section 6).
- `KeepsPromise`: the engine with its venue implements `ExecutionPromise` under the
  mapping target, position, working lots, result. An execution that has failed is `"failing"` while `run_once` may
  still place that one order, within the target and with nothing else at risk, and `"failed"` afterwards: then nothing is placed
  any more.
- `DeadlineEnds`: without a manual cancel every execution ends, unless it has sent a second aggressive child
  (`AttemptsAgain`): a first one that rests may be replaced, and whether that goes on depends on prices, which
  `DeadlineEnds` of `Pricing` deals with. `CancelEnds`: with one it
  ends when every call is answered. `CancelSettles`: and whatever fails, once none of its orders works.

The properties of the user stream:

- `GivesUpTogether`: when one task gives up (a ban, or the last tolerated failure), the
  other has ended or is cancelled, so that no listen-key request follows.
- `NeverSilent`: while the runtime runs, a missing stream is being replaced or the
  environment is unavailable, and a missing keepalive makes it unavailable.
- `KeptTrackOf` (in `IInv`): a task that is in none of the tables `stop()` reads is
  already cancelled or giving up.
- `HealthyIsUp`: a lost stream counts as healthy only while one that was abandoned
  has not closed. Without an abandoned stream the engine is never told to trade blind.
- `StopReturns`, `Reconnects`: no cycle of tasks that await each other keeps `stop()`
  from returning; a stream that is down comes back, is given up, or is stopped.

The properties of the fill ledger:

- `SpansDisjoint`: the lots of counted trades do not overlap, each has the size of its
  trade, and none lies beyond what is confirmed. `VwapWeighsFills`: what the VWAP weighs, trades and
  uncovered rest, is what is filled. `CountsWhatItSees`: if no window cuts the order's
  trades in two, every reported trade is placed where it traded, so the price is exact; with such a window a
  trade may find no place and the rest is priced at the child's price.
- `IInv` contains the types, `NeverAhead` (the venue is never overtaken), `ParentCounts`
  and the truth of fills on their way. `LedgerGrows` (nothing is taken back, a placed trade stays) is
  proved only.

The properties of the adapter:

- `ForgottenIsGone`: an order the engine forgets or calls rejected is not at the venue.
  `NoTwins`: the demand is never on the book twice. `IInv` adds `ClosedIsClosed`: filled and cancelled
  are so at the venue. `DoubtsResolve`: create and cancel in doubt are decided, or the
  execution fails.

The properties of pricing:

- `GivesUpForCause`: before the deadline only the reject limit, a symbol that does not trade or does not take
  post-only orders, or a remainder below the minimum quantity ends an execution, and the reason it reports
  is the one that holds; no quote does, and none that is missing. (A reject that is not retried fails it: `FAILED`.) This says that rounding never makes a passive
  price cross, for any tick. `IInv` contains `InBand`: no order at a price outside the range.
- `BlamesTheRange`: the final `PRICE_OUTSIDE_RANGE` is true of the last quote that was
  read for a child; a note of an earlier wait does not survive the next child.
- `FreshAfterReject`: rejects in a row are the backoff apart and at another price or touch.
- `ComesToRest`: in a calm market an execution that has not reached its deadline comes to rest. Nothing is
  repriced for ever, but for an aggressive child across a spread so wide that it is worth repricing to the
  passive price (`WideSpread`).
- `DeadlineEnds`: `CANCEL_REMAINDER` ends, and so does `AGGRESSIVE_WITHIN_RANGE` unless a first attempt that rests is
  replaced by a second one. When it is, the execution ends once the market is calm, unless the spread is wide. All
  three qualifications are needed: without any one of them TLC finds the endless replacing of section 6.

The properties of the runtime:

- `OneActive`: one active execution for a symbol. `Driven`: an active execution of a started runtime has
  a task that goes on, unless a ban has ended that task. `StopHolds`: after the calls of `stop()` none
  trades on, and from the ends of the loops to the next start none runs.
- `StopEnds`, `LockReturns`, `LoopEnds`: neither `stop()` nor the runtime lock is kept for ever by
  whoever holds an actor lock; the task of an ended execution ends, unless the execution
  has ended with a rate limit for its reason (section 6).

Bounds. `Targets`, `Slices` and `MaxChildren` of 2 are the least that give
partial fills, a TWAP schedule with an interior boundary, and a second child
whose quantity depends on what the first one did; the interesting histories
(fill during cancel, late report, second create) need no third one, and the
invariant proved below shows why: all children but the last are settled.
`RejectLimit` of 2 allows one retry. `MaxFaults` bounds lost answers, rate
limits, exceptions and venue-side closes per behaviour. In `engine` it is three, so that a fault can
hit the handling of a fault that left the buckets old (with two, `WithinTarget` would hold without
`OnlyPasses`); in `endings` two. `Fault` is its only use. With `MaxChildren`
reached, a submit can only fail, which cuts behaviours of a third child and
nothing else. The clock stops when the execution has ended (`Tick`), because
no later step reads it.

An order of 4 lots has up to four trades, so that one can lie in a gap between two others and a
window can begin and end inside them. Three attempts give a retry after a retry; what
the engine does next depends on the last one only. Two executions of one symbol are what the
conflict check is about; with three of them (3.4 million states) or all API calls
(266 885) the safety properties hold as well. In `pricing` the range is one price (5) that is no
multiple of the tick, quotes lie on both sides of it and on and off the tick, a lot is below the minimum
quantity and two lots at a low price are below the minimum notional; a threshold of 30 % is reached by the wide
spreads among these prices and missed by the narrow ones. `MCRequests` has both sides, modes and
policies, and `TWO_SIDED` where it matters most, with the aggressive policy; with a fourth request, `SELL` with `TWO_SIDED` and
the aggressive policy (371 260 states), everything holds as well.

For the user stream, `MaxFailures` is the constant of the code, two keys
tell a new listen key from an old one, and `MaxClosing` lets a key expire only while
no abandoned stream is still closing. `Happens` selects what goes on.

Fairness of the engine. `FairSpec` assumes: the background loop calls `run_once` again and
again while the execution is active (`runtime.py:327-373`; it survives
exceptions by reconciling and sleeping) and the lock is granted in FIFO order
(`asyncio.Lock`, `events.py:10-19`), hence `SF_vars(RunOnce)`; every call to the
venue ends, by an answer or a timeout (`httpx.Timeout(5.0)`), hence
`WF_vars(Operation)`; the clock advances and backoffs elapse. Because the clock advances, a child that rests
in one `run_once` after the other has one day rested longer than `child_order_timeout_seconds`
(`engine.py:1354-1366`), and the run that finds that goes to its cancel: `SF_vars(TimesOut)`. Nothing is assumed
of the venue: it need not fill, deliver or close anything. The loop ends for
good on a ban and on task cancellation, so `ban` and `abort` are not among the
actors of the liveness runs. Faults are finite in a behaviour; a venue that fails
every call can keep any execution alive.

Fairness of the adapter: the loop looks again (`WF`), and a lookup that is repeated is
answered one day (`SF`); a venue that fails every lookup keeps a create in doubt for ever.

Fairness of the runtime: every engine operation ends, a task that can go on does, and an actor lock
goes to those who wait for it in their order (`asyncio.Lock`), hence `SF` for the loop, for reading
a record and for `stop()`. Nobody has to create, cancel, start or stop.

Fairness of pricing: `run_once` is called again and again and the clock advances. The market may move for
ever, never recover, or never fill; `ComesToRest` speaks of the time after its last move (`calm`), and nothing
makes the deadline come.

Fairness of the user stream: the event loop runs every task that can run, and every
request ends by an answer or a timeout (`WF` of both tasks' steps); the first part of `stop()` ends
(`StopCancels`); and a connection that is tried again and again is made one day
(`SF_vars(Connects)`), an assumption on the venue that only `Reconnects` needs.

## 5. What is proved

With `tlapm`, for all values of the constants with `LookupSettles = TRUE`:

| Theorem (`EngineProofs`) | Statement |
| --- | --- |
| `TypeCorrect` | `Spec => []TypeOK` |
| `StaysSound` | `Spec => []IInv` |
| `NeverOverfills` | `Spec => []NoOverfill` |
| `ExposureCovers` | `Spec => []ReservedCoversVenue` |
| `ExposureFits` | `Spec => []WithinTarget` |
| `ConfirmsWhatTraded` | `Spec => []LedgerAgrees` |
| `EndsClean` | `Spec => []CleanEnd` |
| `MovesAreLegal` | `Spec => LegalMoves` |
| `ReportsAdd` | `Spec => ReportsOnlyAdd` |
| `SendsAlone` | `Spec => SubmitsAlone` |
| `EngineKeepsPromise` | `Spec => KeepsPromise`, the refinement of `ExecutionPromise` |

Without further assumptions than those of the modules:

| Module | Theorems (`Spec => []...`) |
| --- | --- |
| `UserStreamProofs` | `StaysSound` (`IInv`), `TypeCorrect`, `GivingUpIsFinal` (`GivesUpTogether`), `NeverSilentlyDown` (`NeverSilent`), `HealthIsEarned` (`HealthyIsUp`) |
| `FillLedgerProofs` | `StaysSound` (`IInv`), `NoLotTwice` (`SpansDisjoint`), `WeighsWhatIsFilled` (`VwapWeighsFills`), `CountsEachTrade` (`CountsWhatItSees`), `NeverAheadOfVenue`, `ParentAgrees`, `TypeCorrect`, and `OnlyGrows` (`LedgerGrows`) |
| `RuntimeProofs` | `SupervisorSound` (`IInv`), `NeverTwoActive` (`OneActive`), `AlwaysDrivenOrBanned` (`Driven`), `StopLeavesNothing` (`StopHolds`), `SupervisorTypes` |
| `PricingProofs` | `PricingSound` (`IInv`), `EndsForCause` (`GivesUpForCause`), `BlameIsTrue` (`BlamesTheRange`), `NeverTheSameQuote` (`FreshAfterReject`), `PricesInBand`, `PricingTypes` |

And for a venue whose refusals are what they say (`Trusted`), any replies and attempts:

| Module | Theorems |
| --- | --- |
| `OutcomeProofs` | `PictureHolds` (`IInv`), `NothingForgotten` (`ForgottenIsGone`), `NeverTwice` (`NoTwins`), `ClosedTruly`, `TypesHold` |

`NoOverfill` is not inductive: it says nothing of what the engine believes, and a
submit is allowed by what the engine believes. `IInv` (checked by TLC in the
run `engine` first) ties the two together, in six parts, which are proved together because most steps need several of them to
keep one:

- `LedgerSound`: **only the last child can differ from its order**. Every earlier
  child is `Settled` (its order no longer works, its fills are known), and the parent has
  counted what its children have filled. For the last one, the position exceeds the confirmed
  quantity by exactly the lots that were not yet reported, and while it is not closed, its
  remaining quantity lies in one bucket and fits the target.
- `ReadingSound`: what a reconciliation has read stays true until it is applied: a
  snapshot may be old, but a closed order stays closed.
- `StatusSound`, `HeadingSound`: which status an operation can have at its label. The
  decisions of `run_once` are taken while `RUNNING`, the cancel loop while `CANCELLING`;
  the one exception is `Stopped`, an execution that failed on a ban in the middle of an
  operation. The operation goes on, whether the ban still holds or not.
- `BucketsSound`: where an order is placed or cancelled, the buckets are those of the
  children, or, after a ban that kept them from being rebuilt, older ones that fit the target. `LedgerSound` says that even these cover
  what may still trade, so what a failed execution places does not exceed the target. A refresh rebuilds them, and every way from learning fills to a decision passes one.
- `EndSound`: an execution that has ended without failing has settled children and the status
  its fills have earned.

The argument runs in three layers. `ExposureProofs`: counting lots
(`LotsBetween`, a cardinality) behaves like a sum of differences. `LedgerProofs`: one lemma
per kind of change of the ledger (a child learns a report; is cancelled; is appended; the
venue moves), each keeping `LedgerSound`. `EngineProofs`: one lemma for each part of `IInv`
with one case per action (`LedgerStep`, `StatusStep`, `HeadingStep`, `BucketsStep`,
`EndStep`), joined in `StepInv`. `EndStep` rests on `WellEnded`: whichever
action ends an execution finds all children settled. From `StaysSound` the invariants follow by PTL.
The action properties take the invariant in the step's first state.

The refinement (`PromiseInit`, `PromiseStep`) maps the account. `TradesOrWithdraws` says that a step of the
venue trades lots of one order or takes its rest away, `Places` that a submit adds at most what was left
of the target, and nothing once a failed execution's `run_once` has returned, `ResultKept` that no other step changes the result. `AccountSound` states the mapped
variables of both states as facts of the ledger, so that the step lemma compares numbers and not orders.

A proof that did not go through showed where the model leaned on TLC: some `CASE` expressions had arms that could hold at
once. TLC takes the first of them, as the code's `if`/`elif` does, but TLA+ leaves the choice open. These arms now exclude
each other.

For the user stream, `GivesUpTogether` needs to know that a running supervisor is in the
table the keepalive takes it from (`KeptTrackOf`), and `NeverSilent` that whoever gives up, or is
cancelled by the other task, has marked the environment first (`Reasons`). `FailuresLeft` keeps the counters below their limit
while a task still makes requests. `UserStreamProofs` proves these parts in five lemmas, one case per
action each.

For the fill ledger, `SpansDisjoint` needs to know that a fill under way is a trade of the
venue, of its size and no further than its position (`TrueFill`), that marks rise, and that nothing is
placed before it is seen. The two ways to a span are two lemmas; a trade is then placed among
others that it does not touch because `Fits` has asked for it, and `ParentCounts` follows because
child and parent are raised by the same amount. `VwapWeighsFills` is a matter of counting: the lots of the
placed trades are put into the covered lots one to one (`SpansCount`), and these with the rest make up what
is filled. `CountsWhatItSees` is inductive next to `IInv`: while every fill under way is positioned where it traded and
every placed trade stands there, the next one finds its own lots free (`RoomForTrade`), so none is dropped.

For the adapter, `IInv` says that every attempt but the last is over. `Trusted` gives that an error which
makes the engine drop a child comes with a reply that is a refusal, hence with no order.

For the runtime, `OneActive` is not inductive: a request that has found its symbol free goes on
for many steps. `CreateKnows` says that the scan misses no active execution (none can appear while the
lock is held), `StopKnows` the same of `stop()`, and `Tasks` that a task is cancelled only
when its execution has ended or by `stop()`.

For pricing, the link between properties is what is known of a child on its way: it has passed the range
check and the gate, and there is no other. `GivesUpForCause` needs a lemma on the rounding: a price
that is rounded away from an uncrossed market does not cross it. Each reason is then traced to the check of
`ShapeFault` that gave it, by the rules read in the same step.

Every safety invariant and every action property that a passing run checks is also stated by a theorem.
Only model-checked is liveness (`DeadlineEnds`, `CancelEnds`, `CancelSettles`, `StopReturns`, `Reconnects`,
`DoubtsResolve`, `StopEnds`, `LockReturns`, `LoopEnds`, `ComesToRest`, and `DeadlineEnds` of pricing): fairness and
`ENABLED` are out of the prover's reach. `KeepsPromise` is a safety specification, without fairness.
The theorems of the engine are under `LookupSettles = TRUE`, those of the adapter under `Trusted`; section 3 says what that
means. Without the first, `NoOverfill` does not hold.

## 6. Where the code and its documents disagree

Each of these is a run that TLC ends with a counterexample.

- `cancel_lost`: "An execution ... ends with an explicit terminal status"
  (`execution_lifecycle.md:3`). After a lost cancel answer a `CANCELLING`
  execution is only looked up, never cancelled again.
- `adopted`: "`confirmed_filled` is parent-level cumulative filled quantity"
  (`04-core-safety-invariant.tex:14`). An order that reconciliation adopts with quantity and without
  its trades is counted in the child and never in the parent, so that too much is left to submit.
- `doubt_503`: "Specific ambiguous server errors remain conservative"
  (`external_code_review_summary.md:407`). A 503 with an ambiguous code and no known text becomes a
  retryable read failure, and the engine forgets the order. A test
  (`test_binance_order_mutations.py:506`) asserts that class for a 503 that is no JSON at all.
- `loop_ban`: the runtime "advances nonterminal executions in the background" (`README.md:64`).
  A ban met where `run_once` reads rules or the market is raised, ends the background loop, and leaves
  the execution `RUNNING` and the environment available.
- `stream_gap`: "reconciles after reconnect" (design specification, line 424). The
  supervisor reconciles before it waits and reconnects, and the next window starts
  with the next attempt; the background loop's lookups are what finds such a fill.

Others were met while modelling, and have no run:

- After a ban that fails the execution inside a refresh, `run_once` goes on to a new order, or at the deadline to
  the first cancel request ("must not retry", `base.py:58`). If the ban has lapsed by then the order is taken, and
  nothing looks after it: the execution is `FAILED`, and `run_once` and `cancel_execution` return at once.
- An aggressive attempt that rests is compared with the passive price like any other child
  (`engine.py:458-466`, `1109-1138`). With `TWO_SIDED` and a spread wider than the threshold it is cancelled and replaced by another
  aggressive one in the same `run_once`, at every interval, in a calm market and without end: nothing between
  asks `_should_terminalize_aggressive_deadline`, which is where one attempt would be enough, and the child timeout starts
  again with each.
- A manual cancel that succeeds keeps the notice of a rate limit or a create timeout as its reason, where a test
  expects `CANCEL_REQUESTED` (`test_engine_lifecycle.py:2103`); the runtime turns the former into an error.
- One lookup that does not find a create is taken for a final answer ("cannot be retried ... while the original
  outcome is unknown", `safety_invariants.md:32`); `LookupSettles = FALSE` shows it.
- A stream that was abandoned clears, when it closes, the health flag of its successor (edge case E9), and until then
  keeps its own ("mark stream health degraded on disconnect", `README.md:179`).
- A keepalive that gives up on a ban is in no table when `stop()` looks ("tears down runtime tasks", pipeline
  summary, line 63). `stop()` cancels once: an order whose cancel is lost stays on the book and its
  execution `CANCELLING` (`10-failure-case-hardening.tex:33`).
- A trade of an order that the adapter cannot name is left out of a reconciliation
  (`2026-06-23-critical-remediation.md:1821`).
- `_unavailable_environments` is never cleared: one rate limit met by a reconciliation of the user stream refuses
  creates for ever ("temporarily unavailable", `runtime.py:37`).
- A reconciliation of an ended execution may overwrite its `final_reason` with `RATE_LIMIT_BACKOFF`, and the loop of
  an execution that ended with that reason waits it out for ever: the exception in `LoopEnds`. A `start()` during
  `stop()` is dropped.
- A remainder below the minimum quantity, a halt of the symbol or the loss of post-only orders ends an execution
  before its deadline, however short the halt (`ORDER_SAFETY_REJECTED`, `POST_ONLY_UNSUPPORTED`, the exceptions in
  `GivesUpForCause`). A stale market overwrites the note of a wait for the range, and the final
  reason is then `DEADLINE_CANCEL_REMAINDER` or `MARKET_DATA_STALE_RECONCILED` rather than `PRICE_OUTSIDE_RANGE`
  (`README.md:94`). The gate compares with the quote a child was priced at, so a market that comes back to it is
  waited out. A threshold of 0 with `TWO_SIDED` is accepted by the schema and replaces every child at each interval.

## 7. What is not modelled, and the plan

Not modelled at all: the HTTP API, schemas, configuration, logging, summaries,
artifacts and scripts (no behaviour of the execution depends on them), ids,
metrics; the signing of requests and the parsing of market data and rules; the simulator's clock. The market
stream is supervised by the same code as the user stream, without a listen key and without reconciliation,
and would repeat a part of `UserStream`.

What is left, in the order it is planned:

1. Theorems: what can be said of the engine without `LookupSettles` (a lookup's miss that may be wrong can
   overfill by at most that order), and the seams as theorems: that `ExecutionEngine` ends an operation only
   as `Runtime` takes it to.
2. The simulator in its own module, shown to implement `Venue`.
3. `twap.py` as functions of its own against a reference definition; in `ExecutionEngine` its four helpers are
   one operator in whole lots.
4. Two environments in one `Runtime`, which share the runtime lock and nothing else.

## 8. Running it

    tlc -workers 2 -config engine.cfg MCEngine        # endings, cancel_lost
    tlc -workers 2 -config ledger.cfg MCLedger        # adopted
    tlc -workers 2 -config outcome.cfg MCOutcome      # doubt_503
    tlc -workers 2 -config pricing.cfg MCPricing
    tlc -workers 2 -config runtime.cfg MCRuntime      # loop_ban
    tlc -workers 2 -config stream.cfg MCUserStream    # stream_gap
    tlapm EngineProofs.tla                            # and the other *Proofs modules

Operators ending in `_Slip` (and `_EndlessSlip`, a second one of `LoopAfter`) are plausible mistakes, one per property: replacing
the definition they are named after by them makes TLC violate the property
that `PROJECT.json` names. They are part of no specification.
