# flowpos-backend: a TLA+ development

This directory holds TLA+ models of the FlowPOS backend (`src/app`) and of the
browser client that waiters, cooks and managers work with
(`src/frontend/src`), the TLC configurations that model-check them on small instances, and theorems about
them, proved with TLAPS for every value of the constants. `PROJECT.json` maps
each definition to the lines of code it stands for and lists the runs, the
hazards and the theorems.

## 1. The system

FlowPOS serves a cafe: waiters enter orders at tables, the kitchen prepares
them, the cash desk takes payments within shifts, and printers fetch print
jobs. It is a FastAPI service over PostgreSQL (SQLite in tests), with Redis for
events and login limits, and a React client. Several API containers may run
beside each other.

Two facts about how requests run decide everything else:

* Handlers written `async def` (orders, payments, login) run on the event loop
  of their process and await nothing before they commit. Within one process
  they are atomic with respect to each other; two processes interleave them.
* Handlers written `def` (shifts, discounts, refunds, peripherals, tables,
  menu, users, token refresh) run in a thread pool and interleave with
  everything, in one process too.

Every request has one session (`db/session.py`): autoflush off, READ
COMMITTED, no row locks, one commit, and an UPDATE that writes only the columns
that differ from what was read. What a request has read may be stale when it
commits; only unique indexes stop it then, and an `IntegrityError` is not
caught: the request ends with a 500 and no effect.

| Part | State | Operations | What makes it hard | What makes it correct |
|---|---|---|---|---|
| Order service, `routers/orders.py` | orders, items, events | create, offline sync, edit, move, status, cancel, item status, split of a table | repeated requests; three ways to reach a status; stale prices; splits replace rows | one order per request; statuses go forward; stamps and events; totals follow the lines |
| Tables, `routers/tables.py` | table status | add, change | written by six order and payment handlers as well | occupied exactly while there is an active order |
| Menu, `routers/menu.py` | items, prices, availability | add, change | prices change between an order, its edit and its split | stored lines keep their price |
| Cash desk, `routers/pos.py` | shifts, discounts, payments, refunds | open and close shift, discount, pay, refund, report | check-then-insert without locks; rounding | payments final, discounts on record, refunds covered, bills fair |
| Print queue, `routers/peripherals.py` | devices, agent tokens, jobs, leases | submit, correct, claim, report, heartbeat | agents crash, leases expire under way, stale claims and reports | one agent per job; no job stuck or printed after it is finished |
| Staff sessions, `routers/auth.py`, `users.py` | users, refresh sessions | login, refresh, logout, password change, deactivation | refreshes race each other and password changes | a revoked session gives no new token |
| Login limiter and revocation, `core/auth_state.py` | failure counters, revoked tokens | count, clear, revoke | crash between increment and expiry | a block ends; a revoked token stays refused |
| Realtime events, `realtime.py`, `main.py` | connections, Redis listener | connect, broadcast, disconnect | dead connections, a listener that dies | every connected client hears every event |
| Client store, `lib/store.tsx`, `api.ts`, `storage.ts` | order list, kitchen board, login, socket, reconnect timers, requests under way | load, change, merge, reconnect | answers late, failed or after the next login; events lost with the socket; item changes shown in advance | list and board end up as the server has them, the connection settles |
| Kitchen display and order lists, `Kitchen.tsx`, `Manager.tsx` | the board | status and item buttons, polling | buttons on stale cards, double taps | a button acts on the status its user saw |
| Order forms, `OrderCreate.tsx`, additions in `TableSession.tsx` | lines of the form, route | add, change, send, leave | editing while sending, lost answers, retries | everything entered is on the form or in the kitchen, once |
| Payment screen, `WaiterTablePayment` in `TableSession.tsx` | split editor, dialogs, jobs | split, pay one, pay all | editing rules, several requests per click, failure half-way, other devices | units conserved, amounts cover the bill, "paid" means paid |

The client talks to the handlers by requests that are answered at any later
time, and a handler that changed an order announces its id over the socket;
the client then reads that order again. A screen that has been left keeps its
requests: their callbacks still run, change the store, and may change the
route.

What is not modelled, and why, is section 5. The hazards, each at its line, are in `PROJECT.json`.

## 2. The modules

| Module | What it is |
|---|---|
| `Workflow` | statuses of orders and tables, the workflow table `TRANSITIONS` |
| `Orders` | the order service, with tables and menu, in one process |
| `OrdersProofs` | theorems about `Orders` |
| `Pos` | the cash desk and the order handlers that write the same rows, as concurrent requests of several processes and threads |
| `PosProofs` | theorems about `Pos` |
| `PrintJobs` | abstract specification: what the print queue promises about each job |
| `PrintQueue` | the print queue with leases, overlapping agent requests, crashes and time; compared with `PrintJobs` |
| `PrintQueueProofs` | theorems about `PrintQueue` |
| `Client` | one browser: store, kitchen board, requests, socket, logins, against a server whose orders others change too |
| `ClientProofs` | theorems about `Client` |
| `SplitEditor` | the pure operators of the split editor |
| `Bill` | the payment screen with its jobs, over `SplitEditor`, and the handlers they call |
| `BillProofs` | theorems about `Bill` |
| `OrderForm` | the new-order form and the additions of a table session, with the routes between screens |
| `OrderFormProofs` | theorems about `OrderForm` |
| `SeqLemmas` | lemmas about appending to, removing from and replacing in a sequence, for the client's proofs |
| `SumLemmas` | lemmas about the sum of a function over a finite set: taking terms out, bounds, renaming, rows and columns of a table; for every proof about amounts and units |
| `MCOrders`, `MCPos`, `MCPrintQueue`, `MCClient`, `MCBill`, `MCOrderForm` | values of the constants for TLC |

Beside some definitions stands a second one, such as `BillPerUnit` before
`Bill`: the same definition with a plausible mistake in it. Nothing uses them
except the `mutants` of `PROJECT.json`, which replace the right definition to
see that the property named there notices.

### Orders

`orders` holds the rows of `orders` with their `order_items` and the newest
`OrderEvent`; `total` is `orders.total_amount`; `tables` and `menu` are the
columns those handlers read and write. Rows are never deleted, so an id is a
position. One action is one handler: `CreateOrder`, `UpdateOrder`,
`UpdateOrderStatus` (with the cancel route), `UpdateItemStatus`, `SplitTable`,
and the managers' `UpdateTable` and `UpdateMenuItem`.

Simplifications:

* `POST /orders/sync` is its records one after the other, each a `CreateOrder`.
* A request that is refused, or answered from what is stored (the repeated
  `client_request_id`), is no step.
* Item statuses are free strings in the code; every one but "ready" and
  "served" behaves like "pending" and is represented by it.
* An item mentioned twice within one check of a split is mentioned once, with the sum.
* Rows of one split share `created_at`; which of them is "the first order" of the
  next split is then open (`Newest`).
* What a manager may do against the workflow, moves of an order to its own table,
  and splits that leave items out are switched by `Overrides`, `SelfMoves` and
  `PartialSplits`, since several properties hold only without them.

### Pos

`request[r]` is what a running request has read and is about to write; a
handler is a `Begin...` step that reads and decides and an `End...` step that
commits. `Loops` are event loops, one per API process, each with at most one
request; `Threads` are thread-pool requests. `create_payment` has three steps
because it reads the open shift before the order (`BeginPayment`,
`CheckPayment`, `EndPayment`). The unique index on `payments.order_id` makes
the second of two commits fail (`EndPayment`). `EndStatus` writes over whatever
the row says by then, as the code does.

Money is an integer number of hundredths, a percentage an integer number of
hundredths of a percent, and `Rounded` rounds half to even as
`Decimal.quantize` does. Order totals are constants here (their origin is the
subject of `Orders`); `max(0, ...)` in the final amount never binds because the
discount is capped. The received amount only guards. Refunds are kept as their
sum. Events, notes and the read-only shift report are left out. Several reads
of a request after the shift are one read; READ COMMITTED allows more.

### PrintQueue and PrintJobs

`jobs` and `leases` are the two tables (a lease per job, `job_id` being
unique), `active` the devices switched on, `holding` what each agent knows it
works on, `request` an agent's request in flight. `BeginClaim` reads the
expired leases, `FindJob`, the second read of the same request, the oldest
queued job, so that any other commit may fall between; `CommitSweep`,
`CommitClaim` or `RefuseClaim` ends it. `BeginReport` checks the lease; `CommitFinal` or
`CommitHeartbeat` writes. `FailRequest` is a request that dies before its
commit, `Abandon` an agent that crashes or gives up, `Tick` the clock.

Details of SQLAlchemy that matter:

* A flush inserts before it deletes. A claim for a job that has any lease row,
  even an expired one that the same claim deletes, meets the unique index and
  is rolled back whole (`RefuseClaim`).
* Autoflush is off: jobs that a claim requeues are not found by its own query,
  unless another request has committed them as queued between the two reads.
  Then the claim sets the status from `processing` to `queued` and back, which
  is no change, and the row stays queued with a lease (`Claimed`).
* Deleting a row that is gone only warns; updating one raises `StaleDataError`
  and rolls the request back (`CommitHeartbeat`).

Simplifications: a date is the number of ticks left until it or since it, so
that time is unbounded and the state finite; a lease token may be drawn again
when no row, agent or request refers to it any more; creation times of jobs are
distinct and in the order of their ids; the staff handlers are single steps,
since they decide on nothing they read; error messages, `processed_at`, device
metadata and payloads (but for `retry_count`) are left out. Agent tokens are
constants, as no handler revokes one. Agents are external programs: they may do
whatever the interface allows, one request at a time each.

`PrintJobs` says, of each job: it is submitted, taken with a ticket nobody else
has, given back or finished by the holder of the ticket, and never touched
after that. `PrintQueue!KeepsPromise` instantiates it with the status column
as `state` and the token of the lease row as `ticket`. The queue keeps this
promise only while agents' requests do not overlap and staff leave the
statuses alone (`print_orderly`); with overlapping requests a stale report
overwrites the status of a job that has been leased anew
(`peripherals.py:255`), and what holds then is `LeaseIsHonoured` and
`OneAgentPerJob`.

### Client

`db` is the server's orders; `store`, `board`, `auth` are `state.orders`,
`state.kitchenBoard` and the token; `net` is the requests under way, each
with the status its user saw and, once handled, the answer; `sock` is
`wsRef.current`, `dying` the closed sockets whose `onclose` has not run,
`timers` the 5-second timers those start. A request is sent by a button
(`ChangeStatus`, `UpdateItemStatus`), a login (`Login`, `Reload`), an event
(`Requests`) or the kitchen's interval (`Poll`); `Answer` or `Failing` handles
it, with the event its change causes; `Deliver` runs what follows the `await`,
the reducer included. `OtherDevice` and `SplitElsewhere` are other devices.
What a load answers depends on the role of who asks (`Listed`): the kitchen is
given the orders on its board, a waiter his own, a manager all; events reach a
waiter only for his own orders (`Concerns`).

`lost` is a ghost: the orders whose copy the code does not promise to be right.
The client was not told of a change, because the socket was down, a read
failed, an item change failed after it was shown (the code takes it back only
when the order is read again), or another device split the bill (no event names
the orders a split cancels); or two answers about the order were handled in
another order than they were asked (`Crossed`), arrived in another order than
that, or belong to the load of a user who has left (`Overtaken`). A read that
is answered takes the order out again.

Simplifications:

* `Login` is one step: the login request itself touches no order.
* A load asks for orders and, for the kitchen, its board; tables, menu, shifts
  and payment lists are copies that no button here depends on, and left out.
  So are toasts, sounds, the board a manager may open, and the waiter's board.
* The dialog in which the kitchen confirms a cancellation is disabled while its
  request runs; the model also lets it be tapped twice.
* A token that expires and is refreshed is a request that takes longer or fails.

### SplitEditor and Bill

`SplitEditor` holds `checkQtys` as a sequence of functions from items to units,
and one operator per editing function of `TableSession.tsx`. `Bill` adds the
screen (`screen`, `dialog`, `selected`, `received`, `processing`), the browser's
copies (`seen`) of the server's orders (`srv`) and `jobs`: a run of `pay`,
`payAll` or `confirmSplit` with what its closures captured at the click. A job
posts, reads what it changed, and goes on to the next order (`Posted`, `Read`,
or `PostFails`, `ReadFails`); `own` says whether the screen that started it is
still mounted, since otherwise its `setState` calls do nothing.

Simplifications:

* A POST and its answer are one step, likewise a read and its answer; other
  devices step between them. An event that would change nothing counts as
  followed up.
* Orders here are cooked, so that the server refuses a payment only for a status
  that is not active, an amount that is too low, or one that has more than two
  decimals; discounts are none, since no screen adds one at the table.
* Amounts sent are in tenths of a hundredth: the sum of a total and its service is
  exact, or a little above or below (`Noise`), which is all that the check for two
  decimals and the comparison with the bill tell apart. For which totals the
  doubles do that is a constant (`SumsAbove`, `SumsBelow`), and likewise the
  half hundredths `Math.round` does not round up (`TiesLost`); the theorems hold for any.
* The units of an order never change: no route of the client reaches the edit
  of a stored order. Splits by other devices are left to `Client`.
* A payment that is not in cash is one with nothing typed as received.

### OrderForm

One table. `cart` is the lines of the form shown, `sends` the requests, `own`
whether their form is still mounted, `sending` the disabled button. `wanted`
counts the units entered and not taken back, so that it can be compared with
the form and the `kitchen`. Two ghosts name what the code does lose: `slipped`
holds dishes that were touched while their form was being sent, or whose form
was closed then, or closed by the late answer of another one; `torn` the dishes
of orders that were saved although the waiter was told they failed.

Simplifications: menu search, priorities, guest names and notes of a whole
order are left out; a table card opens the session when the browser lists
active orders of the table, instead of comparing the status column.

## 3. What TLC checks

| Run | Instance | Question |
|---|---|---|
| `orders_floor` | 2 waiters, a cook, 2 tables, 2 orders, a request key | Do repeated requests, edits, moves, item updates and splits keep one order per request (`OneOrderPerRequest`), tables occupied exactly while used (`OccupiedWhileActive`, `FreeWhenDone`), and no order going back (`NeverBackwards`)? |
| `orders_office` | a manager who may override everything, a cook, 2 orders | Are stamps and events right on every path (`StampsFollowStatus`, `UnloggedOnlyBySplit`)? |
| `orders_split` | a manager, 3 orders, 2 prices | Do totals follow the stored lines, and does a split keep what a table owes (`BilledAsListed`, `SplitKeepsOwed`, `TypeOK`)? |
| `pos_desk` | 1 process, 2 threads, 2 orders at a table | Is the table occupied exactly while it has an active order (`TableFollowsOrders`), and by how much can overlapping refunds exceed the payment (`RefundsBounded`)? |
| `pos_bills` | 2 processes, 1 thread, 3 discounts of 3 kinds on an odd total | `PaymentsAreFinal`, `DeductsRecordedDiscounts`, `FairBill`, `TypeOK` |
| `print_races` | 2 agents with overlapping requests, staff requeueing, 2 jobs | `LeaseIsHonoured`, `OneAgentPerJob`, `TypeOK` |
| `print_orderly` | 2 agents one after the other, 2 jobs, lease of 2 ticks, 1 retry, fair | `KeepsPromise`, `NoIdleDevice`, `NothingStuck` |
| `client_live` | 1 browser used by two waiters and a cook, 1 order of 1 item, 3 moves, fair | Do only logins add connections, and does the connection settle (`CalmReconnect`, `SocketSettles`), do list and board end up as the server lists them (`StoreFollows`, `KitchenHeals`), does a button act on the status its user saw (`SeenIsMoved`, `TypeOK`)? |
| `bill` | 2 units of one dish at 0.65, 10 % service, an order of one unit that comes later, 3 checks, 2 jobs, 1 move | Are units conserved (`UnitsConserved`, `SplitKeepsUnits`), do amounts cover what the server asks, but for sums that doubles get wrong (`AsksTheBill`, `ReceiptNearCharge`), does the screen leave only a paid table (`SaysPaidWhenPaid`) and release its buttons (`OneJobPerScreen`, `TypeOK`)? |
| `order_form` | 2 dishes, 2 notes, 2 units, 2 orders, 1 failure | Is what was entered on the form or in the kitchen (`NothingLost`), and is no form sent twice at once (`OneSendPerForm`, `TypeOK`)? |

Two runs look for behaviour the documentation excludes, and find it:

| Run | Statement | What the code does |
|---|---|---|
| `print_heartbeat_doc` (`HeartbeatKeepsJob`) | backlog: the lease/heartbeat keeps two agents from processing the same job | the heartbeat extends nothing (`peripherals.py:266`) |
| `form_retry_doc` (`SentOnce`) | README.md:276: "Each offline order must have a stable `client_request_id`." | `createOrder` draws a new id for every attempt, so an order sent again after a lost answer is cooked twice (`store.tsx:400`) |

### Further divergences the models contain

These are behaviours of the models that no listed run isolates; each was seen
by stating the documented or expected property on the same modules.

In the backend:

* A move of an order to its own table occupies the table and then frees it
  (`orders.py:363`); `OccupiedWhileActive` needs `SelfMoves = FALSE`.
* The status route marks orders paid without shift or payment
  (`orders.py:425`, against POS_PRODUCTION_BACKLOG.md:52, "New paid orders are
  blocked when no shift is open").
* Two refunds at once are both accepted (`pos.py:249`) although together they
  exceed the payment, which `pos.py:251` means to refuse. `RefundsBounded` says
  how far this goes: each refund by itself is within the payment, so in all they
  are within one payment per thread.
* A leased job put back to `queued` by staff blocks its device for ever
  (`peripherals.py:230`), against PRODUCTION_RUNBOOK.md:72. A claim that finds a
  job which it has itself requeued, because another claim committed between its
  two reads, leaves the job in the same state: queued, with a lease
  (`peripherals.py:206-229`). If its agent then dies, the device is blocked too.
* A report that was checked before its lease ran out overwrites the status of the
  job after another agent has been given it (`peripherals.py:255-257`).
* A split writes no event for the orders it cancels and creates; README.md:272
  promises one for every status change. `UnloggedOnlyBySplit` shows that
  nothing else does this.
* A split whose checks are all empty cancels every order of the table and
  leaves the table occupied, against README.md:270.
* Marking all items served takes a pending order straight to `served`, for any
  role, against the workflow of README.md:258-261; `Onward` allows for it.
* Two `open_shift` requests at once both open a shift (`pos.py:62`).
* A discount decided on before a payment is stored after it, on a paid order
  (`pos.py:128`).
* A payment that read the open shift commits after the shift was closed, and
  is booked on it (`pos.py:157`; `tests/test_pos_workflows.py:76` expects 409).
* With two processes, a stale status change overwrites `paid`
  (`orders.py:415-416`, against `TRANSITIONS` at `orders.py:47`). In one process
  the handlers are atomic and this cannot happen, so no property is spent on it.
* With two processes, the last two orders of a table are cancelled at once,
  each request still sees the other order, and the table stays occupied.

In the client:

* A user who logs in within five seconds of a logout starts a chase: the timer
  of the old socket closes the new one, whose close starts a timer, for ever
  (`store.tsx:252-260`). `CalmReconnect` shows that it takes a login to add a
  connection; `SocketSettles` excepts a browser that has more than one (`Chains`).
* An answer that overtakes a newer one leaves the older state in the list
  (`store.tsx:268`) until the next event of that order; so does the load of a
  user who has logged out and whose answer reaches the next one. `lost` records
  these orders.
* Total and service are added as doubles (`TableSession.tsx:739-742`), and the
  sum is sent as it is. 0.05 + 0.01, 1.30 + 0.13 and 8.70 + 0.87 are
  0.060000000000000005, 1.4300000000000002 and 9.569999999999999, which
  `decimal_places=2` (`schemas.py:385`) refuses with a 422: such an order
  cannot be paid exactly, only with a larger amount in cash, and `payAll` stops
  at it. Totals in whole units of the currency are not affected. The
  service of 0.35 is 0.03, not 0.04, since 0.35 * 0.1 * 100 is a little less than
  3.5; there client and server agree, as the server takes the fee it is sent.
* When another device splits a bill, no event names the cancelled orders; they
  stay in the list until it is loaded again (`orders.py:540-545`).
* The manager's "paid" button on a stale row overrides whatever status the order
  has by then, since managers bypass the workflow; `SeenIsMoved` excludes it.
* Dishes added while a form is being sent are dropped when the answer comes
  (`TableSession.tsx:257`), and the answer of a new order changes the route
  whichever screen is shown by then (`OrderCreate.tsx:96`).
* An order that arrives while the split editor is open is cancelled by the split,
  and its dishes are on none of the new checks (`TableSession.tsx:663`,
  `orders.py:468-535`).
* The list after a split is rebuilt from the copies of the click and undoes
  events that came meanwhile (`store.tsx:445`).

### Bounds

Constants whose comment says "bound" limit rows ever stored, lines per cart,
quantities and retries; they appear as guards. Two orders at one table are
enough for "another order is still active", three for a split of a split; two
of a kind of actor are enough for every race here, since each race is between a
reader and one writer. In `pos_desk` two threads let two refunds overlap;
orders of 5 and 3 with a fee of 1 are due 3 to 6, so that 2 does not cover them and
9 does, and two refunds of 3 that overlap exceed a payment of less than 6. In `pos_bills` the total 5 with 50 % and 33.33 % meets
both sides of a rounding and its tie, and three discounts exceed the total. In
`print_races` a lease of one tick makes every expiry race with a claim and a
report; seven tokens are more than two agents can refer to at once, so
`FindJob` is never blocked for lack of one. The printer stays switched on there (`Switchable`): a
device that is off only keeps requests from starting, so it adds nothing that could violate
an invariant. In `print_orderly` a lease of two
ticks separates a heartbeat from its expiry. Symmetry is used on users, tables, processes and agents, only in
runs without liveness properties.

In `client_live` three moves allow a login, a change by a user or another device,
and a failure of the socket or a request, or the logout and login that start a
chase; requests the client sends by itself cost none. The order is the first
waiter's, so that the second one and the cook are shown other lists. In `bill`,
four orders are the opening one, a newcomer and two checks of a split; three
checks make a non-primary check that is neither giver nor taker; two jobs are one
that a closed screen left behind and one of the screen that was opened next. At
0.65 with 10 % the service of one unit is a tie of the rounding, and the sum for
two units, 1.30 + 0.13, is one that doubles get wrong. In `order_form` two orders are a send and its retry, or one from
each form.

### Deadlock

The order and cash-desk runs switch the deadlock check off: when all orders are
closed and the bound on rows is reached, nothing is left to do. The client runs
switch it off too: when the moves or orders are used up and everything is
answered, a browser with nobody at it stands still. In the print queue the
clock never stops.

### Fairness

Only `print_orderly` and `client_live` assume any. In `PrintQueue!Fairness`:

* `WF(Tick)`: time passes.
* `SF(BeginClaim(a))`: agents poll in a loop; a device that is switched off now
  and then, or another agent's request in the way, does not keep an agent from polling
  for ever.
* `SF(FindJob(a))`, `SF(EndClaim(a))`, `SF(EndReport(a))`: a request may fail any number of times
  (`FailRequest`), but one that is repeated again and again gets through in the
  end. Without it, a server that dies in every request satisfies nothing.
* `WF(Abandon(a))`: no agent works on one job for ever; it crashes or finishes.

Nothing is assumed of staff, of reports being sent, or of devices being
switched on; both liveness properties except the devices that are off.

In `Client!Fairness`, all weak: sockets that are connecting open
(`SocketOpens`), the browser runs callbacks and timers (`OnClose`,
`Reconnect`), the kitchen's interval goes on (`Poll`), the oldest request under
way is answered or fails, and what was answered to it reaches the store; later
ones may be answered and delivered before it. `SocketFails` competes with
`SocketOpens` and uses up moves, so a network that never stays up is excluded by the bound and
not by the fairness. Nothing is assumed of users and other devices.

## 4. What is proved

All theorems are for any number of users, tables, orders, processes, threads,
agents, devices, tokens, dishes and jobs, any prices, and any bounds, from the named assumptions on the
constants (roles are disjoint, `None` is no value, bounds are numbers, a table
has finitely many dishes). The bounds occur in the guards, and the theorems
hold for each value of them.

Every invariant and every step property that a passing run checks is among them,
but not the specification `KeepsPromise`, which holds only under the conditions
of its run.

| Theorem | Says | Beyond `Spec` it assumes |
|---|---|---|
| `RowsAreTyped` | order, table and menu rows keep their types | |
| `StampsAlwaysFollowStatus` | `[]StampsFollowStatus` | |
| `RequestsMakeOneOrder` | `[]OneOrderPerRequest` | |
| `OrdersNeverGoBack` | `NeverBackwards` | no overrides |
| `ActiveOrdersOccupyTables` | `[]OccupiedWhileActive` | no overrides, no self-moves |
| `OrdersChargeTheirLines` | `[]BilledAsListed` | |
| `OrderTypes` | `[]TypeOK` of the orders: no total is negative | |
| `TablesAreFreed` | `[]FreeWhenDone` | no overrides, splits leave nothing out |
| `OnlySplitsAreUnlogged` | `UnloggedOnlyBySplit` | |
| `SplitsKeepDebts` | `SplitKeepsOwed` | splits leave nothing out |
| `PaymentsNeverReplaced` | `PaymentsAreFinal` | |
| `DeductionsAreRecorded` | `[]DeductsRecordedDiscounts` | |
| `RefundsAreBounded` | `[]RefundsBounded` | |
| `OneProcessKeepsFloor` | `[]TableFollowsOrders` | one process, no overrides |
| `DeskTypes` | `[]TypeOK` of the cash desk: no amount is negative | |
| `BillsAreFair` | `[]FairBill` | |
| `TypesHold` | `[]TypeOK` of the print queue | |
| `LeasesAreHonoured` | `[]LeaseIsHonoured` | |
| `OneAgentWorksOnAJob` | `[]OneAgentPerJob` | |
| `StoreTypes` | `[]TypeOK` of the client | |
| `ReconnectIsCalm` | `CalmReconnect` | |
| `ButtonsActOnWhatIsSeen` | `SeenIsMoved` | |
| `FormsSendOnce` | `[]OneSendPerForm` | |
| `FormTypes` | `[]TypeOK` of the order form | |
| `NothingIsLost` | `[]NothingLost`, which names the dishes the code does lose or double | |
| `ButtonsMatchJobs` | `[]OneJobPerScreen` | |
| `PaidMeansPaid` | `SaysPaidWhenPaid` | |
| `BillTypes` | `[]TypeOK` of the payment screen | |
| `EditorConserves` | `[]UnitsConserved` | |
| `JobsAskTheBill` | `[]AsksTheBill` | |
| `ReceiptsAreNear` | `[]ReceiptNearCharge` | |
| `SplitsKeepTheBill` | `SplitKeepsUnits` | |

The arguments:

* **Orders.** A lemma per action says what becomes of a single row
  (`UpdateRowStep`, `StatusRowStep`, `ItemRowStep`, `CreateRowStep`,
  `SplitRowStep`), `OldRows` and `NewRows` put them together, and the theorems
  read off them. Occupied tables are inductive by themselves: a table is freed
  only when no other active order is there.
  For totals the sum stays opaque: each step writes the total of the same lines
  it stores (`TotalsFollow`). Orders have items (`ItemsThere`), so a split that
  shares out everything fills a check and its table keeps an active order. What
  a split keeps is a sum over a table: its rows are the new checks, its columns
  the old lines, each with its quantity shared out; the new totals add up the
  rows, the old ones the columns (`SumSwap`).
* **Pos.** `Shape` types the requests. Deductions: what a payment in flight
  has computed is also the total of a recorded prefix, and the record only
  grows (`RecordGrows`). Refunds: those on record and those in flight together
  are at most one payment for every thread. A refund was checked against what was
  on record when it was read, so by itself it is within the payment; while the
  others are in flight, or after they have committed, the sum over the threads
  bounds them all (`RefundsFit`). The floor: `FloorInv` adds `ReadsAreCurrent`, that in one
  process what the running coroutine has read is still what the rows say; that
  is exactly what fails with two processes. Fairness of bills: a payment adds up
  (`BillsAddUp`) and deducts a recorded prefix; each discount is rounded by at
  most half a hundredth, so their sum is off by at most as many halves as there
  are discounts, before and after it is capped by the subtotal (`TotalIsClose`).
* **PrintQueue.** Types are inductive only with `JobsExist` (leases and claims
  are for stored jobs). Leases: `Honest` adds that tokens tell everything
  apart (`FreshClaims`, `HoldersDiffer`) and that a lease which a claim has read
  as expired, if it is still the same row, is still over (`ExpiredIsOver`); so a
  delete by row never hits a lease that runs, however stale the claim.
* **Client.** The connection: `ConnInv` says that nobody logged out has a live
  socket, so a login never closes one, and that whoever is logged in has a
  connection or a way to one; a timer that meets a live socket trades itself
  for that socket's close, and all else ends one connection or keeps the count. Buttons: `IInv` says of every request of a button that the status
  it sets follows, in `TRANSITIONS`, the one its user saw. The workflow is
  acyclic, and each status but `cancelled` has one predecessor
  (`OneWayThere`); so if the server accepts the request, the order still has that
  status, or the request cancels. `Exist` adds that requests name stored
  orders, so that copies are never taken from nothing.
* **OrderForm.** `OneSendPerForm` is inductive once `sends` is known to be a
  sequence of sends: a form left orphans its sends, and a send starts
  only when none is its own. `NothingLost` needs `Counted`: a request of the
  form shown asks for exactly what the form still shows (`SendsAccounted`), and
  what is wanted is in the kitchen or on the form, the latter until the form's own
  request has been saved (`DishesAccounted`). Dishes that slipped or were torn are
  excepted: they are what the code does lose or double (section 2), and the theorem
  says that it loses and doubles no others.
* **Bill, buttons.** `OneJobPerScreen` is inductive with the shape of jobs (`JobsOK`).
  `PaidMeansPaid` needs `PaidFor`: of a payment that would leave the screen,
  whatever it listed and has no longer to do is paid on the server; a paid
  order stays paid, whoever else acts.
* **Bill, amounts.** `BInv` says what makes a stale screen harmless. The server
  gives out ids in order (`ServerRight`), and an order's units never change; so
  a copy may be late about a status, never about units (`Knows`), and whatever
  a job or the editor computed from copies stays right (`KnownStays`): a
  payment asks for fee and amount of its order (`Asked`), the amount being as far off
  as the doubles make it (`Noise`), and checks, in the
  editor or under way, share out every unit of the orders they were made of
  (`SplitRight`). Every editing function moves units between two checks
  (`ExchangeKeeps`), or adds or merges one. `SplitKeepsUnits` counts the units
  of a dish twice more: the new orders are the checks (`ChecksAreOrders`), the old
  ones the items (`ItemsBalance`), rows and columns of one table (`RowsBalance`).
  The receipt multiplies out: each order is rounded by at most half a hundredth, and
  so is their sum (`ReceiptNear`).
* **Sums.** `SumLemmas` proves from the definition of the community modules' fold
  what the above needs. The induction theorems of the library take an operator as
  parameter, which the installed provers cannot instantiate; induction here is
  over a set of subsets instead, by the well-foundedness of the strict subset
  relation on a finite set (`FiniteInduction`). `Bill!Splits` and the sums of `SplitEditor` and
  `OrderForm` are a recursive function and `SumFunction`, so that these lemmas apply.

Only model-checked: liveness under fairness (`NoIdleDevice`, `NothingStuck`,
`SocketSettles`, `StoreFollows`, `KitchenHeals`), which is outside the reach of
the prover, and `KeepsPromise`, which holds while requests do not overlap. The
two documented statements the code does not keep (`HeartbeatKeepsJob`,
`SentOnce`) are refuted by their runs.

## 5. Not modelled

* **Staff sessions** (`auth.py`, `users.py`): tokens concern no other state;
  roles appear as guards. Two races are visible in the code: two refreshes with one
  token both succeed (`auth.py:138`), and a refresh that commits after a
  password change keeps its session (`auth.py:191`).
* **Login limiter and revocation** (`auth_state.py`): counters in Redis with an
  expiry. A crash between `incr` and `expire` leaves a counter without one
  (`auth_state.py:37`).
* **Server side of the events** (`realtime.py`): `Client` has an event either
  delivered to an open socket or lost. A Redis listener that dies
  (`realtime.py:62`) is, to the browser, a socket that stays silent.
* **Several processes with one `client_request_id`** (`orders.py:132`): both find
  no order, and the unique index refuses the second with an uncaught error.
  `Orders` handles repeated requests within one process. The unique table
  number (`tables.py:81`) behaves likewise. Closing a shift twice at once
  (`pos.py:107`) keeps the second closing cash; the shift report
  (`pos.py:275`) only reads.
* **Screens**: `OrderDetails.tsx` and the edit mode of `OrderCreate.tsx` are
  reached by no route of `App.tsx`; the manager's menu, table, staff and
  statistics screens and the kitchen's history show lists and forward forms.
* **Analytics, configuration, logging, metrics, migrations, seed data, the admin
  command, deployment**: read-only, or run alone.

## 6. Running

`tlc -config MCOrdersFloor.cfg MCOrders.tla` and likewise for the other
configurations; `tlapm OrdersProofs.tla` and likewise for `PosProofs`,
`PrintQueueProofs`, `ClientProofs`, `BillProofs`, `OrderFormProofs`,
`SeqLemmas` and `SumLemmas`. The longest run takes about three minutes on two workers.
