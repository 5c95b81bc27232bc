# SokoSuperApp in TLA+

SokoSuperApp is a Go API server and worker (`src/cmd`, `src/internal`) with a
React Native app (`src/mobile`).  This directory holds TLA+ models of the parts
of it whose correctness depends on the order in which things happen, TLC
configurations that check them, and proofs for TLAPS.

Shorthand below: `delivery` is `src/internal/delivery/handler.go`, `shopper` is
`src/internal/shopper/handler.go`, `paystack.go` is
`src/internal/webhooks/paystack.go`, `processor.go` and `ticker.go` are in
`src/internal/worker`; screens are under `src/mobile/app`, stores and services
under `src/mobile/src`.

## 1. The system

```
 mobile app ──HTTP──► API server ──► PostgreSQL: account, shopper, delivery,
  screens ▲ ▲            │  ▲                    susu, sokoindex, bank (one
  stores  │ └─WebSocket──┘  │                    database each, no transaction
          │ push            │ charge.success     spans two of them)
          └────── Expo   Paystack ◄── checkout page, in a web view of the app
                         Redis queue (asynq) ──► worker
 SokoWeb (staff, another repository) writes the same databases
```

The API server handles every request in a goroutine of its own.  A handler
reads rows, often calls Paystack for up to fifteen seconds, then writes; few
handlers use a transaction, a lock or a conditional update.  Tickers in the
server sweep the tables.  The app is one thread, but each `await` in a handler of
a screen lets taps, timers, pushes and other answers come between; the closure
that goes on then writes into a screen that may show something else, or nothing.

What makes the system hard is therefore: two handlers between whose read and
write another one comes; whole rows and whole screens' states written from a
stale copy; webhooks, pushes and answers that are lost, late or repeated; a
restart or a failing call between two statements; money that has moved at
Paystack while a row here has not.

### Components

| Component | State | Operations | Interacts with | Must be correct | Modules |
|---|---|---|---|---|---|
| Parcel payment | `delivery_orders.payment_status`, `paystack_ref`; assignments; audit log | create order, fresh reference, checkout, verify, webhook | Paystack, queue, staff | paid only if charged; no charge disappears | `ParcelPayment` |
| Parcel dispatch | `delivery_assignments`, `driver_profiles`, `driver_earnings`, the job | auto-assign job and retries; accept, status, code, confirm; online, location; sweeps | queue, drivers' apps, staff | nobody's assignment taken; earns once; job ends; guesses bounded | `ParcelDispatch` |
| Driver cashouts | `driver_cashout_requests`, sums over two databases, advisory lock | request; paid or rejected by staff | both kinds of delivery, staff | never more than earned; always answered | `DriverCashout`, `CashoutLedger` |
| Shopper orders | `orders.status`, `paystack_reference`; `payments` | create, pay, verify, cancel, refund, webhook, tracking, sweeps | Paystack, staff, driver | paid only if charged; refunded only if Paystack accepted the refund | `ShopperOrder` |
| Shops, shop, cart | navigation stack, cart store, three screens, calls under way | browse, search, categories, sheets, add, take, empty | server lists | lines name their shop; list complete; cart is a basket; spinner ends | `ShopFront`, `Basket` |
| Checkout screen | form, web view, alerts, calls | create order, pay, verify, leave | shopper orders, Paystack | verifies its own order; empties the cart only when paid; answers shown | `ShopperCheckout` |
| My Orders, Track Order | copies of rows, polls, sheets | list, cancel, refund, delete, track, code, rate | shopper orders, driver | offers accepted; the current code comes up; rating shown | `OrderScreens` |
| Parcel screens | booking form, pickers, lists, sheet, payment pages | book, pay, list, track, rate, complain | parcel payment | region fits country; every payment page is verified | `ParcelApp` |
| Driver dashboard | lists, sheets, code entry, five-minute lock | load, accept, move, generate and enter the code | parcel and shopper deliveries | handed over by code; the list catches up | `DriverJobs` |
| Location sharing, pop-up, earnings | location store, watches, task, pop-up, form | start, stop, announce, cash out | online state, cashouts, sign-out | Live means watched | `DriverDesk` |
| Sign-up, sign-in, codes | account, code rows, lock; five screens | register, verify, resend, login, forgot, reset | mail | unverified accounts stay known as such | `SignIn` |
| Stored session | secure store, memory, late updates | sign in and out, reload, profile, photo, KYC status, delete | server, restarts | requests carry their session's token | `Session` |
| Identity form | number, picture, scans, submission | pick, scan, submit | session | a flag belongs to its card | `IdentityForm` |
| WebSocket channel | hub's connection, the app's socket and timers | connect, replace, break, reconnect, push | hooks, sign-in | the user has a socket again and again | `Realtime` |
| Shopper deliveries, savings groups, SokoIndex, stores, prices, request gates, notifications, … | – | – | – | – | not modelled, section 6 |

`PROJECT.json` lists each with its sources, and the hazards of the code line by
line.

## 2. Plan

Done, in the order of the plan: money on the server (`ParcelPayment`,
`DriverCashout`, `ShopperOrder`), dispatch (`ParcelDispatch`), then the app that
drives them, screen by screen, then session, sign-in and the channel.

Left, the most important first:

1. `ShopperDelivery`: the handlers of shop orders' deliveries step by step; they
   take the place of the atomic `Server` steps of `OrderScreens` and `DriverJobs`
   and share the driver's availability with `ParcelDispatch`.
2. `SusuGroup`: approvals and contributions (hazard at `sokosusu/handler.go:373`).
3. `AuthSession`: rotation of refresh tokens (`auth/handler.go:697`), active-user
   cache.
4. A booking of SokoIndex as an abstract state machine with its handlers.
5. `ParcelSystem`: payment and dispatch over one assignment table.
6. Proofs: the safety of `Realtime` (which socket the hub has against which the
   app has), the bound of parcel assignments (`AssignmentsBounded`), and
   `VerifiedBeforeIn` for registrations whose code could be stored.

## 3. The modules

**Server modules.**  A request is a process (`Proc`) with a program counter and
the locals its handler keeps (`proc[p]`); one action is what happens between two
calls to a database, Paystack or the queue.  The first action of a handler is its
reads and early returns, each later one is a write with everything the code does
up to the next call.  A single SQL statement is atomic, as in PostgreSQL;
`db.Model(..).Updates` writes columns of one row, `db.Save` the whole row the
handler holds.

**App modules.**  One action is what the JavaScript thread does without an
`await`: a tap with everything its handler does up to its call, or an answer with
the rest of the handler.  Calls under way are members of a set, so answers come
in any order; each may fail, and where the server changes state it may have done so
though the answer is lost (`heard`, `ok`).  What a screen offers is an operator per
piece of its JSX (`RenderOrder`, `Sheet`, `Card`, `CartOffers` …): the taps it answers in
this state; the tap's action has that as its guard.  The server behind a screen
is a few atomic steps of the rows the screen reads; the interleavings inside its
handlers are the server modules' subject.

Identifiers are model values, amounts are left out where no property depends on
them, and time is a choice: a window may have passed at any moment.  Definitions
marked `Mutant` are wrong versions of the definition below them, plausible slips
of the code that the properties must notice; no specification uses them.

### Server

| Module | TLA+ | Code |
|---|---|---|
| `ParcelPayment` | `order`, `tx`, `asg`, `tasks`, `audit` | `delivery_orders`; Paystack's side; `delivery_assignments.order_id`; the queue; `audit_logs` |
| | `dropped`, `Log` | `audit.Log` is best-effort: an entry its insert refuses is a line of stdout, and the handler goes on |
| | `RequestDelivery`, `InitiatePayment`/`SaveFreshRef`/`OpenCheckout` | `delivery` 166, 318, 656 |
| | `VerifyDeliveryPayment`/`MarkVerified` | `delivery` 413: asks Paystack, then updates by reference |
| | `ReceiveWebhook`, `LookupOrder`, `MarkPaid`, `CheckExisting`, `CreateAssignment`, `EnqueueAssign` | `paystack.go` 25–233 |
| | `Pay`, `AdminCreateAssignment`, `Crash` | customer, staff in SokoWeb, a restart |
| `ParcelDispatch` | `PickDriver`, `AssignDriver`, `OccupyDriver`, `JobFails` | `ProcessTaskAssignDriver`, `processor.go` |
| | `AcceptDelivery` … `FreeDriver` | the driver's requests, `delivery` 943–1149, read and writes apart |
| | `ResetStaleOnlineDrivers`, `ResetExpiredDeliveryAssignments` | sweeps, `ticker.go` |
| | `earned[a]` | the drivers on the rows of `driver_earnings` for an assignment, in the order they were created |
| | `app[d][a]` | the status the driver's app last loaded, from which it derives the next: `UpdateStatus` may write what the row has long passed |
| `DriverCashout` | lock, four reads, decision, commit | `RequestCashout`, `delivery` 566–652 |
| `CashoutLedger` | earn, withdraw no more than is left, give back | what the above promises; the refinement maps what is earned to the parcel earnings plus the most the shopper share has been (`peak`) |
| `ShopperOrder` | `CreateOrder`, `CancelOrder`/`SaveCancelled`, `PayOrder`/`SaveReference` | `shopper` 53, 833, 909 |
| | `VerifyOrderPayment`/`WeighAnswer`/`ConfirmVerified`/`RecordPayment`, `RefundOrder`/… | `shopper` 1014, 744 |
| | `HandlePaystack`, `UpdateOrderTracking`, sweeps | `paystack.go` 76, `shopper` 1321, `ticker.go` |
| | `stray` | history: orders whose status a tracking request wrote that their driver's app does not send; the handler asks for no delivery row and no driver |
| | `SettleRefund` | an accepted refund is pending at Paystack and may still fail; the code looks at the answer's `status` only (`shopper` 803) |
| | `short` | orders whose total times 100 is cut off to a pesewa less (`shopper` 956) |

### App

| Module | State | Code |
|---|---|---|
| `ShopFront` | `stack` of mounted screens, `cart`, `shops`, `detail`, `basket` | `Shops.tsx`, `ShopDetailScreen.tsx`, `CartScreen.tsx`, the cart in `authStore.ts`, `gridRows.ts` (`ToGridRows`) |
| `Basket` | a bag of products | what the cart promises; `cart[p].qty` implements it |
| `ShopperCheckout` | `form`, `calls`, `alerts`, `order`, `charged` | `checkoutScreen.tsx`; a call keeps whether its screen is still the mounted one (`cur`) |
| `OrderScreens` | `rows`, `loads`, `acts`; `mode`, `view`, `polls` | `MyOrdersScreen.tsx`, `TrackOrderScreen.tsx`, `OrderOTPDisplay` |
| `ParcelApp` | `b` the booking, `t` the lists and the sheet, `polls`, `asked` | `delivery/index.tsx`, `delivery/track.tsx` |
| `DriverJobs` | `srv`, `d`, `loads`, `asks` | `DriverDashboardScreen.tsx`: jobs, sheets, codes |
| `DriverDesk` | `s` the location store at its awaits, `pop`, `m` | `driverLocationStore.ts`, `IncomingOrderPopup.tsx`, the dashboard's earnings card |
| `SignIn` | `acct`, `row`, `reset`, `mail`; `a` the app | `auth/handler.go`, `auth/verify_email.go` statement by statement; `login`, `register`, `verify-otp`, `forgot-password`, `reset-password` screens |
| `Session` | `disk`, `mem`, `op` the next of four writes, `late` updates | `authStore.ts`, `home.tsx`, `account/index.tsx`, the interceptor of `api/index.ts` |
| `IdentityForm` | `k` (number, picture, scans), `sent` | `kyc.tsx` |
| `Realtime` | `conn`, `svc` in the app; `serv`, `hub` on the server | `websocket.ts`, `useRealtimeUpdates.ts`, `ws/hub.go`, `ws/handler.go` |
| `MCAppScreens` | `part`: which component the behaviour is of | the components of which only safety is asked, checked in one run |

`Session` stores a session value by value: `WriteNext` is each awaited write of
`setAuth` or `clearAuth`, `SetInMemory` the `set` after them.  `SignIn`'s
`Register`, `Renew`, `StoreAndSend`, `Enter`, `Clear` … are the statements between
which another request may come; `Enter` is the update of the account, whose error
the code ignores, and `Clear` the delete that follows whatever it did.
`ResetPassword` takes its two statements as one step, as no other handler reads what
is between them.

`Realtime` keeps who closes what: each socket's close handler forgets the
service's current socket, whichever it is, and its error handler closes it
(`websocket.ts:58`); the hub closes the connection a new one replaces and a failed
write removes whichever the hub has (`hub.go:52`, `79`).

## 4. The runs

Each `<run>.cfg` belongs to the `MC...` module of its component.

| Run | Instance | Shows |
|---|---|---|
| `parcel_payment_safety` | 2 orders, 2 references, 2 assignments, 2 requests, failing calls (audit included), staff | paid and assigned only when charged; an answered webhook is accounted for, or `audit.Log` was called about it; paid is final |
| `parcel_payment_live` | 1 order, 2 references, 3 assignments, 2 requests, 1 restart, fair | every charge is settled |
| `parcel_dispatch_drivers` | 2 drivers, 1 assignment, 1 request, 1 failing call | the worker takes nothing from a driver |
| `parcel_dispatch_live` | 1 driver, 2 requests, 1 code attempt, 1 retry, 1 failing call or crash, fair | a confirmation begun after an earning earns nothing more; guesses bounded under overlap; every job ends |
| `driver_cashout` | 2 drivers, 2 requests, amounts of one unit, 1 restart, fair | never overdrawn; implements the ledger; every request answered |
| `shopper_order` | 1 order, 2 references, 2 requests, each may stop anywhere, tracking requests of anybody, refunds that settle or fail | paid only if charged, refunded only if Paystack accepted, stray tracking excepted |
| `shop_front` | 3 shops (one closed, one foreign), 3 products, 2 categories, fair | lines name their shop; lists and grids are complete; the cart is a basket; the spinner ends |
| `order_screens` | 2 orders, one moving, 2 codes, fair | offers accepted; the current code comes up; a rating taken ends the offer |
| `driver_jobs` | 1 parcel and 1 shop order, silent and visible loads overlapping, fair | delivery only by code; the list catches up |
| `app_screens` | checkout (2 products, 2 orders), parcels (1 own, 1 to pay), desk (2 watches, 2 stops), account (2 codes, 2 calls, 1 failing write), session (2 users), form (2 cards, texts misread or empty) | the safety of six components |
| `realtime` | 3 sockets, 3 connects in a sign-in, 2 sign-ins, 1 break, fair | a signed-in user has a socket again and again |
| `sign_in_unverified` | 1 account, 1 code, 1 fault | counterexample, on purpose |

`sign_in_unverified`: the comment where registration ends says that nobody gets
tokens before proving to own the email (`auth/handler.go:186`).  When storing the
code fails, the account has been committed without a code row, sign-in takes it
for one from before verification existed, and lets it in.

### Stated, refuted by TLC, and not runs

These are in the modules with their comments; each fails on what the code does,
and each says what the repository says of itself or what one would expect.

| Property | Module | What happens |
|---|---|---|
| `OneAssignmentPerOrder` | `ParcelPayment` | two webhooks of one charge both find no assignment; at most one per request (`AssignmentsBounded`, which holds) |
| `ReportedMeansPaid` | | verify answers success for a reference replaced meanwhile, and marks nothing |
| `AnsweredMeansQueued` | | after a restart between assignment and queue, the repeated webhook stops at the assignment |
| `AnsweredIsAudited` | | one outage loses the update and the audit entry, and the webhook is answered 200 |
| `DeliveredMeansEarned` | `ParcelDispatch` | a stop after `delivered` loses the earning |
| `AcceptsAssigned` | | accept writes by the row's key what it allowed from a copy: the row may have been swept, or be picked up, by then (`delivery` 943: "only works when status is 'assigned'") |
| `CarriedHasDriver` | | a stale app brings a swept row back to `picked_up`, which has no driver any more |
| `FlaggedMeansUnconfirmed` | `ShopperOrder` | `PayOrder` saves its stale row over the confirmation |
| `PaidAsAskedIsPaid` | | a pesewa less is asked for (19.99 → 1998), and verify refuses it |
| `RefundedMeansReturned` | | the row is marked when Paystack accepts the refund; one that fails later leaves it so, though the app says the money will arrive (`MyOrdersScreen.tsx:154`, `163`) |
| `ListsAreShown` | `ParcelApp` | rows of "To Pay" come without a status, and the card reads one |
| `CollectedMeansOnline` | `DriverDesk` | a start that fails at its last step leaves the watch running while the switch says Offline |
| `LiveIsAlwaysWatched` | | a second stop writes the store late, and forgets the watch of a start that has come between |
| `SharingStopsAtLogout` | | signing out on the home or account screen does not stop the sharing |
| `PushesArrive` | `Realtime` | two hooks open two sockets that replace each other in turn for ever; with one hook it holds |
| `FlagIsRight` | `IdentityForm` | a picture read wrongly, or as an empty text, flags the number that is on it |
| `UnmarkedIsPending` | `SignIn` | the update that marks the account verified fails, the delete does not: the account stays unverified without its row |
| `ProfileIsOwn` | `Session` | a late profile of the user before replaces that of the user now in |

Without the exception for `stray`, `PaidMeansCharged` and `RefundedMeansAccepted` are
refuted too: a tracking request may write any status to any order.

Seen while modelling and outside the properties: My Orders offers to cancel only in
a status the server never writes; the complaint box of Track Order needs a field the
server never sends; a detail answered late may leave an earlier code in the parcel
sheet until the next poll.

### Bounds

*Server.*  Two references per order are what a replaced reference needs, two
requests what an interleaving needs, three assignments what shows that two is a
bound and not the supply.  One restart, or one retry, puts a failure at any step
of one handler: the restart of the payment is in the live run, and in the safety run
every call may fail any number of times instead.  `MaxFaults` of `ParcelDispatch` counts failed calls and
restarts.  `Reported` is what tracking requests write: a status that counts as paid,
one of the driver's and `refunded`.  Amounts of one unit make two requests compete for the last of
it.  `MaxAttempts` 1 brings the limit of guesses within reach (the code has 5; the
bound is relative to it, and proved for any).  `shopper_order` has one order, for
size; that orders do not mix is proved for any number.

*App.*  `MaxPieces` 3 lets the cart hold each product once or one of them three
times; `GridThreshold` 1 and `GridColumns` 2 make cards and rows, full and not,
of a few shops.  `MaxAsked` counts calls under way when one more is made: two
overlap, of the same kind or not.  `Moving` is the order whose status changes;
the other is a row that stays, in a status of `Given`.  `TrackTab` is which tabs
are looked at.  `Overlap` FALSE opens Track Order only when no call of My Orders
is under way (the two write nothing of each other's).  `Carried` is the job the
driver has on the way at the start, so that both the beginning and the end of a
job are reached; `MaxSilent` and `MaxAsks` 1 let a background load overlap with a
visible one and with a call.  `MaxLate` is one update under way beside a sign-in or
sign-out; two were checked alone and hold.  `MaxFaults` is how many writes may fail
(codes not stored, accounts not marked), `MaxCalls` how many requests are at their statements at once.
`MaxWatches` 2 leaves a watch of a failed start beside one of the next, `MaxStops` 2
lets a stop tapped twice cross the next start.  `Blank` is a text that names no card.
Three sockets are one in the hub, one replacing it and one closing, three connects
the effects of a driver's session (two hooks and the dashboard's mount); a socket is
used again when both sides are done with it.

`app_screens` starts in any component and stays there, because the six share no
variable; `VIEW` shows only the one that moves, and drops what stands in the booking
form once no more can be booked.  Symmetry is used only where no liveness
property is checked.  `CHECK_DEADLOCK FALSE` is set where every reference,
assignment, sign-in or break of the instance may be used up.

### Fairness

* Handlers (`ParcelPayment`, `DriverCashout`): weak fairness of each request's own
  steps.  A Gin handler does not stop because the client went away, and every call
  it makes has a timeout.
* Webhooks: strong fairness of receiving one that is owed an answer.  Paystack
  repeats a webhook until it gets 200, and a request slot becomes free again.
* The advisory lock: strong fairness.  PostgreSQL grants it in order.
* The queue: weak fairness of a worker's steps.  asynq hands queued jobs to idle
  workers, and recovers a job whose worker died.
* `ShopFront`: weak fairness of an answer or an error for each call: the client
  gives up after its timeout.
* `OrderScreens`, `DriverJobs`: weak fairness of the timers that poll, which go on
  while the component is mounted; strong fairness of a poll's answer, since the
  network does not lose every answer for ever.
* `Realtime`: weak fairness of the effects that connect, the timers, the pushes being written and
  of each socket's opening, registering and closing, all of which the runtime
  does by itself.
* Not assumed: that anybody pays, taps, drives, signs in or reacts, or that sweeps
  and pushes come.

## 5. The proofs

`tlapm` proves, for every value of the constants that the assumptions allow, every
invariant and every step property that a run checks, and both refinements:

| Module | About | Theorems |
|---|---|---|
| `ParcelPaymentProofs` | `ParcelPayment` | `TypeCorrect`, `PaidOrdersAreCharged`, `AssignmentsAreCharged`, `AnsweredChargesAreAccountedFor`, `PaidStaysPaid` |
| `ParcelDispatchProofs` | `ParcelDispatch` | `TypeCorrect`, `GuessesAreBounded`, `WorkerLeavesDrivers`, `EarnsOnce` |
| `DriverCashoutProofs` | `DriverCashout` | `TypeCorrect`, `BalancesAreCovered`, `RequestsAreALedger` |
| `ShopperOrderProofs` | `ShopperOrder` | `TypeCorrect`, `PaidOrdersAreCharged`, `RefundedOrdersAreAccepted` |
| `ShopFrontProofs` | `ShopFront` | `TypeCorrect`, `LinesAreOfTheirShop`, `ListIsComplete`, `ImplementsBasket` |
| `OrderScreensProofs` | `OrderScreens` | `TypeCorrect`, `OffersAccepted` |
| `DriverJobsProofs` | `DriverJobs` | `TypeCorrect`, `DeliveredByCode` |
| `AppScreensProofs` | `MCAppScreens` | `TypeCorrect`; `ReferenceIsOfItsOrder`, `CartClearedWhenPaid`, `WaitingEnds`; `BookingsFitTheirCountry`, `LeavingAPageAsks`; `LiveMeansWatched`; `PendingUntilVerified`; `RequestsCarryTheirToken`; `FlagsAreOfTheirCard` |

Each rests on a theorem that its inductive invariant holds (`Invariance`, or
`...Invariance` where a module has several).

### Assumptions

Each module's `ASSUME`s, which TLC evaluates in the runs, and nothing else:

* bounds are numbers, and `None` is not an order, a product, a row and so on
  (`NoneAssumption` for the records of the app's screens);
* the requests handled at once, and the catalogue, are finite;
* `StatusAssumption`: the statuses the instance of `OrderScreens` gives its orders
  are statuses of the code's type;
* `HeaderAssumption`: a heading of the list of Shops is an object of its own
  (`__sectionHeader`), neither a shop nor a product.

### Server

**Parcel payment and shopper orders.**  No property is inductive by itself,
because a handler acts on what it read before.  `IInv` adds for each program
counter what the request may still rely on (`RequestOK`): a request that confirms
holds a reference that has been charged, for the order it is about to mark; one
that opens a checkout is the only holder of its reference; one that marks an order
refunded has had the refund accepted.  These facts are such that no step of
anyone else can undo them: charges, accepted refunds and what was logged, stored or
dropped, stay (`Evolution`),
what a step adds is justified by a charge (`Justified`), and the other requests
are left alone.  Each action is shown to be such a `SoundStep`.  A whole-row save is
sound for these properties because the stale row was awaiting payment: it can take
a confirmation back but cannot invent one.  A stray tracking request can, which is
why the two properties of orders except the rows it wrote; of payments rows, which it
does not touch, they hold without exception.

**Dispatch.**  A row that waits for a driver has none (`Unassigned`), and the
worker writes only rows that wait.  For the guesses, the counted ones are not
enough: `Guesses` counts with them the requests that have read the row below the
limit and are about to count, so that a request which begins pays for what it may
add.  A new code sets the count to zero and leaves those requests under way, which is
why the bound is the number of requests and not one.  `PaidOnce`
is about a request that read the row after an earning was stored (`late`): earnings
stay, so its lookup finds one and it frees the driver, and it comes to creating one
only if that lookup fails (`Knowing`).  Confirmations that overlap may each look
before either inserts, and both earn; the property says so and promises nothing of
them.  It needs nothing of drivers and statuses, and so holds when a status was
written back meanwhile.

**Cashouts.**  Between the lock and the answer, what a request has read so far
(`got`) is at most what the sums it stands for are worth now (`ReadingOK`): only the
holder of the driver's lock can make the sum of requests grow, and everything
else, a payout between two queries included, leaves at least as much.  From the
invariant every step is a step of the ledger or leaves it unchanged.

### App

**Shop front.**  What a screen shows of a product is under the shop that sells it:
the menu and the open product are of the shop of the detail (`DetailHolds`), each
suggestion names its product's shop (`BasketHolds`).  So whichever screen adds a
line, it is of its shop, though the suggestion is tapped when the cart it was asked
for has changed.  That the cart is a basket needs the line's quantity only; that
emptying it makes `cartCount` zero needs a sum over all products.

`ListIsComplete` is about what the lists compute.  `filter` divides a list
(`WithinDivides`), the two parts under their headings put together are the whole
(`SectionsAreWhole`), and filling the grid keeps two things at each item: the rows
written and the row being filled, joined, are the items so far, and a written row is
full or has a heading in it or after it (`PlaceShows`).

**Orders.**  `OffersAccepted` needs no more than the types: it compares what
each status offers with what the server accepts of it, for each status of the
chain.  The types themselves need that a closed screen polls nothing
(`PollsHolds`), since an answer writes into the view.

**Driver's jobs.**  The server takes "delivered" from the driver as it takes any
status.  That no tap sends it is a property of what the dashboard may have at
hand: what is listed, or on its way to be, was given to the driver (`ListsHold`),
and from none of the statuses of such a job does a tap ask for "delivered"
(`AsksHold`), however old the list is.

**Checkout.**  At most one call is of the mounted screen (`OneAtATime`), and while
it is under way the screen shows "please wait" (`CallsName`).  So when the
web view opens, reference and order in the form are of one attempt, though a
failed one leaves its reference behind: `FormNames` says so only while the view is
open, and nowhere else does it hold.

**Parcel screens.**  Whatever the screens hold of a parcel, a page, a row, a request
under way, the server has (`BookHolds`, `TrackHolds`, `AskedHolds`).  A region fits
because picking a country empties the region and regions are offered for one
country only; what was typed is sent as it was when the tap came.

**Location sharing.**  A start begins only when nothing is shared and shares at its
end; stops wait neither for it nor for each other, for the switch shows Live until one
of them has written the store.  What a stop left from earlier takes from a start, it
takes between the start's watch and its end (`crossed`): while none did, a start that
waits for its task holds its watch, and what is shared is watched (`Apart`).

**Sign-in.**  A code row goes away in three places, each of which comes after a right
code or is about to issue another one (`AccountInv`).  The account is then proved,
whether or not the update that marks it verified succeeded.  This needs that a reset
code belongs to an account that is there (`HasAccount`), and that no request which
was answered "ok" carried a wrong code (`CallHolds`).

**Session.**  A sign-in or sign-out under way has written its user's token before
anything else (`TokenWritten`), and nothing but these writes touches the token on
disk: whatever was left there by an interrupted one, the token is right when the
memory is set.

**Identity form.**  A scan that is still listened to is of the picture in the form, and
the text the form holds was read from it since it was picked (`TextIsOfPicture`); what
it reads is any text, or none.

**The app together.**  Each behaviour of `MCAppScreens` is a behaviour of each of its
components (`BehavesAsEach`), so a component's theorem holds of it.

### Induction

The library's induction theorems take an operator as their parameter, which the
provers here cannot instantiate.  Instead `ShopFrontProofs` takes a least
counterexample (`LeastNumber`, from the well-foundedness of the naturals, and the
ordering of finite sets for the sum) and states induction up to a number as a fact
about a set (`UpTo`).  A fold is a `CHOOSE` of a function that satisfies its
recursive equation: `FoldExists` shows that there is one, and from then on the
equation may be used.  `SelectSeq` is unknown to the provers, so the model writes
`filter` as a fold (`Within`).

### Only model-checked

Liveness, which needs ENABLED and fairness: `EveryChargeIsSettled`, `JobsEnd`,
`RequestsAnswered`, `SpinnerEnds`, `CodeComesUp`, `RatingIsShown`, `ListCatchesUp`,
`ReconnectsAlways`.  The type invariant of `Realtime` holds in its instance; it is
not proved.

## 6. Not modelled

* Shopper deliveries' handlers: their rows appear as atomic steps behind the
  screens.  Going offline and online during a delivery (`delivery` 1171) and a ping
  that arrives after going offline (1265) change availability there.
* Savings groups, SokoIndex (bookings, ratings at `booking.go:591`, the unlock
  payment at `payment.go:187`), refresh tokens, the active-user cache: planned, see
  section 2; their screens load, show and send one form at a time.
* Stores and catalogue, fees, geography, traffic and weather: listings, pure
  functions over floats and distances, calls to services.
* Formatting and validation of requests, text fields without a rule, maps,
  pictures, animations, push texts, audit and storage: no state depends on them.
* `DeleteOrder` hides an order from its owner's list; complaints and ratings write
  columns of their own.
* The growth of the reconnection delay, broadcasts to roles and expired tokens in
  `Realtime`; administrators' unlocking in `SignIn`; the server's erasure of a
  deleted account in `Session`, where its tokens stop at once.
* In `SignIn` only storing a code and marking the account may fail; its reads, its
  deletes and the counting of attempts succeed.
* In `ParcelApp` the server's answer always brings the page's reference with its
  address; without one, `delivery/index.tsx:122` asks nothing when the page is left.
* In `ParcelPayment`, an entry of `audit.Log` that its insert dropped is read by
  nobody: standard output is not modelled as a place staff look at.
* SokoWeb appears only through what it does to the rows.
* The clock: windows (five minutes to pick up or accept, three of silence, twenty
  for a payment) are choices, so the results hold for any length of them.
