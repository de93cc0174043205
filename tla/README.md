# Verification of tech-cell-server in TLA+

The repository is a shop's back end: a NestJS monorepo of eight services that
talk over RabbitMQ, keep their data in MongoDB and their locks, caches and
queues in Redis. This directory holds TLA+ models of its stateful parts, TLC
runs over small instances and TLAPS proofs for all instances.

    tlc -config MCCheckout_contend.cfg MCCheckout.tla     model-check one run
    tlapm CheckoutProofs.tla                              check the proofs

`PROJECT.json` lists the components, the runs, the lines each definition
models, the theorems, and every hazard with its line and the properties that
would notice it.

## 1. Inventory

| Component (source) | State | Operations that change it | What is hard | What makes it correct |
|---|---|---|---|---|
| Checkout, `apps/order/src/checkout-ord` | none of its own; orders, products, carts in MongoDB, `order_create:*` keys | `createOrder`; `vnpayIpnUrl`, `reGeneratePaymentUrl`, `cancelOrder` | parallel branches of one transaction, reads outside it, lock TTLs, failure of one branch, lost replies, crashes | an order is placed whole or not at all; units are conserved; the caller is told the truth; locks and sessions end |
| Locks, `libs/common/src/Redis/services/redlock.service.ts` | Redis keys with a TTL | `lock`, `unlock` (`extend` is never called) | expiry under a live holder | one holder per key; keys do not stay |
| Resources, `libs/resource/src/{orders,products,carts,abstract}` | the collections | `updateOrderById`, `updateProductByIdLockSession`, `updateCartLockSession`, `create` | whole-document writes of copies read before the lock | no lost update |
| Order management, `apps/managements/src/orders-mnt` | | `updateOrderStatus` | the same, against the customer and the gateway | only payers' orders are paid |
| Carts, `apps/order/src/carts-ord` | carts | `addProductToCart`, `deleteProductsCart` | one cart written by calls that run side by side; a second cart for one user | one cart per user holds what was last asked |
| Product management, `apps/managements/src/products-mnt` | products | create, replace, delete, delete a variation | whole-product writes without a lock against the checkout's | the stock a checkout took stays taken |
| Authentication and OTP, `apps/auth`, `libs/resource/src/otp` | users, codes, mail counters, tokens and their counters, `REQUIRE_USER_REFRESH` | register, verify, resend, sign in, refresh, forgot/change password | check-then-create; codes renewed before limits are checked; a key removed by whoever signs next | one account per address; every password is come by rightly; a token called in stays refused |
| User management, `apps/managements/src/users-mnt` | users | create, block, unblock, change role, update | whole-user writes, decisions on stale copies | roles and blocks are changed by people entitled to it; some manager remains |
| API gateway, `apps/api`, guards in `libs/common/src/guards` | none | routing, `AuthGuard`, `OptionalAuthGuard` | several looks at the clock and at Redis, one after the other | a handler runs only for whom its route admits |
| Notifications, `apps/communications/src/notifications` | notifications, BullMQ jobs, sockets | new order, status changed, read marks | at-least-once jobs, swallowed errors, colliding job ids | everyone concerned is told once |
| Mail, `apps/communications/src/mail` | | send | retry over three transports | no mail is given up before all were tried |
| Statistics and KPI, `apps/managements/src/{stats,kpi}-mnt` | cached revenue | read, refresh | a stale cache, failing queries taken for none, calendar arithmetic | numbers add up; revenue is as fresh as promised |
| Tasks, `apps/task` | images, backup databases | remove unused images, copy to backup | check-then-delete; delete-then-insert; overlapping runs | no used image is deleted; the backup is complete |
| Images, categories, attributes, discounts, `apps/managements/src/*-mnt` | one document each | create, update, delete | what products rest on may go | products refer to what is there |
| Search, address search, utility, third parties, common library | none | reads, calls outside | | |

Services interact by RPC over RabbitMQ. Every handler but three reads
acknowledges its message first and works afterwards, so a message that changes
anything is handled at most once and a crash loses the call. The checkout emits
`newOrderCreated`, order management `orderStatusChanged`, to the communications
service; the auth service emits mails to it, and is asked by every guard
(`verifyJwt`). Checkout, carts, product and order management, statistics and
tasks share the collections without owning them.

## 2. Modules

| Module | Models |
|---|---|
| `Redlock` | operators over a lock table: `Free`, `Acquire`, `Release`, `Holds`, `Expired` |
| `Checkout` | `createOrder` and everything it calls |
| `OrderLedger` | what the checkout promises: orders placed in one step |
| `OrderLifecycle` | one order afterwards: gateway, customer and staff |
| `Carts` | one buyer's cart: the cart service beside the checkout |
| `ProductsMnt` | the staff's products, categories, attributes and images beside sales and the removal of unused images |
| `UsersMnt` | the users collection: blocks, roles, creations, own updates |
| `Accounts` | the account of one mail address: registration, one-time codes, passwords |
| `Routes` | the gateway's routes with their guards, and what each service handles |
| `Sessions` | tokens, the key that calls them in, guards, the queue of a request: composes `Routes` |
| `Communications` | events, notification jobs, sockets, read marks, mails |
| `OrdersCollection` | the orders as others read them, and the calendar |
| `Stats`, `Backup` | statistics with their cache; the copy to two backup servers |
| `Reports` | composes `OrdersCollection`, `Stats`, `Backup` and the changes of orders |
| `MC...` | instances for TLC |
| `...Proofs` | theorems: of `Checkout`, `Carts`, `ProductsMnt`, `UsersMnt`, `Accounts`, `Sessions`, `Reports`; `AfterCheckoutProofs` has those of `OrderLifecycle` and `Communications`, what follows a checkout |

Operators named `Mutant_...` stand before the definition they alter. They are
plausible mistakes in that piece of code, used to see that each property
notices one; the specifications do not use them. `alone`, `before` and the like
are histories: variables the code does not have, which remember what a property
is about and which no guard of the code's steps reads.

### Checkout

An element of `Orders` is one call of `createOrder`; `pc` is where it stands:

| `pc` | Code (`checkout.service.ts`) | Actions |
|---|---|---|
| `review` | 206-259: payment, address, products, stock, fee, urls | `ReviewProduct`, `Reject`, `StartTransaction` |
| `lock` | 261 | `LockOrder`, `LockOrderTimeout` |
| `run` | 264-275: `Promise.all` of the insert, `reduceStock` and `removeProductFromCart`, then the commit | `InsertOrder`, the branch actions, `Commit`, `CommitUnknown`, `Abort` |
| `unlock` | 283-285 | `UnlockOrder` |
| `emit` | 288-296 | `EmitCreated` |

The branches go on by themselves, also after the call has failed: `at` walks
`reading` (546-568), `read`, `locked` (`update_product` or `update_cart` is
held), `wrote` or `erred`, `done` or `failed`. The product is read *without*
the session, so the copy is of committed data of any age; the write is in the
transaction. MongoDB is modelled by what the code relies on: a transaction's
writes are invisible until the commit and appear at once (`ApplyWrites`); a
write conflicts with a document another open transaction has written, or that
was committed since this transaction's first operation (`stale`); a conflict
aborts the transaction (`WriteRefused`); an aborted transaction refuses writes;
one that nobody finishes is aborted by the server (`TxnTimeout`).

The release of a lock fails unless every requested key was deleted. The keys
are collected in a `Set` of `ObjectId` objects, which are never equal; so an
order with two lines of one product asks for that product's key twice and its
release fails (`RepeatsKey`).

`removeProductFromCart` reads the cart by `getCartByUserIdOrFail`, which turns
every error into `null`; the branch then returns as if the buyer had no cart, and
the order commits with its items left in it. `ReadCart` has that outcome beside
the two others, at any time; the history `unread` remembers the calls it
happened to, and `CartCleared` is about the others.

Left out: texts, prices, fees, the address, the payment url (their failures are
`Reject`), and the staff's writes, which `ProductsMnt` sets against a sale.

### OrderLedger

`Place(o)` takes all lines out of stock, clears the buyer's cart of the items
and records the order, when everything is in stock. `PlaceBlind(o)` does the same
to stock and orders and leaves the cart as it is: an order whose read of the cart
failed. `Checkout` implements it with its own `stock`, `cart` and `orders`, and
with the committed orders in `unread` for `blind`: `ImplementsLedger`, which the
run `contend` checks and `LedgerImplemented` proves. So stock and orders always
go together, and an order leaves the cart alone only for that one reason.

### OrderLifecycle

The handlers share one shape: read the order, decide (`Writes` is what a
handler would write, `{}` if it refuses), ask for `update_order`, write the
whole order, release. `Read` and `Refuse` are the part before
`updateOrderById`, `Lock` to `Unlock` that function, `Emit` the event of
`updateOrderStatus`. The gateway's answers (`ipn`) come again while they are
answered with an error or not at all. Left out of the document: address,
products, cancel reason, gateway data, the payment url itself. VNPay's check
of its signature, of the order id and of the amount is the argument `invalid`.

### Carts

An element of `Calls` is one request on the buyer's cart, `request[c]` what it
asks for. A call is one or more *jobs*: an addition has one, a deletion one per
item (`deleteProductsCart` runs `addProductToCart` for all of them at once,
134-143), a clearing (`isAll`) and the cart's branch of an order one each,
`<<c, Whole>>`. `at` is where a job stands, `copy` the lines it will write.

| Action | Code |
|---|---|
| `Validate` | the product must be active and have the stock. `getProduct` sets `variations` twice in its filter, the second time without the sku, so an unknown sku passes |
| `CountCarts`, `CreateCart` | `countCartUser`, then `createCart`: check, then act. No unique index keeps a second cart out |
| `ReadCart`, `UpdateCart` | read the first cart, `updateCartUtil`, write the cart whole; no lock. The new quantity *replaces* the old one |
| `ReadForClear`, `ClearCart` | `isAll`: the emptied cart is written twice |
| `ReadForOrder`, `CommitOrder`, `AbortOrder` | `removeProductFromCart` of the checkout. A read that fails (`ReadFails`) is taken for no cart: the order goes on without its branch (place `unread`) |
| `ChangeShelf` | anything that happens to the products meanwhile |

`AloneMeansExact` says what the code does, replacement of the quantity
included; the DTO describes something else (section 3, Disagreements).
`DoneStays` says that what a call which ran alone has made of an item only it is
about is undone by no later calls, however these overlap.

`before` and `alone` are history: the lines when a call began and whether
another call was under way. A crash is a job that takes no further step.
`getCarts` changes no state. Left out: the order and the dates of lines.

### ProductsMnt

An element of `Calls` is one call that touches the catalogue; nine kinds share
the places of `at`, and `copy` is the product a call will write back.

| Kind | Actions | Code |
|---|---|---|
| `create` | `StartCreate`, `CheckSku`, `ResolveImages`, `WriteWhole` | attributes against the category's, the sku against *one* active product (`getProduct` loses the condition on skus), images against Cloudinary, insertion |
| `put` | `StartPut`, `ResolveImages`, `CheckAttributes`, `WriteWhole` | `updateProductPutMethod`: the given product replaces the stored one, stock included |
| `delete`, `drop` | `StartDelete`, `WriteDeletion` | `deleteProduct` sets the status; `deleteProductVariation` writes back the product it has read |
| `sale` | `StartSale`, `LockSale`, `OpenTransaction`, `ReadStock`, `Commit`, `Conflict` | a checkout of one unit, shortened from `Checkout`: its keys, a read outside the transaction, a conflict when the product was written since the transaction began |
| `upload`, `avatar` | `WriteUpload`, `WriteAvatar` | the images service; `updateUserInfo` with an avatar |
| `category`, `label` | `WriteCategory`, `WriteLabel` | requirements of a category (a patch without labels empties them); new attributes |
| `sweep` | `ListPage`, `NextImage`, `AskProducts`, `AskUsers`, `RemoveOrKeep`, `LastPage` | `removeUnusedImage`: page by page, the two questions side by side, deletion. A failing query for the products counts as unused |

`validProductAttributes` collects the labels of the first variation only
(`Given`). An update may add and remove variations at the end of the list and
give an attribute a unit it did not have, which makes another sku of the same
labels (`Allowed`, `UnitAdded`). Histories: `shelf`, the stock by the staff's figures and the sales
since, and `raced`, that a copy of the product was outdated, for
`StockBalanced`; `held`, the uses that have lasted as long as a removal; `mixed`
and `unanswered`, that a removal had company or was answered by an error.
Left out: prices, names, descriptions, all statuses but `Deleted`, and the
products generator, a helper of developers.

### UsersMnt

An element of `Calls` is one call of the user management. It reads (`victim`,
`actor`: two documents fetched side by side), decides on the copies (`Accept`,
`Refuse`) and then has parallel writes to do (`todo`). What is written differs:
a block replaces the field `block`, built on the copy's log; a role replaces
`role`; `updateUserInfo` and `updateUserAddress` set every field their copy has
(`Updated`): a first block written meanwhile stays, since a copy without a block
entry sets none (`SetFrom`).

| Action | Code (`users-mnt.service.ts`) |
|---|---|
| `ReadVictim`, `ReadActor` | the `getUser`s of each handler |
| `Accept`, `Refuse` | `canBlockAndUnblockUser`, `canChangeRole` (`users-mnt.util.service.ts`), the checks of `createUser`, of the address list and of the names. A user who was never blocked can be unblocked: the check asks for a block entry |
| `Update`, `SetUserRequiredRefresh`, `PartFails` | the branches of `Promise.all`. `Settle` lets a call fail although a branch had its effect: the reply is lost, the cache is not emptied, the code of a new address is not stored |
| `RefreshedOrExpired` | the TTL of the key, or `signTokens` |

The gateway's route for role changes is switched off
(`users.controller.ts:184`); the handler listens all the same and is modelled.
History: the collection at `first`, the roles everybody has had (`ranks`),
`before` and `alone` as in `Carts`. Left out: names, passwords, avatars, mail
addresses (one user each, by the unique index). The users cache is emptied but
nothing fills it.

### Accounts

One mail address: every query of these handlers is by the address, so two
addresses share nothing but unique user names (a taken name is one of the
refusals of `Fail`). An element of `Calls` is one call; `at` is the step it has
come to, and the code it generates and the password it sets are known by the
call itself. `account` is the users document, `otp` the code stored for each
purpose (the unique index on address and purpose), `times` the `EMAIL_SENT`
counter.

| Action | Code |
|---|---|
| `Read` | the `getUser` each handler begins with and what it asks of the answer (`auth.service.ts`); for `changePassword` also `validateUserLogin` |
| `Create`, `CacheFails` | `createUser` in `register`, `google`, `googleLogin`, `facebookLogin`; `register` empties the users cache beside it, and when that fails first the caller is told so while the insertion goes on (place `late`) |
| `CountOtp`, `StoreOtp` | `createOrRenewOtp`: count, then insert or renew; each fails when the other was called for by then |
| `Limit`, `CountMail` | `limitEmailSent`, after the code is stored; reading and writing the counter are two steps |
| `Mail` | the event to the mail service |
| `CheckOtp`, `RemoveOtp` | `verifyOtp`: compare, then remove whatever is stored |
| `Update` | `findOneAndUpdateUser`, `changeUserPassword`; the profile updates of `UsersMntService` write their whole copy |
| `OtpExpires`, `LimitExpires` | the TTL index, the TTL of the key |
| `Fail` | any await may throw; a write may also be done and its answer lost (`GoOnOrFail`) |

The counting before the insertion in `createUser` is not a step of its own: the
unique index decides in any case. History: the account as it was `born`, the
passwords `held`, the codes `stored`, `spent` and mailed `last`, the `window` of
mails since the counter was 0, whether calls came one by one (`calm`, `alone`).
Codes are taken to be fresh although six digits may repeat. Tokens are the
matter of `Sessions`; `login` and `checkEmail` write nothing else.

### Routes and Sessions

`Routes` has one definition per controller of the gateway: the service and
message of each route, its guard (`none`, `auth`, `optional`) and the roles the
guard admits; and one per controller of the services: the messages it handles.
`Unacknowledged` are the three handlers that never acknowledge. The guards are
those of the code; `Announced` in `Sessions` has the roles that `CHANGELOG.md`
announces, `Diverging` the two routes that do not keep to it.

`Sessions` follows one user's tokens. A token is named by the call that signed
it; `pair` is what was signed. `at` is where a call stands:

| Call | `at` | Code |
|---|---|---|
| sign-in | `read`, `sign`, `unkey` | `login`: the user (only here is a block looked at), `signTokens`, which ends by removing `REQUIRE_USER_REFRESH` |
| refresh | `counter`, `read`, `sign`, `unkey`, `count`, `recount` | `getNewToken`: `isRefreshTokenRevoked` and `verifyToken`, the user, new tokens, `revokeRefreshToken`: read the counter, write it. A counter at its last use starts again (`UsedOnce`) |
| change of role or block | `change` | the user and the key (`todo`) written side by side; one may fail while the other goes on (`PartFails`, `LateWriteUser`, `LateSetKey`) |
| request | `jwt`, `verify`, `key`, `admit` | the guard: `JwtGuard` of `verifyJwt`, `verifyToken`, `isRequireUserRefresh`, then role and expiry again in the gateway |
| | `queued`, `working`, `answered` | the durable queue, the handler; `answered` is a message still unacknowledged |

`Restart` of a service loses the work it has acknowledged and gives what it has
not to the next process. `barred` are the tokens called in by a finished change,
`doomed` the requests whose token was barred when the guard looked at the key.
Time is `now`; tokens and the key end by comparison with it. Left out:
passwords and codes (`Accounts`), who may change whom (`UsersMnt`), secrets,
cookies, and the revocation of access tokens, which nothing calls.

### Communications

| Variable | Stands for | Actions |
|---|---|---|
| `event` | the message of a new or changed order | `NewOrderAdmin`, `NewOrderCreated`, `OrderStatusChanged`, `StoreStatusNote`, `PushStatus` |
| `adding`, `job` | jobs of the BullMQ queue, by id: millisecond and recipient | `AddJob` (an id that is there is not added again), `TakeJob`, `StoreNote`, `PushNote`, `StoreRefused` |
| `notes` | the notifications collection | as above |
| `socket` | the sockets of clients | `HandleConnection`, `JoinRooms` |
| `mark` | calls of `markNotificationAsRead` | `FindNote`, `UpdateNote` (in the database), `NoteUpdated` (the answer), `UpdateRefused` (the update or its answer fails: the client is told that it was read already) |
| `mail` | mails under way | `SendMail`, `MailSent`, `MailFails` |

`ServiceCrash` ends the process: events and mails under way are lost, since they were
acknowledged, and BullMQ runs an active job once more (`maxStalledCount`). The
event handlers do not await what they start; an error there ends the process,
which is a crash too. The processor swallows the errors of a job
(`StoreRefused`), so that the five attempts a job is given are never used.

### OrdersCollection, Stats, Backup, Reports

`Reports` lets the orders change while something else reads them: either the
statistics or the backup (`asked`; the two share nothing but the orders, which
neither changes).

In `Stats` a sum is the set of the orders it sums, and the calendar is kept as
the code has it: `ResolveDateRange` steps from date to date with `setDate`,
`setMonth` or `setFullYear`, `RevenueMoments` and `OrderMoments` are the bounds
of a period, `IsCurrentTime` the test that compares months counted from 1 with
months counted from 0. A call may first list and delete the keys of the cache
(`ListKeys`, `DeleteKey`), then handles its dates side by side: `GetCached`,
`Query` or `QueryFails` (an error is taken for no orders), `SetCached` with a
short or a long TTL.

`Backup` copies document by document: `Delete` on both servers, `Insert` on
both, each pair a `Promise.all` (`Answered`). `WriteFails` and `Restart` cut a
run short, and a second run may be under way.

## 3. Runs

| Run | Question | Instance | States |
|---|---|---|---|
| `contend` | Are orders atomic, exclusive and conserving? | two buyers, three lines; the second product suffices for one order only; one buyer has no cart; replies to a commit may be lost and reads of a cart fail | 148,311 |
| `samebuyer` | Do two orders of one buyer keep the cart right, does every call end and every key come free? | one buyer, two orders for two products, reliable replies, fairness | 87,917 |
| `overlap` | Is an order only paid when somebody paid, and does the gateway get its answer? | two overlapping calls, all requests, two faults, fairness | 42,329 |
| `oneatatime` | Do the handlers' checks do their job when calls do not overlap? | three calls, one fault | 264,524 |
| `cancelpaid` | a disagreement, below | two overlapping calls | |
| `carts` | What can lost updates of a cart do, what stays done, and is a call that runs alone exact? | three calls, two items, all requests, changing products, failing reads of an order | 814,228 |
| `users` | What can stale copies of users not do, and is a call that runs alone exact? | three calls; two managers or one, two of the staff, one free address; all requests | 1,370,288 |
| `accounts` | Are passwords and verifications come by rightly, and what can only overlapping calls lose? | three calls of every kind, with every code and password; no account yet or one not verified | 2,387,361 |
| `products` | What can whole-document writes lose, and which images may the removal delete? | three calls, two products, three skus (one is another with a unit added), three labels, two images, stock up to 2 | 86,338 |
| `sessions` | Are tokens called in refused, do guards hold, is a message handled once, is a use of a token counted that nobody made? | a sign-in, a change of role or a refresh; a refresh or a block; a request through the gateway; one restart | 1,027,747 |
| `communications` | Who is told how often, who marks what, when is a mail given up? | two orders, one change, one of the staff connected, one customer who is not, one mail, one mark; two crashes, one refused write | 4,591,678 |
| `reports` | Do numbers add up, is revenue fresh, what does a backup lose? | two orders, two years of two months, two calls or two backups; two changes, one failing query, one failing write, one restart | 2,788,100 |

### Bounds

Two orders are enough for every pairwise race of the checkout, and the
invariants speak of pairs; one order of `contend` has two lines, so branches of
one call race too, and its documents make one call wait for another on some keys
only. Units are 1 and 2 so that one order can starve another. Three calls in
`oneatatime` let a request meet what two others left; with overlap two are
enough, as a copy is stale as soon as one other call has written. `MaxFaults`
bounds crashes, failing writes and lost keys there. Three calls in `carts` let
two make a second cart and a third find it; in `users` two managers change each
other while a third call writes an old copy back; in `accounts` a code is sent
and used with a third call in the way. `MailLimit` is 1, so that three calls can
exceed it.

In `products` one image is in the library and used, the other is free or comes
by an upload; `MaxStock` 2 lets a sale and a write of the staff both be seen in
the stock; a third call can meet two that already disagree. In `sessions` access
tokens live 2 units and refresh tokens 3, as long as the run's clock: that
leaves a token signed before a change of role time to end both before and after
the key (in the code minutes, and a key of the refresh tokens' life).
`MaxUses` 2 makes the counter turn over with two refreshes; the code takes any
limit, 0 included, and so do the theorems. Two crashes in
`communications` exceed what BullMQ forgives (one stall). Months of 31, 28, 31
and 30 days in `reports` contain every boundary the calendar code can miss:
short after long, a year's end, today early in a month; the clock runs to 2 so that
both TTLs of the cache, 1 and 2, can run out.

Symmetry (in calls, orders or copies, which no definition tells apart) is used
only where no liveness is checked. Deadlock is checked in all runs but two:
`Quiet` is the end of all calls. In
`communications` and `reports` the system really stops, since every call, mark
and mail comes once and the clock has an end.

### Fairness

`FairSpec`, in `samebuyer` and `overlap`: every call and branch goes on, for
promises settle and the databases answer (`WF` of each call's steps). TTLs run
out. The server aborts transactions of dead clients. Nothing is assumed of
crashes and requests. The gateway repeats a request and, strongly fair, gets it
handled between other calls. In `GatewayAnswered` faults are bounded, as a
service that always crashes answers nobody.

### Disagreements with the repository's own words

`cancelpaid`: "You can not cancel this order when payment completed."
(`errorMessage.json:62`). `cancelOrder` makes the check on a copy read before
the lock and writes that copy back: it cancels an order that has been paid
meanwhile. `CancelOnlyUnpaid` is violated with overlap and proved without.

Where the code does something else than the repository's texts say, the
properties are about what the code does, and these are the differences:

- *Quantity of a cart line.* It "can be a negative to reduce quantity or remove
  product from cart" (`create-cart-request.dto.ts:33`), and comments in
  `updateCartUtil` speak of reducing and increasing (`carts-ord.service.ts:205`,
  `:208`). The code replaces the line's quantity (`:203-209`), and any quantity
  that is not positive takes the line out. `UpdateCartUtil` and `Left` have the
  replacement; a sum would violate `DoneStays` and `NothingMadeUp`.
- *Who may change the catalogue.* `CHANGELOG.md:15` says that categories are
  created and updated by the role Staff; `createCategory`
  (`categories.controller.ts:108`) has no guard, so anybody may.
- *Who may see users.* `CHANGELOG.md:18` says that `/users` is for the Manager;
  `getUserById` (`users.controller.ts:98`) admits every role. `ServedRightly`
  has the announced roles for all routes but these two.
- *The limit of a refresh token.* A token that was used up is to be refused
  (`isRefreshTokenRevoked`, `auth.util.service.ts:185`; "Refresh token is
  revoked.", `errorMessage.json:27`). The counter starts again at its last use
  (`:139-170`), so with a limit from 1 on no token is ever found used up; with
  `JWT_REFRESH_TOKEN_MAX_USED_TIME=0` each one is after its first use.
  `UsesAreNotLimited` proves both.
- *Items of an order in the cart.* `removeProductFromCart` is to take them out
  with the order. When its read of the cart fails they stay, and nobody is told.

More follow from the code; the theorems and runs name the condition each needs:

- "Lock the `createOrder` for each user and product"
  (`checkout.service.ts:260`): the TTL is 5 s and is never extended. `Exclusion`
  and `Conservation` assume that no key expires under its holder.
- Two lines of one order for two variations of one product read the same
  product and write it whole; one decrement is lost. `Conservation` assumes that
  no order repeats a product. Such an order also fails at the release of its
  keys and tells its buyer of a failure although it is committed, which is why
  `HonestFailure` assumes the same.
- The removals of one `deleteProductsCart` run side by side and overwrite each
  other: some of the items stay. `AloneMeansExact` of `Carts` says of a deletion
  only that nothing else goes and at least one of the items does.
- A payment confirmed from a copy read before a cancellation reopens the
  cancelled order.

Smaller observations, made while reading:

- *Statistics.* The revenue of a month ends at the midnight its last day begins
  with, the revenue of a year likewise on 31 December; `isCurrentTime` compares
  a month counted from 1 with one counted from 0; stepping by `setMonth` from a
  day after the 28th skips short months, and the last period is missing when its
  end is an earlier day of the month than the start. `getOrdersOrNull` turns an
  error into no orders, and the zero is cached. `updateKpi` filters by `__id`.
- *Backup.* Overlapping runs meet each other's documents as duplicate keys and
  end early; a document deleted from the primary stays in the day's backup.
- *Products.* A failing query of `isImageInUse` counts as unused; a patch of a
  category without `requireAttributes` empties them; the check of a sku and the
  insertion race, and no index is behind them.
- *Notifications.* A missing notification is answered like one already read. The
  job ids merge two orders of one millisecond, so the staff is told of one. The
  notice of a changed status names no order, as `updateOrderById` has deleted
  the id. The processor's comments speak of 100 jobs in 10 s, its options say
  otherwise.
- *Sessions.* `getNewToken` does not look at blocks. `GET /discounts` sends the
  message that creates a discount; `changeRole` of the gateway is a stub.
- `pushNotifyToAllUser`, `revokeAccessToken` and `calculateRevenueHour` have no
  caller.

## 4. Proofs

The theorems hold for all values of the constants that satisfy the named
assumption of the module (`CheckoutAssumption` and so on, evaluated by TLC in
every run). Each safety theorem has an inductive invariant; the runs' properties
alone are not inductive, since they say nothing of the copies in flight. One
lemma per action shows that the invariant survives it.

**`CheckoutProofs`**, for any orders, lines, buyers, products, variations.
`TypeCorrect`: no stock, committed or in a copy, falls below zero, as every copy
is checked before its decrement. `Exclusion`, if `"expiry" \notin Faults`:
inductive is `KeysHeld`, that a call between lock and unlock still has all its
keys. `Conservation`, if moreover no order repeats a product: `IndInv` adds
`WritesInScope` (a transaction writes only documents whose keys its call asked
for, and only while it runs), `FreshCopies` (what a line of a running order read
is still what the database holds) and `WritesBalanced` (a pending document
differs from the committed one by what its lines claim). The step that matters
is a commit under another running order: they share no key, so it touches none
of the other's documents (`CommitApart`). `CartsCleared`, without expiry: the
cart a running order has read is still its buyer's cart (`FreshCarts`), and a
branch that is done has its document in the transaction, unless there was no
cart or its read failed (`AllWritten`).
`LedgerImplemented`, under the assumptions of `Conservation`: a commit maps to
`Place`, or to `PlaceBlind` if the order could not read the cart; every other
step stutters. The claims a commit brings along are what
the order's lines ask for (`AllClaimed`); since no order repeats a product, the
sum the ledger takes is over at most one line for each variation
(`UnitsOfOneLine`), so no induction over sets is needed. `HonestSuccess`, no assumption: a
success is never told without an order, and only calls that did not get their
keys leave a session open (`OnlyBusyLeaksSession`). `HonestFailure`, without
faults and repeated products.

**`AfterCheckoutProofs`**, first part: `OrderLifecycle`, for any calls and menu.
`LifecycleTypes`.
`MoneyFirst`: a copy about to be written is as justified as the document.
`OneAtATime`: without overlap the document changes by whole requests and no paid
order is cancelled by its customer. `ConfirmationsStand`: no overlap; every
write but a cancellation keeps a payment (`WritesKeepPayment`) and
`PaymentsStand` covers the one call that may stand between its write and its
answer, or between read and write.

**`AfterCheckoutProofs`**, second part: `Communications`, for any orders, staff,
clients, marks and mails.
`CommunicationsTypes`. `ToldAtMostTwice`: an order and a recipient have one job
(`JobsKnown`), whose runs `Counted` bounds by its stalls. `AllToldOnce`: without
crashes and refusals exactly one notification each, per millisecond (`Exact`;
`Announced` and `HasJob` say that a job is there until its note is).
`OnlyRecipientsRead` (`MarksKnown`, `ReadKnown`). `MailsTryAll`: the transport a
mail is at is preceded by those that failed with it (`Turns`).

**`CartsProofs`**, for any calls, items, menu and products. `CartsKept`, with
`GoodCarts`: every copy a job will write back has one line per item
(`OneLinePerItem`), a right count (`CountsMatch`) and only lines somebody asked
for (`NothingMadeUp`: never a sum or a difference). `UntouchedKept`: all copies agree with the cart about items no request has
named. `SecondCartRaced`, with `Raced`: while somebody can still create a cart,
every cart there is has a creator of its own that had company; once a cart
exists, the additions that found none only get fewer. `CartAloneIsExact`, with
`AllAsFound`: the copies of a call that is alone derive from the cart as it was
found; a removal's copy lacks its own item and nothing that was not asked for.
`DoneIsKept`, with `AllSettled`: what a call that ran alone has left of its own
item is in the cart and in every copy that another call is about to write; each
step of such a call passes the line on from the cart or from its copy (`Apart`).

**`ProductsMntProofs`**, for any calls, products, skus, labels, images and menu.
`ProductTypes`. One inductive invariant, `Inv` (`ProductsInductive`), carries the
four properties of the run, as each needs the others' copies to be right:

- `Base`: every stored, requested or copied product has at most one variation
  of a sku (`DistinctSkus`), a call stands where its kind may stand (`Placed`),
  a copy is what its kind of call carries at its place (`Copies`), and a sale
  that runs has its product's key (`Locked`), so no two run on one product.
- `StockCopied`: until the race the copy of a deleted variation's product has the
  stock the shelf has, and a sale's copy one unit less, unless its transaction
  will conflict (`stale`). Stock changes under such a copy only by a write that
  sets `raced`: another sale of the product waits for the key, and a write after
  the transaction began makes it conflict. Hence `StockIsBalanced`.
- `Resolved`: the images a call has found in the library and will refer to are
  still there unless a removal had company (`Mixed` says that `mixed` notices
  it). Hence `ImagesAreThere`.
- `HeldSound`: the answers to the two questions of a removal deny no use that
  has lasted since it began. Hence `UsedImagesStay`.
- `OnItsOwn`: until a call that is alone writes, everything is as it found it;
  a removal has kept what is used, and of the images it is done with nothing else
  (`Swept`). Hence `AloneIsExact`.

`IndexOf` finds the *first* variation of a sku, so its lemma needs a least
element. `Least` gets it without an induction scheme, from the library's fact
that finite subsets are well-founded under inclusion; `ReportsProofs` argues about dates
the same way.

**`UsersMntProofs`**, for any users, calls and menu. `UsersKept`: nobody becomes
a manager, logs are blocks and unblocks in turn (`LogInTurn`), addresses have
one default (`OneDefaultAddress`). `EntriesAreRanked`: every entry of a log is by
somebody of sufficient rank. `UsersSound`
demands the same of every copy, measured against the roles people *have had*:
these only grow, so a copy never becomes unsound by waiting (`SoundStays`), and
what a call was allowed stays written in `Decided`. `ManagerStays`, with
`CopiesKnow`: as long as role changes ran alone, copies know who is a manager
now; nobody changes his own role, and only a manager a manager's, so one is
left. `AloneIsExact`: until a call that is alone writes, the collection is as it
found it and its copies are true; `Ended` is what each kind of call leaves.

**`AccountsProofs`**, for any calls, menu and limit. `AccountsKept`: every
password the account has had was set by its creator, by a call that knew a code
stored for a forgotten password or by one that knew another of its passwords; a
verified address was proved (`VerifiedProven`); a registration that reports
success created the account (`RegisteredIsBorn`); an accepted and removed code
is never good again (`SpentCodeIsGone`). `AccountsSound` says what a call has
established at each place (`CallSound`), asks the same of the copies of profile
updates (`DocSound`), and orders the codes (`OtpSound`). The document's password
alone would not be inductive: a copy may bring back any password ever held.
`MailsKept` and `OnlyOverlapsUndo`, with `Orderly`: while calls come one by one
they stand together (`Together`), copies are true (`CopyTrue`), the code of the
last mail is the stored one (`CodesTrue`) and the counter covers its window
(`WindowKnown`, `CountTrue`).

**`SessionsProofs`**, for any calls, lives of tokens, limits and restarts.
`SessionTypes`. `OldTokensRefused`: a token that a finished change called in
gets no further request through. The argument is `Covered`: the key outlives
every token a client can hold (`Handed`), so whoever finds it run out finds the
token expired; `Doom` carries that to requests which have looked at the key and
not yet at the clock. It counts on the order of the last look: the gateway
checks the expiry again. A sign-in or refresh removes the key, and therefore the
theorem speaks of tokens signed before the change (`BarredKnown`).
`GuardsHold`: a handler runs only for a token its route admits (`Entered`,
`Passed`), and every message a route sends has a handler. `HandledOnce`
(`RunsOnce`): redelivery needs a missing acknowledgement. `UsesAreNotLimited`:
the counter that a call read or wrote is at least 1 unless the limit is 0, since
the last use starts it again. `UsesAreReal`: the counter, and what refreshes
have read of it, has gone down by no more than the refreshes that have ended.

**`ReportsProofs`**, for any orders, copies and faults. `BackupLosesOne`: what a
server lacks is owed (`Owes`) by a run that has, or had, that document under
way. `BackupIsComplete`: a run that is alone has left each document it is done
with as it read it (`Copied`); `Under` is the document between deletion and
insertion. `RevenueIsFresh`, for any calls, calendar and lifetimes: an entry of
the cache that is wrong about an order was stored while a call that missed the
change was at work, or ends soon after that change (`CacheRight`, with `Unquiet`
and `Lasting`); a call that refreshes alone leaves only right entries of its
split behind (`Renewed`, `OnItsOwn`). `NumbersAddUp`, for every calendar of months
of 28 to 31 days: inductive is `Counting`, that a query which is done is right
about the orders its call has not missed a change of; the rest is about dates.
`MomentsOfPeriod`: the moments of a day, month or year are those of its days.
`EachPeriodOnce`: the loop of `resolveDateRange` meets every period from the first
date's to the last's once, by the least distance from the end at which it would
not. The loop is a recursive function, so there has to be one before anything
follows from it: `LoopEnds` gives it as the set of dates that no set closed under
`Following` can leave out. By month or year the theorem asks for a first date
before day 29 (`BeforeDay29`), as the code does skip months otherwise.

The invariants of `ProductsMntProofs`, `SessionsProofs`, `ReportsProofs` and of
the second part of `AfterCheckoutProofs` were checked by TLC on the runs'
instances as well.

Only model-checked:

- everything live (`EveryCallEnds`, `LocksReleased`, `GatewayAnswered`):
  liveness under fairness and `ENABLED` are outside the prover's reach. So is
  an induction scheme over an arbitrary operator, which `Least` replaces;
- that `CancelOnlyUnpaid` is violated with overlap (`cancelpaid`); without overlap
  it is proved.

## 5. Plan

Done: all modules of section 2. The order was the money's: checkout and its
locks, the order afterwards, carts, people and accounts, then the catalogue,
tokens and guards, messages, reports. `OrderLedger` is the abstract
specification worth having: elsewhere a call changes one document, and
`AloneMeansExact` and `AtomicUpdates` say directly what it promises.

Every invariant and action property of the runs is proved. Left: the composition
of `ProductsMnt` with the whole `Checkout` instead of a sale of one unit.

## 6. Not modelled, and why

- *Search*, listings and reviews of an order: reads that no step depends on. A
  read that a decision rests on is modelled with the decision.
- *Utility service*, seeding, `generateUsers`, `productsGenerator`: helpers of
  developers.
- *Third parties*: GHN, VNPay and Cloudinary are outside the repository; their
  outcomes are choices of the models.
- *Common library*: translation, filters, logging to Discord, configuration.
- *API gateway*, in part: every route, guard and message is modelled; the
  formatting of requests and answers (DTOs with their decorators, Swagger),
  cookies and the redirect of the social sign-in are left out. DTOs and
  controllers are the largest share of the source's lines, and have no state.
- *Repository base*, in part: `updateOne` and `updateMany` have no caller in the
  modelled parts.
- *Images, categories, attributes, discounts*, in part: what products and images
  depend on is modelled; the rest reads and writes one document per call, and
  discounts have no operations beyond that.
- *KPIs*: a plain collection; its update filters by a field that does not exist.
- Time is a counter where order of events matters and a choice elsewhere; texts,
  prices, fees and addresses are left out as no decision here depends on them.
