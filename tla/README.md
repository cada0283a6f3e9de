# Verification of console.store

TLA+ models of console.store, a Go program that orders food and groceries from
Swiggy: a terminal interface (`src/internal/tui`), a command line
(`src/internal/cli`) and an MCP server for agents (`src/internal/mcp`), all on one
broker (`src/internal/broker`) that signs in (`src/internal/auth`) and calls
Swiggy's own MCP servers (`src/internal/swiggy`). Small JSON files and the OS
keyring (`src/internal/localstore`) are the only durable state. What the program
does wrong costs real money: an order cannot be taken back, and a payment cannot
be asked for twice. The models are about that.

How to run them, in this directory:

    tlc -config mcp_payments.cfg MCMcpServer      # any cfg of the table of runs, with its MC module
    tlapm McpServer_proofs.tla                    # any module of the table of proofs

## 1. The system

### Components

| component | state it keeps | operations | modelled in |
|---|---|---|---|
| MCP ordering tools (`mcp/server.go`, `tools_order.go`, `tools_cart.go`, `tools_instamart.go`, `confirm.go`, `payments.go`, `memcache.go`, `localstore/cartcache.go`) | `confirmStore` (tickets to order, 10 minutes), `paymentStore` (open UPI payments and in-flight flags), the last cart write in memory and in `cart-cache.json` | write or clear a cart, prepare, order a preset, place, check a payment, confirm | `McpServer`, `OrderLifecycle` |
| Swiggy MCP client (`swiggy/client.go`, `ratelimit.go`, `transport.go`) | a session per vertical, the account's read slots and write bucket | `CallTool` with its retries, backoff and revoked sessions | `SwiggyClient` |
| Order placement (`swiggy/orders.go`, `payment.go`, `errors.go`) | none between calls | place cash or UPI orders once; verify a doubtful answer | `Placement` |
| Token source (`broker/tokensource.go`, `localstore/localstore.go`, `cmd/store/main.go`) | the token in the keyring or in `token.json`, a mutex per process | hand out, refresh, purge at start-up, sign out, sign in | `TokenSource` |
| OAuth flow (`auth`, `cmd/store/mcpauth.go`) | per process, a map of pending states (15 minutes) and the flows that are done; the port of the callback | start, redeem once, sweep, store the token, open the gate | `AuthFlow` |
| Broker service (`broker/service.go`, `mapping.go`) | clients by account, the shared limiter and token source | forward calls, map structs, log out | what is shared, in the modules above |
| TUI food cart, placement (`tui/app.go`, `live.go`) | an optimistic cart with a baseline, debounced single-flight writes, an order | key presses, timers, answers as messages | `TuiCart` |
| TUI Instamart cart | the same for groceries, and a store that caps and closes | the same, with a chase of edits before the modal | `TuiInstamart` |
| TUI dish wizard (`screens/wizard.go`) | pages, a trial position, a draft at Swiggy | ask what fits by writing drafts, add, give up | `TuiWizard` |
| TUI browsing (`screens/menu.go`, `restaurant.go`, `catalog/swiggy`) | address and gate, rails, searches, lists and menus that stream in behind copies of the disk, cursors | keys, pages that land | `TuiPlaces`, `TuiMenus`, `TuiProducts`, `Viewport` |
| TUI orders that are followed (`localstore/order.go`) | the slot and its file, a second order, the tracking card | discover, poll, promote, swap, drop | `TuiOrders` |
| CLI ordering (`cli/order.go`, `payment.go`, `pick.go`) | none | pick a preset, push it, show the bill, ask, place, poll | `CliOrder` |
| Local stores (`localstore/orders.go`, `presets.go`, `taste.go`, `addrpref.go`, `card.go`) | JSON files replaced as a whole | read, change, replace, by several processes without a lock | `LocalStores` |
| Self-update (`updater`, `cli/update.go`) | the binary on disk | manifest, download, checksum, swap, re-exec | `Updater` |
| Agent registration, first run, uninstall (`agents`, `telemetry`, `cli/uninstall.go`) | marks, install id, the agents' files and the marker that they are done | register, tour and notes once, take it all away | `Installation` |
| Swiggy catalogue and cart wrappers (`swiggy/food.go`, `instamart.go`, `options.go`) | none | send a call, decode the answer | the calls and what their answers mean, in the modules of the terminal; the decoding is not |
| Discovery tools, other screens, widget, configuration, probes, web site | none that matters, or formats | relay, draw, decode | not modelled |

### How they interact

- An agent calls MCP tools; the go-sdk runs each call on a goroutine of its own.
  The handlers share `confirmStore`, `paymentStore` and `Server.mu`, each locked
  for one short critical section at a time and never across a backend call.
- A handler calls the broker, the broker a `swiggy.Client`. The clients of an
  account share a rate limiter and a write bucket, and each asks the account's
  token source for an access token on every call.
- The token source reads the store on every call and writes it after a refresh.
  Logout drops clients and token source, and purges the store, while calls run.
- Several processes (TUI, MCP servers, CLI) share the keyring and the files.
- Swiggy is reached by HTTP only: requests get lost, are answered late, are
  answered with an error after they took effect. Swiggy's carts and payments
  are also changed by the user's phone.

### What is hard, and what correct means

- *MCP tools*: interleavings of handlers between critical sections, the clock
  between two polls, a restart between two writes. Correct: a ticket buys once,
  what is bought is what was shown, a payment is confirmed once and not while
  somebody else confirms it, no flag is leaked, a paid payment is not forgotten,
  an ordered cart is not replayed.
- *Client*: reservations that outlive their caller, a mutex held over a round
  trip, sessions that die while in use. Correct: slots stay spaced, the bucket is
  not overdrawn, a dead session does not come back, what cannot be repeated is
  sent once, every call returns.
- *Placement*: the answer is lost and the order is not. Correct: one order per
  call, no older order claimed, no landed order overlooked if it could be seen.
- *Token*: refresh tokens may rotate, so using an old one can end the sign-in.
  Correct: the goroutines of a process never send a rotated one, the store holds
  the youngest, every call returns.
- *Sign-in*: the browser's answer goes to whichever process holds the port, and
  may be sent twice. Correct: a code is redeemed once, a flow that is done has
  stored its token.
- *TUI carts*: answers come back among key presses. Correct: a failed write rolls
  back to what Swiggy acknowledged, an order is placed only after the last edit was
  written, no screen keeps a quantity that the store does not have.
- *TUI wizard*: its questions are writes of the cart, and their answers carry no
  tag. Correct: Enter is not held back for ever, what is added is what Swiggy
  accepted, a draft does not stay behind.
- *TUI lists and orders*: pages, polls and lists land late and in any order.
  Correct: one stream fills a list, a menu is that of its own restaurant, the key
  acts on the lit row, a live order is not dropped for a late answer.
- *CLI*: type-ahead, Ctrl-C and an expiring payment meet in one run. Correct: one
  order at most, approved, never reported as nothing.
- *Update and installation*: processes of one installation are killed between any
  two steps, and the code goes on after what failed. Correct: there is always a
  binary, and it is what was verified; the marker that spares work is true, and so is
  an "uninstalled".
- *Local stores*: read, change, replace without a lock. Correct: a lone process
  keeps what the user said, lists stay within their bounds.

`PROJECT.json` lists the hazards one by one, at their lines.

## 2. The modules

| module | kind | about |
|---|---|---|
| `McpServer` | component | the ordering tools, interleaved at every access to shared state |
| `OrderLifecycle` | abstract | what the ordering server promises: the life of a ticket and of a payment; refined by `McpServer` |
| `SwiggyClient` | component | the path of a tool call: session, slot, token, request, retry |
| `TokenSource` | component | one OAuth token, its two stores, its refreshers, and a rotating server |
| `AuthFlow` | component | signing in through the browser, in several processes |
| `Placement` | component | placing once, and the verification after a doubtful answer |
| `CliOrder` | component | one run of the order command |
| `TuiCart` | component | the food cart of the terminal and its order: one event loop, calls answered in any order |
| `TuiInstamart` | component | the Instamart cart, whose store has the last word |
| `TuiWizard` | component | the wizard that asks Swiggy what fits |
| `TuiPlaces`, `TuiProducts` | components | the browse screens of restaurants and of groceries |
| `TuiMenus`, `Viewport` | component, algorithm | the menu of a restaurant and the list under the cursor; the rows a window paints |
| `TuiOrders` | component | the two orders the terminal follows |
| `Updater` | component | self-update by several processes |
| `Installation` | component | marks, registration with agents, uninstall |
| `LocalStores` | component | the files that remember the user |
| `MCSession`, `MCPlacement`, `MCBrowse`, `MCInstall` | compositions, instances | several components in one run: `focus` says which of them moves |
| `MCMcpServer`, `MCTuiCart` | instances | baskets, tool sets and symmetries for TLC |
| `McpServer_proofs`, `SwiggyClient_proofs`, `Session_proofs`, `Placement_proofs`, `TuiCart_proofs`, `Browse_proofs`, `Install_proofs` | proofs | theorems for all values of the constants |
| `FoldLemmas` | proofs | least counterexamples; what folds, selections, appends and removals of the community modules keep |

The components of one composition share no state in the models, though their code
does meet: a tool call (`SwiggyClient`) asks for a token (`TokenSource`) that a
sign-in stored (`AuthFlow`). What one takes from the other is an outcome in the
model of the one, nondeterministic over all that the other can bring about; so
each is checked against more than the other really does. `focus` is chosen in the
initial state and never changes.

### McpServer

A handler is a program counter `pc[c]` and a record of locals `job[c]`; a slot
`c` is idle between calls. One action is one backend request, one critical
section or one file access, so that everything that can happen between two of
them can happen in the model. `Start(c)` holds the actions that begin a call
(each with the request or critical section the handler starts with),
`Continue(c)` the others. The names of the labels follow the code: `look`,
`lookDisk`, `adopt` are the three parts of `lastCartWrite`; `markMem`,
`markLoad`, `markSave` those of `markCartWritePlaced`; `forget`, `forgetDisk`
those of `clearCartWrite`.

- `pending`, `payments`, `confirming`, `lastCart` are the maps of the code,
  `diskCart` is `cart-cache.json`, `cart`, `upi`, `landed` are Swiggy's side.
- A basket is a record of what the code tells apart: restaurant, items,
  customisations, total, sold out. `Hash` keeps what `cartHash` keeps.
- A backend write may succeed, fail without effect, or fail after it took
  effect. A food cart belongs to one restaurant.
- `shown`, `spent`, `confirmed`, `told` are history, read by properties only.

`OrderLifecycle` abstracts a ticket to unused, open, in hand, ordered or void,
and a payment to none, held, claimed, settled or lost. `TicketOf` and `PurseOf`
are the refinement mapping: "in hand" and "claimed" are read off the handlers'
program counters, the rest off the stores.

### SwiggyClient

Time is a counter and nothing takes time except waits and requests: `Tick` waits
for whoever is due. This makes the spacing properties about the code rather than
about the scheduler. `next` and `bucket` are the two limiters (credit is kept in
units of time: tokens times `Refill`), `session` and `mutex` the fields of each
client. `Initialize ... Initialized` is the round trip that `ensureSession` makes
with the mutex held. A cancelled call leaves its reservation spent (`Cancel`).

### Placement

`orders` is the account's list at Swiggy, `wire` the place requests that may
still arrive, after their caller has gone if need be. `known` is the set of ids
that `placeWithVerify` reads before, `Outcomes` what its single attempt can bring
back, split as the classifiers `mayHaveSucceeded` and `mapStatus` split it.

### TokenSource

Tokens are numbered as the server mints them. `Stored` is `readToken`, `Put` and
`Purge` are `PutToken` and `PurgeToken` with the fallback to the file. A call of
`Token` goes from the unlocked read to the mutex (`Lock`, with the second look),
the request and the write. A `boot` call is `EnsureAuth` with its own source;
`PurgeDead` is what `main.go` does with a token it reports dead.

### TuiCart

One action is one message of the event loop: a key, a tick, the answer of a
command. The keys are named for what they do (`Add` and `Dec` on the restaurant
page, `Inc` and `Reduce` on the checkout, `Enter`, `Yes`, ...), the answers for
their messages (`Synced` and `SyncFailed` are the two ends of `CartSyncedMsg`).
`FireSyncNow` is the helper of that name and is called where the code calls it:
what follows in the same handler (the freeze, the deferred modal) is in the same
action.

- `lines`, `base`, `live`, `sync`, `order` are the fields of `Model`; `server` is
  Swiggy's cart, with a surcharge and sold-out dishes that may change at any time
  (`Move`).
- `wire` holds the commands under way. Each is a goroutine: it is served (`Serve`)
  and answered (`Answer`) apart from all the others. It is a set, so two equal
  commands under way count as one.
- `live` keeps of a bill what the code reads: the total and what is sold out.
- Whether `cartRestaurantSwiggyID` finds a cart's restaurant depends on the pages
  that were opened. `Resolves` says which answers are possible; where it does not
  resolve, a write is silently not sent, as in the code.
- `past` is history: how often the user edited and said yes, how many orders Swiggy
  made, whether the lines are still what the user left (`own`), whether the cart
  was edited while an order was being placed (`touched`), and whether
  `clearPlacedCarts` forgot a write in flight (`loose`; such a write is of kind
  "old" from then on). `order.approved` and the cart of an order command are
  history too: what the user saw when saying yes.

### TuiInstamart

The grocery cart is written like the food cart, but an answer of the store says
what it made of the lines (`Replaced`: kept, capped, cleared), and an answer that
disagrees with the lines replaces them (`Adopts`). `IMCartLost` is sent once
more. Enter opens the modal only when no edit waits, and gives up chasing after
`MaxChase` writes: the code then opens it over edits that wait, and the last write of
a yes may go out beside theirs. `past.loose` is set then, and when an order clears the
cart outside the gate; properties of the gate hold until then. `past.touched` says
that the lines changed while an order was being placed, by a key (`Edited`) or by a
read that answered late (`Overtaken`).

### TuiWizard

`cart` is Swiggy's: the lines and at most one draft. A question is a write of the
lines with a draft, an element of `wire`; its answer is taken for the answer to
whatever the phase is waiting for when it comes (`Heard`). `wizard.at` is
`wizardTrialPos`, 0 once no candidate is left. `past.stray` is history: an answer
may have been taken for another one, since one write was under way when the next
was sent. `Clash` and `Hints` say which choices Swiggy refuses together, and what
its refusals hint at.

### TuiPlaces, TuiMenus, TuiProducts

A call is an element of a set from the time it is sent until its message is
handled: fetched first (`Land`: the goroutine merges into the snapshot), handled
later (`Handle`), with keys and other calls between. `gen` is the generation that
`searchGen` and `menuGen` count. What a list holds is abstracted to how much of it
is there (`TuiPlaces`), or whether it is an answer or the disk's copy
(`TuiProducts`); `TuiMenus` has the dishes themselves, since filters, cursor and
appends are about them. `Viewport` is the arithmetic of a window of rows.

### TuiOrders

`world` is what became of each order at Swiggy, `age` how long ago the record was
made, in the two steps the code tells apart (90 seconds and the grace). `slot`,
`alt` and `file` are `activeOrder`, `altOrder` and `active-order.json`. Polls and
lists are served and handled apart.

### AuthFlow

One `Manager` per process, one `handler` per goroutine of the callback server:
`Claim`, `Exchange`, `PutToken`, `Finish`. The port belongs to whoever got it. The
user approves in the browser, which may send the answer more than once.

### CliOrder

One run is a sequential program, `cmd.at`; around it the user types and presses
Ctrl-C, pays or does not, and edits the same cart on another device.

### Updater, Installation, LocalStores

A process is a program counter in each. `Kill` and `Quit` take it away between any
two steps. `Updater` has the Unix and the Windows swap; on Windows a running image
can be renamed, not replaced; if the second of its two renames fails the first is undone,
and an error of that is ignored. `Installation` upgrades the binary between launches.
Where the code goes on after a call that failed, the outcome is an argument of the
action: `Wire` and `CopyFails` (a config that cannot be parsed or saved, a bundle
copied in part: either keeps the marker from being written), `Mark` (which may leave
the old marker or an empty one), `RemoveAgents` (the agents whose config could be
neither parsed nor saved keep the entry, under an error that is printed and not
returned, `provision.go:113`), `Bootstrap` and `UninstallLogout` (`PurgeToken` leaves the
token of a keyring that is out of reach, `localstore.go:180`), `UninstallData` (a
directory removed in part). Whether the user is signed in is read once, at `Bootstrap`; an
uninstall acts on that after its prompt, during which other processes may sign in,
refresh or sign out.
`LocalStores` reads a file into `copy[p]`, edits it and renames a new one over it;
`raced` marks a file replaced from a copy that was stale, and the properties are
about files that are not.

## 3. What TLC checks

Twelve runs, five of which show a violation (section 5). Every state of each
instance is explored.

| run | components | bounds | properties | states |
|---|---|---|---|---|
| `mcp_payments` | `McpServer` | 2 calls, 2 tickets, 2 payments, Instamart, clock to 1, a ticket's life 0, a payment's 1, 1 restart, 1 foreign edit | `PlacedOnce` `OneConfirmInFlight` `PaidNotForgotten` `ImplementsLifecycle` | 1.16M |
| `mcp_carts` | `McpServer` | 1 call at a time, 2 tickets, 1 payment, two outlets with one bill, clock to 1, 1 restart, 1 file error | `PlacedAsConfirmed` `PlacedNeverSeeds` | 2.9M |
| `session` | `SwiggyClient`, `TokenSource`, `AuthFlow` | 2 clients, 2 goroutines, 1 retry, 3 sessions, clock to 2; 1 process, 3 calls, 1 fault, the keyring turns up, 1 sign-out; a terminal and an MCP server, 2 flows, 2 handlers, each answer sent twice at most, 1 fault | `SessionTypeOK` `WriteBudget` `SlotsSpaced` `RevokedNotReused` `TheCallReturns` `RefreshIsSafe` `TheTokenReturns` `SignInIsTrue` `SignInWorks` | 479k |
| `place_orders` | `Placement`, `TuiInstamart`, `TuiWizard`, `CliOrder` | 2 calls, 1 order of another device; 1 product up to 2 units, cap 2, 2 edits, 1 yes, 1 read, 1 fault; 2 variant and 3 add-on groups, the wizard opened twice, 1 toggle, 2 writes under way; 2 lines typed, 2 presets of the name, 1 error | `OrdersTypeOK` `OneOrderPerCall` `SuccessIsReal` `NothingOverlooked` `IMCartIsTrue` `IMOrderedAsApproved` `WizardEnds` `CommandIsTrue` `AddedAsConfirmed` | 1.39M |
| `tui_cart` | `TuiCart` | 1 dish up to 2 units, 2 edits, 1 yes, 1 fault | `TypeOK` `SingleFlight` `Converged` `OneOrderPerYes` `OrderedAsApproved` `Released` | 464k |
| `tui_browse` | `TuiPlaces`, `TuiMenus`, `TuiProducts`, `TuiOrders`, `Viewport` | 2 addresses, 1 category and 1 word, 2 calls, 1 lost session; 2 restaurants, menus of up to 4 dishes on 2 pages, 2 visits; 2 loads; one order of each shop, 2 commands under way, 1 fault, 1 restart | `BrowseTypeOK` `ListsLand` `MenuIsOwn` `FollowsOnce` `SlotKeepsLive` | 2.58M |
| `install` | `Updater`, `Installation`, `LocalStores` | 2 launches, 2 channels, 2 versions, 1 fault and kill; 2 processes, 2 agents, 2 bundles, 2 binaries, 2 starts; 2 callers, 2 dishes, 1 group, 2 addresses, lists of 1, 2 calls side by side or 5 in a row, 1 stop | `MachineTypeOK` `AlwaysLaunchable` `MarksTruthful` `StoresAreTrue` `InstalledAsNamed` | 773k |
| `mcp_charged` `place_reject` `tui_approved` `auth_gate` `tui_address` | | the smallest that show it | one each, violated | |

Why these bounds are enough to mean something:

- Two calls are what every race of the MCP handlers needs: a second confirm, or
  a poll or a sweep that drops the entry under a confirm. Two tickets and two
  payments let one be swept while the other is in flight. The clock passes
  the end of a payment window and of a ticket, so every comparison
  with a deadline is taken on both sides.
- `mcp_carts` runs one call at a time on purpose: with two, a second
  `update_cart` between the comparison and the order changes what is ordered, as
  the code can only narrow that window (hazard `tools_order.go:305`). One call is
  one agent; what can go wrong then is the memory of the last cart write, over
  two orders in a row, a restart and a file error at any point. The two outlets
  have carts of the same total, so that only their lines tell them apart.
- `session` has a burst of 1 and a refill longer than the interval, so
  the bucket is in debt and the two limiters get in each other's way; three
  goroutines for the token: one refreshing, one waiting for the mutex with the old
  refresh token, and one that starts later; the keyring starts unreachable and may
  turn up in the middle; two flows of one terminal, or one each of two processes,
  with an answer that is sent twice.
- `place_orders` has another order before, between and after the two reads. Its
  grocery cart starts as any cart and is edited twice without a fault, or starts
  empty and meets one. Its dish has variants that clash, a size that is a row for
  each crust, an add-on group named for its crust, and a choice that is sold out.
- `tui_cart` has two edits: one that is being written and one that is made
  meanwhile, or one before and one after the yes. One fault is one failed call, one
  call that took effect and failed, or one change of price or stock. A second dish
  multiplies the states and no guard tells dishes apart; two units let an edit
  differ from the one before. Swiggy's cart is any cart at the start, so the launch
  pull may seed the loop. Two bounds keep the wire small: a page read is sent only
  while the wire holds less than `MaxWire` commands, and no yes is said while a read is under
  way. The theorems of section 4 do without the first and count without limit.
- `tui_browse` explores the browse screen once with searches and once with overlays and a
  session that is lost, and the followed orders with one poll that fails or one launch
  more; its menu changes between two visits, so that pages of both
  are under way at once.
- `install` lets two processes meet at every step of a swap, a registration or a
  rewrite of a file. Eviction, expiry and the threshold of the taste card need a
  row of calls of one process instead: five, with a card that holds one dish.
  `Installation` is explored from four sides (`KeepSide`), as its parts together are
  beyond a run: tour and notes ("shows"), the registration while the binary is
  upgraded ("registers"), registrations and removals of one version ("leaves"), and
  tokens around an uninstall, whose keyring may be found or lost ("signs"). Each side has
  every outcome of its own steps; what they have in common is the theorems'
  business: they are about all of `Keep!Next` (Focuses that include "keep", which is
  none of the four). Two bundles, so that a copy breaks off after one.

Each property of a passing run has a mutant: one definition of the model
replaced by what a plausible slip in that code would make of it (a flag not
cleared, a second look missed, a file not written, a cap forgotten). TLC refutes
the property on the mutant under the same configuration.

### Fairness

Only `TheCallReturns`, `TheTokenReturns`, `SignInWorks` and `Released` use fairness,
always weak fairness of steps that a running goroutine takes by itself:

- `SwiggyClient`: `Step(c)` and `Tick` (timers fire). Nobody is assumed to
  cancel. Weak fairness is enough for the session mutex because each instance
  makes finitely many calls; Go's mutex gives more (starvation mode). A backend
  call ends because the HTTP client has a timeout, with an error if nothing else.
- `TokenSource`: `Step(g)`, for the same reasons.
- `AuthFlow`: a handler's `Step`, the `Claim` of a callback that the browser has
  sent to a listening server, and of a terminal that runs `Poll`, which is in its
  tick, and `Loaded`, the answer of the loads. Nothing is assumed of the user: the
  property asks that the sign-in was approved.
- `TuiCart` (`Released`): `Settle`, as the program ticks every 60 ms, and serving
  and answering of calls, as each has a timeout. Fairness is by sort of call (writes,
  reads, orders), which is weaker than by call. `Released` excuses a user who walks
  out of the checkout: opening it again queues a write behind the one in flight, and
  someone who keeps doing that keeps the keys frozen.

The other components state no fairness and no liveness.

Deadlock checking is off in every run, as each bounds its time, sessions, edits or
faults and comes to a legitimate stop; that nothing gets stuck is what
those four properties say, and, without fairness, `ListsLand` (what waits at launch
waits for a call under way) and `WizardEnds` (so does a wizard).

## 4. What is proved

tlapm checks these for every value of the constants: any number of calls,
tickets, payments, clients, processes, orders, dishes, agents and edits, any
interval, burst and window. Where no property is named, no run checks that formula
by this name: it is an invariant, a type, or a promise that a run need not repeat.

| theorem | property | says |
|---|---|---|
| `Browse_proofs!BrowsingTypes` | `BrowseTypeOK` | The types of the browse screens, the menus, the grocery shelves and the followed orders: the cursor is in its list, what is saved of a menu is a menu, the card's coordinates are of its own order. |
| `Browse_proofs!MenusAreOwn` | `MenuIsOwn` | Whatever pages land, in whatever order, and whatever filters are on, the dishes on a restaurant's screen are its own, and the key acts on the dish that is lit. |
| `Browse_proofs!CursorShown` |  | For every cursor, length and height of a list, the painted window holds the cursor row, its hints count the hidden rows, and rows and hints fit the height. |
| `Browse_proofs!FollowedOnce` | `FollowsOnce` | For any number of orders, polls and lists, late in any order: the file always holds the order of the slot and the second order is of the other shop. |
| `Browse_proofs!LiveStaysInSlot` | `SlotKeepsLive` | No answer takes a live order out of the slot before the grace has passed: what every answer under way says was so when it was said, and a list that lacks an order was made when the order was young. |
| `Browse_proofs!ListsAlwaysLand` | `ListsLand` | For any addresses, words and calls under way: one stream fills the lists, the launch loads are released, and the Instamart rows, loaders and copies belong to the calls behind them. |
| `SwiggyClient_proofs!Invariance` |  | The invariant of the limiters and sessions holds in every reachable state, for any clients, calls, interval, burst and refill. |
| `SwiggyClient_proofs!SlotsAreSpaced` | `SlotsSpaced` | Read slots are spaced by the interval. |
| `SwiggyClient_proofs!WritesAreBounded` | `WriteBudget` | The write bucket is never overdrawn in any window. |
| `SwiggyClient_proofs!RevokedStaysOut` | `RevokedNotReused` | A session reported revoked is never cached again. |
| `SwiggyClient_proofs!ClientTypes` |  | The types of the client's state; no wait, slot or backoff is negative. |
| `SwiggyClient_proofs!OrdersAreSentOnce` |  | A call that places or confirms an order is sent at most once, any other at most once more than its retries. |
| `Session_proofs!SessionTypes` | `SessionTypeOK` | The types of all three modules below a tool call; every refresh token that is sent was minted. |
| `Session_proofs!RefreshIsSafeAlways` | `RefreshIsSafe` | In one process whose keyring at most turns up, undisturbed refreshes never send a rotated token and the store keeps the youngest one, for any number of calls. |
| `Session_proofs!SignInIsTrueAlways` | `SignInIsTrue` | A code is redeemed once and a flow that is done has stored its token, for any processes, handlers, callbacks and flows. |
| `Install_proofs!LaunchableAlways` | `AlwaysLaunchable` | There is always a binary to launch, whatever fails and whoever is killed on Unix, and on Windows unless a process is, or broke off, between its two renames; for any number of processes that swap at once, versions and faults. |
| `Install_proofs!NamedIsInstalled` | `InstalledAsNamed` | A step that puts another binary in place puts the one the verified manifest named, for the same. |
| `Install_proofs!MarksAreTruthful` | `MarksTruthful` | A marker that spares launches the registration is true of every agent and bundle, whatever failed on the way. After an "uninstalled" no token is left but one that was stored meanwhile or was in a keyring out of reach, and, if nobody else was there, no file, and no entry or bundle but under a printed error. For any number of processes, agents, bundles and versions. |
| `Install_proofs!LaunchesEndTidily` |  | A launch runs itself again at most once, however often releases come out and even when it is forced; without a kill no temporary file outlives its process. |
| `Install_proofs!SwapsRollBack` |  | A process that meets no other ends its swap with a binary in place, whatever failed, unless the roll back did as well. |
| `Install_proofs!NeverDowngrades` |  | A process that meets no other and is not forced puts no older binary in the place of a younger one, even when a cache serves an old manifest. |
| `Install_proofs!TourIsShownOnce` |  | Who finished the tour, used the program or has a token that the launch could see is not shown it again, in whatever order processes start, until an uninstall. |
| `Install_proofs!NotesAreNotLost` |  | A version counts as seen only if its notes were closed, do not exist, or it was the first. |
| `Install_proofs!NotesAreShownOnce` |  | Notes that were closed do not come back while the interface is opened by one process at a time and by no older version. |
| `Install_proofs!IdsAreStable` |  | The install id does not change once it is there, unless two first launches overlapped. |
| `Install_proofs!StoresRemember` | `StoresAreTrue` | What the user said is in the file of that name, unless it was replaced from an old copy: every choice that was made, offers earned by runs of orders, the default and the pinned address, the latest orders; and lists stay within their bounds. For any callers, dishes, groups, addresses, caps and threshold, however the steps of the calls interleave. |
| `Install_proofs!MachineTypes` | `MachineTypeOK` | The types of update, installation and stores. |
| `McpServer_proofs!Invariance` |  | The inductive invariant IInv (types, locals, tickets, purses, claims) holds in every reachable state, for any number of calls, confirmations and payments. |
| `McpServer_proofs!TypeCorrect` |  | Type correctness. |
| `McpServer_proofs!PlacedAtMostOnce` | `PlacedOnce` | A confirmation orders at most once at Swiggy. |
| `McpServer_proofs!ConfirmExcludes` | `OneConfirmInFlight` | At most one handler confirms a payment at a time. |
| `McpServer_proofs!ConfirmedAtMostOnce` |  | A payment is confirmed with success at most once. |
| `McpServer_proofs!FlagsAreHeld` |  | No confirm-in-flight flag is leaked. |
| `McpServer_proofs!Refines` | `ImplementsLifecycle` | The server implements OrderLifecycle: every step of any handler, the environment or a restart moves each confirmation and each payment along the abstract life cycle, or leaves it. |
| `McpServer_proofs!PaymentsAreKept` | `PaidNotForgotten` | A paid, unsettled payment whose window is open is in the payment store of a process that has not restarted. |
| `McpServer_proofs!OrdersAsConfirmed` | `PlacedAsConfirmed` | With one call at a time and no foreign edit, the order has the items and the bill of its confirmation. |
| `McpServer_proofs!FileAgrees` |  | With one call at a time and no file error, the remembered cart write and cart-cache.json agree whenever no call runs (MemoryOnDisk). |
| `McpServer_proofs!OrdersNeverSeed` | `PlacedNeverSeeds` | With one call at a time, prepare_order never rebuilds the cart from a write that a known order has consumed. |
| `Placement_proofs!Invariance` |  | The invariant of requests, first reads and results holds in every reachable state, for any number of calls and foreign orders. |
| `Placement_proofs!PlacesAtMostOnce` | `OneOrderPerCall` | A call places at most one order, cash or UPI. |
| `Placement_proofs!SuccessesAreReal` | `SuccessIsReal` | An order older than the call is never reported as the one it placed. |
| `Placement_proofs!NoneOverlooked` | `NothingOverlooked` | A cash order that left its mark before the call returned is not reported as failed, if both reads worked and the error is one that is looked into. |
| `Placement_proofs!CommandTellsTheTruth` | `CommandIsTrue` | The order command places one order at most, of a bill shown to somebody who can answer, announces only what stands at Swiggy and reports nothing that may stand there as nothing. |
| `Placement_proofs!GroceryCartIsTrue` | `IMCartIsTrue` | Until an order is placed, at most one write of the Instamart cart is in flight, and what the flags hold back waits for an answer that will come; at rest the lines the user made are what the store holds, however it caps, clears or refuses; for any products, edits, yeses and reads. |
| `Placement_proofs!GroceryOrdersAsApproved` | `IMOrderedAsApproved` | What Swiggy orders from the Instamart cart is the cart the user said yes to, however the store caps, refuses, sells out or loses, unless the lines change on the way there or an earlier order is being cleared; for any number of products, edits, yeses, reads and faults. |
| `Placement_proofs!WizardAddsAsConfirmed` | `AddedAsConfirmed` | What the wizard adds to the lines is what Swiggy has just accepted with them, unless an answer may have been taken for another one. |
| `Placement_proofs!WizardAlwaysEnds` | `WizardEnds` | A wizard that waits has a request under way, nothing of one that was given up stays at Swiggy, and its add-on page shows the groups that fit and leaves none that fits out, unless a write failed or an answer strayed; for any groups, choices, clashes, hints and writes under way. |
| `Placement_proofs!OrdersTyped` | `OrdersTypeOK` | The types of placement, Instamart cart, wizard and order command. |
| `TuiCart_proofs!TypesAreKept` | `TypeOK` | The types of the cart's loop; the units of every cart and of every write under way are numbers, and those of Swiggy's cart within its cap. |
| `TuiCart_proofs!Invariance` |  | The inductive invariant IInv (flags, history, the modal at rest, forgotten flights, an order owed per yes) holds in every reachable state, for any dishes, edits, orders, faults and commands under way. |
| `TuiCart_proofs!WritesDoNotOverlap` | `SingleFlight` | Until a flight is forgotten, at most one cart write is in flight and the loop knows it. |
| `TuiCart_proofs!YesOrdersOnce` | `OneOrderPerYes` | Orders never outnumber the yeses of the user. |
| `TuiCart_proofs!CartsConverge` | `Converged` | Once no edit waits and no write is under way, Swiggy's cart is the lines of the user's last edit, unless the loop itself replaced them: by CartInv, what is in flight takes just those lines and what was answered left them at Swiggy. |
| `TuiCart_proofs!OrdersAreApproved` | `OrderedAsApproved` | From a yes to its order, the lines, the confirmed lines, the cart at Swiggy and every write under way stay what was approved or become empty, so what is ordered is what was approved, for a user who leaves the cart alone. |

The assumptions are those named in the modules: constants are numbers where the
code has numbers, a positive burst, `None`, `NoOne`, `NoOrder` and `Other` are no
datum, `2^n` is a number for the retries there are (TLC evaluates it); the products
of a shop, the dishes of a cart and the option groups of a dish are finitely many
(`OrdersAssumption`, `ItemsAssumption`, `InstallAssumption`); a group of the wizard has choices, and
no choice is a variant and an add-on (`WizardAssumption`); a restaurant serves some
menu, in pages of known dishes, into a list three rows high at least
(`MenuAssumption`); an account's address lists are lists, and there is a chip
(`PlacesAssumption`). TLC evaluates them on every run. Four
theorems have hypotheses beyond these, each true of some uses of the program and
false of others:

- `OneCall` (an agent that waits for every answer) for `OrdersAsConfirmed`,
  `FileAgrees` and `OrdersNeverSeed`, and `MaxForeign = 0` (nobody edits the cart
  elsewhere) for the first: between the comparison of a cart and its order, or
  between the two halves of a look at the cart memory, the code lets another call in
  (hazards `tools_order.go:305`, `memcache.go:170`).
- `OneProcess` and `OnlyTurnsUp` for `RefreshIsSafeAlways`. Two processes that read
  one expired token both send its refresh token. A keyring that goes away takes
  the token with it and, when it is back, brings back the old one. In both cases the
  code does not keep the property.

### The arguments

**McpServer.** The invariant is `IInv`: `TypeOK`, `LocalsOK`, `TicketInv`,
`PurseInv`, `LandedInv`, `OneConfirmInFlight`, `ClaimIsHeld`. None of the
properties is inductive alone. That a ticket orders once needs to know where it
is: in the store, in the hands of exactly one call, or used up, and unspent in
the first two cases (`TicketInv`). That confirms exclude each other needs
`PurseInv`: while a confirm is in flight its flag is up *as long as its entry is
there*. The proviso is the point: `check_payment` and the sweep of `put` remove
both, and only since payment ids are never reissued (an id that is being handed
out has no entry and no confirm in flight) does a removed entry not open the door
to a second confirm. `ClaimIsHeld` is inductive only with the clause that flags
exist for entries only. `LocalsOK` says that a handler at a label has the locals
it is about to use (the code would dereference nil), and `LandedInv` that a
payment in the store is one for an order Swiggy has.

**The promises of McpServer.** The refinement needs, beyond `IInv`, that a payment
was opened for one order, that its ticket has placed that order, and that no order
has two payments (`BuysInv`). Then the label of every handler tells which
abstract step, or stutter, its action is: one lemma per group of actions. A payment
that is paid and open is in the store or on its way there before anyone can pay
(`KeepInv`): what is dropped failed or is over, what is settled was confirmed. With
one call at a time, the hash of a ticket is that of the bill it was minted for and
the cart has that bill when it is about to order (`BoundInv`); memory and file agree
except for what the call in progress is going to write (`MemInv`); and a
remembered write that is not marked is no older than any order the process knows
of, except the one it is just keeping books on (`SeedInv`).

**SwiggyClient.** `SlotInv`: `next` is as many intervals after a slot as slots
were handed out since, which is what makes a new slot keep the spacing.
`TokenInv` turns the lazy refill into an inequality: `last - credit` is the time
to which the bucket's tokens are spent, and it covers every token handed out but
a burst of them; idle time can only be capped away, never banked. `SessionInv`:
sessions are numbered as issued, so what an initialize in flight brings is newer
than anything a client was told is dead. `SendInv` counts: a call has been sent
once per attempt it counts, once more if this attempt's request is out, and
counts no more attempts than its tool allows.

**Session.** `AuthInv`: a handler at work owns its flow (claimed, in no other hands,
started by a process that runs), with the code still to be posted or the token
stored; so it is posted once and "done" only after the write. `StoreInv`: as long
as nothing disturbs it, at most one call refreshes, with the refresh token that the
server honours; until it has stored the answer the others wait for the mutex, and one
that waits with an older refresh token finds a usable token at its second look.

**Placement.** `RequestInv`: before its request is sent, and while it is on the
wire, a call has placed nothing, and it is never on the wire twice. `ReadInv`: a
first read that worked knows every order from before the call, and a second read
is made only after such a first. `ResultInv` follows from both. `LookInv` adds
what the second read saw: a cash call that failed after an error which is looked
into saw no order of its own. **CliOrder**: `CliInv` follows one run: which
question was read, which bill was shown, and that orders exist only past the answer.

**TuiInstamart.** Until an order is placed or an Enter tires of chasing, the flags
say what is in flight, and it is one write (`OneWrite`). With that, lines of the
user's that no edit waits for are what the write under way takes, or what the
store made of it (`Faithful`): the two together are `IMCartIsTrue` at rest.
`IMOrderedAsApproved` needs `ApprovedInv` beside them. A store that caps a cart would
change it under the order, so what is approved has to fit: whatever was read of Swiggy
fits (`AllFits`), the modal opens over lines that match it, and stays over lines that
fit (`ModalFits`). From the yes to the answer of its write, the lines, that write and
what the store made of it are what was approved or empty (`WaitFits`), and from there
to the order the same holds of the store, of the lines and of the writes that may yet
change it (`OrderFits`).

**TuiWizard.** `WizInv`: unless an answer may be taken for another one, one write is
under way: a question of the wizard that is open, with the draft that its phase is
about, or the cart without a draft (`AloneAsks`). Only a page that has asked waits
(`Waits`), and a cart that no wizard and no edit waits for is at Swiggy or on its way
(`Flushed`). What the add-on page shows needs more: what the wizard holds is groups of
its dish and choices of these groups (`WizHeld`), an answer tells what Swiggy thinks of
the draft it answers (`Truthful`), the question that is open is about the candidate the
wizard has come to, and of the candidates before it those that were found fit and the
others do not (`Offering`). A part of what Swiggy accepts is accepted, so a group that
was tried with a crust fits without it (`PageIsFit`).

**TuiCart.** `SingleFlight` alone is not inductive: the last write before an order
starts without a look at `cartSyncInFlight`. It is safe because the modal opens only
at rest and nothing can start under it, which is `ModalAtRest`, and because a write
that was forgotten is not there unless `loose` says so (`OldIsLoose`).
`OneOrderPerYes` needs a count: `OneYesEach` says that the orders made, those that
calls under way may still make, and the one that waits for its write do not
outnumber the yeses together. A yes adds to both sides; the answer of a write, a
UPI order that turns into a cash order, and Swiggy's order each move a unit from
one place to the next. The flag `placingOrder` plays no part: the confirmation of
an earlier payment clears it while another order is under way, and still no yes is
spent twice. `Converged` and `OrderedAsApproved` need `CartInv`: what is in flight
takes just the lines (`LeftAlone`); from the yes to the answer of its write, the
lines, that write and what it left at Swiggy are what was approved or empty
(`YesHolds`), and from there to the order the same holds of the lines, of those a
failed write would bring back, of Swiggy's cart and of the writes that may yet
change it (`OrderHolds`). Empty, because an earlier order empties the cart on the
screen and at Swiggy, each in its time. The rest of `TypeOK` says that the units of a
cart are a number: they are a sum over its dishes, a fold.

**FoldLemmas.** The library's induction theorems take an operator as a parameter, which no
prover here can instantiate, so an induction is the argument of the least counterexample
(`LeastNumber`), with a set in the place of the predicate. A fold is a function that
calls itself, chosen by CHOOSE: it is shown to exist, with the step as a
function, and then what the fold keeps is a set that the step does not leave
(`FoldStays`, `LeftFoldStays`, `AppendNewStays`). Sums, selections, appends without
repetition and removals at an index follow. In the models a fold is named where a proof
has to see it (`Only`, `Run` in `LocalStores`).

**TuiOrders.** `FollowInv`: what an answer says was so when it was said, a list that
lacks an order was made when it was young, and no order dies but at Swiggy. So an
order is taken from the slot only past its grace or when it is over.
**TuiPlaces**: one stream per generation, and what waits at launch waits for a page,
for the addresses that will ask for one, or for a sign-in (`PlacesInv`).
**TuiProducts**: a loader and a copy each have the call behind them that ends or
replaces it (`ShelfInv`), and while the picker is open nothing else changes what it
returns to (`AisleInv`). **TuiMenus** (`MenuInv`): what is on the screen, staged, cached
or under way of a place is dishes of its menu, each once; a page is taken only by the
visit that asked for it, a filter takes dishes away, and an append leaves those out that
are there. **Viewport**: the window's arithmetic holds the cursor row
for every height and length.

**Updater.** `UpdInv`: on Unix no label of a swap is without a binary at its path;
on Windows there is none only while a process is between the two renames, or after one was
killed there or could not roll back (`mishaps.bare`, what `AlwaysLaunchable` concedes; a fault
or a kill anywhere else concedes nothing). Past the checksum, the bytes that a process
holds are what the manifest it read had named. `SwapInv` adds what a process that met
no other can count on: until the swap the binary is the image that it runs, between
the renames of Windows the backup is, what it is about to put there is newer unless it
is forced, and only a process in its swap has a temporary file. Of two
processes at work each has met the other.

**Installation.** `KeepInv` joins what each registration has done so far, of agents and of
bundles, or that it has an error (`WorkInv`); that a marker is never ahead of the binary and is
truthful where it has caught up (`MarkInv`); how far an uninstall has come, and what it has
printed (`LeaveInv`); and where a token can still be that a launch did not see, or that a logout
did not reach (`TokenInv`). None is inductive alone: that a marker may be written rests on
what each of the processes at work has wired and copied, and they overwrite each other's
bundles; a copy that breaks off would break `MarkInv` for another process, which is why
`past.mixed` counts it. `HistInv` adds that whoever makes the install id is alone in it until two launches overlap, and that,
while interfaces are opened one at a time and by no older version, the version last seen is the
youngest whose notes were closed, and younger notes alone are on their way.

**LocalStores.** `StoreInv`: the edits that a call has still to make are of the kinds that
the code has (`StoreTypes`); each file is well formed (`FileOK`: one taste per dish, as many
orders and presets as the cap lets in), and unless it was replaced from an old copy it agrees with
what the user said and did (`Agrees`). For a taste that is `Memory`: what it marks as
said is what the user said last of each group of the dish, since an eviction takes only
entries of which nothing was said; and what it has inferred is backed by a run of orders
that is as long as its count (`Backed`), so that an offer at the threshold was earned. Between
reading and renaming, a copy whose version is still that of the file is the file
(`CopyInv`), which is why a save that overtakes nobody loses nothing; a card that is shown
to the user while addresses are asked for has the default of the one on disk, and is
reconciled with the addresses of that time or more (`KeptInv`). One lemma per edit says
what it does to the file and to the history, so that both move together.

Proof attempts have corrected the models. `MarkerTruthful` had a condition
that no registration was under way, and turned out not to need it. `NeverHeld`
held on its run's bounds and was false beyond `MaxLost` = 1: the model had delayed
the launch loads of an address that was replaced, where the code sends them at once
(`app.go:1113`). `IMOrderedAsApproved` was false beyond `MaxReads` = 1, where
two reads may answer late: the first changes the lines under the modal, and the second
while the order is being placed. It now excludes the second, as it excludes the user's
own edits (section 5). `IMGate` and the wizard's position now say in logic what
they said with a cardinality and an index past the end.

### Only model-checked

Of the properties that the passing runs check, four are not theorems: `TheCallReturns`,
`TheTokenReturns`, `SignInWorks` and `Released`, which are about liveness under fairness, and the
prover does neither that nor ENABLED. All others are proved for `Spec` as it
stands, three of them under the hypotheses above (`OneCall`, `MaxForeign = 0`,
`OneProcess`, `OnlyTurnsUp`).

Recursive definitions appear in none of the modules.

## 5. Where the code and its words differ

Each has a run in which TLC shows the counterexample.

1. `mcp_charged`: a payment whose window closed is reported with "nothing was
   charged" (`tools_order.go:204`, `:239`) without a last poll. A payment made
   inside the window that nobody polled in time is then denied and forgotten.
2. `place_reject`: an error the classifier does not know is "a definitive
   rejection" (`orders.go:161`), including a broken connection and a 200 that
   could not be read, after which the order may exist.
3. `tui_approved`: an order is placed "ONLY if the sync re-priced to exactly what
   the user approved" (`app.go:3069`), but the cart may be edited between the yes and the
   order (`app.go:5114`): the edit is written once the last write is answered, and may
   reach Swiggy before the order does. `OrderedAsApproved` says what holds for a user
   who keeps off the keys.
4. `auth_gate`: the gate "makes sure a fresh authorize flow is armed"
   (`app.go:5904`), but arms one only while `authorizeURL` is empty, which it never is
   again. After a sign-in in the same session, a revoked token brings up a gate whose
   flow is done: it closes at the next tick, the loads are refused, and it is back.
5. `tui_address`: the address is the user's choice "until the forced pick is
   satisfied" (`app.go:428`), but the addresses that are asked for again after a
   sign-in in the middle of a session put the account's first one in its place
   (`app.go:2697`). The lines of the cart stay and go to that address.

TLC also refuted these, which no comment promises outright, or which are
notes to a finding; they are not runs.

*Ordering server*
- *A ticket binds the exact lines* ("to the exact lines", `confirm.go:48`). `cartHash`
  leaves the customisations out: two carts that differ in a variant of the same price
  are the same to it.
- *The taste card learns from the ordered cart.* It learns from the last cart
  write at confirmation time (`tools_order.go:352`, `:377`), which after a UPI payment
  may be a later one for the same address.
- *A restart does not matter.* A process that ends between an order and its
  "placed" flag, or between the flag in memory and in the file
  (`memcache.go:154`), lets the ordered cart seed a rebuild; open payments are
  in memory only (`payments.go:26`).
- *A rebuild keeps the outlet.* It is "same outlet only" (`tools_order.go:96`), and
  nothing compares the remembered restaurant with the cart that is there: asked for
  another address than the last write, `prepare_order` replaces it
  (`tools_order.go:88`).

*Session*
- *Sends are spaced.* Slots are; a first write then waits for its write token
  (`client.go:326`) and is sent whenever that comes, beside the slot of another
  call. `SlotsSpaced` says what is kept.
- *A sign-out is complete* ("a sign-out is complete", `localstore.go:177`). A refresh
  under way puts a working token back after the purge (`service.go:441`), and a
  keyring that `PurgeToken` could not reach still has the token when it is back.
- *An uninstall is complete* ("fully removes", `uninstall.go:32`). It ends with
  "uninstalled" although a config could not be saved without our entry
  (`provision.go:113`, printed on the way), the keyring could not be reached, or somebody
  signed in while it waited for the yes (`main.go:231`, `uninstall.go:101`: "no token to
  purge"). `UninstallTruthful` says what the word is worth.
- *A marker is of the bundles that are there* (`sync.go:62`). A process that breaks off in a
  bundle after another one has written the marker, or while that one copies the same bundle, leaves it in
  part until the next release; so do two versions that register at once. Hence `mixed`.
- *Only dead tokens are purged.* Two processes start with one expired token; the
  slower is rejected (its refresh token has rotated) and `main.go:236` purges
  what the faster has just stored.
- *No rotated token is sent after a lost answer.* The refresh was granted, the
  answer or the write was lost, the store keeps the old refresh token: the next
  refresh sends it (`tokensource.go:67`). `NoReuse` is about runs without such a loss.
- A token that lives no longer than `refreshSkew` is expired when it is stored
  (`tokensource.go:75`): every waiting goroutine refreshes again.

*Carts of the terminal*
- *A checkout always thaws.* Enter freezes the keys before it knows that a write goes
  out (`app.go:5168`). If the restaurant of the cart cannot be found
  there is none, and no answer to thaw them: with `Resolves <- FoundOrNot`, `Released`
  is violated. `afterCheckoutReduce` takes care of the same case (`app.go:5957`).
- *Writes never overlap.* `clearPlacedCarts` drops the flag of a write in flight
  (`app.go:1396`); the next one then flies beside it, and the old answer is taken
  for the new one's. Hence `loose`.
- *A failed write rolls back to what Swiggy has.* The answer of a write confirms the
  lines of that moment (`app.go:3060`), which may hold edits made during the flight. If
  the next write fails, the rollback restores lines that were never written, the
  "phantom item" of the comment at `app.go:3038`.
- *The modal shows Swiggy's bill.* A launch pull or a cart load that answers late
  overwrites the bill of a later write (`app.go:3140`). The last write
  before the order compares the two bills again, so no order goes wrong.
- *A "-" changes nothing if there is nothing to take away.* On a dish that is not in
  the cart it arms a write (`app.go:2065`); before the launch pull has answered that write empties
  the cart that the phone left at Swiggy.
- Instamart: a chase that has spent its budget opens the modal with edits waiting; the
  answer of the clearing after an order resets the gate (`app.go:3777`); a stale read
  replaces newer lines and commits lines that were not sent (`app.go:3373`-`3382`).
- *Instamart orders what was approved.* A read that was sent before the yes may replace
  the lines while the order is being placed (`app.go:3188`, `:3376`). If the user has
  gone back and in again in the meantime, a write is armed that takes these lines to
  Swiggy, and it may come before the order does. `IMOrderedAsApproved` says what holds
  if no read overtakes the order and the user keeps off the cart.
- Wizard: an answer that comes while the wizard is open never clears
  `cartSyncInFlight`, against `app.go:993`; the price shown may be that of another
  variant (`app.go:2935`); "start new" in a conflict clears the lines and writes
  nothing (`app.go:4268`); an Esc whose flush fails leaves the draft. An answer beyond
  the candidates would panic (`app.go:2979`) and comes only astray.

*Lists and orders of the terminal*
- *The card carries its own order's status* (`app.go:3580`). A promoted order is
  painted on the card of the finished one (`app.go:2392`).
- *Disk-seeded entries still get one live refresh.* Not those of an address that was
  left before they were asked for.
- *A key on a dish leaves the cursor on it* (`app_test.go:444`). A "+" rebuilds the
  list and may move it (`app.go:731`).
- Instamart: `loadedQueries` is marked when a list is asked for, not when it came
  (`app.go:283`); the lit category need not be the listed one; an empty list without
  a loading scene may have a call under way; a search box may be active off the screen
  (`app.go:5615`); `SeedIMFromCache` paints the copy of the disk over a live list
  (`app.go:5310`, `:6236`).
- A list that lacks a second order drops it with no grace (`app.go:3644`, `:3843`), and
  a poll of a payment that was given up may answer into a later one (`app.go:3483`).

*Command line and files*
- *A cancelled command does not place* (`cli.go:62`): Ctrl-C after the answer does not
  stop it. *The approval is typed after the bill*: a line typed ahead is
  taken for it. *The order is of the bill shown*: the cart is not read again.
- *What the user does not care about outlives evictions*, *a preset can be found by the
  name it was saved under* (not a padded one), *the address cache is the latest list* (a
  heal replaces it by an older one, `tools_card.go:113`).
- Two processes that edit one file at once lose one of two edits, in every store.

## 6. What the models leave out

- A payment without a deadline (`ExpiresAt` zero), which the code treats as
  open forever.
- The float arithmetic of the write bucket: credit is exact here.
- Paging of the list of active orders, which is read at one moment; an order that is
  accepted without an id.
- A sign-in always brings a refresh token; access tokens live equally long, and
  long enough to outlive the requests of one refresh;
  the server has one grant per account at a time. PKCE, the token endpoint and the JWT
  are outcomes.
- The jitter and Retry-After of the backoff are any value in the range the code
  allows; the shift `2^n` does not overflow within the retries modelled.
- Presets that carry another outlet's name; that `save_preset` copies the last cart
  write. (Saving, finding and deleting presets is in `LocalStores`.)
- Of the terminal: pack sizes, changes of address with a cart, the conflict of two
  restaurants, the customize sheet, loading cues, the usuals list; the poll of a UPI
  payment is a step with its outcomes. Dishes of the food cart cost the same.
- Of an installation: signatures, version strings, the formats of the agents'
  configuration files, telemetry; `console agents install`, which registers without the
  marker; writes of the marks of the tour, of the last version and of the id that fail.
- Decoding of what Swiggy answers, message texts, rendering, logging. The payment status
  is matched by substring, so that "UNPAID" and "UNSUCCESSFUL" contain the words for
  success (`payment.go:328`): a hazard without a model.

## 7. Plan

What matters most to money came first; all components of the plan are modelled as far
as section 6 says, and every safety property of the passing runs is a theorem. What would come
next:

| step | what | needs |
|---|---|---|
| 1 | changes of address with a cart, and the conflict of two restaurants, in `TuiCart` | two addresses in its run, and `CartInv` per address |
| 2 | the discovery tools of the MCP server | what they read of the cart memory, which only `update_cart` writes |
| 3 | `TheCallReturns` as a theorem | a prover for ENABLED and fairness |
