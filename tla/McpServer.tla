----------------------------- MODULE McpServer -----------------------------
(***************************************************************************)
(* The ordering server behind `console mcp` (src/internal/mcp).  An agent  *)
(* calls its tools; the go-sdk runs every call on a goroutine of its own,  *)
(* so the handlers below interleave at each access to shared state: one    *)
(* backend request to Swiggy, one critical section of confirmStore,        *)
(* paymentStore or Server.mu, or one read or write of cart-cache.json.     *)
(*                                                                         *)
(* A handler is a program counter (pc[c]) and its locals (job[c]).  A call *)
(* starts when the agent picks a tool for an idle slot and is over when    *)
(* the slot is idle again.  A call refused by requireAuth, or refused for  *)
(* an unknown tender, touches nothing and is a stuttering step.            *)
(***************************************************************************)
EXTENDS Naturals, FiniteSets

CONSTANTS
  Calls,            \* slots for tool calls in flight at the same time
  Tools,            \* the tools the agent uses in this instance
  ConfIds, PayIds,  \* random ids the two stores hand out, never repeated
  Addresses,
  FoodBaskets,      \* carts of the food vertical: [rest, items, sels, total, soldOut]
  Groceries,        \* carts of the Instamart vertical, same fields
  None,
  OrderCap,         \* orderCapRupees
  ImMin,            \* imMinRupees
  ConfirmTTL,       \* confirmTTLSeconds
  PayWindow,        \* the payment window Swiggy grants
  RebuildWindow,    \* cartRebuildWindowSeconds
  MaxTime,          \* bound of the clock
  MaxRestarts,      \* bound of process restarts
  MaxForeign,       \* bound of cart edits made outside this process
  MaxLost           \* bound of reads and writes of cart-cache.json that fail

AllTools == {"update_cart", "clear_cart", "im_update_cart", "im_clear_cart",
             "prepare_order", "im_prepare_order", "order_preset",
             "place_order", "check_payment", "confirm_order"}

Verticals == {"food", "instamart"}
Baskets   == FoodBaskets \cup Groceries

BasketType == [rest : STRING, items : STRING, sels : STRING,
               total : Nat, soldOut : BOOLEAN]

ASSUME ConstantsAssumption ==
  /\ Tools \subseteq AllTools
  /\ Baskets \subseteq BasketType
  /\ FoodBaskets \cap Groceries = {}
  /\ OrderCap \in Nat /\ ImMin \in Nat
  /\ ConfirmTTL \in Nat /\ PayWindow \in Nat /\ RebuildWindow \in Nat
  /\ MaxTime \in Nat /\ MaxRestarts \in Nat /\ MaxForeign \in Nat /\ MaxLost \in Nat

VARIABLES
  now,         \* the clock
  cart,        \* Swiggy's live cart of each vertical
  upi,         \* Swiggy's side of each UPI payment
  landed,      \* the order Swiggy holds for each confirmation
  pending,     \* confirmStore.m
  payments,    \* paymentStore.m
  confirming,  \* paymentStore.confirming
  lastCart,    \* Server.lastCart
  diskCart,    \* cart-cache.json
  books,       \* what localstore learned: active order, history, taste
  pc, job,     \* the handlers in flight
  \* Observations, read by the properties only:
  shown,       \* the bill minted for each confirmation
  spent,       \* how many orders each confirmation placed at Swiggy
  confirmed,   \* how many confirms of each payment were answered with success
  told,        \* payments reported dead with "nothing was charged"
  faults       \* restarts, foreign cart edits and file errors so far

stores   == <<pending, payments, confirming>>
memory   == <<lastCart, diskCart>>
swiggy   == <<cart, upi, landed>>
observed == <<shown, spent, confirmed, told>>
calls    == <<pc, job>>
vars     == <<now, swiggy, stores, memory, books, calls, observed, faults>>

-----------------------------------------------------------------------------
(* Data *)

\* Mutant: the bill alone.
HashBill(a, b) == [addr |-> a, items |-> "any", total |-> b.total]

\* cartHash and imCartHash: what a confirmation is bound to.  Customisations
\* (sels) and the restaurant are not part of it.
Hash(a, b) == [addr |-> a, items |-> b.items, total |-> b.total]

CartWrites ==
  [addr : Addresses, vert : Verticals, basket : Baskets \cup {None},
   at : 0..MaxTime, placed : BOOLEAN]

\* pendingOrder, with the id it is stored under.
PendingOrders ==
  [id : ConfIds, addr : Addresses, vert : Verticals,
   hash : {Hash(a, b) : a \in Addresses, b \in Baskets}, at : 0..MaxTime]

\* paymentEntry: the pending payment's deadline and the order it pays for.
PaymentEntries == [exp : 0..(MaxTime + PayWindow), ord : PendingOrders]

UpiStates == [status : {"none", "open", "paid", "failed"},
              exp : 0..(MaxTime + PayWindow),
              conf : ConfIds \cup {None}]   \* the order it pays for

LandedOrders == [basket : Baskets, addr : Addresses, at : 0..MaxTime,
                 known : BOOLEAN]

Methods == {"default", "upi", "cod"}

Labels == {"idle", "inspect", "evict", "forget", "forgetDisk", "readd",
           "record", "save", "look", "lookDisk", "adopt", "resync", "mint",
           "verify", "upi", "hold", "cod", "poll", "discard", "confirm",
           "sweepCart", "settle", "release", "active", "history", "taste",
           "markMem", "markLoad", "markSave", "clearIM"}

Jobs ==
  [tool   : AllTools \cup {None},
   vert   : Verticals,
   addr   : Addresses \cup {None},
   seen   : Baskets \cup {None},        \* the cart last read or written
   cw     : CartWrites \cup {None},     \* the cart write being handled
   ord    : PendingOrders \cup {None},
   pay    : PayIds \cup {None},
   method : Methods,
   then   : {"decide", "history", "taste"}]

NoJob == [tool |-> None, vert |-> "food", addr |-> None, seen |-> None,
          cw |-> None, ord |-> None, pay |-> None, method |-> "default",
          then |-> "decide"]

Request(tool, v) == [NoJob EXCEPT !.tool = tool, !.vert = v]

\* None is no datum: the nil of Go.
ASSUME NoneAssumption ==
  /\ None \notin AllTools /\ None \notin Baskets /\ None \notin Addresses
  /\ None \notin ConfIds /\ None \notin PayIds
  /\ None \notin CartWrites /\ None \notin PendingOrders
  /\ None \notin PaymentEntries /\ None \notin LandedOrders

VerticalOf(b) == IF b \in Groceries THEN "instamart" ELSE "food"

-----------------------------------------------------------------------------
(* Moving a handler *)

Goto(c, l, j) == /\ pc'  = [pc  EXCEPT ![c] = l]
                 /\ job' = [job EXCEPT ![c] = j]

Step(c, l) == Goto(c, l, job[c])
Return(c)  == Goto(c, "idle", NoJob)

At(c, l) == pc[c] = l

Begins(c, tool) == pc[c] = "idle" /\ tool \in Tools

-----------------------------------------------------------------------------
(* Swiggy's carts.  A food cart belongs to one restaurant: a write for     *)
(* another one is refused.  A write that is answered with an error may     *)
(* have landed all the same (a timeout, a 5xx after the fact).             *)

Accepts(v, b) == v = "food" /\ cart[v] # None => cart[v].rest = b.rest

CartWritten(v, b)   == Accepts(v, b) /\ cart' = [cart EXCEPT ![v] = b]
CartWriteErrs(v, b) == UNCHANGED cart \/ CartWritten(v, b)
CartCleared(v)      == cart' = [cart EXCEPT ![v] = None]

-----------------------------------------------------------------------------
(* confirmStore *)

Stale(p)  == now > p.at + ConfirmTTL

\* sweepLocked followed by the insertion of put and putIM.
PutPending(id, p) ==
  pending' = [i \in ConfIds |->
                IF i = id THEN p
                ELSE IF pending[i] # None /\ Stale(pending[i]) THEN None
                ELSE pending[i]]

\* Mutant: the confirmation stays for a retry.
TakeOutLate(id) == pending[id] # None /\ UNCHANGED pending

\* take deletes the entry, expired or not.
TakeOut(id) == pending' = [pending EXCEPT ![id] = None]

\* Ids still unused, beyond those the calls in flight may need: a bound on the
\* instance, since the real ids are 96 random bits.
Minting == {c \in Calls : job[c].tool \in
              {"prepare_order", "im_prepare_order", "order_preset"}}
SpareConfIds == {i \in ConfIds : shown[i] = None}
RoomToMint   == Cardinality(Minting) < Cardinality(SpareConfIds)

-----------------------------------------------------------------------------
(* paymentStore *)

\* Mutant: closed one second early.
ClosedEarly(e) == now + 1 >= e.exp

Closed(e) == now >= e.exp

\* Mutant: only the entry is looked up.
ClaimableTwice(id) == payments[id] # None

\* claimConfirm's test.
Claimable(id) == payments[id] # None /\ id \notin confirming

\* paymentStore.put: sweep what has closed, then insert.
PutPayment(id, e) ==
  /\ payments' = [i \in PayIds |->
                    IF i = id THEN e
                    ELSE IF payments[i] # None /\ Closed(payments[i]) THEN None
                    ELSE payments[i]]
  /\ confirming' = {i \in confirming : payments[i] = None \/ ~Closed(payments[i])}

\* paymentStore.remove
RemovePayment(id) ==
  /\ payments' = [payments EXCEPT ![id] = None]
  /\ confirming' = confirming \ {id}

SparePayIds == {i \in PayIds : upi[i].status = "none"}
Placing     == {c \in Calls : job[c].tool = "place_order"}
RoomToPay   == Cardinality(Placing) < Cardinality(SparePayIds)

-----------------------------------------------------------------------------
(* The last cart write: Server.lastCart backed by cart-cache.json          *)

Write(a, v, b) == [addr |-> a, vert |-> v, basket |-> b,
                   at |-> now, placed |-> FALSE]

\* Mutant: an ordered write is replayed like any other.
RebuildsPlaced(j, cw) ==
  /\ cw # None /\ cw.basket # None /\ now <= cw.at + RebuildWindow
  /\ cw.addr # j.addr \/ j.seen = None

\* prepare_order may replay a write that was not ordered yet, has lines and is
\* recent, when it was made for another address or Swiggy dropped the cart.
Rebuilds(j, cw) ==
  /\ cw # None /\ ~cw.placed /\ cw.basket # None
  /\ now <= cw.at + RebuildWindow
  /\ cw.addr # j.addr \/ j.seen = None

\* Where a handler goes once lastCartWrite has answered cw.
AfterLook(j, cw) == IF j.then # "decide" THEN j.then
                    ELSE IF Rebuilds(j, cw) THEN "resync" ELSE "mint"

Found(c, cw) == Goto(c, AfterLook(job[c], cw), [job[c] EXCEPT !.cw = cw])

\* lastCartWrite, first critical section: the copy in memory.
Look(c) ==
  /\ At(c, "look")
  /\ IF lastCart # None THEN Found(c, lastCart) ELSE Step(c, "lookDisk")
  /\ UNCHANGED <<now, swiggy, stores, memory, books, observed, faults>>

\* An error of the file is swallowed: a failed load finds nothing, a failed
\* write leaves the old file (writeFileAtomic).
FileFails == faults.lost < MaxLost /\ faults' = [faults EXCEPT !.lost = @ + 1]

FileIs(f) == \/ diskCart' = f /\ UNCHANGED faults
             \/ UNCHANGED diskCart /\ FileFails

\* lastCartWrite, outside the lock: LoadCartCache.
LookDisk(c) ==
  /\ At(c, "lookDisk")
  /\ \/ Found(c, None) /\ FileFails
     \/ /\ IF diskCart = None THEN Found(c, None)
           ELSE Goto(c, "adopt", [job[c] EXCEPT !.cw = diskCart])
        /\ UNCHANGED faults
  /\ UNCHANGED <<now, swiggy, stores, memory, books, observed>>

\* lastCartWrite, second critical section: overwrites whatever memory holds.
Adopt(c) ==
  /\ At(c, "adopt")
  /\ lastCart' = job[c].cw
  /\ Found(c, job[c].cw)
  /\ UNCHANGED <<now, swiggy, stores, diskCart, books, observed, faults>>

\* recordCartWrite under the lock; the write is stamped here.
Record(c) ==
  /\ At(c, "record")
  /\ LET cw == [job[c].cw EXCEPT !.at = now]
     IN  lastCart' = cw /\ Goto(c, "save", [job[c] EXCEPT !.cw = cw])
  /\ UNCHANGED <<now, swiggy, stores, diskCart, books, observed, faults>>

\* recordCartWrite after the lock: SaveCartCache.
Save(c) ==
  /\ At(c, "save")
  /\ FileIs(job[c].cw)
  /\ IF job[c].tool \in {"prepare_order", "order_preset"}
       THEN Step(c, "mint") ELSE Return(c)
  /\ UNCHANGED <<now, swiggy, stores, lastCart, books, observed>>

\* clearCartWrite: memory, then disk.
DropFile == FileIs(None)

Forget(c) ==
  /\ At(c, "forget")
  /\ lastCart' = None
  /\ Step(c, "forgetDisk")
  /\ UNCHANGED <<now, swiggy, stores, diskCart, books, observed, faults>>

ForgetDisk(c) ==
  /\ At(c, "forgetDisk")
  /\ DropFile
  /\ IF job[c].tool = "update_cart" THEN Step(c, "readd") ELSE Return(c)
  /\ UNCHANGED <<now, swiggy, stores, lastCart, books, observed>>

\* markCartWritePlaced: the flag in memory, then MarkCartCachePlaced, which
\* reads the file and writes it back.
MarkMem(c) ==
  /\ At(c, "markMem")
  /\ lastCart' = IF lastCart = None THEN None
                 ELSE [lastCart EXCEPT !.placed = TRUE]
  /\ Step(c, "markLoad")
  /\ UNCHANGED <<now, swiggy, stores, diskCart, books, observed, faults>>

AfterMark(c) == IF job[c].tool = "place_order" /\ job[c].vert = "instamart"
                  THEN Step(c, "clearIM") ELSE Return(c)

MarkLoad(c) ==
  /\ At(c, "markLoad")
  /\ \/ AfterMark(c) /\ FileFails
     \/ /\ IF diskCart = None THEN AfterMark(c)
           ELSE Goto(c, "markSave", [job[c] EXCEPT !.cw = diskCart])
        /\ UNCHANGED faults
  /\ UNCHANGED <<now, swiggy, stores, memory, books, observed>>

MarkSave(c) ==
  /\ At(c, "markSave")
  /\ FileIs([job[c].cw EXCEPT !.placed = TRUE])
  /\ AfterMark(c)
  /\ UNCHANGED <<now, swiggy, stores, lastCart, books, observed>>

-----------------------------------------------------------------------------
(* update_cart, clear_cart and their Instamart twins                       *)

\* The first write of update_cart.  An add-on rejection ends the call; any
\* other error may be Swiggy's one-restaurant rule.
UpdateCart(c) ==
  /\ Begins(c, "update_cart")
  /\ \E a \in Addresses, b \in FoodBaskets :
       LET j == [Request("update_cart", "food") EXCEPT
                   !.addr = a, !.seen = b, !.cw = Write(a, "food", b)]
       IN  \/ CartWritten("food", b) /\ Goto(c, "record", j)
           \/ UNCHANGED <<cart, calls>>                \* INVALID_ADDON
           \/ CartWriteErrs("food", b) /\ Goto(c, "inspect", j)
  /\ UNCHANGED <<now, upi, landed, stores, memory, books, observed, faults>>

\* A cart that Swiggy does not name cannot be proven to be this restaurant's.
SameRestaurant(b, rest, named) == named /\ b.rest = rest

\* Only a cart that is there and is not this restaurant's is evicted.
Inspect(c) ==
  /\ At(c, "inspect")
  /\ \/ Return(c)                                      \* GetCart failed
     \/ \E named \in BOOLEAN :
          LET old == cart["food"] IN
          IF old # None /\ ~SameRestaurant(old, job[c].seen.rest, named)
            THEN Step(c, "evict") ELSE Return(c)
  /\ UNCHANGED <<now, swiggy, stores, memory, books, observed, faults>>

Evict(c) ==
  /\ At(c, "evict")
  /\ \/ CartCleared("food") /\ Step(c, "forget")
     \/ UNCHANGED cart /\ Return(c)
  /\ UNCHANGED <<now, upi, landed, stores, memory, books, observed, faults>>

Readd(c) ==
  /\ At(c, "readd")
  /\ \/ CartWritten("food", job[c].seen) /\ Step(c, "record")
     \/ CartWriteErrs("food", job[c].seen) /\ Return(c)
  /\ UNCHANGED <<now, upi, landed, stores, memory, books, observed, faults>>

ClearTool(v) == IF v = "food" THEN "clear_cart" ELSE "im_clear_cart"

ClearCart(c) ==
  /\ \E v \in Verticals :
       /\ Begins(c, ClearTool(v))
       /\ CartCleared(v)
       /\ \/ Goto(c, "forget", Request(ClearTool(v), v))
          \/ UNCHANGED calls                           \* cleared, answer lost
  /\ UNCHANGED <<now, upi, landed, stores, memory, books, observed, faults>>

IMUpdateCart(c) ==
  /\ Begins(c, "im_update_cart")
  /\ \E a \in Addresses, b \in Groceries :
       \/ /\ CartWritten("instamart", b)
          /\ Goto(c, "record", [Request("im_update_cart", "instamart") EXCEPT
                                  !.cw = Write(a, "instamart", b)])
       \/ CartWriteErrs("instamart", b) /\ UNCHANGED calls
  /\ UNCHANGED <<now, upi, landed, stores, memory, books, observed, faults>>

-----------------------------------------------------------------------------
(* prepare_order, im_prepare_order and order_preset                        *)

PrepareOrder(c) ==
  /\ Begins(c, "prepare_order") /\ RoomToMint
  /\ \E a \in Addresses :
       Goto(c, "look", [Request("prepare_order", "food") EXCEPT
                          !.addr = a, !.seen = cart["food"]])
  /\ UNCHANGED <<now, swiggy, stores, memory, books, observed, faults>>

\* rebuildCart: the remembered lines are written at the address asked for.
Resync(c) ==
  /\ At(c, "resync")
  /\ LET cw == job[c].cw
         j  == [job[c] EXCEPT !.seen = cw.basket,
                              !.cw = [cw EXCEPT !.addr = job[c].addr]]
     IN  \/ CartWritten("food", cw.basket) /\ Goto(c, "record", j)
         \/ CartWriteErrs("food", cw.basket) /\ Return(c)
  /\ UNCHANGED <<now, upi, landed, stores, memory, books, observed, faults>>

\* A preset replaces the cart of its vertical.  The Instamart write is
\* remembered without its lines.
OrderPreset(c) ==
  /\ Begins(c, "order_preset") /\ RoomToMint
  /\ \E a \in Addresses, b \in Baskets :
       LET v == VerticalOf(b)
       IN  \/ /\ CartWritten(v, b)
              /\ Goto(c, "record", [Request("order_preset", v) EXCEPT
                        !.addr = a, !.seen = b,
                        !.cw = Write(a, v, IF v = "food" THEN b ELSE None)])
           \/ CartWriteErrs(v, b) /\ UNCHANGED calls
  /\ UNCHANGED <<now, upi, landed, stores, memory, books, observed, faults>>

IMPrepareOrder(c) ==
  /\ Begins(c, "im_prepare_order") /\ RoomToMint
  /\ \E a \in Addresses :
       Goto(c, "mint", [Request("im_prepare_order", "instamart") EXCEPT
                          !.addr = a, !.seen = cart["instamart"]])
  /\ UNCHANGED <<now, swiggy, stores, memory, books, observed, faults>>

\* The refusals of prepare and imPrepare.
Orderable(v, b) ==
  /\ b # None
  /\ ~b.soldOut
  /\ b.total < OrderCap
  /\ v = "instamart" => b.total >= ImMin

Mint(c) ==
  /\ At(c, "mint")
  /\ LET j == job[c] IN
       IF Orderable(j.vert, j.seen)
         THEN \E id \in SpareConfIds :
                /\ PutPending(id, [id |-> id, addr |-> j.addr, vert |-> j.vert,
                                   hash |-> Hash(j.addr, j.seen), at |-> now])
                /\ shown' = [shown EXCEPT ![id] = j.seen]
         ELSE UNCHANGED <<pending, shown>>
  /\ Return(c)
  /\ UNCHANGED <<now, swiggy, payments, confirming, memory, books, spent,
                 confirmed, told, faults>>

-----------------------------------------------------------------------------
(* place_order                                                             *)

\* confirmStore.take comes first and is final: whatever goes wrong later, the
\* confirmation is gone.  Food takes no cash.
TakePending(c) ==
  /\ Begins(c, "place_order") /\ RoomToPay
  /\ \E id \in ConfIds, m \in Methods :
       LET p == pending[id] IN
       /\ p # None
       /\ TakeOut(id)
       /\ IF Stale(p) \/ (p.vert = "food" /\ m = "cod")
            THEN UNCHANGED calls
            ELSE Goto(c, "verify", [Request("place_order", p.vert) EXCEPT
                                      !.ord = p, !.method = m])
  /\ UNCHANGED <<now, swiggy, payments, confirming, memory, books, observed,
                 faults>>

\* Mutant: a confirmation that could not be checked is put back.
VerifyPutsBack(c) ==
  /\ At(c, "verify")
  /\ LET j == job[c]  live == cart[j.vert] IN
       \/ Return(c) /\ pending' = [pending EXCEPT ![j.ord.id] = j.ord]
       \/ /\ live # None /\ Hash(j.ord.addr, live) = j.ord.hash
          /\ Step(c, IF j.method = "cod" THEN "cod" ELSE "upi")
          /\ UNCHANGED pending
  /\ UNCHANGED <<now, swiggy, payments, confirming, memory, books, observed, faults>>

\* The cart is fetched again and compared with what was confirmed.
Verify(c) ==
  /\ At(c, "verify")
  /\ LET j == job[c]  live == cart[j.vert] IN
       \/ Return(c)                                    \* GetCart failed
       \/ IF live # None /\ Hash(j.ord.addr, live) = j.ord.hash
            THEN Step(c, IF j.method = "cod" THEN "cod" ELSE "upi")
            ELSE Return(c)
  /\ UNCHANGED <<now, swiggy, stores, memory, books, observed, faults>>

\* Swiggy orders what the cart holds at that moment; it may leave it there.
Land(c, known) ==
  LET o == job[c].ord  b == cart[job[c].vert] IN
  /\ b # None
  /\ landed' = [landed EXCEPT ![o.id] =
                  [basket |-> b, addr |-> o.addr, at |-> now, known |-> known]]
  /\ spent' = [spent EXCEPT ![o.id] = @ + 1]
  /\ CartCleared(job[c].vert) \/ UNCHANGED cart

\* A call that errs may have placed the order: nobody holds its payment then.
PlaceFails(c) ==
  /\ Land(c, FALSE) \/ UNCHANGED <<landed, spent, cart>>
  /\ Return(c)

PlaceUPI(c) ==
  /\ At(c, "upi")
  /\ \/ PlaceFails(c) /\ UNCHANGED upi
     \/ /\ \/ job[c].vert = "instamart" /\ job[c].method = "upi" /\ Return(c)
           \/ job[c].vert = "instamart" /\ job[c].method # "upi" /\ Step(c, "cod")
           \/ job[c].vert = "food" /\ Step(c, "cod")   \* no scan-to-pay method
        /\ UNCHANGED <<landed, spent, cart, upi>>
     \/ /\ Land(c, FALSE)
        /\ \E id \in SparePayIds :
             /\ upi' = [upi EXCEPT ![id] =
                          [status |-> "open", exp |-> now + PayWindow,
                           conf |-> job[c].ord.id]]
             /\ Goto(c, "hold", [job[c] EXCEPT !.pay = id])
  /\ UNCHANGED <<now, stores, memory, books, shown, confirmed, told, faults>>

\* paymentStore.put; the agent learns the payment id, the user the QR.
Hold(c) ==
  /\ At(c, "hold")
  /\ LET id == job[c].pay
     IN  PutPayment(id, [exp |-> upi[id].exp, ord |-> job[c].ord])
  /\ Return(c)
  /\ UNCHANGED <<now, swiggy, pending, memory, books, observed, faults>>

PlaceCOD(c) ==
  /\ At(c, "cod")
  /\ \/ PlaceFails(c)
     \/ Land(c, TRUE) /\ Step(c, "active")
  /\ UNCHANGED <<now, upi, stores, memory, books, shown, confirmed, told,
                 faults>>

-----------------------------------------------------------------------------
(* recordFoodPlacement and recordIMPlacement: what localstore learns of an *)
(* order known to be placed.  The food path consults the last cart write   *)
(* twice, for the order history and for the taste card.                    *)

Active(c) ==
  /\ At(c, "active")
  /\ books' = [books EXCEPT !.active = job[c].ord.id]
  /\ IF job[c].vert = "food"
       THEN Goto(c, "look", [job[c] EXCEPT !.then = "history"])
       ELSE Step(c, "markMem")
  /\ UNCHANGED <<now, swiggy, stores, memory, observed, faults>>

\* cartWriteFor: the write counts when it was made for the order's address.
WriteForOrder(j) == j.cw # None /\ j.cw.addr = j.ord.addr

History(c) ==
  /\ At(c, "history")
  /\ LET j == job[c] IN
       books' = IF WriteForOrder(j)
                  THEN [books EXCEPT !.history[j.ord.id] = j.cw.basket]
                  ELSE books
  /\ Goto(c, "look", [job[c] EXCEPT !.then = "taste"])
  /\ UNCHANGED <<now, swiggy, stores, memory, observed, faults>>

\* Only a write with a Swiggy restaurant id (food) is observed.
Taste(c) ==
  /\ At(c, "taste")
  /\ LET j == job[c] IN
       books' = IF WriteForOrder(j) /\ j.cw.vert = "food"
                  THEN [books EXCEPT !.taste[j.ord.id] = j.cw.basket]
                  ELSE books
  /\ Step(c, "markMem")
  /\ UNCHANGED <<now, swiggy, stores, memory, observed, faults>>

\* placeIMCOD: the best-effort IMClearCart after the bookkeeping.
ClearIM(c) ==
  /\ At(c, "clearIM")
  /\ CartCleared("instamart") \/ UNCHANGED cart
  /\ Return(c)
  /\ UNCHANGED <<now, upi, landed, stores, memory, books, observed, faults>>

-----------------------------------------------------------------------------
(* check_payment and confirm_order                                         *)

Paying(tool, id) ==
  LET e == payments[id] IN
  [Request(tool, e.ord.vert) EXCEPT !.ord = e.ord, !.pay = id]

Check(c) ==
  /\ Begins(c, "check_payment")
  /\ \E id \in PayIds :
       /\ payments[id] # None
       /\ Goto(c, IF Closed(payments[id]) THEN "discard" ELSE "poll",
               Paying("check_payment", id))
  /\ UNCHANGED <<now, swiggy, stores, memory, books, observed, faults>>

Poll(c) ==
  /\ At(c, "poll")
  /\ \/ Return(c)                                      \* the poll failed
     \/ IF upi[job[c].pay].status = "failed"
          THEN Step(c, "discard") ELSE Return(c)
  /\ UNCHANGED <<now, swiggy, stores, memory, books, observed, faults>>

\* The entry is dropped and the agent told that nothing was charged.
Discard(c) ==
  /\ At(c, "discard")
  /\ RemovePayment(job[c].pay)
  /\ told' = told \cup {job[c].pay}
  /\ Return(c)
  /\ UNCHANGED <<now, swiggy, pending, memory, books, shown, spent, confirmed,
                 faults>>

\* claimConfirm; a claimed or unknown payment is refused without a change.
ClaimConfirm(c) ==
  /\ Begins(c, "confirm_order")
  /\ \E id \in PayIds :
       /\ Claimable(id)
       /\ confirming' = confirming \cup {id}
       /\ Goto(c, IF Closed(payments[id]) THEN "discard" ELSE "confirm",
               Paying("confirm_order", id))
  /\ UNCHANGED <<now, swiggy, pending, payments, memory, books, observed,
                 faults>>

\* The non-idempotent confirm at Swiggy, which succeeds only for money that
\* arrived.
Confirm(c) ==
  /\ At(c, "confirm")
  /\ LET j == job[c] IN
       \/ Step(c, "release") /\ UNCHANGED <<landed, confirmed>>
       \/ /\ upi[j.pay].status = "paid"
          /\ confirmed' = [confirmed EXCEPT ![j.pay] = @ + 1]
          /\ landed' = [landed EXCEPT ![j.ord.id].known = TRUE]
          /\ Step(c, IF j.vert = "instamart" THEN "sweepCart" ELSE "settle")
  /\ UNCHANGED <<now, cart, upi, stores, memory, books, shown, spent, told,
                 faults>>

\* The broker's IMConfirmOrder clears the cart, best effort.
SweepCart(c) ==
  /\ At(c, "sweepCart")
  /\ CartCleared("instamart") \/ UNCHANGED cart
  /\ Step(c, "settle")
  /\ UNCHANGED <<now, upi, landed, stores, memory, books, observed, faults>>

Release(c) ==
  /\ At(c, "release")
  /\ confirming' = confirming \ {job[c].pay}
  /\ Return(c)
  /\ UNCHANGED <<now, swiggy, pending, payments, memory, books, observed,
                 faults>>

Settle(c) ==
  /\ At(c, "settle")
  /\ RemovePayment(job[c].pay)
  /\ Step(c, "active")
  /\ UNCHANGED <<now, swiggy, pending, memory, books, observed, faults>>

-----------------------------------------------------------------------------
(* The user, Swiggy, other apps on the account, time and the process       *)

\* The user scans the QR once it was handed out and while the window is open.
Pay == \E id \in PayIds :
  /\ upi[id].status = "open" /\ now < upi[id].exp
  /\ \A c \in Calls : ~(At(c, "hold") /\ job[c].pay = id)
  /\ upi' = [upi EXCEPT ![id].status = "paid"]
  /\ UNCHANGED <<now, cart, landed, stores, memory, books, calls, observed,
                 faults>>

PayFails == \E id \in PayIds :
  /\ upi[id].status = "open"
  /\ upi' = [upi EXCEPT ![id].status = "failed"]
  /\ UNCHANGED <<now, cart, landed, stores, memory, books, calls, observed,
                 faults>>

\* Swiggy drops a cart, or another app on the account rewrites it.
ForeignEdit ==
  /\ faults.edits < MaxForeign
  /\ \E v \in Verticals, b \in Baskets \cup {None} :
       /\ b # None => VerticalOf(b) = v
       /\ cart[v] # b
       /\ cart' = [cart EXCEPT ![v] = b]
  /\ faults' = [faults EXCEPT !.edits = @ + 1]
  /\ UNCHANGED <<now, upi, landed, stores, memory, books, calls, observed>>

Tick ==
  /\ now < MaxTime
  /\ now' = now + 1
  /\ UNCHANGED <<swiggy, stores, memory, books, calls, observed, faults>>

\* The process ends and starts again: only the files are left.
Restart ==
  /\ faults.restarts < MaxRestarts
  /\ faults' = [faults EXCEPT !.restarts = @ + 1]
  /\ pending'    = [i \in ConfIds |-> None]
  /\ payments'   = [i \in PayIds |-> None]
  /\ confirming' = {}
  /\ lastCart'   = None
  /\ pc'  = [c \in Calls |-> "idle"]
  /\ job' = [c \in Calls |-> NoJob]
  /\ UNCHANGED <<now, swiggy, diskCart, books, observed>>

-----------------------------------------------------------------------------
Init ==
  /\ now = 0
  /\ cart \in [Verticals -> Baskets \cup {None}]
  /\ \A v \in Verticals : cart[v] # None => VerticalOf(cart[v]) = v
  /\ upi = [i \in PayIds |-> [status |-> "none", exp |-> 0,
                              conf |-> None]]
  /\ landed = [i \in ConfIds |-> None]
  /\ pending = [i \in ConfIds |-> None]
  /\ payments = [i \in PayIds |-> None]
  /\ confirming = {}
  /\ lastCart = None /\ diskCart = None
  /\ books = [active |-> None, history |-> [i \in ConfIds |-> None],
              taste |-> [i \in ConfIds |-> None]]
  /\ pc = [c \in Calls |-> "idle"]
  /\ job = [c \in Calls |-> NoJob]
  /\ shown = [i \in ConfIds |-> None]
  /\ spent = [i \in ConfIds |-> 0]
  /\ confirmed = [i \in PayIds |-> 0]
  /\ told = {}
  /\ faults = [restarts |-> 0, edits |-> 0, lost |-> 0]

\* What the agent starts, and what a started call does next.
Start(c) ==
  \/ UpdateCart(c) \/ ClearCart(c) \/ IMUpdateCart(c)
  \/ PrepareOrder(c) \/ IMPrepareOrder(c) \/ OrderPreset(c)
  \/ TakePending(c) \/ Check(c) \/ ClaimConfirm(c)

Continue(c) ==
  \/ Look(c) \/ LookDisk(c) \/ Adopt(c) \/ Record(c) \/ Save(c)
  \/ Forget(c) \/ ForgetDisk(c) \/ MarkMem(c) \/ MarkLoad(c) \/ MarkSave(c)
  \/ Inspect(c) \/ Evict(c) \/ Readd(c) \/ Resync(c) \/ Mint(c)
  \/ Verify(c) \/ PlaceUPI(c) \/ Hold(c) \/ PlaceCOD(c)
  \/ Active(c) \/ History(c) \/ Taste(c) \/ ClearIM(c)
  \/ Poll(c) \/ Discard(c) \/ Confirm(c) \/ SweepCart(c)
  \/ Release(c) \/ Settle(c)

Environment == Pay \/ PayFails \/ ForeignEdit \/ Tick \/ Restart

Next == Environment \/ \E c \in Calls : Start(c) \/ Continue(c)

Spec == Init /\ [][Next]_vars

-----------------------------------------------------------------------------
(* Properties *)

SwiggyType ==
  /\ cart \in [Verticals -> Baskets \cup {None}]
  /\ upi \in [PayIds -> UpiStates]
  /\ landed \in [ConfIds -> LandedOrders \cup {None}]

StoresType ==
  /\ pending \in [ConfIds -> PendingOrders \cup {None}]
  /\ payments \in [PayIds -> PaymentEntries \cup {None}]
  /\ confirming \subseteq PayIds

MemoryType == lastCart \in CartWrites \cup {None} /\ diskCart \in CartWrites \cup {None}

BooksType ==
  books \in [active : ConfIds \cup {None},
             history : [ConfIds -> Baskets \cup {None}],
             taste : [ConfIds -> Baskets \cup {None}]]

CallsType == pc \in [Calls -> Labels] /\ job \in [Calls -> Jobs]

ObservedType ==
  /\ shown \in [ConfIds -> Baskets \cup {None}]
  /\ spent \in [ConfIds -> Nat]
  /\ confirmed \in [PayIds -> Nat]
  /\ told \subseteq PayIds

WorldType == now \in 0..MaxTime
             /\ faults \in [restarts : 0..MaxRestarts, edits : 0..MaxForeign,
                           lost : 0..MaxLost]

TypeOK == /\ WorldType /\ SwiggyType /\ StoresType /\ MemoryType
          /\ BooksType /\ CallsType /\ ObservedType

InFlight(c, p) == pc[c] \in {"confirm", "sweepCart", "settle", "release"}
                  /\ job[c].pay = p

\* A confirmation places at most one order at Swiggy, whatever the calls in
\* flight do with it and however the placing calls fail ("never retried",
\* handlePlaceOrder and placeIMOrder).
PlacedOnce == \A i \in ConfIds : spent[i] <= 1

\* Two confirm_order calls never run the non-idempotent confirm of one payment
\* at the same time, even when check_payment or a sweep drops the entry and its
\* flag under the call that claimed it (claimConfirm's contract).
OneConfirmInFlight ==
  \A p \in PayIds : \A c, d \in Calls :
    InFlight(c, p) /\ InFlight(d, p) => c = d

\* A confirm that Swiggy answered with success is the last one of its payment
\* (handleConfirmOrder removes the entry only after the answer).
ConfirmedOnce == \A p \in PayIds : confirmed[p] <= 1

\* The in-flight flag of a payment is always held by a call that is going to
\* drop it: a leaked flag would lock a paid order out of confirm_order forever.
ClaimIsHeld ==
  \A p \in confirming : \E c \in Calls :
    /\ job[c].pay = p /\ job[c].tool = "confirm_order"
    /\ pc[c] \in {"confirm", "sweepCart", "settle", "release", "discard"}

\* While its window is open, a payment the user made and no confirm settled can
\* still be confirmed: no sweep, poll or failed confirm of any call forgot it.
\* (A restart forgets every payment: this is about one process.)
PaidNotForgotten ==
  \A p \in PayIds :
    /\ upi[p].status = "paid" /\ now < upi[p].exp
    /\ confirmed[p] = 0 /\ faults.restarts = 0
    => payments[p] # None

\* With one call at a time and nobody else editing the cart, what is ordered is
\* what was confirmed, up to the customisations the hash leaves out: whatever
\* update_cart, order_preset or a rebuild did to the cart between prepare_order
\* and place_order, place_order orders the same items for the same bill or none.
PlacedAsConfirmed ==
  \A i \in ConfIds : landed[i] # None =>
    /\ landed[i].basket.items = shown[i].items
    /\ landed[i].basket.total = shown[i].total

Quiet == \A c \in Calls : pc[c] = "idle"

\* With one call at a time and no file error, the write-through of the cart
\* memory is exact: once no call runs, memory and file agree on what was written,
\* cleared or ordered, so a rebuild after a restart is the rebuild before it.
MemoryOnDisk ==
  Quiet /\ faults.lost = 0 /\ (lastCart # None \/ faults.restarts = 0) =>
    lastCart = diskCart

\* As long as the process lives and its files work, prepare_order never replays the
\* cart write that an order it knows of has already consumed ("never seeds a
\* rebuild", cartWrite.Placed).
Undisturbed == faults.restarts = 0 /\ faults.lost = 0
Replaying(c) == pc[c] = "resync" /\ job[c].tool = "prepare_order"
PlacedNeverSeeds ==
  \A c \in Calls, i \in ConfIds :
    Replaying(c) /\ landed[i] # None /\ landed[i].known /\ Undisturbed =>
      ~ /\ job[c].cw.basket = landed[i].basket
        /\ job[c].cw.addr = landed[i].addr
        /\ job[c].cw.at < landed[i].at

-----------------------------------------------------------------------------
(* The inductive invariant behind PlacedOnce, OneConfirmInFlight,          *)
(* ConfirmedOnce and ClaimIsHeld                                           *)

Preparers == {"prepare_order", "im_prepare_order", "order_preset"}
Orderers  == {"place_order", "check_payment", "confirm_order"}

\* The locals a handler relies on are there when it uses them.
LocalsAt(l, j) ==
  /\ j.tool \in Preparers => j.addr # None
  /\ j.tool \in Orderers => j.ord # None
  /\ j.tool = "update_cart" => j.seen # None /\ j.cw # None
  /\ l \in {"mint", "resync"} => j.tool \in Preparers
  /\ l = "readd" => j.tool = "update_cart"
  /\ l \in {"look", "lookDisk", "adopt"} =>
       IF j.then = "decide" THEN j.tool \in Preparers ELSE j.tool \in Orderers
  /\ l \in {"verify", "upi", "hold", "cod", "confirm", "sweepCart", "settle",
                "active", "history", "taste"} => j.tool \in Orderers
  /\ l \in {"record", "save", "adopt", "resync", "markSave"} => j.cw # None
  /\ l = "resync" => j.cw.basket # None
  /\ l \in {"hold", "poll", "discard", "confirm", "sweepCart", "settle",
                "release"} => j.pay # None

LocalsOK == \A c \in Calls : LocalsAt(pc[c], job[c])

HasTicket(c, i) == /\ pc[c] \in {"verify", "upi", "cod"}
                   /\ job[c].ord.id = i

\* A confirmation is in the store, in the hands of one call, or used up.
TicketInv ==
  /\ \A i \in ConfIds :
       /\ spent[i] <= 1
       /\ pending[i] # None =>
            pending[i].id = i /\ spent[i] = 0 /\ shown[i] # None
       /\ shown[i] = None => spent[i] = 0
  /\ \A i \in ConfIds, c \in Calls : HasTicket(c, i) =>
       /\ pending[i] = None /\ spent[i] = 0 /\ shown[i] # None
       /\ \A d \in Calls : HasTicket(d, i) => d = c

Hands(c, p) == pc[c] = "hold" /\ job[c].pay = p
Answered(c, p) == pc[c] \in {"sweepCart", "settle"} /\ job[c].pay = p

\* A payment is fresh, being handed out, in the store, or gone; while a confirm
\* of it is in flight its flag is up as long as its entry is there.
PurseInv ==
  /\ \A p \in PayIds :
       /\ upi[p].status = "none" => payments[p] = None /\ confirmed[p] = 0
       /\ confirmed[p] <= 1
       /\ confirmed[p] # 0 /\ payments[p] # None => \E c \in Calls : Answered(c, p)
       /\ p \in confirming => payments[p] # None
  /\ \A p \in PayIds, c \in Calls :
       /\ Hands(c, p) =>
            /\ upi[p].status # "none" /\ payments[p] = None /\ confirmed[p] = 0
            /\ \A d \in Calls : ~InFlight(d, p) /\ (Hands(d, p) => d = c)
       /\ InFlight(c, p) =>
            /\ upi[p].status # "none"
            /\ payments[p] # None => p \in confirming
            /\ confirmed[p] # 0 => Answered(c, p)

\* A payment in the store, or on its way in or out, pays for an order Swiggy has.
LandedInv ==
  /\ \A p \in PayIds : payments[p] # None => landed[payments[p].ord.id] # None
  /\ \A c \in Calls : pc[c] \in {"hold", "confirm"} => landed[job[c].ord.id] # None

\* Together with the uniqueness of a confirm in flight and the holder of every
\* flag, these facts are preserved by every step.
IInv == /\ TypeOK /\ LocalsOK /\ LandedInv /\ TicketInv
        /\ PurseInv /\ OneConfirmInFlight /\ ClaimIsHeld

-----------------------------------------------------------------------------
(* McpServer implements OrderLifecycle *)

InHand(i) == \E c \in Calls :
  /\ pc[c] \in {"verify", "upi", "cod"}
  /\ job[c].ord # None /\ job[c].ord.id = i

TicketOf(i) == IF spent[i] > 0 THEN "ordered"
               ELSE IF pending[i] # None THEN "open"
               ELSE IF shown[i] = None THEN "unused"
               ELSE IF InHand(i) THEN "inhand"
               ELSE "void"

Confirming(p) == \E c \in Calls : pc[c] = "confirm" /\ job[c].pay = p
Handing(p)    == \E c \in Calls : pc[c] = "hold" /\ job[c].pay = p

PurseOf(p) == IF confirmed[p] > 0 THEN "settled"
              ELSE IF Confirming(p) THEN "claimed"
              ELSE IF payments[p] # None THEN "held"
              ELSE IF upi[p].status = "none" \/ Handing(p) THEN "none"
              ELSE "lost"

Lifecycle == INSTANCE OrderLifecycle WITH
  ticket <- [i \in ConfIds |-> TicketOf(i)],
  purse  <- [p \in PayIds |-> PurseOf(p)],
  buys   <- [p \in PayIds |-> upi[p].conf]

\* The server keeps the promise of OrderLifecycle: whatever the calls in flight
\* and the restarts, a confirmation orders once and a payment is settled once,
\* by the one call that claimed it, for the order it was opened for.
ImplementsLifecycle == Lifecycle!Spec

-----------------------------------------------------------------------------
(* What comments and messages of the repository say, and the code does not *)

\* check_payment and confirm_order report a closed window with "nothing was
\* charged" (tools_order.go), as does the skill shipped with the server.
NothingWasCharged == \A p \in told : upi[p].status # "paid"

\* cartHash "binds a confirmation to the exact lines" the user saw (confirm.go): not so for
\* two carts that differ in a customisation only, which one server with both refutes.
BoundToExactLines ==
  \A i \in ConfIds : landed[i] # None => landed[i].basket = shown[i]
=============================================================================
