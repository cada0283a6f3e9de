------------------------------ MODULE TuiCart ------------------------------
(***************************************************************************)
(* The food cart of the terminal interface (internal/tui/app.go) in live   *)
(* mode, and the placement of its order. One event loop handles keys, ticks *)
(* and the answers of commands; a command is one backend call on a goroutine *)
(* of its own, so calls reach Swiggy, and answers the loop, in any order.   *)
(*                                                                         *)
(* The cart is optimistic: a key changes the lines at once, and one write  *)
(* at a time takes all the lines to Swiggy, after a rest or now. A write   *)
(* that fails takes the lines back to the confirmed ones.                  *)
(*                                                                         *)
(* Left out: dishes with options, changes of address, the Instamart cart.  *)
(* Of a UPI payment only its outcome is here.                              *)
(***************************************************************************)
EXTENDS Naturals, FiniteSets, Functions

CONSTANTS
    Items,     \* dishes, each for a price of 1
    MaxQty,    \* bound: units of a dish
    Cap,       \* SwiggyBetaOrderCap
    Resolves,  \* what cartRestaurantSwiggyID may find for a cart: it depends on the
               \* pages that were opened, so any of these at any write
    MaxEdits,  \* bound: keys that change the cart
    MaxYes,    \* bound: orders the user confirms
    MaxFaults, \* bound: calls that fail, price changes and dishes that sell out
    MaxWire    \* bound: commands under way when a read is sent

ASSUME BoundAssumption == {MaxQty, Cap, MaxEdits, MaxYes, MaxFaults, MaxWire} \subseteq Nat
ASSUME ItemsAssumption == IsFiniteSet(Items)
ASSUME ResolvesAssumption == Resolves \subseteq BOOLEAN

VARIABLES
    screen,  \* browse, checkout or done
    modal,   \* orderConfirmOpen
    lines,   \* Model.lines
    base,    \* confirmedLines; set is cartConfirmed
    live,    \* liveCart, with the dishes of unavailableItems
    sync,    \* cartSyncPending, cartSyncInFlight, cartMutating, cartConfirmPending
    order,   \* placingOrder, placePending, confirmedTotal (while that), paymentStage
    wire,    \* the commands under way; two that are equal count as one (bound)
    server,  \* Swiggy's cart, its surcharge, and the dishes that are sold out
    past     \* history, read by properties only

loop == <<screen, modal, lines, base, live, sync, order>>
vars == <<screen, modal, lines, base, live, sync, order, wire, server, past>>

Carts == [Items -> 0..MaxQty]
Empty == [i \in Items |-> 0]
Units(cart) == FoldFunction(+, 0, cart)

\* What the loop keeps of an answer: the total and the dishes of the cart that are
\* sold out. NoBill is api.Cart{}.
Bills == [total : Nat, out : SUBSET Items]
NoBill == [total |-> 0, out |-> {}]
Bill(s) == IF s.lines = Empty THEN NoBill
           ELSE [total |-> Units(s.lines) + s.surge, out |-> {i \in s.out : s.lines[i] > 0}]

\* cart: what a write sends or a pull brings; for an order, what the user approved
\* (history). An "old" write is one whose flight the loop has forgotten (history).
Kinds == {"write", "old", "load", "pull", "upi", "cod", "confirm"}
Commands == [kind : Kinds, state : {"sent", "ok", "noqr", "error"}, cart : Carts, bill : Bills]
Command(kind, cart) == [kind |-> kind, state |-> "sent", cart |-> cart, bill |-> NoBill]
UnderWay(kinds) == {c \in wire : c.kind \in kinds}

TypeOK ==
    /\ screen \in {"browse", "checkout", "done"} /\ modal \in BOOLEAN
    /\ lines \in Carts /\ base \in [set : BOOLEAN, lines : Carts] /\ live \in Bills
    /\ sync \in [pending : BOOLEAN, inFlight : BOOLEAN, mutating : BOOLEAN, confirmPending : BOOLEAN]
    /\ order \in [placing : BOOLEAN, placePending : BOOLEAN, total : Nat, approved : Carts,
                  pay : {"idle", "waiting", "confirming", "failed"}]
    /\ wire \subseteq Commands /\ server \in [lines : Carts, surge : {0, 1}, out : SUBSET Items]
    /\ past \in [edits : 0..MaxEdits, yes : 0..MaxYes, orders : Nat, touched : BOOLEAN, own : BOOLEAN, loose : BOOLEAN, faults : 0..MaxFaults]

\* Swiggy may hold a cart from the phone; the launch pull is under way.
Init ==
    /\ screen = "browse" /\ modal = FALSE /\ lines = Empty
    /\ base = [set |-> FALSE, lines |-> Empty] /\ live = NoBill
    /\ sync = [pending |-> FALSE, inFlight |-> FALSE, mutating |-> FALSE, confirmPending |-> FALSE]
    /\ order = [placing |-> FALSE, placePending |-> FALSE, total |-> 0, approved |-> Empty, pay |-> "idle"]
    /\ wire = {Command("pull", Empty)}
    /\ \E cart \in Carts : server = [lines |-> cart, surge |-> 0, out |-> {}]
    /\ past = [edits |-> 0, yes |-> 0, orders |-> 0, touched |-> FALSE, own |-> FALSE, loose |-> FALSE, faults |-> 0]

-----------------------------------------------------------------------------
\* Cart writes

\* liveCartCmd: a cart without lines is flushed, any other needs its restaurant.
LiveCartCmd(cart, resolves) ==
    IF cart = Empty \/ resolves THEN {Command("write", cart)} ELSE {}

\* Mutant: what comes while a write is in flight is not armed again.
FireSyncNowForgets(s, cart, resolves) ==
    IF s.inFlight THEN s
    ELSE [s EXCEPT !.pending = FALSE, !.inFlight = LiveCartCmd(cart, resolves) # {}]

\* fireSyncNow: the flags it leaves, and the command it returns. A write that is
\* in flight is waited for.
FireSyncNow(s, cart, resolves) ==
    IF s.inFlight THEN [s EXCEPT !.pending = TRUE]
    ELSE [s EXCEPT !.pending = FALSE, !.inFlight = LiveCartCmd(cart, resolves) # {}]
SyncNowCmd(s, cart, resolves) == IF s.inFlight THEN {} ELSE LiveCartCmd(cart, resolves)

\* history: an order is between the user's yes and Swiggy; an edit was made.
Placing == order.placing \/ order.placePending \/ UnderWay({"upi", "cod"}) # {}
Edited == past.edits < MaxEdits /\ past' = [past EXCEPT !.edits = @ + 1, !.own = TRUE, !.touched = @ \/ Placing]
\* history: the lines are no longer what the user left, or Swiggy may not know them.
Disowned == [past EXCEPT !.own = FALSE]

\* cartSyncing: edits wait for a write, or a write for its answer.
CartSyncing == sync.pending \/ sync.inFlight

\* Mutant: the rest of the keys is enough.
RestIsEnough == sync.pending /\ ~sync.mutating
\* Edits wait, and nothing is in flight.
MaySettle == sync.pending /\ ~sync.mutating /\ ~sync.inFlight

\* settledCartSync, at the tick that finds the edits rested: it holds while a write is
\* in flight.
Settle ==
    /\ MaySettle
    /\ \E r \in Resolves :
        /\ sync' = FireSyncNow(sync, lines, r)
        /\ wire' = wire \cup LiveCartCmd(lines, r)
        /\ past' = IF LiveCartCmd(lines, r) = {} THEN Disowned ELSE past
    /\ UNCHANGED <<screen, modal, lines, base, live, order, server>>

-----------------------------------------------------------------------------
\* Keys on the restaurant page

\* restIncSelected
Add(i) ==
    /\ screen = "browse" /\ ~modal /\ lines[i] < MaxQty
    /\ lines' = [lines EXCEPT ![i] = @ + 1]
    /\ sync' = [sync EXCEPT !.pending = TRUE]
    /\ Edited
    /\ UNCHANGED <<screen, modal, base, live, order, wire, server>>

\* Mutant: decLastByItem goes below zero.
DecBelow(cart, i) == [cart EXCEPT ![i] = @ - 1]
DecLastByItem(cart, i) == [cart EXCEPT ![i] = IF @ > 0 THEN @ - 1 ELSE 0]

\* restDecSelected: a write is armed even if the dish is not in the cart.
Dec(i) ==
    /\ screen = "browse" /\ ~modal
    /\ lines' = DecLastByItem(lines, i)
    /\ sync' = [sync EXCEPT !.pending = TRUE]
    /\ Edited
    /\ UNCHANGED <<screen, modal, base, live, order, wire, server>>

\* "start new" in the conflict modal: the page of the new restaurant is open.
Replace(i) ==
    /\ screen = "browse" /\ ~modal /\ lines # Empty
    /\ lines' = [Empty EXCEPT ![i] = 1]
    /\ sync' = FireSyncNow(sync, lines', TRUE)
    /\ wire' = wire \cup SyncNowCmd(sync, lines', TRUE)
    /\ Edited
    /\ UNCHANGED <<screen, modal, base, live, order, server>>

\* openCartCmd: a write if there is something to write, else a read (none if no
\* restaurant is known).
ToCheckout ==
    /\ screen = "browse" /\ ~modal
    /\ screen' = "checkout"
    /\ IF CartSyncing
       THEN \E r \in Resolves :
                /\ sync' = FireSyncNow(sync, lines, r)
                /\ wire' = wire \cup SyncNowCmd(sync, lines, r)
                /\ past' = IF sync'.pending \/ sync'.inFlight THEN past ELSE Disowned
       ELSE /\ \/ Cardinality(wire) < MaxWire /\ wire' = wire \cup {Command("load", Empty)}
               \/ lines = Empty /\ wire' = wire
            /\ UNCHANGED <<sync, past>>
    /\ UNCHANGED <<modal, lines, base, live, order, server>>

-----------------------------------------------------------------------------
\* Keys on the checkout; sync.mutating freezes them

Unfrozen == screen = "checkout" /\ ~modal /\ ~sync.mutating

\* "+"
Inc(i) ==
    /\ Unfrozen /\ lines[i] \in 1..(MaxQty - 1)
    /\ lines' = [lines EXCEPT ![i] = @ + 1]
    /\ sync' = [sync EXCEPT !.pending = TRUE]
    /\ Edited
    /\ UNCHANGED <<screen, modal, base, live, order, wire, server>>

\* "-" and delete, with afterCheckoutReduce.
Reduce(i) ==
    /\ Unfrozen /\ lines[i] > 0 /\ past.edits < MaxEdits
    /\ \E n \in {0, lines[i] - 1} : lines' = [lines EXCEPT ![i] = n]
    /\ \E r \in Resolves :
        /\ sync' = [FireSyncNow(sync, lines', r) EXCEPT
                        !.mutating = SyncNowCmd(sync, lines', r) # {} \/ sync.inFlight]
        /\ wire' = wire \cup SyncNowCmd(sync, lines', r)
        /\ past' = [past EXCEPT !.edits = @ + 1, !.own = sync'.inFlight, !.touched = @ \/ Placing]
    /\ UNCHANGED <<screen, modal, base, live, order, server>>

\* Checkout.PayAmount: the bill if there is one, else an estimate.
PayAmount == IF live.total > 0 THEN live.total ELSE Units(lines)
HasUnavailableLine(bill) == \E i \in bill.out : lines[i] > 0

\* Enter: the modal opens when no write is pending or in flight.
Enter ==
    /\ Unfrozen /\ order.pay # "waiting" /\ ~order.placing
    /\ lines # Empty /\ ~HasUnavailableLine(live) /\ PayAmount < Cap
    /\ IF CartSyncing
       THEN \E r \in Resolves :
                /\ sync' = [FireSyncNow(sync, lines, r) EXCEPT !.confirmPending = TRUE, !.mutating = TRUE]
                /\ wire' = wire \cup SyncNowCmd(sync, lines, r)
                /\ past' = IF sync'.inFlight THEN past ELSE Disowned
                /\ modal' = FALSE
       ELSE modal' = TRUE /\ UNCHANGED <<sync, wire, past>>
    /\ UNCHANGED <<screen, lines, base, live, order, server>>

\* Mutant: the order does not wait for the last write.
PlaceAtOnce ==
    /\ order' = [order EXCEPT !.placing = TRUE]
    /\ wire' = wire \cup {Command("write", lines), Command("upi", lines)}
\* What a yes leaves to the answer of its write.
PlaceAfterSync ==
    /\ order' = [order EXCEPT !.placing = TRUE, !.placePending = TRUE, !.total = PayAmount, !.approved = lines]
    /\ wire' = wire \cup {Command("write", lines)}

\* confirmPlaceOrder: a last write of the lines, and the order if it goes well (not
\* while a read is under way: a bound).
Yes ==
    /\ modal /\ modal' = FALSE /\ past.yes < MaxYes /\ UnderWay({"load", "pull"}) = {}
    /\ IF order.placing THEN UNCHANGED <<sync, order, wire, past>>
       ELSE \E r \in Resolves :
            IF lines = Empty \/ ~r
            THEN /\ sync' = [sync EXCEPT !.pending = FALSE]
                 /\ past' = Disowned
                 /\ UNCHANGED <<order, wire>>
            ELSE /\ sync' = [sync EXCEPT !.pending = FALSE, !.inFlight = TRUE]
                 /\ PlaceAfterSync
                 /\ past' = [past EXCEPT !.yes = @ + 1, !.touched = Placing]
    /\ UNCHANGED <<screen, lines, base, live, server>>

No == modal /\ modal' = FALSE /\ UNCHANGED <<screen, lines, base, live, sync, order, wire, server, past>>

\* Esc on a payment, which Swiggy lets expire.
DropPayment ==
    /\ screen = "checkout" /\ ~modal /\ order.pay # "idle"
    /\ order' = [order EXCEPT !.pay = "idle"]
    /\ UNCHANGED <<screen, modal, lines, base, live, sync, wire, server, past>>

\* Esc; twice if the keys are frozen.
Home ==
    /\ screen = "checkout" /\ ~modal /\ order.pay = "idle"
    /\ screen' = "browse"
    /\ UNCHANGED <<modal, lines, base, live, sync, order, wire, server, past>>

\* Any key after the order, with clearPlacedCarts: a write in flight is forgotten.
Leave ==
    /\ screen = "done" /\ ~modal /\ screen' = "browse"
    /\ lines' = Empty /\ live' = NoBill /\ base' = [set |-> FALSE, lines |-> Empty]
    /\ sync' = [sync EXCEPT !.pending = FALSE, !.inFlight = FALSE, !.confirmPending = FALSE]
    /\ wire' = {IF c.kind = "write" THEN [c EXCEPT !.kind = "old"] ELSE c : c \in wire}
    /\ past' = [Disowned EXCEPT !.loose = @ \/ UnderWay({"write"}) # {}]
    /\ UNCHANGED <<modal, order, server>>
-----------------------------------------------------------------------------
\* Swiggy, which serves commands in any order

Answered(c, state, cart, bill) ==
    wire' = (wire \ {c}) \cup {[c EXCEPT !.state = state, !.cart = cart, !.bill = bill]}
Error(c) == past.faults < MaxFaults /\ Answered(c, "error", Empty, NoBill)
Fault == past' = [past EXCEPT !.faults = @ + 1]

\* A write, that may fail before or after it takes effect.
ServeWrite(c) ==
    /\ c.kind \in {"write", "old"}
    /\ \/ /\ server' = [server EXCEPT !.lines = c.cart]
          /\ Answered(c, "ok", c.cart, Bill(server')) /\ UNCHANGED past
       \/ Error(c) /\ Fault /\ server' \in {server, [server EXCEPT !.lines = c.cart]}

ServeRead(c) ==
    /\ c.kind \in {"load", "pull"} /\ UNCHANGED server
    /\ \/ /\ Answered(c, "ok", IF c.kind = "pull" THEN server.lines ELSE Empty, Bill(server))
          /\ UNCHANGED past
       \/ Error(c) /\ Fault

\* An order of whatever the cart holds: a UPI order waits for its payment, a cash
\* order empties the cart. The account may have no UPI method ("noqr").
Orderable == server.lines # Empty /\ \A i \in server.out : server.lines[i] = 0
Ordered == [past EXCEPT !.orders = @ + 1]
ServeOrder(c) ==
    /\ c.kind \in {"upi", "cod"}
    /\ \/ ~Orderable /\ Answered(c, "error", Empty, NoBill) /\ UNCHANGED <<server, past>>
       \/ c.kind = "upi" /\ Answered(c, "noqr", c.cart, NoBill) /\ UNCHANGED <<server, past>>
       \/ /\ Orderable /\ Answered(c, "ok", Empty, NoBill) /\ past' = Ordered
          /\ server' = IF c.kind = "cod" THEN [server EXCEPT !.lines = Empty] ELSE server
       \/ Error(c) /\ Fault /\ UNCHANGED server
       \/ /\ Orderable /\ Error(c) /\ past' = [Ordered EXCEPT !.faults = @ + 1]
          /\ server' = IF c.kind = "cod" THEN [server EXCEPT !.lines = Empty] ELSE server

\* The confirmation of a paid order empties the cart.
ServeConfirm(c) ==
    /\ c.kind = "confirm"
    /\ \/ Answered(c, "ok", Empty, NoBill) /\ server' = [server EXCEPT !.lines = Empty] /\ UNCHANGED past
       \/ Error(c) /\ Fault /\ server' \in {server, [server EXCEPT !.lines = Empty]}

Serve(c) ==
    /\ c.state = "sent"
    /\ ServeWrite(c) \/ ServeRead(c) \/ ServeOrder(c) \/ ServeConfirm(c)
    /\ UNCHANGED loop

\* Swiggy's prices and stock change.
Move ==
    /\ past.faults < MaxFaults /\ Fault
    /\ \/ server' = [server EXCEPT !.surge = 1 - @]
       \/ \E i \in Items : server' = [server EXCEPT !.out = IF i \in @ THEN @ \ {i} ELSE @ \cup {i}]
    /\ UNCHANGED <<screen, modal, lines, base, live, sync, order, wire>>

-----------------------------------------------------------------------------
\* Answers in the loop

\* Mutant: the order goes on waiting for a write.
StillPending == order
\* The write before an order is over.
Settled == [order EXCEPT !.placePending = FALSE, !.total = 0, !.approved = Empty]

\* Mutant: the keys stay frozen.
LandedFrozen == [sync EXCEPT !.inFlight = FALSE]
\* A write is answered.
Landed == [sync EXCEPT !.inFlight = FALSE, !.mutating = FALSE]

\* CartSyncedMsg with an error: rollbackCart, and no order.
SyncFailed(c) ==
    /\ c.kind \in {"write", "old"} /\ c.state = "error"
    /\ wire' = wire \ {c}
    /\ sync' = [Landed EXCEPT !.confirmPending = FALSE]
    /\ order' = IF order.placePending THEN [Settled EXCEPT !.placing = FALSE] ELSE order
    /\ lines' = IF base.set THEN base.lines ELSE Empty
    /\ past' = Disowned
    /\ UNCHANGED <<screen, modal, base, live, server>>

\* CartSyncedMsg with a cart: the lines on the screen are confirmed. Then either the
\* order that waited for this write goes out, if nothing is sold out and the bill is
\* the one the user approved; or an Enter that waited gets its modal, after another
\* write if there were edits.
Synced(c) ==
    /\ c.kind \in {"write", "old"} /\ c.state = "ok"
    /\ live' = c.bill
    /\ base' = [set |-> TRUE, lines |-> lines]
    /\ IF order.placePending
       THEN LET go == ~HasUnavailableLine(c.bill) /\ c.bill.total = order.total
            IN  /\ order' = [Settled EXCEPT !.placing = @ /\ go]
                /\ wire' = (wire \ {c}) \cup IF go THEN {Command("upi", order.approved)} ELSE {}
                /\ sync' = Landed
                /\ UNCHANGED <<modal, past>>
       ELSE IF sync.confirmPending /\ sync.pending
       THEN \E r \in Resolves :
                LET s == [Landed EXCEPT !.mutating = TRUE]
                IN  /\ sync' = FireSyncNow(s, lines, r)
                    /\ wire' = (wire \ {c}) \cup SyncNowCmd(s, lines, r)
                    /\ past' = IF sync'.inFlight THEN past ELSE Disowned
                    /\ UNCHANGED <<modal, order>>
       ELSE /\ sync' = [Landed EXCEPT !.confirmPending = FALSE]
            /\ wire' = wire \ {c}
            /\ modal' = (modal \/ (/\ sync.confirmPending /\ ~order.placing
                                  /\ lines # Empty /\ screen = "checkout"))
            /\ UNCHANGED <<order, past>>
    /\ UNCHANGED <<screen, lines, server>>

\* CartLoadedMsg
CartLoaded(c) ==
    /\ c.kind = "load" /\ c.state # "sent"
    /\ wire' = wire \ {c}
    /\ IF c.state = "ok" THEN live' = c.bill /\ base' = [set |-> TRUE, lines |-> lines]
                        ELSE UNCHANGED <<live, base>>
    /\ UNCHANGED <<screen, modal, lines, sync, order, server, past>>

\* CartPulledMsg, with seedCartFromLive if there are no lines yet.
CartPulled(c) ==
    /\ c.kind = "pull" /\ c.state # "sent"
    /\ wire' = wire \ {c}
    /\ IF c.state = "ok" THEN live' = c.bill ELSE UNCHANGED live
    /\ IF c.state = "ok" /\ lines = Empty /\ c.cart # Empty
       THEN /\ lines' = c.cart
            /\ base' = [set |-> TRUE, lines |-> c.cart]
            /\ past' = Disowned
       ELSE UNCHANGED <<lines, base, past>>
    /\ UNCHANGED <<screen, modal, sync, order, server>>

\* UPIPlacedMsg: an error, a QR, or the way to a cash order.
UPIPlaced(c) ==
    /\ c.kind = "upi" /\ c.state # "sent"
    /\ order' = IF c.state = "noqr" THEN order
                ELSE [order EXCEPT !.placing = FALSE, !.pay = IF c.state = "ok" THEN "waiting" ELSE @]
    /\ wire' = (wire \ {c}) \cup IF c.state = "noqr" THEN {Command("cod", c.cart)} ELSE {}
    /\ UNCHANGED <<screen, modal, lines, base, live, sync, server, past>>

\* PaymentPolledMsg that is not stale, or the end of the payment window in onTick.
PaymentPolled ==
    /\ screen = "checkout" /\ order.pay = "waiting"
    /\ \/ /\ order' = [order EXCEPT !.pay = "confirming"]
          /\ wire' = wire \cup {Command("confirm", Empty)}
       \/ order' = [order EXCEPT !.pay = "failed"] /\ UNCHANGED wire
    /\ UNCHANGED <<screen, modal, lines, base, live, sync, server, past>>

\* OrderPlacedMsg, after a cash order or a confirmed payment.
OrderPlaced(c) ==
    /\ c.kind \in {"cod", "confirm"} /\ c.state # "sent"
    /\ wire' = wire \ {c}
    /\ order' = [order EXCEPT !.placing = FALSE, !.pay = "idle"]
    /\ IF c.state = "ok"
       THEN /\ screen' = "done" /\ lines' = Empty /\ live' = NoBill
            /\ base' = [set |-> TRUE, lines |-> Empty]
       ELSE UNCHANGED <<screen, lines, live, base>>
    /\ past' = Disowned
    /\ UNCHANGED <<modal, sync, server>>

Answer(c) == SyncFailed(c) \/ Synced(c) \/ CartLoaded(c) \/ CartPulled(c) \/ UPIPlaced(c) \/ OrderPlaced(c)

Key ==
    \/ \E i \in Items : Add(i) \/ Dec(i) \/ Replace(i) \/ Inc(i) \/ Reduce(i)
    \/ ToCheckout \/ Enter \/ Yes \/ No \/ DropPayment \/ Home \/ Leave

Next ==
    \/ Key \/ Settle \/ Move \/ PaymentPolled
    \/ \E c \in wire : Serve(c) \/ Answer(c)

Spec == Init /\ [][Next]_vars

\* Ticks come, and every call is answered (the HTTP client has a timeout). Orders are
\* few and writes go one at a time, so that one call of each sort after another will do.
Sorts == {{"write", "old"}, {"load", "pull"}, {"upi", "cod", "confirm"}}
FairSpec ==
    /\ Spec /\ WF_vars(Settle)
    /\ \A kinds \in Sorts : WF_vars(\E c \in UnderWay(kinds) : Serve(c) \/ Answer(c))

-----------------------------------------------------------------------------
\* Properties

\* Never two cart writes in flight, as the later could land first (app.go:404): except
\* after an order, when clearPlacedCarts forgets the one that is.
SingleFlight ==
    ~past.loose => /\ \A c, d \in UnderWay({"write"}) : c = d
                   /\ UnderWay({"write"}) # {} => sync.inFlight

\* Once the writes have come to rest, Swiggy's cart is what the last edit left, unless
\* the loop itself replaced the lines since (a rollback, the launch pull, an order).
Quiet == ~sync.pending /\ ~sync.inFlight /\ UnderWay({"write", "old", "cod", "confirm"}) = {}
Converged == Quiet /\ past.own /\ ~past.loose => server.lines = lines

\* A yes orders once at most, whatever is retried, late or clicked.
OneOrderPerYes == past.orders <= past.yes

\* What Swiggy orders is what the user approved (app.go:3068).
OrderStep(ok(_)) ==
    past'.orders > past.orders =>
        \E c \in UnderWay({"upi", "cod"}) : c.state = "sent" /\ c \notin wire' /\ ok(c)
ApprovedOnly == [][LET Approved(c) == c.cart = server.lines IN OrderStep(Approved)]_vars

\* The same as long as the user leaves the cart alone until the order is placed.
OrderedAsApproved ==
    [][LET Approved(c) == past.touched \/ past.loose \/ c.cart = server.lines IN OrderStep(Approved)]_vars

\* A frozen checkout thaws (if the user does not walk out: opening the cart again
\* queues another write), and an order that is being placed comes to an end.
Released ==
    /\ sync.mutating ~> (~sync.mutating \/ screen # "checkout")
    /\ order.placing ~> ~order.placing
=============================================================================
