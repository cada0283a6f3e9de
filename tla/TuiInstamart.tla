---------------------------- MODULE TuiInstamart ----------------------------
(* The Instamart cart of the terminal interface (internal/tui/app.go) in live *)
(* mode. It is written like the food cart of TuiCart, one write at a time     *)
(* behind the keys, but it is Swiggy's: the store may cap what was asked for, *)
(* and an answer that disagrees with the lines replaces them. A write that    *)
(* finds no cart is sent once more; a store that is closed stops the adding.  *)
(*                                                                            *)
(* Left out: pack sizes, changes of address, the food cart that shares        *)
(* placingOrder and the payment. A line that was pulled from Swiggy has an id *)
(* of its own, by which the keys of the product list do not find it.          *)
EXTENDS Naturals, FiniteSets, Functions

CONSTANTS
  Products,   \* each for a price of 1
  MaxQty,     \* bound: units of a product
  Floor,      \* InstamartMin
  Cap,        \* SwiggyBetaOrderCap
  MaxChase,   \* writes an Enter chases: 2 in the code
  MaxEdits,   \* bound: keys that change the cart
  MaxYes,     \* bound: orders the user confirms
  MaxFaults,  \* bound: calls that fail, price changes, products that sell out
  MaxReads    \* bound: reads under way when another is sent

VARIABLES
  place,   \* "away", "browse" (scrInstamart), "checkout", "done"
  modal,   \* orderConfirmOpen
  lines,   \* imLines: the units of each product, and which lines are sold out
  base,    \* imConfirmedLines; set is imCartConfirmed
  live,    \* imLiveCart
  sync,    \* the flags of the writes
  order,   \* placingOrder, imPlacePending, confirmedTotal (while that), paymentStage
  wire,    \* the commands under way
  store,   \* Swiggy's cart, what it lets one buy of a product, its surcharge
  past     \* history, read by properties only

imVars == <<place, modal, lines, base, live, sync, order, wire, store, past>>
loop == <<place, modal, lines, base, live, sync, order>>

Carts == [Products -> 0..MaxQty]
Empty == [p \in Products |-> 0]
Units(cart) == FoldFunction(+, 0, cart)
Lines(cart, out) == [units |-> cart, out |-> {p \in out : cart[p] > 0}]
NoLines == Lines(Empty, {})

\* What an answer says of the cart.
Answers == [units : Carts, out : SUBSET Products, total : Nat]
NoCart == [units |-> Empty, out |-> {}, total |-> 0]
Cart(s) == IF s.units = Empty THEN NoCart
           ELSE [units |-> s.units, out |-> {p \in s.out : s.units[p] > 0}, total |-> Units(s.units) + s.surge]

\* "clear" empties the cart after an order, outside the one write at a time.
Kinds == {"write", "clear", "load", "pull", "upi", "cod", "confirm"}
States == {"sent", "ok", "noqr", "error", "expired", "closed"}
Commands == [kind : Kinds, state : States, units : Carts, cart : Answers]
Command(kind, units) == [kind |-> kind, state |-> "sent", units |-> units, cart |-> NoCart]
UnderWay(kinds) == {c \in wire : c.kind \in kinds}
Reads == UnderWay({"load", "pull"})
Writes == {"write", "clear"}

Init ==
  /\ place = "away" /\ modal = FALSE /\ lines = NoLines
  /\ base = [set |-> FALSE, lines |-> NoLines] /\ live = NoCart
  /\ sync = [pending |-> FALSE, inFlight |-> FALSE, mutating |-> FALSE, confirmPending |-> FALSE,
             chase |-> 0, rebuilt |-> FALSE, pulled |-> FALSE, closed |-> FALSE]
  /\ order = [placing |-> FALSE, placePending |-> FALSE, total |-> 0, approved |-> Empty, pay |-> "idle"]
  /\ wire = {}
  /\ \E cart \in Carts, limit \in 1..MaxQty :
       /\ \A p \in Products : cart[p] <= limit
       /\ store = [units |-> cart, limit |-> limit, surge |-> 0, out |-> {}]
  /\ past = [edits |-> 0, yes |-> 0, orders |-> 0, touched |-> FALSE, own |-> FALSE,
             read |-> FALSE, loose |-> FALSE, faults |-> 0]

-----------------------------------------------------------------------------
(* Writes                                                                    *)

\* imLiveCartCmd: an empty cart is cleared, any other replaces Swiggy's.
Write(units) == Command("write", units)

\* fireIMSyncNow: the flags it leaves and the command it returns.
FireNow(s) == IF s.inFlight THEN [s EXCEPT !.pending = TRUE]
              ELSE [s EXCEPT !.pending = FALSE, !.inFlight = TRUE]
FireNowCmd(s, units) == IF s.inFlight THEN {} ELSE {Write(units)}

\* history: an order is between the user's yes and Swiggy.
Placing == order.placing \/ order.placePending \/ UnderWay({"upi", "cod"}) # {}
Edited == [past EXCEPT !.edits = @ + 1, !.own = TRUE, !.touched = @ \/ Placing]
Disowned == [past EXCEPT !.own = FALSE]
Overtaken == [past EXCEPT !.touched = @ \/ Placing]

\* settledIMCartSync
Settle ==
  /\ sync.pending /\ ~sync.mutating /\ ~sync.inFlight
  /\ sync' = FireNow(sync)
  /\ wire' = wire \cup {Write(lines.units)}
  /\ UNCHANGED <<place, modal, lines, base, live, order, store, past>>

-----------------------------------------------------------------------------
(* Keys                                                                      *)

Keyed == past.edits < MaxEdits
Armed == [sync EXCEPT !.pending = TRUE]
With(l, p, n) == Lines([l.units EXCEPT ![p] = n], l.out)

\* imEnterCmd: the account's cart is pulled once.
Visit ==
  /\ place = "away" /\ place' = "browse"
  /\ sync' = [sync EXCEPT !.pulled = TRUE]
  /\ wire' = IF sync.pulled THEN wire ELSE wire \cup {Command("pull", Empty)}
  /\ UNCHANGED <<modal, lines, base, live, order, store, past>>

Add(p) ==
  /\ place = "browse" /\ Keyed /\ ~sync.closed /\ lines.units[p] < MaxQty
  /\ lines' = With(lines, p, lines.units[p] + 1)
  /\ sync' = Armed /\ past' = Edited
  /\ UNCHANGED <<place, modal, base, live, order, wire, store>>

\* A write is armed even if no line was found.
Dec(p) ==
  /\ place = "browse" /\ Keyed
  /\ \/ lines.units[p] > 0 /\ lines' = With(lines, p, lines.units[p] - 1)
     \/ UNCHANGED lines
  /\ sync' = Armed /\ past' = Edited
  /\ UNCHANGED <<place, modal, base, live, order, wire, store>>

Home ==
  /\ place \in {"browse", "checkout"} /\ ~modal
  /\ place = "checkout" => order.pay = "idle"
  /\ place' = "away"
  /\ UNCHANGED <<modal, lines, base, live, sync, order, wire, store, past>>

\* openIMCheckoutCmd: a write if there is something to write, else a read.
ToCheckout ==
  /\ place = "browse" /\ place' = "checkout"
  /\ IF sync.pending \/ sync.inFlight
     THEN /\ sync' = FireNow(sync)
          /\ wire' = wire \cup FireNowCmd(sync, lines.units)
     ELSE /\ Cardinality(Reads) < MaxReads
          /\ wire' = wire \cup {Command("load", Empty)} /\ UNCHANGED sync
  /\ UNCHANGED <<modal, lines, base, live, order, store, past>>

Unfrozen == place = "checkout" /\ ~modal /\ ~sync.mutating

Back ==
  /\ Unfrozen /\ order.pay = "idle" /\ place' = "browse"
  /\ UNCHANGED <<modal, lines, base, live, sync, order, wire, store, past>>

Inc(p) ==
  /\ Unfrozen /\ Keyed /\ lines.units[p] \in 1..(MaxQty - 1)
  /\ lines' = With(lines, p, lines.units[p] + 1)
  /\ sync' = Armed /\ past' = Edited
  /\ UNCHANGED <<place, modal, base, live, order, wire, store>>

\* "-" and delete, with afterIMCheckoutReduce.
Reduce(p) ==
  /\ Unfrozen /\ Keyed /\ lines.units[p] > 0
  /\ \E n \in {0, lines.units[p] - 1} : lines' = With(lines, p, n)
  /\ sync' = [FireNow(sync) EXCEPT !.mutating = TRUE]
  /\ wire' = wire \cup FireNowCmd(sync, lines'.units)
  /\ past' = Edited
  /\ UNCHANGED <<place, modal, base, live, order, store>>

\* imLiveMatchesLines
Matches(l, c) == l.units = c.units
\* Checkout.PayAmount
PayAmount == IF live.total > 0 THEN live.total ELSE Units(lines.units)

Enter ==
  /\ Unfrozen /\ order.pay # "waiting" /\ ~order.placing
  /\ lines.units # Empty /\ lines.out = {}
  /\ PayAmount < Cap /\ Units(lines.units) >= Floor
  /\ IF sync.pending \/ sync.inFlight \/ ~Matches(lines, live)
     THEN /\ sync' = [FireNow(sync) EXCEPT !.confirmPending = TRUE, !.chase = 0, !.mutating = TRUE]
          /\ wire' = wire \cup FireNowCmd(sync, lines.units)
          /\ UNCHANGED modal
     ELSE modal' = TRUE /\ UNCHANGED <<sync, wire>>
  /\ UNCHANGED <<place, lines, base, live, order, store, past>>

\* Mutant: the order does not wait for the last write.
YesAtOnce ==
  /\ modal /\ modal' = FALSE /\ past.yes < MaxYes /\ ~order.placing
  /\ sync' = [sync EXCEPT !.pending = FALSE, !.inFlight = TRUE]
  /\ order' = [order EXCEPT !.placing = TRUE]
  /\ wire' = wire \cup {Write(lines.units), Command("upi", lines.units)}
  /\ past' = [past EXCEPT !.yes = @ + 1, !.touched = Placing]
  /\ UNCHANGED <<place, lines, base, live, store>>
\* confirmPlaceOrder: a last write of the lines, whatever is in flight, and the
\* order if it goes well.
Yes ==
  /\ modal /\ modal' = FALSE
  /\ IF order.placing THEN UNCHANGED <<sync, order, wire, past>>
     ELSE /\ past.yes < MaxYes
          /\ sync' = [sync EXCEPT !.pending = FALSE, !.inFlight = TRUE]
          /\ order' = [order EXCEPT !.placing = TRUE, !.placePending = TRUE,
                                    !.total = PayAmount, !.approved = lines.units]
          /\ wire' = wire \cup {Write(lines.units)}
          /\ past' = [past EXCEPT !.yes = @ + 1, !.touched = Placing, !.loose = @ \/ sync.inFlight]
  /\ UNCHANGED <<place, lines, base, live, store>>

No == modal /\ modal' = FALSE /\ UNCHANGED <<place, lines, base, live, sync, order, wire, store, past>>

\* Esc on a payment.
DropPayment ==
  /\ place = "checkout" /\ ~modal /\ order.pay # "idle"
  /\ order' = [order EXCEPT !.pay = "idle"]
  /\ UNCHANGED <<place, modal, lines, base, live, sync, wire, store, past>>

\* Any key after the order, with clearPlacedCarts: a flight is forgotten.
Leave ==
  /\ place = "done" /\ place' = "away"
  /\ lines' = NoLines /\ live' = NoCart /\ base' = [base EXCEPT !.set = FALSE]
  /\ sync' = [sync EXCEPT !.pending = FALSE, !.inFlight = FALSE, !.confirmPending = FALSE, !.pulled = FALSE]
  /\ past' = Disowned
  /\ UNCHANGED <<modal, order, wire, store>>

-----------------------------------------------------------------------------
(* Swiggy, which serves commands in any order                                *)

Least(a, b) == IF a < b THEN a ELSE b
Capped(units) == [p \in Products |-> Least(units[p], store.limit)]
Replaced(units) == [store EXCEPT !.units = Capped(units)]
Answered(c, state, cart) == wire' = (wire \ {c}) \cup {[c EXCEPT !.state = state, !.cart = cart]}
Fault == past.faults < MaxFaults /\ past' = [past EXCEPT !.faults = @ + 1]

\* A write fails before or after it takes effect, or is refused: the cart has
\* expired, the store is closed.
ServeWrite(c) ==
  /\ c.kind \in Writes
  /\ \/ store' = Replaced(c.units) /\ Answered(c, "ok", Cart(store')) /\ UNCHANGED past
     \/ Fault /\ Answered(c, "error", NoCart) /\ store' \in {store, Replaced(c.units)}
     \/ /\ Fault /\ c.units # Empty /\ Answered(c, "closed", NoCart) /\ UNCHANGED store
     \/ Fault /\ c.units # Empty /\ Answered(c, "expired", NoCart) /\ store' = [store EXCEPT !.units = Empty]

ServeRead(c) ==
  /\ c.kind \in {"load", "pull"} /\ UNCHANGED store
  /\ \/ Answered(c, "ok", Cart(store)) /\ UNCHANGED past
     \/ Fault /\ Answered(c, "error", NoCart)

\* A UPI order waits for its payment, a cash order empties the cart.
Orderable == store.units # Empty /\ \A p \in store.out : store.units[p] = 0
Emptied(c) == IF c.kind = "cod" THEN [store EXCEPT !.units = Empty] ELSE store
ServeOrder(c) ==
  /\ c.kind \in {"upi", "cod"}
  /\ \/ ~Orderable /\ Answered(c, "error", NoCart) /\ UNCHANGED <<store, past>>
     \/ c.kind = "upi" /\ Answered(c, "noqr", NoCart) /\ UNCHANGED <<store, past>>
     \/ /\ Orderable /\ Answered(c, "ok", NoCart) /\ store' = Emptied(c)
        /\ past' = [past EXCEPT !.orders = @ + 1]
     \/ /\ past.faults < MaxFaults /\ Answered(c, "error", NoCart)
        /\ \/ UNCHANGED store /\ past' = [past EXCEPT !.faults = @ + 1]
           \/ /\ Orderable /\ store' = Emptied(c)
              /\ past' = [past EXCEPT !.faults = @ + 1, !.orders = @ + 1]

ServeConfirm(c) ==
  /\ c.kind = "confirm"
  /\ \/ Answered(c, "ok", NoCart) /\ store' = [store EXCEPT !.units = Empty] /\ UNCHANGED past
     \/ Fault /\ Answered(c, "error", NoCart) /\ UNCHANGED store

Serve(c) ==
  /\ c.state = "sent" /\ UNCHANGED loop
  /\ ServeWrite(c) \/ ServeRead(c) \/ ServeOrder(c) \/ ServeConfirm(c)

\* Prices and stock move.
Move ==
  /\ Fault /\ UNCHANGED loop /\ UNCHANGED wire
  /\ \/ store' = [store EXCEPT !.surge = 1 - @]
     \/ \E p \in Products : store' = [store EXCEPT !.out = IF p \in @ THEN @ \ {p} ELSE @ \cup {p}]

-----------------------------------------------------------------------------
(* Answers in the loop                                                       *)

\* Availability is stamped on the lines the answer names.
Stamped(l, c) == Lines(l.units, {p \in Products : p \in IF c.units[p] > 0 THEN c.out ELSE l.out})
\* imLinesFromCart
LinesOf(c) == Lines(c.units, c.out)

\* Mutant: an answer that disagrees is taken note of and no more.
NeverAdopts(s, l, c) == FALSE
\* The store decides: with no newer edit waiting, its lines replace the local ones.
Adopts(s, l, c) == ~s.pending /\ ~Matches(l, c)

\* Mutant: the keys stay frozen.
LandedFrozen == [sync EXCEPT !.inFlight = FALSE, !.rebuilt = FALSE, !.closed = FALSE]
\* A write is answered.
Landed == [sync EXCEPT !.inFlight = FALSE, !.mutating = FALSE, !.rebuilt = FALSE, !.closed = FALSE]
Settled == [order EXCEPT !.placePending = FALSE, !.total = 0, !.approved = Empty]

\* IMCartSyncedMsg with an error. The order that waited is off; a cart that has
\* expired is written once more, with the keys frozen; else the confirmed lines
\* come back.
SyncFailed(c) ==
  /\ c.kind \in Writes /\ c.state \in {"error", "expired", "closed"}
  /\ order' = IF order.placePending THEN [Settled EXCEPT !.placing = FALSE] ELSE order
  /\ IF c.state = "expired" /\ ~sync.rebuilt
     THEN /\ sync' = [sync EXCEPT !.confirmPending = FALSE, !.rebuilt = TRUE,
                                  !.mutating = TRUE, !.inFlight = TRUE]
          /\ wire' = (wire \ {c}) \cup {Write(lines.units)}
          /\ UNCHANGED <<lines, past>>
     ELSE /\ sync' = [sync EXCEPT !.confirmPending = FALSE, !.inFlight = FALSE, !.mutating = FALSE,
                                  !.closed = @ \/ c.state = "closed"]
          /\ wire' = wire \ {c}
          /\ lines' = IF base.set THEN base.lines ELSE NoLines
          /\ past' = Disowned
  /\ UNCHANGED <<place, modal, base, live, store>>

\* IMCartSyncedMsg with a cart. `l` is what the lines become first. Then either
\* the order that waited goes out, if nothing is sold out and the total is the
\* one the user approved; or an Enter that waited gets its modal, after another
\* write while there are edits, or is taken back if the store changed the lines.
Place(c, l) ==
  LET go == l.out = {} /\ c.cart.total = order.total
  IN  /\ order' = [Settled EXCEPT !.placing = @ /\ go]
      /\ wire' = (wire \ {c}) \cup IF go THEN {Command("upi", order.approved)} ELSE {}
      /\ sync' = Landed /\ UNCHANGED modal

Chase(c, l) ==
  LET s == [Landed EXCEPT !.chase = @ + 1, !.mutating = TRUE]
  IN  /\ sync' = FireNow(s)
      /\ wire' = (wire \ {c}) \cup FireNowCmd(s, l.units)
      /\ UNCHANGED <<order, modal>>

Synced(c) ==
  /\ c.kind \in Writes /\ c.state = "ok"
  /\ live' = c.cart
  /\ LET adjusted == Adopts(sync, lines, c.cart)
         l     == IF adjusted THEN LinesOf(c.cart) ELSE Stamped(lines, c.cart)
         chase == sync.confirmPending /\ (sync.pending \/ ~Matches(l, c.cart)) /\ sync.chase < MaxChase
         spent == sync.confirmPending /\ ~Matches(l, c.cart)
         final == IF ~order.placePending /\ ~adjusted /\ ~chase /\ spent THEN LinesOf(c.cart) ELSE l
     IN  /\ lines' = final
         /\ base' = [set |-> TRUE, lines |-> final]
         /\ past' = IF c.kind = "write" /\ final = l THEN past ELSE Disowned
         /\ IF order.placePending THEN Place(c, l)
            ELSE IF adjusted THEN /\ sync' = [Landed EXCEPT !.confirmPending = FALSE]
                                  /\ wire' = wire \ {c} /\ UNCHANGED <<order, modal>>
            ELSE IF chase THEN Chase(c, l)
            ELSE /\ sync' = [Landed EXCEPT !.confirmPending = FALSE, !.pending = @ /\ ~spent]
                 /\ wire' = wire \ {c}
                 /\ modal' = (modal \/ (/\ sync.confirmPending /\ ~spent /\ ~order.placing
                                        /\ l.units # Empty /\ place = "checkout"))
                 /\ UNCHANGED order
  /\ UNCHANGED <<place, store>>

\* IMCartLoadedMsg: a read that disagrees is believed when no write waits or
\* flies; the lines count as confirmed either way.
CartLoaded(c) ==
  /\ c.kind = "load" /\ c.state # "sent"
  /\ wire' = wire \ {c}
  /\ IF c.state = "ok"
     THEN /\ live' = c.cart
          /\ lines' = IF Adopts(sync, lines, c.cart) /\ ~sync.inFlight THEN LinesOf(c.cart)
                      ELSE Stamped(lines, c.cart)
          /\ base' = [set |-> TRUE, lines |-> lines']
          /\ past' = IF lines'.units = lines.units THEN past ELSE [Overtaken EXCEPT !.read = TRUE]
     ELSE UNCHANGED <<live, lines, base, past>>
  /\ UNCHANGED <<place, modal, sync, order, store>>

\* IMCartPulledMsg
CartPulled(c) ==
  /\ c.kind = "pull" /\ c.state # "sent"
  /\ wire' = wire \ {c}
  /\ IF c.state = "ok" THEN live' = c.cart ELSE UNCHANGED live
  /\ IF c.state = "ok" /\ lines.units = Empty /\ c.cart.units # Empty
     THEN /\ lines' = LinesOf(c.cart) /\ base' = [set |-> TRUE, lines |-> lines']
          /\ past' = [Overtaken EXCEPT !.own = FALSE]
     ELSE UNCHANGED <<lines, base, past>>
  /\ UNCHANGED <<place, modal, sync, order, store>>

\* IMUPIPlacedMsg: an error, a QR, or the way to a cash order.
UPIPlaced(c) ==
  /\ c.kind = "upi" /\ c.state # "sent"
  /\ order' = IF c.state = "noqr" THEN order
              ELSE [order EXCEPT !.placing = FALSE, !.pay = IF c.state = "ok" THEN "waiting" ELSE @]
  /\ wire' = (wire \ {c}) \cup IF c.state = "noqr" THEN {Command("cod", c.units)} ELSE {}
  /\ UNCHANGED <<place, modal, lines, base, live, sync, store, past>>

\* PaymentPolledMsg, or the end of the payment window.
PaymentPolled ==
  /\ place = "checkout" /\ order.pay = "waiting"
  /\ \/ /\ order' = [order EXCEPT !.pay = "confirming"]
        /\ wire' = wire \cup {Command("confirm", Empty)}
     \/ order' = [order EXCEPT !.pay = "failed"] /\ UNCHANGED wire
  /\ UNCHANGED <<place, modal, lines, base, live, sync, store, past>>

\* IMOrderPlacedMsg, which also empties the cart once more.
OrderPlaced(c) ==
  /\ c.kind \in {"cod", "confirm"} /\ c.state # "sent"
  /\ order' = [order EXCEPT !.placing = FALSE, !.pay = "idle"]
  /\ IF c.state = "ok"
     THEN /\ place' = "done" /\ lines' = NoLines /\ live' = NoCart
          /\ base' = [set |-> TRUE, lines |-> NoLines]
          /\ wire' = (wire \ {c}) \cup {Command("clear", Empty)}
     ELSE wire' = wire \ {c} /\ UNCHANGED <<place, lines, live, base>>
  /\ past' = [Disowned EXCEPT !.loose = @ \/ c.state = "ok"]
  /\ UNCHANGED <<modal, sync, store>>

Answer(c) == SyncFailed(c) \/ Synced(c) \/ CartLoaded(c) \/ CartPulled(c) \/ UPIPlaced(c) \/ OrderPlaced(c)

Key ==
  \/ \E p \in Products : Add(p) \/ Dec(p) \/ Inc(p) \/ Reduce(p)
  \/ Visit \/ Home \/ ToCheckout \/ Back \/ Enter \/ Yes \/ No \/ DropPayment \/ Leave

Next ==
  \/ Key \/ Settle \/ Move \/ PaymentPolled
  \/ \E c \in wire : Serve(c) \/ Answer(c)

IMSpec == Init /\ [][Next]_imVars

-----------------------------------------------------------------------------
(* Properties                                                                *)

IMTypeOK ==
  /\ place \in {"away", "browse", "checkout", "done"} /\ modal \in BOOLEAN
  /\ lines \in [units : Carts, out : SUBSET Products]
  /\ base \in [set : BOOLEAN, lines : [units : Carts, out : SUBSET Products]] /\ live \in Answers
  /\ sync \in [pending : BOOLEAN, inFlight : BOOLEAN, mutating : BOOLEAN, confirmPending : BOOLEAN,
               chase : 0..MaxChase, rebuilt : BOOLEAN, pulled : BOOLEAN, closed : BOOLEAN]
  /\ order \in [placing : BOOLEAN, placePending : BOOLEAN, total : Nat, approved : Carts,
                pay : {"idle", "waiting", "confirming", "failed"}]
  /\ wire \subseteq Commands
  /\ store.units \in Carts /\ store.limit \in 1..MaxQty /\ store.surge \in {0, 1}

\* The gate of the writes tells the truth (tui/app.go:404): one write at a time is
\* in flight, and the flag says so; a frozen checkout waits for an answer that is
\* still to come, an order that is being placed for a command. It holds until an
\* order is placed, whose clearing is outside the gate, or an Enter that is tired
\* of chasing edits opens the modal over some.
IMGate ==
  ~past.loose =>
    /\ \A c, d \in UnderWay({"write"}) : c = d
    /\ sync.inFlight <=> UnderWay({"write"}) # {}
    /\ sync.mutating => sync.inFlight
    /\ order.placing => UnderWay({"write", "upi", "cod"}) # {}

\* "No screen keeps a phantom quantity" (tui/app.go, IMCartLoadedMsg): at rest the
\* lines are what Swiggy's cart holds, capped or not.
Quiet == ~sync.pending /\ ~sync.inFlight /\ UnderWay(Writes \cup {"cod", "confirm"}) = {}
NoPhantom == Quiet /\ past.own /\ ~past.read /\ ~past.loose => lines.units = store.units

\* What Swiggy orders is the cart that the user approved, as long as the lines stay
\* until then as they were: neither the user nor a read that answers late changes them.
IMOrderedAsApproved ==
  [][past'.orders > past.orders /\ ~past.touched /\ ~past.loose =>
       \E c \in UnderWay({"upi", "cod"}) :
         c.state = "sent" /\ c \notin wire' /\ c.units = store.units]_imVars

=============================================================================
