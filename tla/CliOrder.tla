------------------------------- MODULE CliOrder -------------------------------
(* `console order <name> [number]` (internal/cli): one of the presets of     *)
(* that name is picked and pushed over the cart, the bill that Swiggy then   *)
(* has is shown, one line from the keyboard approves it, and the order is    *)
(* placed: by scan-to-pay with a poll and a confirm, or else cash on         *)
(* delivery; Instamart by its checkout. Ctrl-C only                          *)
(* cancels a context; no call is repeated. `console status` shows what is    *)
(* live afterwards. Meanwhile the user types, pays, and edits the same cart  *)
(* on another device.                                                        *)
EXTENDS Naturals, Sequences, FiniteSets

CONSTANTS MaxKeys, MaxForeign, MaxErrors,  \* bounds: keys typed, edits elsewhere, calls that fail
          MaxMatches                       \* bound: presets that share the name

VARIABLES cmd,     \* the command: where it is, what it showed and how it ended
          keys,    \* lines typed and not read yet
          ctrlC,   \* the context is cancelled
          shop,    \* Swiggy: the cart, the payment under way, the orders
          log      \* what happened, for the properties and the bounds

cliVars == <<cmd, keys, ctrlC, shop, log>>

Verticals == {"food", "instamart"}
\* A cart by what the gates tell apart; "other" is what another device left.
Carts == {"preset", "soldout", "empty", "dear", "small", "other"}
Ends == {"", "refused", "unread", "cancelled", "placed", "maybe", "unpaid", "paid, not confirmed"}

CliInit ==
    /\ \E a, i \in BOOLEAN, n, k \in 0..MaxMatches :
         cmd = [at |-> "find", matches |-> n, given |-> k, row |-> 1, preset |-> 0, vertical |-> "food",
                armed |-> a, interactive |-> i, bill |-> "", end |-> "", saved |-> {}]
    /\ keys = <<>> /\ ctrlC = FALSE
    /\ shop = [cart |-> "empty", payment |-> "none", orders |-> <<>>]
    /\ log = [typed |-> 0, foreign |-> 0, errors |-> 0, ahead |-> FALSE, late |-> FALSE]

Goto(place) == cmd' = [cmd EXCEPT !.at = place]
Exit(end) == cmd' = [cmd EXCEPT !.at = "done", !.end = end]
Errs == log.errors < MaxErrors /\ log' = [log EXCEPT !.errors = @ + 1]
Ordered(s) == [s EXCEPT !.orders = Append(@, s.cart), !.cart = "empty"]
-----------------------------------------------------------------------------
(* Which preset. Several of one name are probed for what is sold out, which only  *)
(* marks the rows of the list.                                                    *)

\* orderPreset: food and groceries take the same steps over different calls.
Choose(row) == \E v \in Verticals : cmd' = [cmd EXCEPT !.at = "push", !.preset = row, !.vertical = v]

\* Mutant: a number is checked after it was used to index the list.
FindPastEnd ==
    /\ cmd.at = "find"
    /\ IF cmd.matches > 0 /\ cmd.given > 0 THEN Choose(cmd.given) ELSE Exit("refused")
    /\ UNCHANGED <<keys, ctrlC, shop, log>>

\* runOrder: a number, or the only one, or the picker, for which somebody must be there.
Find ==
    /\ cmd.at = "find"
    /\ \/ (cmd.matches = 0 \/ cmd.given > cmd.matches) /\ Exit("refused")
       \/ cmd.given \in 1..cmd.matches /\ Choose(cmd.given)
       \/ cmd.given = 0 /\ cmd.matches = 1 /\ Choose(1)
       \/ cmd.given = 0 /\ cmd.matches > 1 /\ IF cmd.interactive THEN Goto("pick") ELSE Exit("refused")
    /\ UNCHANGED <<keys, ctrlC, shop, log>>

\* rawPick reads up to eight bytes at once and looks at the first key of them. In raw
\* mode Ctrl-C is a key as well, and a cancelled context is not looked at.
Pick ==
    /\ cmd.at = "pick" /\ keys # <<>>
    /\ CASE Head(keys) = "yes" -> Choose(cmd.row)
         [] Head(keys) = "no" -> Exit("cancelled")
         [] Head(keys) = "down" -> cmd' = [cmd EXCEPT !.row = IF @ < cmd.matches THEN @ + 1 ELSE @]
    /\ \E read \in DOMAIN keys : keys' = SubSeq(keys, read + 1, Len(keys))
    /\ UNCHANGED <<ctrlC, shop, log>>
-----------------------------------------------------------------------------
(* The cart and its bill *)

\* UpdateCart or IMUpdateCart replaces the cart; what comes of the preset is
\* Swiggy's to say. An error ends the command, whether or not it went through.
Push ==
    /\ cmd.at = "push"
    /\ \/ \E c \in Carts \ {"other"} : shop' = [shop EXCEPT !.cart = c] /\ Goto("read") /\ UNCHANGED log
       \/ Errs /\ shop' \in {shop, [shop EXCEPT !.cart = "preset"]} /\ Exit("unread")
    /\ UNCHANGED <<keys, ctrlC>>

\* Mutant: an order is placed though nobody sits at the terminal.
RefusableTerminal(cart) ==
    cart \in {"soldout", "empty", "dear"} \/ (cart = "small" /\ cmd.vertical = "instamart") \/ ~cmd.armed

\* What is not shown as a bill to approve: unavailable lines, no lines, ₹1000 or
\* more, less than ₹99 of groceries; a browse-only build; no terminal.
Refusable(cart) ==
    \/ cart \in {"soldout", "empty", "dear"} \/ (cart = "small" /\ cmd.vertical = "instamart")
    \/ ~cmd.armed \/ ~cmd.interactive

\* GetCart or IMGetCart: the bill is what Swiggy has by now.
Read ==
    /\ cmd.at = "read"
    /\ \/ /\ cmd' = IF Refusable(shop.cart) THEN [cmd EXCEPT !.at = "done", !.end = "refused"]
                    ELSE [cmd EXCEPT !.at = "ask", !.bill = shop.cart]
          /\ log' = [log EXCEPT !.ahead = keys # <<>>]
       \/ Errs /\ Exit("unread")
    /\ UNCHANGED <<keys, ctrlC, shop>>
-----------------------------------------------------------------------------
(* confirm: one line, or the context, whichever is there first; when both are  *)
(* there the select takes either. Enter, y and yes approve.                    *)
Cancelled == ctrlC /\ Exit("cancelled") /\ UNCHANGED <<keys, log>>

Answered ==
    /\ keys # <<>> /\ keys' = Tail(keys)
    /\ IF Head(keys) = "yes" THEN Goto("place") /\ log' = [log EXCEPT !.late = ctrlC]
       ELSE Exit("cancelled") /\ UNCHANGED log

Confirm ==
    /\ cmd.at = "ask"
    /\ Cancelled \/ Answered
    /\ UNCHANGED <<ctrlC, shop>>
-----------------------------------------------------------------------------
(* Placing. A call that fails may have gone through.                         *)

\* placeFood: scan-to-pay first; an account without it pays cash.
PlaceUPI ==
    /\ cmd.at = "place" /\ cmd.vertical = "food"
    /\ \/ shop' = [shop EXCEPT !.payment = "open"] /\ Goto("wait") /\ UNCHANGED log
       \/ Goto("cash") /\ UNCHANGED <<shop, log>>
       \/ Errs /\ shop' \in {shop, [shop EXCEPT !.payment = "open"]} /\ Exit("maybe")
    /\ UNCHANGED <<keys, ctrlC>>

\* The order is saved as the active one: the command can be followed from here.
Saved == cmd' = [cmd EXCEPT !.at = "done", !.end = "placed", !.saved = {Len(shop'.orders)}]

\* PlaceOrder and IMPlaceOrder, which clears the cart once more afterwards.
PlaceCash ==
    /\ \/ cmd.at = "cash"
       \/ cmd.at = "place" /\ cmd.vertical = "instamart"
    /\ \/ shop' = Ordered(shop) /\ Saved /\ UNCHANGED log
       \/ Errs /\ shop' \in {shop, Ordered(shop)} /\ Exit("maybe")
    /\ UNCHANGED <<keys, ctrlC>>

\* Mutant: any verdict about the payment is confirmed.
PollPaymentAny ==
    /\ cmd.at = "wait" /\ shop.payment \in {"paid", "failed"} /\ Goto("confirm")
    /\ UNCHANGED <<keys, ctrlC, shop, log>>

\* waitForPayment: cancelled, out of time, paid or failed; an error of a poll is
\* passed over. Nothing is confirmed unless Swiggy says that it was paid.
Stops == cmd.at = "wait" /\ ctrlC /\ Exit("unpaid") /\ UNCHANGED <<keys, ctrlC, shop, log>>
Expires == cmd.at = "wait" /\ Exit("unpaid") /\ UNCHANGED <<keys, ctrlC, shop, log>>
PollPayment ==
    /\ cmd.at = "wait" /\ shop.payment \in {"paid", "failed"}
    /\ IF shop.payment = "paid" THEN Goto("confirm") ELSE Exit("unpaid")
    /\ UNCHANGED <<keys, ctrlC, shop, log>>

\* ConfirmOrder makes an order of what was paid.
ConfirmOrder ==
    /\ cmd.at = "confirm"
    /\ LET paid == IF shop.payment = "paid" THEN [Ordered(shop) EXCEPT !.payment = "used"] ELSE shop
       IN \/ shop' = paid /\ Saved /\ UNCHANGED log
          \/ Errs /\ shop' \in {shop, paid} /\ Exit("paid, not confirmed")
    /\ UNCHANGED <<keys, ctrlC>>
-----------------------------------------------------------------------------
(* What goes on around the command *)
Type == \E k \in {"yes", "no", "down"} :
    /\ cmd.at # "done" /\ log.typed < MaxKeys
    /\ keys' = Append(keys, k) /\ log' = [log EXCEPT !.typed = @ + 1]
    /\ UNCHANGED <<cmd, ctrlC, shop>>

\* The terminal drops what was typed when it sends the signal, as it does not in raw
\* mode; a SIGTERM drops nothing.
Interrupt == /\ cmd.at # "done" /\ ~ctrlC
             /\ ctrlC' = TRUE /\ keys' \in IF cmd.at = "pick" THEN {keys} ELSE {keys, <<>>}
             /\ UNCHANGED <<cmd, shop, log>>

Pay == /\ shop.payment = "open"
       /\ \E verdict \in {"paid", "failed"} : shop' = [shop EXCEPT !.payment = verdict]
       /\ UNCHANGED <<cmd, keys, ctrlC, log>>

OtherDevice ==
    /\ log.foreign < MaxForeign /\ shop.payment = "none"
    /\ shop' = [shop EXCEPT !.cart = "other"] /\ log' = [log EXCEPT !.foreign = @ + 1]
    /\ UNCHANGED <<cmd, keys, ctrlC>>

CliNext == Find \/ Pick \/ Push \/ Read \/ Confirm \/ PlaceUPI \/ PlaceCash \/ Stops \/ Expires \/ PollPayment \/ ConfirmOrder
           \/ Type \/ Interrupt \/ Pay \/ OtherDevice

CliSpec == CliInit /\ [][CliNext]_cliVars
-----------------------------------------------------------------------------
CliTypeOK ==
    /\ cmd.at \in {"find", "pick", "push", "read", "ask", "place", "cash", "wait", "confirm", "done"} /\ cmd.end \in Ends
    /\ cmd.row \in 1..MaxMatches /\ cmd.preset \in 0..MaxMatches
    /\ cmd.bill \in Carts \cup {""} /\ shop.cart \in Carts /\ shop.payment \in {"none", "open", "paid", "failed", "used"}

\* One run places one order at most, and never one nobody at a terminal approved
\* after its bill could be read: refused and cancelled commands place none. What is
\* ordered is one of the presets that have the name.
CliOneOrder ==
    /\ Len(shop.orders) <= 1
    /\ shop.orders # <<>> \/ shop.payment # "none" =>
         cmd.bill # "" /\ cmd.armed /\ cmd.interactive /\ cmd.end \notin {"refused", "unread", "cancelled"}
    /\ cmd.at \notin {"find", "pick", "done"} => cmd.preset \in 1..cmd.matches

\* What is announced as placed is an order at Swiggy, of the bill that was shown
\* unless another device changed the cart in between; a payment that failed is
\* never confirmed.
CliPlacedIsReal ==
    /\ cmd.end = "placed" => /\ Len(shop.orders) = 1 /\ cmd.saved = {1}
                             /\ log.foreign = 0 => shop.orders[1] = cmd.bill
    /\ cmd.at = "confirm" => shop.payment = "paid"

\* An order or a payment that may stand at Swiggy when the command ends was not
\* reported as nothing: the user is told that it was placed or to look.
CliNothingHidden == cmd.at = "done" /\ (shop.orders # <<>> \/ shop.payment \in {"paid", "used"}) =>
                        cmd.end \in {"placed", "maybe", "unpaid", "paid, not confirmed"}

\* TLC refutes this: the line that approves an order is typed after its bill was
\* shown (what is typed while the cart is pushed and read is taken as the answer).
ApprovedAfterBill == cmd.at \in {"place", "cash", "wait", "confirm"} => ~log.ahead

\* TLC refutes this: "a canceled ctx means do NOT place" (cli.go:63).
CancelledNeverPlaces == ~log.late

\* TLC refutes this: the order is of the bill that was shown (the cart is not read
\* again before it is placed).
OrderedAsShown == shop.orders # <<>> => shop.orders[1] = cmd.bill
=============================================================================
