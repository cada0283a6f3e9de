----------------------------- MODULE TuiOrders -----------------------------
(***************************************************************************)
(* The orders the terminal interface follows (internal/tui/app.go): the    *)
(* one in the slot (activeOrder, kept in active-order.json), a second one   *)
(* of the other shop (altOrder, in memory), and the card of the tracking   *)
(* page. Polls and lists answer late, in any order; the code tells late    *)
(* answers by the id of their order, and a lost order by its age.          *)
(*                                                                         *)
(* Left out: an order that is accepted without an id, the sign-in gate     *)
(* after a sign-out, and the label on the splash screen.                   *)
(***************************************************************************)
EXTENDS Naturals, FiniteSets

CONSTANTS
    Food,       \* orders of the food shop
    Instamart,  \* orders of the grocery shop
    Located,    \* what the cart may know of the coordinates of its order
    NoOrder,
    MaxFaults,  \* bound: polls that fail or are unreadable
    MaxWire,    \* bound: commands under way after a key or a tick sends one
    MaxLaunches \* bound: launches after the first

Orders == Food \cup Instamart

VARIABLES
    world,  \* each order at Swiggy: none, live or delivered
    age,    \* of each record, since its PlacedAt: 0 to 90 s, 1 to the grace, 2 past it
    slot,   \* hasActiveOrder and activeOrder, whose id outlives its order
    alt,    \* altOrder, or NoOrder
    file,   \* active-order.json
    coords, \* the orders whose record holds coordinates
    page,   \* screen, trackPickOpen, and m.track: its order, and whether it shows the
            \* live status of another order
    wire,   \* the commands under way; two that are equal count as one (bound)
    used    \* faults and launches so far (bounds)

vars == <<world, age, slot, alt, file, coords, page, wire, used>>

Vertical(o) == IF o \in Food THEN Food ELSE Instamart
Known == (IF slot.has THEN {slot.id} ELSE {}) \cup ({alt} \ {NoOrder})

Kinds == {"track", "foodlist", "imlist"}
Command(kind, o) == [kind |-> kind, of |-> o, state |-> "sent", says |-> "live", list |-> {}]
Answers == {c \in wire : c.state = "answered"}

FollowTypeOK ==
    /\ world \in [Orders -> {"none", "live", "delivered"}] /\ age \in [Orders -> 0..2]
    /\ slot \in [has : BOOLEAN, id : Orders \cup {NoOrder}] /\ slot.has => slot.id # NoOrder
    /\ {alt, file} \subseteq Orders \cup {NoOrder} /\ coords \subseteq Instamart
    /\ page \in [screen : {"splash", "menu", "confirm", "tracking"}, pick : BOOLEAN,
                 card : Orders \cup {NoOrder}, foreign : BOOLEAN]
    /\ wire \subseteq [kind : Kinds, of : Orders \cup {NoOrder}, state : {"sent", "answered", "error"},
                       says : {"live", "delivered", "gone", "unreadable"}, list : SUBSET Orders]
    /\ used \in [faults : 0..MaxFaults, launches : 0..MaxLaunches]

\* A first launch: the lists of both shops are under way.
Lists == {Command("foodlist", NoOrder), Command("imlist", NoOrder)}
Init ==
    /\ world = [o \in Orders |-> "none"] /\ age = [o \in Orders |-> 0]
    /\ slot = [has |-> FALSE, id |-> NoOrder] /\ alt = NoOrder /\ file = NoOrder /\ coords = {}
    /\ page = [screen |-> "splash", pick |-> FALSE, card |-> NoOrder, foreign |-> FALSE]
    /\ wire = Lists /\ used = [faults |-> 0, launches |-> 0]

Send(cmds) == Cardinality(wire \cup cmds) <= MaxWire /\ wire' = wire \cup cmds

\* SaveActiveOrder and ClearActiveOrder: the file is replaced, or removed.
SaveActiveOrder(o) == file' = o
ClearActiveOrder == file' = NoOrder

\* trackingPollCmd: track_order of the grocery shop needs coordinates.
TrackingPollCmd(o) == IF o \in Instamart \ coords THEN Command("imlist", NoOrder) ELSE Command("track", o)

Card(o) == [screen |-> "tracking", pick |-> FALSE, card |-> o, foreign |-> FALSE]

(***************************************************************************)
(* Orders at Swiggy, and time.                                             *)
(***************************************************************************)
Phone(o) == /\ world[o] = "none" /\ world' = [world EXCEPT ![o] = "live"]
            /\ UNCHANGED <<age, slot, alt, file, coords, page, wire, used>>

Deliver(o) == /\ world[o] = "live" /\ world' = [world EXCEPT ![o] = "delivered"]
              /\ UNCHANGED <<age, slot, alt, file, coords, page, wire, used>>

\* An answer is 30 s old at most when it is handled, http.Client.Timeout in
\* cmd/store/main.go: one that is there holds the clock.
Time(o) == /\ o \in Known /\ age[o] < 2 /\ Answers = {}
           /\ age' = [age EXCEPT ![o] = @ + 1]
           /\ UNCHANGED <<world, slot, alt, file, coords, page, wire, used>>

\* The lists hold the live orders; one that is younger than 90 s may be missing yet.
\* The tracker says gone of a delivered order it no longer describes.
Listed(vertical) == {o \in vertical : world[o] = "live"}
Old(orders) == {o \in orders : age[o] > 0}
Serve(c) ==
    /\ c.state = "sent"
    /\ \/ /\ c.kind = "track"
          /\ \E s \in IF world[c.of] = "live" THEN {"live"} ELSE {"delivered", "gone"} :
                wire' = (wire \ {c}) \cup {[c EXCEPT !.state = "answered", !.says = s]}
          /\ UNCHANGED used
       \/ /\ c.kind # "track"
          /\ LET all == Listed(IF c.kind = "foodlist" THEN Food ELSE Instamart) IN
             \E l \in SUBSET all : /\ Old(all) \subseteq l
                                   /\ wire' = (wire \ {c}) \cup {[c EXCEPT !.state = "answered", !.list = l]}
          /\ UNCHANGED used
       \/ /\ used.faults < MaxFaults /\ used' = [used EXCEPT !.faults = @ + 1]
          /\ \/ wire' = (wire \ {c}) \cup {[c EXCEPT !.state = "error"]}
             \/ /\ c.kind = "track"
                /\ wire' = (wire \ {c}) \cup {[c EXCEPT !.state = "answered", !.says = "unreadable"]}
    /\ UNCHANGED <<world, age, slot, alt, file, coords, page>>

(***************************************************************************)
(* The slot.                                                               *)
(***************************************************************************)
\* Mutant: the promoted order is not saved.
ClearOrPromoteUnsaved(after) ==
    IF alt = NoOrder
    THEN /\ slot' = [slot EXCEPT !.has = FALSE] /\ ClearActiveOrder /\ wire' = after
         /\ UNCHANGED alt
    ELSE /\ slot' = [has |-> TRUE, id |-> alt] /\ file' = NoOrder /\ alt' = NoOrder
         /\ wire' = after \cup {TrackingPollCmd(alt)}

\* after is the rest of the wire. The slot is cleared and promoteAltOrder fills it: the card stays.
ClearOrPromote(after) ==
    IF alt = NoOrder
    THEN /\ slot' = [slot EXCEPT !.has = FALSE] /\ ClearActiveOrder /\ wire' = after
         /\ UNCHANGED alt
    ELSE /\ slot' = [has |-> TRUE, id |-> alt] /\ SaveActiveOrder(alt) /\ alt' = NoOrder
         /\ wire' = after \cup {TrackingPollCmd(alt)}

\* The answer of a placement: the order takes the slot; a live one of the other shop
\* becomes the alt. A placed Instamart order asks for the list at once.
Place(o, located) ==
    /\ world[o] = "none" /\ page.screen \in {"menu", "splash"}
    /\ world' = [world EXCEPT ![o] = "live"] /\ age' = [age EXCEPT ![o] = 0]
    /\ alt' = IF slot.has /\ Vertical(slot.id) # Vertical(o) THEN slot.id ELSE alt
    /\ slot' = [has |-> TRUE, id |-> o] /\ SaveActiveOrder(o)
    /\ coords' = IF o \in Instamart /\ located THEN coords \cup {o} ELSE coords
    /\ page' = [page EXCEPT !.screen = "confirm", !.card = o, !.foreign = FALSE]
    /\ Send(IF o \in Instamart THEN {Command("imlist", NoOrder)} ELSE {})
    /\ UNCHANGED used

\* An order that was not known fills the empty slot; a food order is polled.
Discover(o, after) ==
    /\ slot' = [has |-> TRUE, id |-> o] /\ SaveActiveOrder(o) /\ age' = [age EXCEPT ![o] = 0]
    /\ coords' = coords \ {o}
    /\ wire' = IF o \in Food THEN after \cup {Command("track", o)} ELSE after
    /\ UNCHANGED <<alt, page>>

\* The list of the shop the slot is not of: its first order becomes the alt, and an
\* alt it lacks is dropped, whatever its age.
ListBeside(vertical, listed, after) ==
    /\ \/ \E o \in listed : /\ alt' = o /\ age' = [age EXCEPT ![o] = 0] /\ coords' = coords \ {o}
       \/ /\ listed = {} /\ alt' = IF alt \in vertical THEN NoOrder ELSE alt
          /\ UNCHANGED <<age, coords>>
    /\ wire' = after /\ UNCHANGED <<slot, file, page>>

\* Mutant: the list goes beside whatever the slot holds.
BesideAny(vertical) == slot.has

Beside(vertical) == slot.has /\ Vertical(slot.id) # vertical

(***************************************************************************)
(* Answers.                                                                *)
(***************************************************************************)
\* Mutant: a poll is never late.
NeverLate(c) == ~slot.has

\* TrackingPolledMsg and IMTrackingPolledMsg. Only a reply that is definite clears the
\* slot: delivered, or not active and past the grace.
Late(c) == ~slot.has \/ c.of # slot.id
Finishes(c) == c.says = "delivered" \/ (c.says = "gone" /\ age[slot.id] = 2)

Tracked(c) ==
    /\ c.kind = "track" /\ c.state = "answered"
    /\ LET after == wire \ {c} IN
       IF Late(c) THEN wire' = after /\ UNCHANGED <<slot, alt, file, page>>
       ELSE /\ page' = [page EXCEPT !.foreign = c.of # page.card]
            /\ IF Finishes(c) THEN ClearOrPromote(after)
               ELSE wire' = after /\ UNCHANGED <<slot, alt, file>>
    /\ UNCHANGED <<world, age, coords, used>>

\* The slot is not in the list of its own shop: cleared when it is older than 90 s.
Missing(after) ==
    IF age[slot.id] > 0 THEN ClearOrPromote(after) ELSE wire' = after /\ UNCHANGED <<slot, alt, file>>

\* ActiveOrdersLoadedMsg.
FoodListed(c) ==
    /\ c.kind = "foodlist" /\ c.state = "answered"
    /\ LET after == wire \ {c} IN
       \/ Beside(Food) /\ ListBeside(Food, c.list, after)
       \/ /\ ~slot.has /\ \E o \in c.list : Discover(o, after)
       \/ /\ ~slot.has /\ c.list = {} /\ wire' = after
          /\ UNCHANGED <<age, slot, alt, file, coords, page>>
       \/ /\ slot.has /\ slot.id \in Food /\ slot.id \in c.list
          /\ wire' = after \cup {Command("track", slot.id)} /\ UNCHANGED <<age, slot, alt, file, coords, page>>
       \/ /\ slot.has /\ slot.id \in Food /\ slot.id \notin c.list /\ Missing(after)
          /\ UNCHANGED <<age, coords, page>>
    /\ UNCHANGED <<world, used>>

\* IMActiveOrdersLoadedMsg: the list is the status of the slot as well, painted on
\* the card whatever it shows.
IMListed(c) ==
    /\ c.kind = "imlist" /\ c.state = "answered"
    /\ LET after == wire \ {c} IN
       \/ Beside(Instamart) /\ ListBeside(Instamart, c.list, after)
       \/ /\ ~slot.has /\ \E o \in c.list : Discover(o, after)
       \/ /\ ~slot.has /\ c.list = {} /\ wire' = after
          /\ UNCHANGED <<age, slot, alt, file, coords, page>>
       \/ /\ slot.has /\ slot.id \in Instamart /\ slot.id \in c.list
          /\ SaveActiveOrder(slot.id) /\ page' = [page EXCEPT !.foreign = slot.id # page.card]
          /\ wire' = after /\ UNCHANGED <<age, slot, alt, coords>>
       \/ /\ slot.has /\ slot.id \in Instamart /\ slot.id \notin c.list /\ Missing(after)
          /\ UNCHANGED <<age, coords, page>>
    /\ UNCHANGED <<world, used>>

Failed(c) == /\ c.state = "error" /\ wire' = wire \ {c}
             /\ UNCHANGED <<world, age, slot, alt, file, coords, page, used>>

(***************************************************************************)
(* Keys and ticks.                                                         *)
(***************************************************************************)
Poll == slot.id # NoOrder /\ Send({TrackingPollCmd(slot.id)})

\* Any key on the confirm page, or its ticks.
ToTracking ==
    /\ page.screen = "confirm" /\ page' = [page EXCEPT !.screen = "tracking"]
    /\ IF slot.has THEN Poll ELSE UNCHANGED wire
    /\ UNCHANGED <<world, age, slot, alt, file, coords, used>>

\* Every 500 ticks of the tracking page, by the id alone.
PollTick ==
    /\ page.screen = "tracking" /\ Poll
    /\ UNCHANGED <<world, age, slot, alt, file, coords, page, used>>

\* Enter on "track order": with two orders the picker asks first.
OpenTracking ==
    /\ page.screen = "splash" /\ ~page.pick /\ slot.has
    /\ IF alt # NoOrder THEN page' = [page EXCEPT !.pick = TRUE] /\ UNCHANGED wire
       ELSE page' = Card(slot.id) /\ Poll
    /\ UNCHANGED <<world, age, slot, alt, file, coords, used>>

PickFirst ==
    /\ page.pick /\ Poll /\ page' = Card(slot.id)
    /\ UNCHANGED <<world, age, slot, alt, file, coords, used>>

\* swapTrackedOrder: the second row of the picker, or "o" on the tracking page.
Swap ==
    /\ page.pick \/ page.screen = "tracking"
    /\ IF alt = NoOrder THEN page' = [page EXCEPT !.pick = FALSE] /\ UNCHANGED <<slot, alt, file, wire>>
       ELSE /\ slot' = [has |-> TRUE, id |-> alt] /\ alt' = slot.id /\ SaveActiveOrder(alt)
            /\ page' = Card(alt) /\ Send({TrackingPollCmd(alt)})
    /\ UNCHANGED <<world, age, coords, used>>

\* esc closes the picker, or leaves the tracking page; Enter leaves the splash screen.
Leave ==
    /\ \/ page.pick /\ page' = [page EXCEPT !.pick = FALSE]
       \/ page.screen = "tracking" /\ page' = [page EXCEPT !.screen = "menu"]
       \/ page.screen = "splash" /\ ~page.pick /\ page' = [page EXCEPT !.screen = "menu"]
    /\ UNCHANGED <<world, age, slot, alt, file, coords, wire, used>>

\* "d" on the tracking page.
Dismiss ==
    /\ page.screen = "tracking" /\ ClearOrPromote(wire)
    /\ page' = [page EXCEPT !.screen = "menu"]
    /\ UNCHANGED <<world, age, coords, used>>

\* Two esc: toSplash and activeOrderCheckCmd.
Home ==
    /\ page.screen \in {"menu", "tracking"}
    /\ page' = [page EXCEPT !.screen = "splash"] /\ Send(Lists)
    /\ UNCHANGED <<world, age, slot, alt, file, coords, used>>

\* LoggedOutMsg: the slot and its file stay.
LoggedOut ==
    /\ used.launches < MaxLaunches /\ used' = [used EXCEPT !.launches = @ + 1]
    /\ alt' = NoOrder /\ page' = [page EXCEPT !.screen = "splash", !.pick = FALSE]
    /\ UNCHANGED <<world, age, slot, file, coords, wire>>

\* The program is killed and started: New loads the file, unless its order has expired
\* (half an hour past its time, which may be before the end of the grace). The launch
\* asks for both lists when the addresses come, or, with a seeded catalogue, for the
\* food list alone when there is an order.
Restart ==
    /\ used.launches < MaxLaunches /\ used' = [used EXCEPT !.launches = @ + 1]
    /\ \/ slot' = [has |-> file # NoOrder, id |-> file] /\ UNCHANGED file
       \/ /\ file # NoOrder /\ age[file] > 0
          /\ slot' = [has |-> FALSE, id |-> NoOrder] /\ ClearActiveOrder
    /\ alt' = NoOrder
    /\ wire' \in {Lists, IF slot'.has THEN {Command("foodlist", NoOrder)} ELSE {}}
    /\ page' = [screen |-> "splash", pick |-> FALSE, card |-> NoOrder, foreign |-> FALSE]
    /\ UNCHANGED <<world, age, coords>>

Answered(c) == Tracked(c) \/ FoodListed(c) \/ IMListed(c) \/ Failed(c)
Keys == PickFirst \/ Swap \/ Leave \/ Dismiss \/ OpenTracking \/ Home
Next ==
    \/ \E o \in Orders : Phone(o) \/ Deliver(o) \/ Time(o) \/ \E located \in Located : Place(o, located)
    \/ \E c \in wire : Serve(c) \/ Answered(c)
    \/ ToTracking \/ PollTick \/ Keys \/ LoggedOut \/ Restart

Spec == Init /\ [][Next]_vars

(***************************************************************************)
(* Properties.                                                             *)
(***************************************************************************)
\* The file always holds the order of the slot, through discovery, promotion and
\* swap, so the next launch resumes the order the user follows; and the second order
\* is of the other shop, so no order is followed twice.
FollowsOnce ==
    /\ file = IF slot.has THEN slot.id ELSE NoOrder
    /\ alt # NoOrder => slot.has /\ Vertical(alt) # Vertical(slot.id)

\* No answer, late or unreadable or too early, takes a live order out of the slot
\* before the grace has passed.
SlotKeepsLive ==
    [][\A o \in Orders : /\ slot.has /\ slot.id = o /\ ~(slot'.has /\ slot'.id = o) /\ alt' # o
                         /\ used' = used /\ ~(Answers \subseteq Answers')
                         => world[o] = "delivered" \/ age[o] = 2]_vars

\* "applying order A's status/delivery to the order B now on screen would corrupt"
\* (app.go:3580): the card carries the status of its own order. The code refutes it:
\* a promoted order is polled and painted on the card of the finished one.
CardIsOwn == ~page.foreign
=============================================================================
