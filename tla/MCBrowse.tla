------------------------------ MODULE MCBrowse ------------------------------
(* Small instances of what the terminal interface shows: TuiPlaces, the       *)
(* browse screen, TuiMenus, the screen of one restaurant, TuiProducts, the    *)
(* Instamart shelves, and TuiOrders, the orders it follows. They share no     *)
(* state in the models: `focus` says which of them moves, the others stay as  *)
(* they start. TuiPlaces is explored once with searches and once with the     *)
(* overlays and a session that is lost, TuiOrders with a fault or a second    *)
(* launch: all at once multiply the states.                                   *)
EXTENDS TuiPlaces, TLC

CONSTANTS Places, Served, CategoryOf, VegDishes, Hits, SoldOut, Rows, NoDish,
          Food, Instamart, Located, NoOrder, MaxFaults, MaxWire, MaxLaunches,
          Homes, MaxLoads,
          home, work, p1, p2, a1, a2, a3, a4, b1

\* The shops share no order, and no order is called by the name of none.
ASSUME BrowseAssumption ==
  /\ NoOrder \notin Food \cup Instamart /\ Food \cap Instamart = {}
  /\ {MaxFaults, MaxLaunches, MaxLoads, MaxLost, MaxGen} \subseteq Nat

\* A menu comes in pages of dishes; a list is of no known height, or three rows high at
\* least (listRows).
ASSUME MenuAssumption ==
  /\ Places # {} /\ Rows \in Nat /\ (Rows = 0 \/ Rows >= 3)
  /\ \A p \in Places : Served[p] # {} /\ Served[p] \subseteq Seq(Seq(DOMAIN CategoryOf))

VARIABLES focus,
          page, rest, stream, visible, staging, cached, pages,
          world, age, slot, alt, file, coords, track, flight, used,
          view, column, box, aisle, shelf, loads, past

menuVars == <<page, rest, stream, visible, staging, cached, pages>>
followVars == <<world, age, slot, alt, file, coords, track, flight, used>>
shopVars == <<view, column, box, aisle, shelf, loads, past>>

Menus == INSTANCE TuiMenus WITH screen <- page
Follow == INSTANCE TuiOrders WITH page <- track, wire <- flight
\* Two categories of groceries, one of which is also the word to search for.
Aisles == <<"pizza", "milk">>
Products == INSTANCE TuiProducts WITH Chips <- Aisles

BothInit ==
  /\ focus \in {"searches", "session", "menus", "products", "orders"}
  /\ Init /\ Follow!Init
  /\ Products!Init /\ view.addr = home
  /\ Menus!Init /\ (focus # "menus" => cached = [p \in Places |-> NoDish])

BothNext ==
  \/ focus = "searches" /\ Next /\ session'.lost = 0 /\ screen' # "overlay" /\ UNCHANGED <<focus, menuVars, followVars, shopVars>>
  \/ focus = "session" /\ Next /\ submitted' = NoQuery /\ UNCHANGED <<focus, menuVars, followVars, shopVars>>
  \/ focus = "menus" /\ Menus!Next /\ UNCHANGED <<focus, placesVars, followVars, shopVars>>
  \/ focus = "orders" /\ Follow!Next /\ used'.faults + used'.launches <= 1 /\ UNCHANGED <<focus, placesVars, menuVars, shopVars>>
  \/ focus = "products" /\ Products!Next /\ UNCHANGED <<focus, placesVars, menuVars, followVars>>

BothSpec == BothInit /\ [][BothNext]_<<focus, placesVars, menuVars, followVars, shopVars>>

\* What does not move stays as it was checked in the initial states.
BrowseTypeOK ==
  /\ focus \in {"searches", "session"} => PlacesTypeOK
  /\ focus = "menus" => Menus!MenuTypeOK
  /\ focus = "orders" => Follow!FollowTypeOK
  /\ focus = "products" => Products!ProductTypeOK
ListsLand ==
  /\ focus \in {"searches", "session"} => OneStream /\ NeverHeld
  /\ focus = "products" => Products!RowsAreCurrent /\ Products!LoaderEnds /\ Products!AnswersReplaceCopies
MenuIsOwn == focus = "menus" => Menus!OneMenuOnly /\ Menus!SelectedIsLit
FollowsOnce == focus = "orders" => Follow!FollowsOnce
SlotKeepsLive == Follow!SlotKeepsLive

-----------------------------------------------------------------------------
(* One account with a choice of addresses; one chip, which is also a word to  *)
(* search for; a restaurant whose menu may change between two visits, with    *)
(* pages, categories and names enough for every filter to hide some row.      *)
SomeAddrs == {<<home>>, <<home, work>>}
OneChip == <<"pizza">>
SomeMenus == p1 :> { << <<a1>>, <<a2, a3, a4>> >>, << <<a2>> >> } @@ p2 :> { << <<b1>> >> }
SomeCategories == a1 :> "mains" @@ a2 :> "mains" @@ a3 :> "sweets" @@ a4 :> "mains" @@ b1 :> "mains"
SomeVeg == {a2}
SomeHits == {a2, a4}
=============================================================================
