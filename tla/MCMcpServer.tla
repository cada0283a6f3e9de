---------------------------- MODULE MCMcpServer ----------------------------
(* Small instances of McpServer. *)
EXTENDS McpServer, TLC

CONSTANTS c1, c2, k1, k2, p1, p2, home, work

Basket(rest, items, sels, total) ==
  [rest |-> rest, items |-> items, sels |-> sels, total |-> total,
   soldOut |-> FALSE]

\* Two carts of one restaurant that differ in a customisation only, and one of
\* another restaurant for the same bill.
Plain   == Basket("dosa corner", "masala dosa", "plain", 2)
Ghee    == Basket("dosa corner", "masala dosa", "ghee", 2)
Pizza   == Basket("pizza place", "margherita", "thin", 2)
Milk    == Basket("Instamart", "milk", "", 2)

NoFood      == {}
TwoOutlets  == {Plain, Pizza}
Customised  == {Plain, Ghee}
NoGrocery   == {}
OneGrocery  == {Milk}

\* The tools around payments, those around the food cart, and those one agent mixes.
OrderTools  == {"im_update_cart", "im_prepare_order", "place_order", "check_payment", "confirm_order"}
CartTools   == {"update_cart", "clear_cart", "order_preset", "prepare_order", "place_order",
                "confirm_order"}

\* Slots and ids are interchangeable: nothing orders them.
Names == Permutations(Calls) \cup Permutations(ConfIds) \cup Permutations(PayIds)
=============================================================================
