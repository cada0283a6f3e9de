----------------------------- MODULE TuiProducts -----------------------------
(* Browsing Instamart in the terminal interface (internal/tui/app.go): the    *)
(* rail of search and categories, the search box, the lists of products per   *)
(* address and query with their copies on disk, and the calls that fetch      *)
(* them. What a list holds is abstracted to whether it is Swiggy's answer or  *)
(* the copy of an earlier one. The cart is TuiInstamart.                      *)
EXTENDS Naturals, Sequences

CONSTANTS
  Homes,        \* the addresses of the account
  Chips,        \* the categories, a sequence of queries
  Words,        \* what a user may search for: the words of a category too
  NoQuery,      \* the empty query
  MaxLoads,     \* bound of the calls made
  MaxLost       \* bound of the calls that find no session

VARIABLES
  view,         \* the screen, m.addr, the auth gate and the rows that m.inst shows
  column,       \* imRailActive, imRailFocus, imRailSettlePending
  box,          \* imSearchMode, imSearchQuery, imSearchSubmitted
  aisle,        \* imQuery, imPending, imLoadedQueries
  shelf,        \* Snapshot.instamart: what is stored by address and query
  loads,        \* the calls of LoadIMProducts under way
  past          \* for the bounds, and whether the last call for a list succeeded

productVars == <<view, column, box, aisle, shelf, loads, past>>

Queries == {Chips[i] : i \in DOMAIN Chips} \cup Words
Search == 0

Init ==
  /\ \E a \in Homes : view = [where |-> "away", addr |-> a, gate |-> FALSE, shown |-> <<a, NoQuery>>]
  /\ column = [active |-> 1, focus |-> TRUE, settle |-> FALSE]
  /\ box = [on |-> FALSE, text |-> NoQuery, submitted |-> NoQuery]
  /\ aisle = [query |-> NoQuery, pending |-> FALSE, loaded |-> {}]
  /\ shelf = [a \in Homes |-> [q \in Queries |-> "none"]]
  /\ loads = {}
  /\ past = [made |-> 0, lost |-> 0, well |-> [a \in Homes |-> [q \in Queries |-> FALSE]]]

-----------------------------------------------------------------------------
(* Asking for a list                                                          *)

Load(a, q) ==
  [id |-> CHOOSE i \in 1..MaxLoads : \A c \in loads : c.id # i, addr |-> a, query |-> q, at |-> "asked"]

\* SeedIMFromCache and LoadIMProducts: the copy on disk, if there is one, replaces
\* what is stored; the call goes out in either case.
Fetch(a, q) ==
  /\ past.made < MaxLoads
  /\ \E copy \in BOOLEAN :
       /\ shelf' = IF copy THEN [shelf EXCEPT ![a][q] = "copy"] ELSE shelf
       /\ aisle' = [query |-> q, pending |-> ~copy, loaded |-> aisle.loaded \cup {q}]
  /\ loads' = loads \cup {Load(a, q)} /\ past' = [past EXCEPT !.made = @ + 1]

\* Mutant: the copy is painted before it is known whether the list is there already.
EnsureSeeding(q) ==
  IF q \in aisle.loaded
  THEN /\ aisle' = [aisle EXCEPT !.query = q, !.pending = FALSE]
       /\ \E copy \in BOOLEAN : shelf' = IF copy THEN [shelf EXCEPT ![view.addr][q] = "copy"] ELSE shelf
       /\ UNCHANGED <<loads, past>>
  ELSE Fetch(view.addr, q)
\* ensureIMQuery: a query is asked for once, however the call ends.
Ensure(q) ==
  IF q \in aisle.loaded
  THEN aisle' = [aisle EXCEPT !.query = q, !.pending = FALSE] /\ UNCHANGED <<shelf, loads, past>>
  ELSE Fetch(view.addr, q)

\* loadForIMRail; it ends a search.
LoadRail(active) ==
  IF active = Search THEN UNCHANGED <<aisle, shelf, loads, past>> ELSE Ensure(Chips[active])

Stays == UNCHANGED <<aisle, shelf, loads, past>>
\* buildInstamart, refreshInstamart: the rows of the address and query there are by now.
Rebuilt(v, q) == [v EXCEPT !.shown = <<v.addr, q>>]
Paint == view' = Rebuilt(view, aisle'.query)

-----------------------------------------------------------------------------
(* Coming, going and the address                                              *)

Keys == ~view.gate
Here == Keys /\ view.where = "instamart"

\* imEnterCmd, at the address v has: the first category, whatever was there.
Entered(v) ==
  /\ column' = [column EXCEPT !.active = 1, !.focus = TRUE]
  /\ box' = [box EXCEPT !.on = FALSE, !.submitted = NoQuery]
  /\ Fetch(v.addr, Chips[1])
  /\ view' = Rebuilt([v EXCEPT !.where = "instamart"], Chips[1])

Enter == Keys /\ view.where = "away" /\ Entered(view)

\* Tab and Esc from the products; Tab from the rail, where the search box may be open.
Leave ==
  /\ Here /\ (column.focus \/ ~box.on)
  /\ view' = [view EXCEPT !.where = "away"] /\ column' = [column EXCEPT !.focus = FALSE]
  /\ UNCHANGED box /\ Stays

\* "c": the cart; back from it, or on to the browse screen by way of an order.
Checkout ==
  /\ Here /\ (column.focus => column.active # Search) /\ (column.focus \/ ~box.on)
  /\ view' = [view EXCEPT !.where = "checkout"] /\ column' = [column EXCEPT !.focus = FALSE]
  /\ UNCHANGED box /\ Stays

Back ==
  /\ Keys /\ view.where = "checkout"
  /\ view' \in {Rebuilt([view EXCEPT !.where = "instamart"], aisle.query), [view EXCEPT !.where = "away"]}
  /\ UNCHANGED <<column, box>> /\ Stays

\* "a" and the picker, from the products or from another screen: lists are asked for
\* once by address.
Picker ==
  /\ Here /\ (column.focus => column.active # Search) /\ (column.focus \/ ~box.on)
  /\ view' = [view EXCEPT !.where = "picker"] /\ column' = [column EXCEPT !.focus = FALSE]
  /\ UNCHANGED box /\ Stays

Pick(a) ==
  /\ Keys /\ view.where = "picker"
  /\ IF a = view.addr THEN view' = [view EXCEPT !.where = "instamart"] /\ UNCHANGED <<column, box>> /\ Stays
     ELSE /\ column' = [column EXCEPT !.active = 1, !.focus = TRUE]
          /\ box' = [box EXCEPT !.on = FALSE, !.submitted = NoQuery]
          /\ past.made < MaxLoads
          /\ \E copy \in BOOLEAN :
               /\ shelf' = IF copy THEN [shelf EXCEPT ![a][Chips[1]] = "copy"] ELSE shelf
               /\ aisle' = [query |-> Chips[1], pending |-> ~copy, loaded |-> {Chips[1]}]
          /\ loads' = loads \cup {Load(a, Chips[1])} /\ past' = [past EXCEPT !.made = @ + 1]
          /\ view' = [view EXCEPT !.where = "instamart", !.addr = a, !.shown = <<a, Chips[1]>>]

PickElsewhere(a) ==
  /\ Keys /\ view.where = "away" /\ a # view.addr
  /\ view' = [view EXCEPT !.addr = a] /\ aisle' = [aisle EXCEPT !.loaded = {}]
  /\ UNCHANGED <<column, box, shelf, loads, past>>

-----------------------------------------------------------------------------
(* The search box                                                             *)

\* "/" opens the box on what was searched last.
Slash ==
  /\ Here /\ ~box.on
  /\ column' = [column EXCEPT !.active = Search, !.focus = FALSE]
  /\ box' = [box EXCEPT !.on = TRUE, !.text = box.submitted]
  /\ view' = Rebuilt(view, aisle.query) /\ Stays

Editing == Here /\ box.on /\ ~column.focus

\* Typing on the Search entry of the rail opens the box as well.
Write ==
  /\ Here
  /\ \/ box.on /\ ~column.focus /\ UNCHANGED <<column, view>> /\ \E w \in Words \cup {NoQuery} : box' = [box EXCEPT !.text = w]
     \/ /\ column.focus /\ column.active = Search /\ column' = [column EXCEPT !.focus = FALSE]
        /\ \E w \in Words : box' = [box EXCEPT !.on = TRUE, !.text = w]
        /\ view' = Rebuilt(view, aisle.query)
  /\ Stays

Submit ==
  /\ Editing /\ box.text # NoQuery
  /\ box' = [box EXCEPT !.on = FALSE, !.submitted = box.text]
  /\ Fetch(view.addr, box.text)
  /\ Paint /\ UNCHANGED column

\* Esc leaves the search for the first category.
EscSearch ==
  /\ Editing
  /\ box' = [on |-> FALSE, text |-> NoQuery, submitted |-> NoQuery]
  /\ column' = [column EXCEPT !.active = 1, !.focus = TRUE]
  /\ Ensure(Chips[1]) /\ Paint

-----------------------------------------------------------------------------
(* The rail                                                                   *)
OnRail == Here /\ column.focus

\* syncIMSearchEntry: the Search entry opens a box, leaving it closes the box.
Synced(active) == IF active = Search THEN [box EXCEPT !.on = TRUE, !.text = NoQuery] ELSE [box EXCEPT !.on = FALSE]

\* The load of the entry waits until the cursor rests.
Move(active) ==
  /\ OnRail /\ active \in Search..Len(Chips) /\ active \in {column.active - 1, column.active + 1}
  /\ column' = [column EXCEPT !.active = active, !.settle = TRUE]
  /\ box' = Synced(active)
  /\ view' = Rebuilt(view, aisle.query) /\ Stays

Open ==
  /\ OnRail
  /\ column' = [column EXCEPT !.focus = FALSE, !.settle = FALSE]
  /\ IF column.active = Search THEN box' = [box EXCEPT !.on = TRUE, !.text = NoQuery] /\ Stays
     ELSE box' = [box EXCEPT !.on = FALSE, !.submitted = NoQuery] /\ LoadRail(column.active)
  /\ Paint

Focus ==
  /\ Here /\ \/ column.focus
             \/ ~column.focus /\ ~box.on
  /\ column' = [column EXCEPT !.focus = ~@]
  /\ view' = Rebuilt(view, aisle.query) /\ UNCHANGED box /\ Stays

\* settledIMRailLoad, at a tick on any screen: who has left the rail is not asked again.
Settle ==
  /\ column.settle /\ column' = [column EXCEPT !.settle = FALSE]
  /\ IF view.where = "instamart" /\ column.focus
     THEN box' = [box EXCEPT !.submitted = NoQuery] /\ LoadRail(column.active) /\ Paint
     ELSE UNCHANGED <<box, view>> /\ Stays

-----------------------------------------------------------------------------
(* Answers                                                                    *)

\* LoadIMProducts stores the list of its own address and query, then tells the screen.
Land(c) ==
  /\ c.at = "asked"
  /\ \/ /\ shelf' = [shelf EXCEPT ![c.addr][c.query] = "answer"]
        /\ loads' = (loads \ {c}) \cup {[c EXCEPT !.at = "done"]}
        /\ past' = [past EXCEPT !.well[c.addr][c.query] = TRUE]
     \/ /\ loads' = (loads \ {c}) \cup {[c EXCEPT !.at = "failed"]}
        /\ past' = [past EXCEPT !.well[c.addr][c.query] = FALSE] /\ UNCHANGED shelf
     \/ /\ past.lost < MaxLost
        /\ loads' = (loads \ {c}) \cup {[c EXCEPT !.at = "unauthorised"]}
        /\ past' = [past EXCEPT !.well[c.addr][c.query] = FALSE, !.lost = @ + 1] /\ UNCHANGED shelf
  /\ UNCHANGED <<view, column, box, aisle>>

\* IMProductsLoadedMsg says for which query, not for which address.
Told(c) ==
  /\ c \in loads /\ c.at \in {"done", "failed", "unauthorised"} /\ loads' = loads \ {c}
  /\ CASE c.at = "unauthorised" -> view' = [view EXCEPT !.gate = TRUE] /\ UNCHANGED aisle
       [] c.at # "unauthorised" /\ c.query # aisle.query -> UNCHANGED <<view, aisle>>
       [] c.at # "unauthorised" /\ c.query = aisle.query ->
            /\ aisle' = [aisle EXCEPT !.pending = FALSE]
            /\ view' = IF c.at = "done" THEN Rebuilt(view, aisle.query) ELSE view
  /\ UNCHANGED <<column, box, shelf, past>>

\* The user signs in again: the addresses are read again and the first is adopted.
SignIn(a) ==
  /\ view.gate /\ view' = [view EXCEPT !.gate = FALSE, !.addr = a]
  /\ UNCHANGED <<column, box, aisle, shelf, loads, past>>

Next ==
  \/ Enter \/ Leave \/ Checkout \/ Back \/ Picker \/ \E a \in Homes : Pick(a) \/ PickElsewhere(a) \/ SignIn(a)
  \/ Slash \/ Write \/ Submit \/ EscSearch
  \/ \E i \in Search..Len(Chips) : Move(i)
  \/ Open \/ Focus \/ Settle
  \/ \E c \in loads : Land(c) \/ Told(c)

ProductSpec == Init /\ [][Next]_productVars
-----------------------------------------------------------------------------
ProductTypeOK ==
  /\ view.where \in {"away", "instamart", "checkout", "picker"} /\ view.addr \in Homes
  /\ column.active \in Search..Len(Chips)
  /\ {box.text, box.submitted, aisle.query} \subseteq Queries \cup {NoQuery} /\ aisle.loaded \subseteq Queries
  /\ \A a \in Homes, q \in Queries : shelf[a][q] \in {"none", "copy", "answer"}

\* The rows on the Instamart screen are those of the address and the query it is at,
\* whatever landed or was chosen meanwhile, as long as no session was lost: a row is
\* added to the cart of that address.
RowsAreCurrent == view.where = "instamart" /\ past.lost = 0 => view.shown = <<view.addr, aisle.query>>

\* A loading scene has a call behind it that will end it.
LoaderEnds == aisle.pending /\ past.lost = 0 => \E c \in loads : c.query = aisle.query

\* A copy from the disk is what is stored only until a call for that list has
\* succeeded: no seed outlives the answer that was to replace it.
AnswersReplaceCopies ==
  \A a \in Homes, q \in Queries :
    past.well[a][q] /\ (\A c \in loads : ~(c.addr = a /\ c.query = q /\ c.at = "asked")) => shelf[a][q] # "copy"

\* TLC refutes this: "queries that have received a LIVE IMProducts load" (app.go:283).
\* A query is marked when it is asked for: a category whose call failed is not asked for
\* again before the screen is entered anew.
LoadedMeansAnswered ==
  \A q \in aisle.loaded : past.well[view.addr][q] \/ \E c \in loads : c.addr = view.addr /\ c.query = q

\* TLC refutes this: the category that is lit is the one that is listed. Leaving the
\* rail within 0.3 s drops the load that was armed for it.
LitIsListed == view.where = "instamart" /\ column.active # Search /\ ~column.settle => aisle.query = Chips[column.active]

\* TLC refutes this: "typingInSearch reports whether an editable search box currently
\* has focus" (app.go:5615). Tab from the Search entry of the rail leaves the box open
\* behind another screen, where ":" and "?" are then taken for words typed into it.
BoxIsOnScreen == box.on => view.where # "away"

\* TLC refutes this: an empty list without a loading scene has no call under way. The
\* answer for the address before this one ends the scene of the same query.
EmptyMeansAnswered ==
  view.where = "instamart" /\ ~aisle.pending /\ past.lost = 0 /\ aisle.query # NoQuery
    /\ shelf[view.addr][aisle.query] = "none"
  => \A c \in loads : c.addr = view.addr /\ c.query = aisle.query => c.at # "asked"
=============================================================================
