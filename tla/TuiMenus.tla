------------------------------ MODULE TuiMenus ------------------------------
(* The menu of the restaurant a user has open: pages that stream in behind a  *)
(* copy of the disk (internal/tui/app.go, datasource, catalog/swiggy), and    *)
(* the list on the screen, with its category, vegetarian and search filters,  *)
(* whose cursor row the keys act on (screens/restaurant.go, components/list). *)
(* A page is fetched and merged by one goroutine; the message that tells the  *)
(* interface so is handled later, and other keys and pages come in between.   *)
EXTENDS Viewport, Sequences, FiniteSets, SequencesExt

CONSTANTS
  Places,       \* restaurants
  Served,       \* place -> the menus Swiggy may serve, each a sequence of pages
  CategoryOf,   \* dish -> its category, "" when it has none
  VegDishes,    \* the vegetarian ones
  Hits,         \* the dishes whose name matches what the user types
  SoldOut,      \* the dishes Swiggy marks out of stock
  Rows,         \* listRows: the height of the list
  MaxGen,       \* bound of the menu streams started
  NoDish        \* no dish, no menu

VARIABLES
  screen,       \* "menu" (the browse list, or any screen but the next), "restaurant"
  rest,         \* the restaurant screen
  stream,       \* menuGen, menuLoadingMore, menuPartial, menuStaged
  visible,      \* Snapshot.menus: place -> the dishes of its menu
  staging,      \* Snapshot.stagedMenus
  cached,       \* the menu files of the catalogue cache
  pages         \* page loads whose message is not handled yet

menuVars == <<screen, rest, stream, visible, staging, cached, pages>>

Dishes == DOMAIN CategoryOf
MenuOf(p) == UNION {UNION {ToSet(m[i]) : i \in DOMAIN m} : m \in Served[p]}

-----------------------------------------------------------------------------
(* The list on the screen                                                    *)

\* NewRestaurant: no filter, no search, the cursor on the first row.
NewRestaurant(p, dishes) ==
  [place |-> p, dishes |-> dishes, category |-> "", veg |-> FALSE,
   filter |-> FALSE, searching |-> FALSE, cursor |-> 0, info |-> FALSE,
   more |-> FALSE, partial |-> FALSE]

\* categoryVegItems: the rows before the search.
Listed(r) ==
  SelectSeq(r.dishes, LAMBDA d : /\ r.category \in {"", CategoryOf[d]}
                                 /\ r.veg => d \in VegDishes)

\* visibleIndices: where in Listed the rows the search leaves stand.
Matching(r) ==
  SelectSeq([i \in 1..Len(Listed(r)) |-> i],
            LAMBDA i : r.filter => Listed(r)[i] \in Hits)
Visible(r) == [k \in 1..Len(Matching(r)) |-> Listed(r)[Matching(r)[k]]]

\* Mutant: the position on the screen taken for the position in the menu.
ByPosition(r) ==
  IF r.cursor \in 0..(Len(Matching(r)) - 1) THEN Listed(r)[r.cursor + 1] ELSE NoDish
\* Selected: the dish the keys act on.
Selected(r) ==
  IF r.cursor \in 0..(Len(Matching(r)) - 1)
  THEN Listed(r)[Matching(r)[r.cursor + 1]] ELSE NoDish

\* List.View: the dish on the highlighted row, if that row is painted.
Lit(r) ==
  LET w == Window(r.cursor, Len(Visible(r)), Rows)
  IN  IF r.cursor \in w.from..(Smaller(w.to, Len(Visible(r))) - 1)
      THEN Visible(r)[r.cursor + 1] ELSE NoDish

SetFilter(r, on) ==
  LET s == [r EXCEPT !.filter = on]
  IN  IF s.cursor >= Len(Visible(s)) THEN [s EXCEPT !.cursor = 0] ELSE s

WithCategory(r, c) == SetFilter([r EXCEPT !.category = c, !.cursor = 0], FALSE)
WithVegOnly(r, on) == SetFilter([r EXCEPT !.veg = on, !.cursor = 0], FALSE)

\* Mutant: a dish that a later page repeats is listed twice.
AppendAll(seq, more) == seq \o more
\* MergeMenuPage and Categories keep the first of equal elements, in order.
AppendNew(seq, more) ==
  FoldLeft(LAMBDA acc, x : IF Contains(acc, x) THEN acc ELSE Append(acc, x), seq, more)

\* Categories: "" is All, the first chip of the bar.
Categories(r) ==
  AppendNew(<<"">>, [i \in 1..Len(r.dishes) |-> CategoryOf[r.dishes[i]]])

\* stepCategory: a category the menu no longer has counts as All.
StepCategory(r, d) ==
  LET cats == Categories(r)
      at   == IF Contains(cats, r.category)
              THEN CHOOSE i \in 1..Len(cats) : cats[i] = r.category ELSE 1
  IN  WithCategory(r, cats[Larger(1, Smaller(at + d, Len(cats)))])

\* The screen built anew over other dishes (applyMenuFromRepo, refreshAfterAdd):
\* identity, filters and cursor are carried over, a search is not.
Rebuilt(r, dishes) ==
  [NewRestaurant(r.place, dishes) EXCEPT !.category = r.category, !.veg = r.veg,
     !.info = r.info, !.cursor = r.cursor]

\* applyMenuFromRepo
Applied(r, p, menus, s) ==
  [(IF menus[p] = NoDish THEN r ELSE Rebuilt(r, menus[p]))
     EXCEPT !.more = s.more, !.partial = s.partial]

-----------------------------------------------------------------------------
(* The stream of pages                                                       *)

PageCall(p, n, s) ==
  [place |-> p, page |-> n, gen |-> s.gen, staged |-> s.staged, at |-> "asked"]

\* Enter on a place of the browse list: the screen is opened and startMenuLoad
\* paints a copy of the disk, when there is one no older than its lifetime, and
\* asks for page one. The new generation orphans what is still on its way.
Open(p) ==
  /\ screen = "menu" /\ stream.gen < MaxGen
  /\ \E seeded \in {FALSE} \cup {cached[p] # NoDish} :
       LET s == [gen |-> stream.gen + 1, more |-> TRUE, partial |-> FALSE,
                 staged |-> seeded]
           r == NewRestaurant(p, <<>>)
       IN  /\ stream' = s
           /\ visible' = IF seeded THEN [visible EXCEPT ![p] = cached[p]] ELSE visible
           /\ rest' = IF seeded THEN Applied(r, p, visible', s)
                                ELSE [r EXCEPT !.more = TRUE]
           /\ pages' = pages \cup {PageCall(p, 1, s)}
  /\ screen' = "restaurant"
  /\ UNCHANGED <<staging, cached>>

Landed(c, last) == [c EXCEPT !.at = IF last THEN "last" ELSE "more"]

\* Mutant: the page goes to the restaurant that is open by then.
MergedOpen(menus, c, dishes) ==
  LET old == IF c.page = 1 \/ menus[rest.place] = NoDish THEN <<>> ELSE menus[rest.place]
  IN  [menus EXCEPT ![rest.place] = AppendNew(old, dishes)]
Merged(menus, c, dishes) ==
  LET old == IF c.page = 1 \/ menus[c.place] = NoDish THEN <<>> ELSE menus[c.place]
  IN  [menus EXCEPT ![c.place] = AppendNew(old, dishes)]

\* LoadMenuPage: the page is in the snapshot before the message is handled, and
\* whether or not the stream is still wanted. The menu may have changed since
\* the page before it.
Land(c) ==
  /\ c.at = "asked"
  /\ \E m \in Served[c.place] :
       LET dishes == IF c.page <= Len(m) THEN m[c.page] ELSE <<>>
       IN  /\ IF c.staged
              THEN staging' = Merged(staging, c, dishes) /\ UNCHANGED visible
              ELSE visible' = Merged(visible, c, dishes) /\ UNCHANGED staging
           /\ pages' = (pages \ {c}) \cup {Landed(c, c.page >= Len(m))}
  /\ UNCHANGED <<screen, rest, stream, cached>>

Fail(c) ==
  /\ c.at = "asked"
  /\ pages' = (pages \ {c}) \cup {[c EXCEPT !.at = "failed"]}
  /\ UNCHANGED <<screen, rest, stream, visible, staging, cached>>

DropStaged(p) == staging' = [staging EXCEPT ![p] = NoDish]

\* A page of a stream that was started anew is dropped, and so is one that found
\* no session: it raises the authorize gate, which is not modelled here.
Ignore(c) ==
  /\ c.at # "asked"
  /\ c.at = "failed" \/ c.gen # stream.gen
  /\ pages' = pages \ {c}
  /\ UNCHANGED <<screen, rest, stream, visible, staging, cached>>

\* Is this page for the restaurant that is on the screen?
Wanted(c) == screen = "restaurant" /\ rest.place = c.place

Answers(c) == c.at \in {"more", "last", "failed"} /\ c.gen = stream.gen

\* The user has left: the stream ends here.
Abandon(c) ==
  /\ Answers(c) /\ ~Wanted(c)
  /\ DropStaged(c.place)
  /\ pages' = pages \ {c}
  /\ UNCHANGED <<screen, rest, stream, visible, cached>>

\* What has landed stays on the screen, with a note that dishes may be missing.
BreakOff(c) ==
  /\ Answers(c) /\ Wanted(c) /\ c.at = "failed"
  /\ stream' = [stream EXCEPT !.more = FALSE, !.staged = FALSE,
                  !.partial = c.page > 1 \/ stream.staged]
  /\ DropStaged(c.place)
  /\ rest' = Applied(rest, c.place, visible, stream')
  /\ pages' = pages \ {c}
  /\ UNCHANGED <<screen, visible, cached>>

\* PromoteStagedMenu
Promoted(p) ==
  IF stream.staged /\ staging[p] # NoDish
  THEN [visible EXCEPT ![p] = staging[p]] ELSE visible

\* The last page: the staged copy takes the place of the seed, and the menu is
\* saved for the next visit.
Complete(c) ==
  /\ Answers(c) /\ Wanted(c) /\ c.at = "last"
  /\ stream' = [stream EXCEPT !.more = FALSE, !.staged = FALSE]
  /\ visible' = Promoted(c.place)
  /\ IF stream.staged THEN DropStaged(c.place) ELSE UNCHANGED staging
  /\ rest' = Applied(rest, c.place, visible', stream')
  /\ cached' = IF visible'[c.place] \in {NoDish, <<>>} THEN cached
               ELSE [cached EXCEPT ![c.place] = visible'[c.place]]
  /\ pages' = pages \ {c}
  /\ UNCHANGED <<screen>>

\* A page between: painted when nothing was seeded; the next one is asked for.
Continue(c) ==
  /\ Answers(c) /\ Wanted(c) /\ c.at = "more"
  /\ rest' = IF stream.staged THEN rest ELSE Applied(rest, c.place, visible, stream)
  /\ pages' = (pages \ {c}) \cup {PageCall(c.place, c.page + 1, stream)}
  /\ UNCHANGED <<screen, stream, visible, staging, cached>>

-----------------------------------------------------------------------------
(* The keys                                                                  *)

Screen == <<stream, visible, staging, cached, pages>>
OnRest == screen = "restaurant"
Browsing == OnRest /\ ~rest.searching /\ ~rest.info
Shows(r) == rest' = r /\ UNCHANGED <<screen>> /\ UNCHANGED Screen

\* The arrows move in all three modes: list, search input and detail modal.
Move ==
  /\ OnRest
  /\ \E d \in {-1, 1} :
       LET to == rest.cursor + d
       IN  to \in 0..(Len(Visible(rest)) - 1) /\ Shows([rest EXCEPT !.cursor = to])

Slash == Browsing /\ Shows([rest EXCEPT !.searching = TRUE])

\* Typing and erasing the search term; enter keeps it, esc drops it.
Search ==
  /\ OnRest /\ rest.searching
  /\ \E on \in BOOLEAN :
       Shows([SetFilter(rest, on) EXCEPT !.searching = TRUE])
EndSearch ==
  /\ OnRest /\ rest.searching
  /\ \E keep \in BOOLEAN :
       Shows([(IF keep THEN rest ELSE SetFilter(rest, FALSE)) EXCEPT !.searching = FALSE])

ToggleInfo ==
  /\ OnRest /\ ~rest.searching
  /\ Shows([rest EXCEPT !.info = ~rest.info])

Filter ==
  /\ Browsing
  /\ \/ \E d \in {-1, 1} : Shows(StepCategory(rest, d))
     \/ Shows(WithVegOnly(rest, ~rest.veg))

\* Esc clears a committed search before it leaves.
Back ==
  /\ Browsing
  /\ IF rest.filter
     THEN Shows([SetFilter(rest, FALSE) EXCEPT !.searching = FALSE])
     ELSE /\ screen' = "menu"
          /\ UNCHANGED <<rest>> /\ UNCHANGED Screen

\* "c": the cart is another screen, and it closes onto the browse list.
OpenCart ==
  /\ Browsing
  /\ screen' = "menu"
  /\ UNCHANGED <<rest>> /\ UNCHANGED Screen

\* restIncSelected of a dish that is in stock and without options, over a cart
\* of the same restaurant or none (the others end in a modal, and the lines are
\* those of TuiCart): refreshAfterAdd shows the quantity.
Inc ==
  /\ Browsing
  /\ Selected(rest) \notin SoldOut \cup {NoDish}
  /\ Shows(Rebuilt(rest, rest.dishes))

\* restDecSelected, and rollbackCart after a write Swiggy refused.
LinesChange ==
  /\ OnRest
  /\ Shows(Rebuilt(rest, rest.dishes))

-----------------------------------------------------------------------------

\* The menu file of an earlier session, if there is one: the pages of a menu as it was
\* then, merged one after the other.
Saved(p) == {NoDish} \cup {FoldLeft(AppendNew, <<>>, m) : m \in Served[p]}

Init ==
  /\ screen = "menu" /\ rest = NewRestaurant(CHOOSE p \in Places : TRUE, <<>>)
  /\ stream = [gen |-> 0, more |-> FALSE, partial |-> FALSE, staged |-> FALSE]
  /\ visible = [p \in Places |-> NoDish]
  /\ staging = [p \in Places |-> NoDish]
  /\ cached \in [Places -> UNION {Saved(p) : p \in Places}]
  /\ \A p \in Places : cached[p] \in Saved(p)
  /\ pages = {}

Next ==
  \/ \E p \in Places : Open(p)
  \/ \E c \in pages :
       \/ Land(c) \/ Fail(c) \/ Ignore(c) \/ Abandon(c)
       \/ BreakOff(c) \/ Complete(c) \/ Continue(c)
  \/ Move \/ Slash \/ Search \/ EndSearch \/ ToggleInfo \/ Filter
  \/ Back \/ OpenCart \/ Inc \/ LinesChange

MenuSpec == Init /\ [][Next]_menuVars

-----------------------------------------------------------------------------
(* Properties                                                                *)

IsMenu(s) == s = NoDish \/ (ToSet(s) \subseteq Dishes /\ IsInjective(s))

\* Every variable keeps to its domain.
MenuTypeOK ==
  /\ screen \in {"menu", "restaurant"}
  /\ rest.place \in Places /\ IsMenu(rest.dishes)
  /\ rest.category \in {""} \cup {CategoryOf[d] : d \in Dishes}
  /\ {rest.veg, rest.filter, rest.searching, rest.info, rest.more, rest.partial} \subseteq BOOLEAN
  /\ rest.cursor \in Nat
  /\ stream.gen \in 0..MaxGen /\ {stream.more, stream.partial, stream.staged} \subseteq BOOLEAN
  /\ \A p \in Places : IsMenu(visible[p]) /\ IsMenu(staging[p]) /\ IsMenu(cached[p])
  /\ \A c \in pages : /\ c.place \in Places /\ c.page \in Nat \ {0} /\ c.gen \in 1..MaxGen
                      /\ c.at \in {"asked", "more", "last", "failed"}

\* The screen of a restaurant shows dishes of that restaurant only (what is
\* added from it goes into the cart under its id), in whatever order pages of this and of earlier visits
\* land and their messages are handled.
OneMenuOnly == ToSet(rest.dishes) \subseteq MenuOf(rest.place)

\* The dish the keys act on is the one that is painted under the cursor,
\* whatever filters are on and however the menu has changed under it.
SelectedIsLit == OnRest => Selected(rest) = Lit(rest)

\* A test (tui/app_test.go:444) has it that adding a dish does not move the
\* cursor off it.
AddKeepsSelection == [][Inc => Selected(rest') = Selected(rest)]_menuVars
=============================================================================
