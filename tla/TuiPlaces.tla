------------------------------ MODULE TuiPlaces ------------------------------
(* The browse screen of the terminal interface before a restaurant is opened *)
(* (internal/tui/app.go): the delivery address and its gate, the rail with    *)
(* search, home and the categories, and the restaurant lists that stream in   *)
(* per address and query behind a copy of the disk. What a list holds is      *)
(* abstracted to how much of it is there.                                     *)
EXTENDS Integers, Sequences, FiniteSets

CONSTANTS
  AddrLists,    \* what get_addresses may answer, each a sequence of addresses
  Chips,        \* the categories, a sequence of queries; the first one also fills Home
  Words,        \* what a user may search for
  MaxGen,       \* bound of the list streams started
  MaxCalls,     \* bound of the calls under way
  MaxLost,      \* bound of the calls that find no session
  NoAddr,       \* no address chosen yet
  NoQuery       \* the empty query

VARIABLES
  screen,       \* "splash", "menu", "overlay" (help or news over the menu), "away"
  session,      \* needsAuth, and how often a session was lost
  addr,         \* m.addr
  gate,         \* addrGatePending and the forced picker
  known,        \* Snapshot.addresses, loaded or not
  rail,         \* railActive, railFocus, railSettlePending
  submitted,    \* searchSubmitted
  browse        \* the lists, what is known of them, and the calls for them

placesVars == <<screen, session, addr, gate, known, rail, submitted, browse>>

Addrs == UNION {{l[i] : i \in DOMAIN l} : l \in AddrLists}
Cats == {Chips[i] : i \in DOMAIN Chips}

\* Home is filled by a category.
ASSUME PlacesAssumption == AddrLists \subseteq Seq(Addrs) /\ Chips \in Seq(Cats) /\ Len(Chips) > 0

HomeQuery == Chips[1]
\* SearchKey: a search for the words of a category is a list of its own.
Category(q) == <<"category", q>>
SearchKey(w) == <<"search", w>>
Keys == {Category(q) : q \in Cats} \cup {SearchKey(w) : w \in Words}
Home == 1
RailLen == Len(Chips) + 2
OnSearch == rail.active = 0
QueryOf(i) == Chips[i - 1]

-----------------------------------------------------------------------------
(* The lists. `b` is the value of browse: the generation, which queries are   *)
(* seeded from disk and not yet live, whether the launch loads wait, the lists *)
(* and the calls under way. The loading cues of the screen are left out.      *)

Empty(b, a, k) == a = NoAddr \/ b.lists[a][k] = "none"
Put(b, a, k, how) == [b EXCEPT !.lists[a][k] = how]
Calling(b, c) == [b EXCEPT !.calls = @ \cup {c}]

PlacesCall(a, q, n, g) ==
  [kind |-> "page", addr |-> a, query |-> q, page |-> n, gen |-> g, at |-> "asked"]
SearchCall(a, w) ==
  [kind |-> "search", addr |-> a, query |-> w, page |-> 1, gen |-> 0, at |-> "asked"]
AddressCall ==
  [kind |-> "addresses", addr |-> NoAddr, query |-> NoQuery, page |-> 1, gen |-> 0, at |-> "asked"]

\* seedPlacesFromCache: a copy no older than its lifetime may be on the disk.
Seeded(b, a, q, copy) ==
  IF copy /\ a # NoAddr /\ Empty(b, a, Category(q))
  THEN [Put(b, a, Category(q), "seed") EXCEPT !.seeded = @ \cup {q}] ELSE b

\* Mutant: the new stream takes the number of the one before it.
StartAlike(b, a, q, copy) ==
  Calling(Seeded([b EXCEPT !.gen = @], a, q, copy), PlacesCall(a, q, 1, b.gen))
\* startPlacesLoad
Start(b, a, q, copy) ==
  LET n == [Seeded(b, a, q, copy) EXCEPT !.gen = @ + 1]
  IN  Calling(n, PlacesCall(a, q, 1, n.gen))

\* ensureQuery: a list that is there and not marked as a seed is not asked for.
Fetched(b, a, q) == ~Empty(b, a, Category(q)) /\ q \notin b.seeded
EnsureQuery(b, a, q, copy) == IF Fetched(b, a, q) THEN b ELSE Start(b, a, q, copy)

\* ensureHomeLoaded; the usuals, a list of its own, are left out.
EnsureHome(b, a, copy) ==
  IF a = NoAddr \/ Fetched(b, a, HomeQuery) THEN b ELSE Start(b, a, HomeQuery, copy)

\* Mutant: the launch loads wait although nothing will release them.
LoadHomeWaiting(b, a, copy) ==
  [EnsureHome(b, a, copy) EXCEPT !.waiting = TRUE]
\* loadHomeForCurrentAddr: the cart, the orders and the usuals wait for the
\* first page of the list, if one was asked for; else they go out at once, and
\* what an earlier address left waiting only repeats them.
LoadHome(b, a, copy) ==
  IF Fetched(b, a, HomeQuery) THEN [b EXCEPT !.waiting = FALSE]
  ELSE [Start(b, a, HomeQuery, copy) EXCEPT !.waiting = TRUE]

\* loadForRail
LoadForRail(b, a, i, copy) ==
  CASE i = 0    -> b
    [] i = Home -> EnsureHome(b, a, copy)
    [] OTHER    -> EnsureQuery(b, a, QueryOf(i), copy)

\* The map that says what is a seed is of one address, the lists of all.
Forget(b) == [b EXCEPT !.seeded = {}]

-----------------------------------------------------------------------------
(* Calls and their messages                                                  *)

Within(b) == b.gen <= MaxGen /\ Cardinality(b.calls) <= MaxCalls
Landed(c, at) == [browse EXCEPT !.calls = (@ \ {c}) \cup {[c EXCEPT !.at = at]}]
Handled(c) == [browse EXCEPT !.calls = @ \ {c}]

\* LoadPlacesPage, LoadSearch: the list is in the snapshot under the address the
\* call was made for, before the message is handled. Swiggy answers no search
\* without an address.
Land(c) ==
  /\ c.at = "asked" /\ c.kind \in {"page", "search"} /\ c.addr # NoAddr
  /\ LET key == IF c.kind = "search" THEN SearchKey(c.query) ELSE Category(c.query)
     IN  \/ c.page = 1 /\ browse' = Put(Landed(c, "done"), c.addr, key, "none")
         \/ browse' = Put(Landed(c, "done"), c.addr, key, "all")
         \/ c.kind = "page" /\ c.page = 1
            /\ browse' = Put(Landed(c, "more"), c.addr, key, "part")
  /\ UNCHANGED <<screen, session, addr, gate, known, rail, submitted>>

LandAddresses(c) ==
  /\ c.at = "asked" /\ c.kind = "addresses"
  /\ known' \in AddrLists
  /\ browse' = Landed(c, "done")
  /\ UNCHANGED <<screen, session, addr, gate, rail, submitted>>

Fail(c) ==
  /\ c.at = "asked"
  /\ \/ browse' = Landed(c, "failed") /\ UNCHANGED session
     \/ /\ session.lost < MaxLost
        /\ session' = [session EXCEPT !.lost = @ + 1]
        /\ browse' = Landed(c, "unauthorised")
  /\ UNCHANGED <<screen, addr, gate, known, rail, submitted>>

\* enterAuthGate: the gate takes the keys, what waits goes on waiting.
Unauthorised(c) ==
  /\ c.at = "unauthorised"
  /\ session' = [session EXCEPT !.needsAuth = TRUE]
  /\ browse' = Handled(c)
  /\ UNCHANGED <<screen, addr, gate, known, rail, submitted>>

\* maybeOpenAddrGate, asked in a state with this screen and these addresses.
MaybeGate(scr, as, loaded, b) ==
  IF gate # "pending" \/ scr # "menu" \/ ~loaded
  THEN browse' = b /\ UNCHANGED <<addr, gate>>
  ELSE \/ /\ Len(as) = 0
          /\ gate' = "passed" /\ browse' = b /\ UNCHANGED addr
       \/ /\ Len(as) = 1
          /\ gate' = "passed" /\ addr' = as[1]
          /\ \E copy \in BOOLEAN : browse' = LoadHome(b, as[1], copy)
          /\ Within(browse')
       \/ /\ Len(as) > 1
          /\ gate' = "picker" /\ browse' = b /\ UNCHANGED addr

\* AddressesLoadedMsg. With the gate behind it, the first address is adopted
\* and Home is loaded for it.
Addresses(c) ==
  /\ c.kind = "addresses" /\ c.at \in {"done", "failed"}
  /\ LET b == [Handled(c) EXCEPT !.addressesLoaded = TRUE]
     IN  IF gate # "passed"
         THEN MaybeGate(screen, known, TRUE, b)
         ELSE LET a == IF known = <<>> THEN addr ELSE known[1]
              IN  /\ addr' = a /\ UNCHANGED gate
                  /\ \E copy \in BOOLEAN : browse' = LoadHome(b, a, copy)
                  /\ Within(browse')
  /\ UNCHANGED <<screen, session, known, rail, submitted>>

\* PlacesPageLoadedMsg. Any page releases the launch loads; one of a stream
\* that was started anew does nothing else.
Page(c) ==
  /\ c.kind = "page" /\ c.at \in {"done", "more", "failed"}
  /\ LET b    == [Handled(c) EXCEPT !.waiting = FALSE]
         more == c.at = "more" /\ c.page < 2 /\ ~(addr # NoAddr /\ b.lists[addr][Category(c.query)] = "all")
         n    == IF c.page = 1 /\ c.at # "failed" THEN [b EXCEPT !.seeded = @ \ {c.query}] ELSE b
     IN  browse' = IF c.gen # b.gen THEN b
                   ELSE IF more THEN Calling(n, PlacesCall(addr, c.query, c.page + 1, n.gen))
                   ELSE n
  /\ UNCHANGED <<screen, session, addr, gate, known, rail, submitted>>

\* PlacesLoadedMsg of a search moves loading cues only.
Results(c) ==
  /\ c.kind = "search" /\ c.at \in {"done", "failed"}
  /\ browse' = Handled(c)
  /\ UNCHANGED <<screen, session, addr, gate, known, rail, submitted>>

-----------------------------------------------------------------------------
(* Keys                                                                      *)

Idle == ~session.needsAuth /\ gate # "picker"
OnMenu == Idle /\ screen = "menu"
OnRail == OnMenu /\ rail.focus
InSearch == OnMenu /\ OnSearch /\ ~rail.focus
InList == OnMenu /\ ~OnSearch /\ ~rail.focus
Place == <<session, addr, gate, known>>
Entered(i) == IF i = 0 THEN NoQuery ELSE submitted

\* The rail loads nothing until its cursor has rested.
RailMove ==
  /\ OnRail
  /\ \E d \in {-1, 1} :
       /\ rail.active + d \in 0..(RailLen - 1)
       /\ rail' = [rail EXCEPT !.active = @ + d, !.settle = TRUE]
       /\ submitted' = Entered(rail.active + d)
  /\ UNCHANGED <<screen, browse>> /\ UNCHANGED Place

\* settledRailLoad: dropped when the rail has lost the focus by then.
Settle ==
  /\ rail.settle
  /\ rail' = [rail EXCEPT !.settle = FALSE]
  /\ IF screen \in {"menu", "overlay"} /\ rail.focus
     THEN \E copy \in BOOLEAN : browse' = LoadForRail(browse, addr, rail.active, copy)
     ELSE UNCHANGED browse
  /\ Within(browse')
  /\ UNCHANGED <<screen, submitted>> /\ UNCHANGED Place

RailEnter ==
  /\ OnRail
  /\ rail' = [rail EXCEPT !.settle = FALSE, !.focus = FALSE]
  /\ \E copy \in BOOLEAN : browse' = LoadForRail(browse, addr, rail.active, copy)
  /\ Within(browse')
  /\ UNCHANGED <<screen, submitted>> /\ UNCHANGED Place

\* right, l, esc from the rail; left from the list or from the search input.
Focus ==
  /\ OnMenu
  /\ rail' = [rail EXCEPT !.focus = ~@]
  /\ UNCHANGED <<screen, submitted, browse>> /\ UNCHANGED Place

Slash ==
  /\ OnMenu /\ ~OnSearch
  /\ rail' = [rail EXCEPT !.active = 0, !.focus = FALSE]
  /\ submitted' = Entered(0)
  /\ UNCHANGED <<screen, browse>> /\ UNCHANGED Place

\* Typing on the rail, when it stands on search; the words are data.
Type ==
  /\ OnRail /\ OnSearch
  /\ rail' = [rail EXCEPT !.focus = FALSE]
  /\ UNCHANGED <<screen, submitted, browse>> /\ UNCHANGED Place

\* Enter on words that were not submitted yet; a search that is there is not
\* made again.
Submit ==
  /\ InSearch
  /\ \E w \in Words \ {submitted} :
       LET there == ~Empty(browse, addr, SearchKey(w))
       IN  /\ submitted' = w
           /\ browse' = IF there THEN browse ELSE Calling(browse, SearchCall(addr, w))
           /\ Within(browse')
  /\ UNCHANGED <<screen, rail>> /\ UNCHANGED Place

LeaveSearch ==
  /\ InSearch
  /\ submitted' = NoQuery
  /\ rail' = [rail EXCEPT !.active = Home, !.focus = TRUE]
  /\ \E copy \in BOOLEAN : browse' = EnsureHome(browse, addr, copy)
  /\ Within(browse')
  /\ UNCHANGED screen /\ UNCHANGED Place

\* A restaurant, the cart, Instamart, and back.
Leave ==
  /\ OnMenu /\ screen' = "away"
  /\ rail' = [rail EXCEPT !.focus = FALSE]
  /\ UNCHANGED <<submitted, browse>> /\ UNCHANGED Place
Return ==
  /\ Idle /\ screen = "away" /\ screen' = "menu"
  /\ UNCHANGED <<rail, submitted, browse>> /\ UNCHANGED Place

\* From the splash to the menu, with the news over it or not; help; and closing
\* either of them.
Show ==
  /\ Idle
  /\ \/ screen = "splash" /\ screen' \in {"menu", "overlay"}
     \/ screen = "menu" /\ screen' = "overlay"
     \/ screen = "overlay" /\ screen' = "menu"
  /\ MaybeGate(screen', known, browse.addressesLoaded, browse)
  /\ UNCHANGED <<session, known, rail, submitted>>

Fresh == rail' = [rail EXCEPT !.active = Home, !.focus = TRUE]

\* Enter in the picker that cannot be dismissed.
Pick ==
  /\ ~session.needsAuth /\ gate = "picker"
  /\ \E i \in DOMAIN known, copy \in BOOLEAN :
       /\ addr' = known[i]
       /\ browse' = LoadHome(Forget(browse), known[i], copy)
  /\ Within(browse')
  /\ gate' = "passed" /\ screen' = "menu" /\ Fresh
  /\ UNCHANGED <<session, known, submitted>>

\* "a": the switcher; the same address again changes nothing.
Switch ==
  /\ OnMenu /\ gate = "passed"
  /\ \E i \in DOMAIN known, copy \in BOOLEAN :
       /\ known[i] # addr /\ addr' = known[i]
       /\ browse' = EnsureHome(Forget(browse), known[i], copy)
  /\ Within(browse')
  /\ Fresh
  /\ UNCHANGED <<screen, session, gate, known, submitted>>

\* "r" at the authorize gate, or its callback: the addresses are asked for.
SignedIn ==
  /\ session.needsAuth
  /\ session' = [session EXCEPT !.needsAuth = FALSE]
  /\ browse' = Calling(browse, AddressCall) /\ Within(browse')
  /\ UNCHANGED <<screen, addr, gate, known, rail, submitted>>

-----------------------------------------------------------------------------

Init ==
  /\ screen = "splash" /\ session = [needsAuth |-> FALSE, lost |-> 0]
  /\ addr = NoAddr /\ gate = "pending" /\ known = <<>>
  /\ rail = [active |-> Home, focus |-> TRUE, settle |-> FALSE]
  /\ submitted = NoQuery
  /\ browse = [gen |-> 0, seeded |-> {}, waiting |-> FALSE, addressesLoaded |-> FALSE,
               lists |-> [a \in Addrs |-> [q \in Keys |-> "none"]],
               calls |-> {AddressCall}]

Handle(c) == Unauthorised(c) \/ Addresses(c) \/ Page(c) \/ Results(c)

Next ==
  \/ \E c \in browse.calls : Land(c) \/ LandAddresses(c) \/ Fail(c) \/ Handle(c)
  \/ RailMove \/ Settle \/ RailEnter \/ Focus \/ Slash \/ Type \/ Submit
  \/ LeaveSearch \/ Leave \/ Return \/ Show \/ Pick \/ Switch \/ SignedIn

PlacesSpec == Init /\ [][Next]_placesVars

-----------------------------------------------------------------------------
(* Properties                                                                *)

Calls == [kind : {"page", "search", "addresses"}, addr : Addrs \cup {NoAddr},
          query : Cats \cup Words \cup {NoQuery}, page : 1..2, gen : 0..MaxGen,
          at : {"asked", "done", "more", "failed", "unauthorised"}]

\* Every variable keeps to its domain.
PlacesTypeOK ==
  /\ screen \in {"splash", "menu", "overlay", "away"}
  /\ session \in [needsAuth : BOOLEAN, lost : 0..MaxLost]
  /\ addr \in Addrs \cup {NoAddr} /\ gate \in {"pending", "picker", "passed"}
  /\ known \in AddrLists \cup {<<>>}
  /\ rail \in [active : 0..(RailLen - 1), focus : BOOLEAN, settle : BOOLEAN]
  /\ submitted \in Words \cup {NoQuery}
  /\ browse.gen \in 0..MaxGen /\ browse.calls \subseteq Calls
  /\ browse.seeded \subseteq Cats
  /\ {browse.waiting, browse.addressesLoaded} \subseteq BOOLEAN
  /\ browse.lists \in [Addrs -> [Keys -> {"none", "seed", "part", "all"}]]

Streaming(c) == c.kind = "page" /\ c.gen = browse.gen

\* One stream of pages is alive at a time, whatever the rail, the search and
\* the address switch have started: a page of another one is dropped, so two
\* never fill a list in turn.
OneStream == Cardinality({c \in browse.calls : Streaming(c)}) <= 1

\* The loads that wait at launch for the first page (the usuals, the cart and
\* the orders that are on their way) are never held without a page that is
\* still to be handled, unless the user has to sign in first.
NeverHeld ==
  browse.waiting =>
    \/ \E c \in browse.calls : c.kind = "page"
    \/ session.needsAuth
    \/ \E c \in browse.calls : c.kind = "addresses"

\* The gate "pending until the forced pick is satisfied" (tui/app.go:428): the
\* delivery address changes by the user's choice, or when there is one only.
AddressIsPicked ==
  [][addr' # addr => Pick \/ Switch \/ Len(known) = 1]_placesVars

\* "Disk-seeded entries still get one live refresh" (tui/app.go, ensureQuery).
SeedsRefreshed ==
  [][Switch => \/ browse'.lists[addr'][Category(HomeQuery)] # "seed"
               \/ \E c \in browse'.calls : c.kind = "page" /\ c.addr = addr' /\ c.query = HomeQuery]_placesVars
=============================================================================
