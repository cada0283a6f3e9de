---------------------------- MODULE Browse_proofs ----------------------------
(***************************************************************************)
(* What the terminal interface shows while a user browses, for any account, *)
(* any number of orders, addresses, words and calls under way: the orders  *)
(* it follows, the streams that fill its lists, the row under the cursor,   *)
(* the dishes a menu shows, and the domains all of it keeps to.            *)
(***************************************************************************)
EXTENDS MCBrowse, Viewport, FoldLemmas

everything == <<focus, placesVars, menuVars, followVars, shopVars>>

-----------------------------------------------------------------------------
(* The orders that are followed                                              *)

AllOrders == Food \cup Instamart
Maybe == AllOrders \cup {NoOrder}
Commands ==
  [kind : {"track", "foodlist", "imlist"}, of : Maybe, state : {"sent", "answered", "error"},
   says : {"live", "delivered", "gone", "unreadable"}, list : SUBSET AllOrders]
FollowTypes ==
  /\ world \in [AllOrders -> {"none", "live", "delivered"}] /\ age \in [AllOrders -> 0..2]
  /\ slot \in [has : BOOLEAN, id : Maybe] /\ alt \in Maybe /\ file \in Maybe
  /\ flight \subseteq Commands /\ IsFiniteSet(flight)
  /\ used \in [faults : Nat, launches : Nat]

\* What is said of an order was so when it was said, and a list that was answered lacks no
\* live order that is older than 90 s by now: an answer holds the clock.
Truthful(c) ==
  /\ c.kind = "track" => /\ c.of \in AllOrders /\ world[c.of] # "none"
                         /\ c.state = "answered" /\ c.says \in {"delivered", "gone"} => world[c.of] = "delivered"
  /\ c.kind # "track" =>
       LET shop == IF c.kind = "foodlist" THEN Food ELSE Instamart IN
       /\ c.list \subseteq shop /\ \A o \in c.list : world[o] # "none"
       /\ c.state = "answered" => \A o \in shop : world[o] = "live" /\ age[o] > 0 => o \in c.list

\* Only orders that exist are known, and no other ages.
FollowInv ==
  /\ FollowTypes /\ Follow!FollowsOnce
  /\ slot.has => slot.id # NoOrder
  /\ slot.id # NoOrder => world[slot.id] # "none"
  /\ alt # NoOrder => world[alt] # "none"
  /\ \A o \in AllOrders : world[o] = "none" => age[o] = 0
  /\ \A c \in flight : Truthful(c)

\* What a step that touches neither orders nor ages does to what has been said.
LEMMA SaidStays ==
  ASSUME NEW c, Truthful(c), UNCHANGED <<world, age>>
  PROVE  Truthful(c)'
BY DEF Truthful

LEMMA CommandTrue ==
  ASSUME NEW kind \in {"track", "foodlist", "imlist"}, NEW o \in Maybe,
         kind = "track" => o \in AllOrders /\ world'[o] # "none"
  PROVE  \A d : d = Follow!Command(kind, o) => d \in Commands /\ Truthful(d)' /\ d.state = "sent"
<1> DEFINE c == Follow!Command(kind, o)
<1>1. c = [kind |-> kind, of |-> o, state |-> "sent", says |-> "live", list |-> {}]
  BY DEF Follow!Command
<1>2. /\ c \in Commands /\ c.kind = kind /\ c.of = o /\ c.state = "sent" /\ c.list = {}
  BY <1>1 DEF Commands
<1> HIDE DEF c
<1>3. Truthful(c)'
  BY <1>2 DEF Truthful
<1> QED BY <1>2, <1>3 DEF c

\* Polls and lists that are asked for.
LEMMA PollTrue ==
  ASSUME NEW o \in AllOrders, world'[o] # "none"
  PROVE  \A d : d = Follow!TrackingPollCmd(o) => d \in Commands /\ Truthful(d)' /\ d.state = "sent"
<1>1. o \in Maybe /\ NoOrder \in Maybe
  BY DEF Maybe
<1> QED BY <1>1, CommandTrue DEF Follow!TrackingPollCmd

LEMMA ListsTrue ==
  \A c \in Follow!Lists : c \in Commands /\ Truthful(c)' /\ c.state = "sent"
<1>1. NoOrder \in Maybe
  BY DEF Maybe
<1> QED BY <1>1, CommandTrue DEF Follow!Lists

LEMMA ListsFinite == IsFiniteSet(Follow!Lists)
<1>1. Follow!Lists = {Follow!Command("foodlist", NoOrder)} \cup {Follow!Command("imlist", NoOrder)}
  BY DEF Follow!Lists
<1> QED BY <1>1, FS_Singleton, FS_Union

LEMMA FollowParts ==
  ASSUME FollowInv
  PROVE  /\ FollowTypes /\ Follow!FollowsOnce /\ (slot.has => slot.id \in AllOrders)
         /\ (slot.id # NoOrder => slot.id \in AllOrders) /\ (alt # NoOrder => alt \in AllOrders)
         /\ slot.has \in BOOLEAN /\ slot.id \in Maybe
BY DEF FollowInv, FollowTypes, Maybe

\* A step of the keys or the clock that leaves the orders alone and may send commands.
LEMMA OnlySends ==
  ASSUME FollowInv, UNCHANGED <<world, age, slot, alt, file>>, used' \in [faults : Nat, launches : Nat],
         NEW cmds, flight' = flight \cup cmds, IsFiniteSet(cmds),
         \A c \in cmds : c \in Commands /\ Truthful(c)'
  PROVE  FollowInv'
<1>1. IsFiniteSet(flight') /\ flight' \subseteq Commands
  BY FS_Union DEF FollowInv, FollowTypes
<1>2. \A c \in flight' : Truthful(c)'
  BY SaidStays DEF FollowInv
<1>3. Follow!FollowsOnce'
  BY DEF FollowInv, Follow!FollowsOnce
<1> QED BY <1>1, <1>2, <1>3 DEF FollowInv, FollowTypes

\* The slot changes hands: nothing else does, but commands come and go.
LEMMA SlotMoves ==
  ASSUME FollowInv, UNCHANGED <<world, used>>,
         slot' \in [has : BOOLEAN, id : Maybe], alt' \in Maybe, file' \in Maybe,
         age' \in [AllOrders -> 0..2], \A o \in AllOrders : age'[o] \in {age[o], 0},
         Follow!FollowsOnce', slot'.has => slot'.id # NoOrder,
         slot'.id # NoOrder => world[slot'.id] # "none",
         alt' # NoOrder => world[alt'] # "none",
         NEW kept, kept \subseteq flight, NEW cmds, IsFiniteSet(cmds), flight' = kept \cup cmds,
         \A c \in cmds : c \in Commands /\ Truthful(c)'
  PROVE  FollowInv'
<1>1. IsFiniteSet(flight') /\ flight' \subseteq Commands
  <2>1. IsFiniteSet(kept)
    BY FS_Subset DEF FollowInv, FollowTypes
  <2> QED BY <2>1, FS_Union DEF FollowInv, FollowTypes
<1>2. ASSUME NEW c \in flight' PROVE Truthful(c)'
  <2>1. CASE c \in cmds
    BY <2>1
  <2>2. CASE c \in flight
    <3>1. Truthful(c)
      BY <2>2 DEF FollowInv
    <3>2. \A o \in AllOrders : age'[o] > 0 => age[o] > 0
      OBVIOUS
    <3> QED BY <3>1, <3>2 DEF Truthful, AllOrders
  <2> QED BY <2>1, <2>2
<1>3. \A o \in AllOrders : world'[o] = "none" => age'[o] = 0
  BY DEF FollowInv
<1> QED BY <1>1, <1>2, <1>3 DEF FollowInv, FollowTypes

-----------------------------------------------------------------------------

\* Orders at Swiggy come and go, and time passes.
LEMMA PhoneFollow ==
  ASSUME FollowInv, NEW o \in AllOrders, Follow!Phone(o) \/ Follow!Deliver(o)
  PROVE  FollowInv'
<1>1. UNCHANGED <<age, slot, alt, file, flight, used>>
  BY DEF Follow!Phone, Follow!Deliver
<1>2. /\ world' \in [AllOrders -> {"none", "live", "delivered"}]
      /\ world'[o] # "none" /\ \A p \in AllOrders \ {o} : world'[p] = world[p]
      /\ world[o] = "none" => age[o] = 0
      /\ world[o] = "live" => world'[o] = "delivered"
      /\ world[o] # "delivered"
  BY DEF Follow!Phone, Follow!Deliver, FollowInv, FollowTypes
<1>3. ASSUME NEW c \in flight PROVE Truthful(c)'
  <2>1. Truthful(c) /\ age[o] \in Nat
    BY DEF FollowInv, FollowTypes
  <2>2. \A p \in AllOrders : /\ world[p] # "none" => world'[p] # "none"
                             /\ world[p] = "delivered" => world'[p] = "delivered"
                             /\ world'[p] = "live" /\ age[p] > 0 => world[p] = "live"
    <3>1. ASSUME NEW p \in AllOrders PROVE /\ world[p] # "none" => world'[p] # "none"
                                           /\ world[p] = "delivered" => world'[p] = "delivered"
                                           /\ world'[p] = "live" /\ age[p] > 0 => world[p] = "live"
      <4>1. CASE p = o
        BY <1>2, <2>1, <4>1 DEF FollowInv, FollowTypes
      <4>2. CASE p # o
        BY <1>2, <4>2
      <4> QED BY <4>1, <4>2
    <3> QED BY <3>1
  <2> QED BY <1>1, <2>1, <2>2 DEF Truthful, AllOrders
<1>4. \A p \in AllOrders : world'[p] = "none" => age'[p] = 0
  BY <1>1, <1>2 DEF FollowInv
<1>5. (slot.id # NoOrder => world'[slot.id] # "none") /\ (alt # NoOrder => world'[alt] # "none")
  BY <1>2, FollowParts DEF FollowInv
<1>6. Follow!FollowsOnce'
  BY <1>1 DEF FollowInv, Follow!FollowsOnce
<1> QED BY <1>1, <1>2, <1>3, <1>4, <1>5, <1>6 DEF FollowInv, FollowTypes

\* Nothing that was said is waiting to be handled.
LEMMA TimeFollow ==
  ASSUME FollowInv, NEW o \in AllOrders, Follow!Time(o)
  PROVE  FollowInv'
<1>1. /\ UNCHANGED <<world, slot, alt, file, flight, used>> /\ Follow!Answers = {} /\ o \in Follow!Known
      /\ age' = [age EXCEPT ![o] = age[o] + 1] /\ age[o] < 2 /\ age \in [AllOrders -> 0..2]
  BY DEF Follow!Time, FollowInv, FollowTypes
<1>2. age[o] + 1 \in 0..2
  BY <1>1
<1>3. age' \in [AllOrders -> 0..2] /\ \A p \in AllOrders \ {o} : age'[p] = age[p]
  BY <1>1, <1>2
<1>4. world[o] # "none"
  BY <1>1, FollowParts DEF Follow!Known, FollowInv
<1>5. ASSUME NEW c \in flight PROVE Truthful(c)'
  <2>1. c.state # "answered" /\ Truthful(c)
    BY <1>1 DEF Follow!Answers, FollowInv
  <2> QED BY <1>1, <2>1 DEF Truthful
<1>6. \A p \in AllOrders : world'[p] = "none" => age'[p] = 0
  BY <1>1, <1>3, <1>4 DEF FollowInv
<1>7. Follow!FollowsOnce'
  BY <1>1 DEF FollowInv, Follow!FollowsOnce
<1> QED BY <1>1, <1>3, <1>5, <1>6, <1>7 DEF FollowInv, FollowTypes

\* What Swiggy says, or that it says nothing.
LEMMA ServeFollow ==
  ASSUME FollowInv, NEW c \in flight, Follow!Serve(c)
  PROVE  FollowInv'
<1>1. /\ UNCHANGED <<world, age, slot, alt, file>> /\ c.state = "sent" /\ c \in Commands /\ Truthful(c)
  BY DEF Follow!Serve, FollowInv, FollowTypes
<1>2. used' \in [faults : Nat, launches : Nat]
  <2>1. used \in [faults : Nat, launches : Nat] /\ used.faults + 1 \in Nat
    BY DEF FollowInv, FollowTypes
  <2>2. used' = used \/ used' = [used EXCEPT !.faults = used.faults + 1]
    BY DEF Follow!Serve
  <2> QED BY <2>1, <2>2
<1>3. \E d \in Commands : Truthful(d)' /\ flight' = (flight \ {c}) \cup {d}
  <2>1. CASE \E s \in {"live", "delivered", "gone", "unreadable"} :
               /\ c.kind = "track" /\ flight' = (flight \ {c}) \cup {[c EXCEPT !.state = "answered", !.says = s]}
               /\ s \in {"delivered", "gone"} => world[c.of] # "live"
    <3>1. PICK s \in {"live", "delivered", "gone", "unreadable"} :
               /\ c.kind = "track" /\ flight' = (flight \ {c}) \cup {[c EXCEPT !.state = "answered", !.says = s]}
               /\ s \in {"delivered", "gone"} => world[c.of] # "live"
      BY <2>1
    <3> DEFINE d == [c EXCEPT !.state = "answered", !.says = s]
    <3>2. d \in Commands /\ d.kind = "track" /\ d.of = c.of /\ d.says = s
      BY <1>1, <3>1 DEF Commands
    <3> HIDE DEF d
    <3>3. c.of \in AllOrders /\ world[c.of] # "none" /\ (s \in {"delivered", "gone"} => world[c.of] = "delivered")
      BY <1>1, <3>1 DEF Truthful, FollowInv, FollowTypes
    <3>4. Truthful(d)'
      BY <1>1, <3>2, <3>3 DEF Truthful
    <3> QED BY <3>1, <3>2, <3>4 DEF d
  <2>2. CASE /\ c.kind # "track"
             /\ LET all == Follow!Listed(IF c.kind = "foodlist" THEN Food ELSE Instamart) IN
                \E l \in SUBSET all : /\ Follow!Old(all) \subseteq l
                                      /\ flight' = (flight \ {c}) \cup {[c EXCEPT !.state = "answered", !.list = l]}
    <3> DEFINE shop == IF c.kind = "foodlist" THEN Food ELSE Instamart
    <3>1. PICK l \in SUBSET Follow!Listed(shop) :
               /\ Follow!Old(Follow!Listed(shop)) \subseteq l
               /\ flight' = (flight \ {c}) \cup {[c EXCEPT !.state = "answered", !.list = l]}
      BY <2>2
    <3> DEFINE d == [c EXCEPT !.state = "answered", !.list = l]
    <3>2. l \subseteq shop /\ shop \subseteq AllOrders
      BY DEF Follow!Listed, AllOrders
    <3>3. d \in Commands /\ d.kind = c.kind /\ d.list = l
      BY <1>1, <3>2 DEF Commands
    <3> HIDE DEF d
    <3>4. \A o \in l : world[o] # "none"
      BY DEF Follow!Listed
    <3>5. \A o \in shop : world[o] = "live" /\ age[o] > 0 => o \in l
      BY <3>1 DEF Follow!Listed, Follow!Old
    <3>6. Truthful(d)'
      BY <1>1, <2>2, <3>2, <3>3, <3>4, <3>5 DEF Truthful
    <3> QED BY <3>1, <3>3, <3>6 DEF d
  <2>3. CASE flight' = (flight \ {c}) \cup {[c EXCEPT !.state = "error"]}
    <3> DEFINE d == [c EXCEPT !.state = "error"]
    <3>1. d \in Commands /\ d.kind = c.kind /\ d.of = c.of /\ d.list = c.list /\ d.state = "error"
      BY <1>1 DEF Commands
    <3> HIDE DEF d
    <3>2. Truthful(d)'
      BY <1>1, <3>1 DEF Truthful
    <3> QED BY <2>3, <3>1, <3>2 DEF d
  <2> QED BY <1>1, <2>1, <2>2, <2>3 DEF Follow!Serve
<1>4. PICK d \in Commands : Truthful(d)' /\ flight' = (flight \ {c}) \cup {d}
  BY <1>3
<1>5. IsFiniteSet(flight') /\ flight' \subseteq Commands
  <2>1. IsFiniteSet(flight \ {c}) /\ IsFiniteSet({d})
    BY FS_Subset, FS_Singleton DEF FollowInv, FollowTypes
  <2> QED BY <1>4, <2>1, FS_Union DEF FollowInv, FollowTypes
<1>6. \A e \in flight' : Truthful(e)'
  BY <1>1, <1>4, SaidStays DEF FollowInv
<1>7. Follow!FollowsOnce'
  BY <1>1 DEF FollowInv, Follow!FollowsOnce
<1> QED BY <1>1, <1>2, <1>5, <1>6, <1>7 DEF FollowInv, FollowTypes

-----------------------------------------------------------------------------

\* A cleared slot is empty, or the second order fills it.
LEMMA PromotedFollow ==
  ASSUME FollowInv, NEW after, after \subseteq flight, slot.has, Follow!ClearOrPromote(after),
         UNCHANGED <<world, age, used>>
  PROVE  FollowInv'
<1>1. slot \in [has : BOOLEAN, id : Maybe] /\ slot.id \in Maybe /\ NoOrder \in Maybe /\ age \in [AllOrders -> 0..2]
  BY DEF FollowInv, FollowTypes, Maybe
<1>2. CASE alt = NoOrder
  <2> DEFINE s == [slot EXCEPT !.has = FALSE]
  <2>1. slot' = s /\ file' = NoOrder /\ flight' = after /\ alt' = NoOrder
    BY <1>2 DEF Follow!ClearOrPromote, Follow!ClearActiveOrder
  <2>2. s \in [has : BOOLEAN, id : Maybe] /\ s.has = FALSE /\ s.id = slot.id
    BY <1>1
  <2> HIDE DEF s
  <2>3. Follow!FollowsOnce'
    BY <2>1, <2>2 DEF Follow!FollowsOnce
  <2>4. IsFiniteSet({}) /\ flight' = after \cup {}
    BY <2>1, FS_EmptySet
  <2>5. slot'.id # NoOrder => world[slot'.id] # "none"
    BY <2>1, <2>2 DEF FollowInv
  <2>6. \A o \in AllOrders : age'[o] \in {age[o], 0}
    OBVIOUS
  <2> QED BY <1>1, <2>1, <2>2, <2>3, <2>4, <2>5, <2>6, SlotMoves
<1>3. CASE alt # NoOrder
  <2> DEFINE s == [has |-> TRUE, id |-> alt]
  <2>1. /\ slot' = s /\ file' = alt /\ alt' = NoOrder
        /\ flight' = after \cup {Follow!TrackingPollCmd(alt)}
    BY <1>3 DEF Follow!ClearOrPromote, Follow!SaveActiveOrder
  <2>2. alt \in AllOrders /\ alt \in Maybe /\ world[alt] # "none"
    BY <1>3, FollowParts DEF FollowInv, Maybe
  <2>3. s \in [has : BOOLEAN, id : Maybe] /\ s.has = TRUE /\ s.id = alt
    BY <2>2
  <2> HIDE DEF s
  <2>4. Follow!FollowsOnce'
    BY <2>1, <2>3 DEF Follow!FollowsOnce
  <2>5. /\ IsFiniteSet({Follow!TrackingPollCmd(alt)})
        /\ \A c \in {Follow!TrackingPollCmd(alt)} : c \in Commands /\ Truthful(c)'
    <3>1. PICK o \in AllOrders : o = alt
      BY <2>2
    <3>2. \A d : d = Follow!TrackingPollCmd(o) => d \in Commands /\ Truthful(d)'
      BY <2>2, <3>1, PollTrue
    <3> QED BY <3>1, <3>2, FS_Singleton
  <2>6. slot'.id # NoOrder => world[slot'.id] # "none"
    BY <2>1, <2>2, <2>3
  <2>7. \A o \in AllOrders : age'[o] \in {age[o], 0}
    OBVIOUS
  <2> QED BY <1>1, <1>3, <2>1, <2>2, <2>3, <2>4, <2>5, <2>6, <2>7, SlotMoves
<1> QED BY <1>2, <1>3

\* Commands come and go, the orders stay where they are.
LEMMA WireMoves ==
  ASSUME FollowInv, UNCHANGED <<world, age, slot, alt, file, used>>,
         NEW kept, kept \subseteq flight, NEW cmds, IsFiniteSet(cmds), flight' = kept \cup cmds,
         \A c \in cmds : c \in Commands /\ Truthful(c)'
  PROVE  FollowInv'
<1>1. IsFiniteSet(flight') /\ flight' \subseteq Commands
  <2>1. IsFiniteSet(kept)
    BY FS_Subset DEF FollowInv, FollowTypes
  <2> QED BY <2>1, FS_Union DEF FollowInv, FollowTypes
<1>2. \A c \in flight' : Truthful(c)'
  BY SaidStays DEF FollowInv
<1>3. Follow!FollowsOnce'
  BY DEF FollowInv, Follow!FollowsOnce
<1> QED BY <1>1, <1>2, <1>3 DEF FollowInv, FollowTypes

LEMMA WireShrinks ==
  ASSUME FollowInv, UNCHANGED <<world, age, slot, alt, file, used>>, flight' \subseteq flight
  PROVE  FollowInv'
<1>1. IsFiniteSet({}) /\ flight' = flight' \cup {}
  BY FS_EmptySet
<1> QED BY <1>1, WireMoves

\* The answer of a poll.
LEMMA TrackedFollow ==
  ASSUME FollowInv, NEW c \in flight, Follow!Tracked(c)
  PROVE  FollowInv'
<1>1. UNCHANGED <<world, age, used>> /\ flight \ {c} \subseteq flight
  BY DEF Follow!Tracked
<1>2. CASE flight' = flight \ {c} /\ UNCHANGED <<slot, alt, file>>
  BY <1>1, <1>2, WireShrinks
<1>3. CASE slot.has /\ Follow!ClearOrPromote(flight \ {c})
  BY <1>1, <1>3, PromotedFollow
<1> QED BY <1>2, <1>3 DEF Follow!Tracked, Follow!Late

LEMMA FailedFollow ==
  ASSUME FollowInv, NEW c \in flight, Follow!Failed(c)
  PROVE  FollowInv'
<1>1. flight' \subseteq flight /\ UNCHANGED <<world, age, slot, alt, file, used>>
  BY DEF Follow!Failed
<1> QED BY <1>1, WireShrinks

\* The vertical of an order tells the shops apart.
LEMMA TwoShops ==
  /\ \A o \in Food : Follow!Vertical(o) = Food
  /\ \A o \in Instamart : Follow!Vertical(o) = Instamart
  /\ \A o \in Food, p \in Instamart : Follow!Vertical(o) # Follow!Vertical(p)
BY BrowseAssumption DEF Follow!Vertical

\* An order the list names fills the empty slot.
LEMMA DiscoverFollow ==
  ASSUME FollowInv, NEW c \in flight, NEW o \in c.list, o \in AllOrders, world[o] # "none", ~slot.has,
         Follow!Discover(o, flight \ {c}), UNCHANGED <<world, used>>
  PROVE  FollowInv'
<1> DEFINE s == [has |-> TRUE, id |-> o]
           cmds == IF o \in Food THEN {Follow!Command("track", o)} ELSE {}
<1>1. /\ slot' = s /\ file' = o /\ age' = [age EXCEPT ![o] = 0] /\ UNCHANGED alt
      /\ flight' = (flight \ {c}) \cup cmds
  BY DEF Follow!Discover, Follow!SaveActiveOrder
<1>2. o \in Maybe /\ o # NoOrder /\ alt = NoOrder
  BY BrowseAssumption DEF Maybe, AllOrders, FollowInv, Follow!FollowsOnce
<1>3. s \in [has : BOOLEAN, id : Maybe] /\ s.has = TRUE /\ s.id = o
  BY <1>2
<1>4. IsFiniteSet(cmds) /\ \A d \in cmds : d \in Commands /\ Truthful(d)'
  <2>1. \A d : d = Follow!Command("track", o) => d \in Commands /\ Truthful(d)'
    BY <1>2, CommandTrue
  <2> QED BY <2>1, FS_EmptySet, FS_Singleton
<1> HIDE DEF s, cmds
<1>5. Follow!FollowsOnce'
  BY <1>1, <1>2, <1>3 DEF Follow!FollowsOnce
<1>6. age' \in [AllOrders -> 0..2] /\ \A p \in AllOrders : age'[p] \in {age[p], 0}
  BY <1>1 DEF FollowInv, FollowTypes
<1>7. alt' \in Maybe /\ flight \ {c} \subseteq flight
  BY <1>1 DEF FollowInv, FollowTypes
<1> QED BY <1>1, <1>2, <1>3, <1>4, <1>5, <1>6, <1>7, SlotMoves

\* The list of the other shop brings the second order, or takes it away.
LEMMA BesideFollow ==
  ASSUME FollowInv, NEW c \in flight, NEW shop \in {Food, Instamart}, c.list \subseteq shop,
         \A o \in c.list : world[o] # "none", Follow!Beside(shop),
         Follow!ListBeside(shop, c.list, flight \ {c}), UNCHANGED <<world, used>>
  PROVE  FollowInv'
<1>1. /\ slot.has /\ slot.id \in AllOrders /\ slot.id # NoOrder /\ Follow!Vertical(slot.id) # shop
      /\ UNCHANGED <<slot, file>> /\ flight' = (flight \ {c}) \cup {}
  BY FollowParts DEF Follow!Beside, Follow!ListBeside, FollowInv
<1>2. /\ slot' \in [has : BOOLEAN, id : Maybe] /\ file' \in Maybe /\ IsFiniteSet({}) /\ flight \ {c} \subseteq flight
      /\ slot'.has /\ slot'.id # NoOrder /\ (slot'.id # NoOrder => world[slot'.id] # "none")
  BY <1>1, FS_EmptySet DEF FollowInv, FollowTypes
<1>3. CASE \E o \in c.list : alt' = o /\ age' = [age EXCEPT ![o] = 0]
  <2>1. PICK o \in c.list : alt' = o /\ age' = [age EXCEPT ![o] = 0]
    BY <1>3
  <2>2. o \in AllOrders /\ alt' \in Maybe /\ world[alt'] # "none" /\ Follow!Vertical(o) = shop
    BY <2>1, TwoShops DEF AllOrders, Maybe
  <2>3. Follow!FollowsOnce'
    BY <1>1, <2>1, <2>2 DEF FollowInv, Follow!FollowsOnce, Follow!Vertical
  <2>4. age' \in [AllOrders -> 0..2] /\ \A p \in AllOrders : age'[p] \in {age[p], 0}
    <3>1. age \in [AllOrders -> 0..2] /\ 0 \in 0..2
      BY DEF FollowInv, FollowTypes
    <3> QED BY <2>1, <2>2, <3>1
  <2> QED BY <1>1, <1>2, <2>1, <2>2, <2>3, <2>4, SlotMoves
<1>4. CASE alt' = (IF alt \in shop THEN NoOrder ELSE alt) /\ UNCHANGED age
  <2>1. alt' \in Maybe /\ (alt' # NoOrder => world[alt'] # "none")
    BY <1>4 DEF FollowInv, FollowTypes, Maybe
  <2>2. Follow!FollowsOnce'
    BY <1>1, <1>4 DEF FollowInv, Follow!FollowsOnce, Follow!Vertical
  <2>3. age' \in [AllOrders -> 0..2] /\ \A p \in AllOrders : age'[p] \in {age[p], 0}
    BY <1>4 DEF FollowInv, FollowTypes
  <2> QED BY <1>1, <1>2, <2>1, <2>2, <2>3, SlotMoves
<1> QED BY <1>3, <1>4 DEF Follow!ListBeside

\* The lists of either shop.
LEMMA ListedFollow ==
  ASSUME FollowInv, NEW c \in flight, Follow!FoodListed(c) \/ Follow!IMListed(c)
  PROVE  FollowInv'
<1>1. UNCHANGED <<world, used>> /\ flight \ {c} \subseteq flight
  BY DEF Follow!FoodListed, Follow!IMListed
<1>2. /\ c.kind = "foodlist" => c.list \subseteq Food
      /\ c.kind = "imlist" => c.list \subseteq Instamart
      /\ c.kind # "track" => \A o \in c.list : o \in AllOrders /\ world[o] # "none"
  BY DEF FollowInv, Truthful, AllOrders
<1>3. c.kind # "track"
  BY DEF Follow!FoodListed, Follow!IMListed
<1>4. CASE \E o \in c.list : ~slot.has /\ Follow!Discover(o, flight \ {c})
  BY <1>1, <1>2, <1>3, <1>4, DiscoverFollow
<1>5. CASE c.kind = "foodlist" /\ Follow!Beside(Food) /\ Follow!ListBeside(Food, c.list, flight \ {c})
  BY <1>1, <1>2, <1>3, <1>5, BesideFollow
<1>6. CASE c.kind = "imlist" /\ Follow!Beside(Instamart) /\ Follow!ListBeside(Instamart, c.list, flight \ {c})
  BY <1>1, <1>2, <1>3, <1>6, BesideFollow
<1>7. CASE flight' = flight \ {c} /\ UNCHANGED <<age, slot, alt, file>>
  BY <1>1, <1>7, WireShrinks
<1>8. CASE slot.has /\ flight' = (flight \ {c}) \cup {Follow!Command("track", slot.id)} /\ UNCHANGED <<age, slot, alt, file>>
  <2>1. slot.id \in AllOrders /\ slot.id \in Maybe /\ world[slot.id] # "none"
    BY <1>8, FollowParts DEF FollowInv, Maybe
  <2>2. /\ IsFiniteSet({Follow!Command("track", slot.id)})
        /\ \A d \in {Follow!Command("track", slot.id)} : d \in Commands /\ Truthful(d)'
    <3>1. PICK o \in AllOrders : o = slot.id
      BY <2>1
    <3>2. \A d : d = Follow!Command("track", o) => d \in Commands /\ Truthful(d)'
      BY <1>1, <2>1, <3>1, CommandTrue DEF Maybe
    <3> QED BY <3>1, <3>2, FS_Singleton
  <2> QED BY <1>1, <1>8, <2>2, WireMoves
<1>9. CASE slot.has /\ slot' = slot /\ alt' = alt /\ file' = slot.id /\ flight' = flight \ {c} /\ UNCHANGED age
  <2>1. file' = file
    BY <1>9 DEF FollowInv, Follow!FollowsOnce
  <2> QED BY <1>1, <1>9, <2>1, WireShrinks
<1>10. CASE slot.has /\ Follow!Missing(flight \ {c}) /\ UNCHANGED age
  <2>1. CASE Follow!ClearOrPromote(flight \ {c})
    BY <1>1, <1>10, <2>1, PromotedFollow
  <2>2. CASE flight' = flight \ {c} /\ UNCHANGED <<slot, alt, file>>
    BY <1>1, <1>10, <2>2, WireShrinks
  <2> QED BY <1>10, <2>1, <2>2 DEF Follow!Missing
<1>11. CASE Follow!FoodListed(c)
  BY <1>4, <1>5, <1>7, <1>8, <1>10, <1>11 DEF Follow!FoodListed
<1>12. CASE Follow!IMListed(c)
  BY <1>4, <1>6, <1>7, <1>9, <1>10, <1>12 DEF Follow!IMListed, Follow!SaveActiveOrder
<1> QED BY <1>11, <1>12

-----------------------------------------------------------------------------

\* A poll is for an order that there is.
LEMMA PollMoves ==
  ASSUME FollowInv, UNCHANGED <<world, age, slot, alt, file, used>>, Follow!Poll
  PROVE  FollowInv'
<1>1. slot.id \in AllOrders /\ world[slot.id] # "none" /\ flight' = flight \cup {Follow!TrackingPollCmd(slot.id)}
  BY FollowParts DEF Follow!Poll, Follow!Send, FollowInv
<1>2. PICK o \in AllOrders : o = slot.id
  BY <1>1
<1>3. \A d : d = Follow!TrackingPollCmd(o) => d \in Commands /\ Truthful(d)'
  BY <1>1, <1>2, PollTrue
<1>4. /\ IsFiniteSet({Follow!TrackingPollCmd(slot.id)})
      /\ \A d \in {Follow!TrackingPollCmd(slot.id)} : d \in Commands /\ Truthful(d)'
  BY <1>2, <1>3, FS_Singleton
<1> QED BY <1>1, <1>4, WireMoves

\* A placed order takes the slot; one of the other shop steps aside.
LEMMA PlaceFollow ==
  ASSUME FollowInv, NEW o \in AllOrders, NEW located, Follow!Place(o, located)
  PROVE  FollowInv'
<1> DEFINE s == [has |-> TRUE, id |-> o]
           cmds == IF o \in Instamart THEN {Follow!Command("imlist", NoOrder)} ELSE {}
<1>1. /\ world[o] = "none" /\ world' = [world EXCEPT ![o] = "live"] /\ age' = [age EXCEPT ![o] = 0]
      /\ alt' = (IF slot.has /\ Follow!Vertical(slot.id) # Follow!Vertical(o) THEN slot.id ELSE alt)
      /\ slot' = s /\ file' = o /\ flight' = flight \cup cmds /\ UNCHANGED used
  BY DEF Follow!Place, Follow!SaveActiveOrder, Follow!Send
<1>2. /\ world \in [AllOrders -> {"none", "live", "delivered"}] /\ age \in [AllOrders -> 0..2]
      /\ o \in Maybe /\ o # NoOrder
  BY BrowseAssumption DEF FollowInv, FollowTypes, Maybe, AllOrders
<1>3. s \in [has : BOOLEAN, id : Maybe] /\ s.has = TRUE /\ s.id = o
  BY <1>2
<1>4. /\ world' \in [AllOrders -> {"none", "live", "delivered"}] /\ world'[o] = "live"
      /\ \A p \in AllOrders \ {o} : world'[p] = world[p]
      /\ age' \in [AllOrders -> 0..2] /\ age'[o] = 0 /\ \A p \in AllOrders \ {o} : age'[p] = age[p]
  <2>1. 0 \in 0..2
    OBVIOUS
  <2> QED BY <1>1, <1>2, <2>1
<1>5. IsFiniteSet(cmds) /\ \A d \in cmds : d \in Commands /\ Truthful(d)'
  <2>1. \A d : d = Follow!Command("imlist", NoOrder) => d \in Commands /\ Truthful(d)'
    BY CommandTrue DEF Maybe
  <2> QED BY <2>1, FS_EmptySet, FS_Singleton
<1> HIDE DEF s, cmds
<1>6. IsFiniteSet(flight') /\ flight' \subseteq Commands
  BY <1>1, <1>5, FS_Union DEF FollowInv, FollowTypes
<1>7. ASSUME NEW c \in flight' PROVE Truthful(c)'
  <2>1. CASE c \in cmds
    BY <1>5, <2>1
  <2>2. CASE c \in flight
    <3>1. Truthful(c)
      BY <2>2 DEF FollowInv
    <3>2. \A p \in AllOrders : /\ world[p] # "none" => world'[p] = world[p] /\ age'[p] = age[p]
                               /\ world'[p] = "live" /\ age'[p] > 0 => p # o /\ world[p] = "live" /\ age[p] > 0
      BY <1>1, <1>4
    <3> QED BY <3>1, <3>2 DEF Truthful, AllOrders
  <2> QED BY <1>1, <2>1, <2>2
<1>8. alt' \in Maybe /\ (alt' # NoOrder => alt' \in AllOrders /\ world[alt'] # "none")
  BY <1>1, FollowParts DEF FollowInv, FollowTypes
<1>9. alt' # NoOrder => world'[alt'] # "none"
  BY <1>1, <1>4, <1>8
<1>10. Follow!FollowsOnce'
  <2>1. CASE slot.has /\ Follow!Vertical(slot.id) # Follow!Vertical(o)
    BY <1>1, <1>3, <2>1 DEF Follow!FollowsOnce, Follow!Vertical
  <2>2. CASE ~slot.has
    BY <1>1, <1>3, <2>2 DEF FollowInv, Follow!FollowsOnce, Follow!Vertical
  <2>3. CASE slot.has /\ Follow!Vertical(slot.id) = Follow!Vertical(o)
    BY <1>1, <1>3, <2>3 DEF FollowInv, Follow!FollowsOnce, Follow!Vertical
  <2> QED BY <2>1, <2>2, <2>3
<1>11. \A p \in AllOrders : world'[p] = "none" => age'[p] = 0
  BY <1>4 DEF FollowInv
<1>12. used' \in [faults : Nat, launches : Nat]
  BY <1>1 DEF FollowInv, FollowTypes
<1> QED BY <1>1, <1>2, <1>3, <1>4, <1>6, <1>7, <1>8, <1>9, <1>10, <1>11, <1>12 DEF FollowInv, FollowTypes

\* The keys and ticks that only poll, ask for the lists or move the screen.
LEMMA KeysFollow ==
  ASSUME FollowInv,
         \/ Follow!ToTracking \/ Follow!PollTick \/ Follow!OpenTracking \/ Follow!PickFirst \/ Follow!Leave
         \/ Follow!Home
  PROVE  FollowInv'
<1>1. UNCHANGED <<world, age, slot, alt, file, used>>
  BY DEF Follow!ToTracking, Follow!PollTick, Follow!OpenTracking, Follow!PickFirst, Follow!Leave, Follow!Home
<1>2. Follow!Poll \/ flight' = flight \/ flight' = flight \cup Follow!Lists
  BY DEF Follow!ToTracking, Follow!PollTick, Follow!OpenTracking, Follow!PickFirst, Follow!Leave, Follow!Home, Follow!Send
<1>3. CASE Follow!Poll
  BY <1>1, <1>3, PollMoves
<1>4. CASE flight' = flight
  BY <1>1, <1>4, WireShrinks
<1>5. CASE flight' = flight \cup Follow!Lists
  <2> QED BY <1>1, <1>5, ListsFinite, ListsTrue, WireMoves
<1> QED BY <1>2, <1>3, <1>4, <1>5

\* The two orders change places.
LEMMA SwapFollow ==
  ASSUME FollowInv, Follow!Swap
  PROVE  FollowInv'
<1>1. CASE alt = NoOrder
  <2>1. UNCHANGED <<world, age, slot, alt, file, used, flight>>
    BY <1>1 DEF Follow!Swap
  <2> QED BY <2>1, WireShrinks
<1>2. CASE alt # NoOrder
  <2> DEFINE s == [has |-> TRUE, id |-> alt]
  <2>1. /\ UNCHANGED <<world, age, used>> /\ slot' = s /\ alt' = slot.id /\ file' = alt
        /\ flight' = flight \cup {Follow!TrackingPollCmd(alt)}
    BY <1>2 DEF Follow!Swap, Follow!SaveActiveOrder, Follow!Send
  <2>2. /\ alt \in AllOrders /\ alt \in Maybe /\ world[alt] # "none" /\ slot.has /\ slot.id \in Maybe
        /\ world[slot.id] # "none" /\ Follow!Vertical(alt) # Follow!Vertical(slot.id) /\ slot.id # NoOrder
    BY <1>2, FollowParts DEF FollowInv, Maybe, Follow!FollowsOnce
  <2>3. s \in [has : BOOLEAN, id : Maybe] /\ s.has = TRUE /\ s.id = alt
    BY <2>2
  <2> HIDE DEF s
  <2>4. Follow!FollowsOnce'
    BY <2>1, <2>2, <2>3 DEF Follow!FollowsOnce, Follow!Vertical
  <2>5. /\ IsFiniteSet({Follow!TrackingPollCmd(alt)})
        /\ \A c \in {Follow!TrackingPollCmd(alt)} : c \in Commands /\ Truthful(c)'
    <3>1. PICK o \in AllOrders : o = alt
      BY <2>2
    <3>2. \A d : d = Follow!TrackingPollCmd(o) => d \in Commands /\ Truthful(d)'
      BY <2>1, <2>2, <3>1, PollTrue
    <3> QED BY <3>1, <3>2, FS_Singleton
  <2>6. age' \in [AllOrders -> 0..2] /\ \A p \in AllOrders : age'[p] \in {age[p], 0}
    BY <2>1 DEF FollowInv, FollowTypes
  <2>7. /\ flight \subseteq flight /\ slot' \in [has : BOOLEAN, id : Maybe] /\ alt' \in Maybe /\ file' \in Maybe
        /\ slot'.id # NoOrder /\ world[slot'.id] # "none" /\ world[alt'] # "none"
    BY <1>2, <2>1, <2>2, <2>3
  <2> QED BY <2>1, <2>4, <2>5, <2>6, <2>7, SlotMoves
<1> QED BY <1>1, <1>2

LEMMA DismissFollow ==
  ASSUME FollowInv, Follow!Dismiss
  PROVE  FollowInv'
<1>1. UNCHANGED <<world, age, used>> /\ Follow!ClearOrPromote(flight)
  BY DEF Follow!Dismiss
<1>2. CASE slot.has
  BY <1>1, <1>2, PromotedFollow
<1>3. CASE ~slot.has
  <2>1. alt = NoOrder /\ file = NoOrder
    BY <1>3 DEF FollowInv, Follow!FollowsOnce
  <2>2. /\ slot' = [slot EXCEPT !.has = FALSE] /\ UNCHANGED <<alt, file, flight>>
    BY <1>1, <2>1 DEF Follow!ClearOrPromote, Follow!ClearActiveOrder
  <2>3. slot' = slot
    BY <1>3, <2>2 DEF FollowInv, FollowTypes
  <2> QED BY <1>1, <2>2, <2>3, WireShrinks
<1> QED BY <1>2, <1>3

\* The sign-out and the next launch.
LEMMA LaunchFollow ==
  ASSUME FollowInv, Follow!LoggedOut \/ Follow!Restart
  PROVE  FollowInv'
<1>1. /\ UNCHANGED <<world, age>> /\ alt' = NoOrder /\ NoOrder \in Maybe /\ file \in Maybe
      /\ used' = [used EXCEPT !.launches = used.launches + 1] /\ used \in [faults : Nat, launches : Nat]
  BY DEF Follow!LoggedOut, Follow!Restart, FollowInv, FollowTypes, Maybe
<1>2. used' \in [faults : Nat, launches : Nat]
  <2>1. used.launches + 1 \in Nat
    BY <1>1
  <2> QED BY <1>1, <2>1
<1>3. CASE Follow!LoggedOut
  <2>1. UNCHANGED <<slot, file, flight>>
    BY <1>3 DEF Follow!LoggedOut
  <2>2. \A c \in flight' : Truthful(c)'
    BY <1>1, <2>1, SaidStays DEF FollowInv
  <2>3. Follow!FollowsOnce'
    BY <1>1, <2>1 DEF FollowInv, Follow!FollowsOnce
  <2> QED BY <1>1, <1>2, <2>1, <2>2, <2>3 DEF FollowInv, FollowTypes
<1>4. CASE Follow!Restart
  <2>1. \E o \in Maybe : slot' = [has |-> o # NoOrder, id |-> o] /\ file' = o /\ o \in {file, NoOrder}
    <3>1. CASE slot' = [has |-> file # NoOrder, id |-> file] /\ UNCHANGED file
      BY <1>1, <3>1
    <3>2. CASE slot' = [has |-> FALSE, id |-> NoOrder] /\ Follow!ClearActiveOrder
      <4>1. slot' = [has |-> NoOrder # NoOrder, id |-> NoOrder]
        BY <3>2
      <4> QED BY <1>1, <3>2, <4>1 DEF Follow!ClearActiveOrder
    <3> QED BY <1>4, <3>1, <3>2 DEF Follow!Restart
  <2>2. PICK o \in Maybe : slot' = [has |-> o # NoOrder, id |-> o] /\ file' = o /\ o \in {file, NoOrder}
    BY <2>1
  <2> DEFINE b == o # NoOrder
             s == [has |-> b, id |-> o]
  <2>3. b \in BOOLEAN /\ (b <=> o # NoOrder)
    OBVIOUS
  <2>4. slot' = s
    BY <2>2
  <2> HIDE DEF b
  <2>5. s \in [has : BOOLEAN, id : Maybe] /\ s.has = b /\ s.id = o
    BY <2>3
  <2> HIDE DEF s
  <2>6. o # NoOrder => world[o] # "none" /\ o \in AllOrders
    BY <2>2, FollowParts DEF FollowInv, Follow!FollowsOnce
  <2>7. Follow!FollowsOnce'
    BY <1>1, <2>2, <2>3, <2>4, <2>5 DEF Follow!FollowsOnce
  <2>8. /\ IsFiniteSet(flight') /\ flight' \subseteq Commands /\ \A c \in flight' : Truthful(c)'
    <3>1. CASE flight' = Follow!Lists
      BY <3>1, ListsFinite, ListsTrue
    <3>2. CASE flight' = {}
      BY <3>2, FS_EmptySet
    <3>3. CASE flight' = {Follow!Command("foodlist", NoOrder)}
      <4>1. \A d : d = Follow!Command("foodlist", NoOrder) => d \in Commands /\ Truthful(d)'
        BY <1>1, CommandTrue
      <4> QED BY <3>3, <4>1, FS_Singleton
    <3> QED BY <1>4, <3>1, <3>2, <3>3 DEF Follow!Restart
  <2> QED BY <1>1, <1>2, <2>2, <2>3, <2>4, <2>5, <2>6, <2>7, <2>8 DEF FollowInv, FollowTypes
<1> QED BY <1>3, <1>4

-----------------------------------------------------------------------------

LEMMA FollowInit == BothInit => FollowInv
<1> SUFFICES ASSUME BothInit PROVE FollowInv
  OBVIOUS
<1>1. /\ world = [o \in AllOrders |-> "none"] /\ age = [o \in AllOrders |-> 0]
      /\ slot = [has |-> FALSE, id |-> NoOrder] /\ alt = NoOrder /\ file = NoOrder
      /\ flight = Follow!Lists /\ used = [faults |-> 0, launches |-> 0]
  BY DEF BothInit, Follow!Init, Follow!Orders, AllOrders
<1>2. \A c \in Follow!Lists : c \in Commands /\ c.kind # "track" /\ c.list = {} /\ c.state = "sent"
  BY DEF Follow!Lists, Follow!Command, Commands, Maybe
<1>3. \A c \in flight : Truthful(c)
  BY <1>1, <1>2 DEF Truthful
<1>4. IsFiniteSet(flight)
  BY <1>1, ListsFinite
<1>5. 0 \in 0..2 /\ NoOrder \in Maybe
  BY DEF Maybe
<1>6. FollowTypes
  BY <1>1, <1>2, <1>4, <1>5 DEF FollowTypes
<1> QED BY <1>1, <1>3, <1>6 DEF FollowInv, Follow!FollowsOnce

LEMMA FollowNext == FollowInv /\ [BothNext]_everything => FollowInv'
<1>1. ASSUME FollowInv, UNCHANGED followVars PROVE FollowInv'
  <2>1. UNCHANGED <<world, age, slot, alt, file, used, flight>>
    BY <1>1 DEF followVars
  <2> QED BY <1>1, <2>1, WireShrinks
<1>2. ASSUME FollowInv, Follow!Next PROVE FollowInv'
  <2>1. \A o \in Follow!Orders : o \in AllOrders
    BY DEF Follow!Orders, AllOrders
  <2> QED BY <1>2, <2>1, PhoneFollow, TimeFollow, PlaceFollow, ServeFollow, TrackedFollow, ListedFollow, FailedFollow,
             KeysFollow, SwapFollow, DismissFollow, LaunchFollow DEF Follow!Next, Follow!Answered, Follow!Keys
<1> QED BY <1>1, <1>2 DEF BothNext, everything

\* The file holds the order of the slot, and no order is followed twice, for any number of
\* orders, polls and launches (app.go's slot and its promotions).
THEOREM FollowedOnce == BothSpec => []FollowsOnce
<1>1. FollowInv => FollowsOnce
  BY DEF FollowInv, FollowsOnce
<1> QED BY <1>1, FollowInit, FollowNext, PTL DEF BothSpec, everything

\* No answer takes a live order out of the slot before the grace has passed.
LEMMA AnswerKeepsLive ==
  ASSUME FollowInv, NEW c \in flight, Follow!Answered(c), NEW o \in AllOrders,
         slot.has, slot.id = o, ~(slot'.has /\ slot'.id = o), alt' # o
  PROVE  world[o] = "delivered" \/ age[o] = 2
<1>1. Truthful(c) /\ world[o] \in {"live", "delivered"} /\ o # NoOrder /\ age[o] \in 0..2
  BY DEF FollowInv, FollowTypes
<1>2. CASE Follow!Tracked(c)
  BY <1>1, <1>2 DEF Follow!Tracked, Follow!Late, Follow!Finishes, Truthful
<1>3. CASE Follow!FoodListed(c)
  <2>1. o \in Food /\ o \notin c.list /\ Follow!Missing(flight \ {c})
    BY <1>3 DEF Follow!FoodListed, Follow!ListBeside
  <2>2. age[o] > 0
    BY <2>1 DEF Follow!Missing
  <2> QED BY <1>1, <1>3, <2>1, <2>2 DEF Follow!FoodListed, Truthful
<1>4. CASE Follow!IMListed(c)
  <2>1. o \in Instamart /\ o \notin c.list /\ Follow!Missing(flight \ {c})
    BY <1>4 DEF Follow!IMListed, Follow!ListBeside
  <2>2. age[o] > 0
    BY <2>1 DEF Follow!Missing
  <2> QED BY <1>1, <1>4, <2>1, <2>2 DEF Follow!IMListed, Truthful
<1>5. CASE Follow!Failed(c)
  BY <1>5 DEF Follow!Failed
<1> QED BY <1>2, <1>3, <1>4, <1>5 DEF Follow!Answered

\* "No answer, late or unreadable or too early": polls (handleTrackingPoll), lists of both shops.
THEOREM LiveStaysInSlot == BothSpec => SlotKeepsLive
<1> DEFINE Kept == \A o \in Follow!Orders :
                     /\ slot.has /\ slot.id = o /\ ~(slot'.has /\ slot'.id = o) /\ alt' # o
                     /\ used' = used /\ ~(Follow!Answers \subseteq Follow!Answers')
                     => world[o] = "delivered" \/ age[o] = 2
<1>1. ASSUME FollowInv, [BothNext]_everything PROVE [Kept]_Follow!vars
  <2>1. CASE UNCHANGED followVars
    BY <2>1 DEF followVars, Follow!vars
  <2>2. CASE Follow!Next
    <3> SUFFICES ASSUME NEW o \in AllOrders,
                        slot.has, slot.id = o, ~(slot'.has /\ slot'.id = o), alt' # o,
                        used' = used, ~(Follow!Answers \subseteq Follow!Answers')
                 PROVE  world[o] = "delivered" \/ age[o] = 2
      BY DEF Follow!Orders, AllOrders
    <3>1. ~(flight \subseteq flight')
      BY DEF Follow!Answers
    <3>2. slot' # slot
      OBVIOUS
    <3>3. ~(Follow!LoggedOut \/ Follow!Restart)
      <4>1. used.launches + 1 # used.launches /\ used \in [faults : Nat, launches : Nat]
        BY <1>1 DEF FollowInv, FollowTypes
      <4> QED BY <4>1 DEF Follow!LoggedOut, Follow!Restart
    <3>4. ASSUME NEW p \in Follow!Orders, NEW located, Follow!Place(p, located) PROVE FALSE
      BY <3>1, <3>4 DEF Follow!Place, Follow!Send
    <3>5. ~Follow!Dismiss
      BY <3>1 DEF Follow!Dismiss, Follow!ClearOrPromote
    <3>6. ~Follow!Swap
      BY <3>2 DEF Follow!Swap
    <3>7. ASSUME NEW p \in Follow!Orders PROVE ~(Follow!Phone(p) \/ Follow!Deliver(p) \/ Follow!Time(p))
      BY <3>2 DEF Follow!Phone, Follow!Deliver, Follow!Time
    <3>8. ASSUME NEW c \in flight PROVE ~Follow!Serve(c)
      BY <3>2 DEF Follow!Serve
    <3>9. ~(\/ Follow!ToTracking \/ Follow!PollTick \/ Follow!OpenTracking \/ Follow!PickFirst \/ Follow!Leave
            \/ Follow!Home)
      BY <3>2 DEF Follow!ToTracking, Follow!PollTick, Follow!OpenTracking, Follow!PickFirst, Follow!Leave, Follow!Home
    <3>10. PICK c \in flight : Follow!Answered(c)
      BY <2>2, <3>3, <3>4, <3>5, <3>6, <3>7, <3>8, <3>9 DEF Follow!Next, Follow!Keys
    <3> QED BY <1>1, <3>10, AnswerKeepsLive
  <2> QED BY <1>1, <2>1, <2>2 DEF BothNext, everything
<1> QED BY <1>1, FollowInit, FollowNext, PTL DEF BothSpec, everything, SlotKeepsLive, Follow!SlotKeepsLive

-----------------------------------------------------------------------------
(* The shelves of Instamart                                                  *)

Wanted == Products!Queries \cup {NoQuery}

\* The lists and the calls for them: who is told that there is no session knows that one
\* was lost; a loader and a copy each have the call behind them that ends or replaces it.
ShelfInv ==
  /\ shelf \in [Homes -> [Products!Queries -> {"none", "copy", "answer"}]]
  /\ aisle \in [query : Wanted, pending : BOOLEAN, loaded : SUBSET Products!Queries]
  /\ past \in [made : Nat, lost : Nat, well : [Homes -> [Products!Queries -> BOOLEAN]]]
  /\ \A c \in loads :
       /\ c = [id |-> c.id, addr |-> c.addr, query |-> c.query, at |-> c.at]
       /\ c.addr \in Homes /\ c.query \in Products!Queries
       /\ c.at \in {"asked", "done", "failed", "unauthorised"}
       /\ c.at = "unauthorised" => past.lost # 0
  /\ Products!LoaderEnds /\ Products!AnswersReplaceCopies

\* The screen: while the picker is open nothing else changes what it returns to.
AisleInv ==
  /\ view \in [where : {"away", "instamart", "checkout", "picker"}, addr : Homes, gate : BOOLEAN,
               shown : Homes \X Wanted]
  /\ column \in [active : 0..Len(Aisles), focus : BOOLEAN, settle : BOOLEAN]
  /\ box \in [on : BOOLEAN, text : Wanted, submitted : Wanted]
  /\ view.gate => past.lost # 0
  /\ view.where \in {"instamart", "picker"} /\ past.lost = 0 => view.shown = <<view.addr, aisle.query>>

ProdInv == ShelfInv /\ AisleInv

\* The categories are queries.
LEMMA AisleQueries ==
  /\ Len(Aisles) = 2 /\ Aisles[1] \in Products!Queries /\ Aisles[2] \in Products!Queries
  /\ Words \subseteq Products!Queries
<1>1. DOMAIN Aisles = {1, 2} /\ Len(Aisles) = 2
  BY DEF Aisles
<1> QED BY <1>1 DEF Products!Queries

LEMMA ProdInit == ASSUME BothInit PROVE ProdInv
<1>1. PICK a \in Homes : view = [where |-> "away", addr |-> a, gate |-> FALSE, shown |-> <<a, NoQuery>>]
  BY DEF BothInit, Products!Init
<1>2. /\ column = [active |-> 1, focus |-> TRUE, settle |-> FALSE]
      /\ box = [on |-> FALSE, text |-> NoQuery, submitted |-> NoQuery]
      /\ aisle = [query |-> NoQuery, pending |-> FALSE, loaded |-> {}]
      /\ shelf = [h \in Homes |-> [q \in Products!Queries |-> "none"]]
      /\ loads = {}
      /\ past = [made |-> 0, lost |-> 0, well |-> [h \in Homes |-> [q \in Products!Queries |-> FALSE]]]
  BY DEF BothInit, Products!Init
<1>3. ShelfInv
  BY <1>2 DEF ShelfInv, Wanted, Products!LoaderEnds, Products!AnswersReplaceCopies
<1>4. AisleInv
  BY <1>1, <1>2, AisleQueries DEF AisleInv, Wanted
<1> QED BY <1>3, <1>4 DEF ProdInv

\* A call for a list, with what is painted until it answers.
LEMMA CallAsked ==
  ASSUME ShelfInv, NEW a \in Homes, NEW q \in Products!Queries, NEW loaded \in SUBSET Products!Queries,
         NEW copy \in BOOLEAN,
         shelf' = IF copy THEN [shelf EXCEPT ![a][q] = "copy"] ELSE shelf,
         aisle' = [query |-> q, pending |-> ~copy, loaded |-> loaded],
         loads' = loads \cup {Products!Load(a, q)}, past' = [past EXCEPT !.made = @ + 1]
  PROVE  ShelfInv' /\ past'.lost = past.lost /\ aisle'.query = q
<1> DEFINE new == Products!Load(a, q)
<1>1. /\ new = [id |-> new.id, addr |-> a, query |-> q, at |-> "asked"]
      /\ new.addr = a /\ new.query = q /\ new.at = "asked"
      /\ loads' = loads \cup {new}
  BY DEF Products!Load
<1> HIDE DEF new
<1>2. /\ past' \in [made : Nat, lost : Nat, well : [Homes -> [Products!Queries -> BOOLEAN]]]
      /\ past'.lost = past.lost /\ past'.well = past.well
  <2>1. past.made + 1 \in Nat
    BY DEF ShelfInv
  <2> QED BY <2>1 DEF ShelfInv
<1>3. /\ aisle' \in [query : Wanted, pending : BOOLEAN, loaded : SUBSET Products!Queries]
      /\ aisle'.query = q
  BY DEF Wanted
<1>4. /\ shelf' \in [Homes -> [Products!Queries -> {"none", "copy", "answer"}]]
      /\ \A h \in Homes, r \in Products!Queries : ~(h = a /\ r = q) => shelf'[h][r] = shelf[h][r]
  BY DEF ShelfInv
<1>5. \A c \in loads' :
        /\ c = [id |-> c.id, addr |-> c.addr, query |-> c.query, at |-> c.at]
        /\ c.addr \in Homes /\ c.query \in Products!Queries
        /\ c.at \in {"asked", "done", "failed", "unauthorised"}
        /\ c.at = "unauthorised" => past'.lost # 0
  BY <1>1, <1>2 DEF ShelfInv
<1>6. new \in loads'
  BY <1>1
<1>7. Products!LoaderEnds'
  BY <1>1, <1>3, <1>6 DEF Products!LoaderEnds
<1>8. Products!AnswersReplaceCopies'
  <2> SUFFICES ASSUME NEW h \in Homes, NEW r \in Products!Queries, past'.well[h][r],
                      \A c \in loads' : ~(c.addr = h /\ c.query = r /\ c.at = "asked")
               PROVE  shelf'[h][r] # "copy"
    BY DEF Products!AnswersReplaceCopies
  <2>1. ~(h = a /\ r = q)
    BY <1>1, <1>6
  <2> QED BY <1>2, <1>4, <2>1 DEF ShelfInv, Products!AnswersReplaceCopies
<1> QED BY <1>2, <1>3, <1>4, <1>5, <1>7, <1>8 DEF ShelfInv

LEMMA ListFetched ==
  ASSUME ShelfInv, NEW a \in Homes, NEW q \in Products!Queries, Products!Fetch(a, q)
  PROVE  ShelfInv' /\ past'.lost = past.lost /\ aisle'.query = q
<1>1. PICK copy \in BOOLEAN :
        /\ shelf' = IF copy THEN [shelf EXCEPT ![a][q] = "copy"] ELSE shelf
        /\ aisle' = [query |-> q, pending |-> ~copy, loaded |-> aisle.loaded \cup {q}]
  BY DEF Products!Fetch
<1>2. loads' = loads \cup {Products!Load(a, q)} /\ past' = [past EXCEPT !.made = @ + 1]
  BY DEF Products!Fetch
<1>3. aisle.loaded \cup {q} \in SUBSET Products!Queries
  BY DEF ShelfInv
<1> QED BY <1>1, <1>2, <1>3, CallAsked

LEMMA ShelfStays ==
  ASSUME ShelfInv, Products!Stays
  PROVE  ShelfInv' /\ past' = past /\ aisle' = aisle
BY DEF Products!Stays, ShelfInv, Products!LoaderEnds, Products!AnswersReplaceCopies

LEMMA ListEnsured ==
  ASSUME ShelfInv, view.addr \in Homes, NEW q \in Products!Queries, Products!Ensure(q)
  PROVE  ShelfInv' /\ past'.lost = past.lost /\ aisle'.query = q
<1>1. CASE q \in aisle.loaded
  <2>1. aisle' = [aisle EXCEPT !.query = q, !.pending = FALSE] /\ UNCHANGED <<shelf, loads, past>>
    BY <1>1 DEF Products!Ensure
  <2>2. /\ aisle' \in [query : Wanted, pending : BOOLEAN, loaded : SUBSET Products!Queries]
        /\ aisle'.query = q /\ ~aisle'.pending
    BY <2>1 DEF ShelfInv, Wanted
  <2> QED BY <2>1, <2>2 DEF ShelfInv, Products!LoaderEnds, Products!AnswersReplaceCopies
<1>2. CASE q \notin aisle.loaded
  <2>1. PICK a \in Homes : a = view.addr
    OBVIOUS
  <2> QED BY <1>2, <2>1, ListFetched DEF Products!Ensure
<1> QED BY <1>1, <1>2

LEMMA RailLoaded ==
  ASSUME ProdInv, Products!LoadRail(column.active)
  PROVE  ShelfInv' /\ past'.lost = past.lost /\ aisle'.query \in Wanted
<1>1. CASE column.active = 0
  BY <1>1, ShelfStays DEF ProdInv, ShelfInv, Products!LoadRail, Products!Search, Products!Stays
<1>2. CASE column.active # 0
  <2>1. column.active \in 0..Len(Aisles)
    BY DEF ProdInv, AisleInv
  <2>2. PICK q \in Products!Queries : q = Aisles[column.active]
    BY <1>2, <2>1, AisleQueries
  <2>3. Products!Ensure(q)
    BY <1>2, <2>2 DEF Products!LoadRail, Products!Search
  <2> QED BY <2>3, ListEnsured DEF ProdInv, AisleInv, Wanted
<1> QED BY <1>1, <1>2

-----------------------------------------------------------------------------
(* What a step does to the shelves of Instamart                              *)

Views == [where : {"away", "instamart", "checkout", "picker"}, addr : Homes, gate : BOOLEAN,
          shown : Homes \X Wanted]

\* The screen shows the rows of where it is at by then, or it shows none.
LEMMA RowsPainted ==
  ASSUME ProdInv, ShelfInv', past'.lost = past.lost, view' \in Views, view'.gate => past.lost # 0,
         view'.where \in {"instamart", "picker"} /\ past.lost = 0 => view'.shown = <<view'.addr, aisle'.query>>,
         column' \in [active : 0..2, focus : BOOLEAN, settle : BOOLEAN],
         box' \in [on : BOOLEAN, text : Wanted, submitted : Wanted]
  PROVE  ProdInv'
BY AisleQueries DEF ProdInv, AisleInv, Views

LEMMA RowsRebuilt ==
  ASSUME NEW v \in Views, NEW q \in Wanted
  PROVE  /\ Products!Rebuilt(v, q) \in Views
         /\ Products!Rebuilt(v, q).shown = <<v.addr, q>> /\ Products!Rebuilt(v, q).addr = v.addr
         /\ Products!Rebuilt(v, q).gate = v.gate /\ Products!Rebuilt(v, q).where = v.where
BY DEF Products!Rebuilt, Views

LEMMA ScreenLeft ==
  ASSUME NEW v \in Views, NEW w \in {"away", "instamart", "checkout", "picker"}
  PROVE  /\ [v EXCEPT !.where = w] \in Views /\ [v EXCEPT !.where = w].where = w
         /\ [v EXCEPT !.where = w].addr = v.addr /\ [v EXCEPT !.where = w].gate = v.gate
         /\ [v EXCEPT !.where = w].shown = v.shown
BY DEF Views

\* What is typed of the screen, in pieces.
LEMMA AisleTypes ==
  ASSUME ProdInv
  PROVE  /\ view \in Views /\ view.addr \in Homes /\ view.gate \in BOOLEAN
         /\ view.gate => past.lost # 0
         /\ view.where \in {"instamart", "picker"} /\ past.lost = 0 => view.shown = <<view.addr, aisle.query>>
         /\ aisle.query \in Wanted /\ box.text \in Wanted /\ box.submitted \in Wanted /\ box.on \in BOOLEAN
         /\ column.active \in 0..2 /\ column.focus \in BOOLEAN /\ column.settle \in BOOLEAN
         /\ column \in [active : 0..2, focus : BOOLEAN, settle : BOOLEAN]
         /\ box \in [on : BOOLEAN, text : Wanted, submitted : Wanted]
         /\ past.lost \in Nat
BY AisleQueries DEF ProdInv, ShelfInv, AisleInv, Views

LEMMA ColumnJumps ==
  ASSUME NEW f \in [active : 0..2, focus : BOOLEAN, settle : BOOLEAN]
  PROVE  /\ [f EXCEPT !.active = 1, !.focus = TRUE] \in [active : 0..2, focus : BOOLEAN, settle : BOOLEAN]
         /\ [f EXCEPT !.active = 0, !.focus = FALSE] \in [active : 0..2, focus : BOOLEAN, settle : BOOLEAN]
<1>1. \A i \in 0..2, on \in BOOLEAN :
        [f EXCEPT !.active = i, !.focus = on] \in [active : 0..2, focus : BOOLEAN, settle : BOOLEAN]
  OBVIOUS
<1>2. 1 \in 0..2 /\ 0 \in 0..2
  OBVIOUS
<1> QED BY <1>1, <1>2, Zenon

LEMMA ComesAndGoes ==
  ASSUME ProdInv, Products!Enter \/ Products!Leave \/ Products!Checkout \/ Products!Back \/ Products!Picker
  PROVE  ProdInv'
<1>1. CASE Products!Enter
  <2>1. Aisles[1] \in Products!Queries /\ Aisles[1] \in Wanted
    BY AisleQueries DEF Wanted
  <2>2. PICK a \in Homes : a = view.addr
    BY AisleTypes
  <2>3. ShelfInv' /\ past'.lost = past.lost /\ aisle'.query = Aisles[1]
    BY <1>1, <2>1, <2>2, ListFetched DEF ProdInv, Products!Enter, Products!Entered
  <2>4. view' = Products!Rebuilt([view EXCEPT !.where = "instamart"], Aisles[1])
    BY <1>1 DEF Products!Enter, Products!Entered
  <2>5. /\ view' \in Views /\ view'.shown = <<view'.addr, Aisles[1]>> /\ view'.gate = view.gate
    <3>1. /\ [view EXCEPT !.where = "instamart"] \in Views
          /\ [view EXCEPT !.where = "instamart"].gate = view.gate
      BY AisleTypes, ScreenLeft
    <3> QED BY <2>1, <2>4, <3>1, RowsRebuilt
  <2>6. /\ column' = [column EXCEPT !.active = 1, !.focus = TRUE]
        /\ box' = [box EXCEPT !.on = FALSE, !.submitted = NoQuery]
    BY <1>1 DEF Products!Enter, Products!Entered
  <2>7. column' \in [active : 0..2, focus : BOOLEAN, settle : BOOLEAN]
    BY <2>6, AisleTypes, ColumnJumps
  <2>8. box' \in [on : BOOLEAN, text : Wanted, submitted : Wanted]
    BY <2>6, AisleTypes DEF Wanted
  <2> QED BY <2>3, <2>5, <2>7, <2>8, AisleTypes, RowsPainted
<1>2. CASE Products!Leave \/ Products!Checkout \/ Products!Picker
  <2>1. PICK w \in {"away", "checkout", "picker"} :
          /\ view' = [view EXCEPT !.where = w] /\ column' = [column EXCEPT !.focus = FALSE]
          /\ UNCHANGED box /\ Products!Stays /\ view.where = "instamart"
    BY <1>2 DEF Products!Leave, Products!Checkout, Products!Picker, Products!Here
  <2>2. ShelfInv' /\ past' = past /\ aisle' = aisle
    BY <2>1, ShelfStays DEF ProdInv
  <2>3. /\ view' \in Views /\ view'.shown = view.shown /\ view'.addr = view.addr /\ view'.gate = view.gate
    <3>1. w \in {"away", "instamart", "checkout", "picker"}
      OBVIOUS
    <3> QED BY <2>1, <3>1, AisleTypes, ScreenLeft
  <2>4. column' \in [active : 0..2, focus : BOOLEAN, settle : BOOLEAN]
    BY <2>1, AisleTypes
  <2> QED BY <2>1, <2>2, <2>3, <2>4, AisleTypes, RowsPainted
<1>3. CASE Products!Back
  <2>1. /\ view' \in {Products!Rebuilt([view EXCEPT !.where = "instamart"], aisle.query), [view EXCEPT !.where = "away"]}
        /\ UNCHANGED <<column, box>> /\ Products!Stays
    BY <1>3 DEF Products!Back
  <2>2. ShelfInv' /\ past' = past /\ aisle' = aisle
    BY <2>1, ShelfStays DEF ProdInv
  <2>3. CASE view' = [view EXCEPT !.where = "away"]
    <3>1. view' \in Views /\ view'.where = "away" /\ view'.gate = view.gate
      BY <2>3, AisleTypes, ScreenLeft
    <3> QED BY <2>1, <2>2, <3>1, AisleTypes, RowsPainted
  <2>4. CASE view' = Products!Rebuilt([view EXCEPT !.where = "instamart"], aisle.query)
    <3>1. view' \in Views /\ view'.shown = <<view'.addr, aisle.query>> /\ view'.gate = view.gate
      <4>1. /\ [view EXCEPT !.where = "instamart"] \in Views
            /\ [view EXCEPT !.where = "instamart"].gate = view.gate
        BY AisleTypes, ScreenLeft
      <4> QED BY <2>4, <4>1, AisleTypes, RowsRebuilt
    <3> QED BY <2>1, <2>2, <3>1, AisleTypes, RowsPainted
  <2> QED BY <2>1, <2>3, <2>4
<1> QED BY <1>1, <1>2, <1>3

LEMMA AddressPicked ==
  ASSUME ProdInv, NEW a \in Homes, Products!Pick(a) \/ Products!PickElsewhere(a) \/ Products!SignIn(a)
  PROVE  ProdInv'
<1>1. CASE Products!Pick(a) /\ a = view.addr
  <2>1. /\ view' = [view EXCEPT !.where = "instamart"] /\ view.where = "picker"
        /\ UNCHANGED <<column, box>> /\ Products!Stays
    BY <1>1 DEF Products!Pick
  <2>2. ShelfInv' /\ past' = past /\ aisle' = aisle
    BY <2>1, ShelfStays DEF ProdInv
  <2>3. view' \in Views /\ view'.shown = view.shown /\ view'.addr = view.addr /\ view'.gate = view.gate
    BY <2>1, AisleTypes, ScreenLeft
  <2> QED BY <2>1, <2>2, <2>3, AisleTypes, RowsPainted
<1>2. CASE Products!Pick(a) /\ a # view.addr
  <2>1. PICK copy \in BOOLEAN :
          /\ shelf' = IF copy THEN [shelf EXCEPT ![a][Aisles[1]] = "copy"] ELSE shelf
          /\ aisle' = [query |-> Aisles[1], pending |-> ~copy, loaded |-> {Aisles[1]}]
    BY <1>2 DEF Products!Pick
  <2>2. /\ loads' = loads \cup {Products!Load(a, Aisles[1])} /\ past' = [past EXCEPT !.made = @ + 1]
        /\ view' = [view EXCEPT !.where = "instamart", !.addr = a, !.shown = <<a, Aisles[1]>>]
        /\ column' = [column EXCEPT !.active = 1, !.focus = TRUE]
        /\ box' = [box EXCEPT !.on = FALSE, !.submitted = NoQuery]
    BY <1>2 DEF Products!Pick
  <2>3. Aisles[1] \in Products!Queries /\ Aisles[1] \in Wanted /\ {Aisles[1]} \in SUBSET Products!Queries
    BY AisleQueries DEF Wanted
  <2>4. ShelfInv' /\ past'.lost = past.lost /\ aisle'.query = Aisles[1]
    BY <2>1, <2>2, <2>3, CallAsked DEF ProdInv
  <2>5. column' \in [active : 0..2, focus : BOOLEAN, settle : BOOLEAN]
    BY <2>2, AisleTypes, ColumnJumps
  <2>7. box' \in [on : BOOLEAN, text : Wanted, submitted : Wanted]
    BY <2>2, AisleTypes DEF Wanted
  <2>6. /\ view' \in Views /\ view'.shown = <<view'.addr, Aisles[1]>> /\ view'.gate = view.gate
    BY <2>2, <2>3, AisleTypes DEF Views
  <2> QED BY <2>4, <2>5, <2>6, <2>7, AisleTypes, RowsPainted
<1>3. CASE Products!PickElsewhere(a)
  <2>1. /\ view' = [view EXCEPT !.addr = a] /\ aisle' = [aisle EXCEPT !.loaded = {}] /\ view.where = "away"
        /\ UNCHANGED <<column, box, shelf, loads, past>>
    BY <1>3 DEF Products!PickElsewhere
  <2>2. aisle' \in [query : Wanted, pending : BOOLEAN, loaded : SUBSET Products!Queries]
        /\ aisle'.query = aisle.query /\ aisle'.pending = aisle.pending
    BY <2>1 DEF ProdInv, ShelfInv
  <2>3. ShelfInv'
    BY <2>1, <2>2 DEF ProdInv, ShelfInv, Products!LoaderEnds, Products!AnswersReplaceCopies
  <2>4. view' \in Views /\ view'.where = "away" /\ view'.gate = view.gate
    BY <2>1, AisleTypes DEF Views
  <2> QED BY <2>1, <2>3, <2>4, AisleTypes, RowsPainted
<1>4. CASE Products!SignIn(a)
  <2>1. /\ view.gate /\ view' = [view EXCEPT !.gate = FALSE, !.addr = a]
        /\ UNCHANGED <<column, box, aisle, shelf, loads, past>>
    BY <1>4 DEF Products!SignIn
  <2>2. ShelfInv'
    BY <2>1 DEF ProdInv, ShelfInv, Products!LoaderEnds, Products!AnswersReplaceCopies
  <2>3. view' \in Views /\ past.lost # 0 /\ view'.gate = FALSE
    BY <2>1, AisleTypes DEF Views
  <2> QED BY <2>1, <2>2, <2>3, AisleTypes, RowsPainted
<1> QED BY <1>1, <1>2, <1>3, <1>4

\* The rows are painted from what Paint finds.
LEMMA Painted ==
  ASSUME ProdInv, ShelfInv', past'.lost = past.lost, aisle'.query \in Wanted,
         view' = Products!Rebuilt(view, aisle'.query),
         column' \in [active : 0..2, focus : BOOLEAN, settle : BOOLEAN],
         box' \in [on : BOOLEAN, text : Wanted, submitted : Wanted]
  PROVE  ProdInv'
<1>1. PICK q \in Wanted : q = aisle'.query
  OBVIOUS
<1>2. PICK v \in Views : v = view
  BY AisleTypes
<1>3. /\ view' \in Views /\ view'.shown = <<view'.addr, q>> /\ view'.gate = view.gate
  BY <1>1, <1>2, RowsRebuilt
<1> QED BY <1>1, <1>3, AisleTypes, RowsPainted

LEMMA StaysPainted ==
  ASSUME ProdInv, Products!Stays, view' = Products!Rebuilt(view, aisle.query),
         column' \in [active : 0..2, focus : BOOLEAN, settle : BOOLEAN],
         box' \in [on : BOOLEAN, text : Wanted, submitted : Wanted]
  PROVE  ProdInv'
BY ShelfStays, AisleTypes, Painted DEF ProdInv

LEMMA StaysUnseen ==
  ASSUME ProdInv, Products!Stays, view' = view,
         column' \in [active : 0..2, focus : BOOLEAN, settle : BOOLEAN],
         box' \in [on : BOOLEAN, text : Wanted, submitted : Wanted]
  PROVE  ProdInv'
BY ShelfStays, AisleTypes, RowsPainted DEF ProdInv

LEMMA WordsSearched ==
  ASSUME ProdInv, Products!Slash \/ Products!Write \/ Products!Submit \/ Products!EscSearch
  PROVE  ProdInv'
<1>1. CASE Products!Slash
  <2>1. /\ column' = [column EXCEPT !.active = 0, !.focus = FALSE]
        /\ box' = [box EXCEPT !.on = TRUE, !.text = box.submitted]
        /\ view' = Products!Rebuilt(view, aisle.query) /\ Products!Stays
    BY <1>1 DEF Products!Slash, Products!Search
  <2>2. column' \in [active : 0..2, focus : BOOLEAN, settle : BOOLEAN]
    BY <2>1, AisleTypes, ColumnJumps
  <2>3. box' \in [on : BOOLEAN, text : Wanted, submitted : Wanted]
    BY <2>1, AisleTypes
  <2> QED BY <2>1, <2>2, <2>3, StaysPainted
<1>2. CASE Products!Write
  <2>1. \A w \in Words \cup {NoQuery} : w \in Wanted
    BY AisleQueries DEF Wanted
  <2>2. CASE /\ UNCHANGED <<column, view>> /\ Products!Stays
             /\ \E w \in Words \cup {NoQuery} : box' = [box EXCEPT !.text = w]
    <3>1. box' \in [on : BOOLEAN, text : Wanted, submitted : Wanted]
      BY <2>1, <2>2, AisleTypes
    <3> QED BY <2>2, <3>1, AisleTypes, StaysUnseen
  <2>3. CASE /\ column' = [column EXCEPT !.focus = FALSE] /\ Products!Stays
             /\ \E w \in Words : box' = [box EXCEPT !.on = TRUE, !.text = w]
             /\ view' = Products!Rebuilt(view, aisle.query)
    <3>1. box' \in [on : BOOLEAN, text : Wanted, submitted : Wanted]
      BY <2>1, <2>3, AisleTypes
    <3>2. column' \in [active : 0..2, focus : BOOLEAN, settle : BOOLEAN]
      BY <2>3, AisleTypes
    <3> QED BY <2>3, <3>1, <3>2, StaysPainted
  <2> QED BY <1>2, <2>2, <2>3 DEF Products!Write
<1>3. CASE Products!Submit
  <2>1. PICK q \in Products!Queries : q = box.text
    BY <1>3, AisleTypes DEF Products!Submit, Wanted
  <2>2. PICK a \in Homes : a = view.addr
    BY AisleTypes
  <2>3. /\ box' = [box EXCEPT !.on = FALSE, !.submitted = box.text] /\ Products!Fetch(a, q)
        /\ view' = Products!Rebuilt(view, aisle'.query) /\ column' = column
    BY <1>3, <2>1, <2>2 DEF Products!Submit, Products!Paint
  <2>4. ShelfInv' /\ past'.lost = past.lost /\ aisle'.query \in Wanted
    BY <2>3, ListFetched DEF ProdInv, Wanted
  <2>5. box' \in [on : BOOLEAN, text : Wanted, submitted : Wanted]
    BY <2>3, AisleTypes
  <2> QED BY <2>3, <2>4, <2>5, AisleTypes, Painted
<1>4. CASE Products!EscSearch
  <2>1. /\ box' = [on |-> FALSE, text |-> NoQuery, submitted |-> NoQuery]
        /\ column' = [column EXCEPT !.active = 1, !.focus = TRUE]
        /\ Products!Ensure(Aisles[1]) /\ view' = Products!Rebuilt(view, aisle'.query)
    BY <1>4 DEF Products!EscSearch, Products!Paint
  <2>2. ShelfInv' /\ past'.lost = past.lost /\ aisle'.query \in Wanted
    BY <2>1, AisleQueries, AisleTypes, ListEnsured DEF ProdInv, Wanted
  <2>3. column' \in [active : 0..2, focus : BOOLEAN, settle : BOOLEAN]
    BY <2>1, AisleTypes, ColumnJumps
  <2>4. box' \in [on : BOOLEAN, text : Wanted, submitted : Wanted]
    BY <2>1 DEF Wanted
  <2> QED BY <2>1, <2>2, <2>3, <2>4, Painted
<1> QED BY <1>1, <1>2, <1>3, <1>4

LEMMA RailMoved ==
  ASSUME ProdInv,
         \/ \E i \in Products!Search..Len(Aisles) : Products!Move(i)
         \/ Products!Open \/ Products!Focus \/ Products!Settle
  PROVE  ProdInv'
<1>1. ASSUME NEW i \in 0..Len(Aisles), Products!Move(i) PROVE ProdInv'
  <2>1. /\ column' = [column EXCEPT !.active = i, !.settle = TRUE]
        /\ box' = IF i = 0 THEN [box EXCEPT !.on = TRUE, !.text = NoQuery] ELSE [box EXCEPT !.on = FALSE]
        /\ view' = Products!Rebuilt(view, aisle.query) /\ Products!Stays
    BY <1>1 DEF Products!Move, Products!Search, Products!Synced
  <2>2. column' \in [active : 0..2, focus : BOOLEAN, settle : BOOLEAN]
    BY <2>1, AisleTypes, AisleQueries
  <2>3. box' \in [on : BOOLEAN, text : Wanted, submitted : Wanted]
    BY <2>1, AisleTypes DEF Wanted
  <2> QED BY <2>1, <2>2, <2>3, StaysPainted
<1>2. CASE Products!Open
  <2>1. /\ column' = [column EXCEPT !.focus = FALSE, !.settle = FALSE]
        /\ view' = Products!Rebuilt(view, aisle'.query)
    BY <1>2 DEF Products!Open, Products!Paint
  <2>2. column' \in [active : 0..2, focus : BOOLEAN, settle : BOOLEAN]
    BY <2>1, AisleTypes
  <2>3. CASE box' = [box EXCEPT !.on = TRUE, !.text = NoQuery] /\ Products!Stays
    <3>1. box' \in [on : BOOLEAN, text : Wanted, submitted : Wanted]
      BY <2>3, AisleTypes DEF Wanted
    <3>2. aisle' = aisle
      BY <2>3 DEF Products!Stays
    <3> QED BY <2>1, <2>2, <2>3, <3>1, <3>2, StaysPainted
  <2>4. CASE box' = [box EXCEPT !.on = FALSE, !.submitted = NoQuery] /\ Products!LoadRail(column.active)
    <3>1. box' \in [on : BOOLEAN, text : Wanted, submitted : Wanted]
      BY <2>4, AisleTypes DEF Wanted
    <3> QED BY <2>1, <2>2, <2>4, <3>1, RailLoaded, Painted
  <2> QED BY <1>2, <2>3, <2>4 DEF Products!Open
<1>3. CASE Products!Focus
  <2>1. /\ column' = [column EXCEPT !.focus = ~column.focus]
        /\ view' = Products!Rebuilt(view, aisle.query) /\ UNCHANGED box /\ Products!Stays
    BY <1>3 DEF Products!Focus
  <2>2. column' \in [active : 0..2, focus : BOOLEAN, settle : BOOLEAN]
    BY <2>1, AisleTypes
  <2> QED BY <2>1, <2>2, AisleTypes, StaysPainted
<1>4. CASE Products!Settle
  <2>1. column' = [column EXCEPT !.settle = FALSE]
    BY <1>4 DEF Products!Settle
  <2>2. column' \in [active : 0..2, focus : BOOLEAN, settle : BOOLEAN]
    BY <2>1, AisleTypes
  <2>3. CASE UNCHANGED <<box, view>> /\ Products!Stays
    BY <2>2, <2>3, AisleTypes, StaysUnseen
  <2>4. CASE /\ box' = [box EXCEPT !.submitted = NoQuery] /\ Products!LoadRail(column.active)
             /\ view' = Products!Rebuilt(view, aisle'.query)
    <3>1. box' \in [on : BOOLEAN, text : Wanted, submitted : Wanted]
      BY <2>4, AisleTypes DEF Wanted
    <3> QED BY <2>2, <2>4, <3>1, RailLoaded, Painted
  <2> QED BY <1>4, <2>3, <2>4 DEF Products!Settle, Products!Paint
<1> QED BY <1>1, <1>2, <1>3, <1>4 DEF Products!Search

\* Only a call that found no session raises the gate, and only a list that was fetched
\* takes the copy's place.
LEMMA AnswerComes ==
  ASSUME ProdInv, NEW c \in loads, Products!Land(c) \/ Products!Told(c)
  PROVE  ProdInv'
<1> DEFINE Call(d) == /\ d = [id |-> d.id, addr |-> d.addr, query |-> d.query, at |-> d.at]
                      /\ d.addr \in Homes /\ d.query \in Products!Queries
                      /\ d.at \in {"asked", "done", "failed", "unauthorised"}
<1>1. /\ \A d \in loads : Call(d) /\ (d.at = "unauthorised" => past.lost # 0)
      /\ past \in [made : Nat, lost : Nat, well : [Homes -> [Products!Queries -> BOOLEAN]]]
      /\ shelf \in [Homes -> [Products!Queries -> {"none", "copy", "answer"}]]
  BY DEF ProdInv, ShelfInv
<1>2. CASE Products!Land(c)
  <2>1. PICK at \in {"done", "failed", "unauthorised"} :
          /\ loads' = (loads \ {c}) \cup {[c EXCEPT !.at = at]}
          /\ \/ /\ at = "done" /\ shelf' = [shelf EXCEPT ![c.addr][c.query] = "answer"]
                /\ past' = [past EXCEPT !.well[c.addr][c.query] = TRUE]
             \/ /\ at = "failed" /\ shelf' = shelf
                /\ past' = [past EXCEPT !.well[c.addr][c.query] = FALSE]
             \/ /\ at = "unauthorised" /\ shelf' = shelf
                /\ past' = [past EXCEPT !.well[c.addr][c.query] = FALSE, !.lost = @ + 1]
    BY <1>2 DEF Products!Land
  <2>2. c.at = "asked" /\ UNCHANGED <<view, column, box, aisle>>
    BY <1>2 DEF Products!Land
  <2> DEFINE d == [c EXCEPT !.at = at]
  <2>3. Call(d) /\ d.addr = c.addr /\ d.query = c.query /\ d.at = at
    BY <1>1, <2>1
  <2>4. past.lost + 1 \in Nat /\ past.lost + 1 # 0
    BY <1>1
  <2>4a. c.addr \in Homes /\ c.query \in Products!Queries
    BY <1>1
  <2> DEFINE good == [past.well EXCEPT ![c.addr][c.query] = TRUE]
             ill == [past.well EXCEPT ![c.addr][c.query] = FALSE]
             well == IF at = "done" THEN good ELSE ill
             lost == IF at = "unauthorised" THEN past.lost + 1 ELSE past.lost
  <2>5. past' = [made |-> past.made, lost |-> lost, well |-> well]
    <3>1. CASE at = "done"
      BY <1>1, <2>1, <3>1
    <3>2. CASE at = "failed"
      BY <1>1, <2>1, <3>2
    <3>3. CASE at = "unauthorised"
      BY <1>1, <2>1, <3>3
    <3> QED BY <2>1, <3>1, <3>2, <3>3
  <2>14. /\ lost \in Nat /\ (lost = past.lost \/ lost # 0) /\ (at = "unauthorised" => lost # 0)
         /\ past.lost # 0 => lost # 0
    BY <1>1, <2>4
  <2>16. /\ well \in [Homes -> [Products!Queries -> BOOLEAN]]
         /\ \A h \in Homes, r \in Products!Queries : ~(h = c.addr /\ r = c.query) => well[h][r] = past.well[h][r]
         /\ at # "done" => well[c.addr][c.query] = FALSE
    <3>1. CASE at = "done"
      <4>1. well = good
        BY <3>1
      <4>2. good \in [Homes -> [Products!Queries -> BOOLEAN]]
        BY <1>1, <2>4a
      <4>3. \A h \in Homes, r \in Products!Queries : ~(h = c.addr /\ r = c.query) => good[h][r] = past.well[h][r]
        BY <1>1, <2>4a
      <4> HIDE DEF good, well
      <4> QED BY <3>1, <4>1, <4>2, <4>3
    <3>2. CASE at # "done"
      <4>1. well = ill
        BY <3>2
      <4>2. ill \in [Homes -> [Products!Queries -> BOOLEAN]]
        BY <1>1, <2>4a
      <4>3. \A h \in Homes, r \in Products!Queries : ~(h = c.addr /\ r = c.query) => ill[h][r] = past.well[h][r]
        BY <1>1, <2>4a
      <4>4. ill[c.addr][c.query] = FALSE
        BY <1>1, <2>4a
      <4> HIDE DEF ill, well
      <4> QED BY <3>2, <4>1, <4>2, <4>3, <4>4
    <3> QED BY <3>1, <3>2
  <2> HIDE DEF lost, well, good, ill
  <2>17. past'.lost = lost /\ past'.well = well
    BY <2>5
  <2>18. past' \in [made : Nat, lost : Nat, well : [Homes -> [Products!Queries -> BOOLEAN]]]
    BY <1>1, <2>5, <2>14, <2>16
  <2>6. shelf' \in [Homes -> [Products!Queries -> {"none", "copy", "answer"}]]
    <3>1. [shelf EXCEPT ![c.addr][c.query] = "answer"] \in [Homes -> [Products!Queries -> {"none", "copy", "answer"}]]
      BY <1>1, <2>4a
    <3>2. shelf' = shelf \/ shelf' = [shelf EXCEPT ![c.addr][c.query] = "answer"]
      BY <2>1
    <3> QED BY <1>1, <3>1, <3>2
  <2>19. \A h \in Homes, r \in Products!Queries : ~(h = c.addr /\ r = c.query) => shelf'[h][r] = shelf[h][r]
    BY <1>1, <2>1, <2>4a
  <2>20. at = "done" => shelf'[c.addr][c.query] = "answer"
    BY <1>1, <2>1, <2>4a
  <2>7. loads' = (loads \ {c}) \cup {d}
    BY <2>1
  <2> HIDE DEF d
  <2>8. \A e \in loads' : Call(e) /\ (e.at = "unauthorised" => past'.lost # 0)
    BY <1>1, <2>3, <2>14, <2>17, <2>7
  <2>9. Products!LoaderEnds'
    BY <2>2, <2>3, <2>14, <2>17, <2>7 DEF ProdInv, ShelfInv, Products!LoaderEnds
  <2>10. Products!AnswersReplaceCopies'
    <3> SUFFICES ASSUME NEW h \in Homes, NEW r \in Products!Queries, past'.well[h][r],
                        \A e \in loads' : ~(e.addr = h /\ e.query = r /\ e.at = "asked")
                 PROVE  shelf'[h][r] # "copy"
      BY DEF Products!AnswersReplaceCopies
    <3>1. CASE h = c.addr /\ r = c.query
      BY <2>16, <2>17, <2>20, <3>1
    <3>2. CASE ~(h = c.addr /\ r = c.query)
      <4>1. past.well[h][r] /\ shelf'[h][r] = shelf[h][r]
        BY <2>16, <2>17, <2>19, <3>2
      <4>2. \A e \in loads : ~(e.addr = h /\ e.query = r /\ e.at = "asked")
        BY <2>7, <3>2
      <4> QED BY <4>1, <4>2 DEF ProdInv, ShelfInv, Products!AnswersReplaceCopies
    <3> QED BY <3>1, <3>2
  <2>11. ShelfInv'
    BY <2>2, <2>6, <2>8, <2>9, <2>10, <2>18 DEF ProdInv, ShelfInv
  <2>12. AisleInv'
    BY <2>2, <2>14, <2>17 DEF ProdInv, AisleInv
  <2> QED BY <2>11, <2>12 DEF ProdInv
<1>3. CASE Products!Told(c)
  <2>1. c.at # "asked" /\ loads' = loads \ {c} /\ UNCHANGED <<column, box, shelf, past>>
    BY <1>3 DEF Products!Told
  <2>2. /\ \A e \in loads' : Call(e) /\ (e.at = "unauthorised" => past.lost # 0)
        /\ Products!AnswersReplaceCopies'
    BY <1>1, <2>1 DEF ProdInv, ShelfInv, Products!AnswersReplaceCopies
  <2>3. CASE c.at = "unauthorised"
    <3>1. past.lost # 0 /\ view' = [view EXCEPT !.gate = TRUE] /\ aisle' = aisle
      BY <1>1, <1>3, <2>3 DEF Products!Told
    <3>2. ShelfInv'
      BY <2>1, <2>2, <3>1 DEF ProdInv, ShelfInv, Products!LoaderEnds
    <3>3. view' \in Views
      BY <3>1, AisleTypes DEF Views
    <3> QED BY <2>1, <3>1, <3>2, <3>3, AisleTypes, RowsPainted
  <2>4. CASE c.at # "unauthorised" /\ c.query # aisle.query
    <3>1. view' = view /\ aisle' = aisle
      BY <1>3, <2>4 DEF Products!Told
    <3>2. ShelfInv'
      BY <2>1, <2>2, <2>4, <3>1 DEF ProdInv, ShelfInv, Products!LoaderEnds
    <3> QED BY <2>1, <3>1, <3>2 DEF ProdInv, AisleInv
  <2>5. CASE c.at # "unauthorised" /\ c.query = aisle.query
    <3>1. /\ aisle' = [aisle EXCEPT !.pending = FALSE]
          /\ view' = IF c.at = "done" THEN Products!Rebuilt(view, aisle.query) ELSE view
      BY <1>3, <2>5 DEF Products!Told
    <3>2. /\ aisle' \in [query : Wanted, pending : BOOLEAN, loaded : SUBSET Products!Queries]
          /\ ~aisle'.pending /\ aisle'.query = aisle.query
      BY <3>1 DEF ProdInv, ShelfInv
    <3>3. ShelfInv'
      BY <2>1, <2>2, <3>2 DEF ProdInv, ShelfInv, Products!LoaderEnds
    <3>4. CASE c.at = "done"
      BY <2>1, <3>1, <3>2, <3>3, <3>4, AisleTypes, Painted
    <3>5. CASE c.at # "done"
      BY <2>1, <3>1, <3>2, <3>3, <3>5, AisleTypes, RowsPainted
    <3> QED BY <3>4, <3>5
  <2> QED BY <2>3, <2>4, <2>5
<1> QED BY <1>2, <1>3

LEMMA ProdNext == ASSUME ProdInv, [BothNext]_everything PROVE ProdInv'
<1>1. CASE UNCHANGED shopVars
  BY <1>1 DEF shopVars, ProdInv, ShelfInv, AisleInv, Products!LoaderEnds, Products!AnswersReplaceCopies
<1>2. CASE Products!Next
  BY <1>2, ComesAndGoes, AddressPicked, WordsSearched, RailMoved, AnswerComes DEF Products!Next
<1> QED BY <1>1, <1>2 DEF BothNext, everything

-----------------------------------------------------------------------------
(* The streams that fill the lists of restaurants                            *)

\* The value of browse: every page call knows the stream it is of, and the calls of the
\* stream that is alive are one call.
Streams(b) ==
  /\ b = [gen |-> b.gen, seeded |-> b.seeded, waiting |-> b.waiting, addressesLoaded |-> b.addressesLoaded,
          lists |-> b.lists, calls |-> b.calls]
  /\ b.gen \in Nat /\ b.waiting \in BOOLEAN
  /\ \A c \in b.calls :
       /\ c = [kind |-> c.kind, addr |-> c.addr, query |-> c.query, page |-> c.page, gen |-> c.gen, at |-> c.at]
       /\ c.kind = "page" => c.gen \in 0..b.gen
  /\ \A c, d \in b.calls : c.kind = "page" /\ d.kind = "page" /\ c.gen = b.gen /\ d.gen = b.gen => c = d

Released(b) == \E c \in b.calls : c.kind \in {"page", "addresses"}

\* What waits at launch waits for a page, or for the addresses that will ask for one: they
\* do only when the gate is behind the user.
PlacesInv ==
  /\ Streams(browse)
  /\ session = [needsAuth |-> session.needsAuth, lost |-> session.lost]
  /\ browse.waiting => gate = "passed" /\ (session.needsAuth \/ Released(browse))

\* One field changes.
LEMMA BrowseChanges ==
  ASSUME NEW g, NEW s, NEW w, NEW l, NEW m, NEW c, NEW x,
         NEW b, b = [gen |-> g, seeded |-> s, waiting |-> w, addressesLoaded |-> l, lists |-> m, calls |-> c]
  PROVE  /\ [b EXCEPT !.gen = x] =
              [gen |-> x, seeded |-> s, waiting |-> w, addressesLoaded |-> l, lists |-> m, calls |-> c]
         /\ [b EXCEPT !.seeded = x] =
              [gen |-> g, seeded |-> x, waiting |-> w, addressesLoaded |-> l, lists |-> m, calls |-> c]
         /\ [b EXCEPT !.waiting = x] =
              [gen |-> g, seeded |-> s, waiting |-> x, addressesLoaded |-> l, lists |-> m, calls |-> c]
         /\ [b EXCEPT !.addressesLoaded = x] =
              [gen |-> g, seeded |-> s, waiting |-> w, addressesLoaded |-> x, lists |-> m, calls |-> c]
         /\ [b EXCEPT !.lists = x] =
              [gen |-> g, seeded |-> s, waiting |-> w, addressesLoaded |-> l, lists |-> x, calls |-> c]
         /\ [b EXCEPT !.calls = x] =
              [gen |-> g, seeded |-> s, waiting |-> w, addressesLoaded |-> l, lists |-> m, calls |-> x]
OBVIOUS

\* A copy from the disk moves no call.
LEMMA SeedMovesNoCall ==
  ASSUME NEW b, Streams(b), NEW a, NEW q, NEW copy
  PROVE  Streams(Seeded(b, a, q, copy)) /\ Seeded(b, a, q, copy).gen = b.gen
         /\ Seeded(b, a, q, copy).calls = b.calls /\ Seeded(b, a, q, copy).waiting = b.waiting
<1> DEFINE s == [Put(b, a, Category(q), "seed") EXCEPT !.seeded = @ \cup {q}]
<1> DEFINE p == Put(b, a, Category(q), "seed")
           m == [b.lists EXCEPT ![a][Category(q)] = "seed"]
           x == b.seeded \cup {q}
<1>5. b = [gen |-> b.gen, seeded |-> b.seeded, waiting |-> b.waiting, addressesLoaded |-> b.addressesLoaded,
           lists |-> b.lists, calls |-> b.calls]
  BY DEF Streams
<1>6. p = [b EXCEPT !.lists = m]
  BY DEF Put
<1>7. p = [gen |-> b.gen, seeded |-> b.seeded, waiting |-> b.waiting, addressesLoaded |-> b.addressesLoaded,
           lists |-> m, calls |-> b.calls]
  <2> HIDE DEF p, m
  <2> QED BY <1>5, <1>6, BrowseChanges, Zenon
<1>8. s = [p EXCEPT !.seeded = x]
  <2>1. p.seeded = b.seeded
    BY <1>7
  <2> QED BY <2>1
<1>1. s = [gen |-> b.gen, seeded |-> x, waiting |-> b.waiting, addressesLoaded |-> b.addressesLoaded,
           lists |-> m, calls |-> b.calls]
  <2> HIDE DEF p, m, x, s
  <2> QED BY <1>7, <1>8, BrowseChanges, Zenon
<1>2. Seeded(b, a, q, copy) = b \/ Seeded(b, a, q, copy) = s
  BY DEF Seeded
<1> HIDE DEF s
<1>3. s.gen = b.gen /\ s.calls = b.calls /\ s.waiting = b.waiting
  BY <1>1
<1> QED BY <1>1, <1>2, <1>3 DEF Streams

LEMMA StartStreams ==
  ASSUME NEW b, Streams(b), NEW a, NEW q, NEW copy
  PROVE  /\ Streams(Start(b, a, q, copy)) /\ b.calls \subseteq Start(b, a, q, copy).calls
         /\ Start(b, a, q, copy).waiting = b.waiting
         /\ \E c \in Start(b, a, q, copy).calls : c.kind = "page"
<1> DEFINE s == Seeded(b, a, q, copy)
           n == [s EXCEPT !.gen = @ + 1]
           new == PlacesCall(a, q, 1, n.gen)
           r == Start(b, a, q, copy)
<1>1. Streams(s) /\ s.gen = b.gen /\ s.calls = b.calls /\ s.waiting = b.waiting
  BY SeedMovesNoCall
<1> HIDE DEF s
<1>2. n = [gen |-> b.gen + 1, seeded |-> s.seeded, waiting |-> b.waiting, addressesLoaded |-> s.addressesLoaded,
           lists |-> s.lists, calls |-> b.calls]
  BY <1>1 DEF Streams
<1>3. new = [kind |-> "page", addr |-> a, query |-> q, page |-> 1, gen |-> b.gen + 1, at |-> "asked"]
  BY <1>2 DEF PlacesCall
<1>4. r = [gen |-> b.gen + 1, seeded |-> s.seeded, waiting |-> b.waiting, addressesLoaded |-> s.addressesLoaded,
           lists |-> s.lists, calls |-> b.calls \cup {new}]
  <2>1. r = Calling(n, new)
    BY DEF Start, s
  <2>2. r = [n EXCEPT !.calls = b.calls \cup {new}]
    <3>1. n.calls = b.calls
      BY <1>2
    <3> HIDE DEF n, new, r
    <3> QED BY <2>1, <3>1 DEF Calling
  <2> HIDE DEF n, new, r
  <2> QED BY <1>2, <2>2, BrowseChanges, Zenon
<1>5. b.gen \in Nat /\ b.gen + 1 \in Nat
  BY DEF Streams
<1> HIDE DEF r, n, new
<1>6. /\ new.kind = "page" /\ new.gen = b.gen + 1
      /\ new = [kind |-> new.kind, addr |-> new.addr, query |-> new.query, page |-> new.page, gen |-> new.gen,
                at |-> new.at]
  BY <1>3
<1>7. r.gen = b.gen + 1 /\ r.calls = b.calls \cup {new} /\ r.waiting = b.waiting
  BY <1>4
<1>8. \A c \in b.calls : c.kind = "page" => c.gen \in 0..(b.gen + 1) /\ c.gen # b.gen + 1
  BY <1>5 DEF Streams
<1>9. Streams(r)
  BY <1>4, <1>5, <1>6, <1>7, <1>8 DEF Streams
<1> QED BY <1>6, <1>7, <1>9 DEF r

\* A list that is asked for or not, on the rail and on the way home.
LEMMA ListLoaded ==
  ASSUME NEW b, Streams(b), NEW a, NEW i, NEW copy
  PROVE  /\ Streams(EnsureHome(b, a, copy)) /\ b.calls \subseteq EnsureHome(b, a, copy).calls
         /\ EnsureHome(b, a, copy).waiting = b.waiting
         /\ Streams(LoadForRail(b, a, i, copy)) /\ b.calls \subseteq LoadForRail(b, a, i, copy).calls
         /\ LoadForRail(b, a, i, copy).waiting = b.waiting
<1>1. \/ LoadForRail(b, a, i, copy) = b \/ LoadForRail(b, a, i, copy) = EnsureHome(b, a, copy)
      \/ LoadForRail(b, a, i, copy) = EnsureQuery(b, a, QueryOf(i), copy)
  BY DEF LoadForRail
<1>2. \A q : \/ EnsureQuery(b, a, q, copy) = b \/ EnsureQuery(b, a, q, copy) = Start(b, a, q, copy)
  BY DEF EnsureQuery
<1>3. EnsureHome(b, a, copy) = b \/ EnsureHome(b, a, copy) = Start(b, a, HomeQuery, copy)
  BY DEF EnsureHome
<1>4. \A n : n = b \/ (\E q : n = Start(b, a, q, copy)) =>
             Streams(n) /\ b.calls \subseteq n.calls /\ n.waiting = b.waiting
  BY StartStreams
<1>5. \/ LoadForRail(b, a, i, copy) = b \/ \E q : LoadForRail(b, a, i, copy) = Start(b, a, q, copy)
  BY <1>1, <1>2, <1>3, Zenon
<1> QED BY <1>3, <1>4, <1>5, Zenon

\* What changes besides the calls and the number of the stream.
LEMMA ListsChange ==
  ASSUME NEW b, Streams(b), NEW x
  PROVE  /\ Streams([b EXCEPT !.seeded = x]) /\ [b EXCEPT !.seeded = x].calls = b.calls
         /\ [b EXCEPT !.seeded = x].waiting = b.waiting /\ [b EXCEPT !.seeded = x].gen = b.gen
         /\ Streams([b EXCEPT !.lists = x]) /\ [b EXCEPT !.lists = x].calls = b.calls
         /\ [b EXCEPT !.lists = x].waiting = b.waiting
<1>1. b = [gen |-> b.gen, seeded |-> b.seeded, waiting |-> b.waiting, addressesLoaded |-> b.addressesLoaded,
           lists |-> b.lists, calls |-> b.calls]
  BY DEF Streams
<1>2. ASSUME NEW n, NEW s, NEW m,
             n = [gen |-> b.gen, seeded |-> s, waiting |-> b.waiting, addressesLoaded |-> b.addressesLoaded,
                  lists |-> m, calls |-> b.calls]
      PROVE  Streams(n) /\ n.calls = b.calls /\ n.waiting = b.waiting /\ n.gen = b.gen
  BY <1>2 DEF Streams
<1>3. [b EXCEPT !.seeded = x] = [gen |-> b.gen, seeded |-> x, waiting |-> b.waiting,
          addressesLoaded |-> b.addressesLoaded, lists |-> b.lists, calls |-> b.calls]
  BY <1>1
<1>4. [b EXCEPT !.lists = x] = [gen |-> b.gen, seeded |-> b.seeded, waiting |-> b.waiting,
          addressesLoaded |-> b.addressesLoaded, lists |-> x, calls |-> b.calls]
  BY <1>1
<1> QED BY <1>2, <1>3, <1>4

LEMMA FlagsChange ==
  ASSUME NEW b, Streams(b), NEW y \in BOOLEAN
  PROVE  /\ Streams([b EXCEPT !.addressesLoaded = y]) /\ [b EXCEPT !.addressesLoaded = y].calls = b.calls
         /\ [b EXCEPT !.addressesLoaded = y].waiting = b.waiting
         /\ Streams([b EXCEPT !.waiting = y]) /\ [b EXCEPT !.waiting = y].calls = b.calls
         /\ [b EXCEPT !.waiting = y].gen = b.gen /\ [b EXCEPT !.waiting = y].waiting = y
<1>1. b = [gen |-> b.gen, seeded |-> b.seeded, waiting |-> b.waiting, addressesLoaded |-> b.addressesLoaded,
           lists |-> b.lists, calls |-> b.calls]
  BY DEF Streams
<1>2. [b EXCEPT !.waiting = y] = [gen |-> b.gen, seeded |-> b.seeded, waiting |-> y,
          addressesLoaded |-> b.addressesLoaded, lists |-> b.lists, calls |-> b.calls]
  BY <1>1
<1>3. [b EXCEPT !.addressesLoaded = y] = [gen |-> b.gen, seeded |-> b.seeded, waiting |-> b.waiting,
          addressesLoaded |-> y, lists |-> b.lists, calls |-> b.calls]
  BY <1>1
<1> QED BY <1>2, <1>3 DEF Streams

LEMMA HomeLoaded ==
  ASSUME NEW b, Streams(b), NEW a, NEW copy
  PROVE  /\ Streams(LoadHome(b, a, copy)) /\ b.calls \subseteq LoadHome(b, a, copy).calls
         /\ LoadHome(b, a, copy).waiting => Released(LoadHome(b, a, copy))
<1>1. CASE Fetched(b, a, HomeQuery)
  BY <1>1 DEF LoadHome, Streams
<1>2. CASE ~Fetched(b, a, HomeQuery)
  <2> DEFINE s == Start(b, a, HomeQuery, copy)
  <2>1. Streams(s) /\ b.calls \subseteq s.calls /\ \E c \in s.calls : c.kind = "page"
    BY StartStreams
  <2>2. LoadHome(b, a, copy) = [s EXCEPT !.waiting = TRUE]
    BY <1>2 DEF LoadHome
  <2> HIDE DEF s
  <2> DEFINE h == [s EXCEPT !.waiting = TRUE]
  <2>4. TRUE \in BOOLEAN
    OBVIOUS
  <2>3. h.calls = s.calls /\ Streams(h)
    BY <2>1, <2>4, FlagsChange, Zenon
  <2> HIDE DEF h
  <2> QED BY <2>1, <2>2, <2>3 DEF Released, h
<1> QED BY <1>1, <1>2

LEMMA PlacesInit == ASSUME BothInit PROVE PlacesInv
BY DEF BothInit, Init, PlacesInv, Streams, AddressCall

\* A call changes on its way, or leaves.
LEMMA CallMoves ==
  ASSUME NEW b, Streams(b), NEW c \in b.calls, NEW at
  PROVE  /\ Streams([b EXCEPT !.calls = (@ \ {c}) \cup {[c EXCEPT !.at = at]}])
         /\ Released(b) => Released([b EXCEPT !.calls = (@ \ {c}) \cup {[c EXCEPT !.at = at]}])
         /\ [b EXCEPT !.calls = (@ \ {c}) \cup {[c EXCEPT !.at = at]}].waiting = b.waiting
<1> DEFINE d == [c EXCEPT !.at = at]
           n == [b EXCEPT !.calls = (@ \ {c}) \cup {d}]
<1>1. b = [gen |-> b.gen, seeded |-> b.seeded, waiting |-> b.waiting, addressesLoaded |-> b.addressesLoaded,
           lists |-> b.lists, calls |-> b.calls]
  BY DEF Streams
<1>2. d = [kind |-> c.kind, addr |-> c.addr, query |-> c.query, page |-> c.page, gen |-> c.gen, at |-> at]
  BY DEF Streams
<1>3. /\ d.kind = c.kind /\ d.gen = c.gen
      /\ d = [kind |-> d.kind, addr |-> d.addr, query |-> d.query, page |-> d.page, gen |-> d.gen, at |-> d.at]
  BY <1>2
<1> HIDE DEF d
<1>4. n = [gen |-> b.gen, seeded |-> b.seeded, waiting |-> b.waiting, addressesLoaded |-> b.addressesLoaded,
           lists |-> b.lists, calls |-> (b.calls \ {c}) \cup {d}]
  BY <1>1
<1> HIDE DEF n
<1>5. n.gen = b.gen /\ n.calls = (b.calls \ {c}) \cup {d} /\ n.waiting = b.waiting
  BY <1>4
<1>6. Streams(n)
  BY <1>3, <1>4, <1>5 DEF Streams
<1>7. Released(b) => Released(n)
  BY <1>3, <1>5 DEF Released
<1> QED BY <1>5, <1>6, <1>7 DEF n, d

LEMMA CallLeaves ==
  ASSUME NEW b, Streams(b), NEW c \in b.calls
  PROVE  /\ Streams([b EXCEPT !.calls = @ \ {c}])
         /\ [b EXCEPT !.calls = @ \ {c}].waiting = b.waiting
         /\ [b EXCEPT !.calls = @ \ {c}].calls = b.calls \ {c} /\ [b EXCEPT !.calls = @ \ {c}].gen = b.gen
<1> DEFINE n == [b EXCEPT !.calls = @ \ {c}]
<1>1. n = [gen |-> b.gen, seeded |-> b.seeded, waiting |-> b.waiting, addressesLoaded |-> b.addressesLoaded,
           lists |-> b.lists, calls |-> b.calls \ {c}]
  BY DEF Streams
<1> HIDE DEF n
<1>2. n.gen = b.gen /\ n.calls = b.calls \ {c} /\ n.waiting = b.waiting
  BY <1>1
<1>3. Streams(n)
  BY <1>1, <1>2 DEF Streams
<1> QED BY <1>2, <1>3 DEF n

\* A call that no stream counts.
LEMMA CallAdded ==
  ASSUME NEW b, Streams(b), NEW c,
         c = [kind |-> c.kind, addr |-> c.addr, query |-> c.query, page |-> c.page, gen |-> c.gen, at |-> c.at],
         \/ c.kind # "page"
         \/ c.gen = b.gen /\ \A d \in b.calls : d.kind = "page" => d.gen # b.gen
  PROVE  Streams(Calling(b, c)) /\ Calling(b, c).calls = b.calls \cup {c} /\ Calling(b, c).waiting = b.waiting
<1> DEFINE n == Calling(b, c)
<1>4. b = [gen |-> b.gen, seeded |-> b.seeded, waiting |-> b.waiting, addressesLoaded |-> b.addressesLoaded,
           lists |-> b.lists, calls |-> b.calls]
  BY DEF Streams
<1>1. n = [gen |-> b.gen, seeded |-> b.seeded, waiting |-> b.waiting, addressesLoaded |-> b.addressesLoaded,
           lists |-> b.lists, calls |-> b.calls \cup {c}]
  BY <1>4 DEF Calling
<1> HIDE DEF n
<1>2. n.gen = b.gen /\ n.calls = b.calls \cup {c} /\ n.waiting = b.waiting
  BY <1>1
<1>3. Streams(n)
  BY <1>1, <1>2 DEF Streams
<1> QED BY <1>2, <1>3 DEF n

-----------------------------------------------------------------------------
(* What a step does to the streams                                           *)

LEMMA PlacesTypes ==
  ASSUME PlacesInv
  PROVE  /\ Streams(browse)
         /\ browse.waiting => gate = "passed" /\ (session.needsAuth \/ Released(browse))
         /\ session = [needsAuth |-> session.needsAuth, lost |-> session.lost]
BY DEF PlacesInv

\* A step whose calls only grow, and what waits is what waited.
LEMMA CallsGrow ==
  ASSUME PlacesInv, Streams(browse'), browse.calls \subseteq browse'.calls, browse'.waiting = browse.waiting,
         UNCHANGED session, gate' = gate \/ gate # "passed"
  PROVE  PlacesInv'
<1>1. browse'.waiting => gate' = "passed" /\ (session'.needsAuth \/ Released(browse)')
  BY DEF PlacesInv, Released
<1> QED BY <1>1 DEF PlacesInv, Streams, Released

LEMMA KeysMoveStreams ==
  ASSUME PlacesInv, UNCHANGED Place,
         \/ UNCHANGED browse
         \/ \E copy \in BOOLEAN : \E i : browse' = LoadForRail(browse, addr, i, copy)
         \/ \E copy \in BOOLEAN : browse' = EnsureHome(browse, addr, copy)
         \/ \E w : browse' = Calling(browse, SearchCall(addr, w))
  PROVE  PlacesInv'
<1>1. UNCHANGED <<session, gate>>
  BY DEF Place
<1>2. CASE UNCHANGED browse
  BY <1>1, <1>2, PlacesTypes, CallsGrow
<1>3. ASSUME NEW copy \in BOOLEAN, NEW i, browse' = LoadForRail(browse, addr, i, copy) PROVE PlacesInv'
  <2>1. PICK b : b = browse
    OBVIOUS
  <2>2. PICK a : a = addr
    OBVIOUS
  <2>3. Streams(LoadForRail(b, a, i, copy)) /\ b.calls \subseteq LoadForRail(b, a, i, copy).calls
        /\ LoadForRail(b, a, i, copy).waiting = b.waiting
    BY <2>1, ListLoaded, PlacesTypes
  <2> QED BY <1>1, <1>3, <2>1, <2>2, <2>3, CallsGrow
<1>4. ASSUME NEW copy \in BOOLEAN, browse' = EnsureHome(browse, addr, copy) PROVE PlacesInv'
  <2>1. PICK b : b = browse
    OBVIOUS
  <2>2. PICK a : a = addr
    OBVIOUS
  <2>3. Streams(EnsureHome(b, a, copy)) /\ b.calls \subseteq EnsureHome(b, a, copy).calls
        /\ EnsureHome(b, a, copy).waiting = b.waiting
    BY <2>1, ListLoaded, PlacesTypes
  <2> QED BY <1>1, <1>4, <2>1, <2>2, <2>3, CallsGrow
<1>5. ASSUME NEW w, browse' = Calling(browse, SearchCall(addr, w)) PROVE PlacesInv'
  <2>1. PICK b : b = browse
    OBVIOUS
  <2>2. PICK c : c = SearchCall(addr, w)
    OBVIOUS
  <2>3. c.kind # "page" /\ c = [kind |-> c.kind, addr |-> c.addr, query |-> c.query, page |-> c.page,
                                gen |-> c.gen, at |-> c.at]
    BY <2>2 DEF SearchCall
  <2>4. Streams(Calling(b, c)) /\ Calling(b, c).calls = b.calls \cup {c} /\ Calling(b, c).waiting = b.waiting
    BY <2>1, <2>3, CallAdded, PlacesTypes
  <2> QED BY <1>1, <1>5, <2>1, <2>2, <2>4, CallsGrow
<1> QED BY <1>2, <1>3, <1>4, <1>5

\* The gate opens by itself for one address, or it asks, or it stays.
LEMMA GateAsked ==
  ASSUME PlacesInv, NEW scr, NEW as, NEW loaded, NEW b, MaybeGate(scr, as, loaded, b),
         Streams(b), UNCHANGED session, b.waiting = browse.waiting,
         b.waiting /\ gate = "passed" => session.needsAuth \/ Released(b)
  PROVE  PlacesInv'
<1>1. CASE browse' = b /\ UNCHANGED gate
  BY <1>1 DEF PlacesInv, Streams, Released
<1>2. CASE gate = "pending" /\ browse' = b
  <2>1. ~b.waiting
    BY <1>2 DEF PlacesInv
  <2> QED BY <1>2, <2>1 DEF PlacesInv, Streams, Released
<1>3. ASSUME gate' = "passed", NEW copy \in BOOLEAN, browse' = LoadHome(b, as[1], copy) PROVE PlacesInv'
  <2>1. PICK a : a = as[1]
    OBVIOUS
  <2>2. PICK n : n = LoadHome(b, a, copy)
    OBVIOUS
  <2>3. Streams(n) /\ (n.waiting => Released(n))
    BY <2>2, HomeLoaded
  <2>4. browse' = n
    BY <1>3, <2>1, <2>2
  <2> QED BY <1>3, <2>3, <2>4 DEF PlacesInv, Streams, Released
<1> QED BY <1>1, <1>2, <1>3 DEF MaybeGate

LEMMA AnswerLands ==
  ASSUME PlacesInv, NEW c \in browse.calls, Land(c) \/ LandAddresses(c) \/ Fail(c)
  PROVE  PlacesInv'
<1>1. PICK b : b = browse
  OBVIOUS
<1>2. PICK at : \/ browse' = [b EXCEPT !.calls = (@ \ {c}) \cup {[c EXCEPT !.at = at]}]
                \/ \E a, k, how : browse' = Put([b EXCEPT !.calls = (@ \ {c}) \cup {[c EXCEPT !.at = at]}], a, k, how)
  <2>1. \A at : Landed(c, at) = [b EXCEPT !.calls = (@ \ {c}) \cup {[c EXCEPT !.at = at]}]
    BY <1>1 DEF Landed
  <2>2. CASE Land(c)
    <3>1. PICK at, a, k, how : browse' = Put(Landed(c, at), a, k, how)
      BY <2>2 DEF Land
    <3>2. PICK m : m = [b EXCEPT !.calls = (@ \ {c}) \cup {[c EXCEPT !.at = at]}]
      OBVIOUS
    <3>3. browse' = Put(m, a, k, how)
      BY <2>1, <3>1, <3>2
    <3> QED BY <3>2, <3>3
  <2>3. CASE LandAddresses(c) \/ Fail(c)
    <3>1. \E at : browse' = Landed(c, at)
      BY <2>3 DEF LandAddresses, Fail
    <3> QED BY <2>1, <3>1
  <2> QED BY <2>2, <2>3
<1>5. PICK l : l = [b EXCEPT !.calls = (@ \ {c}) \cup {[c EXCEPT !.at = at]}]
  OBVIOUS
<1>6. Streams(l) /\ l.waiting = b.waiting /\ (Released(b) => Released(l))
  BY <1>1, <1>5, CallMoves, PlacesTypes
<1>7. PICK n, x : browse' = n /\ (n = l \/ n = [l EXCEPT !.lists = x])
  <2>1. CASE browse' = l
    BY <2>1
  <2>2. ASSUME NEW a, NEW k, NEW how, browse' = Put(l, a, k, how)
        PROVE  \E n, x : browse' = n /\ (n = l \/ n = [l EXCEPT !.lists = x])
    <3>1. PICK x : x = [l.lists EXCEPT ![a][k] = how]
      OBVIOUS
    <3> QED BY <2>2, <3>1 DEF Put
  <2> QED BY <1>2, <1>5, <2>1, <2>2
<1>8. Streams(n) /\ n.waiting = l.waiting /\ n.calls = l.calls
  <2>1. /\ Streams([l EXCEPT !.lists = x]) /\ [l EXCEPT !.lists = x].calls = l.calls
        /\ [l EXCEPT !.lists = x].waiting = l.waiting
    BY <1>6, ListsChange
  <2>2. CASE n = l
    BY <1>6, <2>2
  <2>3. CASE n = [l EXCEPT !.lists = x]
    <3> HIDE DEF Streams
    <3> QED BY <2>1, <2>3
  <2> QED BY <1>7, <2>2, <2>3
<1>3. /\ browse' = n /\ Streams(n) /\ n.waiting = browse.waiting /\ (Released(browse) => Released(n))
  BY <1>1, <1>6, <1>7, <1>8 DEF Released
<1>4. UNCHANGED gate /\ session'.needsAuth = session.needsAuth
      /\ session' = [needsAuth |-> session'.needsAuth, lost |-> session'.lost]
  <2>1. UNCHANGED session \/ session' = [session EXCEPT !.lost = @ + 1]
    BY DEF Land, LandAddresses, Fail
  <2>2. session = [needsAuth |-> session.needsAuth, lost |-> session.lost]
    BY DEF PlacesInv
  <2> QED BY <2>1, <2>2 DEF Land, LandAddresses, Fail
<1> QED BY <1>3, <1>4 DEF PlacesInv, Streams, Released

LEMMA AnswerHandled ==
  ASSUME PlacesInv, NEW c \in browse.calls, Handle(c)
  PROVE  PlacesInv'
<1> DEFINE h == Handled(c)
<1>1. /\ Streams(h) /\ h.waiting = browse.waiting /\ h.calls = browse.calls \ {c} /\ h.gen = browse.gen
      /\ h.gen \in Nat /\ browse.waiting \in BOOLEAN
      /\ c = [kind |-> c.kind, addr |-> c.addr, query |-> c.query, page |-> c.page, gen |-> c.gen, at |-> c.at]
      /\ \A d \in browse.calls : c.kind = "page" /\ d.kind = "page" /\ c.gen = h.gen /\ d.gen = h.gen => c = d
  <2>1. PICK b : b = browse
    OBVIOUS
  <2>2. Streams(b)
    BY <2>1, PlacesTypes
  <2>3. Streams(h) /\ h.waiting = b.waiting /\ h.calls = b.calls \ {c} /\ h.gen = b.gen
    BY <2>1, <2>2, CallLeaves DEF Handled
  <2> QED BY <2>1, <2>2, <2>3 DEF Streams
<1> HIDE DEF h
<1>2. CASE Unauthorised(c)
  <2>1. /\ session' = [session EXCEPT !.needsAuth = TRUE] /\ browse' = h /\ UNCHANGED gate
    BY <1>2 DEF Unauthorised, h
  <2>2. session' = [needsAuth |-> TRUE, lost |-> session.lost]
    BY <2>1, PlacesTypes
  <2>3. session' = [needsAuth |-> session'.needsAuth, lost |-> session'.lost] /\ session'.needsAuth
    BY <2>2
  <2> QED BY <1>1, <2>1, <2>3 DEF PlacesInv, Streams, Released
<1>3. CASE Addresses(c)
  <2> DEFINE b == [h EXCEPT !.addressesLoaded = TRUE]
  <2>1. Streams(b) /\ b.waiting = browse.waiting
    <3>1. TRUE \in BOOLEAN
      OBVIOUS
    <3> QED BY <1>1, <3>1, FlagsChange, Zenon
  <2>2. UNCHANGED session
    BY <1>3 DEF Addresses
  <2>3. CASE gate # "passed"
    <3>1. MaybeGate(screen, known, TRUE, b)
      BY <1>3, <2>3 DEF Addresses, h
    <3> HIDE DEF b
    <3> QED BY <2>1, <2>2, <2>3, <3>1, GateAsked
  <2>4. CASE gate = "passed"
    <3>0. UNCHANGED gate /\ \E copy \in BOOLEAN : browse' = LoadHome(b, IF known = <<>> THEN addr ELSE known[1], copy)
      BY <1>3, <2>4, Zenon DEF Addresses, h
    <3>4. PICK a : a = IF known = <<>> THEN addr ELSE known[1]
      OBVIOUS
    <3>1. PICK copy \in BOOLEAN : browse' = LoadHome(b, a, copy) /\ UNCHANGED gate
      BY <3>0, <3>4
    <3>2. PICK n : n = LoadHome(b, a, copy)
      OBVIOUS
    <3> HIDE DEF b
    <3>3. Streams(n) /\ (n.waiting => Released(n))
      BY <2>1, <3>2, HomeLoaded
    <3> QED BY <2>2, <2>4, <3>1, <3>2, <3>3 DEF PlacesInv, Streams, Released
  <2> QED BY <2>3, <2>4
<1>4. CASE Page(c)
  <2> DEFINE b == [h EXCEPT !.waiting = FALSE]
             m == [b EXCEPT !.seeded = @ \ {c.query}]
  <2>1. Streams(b) /\ b.waiting = FALSE /\ b.calls = h.calls /\ b.gen = h.gen
    <3>1. FALSE \in BOOLEAN
      OBVIOUS
    <3> QED BY <1>1, <3>1, FlagsChange, Zenon
  <2>2. Streams(m) /\ m.waiting = b.waiting /\ m.calls = b.calls /\ m.gen = b.gen
    <3>1. PICK x : x = b.seeded \ {c.query}
      OBVIOUS
    <3>2. m = [b EXCEPT !.seeded = x]
      BY <3>1
    <3> HIDE DEF b, m
    <3> QED BY <2>1, <3>2, ListsChange
  <2>3. PICK n \in {b, m} : \/ browse' = n
                           \/ /\ c.gen = b.gen
                              /\ browse' = Calling(n, PlacesCall(addr, c.query, c.page + 1, n.gen))
    BY <1>4 DEF Page, h
  <2>4. c.kind = "page" /\ UNCHANGED <<session, gate>>
    BY <1>4 DEF Page
  <2> HIDE DEF b, m
  <2>5. Streams(n) /\ n.waiting = FALSE /\ n.calls = browse.calls \ {c} /\ n.gen = h.gen /\ b.gen = h.gen
    BY <1>1, <2>1, <2>2, <2>3
  <2>6. PICK r : r = browse'
    OBVIOUS
  <2>7. Streams(r) /\ r.waiting = FALSE
    <3>1. CASE r = n
      BY <2>5, <3>1
    <3>2. CASE c.gen = b.gen /\ r = Calling(n, PlacesCall(addr, c.query, c.page + 1, n.gen))
      <4>1. PICK d : d = PlacesCall(addr, c.query, c.page + 1, n.gen)
        OBVIOUS
      <4>2. d.gen = n.gen /\ d = [kind |-> d.kind, addr |-> d.addr, query |-> d.query, page |-> d.page,
                                 gen |-> d.gen, at |-> d.at]
        BY <4>1 DEF PlacesCall
      <4>3. \A e \in n.calls : e.kind = "page" => e.gen # n.gen
        BY <1>1, <2>4, <2>5, <3>2
      <4>4. Streams(Calling(n, d)) /\ Calling(n, d).waiting = n.waiting
        BY <2>5, <4>2, <4>3, CallAdded
      <4> QED BY <2>5, <3>2, <4>1, <4>4
    <3> QED BY <2>3, <2>6, <3>1, <3>2
  <2> QED BY <2>4, <2>6, <2>7 DEF PlacesInv, Streams, Released
<1>5. CASE Results(c)
  <2>1. browse' = h /\ c.kind = "search" /\ UNCHANGED <<session, gate>>
    BY <1>5 DEF Results, h
  <2>2. Released(browse) => Released(h)
    BY <1>1, <2>1 DEF Released
  <2> QED BY <1>1, <2>1, <2>2 DEF PlacesInv, Streams, Released
<1> QED BY <1>2, <1>3, <1>4, <1>5 DEF Handle

LEMMA SomewhereElse ==
  ASSUME PlacesInv, Pick \/ Switch \/ SignedIn \/ Show
  PROVE  PlacesInv'
<1>1. PICK b : b = browse
  OBVIOUS
<1>2. Streams(b)
  BY <1>1, PlacesTypes
<1>3. PICK f : f = Forget(b)
  OBVIOUS
<1>4. Streams(f) /\ f.calls = b.calls /\ f.waiting = b.waiting
  BY <1>2, <1>3, ListsChange DEF Forget
<1>5. CASE Pick
  <2>1. PICK a, copy : browse' = LoadHome(f, a, copy)
    BY <1>1, <1>3, <1>5 DEF Pick
  <2>2. PICK n : n = LoadHome(f, a, copy)
    OBVIOUS
  <2>3. Streams(n) /\ (n.waiting => Released(n))
    BY <1>4, <2>2, HomeLoaded
  <2>4. browse' = n /\ gate' = "passed" /\ UNCHANGED session
    BY <1>5, <2>1, <2>2 DEF Pick
  <2> QED BY <2>3, <2>4 DEF PlacesInv, Streams, Released
<1>6. CASE Switch
  <2>1. PICK a, copy : browse' = EnsureHome(f, a, copy)
    BY <1>1, <1>3, <1>6 DEF Switch
  <2>2. PICK n : n = EnsureHome(f, a, copy)
    OBVIOUS
  <2>3. Streams(n) /\ f.calls \subseteq n.calls /\ n.waiting = f.waiting
    BY <1>4, <2>2, ListLoaded
  <2>4. browse' = n /\ UNCHANGED <<session, gate>>
    BY <1>6, <2>1, <2>2 DEF Switch
  <2> QED BY <1>1, <1>4, <2>3, <2>4, CallsGrow
<1>7. CASE SignedIn
  <2>1. PICK c : c = AddressCall
    OBVIOUS
  <2>2. c.kind = "addresses" /\ c = [kind |-> c.kind, addr |-> c.addr, query |-> c.query, page |-> c.page,
                                     gen |-> c.gen, at |-> c.at]
    BY <2>1 DEF AddressCall
  <2>3. PICK n : n = Calling(b, c)
    OBVIOUS
  <2>4. Streams(n) /\ n.calls = b.calls \cup {c} /\ n.waiting = b.waiting
    BY <1>2, <2>2, <2>3, CallAdded
  <2>5. browse' = n /\ UNCHANGED gate /\ session' = [session EXCEPT !.needsAuth = FALSE]
    BY <1>1, <1>7, <2>1, <2>3 DEF SignedIn
  <2>6. session' = [needsAuth |-> session'.needsAuth, lost |-> session'.lost]
    BY <2>5, PlacesTypes
  <2>7. Released(n)
    BY <2>2, <2>4 DEF Released
  <2> QED BY <1>1, <2>4, <2>5, <2>6, <2>7 DEF PlacesInv, Streams, Released
<1>8. CASE Show
  <2>1. MaybeGate(screen', known, browse.addressesLoaded, b) /\ UNCHANGED session
    BY <1>1, <1>8 DEF Show
  <2>2. b.waiting /\ gate = "passed" => session.needsAuth \/ Released(b)
    BY <1>1, PlacesTypes
  <2>3. PICK scr : scr = screen'
    OBVIOUS
  <2>4. PICK as : as = known
    OBVIOUS
  <2>5. PICK loaded : loaded = browse.addressesLoaded
    OBVIOUS
  <2>6. MaybeGate(scr, as, loaded, b)
    BY <2>1, <2>3, <2>4, <2>5 DEF MaybeGate
  <2> QED BY <1>1, <1>2, <2>1, <2>2, <2>6, GateAsked
<1> QED BY <1>5, <1>6, <1>7, <1>8

LEMMA PlacesNext == ASSUME PlacesInv, [BothNext]_everything PROVE PlacesInv'
<1>1. CASE UNCHANGED placesVars
  BY <1>1 DEF placesVars, PlacesInv, Streams, Released
<1>2. CASE Next
  <2>1. CASE \E c \in browse.calls : Land(c) \/ LandAddresses(c) \/ Fail(c) \/ Handle(c)
    BY <2>1, AnswerLands, AnswerHandled
  <2>2. CASE RailMove \/ Focus \/ Slash \/ Type \/ Leave \/ Return
    BY <2>2, KeysMoveStreams DEF RailMove, Focus, Slash, Type, Leave, Return
  <2>3. CASE Settle \/ RailEnter
    BY <2>3, KeysMoveStreams DEF Settle, RailEnter
  <2>4. CASE Submit \/ LeaveSearch
    BY <2>4, KeysMoveStreams DEF Submit, LeaveSearch
  <2>5. CASE Pick \/ Switch \/ SignedIn \/ Show
    BY <2>5, SomewhereElse
  <2> QED BY <1>2, <2>1, <2>2, <2>3, <2>4, <2>5 DEF Next
<1> QED BY <1>1, <1>2 DEF BothNext, everything

LEMMA PlacesSafe == ASSUME PlacesInv PROVE OneStream /\ NeverHeld
<1>1. \A c, d \in {e \in browse.calls : Streaming(e)} : c = d
  BY DEF PlacesInv, Streams, Streaming
<1>2. OneStream
  <2> DEFINE S == {c \in browse.calls : Streaming(c)}
  <2>1. CASE S = {}
    BY <2>1, FS_EmptySet DEF OneStream
  <2>2. CASE S # {}
    <3>1. PICK x \in S : S = {x}
      BY <1>1, <2>2
    <3>2. Cardinality(S) = 1
      BY <3>1, FS_Singleton
    <3> QED BY <3>2 DEF OneStream
  <2> QED BY <2>1, <2>2
<1>3. NeverHeld
  BY DEF PlacesInv, NeverHeld, Released
<1> QED BY <1>2, <1>3

-----------------------------------------------------------------------------
\* One stream of pages fills the lists of restaurants, whatever the rail, the search and
\* the switch of the address have started, and what waits for it is never held for ever
\* (ensureQuery, handlePlacesPage, loadHomeForCurrentAddr); the Instamart rows are those of
\* the address and query on the screen, each loader and each copy has its call behind it
\* (ensureIMQuery, handleIMProducts).
THEOREM ListsAlwaysLand == BothSpec => []ListsLand
<1>1. BothInit => PlacesInv /\ ProdInv
  BY PlacesInit, ProdInit
<1>2. PlacesInv /\ ProdInv /\ [BothNext]_everything => (PlacesInv /\ ProdInv)'
  BY PlacesNext, ProdNext
<1>3. PlacesInv /\ ProdInv => ListsLand
  <2>1. ProdInv => Products!RowsAreCurrent /\ Products!LoaderEnds /\ Products!AnswersReplaceCopies
    BY DEF ProdInv, ShelfInv, AisleInv, Products!RowsAreCurrent
  <2> QED BY <2>1, PlacesSafe DEF ListsLand
<1> QED BY <1>1, <1>2, <1>3, PTL DEF BothSpec, everything

-----------------------------------------------------------------------------
(* The row under the cursor                                                  *)

\* Half of a window: what the anchor puts above the cursor, and some row below.
LEMMA HalfBudget ==
  ASSUME NEW b \in Nat, b >= 3
  PROVE  b \div 2 \in 1..(b - 2)
OBVIOUS

\* The anchor leaves the cursor inside the window, and off its first row when
\* that row is a hint, off its last row when that one is.
LEMMA AnchorHoldsCursor ==
  ASSUME NEW n \in Nat, NEW cursor \in 0..(n - 1), NEW b \in Nat, 3 <= b, b < n
  PROVE  /\ Anchor(cursor, n, b) \in 0..(n - b)
         /\ Anchor(cursor, n, b) > 0 => Anchor(cursor, n, b) < cursor
         /\ Anchor(cursor, n, b) <= cursor
         /\ Anchor(cursor, n, b) + b < n => cursor < Anchor(cursor, n, b) + b - 1
         /\ cursor < Anchor(cursor, n, b) + b
<1> DEFINE h == b \div 2
<1>1. h \in 1..(b - 2)
  BY HalfBudget
<1>2. Anchor(cursor, n, b) = Smaller(Larger(cursor - h, 0), n - b)
  BY DEF Anchor
<1> HIDE DEF h
<1>3. CASE cursor < h
  <2>1. Anchor(cursor, n, b) = 0
    BY <1>1, <1>2, <1>3 DEF Smaller, Larger
  <2> QED BY <1>1, <1>3, <2>1
<1>4. CASE cursor >= h /\ cursor - h <= n - b
  <2>1. Anchor(cursor, n, b) = cursor - h
    BY <1>1, <1>2, <1>4 DEF Smaller, Larger
  <2> QED BY <1>1, <1>4, <2>1
<1>5. CASE cursor >= h /\ cursor - h > n - b
  <2>1. Anchor(cursor, n, b) = n - b
    BY <1>1, <1>2, <1>5 DEF Smaller, Larger
  <2> QED BY <1>1, <1>5, <2>1
<1> QED BY <1>1, <1>3, <1>4, <1>5

\* The window around a cursor, for any height that is unknown or at least three.
LEMMA WindowHoldsCursor ==
  ASSUME NEW n \in Nat, NEW cursor \in 0..(n - 1), NEW b \in Nat, b = 0 \/ b >= 3
  PROVE  ShowsCursor(cursor, n, b)
<1>1. CASE b = 0 \/ n <= b
  BY <1>1 DEF ShowsCursor, Window
<1>2. CASE b >= 3 /\ n > b
  <2>1. /\ Anchor(cursor, n, b) \in 0..(n - b)
        /\ Anchor(cursor, n, b) > 0 => Anchor(cursor, n, b) < cursor
        /\ Anchor(cursor, n, b) <= cursor
        /\ Anchor(cursor, n, b) + b < n => cursor < Anchor(cursor, n, b) + b - 1
        /\ cursor < Anchor(cursor, n, b) + b
    BY <1>2, AnchorHoldsCursor
  <2> QED BY <1>2, <2>1 DEF ShowsCursor, Window, Smaller, Larger
<1> QED BY <1>1, <1>2

\* Whatever the length of the list, the place of the cursor in it and the height
\* of the screen (unknown, or at least the three rows listRows never goes below):
\* the row the keys act on is painted, the hints tell the truth about what is
\* hidden, and rows and hints together fit the height.
THEOREM CursorShown ==
  \A n \in Nat, height \in Nat, chrome \in Nat : \A cursor \in 0..(n - 1) :
    ShowsCursor(cursor, n, ListRows(height, chrome))
<1>1. \A height \in Nat, chrome \in Nat :
        ListRows(height, chrome) \in Nat
        /\ (ListRows(height, chrome) = 0 \/ ListRows(height, chrome) >= 3)
  BY DEF ListRows, Larger
<1> QED BY <1>1, WindowHoldsCursor


-----------------------------------------------------------------------------
(* The menu of a restaurant                                                  *)

Cuisines == {""} \cup {CategoryOf[d] : d \in DOMAIN CategoryOf}
OwnMenus(p) == Uniq(Menus!MenuOf(p))

\* The screen of a restaurant, over one of its menus.
RestOK(r) ==
  /\ {"place", "dishes", "category", "veg", "filter", "searching", "cursor", "info", "more", "partial"}
       \subseteq DOMAIN r
  /\ r.place \in Places /\ r.dishes \in OwnMenus(r.place)
  /\ r.category \in Cuisines /\ r.cursor \in Nat
  /\ {r.veg, r.filter, r.searching, r.info, r.more, r.partial} \subseteq BOOLEAN

\* Menus in memory and on disk, each of the restaurant it is kept for.
Kept(menus) ==
  menus = [p \in Places |-> menus[p]] /\ \A p \in Places : menus[p] \in OwnMenus(p) \cup {NoDish}

MenuStreams == [gen : 0..MaxGen, more : BOOLEAN, partial : BOOLEAN, staged : BOOLEAN]
PageCalls == [place : Places, page : Nat \ {0}, gen : 1..MaxGen, staged : BOOLEAN,
              at : {"asked", "more", "last", "failed"}]

MenuInv ==
  /\ page \in {"menu", "restaurant"} /\ RestOK(rest)
  /\ stream \in MenuStreams /\ pages \subseteq PageCalls
  /\ Kept(visible) /\ Kept(staging) /\ Kept(cached)

\* What FoldLeft makes of a menu is the same in the instance.
LEMMA MergesNew ==
  ASSUME NEW T, NEW seq \in Uniq(T), NEW more \in Seq(T)
  PROVE  Menus!AppendNew(seq, more) \in Longer(T, seq)
<1>1. Menus!AppendNew(seq, more)
        = FoldLeft(LAMBDA acc, x : IF Contains(acc, x) THEN acc ELSE Append(acc, x), seq, more)
  BY DEF Menus!AppendNew, Menus!FoldLeft, Menus!MapThenFoldSet, Menus!Max, Menus!Contains,
         FoldLeft, MapThenFoldSet, Max, Contains
<1> QED BY <1>1, AppendNewStays

\* A page holds dishes of its restaurant.
LEMMA PagesAreOwn ==
  ASSUME NEW p \in Places, NEW m \in Served[p]
  PROVE  /\ m \in Seq(Seq(Menus!MenuOf(p)))
         /\ \A i \in 1..Len(m) : m[i] \in Seq(Menus!MenuOf(p))
<1>1. m \in Seq(Seq(DOMAIN CategoryOf))
  BY MenuAssumption
<1>2. ASSUME NEW i \in 1..Len(m) PROVE m[i] \in Seq(Menus!MenuOf(p))
  <2>1. m[i] \in Seq(DOMAIN CategoryOf) /\ i \in DOMAIN m
    BY <1>1
  <2>2. \A j \in 1..Len(m[i]) : m[i][j] \in Menus!ToSet(m[i])
    BY <2>1 DEF Menus!ToSet
  <2>3. Menus!ToSet(m[i]) \subseteq Menus!MenuOf(p)
    BY <2>1 DEF Menus!MenuOf
  <2> QED BY <2>1, <2>2, <2>3
<1>3. \A i \in 1..Len(m) : m[i] \in Seq(Menus!MenuOf(p))
  BY <1>2
<1> QED BY <1>1, <1>3

LEMMA DishesAreKnown == \A p \in Places : Menus!MenuOf(p) \subseteq DOMAIN CategoryOf
<1> SUFFICES ASSUME NEW p \in Places, NEW m \in Served[p], NEW i \in DOMAIN m, NEW d \in Menus!ToSet(m[i])
             PROVE  d \in DOMAIN CategoryOf
  BY DEF Menus!MenuOf
<1>1. m \in Seq(Seq(DOMAIN CategoryOf))
  BY MenuAssumption
<1>2. m[i] \in Seq(DOMAIN CategoryOf)
  BY <1>1
<1> QED BY <1>2 DEF Menus!ToSet

LEMMA NoneIsOwn == \A T : <<>> \in Uniq(T)
  BY DEF Uniq, IsInjective

\* A menu file holds dishes of its restaurant, each once.
LEMMA SavedIsOwn == ASSUME NEW p \in Places PROVE Menus!Saved(p) \subseteq OwnMenus(p) \cup {NoDish}
<1> SUFFICES ASSUME NEW m \in Served[p] PROVE Menus!FoldLeft(Menus!AppendNew, <<>>, m) \in OwnMenus(p)
  BY DEF Menus!Saved
<1> DEFINE T == Menus!MenuOf(p)
           A == Uniq(T)
           F == [q \in A \X Seq(T) |-> Menus!AppendNew(q[1], q[2])]
           Of(g) == [s \in SUBSET DOMAIN m |->
                      IF s = {} THEN <<>> ELSE Menus!AppendNew(g[s \ {Max(s)}], m[Max(s)])]
           h == CHOOSE g : g = Of(g)
<1>0. <<>> \in A /\ m \in Seq(Seq(T))
  BY NoneIsOwn, PagesAreOwn
<1>1. ASSUME NEW a \in A, NEW x \in Seq(T) PROVE Menus!AppendNew(a, x) \in A
  BY MergesNew DEF Longer
<1> HIDE DEF A
<1>2. F \in [A \X Seq(T) -> A]
  BY <1>1
<1>3. PICK g : LeftFolded(g, F, <<>>, m) /\ \A s \in SUBSET DOMAIN m : g[s] \in A
  <2> HIDE DEF F, T
  <2> QED BY <1>0, <1>2, LeftFoldExists
<1>4. ASSUME NEW s \in SUBSET DOMAIN m, s # {}
      PROVE  g[s \ {Max(s)}] \in A /\ m[Max(s)] \in Seq(T)
  BY <1>0, <1>3, <1>4, LastIsPicked
<1>5. g = Of(g)
  BY <1>3, <1>4 DEF LeftFolded
<1>6. h = Of(h)
  BY <1>5
<1>7. Menus!FoldLeft(Menus!AppendNew, <<>>, m) = h[DOMAIN m]
  BY DEF Menus!FoldLeft, Menus!MapThenFoldSet, Menus!Max, Max
<1> HIDE DEF h
<1>8. \A s \in SUBSET DOMAIN m : h[s] = Of(h)[s]
  BY <1>6, Zenon
<1>9. h[{}] \in A
  BY <1>0, <1>8
<1>10. ASSUME NEW s \in SUBSET DOMAIN m, s # {}, h[s \ {Max(s)}] \in A PROVE h[s] \in A
  <2>1. m[Max(s)] \in Seq(T)
    BY <1>0, <1>10, LastIsPicked
  <2> QED BY <1>8, <1>10, <2>1, <1>1
<1>11. h[DOMAIN m] \in A
  BY <1>0, <1>9, <1>10, LeftFoldStays
<1> QED BY <1>7, <1>11 DEF A, OwnMenus

-----------------------------------------------------------------------------
(* What the keys make of the screen                                          *)

LEMMA FreshRest ==
  ASSUME NEW p \in Places, NEW dishes \in OwnMenus(p)
  PROVE  RestOK(Menus!NewRestaurant(p, dishes)) /\ Menus!NewRestaurant(p, dishes).place = p
  BY DEF Menus!NewRestaurant, RestOK, Cuisines

LEMMA FilteredRest ==
  ASSUME NEW r, RestOK(r), NEW on \in BOOLEAN
  PROVE  RestOK(Menus!SetFilter(r, on)) /\ RestOK([Menus!SetFilter(r, on) EXCEPT !.searching = TRUE])
         /\ RestOK([Menus!SetFilter(r, on) EXCEPT !.searching = FALSE])
<1> DEFINE s == [r EXCEPT !.filter = on]
<1>1. RestOK(s)
  BY DEF RestOK
<1>2. RestOK([s EXCEPT !.cursor = 0])
  BY <1>1 DEF RestOK
<1>3. Menus!SetFilter(r, on) \in {s, [s EXCEPT !.cursor = 0]}
  BY DEF Menus!SetFilter
<1> HIDE DEF s
<1>4. \A t : RestOK(t) => RestOK([t EXCEPT !.searching = TRUE]) /\ RestOK([t EXCEPT !.searching = FALSE])
  BY DEF RestOK
<1> QED BY <1>1, <1>2, <1>3, <1>4

LEMMA CategoryRest ==
  ASSUME NEW r, RestOK(r), NEW c \in Cuisines
  PROVE  RestOK(Menus!WithCategory(r, c))
<1>1. RestOK([r EXCEPT !.category = c, !.cursor = 0])
  BY DEF RestOK
<1> QED BY <1>1, FilteredRest DEF Menus!WithCategory

LEMMA VegRest ==
  ASSUME NEW r, RestOK(r), NEW on \in BOOLEAN
  PROVE  RestOK(Menus!WithVegOnly(r, on))
<1>1. RestOK([r EXCEPT !.veg = on, !.cursor = 0])
  BY DEF RestOK
<1> QED BY <1>1, FilteredRest DEF Menus!WithVegOnly

\* The bar has a chip at least, so that stepping along it stays on it.
LEMMA SteppedRest ==
  ASSUME NEW r, RestOK(r), NEW d \in {-1, 1}
  PROVE  RestOK(Menus!StepCategory(r, d))
<1> DEFINE cats == Menus!Categories(r)
           n == Len(cats)
<1>1. <<"">> \in Uniq(Cuisines)
  <2>1. "" \in Cuisines
    BY DEF Cuisines
  <2>2. \A x : x \in Cuisines => <<x>> \in Uniq(Cuisines)
    BY DEF Uniq, IsInjective
  <2> QED BY <2>1, <2>2
<1>2. [i \in 1..Len(r.dishes) |-> CategoryOf[r.dishes[i]]] \in Seq(Cuisines)
  <2>1. r.dishes \in Seq(Menus!MenuOf(r.place)) /\ r.place \in Places
    BY DEF RestOK, OwnMenus, Uniq
  <2>2. Len(r.dishes) \in Nat /\ \A i \in 1..Len(r.dishes) : r.dishes[i] \in DOMAIN CategoryOf
    BY <2>1, DishesAreKnown
  <2>3. \A i \in 1..Len(r.dishes) : CategoryOf[r.dishes[i]] \in Cuisines
    BY <2>2 DEF Cuisines
  <2> QED BY <2>2, <2>3
<1>3. cats \in Longer(Cuisines, <<"">>)
  BY <1>1, <1>2, MergesNew DEF Menus!Categories
<1>4. cats \in Seq(Cuisines) /\ n \in Nat /\ n >= 1
  BY <1>3 DEF Longer, Uniq
<1> HIDE DEF cats
<1> DEFINE at == IF Menus!Contains(cats, r.category)
                 THEN CHOOSE i \in 1..n : cats[i] = r.category ELSE 1
           to == Menus!Larger(1, Menus!Smaller(at + d, n))
<1>5. at \in 1..n
  BY <1>4 DEF Menus!Contains
<1> HIDE DEF at, n
<1>6. to \in 1..n
  BY <1>4, <1>5 DEF Menus!Larger, Menus!Smaller
<1>7. cats[to] \in Cuisines
  BY <1>4, <1>6 DEF n
<1>8. Menus!StepCategory(r, d) = Menus!WithCategory(r, cats[to])
  BY DEF Menus!StepCategory, cats, at, n
<1> QED BY <1>7, <1>8, CategoryRest

LEMMA RebuiltRest ==
  ASSUME NEW r, RestOK(r), NEW dishes \in OwnMenus(r.place)
  PROVE  RestOK(Menus!Rebuilt(r, dishes)) /\ Menus!Rebuilt(r, dishes).place = r.place
<1>1. RestOK(Menus!NewRestaurant(r.place, dishes))
  BY FreshRest DEF RestOK
<1> QED BY <1>1 DEF Menus!Rebuilt, Menus!NewRestaurant, RestOK

LEMMA AppliedRest ==
  ASSUME NEW r, RestOK(r), NEW menus, Kept(menus), NEW s \in MenuStreams
  PROVE  RestOK(Menus!Applied(r, r.place, menus, s))
<1> DEFINE t == IF menus[r.place] = NoDish THEN r ELSE Menus!Rebuilt(r, menus[r.place])
<1>1. RestOK(t)
  BY RebuiltRest DEF RestOK, Kept
<1>2. {s.more, s.partial} \subseteq BOOLEAN
  BY DEF MenuStreams
<1> HIDE DEF t
<1>3. RestOK([t EXCEPT !.more = s.more, !.partial = s.partial])
  BY <1>1, <1>2 DEF RestOK
<1> QED BY <1>3 DEF Menus!Applied, t

LEMMA MergedIsOwn ==
  ASSUME NEW menus, Kept(menus), NEW c \in PageCalls, NEW dishes \in Seq(Menus!MenuOf(c.place))
  PROVE  Kept(Menus!Merged(menus, c, dishes))
<1> DEFINE old == IF c.page = 1 \/ menus[c.place] = NoDish THEN <<>> ELSE menus[c.place]
<1>1. c.place \in Places
  BY DEF PageCalls
<1>2. old \in OwnMenus(c.place)
  BY <1>1, NoneIsOwn DEF Kept, OwnMenus
<1>3. Menus!AppendNew(old, dishes) \in OwnMenus(c.place)
  BY <1>2, MergesNew DEF OwnMenus, Longer
<1> HIDE DEF old
<1>4. Menus!Merged(menus, c, dishes) = [menus EXCEPT ![c.place] = Menus!AppendNew(old, dishes)]
  BY DEF Menus!Merged, old
<1> QED BY <1>1, <1>3, <1>4 DEF Kept

LEMMA KeptChange ==
  ASSUME NEW menus, Kept(menus), NEW p \in Places, NEW dishes \in OwnMenus(p) \cup {NoDish}
  PROVE  Kept([menus EXCEPT ![p] = dishes])
  BY DEF Kept

-----------------------------------------------------------------------------
(* What a step does to the menu                                              *)

LEMMA MenuInit == BothInit => MenuInv
<1> SUFFICES ASSUME BothInit PROVE MenuInv
  OBVIOUS
<1>1. /\ page = "menu" /\ rest = Menus!NewRestaurant(CHOOSE p \in Places : TRUE, <<>>)
      /\ stream = [gen |-> 0, more |-> FALSE, partial |-> FALSE, staged |-> FALSE]
      /\ visible = [p \in Places |-> NoDish] /\ staging = [p \in Places |-> NoDish]
      /\ cached \in [Places -> UNION {Menus!Saved(p) : p \in Places}]
      /\ \A p \in Places : cached[p] \in Menus!Saved(p)
      /\ pages = {}
  BY DEF BothInit, Menus!Init
<1>2. (CHOOSE p \in Places : TRUE) \in Places
  BY MenuAssumption
<1>3. RestOK(rest)
  BY <1>1, <1>2, FreshRest, NoneIsOwn DEF OwnMenus
<1>4. stream \in MenuStreams
  BY <1>1, BrowseAssumption DEF MenuStreams
<1>5. Kept(visible) /\ Kept(staging)
  BY <1>1 DEF Kept
<1>6. Kept(cached)
  BY <1>1, SavedIsOwn DEF Kept
<1> QED BY <1>1, <1>3, <1>4, <1>5, <1>6 DEF MenuInv

\* A page that is asked for, with the number of its stream.
LEMMA PageAsked ==
  ASSUME NEW p \in Places, NEW n \in Nat \ {0}, NEW s \in MenuStreams, s.gen # 0
  PROVE  Menus!PageCall(p, n, s) \in PageCalls
<1>1. s.gen \in 1..MaxGen /\ s.staged \in BOOLEAN
  BY BrowseAssumption DEF MenuStreams
<1> QED BY <1>1 DEF Menus!PageCall, PageCalls

LEMMA OpenMenu == ASSUME MenuInv, NEW p \in Places, Menus!Open(p) PROVE MenuInv'
<1>1. PICK seeded \in {FALSE} \cup {cached[p] # NoDish} :
        LET s == [gen |-> stream.gen + 1, more |-> TRUE, partial |-> FALSE, staged |-> seeded]
            r == Menus!NewRestaurant(p, <<>>)
        IN  /\ stream' = s
            /\ visible' = IF seeded THEN [visible EXCEPT ![p] = cached[p]] ELSE visible
            /\ rest' = IF seeded THEN Menus!Applied(r, p, visible', s) ELSE [r EXCEPT !.more = TRUE]
            /\ pages' = pages \cup {Menus!PageCall(p, 1, s)}
  BY DEF Menus!Open
<1>2. stream.gen \in 0..MaxGen /\ stream.gen < MaxGen /\ MaxGen \in Nat
  BY BrowseAssumption DEF Menus!Open, MenuInv, MenuStreams
<1>3. stream' \in MenuStreams /\ stream'.gen # 0
  <2>1. seeded \in BOOLEAN /\ stream.gen + 1 \in 0..MaxGen /\ stream.gen + 1 # 0
    <3>1. stream.gen + 1 \in 0..MaxGen /\ stream.gen + 1 # 0
      BY <1>2
    <3>2. seeded \in BOOLEAN
      <4>1. (cached[p] # NoDish) \in BOOLEAN
        OBVIOUS
      <4> QED BY <4>1
    <3> QED BY <3>1, <3>2
  <2>2. stream' = [gen |-> stream.gen + 1, more |-> TRUE, partial |-> FALSE, staged |-> seeded]
    BY <1>1
  <2> HIDE <1>1
  <2> QED BY <2>1, <2>2 DEF MenuStreams
<1>4. Kept(visible')
  BY <1>1, KeptChange DEF MenuInv, Kept
<1> DEFINE r == Menus!NewRestaurant(p, <<>>)
<1>5. RestOK(r) /\ r.place = p
  BY FreshRest, NoneIsOwn DEF OwnMenus
<1> HIDE DEF r
<1>6. RestOK([r EXCEPT !.more = TRUE])
  BY <1>5 DEF RestOK
<1>7. RestOK(Menus!Applied(r, p, visible', stream'))
  BY <1>3, <1>4, <1>5, AppliedRest
<1>8. RestOK(rest')
  BY <1>1, <1>6, <1>7 DEF r
<1>9. pages' \subseteq PageCalls
  <2>1. Menus!PageCall(p, 1, stream') \in PageCalls
    BY <1>3, PageAsked
  <2> QED BY <1>1, <2>1 DEF MenuInv
<1> QED BY <1>3, <1>4, <1>8, <1>9 DEF Menus!Open, MenuInv

LEMMA LandMenu == ASSUME MenuInv, NEW c \in pages, Menus!Land(c) PROVE MenuInv'
<1>1. c \in PageCalls /\ c.place \in Places /\ c.page \in Nat \ {0}
  BY DEF MenuInv, PageCalls
<1>2. PICK m \in Served[c.place] :
        LET dishes == IF c.page <= Len(m) THEN m[c.page] ELSE <<>>
        IN  /\ IF c.staged
               THEN staging' = Menus!Merged(staging, c, dishes) /\ UNCHANGED visible
               ELSE visible' = Menus!Merged(visible, c, dishes) /\ UNCHANGED staging
            /\ pages' = (pages \ {c}) \cup {Menus!Landed(c, c.page >= Len(m))}
  BY DEF Menus!Land
<1> DEFINE dishes == IF c.page <= Len(m) THEN m[c.page] ELSE <<>>
<1>3. dishes \in Seq(Menus!MenuOf(c.place))
  <2>1. m \in Seq(Seq(Menus!MenuOf(c.place))) /\ \A i \in 1..Len(m) : m[i] \in Seq(Menus!MenuOf(c.place))
    BY <1>1, PagesAreOwn
  <2>2. c.page <= Len(m) => c.page \in 1..Len(m)
    BY <1>1, <2>1
  <2>3. <<>> \in Seq(Menus!MenuOf(c.place))
    OBVIOUS
  <2>4. CASE c.page <= Len(m)
    BY <2>1, <2>2, <2>4
  <2> QED BY <2>3, <2>4
<1> HIDE DEF dishes
<1>4. Kept(visible') /\ Kept(staging')
  BY <1>1, <1>2, <1>3, MergedIsOwn DEF MenuInv, dishes
<1>5. ASSUME NEW b PROVE Menus!Landed(c, b) \in PageCalls
  <2>1. [c EXCEPT !.at = "last"] \in PageCalls /\ [c EXCEPT !.at = "more"] \in PageCalls
    BY <1>1 DEF PageCalls
  <2> QED BY <2>1 DEF Menus!Landed
<1>6. pages' \subseteq PageCalls
  BY <1>2, <1>5 DEF MenuInv
<1> QED BY <1>4, <1>6 DEF Menus!Land, MenuInv

LEMMA PageAnswered ==
  ASSUME MenuInv, NEW c \in pages,
         \/ Menus!Fail(c) \/ Menus!Ignore(c) \/ Menus!Abandon(c)
         \/ Menus!BreakOff(c) \/ Menus!Complete(c) \/ Menus!Continue(c)
  PROVE  MenuInv'
<1>0. c \in PageCalls /\ RestOK(rest)
  BY DEF MenuInv
<1>1. /\ c \in PageCalls /\ c.place \in Places /\ c.page \in Nat \ {0} /\ c.gen \in 1..MaxGen
      /\ RestOK(rest)
  BY <1>0 DEF PageCalls
<1>2. ASSUME Menus!DropStaged(c.place) PROVE Kept(staging')
  <2>1. Kept([staging EXCEPT ![c.place] = NoDish])
    BY <1>1, KeptChange DEF MenuInv
  <2> QED BY <1>2, <2>1 DEF Menus!DropStaged
<1>3. CASE Menus!Fail(c)
  <2>1. [c EXCEPT !.at = "failed"] \in PageCalls
    BY <1>1 DEF PageCalls
  <2> QED BY <1>3, <2>1 DEF Menus!Fail, MenuInv
<1>4. CASE Menus!Ignore(c)
  BY <1>4 DEF Menus!Ignore, MenuInv
<1>5. CASE Menus!Abandon(c)
  BY <1>5, <1>2 DEF Menus!Abandon, MenuInv
<1>6. CASE Menus!BreakOff(c)
  <2>1. (c.page > 1 \/ stream.staged) \in BOOLEAN
    OBVIOUS
  <2>2. stream' \in MenuStreams
    BY <1>6, <2>1 DEF Menus!BreakOff, MenuInv, MenuStreams
  <2>3. rest.place = c.place
    BY <1>6 DEF Menus!BreakOff, Menus!Wanted
  <2>4. RestOK(rest')
    BY <1>1, <1>6, <2>2, <2>3, AppliedRest DEF Menus!BreakOff, MenuInv
  <2> QED BY <1>2, <1>6, <2>2, <2>4 DEF Menus!BreakOff, MenuInv
<1>7. CASE Menus!Complete(c)
  <2>1. stream' \in MenuStreams
    BY <1>7 DEF Menus!Complete, MenuInv, MenuStreams
  <2>2. rest.place = c.place
    BY <1>7 DEF Menus!Complete, Menus!Wanted
  <2>3. Kept(visible')
    BY <1>1, <1>7, KeptChange DEF Menus!Complete, Menus!Promoted, MenuInv, Kept
  <2>4. Kept(staging')
    BY <1>2, <1>7 DEF Menus!Complete, MenuInv
  <2>5. RestOK(rest')
    BY <1>1, <1>7, <2>1, <2>2, <2>3, AppliedRest DEF Menus!Complete
  <2>6. Kept(cached')
    BY <1>1, <1>7, <2>3, KeptChange DEF Menus!Complete, MenuInv, Kept
  <2> QED BY <1>7, <2>1, <2>3, <2>4, <2>5, <2>6 DEF Menus!Complete, MenuInv
<1>8. CASE Menus!Continue(c)
  <2>1. rest.place = c.place /\ stream \in MenuStreams /\ stream.gen = c.gen /\ stream.gen # 0
    BY <1>1, <1>8 DEF Menus!Continue, Menus!Wanted, Menus!Answers, MenuInv
  <2>2. RestOK(rest')
    BY <1>1, <1>8, <2>1, AppliedRest DEF Menus!Continue, MenuInv
  <2>3. c.page + 1 \in Nat \ {0}
    BY <1>1
  <2>4. Menus!PageCall(c.place, c.page + 1, stream) \in PageCalls
    BY <1>1, <2>1, <2>3, PageAsked
  <2>5. pages' \subseteq PageCalls
    BY <1>8, <2>4 DEF Menus!Continue, MenuInv
  <2> QED BY <1>8, <2>2, <2>5 DEF Menus!Continue, MenuInv
<1> QED BY <1>3, <1>4, <1>5, <1>6, <1>7, <1>8

LEMMA MenuKeys ==
  ASSUME MenuInv,
         \/ Menus!Move \/ Menus!Slash \/ Menus!Search \/ Menus!EndSearch \/ Menus!ToggleInfo
         \/ Menus!Filter \/ Menus!Back \/ Menus!OpenCart \/ Menus!Inc \/ Menus!LinesChange
  PROVE  MenuInv'
<1>0. RestOK(rest) /\ rest.dishes \in OwnMenus(rest.place)
  BY DEF MenuInv, RestOK
<1>1. ASSUME NEW r, RestOK(r), Menus!Shows(r) PROVE MenuInv'
  BY <1>1 DEF Menus!Shows, Menus!Screen, MenuInv
<1>2. CASE Menus!Move
  <2>1. PICK d \in {-1, 1} : rest.cursor + d \in 0..(Len(Menus!Visible(rest)) - 1)
                             /\ Menus!Shows([rest EXCEPT !.cursor = rest.cursor + d])
    BY <1>2 DEF Menus!Move
  <2>2. rest.cursor + d \in Nat
    BY <2>1, <1>0 DEF RestOK
  <2>3. RestOK([rest EXCEPT !.cursor = rest.cursor + d])
    BY <1>0, <2>2 DEF RestOK
  <2> QED BY <2>1, <2>3, <1>1
<1>3. CASE Menus!Slash \/ Menus!ToggleInfo
  <2>1. RestOK([rest EXCEPT !.searching = TRUE]) /\ RestOK([rest EXCEPT !.info = ~rest.info])
    BY <1>0 DEF RestOK
  <2> QED BY <1>3, <2>1, <1>1 DEF Menus!Slash, Menus!ToggleInfo
<1>4. CASE Menus!Search
  BY <1>4, <1>0, <1>1, FilteredRest DEF Menus!Search
<1>5. CASE Menus!EndSearch
  <2>1. RestOK([rest EXCEPT !.searching = FALSE])
    BY <1>0 DEF RestOK
  <2>2. RestOK([Menus!SetFilter(rest, FALSE) EXCEPT !.searching = FALSE])
    BY <1>0, FilteredRest
  <2> QED BY <1>5, <1>1, <2>1, <2>2 DEF Menus!EndSearch
<1>6. CASE Menus!Filter
  <2>1. RestOK(Menus!WithVegOnly(rest, ~rest.veg))
    BY <1>0, VegRest
  <2>2. \A d \in {-1, 1} : RestOK(Menus!StepCategory(rest, d))
    BY <1>0, SteppedRest
  <2>3. \E r : RestOK(r) /\ Menus!Shows(r)
    BY <1>6, <2>1, <2>2 DEF Menus!Filter
  <2> QED BY <2>3, <1>1
<1>7. CASE Menus!Back
  <2>1. RestOK([Menus!SetFilter(rest, FALSE) EXCEPT !.searching = FALSE])
    BY <1>0, FilteredRest
  <2>2. CASE rest.filter
    BY <1>7, <2>1, <2>2, <1>1 DEF Menus!Back
  <2>3. CASE ~rest.filter
    BY <1>7, <2>3 DEF Menus!Back, Menus!Screen, MenuInv
  <2> QED BY <2>2, <2>3
<1>8. CASE Menus!OpenCart
  BY <1>8 DEF Menus!OpenCart, Menus!Screen, MenuInv
<1>9. CASE Menus!Inc \/ Menus!LinesChange
  <2>1. Menus!Shows(Menus!Rebuilt(rest, rest.dishes))
    BY <1>9 DEF Menus!Inc, Menus!LinesChange
  <2> QED BY <2>1, <1>0, <1>1, RebuiltRest
<1> QED BY <1>2, <1>3, <1>4, <1>5, <1>6, <1>7, <1>8, <1>9

LEMMA MenuNext == ASSUME MenuInv, [BothNext]_everything PROVE MenuInv'
<1>1. CASE UNCHANGED menuVars
  BY <1>1 DEF menuVars, MenuInv, RestOK, Kept
<1>2. CASE Menus!Next
  BY <1>2, OpenMenu, LandMenu, PageAnswered, MenuKeys DEF Menus!Next
<1> QED BY <1>1, <1>2 DEF BothNext, everything

-----------------------------------------------------------------------------
(* The menu is the restaurant's own, and the cursor row is painted           *)

\* A cursor in the list is in its window; one outside it selects nothing and lights nothing.
LEMMA LitIsSelected == ASSUME NEW r, r.cursor \in Nat PROVE Menus!Selected(r) = Menus!Lit(r)
<1> DEFINE n == Len(Menus!Matching(r))
           w == Menus!Window(r.cursor, n, Rows)
<1>1. n \in Nat
  OBVIOUS
<1>2. Len(Menus!Visible(r)) = n
  BY <1>1 DEF Menus!Visible
<1>3. \A k \in 1..n : Menus!Visible(r)[k] = Menus!Listed(r)[Menus!Matching(r)[k]]
  BY DEF Menus!Visible
<1> HIDE DEF n
<1>4. CASE r.cursor \in 0..(n - 1)
  <2>1. ShowsCursor(r.cursor, n, Rows)
    BY <1>1, <1>4, MenuAssumption, WindowHoldsCursor
  <2>2. w = Window(r.cursor, n, Rows)
    BY DEF Menus!Window, Menus!Anchor, Menus!Smaller, Menus!Larger, Window, Anchor, Smaller, Larger
  <2>3. w.from <= r.cursor /\ r.cursor < w.to /\ w.to <= n
    BY <2>1, <2>2 DEF ShowsCursor
  <2>4. w.from \in Int /\ w.to \in Int
    BY <1>1, <2>2, MenuAssumption DEF Window, Anchor, Smaller, Larger
  <2> HIDE DEF w
  <2>5. r.cursor \in w.from..(Menus!Smaller(w.to, n) - 1)
    BY <1>1, <1>4, <2>3, <2>4 DEF Menus!Smaller
  <2>6. r.cursor + 1 \in 1..n
    BY <1>1, <1>4
  <2> QED BY <1>2, <1>3, <1>4, <2>5, <2>6 DEF Menus!Lit, Menus!Selected, n, w
<1>5. CASE r.cursor \notin 0..(n - 1)
  <2>1. r.cursor >= n
    BY <1>1, <1>5
  <2>2. w.to \in Int
    BY <1>1, MenuAssumption DEF Menus!Window, Menus!Anchor, Menus!Smaller, Menus!Larger
  <2> HIDE DEF w
  <2>3. r.cursor \notin w.from..(Menus!Smaller(w.to, n) - 1)
    BY <1>1, <2>1, <2>2 DEF Menus!Smaller
  <2> QED BY <1>2, <1>5, <2>3 DEF Menus!Lit, Menus!Selected, n, w
<1> QED BY <1>4, <1>5

\* Whatever pages of this and of earlier visits land and in whatever order they are handled,
\* the screen of a restaurant shows dishes of it only (MergeMenuPage, PromoteStagedMenu,
\* applyMenuFromRepo); and whatever filters are on and however the menu has changed under it,
\* the dish the keys act on is the one painted under the cursor (Restaurant.Selected,
\* components.List.View).
THEOREM MenusAreOwn == BothSpec => []MenuIsOwn
<1>1. MenuInv => MenuIsOwn
  <2> SUFFICES ASSUME MenuInv PROVE Menus!OneMenuOnly /\ Menus!SelectedIsLit
    BY DEF MenuIsOwn
  <2>1. rest.dishes \in Seq(Menus!MenuOf(rest.place)) /\ rest.cursor \in Nat
    BY DEF MenuInv, RestOK, OwnMenus, Uniq
  <2>2. Menus!OneMenuOnly
    BY <2>1 DEF Menus!OneMenuOnly, Menus!ToSet
  <2> QED BY <2>1, <2>2, LitIsSelected DEF Menus!SelectedIsLit
<1> QED BY <1>1, MenuInit, MenuNext, PTL DEF BothSpec, everything

-----------------------------------------------------------------------------
(* The domains of the variables                                              *)

Contents == {"none", "seed", "part", "all"}
CallsTo(g) ==
  [kind : {"page", "search", "addresses"}, addr : Addrs \cup {NoAddr},
   query : Cats \cup Words \cup {NoQuery}, page : 1..2, gen : 0..g,
   at : {"asked", "done", "more", "failed", "unauthorised"}]

\* The value of browse, its streams numbered up to the one that is alive.
Lists(b) ==
  /\ b = [gen |-> b.gen, seeded |-> b.seeded, waiting |-> b.waiting, addressesLoaded |-> b.addressesLoaded,
          lists |-> b.lists, calls |-> b.calls]
  /\ b.gen \in Nat /\ b.seeded \subseteq Cats /\ b.waiting \in BOOLEAN /\ b.addressesLoaded \in BOOLEAN
  /\ b.lists \in [Addrs -> [Keys -> Contents]]
  /\ b.calls \subseteq CallsTo(b.gen)

Others ==
  /\ screen \in {"splash", "menu", "overlay", "away"}
  /\ session \in [needsAuth : BOOLEAN, lost : 0..MaxLost]
  /\ addr \in Addrs \cup {NoAddr} /\ gate \in {"pending", "picker", "passed"}
  /\ known \in AddrLists \cup {<<>>}
  /\ rail \in [active : 0..(RailLen - 1), focus : BOOLEAN, settle : BOOLEAN]
  /\ submitted \in Words \cup {NoQuery}

PlacesTyped == Others /\ Lists(browse) /\ browse.gen <= MaxGen

LEMMA ListsParts ==
  ASSUME NEW g \in Nat, NEW s \in SUBSET Cats, NEW w, w \in BOOLEAN, NEW l, l \in BOOLEAN,
         NEW m \in [Addrs -> [Keys -> Contents]], NEW c \in SUBSET CallsTo(g)
  PROVE  Lists([gen |-> g, seeded |-> s, waiting |-> w, addressesLoaded |-> l, lists |-> m, calls |-> c])
BY DEF Lists

\* One field changes.
LEMMA FieldTyped ==
  ASSUME NEW b, Lists(b)
  PROVE  /\ \A s \in SUBSET Cats : LET n == [b EXCEPT !.seeded = s] IN Lists(n) /\ n.gen = b.gen
         /\ \A w \in BOOLEAN : LET n == [b EXCEPT !.waiting = w] IN Lists(n) /\ n.gen = b.gen
         /\ \A w \in BOOLEAN : LET n == [b EXCEPT !.addressesLoaded = w] IN Lists(n) /\ n.gen = b.gen
         /\ \A m \in [Addrs -> [Keys -> Contents]] : LET n == [b EXCEPT !.lists = m] IN Lists(n) /\ n.gen = b.gen
         /\ \A c \in SUBSET CallsTo(b.gen) : LET n == [b EXCEPT !.calls = c] IN Lists(n) /\ n.gen = b.gen
<1>1. PICK g, s, m, c : /\ g = b.gen /\ s = b.seeded /\ m = b.lists /\ c = b.calls
                         /\ g \in Nat /\ s \in SUBSET Cats /\ m \in [Addrs -> [Keys -> Contents]] /\ c \in SUBSET CallsTo(g)
  BY DEF Lists
<1>2. PICK w, l : w = b.waiting /\ l = b.addressesLoaded /\ w \in BOOLEAN /\ l \in BOOLEAN
  BY DEF Lists
<1>3. b = [gen |-> g, seeded |-> s, waiting |-> w, addressesLoaded |-> l, lists |-> m, calls |-> c]
  BY <1>1, <1>2 DEF Lists
<1>4. ASSUME NEW x \in SUBSET Cats
      PROVE  LET n == [b EXCEPT !.seeded = x] IN Lists(n) /\ n.gen = b.gen
  <2>1. [b EXCEPT !.seeded = x] =
          [gen |-> g, seeded |-> x, waiting |-> w, addressesLoaded |-> l, lists |-> m, calls |-> c]
    BY <1>3
  <2>2. Lists([gen |-> g, seeded |-> x, waiting |-> w, addressesLoaded |-> l, lists |-> m, calls |-> c])
    BY <1>1, <1>2, ListsParts
  <2> QED BY <1>1, <2>1, <2>2
<1>5. ASSUME NEW x, x \in BOOLEAN
      PROVE  LET n == [b EXCEPT !.waiting = x] IN Lists(n) /\ n.gen = b.gen
  <2>1. [b EXCEPT !.waiting = x] =
          [gen |-> g, seeded |-> s, waiting |-> x, addressesLoaded |-> l, lists |-> m, calls |-> c]
    BY <1>3
  <2>2. Lists([gen |-> g, seeded |-> s, waiting |-> x, addressesLoaded |-> l, lists |-> m, calls |-> c])
    BY <1>1, <1>2, <1>5, ListsParts
  <2> QED BY <1>1, <2>1, <2>2
<1>6. ASSUME NEW x, x \in BOOLEAN
      PROVE  LET n == [b EXCEPT !.addressesLoaded = x] IN Lists(n) /\ n.gen = b.gen
  <2>1. [b EXCEPT !.addressesLoaded = x] =
          [gen |-> g, seeded |-> s, waiting |-> w, addressesLoaded |-> x, lists |-> m, calls |-> c]
    BY <1>3
  <2>2. Lists([gen |-> g, seeded |-> s, waiting |-> w, addressesLoaded |-> x, lists |-> m, calls |-> c])
    BY <1>1, <1>2, <1>6, ListsParts
  <2> QED BY <1>1, <2>1, <2>2
<1>7. ASSUME NEW x \in [Addrs -> [Keys -> Contents]]
      PROVE  LET n == [b EXCEPT !.lists = x] IN Lists(n) /\ n.gen = b.gen
  <2>1. [b EXCEPT !.lists = x] =
          [gen |-> g, seeded |-> s, waiting |-> w, addressesLoaded |-> l, lists |-> x, calls |-> c]
    BY <1>3
  <2>2. Lists([gen |-> g, seeded |-> s, waiting |-> w, addressesLoaded |-> l, lists |-> x, calls |-> c])
    BY <1>1, <1>2, ListsParts
  <2> QED BY <1>1, <2>1, <2>2
<1>8. ASSUME NEW x \in SUBSET CallsTo(g)
      PROVE  LET n == [b EXCEPT !.calls = x] IN Lists(n) /\ n.gen = b.gen
  <2>1. [b EXCEPT !.calls = x] =
          [gen |-> g, seeded |-> s, waiting |-> w, addressesLoaded |-> l, lists |-> m, calls |-> x]
    BY <1>3
  <2>2. Lists([gen |-> g, seeded |-> s, waiting |-> w, addressesLoaded |-> l, lists |-> m, calls |-> x])
    BY <1>1, <1>2, ListsParts
  <2> QED BY <1>1, <2>1, <2>2
<1> QED BY <1>1, <1>4, <1>5, <1>6, <1>7, <1>8

\* What a list holds changes, whatever list it is.
LEMMA PutTyped ==
  ASSUME NEW b, Lists(b), NEW a, NEW k, NEW how \in Contents
  PROVE  Lists(Put(b, a, k, how)) /\ Put(b, a, k, how).gen = b.gen
<1> DEFINE m == [b.lists EXCEPT ![a][k] = how]
<1>1. m \in [Addrs -> [Keys -> Contents]]
  BY DEF Lists
<1>2. Put(b, a, k, how) = [b EXCEPT !.lists = m]
  BY DEF Put
<1> HIDE DEF m
<1> QED BY <1>1, <1>2, FieldTyped

LEMMA CallingTyped ==
  ASSUME NEW b, Lists(b), NEW c \in CallsTo(b.gen)
  PROVE  Lists(Calling(b, c)) /\ Calling(b, c).gen = b.gen
<1> DEFINE x == b.calls \cup {c}
<1>1. x \in SUBSET CallsTo(b.gen)
  BY DEF Lists
<1>2. Calling(b, c) = [b EXCEPT !.calls = x]
  BY DEF Calling
<1> HIDE DEF x
<1> QED BY <1>1, <1>2, FieldTyped

LEMMA SeededTyped ==
  ASSUME NEW b, Lists(b), NEW a, NEW q \in Cats, NEW copy
  PROVE  Lists(Seeded(b, a, q, copy)) /\ Seeded(b, a, q, copy).gen = b.gen
<1> DEFINE p == Put(b, a, Category(q), "seed")
<1>1. Lists(p) /\ p.gen = b.gen
  BY PutTyped DEF Contents
<1>2. Seeded(b, a, q, copy) = b \/ Seeded(b, a, q, copy) = [p EXCEPT !.seeded = @ \cup {q}]
  BY DEF Seeded
<1> HIDE DEF p
<1>3. PICK s \in SUBSET Cats : s = p.seeded \cup {q}
  BY <1>1 DEF Lists
<1>4. Lists([p EXCEPT !.seeded = s]) /\ [p EXCEPT !.seeded = s].gen = p.gen
  BY <1>1, FieldTyped
<1> QED BY <1>1, <1>2, <1>3, <1>4

LEMMA StartTyped ==
  ASSUME NEW b, Lists(b), NEW a \in Addrs \cup {NoAddr}, NEW q \in Cats, NEW copy
  PROVE  Lists(Start(b, a, q, copy))
<1> DEFINE s == Seeded(b, a, q, copy)
           n == [s EXCEPT !.gen = @ + 1]
<1>1. Lists(s) /\ s.gen = b.gen
  BY SeededTyped
<1>2. Start(b, a, q, copy) = Calling(n, PlacesCall(a, q, 1, n.gen))
  BY DEF Start
<1> HIDE DEF s
<1>3. n = [gen |-> s.gen + 1, seeded |-> s.seeded, waiting |-> s.waiting, addressesLoaded |-> s.addressesLoaded,
           lists |-> s.lists, calls |-> s.calls]
  BY <1>1 DEF Lists
<1>4. s.gen \in Nat /\ s.gen + 1 \in Nat
  BY <1>1 DEF Lists
<1>5. CallsTo(s.gen) \subseteq CallsTo(s.gen + 1)
  BY <1>4 DEF CallsTo
<1> HIDE DEF n
<1>6. Lists(n) /\ n.gen = s.gen + 1
  <2>1. n.gen = s.gen + 1 /\ n.calls = s.calls /\ n.seeded = s.seeded /\ n.lists = s.lists
    BY <1>3
  <2>2. n.waiting = s.waiting /\ n.addressesLoaded = s.addressesLoaded
    BY <1>3
  <2>3. n = [gen |-> n.gen, seeded |-> n.seeded, waiting |-> n.waiting, addressesLoaded |-> n.addressesLoaded,
             lists |-> n.lists, calls |-> n.calls]
    BY <1>3, <2>1, <2>2
  <2>4. n.waiting \in BOOLEAN /\ n.addressesLoaded \in BOOLEAN
    BY <1>1, <2>2 DEF Lists
  <2> QED BY <1>1, <1>4, <1>5, <2>1, <2>3, <2>4 DEF Lists
<1>7. PlacesCall(a, q, 1, n.gen) \in CallsTo(n.gen)
  BY <1>4, <1>6 DEF PlacesCall, CallsTo
<1> QED BY <1>2, <1>6, <1>7, CallingTyped

\* The categories of the rail.
LEMMA RailTyped == HomeQuery \in Cats /\ \A i \in 2..(RailLen - 1) : QueryOf(i) \in Cats
<1>1. Len(Chips) \in Nat /\ Len(Chips) > 0 /\ DOMAIN Chips = 1..Len(Chips)
  BY PlacesAssumption
<1> QED BY <1>1 DEF HomeQuery, Cats, RailLen, QueryOf

LEMMA LoadTyped ==
  ASSUME NEW b, Lists(b), NEW a \in Addrs \cup {NoAddr}, NEW copy
  PROVE  /\ Lists(EnsureHome(b, a, copy)) /\ Lists(LoadHome(b, a, copy))
         /\ \A i \in 0..(RailLen - 1) : Lists(LoadForRail(b, a, i, copy))
<1>1. Lists(EnsureHome(b, a, copy))
  BY StartTyped, RailTyped DEF EnsureHome
<1>2. Lists(LoadHome(b, a, copy))
  <2>1. \A n : Lists(n) => Lists([n EXCEPT !.waiting = FALSE]) /\ Lists([n EXCEPT !.waiting = TRUE])
    <3> SUFFICES ASSUME NEW n, Lists(n)
                 PROVE  Lists([n EXCEPT !.waiting = FALSE]) /\ Lists([n EXCEPT !.waiting = TRUE])
      OBVIOUS
    <3>1. FALSE \in BOOLEAN /\ TRUE \in BOOLEAN
      OBVIOUS
    <3> QED BY <3>1, FieldTyped
  <2>2. Lists(Start(b, a, HomeQuery, copy))
    BY StartTyped, RailTyped
  <2> QED BY <2>1, <2>2 DEF LoadHome
<1>3. ASSUME NEW i \in 0..(RailLen - 1) PROVE Lists(LoadForRail(b, a, i, copy))
  <2>1. CASE i \in {0, Home}
    BY <1>1, <2>1 DEF LoadForRail, Home
  <2>2. CASE i \notin {0, Home}
    <3>1. QueryOf(i) \in Cats
      BY <2>2, RailTyped DEF Home
    <3>2. Lists(Start(b, a, QueryOf(i), copy))
      BY <3>1, StartTyped
    <3> QED BY <2>2, <3>2 DEF LoadForRail, Home, EnsureQuery
  <2> QED BY <2>1, <2>2
<1> QED BY <1>1, <1>2, <1>3

LEMMA PlacesDomains == ASSUME PlacesTyped PROVE PlacesTypeOK
<1>1. browse.gen \in Nat /\ MaxGen \in Nat /\ browse.gen \in 0..MaxGen
  BY BrowseAssumption DEF PlacesTyped, Lists
<1>2. CallsTo(browse.gen) \subseteq Calls
  BY <1>1 DEF CallsTo, Calls
<1>3. {browse.waiting, browse.addressesLoaded} \subseteq BOOLEAN
  BY DEF PlacesTyped, Lists
<1> QED BY <1>1, <1>2, <1>3 DEF PlacesTyped, PlacesTypeOK, Lists, Others, Contents

LEMMA KnownAddrs ==
  ASSUME PlacesTyped
  PROVE  /\ DOMAIN known = 1..Len(known) /\ Len(known) \in Nat /\ \A i \in DOMAIN known : known[i] \in Addrs
         /\ known # <<>> => 1 \in DOMAIN known
<1>1. <<>> \in Seq(Addrs)
  OBVIOUS
<1>2. known \in Seq(Addrs)
  BY <1>1, PlacesAssumption DEF PlacesTyped, Others
<1> QED BY <1>2

\* The rail, what was submitted and the screen follow the keys.
LEMMA KeysTyped ==
  ASSUME PlacesTyped
  PROVE  /\ RailMove \/ Settle \/ RailEnter \/ Focus \/ Slash \/ Type \/ Submit \/ LeaveSearch => rail' \in
             [active : 0..(RailLen - 1), focus : BOOLEAN, settle : BOOLEAN]
         /\ Pick \/ Switch \/ Leave => rail' \in [active : 0..(RailLen - 1), focus : BOOLEAN, settle : BOOLEAN]
<1>1. rail \in [active : 0..(RailLen - 1), focus : BOOLEAN, settle : BOOLEAN]
  BY DEF PlacesTyped, Others
<1>2. RailLen \in Nat /\ Home \in 0..(RailLen - 1) /\ 0 \in 0..(RailLen - 1)
  BY PlacesAssumption DEF RailLen, Home
<1>3. PICK a, f, t : a \in 0..(RailLen - 1) /\ f \in BOOLEAN /\ t \in BOOLEAN
        /\ rail = [active |-> a, focus |-> f, settle |-> t]
  BY <1>1
<1>4. \A x \in 0..(RailLen - 1) : \A u \in BOOLEAN : \A v \in BOOLEAN :
        [active |-> x, focus |-> u, settle |-> v] \in [active : 0..(RailLen - 1), focus : BOOLEAN, settle : BOOLEAN]
  OBVIOUS
<1>5. CASE RailMove
  <2>1. PICK d \in {-1, 1} : /\ rail.active + d \in 0..(RailLen - 1)
                             /\ rail' = [rail EXCEPT !.active = @ + d, !.settle = TRUE]
    BY <1>5 DEF RailMove
  <2>2. rail' = [active |-> rail.active + d, focus |-> f, settle |-> TRUE]
    BY <1>3, <2>1
  <2> QED BY <1>4, <1>3, <2>1, <2>2
<1>6. CASE Settle \/ RailEnter \/ Focus \/ Slash \/ Type \/ Submit \/ LeaveSearch \/ Pick \/ Switch \/ Leave
  <2>1. PICK x, u, v : /\ x \in 0..(RailLen - 1) /\ u \in BOOLEAN /\ v \in BOOLEAN
                      /\ rail' = [active |-> x, focus |-> u, settle |-> v]
    BY <1>2, <1>3, <1>6 DEF Settle, RailEnter, Focus, Slash, Type, Submit, LeaveSearch, Pick, Switch, Leave, Fresh
  <2> QED BY <1>4, <2>1
<1> QED BY <1>5, <1>6

LEMMA GateTyped ==
  ASSUME PlacesTyped, NEW scr, NEW loaded, NEW b, Lists(b), b.gen <= MaxGen, MaybeGate(scr, known, loaded, b)
  PROVE  /\ Lists(browse') /\ browse'.gen <= MaxGen
         /\ addr' \in Addrs \cup {NoAddr} /\ gate' \in {"pending", "picker", "passed"}
<1>1. addr \in Addrs \cup {NoAddr} /\ gate \in {"pending", "picker", "passed"}
  BY DEF PlacesTyped, Others
<1>2. CASE browse' = b /\ UNCHANGED addr /\ (UNCHANGED gate \/ gate' \in {"passed", "picker"})
  BY <1>1, <1>2 DEF Lists
<1>3. ASSUME Len(known) = 1, gate' = "passed", addr' = known[1],
             NEW copy \in BOOLEAN, browse' = LoadHome(b, known[1], copy), Within(browse')
      PROVE  /\ Lists(browse') /\ browse'.gen <= MaxGen
             /\ addr' \in Addrs \cup {NoAddr} /\ gate' \in {"pending", "picker", "passed"}
  <2>1. PICK a \in Addrs : a = known[1]
    BY <1>3, KnownAddrs
  <2>2. PICK n : n = LoadHome(b, a, copy) /\ Lists(n)
    BY LoadTyped
  <2>3. browse' = n
    BY <1>3, <2>1, <2>2
  <2>4. browse'.gen <= MaxGen
    BY <1>3 DEF Within
  <2> QED BY <1>3, <2>1, <2>2, <2>3, <2>4 DEF Lists
<1> QED BY <1>2, <1>3 DEF MaybeGate

\* Where a key asks for a list, or for none.
LEMMA AskedTyped ==
  ASSUME PlacesTyped, Within(browse') \/ UNCHANGED browse,
         \/ UNCHANGED browse
         \/ \E copy \in BOOLEAN : browse' = LoadForRail(browse, addr, rail.active, copy)
         \/ \E copy \in BOOLEAN : browse' = EnsureHome(browse, addr, copy)
         \/ \E w \in Words : browse' = Calling(browse, SearchCall(addr, w))
  PROVE  Lists(browse') /\ browse'.gen <= MaxGen
<1>1. PICK b : b = browse /\ Lists(b) /\ b.gen <= MaxGen
  BY DEF PlacesTyped
<1>2. PICK a \in Addrs \cup {NoAddr} : a = addr
  BY DEF PlacesTyped, Others
<1>3. PICK i \in 0..(RailLen - 1) : i = rail.active
  BY DEF PlacesTyped, Others
<1>4. PICK n : browse' = n
  OBVIOUS
<1>5. CASE n = b
  BY <1>1, <1>4, <1>5 DEF Lists
<1>6. ASSUME NEW copy \in BOOLEAN, n = LoadForRail(b, a, i, copy) \/ n = EnsureHome(b, a, copy) PROVE Lists(n)
  BY <1>1, <1>6, LoadTyped
<1>7. ASSUME NEW w \in Words, n = Calling(b, SearchCall(a, w)) PROVE Lists(n)
  <2>1. SearchCall(a, w) \in CallsTo(b.gen)
    BY <1>1 DEF SearchCall, CallsTo, Lists
  <2> QED BY <1>1, <1>7, <2>1, CallingTyped
<1>8. n = b \/ Lists(n)
  BY <1>1, <1>2, <1>3, <1>4, <1>6, <1>7
<1>9. Within(browse') => n.gen <= MaxGen
  BY <1>4 DEF Within
<1> QED BY <1>1, <1>4, <1>5, <1>8, <1>9 DEF Lists

LEMMA KeysStayTyped ==
  ASSUME PlacesTyped,
         RailMove \/ Settle \/ RailEnter \/ Focus \/ Slash \/ Type \/ Submit \/ LeaveSearch \/ Leave \/ Return
  PROVE  PlacesTyped'
<1>1. /\ UNCHANGED Place
      /\ screen' \in {screen, "away", "menu"}
      /\ submitted' \in {submitted, NoQuery} \cup Words
  BY DEF RailMove, Settle, RailEnter, Focus, Slash, Type, Submit, LeaveSearch, Leave, Return, Entered
<1>2. rail' \in [active : 0..(RailLen - 1), focus : BOOLEAN, settle : BOOLEAN]
  <2>1. CASE Return
    BY <2>1 DEF Return, PlacesTyped, Others
  <2> QED BY <2>1, KeysTyped
<1>3. Lists(browse') /\ browse'.gen <= MaxGen
  <2>1. CASE RailMove \/ Focus \/ Slash \/ Type \/ Leave \/ Return
    BY <2>1, AskedTyped DEF RailMove, Focus, Slash, Type, Leave, Return
  <2>2. CASE Settle \/ RailEnter
    BY <2>2, AskedTyped DEF Settle, RailEnter
  <2>3. CASE LeaveSearch
    BY <2>3, AskedTyped DEF LeaveSearch
  <2>4. CASE Submit
    <3>1. PICK w \in Words : browse' \in {browse, Calling(browse, SearchCall(addr, w))} /\ Within(browse')
      BY <2>4 DEF Submit
    <3> QED BY <3>1, AskedTyped
  <2> QED BY <2>1, <2>2, <2>3, <2>4
<1>4. Others'
  BY <1>1, <1>2 DEF PlacesTyped, Others, Place
<1> QED BY <1>3, <1>4 DEF PlacesTyped, Lists

LEMMA GateStaysTyped ==
  ASSUME PlacesTyped, Show \/ Pick \/ Switch \/ SignedIn
  PROVE  PlacesTyped'
<1>1. PICK b : b = browse /\ Lists(b) /\ b.gen <= MaxGen
  BY DEF PlacesTyped
<1>2. PICK f : f = Forget(b) /\ Lists(f)
  <2>1. {} \in SUBSET Cats
    OBVIOUS
  <2> QED BY <1>1, <2>1, FieldTyped DEF Forget
<1>3. CASE Show
  <2>1. MaybeGate(screen', known, browse.addressesLoaded, browse)
    BY <1>3 DEF Show
  <2>2. PICK scr, loaded : scr = screen' /\ loaded = browse.addressesLoaded
    OBVIOUS
  <2>3. MaybeGate(scr, known, loaded, b)
    BY <1>1, <2>1, <2>2 DEF MaybeGate
  <2>4. /\ Lists(browse') /\ browse'.gen <= MaxGen
        /\ addr' \in Addrs \cup {NoAddr} /\ gate' \in {"pending", "picker", "passed"}
    BY <1>1, <2>3, GateTyped
  <2> QED BY <1>3, <2>4 DEF Show, PlacesTyped, Others, Lists
<1>4. CASE Pick \/ Switch
  <2>1. PICK i \in DOMAIN known, copy \in BOOLEAN :
          /\ addr' = known[i]
          /\ browse' = LoadHome(Forget(browse), known[i], copy) \/ browse' = EnsureHome(Forget(browse), known[i], copy)
    BY <1>4 DEF Pick, Switch
  <2>2. PICK a \in Addrs : a = known[i]
    BY <2>1, KnownAddrs
  <2>3. PICK n : n = browse'
    OBVIOUS
  <2>4. Lists(n)
    <3>1. n = LoadHome(f, a, copy) \/ n = EnsureHome(f, a, copy)
      BY <1>1, <1>2, <2>1, <2>2, <2>3
    <3> QED BY <1>2, <3>1, LoadTyped
  <2>5. browse'.gen <= MaxGen
    BY <1>4 DEF Pick, Switch, Within
  <2>6. rail' \in [active : 0..(RailLen - 1), focus : BOOLEAN, settle : BOOLEAN]
    BY <1>4, KeysTyped
  <2>7. Others'
    BY <1>4, <2>1, <2>2, <2>6 DEF Pick, Switch, PlacesTyped, Others
  <2> QED BY <2>3, <2>4, <2>5, <2>7 DEF PlacesTyped, Lists
<1>5. CASE SignedIn
  <2>1. AddressCall \in CallsTo(b.gen)
    BY <1>1 DEF AddressCall, CallsTo, Lists
  <2>2. PICK n : n = Calling(b, AddressCall) /\ Lists(n) /\ n.gen = b.gen
    BY <1>1, <2>1, CallingTyped
  <2>3. browse' = n
    BY <1>1, <1>5, <2>2 DEF SignedIn
  <2>4. session' \in [needsAuth : BOOLEAN, lost : 0..MaxLost]
    BY <1>5 DEF SignedIn, PlacesTyped, Others
  <2>5. Others'
    BY <1>5, <2>4 DEF SignedIn, PlacesTyped, Others
  <2> QED BY <1>1, <2>2, <2>3, <2>5 DEF PlacesTyped, Lists
<1> QED BY <1>3, <1>4, <1>5

\* A call that changes where it is, or leaves.
LEMMA LandedTyped ==
  ASSUME PlacesTyped, NEW c \in browse.calls
  PROVE  /\ \A at \in {"done", "more", "failed", "unauthorised"} : Lists(Landed(c, at)) /\ Landed(c, at).gen = browse.gen
         /\ Lists(Handled(c)) /\ Handled(c).gen = browse.gen
<1>1. PICK b : b = browse /\ Lists(b)
  BY DEF PlacesTyped
<1>2. c \in CallsTo(b.gen)
  BY <1>1 DEF Lists
<1>3. ASSUME NEW at \in {"done", "more", "failed", "unauthorised"}
      PROVE  Lists(Landed(c, at)) /\ Landed(c, at).gen = browse.gen
  <2> DEFINE x == (b.calls \ {c}) \cup {[c EXCEPT !.at = at]}
  <2>1. [c EXCEPT !.at = at] \in CallsTo(b.gen)
    BY <1>2 DEF CallsTo
  <2>2. x \in SUBSET CallsTo(b.gen)
    BY <1>1, <2>1 DEF Lists
  <2>3. Landed(c, at) = [b EXCEPT !.calls = x]
    BY <1>1 DEF Landed
  <2> HIDE DEF x
  <2> QED BY <1>1, <2>2, <2>3, FieldTyped
<1>4. Lists(Handled(c)) /\ Handled(c).gen = browse.gen
  <2> DEFINE x == b.calls \ {c}
  <2>1. x \in SUBSET CallsTo(b.gen)
    BY <1>1 DEF Lists
  <2>2. Handled(c) = [b EXCEPT !.calls = x]
    BY <1>1 DEF Handled
  <2> HIDE DEF x
  <2> QED BY <1>1, <2>1, <2>2, FieldTyped
<1> QED BY <1>3, <1>4

LEMMA LandsTyped ==
  ASSUME PlacesTyped, NEW c \in browse.calls, Land(c) \/ LandAddresses(c) \/ Fail(c)
  PROVE  PlacesTyped'
<1>1. PICK n : n = browse'
  OBVIOUS
<1>2. Lists(n) /\ n.gen = browse.gen
  <2>1. CASE Land(c)
    <3>1. PICK at, a, k, how : /\ at \in {"done", "more"} /\ how \in Contents
                                 /\ n = Put(Landed(c, at), a, k, how)
      <4>1. PICK k : \/ browse' = Put(Landed(c, "done"), c.addr, k, "none")
                     \/ browse' = Put(Landed(c, "done"), c.addr, k, "all")
                     \/ browse' = Put(Landed(c, "more"), c.addr, k, "part")
        BY <2>1, Zenon DEF Land
      <4>2. {"none", "all", "part"} \subseteq Contents
        BY DEF Contents
      <4> QED BY <1>1, <4>1, <4>2
    <3>2. PICK l : l = Landed(c, at) /\ Lists(l) /\ l.gen = browse.gen
      BY <3>1, LandedTyped
    <3> QED BY <3>1, <3>2, PutTyped
  <2>2. CASE LandAddresses(c) \/ Fail(c)
    <3>1. PICK at \in {"done", "failed", "unauthorised"} : n = Landed(c, at)
      BY <1>1, <2>2 DEF LandAddresses, Fail
    <3> QED BY <3>1, LandedTyped
  <2> QED BY <2>1, <2>2
<1>3. session' \in [needsAuth : BOOLEAN, lost : 0..MaxLost]
  <2>1. session \in [needsAuth : BOOLEAN, lost : 0..MaxLost] /\ MaxLost \in Nat
    BY BrowseAssumption DEF PlacesTyped, Others
  <2>2. UNCHANGED session \/ (session.lost < MaxLost /\ session' = [session EXCEPT !.lost = @ + 1])
    BY DEF Land, LandAddresses, Fail
  <2> QED BY <2>1, <2>2
<1>4. Others'
  BY <1>3 DEF Land, LandAddresses, Fail, PlacesTyped, Others
<1> QED BY <1>1, <1>2, <1>4 DEF PlacesTyped, Lists

LEMMA HandledTyped ==
  ASSUME PlacesTyped, NEW c \in browse.calls, Handle(c)
  PROVE  PlacesTyped'
<1>1. PICK h : h = Handled(c) /\ Lists(h) /\ h.gen = browse.gen
  BY LandedTyped
<1>2. browse.gen <= MaxGen
  BY DEF PlacesTyped
<1>3. CASE Unauthorised(c) \/ Results(c)
  <2>1. browse' = h
    BY <1>1, <1>3 DEF Unauthorised, Results
  <2>2. session' \in [needsAuth : BOOLEAN, lost : 0..MaxLost]
    BY <1>3 DEF Unauthorised, Results, PlacesTyped, Others
  <2>3. Others'
    BY <1>3, <2>2 DEF Unauthorised, Results, PlacesTyped, Others
  <2> QED BY <1>1, <1>2, <2>1, <2>3 DEF PlacesTyped, Lists
<1>4. CASE Addresses(c)
  <2> DEFINE b == [h EXCEPT !.addressesLoaded = TRUE]
  <2>1. Lists(b) /\ b.gen = h.gen
    <3>1. TRUE \in BOOLEAN
      OBVIOUS
    <3> QED BY <1>1, <3>1, FieldTyped
  <2>2. UNCHANGED <<screen, session, known, rail, submitted>>
    BY <1>4 DEF Addresses
  <2>3. /\ Lists(browse') /\ browse'.gen <= MaxGen
        /\ addr' \in Addrs \cup {NoAddr} /\ gate' \in {"pending", "picker", "passed"}
    <3>1. CASE gate # "passed"
      <4>1. MaybeGate(screen, known, TRUE, b)
        BY <1>1, <1>4, <3>1 DEF Addresses
      <4>2. PICK scr, loaded : scr = screen /\ loaded = TRUE
        OBVIOUS
      <4> HIDE DEF b
      <4>3. MaybeGate(scr, known, loaded, b)
        BY <4>1, <4>2 DEF MaybeGate
      <4> QED BY <1>1, <1>2, <2>1, <4>3, GateTyped
    <3>2. CASE gate = "passed"
      <4>1. PICK a : a = IF known = <<>> THEN addr ELSE known[1]
        OBVIOUS
      <4>2. a \in Addrs \cup {NoAddr}
        BY <4>1, KnownAddrs DEF PlacesTyped, Others
      <4>3. PICK copy \in BOOLEAN : browse' = LoadHome(b, a, copy) /\ Within(browse') /\ addr' = a /\ UNCHANGED gate
        BY <1>1, <1>4, <3>2, <4>1 DEF Addresses
      <4>4. PICK n : n = LoadHome(b, a, copy)
        OBVIOUS
      <4>5. Lists(n)
        BY <2>1, <4>2, <4>4, LoadTyped
      <4>6. browse'.gen <= MaxGen
        BY <4>3 DEF Within
      <4> QED BY <3>2, <4>2, <4>3, <4>4, <4>5, <4>6 DEF Lists
    <3> QED BY <3>1, <3>2
  <2> QED BY <2>2, <2>3 DEF PlacesTyped, Others, Lists
<1>5. CASE Page(c)
  <2> DEFINE b == [h EXCEPT !.waiting = FALSE]
  <2>1. Lists(b) /\ b.gen = h.gen
    <3>1. FALSE \in BOOLEAN
      OBVIOUS
    <3> QED BY <1>1, <3>1, FieldTyped
  <2>2. UNCHANGED <<screen, session, addr, gate, known, rail, submitted>>
    BY <1>5 DEF Page
  <2>3. PICK n : /\ n = b \/ n = [b EXCEPT !.seeded = @ \ {c.query}]
                 /\ \/ browse' \in {n, b}
                    \/ /\ c.page < 2
                       /\ browse' = Calling(n, PlacesCall(addr, c.query, c.page + 1, n.gen))
    BY <1>1, <1>5 DEF Page
  <2>4. Lists(n) /\ n.gen = b.gen
    <3>1. PICK s \in SUBSET Cats : s = b.seeded \ {c.query}
      BY <2>1 DEF Lists
    <3> HIDE DEF b
    <3>2. Lists([b EXCEPT !.seeded = s]) /\ [b EXCEPT !.seeded = s].gen = b.gen
      BY <2>1, FieldTyped
    <3> QED BY <2>1, <2>3, <3>1, <3>2
  <2> HIDE DEF b
  <2>5. c \in CallsTo(browse.gen)
    BY DEF PlacesTyped, Lists
  <2>6. c.page < 2 => PlacesCall(addr, c.query, c.page + 1, n.gen) \in CallsTo(n.gen)
    BY <2>4, <2>5 DEF PlacesCall, CallsTo, Lists, PlacesTyped, Others
  <2>7. PICK r : r = browse' /\ Lists(r) /\ r.gen = h.gen
    <3>1. PICK d : d = PlacesCall(addr, c.query, c.page + 1, n.gen)
      OBVIOUS
    <3>2. c.page < 2 => Lists(Calling(n, d)) /\ Calling(n, d).gen = n.gen
      BY <2>4, <2>6, <3>1, CallingTyped
    <3> QED BY <2>1, <2>3, <2>4, <3>1, <3>2
  <2>8. Others'
    BY <2>2 DEF PlacesTyped, Others
  <2> QED BY <1>1, <1>2, <2>7, <2>8 DEF PlacesTyped, Lists
<1> QED BY <1>3, <1>4, <1>5 DEF Handle

LEMMA TypedInit == ASSUME BothInit PROVE PlacesTyped
<1>1. Home \in 0..(RailLen - 1)
  BY PlacesAssumption DEF RailLen, Home
<1>2. AddressCall \in CallsTo(0)
  BY DEF AddressCall, CallsTo
<1>3. 0 \in 0..MaxLost /\ 0 <= MaxGen
  BY BrowseAssumption
<1>4. Lists(browse)
  BY <1>2 DEF BothInit, Init, Lists, Contents
<1>5. Others
  BY <1>1, <1>3 DEF BothInit, Init, Others
<1>6. browse.gen <= MaxGen
  BY <1>3 DEF BothInit, Init
<1> QED BY <1>4, <1>5, <1>6 DEF PlacesTyped

LEMMA TypedNext == ASSUME PlacesTyped, [BothNext]_everything PROVE PlacesTyped'
<1>1. CASE UNCHANGED placesVars
  BY <1>1 DEF placesVars, PlacesTyped, Others, Lists
<1>2. CASE Next
  BY <1>2, LandsTyped, HandledTyped, KeysStayTyped, GateStaysTyped DEF Next
<1> QED BY <1>1, <1>2 DEF BothNext, everything

Pages == [screen : {"splash", "menu", "confirm", "tracking"}, pick : BOOLEAN, card : Maybe, foreign : BOOLEAN]

\* What FollowInv does not say of the orders that are followed.
CardInv ==
  /\ coords \subseteq Instamart /\ track \in Pages
  /\ used \in [faults : 0..MaxFaults, launches : 0..MaxLaunches]

LEMMA CardMoves ==
  ASSUME track \in Pages
  PROVE  /\ \A s \in {"splash", "menu", "confirm", "tracking"} : [track EXCEPT !.screen = s] \in Pages
         /\ \A v \in BOOLEAN : [track EXCEPT !.pick = v] \in Pages /\ [track EXCEPT !.foreign = v] \in Pages
         /\ \A o \in Maybe : /\ Follow!Card(o) \in Pages
                             /\ [track EXCEPT !.screen = "confirm", !.card = o, !.foreign = FALSE] \in Pages
         /\ [track EXCEPT !.screen = "splash", !.pick = FALSE] \in Pages
         /\ [screen |-> "splash", pick |-> FALSE, card |-> NoOrder, foreign |-> FALSE] \in Pages
BY DEF Pages, Maybe, Follow!Card

LEMMA CoordsKept ==
  ASSUME CardInv, NEW after, NEW vertical, NEW o, NEW list
  PROVE  /\ Follow!Discover(o, after) => coords' \subseteq Instamart /\ track' = track
         /\ Follow!ListBeside(vertical, list, after) => coords' \subseteq Instamart /\ track' = track
BY DEF CardInv, Follow!Discover, Follow!ListBeside

LEMMA CardAnswered ==
  ASSUME FollowInv, CardInv, NEW c \in flight,
         Follow!Serve(c) \/ Follow!Tracked(c) \/ Follow!FoodListed(c) \/ Follow!IMListed(c) \/ Follow!Failed(c)
  PROVE  CardInv'
<1>1. CASE Follow!Serve(c)
  <2>1. used' \in [faults : 0..MaxFaults, launches : 0..MaxLaunches]
    <3>1. UNCHANGED used \/ (used.faults < MaxFaults /\ used' = [used EXCEPT !.faults = @ + 1])
      BY <1>1 DEF Follow!Serve
    <3>2. MaxFaults \in Nat
      BY BrowseAssumption
    <3> QED BY <3>1, <3>2 DEF CardInv
  <2> QED BY <1>1, <2>1 DEF CardInv, Follow!Serve
<1>2. CASE Follow!Tracked(c)
  <2>1. UNCHANGED track \/ \E v \in BOOLEAN : track' = [track EXCEPT !.foreign = v]
    BY <1>2 DEF Follow!Tracked
  <2> QED BY <1>2, <2>1, CardMoves DEF CardInv, Follow!Tracked
<1>3. CASE Follow!FoodListed(c)
  <2>1. coords' \subseteq Instamart /\ track' = track
    BY <1>3, CoordsKept DEF Follow!FoodListed, CardInv
  <2> QED BY <1>3, <2>1 DEF CardInv, Follow!FoodListed
<1>4. CASE Follow!IMListed(c)
  <2>1. coords' \subseteq Instamart /\ (UNCHANGED track \/ \E v \in BOOLEAN : track' = [track EXCEPT !.foreign = v])
    BY <1>4, CoordsKept DEF Follow!IMListed, CardInv
  <2> QED BY <1>4, <2>1, CardMoves DEF CardInv, Follow!IMListed
<1>5. CASE Follow!Failed(c)
  BY <1>5 DEF CardInv, Follow!Failed
<1> QED BY <1>1, <1>2, <1>3, <1>4, <1>5

LEMMA CardInit == ASSUME BothInit PROVE CardInv
BY BrowseAssumption DEF BothInit, Follow!Init, CardInv, Pages, Maybe

LEMMA CardNext == ASSUME FollowInv, CardInv, [BothNext]_everything PROVE CardInv'
<1>0. /\ slot.has => slot.id \in AllOrders
      /\ slot.id \in Maybe /\ alt \in Maybe /\ track \in Pages
  BY FollowParts DEF FollowInv, FollowTypes, CardInv
<1>1. CASE UNCHANGED followVars
  BY <1>1 DEF followVars, CardInv
<1>2. CASE Follow!Next
  <2>1. CASE \E o \in Follow!Orders : Follow!Phone(o) \/ Follow!Deliver(o) \/ Follow!Time(o)
    BY <2>1 DEF Follow!Phone, Follow!Deliver, Follow!Time, CardInv
  <2>2. CASE \E c \in flight : Follow!Serve(c) \/ Follow!Tracked(c) \/ Follow!FoodListed(c) \/ Follow!IMListed(c)
                               \/ Follow!Failed(c)
    BY <2>2, CardAnswered
  <2>3. ASSUME NEW o \in Follow!Orders, NEW located \in Located, Follow!Place(o, located) PROVE CardInv'
    <3>1. o \in Maybe
      BY DEF Maybe, AllOrders, Follow!Orders
    <3>2. track' = [track EXCEPT !.screen = "confirm", !.card = o, !.foreign = FALSE] /\ UNCHANGED used
          /\ coords' \subseteq coords \cup Instamart
      BY <2>3 DEF Follow!Place
    <3> QED BY <1>0, <3>1, <3>2, CardMoves DEF CardInv
  <2>4. CASE Follow!ToTracking \/ Follow!PollTick \/ Follow!Leave \/ Follow!Dismiss \/ Follow!Home
    <3>1. /\ UNCHANGED <<coords, used>>
          /\ \/ UNCHANGED track
             \/ \E s \in {"splash", "menu", "confirm", "tracking"} : track' = [track EXCEPT !.screen = s]
             \/ track' = [track EXCEPT !.pick = FALSE]
      BY <2>4 DEF Follow!ToTracking, Follow!PollTick, Follow!Leave, Follow!Dismiss, Follow!Home
    <3> QED BY <1>0, <3>1, CardMoves DEF CardInv
  <2>5. CASE Follow!OpenTracking \/ Follow!PickFirst \/ Follow!Swap
    <3>1. /\ UNCHANGED <<coords, used>>
          /\ \/ \E v \in BOOLEAN : track' = [track EXCEPT !.pick = v]
             \/ \E o \in Maybe : track' = Follow!Card(o)
      BY <1>0, <2>5 DEF Follow!OpenTracking, Follow!PickFirst, Follow!Swap
    <3> QED BY <1>0, <3>1, CardMoves DEF CardInv
  <2>6. CASE Follow!LoggedOut \/ Follow!Restart
    <3>1. used' \in [faults : 0..MaxFaults, launches : 0..MaxLaunches]
      <4>1. used.launches < MaxLaunches /\ used' = [used EXCEPT !.launches = @ + 1]
        BY <2>6 DEF Follow!LoggedOut, Follow!Restart
      <4>2. MaxLaunches \in Nat
        BY BrowseAssumption
      <4> QED BY <4>1, <4>2 DEF CardInv
    <3>2. UNCHANGED coords
      BY <2>6 DEF Follow!LoggedOut, Follow!Restart
    <3>3. track' \in Pages
      BY <1>0, <2>6, CardMoves DEF Follow!LoggedOut, Follow!Restart
    <3> QED BY <3>1, <3>2, <3>3 DEF CardInv
  <2> QED BY <1>2, <2>1, <2>2, <2>3, <2>4, <2>5, <2>6 DEF Follow!Next, Follow!Answered, Follow!Keys
<1> QED BY <1>1, <1>2 DEF BothNext, everything

LEMMA FollowDomains == ASSUME FollowInv, CardInv PROVE Follow!FollowTypeOK
<1>1. Follow!Orders = AllOrders
  BY DEF Follow!Orders, AllOrders
<1>2. /\ world \in [AllOrders -> {"none", "live", "delivered"}] /\ age \in [AllOrders -> 0..2]
      /\ slot \in [has : BOOLEAN, id : Maybe] /\ alt \in Maybe /\ file \in Maybe
      /\ flight \subseteq Commands /\ (slot.has => slot.id # NoOrder)
  BY DEF FollowInv, FollowTypes
<1> QED BY <1>1, <1>2 DEF CardInv, Follow!FollowTypeOK, Pages, Commands, Maybe, Follow!Kinds

LEMMA MenuDomains == ASSUME MenuInv PROVE Menus!MenuTypeOK
<1>1. \A p \in Places : \A s \in OwnMenus(p) \cup {NoDish} : Menus!IsMenu(s)
  <2> SUFFICES ASSUME NEW p \in Places, NEW s \in OwnMenus(p), s # NoDish PROVE Menus!IsMenu(s)
    BY DEF Menus!IsMenu
  <2>1. s \in Seq(Menus!MenuOf(p)) /\ \A i, j \in DOMAIN s : s[i] = s[j] => i = j
    BY DEF OwnMenus, Uniq, IsInjective
  <2>2. Menus!ToSet(s) \subseteq Menus!Dishes
    BY <2>1, DishesAreKnown DEF Menus!ToSet, Menus!Dishes
  <2>3. Menus!IsInjective(s)
    BY <2>1 DEF Menus!IsInjective
  <2> QED BY <2>2, <2>3 DEF Menus!IsMenu
<1>2. /\ rest.place \in Places /\ rest.category \in Cuisines /\ rest.cursor \in Nat
      /\ {rest.veg, rest.filter, rest.searching, rest.info, rest.more, rest.partial} \subseteq BOOLEAN
      /\ rest.dishes \in OwnMenus(rest.place)
  BY DEF MenuInv, RestOK
<1>3. stream.gen \in 0..MaxGen /\ {stream.more, stream.partial, stream.staged} \subseteq BOOLEAN
  BY DEF MenuInv, MenuStreams
<1>4. \A p \in Places : Menus!IsMenu(visible[p]) /\ Menus!IsMenu(staging[p]) /\ Menus!IsMenu(cached[p])
  BY <1>1 DEF MenuInv, Kept
<1>5. \A c \in pages : /\ c.place \in Places /\ c.page \in Nat \ {0} /\ c.gen \in 1..MaxGen
                       /\ c.at \in {"asked", "more", "last", "failed"}
  BY DEF MenuInv, PageCalls
<1> QED BY <1>1, <1>2, <1>3, <1>4, <1>5 DEF MenuInv, Menus!MenuTypeOK, Cuisines, Menus!Dishes

LEMMA ShelfDomains == ASSUME ProdInv PROVE Products!ProductTypeOK
<1>1. {box.text, box.submitted, aisle.query} \subseteq Wanted /\ aisle.loaded \subseteq Products!Queries
  BY DEF ProdInv, ShelfInv, AisleInv
<1>2. column.active \in 0..Len(Aisles) /\ view.where \in {"away", "instamart", "checkout", "picker"} /\ view.addr \in Homes
  BY DEF ProdInv, AisleInv
<1>3. \A a \in Homes, q \in Products!Queries : shelf[a][q] \in {"none", "copy", "answer"}
  BY DEF ProdInv, ShelfInv
<1> QED BY <1>1, <1>2, <1>3 DEF Products!ProductTypeOK, Products!Search, Wanted

\* Every variable of what a user browses keeps to its domain, whatever answers come back and
\* in whatever order: addresses, queries, pages and streams on the browse screen, the dishes
\* and filters of a menu, the shelves of Instamart, and the orders that are followed.
THEOREM BrowsingTypes == BothSpec => []BrowseTypeOK
<1> DEFINE J == PlacesTyped /\ MenuInv /\ FollowInv /\ CardInv /\ ProdInv
<1>1. BothInit => J
  BY TypedInit, MenuInit, FollowInit, CardInit, ProdInit
<1>2. J /\ [BothNext]_everything => J'
  BY TypedNext, MenuNext, FollowNext, CardNext, ProdNext
<1>3. J => BrowseTypeOK
  BY PlacesDomains, MenuDomains, FollowDomains, ShelfDomains DEF BrowseTypeOK
<1> QED BY <1>1, <1>2, <1>3, PTL DEF BothSpec, everything
=============================================================================
