--------------------------- MODULE TuiCart_proofs ---------------------------
(***************************************************************************)
(* Theorems on the food cart of the terminal, for any dishes, prices,      *)
(* number of edits, orders, faults and commands under way. Part 1: cart    *)
(* writes do not overlap, and a yes orders once at most (IInv); the types. *)
(* Part 2, on top of it: Swiggy's cart converges to the user's last edit,  *)
(* and what is ordered is what was approved, if the user leaves it alone   *)
(* (CartInv).                                                              *)
(***************************************************************************)
EXTENDS TuiCart, FoldLemmas, FunctionTheorems

Flags == [pending : BOOLEAN, inFlight : BOOLEAN, mutating : BOOLEAN, confirmPending : BOOLEAN]
History == [edits : 0..MaxEdits, yes : 0..MaxYes, orders : Nat, touched : BOOLEAN, own : BOOLEAN,
            loose : BOOLEAN, faults : 0..MaxFaults]

\* What the proofs need of the types: the flags, the history, and that commands
\* and orders have their fields.
Shapes ==
    /\ modal \in BOOLEAN
    /\ sync \in Flags
    /\ past \in History
    /\ {"placing", "placePending", "total", "approved", "pay"} \subseteq DOMAIN order
    /\ \A c \in wire : {"kind", "state", "cart", "bill"} \subseteq DOMAIN c
    /\ IsFiniteSet(wire)

\* The modal is open only at rest: the last write starts with nothing in flight.
ModalAtRest == modal => ~sync.pending /\ ~sync.inFlight

\* An old write is under way only after a flight was forgotten.
OldIsLoose == ~past.loose => UnderWay({"old"}) = {}

\* The orders that calls under way may still make.
Open(c) == c.kind \in {"upi", "cod"} /\ c.state \in {"sent", "noqr"}
Opens == {c \in wire : Open(c)}

\* Every order made, and every one that may yet be made, has a yes of its own.
Owed == past.orders + Cardinality(Opens) + (IF order.placePending THEN 1 ELSE 0)
OneYesEach == Owed <= past.yes

IInv == Shapes /\ ModalAtRest /\ OldIsLoose /\ SingleFlight /\ OneYesEach

-----------------------------------------------------------------------------
\* fireSyncNow: it sends at most a write of the lines, only if none is in flight,
\* and raises the flag with it.
LEMMA FireOnce ==
    ASSUME NEW s \in Flags, NEW cart, NEW r
    PROVE  /\ FireSyncNow(s, cart, r) \in Flags
           /\ FireSyncNow(s, cart, r).mutating = s.mutating
           /\ FireSyncNow(s, cart, r).confirmPending = s.confirmPending
           /\ s.inFlight => FireSyncNow(s, cart, r).inFlight /\ SyncNowCmd(s, cart, r) = {}
           /\ SyncNowCmd(s, cart, r) \in {{}, {Command("write", cart)}}
           /\ SyncNowCmd(s, cart, r) # {} => ~s.inFlight /\ FireSyncNow(s, cart, r).inFlight
  BY DEF Flags, FireSyncNow, SyncNowCmd, LiveCartCmd

\* A new command has its fields, and a write is no order.
LEMMA CommandHasFields ==
    ASSUME NEW kind, NEW cart
    PROVE  /\ {"kind", "state", "cart", "bill"} \subseteq DOMAIN Command(kind, cart)
           /\ Command(kind, cart).kind = kind /\ Command(kind, cart).state = "sent"
  BY DEF Command

-----------------------------------------------------------------------------
\* Shapes

LEMMA ShapesInit == Init => Shapes
<1> SUFFICES ASSUME Init PROVE Shapes
  OBVIOUS
<1>2. IsFiniteSet(wire)
  BY FS_Singleton DEF Init
<1>3. \A c \in wire : {"kind", "state", "cart", "bill"} \subseteq DOMAIN c
  BY CommandHasFields DEF Init
<1>4. modal \in BOOLEAN /\ sync \in Flags
  BY DEF Init, Flags
<1>5. past \in History
  BY BoundAssumption DEF Init, History
<1>6. {"placing", "placePending", "total", "approved", "pay"} \subseteq DOMAIN order
  BY DEF Init
<1> QED BY <1>2, <1>3, <1>4, <1>5, <1>6 DEF Shapes

\* The commands after a step keep their fields and stay finitely many, if the new
\* ones have fields and are finitely many.
LEMMA WireGrows ==
    ASSUME Shapes, NEW gone, NEW new, IsFiniteSet(new), wire' = (wire \ gone) \cup new,
           \A c \in new : {"kind", "state", "cart", "bill"} \subseteq DOMAIN c
    PROVE  /\ \A c \in wire' : {"kind", "state", "cart", "bill"} \subseteq DOMAIN c
           /\ IsFiniteSet(wire')
<1>1. IsFiniteSet(wire \ gone)
  BY FS_Difference DEF Shapes
<1>2. IsFiniteSet((wire \ gone) \cup new)
  BY <1>1, FS_Union
<1> QED BY <1>2 DEF Shapes

\* A fired write is such a command.
LEMMA WritesAreFinite ==
    ASSUME NEW s \in Flags, NEW cart, NEW r
    PROVE  /\ IsFiniteSet(SyncNowCmd(s, cart, r)) /\ IsFiniteSet(LiveCartCmd(cart, r))
           /\ \A c \in SyncNowCmd(s, cart, r) \cup LiveCartCmd(cart, r) :
                /\ {"kind", "state", "cart", "bill"} \subseteq DOMAIN c
                /\ c = Command("write", cart) /\ c.kind = "write" /\ c.state = "sent"
<1>1. /\ SyncNowCmd(s, cart, r) \in {{}, {Command("write", cart)}}
      /\ LiveCartCmd(cart, r) \in {{}, {Command("write", cart)}}
  BY DEF SyncNowCmd, LiveCartCmd
<1>2. IsFiniteSet({}) /\ IsFiniteSet({Command("write", cart)})
  BY FS_EmptySet, FS_Singleton
<1>3. \A c \in {Command("write", cart)} :
        /\ {"kind", "state", "cart", "bill"} \subseteq DOMAIN c
        /\ c = Command("write", cart) /\ c.kind = "write" /\ c.state = "sent"
  BY CommandHasFields
<1>4. CASE SyncNowCmd(s, cart, r) = {}
  BY <1>1, <1>2, <1>3, <1>4
<1>5. CASE SyncNowCmd(s, cart, r) = {Command("write", cart)}
  BY <1>1, <1>2, <1>3, <1>5
<1> QED BY <1>1, <1>4, <1>5

\* An edit is recorded in the history.
LEMMA EditedShape == ASSUME Shapes, Edited PROVE past' \in History /\ past'.loose = past.loose
                     /\ past'.orders = past.orders /\ past'.yes = past.yes
<1>1. past.edits + 1 \in 0..MaxEdits
  BY BoundAssumption DEF Shapes, History, Edited
<1>2. (past.touched \/ Placing) \in BOOLEAN
  BY DEF Placing
<1> QED BY <1>1, <1>2 DEF Shapes, History, Edited

LEMMA DisownedShape == ASSUME Shapes PROVE Disowned \in History /\ Disowned.loose = past.loose
                       /\ Disowned.orders = past.orders /\ Disowned.yes = past.yes
  BY DEF Shapes, History, Disowned

LEMMA FaultShape == ASSUME Shapes, Fault, past.faults < MaxFaults
                    PROVE past' \in History /\ past'.loose = past.loose
                          /\ past'.orders = past.orders /\ past'.yes = past.yes
  BY BoundAssumption DEF Shapes, History, Fault

\* An answer replaces a command by one of the same kind.
AnswerTo(c, state, cart, bill) == [c EXCEPT !.state = state, !.cart = cart, !.bill = bill]
LEMMA AnswerShape ==
    ASSUME Shapes, NEW c \in wire, NEW state, NEW cart, NEW bill, Answered(c, state, cart, bill)
    PROVE  /\ wire' = (wire \ {c}) \cup {AnswerTo(c, state, cart, bill)}
           /\ AnswerTo(c, state, cart, bill).kind = c.kind
           /\ AnswerTo(c, state, cart, bill).state = state
           /\ \A e \in wire' : {"kind", "state", "cart", "bill"} \subseteq DOMAIN e
           /\ IsFiniteSet(wire')
<1> DEFINE d == AnswerTo(c, state, cart, bill)
<1>1. {"kind", "state", "cart", "bill"} \subseteq DOMAIN d /\ d.kind = c.kind /\ d.state = state
  BY DEF Shapes, AnswerTo
<1>2. wire' = (wire \ {c}) \cup {d}
  BY DEF Answered, AnswerTo
<1>3. IsFiniteSet({d})
  BY FS_Singleton
<1> HIDE DEF d
<1>4. \A e \in {d} : {"kind", "state", "cart", "bill"} \subseteq DOMAIN e
  BY <1>1
<1>5. /\ \A e \in wire' : {"kind", "state", "cart", "bill"} \subseteq DOMAIN e
      /\ IsFiniteSet(wire')
  BY <1>2, <1>3, <1>4, WireGrows
<1> QED BY <1>1, <1>2, <1>5 DEF d

\* Every request that Swiggy serves is answered, with at most one more order made:
\* by an order request, which is then spent.
LEMMA ServeShape ==
    ASSUME Shapes, NEW c \in wire, Serve(c)
    PROVE  /\ past' \in History /\ past'.loose = past.loose /\ past'.yes = past.yes
           /\ c.state = "sent"
           /\ \E d : /\ wire' = (wire \ {c}) \cup {d} /\ d.kind = c.kind
                     /\ \/ past'.orders = past.orders
                        \/ /\ past'.orders = past.orders + 1
                           /\ c.kind \in {"upi", "cod"} /\ d.state \in {"ok", "error"}
           /\ \A e \in wire' : {"kind", "state", "cart", "bill"} \subseteq DOMAIN e
           /\ IsFiniteSet(wire')
<1>1. PICK state, cart, bill :
        /\ Answered(c, state, cart, bill)
        /\ \/ UNCHANGED past
           \/ Fault /\ past.faults < MaxFaults
           \/ c.kind \in {"upi", "cod"} /\ past' = Ordered /\ state = "ok"
           \/ /\ c.kind \in {"upi", "cod"} /\ past' = [Ordered EXCEPT !.faults = @ + 1]
              /\ past.faults < MaxFaults /\ state = "error"
  BY DEF Serve, ServeWrite, ServeRead, ServeOrder, ServeConfirm, Error
<1>2. /\ wire' = (wire \ {c}) \cup {AnswerTo(c, state, cart, bill)}
      /\ AnswerTo(c, state, cart, bill).kind = c.kind /\ AnswerTo(c, state, cart, bill).state = state
      /\ \A e \in wire' : {"kind", "state", "cart", "bill"} \subseteq DOMAIN e
      /\ IsFiniteSet(wire')
  BY <1>1, AnswerShape
<1>3. Ordered \in History /\ Ordered.orders = past.orders + 1
      /\ Ordered.loose = past.loose /\ Ordered.yes = past.yes /\ Ordered.faults = past.faults
  BY DEF Shapes, History, Ordered
<1>4. past.faults < MaxFaults =>
        LET p == [Ordered EXCEPT !.faults = @ + 1]
        IN  p \in History /\ p.orders = past.orders + 1 /\ p.loose = past.loose /\ p.yes = past.yes
  BY <1>3, BoundAssumption DEF History
<1>5. /\ past' \in History /\ past'.loose = past.loose /\ past'.yes = past.yes
      /\ \/ past'.orders = past.orders
         \/ /\ past'.orders = past.orders + 1
            /\ c.kind \in {"upi", "cod"} /\ state \in {"ok", "error"}
  <2>1. CASE UNCHANGED past
    BY <2>1 DEF Shapes
  <2>2. CASE Fault /\ past.faults < MaxFaults
    BY <2>2, FaultShape
  <2>3. CASE c.kind \in {"upi", "cod"} /\ past' = Ordered /\ state = "ok"
    BY <2>3, <1>3
  <2>4. CASE /\ c.kind \in {"upi", "cod"} /\ past' = [Ordered EXCEPT !.faults = @ + 1]
             /\ past.faults < MaxFaults /\ state = "error"
    BY <2>4, <1>4
  <2> QED BY <1>1, <2>1, <2>2, <2>3, <2>4
<1>6. c.state = "sent"
  BY DEF Serve
<1> QED BY <1>2, <1>5, <1>6

-----------------------------------------------------------------------------
\* Counting the orders that may still be made

\* A command replaced by one that cannot order more than it did.
LEMMA CountKept ==
    ASSUME IsFiniteSet(wire), NEW gone, NEW new, wire' = (wire \ gone) \cup new,
           \A d \in new : ~Open(d) \/ d \in wire
    PROVE  Cardinality(Opens') <= Cardinality(Opens) /\ Cardinality(Opens) \in Nat /\ Cardinality(Opens') \in Nat
<1>1. Opens' \in SUBSET Opens
  BY DEF Opens, Open
<1>2. IsFiniteSet(Opens)
  BY FS_Subset DEF Opens
<1> QED BY <1>1, <1>2, FS_Subset, FS_CardinalityType

\* A command that might order is answered for good.
LEMMA CountSpent ==
    ASSUME IsFiniteSet(wire), NEW c \in wire, NEW d, wire' = (wire \ {c}) \cup {d}, Open(c), ~Open(d)
    PROVE  Cardinality(Opens') + 1 <= Cardinality(Opens) /\ Cardinality(Opens) \in Nat /\ Cardinality(Opens') \in Nat
<1>1. Opens' \in SUBSET (Opens \ {c})
  BY DEF Opens, Open
<1>2. IsFiniteSet(Opens) /\ c \in Opens
  BY FS_Subset DEF Opens
<1>3. IsFiniteSet(Opens \ {c}) /\ Cardinality(Opens \ {c}) = Cardinality(Opens) - 1
  BY <1>2, FS_RemoveElement
<1> QED BY <1>1, <1>2, <1>3, FS_Subset, FS_CardinalityType

\* A command that might order gives way to another.
LEMMA CountMoved ==
    ASSUME IsFiniteSet(wire), NEW c \in wire, NEW d, wire' = (wire \ {c}) \cup {d}, Open(c)
    PROVE  Cardinality(Opens') <= Cardinality(Opens) /\ Cardinality(Opens) \in Nat /\ Cardinality(Opens') \in Nat
<1>1. Opens' \in SUBSET ((Opens \ {c}) \cup {d})
  BY DEF Opens, Open
<1>2. IsFiniteSet(Opens) /\ c \in Opens
  BY FS_Subset DEF Opens
<1>3. IsFiniteSet(Opens \ {c}) /\ Cardinality(Opens \ {c}) = Cardinality(Opens) - 1
  BY <1>2, FS_RemoveElement
<1>4. /\ IsFiniteSet((Opens \ {c}) \cup {d})
      /\ Cardinality((Opens \ {c}) \cup {d}) <= Cardinality(Opens)
  <2> DEFINE rest == Opens \ {c}
  <2> HIDE DEF rest
  <2>1. /\ IsFiniteSet(rest \cup {d})
        /\ Cardinality(rest \cup {d}) = IF d \in rest THEN Cardinality(rest) ELSE Cardinality(rest) + 1
    BY <1>3, FS_AddElement DEF rest
  <2>2. Cardinality(Opens) \in Nat
    BY <1>2, FS_CardinalityType
  <2> QED BY <2>1, <2>2, <1>3 DEF rest
<1> QED BY <1>1, <1>2, <1>4, FS_Subset, FS_CardinalityType

\* An order is sent.
LEMMA CountSent ==
    ASSUME IsFiniteSet(wire), NEW gone, NEW d, wire' = (wire \ gone) \cup {d}
    PROVE  Cardinality(Opens') <= Cardinality(Opens) + 1 /\ Cardinality(Opens) \in Nat /\ Cardinality(Opens') \in Nat
<1>1. Opens' \in SUBSET (Opens \cup {d})
  BY DEF Opens, Open
<1>2. IsFiniteSet(Opens)
  BY FS_Subset DEF Opens
<1>3. /\ IsFiniteSet(Opens \cup {d})
      /\ Cardinality(Opens \cup {d}) <= Cardinality(Opens) + 1
  <2>1. /\ IsFiniteSet(Opens \cup {d})
        /\ Cardinality(Opens \cup {d}) = IF d \in Opens THEN Cardinality(Opens) ELSE Cardinality(Opens) + 1
    BY <1>2, FS_AddElement
  <2>2. Cardinality(Opens) \in Nat
    BY <1>2, FS_CardinalityType
  <2> QED BY <2>1, <2>2
<1> QED BY <1>1, <1>2, <1>3, FS_Subset, FS_CardinalityType

-----------------------------------------------------------------------------
\* Steps by their effect

LEMMA InitInv == Init => IInv
<1> SUFFICES ASSUME Init PROVE IInv
  OBVIOUS
<1>1. Shapes
  BY ShapesInit
<1>2. ModalAtRest /\ OldIsLoose /\ SingleFlight
  BY CommandHasFields DEF Init, ModalAtRest, OldIsLoose, SingleFlight, UnderWay
<1>3. Opens = {}
  BY CommandHasFields DEF Init, Opens, Open
<1>4. OneYesEach
  BY <1>3, FS_EmptySet DEF Init, OneYesEach, Owed
<1> QED BY <1>1, <1>2, <1>4 DEF IInv

\* What the loop does but write or order: commands may be consumed, reads and
\* confirmations sent; no flight starts and no order is due that was not.
LEMMA Sends ==
    ASSUME IInv, modal' \in BOOLEAN, sync' \in Flags, past' \in History, ModalAtRest',
           {"placing", "placePending", "total", "approved", "pay"} \subseteq DOMAIN order',
           past'.loose = past.loose, past'.orders = past.orders, past'.yes = past.yes,
           order'.placePending => order.placePending,
           NEW gone, NEW new, wire' = (wire \ gone) \cup new, IsFiniteSet(new),
           \A d \in new : /\ {"kind", "state", "cart", "bill"} \subseteq DOMAIN d
                         /\ d.kind \in {"load", "pull", "confirm"},
           sync.inFlight => sync'.inFlight \/ \E c \in UnderWay({"write", "old"}) : c \in gone
    PROVE  IInv'
<1>1. Shapes'
  BY WireGrows DEF IInv, Shapes
<1>2. OldIsLoose' /\ SingleFlight'
  BY DEF IInv, OldIsLoose, SingleFlight, UnderWay
<1>3. Cardinality(Opens') <= Cardinality(Opens) /\ Cardinality(Opens) \in Nat /\ Cardinality(Opens') \in Nat
  BY CountKept DEF IInv, Shapes, Open
<1>4. OneYesEach'
  BY <1>3 DEF IInv, Shapes, History, OneYesEach, Owed
<1> QED BY <1>1, <1>2, <1>4 DEF IInv

\* The same without a call.
LEMMA NoCall ==
    ASSUME IInv, modal' \in BOOLEAN, sync' \in Flags, past' \in History, ModalAtRest',
           {"placing", "placePending", "total", "approved", "pay"} \subseteq DOMAIN order',
           past'.loose = past.loose, past'.orders = past.orders, past'.yes = past.yes,
           order'.placePending => order.placePending,
           NEW gone, wire' = wire \ gone,
           sync.inFlight => sync'.inFlight \/ \E c \in UnderWay({"write", "old"}) : c \in gone
    PROVE  IInv'
<1>1. wire' = (wire \ gone) \cup {}
  OBVIOUS
<1> QED BY <1>1, FS_EmptySet, Sends

\* fireSyncNow: a write starts if none is in flight, and is recorded.
LEMMA Fires ==
    ASSUME IInv, NEW s \in Flags, NEW cart, NEW r, NEW gone,
           modal' = FALSE, sync' \in Flags, past' \in History,
           {"placing", "placePending", "total", "approved", "pay"} \subseteq DOMAIN order',
           past'.loose = past.loose, past'.orders = past.orders, past'.yes = past.yes,
           order'.placePending => order.placePending,
           sync'.inFlight = FireSyncNow(s, cart, r).inFlight,
           wire' = (wire \ gone) \cup SyncNowCmd(s, cart, r),
           sync.inFlight => s.inFlight \/ \E c \in UnderWay({"write", "old"}) : c \in gone
    PROVE  IInv'
<1> DEFINE new == SyncNowCmd(s, cart, r)
<1>1. /\ IsFiniteSet(new)
      /\ \A c \in new : /\ {"kind", "state", "cart", "bill"} \subseteq DOMAIN c
                         /\ c = Command("write", cart) /\ c.kind = "write" /\ c.state = "sent"
  BY WritesAreFinite
<1>2. /\ s.inFlight => sync'.inFlight /\ new = {}
      /\ new # {} => ~s.inFlight /\ sync'.inFlight
  BY FireOnce
<1> HIDE DEF new
<1>3. wire' = (wire \ gone) \cup new
  BY DEF new
<1>4. Shapes'
  BY <1>1, <1>3, WireGrows DEF IInv, Shapes
<1>5. OldIsLoose'
  BY <1>1, <1>3 DEF IInv, OldIsLoose, UnderWay
<1>6. SingleFlight'
  <2> SUFFICES ASSUME ~past.loose
               PROVE  /\ \A c, d \in UnderWay({"write"})' : c = d
                      /\ UnderWay({"write"})' # {} => sync'.inFlight
    BY DEF SingleFlight
  <2>1. UnderWay({"write"})' = (UnderWay({"write"}) \ gone) \cup new
    BY <1>1, <1>3 DEF UnderWay
  <2>2. UnderWay({"old"}) = {}
    BY DEF IInv, OldIsLoose
  <2>3. UnderWay({"write"}) \ gone # {} => sync.inFlight /\ s.inFlight
    BY <2>2 DEF IInv, SingleFlight, UnderWay
  <2>4. CASE s.inFlight
    BY <2>1, <2>4, <1>2 DEF IInv, SingleFlight
  <2>5. CASE ~s.inFlight
    BY <2>1, <2>3, <2>5, <1>1, <1>2
  <2> QED BY <2>4, <2>5
<1>7. Cardinality(Opens') <= Cardinality(Opens) /\ Cardinality(Opens) \in Nat /\ Cardinality(Opens') \in Nat
  BY <1>1, <1>3, CountKept DEF IInv, Shapes, Open
<1>8. OneYesEach'
  BY <1>7 DEF IInv, Shapes, History, OneYesEach, Owed
<1>9. ModalAtRest'
  BY DEF ModalAtRest
<1> QED BY <1>4, <1>5, <1>6, <1>8, <1>9 DEF IInv

-----------------------------------------------------------------------------
\* The actions that write or order by themselves

LEMMA YesStep == IInv /\ Yes => IInv'
<1> SUFFICES ASSUME IInv, Yes PROVE IInv'
  OBVIOUS
<1>1. CASE order.placing
  <2>1. wire' = wire \ {} /\ modal' = FALSE /\ UNCHANGED <<sync, order, past>>
    BY <1>1 DEF Yes
  <2> QED BY <2>1, NoCall DEF IInv, Shapes, ModalAtRest
<1>2. CASE UNCHANGED <<order, wire>> /\ sync' = [sync EXCEPT !.pending = FALSE] /\ past' = Disowned
  <2>1. wire' = wire \ {} /\ modal' = FALSE
    BY <1>2 DEF Yes
  <2>2. sync' \in Flags /\ sync'.inFlight = sync.inFlight
    BY <1>2 DEF IInv, Shapes, Flags
  <2> QED BY <1>2, <2>1, <2>2, DisownedShape, NoCall DEF IInv, Shapes, ModalAtRest
<1>3. CASE /\ sync' = [sync EXCEPT !.pending = FALSE, !.inFlight = TRUE] /\ PlaceAfterSync
           /\ past' = [past EXCEPT !.yes = @ + 1, !.touched = Placing]
  <2>1. modal /\ modal' = FALSE /\ past.yes < MaxYes
    BY DEF Yes
  <2>2. wire' = (wire \ {}) \cup {Command("write", lines)}
    BY <1>3 DEF PlaceAfterSync
  <2>3. order'.placePending = TRUE
        /\ {"placing", "placePending", "total", "approved", "pay"} \subseteq DOMAIN order'
    BY <1>3 DEF PlaceAfterSync, IInv, Shapes
  <2>4. Placing \in BOOLEAN /\ past.yes + 1 \in 0..MaxYes
    BY <2>1, BoundAssumption DEF Placing, IInv, Shapes, History
  <2>5. past' \in History /\ past'.loose = past.loose /\ past'.orders = past.orders /\ past'.yes = past.yes + 1
    BY <1>3, <2>4 DEF IInv, Shapes, History
  <2>6. sync' \in Flags /\ sync'.inFlight
    BY <1>3 DEF IInv, Shapes, Flags
  <2>7. \A d \in {Command("write", lines)} :
            {"kind", "state", "cart", "bill"} \subseteq DOMAIN d /\ d.kind = "write"
    BY CommandHasFields
  <2>8. IsFiniteSet({Command("write", lines)})
    BY FS_Singleton
  <2>9. Shapes'
    BY <2>1, <2>2, <2>3, <2>5, <2>6, <2>7, <2>8, WireGrows DEF IInv, Shapes
  <2>10. OldIsLoose' /\ SingleFlight'
    BY <2>1, <2>2, <2>5, <2>6, <2>7 DEF IInv, ModalAtRest, OldIsLoose, SingleFlight, UnderWay
  <2>11. Cardinality(Opens') <= Cardinality(Opens) /\ Cardinality(Opens) \in Nat /\ Cardinality(Opens') \in Nat
    BY <2>2, <2>7, CountKept DEF IInv, Shapes, Open
  <2>12. past.orders \in Nat /\ past.yes \in Nat
    BY DEF IInv, Shapes, History
  <2>13. OneYesEach'
    BY <2>3, <2>5, <2>11, <2>12 DEF IInv, OneYesEach, Owed
  <2> QED BY <2>1, <2>9, <2>10, <2>13 DEF IInv, ModalAtRest
<1> QED BY <1>1, <1>2, <1>3 DEF Yes

\* clearPlacedCarts renames the write that is in flight, and says so.
LEMMA LeaveStep == IInv /\ Leave => IInv'
<1> SUFFICES ASSUME IInv, Leave PROVE IInv'
  OBVIOUS
<1> DEFINE renamed(c) == IF c.kind = "write" THEN [c EXCEPT !.kind = "old"] ELSE c
<1>1. /\ wire' = {renamed(c) : c \in wire} /\ UNCHANGED <<modal, order>> /\ modal = FALSE
      /\ past' = [Disowned EXCEPT !.loose = @ \/ UnderWay({"write"}) # {}]
      /\ sync' = [sync EXCEPT !.pending = FALSE, !.inFlight = FALSE, !.confirmPending = FALSE]
  BY DEF Leave, IInv, Shapes
<1>2. /\ past' \in History /\ past'.orders = past.orders /\ past'.yes = past.yes
      /\ ~past'.loose => ~past.loose /\ UnderWay({"write"}) = {}
  BY <1>1, DisownedShape DEF IInv, Shapes, History
<1>3. sync' \in Flags
  BY <1>1 DEF IInv, Shapes, Flags
<1>4. \A c \in wire : /\ {"kind", "state", "cart", "bill"} \subseteq DOMAIN renamed(c)
                      /\ renamed(c).kind # "write"
                      /\ Open(renamed(c)) => renamed(c) = c
                      /\ c.kind # "write" => renamed(c) = c
  BY DEF IInv, Shapes, Open
<1>5. IsFiniteSet(wire')
  <2> DEFINE f == [c \in wire |-> renamed(c)]
  <2>1. f \in [wire -> wire'] /\ \A d \in wire' : \E c \in wire : f[c] = d
    BY <1>1
  <2>2. f \in Surjection(wire, wire')
    BY <2>1, Fun_IsSurj
  <2> QED BY <2>2, FS_Surjection DEF IInv, Shapes
<1> HIDE DEF renamed
<1>6. Shapes'
  BY <1>1, <1>2, <1>3, <1>4, <1>5 DEF IInv, Shapes
<1>7. SingleFlight'
  BY <1>1, <1>4 DEF SingleFlight, UnderWay
<1>8. OldIsLoose'
  BY <1>1, <1>2, <1>4 DEF IInv, OldIsLoose, UnderWay
<1>9. Opens' \in SUBSET Opens
  BY <1>1, <1>4 DEF Opens
<1>10. Cardinality(Opens') <= Cardinality(Opens) /\ Cardinality(Opens) \in Nat /\ Cardinality(Opens') \in Nat
  <2>1. IsFiniteSet(Opens)
    BY FS_Subset DEF Opens, IInv, Shapes
  <2> QED BY <2>1, <1>9, FS_Subset, FS_CardinalityType
<1>11. OneYesEach'
  BY <1>1, <1>2, <1>10 DEF IInv, Shapes, History, OneYesEach, Owed
<1> QED BY <1>1, <1>6, <1>7, <1>8, <1>11 DEF IInv, ModalAtRest

LEMMA ServeStep == ASSUME IInv, NEW c \in wire, Serve(c) PROVE IInv'
<1>1. Shapes /\ UNCHANGED loop
  BY DEF IInv, Serve
<1>2. /\ past' \in History /\ past'.loose = past.loose /\ past'.yes = past.yes /\ c.state = "sent"
      /\ \A e \in wire' : {"kind", "state", "cart", "bill"} \subseteq DOMAIN e
      /\ IsFiniteSet(wire')
  BY <1>1, ServeShape
<1>3. PICK d : /\ wire' = (wire \ {c}) \cup {d} /\ d.kind = c.kind
               /\ \/ past'.orders = past.orders
                  \/ /\ past'.orders = past.orders + 1
                     /\ c.kind \in {"upi", "cod"} /\ d.state \in {"ok", "error"}
  BY <1>1, ServeShape
<1>4. Shapes' /\ ModalAtRest'
  BY <1>1, <1>2 DEF IInv, Shapes, ModalAtRest, loop
<1>5. OldIsLoose' /\ SingleFlight'
  BY <1>1, <1>2, <1>3 DEF IInv, OldIsLoose, SingleFlight, UnderWay, loop
<1>6. past.orders \in Nat /\ past.yes \in Nat /\ order' = order /\ IsFiniteSet(wire)
  BY <1>1 DEF Shapes, History, loop
<1>7. OneYesEach'
  <2>1. CASE c.kind \notin {"upi", "cod"}
    <3>1. /\ Cardinality(Opens') <= Cardinality(Opens)
          /\ Cardinality(Opens) \in Nat /\ Cardinality(Opens') \in Nat
      BY <2>1, <1>3, <1>6, CountKept DEF Open
    <3> QED BY <2>1, <3>1, <1>2, <1>3, <1>6 DEF IInv, OneYesEach, Owed
  <2>2. CASE c.kind \in {"upi", "cod"} /\ past'.orders = past.orders
    <3>1. Open(c)
      BY <2>2, <1>2 DEF Open
    <3>2. /\ Cardinality(Opens') <= Cardinality(Opens)
          /\ Cardinality(Opens) \in Nat /\ Cardinality(Opens') \in Nat
      BY <3>1, <1>3, <1>6, CountMoved
    <3> QED BY <2>2, <3>2, <1>2, <1>6 DEF IInv, OneYesEach, Owed
  <2>3. CASE c.kind \in {"upi", "cod"} /\ past'.orders = past.orders + 1 /\ d.state \in {"ok", "error"}
    <3>1. Open(c) /\ ~Open(d)
      BY <2>3, <1>2 DEF Open
    <3>2. /\ Cardinality(Opens') + 1 <= Cardinality(Opens)
          /\ Cardinality(Opens) \in Nat /\ Cardinality(Opens') \in Nat
      BY <3>1, <1>3, <1>6, CountSpent
    <3> QED BY <2>3, <3>2, <1>2, <1>6 DEF IInv, OneYesEach, Owed
  <2> QED BY <1>3, <2>1, <2>2, <2>3
<1> QED BY <1>4, <1>5, <1>7 DEF IInv

-----------------------------------------------------------------------------
\* Answers

\* The flags after the answer of a write.
LEMMA LandedShape == ASSUME Shapes PROVE /\ Landed \in Flags /\ ~Landed.inFlight
                     /\ Landed.pending = sync.pending /\ Landed.confirmPending = sync.confirmPending
  BY DEF Shapes, Flags, Landed

LEMMA SyncedStep == ASSUME IInv, NEW c \in wire, Synced(c) PROVE IInv'
<1>1. Shapes /\ ModalAtRest /\ c \in UnderWay({"write", "old"}) /\ c \in {c}
  BY DEF IInv, Synced, UnderWay
<1>2. CASE order.placePending
  <2> DEFINE go == ~HasUnavailableLine(c.bill) /\ c.bill.total = order.total
  <2>1. /\ order' = [Settled EXCEPT !.placing = @ /\ go]
        /\ wire' = (wire \ {c}) \cup IF go THEN {Command("upi", order.approved)} ELSE {}
        /\ sync' = Landed /\ UNCHANGED <<modal, past>>
    BY <1>2 DEF Synced
  <2> HIDE DEF go
  <2>2. /\ order'.placePending = FALSE
        /\ {"placing", "placePending", "total", "approved", "pay"} \subseteq DOMAIN order'
    BY <1>1, <2>1 DEF Settled, Shapes
  <2>3. ModalAtRest'
    BY <1>1, <2>1, LandedShape DEF ModalAtRest
  <2>4. CASE ~go
    <3>1. wire' = wire \ {c}
      BY <2>1, <2>4
    <3> QED BY <1>1, <2>1, <2>2, <2>3, <3>1, LandedShape, NoCall DEF Shapes
  <2>5. CASE go
    <3>1. wire' = (wire \ {c}) \cup {Command("upi", order.approved)}
      BY <2>1, <2>5
    <3>2. \A d \in {Command("upi", order.approved)} :
            {"kind", "state", "cart", "bill"} \subseteq DOMAIN d /\ d.kind = "upi"
      BY CommandHasFields
    <3>3. IsFiniteSet({Command("upi", order.approved)})
      BY FS_Singleton
    <3>4. Shapes'
      BY <1>1, <2>1, <2>2, <3>1, <3>2, <3>3, LandedShape, WireGrows DEF Shapes
    <3>5. c.kind = "write" => UnderWay({"write"}) \ {c} = {} \/ past.loose
      BY <1>1 DEF IInv, SingleFlight, UnderWay
    <3>6. OldIsLoose' /\ SingleFlight'
      BY <1>1, <2>1, <3>1, <3>2, <3>5 DEF IInv, OldIsLoose, SingleFlight, UnderWay
    <3>7. /\ Cardinality(Opens') <= Cardinality(Opens) + 1
          /\ Cardinality(Opens) \in Nat /\ Cardinality(Opens') \in Nat
      BY <1>1, <3>1, CountSent DEF Shapes
    <3>8. OneYesEach'
      BY <1>1, <1>2, <2>1, <2>2, <3>7 DEF IInv, Shapes, History, OneYesEach, Owed
    <3> QED BY <2>3, <3>4, <3>6, <3>8 DEF IInv
  <2> QED BY <2>4, <2>5
<1>3. CASE ~order.placePending /\ sync.confirmPending /\ sync.pending
  <2> DEFINE s == [Landed EXCEPT !.mutating = TRUE]
  <2>1. PICK r \in Resolves :
            /\ sync' = FireSyncNow(s, lines, r)
            /\ wire' = (wire \ {c}) \cup SyncNowCmd(s, lines, r)
            /\ past' = IF sync'.inFlight THEN past ELSE Disowned
            /\ UNCHANGED <<modal, order>>
    BY <1>3 DEF Synced
  <2>2. s \in Flags
    BY <1>1, LandedShape DEF Flags
  <2> HIDE DEF s
  <2>3. sync' \in Flags
    BY <2>1, <2>2, FireOnce
  <2>4. /\ past' \in History /\ past'.loose = past.loose /\ past'.orders = past.orders
        /\ past'.yes = past.yes
    BY <1>1, <2>1, DisownedShape DEF Shapes
  <2>5. modal' = FALSE
    BY <1>1, <1>3, <2>1 DEF Shapes, ModalAtRest
  <2> QED BY <1>1, <2>1, <2>2, <2>3, <2>4, <2>5, Fires DEF Shapes
<1>4. CASE ~order.placePending /\ ~(sync.confirmPending /\ sync.pending)
  <2>1. /\ sync' = [Landed EXCEPT !.confirmPending = FALSE] /\ wire' = wire \ {c}
        /\ modal' \in BOOLEAN /\ (modal' => modal \/ sync.confirmPending)
        /\ UNCHANGED <<order, past>>
    BY <1>4 DEF Synced
  <2>2. sync' \in Flags /\ ~sync'.inFlight /\ sync'.pending = sync.pending
    BY <1>1, <2>1, LandedShape DEF Flags
  <2>3. ModalAtRest'
    BY <1>1, <1>4, <2>1, <2>2 DEF ModalAtRest
  <2> QED BY <1>1, <2>1, <2>2, <2>3, NoCall DEF Shapes
<1> QED BY <1>2, <1>3, <1>4

LEMMA SyncFailedStep == ASSUME IInv, NEW c \in wire, SyncFailed(c) PROVE IInv'
<1>1. /\ Shapes /\ ModalAtRest /\ c \in UnderWay({"write", "old"}) /\ wire' = wire \ {c}
      /\ sync' = [Landed EXCEPT !.confirmPending = FALSE] /\ past' = Disowned /\ modal' = modal
      /\ order' = IF order.placePending THEN [Settled EXCEPT !.placing = FALSE] ELSE order
  BY DEF IInv, SyncFailed, UnderWay
<1>2. sync' \in Flags /\ ~sync'.inFlight /\ sync'.pending = sync.pending
  BY <1>1, LandedShape DEF Flags
<1>3. /\ {"placing", "placePending", "total", "approved", "pay"} \subseteq DOMAIN order'
      /\ order'.placePending => order.placePending
  BY <1>1 DEF Shapes, Settled
<1>4. ModalAtRest'
  BY <1>1, <1>2 DEF ModalAtRest
<1> QED BY <1>1, <1>2, <1>3, <1>4, DisownedShape, NoCall DEF Shapes

LEMMA ReadStep == ASSUME IInv, NEW c \in wire, CartLoaded(c) \/ CartPulled(c) PROVE IInv'
<1>1. /\ Shapes /\ wire' = wire \ {c} /\ UNCHANGED <<modal, sync, order>>
      /\ past' \in {past, Disowned}
  BY DEF IInv, CartLoaded, CartPulled
<1>2. ModalAtRest'
  BY <1>1 DEF IInv, ModalAtRest
<1> QED BY <1>1, <1>2, DisownedShape, NoCall DEF Shapes

LEMMA UPIPlacedStep == ASSUME IInv, NEW c \in wire, UPIPlaced(c) PROVE IInv'
<1>1. Shapes /\ UNCHANGED <<modal, sync, past>> /\ c.kind = "upi"
  BY DEF IInv, UPIPlaced
<1>2. ModalAtRest'
  BY <1>1 DEF IInv, ModalAtRest
<1>3. CASE c.state = "noqr"
  <2>1. order' = order /\ wire' = (wire \ {c}) \cup {Command("cod", c.cart)} /\ Open(c)
    BY <1>1, <1>3 DEF UPIPlaced, Open
  <2>2. \A d \in {Command("cod", c.cart)} :
            {"kind", "state", "cart", "bill"} \subseteq DOMAIN d /\ d.kind = "cod"
    BY CommandHasFields
  <2>3. IsFiniteSet({Command("cod", c.cart)})
    BY FS_Singleton
  <2>4. Shapes'
    BY <1>1, <2>1, <2>2, <2>3, WireGrows DEF Shapes
  <2>5. OldIsLoose' /\ SingleFlight'
    BY <1>1, <2>1, <2>2 DEF IInv, OldIsLoose, SingleFlight, UnderWay
  <2>6. Cardinality(Opens') <= Cardinality(Opens) /\ Cardinality(Opens) \in Nat /\ Cardinality(Opens') \in Nat
    BY <1>1, <2>1, CountMoved DEF Shapes
  <2>7. OneYesEach'
    BY <1>1, <2>1, <2>6 DEF IInv, Shapes, History, OneYesEach, Owed
  <2> QED BY <1>2, <2>4, <2>5, <2>7 DEF IInv
<1>4. CASE c.state # "noqr"
  <2>1. /\ order' = [order EXCEPT !.placing = FALSE, !.pay = IF c.state = "ok" THEN "waiting" ELSE @]
        /\ wire' = wire \ {c}
    BY <1>4 DEF UPIPlaced
  <2> QED BY <1>1, <1>2, <2>1, NoCall DEF Shapes
<1> QED BY <1>3, <1>4

LEMMA OrderPlacedStep == ASSUME IInv, NEW c \in wire, OrderPlaced(c) PROVE IInv'
<1>1. /\ Shapes /\ wire' = wire \ {c} /\ UNCHANGED <<modal, sync>> /\ past' = Disowned
      /\ order' = [order EXCEPT !.placing = FALSE, !.pay = "idle"]
  BY DEF IInv, OrderPlaced
<1>2. ModalAtRest'
  BY <1>1 DEF IInv, ModalAtRest
<1> QED BY <1>1, <1>2, DisownedShape, NoCall DEF Shapes

-----------------------------------------------------------------------------
\* The other keys and the ticks

LEMMA SettleStep == IInv /\ Settle => IInv'
<1> SUFFICES ASSUME IInv, Settle PROVE IInv'
  OBVIOUS
<1>1. /\ Shapes /\ sync.pending /\ ~sync.inFlight /\ modal = FALSE
      /\ UNCHANGED <<modal, order>>
  BY DEF IInv, Shapes, ModalAtRest, Settle, MaySettle
<1>2. PICK r \in Resolves : /\ sync' = FireSyncNow(sync, lines, r)
                            /\ wire' = wire \cup LiveCartCmd(lines, r)
                            /\ past' \in {past, Disowned}
  BY DEF Settle
<1>3. wire' = (wire \ {}) \cup SyncNowCmd(sync, lines, r)
  BY <1>1, <1>2 DEF SyncNowCmd
<1>4. sync' \in Flags
  BY <1>1, <1>2, FireOnce DEF Shapes
<1>5. /\ past' \in History /\ past'.loose = past.loose
      /\ past'.orders = past.orders /\ past'.yes = past.yes
  BY <1>1, <1>2, DisownedShape DEF Shapes
<1> QED BY <1>1, <1>2, <1>3, <1>4, <1>5, Fires DEF Shapes

\* An edit that only arms the debounce.
LEMMA ArmStep == ASSUME IInv, NEW i \in Items, Add(i) \/ Dec(i) \/ Inc(i) PROVE IInv'
<1>1. /\ Shapes /\ modal = FALSE /\ UNCHANGED <<modal, order, wire>> /\ Edited
      /\ sync' = [sync EXCEPT !.pending = TRUE]
  BY DEF IInv, Shapes, Add, Dec, Inc, Unfrozen
<1>2. sync' \in Flags /\ sync'.inFlight = sync.inFlight
  BY <1>1 DEF Shapes, Flags
<1>3. wire' = wire \ {} /\ ModalAtRest'
  BY <1>1 DEF ModalAtRest
<1> QED BY <1>1, <1>2, <1>3, EditedShape, NoCall DEF Shapes

LEMMA ReplaceStep == ASSUME IInv, NEW i \in Items, Replace(i) PROVE IInv'
<1>1. /\ Shapes /\ modal = FALSE /\ UNCHANGED <<modal, order>> /\ Edited
      /\ sync' = FireSyncNow(sync, lines', TRUE)
      /\ wire' = (wire \ {}) \cup SyncNowCmd(sync, lines', TRUE)
  BY DEF IInv, Shapes, Replace
<1>2. sync' \in Flags
  BY <1>1, FireOnce DEF Shapes
<1> QED BY <1>1, <1>2, EditedShape, Fires DEF Shapes

LEMMA ReduceStep == ASSUME IInv, NEW i \in Items, Reduce(i) PROVE IInv'
<1>1. Shapes /\ modal = FALSE /\ UNCHANGED <<modal, order>> /\ past.edits < MaxEdits
  BY DEF IInv, Shapes, Reduce, Unfrozen
<1>2. PICK r \in Resolves :
        /\ sync' = [FireSyncNow(sync, lines', r) EXCEPT
                        !.mutating = SyncNowCmd(sync, lines', r) # {} \/ sync.inFlight]
        /\ wire' = (wire \ {}) \cup SyncNowCmd(sync, lines', r)
        /\ past' = [past EXCEPT !.edits = @ + 1, !.own = sync'.inFlight, !.touched = @ \/ Placing]
  BY DEF Reduce
<1>3. FireSyncNow(sync, lines', r) \in Flags /\ (SyncNowCmd(sync, lines', r) # {} \/ sync.inFlight) \in BOOLEAN
  BY <1>1, FireOnce DEF Shapes
<1>4. sync' \in Flags /\ sync'.inFlight = FireSyncNow(sync, lines', r).inFlight
  BY <1>2, <1>3 DEF Flags
<1>5. past.edits + 1 \in 0..MaxEdits /\ (past.touched \/ Placing) \in BOOLEAN /\ sync'.inFlight \in BOOLEAN
  BY <1>1, <1>4, BoundAssumption DEF Shapes, History, Flags, Placing
<1>6. /\ past' \in History /\ past'.loose = past.loose
      /\ past'.orders = past.orders /\ past'.yes = past.yes
  BY <1>1, <1>2, <1>5 DEF Shapes, History
<1> QED BY <1>1, <1>2, <1>4, <1>6, Fires DEF Shapes

LEMMA ToCheckoutStep == IInv /\ ToCheckout => IInv'
<1> SUFFICES ASSUME IInv, ToCheckout PROVE IInv'
  OBVIOUS
<1>1. Shapes /\ modal = FALSE /\ UNCHANGED <<modal, order>>
  BY DEF IInv, Shapes, ToCheckout
<1>2. ModalAtRest'
  BY <1>1 DEF ModalAtRest
<1>3. CASE CartSyncing
  <2>1. PICK r \in Resolves : /\ sync' = FireSyncNow(sync, lines, r)
                              /\ wire' = (wire \ {}) \cup SyncNowCmd(sync, lines, r)
                              /\ past' \in {past, Disowned}
    BY <1>3 DEF ToCheckout
  <2>2. sync' \in Flags
    BY <1>1, <2>1, FireOnce DEF Shapes
  <2>3. /\ past' \in History /\ past'.loose = past.loose
        /\ past'.orders = past.orders /\ past'.yes = past.yes
    BY <1>1, <2>1, DisownedShape DEF Shapes
  <2> QED BY <1>1, <2>1, <2>2, <2>3, Fires DEF Shapes
<1>4. CASE ~CartSyncing /\ wire' = wire
  <2>1. wire' = wire \ {} /\ UNCHANGED <<sync, past>>
    BY <1>4 DEF ToCheckout
  <2> QED BY <1>1, <1>2, <2>1, NoCall DEF Shapes
<1>5. CASE ~CartSyncing /\ wire' = wire \cup {Command("load", Empty)}
  <2>1. wire' = (wire \ {}) \cup {Command("load", Empty)} /\ UNCHANGED <<sync, past>>
    BY <1>5 DEF ToCheckout
  <2>2. \A d \in {Command("load", Empty)} :
          {"kind", "state", "cart", "bill"} \subseteq DOMAIN d /\ d.kind \in {"load", "pull", "confirm"}
    BY CommandHasFields
  <2>3. IsFiniteSet({Command("load", Empty)})
    BY FS_Singleton
  <2> QED BY <1>1, <1>2, <2>1, <2>2, <2>3, Sends DEF Shapes
<1> QED BY <1>3, <1>4, <1>5 DEF ToCheckout

LEMMA EnterStep == IInv /\ Enter => IInv'
<1> SUFFICES ASSUME IInv, Enter PROVE IInv'
  OBVIOUS
<1>1. Shapes /\ modal = FALSE /\ UNCHANGED order
  BY DEF IInv, Shapes, Enter, Unfrozen
<1>2. CASE CartSyncing
  <2>1. PICK r \in Resolves :
            /\ sync' = [FireSyncNow(sync, lines, r) EXCEPT !.confirmPending = TRUE, !.mutating = TRUE]
            /\ wire' = (wire \ {}) \cup SyncNowCmd(sync, lines, r)
            /\ past' \in {past, Disowned} /\ modal' = FALSE
    BY <1>2 DEF Enter
  <2>2. FireSyncNow(sync, lines, r) \in Flags
    BY <1>1, FireOnce DEF Shapes
  <2>3. sync' \in Flags /\ sync'.inFlight = FireSyncNow(sync, lines, r).inFlight
    BY <2>1, <2>2 DEF Flags
  <2>4. /\ past' \in History /\ past'.loose = past.loose
        /\ past'.orders = past.orders /\ past'.yes = past.yes
    BY <1>1, <2>1, DisownedShape DEF Shapes
  <2> QED BY <1>1, <2>1, <2>3, <2>4, Fires DEF Shapes
<1>3. CASE ~CartSyncing
  <2>1. modal' = TRUE /\ UNCHANGED <<sync, past>> /\ wire' = wire \ {} /\ ~sync.pending /\ ~sync.inFlight
    BY <1>3 DEF Enter, CartSyncing
  <2>2. ModalAtRest'
    BY <2>1 DEF ModalAtRest
  <2> QED BY <1>1, <2>1, <2>2, NoCall DEF Shapes
<1> QED BY <1>2, <1>3

\* Keys that close the modal, drop a payment or leave the page.
LEMMA WalkStep == IInv /\ (No \/ DropPayment \/ Home) => IInv'
<1> SUFFICES ASSUME IInv, No \/ DropPayment \/ Home PROVE IInv'
  OBVIOUS
<1>1. /\ Shapes /\ modal' = FALSE /\ UNCHANGED <<sync, past>> /\ wire' = wire \ {}
      /\ order' \in {order, [order EXCEPT !.pay = "idle"]}
  BY DEF IInv, Shapes, No, DropPayment, Home
<1>2. ModalAtRest'
  BY <1>1 DEF ModalAtRest
<1> QED BY <1>1, <1>2, NoCall DEF Shapes

LEMMA MoveStep == IInv /\ Move => IInv'
<1> SUFFICES ASSUME IInv, Move PROVE IInv'
  OBVIOUS
<1>1. Shapes /\ UNCHANGED <<modal, sync, order>> /\ wire' = wire \ {} /\ Fault /\ past.faults < MaxFaults
  BY DEF IInv, Move
<1>2. ModalAtRest'
  BY <1>1 DEF IInv, ModalAtRest
<1> QED BY <1>1, <1>2, FaultShape, NoCall DEF Shapes

LEMMA PolledStep == IInv /\ PaymentPolled => IInv'
<1> SUFFICES ASSUME IInv, PaymentPolled PROVE IInv'
  OBVIOUS
<1>1. Shapes /\ UNCHANGED <<modal, sync, past>>
  BY DEF IInv, PaymentPolled
<1>2. ModalAtRest'
  BY <1>1 DEF IInv, ModalAtRest
<1>3. \E pay : order' = [order EXCEPT !.pay = pay]
  BY DEF PaymentPolled
<1>4. CASE wire' = wire
  <2>1. wire' = wire \ {}
    BY <1>4
  <2> QED BY <1>1, <1>2, <1>3, <2>1, NoCall DEF Shapes
<1>5. CASE wire' = wire \cup {Command("confirm", Empty)}
  <2>1. wire' = (wire \ {}) \cup {Command("confirm", Empty)}
    BY <1>5
  <2>2. \A d \in {Command("confirm", Empty)} :
          {"kind", "state", "cart", "bill"} \subseteq DOMAIN d /\ d.kind \in {"load", "pull", "confirm"}
    BY CommandHasFields
  <2>3. IsFiniteSet({Command("confirm", Empty)})
    BY FS_Singleton
  <2> QED BY <1>1, <1>2, <1>3, <2>1, <2>2, <2>3, Sends DEF Shapes
<1> QED BY <1>4, <1>5 DEF PaymentPolled

-----------------------------------------------------------------------------
(* The theorems *)

LEMMA NextStep == IInv /\ [Next]_vars => IInv'
<1> SUFFICES ASSUME IInv, [Next]_vars PROVE IInv'
  OBVIOUS
<1>1. CASE UNCHANGED vars
  BY <1>1 DEF vars, IInv, Shapes, ModalAtRest, OldIsLoose, SingleFlight, OneYesEach, Owed, Opens, UnderWay
<1>2. CASE Key
  BY <1>2, ArmStep, ReplaceStep, ReduceStep, ToCheckoutStep, EnterStep, YesStep, WalkStep, LeaveStep DEF Key
<1>3. CASE Settle \/ Move \/ PaymentPolled
  BY <1>3, SettleStep, MoveStep, PolledStep
<1>4. CASE \E c \in wire : Serve(c) \/ Answer(c)
  BY <1>4, ServeStep, SyncedStep, SyncFailedStep, ReadStep, UPIPlacedStep, OrderPlacedStep DEF Answer
<1> QED BY <1>1, <1>2, <1>3, <1>4 DEF Next

\* The invariant holds in every reachable state.
THEOREM Invariance == Spec => []IInv
  BY InitInv, NextStep, PTL DEF Spec

\* Never two cart writes in flight, nor one that cartSyncInFlight does not know of,
\* until clearPlacedCarts forgets one: whatever the user presses between the answers.
THEOREM WritesDoNotOverlap == Spec => []SingleFlight
<1>1. IInv => SingleFlight
  BY DEF IInv
<1> QED BY <1>1, Invariance, PTL

\* A yes in the confirm modal orders once at most: a late answer, a second Enter or a
\* cash order after a UPI one never spends it again.
THEOREM YesOrdersOnce == Spec => []OneOrderPerYes
<1>1. IInv => OneOrderPerYes
  <2> SUFFICES ASSUME IInv PROVE past.orders <= past.yes
    BY DEF OneOrderPerYes
  <2>1. Cardinality(Opens) \in Nat
    BY FS_Subset, FS_CardinalityType DEF IInv, Shapes, Opens
  <2> QED BY <2>1 DEF IInv, Shapes, History, OneYesEach, Owed
<1> QED BY <1>1, Invariance, PTL

-----------------------------------------------------------------------------
\* Types. Bills are numbers because a sum of numbers is one.

Orders == [placing : BOOLEAN, placePending : BOOLEAN, total : Nat, approved : Carts,
           pay : {"idle", "waiting", "confirming", "failed"}]
Stores == [lines : Carts, surge : {0, 1}, out : SUBSET Items]

DataTypes ==
    /\ screen \in {"browse", "checkout", "done"}
    /\ lines \in Carts /\ base \in [set : BOOLEAN, lines : Carts] /\ live \in Bills
    /\ order \in Orders /\ wire \subseteq Commands /\ server \in Stores

LEMMA CartTypes ==
    /\ Empty \in Carts
    /\ \A cart \in Carts : Units(cart) \in Nat
    /\ \A cart \in Carts, i \in Items : DecLastByItem(cart, i) \in Carts
    /\ \A cart \in Carts, i \in Items, n \in 0..MaxQty : [cart EXCEPT ![i] = n] \in Carts
<1>0. MaxQty \in Nat
  BY BoundAssumption
<1>1. Empty \in Carts
  BY <1>0 DEF Empty, Carts
<1>2. ASSUME NEW cart \in Carts PROVE Units(cart) \in Nat
  <2>1. cart \in [Items -> Nat]
    BY <1>0 DEF Carts
  <2> QED BY <2>1, ItemsAssumption, SumIsNat DEF Units
<1>3. ASSUME NEW cart \in Carts, NEW i \in Items PROVE DecLastByItem(cart, i) \in Carts
  <2>1. cart[i] \in 0..MaxQty
    BY DEF Carts
  <2>2. (IF cart[i] > 0 THEN cart[i] - 1 ELSE 0) \in 0..MaxQty
    BY <2>1, <1>0
  <2> QED BY <2>2 DEF DecLastByItem, Carts
<1>4. ASSUME NEW cart \in Carts, NEW i \in Items, NEW n \in 0..MaxQty PROVE [cart EXCEPT ![i] = n] \in Carts
  BY DEF Carts
<1> QED BY <1>1, <1>2, <1>3, <1>4

LEMMA BillTypes == NoBill \in Bills /\ \A s \in Stores : Bill(s) \in Bills
<1>1. NoBill \in Bills
  BY DEF NoBill, Bills
<1>2. ASSUME NEW s \in Stores PROVE Bill(s) \in Bills
  <2>1. s.lines \in Carts /\ s.surge \in {0, 1} /\ s.out \in SUBSET Items
    BY DEF Stores
  <2>2. Units(s.lines) + s.surge \in Nat
    BY <2>1, CartTypes
  <2>3. {i \in s.out : s.lines[i] > 0} \in SUBSET Items
    BY <2>1
  <2> QED BY <2>2, <2>3, <1>1 DEF Bill, Bills
<1> QED BY <1>1, <1>2

LEMMA CommandTypes ==
    /\ \A kind \in Kinds, cart \in Carts : Command(kind, cart) \in Commands
    /\ \A s, r : \A cart \in Carts : /\ LiveCartCmd(cart, r) \subseteq Commands
                                     /\ SyncNowCmd(s, cart, r) \subseteq Commands
<1>1. ASSUME NEW kind \in Kinds, NEW cart \in Carts PROVE Command(kind, cart) \in Commands
  BY BillTypes DEF Command, Commands
<1>2. "write" \in Kinds
  BY DEF Kinds
<1>3. ASSUME NEW s, NEW r, NEW cart \in Carts
      PROVE  LiveCartCmd(cart, r) \subseteq Commands /\ SyncNowCmd(s, cart, r) \subseteq Commands
  BY <1>1, <1>2 DEF LiveCartCmd, SyncNowCmd
<1> QED BY <1>1, <1>3

\* PayAmount is what a yes keeps of the bill.
LEMMA PayType == DataTypes => PayAmount \in Nat
<1> SUFFICES ASSUME DataTypes PROVE PayAmount \in Nat
  OBVIOUS
<1>1. live.total \in Nat /\ Units(lines) \in Nat
  BY CartTypes DEF DataTypes, Bills
<1> QED BY <1>1 DEF PayAmount

LEMMA AnswerTypes ==
    ASSUME DataTypes, NEW c \in wire, NEW state \in {"sent", "ok", "noqr", "error"},
           NEW cart \in Carts, NEW bill \in Bills, Answered(c, state, cart, bill)
    PROVE  wire' \subseteq Commands
<1>1. c \in Commands
  BY DEF DataTypes
<1>2. [c EXCEPT !.state = state, !.cart = cart, !.bill = bill] \in Commands
  BY <1>1 DEF Commands
<1> QED BY <1>2 DEF Answered, DataTypes

LEMMA TypesInit == Init => DataTypes
<1> SUFFICES ASSUME Init PROVE DataTypes
  OBVIOUS
<1>1. Command("pull", Empty) \in Commands
  BY CartTypes, CommandTypes DEF Kinds
<1> QED BY <1>1, CartTypes, BillTypes DEF Init, DataTypes, Orders, Stores

LEMMA KeysKeepTypes == ASSUME DataTypes, Key PROVE DataTypes'
<1>1. ASSUME NEW i \in Items, Add(i) \/ Inc(i) \/ Dec(i) PROVE DataTypes'
  <2>0. MaxQty \in Nat
    BY BoundAssumption
  <2>1. lines' \in Carts
    <3>1. CASE Dec(i)
      BY <3>1, CartTypes DEF Dec, DataTypes
    <3>2. CASE Add(i) \/ Inc(i)
      <4>1. lines[i] \in 0..MaxQty
        BY DEF DataTypes, Carts
      <4>2. lines[i] + 1 \in 0..MaxQty /\ lines' = [lines EXCEPT ![i] = lines[i] + 1]
        BY <2>0, <3>2, <4>1 DEF Add, Inc
      <4> QED BY <4>2, CartTypes DEF DataTypes
    <3> QED BY <1>1, <3>1, <3>2
  <2>2. UNCHANGED <<screen, base, live, order, wire, server>>
    BY <1>1 DEF Add, Inc, Dec
  <2> QED BY <2>1, <2>2 DEF DataTypes
<1>2. ASSUME NEW i \in Items, Replace(i) PROVE DataTypes'
  <2>1. 1 \in 0..MaxQty
    <3>1. \E j \in Items : lines[j] # 0
      <4>1. lines # Empty /\ lines \in Carts /\ Empty \in Carts
        BY <1>2, CartTypes DEF Replace, DataTypes
      <4>2. \A j \in Items : Empty[j] = 0
        BY DEF Empty
      <4> QED BY <4>1, <4>2 DEF Carts
    <3>2. \A j \in Items : lines[j] \in 0..MaxQty
      BY DEF DataTypes, Carts
    <3> QED BY <3>1, <3>2, BoundAssumption
  <2>2. lines' \in Carts
    BY <1>2, <2>1, CartTypes DEF Replace
  <2>3. wire' \subseteq Commands
    BY <1>2, <2>2, CommandTypes DEF Replace, DataTypes
  <2> QED BY <1>2, <2>2, <2>3 DEF Replace, DataTypes
<1>3. ASSUME NEW i \in Items, Reduce(i) PROVE DataTypes'
  <2>0. lines[i] \in 0..MaxQty /\ lines[i] > 0 /\ MaxQty \in Nat
    BY <1>3, BoundAssumption DEF Reduce, DataTypes, Carts
  <2>1. \A n \in {0, lines[i] - 1} : n \in 0..MaxQty
    BY <2>0
  <2>2. lines' \in Carts
    <3>1. PICK n \in {0, lines[i] - 1} : lines' = [lines EXCEPT ![i] = n]
      BY <1>3 DEF Reduce
    <3> QED BY <3>1, <2>1, CartTypes DEF DataTypes
  <2>3. wire' \subseteq Commands
    BY <1>3, <2>2, CommandTypes DEF Reduce, DataTypes
  <2> QED BY <1>3, <2>2, <2>3 DEF Reduce, DataTypes
<1>4. CASE ToCheckout
  <2>1. Command("load", Empty) \in Commands
    BY CartTypes, CommandTypes DEF Kinds
  <2>2. wire' \subseteq Commands
    BY <1>4, <2>1, CommandTypes DEF ToCheckout, DataTypes
  <2> QED BY <1>4, <2>2 DEF ToCheckout, DataTypes
<1>5. CASE Enter
  <2>1. wire' \subseteq Commands
    BY <1>5, CommandTypes DEF Enter, DataTypes
  <2> QED BY <1>5, <2>1 DEF Enter, DataTypes
<1>6. CASE Yes
  <2>1. CASE UNCHANGED <<order, wire>>
    BY <1>6, <2>1 DEF Yes, DataTypes
  <2>2. CASE PlaceAfterSync
    <3>1. order' \in Orders
      BY <2>2, PayType DEF PlaceAfterSync, DataTypes, Orders
    <3>2. wire' \subseteq Commands
      BY <2>2, CommandTypes DEF PlaceAfterSync, DataTypes, Kinds
    <3> QED BY <1>6, <3>1, <3>2 DEF Yes, DataTypes
  <2> QED BY <1>6, <2>1, <2>2 DEF Yes
<1>7. CASE No \/ DropPayment \/ Home
  BY <1>7 DEF No, DropPayment, Home, DataTypes, Orders
<1>8. CASE Leave
  <2>1. \A c \in wire : [c EXCEPT !.kind = "old"] \in Commands
    BY DEF DataTypes, Commands, Kinds
  <2>2. wire' \subseteq Commands
    BY <1>8, <2>1 DEF Leave, DataTypes
  <2> QED BY <1>8, <2>2, CartTypes, BillTypes DEF Leave, DataTypes
<1> QED BY <1>1, <1>2, <1>3, <1>4, <1>5, <1>6, <1>7, <1>8 DEF Key

LEMMA ServeKeepsTypes == ASSUME DataTypes, NEW c \in wire, Serve(c) PROVE DataTypes'
<1>0. c \in Commands /\ c.cart \in Carts /\ c.state \in {"sent", "ok", "noqr", "error"}
  BY DEF DataTypes, Commands
<1>1. [server EXCEPT !.lines = c.cart] \in Stores /\ [server EXCEPT !.lines = Empty] \in Stores
  BY <1>0, CartTypes DEF DataTypes, Stores
<1>2. server' \in Stores
  BY <1>1 DEF Serve, ServeWrite, ServeRead, ServeOrder, ServeConfirm, DataTypes
<1>3. Bill(server) \in Bills /\ Bill(server') \in Bills /\ NoBill \in Bills
  BY <1>2, BillTypes DEF DataTypes
<1>4. Empty \in Carts /\ server.lines \in Carts
  BY CartTypes DEF DataTypes, Stores
<1>5. \E state \in {"sent", "ok", "noqr", "error"}, cart \in Carts, bill \in Bills : Answered(c, state, cart, bill)
  <2>1. CASE ServeWrite(c)
    BY <2>1, <1>0, <1>3, <1>4 DEF ServeWrite, Error
  <2>2. CASE ServeRead(c)
    BY <2>2, <1>0, <1>3, <1>4 DEF ServeRead, Error
  <2>3. CASE ServeOrder(c)
    BY <2>3, <1>0, <1>3, <1>4 DEF ServeOrder, Error
  <2>4. CASE ServeConfirm(c)
    BY <2>4, <1>0, <1>3, <1>4 DEF ServeConfirm, Error
  <2> QED BY <2>1, <2>2, <2>3, <2>4 DEF Serve
<1>6. wire' \subseteq Commands
  BY <1>5, AnswerTypes
<1> QED BY <1>2, <1>6 DEF Serve, loop, DataTypes

LEMMA AnswersKeepTypes == ASSUME DataTypes, NEW c \in wire, Answer(c) PROVE DataTypes'
<1>0. c \in Commands /\ c.cart \in Carts /\ c.bill \in Bills /\ wire \ {c} \subseteq Commands
  BY DEF DataTypes, Commands
<1>1. Settled \in Orders /\ [Settled EXCEPT !.placing = FALSE] \in Orders
  BY CartTypes DEF Settled, DataTypes, Orders
<1>01. \A cart \in Carts : [set |-> TRUE, lines |-> cart] \in [set : BOOLEAN, lines : Carts]
  OBVIOUS
<1>02. lines \in Carts /\ live \in Bills /\ base \in [set : BOOLEAN, lines : Carts]
  BY DEF DataTypes
<1>2. CASE SyncFailed(c)
  BY <1>2, <1>0, <1>1, CartTypes DEF SyncFailed, DataTypes
<1>3. CASE Synced(c)
  <2>1. live' \in Bills /\ base' \in [set : BOOLEAN, lines : Carts]
    BY <1>3, <1>0 DEF Synced, DataTypes
  <2>2. order' \in Orders
    BY <1>3, <1>1 DEF Synced, DataTypes, Orders, HasUnavailableLine
  <2>3. Command("upi", order.approved) \in Commands
    BY CommandTypes DEF DataTypes, Orders, Kinds
  <2>4. wire' \subseteq Commands
    BY <1>3, <1>0, <2>3, CommandTypes DEF Synced, DataTypes
  <2> QED BY <1>3, <2>1, <2>2, <2>4 DEF Synced, DataTypes
<1>4. CASE CartLoaded(c)
  <2>1. wire' \subseteq Commands
    BY <1>4, <1>0 DEF CartLoaded
  <2>2. live' \in Bills /\ base' \in [set : BOOLEAN, lines : Carts]
    BY <1>4, <1>0, <1>01, <1>02 DEF CartLoaded
  <2> QED BY <1>4, <2>1, <2>2 DEF CartLoaded, DataTypes
<1>5. CASE CartPulled(c)
  <2>1. wire' \subseteq Commands
    BY <1>5, <1>0 DEF CartPulled
  <2>2. live' \in Bills /\ lines' \in Carts /\ base' \in [set : BOOLEAN, lines : Carts]
    BY <1>5, <1>0, <1>01, <1>02 DEF CartPulled
  <2> QED BY <1>5, <2>1, <2>2 DEF CartPulled, DataTypes
<1>6. CASE UPIPlaced(c)
  <2>1. Command("cod", c.cart) \in Commands
    BY <1>0, CommandTypes DEF Kinds
  <2>2. order' \in Orders
    BY <1>6 DEF UPIPlaced, DataTypes, Orders
  <2>3. wire' \subseteq Commands
    BY <1>6, <1>0, <2>1 DEF UPIPlaced
  <2> QED BY <1>6, <2>2, <2>3 DEF UPIPlaced, DataTypes
<1>7. CASE OrderPlaced(c)
  <2>1. wire' \subseteq Commands
    BY <1>7, <1>0 DEF OrderPlaced
  <2>2. live' \in Bills /\ lines' \in Carts /\ base' \in [set : BOOLEAN, lines : Carts]
    BY <1>7, <1>01, <1>02, CartTypes, BillTypes DEF OrderPlaced
  <2>3. order' \in Orders
    BY <1>7 DEF OrderPlaced, DataTypes, Orders
  <2> QED BY <1>7, <2>1, <2>2, <2>3 DEF OrderPlaced, DataTypes
<1> QED BY <1>2, <1>3, <1>4, <1>5, <1>6, <1>7 DEF Answer

LEMMA TypesKept == ASSUME DataTypes, [Next]_vars PROVE DataTypes'
<1>1. CASE Key
  BY <1>1, KeysKeepTypes
<1>2. CASE Settle
  BY <1>2, CommandTypes DEF Settle, DataTypes
<1>3. CASE Move
  BY <1>3 DEF Move, DataTypes, Stores
<1>4. CASE PaymentPolled
  <2>1. Command("confirm", Empty) \in Commands
    BY CartTypes, CommandTypes DEF Kinds
  <2> QED BY <1>4, <2>1 DEF PaymentPolled, DataTypes, Orders
<1>5. ASSUME NEW c \in wire, Serve(c) \/ Answer(c) PROVE DataTypes'
  BY <1>5, ServeKeepsTypes, AnswersKeepTypes
<1>6. CASE UNCHANGED vars
  BY <1>6 DEF vars, DataTypes
<1> QED BY <1>1, <1>2, <1>3, <1>4, <1>5, <1>6 DEF Next

\* Every variable of the terminal's food cart keeps its type: the lines and Swiggy's
\* cart hold no dish more than MaxQty times, and no bill or count is ever negative.
THEOREM TypesAreKept == Spec => []TypeOK
<1>1. IInv /\ DataTypes => TypeOK
  BY DEF IInv, Shapes, Flags, History, DataTypes, Orders, Stores, TypeOK
<1>2. Spec => []DataTypes
  BY TypesInit, TypesKept, PTL DEF Spec
<1> QED BY <1>1, <1>2, Invariance, PTL

-----------------------------------------------------------------------------
(* Part 2: whose lines Swiggy has *)

\* What a step does to Swiggy's cart is an EXCEPT, which needs its fields.
ServerShape == {"lines", "surge", "out"} \subseteq DOMAIN server

\* While the lines are the user's own and no edit waits, the write under way takes
\* just them, and Swiggy has them once it is done: or had them all along.
LeftAlone ==
    past.own /\ ~past.loose /\ ~sync.pending /\ UnderWay({"cod", "confirm"}) = {} =>
        /\ UnderWay({"write"}) = {} => server.lines = lines
        /\ \A w \in UnderWay({"write"}) : /\ w.state = "sent" => w.cart = lines
                                          /\ w.state = "ok" => server.lines = lines

\* An order empties the cart: of the screen and of Swiggy, each in its time.
OrEmpty(cart) == {cart, Empty}

\* From the yes to the answer of its write: the lines, what the write takes and what
\* it left at Swiggy are what was approved. No order of another yes is under way.
YesHolds ==
    order.placePending =>
        /\ UnderWay({"upi", "cod", "pull"}) = {}
        /\ lines \in OrEmpty(order.approved)
        /\ \A w \in UnderWay({"write"}) :
              /\ w.state = "sent" => w.cart \in OrEmpty(order.approved)
              /\ w.state = "ok" => server.lines \in OrEmpty(order.approved)

\* From then to the order: the same of the lines, of those a failed write would
\* bring back, of Swiggy's cart and of the writes that may yet change it.
OrderHolds ==
    \A c \in Opens :
        /\ UnderWay({"pull"}) = {}
        /\ lines \in OrEmpty(c.cart) /\ server.lines \in OrEmpty(c.cart)
        /\ base.set => base.lines \in OrEmpty(c.cart)
        /\ \A w \in UnderWay({"write"}) : w.state = "sent" => w.cart \in OrEmpty(c.cart)

Untouched == ~past.touched /\ ~past.loose => YesHolds /\ OrderHolds

CartInv == IInv /\ ServerShape /\ LeftAlone /\ Untouched

LEMMA CartInit == Init => CartInv
<1> SUFFICES ASSUME Init PROVE CartInv
  OBVIOUS
<1>1. ServerShape
  BY DEF Init, ServerShape
<1>2. LeftAlone
  BY DEF Init, LeftAlone
<1>3. Untouched
  BY CommandHasFields DEF Init, Untouched, YesHolds, OrderHolds, Opens, Open
<1> QED BY InitInv, <1>1, <1>2, <1>3 DEF CartInv

-----------------------------------------------------------------------------
\* LeftAlone, by the effect of a step

\* A step that writes nothing, leaves both carts and consumes at most a write that
\* went well.
LEMMA LeftAsItWas ==
    ASSUME LeftAlone, NEW gone, NEW new, wire' = (wire \ gone) \cup new,
           lines' = lines, server'.lines = server.lines, sync'.pending = sync.pending,
           past'.own => past.own, past'.loose = past.loose,
           \A d \in new : d.kind # "write",
           \A c \in UnderWay({"write", "cod", "confirm"}) : c \in gone => c.kind = "write" /\ c.state = "ok"
    PROVE  LeftAlone'
<1> SUFFICES ASSUME past'.own, ~past'.loose, ~sync'.pending, UnderWay({"cod", "confirm"})' = {}
             PROVE  /\ UnderWay({"write"})' = {} => server'.lines = lines'
                    /\ \A w \in UnderWay({"write"})' : /\ w.state = "sent" => w.cart = lines'
                                                       /\ w.state = "ok" => server'.lines = lines'
  BY DEF LeftAlone
<1>1. UnderWay({"cod", "confirm"}) = {}
  BY DEF UnderWay
<1>2. /\ UnderWay({"write"}) = {} => server.lines = lines
      /\ \A w \in UnderWay({"write"}) : /\ w.state = "sent" => w.cart = lines
                                        /\ w.state = "ok" => server.lines = lines
  BY <1>1 DEF LeftAlone
<1>3. UnderWay({"write"})' \subseteq UnderWay({"write"})
  BY DEF UnderWay
<1>4. \A w \in UnderWay({"write"}) : w \in UnderWay({"write"})' \/ w.state = "ok"
  BY DEF UnderWay
<1> QED BY <1>2, <1>3, <1>4

\* A step that sends the lines it leaves, or leaves them to wait for the write in
\* flight; if it cannot, it says so.
LEMMA LeftByWrite ==
    ASSUME IInv, NEW s \in Flags, NEW r, NEW gone,
           wire' = (wire \ gone) \cup SyncNowCmd(s, lines', r),
           sync'.pending = FireSyncNow(s, lines', r).pending, past'.loose = past.loose,
           ~s.inFlight /\ ~past.loose => UnderWay({"write"}) \subseteq gone,
           ~s.inFlight /\ SyncNowCmd(s, lines', r) = {} => ~past'.own
    PROVE  LeftAlone'
<1> SUFFICES ASSUME past'.own, ~past'.loose, ~sync'.pending
             PROVE  /\ UnderWay({"write"})' = {} => server'.lines = lines'
                    /\ \A w \in UnderWay({"write"})' : /\ w.state = "sent" => w.cart = lines'
                                                       /\ w.state = "ok" => server'.lines = lines'
  BY DEF LeftAlone
<1>1. ~s.inFlight
  BY DEF FireSyncNow, Flags
<1>2. SyncNowCmd(s, lines', r) = {Command("write", lines')}
  BY <1>1, FireOnce
<1>3. Command("write", lines').kind = "write" /\ Command("write", lines').state = "sent"
      /\ Command("write", lines').cart = lines'
  BY DEF Command
<1>4. UnderWay({"write"})' = {Command("write", lines')}
  BY <1>1, <1>2, <1>3 DEF UnderWay
<1> QED BY <1>3, <1>4

\* No claim is made after a step that disowns the lines or lets an edit wait.
LEMMA NothingClaimed == ASSUME ~past'.own \/ sync'.pending PROVE LeftAlone'
  BY DEF LeftAlone

-----------------------------------------------------------------------------
\* Untouched, by the effect of a step

\* A step on no order's account: the claims are made of orders only.
LEMMA NoOrder ==
    ASSUME ~order'.placePending, \A c \in wire' : c.kind \notin {"upi", "cod"}
    PROVE  Untouched'
  BY DEF Untouched, YesHolds, OrderHolds, Opens, Open

\* After the yes: writes send the lines, which at most become none.
LEMMA YesKept ==
    ASSUME YesHolds, NEW gone, NEW new, wire' = (wire \ gone) \cup new,
           order'.placePending => /\ order.placePending /\ order'.approved = order.approved
                                  /\ lines' \in OrEmpty(lines)
                                  /\ server'.lines \in OrEmpty(server.lines),
           \A d \in new : /\ d.kind \notin {"upi", "cod", "pull"}
                          /\ d.kind = "write" => d.state = "sent" /\ d.cart \in {lines, lines'}
    PROVE  YesHolds'
<1> SUFFICES ASSUME order'.placePending
             PROVE  /\ UnderWay({"upi", "cod", "pull"})' = {}
                    /\ lines' \in OrEmpty(order.approved)
                    /\ \A w \in UnderWay({"write"})' :
                          /\ w.state = "sent" => w.cart \in OrEmpty(order.approved)
                          /\ w.state = "ok" => server'.lines \in OrEmpty(order.approved)
  BY DEF YesHolds, OrEmpty, Empty
<1>1. /\ UnderWay({"upi", "cod", "pull"}) = {} /\ lines \in OrEmpty(order.approved)
      /\ \A w \in UnderWay({"write"}) :
            /\ w.state = "sent" => w.cart \in OrEmpty(order.approved)
            /\ w.state = "ok" => server.lines \in OrEmpty(order.approved)
  BY DEF YesHolds
<1>2. lines' \in OrEmpty(order.approved)
  BY <1>1 DEF OrEmpty
<1>3. \A w \in UnderWay({"write"})' :
        w \in UnderWay({"write"}) \/ (w.state = "sent" /\ w.cart \in {lines, lines'})
  BY DEF UnderWay
<1>4. UnderWay({"upi", "cod", "pull"})' = {}
  BY <1>1 DEF UnderWay
<1>5. server.lines \in OrEmpty(order.approved) => server'.lines \in OrEmpty(order.approved)
  BY DEF OrEmpty
<1>6. \A cart \in {lines, lines'} : cart \in OrEmpty(order.approved)
  BY <1>1, <1>2
<1> QED BY <1>1, <1>2, <1>3, <1>4, <1>5, <1>6

\* While an order is under way: the lines stay, go, or go back to the confirmed ones.
LEMMA OrderKept ==
    ASSUME OrderHolds, NEW gone, NEW new, wire' = (wire \ gone) \cup new,
           lines' \in OrEmpty(lines) \/ (base.set /\ lines' = base.lines),
           server'.lines \in OrEmpty(server.lines),
           base'.set => \/ base'.lines \in {lines, lines', Empty}
                        \/ base.set /\ base'.lines = base.lines,
           \A d \in new : /\ d.kind # "pull"
                          /\ Open(d) => \E c \in Opens : c.cart = d.cart
                          /\ d.kind = "write" => d.state = "sent" /\ d.cart \in {lines, lines'}
    PROVE  OrderHolds'
<1> SUFFICES ASSUME NEW d \in Opens'
             PROVE  /\ UnderWay({"pull"})' = {}
                    /\ lines' \in OrEmpty(d.cart) /\ server'.lines \in OrEmpty(d.cart)
                    /\ base'.set => base'.lines \in OrEmpty(d.cart)
                    /\ \A w \in UnderWay({"write"})' : w.state = "sent" => w.cart \in OrEmpty(d.cart)
  BY DEF OrderHolds, OrEmpty, Empty
<1>1. PICK c \in Opens : c.cart = d.cart
  <2>1. d \in wire \/ d \in new
    BY DEF Opens
  <2>2. Open(d)
    BY DEF Opens, Open
  <2> QED BY <2>1, <2>2 DEF Opens, Open
<1>2. /\ UnderWay({"pull"}) = {}
      /\ lines \in OrEmpty(d.cart) /\ server.lines \in OrEmpty(d.cart)
      /\ base.set => base.lines \in OrEmpty(d.cart)
      /\ \A w \in UnderWay({"write"}) : w.state = "sent" => w.cart \in OrEmpty(d.cart)
  BY <1>1 DEF OrderHolds
<1>3. lines' \in OrEmpty(d.cart) /\ server'.lines \in OrEmpty(d.cart)
  BY <1>2 DEF OrEmpty
<1>4. base'.set => base'.lines \in OrEmpty(d.cart)
  BY <1>2, <1>3 DEF OrEmpty
<1>5. \A w \in new : w.kind # "pull" /\ (w.kind = "write" => w.cart \in OrEmpty(d.cart))
  BY <1>2, <1>3
<1>6. \A w \in UnderWay({"write"})' : w \in UnderWay({"write"}) \/ w.cart \in OrEmpty(d.cart)
  BY <1>5, Zenon DEF UnderWay
<1>7. UnderWay({"pull"})' = {}
  BY <1>2, <1>5, Zenon DEF UnderWay
<1> QED BY <1>2, <1>3, <1>4, <1>6, <1>7

\* Both, for a step after which the user has still left the cart alone.
LEMMA BothKept ==
    ASSUME Untouched, past'.touched = past.touched, past'.loose = past.loose,
           NEW gone, NEW new, wire' = (wire \ gone) \cup new,
           order'.placePending => /\ order.placePending /\ order'.approved = order.approved
                                  /\ lines' \in OrEmpty(lines),
           lines' \in OrEmpty(lines) \/ (base.set /\ lines' = base.lines),
           server'.lines \in OrEmpty(server.lines),
           base'.set => \/ base'.lines \in {lines, lines', Empty}
                        \/ base.set /\ base'.lines = base.lines,
           \A d \in new : /\ d.kind \notin {"upi", "cod", "pull"}
                          /\ d.kind = "write" => d.state = "sent" /\ d.cart \in {lines, lines'}
    PROVE  Untouched'
<1> SUFFICES ASSUME ~past'.touched, ~past'.loose PROVE (YesHolds /\ OrderHolds)'
  BY DEF Untouched
<1>1. YesHolds /\ OrderHolds
  BY DEF Untouched
<1>2. YesHolds'
  BY <1>1, YesKept
<1>3. \A d \in new : /\ d.kind # "pull"
                     /\ Open(d) => \E c \in Opens : c.cart = d.cart
                     /\ d.kind = "write" => d.state = "sent" /\ d.cart \in {lines, lines'}
  BY DEF Open
<1>4. OrderHolds'
  BY <1>1, <1>3, OrderKept
<1> QED BY <1>2, <1>4

-----------------------------------------------------------------------------
\* Steps of a kind

\* The loop sends the lines by fireSyncNow, or has them wait, and leaves the order.
LEMMA SendsLines ==
    ASSUME CartInv, NEW s \in Flags, NEW r, NEW gone,
           wire' = (wire \ gone) \cup SyncNowCmd(s, lines, r),
           lines' = lines, server' = server, order' = order,
           sync'.pending = FireSyncNow(s, lines, r).pending,
           past' \in {past, Disowned},
           ~s.inFlight /\ SyncNowCmd(s, lines, r) = {} => past' = Disowned,
           ~s.inFlight /\ ~past.loose => UnderWay({"write"}) \subseteq gone,
           base'.set => base'.lines = lines \/ (base.set /\ base'.lines = base.lines)
    PROVE  LeftAlone' /\ Untouched'
<1>1. IInv /\ Untouched /\ Shapes
  BY DEF CartInv, IInv
<1>2. /\ past'.loose = past.loose /\ past'.touched = past.touched
      /\ past' = Disowned => ~past'.own
  BY <1>1 DEF Disowned, Shapes, History
<1>3. /\ wire' = (wire \ gone) \cup SyncNowCmd(s, lines', r)
      /\ sync'.pending = FireSyncNow(s, lines', r).pending
      /\ ~s.inFlight /\ SyncNowCmd(s, lines', r) = {} => ~past'.own
  BY <1>2
<1>4. LeftAlone'
  BY <1>1, <1>2, <1>3, LeftByWrite
<1>5. \A d \in SyncNowCmd(s, lines, r) : d.kind = "write" /\ d.state = "sent" /\ d.cart = lines
  BY DEF SyncNowCmd, LiveCartCmd, Command
<1>6. Untouched'
  <2> DEFINE new == SyncNowCmd(s, lines, r)
  <2> HIDE DEF new
  <2>1. wire' = (wire \ gone) \cup new
    BY DEF new
  <2>2. \A d \in new : /\ d.kind \notin {"upi", "cod", "pull"}
                       /\ d.kind = "write" => d.state = "sent" /\ d.cart \in {lines, lines'}
    BY <1>5 DEF new
  <2>3. lines' \in OrEmpty(lines) /\ server'.lines \in OrEmpty(server.lines)
    BY DEF OrEmpty
  <2>4. base'.set => \/ base'.lines \in {lines, lines', Empty}
                     \/ base.set /\ base'.lines = base.lines
    OBVIOUS
  <2> QED BY <1>1, <1>2, <2>1, <2>2, <2>3, <2>4, BothKept
<1> QED BY <1>4, <1>6

\* The loop writes and orders nothing and leaves the lines.
LEMMA Watches ==
    ASSUME CartInv, NEW gone, NEW new, wire' = (wire \ gone) \cup new,
           lines' = lines, server'.lines = server.lines, sync'.pending = sync.pending,
           order'.placePending => order.placePending /\ order'.approved = order.approved,
           past'.own => past.own, past'.loose = past.loose, past'.touched = past.touched,
           base'.set => base'.lines = lines \/ (base.set /\ base'.lines = base.lines),
           \A d \in new : d.kind \notin {"write", "upi", "cod", "pull"},
           \A c \in UnderWay({"write", "cod", "confirm"}) : c \in gone => c.kind = "write" /\ c.state = "ok"
    PROVE  LeftAlone' /\ Untouched'
<1>1. LeftAlone /\ Untouched
  BY DEF CartInv
<1>2. LeftAlone'
  BY <1>1, LeftAsItWas
<1>3. lines' \in OrEmpty(lines) /\ server'.lines \in OrEmpty(server.lines)
  BY DEF OrEmpty
<1>4. \A d \in new : /\ d.kind \notin {"upi", "cod", "pull"}
                     /\ d.kind = "write" => d.state = "sent" /\ d.cart \in {lines, lines'}
  OBVIOUS
<1>5. base'.set => \/ base'.lines \in {lines, lines', Empty}
                   \/ base.set /\ base'.lines = base.lines
  OBVIOUS
<1>6. Untouched'
  BY <1>1, <1>3, <1>4, <1>5, BothKept
<1> QED BY <1>2, <1>6

\* The same of a step that sends nothing.
LEMMA WatchesOnly ==
    ASSUME CartInv, NEW gone, wire' = wire \ gone,
           lines' = lines, server'.lines = server.lines, sync'.pending = sync.pending,
           order'.placePending => order.placePending /\ order'.approved = order.approved,
           past'.own => past.own, past'.loose = past.loose, past'.touched = past.touched,
           base'.set => base'.lines = lines \/ (base.set /\ base'.lines = base.lines),
           \A c \in UnderWay({"write", "cod", "confirm"}) : c \in gone => c.kind = "write" /\ c.state = "ok"
    PROVE  LeftAlone' /\ Untouched'
<1> DEFINE none == {}
<1>1. wire' = (wire \ gone) \cup none /\ \A d \in none : d.kind \notin {"write", "upi", "cod", "pull"}
  OBVIOUS
<1> HIDE DEF none
<1> QED BY <1>1, Watches

\* The user edits: while an order is on its way, that is to touch it.
LEMMA Edits ==
    ASSUME CartInv, order' = order, past'.touched = (past.touched \/ Placing),
           NEW new, wire' = wire \cup new, \A d \in new : d.kind = "write"
    PROVE  Untouched'
<1>1. CASE past'.touched
  BY <1>1 DEF Untouched
<1>2. CASE ~past'.touched
  <2>1. ~Placing
    BY <1>2
  <2>2. ~order'.placePending /\ \A c \in wire' : c.kind \notin {"upi", "cod"}
    BY <2>1 DEF Placing, UnderWay
  <2> QED BY <2>2, NoOrder
<1> QED BY <1>1, <1>2

-----------------------------------------------------------------------------
\* The steps

\* fireSyncNow leaves the writes alone while one is in flight.
LEMMA RestedAlone == IInv /\ ~sync.inFlight /\ ~past.loose => UnderWay({"write"}) = {}
  BY DEF IInv, SingleFlight

LEMMA SettleCart == ASSUME CartInv, Settle PROVE LeftAlone' /\ Untouched'
<1>1. IInv /\ ~sync.inFlight /\ sync \in Flags
  BY DEF CartInv, IInv, Shapes, Settle, MaySettle
<1>2. PICK r \in Resolves :
        /\ sync' = FireSyncNow(sync, lines, r) /\ wire' = wire \cup LiveCartCmd(lines, r)
        /\ past' = IF LiveCartCmd(lines, r) = {} THEN Disowned ELSE past
  BY DEF Settle
<1>3. SyncNowCmd(sync, lines, r) = LiveCartCmd(lines, r)
  BY <1>1 DEF SyncNowCmd
<1>4. wire' = (wire \ {}) \cup SyncNowCmd(sync, lines, r)
  BY <1>2, <1>3
<1>5. lines' = lines /\ base' = base /\ server' = server /\ order' = order
  BY DEF Settle
<1>6. ~past.loose => UnderWay({"write"}) \subseteq {}
  BY <1>1, RestedAlone
<1> QED BY <1>1, <1>2, <1>3, <1>4, <1>5, <1>6, SendsLines

LEMMA ArmCart == ASSUME CartInv, NEW i \in Items, Add(i) \/ Dec(i) \/ Inc(i) PROVE LeftAlone' /\ Untouched'
<1>1. /\ sync' = [sync EXCEPT !.pending = TRUE] /\ Edited /\ wire' = wire \cup {} /\ order' = order
  BY DEF Add, Dec, Inc
<1>2. sync \in Flags /\ past \in History
  BY DEF CartInv, IInv, Shapes
<1>3. sync'.pending
  BY <1>1, <1>2 DEF Flags
<1>4. past'.touched = (past.touched \/ Placing)
  BY <1>1, <1>2 DEF Edited, History
<1>5. LeftAlone'
  BY <1>3, NothingClaimed
<1> DEFINE none == {}
<1>6. wire' = wire \cup none /\ \A d \in none : d.kind = "write"
  BY <1>1
<1> HIDE DEF none
<1> QED BY <1>1, <1>4, <1>5, <1>6, Edits

LEMMA ReplaceCart == ASSUME CartInv, NEW i \in Items, Replace(i) PROVE LeftAlone' /\ Untouched'
<1>1. /\ sync' = FireSyncNow(sync, lines', TRUE) /\ order' = order /\ Edited
      /\ wire' = wire \cup SyncNowCmd(sync, lines', TRUE)
  BY DEF Replace
<1>2. IInv /\ sync \in Flags /\ past \in History
  BY DEF CartInv, IInv, Shapes
<1>3. past'.touched = (past.touched \/ Placing) /\ past'.loose = past.loose
  BY <1>1, <1>2 DEF Edited, History
<1>4. ~sync.inFlight /\ ~past.loose => UnderWay({"write"}) \subseteq {}
  BY <1>2, RestedAlone
<1>5. wire' = (wire \ {}) \cup SyncNowCmd(sync, lines', TRUE)
  BY <1>1
<1>6. ~(~sync.inFlight /\ SyncNowCmd(sync, lines', TRUE) = {})
  BY DEF SyncNowCmd, LiveCartCmd
<1>7. LeftAlone'
  BY <1>1, <1>2, <1>3, <1>4, <1>5, <1>6, LeftByWrite
<1>8. \A d \in SyncNowCmd(sync, lines', TRUE) : d.kind = "write"
  BY <1>2, WritesAreFinite
<1>9. Untouched'
  BY <1>1, <1>3, <1>8, Edits
<1> QED BY <1>7, <1>9

LEMMA ReduceCart == ASSUME CartInv, NEW i \in Items, Reduce(i) PROVE LeftAlone' /\ Untouched'
<1>1. PICK r \in Resolves :
        /\ sync' = [FireSyncNow(sync, lines', r) EXCEPT
                        !.mutating = SyncNowCmd(sync, lines', r) # {} \/ sync.inFlight]
        /\ wire' = wire \cup SyncNowCmd(sync, lines', r)
        /\ past' = [past EXCEPT !.edits = @ + 1, !.own = sync'.inFlight, !.touched = @ \/ Placing]
  BY DEF Reduce
<1>2. IInv /\ sync \in Flags /\ past \in History /\ order' = order
  BY DEF CartInv, IInv, Shapes, Reduce
<1>3. FireSyncNow(sync, lines', r) \in Flags
  BY <1>2, FireOnce
<1>4. /\ sync'.pending = FireSyncNow(sync, lines', r).pending
      /\ sync'.inFlight = FireSyncNow(sync, lines', r).inFlight
  BY <1>1, <1>3 DEF Flags
<1>5. /\ past'.touched = (past.touched \/ Placing) /\ past'.loose = past.loose
      /\ past'.own = sync'.inFlight
  BY <1>1, <1>2 DEF History
<1>6. ~sync.inFlight /\ ~past.loose => UnderWay({"write"}) \subseteq {}
  BY <1>2, RestedAlone
<1>7. wire' = (wire \ {}) \cup SyncNowCmd(sync, lines', r)
  BY <1>1
<1>8. ~sync.inFlight /\ SyncNowCmd(sync, lines', r) = {} => ~past'.own
  BY <1>2, <1>4, <1>5 DEF SyncNowCmd, FireSyncNow, Flags
<1>9. LeftAlone'
  BY <1>2, <1>4, <1>5, <1>6, <1>7, <1>8, LeftByWrite
<1>10. \A d \in SyncNowCmd(sync, lines', r) : d.kind = "write"
  BY <1>2, WritesAreFinite
<1>11. Untouched'
  BY <1>1, <1>2, <1>5, <1>10, Edits
<1> QED BY <1>9, <1>11

LEMMA ToCheckoutCart == ASSUME CartInv, ToCheckout PROVE LeftAlone' /\ Untouched'
<1>1. IInv /\ sync \in Flags
      /\ lines' = lines /\ base' = base /\ server' = server /\ order' = order
  BY DEF CartInv, IInv, Shapes, ToCheckout
<1>2. CASE CartSyncing
  <2>1. PICK r \in Resolves :
          /\ sync' = FireSyncNow(sync, lines, r) /\ wire' = wire \cup SyncNowCmd(sync, lines, r)
          /\ past' = IF sync'.pending \/ sync'.inFlight THEN past ELSE Disowned
    BY <1>2 DEF ToCheckout
  <2>2. wire' = (wire \ {}) \cup SyncNowCmd(sync, lines, r)
    BY <2>1
  <2>3. ~sync.inFlight /\ SyncNowCmd(sync, lines, r) = {} => past' = Disowned
    BY <1>1, <2>1 DEF SyncNowCmd, FireSyncNow, Flags
  <2>4. ~sync.inFlight /\ ~past.loose => UnderWay({"write"}) \subseteq {}
    BY <1>1, RestedAlone
  <2> QED BY <1>1, <2>1, <2>2, <2>3, <2>4, SendsLines
<1>3. CASE ~CartSyncing
  <2>1. /\ sync' = sync /\ past' = past
        /\ wire' \in {wire, wire \cup {Command("load", Empty)}}
    BY <1>3 DEF ToCheckout
  <2>2. PICK new : new \in {{}, {Command("load", Empty)}} /\ wire' = (wire \ {}) \cup new
    <3>1. wire' = (wire \ {}) \cup {} \/ wire' = (wire \ {}) \cup {Command("load", Empty)}
      BY <2>1
    <3> QED BY <3>1
  <2>3. \A d \in new : d.kind \notin {"write", "upi", "cod", "pull"}
    BY <2>2, CommandHasFields
  <2> QED BY <1>1, <2>1, <2>2, <2>3, Watches
<1> QED BY <1>2, <1>3

LEMMA EnterCart == ASSUME CartInv, Enter PROVE LeftAlone' /\ Untouched'
<1>1. IInv /\ sync \in Flags
      /\ lines' = lines /\ base' = base /\ server' = server /\ order' = order
  BY DEF CartInv, IInv, Shapes, Enter
<1>2. CASE CartSyncing
  <2>1. PICK r \in Resolves :
          /\ sync' = [FireSyncNow(sync, lines, r) EXCEPT !.confirmPending = TRUE, !.mutating = TRUE]
          /\ wire' = wire \cup SyncNowCmd(sync, lines, r)
          /\ past' = IF sync'.inFlight THEN past ELSE Disowned
    BY <1>2 DEF Enter
  <2>2. FireSyncNow(sync, lines, r) \in Flags
    BY <1>1, FireOnce
  <2>3. /\ sync'.pending = FireSyncNow(sync, lines, r).pending
        /\ sync'.inFlight = FireSyncNow(sync, lines, r).inFlight
    BY <2>1, <2>2 DEF Flags
  <2>4. wire' = (wire \ {}) \cup SyncNowCmd(sync, lines, r)
    BY <2>1
  <2>5. ~sync.inFlight /\ SyncNowCmd(sync, lines, r) = {} => past' = Disowned
    BY <1>1, <2>1, <2>3 DEF SyncNowCmd, FireSyncNow, Flags
  <2>6. ~sync.inFlight /\ ~past.loose => UnderWay({"write"}) \subseteq {}
    BY <1>1, RestedAlone
  <2> QED BY <1>1, <2>1, <2>3, <2>4, <2>5, <2>6, SendsLines
<1>3. CASE ~CartSyncing
  <2>1. sync' = sync /\ past' = past /\ wire' = (wire \ {}) \cup {}
    BY <1>3 DEF Enter
  <2> QED BY <1>1, <2>1, Watches
<1> QED BY <1>2, <1>3

\* The yes: from here on, what was approved is on the screen, and nowhere else yet.
LEMMA YesCart == ASSUME CartInv, Yes PROVE LeftAlone' /\ Untouched'
<1>1. IInv /\ sync \in Flags /\ past \in History /\ modal /\ ~sync.pending /\ ~sync.inFlight
  BY DEF CartInv, IInv, Shapes, ModalAtRest, Yes
<1>2. lines' = lines /\ base' = base /\ server' = server
  BY DEF Yes
<1>3. CASE order.placing
  <2>1. UNCHANGED <<sync, order, past>> /\ wire' = (wire \ {}) \cup {}
    BY <1>3 DEF Yes
  <2> QED BY <1>2, <2>1, Watches
<1>4. CASE UNCHANGED <<order, wire>> /\ sync' = [sync EXCEPT !.pending = FALSE] /\ past' = Disowned
  <2>1. ~past'.own /\ past'.loose = past.loose /\ past'.touched = past.touched
    BY <1>1, <1>4 DEF Disowned, History
  <2>2. sync'.pending = sync.pending /\ wire' = (wire \ {}) \cup {}
    BY <1>1, <1>4 DEF Flags
  <2> QED BY <1>2, <1>4, <2>1, <2>2, Watches
<1>5. CASE /\ sync' = [sync EXCEPT !.pending = FALSE, !.inFlight = TRUE] /\ PlaceAfterSync
           /\ past' = [past EXCEPT !.yes = @ + 1, !.touched = Placing]
  <2> DEFINE write == Command("write", lines)
  <2>1. /\ wire' = wire \cup {write}
        /\ order' = [order EXCEPT !.placing = TRUE, !.placePending = TRUE, !.total = PayAmount, !.approved = lines]
    BY <1>5 DEF PlaceAfterSync
  <2>2. order'.approved = lines
    BY <1>1, <2>1 DEF IInv, Shapes
  <2>3. write.kind = "write" /\ write.state = "sent" /\ write.cart = lines
    BY DEF Command
  <2> HIDE DEF write
  <2>4. past'.loose = past.loose /\ past'.touched = Placing
    BY <1>1, <1>5 DEF History
  <2>5. ~past.loose => UnderWay({"write"}) = {}
    BY <1>1, RestedAlone
  <2>6. ~past'.loose => UnderWay({"write"})' = {write}
    BY <2>1, <2>3, <2>4, <2>5 DEF UnderWay
  <2>7. LeftAlone'
    BY <1>2, <2>3, <2>6 DEF LeftAlone
  <2>8. Untouched'
    <3> SUFFICES ASSUME ~past'.touched, ~past'.loose PROVE (YesHolds /\ OrderHolds)'
      BY DEF Untouched
    <3>1. \A c \in wire : c.kind \notin {"upi", "cod"}
      BY <2>4 DEF Placing, UnderWay
    <3>2. UnderWay({"pull"}) = {}
      BY DEF Yes, UnderWay
    <3>3. UnderWay({"upi", "cod", "pull"})' = {}
      BY <3>1, <3>2, <2>1, <2>3 DEF UnderWay
    <3>4. YesHolds'
      BY <3>3, <2>2, <2>3, <2>6, <1>2 DEF YesHolds, OrEmpty
    <3>5. Opens' = {}
      BY <3>1, <2>1, <2>3 DEF Opens, Open
    <3>6. OrderHolds'
      BY <3>5 DEF OrderHolds
    <3> QED BY <3>4, <3>6
  <2> QED BY <2>7, <2>8
<1> QED BY <1>3, <1>4, <1>5 DEF Yes

\* Keys that close the modal, drop a payment or leave the page; prices and stock move.
LEMMA WalkCart == ASSUME CartInv, No \/ DropPayment \/ Home \/ Move PROVE LeftAlone' /\ Untouched'
<1>1. /\ UNCHANGED <<lines, base, sync>> /\ wire' = (wire \ {}) \cup {}
      /\ order' \in {order, [order EXCEPT !.pay = "idle"]}
  BY DEF No, DropPayment, Home, Move
<1>2. order'.placePending = order.placePending /\ order'.approved = order.approved
  BY <1>1 DEF CartInv, IInv, Shapes
<1>3. past'.own = past.own /\ past'.loose = past.loose /\ past'.touched = past.touched
  BY DEF No, DropPayment, Home, Move, Fault, CartInv, IInv, Shapes, History
<1>4. server'.lines = server.lines
  <2>1. \/ server' = server
        \/ \E surge : server' = [server EXCEPT !.surge = surge]
        \/ \E out : server' = [server EXCEPT !.out = out]
    BY DEF No, DropPayment, Home, Move
  <2> QED BY <2>1 DEF CartInv, ServerShape
<1>5. /\ lines' = lines /\ sync'.pending = sync.pending
      /\ past'.own => past.own
      /\ base'.set => base'.lines = lines \/ (base.set /\ base'.lines = base.lines)
      /\ order'.placePending => order.placePending /\ order'.approved = order.approved
  BY <1>1, <1>2, <1>3
<1> QED BY <1>1, <1>3, <1>4, <1>5, Watches

\* clearPlacedCarts, when it forgets no write.
LEMMA LeaveCart == ASSUME CartInv, Leave PROVE LeftAlone' /\ Untouched'
<1>1. /\ past' = [Disowned EXCEPT !.loose = @ \/ UnderWay({"write"}) # {}]
      /\ order' = order /\ server' = server /\ lines' = Empty /\ ~base'.set
      /\ wire' = {IF c.kind = "write" THEN [c EXCEPT !.kind = "old"] ELSE c : c \in wire}
  BY DEF Leave
<1>2. /\ ~past'.own /\ past'.touched = past.touched
      /\ past'.loose = (past.loose \/ UnderWay({"write"}) # {}) /\ past.loose \in BOOLEAN
  BY <1>1 DEF Disowned, CartInv, IInv, Shapes, History
<1>3. LeftAlone'
  BY <1>2, NothingClaimed
<1>4. CASE past'.loose
  BY <1>3, <1>4 DEF Untouched
<1>5. CASE ~past'.loose
  <2>1. \A c \in wire : c.kind # "write"
    BY <1>2, <1>5 DEF UnderWay
  <2>2. wire' = {c : c \in wire}
    BY <1>1, <2>1
  <2>3. wire' = (wire \ {}) \cup {}
    BY <2>2
  <2>4. past'.loose = past.loose
    BY <1>2, <1>5
  <2>5. Untouched /\ lines' \in OrEmpty(lines) /\ server'.lines \in OrEmpty(server.lines)
    BY <1>1 DEF CartInv, OrEmpty
  <2>6. Untouched'
    BY <1>1, <1>2, <2>3, <2>4, <2>5, BothKept
  <2> QED BY <1>3, <2>6
<1> QED BY <1>4, <1>5

LEMMA PolledCart == ASSUME CartInv, PaymentPolled PROVE LeftAlone' /\ Untouched'
<1>1. UNCHANGED <<lines, base, sync, server, past>>
  BY DEF PaymentPolled
<1>2. PICK new : new \in {{}, {Command("confirm", Empty)}} /\ wire' = (wire \ {}) \cup new
  <2>1. wire' = (wire \ {}) \cup {} \/ wire' = (wire \ {}) \cup {Command("confirm", Empty)}
    BY DEF PaymentPolled
  <2> QED BY <2>1
<1>3. \A d \in new : d.kind \notin {"write", "upi", "cod", "pull"}
  BY <1>2, CommandHasFields
<1>4. order'.placePending = order.placePending /\ order'.approved = order.approved
  <2>1. \E pay : order' = [order EXCEPT !.pay = pay]
    BY DEF PaymentPolled
  <2> QED BY <2>1 DEF CartInv, IInv, Shapes
<1> QED BY <1>1, <1>2, <1>3, <1>4, Watches

\* The answer of a write: the order goes out as it was approved, or an Enter goes on.
LEMMA SyncedCart == ASSUME CartInv, NEW c \in wire, Synced(c) PROVE LeftAlone' /\ Untouched'
<1>1. IInv /\ Shapes /\ LeftAlone /\ Untouched
  BY DEF CartInv, IInv
<1>2. /\ lines' = lines /\ base' = [set |-> TRUE, lines |-> lines] /\ server' = server
      /\ c.kind \in {"write", "old"} /\ c.state = "ok"
  BY DEF Synced
<1>3. ~past.loose => UnderWay({"write"}) \subseteq {c}
  BY <1>1, <1>2 DEF IInv, SingleFlight, OldIsLoose, UnderWay
<1>4. Landed \in Flags /\ ~Landed.inFlight /\ Landed.pending = sync.pending
  BY <1>1, LandedShape
<1>5. \A e \in UnderWay({"write", "cod", "confirm"}) : e \in {c} => e.kind = "write" /\ e.state = "ok"
  BY <1>2 DEF UnderWay
<1>6. CASE order.placePending
  <2> DEFINE go == ~HasUnavailableLine(c.bill) /\ c.bill.total = order.total
             upi == Command("upi", order.approved)
  <2>1. /\ order' = [Settled EXCEPT !.placing = @ /\ go]
        /\ wire' = (wire \ {c}) \cup IF go THEN {upi} ELSE {}
        /\ sync' = Landed /\ past' = past
    BY <1>6 DEF Synced
  <2>2. upi.kind = "upi" /\ upi.cart = order.approved
    BY DEF Command
  <2> HIDE DEF go, upi
  <2>3. ~order'.placePending
    BY <1>1, <2>1 DEF Settled, Shapes
  <2>4. LeftAlone'
    <3>1. PICK new : new \in {{}, {upi}} /\ wire' = (wire \ {c}) \cup new
      BY <2>1
    <3>2. \A d \in new : d.kind # "write"
      BY <2>2, <3>1
    <3> QED BY <1>1, <1>2, <1>4, <1>5, <2>1, <3>1, <3>2, LeftAsItWas
  <2>5. Untouched'
    <3> SUFFICES ASSUME ~past.touched, ~past.loose PROVE (YesHolds /\ OrderHolds)'
      BY <2>1 DEF Untouched
    <3>1. YesHolds'
      BY <2>3 DEF YesHolds
    <3>2. /\ UnderWay({"upi", "cod", "pull"}) = {} /\ lines \in OrEmpty(order.approved)
          /\ c.kind = "write" => server.lines \in OrEmpty(order.approved)
      BY <1>1, <1>2, <1>6 DEF Untouched, YesHolds, UnderWay
    <3>3. c.kind = "write"
      BY <1>1, <1>2 DEF IInv, OldIsLoose, UnderWay
    <3>4. \A d \in Opens' : d = upi
      BY <2>1, <3>2 DEF Opens, Open, UnderWay
    <3>5. UnderWay({"write"})' = {} /\ UnderWay({"pull"})' = {}
      BY <1>3, <2>1, <2>2, <3>2 DEF UnderWay
    <3>6. lines' \in OrEmpty(upi.cart) /\ server'.lines \in OrEmpty(upi.cart) /\ base'.lines \in OrEmpty(upi.cart)
      BY <1>2, <2>2, <3>2, <3>3
    <3>7. OrderHolds'
      <4> SUFFICES ASSUME NEW d \in Opens'
                   PROVE  /\ UnderWay({"pull"})' = {}
                          /\ lines' \in OrEmpty(d.cart) /\ server'.lines \in OrEmpty(d.cart)
                          /\ base'.set => base'.lines \in OrEmpty(d.cart)
                          /\ \A w \in UnderWay({"write"})' : w.state = "sent" => w.cart \in OrEmpty(d.cart)
        BY DEF OrderHolds, OrEmpty, Empty
      <4>1. d = upi
        BY <3>4
      <4> QED BY <4>1, <3>5, <3>6
    <3> QED BY <3>1, <3>7
  <2> QED BY <2>4, <2>5
<1>7. CASE ~order.placePending /\ sync.confirmPending /\ sync.pending
  <2> DEFINE s == [Landed EXCEPT !.mutating = TRUE]
  <2>1. PICK r \in Resolves :
            /\ sync' = FireSyncNow(s, lines, r)
            /\ wire' = (wire \ {c}) \cup SyncNowCmd(s, lines, r)
            /\ past' = IF sync'.inFlight THEN past ELSE Disowned
            /\ UNCHANGED <<modal, order>>
    BY <1>7 DEF Synced
  <2>2. s \in Flags /\ ~s.inFlight
    BY <1>4 DEF Flags
  <2> HIDE DEF s
  <2>3. ~s.inFlight /\ SyncNowCmd(s, lines, r) = {} => past' = Disowned
    BY <2>1, <2>2 DEF SyncNowCmd, FireSyncNow, Flags
  <2>4. base'.set => base'.lines = lines \/ (base.set /\ base'.lines = base.lines)
    BY <1>2
  <2> QED BY <1>2, <1>3, <2>1, <2>2, <2>3, <2>4, SendsLines
<1>8. CASE ~order.placePending /\ ~(sync.confirmPending /\ sync.pending)
  <2>1. /\ sync' = [Landed EXCEPT !.confirmPending = FALSE] /\ wire' = wire \ {c}
        /\ UNCHANGED <<order, past>>
    BY <1>8 DEF Synced
  <2>2. sync'.pending = sync.pending
    BY <1>4, <2>1 DEF Flags
  <2>3. base'.set => base'.lines = lines \/ (base.set /\ base'.lines = base.lines)
    BY <1>2
  <2> QED BY <1>2, <1>5, <2>1, <2>2, <2>3, WatchesOnly
<1> QED BY <1>6, <1>7, <1>8

\* A rollback, and an order that is through: the lines are not the user's any more.
LEMMA RolledCart == ASSUME CartInv, NEW c \in wire, SyncFailed(c) \/ OrderPlaced(c) PROVE LeftAlone' /\ Untouched'
<1>1. /\ wire' = (wire \ {c}) \cup {} /\ server' = server /\ past' = Disowned
      /\ lines' \in OrEmpty(lines) \/ (base.set /\ lines' = base.lines)
      /\ base' = base \/ base'.lines = Empty
  BY DEF SyncFailed, OrderPlaced, OrEmpty
<1>2. ~past'.own /\ past'.loose = past.loose /\ past'.touched = past.touched
  BY <1>1 DEF Disowned, CartInv, IInv, Shapes, History
<1>3. order'.placePending => /\ order.placePending /\ order'.approved = order.approved
                             /\ lines' \in OrEmpty(lines)
  <2>1. CASE SyncFailed(c)
    BY <2>1 DEF SyncFailed, Settled, CartInv, IInv, Shapes
  <2>2. CASE OrderPlaced(c)
    BY <2>2 DEF OrderPlaced, OrEmpty, CartInv, IInv, Shapes
  <2> QED BY <2>1, <2>2
<1>4. base'.set => \/ base'.lines \in {lines, lines', Empty}
                   \/ base.set /\ base'.lines = base.lines
  BY <1>1
<1>5. Untouched /\ server'.lines \in OrEmpty(server.lines)
  BY <1>1 DEF CartInv, OrEmpty
<1>6. Untouched'
  <2> DEFINE none == {}
  <2>1. wire' = (wire \ {c}) \cup none
    BY <1>1
  <2>2. \A d \in none : /\ d.kind \notin {"upi", "cod", "pull"}
                        /\ d.kind = "write" => d.state = "sent" /\ d.cart \in {lines, lines'}
    OBVIOUS
  <2> HIDE DEF none
  <2> QED BY <1>1, <1>2, <1>3, <1>4, <1>5, <2>1, <2>2, BothKept
<1> QED BY <1>2, <1>6, NothingClaimed

\* A read: the launch pull is over before any order.
LEMMA ReadCart == ASSUME CartInv, NEW c \in wire, CartLoaded(c) \/ CartPulled(c) PROVE LeftAlone' /\ Untouched'
<1>1. /\ wire' = wire \ {c} /\ UNCHANGED <<order, sync, server>>
      /\ c.kind \in {"load", "pull"}
  BY DEF CartLoaded, CartPulled
<1>2. \A e \in UnderWay({"write", "cod", "confirm"}) : e \in {c} => e.kind = "write" /\ e.state = "ok"
  BY <1>1 DEF UnderWay
<1>3. CASE lines' = lines /\ past' = past
  <2>1. base'.set => base'.lines = lines \/ (base.set /\ base'.lines = base.lines)
    BY <1>3 DEF CartLoaded, CartPulled
  <2> QED BY <1>1, <1>2, <1>3, <2>1, WatchesOnly
<1>4. CASE CartPulled(c) /\ past' = Disowned
  <2>1. c.kind = "pull" /\ ~past'.own /\ past'.loose = past.loose /\ past'.touched = past.touched
    BY <1>4 DEF CartPulled, Disowned, CartInv, IInv, Shapes, History
  <2>2. CASE past.touched \/ past.loose
    BY <2>1, <2>2, NothingClaimed DEF Untouched
  <2>3. CASE ~past.touched /\ ~past.loose
    <3>1. UnderWay({"pull"}) # {}
      BY <2>1 DEF UnderWay
    <3>2. ~order.placePending /\ Opens = {}
      BY <2>1, <2>3, <3>1 DEF CartInv, Untouched, YesHolds, OrderHolds, UnderWay
    <3>3. Opens' = {}
      BY <1>1, <3>2 DEF Opens
    <3>4. YesHolds' /\ OrderHolds'
      BY <1>1, <3>2, <3>3 DEF YesHolds, OrderHolds
    <3> QED BY <2>1, <3>4, NothingClaimed DEF Untouched
  <2> QED BY <2>2, <2>3
<1> QED BY <1>3, <1>4 DEF CartLoaded, CartPulled

LEMMA UPIPlacedCart == ASSUME CartInv, NEW c \in wire, UPIPlaced(c) PROVE LeftAlone' /\ Untouched'
<1>1. UNCHANGED <<lines, base, sync, server, past>> /\ c.kind = "upi"
  BY DEF UPIPlaced
<1>2. order'.placePending = order.placePending /\ order'.approved = order.approved
  BY DEF UPIPlaced, CartInv, IInv, Shapes
<1>3. \A e \in UnderWay({"write", "cod", "confirm"}) : e \in {c} => e.kind = "write" /\ e.state = "ok"
  BY <1>1 DEF UnderWay
<1>4. CASE c.state # "noqr"
  <2>1. wire' = wire \ {c}
    BY <1>4 DEF UPIPlaced
  <2> QED BY <1>1, <1>2, <1>3, <2>1, WatchesOnly
<1>5. CASE c.state = "noqr"
  <2> DEFINE cod == Command("cod", c.cart)
  <2>1. wire' = (wire \ {c}) \cup {cod}
    BY <1>5 DEF UPIPlaced
  <2>2. cod.kind = "cod" /\ cod.cart = c.cart
    BY DEF Command
  <2> HIDE DEF cod
  <2>3. LeftAlone /\ Untouched /\ c \in Opens
    BY <1>1, <1>5 DEF CartInv, Opens, Open
  <2>4. \A d \in {cod} : d.kind # "write"
    BY <2>2
  <2>5. LeftAlone'
    BY <1>1, <1>3, <2>1, <2>3, <2>4, LeftAsItWas
  <2>6. Untouched'
    <3> SUFFICES ASSUME ~past.touched, ~past.loose PROVE (YesHolds /\ OrderHolds)'
      BY <1>1 DEF Untouched
    <3>1. YesHolds /\ OrderHolds
      BY <2>3 DEF Untouched
    <3>2. ~order.placePending
      BY <1>1, <3>1 DEF YesHolds, UnderWay
    <3>3. YesHolds'
      BY <1>2, <3>2 DEF YesHolds
    <3>4. \A d \in {cod} : /\ d.kind # "pull"
                           /\ Open(d) => \E e \in Opens : e.cart = d.cart
                           /\ d.kind = "write" => d.state = "sent" /\ d.cart \in {lines, lines'}
      BY <2>2, <2>3
    <3>5. lines' \in OrEmpty(lines) /\ server'.lines \in OrEmpty(server.lines)
      BY <1>1 DEF OrEmpty
    <3>6. OrderHolds'
      BY <1>1, <2>1, <3>1, <3>4, <3>5, OrderKept
    <3> QED BY <3>3, <3>6
  <2> QED BY <2>5, <2>6
<1> QED BY <1>4, <1>5

-----------------------------------------------------------------------------
\* Swiggy's steps

\* What an answer says, and which command it is the answer to.
LEMMA AnswerSays ==
    ASSUME Shapes, NEW c \in wire, NEW state, NEW cart, NEW bill, Answered(c, state, cart, bill)
    PROVE  \E d : /\ wire' = (wire \ {c}) \cup {d}
                  /\ d.kind = c.kind /\ d.state = state /\ d.cart = cart
<1>1. /\ AnswerTo(c, state, cart, bill).kind = c.kind
      /\ AnswerTo(c, state, cart, bill).state = state
      /\ AnswerTo(c, state, cart, bill).cart = cart
  BY DEF Shapes, AnswerTo
<1>2. wire' = (wire \ {c}) \cup {AnswerTo(c, state, cart, bill)}
  BY DEF Answered, AnswerTo
<1> HIDE DEF AnswerTo
<1> QED BY <1>1, <1>2

\* What the user did with the lines is no affair of Swiggy's.
LEMMA ServeHistory ==
    ASSUME Shapes, NEW c \in wire, Serve(c)
    PROVE  past'.own = past.own /\ past'.touched = past.touched /\ past'.loose = past.loose
<1>1. \/ past' = past \/ Fault \/ past' = Ordered \/ past' = [Ordered EXCEPT !.faults = @ + 1]
  BY DEF Serve, ServeWrite, ServeRead, ServeOrder, ServeConfirm
<1> QED BY <1>1 DEF Shapes, History, Fault, Ordered

\* A write that is served: it took the lines, if they are still the user's.
LEMMA ServeWriteCart ==
    ASSUME CartInv, NEW c \in wire, Serve(c), ServeWrite(c)
    PROVE  LeftAlone' /\ Untouched'
<1>1. IInv /\ Shapes /\ LeftAlone /\ Untouched /\ ServerShape
  BY DEF CartInv, IInv
<1>2. /\ UNCHANGED <<lines, base, sync, order>> /\ c.state = "sent"
      /\ past'.own = past.own /\ past'.touched = past.touched /\ past'.loose = past.loose
  BY <1>1, ServeHistory DEF Serve, loop
<1>3. PICK state, cart, bill :
        /\ Answered(c, state, cart, bill) /\ state \in {"ok", "error"}
        /\ \/ server' = [server EXCEPT !.lines = c.cart]
           \/ server' = server /\ state = "error"
  BY DEF ServeWrite, Error
<1>4. PICK d : wire' = (wire \ {c}) \cup {d} /\ d.kind = c.kind /\ d.state = state
  BY <1>1, <1>3, AnswerSays
<1>5. server'.lines = c.cart \/ (server'.lines = server.lines /\ d.state = "error")
  BY <1>1, <1>3, <1>4 DEF ServerShape
<1>6. ~past.loose => c.kind = "write" /\ UnderWay({"write"}) = {c}
  BY <1>1 DEF IInv, SingleFlight, OldIsLoose, UnderWay, ServeWrite
<1>7. ~past.loose => UnderWay({"write"})' = {d}
  BY <1>4, <1>6 DEF UnderWay
<1>8. LeftAlone'
  <2> SUFFICES ASSUME past'.own, ~past'.loose, ~sync'.pending, UnderWay({"cod", "confirm"})' = {}
               PROVE  /\ UnderWay({"write"})' = {} => server'.lines = lines'
                      /\ \A w \in UnderWay({"write"})' : /\ w.state = "sent" => w.cart = lines'
                                                         /\ w.state = "ok" => server'.lines = lines'
    BY DEF LeftAlone
  <2>1. UnderWay({"cod", "confirm"}) = {}
    BY <1>4, <1>6, <1>2 DEF UnderWay
  <2>2. c.cart = lines
    BY <2>1, <1>1, <1>2, <1>6 DEF LeftAlone
  <2> QED BY <2>2, <1>2, <1>3, <1>4, <1>5, <1>7
<1>9. Untouched'
  <2> SUFFICES ASSUME ~past.touched, ~past.loose PROVE (YesHolds /\ OrderHolds)'
    BY <1>2 DEF Untouched
  <2>1. YesHolds /\ OrderHolds /\ c \in UnderWay({"write"})
    BY <1>1, <1>6 DEF Untouched
  <2>2. \A kinds : "write" \notin kinds => UnderWay(kinds)' = UnderWay(kinds)
    BY <1>4, <1>6 DEF UnderWay
  <2>3. YesHolds'
    <3> SUFFICES ASSUME order.placePending
                 PROVE  /\ UnderWay({"upi", "cod", "pull"})' = {}
                        /\ lines' \in OrEmpty(order.approved)
                        /\ \A w \in UnderWay({"write"})' :
                              /\ w.state = "sent" => w.cart \in OrEmpty(order.approved)
                              /\ w.state = "ok" => server'.lines \in OrEmpty(order.approved)
      BY <1>2 DEF YesHolds, OrEmpty, Empty
    <3>1. /\ UnderWay({"upi", "cod", "pull"}) = {} /\ lines \in OrEmpty(order.approved)
          /\ c.cart \in OrEmpty(order.approved)
      BY <2>1, <1>2 DEF YesHolds
    <3> QED BY <3>1, <2>2, <1>2, <1>3, <1>4, <1>5, <1>7
  <2>4. OrderHolds'
    <3> SUFFICES ASSUME NEW e \in Opens'
                 PROVE  /\ UnderWay({"pull"})' = {}
                        /\ lines' \in OrEmpty(e.cart) /\ server'.lines \in OrEmpty(e.cart)
                        /\ base'.set => base'.lines \in OrEmpty(e.cart)
                        /\ \A w \in UnderWay({"write"})' : w.state = "sent" => w.cart \in OrEmpty(e.cart)
      BY DEF OrderHolds, OrEmpty, Empty
    <3>1. e \in Opens
      BY <1>4, <1>6 DEF Opens, Open
    <3>2. /\ UnderWay({"pull"}) = {}
          /\ lines \in OrEmpty(e.cart) /\ server.lines \in OrEmpty(e.cart) /\ c.cart \in OrEmpty(e.cart)
          /\ base.set => base.lines \in OrEmpty(e.cart)
      BY <2>1, <3>1, <1>2 DEF OrderHolds
    <3> QED BY <3>2, <2>2, <1>2, <1>3, <1>4, <1>5, <1>7
  <2> QED BY <2>3, <2>4
<1> QED BY <1>8, <1>9

\* A read that is served.
LEMMA ServeReadCart ==
    ASSUME CartInv, NEW c \in wire, Serve(c), ServeRead(c)
    PROVE  LeftAlone' /\ Untouched'
<1>1. IInv /\ Shapes /\ LeftAlone /\ Untouched
  BY DEF CartInv, IInv
<1>2. /\ UNCHANGED <<lines, base, sync, order, server>> /\ c.kind \in {"load", "pull"}
      /\ past'.own = past.own /\ past'.touched = past.touched /\ past'.loose = past.loose
  BY <1>1, ServeHistory DEF Serve, ServeRead, loop
<1>3. PICK d : wire' = (wire \ {c}) \cup {d} /\ d.kind = c.kind
  <2>1. \E state, cart, bill : Answered(c, state, cart, bill)
    BY DEF ServeRead, Error
  <2> QED BY <1>1, <2>1, AnswerSays
<1>4. /\ \A e \in {d} : e.kind # "write"
      /\ \A e \in UnderWay({"write", "cod", "confirm"}) : e \in {c} => e.kind = "write" /\ e.state = "ok"
  BY <1>2, <1>3 DEF UnderWay
<1>5. LeftAlone'
  BY <1>1, <1>2, <1>3, <1>4, LeftAsItWas
<1>6. UnderWay({"upi", "cod"})' = UnderWay({"upi", "cod"}) /\ Opens' = Opens
      /\ UnderWay({"write"})' = UnderWay({"write"})
      /\ (UnderWay({"pull"}) = {} => UnderWay({"pull"})' = {})
      /\ (UnderWay({"upi", "cod", "pull"}) = {} => UnderWay({"upi", "cod", "pull"})' = {})
  BY <1>2, <1>3 DEF UnderWay, Opens, Open
<1>7. Untouched'
  BY <1>1, <1>2, <1>6 DEF Untouched, YesHolds, OrderHolds, OrEmpty, Empty
<1> QED BY <1>5, <1>7

\* An order that is served, and the confirmation of one: at most they empty the cart.
LEMMA ServeOrderCart ==
    ASSUME CartInv, NEW c \in wire, Serve(c), ServeOrder(c) \/ ServeConfirm(c)
    PROVE  LeftAlone' /\ Untouched'
<1>1. IInv /\ Shapes /\ LeftAlone /\ Untouched /\ ServerShape
  BY DEF CartInv, IInv
<1>2. /\ UNCHANGED <<lines, base, sync, order>> /\ c.kind \in {"upi", "cod", "confirm"} /\ c.state = "sent"
      /\ past'.own = past.own /\ past'.touched = past.touched /\ past'.loose = past.loose
  BY <1>1, ServeHistory DEF Serve, ServeOrder, ServeConfirm, loop
<1>3. PICK state, cart, bill :
        /\ Answered(c, state, cart, bill)
        /\ state \in {"ok", "error"} \/ (state = "noqr" /\ cart = c.cart)
  BY DEF ServeOrder, ServeConfirm, Error
<1>4. PICK d : wire' = (wire \ {c}) \cup {d} /\ d.kind = c.kind /\ d.state = state /\ d.cart = cart
  BY <1>1, <1>3, AnswerSays
<1>5. server' \in {server, [server EXCEPT !.lines = Empty]} /\ (c.kind = "upi" => server' = server)
  BY DEF ServeOrder, ServeConfirm
<1>6. server'.lines \in OrEmpty(server.lines)
  BY <1>1, <1>5 DEF ServerShape, OrEmpty
<1>7. LeftAlone'
  <2>1. CASE c.kind = "upi"
    <3>1. /\ \A e \in {d} : e.kind # "write"
          /\ \A e \in UnderWay({"write", "cod", "confirm"}) : e \in {c} => e.kind = "write" /\ e.state = "ok"
      BY <1>4, <2>1 DEF UnderWay
    <3> QED BY <1>1, <1>2, <1>4, <1>5, <2>1, <3>1, LeftAsItWas
  <2>2. CASE c.kind \in {"cod", "confirm"}
    <3>1. UnderWay({"cod", "confirm"})' # {}
      BY <1>4, <2>2 DEF UnderWay
    <3> QED BY <3>1 DEF LeftAlone
  <2> QED BY <1>2, <2>1, <2>2
<1>8. Untouched'
  <2> SUFFICES ASSUME ~past.touched, ~past.loose PROVE (YesHolds /\ OrderHolds)'
    BY <1>2 DEF Untouched
  <2>1. YesHolds /\ OrderHolds
    BY <1>1 DEF Untouched
  <2>2. lines' \in OrEmpty(lines)
    BY <1>2 DEF OrEmpty
  <2>3. YesHolds'
    <3>1. CASE c.kind \in {"upi", "cod"}
      <4>1. ~order.placePending
        BY <2>1, <3>1 DEF YesHolds, UnderWay
      <4> QED BY <4>1, <1>2 DEF YesHolds
    <3>2. CASE c.kind = "confirm"
      <4>1. \A e \in {d} : /\ e.kind \notin {"upi", "cod", "pull"}
                           /\ e.kind = "write" => e.state = "sent" /\ e.cart \in {lines, lines'}
        BY <1>4, <3>2
      <4> QED BY <4>1, <1>2, <1>4, <1>6, <2>1, <2>2, YesKept
    <3> QED BY <1>2, <3>1, <3>2
  <2>4. OrderHolds'
    <3>1. Open(d) => c \in Opens /\ c.cart = d.cart
      BY <1>2, <1>3, <1>4 DEF Opens, Open
    <3>2. \A e \in {d} : /\ e.kind # "pull"
                         /\ Open(e) => \E f \in Opens : f.cart = e.cart
                         /\ e.kind = "write" => e.state = "sent" /\ e.cart \in {lines, lines'}
      BY <1>2, <1>4, <3>1
    <3> QED BY <1>2, <1>4, <1>6, <2>1, <2>2, <3>2, OrderKept
  <2> QED BY <2>3, <2>4
<1> QED BY <1>7, <1>8

-----------------------------------------------------------------------------
(* The theorems of part 2 *)

LEMMA ServerKeepsShape == ASSUME ServerShape, [Next]_vars PROVE ServerShape'
<1>1. \/ server' = server
      \/ \E cart : server' = [server EXCEPT !.lines = cart]
      \/ \E surge : server' = [server EXCEPT !.surge = surge]
      \/ \E out : server' = [server EXCEPT !.out = out]
  <2>1. CASE UNCHANGED vars
    BY <2>1 DEF vars
  <2>2. CASE Key
    BY <2>2 DEF Key, Add, Dec, Replace, Inc, Reduce, ToCheckout, Enter, Yes, No, DropPayment, Home, Leave
  <2>3. CASE Settle \/ Move \/ PaymentPolled
    BY <2>3 DEF Settle, Move, PaymentPolled
  <2>4. ASSUME NEW c \in wire, Serve(c) PROVE \E cart : server' = server \/ server' = [server EXCEPT !.lines = cart]
    BY <2>4 DEF Serve, ServeWrite, ServeRead, ServeOrder, ServeConfirm
  <2>5. ASSUME NEW c \in wire, Answer(c) PROVE server' = server
    BY <2>5 DEF Answer, SyncFailed, Synced, CartLoaded, CartPulled, UPIPlaced, OrderPlaced
  <2> QED BY <2>1, <2>2, <2>3, <2>4, <2>5 DEF Next
<1> QED BY <1>1 DEF ServerShape

LEMMA NextCart == CartInv /\ [Next]_vars => CartInv'
<1> SUFFICES ASSUME CartInv, [Next]_vars PROVE CartInv'
  OBVIOUS
<1>1. IInv' /\ ServerShape'
  BY NextStep, ServerKeepsShape DEF CartInv
<1>2. CASE UNCHANGED vars
  BY <1>1, <1>2 DEF vars, CartInv, LeftAlone, Untouched, YesHolds, OrderHolds, Opens, Open, UnderWay, OrEmpty, Empty
<1>3. CASE Key
  BY <1>1, <1>3, ArmCart, ReplaceCart, ReduceCart, ToCheckoutCart, EnterCart, YesCart, WalkCart, LeaveCart
  DEF Key, CartInv
<1>4. CASE Settle \/ Move \/ PaymentPolled
  BY <1>1, <1>4, SettleCart, WalkCart, PolledCart DEF CartInv
<1>5. ASSUME NEW c \in wire, Serve(c) PROVE CartInv'
  BY <1>1, <1>5, ServeWriteCart, ServeReadCart, ServeOrderCart DEF CartInv, Serve
<1>6. ASSUME NEW c \in wire, Answer(c) PROVE CartInv'
  BY <1>1, <1>6, SyncedCart, RolledCart, ReadCart, UPIPlacedCart DEF CartInv, Answer
<1> QED BY <1>2, <1>3, <1>4, <1>5, <1>6 DEF Next

LEMMA CartInvariance == Spec => []CartInv
  BY CartInit, NextCart, PTL DEF Spec

\* Once the writes have come to rest, Swiggy's cart is what the user's last edit left:
\* through any interleaving of keys, ticks, chased writes and late answers, as long as
\* the loop itself has not replaced the lines (a rollback, the launch pull, an order).
THEOREM CartsConverge == Spec => []Converged
<1>1. CartInv => Converged
  <2> SUFFICES ASSUME CartInv, Quiet, past.own, ~past.loose PROVE server.lines = lines
    BY DEF Converged
  <2>1. UnderWay({"write"}) = {} /\ UnderWay({"cod", "confirm"}) = {} /\ ~sync.pending
    BY DEF Quiet, UnderWay
  <2> QED BY <2>1 DEF CartInv, LeftAlone
<1> QED BY <1>1, CartInvariance, PTL

\* Only Swiggy makes orders, and only of an order request.
LEMMA OrdersBySwiggy ==
    ASSUME Shapes, [Next]_vars
    PROVE  past'.orders = past.orders \/ \E c \in wire : Serve(c) /\ ServeOrder(c)
<1>1. CASE UNCHANGED vars
  BY <1>1 DEF vars
<1>2. CASE Key
  <2>1. Disowned.orders = past.orders /\ (Edited => past'.orders = past.orders)
    BY DisownedShape, EditedShape
  <2>2. CASE \E i \in Items : Reduce(i)
    BY <2>2 DEF Reduce, Shapes, History
  <2>3. CASE Yes
    BY <2>1, <2>3 DEF Yes, Shapes, History
  <2>4. CASE Leave
    <3>1. Disowned \in History
      BY DisownedShape
    <3> QED BY <2>1, <2>4, <3>1 DEF Leave, History
  <2>5. CASE ToCheckout \/ Enter \/ No \/ DropPayment \/ Home
    BY <2>1, <2>5 DEF ToCheckout, Enter, No, DropPayment, Home
  <2>6. CASE \E i \in Items : Add(i) \/ Dec(i) \/ Replace(i) \/ Inc(i)
    BY <2>1, <2>6 DEF Add, Dec, Replace, Inc
  <2> QED BY <1>2, <2>2, <2>3, <2>4, <2>5, <2>6 DEF Key
<1>3. CASE Settle \/ PaymentPolled
  BY <1>3, DisownedShape DEF Settle, PaymentPolled
<1>4. CASE Move
  BY <1>4, FaultShape DEF Move
<1>5. ASSUME NEW c \in wire, Answer(c) PROVE past'.orders = past.orders
  BY <1>5, DisownedShape DEF Answer, SyncFailed, Synced, CartLoaded, CartPulled, UPIPlaced, OrderPlaced
<1>6. ASSUME NEW c \in wire, Serve(c), ~ServeOrder(c) PROVE past'.orders = past.orders
  BY <1>6, FaultShape DEF Serve, ServeWrite, ServeRead, ServeConfirm, Error
<1> QED BY <1>1, <1>2, <1>3, <1>4, <1>5, <1>6 DEF Next

\* What Swiggy orders is what the user approved, if the user leaves the cart alone from
\* the yes to the order: whatever fails, is chased, comes late or is rolled back.
THEOREM OrdersAreApproved == Spec => OrderedAsApproved
<1>1. ASSUME CartInv, [Next]_vars
      PROVE  past'.orders > past.orders =>
                \E c \in UnderWay({"upi", "cod"}) :
                    /\ c.state = "sent" /\ c \notin wire'
                    /\ past.touched \/ past.loose \/ c.cart = server.lines
  <2> SUFFICES ASSUME past'.orders > past.orders
               PROVE  \E c \in UnderWay({"upi", "cod"}) :
                        /\ c.state = "sent" /\ c \notin wire'
                        /\ past.touched \/ past.loose \/ c.cart = server.lines
    BY <1>1
  <2>1. Shapes /\ past.orders \in Nat /\ Untouched
    BY <1>1 DEF CartInv, IInv, Shapes, History
  <2>2. ~(past'.orders = past.orders)
    BY <2>1
  <2>3. PICK c \in wire : Serve(c) /\ ServeOrder(c)
    BY <1>1, <2>1, <2>2, OrdersBySwiggy
  <2>4. c \in UnderWay({"upi", "cod"}) /\ c.state = "sent" /\ c \in Opens
    BY <2>3 DEF Serve, ServeOrder, UnderWay, Opens, Open
  <2>5. Orderable /\ \E state, cart, bill : Answered(c, state, cart, bill) /\ state \in {"ok", "error"}
    <3>1. ~UNCHANGED past /\ ~(Fault /\ UNCHANGED server)
      BY <2>1, <2>2, FaultShape DEF Fault, Shapes, History
    <3> QED BY <2>3, <3>1 DEF ServeOrder, Error
  <2>6. c \notin wire'
    BY <2>1, <2>4, <2>5, AnswerSays
  <2>7. ~past.touched /\ ~past.loose => c.cart = server.lines
    BY <2>1, <2>4, <2>5 DEF Untouched, OrderHolds, OrEmpty, Orderable
  <2> QED BY <2>4, <2>6, <2>7
<1>2. CartInv /\ [Next]_vars =>
        [LET Approved(c) == past.touched \/ past.loose \/ c.cart = server.lines IN OrderStep(Approved)]_vars
  BY <1>1 DEF OrderStep
<1> QED BY <1>2, CartInvariance, PTL DEF Spec, OrderedAsApproved
=============================================================================
