-------------------------- MODULE Placement_proofs --------------------------
(***************************************************************************)
(* A call places at most one order, never reports an older one as its own, *)
(* and overlooks none that both reads around it show, for any number of    *)
(* calls and of orders from elsewhere, whatever the network does with its  *)
(* requests. What the command line announces stands at Swiggy, for any     *)
(* number of presets, keys, faults and edits on other devices. The lines   *)
(* of the Instamart cart are what Swiggy holds, and the gate of its writes *)
(* tells the truth; what Swiggy orders of them is what the user approved.  *)
(* The wizard is answered, shows what fits, adds what Swiggy accepted and  *)
(* leaves nothing of a draft behind, for any menu. All of it keeps its     *)
(* types.                                                                  *)
(***************************************************************************)
EXTENDS MCPlacement, FoldLemmas

Records ==
    [pc : {"idle", "before", "place", "placing", "after", "done"}, kind : Kinds,
     known : SUBSET Nat, read : BOOLEAN, blind : BOOLEAN,
     outcome : Outcomes \cup {"none"}, result : {"none", "placed", "failed"},
     id : Nat, first : Nat, seen : SUBSET Nat]

\* Before its request is sent, and while it is under way, a call has placed no order.
Unplaced(c) == \A i \in Ids : orders[i] # c

RequestInv(c) ==
    /\ c \in wire => Unplaced(c)
    /\ At(c, "idle") \/ At(c, "before") \/ At(c, "place") => c \notin wire /\ Unplaced(c)
    /\ \A i, j \in Ids : orders[i] = c /\ orders[j] = c => i = j

\* A first read that worked knows every order from before the call; the second is only
\* made after such a first.
ReadInv(c) ==
    /\ call[c].first <= Len(orders) + 1
    /\ call[c].read => \A i \in Nat : 1 <= i /\ i < call[c].first => i \in call[c].known
    /\ At(c, "after") => call[c].read

ResultInv(c) ==
    call[c].result = "placed" =>
        /\ call[c].id \in Ids
        /\ orders[call[c].id] = c \/ call[c].id >= call[c].first

IInv ==
    /\ orders \in Seq(Calls \cup {Other})
    /\ wire \subseteq Calls
    /\ call \in [Calls -> Records]
    /\ \A c \in Calls : RequestInv(c) /\ ReadInv(c) /\ ResultInv(c)

-----------------------------------------------------------------------------

LEMMA AtMostOne ==
    ASSUME NEW c, \A i, j \in Ids : orders[i] = c /\ orders[j] = c => i = j
    PROVE  Cardinality(PlacedBy(c)) <= 1
<1>1. CASE PlacedBy(c) = {}
  BY <1>1, FS_EmptySet
<1>2. CASE PlacedBy(c) # {}
  <2>1. PICK i \in PlacedBy(c) : TRUE
    BY <1>2
  <2>2. PlacedBy(c) = {i}
    BY <2>1 DEF PlacedBy
  <2>3. Cardinality({i}) = 1
    BY FS_Singleton
  <2> QED BY <2>2, <2>3
<1> QED BY <1>1, <1>2

\* A new order changes nothing for the calls that did not place it.
LEMMA OrderAdded ==
    ASSUME IInv, NEW o \in Calls \cup {Other}, orders' = Append(orders, o),
           UNCHANGED call, wire' \subseteq wire, o \notin wire',
           o \in Calls => o \in wire
    PROVE  IInv'
<1> USE OtherAssumption
<1> DEFINE n == Len(orders)
<1>1. /\ orders \in Seq(Calls \cup {Other}) /\ orders' \in Seq(Calls \cup {Other})
      /\ n \in Nat /\ Ids = 1..n /\ Ids' = 1..(n + 1) /\ Len(orders') = n + 1
      /\ \A i \in 1..n : orders'[i] = orders[i]
      /\ orders'[n + 1] = o
  BY DEF IInv, Ids
<1>2. ASSUME NEW c \in Calls PROVE RequestInv(c)'
  <2>1. RequestInv(c)
    BY DEF IInv
  <2>2. CASE o = c
    <3>1. Unplaced(c) /\ c \notin wire' /\ ~(At(c, "idle") \/ At(c, "before") \/ At(c, "place"))
      BY <2>1, <2>2 DEF RequestInv
    <3> QED BY <3>1, <2>2, <1>1 DEF RequestInv, Unplaced, At
  <2>3. CASE o # c
    BY <2>1, <2>3, <1>1 DEF RequestInv, Unplaced, At
  <2> QED BY <2>2, <2>3
<1>3. ASSUME NEW c \in Calls PROVE ReadInv(c)' /\ ResultInv(c)'
  <2>1. ReadInv(c) /\ ResultInv(c) /\ call[c] \in Records
    BY DEF IInv
  <2>2. call[c].first \in Nat
    BY <2>1 DEF Records
  <2> QED BY <1>1, <2>1, <2>2 DEF ReadInv, ResultInv, At
<1> QED BY <1>1, <1>2, <1>3 DEF IInv

\* A step of one call leaves what is known of the others.
LEMMA OthersKept ==
    ASSUME IInv, NEW c \in Calls, UNCHANGED orders,
           wire' \subseteq Calls, \A d \in Calls \ {c} : d \in wire' <=> d \in wire,
           NEW r \in Records, call' = [call EXCEPT ![c] = r],
           RequestInv(c)', ReadInv(c)', ResultInv(c)'
    PROVE  IInv'
<1>1. call' \in [Calls -> Records]
  BY DEF IInv
<1>2. ASSUME NEW d \in Calls, d # c PROVE RequestInv(d)' /\ ReadInv(d)' /\ ResultInv(d)'
  <2>1. call'[d] = call[d] /\ RequestInv(d) /\ ReadInv(d) /\ ResultInv(d)
    BY <1>2 DEF IInv
  <2> QED BY <1>2, <2>1 DEF RequestInv, ReadInv, ResultInv, Unplaced, At, Ids
<1> QED BY <1>1, <1>2 DEF IInv


\* What a call's record is when it returns.
LEMMA ReturnedTyped ==
    ASSUME NEW e \in Records, NEW result \in {"placed", "failed"}, NEW id \in Nat
    PROVE  /\ Returned(e, result, id) \in Records
           /\ Returned(e, result, id).pc = "done"
           /\ Returned(e, result, id).result = result
           /\ Returned(e, result, id).id = id
           /\ Returned(e, result, id).first = e.first
           /\ Returned(e, result, id).read = e.read
           /\ Returned(e, result, id).known = e.known
<1>1. Ids \in SUBSET Nat
  BY DEF Ids
<1> QED BY <1>1 DEF Returned, Records

LEMMA BeginSafe ==
    ASSUME IInv, NEW c \in Calls, BeginCash(c) \/ BeginUPI(c)
    PROVE  IInv'
<1> USE ArmingAssumption
<1>1. PICK kind \in Kinds, pc \in {"before", "place"} : Begin(c, kind, pc)
  BY DEF BeginCash, BeginUPI, Kinds
<1> DEFINE a == [Fresh EXCEPT !.kind = kind, !.first = Len(orders) + 1]
           r == IF LiveOrders THEN [a EXCEPT !.pc = pc] ELSE Returned(a, "failed", 0)
<1>2. /\ orders \in Seq(Calls \cup {Other}) /\ Len(orders) \in Nat /\ Ids \in SUBSET Nat
      /\ call \in [Calls -> Records]
  BY DEF IInv, Ids
<1>3. a \in Records /\ a.read = FALSE /\ a.first = Len(orders) + 1 /\ a.result = "none"
  <2>1. Fresh \in Records /\ Fresh.read = FALSE /\ Fresh.result = "none"
    BY DEF Fresh, Records, Kinds
  <2>2. Len(orders) + 1 \in Nat
    BY <1>2
  <2> QED BY <1>1, <2>1, <2>2 DEF Records
<1> HIDE DEF a
<1>4. /\ r \in Records /\ r.read = FALSE /\ r.first = Len(orders) + 1
      /\ r.result # "placed" /\ r.pc \in {"before", "place", "done"}
  <2>1. CASE LiveOrders
    BY <2>1, <1>1, <1>3 DEF Records
  <2>2. CASE ~LiveOrders
    BY <2>2, <1>3, ReturnedTyped
  <2> QED BY <2>1, <2>2
<1>5. call' = [call EXCEPT ![c] = r] /\ UNCHANGED <<orders, wire>> /\ At(c, "idle")
  BY <1>1 DEF Begin, a
<1> HIDE DEF r
<1>6. call'[c] = r
  BY <1>2, <1>5
<1>7. RequestInv(c)'
  BY <1>4, <1>5, <1>6 DEF IInv, RequestInv, Unplaced, At, Ids
<1>8. ReadInv(c)' /\ ResultInv(c)'
  BY <1>2, <1>4, <1>5, <1>6 DEF ReadInv, ResultInv, At
<1> QED BY <1>4, <1>5, <1>7, <1>8, OthersKept DEF IInv

LEMMA ReadSafe ==
    ASSUME IInv, NEW c \in Calls,
           SnapshotBefore(c) \/ \E auth \in BOOLEAN : SnapshotFails(c, auth)
    PROVE  IInv'
<1>1. /\ orders \in Seq(Calls \cup {Other}) /\ Len(orders) \in Nat /\ Ids = 1..Len(orders)
      /\ Ids \in SUBSET Nat /\ call \in [Calls -> Records] /\ call[c] \in Records
      /\ RequestInv(c) /\ ReadInv(c) /\ ResultInv(c)
  BY DEF IInv, Ids
<1>2. At(c, "before") /\ UNCHANGED <<orders, wire>>
  BY DEF SnapshotBefore, SnapshotFails
<1> DEFINE q1 == [call[c] EXCEPT !.pc = "place", !.known = Ids, !.read = TRUE]
           q2 == Returned(call[c], "failed", 0)
           q3 == [call[c] EXCEPT !.pc = "place", !.blind = TRUE]
<1>3. \E r \in {q1, q2, q3} : call' = [call EXCEPT ![c] = r]
  BY <1>1 DEF SnapshotBefore, SnapshotFails, Return, Records
<1>4. PICK r \in {q1, q2, q3} : call' = [call EXCEPT ![c] = r]
  BY <1>3
<1> DEFINE Good(q) == /\ q \in Records /\ q.first = call[c].first /\ q.pc \in {"place", "done"}
                      /\ q.result = "placed" => q.result = call[c].result /\ q.id = call[c].id
                      /\ q.read => q.known = Ids \/ (call[c].read /\ q.known = call[c].known)
<1>5. Good(r)
  <2>1. Good(q1)
    BY <1>1 DEF Records
  <2>2. Good(q2)
    <3>1. /\ q2 \in Records /\ q2.pc = "done" /\ q2.first = call[c].first /\ q2.read = call[c].read
          /\ q2.known = call[c].known /\ q2.result = "failed"
      BY <1>1, ReturnedTyped
    <3> HIDE DEF q2
    <3> QED BY <3>1
  <2>3. Good(q3)
    BY <1>1 DEF Records
  <2> QED BY <1>4, <2>1, <2>2, <2>3
<1>8. call'[c] = r
  BY <1>1, <1>4
<1> HIDE DEF q1, q2, q3
<1>9. RequestInv(c)'
  BY <1>1, <1>2, <1>5, <1>8 DEF RequestInv, Unplaced, At, Ids
<1>10. ReadInv(c)'
  <2>1. call[c].first \in Nat /\ call[c].first <= Len(orders) + 1
    BY <1>1 DEF ReadInv, Records
  <2> QED BY <2>1, <1>1, <1>2, <1>5, <1>8 DEF ReadInv, At
<1>11. ResultInv(c)'
  BY <1>1, <1>2, <1>5, <1>8 DEF ResultInv, Ids
<1> QED BY <1>2, <1>4, <1>5, <1>9, <1>10, <1>11, OthersKept DEF IInv

LEMMA PlaceSafe ==
    ASSUME IInv, NEW c \in Calls, Place(c)
    PROVE  IInv'
<1> DEFINE r == [call[c] EXCEPT !.pc = "placing"]
<1>1. /\ call \in [Calls -> Records] /\ call[c] \in Records /\ wire \subseteq Calls
      /\ RequestInv(c) /\ ReadInv(c) /\ ResultInv(c)
  BY DEF IInv
<1>2. call' = [call EXCEPT ![c] = r] /\ orders' = orders /\ wire' = wire \cup {c} /\ At(c, "place")
  BY <1>1 DEF Place
<1>3. r \in Records /\ call'[c] = r
  BY <1>1, <1>2 DEF Records
<1>4. /\ r.pc = "placing" /\ r.first = call[c].first /\ r.read = call[c].read
      /\ r.known = call[c].known /\ r.result = call[c].result /\ r.id = call[c].id
  BY <1>1 DEF Records
<1> HIDE DEF r
<1>5. RequestInv(c)' /\ ReadInv(c)' /\ ResultInv(c)'
  BY <1>1, <1>2, <1>3, <1>4 DEF RequestInv, ReadInv, ResultInv, Unplaced, At, Ids
<1> QED BY <1>1, <1>2, <1>3, <1>5, OthersKept

LEMMA ReturnSafe ==
    ASSUME IInv, NEW c \in Calls, NEW o \in Outcomes, CashReturns(c, o) \/ UPIReturns(c, o)
    PROVE  IInv'
<1> DEFINE e == [call[c] EXCEPT !.outcome = o]
           q1 == [e EXCEPT !.pc = "after"]
           q2 == Returned(e, "failed", 0)
<1>1. /\ orders \in Seq(Calls \cup {Other}) /\ Len(orders) \in Nat /\ Ids = 1..Len(orders)
      /\ Ids \in SUBSET Nat /\ call \in [Calls -> Records] /\ call[c] \in Records
      /\ RequestInv(c) /\ ReadInv(c) /\ ResultInv(c) /\ wire \subseteq Calls
  BY DEF IInv, Ids
<1>2. /\ At(c, "placing") /\ orders' = orders /\ wire' \subseteq wire
      /\ \A d \in Calls \ {c} : d \in wire' <=> d \in wire
  BY DEF CashReturns, UPIReturns, EndRequest
<1>3. \/ \E i \in PlacedBy(c) : call' = [call EXCEPT ![c] = Returned(e, "placed", i)]
      \/ call' = [call EXCEPT ![c] = q2]
      \/ call[c].read /\ call' = [call EXCEPT ![c] = q1]
  BY DEF CashReturns, UPIReturns, Placed, Ended, Verifies
<1>4. /\ e \in Records /\ e.first = call[c].first /\ e.read = call[c].read
      /\ e.known = call[c].known /\ e.result = call[c].result /\ e.id = call[c].id
  BY <1>1 DEF Records
<1> HIDE DEF e
<1>5. CASE \E i \in PlacedBy(c) : call' = [call EXCEPT ![c] = Returned(e, "placed", i)]
  <2>1. PICK i \in PlacedBy(c) : call' = [call EXCEPT ![c] = Returned(e, "placed", i)]
    BY <1>5
  <2> DEFINE r == Returned(e, "placed", i)
  <2>2. i \in Ids /\ i \in Nat /\ orders[i] = c
    BY <1>1, <2>1 DEF PlacedBy
  <2>3. /\ r \in Records /\ r.pc = "done" /\ r.first = call[c].first /\ r.read = call[c].read
        /\ r.known = call[c].known /\ r.id = i
    BY <1>1, <1>4, <2>2 DEF Returned, Records
  <2>4. call'[c] = r
    BY <1>1, <2>1
  <2> HIDE DEF r
  <2>5. RequestInv(c)' /\ ReadInv(c)' /\ ResultInv(c)'
    BY <1>1, <1>2, <2>2, <2>3, <2>4 DEF RequestInv, ReadInv, ResultInv, Unplaced, At, Ids
  <2> QED BY <1>1, <1>2, <2>1, <2>3, <2>5, OthersKept DEF r
<1>6. CASE call' = [call EXCEPT ![c] = q2]
  <2>1. /\ q2 \in Records /\ q2.pc = "done" /\ q2.first = call[c].first /\ q2.read = call[c].read
        /\ q2.known = call[c].known /\ q2.result = "failed"
    BY <1>1, <1>4 DEF Returned, Records
  <2>2. call'[c] = q2
    BY <1>1, <1>6
  <2> HIDE DEF q2
  <2>3. RequestInv(c)' /\ ReadInv(c)' /\ ResultInv(c)'
    BY <1>1, <1>2, <2>1, <2>2 DEF RequestInv, ReadInv, ResultInv, Unplaced, At, Ids
  <2> QED BY <1>1, <1>2, <1>6, <2>1, <2>3, OthersKept
<1>7. CASE call[c].read /\ call' = [call EXCEPT ![c] = q1]
  <2>1. /\ q1 \in Records /\ q1.pc = "after" /\ q1.first = call[c].first /\ q1.read = call[c].read
        /\ q1.known = call[c].known /\ q1.result = call[c].result /\ q1.id = call[c].id
    BY <1>4 DEF Records
  <2>2. call'[c] = q1
    BY <1>1, <1>7
  <2> HIDE DEF q1
  <2>3. RequestInv(c)' /\ ReadInv(c)' /\ ResultInv(c)'
    BY <1>1, <1>2, <1>7, <2>1, <2>2 DEF RequestInv, ReadInv, ResultInv, Unplaced, At, Ids
  <2> QED BY <1>1, <1>2, <1>7, <2>1, <2>3, OthersKept
<1> QED BY <1>3, <1>5, <1>6, <1>7

LEMMA RecoverSafe ==
    ASSUME IInv, NEW c \in Calls, Recover(c) \/ RecoverNothing(c) \/ RecoverFails(c)
    PROVE  IInv'
<1> DEFINE q2 == Returned(call[c], "failed", 0)
           q3 == [Returned(call[c], "failed", 0) EXCEPT !.blind = TRUE]
<1>1. /\ orders \in Seq(Calls \cup {Other}) /\ Len(orders) \in Nat /\ Ids = 1..Len(orders)
      /\ Ids \in SUBSET Nat /\ call \in [Calls -> Records] /\ call[c] \in Records
      /\ RequestInv(c) /\ ReadInv(c) /\ ResultInv(c) /\ wire \subseteq Calls
  BY DEF IInv, Ids
<1>2. At(c, "after") /\ UNCHANGED <<orders, wire>>
  BY DEF Recover, RecoverNothing, RecoverFails
<1>3. CASE Recover(c)
  <2>1. PICK i \in Unknown(c) : call' = [call EXCEPT ![c] = Returned(call[c], "placed", i)]
    BY <1>1, <1>3 DEF Recover, Return
  <2> DEFINE r == Returned(call[c], "placed", i)
  <2>2. i \in Ids /\ i \in Nat /\ i >= 1 /\ i \notin call[c].known
    BY <1>1, <2>1 DEF Unknown
  <2>3. call[c].read /\ call[c].first \in Nat
    BY <1>1, <1>2 DEF ReadInv, Records
  <2>4. i >= call[c].first
    BY <1>1, <2>2, <2>3 DEF ReadInv
  <2>5. /\ r \in Records /\ r.pc = "done" /\ r.first = call[c].first /\ r.read = call[c].read
        /\ r.known = call[c].known /\ r.id = i
    BY <1>1, <2>2 DEF Returned, Records
  <2>6. call'[c] = r
    BY <1>1, <2>1
  <2> HIDE DEF r
  <2>7. RequestInv(c)' /\ ReadInv(c)' /\ ResultInv(c)'
    BY <1>1, <1>2, <2>2, <2>4, <2>5, <2>6 DEF RequestInv, ReadInv, ResultInv, Unplaced, At, Ids
  <2> QED BY <1>1, <1>2, <2>1, <2>5, <2>7, OthersKept DEF r
<1>4. CASE RecoverNothing(c) \/ RecoverFails(c)
  <2>1. PICK r \in {q2, q3} : call' = [call EXCEPT ![c] = r]
    BY <1>1, <1>4 DEF RecoverNothing, RecoverFails, Return
  <2>2. /\ r \in Records /\ r.pc = "done" /\ r.first = call[c].first /\ r.read = call[c].read
        /\ r.known = call[c].known /\ r.result = "failed"
    <3>1. q2 \in Records
      BY <1>1, ReturnedTyped
    <3> DEFINE f == Returned(call[c], "failed", 0)
    <3>2. /\ f \in Records /\ f.pc = "done" /\ f.first = call[c].first /\ f.read = call[c].read
          /\ f.known = call[c].known /\ f.result = "failed"
      BY <1>1, ReturnedTyped
    <3> HIDE DEF f
    <3>3. r = f \/ r = [f EXCEPT !.blind = TRUE]
      BY <2>1 DEF f
    <3> QED BY <3>2, <3>3 DEF Records
  <2>3. call'[c] = r
    BY <1>1, <2>1
  <2> HIDE DEF q2, q3
  <2>4. RequestInv(c)' /\ ReadInv(c)' /\ ResultInv(c)'
    BY <1>1, <1>2, <2>2, <2>3 DEF RequestInv, ReadInv, ResultInv, Unplaced, At, Ids
  <2> QED BY <1>1, <1>2, <2>1, <2>2, <2>4, OthersKept
<1> QED BY <1>3, <1>4

-----------------------------------------------------------------------------
(* The theorems *)

LEMMA InitInv == Init => IInv
<1> SUFFICES ASSUME Init PROVE IInv
  OBVIOUS
<1>1. Fresh \in Records
  BY DEF Fresh, Records, Kinds
<1> QED BY <1>1 DEF Init, IInv, RequestInv, ReadInv, ResultInv, Unplaced, At, Ids, Fresh

LEMMA NextInv == IInv /\ [Next]_vars => IInv'
<1> SUFFICES ASSUME IInv, [Next]_vars PROVE IInv'
  OBVIOUS
<1>1. ASSUME NEW c \in Calls, BeginCash(c) \/ BeginUPI(c) PROVE IInv'
  BY <1>1, BeginSafe
<1>2. ASSUME NEW c \in Calls, Step(c) PROVE IInv'
  BY <1>2, ReadSafe, PlaceSafe, ReturnSafe, RecoverSafe DEF Step
<1>3. ASSUME NEW c \in Calls, Lands(c) PROVE IInv'
  BY <1>3, OrderAdded DEF Lands
<1>4. ASSUME NEW c \in Calls, Dropped(c) PROVE IInv'
  BY <1>4 DEF Dropped, IInv, RequestInv, ReadInv, ResultInv, Unplaced, At, Ids
<1>5. CASE Foreign
  <2>1. wire' = wire /\ Other \notin wire'
    BY <1>5, OtherAssumption DEF Foreign, IInv
  <2> QED BY <1>5, <2>1, OrderAdded, OtherAssumption DEF Foreign
<1>6. CASE UNCHANGED vars
  BY <1>6 DEF vars, IInv, RequestInv, ReadInv, ResultInv, Unplaced, At, Ids
<1> QED BY <1>1, <1>2, <1>3, <1>4, <1>5, <1>6 DEF Next

\* The invariant of requests, reads and results holds in every reachable state.
THEOREM Invariance == Spec => []IInv
BY InitInv, NextInv, PTL DEF Spec

\* placeWithVerify and the UPI path place at most once per call (orders.go:144, payment.go:204).
THEOREM PlacesAtMostOnce == Spec => []OneOrderPerCall
<1>1. IInv => OneOrderPerCall
  BY AtMostOne DEF IInv, RequestInv, OneOrderPerCall
<1> QED BY <1>1, Invariance, PTL

\* An order that was there before the call is never reported as the one it placed
\* (orders.go:178).
THEOREM SuccessesAreReal == Spec => []SuccessIsReal
<1>1. IInv => SuccessIsReal
  BY DEF IInv, ResultInv, SuccessIsReal
<1> QED BY <1>1, Invariance, PTL

-----------------------------------------------------------------------------
(* What the two reads find *)

\* The first read of a call never shows its own order; what a call that returned had seen
\* stays; and a call that gives up on a doubtful answer has looked, or could not.
LooksInv(c) ==
    /\ call[c].known \subseteq Ids /\ \A i \in call[c].known : orders[i] # c
    /\ call[c].seen \subseteq Ids /\ call[c].id \in Ids \cup {0}
    /\ ~At(c, "done") => call[c].result = "none"
    /\ call[c].pc \in {"idle", "before", "place", "placing"} => call[c].outcome = "none"
    /\ call[c].pc \in {"place", "placing"} /\ call[c].kind = "cash" => call[c].read \/ call[c].blind
    /\ call[c].result = "failed" /\ call[c].kind = "cash" /\ ~call[c].blind
          /\ call[c].outcome \in {"drifted", "transient", "timeout"}
       => \A i \in call[c].seen : orders[i] # c

LookInv == \A c \in Calls : LooksInv(c)

\* A step of one call.
LEMMA OneLooks ==
    ASSUME IInv, LookInv, NEW c \in Calls, UNCHANGED orders,
           NEW r, call' = [call EXCEPT ![c] = r], LooksInv(c)'
    PROVE  LookInv'
<1>1. ASSUME NEW d \in Calls, d # c PROVE LooksInv(d)'
  <2>1. call'[d] = call[d] /\ LooksInv(d)
    BY <1>1 DEF IInv, LookInv
  <2> QED BY <2>1 DEF LooksInv, At, Ids
<1> QED BY <1>1 DEF LookInv

\* A new order.
LEMMA OrderLooks ==
    ASSUME IInv, LookInv, NEW o \in Calls \cup {Other}, orders' = Append(orders, o), UNCHANGED call
    PROVE  LookInv'
<1>1. /\ Len(orders) \in Nat /\ Ids = 1..Len(orders) /\ Ids' = 1..(Len(orders) + 1)
      /\ \A i \in Ids : orders'[i] = orders[i]
  BY DEF IInv, Ids
<1>2. Ids \subseteq Ids'
  BY <1>1
<1> QED BY <1>1, <1>2 DEF LookInv, LooksInv, At

\* A call that returns without an order id.
LEMMA GivesUp ==
    ASSUME IInv, LookInv, NEW c \in Calls, UNCHANGED orders, NEW e \in Records,
           e.known = call[c].known, e.kind = call[c].kind,
           call' = [call EXCEPT ![c] = Returned(e, "failed", 0)],
           \/ e.blind \/ e.kind # "cash" \/ e.outcome \notin {"drifted", "transient", "timeout"}
           \/ Ids \subseteq e.known
    PROVE  LookInv'
<1>1. call \in [Calls -> Records] /\ LooksInv(c)
  BY DEF IInv, LookInv
<1> DEFINE r == Returned(e, "failed", 0)
<1>2. /\ r.pc = "done" /\ r.result = "failed" /\ r.id = 0 /\ r.seen = Ids /\ r.known = e.known
      /\ r.kind = e.kind /\ r.blind = e.blind /\ r.outcome = e.outcome /\ r.read = e.read
  BY DEF Returned, Records
<1>3. call'[c] = r
  BY <1>1
<1> HIDE DEF r
<1>4. LooksInv(c)'
  BY <1>1, <1>2, <1>3 DEF LooksInv, At, Ids
<1> QED BY <1>4, OneLooks DEF r

\* A call that returns an order.
LEMMA Finds ==
    ASSUME IInv, LookInv, NEW c \in Calls, UNCHANGED orders, NEW e \in Records, NEW i \in Ids,
           e.known = call[c].known, call' = [call EXCEPT ![c] = Returned(e, "placed", i)]
    PROVE  LookInv'
<1>1. call \in [Calls -> Records] /\ LooksInv(c)
  BY DEF IInv, LookInv
<1> DEFINE r == Returned(e, "placed", i)
<1>2. r.pc = "done" /\ r.result = "placed" /\ r.id = i /\ r.seen = Ids /\ r.known = e.known
  BY DEF Returned, Records
<1>3. call'[c] = r
  BY <1>1
<1> HIDE DEF r
<1>4. LooksInv(c)'
  BY <1>1, <1>2, <1>3 DEF LooksInv, At, Ids
<1> QED BY <1>4, OneLooks DEF r

LEMMA BeginLooks ==
    ASSUME IInv, LookInv, NEW c \in Calls, BeginCash(c) \/ BeginUPI(c)
    PROVE  LookInv'
<1> USE ArmingAssumption
<1>1. PICK kind \in Kinds, pc \in {"before", "place"} :
        Begin(c, kind, pc) /\ (pc = "place" => kind # "cash")
  BY DEF BeginCash, BeginUPI, Kinds
<1> DEFINE a == [Fresh EXCEPT !.kind = kind, !.first = Len(orders) + 1]
           b == [a EXCEPT !.pc = pc]
<1>2. call \in [Calls -> Records] /\ UNCHANGED orders /\ LooksInv(c) /\ Len(orders) \in Nat
  BY <1>1 DEF IInv, LookInv, Begin
<1>3. a \in Records /\ a.outcome = "none" /\ a.result = "none" /\ a.known = {} /\ a.seen = {} /\ a.id = 0
      /\ a.kind = kind
  <2>1. Fresh \in Records /\ Fresh.outcome = "none" /\ Fresh.result = "none" /\ Fresh.known = {}
        /\ Fresh.seen = {} /\ Fresh.id = 0
    BY DEF Fresh, Records, Kinds
  <2>2. Len(orders) + 1 \in Nat
    BY <1>2
  <2> QED BY <1>1, <2>1, <2>2 DEF Records
<1>4. \/ call' = [call EXCEPT ![c] = b]
      \/ call' = [call EXCEPT ![c] = Returned(a, "failed", 0)]
  BY <1>1 DEF Begin
<1> HIDE DEF a
<1>5. CASE call' = [call EXCEPT ![c] = b]
  <2>1. /\ b.pc = pc /\ b.outcome = "none" /\ b.result = "none" /\ b.known = {} /\ b.seen = {} /\ b.id = 0
        /\ b.kind = kind
    BY <1>3 DEF Records
  <2>2. call'[c] = b
    BY <1>2, <1>5
  <2> HIDE DEF b
  <2>3. LooksInv(c)'
    BY <1>1, <1>2, <2>1, <2>2 DEF LooksInv, At, Ids
  <2> QED BY <1>2, <1>5, <2>3, OneLooks DEF b
<1>6. CASE call' = [call EXCEPT ![c] = Returned(a, "failed", 0)]
  <2> DEFINE r == Returned(a, "failed", 0)
  <2>1. r.pc = "done" /\ r.result = "failed" /\ r.id = 0 /\ r.seen = Ids /\ r.known = {} /\ r.outcome = "none"
    BY <1>3 DEF Returned, Records
  <2>2. call'[c] = r
    BY <1>2, <1>6
  <2> HIDE DEF r
  <2>3. LooksInv(c)'
    BY <1>2, <2>1, <2>2 DEF LooksInv, At, Ids
  <2> QED BY <1>2, <1>6, <2>3, OneLooks DEF r
<1> QED BY <1>4, <1>5, <1>6

LEMMA GoesOn ==
    ASSUME IInv, LookInv, NEW c \in Calls,
           SnapshotBefore(c) \/ (\E auth \in BOOLEAN : SnapshotFails(c, auth)) \/ Place(c)
    PROVE  LookInv'
<1>1. call \in [Calls -> Records] /\ call[c] \in Records /\ LooksInv(c) /\ RequestInv(c)
  BY DEF IInv, LookInv
<1>2. UNCHANGED orders
  BY DEF SnapshotBefore, SnapshotFails, Place
<1>3. CASE SnapshotBefore(c)
  <2> DEFINE r == [call[c] EXCEPT !.pc = "place", !.known = Ids, !.read = TRUE]
  <2>1. call' = [call EXCEPT ![c] = r] /\ At(c, "before")
    BY <1>1, <1>3 DEF SnapshotBefore, Records
  <2>2. /\ r.pc = "place" /\ r.known = Ids /\ r.read = TRUE /\ r.kind = call[c].kind /\ r.id = call[c].id
        /\ r.outcome = call[c].outcome /\ r.result = call[c].result /\ r.seen = call[c].seen
        /\ r.blind = call[c].blind
    BY <1>1 DEF Records
  <2>3. call'[c] = r /\ \A i \in Ids : orders[i] # c
    BY <1>1, <2>1 DEF RequestInv, Unplaced
  <2> HIDE DEF r
  <2>4. LooksInv(c)'
    BY <1>1, <1>2, <2>1, <2>2, <2>3 DEF LooksInv, At, Ids
  <2> QED BY <1>2, <2>1, <2>4, OneLooks
<1>4. ASSUME NEW auth \in BOOLEAN, SnapshotFails(c, auth) PROVE LookInv'
  <2> DEFINE r == [call[c] EXCEPT !.pc = "place", !.blind = TRUE]
  <2>1. At(c, "before")
        /\ (call' = [call EXCEPT ![c] = r] \/ call' = [call EXCEPT ![c] = Returned(call[c], "failed", 0)])
    BY <1>1, <1>4 DEF SnapshotFails, Return, Records
  <2>2. /\ r.pc = "place" /\ r.known = call[c].known /\ r.kind = call[c].kind /\ r.id = call[c].id
        /\ r.outcome = call[c].outcome /\ r.result = call[c].result /\ r.seen = call[c].seen
        /\ r.blind = TRUE
    BY <1>1 DEF Records
  <2> HIDE DEF r
  <2>3. CASE call' = [call EXCEPT ![c] = r]
    <3>1. call'[c] = r
      BY <1>1, <2>3
    <3>2. LooksInv(c)'
      BY <1>1, <1>2, <2>1, <2>2, <3>1 DEF LooksInv, At, Ids
    <3> QED BY <1>2, <2>3, <3>2, OneLooks
  <2>4. CASE call' = [call EXCEPT ![c] = Returned(call[c], "failed", 0)]
    <3>1. call[c].outcome = "none"
      BY <1>1, <2>1 DEF LooksInv, At
    <3> QED BY <1>1, <1>2, <2>4, <3>1, GivesUp
  <2> QED BY <2>1, <2>3, <2>4
<1>5. CASE Place(c)
  <2> DEFINE r == [call[c] EXCEPT !.pc = "placing"]
  <2>1. call' = [call EXCEPT ![c] = r] /\ At(c, "place")
    BY <1>1, <1>5 DEF Place
  <2>2. /\ r.pc = "placing" /\ r.known = call[c].known /\ r.kind = call[c].kind /\ r.id = call[c].id
        /\ r.outcome = call[c].outcome /\ r.result = call[c].result /\ r.seen = call[c].seen
        /\ r.blind = call[c].blind /\ r.read = call[c].read
    BY <1>1 DEF Records
  <2>3. call'[c] = r
    BY <1>1, <2>1
  <2> HIDE DEF r
  <2>4. LooksInv(c)'
    BY <1>1, <1>2, <2>1, <2>2, <2>3 DEF LooksInv, At, Ids
  <2> QED BY <1>2, <2>1, <2>4, OneLooks
<1> QED BY <1>3, <1>4, <1>5

LEMMA ReturnLooks ==
    ASSUME IInv, LookInv, NEW c \in Calls, NEW o \in Outcomes, CashReturns(c, o) \/ UPIReturns(c, o)
    PROVE  LookInv'
<1> DEFINE e == [call[c] EXCEPT !.outcome = o]
           r == [e EXCEPT !.pc = "after"]
<1>1. call \in [Calls -> Records] /\ call[c] \in Records /\ LooksInv(c)
  BY DEF IInv, LookInv
<1>2. UNCHANGED orders /\ At(c, "placing")
  BY DEF CashReturns, UPIReturns, EndRequest
<1>3. /\ e \in Records /\ e.known = call[c].known /\ e.kind = call[c].kind /\ e.blind = call[c].blind
      /\ e.outcome = o /\ e.read = call[c].read /\ e.id = call[c].id /\ e.seen = call[c].seen
      /\ e.result = call[c].result
  BY <1>1 DEF Records
<1>4. \/ \E i \in PlacedBy(c) : call' = [call EXCEPT ![c] = Returned(e, "placed", i)]
      \/ call' = [call EXCEPT ![c] = r]
      \/ /\ call' = [call EXCEPT ![c] = Returned(e, "failed", 0)]
         /\ call[c].kind # "cash" \/ ~Verifies(c, o)
  BY DEF CashReturns, UPIReturns, Placed, Ended
<1>5. ~Verifies(c, o) => ~call[c].read \/ o \notin {"drifted", "transient", "timeout"}
  BY DEF Verifies, Doubtful, MayHaveSucceeded
<1> HIDE DEF e
<1>6. ASSUME NEW i \in PlacedBy(c), call' = [call EXCEPT ![c] = Returned(e, "placed", i)] PROVE LookInv'
  <2>1. i \in Ids
    BY DEF PlacedBy
  <2> QED BY <1>2, <1>3, <1>6, <2>1, Finds
<1>7. CASE call' = [call EXCEPT ![c] = r]
  <2>1. /\ r.pc = "after" /\ r.known = call[c].known /\ r.kind = call[c].kind /\ r.id = call[c].id
        /\ r.result = call[c].result /\ r.seen = call[c].seen
    BY <1>3 DEF Records
  <2>2. call'[c] = r
    BY <1>1, <1>7
  <2> HIDE DEF r
  <2>3. LooksInv(c)'
    BY <1>1, <1>2, <2>1, <2>2 DEF LooksInv, At, Ids
  <2> QED BY <1>2, <1>7, <2>3, OneLooks
<1>8. CASE call' = [call EXCEPT ![c] = Returned(e, "failed", 0)] /\ (call[c].kind # "cash" \/ ~Verifies(c, o))
  <2>1. e.blind \/ e.kind # "cash" \/ e.outcome \notin {"drifted", "transient", "timeout"}
    BY <1>1, <1>2, <1>3, <1>5, <1>8 DEF LooksInv, At
  <2> QED BY <1>2, <1>3, <1>8, <2>1, GivesUp
<1> QED BY <1>4, <1>6, <1>7, <1>8

LEMMA RecoverLooks ==
    ASSUME IInv, LookInv, NEW c \in Calls, Recover(c) \/ RecoverNothing(c) \/ RecoverFails(c)
    PROVE  LookInv'
<1>1. call \in [Calls -> Records] /\ call[c] \in Records /\ LooksInv(c)
  BY DEF IInv, LookInv
<1>2. UNCHANGED orders
  BY DEF Recover, RecoverNothing, RecoverFails
<1>3. CASE Recover(c)
  <2>1. PICK i \in Unknown(c) : call' = [call EXCEPT ![c] = Returned(call[c], "placed", i)]
    BY <1>1, <1>3 DEF Recover, Return
  <2>2. i \in Ids
    BY <2>1 DEF Unknown
  <2> QED BY <1>1, <1>2, <2>1, <2>2, Finds
<1>4. CASE RecoverNothing(c)
  <2>1. Ids \subseteq call[c].known
    BY <1>4 DEF RecoverNothing, Unknown
  <2>2. call' = [call EXCEPT ![c] = Returned(call[c], "failed", 0)]
    BY <1>1, <1>4 DEF RecoverNothing, Return
  <2> QED BY <1>1, <1>2, <2>1, <2>2, GivesUp
<1>5. CASE RecoverFails(c)
  <2> DEFINE f == Returned(call[c], "failed", 0)
             r == [f EXCEPT !.blind = TRUE]
  <2>1. call' = [call EXCEPT ![c] = r]
    BY <1>1, <1>5 DEF RecoverFails
  <2>2. f \in Records /\ f.pc = "done" /\ f.known = call[c].known /\ f.id = 0 /\ f.seen = Ids
    BY <1>1, ReturnedTyped DEF Returned, Records
  <2> HIDE DEF f
  <2>3. r.pc = "done" /\ r.known = call[c].known /\ r.id = 0 /\ r.seen = Ids /\ r.blind = TRUE
    BY <2>2 DEF Records
  <2>4. call'[c] = r
    BY <1>1, <2>1
  <2> HIDE DEF r
  <2>5. LooksInv(c)'
    BY <1>1, <1>2, <2>3, <2>4 DEF LooksInv, At, Ids
  <2> QED BY <1>2, <2>1, <2>5, OneLooks
<1> QED BY <1>3, <1>4, <1>5

LEMMA LookInit == Init => LookInv
BY DEF Init, LookInv, LooksInv, Fresh, At

LEMMA LookNext == IInv /\ LookInv /\ [Next]_vars => LookInv'
<1> SUFFICES ASSUME IInv, LookInv, [Next]_vars PROVE LookInv'
  OBVIOUS
<1>1. ASSUME NEW c \in Calls, BeginCash(c) \/ BeginUPI(c) PROVE LookInv'
  BY <1>1, BeginLooks
<1>2. ASSUME NEW c \in Calls, Step(c) PROVE LookInv'
  BY <1>2, GoesOn, ReturnLooks, RecoverLooks DEF Step
<1>3. ASSUME NEW c \in Calls, Lands(c) PROVE LookInv'
  BY <1>3, OrderLooks DEF Lands
<1>4. CASE Foreign
  BY <1>4, OrderLooks DEF Foreign
<1>5. CASE UNCHANGED <<orders, call>>
  BY <1>5 DEF LookInv, LooksInv, At, Ids
<1> QED BY <1>1, <1>2, <1>3, <1>4, <1>5 DEF Next, Dropped, vars

\* A cash order that left its mark is not reported as failed, if both reads worked
\* (placeWithVerify, orders.go:144-190).
THEOREM NoneOverlooked == Spec => []NothingOverlooked
<1>1. LookInv => NothingOverlooked
  BY DEF LookInv, LooksInv, NothingOverlooked, PlacedBy
<1> QED BY <1>1, InitInv, NextInv, LookInit, LookNext, PTL DEF Spec

LEMMA PlacementTyped == IInv /\ LookInv => TypeOK
<1> SUFFICES ASSUME IInv, LookInv PROVE TypeOK
  OBVIOUS
<1>1. call \in [Calls -> Records]
  BY DEF IInv
<1>2. ASSUME NEW c \in Calls
      PROVE  /\ call[c] \in [pc : {"idle", "before", "place", "placing", "after", "done"}, kind : Kinds,
                             known : SUBSET Ids, read : BOOLEAN, blind : BOOLEAN,
                             outcome : Outcomes \cup {"none"}, result : {"none", "placed", "failed"},
                             id : Ids \cup {0}, first : Nat, seen : SUBSET Ids]
             /\ call[c].result = "placed" => call[c].id # 0
  <2>1. call[c] \in Records /\ call[c].known \in SUBSET Ids /\ call[c].seen \in SUBSET Ids
        /\ call[c].id \in Ids \cup {0}
    BY <1>1 DEF LookInv, LooksInv
  <2>2. call[c].result = "placed" => call[c].id \in Ids
    BY DEF IInv, ResultInv
  <2>3. 0 \notin Ids
    BY DEF Ids
  <2> QED BY <2>1, <2>2, <2>3 DEF Records
<1> QED BY <1>1, <1>2 DEF IInv, TypeOK

-----------------------------------------------------------------------------
(* The order of the command line *)

CmdRecord == [at : {"find", "pick", "push", "read", "ask", "place", "cash", "wait", "confirm", "done"},
              matches : 0..MaxMatches, given : 0..MaxMatches, row : 1..MaxMatches, preset : 0..MaxMatches,
              vertical : Command!Verticals, armed : BOOLEAN, interactive : BOOLEAN,
              bill : Command!Carts \cup {""}, end : Command!Ends, saved : SUBSET Nat]
ShopRecord == [cart : Command!Carts, payment : {"none", "open", "paid", "failed", "used"},
               orders : Seq(Command!Carts)]
LogRecord == [typed : Nat, foreign : Nat, errors : Nat, ahead : BOOLEAN, late : BOOLEAN]
CliTypes ==
    /\ cmd \in CmdRecord /\ keys \in Seq({"yes", "no", "down"}) /\ ctrlC \in BOOLEAN
    /\ shop \in ShopRecord /\ log \in LogRecord

\* The bill has been shown to somebody who can answer.
Shown == cmd.bill # "" /\ cmd.armed /\ cmd.interactive
Untouched == shop.orders = <<>> /\ shop.payment = "none"

\* The command is a line of steps: nothing is at Swiggy before the bill was shown and
\* approved, what stands there fits the step, and each end says which.
LineInv ==
    /\ cmd.at = "done" <=> cmd.end # ""
    /\ cmd.at \in {"find", "pick", "push", "read", "ask", "place", "cash"} => Untouched
    /\ cmd.at = "wait" => shop.orders = <<>> /\ shop.payment \in {"open", "paid", "failed"}
    /\ cmd.at = "confirm" => shop.orders = <<>> /\ shop.payment = "paid"
    /\ cmd.at \in {"ask", "place", "cash", "wait", "confirm"} => Shown
    /\ cmd.end \in {"refused", "unread", "cancelled"} => Untouched
    /\ cmd.end \in {"placed", "maybe", "unpaid", "paid, not confirmed"} => Shown
BillInv ==
    /\ cmd.at \in {"ask", "place", "cash", "wait", "confirm"} /\ log.foreign = 0 => shop.cart = cmd.bill
    /\ Len(shop.orders) <= 1
    /\ cmd.end = "placed" => /\ Len(shop.orders) = 1 /\ cmd.saved = {1}
                             /\ log.foreign = 0 => shop.orders[1] = cmd.bill
PresetInv ==
    /\ cmd.at = "find" => cmd.row = 1
    /\ cmd.at = "pick" => cmd.row \in 1..cmd.matches
    /\ cmd.at \notin {"find", "pick", "done"} => cmd.preset \in 1..cmd.matches

CliInv == CliTypes /\ LineInv /\ BillInv /\ PresetInv

\* What a step of the command leaves alone.
CmdKeeps ==
    /\ cmd'.matches = cmd.matches /\ cmd'.preset = cmd.preset /\ cmd'.row = cmd.row /\ cmd'.given = cmd.given
    /\ cmd'.armed = cmd.armed /\ cmd'.interactive = cmd.interactive

LEMMA CmdGoes ==
    ASSUME cmd \in CmdRecord,
           NEW at \in {"pick", "push", "read", "ask", "place", "cash", "wait", "confirm"}, Command!Goto(at)
    PROVE  /\ cmd' \in CmdRecord /\ CmdKeeps /\ cmd'.at = at
           /\ cmd'.end = cmd.end /\ cmd'.bill = cmd.bill /\ cmd'.saved = cmd.saved
BY DEF Command!Goto, CmdRecord, CmdKeeps

LEMMA CmdExits ==
    ASSUME cmd \in CmdRecord, NEW end \in Command!Ends, Command!Exit(end)
    PROVE  /\ cmd' \in CmdRecord /\ CmdKeeps /\ cmd'.at = "done" /\ cmd'.end = end
           /\ cmd'.bill = cmd.bill /\ cmd'.saved = cmd.saved
BY DEF Command!Exit, CmdRecord, CmdKeeps

LEMMA CmdChooses ==
    ASSUME cmd \in CmdRecord, NEW row \in 0..MaxMatches, Command!Choose(row)
    PROVE  /\ cmd' \in CmdRecord /\ cmd'.at = "push" /\ cmd'.preset = row /\ cmd'.matches = cmd.matches
           /\ cmd'.end = cmd.end /\ cmd'.bill = cmd.bill /\ cmd'.saved = cmd.saved
<1>1. PICK v \in Command!Verticals : cmd' = [cmd EXCEPT !.at = "push", !.preset = row, !.vertical = v]
  BY DEF Command!Choose
<1> DEFINE a == [cmd EXCEPT !.at = "push", !.preset = row]
<1>2. /\ a \in CmdRecord /\ a.at = "push" /\ a.preset = row /\ a.matches = cmd.matches
      /\ a.end = cmd.end /\ a.bill = cmd.bill /\ a.saved = cmd.saved
  BY DEF CmdRecord
<1>3. cmd' = [a EXCEPT !.vertical = v]
  BY <1>1
<1> HIDE DEF a
<1> QED BY <1>2, <1>3 DEF CmdRecord

LEMMA ErrsTyped ==
    ASSUME log \in LogRecord, Command!Errs
    PROVE  log' \in LogRecord /\ log'.foreign = log.foreign
BY DEF Command!Errs, LogRecord

LEMMA OrderedTyped ==
    ASSUME NEW s \in ShopRecord
    PROVE  /\ Command!Ordered(s) \in ShopRecord /\ Command!Ordered(s).payment = s.payment
           /\ Command!Ordered(s).orders = Append(s.orders, s.cart)
<1> DEFINE more == Append(s.orders, s.cart)
<1>1. /\ s.cart \in Command!Carts /\ s.orders \in Seq(Command!Carts) /\ "empty" \in Command!Carts
      /\ s = [cart |-> s.cart, payment |-> s.payment, orders |-> s.orders]
      /\ s.payment \in {"none", "open", "paid", "failed", "used"}
  BY DEF ShopRecord, Command!Carts
<1>2. more \in Seq(Command!Carts)
  BY <1>1
<1> DEFINE a == [s EXCEPT !.orders = more]
<1>3. Command!Ordered(s) = [a EXCEPT !.cart = "empty"]
  BY DEF Command!Ordered
<1> HIDE DEF more
<1>4. a \in ShopRecord /\ a.payment = s.payment /\ a.orders = more
  BY <1>1, <1>2 DEF ShopRecord
<1> HIDE DEF a
<1>5. /\ Command!Ordered(s) \in ShopRecord /\ Command!Ordered(s).payment = s.payment
      /\ Command!Ordered(s).orders = more
  BY <1>1, <1>3, <1>4 DEF ShopRecord
<1> QED BY <1>5 DEF more

\* Which preset: by number, the only one, or by hand.
LEMMA FindLine ==
    ASSUME CliInv, Command!Find \/ Command!Pick
    PROVE  CliInv'
<1> USE DEF CliInv, CliTypes
<1>1. UNCHANGED <<ctrlC, shop, log>> /\ cmd.at \in {"find", "pick"} /\ cmd.end = "" /\ cmd \in CmdRecord
  BY DEF Command!Find, Command!Pick, LineInv
<1>2. keys' \in Seq({"yes", "no", "down"})
  <2>1. CASE Command!Find
    BY <2>1 DEF Command!Find
  <2>2. CASE Command!Pick
    <3>1. PICK read \in DOMAIN keys : keys' = SubSeq(keys, read + 1, Len(keys))
      BY <2>2 DEF Command!Pick
    <3>2. Len(keys) \in Nat /\ read \in 1..Len(keys)
      BY <3>1
    <3> QED BY <3>1, <3>2
  <2> QED BY <2>1, <2>2
<1>3. Untouched /\ Untouched'
  BY <1>1 DEF LineInv, Untouched
<1>4. ASSUME NEW end \in {"refused", "cancelled"}, Command!Exit(end) PROVE CliInv'
  <2>1. /\ cmd' \in CmdRecord /\ cmd'.at = "done" /\ cmd'.end = end
    BY <1>1, <1>4, CmdExits DEF Command!Ends
  <2> QED BY <1>1, <1>2, <1>3, <2>1 DEF LineInv, BillInv, PresetInv, Untouched
<1>5. ASSUME NEW row \in 1..cmd.matches, Command!Choose(row) PROVE CliInv'
  <2>1. cmd.matches \in 0..MaxMatches /\ MaxMatches \in Nat
    BY <1>1, OrdersAssumption DEF CmdRecord
  <2>2. row \in 0..MaxMatches
    BY <2>1
  <2>3. /\ cmd' \in CmdRecord /\ cmd'.at = "push" /\ cmd'.end = cmd.end /\ cmd'.preset = row
        /\ cmd'.matches = cmd.matches
    BY <1>1, <1>5, <2>2, CmdChooses
  <2> QED BY <1>1, <1>2, <1>3, <2>3 DEF LineInv, BillInv, PresetInv, Untouched
<1>6. CASE Command!Find
  <2>1. CASE Command!Goto("pick") /\ cmd.matches > 1
    <3>1. /\ cmd' \in CmdRecord /\ cmd'.at = "pick" /\ cmd'.end = cmd.end /\ cmd'.row = cmd.row
          /\ cmd'.matches = cmd.matches
      BY <1>1, <2>1, CmdGoes DEF CmdKeeps
    <3>2. cmd.row \in 1..cmd.matches
      <4>1. cmd.row = 1 /\ cmd.matches > 1
        BY <1>6, <2>1 DEF Command!Find, PresetInv
      <4>2. cmd.matches \in 0..MaxMatches /\ MaxMatches \in Nat
        BY <1>1, OrdersAssumption DEF CmdRecord
      <4> QED BY <4>1, <4>2
    <3> QED BY <1>1, <1>2, <1>3, <3>1, <3>2 DEF LineInv, BillInv, PresetInv, Untouched
  <2> QED BY <1>4, <1>5, <1>6, <2>1 DEF Command!Find
<1>7. CASE Command!Pick
  <2>1. CASE cmd' = [cmd EXCEPT !.row = IF @ < cmd.matches THEN @ + 1 ELSE @]
    <3>1. /\ cmd.at = "pick" /\ cmd.row \in 1..cmd.matches /\ cmd.matches \in 0..MaxMatches
          /\ MaxMatches \in Nat
      BY <1>1, <1>7, OrdersAssumption DEF Command!Pick, PresetInv, CmdRecord
    <3> DEFINE n == IF cmd.row < cmd.matches THEN cmd.row + 1 ELSE cmd.row
    <3>2. n \in 1..cmd.matches /\ n \in 1..MaxMatches
      BY <3>1
    <3>4. cmd' = [cmd EXCEPT !.row = n]
      BY <2>1
    <3> HIDE DEF n
    <3>3. cmd' \in CmdRecord /\ cmd'.at = "pick" /\ cmd'.end = cmd.end /\ cmd'.row = n /\ cmd'.matches = cmd.matches
      BY <1>1, <3>1, <3>2, <3>4 DEF CmdRecord
    <3> QED BY <1>1, <1>2, <1>3, <3>2, <3>3 DEF LineInv, BillInv, PresetInv, Untouched
  <2>2. keys # <<>> /\ Head(keys) \in {"yes", "no", "down"} /\ cmd.row \in 1..cmd.matches
    BY <1>7 DEF Command!Pick, PresetInv
  <2>3. \/ Command!Choose(cmd.row)
        \/ Command!Exit("cancelled")
        \/ cmd' = [cmd EXCEPT !.row = IF @ < cmd.matches THEN @ + 1 ELSE @]
    BY <1>7, <2>2 DEF Command!Pick
  <2> QED BY <1>4, <1>5, <2>1, <2>2, <2>3
<1> QED BY <1>6, <1>7

\* A step that leaves the orders, the payment and the log's count of edits alone.
LEMMA PushLine ==
    ASSUME CliInv, Command!Push
    PROVE  CliInv'
<1> USE DEF CliInv, CliTypes
<1>1. /\ cmd.at = "push" /\ cmd.end = "" /\ cmd \in CmdRecord /\ shop \in ShopRecord
      /\ UNCHANGED <<keys, ctrlC>> /\ Untouched
  BY DEF Command!Push, LineInv
<1>2. ASSUME NEW c \in Command!Carts, shop' = [shop EXCEPT !.cart = c]
      PROVE  shop' \in ShopRecord /\ Untouched'
  BY <1>1, <1>2 DEF ShopRecord, Untouched
<1>3. "preset" \in Command!Carts
  BY DEF Command!Carts
<1>4. CASE Command!Goto("read") /\ UNCHANGED log
  <2>1. /\ cmd' \in CmdRecord /\ cmd'.at = "read" /\ cmd'.end = "" /\ cmd'.preset = cmd.preset
        /\ cmd'.matches = cmd.matches
    BY <1>1, <1>4, CmdGoes DEF CmdKeeps
  <2>2. shop' \in ShopRecord /\ Untouched'
    <3>1. CASE \E c \in Command!Carts \ {"other"} : shop' = [shop EXCEPT !.cart = c]
      BY <1>2, <3>1
    <3>2. CASE Command!Exit("unread")
      BY <1>1, <2>1, <3>2, CmdExits DEF Command!Ends
    <3> QED BY <3>1, <3>2 DEF Command!Push
  <2> QED BY <1>1, <1>4, <2>1, <2>2 DEF LineInv, BillInv, PresetInv, Untouched
<1>5. CASE Command!Errs /\ Command!Exit("unread") /\ shop' \in {shop, [shop EXCEPT !.cart = "preset"]}
  <2>1. cmd' \in CmdRecord /\ cmd'.at = "done" /\ cmd'.end = "unread"
    BY <1>1, <1>5, CmdExits DEF Command!Ends
  <2>2. log' \in LogRecord
    BY <1>5, ErrsTyped
  <2>3. shop' \in ShopRecord /\ Untouched'
    BY <1>1, <1>2, <1>3, <1>5 DEF Untouched
  <2> QED BY <1>1, <2>1, <2>2, <2>3 DEF LineInv, BillInv, PresetInv, Untouched
<1> QED BY <1>4, <1>5 DEF Command!Push

\* The bill is what the cart is by now.
LEMMA ReadLine ==
    ASSUME CliInv, Command!Read
    PROVE  CliInv'
<1> USE DEF CliInv, CliTypes
<1>1. /\ cmd.at = "read" /\ cmd.end = "" /\ cmd \in CmdRecord /\ shop \in ShopRecord /\ log \in LogRecord
      /\ UNCHANGED <<keys, ctrlC, shop>> /\ Untouched /\ Untouched'
  BY DEF Command!Read, LineInv, Untouched
<1>2. ASSUME NEW end \in {"refused", "unread"}, Command!Exit(end), log' \in LogRecord
      PROVE  CliInv'
  <2>1. cmd' \in CmdRecord /\ cmd'.at = "done" /\ cmd'.end = end
    BY <1>1, <1>2, CmdExits DEF Command!Ends
  <2> QED BY <1>1, <1>2, <2>1 DEF LineInv, BillInv, PresetInv, Untouched
<1>3. CASE Command!Errs /\ Command!Exit("unread")
  BY <1>2, <1>3, ErrsTyped
<1>4. CASE log' = [log EXCEPT !.ahead = keys # <<>>]
  <2>1. log' \in LogRecord /\ log'.foreign = log.foreign
    BY <1>1, <1>4 DEF LogRecord
  <2>2. CASE cmd' = [cmd EXCEPT !.at = "done", !.end = "refused"]
    BY <1>2, <2>1, <2>2 DEF Command!Exit
  <2>3. CASE ~Command!Refusable(shop.cart) /\ cmd' = [cmd EXCEPT !.at = "ask", !.bill = shop.cart]
    <3>1. cmd.armed /\ cmd.interactive /\ shop.cart \in Command!Carts /\ shop.cart # ""
      BY <1>1, <2>3 DEF Command!Refusable, ShopRecord, Command!Carts
    <3>2. /\ cmd' \in CmdRecord /\ cmd'.at = "ask" /\ cmd'.end = "" /\ cmd'.bill = shop.cart
          /\ cmd'.armed = cmd.armed /\ cmd'.interactive = cmd.interactive
          /\ cmd'.preset = cmd.preset /\ cmd'.matches = cmd.matches
      BY <1>1, <2>3, <3>1 DEF CmdRecord
    <3> QED BY <1>1, <2>1, <3>1, <3>2 DEF LineInv, BillInv, PresetInv, Untouched, Shown
  <2>4. CASE Command!Errs /\ Command!Exit("unread")
    BY <1>3, <2>4
  <2> QED BY <2>2, <2>3, <2>4 DEF Command!Read
<1> QED BY <1>3, <1>4 DEF Command!Read

\* Nothing that is asked has been sent.
LEMMA ConfirmLine ==
    ASSUME CliInv, Command!Confirm
    PROVE  CliInv'
<1> USE DEF CliInv, CliTypes
<1>1. /\ cmd.at = "ask" /\ cmd.end = "" /\ cmd \in CmdRecord /\ log \in LogRecord
      /\ UNCHANGED <<ctrlC, shop>> /\ Untouched /\ Untouched' /\ Shown
  BY DEF Command!Confirm, LineInv, Untouched
<1>2. keys' \in Seq({"yes", "no", "down"})
  BY DEF Command!Confirm, Command!Cancelled, Command!Answered
<1>3. CASE Command!Exit("cancelled") /\ UNCHANGED log
  <2>1. cmd' \in CmdRecord /\ cmd'.at = "done" /\ cmd'.end = "cancelled"
    BY <1>1, <1>3, CmdExits DEF Command!Ends
  <2> QED BY <1>1, <1>2, <1>3, <2>1 DEF LineInv, BillInv, PresetInv, Untouched
<1>4. CASE Command!Goto("place") /\ log' = [log EXCEPT !.late = ctrlC]
  <2>1. /\ cmd' \in CmdRecord /\ CmdKeeps /\ cmd'.at = "place" /\ cmd'.end = "" /\ cmd'.bill = cmd.bill
    BY <1>1, <1>4, CmdGoes
  <2>2. log' \in LogRecord /\ log'.foreign = log.foreign
    BY <1>1, <1>4 DEF LogRecord
  <2> QED BY <1>1, <1>2, <2>1, <2>2 DEF LineInv, BillInv, PresetInv, Untouched, Shown, CmdKeeps
<1> QED BY <1>3, <1>4 DEF Command!Confirm, Command!Cancelled, Command!Answered

\* An end that is told, whatever stands at Swiggy; one order at most.
LEMMA TellsOf ==
    ASSUME CliInv, cmd.at \in {"place", "cash", "wait", "confirm"},
           NEW end \in {"maybe", "unpaid", "paid, not confirmed"}, Command!Exit(end),
           UNCHANGED <<keys, ctrlC>>, shop' \in ShopRecord, Len(shop'.orders) <= 1, log' \in LogRecord
    PROVE  CliInv'
<1> USE DEF CliInv, CliTypes
<1>1. /\ cmd' \in CmdRecord /\ CmdKeeps /\ cmd'.at = "done" /\ cmd'.end = end /\ cmd'.bill = cmd.bill
  BY CmdExits DEF Command!Ends
<1> QED BY <1>1 DEF LineInv, BillInv, PresetInv, Shown, CmdKeeps

\* A step towards the order that leaves the cart alone.
LEMMA StepsOn ==
    ASSUME CliInv, cmd.at \in {"place", "cash", "wait", "confirm"},
           NEW at \in {"cash", "wait", "confirm"}, Command!Goto(at),
           UNCHANGED <<keys, ctrlC, log>>, shop' \in ShopRecord, shop'.cart = shop.cart, shop'.orders = <<>>,
           at = "cash" => shop'.payment = "none", at = "wait" => shop'.payment = "open",
           at = "confirm" => shop'.payment = "paid"
    PROVE  CliInv'
<1> USE DEF CliInv, CliTypes
<1>1. /\ cmd' \in CmdRecord /\ CmdKeeps /\ cmd'.at = at /\ cmd'.end = cmd.end /\ cmd'.bill = cmd.bill
  BY CmdGoes
<1> QED BY <1>1 DEF LineInv, BillInv, PresetInv, Untouched, Shown, CmdKeeps

LEMMA UPILine ==
    ASSUME CliInv, Command!PlaceUPI
    PROVE  CliInv'
<1>1. /\ cmd.at = "place" /\ UNCHANGED <<keys, ctrlC>> /\ Untouched /\ shop \in ShopRecord /\ log \in LogRecord
      /\ shop.orders = <<>>
  BY DEF Command!PlaceUPI, CliInv, CliTypes, LineInv, Untouched
<1>1a. Len(shop.orders) <= 1
  BY <1>1
<1> DEFINE opened == [shop EXCEPT !.payment = "open"]
<1>2. opened \in ShopRecord /\ opened.cart = shop.cart /\ opened.orders = <<>> /\ opened.payment = "open"
  BY <1>1 DEF ShopRecord
<1> HIDE DEF opened
<1>3. \/ shop' = opened /\ Command!Goto("wait") /\ UNCHANGED log
      \/ Command!Goto("cash") /\ UNCHANGED <<shop, log>>
      \/ Command!Errs /\ shop' \in {shop, opened} /\ Command!Exit("maybe")
  BY DEF Command!PlaceUPI, opened
<1>4. CASE shop' = opened /\ Command!Goto("wait") /\ UNCHANGED log
  BY <1>1, <1>2, <1>4, StepsOn
<1>5. CASE Command!Goto("cash") /\ UNCHANGED <<shop, log>>
  BY <1>1, <1>5, StepsOn DEF Untouched
<1>6. CASE Command!Errs /\ shop' \in {shop, opened} /\ Command!Exit("maybe")
  <2>1. log' \in LogRecord
    BY <1>1, <1>6, ErrsTyped
  <2>2. shop' \in ShopRecord /\ Len(shop'.orders) <= 1
    BY <1>1, <1>2, <1>6, <1>1a
  <2> QED BY <1>1, <1>6, <2>1, <2>2, TellsOf
<1> QED BY <1>3, <1>4, <1>5, <1>6

\* The first order, of the cart that stands there, is announced and saved.
LEMMA Announces ==
    ASSUME CliInv, cmd.at \in {"place", "cash", "confirm"}, Command!Saved, UNCHANGED <<keys, ctrlC, log>>,
           shop' \in ShopRecord, shop'.orders = Append(shop.orders, shop.cart)
    PROVE  CliInv'
<1> USE DEF CliInv, CliTypes
<1>1. shop.orders = <<>> /\ shop.cart \in Command!Carts
  BY DEF LineInv, Untouched, ShopRecord
<1>2. shop'.orders = <<shop.cart>> /\ Len(shop'.orders) = 1 /\ shop'.orders[1] = shop.cart
  BY <1>1
<1> DEFINE a == [cmd EXCEPT !.at = "done", !.end = "placed"]
<1>3. a = [cmd EXCEPT !.at = "done", !.end = "placed"] /\ "placed" \in Command!Ends
  BY DEF Command!Ends
<1> DEFINE s == {Len(shop'.orders)}
<1>4. cmd' = [a EXCEPT !.saved = s]
  BY DEF Command!Saved
<1>5. /\ a \in CmdRecord /\ a.at = "done" /\ a.end = "placed" /\ a.bill = cmd.bill
      /\ a.armed = cmd.armed /\ a.interactive = cmd.interactive
  BY <1>3 DEF CmdRecord
<1>6. s = {1} /\ s \in SUBSET Nat
  BY <1>2
<1> HIDE DEF a, s
<1>7. /\ cmd' \in CmdRecord /\ cmd'.at = "done" /\ cmd'.end = "placed" /\ cmd'.bill = cmd.bill /\ cmd'.saved = {1}
      /\ cmd'.armed = cmd.armed /\ cmd'.interactive = cmd.interactive
  BY <1>4, <1>5, <1>6 DEF CmdRecord
<1>8. LineInv' /\ PresetInv'
  BY <1>7 DEF LineInv, PresetInv, Shown
<1>9. log.foreign = 0 => shop'.orders[1] = cmd'.bill
  BY <1>2, <1>7 DEF BillInv
<1>10. BillInv'
  BY <1>2, <1>7, <1>9 DEF BillInv
<1> QED BY <1>7, <1>8, <1>10

LEMMA CashLine ==
    ASSUME CliInv, Command!PlaceCash
    PROVE  CliInv'
<1>1. /\ cmd.at \in {"place", "cash"} /\ UNCHANGED <<keys, ctrlC>> /\ shop \in ShopRecord /\ log \in LogRecord
      /\ shop.orders = <<>> /\ shop.cart \in Command!Carts
  BY DEF Command!PlaceCash, CliInv, CliTypes, LineInv, Untouched, ShopRecord
<1>2. /\ Command!Ordered(shop) \in ShopRecord
      /\ Command!Ordered(shop).orders = Append(shop.orders, shop.cart)
      /\ Len(Command!Ordered(shop).orders) <= 1 /\ Len(shop.orders) <= 1
  BY <1>1, OrderedTyped
<1>3. CASE shop' = Command!Ordered(shop) /\ Command!Saved /\ UNCHANGED log
  BY <1>1, <1>2, <1>3, Announces
<1>4. CASE Command!Errs /\ shop' \in {shop, Command!Ordered(shop)} /\ Command!Exit("maybe")
  <2>1. log' \in LogRecord
    BY <1>1, <1>4, ErrsTyped
  <2> QED BY <1>1, <1>2, <1>4, <2>1, TellsOf
<1> QED BY <1>3, <1>4 DEF Command!PlaceCash

LEMMA WaitLine ==
    ASSUME CliInv, Command!Stops \/ Command!Expires \/ Command!PollPayment
    PROVE  CliInv'
<1>1. /\ cmd.at = "wait" /\ UNCHANGED <<keys, ctrlC, shop, log>> /\ shop \in ShopRecord /\ log \in LogRecord
      /\ shop.orders = <<>>
  BY DEF Command!Stops, Command!Expires, Command!PollPayment, CliInv, CliTypes, LineInv
<1>1a. Len(shop.orders) <= 1
  BY <1>1
<1>2. CASE Command!Exit("unpaid")
  BY <1>1, <1>2, <1>1a, TellsOf
<1>3. CASE shop.payment = "paid" /\ Command!Goto("confirm")
  BY <1>1, <1>3, StepsOn
<1> QED BY <1>2, <1>3 DEF Command!Stops, Command!Expires, Command!PollPayment

LEMMA ConfirmOrderLine ==
    ASSUME CliInv, Command!ConfirmOrder
    PROVE  CliInv'
<1>1. /\ cmd.at = "confirm" /\ UNCHANGED <<keys, ctrlC>> /\ shop \in ShopRecord /\ log \in LogRecord
      /\ shop.orders = <<>> /\ shop.payment = "paid" /\ shop.cart \in Command!Carts
  BY DEF Command!ConfirmOrder, CliInv, CliTypes, LineInv, ShopRecord
<1> DEFINE o == Command!Ordered(shop)
<1>2. o \in ShopRecord /\ o.orders = Append(shop.orders, shop.cart)
  BY <1>1, OrderedTyped
<1> DEFINE paid == [Command!Ordered(shop) EXCEPT !.payment = "used"]
<1>3. paid = [o EXCEPT !.payment = "used"]
  OBVIOUS
<1>4. \/ shop' = paid /\ Command!Saved /\ UNCHANGED log
      \/ Command!Errs /\ shop' \in {shop, paid} /\ Command!Exit("paid, not confirmed")
  BY <1>1 DEF Command!ConfirmOrder
<1> HIDE DEF o, paid
<1>5. paid \in ShopRecord /\ paid.orders = Append(shop.orders, shop.cart)
  BY <1>2, <1>3 DEF ShopRecord
<1>6. Len(paid.orders) <= 1 /\ Len(shop.orders) <= 1
  BY <1>1, <1>5
<1>7. CASE shop' = paid /\ Command!Saved /\ UNCHANGED log
  BY <1>1, <1>5, <1>7, Announces
<1>8. CASE Command!Errs /\ shop' \in {shop, paid} /\ Command!Exit("paid, not confirmed")
  <2>1. log' \in LogRecord
    BY <1>1, <1>8, ErrsTyped
  <2> QED BY <1>1, <1>5, <1>6, <1>8, <2>1, TellsOf
<1> QED BY <1>4, <1>7, <1>8

\* What goes on around the command.
LEMMA AroundLine ==
    ASSUME CliInv, Command!Type \/ Command!Interrupt \/ Command!Pay \/ Command!OtherDevice
    PROVE  CliInv'
<1> USE DEF CliInv, CliTypes
<1>1. cmd' = cmd /\ shop \in ShopRecord /\ log \in LogRecord
  BY DEF Command!Type, Command!Interrupt, Command!Pay, Command!OtherDevice
<1>2. CASE Command!Type
  <2>1. PICK k \in {"yes", "no", "down"} : keys' = Append(keys, k) /\ log' = [log EXCEPT !.typed = @ + 1]
    BY <1>2 DEF Command!Type
  <2>2. keys' \in Seq({"yes", "no", "down"}) /\ UNCHANGED <<ctrlC, shop>>
    BY <1>2, <2>1 DEF Command!Type
  <2>3. log.typed + 1 \in Nat
    BY <1>1 DEF LogRecord
  <2>4. log' \in LogRecord /\ log'.foreign = log.foreign
    BY <1>1, <2>1, <2>3 DEF LogRecord
  <2> QED BY <1>1, <2>2, <2>4 DEF LineInv, BillInv, PresetInv, Untouched, Shown
<1>3. CASE Command!Interrupt
  <2>2. /\ keys' \in {keys, <<>>} /\ <<>> \in Seq({"yes", "no", "down"})
        /\ ctrlC' = TRUE /\ shop' = shop /\ log' = log
    BY <1>3 DEF Command!Interrupt
  <2>1. keys' \in Seq({"yes", "no", "down"}) /\ ctrlC' \in BOOLEAN /\ UNCHANGED <<shop, log>>
    BY <2>2
  <2> QED BY <1>1, <2>1 DEF LineInv, BillInv, PresetInv, Untouched, Shown
<1>4. CASE Command!Pay
  <2>1. PICK verdict \in {"paid", "failed"} : shop' = [shop EXCEPT !.payment = verdict]
    BY <1>4 DEF Command!Pay
  <2>2. /\ shop' \in ShopRecord /\ shop'.payment = verdict /\ shop'.cart = shop.cart
        /\ shop'.orders = shop.orders /\ shop.payment = "open" /\ UNCHANGED <<keys, ctrlC, log>>
    BY <1>1, <1>4, <2>1 DEF Command!Pay, ShopRecord
  <2> QED BY <1>1, <2>2 DEF LineInv, BillInv, PresetInv, Untouched, Shown
<1>5. CASE Command!OtherDevice
  <2>1. /\ shop' \in ShopRecord /\ shop'.payment = shop.payment /\ shop'.orders = shop.orders
        /\ UNCHANGED <<keys, ctrlC>>
    BY <1>1, <1>5 DEF Command!OtherDevice, ShopRecord, Command!Carts
  <2>2. log.foreign + 1 \in Nat /\ log.foreign + 1 # 0
    BY <1>1 DEF LogRecord
  <2>3. log' \in LogRecord /\ log'.foreign # 0
    BY <1>1, <1>5, <2>2 DEF Command!OtherDevice, LogRecord
  <2> QED BY <1>1, <2>1, <2>3 DEF LineInv, BillInv, PresetInv, Untouched, Shown
<1> QED BY <1>2, <1>3, <1>4, <1>5

LEMMA CliNextInv == CliInv /\ [OrdersNext]_<<focus, vars, shopVars, wizVars, cliVars>> => CliInv'
<1>1. ASSUME CliInv, UNCHANGED cliVars PROVE CliInv'
  BY <1>1 DEF cliVars, CliInv, CliTypes, LineInv, BillInv, PresetInv, Untouched, Shown
<1>2. ASSUME CliInv, Command!CliNext PROVE CliInv'
  BY <1>2, FindLine, PushLine, ReadLine, ConfirmLine, UPILine, CashLine, WaitLine, ConfirmOrderLine, AroundLine
     DEF Command!CliNext
<1> QED BY <1>1, <1>2 DEF OrdersNext

LEMMA CliInitInv == OrdersInit => CliInv
<1> SUFFICES ASSUME OrdersInit PROVE CliInv
  OBVIOUS
<1>1. PICK a, i \in BOOLEAN, n, k \in 0..MaxMatches :
        cmd = [at |-> "find", matches |-> n, given |-> k, row |-> 1, preset |-> 0, vertical |-> "food",
               armed |-> a, interactive |-> i, bill |-> "", end |-> "", saved |-> {}]
  BY DEF OrdersInit, Command!CliInit
<1>2. MaxMatches \in Nat \ {0} /\ 1 \in 1..MaxMatches /\ 0 \in 0..MaxMatches
  BY OrdersAssumption
<1>3. cmd \in CmdRecord /\ cmd.at = "find" /\ cmd.end = "" /\ cmd.row = 1
  BY <1>1, <1>2 DEF CmdRecord, Command!Verticals, Command!Carts, Command!Ends
<1>4. /\ shop = [cart |-> "empty", payment |-> "none", orders |-> <<>>]
      /\ keys = <<>> /\ ctrlC = FALSE
      /\ log = [typed |-> 0, foreign |-> 0, errors |-> 0, ahead |-> FALSE, late |-> FALSE]
  BY DEF OrdersInit, Command!CliInit
<1>5. shop \in ShopRecord /\ Untouched
  BY <1>4 DEF ShopRecord, Untouched, Command!Carts
<1>6. log \in LogRecord
  BY <1>4 DEF LogRecord
<1>7. CliTypes
  <2>1. keys \in Seq({"yes", "no", "down"})
    BY <1>4
  <2>2. ctrlC \in BOOLEAN
    BY <1>4
  <2> QED BY <1>3, <1>5, <1>6, <2>1, <2>2 DEF CliTypes
<1>8. LineInv /\ BillInv /\ PresetInv
  <2>1. LineInv
    BY <1>3, <1>5 DEF LineInv
  <2>3. cmd.at \notin {"ask", "place", "cash", "wait", "confirm"} /\ cmd.end # "placed"
    BY <1>3
  <2>4. shop.orders = <<>>
    BY <1>4
  <2>5. Len(shop.orders) <= 1
    BY <2>4
  <2>2. BillInv
    BY <2>3, <2>5, Zenon DEF BillInv
  <2> QED BY <1>3, <2>1, <2>2 DEF PresetInv
<1> QED BY <1>7, <1>8 DEF CliInv

\* CommandIsTrue: what cli.Run announces stands at Swiggy, and what may stand there is
\* never reported as nothing, in every order of keys, signals, faults and payments.
THEOREM CommandTellsTheTruth == OrdersSpec => []CommandIsTrue
<1>1. CliInv => CommandIsTrue
  <2> SUFFICES ASSUME CliInv PROVE CommandIsTrue
    OBVIOUS
  <2> USE DEF CliInv, CliTypes
  <2>1. Command!CliOneOrder
    BY DEF Command!CliOneOrder, LineInv, BillInv, PresetInv, Untouched, Shown, CmdRecord, Command!Ends
  <2>2. Command!CliPlacedIsReal
    BY DEF Command!CliPlacedIsReal, LineInv, BillInv
  <2>3. Command!CliNothingHidden
    BY DEF Command!CliNothingHidden, LineInv, Untouched, CmdRecord, Command!Ends
  <2> QED BY <2>1, <2>2, <2>3 DEF CommandIsTrue
<1> QED BY <1>1, CliInitInv, CliNextInv, PTL DEF OrdersSpec

-----------------------------------------------------------------------------
(* The Instamart cart of the terminal                                        *)

GroceryLines == [units : Shop!Carts, out : SUBSET Products]
\* What a cart may cost: its units, the surcharge.
Amounts == {0} \cup {Shop!Units(u) : u \in Shop!Carts} \cup {Shop!Units(u) + n : u \in Shop!Carts, n \in {0, 1}}
GroceryAnswers == [units : Shop!Carts, out : SUBSET Products, total : Amounts]
GroceryCommands == [kind : Shop!Kinds, state : Shop!States, units : Shop!Carts, cart : GroceryAnswers]
GroceryStores == [units : Shop!Carts, limit : 1..MaxQty, surge : {0, 1}, out : SUBSET Products]
GroceryFlags == [pending : BOOLEAN, inFlight : BOOLEAN, mutating : BOOLEAN, confirmPending : BOOLEAN,
                 chase : Nat, rebuilt : BOOLEAN, pulled : BOOLEAN, closed : BOOLEAN]
GroceryOrders == [placing : BOOLEAN, placePending : BOOLEAN, total : Amounts, approved : Shop!Carts,
                  pay : {"idle", "waiting", "confirming", "failed"}]
GroceryPasts == [edits : Nat, yes : Nat, orders : Nat, touched : BOOLEAN, own : BOOLEAN, read : BOOLEAN,
                 loose : BOOLEAN, faults : Nat]
GroceryTypes ==
    /\ lines \in GroceryLines /\ live \in GroceryAnswers
    /\ base \in [set : BOOLEAN, lines : GroceryLines]
    /\ sync \in GroceryFlags /\ order \in GroceryOrders /\ sent \subseteq GroceryCommands
    /\ store \in GroceryStores /\ past \in GroceryPasts

\* Until an order is placed, or an Enter tires of chasing: what is in flight is one
\* write, and the flags say so.
OneWrite ==
    ~past.loose =>
        /\ \A c, d \in sent : c.kind = "write" /\ d.kind = "write" => c = d
        /\ \A c \in sent : c.kind # "clear" /\ (c.kind = "write" => sync.inFlight)
        /\ sync.inFlight => \E c \in sent : c.kind = "write"
        /\ sync.mutating \/ order.placePending => sync.inFlight
        /\ order.placing /\ ~order.placePending => \E c \in sent : c.kind \in {"upi", "cod"}
        /\ place # "done"

\* Lines of the user's that no edit waits for are what is on its way, or what the
\* store made of it.
Faithful ==
    past.own /\ ~past.read /\ ~past.loose /\ ~sync.pending /\ (\A c \in sent : c.kind \notin {"cod", "confirm"}) =>
        /\ ~sync.inFlight => lines.units = store.units
        /\ \A c \in sent : c.kind = "write" => /\ c.state = "sent" => c.units = lines.units
                                               /\ c.state = "ok" => c.cart.units = store.units

GroceryInv == GroceryTypes /\ OneWrite /\ Faithful

-----------------------------------------------------------------------------

LEMMA EmptyTyped == Shop!Empty \in Shop!Carts
<1> QED BY OrdersAssumption DEF Shop!Empty, Shop!Carts

LEMMA LinesTyped ==
    ASSUME NEW u \in Shop!Carts, NEW out \in SUBSET Products
    PROVE  Shop!Lines(u, out) \in GroceryLines /\ Shop!Lines(u, out).units = u
<1> QED BY DEF Shop!Lines, GroceryLines

LEMMA NoLinesTyped == Shop!NoLines \in GroceryLines
<1> QED BY EmptyTyped, LinesTyped DEF Shop!NoLines

LEMMA NoCartTyped == Shop!NoCart \in GroceryAnswers
<1> QED BY EmptyTyped DEF Shop!NoCart, GroceryAnswers, Amounts

\* An answer says what the store holds.
LEMMA CartTyped ==
    ASSUME NEW s \in GroceryStores
    PROVE  Shop!Cart(s) \in GroceryAnswers /\ Shop!Cart(s).units = s.units
<1>1. CASE s.units = Shop!Empty
  <2>1. Shop!Cart(s) = Shop!NoCart
    BY <1>1 DEF Shop!Cart
  <2>2. Shop!NoCart.units = Shop!Empty
    BY DEF Shop!NoCart
  <2> QED BY <1>1, <2>1, <2>2, NoCartTyped
<1>2. CASE s.units # Shop!Empty
  <2>1. s.units \in Shop!Carts /\ s.surge \in {0, 1} /\ s.out \in SUBSET Products
    BY DEF GroceryStores
  <2>2. Shop!Units(s.units) + s.surge \in Amounts
    BY <2>1 DEF Amounts
  <2>3. Shop!Cart(s) = [units |-> s.units, out |-> {p \in s.out : s.units[p] > 0},
                        total |-> Shop!Units(s.units) + s.surge]
    BY <1>2 DEF Shop!Cart
  <2> QED BY <2>1, <2>2, <2>3 DEF GroceryAnswers
<1> QED BY <1>1, <1>2

LEMMA ReplacedTyped ==
    ASSUME store \in GroceryStores, NEW u \in Shop!Carts
    PROVE  Shop!Replaced(u) \in GroceryStores
<1>1. MaxQty \in Nat /\ store.limit \in 1..MaxQty
  BY OrdersAssumption DEF GroceryStores
<1>2. Shop!Capped(u) \in Shop!Carts
  BY <1>1 DEF Shop!Capped, Shop!Carts, Shop!Least
<1> QED BY <1>2 DEF Shop!Replaced, GroceryStores

LEMMA CommandTyped ==
    ASSUME NEW kind \in Shop!Kinds, NEW u \in Shop!Carts
    PROVE  /\ Shop!Command(kind, u) \in GroceryCommands
           /\ Shop!Command(kind, u).kind = kind /\ Shop!Command(kind, u).state = "sent"
           /\ Shop!Command(kind, u).units = u
<1> QED BY NoCartTyped DEF Shop!Command, GroceryCommands, Shop!States

LEMMA WriteTyped ==
    ASSUME NEW u \in Shop!Carts
    PROVE  /\ Shop!Write(u) \in GroceryCommands
           /\ Shop!Write(u).kind = "write" /\ Shop!Write(u).state = "sent" /\ Shop!Write(u).units = u
<1> QED BY CommandTyped DEF Shop!Write, Shop!Kinds

\* An answer takes the place of its command.
LEMMA AnsweredTyped ==
    ASSUME sent \subseteq GroceryCommands, NEW c \in sent, NEW state \in Shop!States,
           NEW cart_ \in GroceryAnswers, Shop!Answered(c, state, cart_)
    PROVE  \E d \in GroceryCommands :
             /\ sent' = (sent \ {c}) \cup {d}
             /\ d.kind = c.kind /\ d.state = state /\ d.units = c.units /\ d.cart = cart_
<1> DEFINE d == [c EXCEPT !.state = state, !.cart = cart_]
<1>1. d \in GroceryCommands /\ d.kind = c.kind /\ d.state = state /\ d.units = c.units /\ d.cart = cart_
  BY DEF GroceryCommands
<1>2. sent' = (sent \ {c}) \cup {d}
  BY DEF Shop!Answered
<1> QED BY <1>1, <1>2

\* A write goes out, or waits for the one that is under way.
LEMMA FireTyped ==
    ASSUME NEW s \in GroceryFlags
    PROVE  /\ Shop!FireNow(s) \in GroceryFlags
           /\ Shop!FireNow(s).inFlight
           /\ Shop!FireNow(s).pending = s.inFlight
           /\ Shop!FireNow(s).mutating = s.mutating
<1>1. CASE s.inFlight
  BY <1>1 DEF Shop!FireNow, GroceryFlags
<1>2. CASE ~s.inFlight
  BY <1>2 DEF Shop!FireNow, GroceryFlags
<1> QED BY <1>1, <1>2

LEMMA FireCmd ==
    ASSUME NEW s \in GroceryFlags, NEW u \in Shop!Carts
    PROVE  /\ s.inFlight => Shop!FireNowCmd(s, u) = {}
           /\ ~s.inFlight => Shop!FireNowCmd(s, u) = {Shop!Write(u)}
           /\ Shop!FireNowCmd(s, u) \subseteq GroceryCommands
<1> QED BY WriteTyped DEF Shop!FireNowCmd

LEMMA EditTyped ==
    ASSUME past \in GroceryPasts, NEW t \in BOOLEAN
    PROVE  LET e == [past EXCEPT !.edits = @ + 1, !.own = TRUE, !.touched = t]
           IN  /\ e \in GroceryPasts /\ e.loose = past.loose /\ e.read = past.read
               /\ e.touched = t /\ e.orders = past.orders
<1> DEFINE e == [past EXCEPT !.edits = @ + 1, !.own = TRUE, !.touched = t]
<1>1. PICK n \in Nat : n = past.edits + 1
  BY DEF GroceryPasts
<1>2. e = [past EXCEPT !.edits = n, !.own = TRUE, !.touched = t]
  BY <1>1
<1>3. e \in GroceryPasts
  BY <1>2 DEF GroceryPasts
<1>4. e.loose = past.loose
  BY <1>2 DEF GroceryPasts
<1>5. e.read = past.read
  BY <1>2 DEF GroceryPasts
<1>6. e.touched = t /\ e.orders = past.orders
  BY <1>2 DEF GroceryPasts
<1> QED BY <1>3, <1>4, <1>5, <1>6

LEMMA EditedTyped ==
    ASSUME past \in GroceryPasts
    PROVE  /\ Shop!Edited \in GroceryPasts /\ Shop!Edited.loose = past.loose /\ Shop!Edited.read = past.read
           /\ Shop!Edited.touched <=> past.touched \/ Shop!Placing
           /\ Shop!Edited.orders = past.orders
<1>1. CASE past.touched \/ Shop!Placing
  <2>1. (past.touched \/ Shop!Placing) = TRUE
    BY <1>1
  <2>2. Shop!Edited = [past EXCEPT !.edits = @ + 1, !.own = TRUE, !.touched = TRUE]
    BY <2>1, Zenon DEF Shop!Edited
  <2> QED BY <2>1, <2>2, EditTyped, Zenon
<1>2. CASE ~(past.touched \/ Shop!Placing)
  <2>1. (past.touched \/ Shop!Placing) = FALSE
    BY <1>2
  <2>2. Shop!Edited = [past EXCEPT !.edits = @ + 1, !.own = TRUE, !.touched = FALSE]
    BY <2>1, Zenon DEF Shop!Edited
  <2> QED BY <2>1, <2>2, EditTyped, Zenon
<1> QED BY <1>1, <1>2

LEMMA DisownedTyped ==
    ASSUME past \in GroceryPasts
    PROVE  /\ Shop!Disowned \in GroceryPasts /\ ~Shop!Disowned.own /\ Shop!Disowned.loose = past.loose
           /\ Shop!Disowned.touched = past.touched /\ Shop!Disowned.orders = past.orders
<1> QED BY DEF Shop!Disowned, GroceryPasts

\* A read replaces the lines, perhaps while an order is being placed.
LEMMA OvertakenTyped ==
    ASSUME past \in GroceryPasts
    PROVE  /\ Shop!Overtaken \in GroceryPasts /\ Shop!Overtaken.loose = past.loose
           /\ Shop!Overtaken.touched <=> past.touched \/ Shop!Placing
           /\ Shop!Overtaken.orders = past.orders
<1>1. CASE past.touched \/ Shop!Placing
  <2>1. Shop!Overtaken = [past EXCEPT !.touched = TRUE]
    BY <1>1, Zenon DEF Shop!Overtaken
  <2> QED BY <1>1, <2>1 DEF GroceryPasts
<1>2. CASE ~(past.touched \/ Shop!Placing)
  <2>1. Shop!Overtaken = [past EXCEPT !.touched = FALSE]
    BY <1>2, Zenon DEF Shop!Overtaken
  <2> QED BY <1>2, <2>1 DEF GroceryPasts
<1> QED BY <1>1, <1>2

LEMMA FaultTyped ==
    ASSUME past \in GroceryPasts, Shop!Fault
    PROVE  /\ past' \in GroceryPasts /\ past'.own = past.own /\ past'.read = past.read /\ past'.loose = past.loose
           /\ past'.touched = past.touched /\ past'.orders = past.orders
<1> QED BY DEF Shop!Fault, GroceryPasts

-----------------------------------------------------------------------------
(* What a step may be to the two: it leaves the writes, sends one, or hears of it. *)

\* Neither a write nor what the lines are due to.
LEMMA LeavesWrites ==
    ASSUME OneWrite, Faithful, place' # "done",
           \A c \in sent' : c.kind \in {"write", "clear"} => c \in sent,
           \A c \in sent : c.kind = "write" => c \in sent',
           sync'.inFlight = sync.inFlight, sync'.mutating = sync.mutating, past'.loose = past.loose,
           order'.placePending = order.placePending,
           order'.placing => /\ order.placing
                             /\ (\E c \in sent : c.kind \in {"upi", "cod"}) => \E c \in sent' : c.kind \in {"upi", "cod"},
           past'.own /\ ~past'.read /\ ~sync'.pending /\ (\A c \in sent' : c.kind \notin {"cod", "confirm"}) =>
              /\ past.own /\ ~past.read /\ ~sync.pending /\ \A c \in sent : c.kind \notin {"cod", "confirm"}
              /\ lines'.units = lines.units /\ store'.units = store.units
    PROVE  OneWrite' /\ Faithful'
<1>1. OneWrite'
  BY DEF OneWrite
<1>2. Faithful'
  BY DEF OneWrite, Faithful
<1> QED BY <1>1, <1>2

\* The one write is the lines.
LEMMA SendsOne ==
    ASSUME NEW w, w \in sent', \A c \in sent' : c.kind # "clear" /\ (c.kind = "write" => c = w),
           w.kind = "write", w.state = "sent", w.units = lines'.units,
           sync'.inFlight, place' # "done",
           order'.placing /\ ~order'.placePending => \E c \in sent' : c.kind \in {"upi", "cod"}
    PROVE  OneWrite' /\ Faithful'
<1>1. OneWrite'
  BY DEF OneWrite
<1>2. Faithful'
  BY DEF Faithful
<1> QED BY <1>1, <1>2

\* No write is left.
LEMMA LandsOne ==
    ASSUME \A c \in sent' : c.kind \notin {"write", "clear"},
           ~sync'.inFlight, ~sync'.mutating, ~order'.placePending, place' # "done",
           order'.placing => \E c \in sent' : c.kind \in {"upi", "cod"},
           past'.own /\ ~past'.read /\ ~past'.loose /\ ~sync'.pending
             /\ (\A c \in sent' : c.kind \notin {"cod", "confirm"}) => lines'.units = store'.units
    PROVE  OneWrite' /\ Faithful'
<1>1. OneWrite'
  BY DEF OneWrite
<1>2. Faithful'
  BY DEF Faithful
<1> QED BY <1>1, <1>2

\* A write goes out, or waits behind the one in flight, which the lines are due to no more.
LEMMA Fires ==
    ASSUME GroceryTypes, OneWrite, ~past.loose, NEW s \in GroceryFlags, s.inFlight = sync.inFlight,
           lines'.units \in Shop!Carts, sent' = sent \cup Shop!FireNowCmd(s, lines'.units),
           sync'.inFlight, sync.inFlight => sync'.pending,
           place' # "done", UNCHANGED <<order, store>>, past'.loose = past.loose
    PROVE  OneWrite' /\ Faithful'
<1>1. CASE sync.inFlight
  <2>1. sent' = sent
    BY <1>1, FireCmd
  <2>2. OneWrite'
    BY <1>1, <2>1 DEF OneWrite
  <2>3. Faithful'
    BY <1>1 DEF Faithful
  <2> QED BY <2>2, <2>3
<1>2. CASE ~sync.inFlight
  <2> DEFINE w == Shop!Write(lines'.units)
  <2>1. w.kind = "write" /\ w.state = "sent" /\ w.units = lines'.units
    BY WriteTyped
  <2>2. sent' = sent \cup {w}
    BY <1>2, FireCmd
  <2> HIDE DEF w
  <2>3. \A c \in sent : c.kind # "clear" /\ c.kind # "write"
    BY <1>2 DEF OneWrite
  <2>4. order'.placing /\ ~order'.placePending => \E c \in sent' : c.kind \in {"upi", "cod"}
    BY <2>2 DEF OneWrite
  <2> QED BY <2>1, <2>2, <2>3, <2>4, SendsOne
<1> QED BY <1>1, <1>2

-----------------------------------------------------------------------------
(* Keys                                                                      *)

LEMMA WithTyped ==
    ASSUME lines \in GroceryLines, NEW p \in Products, NEW n \in 0..MaxQty
    PROVE  Shop!With(lines, p, n) \in GroceryLines
<1>1. [lines.units EXCEPT ![p] = n] \in Shop!Carts /\ lines.out \in SUBSET Products
  BY DEF GroceryLines, Shop!Carts
<1> QED BY <1>1, LinesTyped DEF Shop!With

\* An edit of the lines that arms a write.
LEMMA Arms ==
    ASSUME GroceryInv, place # "done" \/ past.loose, lines' \in GroceryLines, sync' = Shop!Armed, past' = Shop!Edited,
           UNCHANGED <<place, modal, base, live, order, sent, store>>
    PROVE  GroceryInv'
<1> USE DEF GroceryInv
<1>1. sync' \in GroceryFlags /\ sync'.pending /\ sync'.inFlight = sync.inFlight /\ sync'.mutating = sync.mutating
  BY DEF Shop!Armed, GroceryTypes, GroceryFlags
<1>2. past' \in GroceryPasts /\ past'.loose = past.loose
  BY EditedTyped DEF GroceryTypes
<1>3. GroceryTypes'
  BY <1>1, <1>2 DEF GroceryTypes
<1>4. CASE past.loose
  BY <1>2, <1>3, <1>4 DEF OneWrite, Faithful
<1>5. CASE ~past.loose
  <2>1. OneWrite' /\ Faithful'
    BY <1>1, <1>2, <1>5, LeavesWrites
  <2> QED BY <1>3, <2>1
<1> QED BY <1>4, <1>5

\* A key that leaves the cart alone; it may send a read.
LEMMA Looks ==
    ASSUME GroceryInv, place' # "done" \/ past.loose, UNCHANGED <<lines, base, live, store, past>>,
           sync' \in GroceryFlags, sync'.pending = sync.pending, sync'.inFlight = sync.inFlight,
           sync'.mutating = sync.mutating,
           order' \in GroceryOrders, order'.placing = order.placing, order'.placePending = order.placePending,
           NEW new \in SUBSET GroceryCommands, sent' = sent \cup new,
           \A c \in new : c.kind \in {"load", "pull", "confirm"}
    PROVE  GroceryInv'
<1> USE DEF GroceryInv
<1>1. GroceryTypes'
  BY DEF GroceryTypes
<1>2. CASE past.loose
  BY <1>1, <1>2 DEF OneWrite, Faithful
<1>3. CASE ~past.loose
  <2>1. OneWrite' /\ Faithful'
    BY <1>3, LeavesWrites
  <2> QED BY <1>1, <2>1
<1> QED BY <1>2, <1>3

LEMMA SettleHolds ==
    ASSUME GroceryInv, Shop!Settle
    PROVE  GroceryInv'
<1> USE DEF GroceryInv, Shop!Settle
<1>1. lines.units \in Shop!Carts /\ sync \in GroceryFlags /\ ~sync.inFlight
  BY DEF GroceryTypes, GroceryLines
<1>2. sent' = sent \cup Shop!FireNowCmd(sync, lines'.units)
  BY <1>1, FireCmd
<1>3. sync' \in GroceryFlags /\ sync'.inFlight
  BY <1>1, FireTyped
<1>4. sent' \subseteq GroceryCommands
  BY <1>1, <1>2, FireCmd DEF GroceryTypes
<1>5. GroceryTypes'
  BY <1>3, <1>4 DEF GroceryTypes
<1>6. CASE past.loose
  BY <1>5, <1>6 DEF OneWrite, Faithful
<1>7. CASE ~past.loose
  <2>1. place' # "done"
    BY <1>7 DEF OneWrite
  <2>2. OneWrite' /\ Faithful'
    BY <1>1, <1>2, <1>3, <1>7, <2>1, Fires
  <2> QED BY <1>5, <2>2
<1> QED BY <1>6, <1>7

LEMMA EditKeys ==
    ASSUME GroceryInv, NEW p \in Products, Shop!Add(p) \/ Shop!Dec(p) \/ Shop!Inc(p)
    PROVE  GroceryInv'
<1> USE DEF GroceryInv
<1>1. MaxQty \in Nat /\ lines \in GroceryLines /\ lines.units[p] \in 0..MaxQty
  BY OrdersAssumption DEF GroceryTypes, GroceryLines, Shop!Carts
<1>2. place \in {"browse", "checkout"} /\ sync' = Shop!Armed /\ past' = Shop!Edited
  BY DEF Shop!Add, Shop!Dec, Shop!Inc, Shop!Unfrozen
<1>3. UNCHANGED <<place, modal, base, live, order, sent, store>>
  BY DEF Shop!Add, Shop!Dec, Shop!Inc
<1>4. lines' \in GroceryLines
  <2>1. CASE Shop!Add(p)
    BY <1>1, <2>1, WithTyped DEF Shop!Add
  <2>2. CASE Shop!Dec(p)
    BY <1>1, <2>2, WithTyped DEF Shop!Dec
  <2>3. CASE Shop!Inc(p)
    BY <1>1, <2>3, WithTyped DEF Shop!Inc
  <2> QED BY <2>1, <2>2, <2>3
<1> QED BY <1>2, <1>3, <1>4, Arms

LEMMA ReduceHolds ==
    ASSUME GroceryInv, NEW p \in Products, Shop!Reduce(p)
    PROVE  GroceryInv'
<1> USE DEF GroceryInv
<1>1. MaxQty \in Nat /\ lines \in GroceryLines /\ lines.units[p] \in 0..MaxQty /\ sync \in GroceryFlags
  BY OrdersAssumption DEF GroceryTypes, GroceryLines, Shop!Carts
<1>2. lines' \in GroceryLines /\ lines'.units \in Shop!Carts
  <2>1. PICK n \in {0, lines.units[p] - 1} : lines' = Shop!With(lines, p, n)
    BY DEF Shop!Reduce
  <2>2. n \in 0..MaxQty
    BY <1>1 DEF Shop!Reduce
  <2> QED BY <1>1, <2>1, <2>2, WithTyped DEF GroceryLines
<1>3. sync' \in GroceryFlags /\ sync'.inFlight /\ (sync.inFlight => sync'.pending)
  <2> DEFINE f == Shop!FireNow(sync)
  <2>1. f \in GroceryFlags /\ f.inFlight /\ f.pending = sync.inFlight
    BY <1>1, FireTyped
  <2>2. sync' = [f EXCEPT !.mutating = TRUE]
    BY DEF Shop!Reduce
  <2> HIDE DEF f
  <2> QED BY <2>1, <2>2 DEF GroceryFlags
<1>4. sent' = sent \cup Shop!FireNowCmd(sync, lines'.units) /\ place = "checkout"
  BY DEF Shop!Reduce, Shop!Unfrozen
<1>5. past' \in GroceryPasts /\ past'.loose = past.loose
  BY EditedTyped DEF GroceryTypes, Shop!Reduce
<1>6. UNCHANGED <<place, base, live, order, store>>
  BY DEF Shop!Reduce
<1>7. GroceryTypes'
  BY <1>1, <1>2, <1>3, <1>4, <1>5, <1>6, FireCmd DEF GroceryTypes
<1>8. CASE past.loose
  BY <1>5, <1>7, <1>8 DEF OneWrite, Faithful
<1>9. CASE ~past.loose
  <2>1. OneWrite' /\ Faithful'
    BY <1>1, <1>2, <1>3, <1>4, <1>5, <1>6, <1>9, Fires
  <2> QED BY <1>7, <2>1
<1> QED BY <1>8, <1>9

LEMMA EnterHolds ==
    ASSUME GroceryInv, Shop!Enter
    PROVE  GroceryInv'
<1> USE DEF GroceryInv
<1>1. sync \in GroceryFlags /\ lines.units \in Shop!Carts /\ place = "checkout"
  BY DEF GroceryTypes, GroceryLines, Shop!Enter, Shop!Unfrozen
<1>2. UNCHANGED <<place, lines, base, live, order, store, past>>
  BY DEF Shop!Enter
<1>3. CASE UNCHANGED <<sync, sent>>
  <2>1. GroceryTypes'
    BY <1>2, <1>3 DEF GroceryTypes
  <2>2. OneWrite' /\ Faithful'
    BY <1>2, <1>3 DEF OneWrite, Faithful
  <2> QED BY <2>1, <2>2
<1>4. CASE /\ sync' = [Shop!FireNow(sync) EXCEPT !.confirmPending = TRUE, !.chase = 0, !.mutating = TRUE]
           /\ sent' = sent \cup Shop!FireNowCmd(sync, lines.units)
  <2> DEFINE f == Shop!FireNow(sync)
  <2>1. f \in GroceryFlags /\ f.inFlight /\ f.pending = sync.inFlight
    BY <1>1, FireTyped
  <2>2. sync' = [f EXCEPT !.confirmPending = TRUE, !.chase = 0, !.mutating = TRUE]
    BY <1>4
  <2> HIDE DEF f
  <2>3. sync' \in GroceryFlags /\ sync'.inFlight /\ (sync.inFlight => sync'.pending)
    BY <2>1, <2>2 DEF GroceryFlags
  <2>4. GroceryTypes'
    BY <1>1, <1>2, <1>4, <2>3, FireCmd DEF GroceryTypes
  <2>5. CASE past.loose
    BY <1>2, <2>4, <2>5 DEF OneWrite, Faithful
  <2>6. CASE ~past.loose
    <3>1. OneWrite' /\ Faithful'
      BY <1>1, <1>2, <1>4, <2>3, <2>6, Fires
    <3> QED BY <2>4, <3>1
  <2> QED BY <2>5, <2>6
<1> QED BY <1>3, <1>4 DEF Shop!Enter

LEMMA VisitHolds ==
    ASSUME GroceryInv, Shop!Visit
    PROVE  GroceryInv'
<1> USE DEF GroceryInv
<1>1. sync \in GroceryFlags
  BY DEF GroceryTypes
<1>2. /\ sync' \in GroceryFlags /\ sync'.pending = sync.pending /\ sync'.inFlight = sync.inFlight
      /\ sync'.mutating = sync.mutating
  BY <1>1 DEF Shop!Visit, GroceryFlags
<1> DEFINE new == IF sync.pulled THEN {} ELSE {Shop!Command("pull", Shop!Empty)}
<1>3. /\ Shop!Command("pull", Shop!Empty) \in GroceryCommands
      /\ Shop!Command("pull", Shop!Empty).kind = "pull"
  BY EmptyTyped, CommandTyped DEF Shop!Kinds
<1>4. new \in SUBSET GroceryCommands /\ (\A c \in new : c.kind \in {"load", "pull", "confirm"})
  BY <1>3
<1>5. sent' = sent \cup new
  BY DEF Shop!Visit
<1>6. UNCHANGED <<lines, base, live, order, store, past>> /\ place' = "browse"
  BY DEF Shop!Visit
<1>7. order' \in GroceryOrders
  BY <1>6 DEF GroceryTypes
<1> HIDE DEF new
<1> QED BY <1>2, <1>4, <1>5, <1>6, <1>7, Looks

\* The keys that send nothing and change no cart.
LEMMA StillHolds ==
    ASSUME GroceryInv, Shop!Home \/ Shop!Back \/ Shop!No \/ Shop!DropPayment
    PROVE  GroceryInv'
<1> USE DEF GroceryInv
<1>1. UNCHANGED <<lines, base, live, store, past, sync, sent>>
  BY DEF Shop!Home, Shop!Back, Shop!No, Shop!DropPayment
<1>2. place' # "done" \/ past.loose
  BY DEF Shop!Home, Shop!Back, Shop!No, Shop!DropPayment, OneWrite
<1>3. /\ order' \in GroceryOrders /\ order'.placing = order.placing
      /\ order'.placePending = order.placePending
  <2>1. order \in GroceryOrders
    BY DEF GroceryTypes
  <2>2. CASE UNCHANGED order
    BY <2>1, <2>2
  <2>3. CASE Shop!DropPayment
    BY <2>1, <2>3 DEF Shop!DropPayment, GroceryOrders
  <2> QED BY <2>2, <2>3 DEF Shop!Home, Shop!Back, Shop!No
<1>4. sync' \in GroceryFlags
  BY <1>1 DEF GroceryTypes
<1> DEFINE none == {}
<1>5. none \in SUBSET GroceryCommands /\ sent' = sent \cup none /\ \A c \in none : c.kind \in {"load", "pull", "confirm"}
  BY <1>1
<1> HIDE DEF none
<1> QED BY <1>1, <1>2, <1>3, <1>4, <1>5, Looks

LEMMA CheckoutHolds ==
    ASSUME GroceryInv, Shop!ToCheckout
    PROVE  GroceryInv'
<1> USE DEF GroceryInv
<1>1. sync \in GroceryFlags /\ order \in GroceryOrders /\ lines.units \in Shop!Carts
  BY DEF GroceryTypes, GroceryLines
<1>2. UNCHANGED <<lines, base, live, order, store, past>> /\ place' = "checkout"
  BY DEF Shop!ToCheckout
<1>3. CASE sync' = Shop!FireNow(sync) /\ sent' = sent \cup Shop!FireNowCmd(sync, lines.units)
  <2>1. sync' \in GroceryFlags /\ sync'.inFlight /\ (sync.inFlight => sync'.pending)
    BY <1>1, <1>3, FireTyped
  <2>2. GroceryTypes'
    BY <1>1, <1>2, <1>3, <2>1, FireCmd DEF GroceryTypes
  <2>3. CASE past.loose
    BY <1>2, <2>2, <2>3 DEF OneWrite, Faithful
  <2>4. CASE ~past.loose
    <3>1. OneWrite' /\ Faithful'
      BY <1>1, <1>2, <1>3, <2>1, <2>4, Fires
    <3> QED BY <2>2, <3>1
  <2> QED BY <2>3, <2>4
<1>4. CASE sent' = sent \cup {Shop!Command("load", Shop!Empty)} /\ UNCHANGED sync
  <2> DEFINE new == {Shop!Command("load", Shop!Empty)}
  <2>1. new \in SUBSET GroceryCommands /\ \A c \in new : c.kind \in {"load", "pull", "confirm"}
    BY EmptyTyped, CommandTyped DEF Shop!Kinds
  <2>2. sent' = sent \cup new
    BY <1>4
  <2> HIDE DEF new
  <2> QED BY <1>1, <1>2, <1>4, <2>1, <2>2, Looks
<1> QED BY <1>3, <1>4 DEF Shop!ToCheckout

LEMMA YesPast ==
    ASSUME past \in GroceryPasts, NEW t \in BOOLEAN, NEW l \in BOOLEAN
    PROVE  LET e == [past EXCEPT !.yes = @ + 1, !.touched = t, !.loose = l]
           IN  e \in GroceryPasts /\ e.loose = l /\ e.touched = t /\ e.orders = past.orders
<1> DEFINE e == [past EXCEPT !.yes = @ + 1, !.touched = t, !.loose = l]
<1>1. PICK n \in Nat : n = past.yes + 1
  BY DEF GroceryPasts
<1>2. e = [past EXCEPT !.yes = n, !.touched = t, !.loose = l]
  BY <1>1
<1>3. e \in GroceryPasts
  BY <1>2 DEF GroceryPasts
<1>4. e.loose = l
  BY <1>2 DEF GroceryPasts
<1>5. e.touched = t /\ e.orders = past.orders
  BY <1>2 DEF GroceryPasts
<1> QED BY <1>3, <1>4, <1>5

LEMMA PayTyped ==
    ASSUME GroceryTypes
    PROVE  Shop!PayAmount \in Amounts
<1>1. live.total \in Amounts /\ lines.units \in Shop!Carts
  BY DEF GroceryTypes, GroceryAnswers, GroceryLines
<1>2. Shop!Units(lines.units) \in Amounts
  BY <1>1 DEF Amounts
<1> QED BY <1>1, <1>2 DEF Shop!PayAmount

\* The last write of an order is the one write, unless another is in flight.
LEMMA YesHolds ==
    ASSUME GroceryInv, Shop!Yes
    PROVE  GroceryInv'
<1> USE DEF GroceryInv
<1>1. sync \in GroceryFlags /\ order \in GroceryOrders /\ past \in GroceryPasts /\ lines.units \in Shop!Carts
  BY DEF GroceryTypes, GroceryLines
<1>2. UNCHANGED <<place, lines, base, live, store>>
  BY DEF Shop!Yes
<1>3. CASE UNCHANGED <<sync, order, sent, past>>
  <2>1. GroceryTypes'
    BY <1>2, <1>3 DEF GroceryTypes
  <2>2. OneWrite' /\ Faithful'
    BY <1>2, <1>3 DEF OneWrite, Faithful
  <2> QED BY <2>1, <2>2
<1>4. CASE ~order.placing
  <2>1. /\ sync' = [sync EXCEPT !.pending = FALSE, !.inFlight = TRUE]
        /\ order' = [order EXCEPT !.placing = TRUE, !.placePending = TRUE,
                                  !.total = Shop!PayAmount, !.approved = lines.units]
        /\ sent' = sent \cup {Shop!Write(lines.units)}
        /\ past' = [past EXCEPT !.yes = @ + 1, !.touched = Shop!Placing, !.loose = @ \/ sync.inFlight]
    BY <1>4 DEF Shop!Yes
  <2>2. sync' \in GroceryFlags /\ sync'.inFlight
    BY <1>1, <2>1 DEF GroceryFlags
  <2>3. order' \in GroceryOrders /\ order'.placePending
    BY <1>1, <2>1, PayTyped DEF GroceryOrders
  <2>4. past' \in GroceryPasts /\ (past'.loose <=> past.loose \/ sync.inFlight)
    <3>1. Shop!Placing \in BOOLEAN /\ (past.loose \/ sync.inFlight) \in BOOLEAN
      BY DEF Shop!Placing
    <3> QED BY <1>1, <2>1, <3>1, YesPast, Zenon
  <2> DEFINE w == Shop!Write(lines.units)
  <2>5. w \in GroceryCommands /\ w.kind = "write" /\ w.state = "sent" /\ w.units = lines.units
    BY <1>1, WriteTyped
  <2>6. sent' = sent \cup {w}
    BY <2>1
  <2> HIDE DEF w
  <2>7. GroceryTypes'
    BY <1>2, <2>2, <2>3, <2>4, <2>5, <2>6 DEF GroceryTypes
  <2>8. CASE past'.loose
    BY <2>7, <2>8 DEF OneWrite, Faithful
  <2>9. CASE ~past'.loose
    <3>1. ~past.loose /\ ~sync.inFlight
      BY <2>4, <2>9
    <3>2. \A c \in sent' : c.kind # "clear" /\ (c.kind = "write" => c = w)
      BY <2>6, <2>5, <3>1 DEF OneWrite
    <3>3. place' # "done"
      BY <1>2, <3>1 DEF OneWrite
    <3>4. OneWrite' /\ Faithful'
      BY <1>2, <2>2, <2>3, <2>5, <2>6, <3>2, <3>3, SendsOne
    <3> QED BY <2>7, <3>4
  <2> QED BY <2>8, <2>9
<1> QED BY <1>3, <1>4 DEF Shop!Yes

LEMMA LeaveHolds ==
    ASSUME GroceryInv, Shop!Leave
    PROVE  GroceryInv'
<1> USE DEF GroceryInv
<1>1. past' \in GroceryPasts /\ past'.loose = past.loose
  BY DisownedTyped DEF GroceryTypes, Shop!Leave
<1>2. past.loose
  BY DEF OneWrite, Shop!Leave
<1>3. sync' \in GroceryFlags
  BY DEF Shop!Leave, GroceryTypes, GroceryFlags
<1>4. GroceryTypes'
  BY <1>1, <1>3, NoLinesTyped, NoCartTyped DEF Shop!Leave, GroceryTypes
<1> QED BY <1>1, <1>2, <1>4 DEF OneWrite, Faithful

-----------------------------------------------------------------------------
(* Swiggy                                                                    *)

\* Swiggy answers a command; what it makes of the cart is left to the caller.
LEMMA ServeTypes ==
    ASSUME GroceryTypes, NEW c \in sent, NEW d \in GroceryCommands, sent' = (sent \ {c}) \cup {d},
           UNCHANGED Shop!loop, store' \in GroceryStores, past' \in GroceryPasts
    PROVE  GroceryTypes'
<1> QED BY DEF GroceryTypes, Shop!loop

LEMMA ServeWriteHolds ==
    ASSUME GroceryInv, NEW c \in sent, c.state = "sent", UNCHANGED Shop!loop, Shop!ServeWrite(c)
    PROVE  GroceryInv'
<1> USE DEF GroceryInv
<1>1. sent \subseteq GroceryCommands /\ c \in GroceryCommands /\ c.units \in Shop!Carts /\ store \in GroceryStores
      /\ past \in GroceryPasts
  BY DEF GroceryTypes, GroceryCommands
<1>2. Shop!Replaced(c.units) \in GroceryStores
  BY <1>1, ReplacedTyped
<1>3. store' \in GroceryStores
  BY <1>1, <1>2, EmptyTyped DEF Shop!ServeWrite, GroceryStores
<1>4. past' \in GroceryPasts /\ past'.own = past.own /\ past'.read = past.read /\ past'.loose = past.loose
  BY <1>1, FaultTyped DEF Shop!ServeWrite
<1>5. PICK d \in GroceryCommands :
        /\ sent' = (sent \ {c}) \cup {d} /\ d.kind = c.kind /\ d.units = c.units
        /\ d.state \in {"ok", "error", "closed", "expired"}
        /\ d.state = "ok" => d.cart.units = store'.units
  <2>1. CASE Shop!Answered(c, "ok", Shop!Cart(store'))
    <3>1. Shop!Cart(store') \in GroceryAnswers /\ Shop!Cart(store').units = store'.units /\ "ok" \in Shop!States
      BY <1>3, CartTyped DEF Shop!States
    <3> QED BY <1>1, <2>1, <3>1, AnsweredTyped
  <2>2. ASSUME NEW state \in {"error", "closed", "expired"}, Shop!Answered(c, state, Shop!NoCart)
        PROVE  \E d \in GroceryCommands :
                 /\ sent' = (sent \ {c}) \cup {d} /\ d.kind = c.kind /\ d.units = c.units
                 /\ d.state \in {"ok", "error", "closed", "expired"}
                 /\ d.state = "ok" => d.cart.units = store'.units
    <3>1. state \in Shop!States /\ state # "ok"
      BY DEF Shop!States
    <3>2. PICK d \in GroceryCommands : 
             /\ sent' = (sent \ {c}) \cup {d}
             /\ d.kind = c.kind /\ d.state = state /\ d.units = c.units
      BY <1>1, <2>2, <3>1, NoCartTyped, AnsweredTyped
    <3> QED BY <3>1, <3>2
  <2> QED BY <2>1, <2>2 DEF Shop!ServeWrite
<1>6. GroceryTypes'
  BY <1>3, <1>4, <1>5, ServeTypes
<1>7. CASE past.loose
  BY <1>4, <1>6, <1>7 DEF OneWrite, Faithful
<1>8. CASE ~past.loose
  <2>1. UNCHANGED <<sync, order, place, lines>>
    BY DEF Shop!loop
  <2>2. c.kind = "write" /\ sync.inFlight
    BY <1>8 DEF OneWrite, Shop!ServeWrite, Shop!Writes
  <2>3. \A e \in sent' : e.kind = "write" => e = d
    BY <1>5, <1>8, <2>2 DEF OneWrite
  <2>4. OneWrite'
    BY <1>4, <1>5, <1>8, <2>1, <2>2, <2>3 DEF OneWrite
  <2>5. Faithful'
    BY <1>5, <2>1, <2>2, <2>3 DEF Faithful
  <2> QED BY <1>6, <2>4, <2>5
<1> QED BY <1>7, <1>8

\* What is neither a write nor waits for one is answered: a read, an order, a payment.
LEMMA ServeOther ==
    ASSUME GroceryInv, NEW c \in sent, c.kind \in {"load", "pull", "upi", "cod", "confirm"},
           UNCHANGED Shop!loop, NEW d \in GroceryCommands, sent' = (sent \ {c}) \cup {d}, d.kind = c.kind,
           store' \in GroceryStores, past' \in GroceryPasts,
           past'.own = past.own, past'.read = past.read, past'.loose = past.loose,
           c.kind \in {"load", "pull", "upi"} => store'.units = store.units
    PROVE  GroceryInv'
<1> USE DEF GroceryInv
<1>1. GroceryTypes'
  BY ServeTypes
<1>2. CASE past.loose
  BY <1>1, <1>2 DEF OneWrite, Faithful
<1>3. CASE ~past.loose
  <2>1. UNCHANGED <<sync, order, place, lines>>
    BY DEF Shop!loop
  <2>2. place' # "done"
    BY <1>3, <2>1 DEF OneWrite
  <2>3. \A e \in sent' : e.kind \in {"write", "clear"} => e \in sent
    OBVIOUS
  <2>4. \A e \in sent : e.kind = "write" => e \in sent'
    OBVIOUS
  <2>5. (\E e \in sent : e.kind \in {"upi", "cod"}) => \E e \in sent' : e.kind \in {"upi", "cod"}
    OBVIOUS
  <2>6. (\A e \in sent' : e.kind \notin {"cod", "confirm"}) => /\ \A e \in sent : e.kind \notin {"cod", "confirm"}
                                                               /\ store'.units = store.units
    OBVIOUS
  <2>7. OneWrite' /\ Faithful'
    BY <2>1, <2>2, <2>3, <2>4, <2>5, <2>6, LeavesWrites
  <2> QED BY <1>1, <2>7
<1> QED BY <1>2, <1>3

LEMMA ServeReadHolds ==
    ASSUME GroceryInv, NEW c \in sent, UNCHANGED Shop!loop, Shop!ServeRead(c)
    PROVE  GroceryInv'
<1> USE DEF GroceryInv
<1>1. sent \subseteq GroceryCommands /\ store \in GroceryStores /\ past \in GroceryPasts
  BY DEF GroceryTypes
<1>2. past' \in GroceryPasts /\ past'.own = past.own /\ past'.read = past.read /\ past'.loose = past.loose
  BY <1>1, FaultTyped DEF Shop!ServeRead
<1>3. PICK d \in GroceryCommands : sent' = (sent \ {c}) \cup {d} /\ d.kind = c.kind
  <2>1. "ok" \in Shop!States /\ "error" \in Shop!States
    BY DEF Shop!States
  <2>2. CASE Shop!Answered(c, "ok", Shop!Cart(store))
    BY <1>1, <2>1, <2>2, CartTyped, AnsweredTyped
  <2>3. CASE Shop!Answered(c, "error", Shop!NoCart)
    BY <1>1, <2>1, <2>3, NoCartTyped, AnsweredTyped
  <2> QED BY <2>2, <2>3 DEF Shop!ServeRead
<1>4. c.kind \in {"load", "pull"} /\ UNCHANGED store
  BY DEF Shop!ServeRead
<1> QED BY <1>1, <1>2, <1>3, <1>4, ServeOther

LEMMA ServeOrderHolds ==
    ASSUME GroceryInv, NEW c \in sent, UNCHANGED Shop!loop, Shop!ServeOrder(c)
    PROVE  GroceryInv'
<1> USE DEF GroceryInv
<1>1. sent \subseteq GroceryCommands /\ store \in GroceryStores /\ past \in GroceryPasts
  BY DEF GroceryTypes
<1>2. past' \in GroceryPasts /\ past'.own = past.own /\ past'.read = past.read /\ past'.loose = past.loose
  <2>1. CASE UNCHANGED past
    BY <1>1, <2>1
  <2>2. CASE past' = [past EXCEPT !.orders = @ + 1]
    BY <1>1, <2>2 DEF GroceryPasts
  <2>3. CASE past' = [past EXCEPT !.faults = @ + 1]
    BY <1>1, <2>3 DEF GroceryPasts
  <2>4. CASE past' = [past EXCEPT !.faults = @ + 1, !.orders = @ + 1]
    <3>1. PICK n \in Nat, k \in Nat : n = past.faults + 1 /\ k = past.orders + 1
      BY <1>1 DEF GroceryPasts
    <3>2. past' = [past EXCEPT !.faults = n, !.orders = k]
      BY <2>4, <3>1
    <3> QED BY <1>1, <3>2 DEF GroceryPasts
  <2> QED BY <2>1, <2>2, <2>3, <2>4 DEF Shop!ServeOrder
<1>3. PICK d \in GroceryCommands : sent' = (sent \ {c}) \cup {d} /\ d.kind = c.kind
  <2>1. \E state \in {"error", "noqr", "ok"} : Shop!Answered(c, state, Shop!NoCart)
    BY DEF Shop!ServeOrder
  <2>2. {"error", "noqr", "ok"} \subseteq Shop!States
    BY DEF Shop!States
  <2> QED BY <1>1, <2>1, <2>2, NoCartTyped, AnsweredTyped
<1>4. c.kind \in {"upi", "cod"} /\ store' \in {store, Shop!Emptied(c)}
  BY DEF Shop!ServeOrder
<1>5. Shop!Emptied(c) \in GroceryStores /\ (c.kind = "upi" => Shop!Emptied(c) = store)
  BY <1>1, EmptyTyped DEF Shop!Emptied, GroceryStores
<1> QED BY <1>1, <1>2, <1>3, <1>4, <1>5, ServeOther

LEMMA ServeConfirmHolds ==
    ASSUME GroceryInv, NEW c \in sent, UNCHANGED Shop!loop, Shop!ServeConfirm(c)
    PROVE  GroceryInv'
<1> USE DEF GroceryInv
<1>1. sent \subseteq GroceryCommands /\ store \in GroceryStores /\ past \in GroceryPasts
  BY DEF GroceryTypes
<1>2. past' \in GroceryPasts /\ past'.own = past.own /\ past'.read = past.read /\ past'.loose = past.loose
  BY <1>1, FaultTyped DEF Shop!ServeConfirm
<1>3. PICK d \in GroceryCommands : sent' = (sent \ {c}) \cup {d} /\ d.kind = c.kind
  <2>1. \E state \in {"error", "ok"} : Shop!Answered(c, state, Shop!NoCart)
    BY DEF Shop!ServeConfirm
  <2>2. {"error", "ok"} \subseteq Shop!States
    BY DEF Shop!States
  <2> QED BY <1>1, <2>1, <2>2, NoCartTyped, AnsweredTyped
<1>4. c.kind = "confirm" /\ store' \in GroceryStores
  BY <1>1, EmptyTyped DEF Shop!ServeConfirm, GroceryStores
<1> QED BY <1>1, <1>2, <1>3, <1>4, ServeOther

LEMMA MoveHolds ==
    ASSUME GroceryInv, Shop!Move
    PROVE  GroceryInv'
<1> USE DEF GroceryInv
<1>1. past' \in GroceryPasts /\ past'.own = past.own /\ past'.read = past.read /\ past'.loose = past.loose
  BY FaultTyped DEF Shop!Move, GroceryTypes
<1>2. store' \in GroceryStores /\ store'.units = store.units
  <2>1. store \in GroceryStores
    BY DEF GroceryTypes
  <2>2. CASE store' = [store EXCEPT !.surge = 1 - @]
    <3>1. 1 - store.surge \in {0, 1}
      BY <2>1 DEF GroceryStores
    <3> QED BY <2>1, <2>2, <3>1 DEF GroceryStores
  <2>3. ASSUME NEW p \in Products,
               store' = [store EXCEPT !.out = IF p \in @ THEN @ \ {p} ELSE @ \cup {p}]
        PROVE  store' \in GroceryStores /\ store'.units = store.units
    <3>1. PICK out \in SUBSET Products : out = IF p \in store.out THEN store.out \ {p} ELSE store.out \cup {p}
      BY <2>1 DEF GroceryStores
    <3> QED BY <2>1, <2>3, <3>1 DEF GroceryStores
  <2> QED BY <2>2, <2>3 DEF Shop!Move
<1>3. UNCHANGED <<Shop!loop, sent>>
  BY DEF Shop!Move
<1>4. GroceryTypes'
  BY <1>1, <1>2, <1>3 DEF GroceryTypes, Shop!loop
<1>5. OneWrite' /\ Faithful'
  BY <1>1, <1>2, <1>3 DEF OneWrite, Faithful, Shop!loop
<1> QED BY <1>4, <1>5

LEMMA PolledHolds ==
    ASSUME GroceryInv, Shop!PaymentPolled
    PROVE  GroceryInv'
<1> USE DEF GroceryInv
<1>1. UNCHANGED <<place, lines, base, live, sync, store, past>> /\ place = "checkout"
  BY DEF Shop!PaymentPolled
<1>2. /\ order' \in GroceryOrders /\ order'.placing = order.placing
      /\ order'.placePending = order.placePending
  <2>1. order \in GroceryOrders
    BY DEF GroceryTypes
  <2> QED BY <2>1 DEF Shop!PaymentPolled, GroceryOrders
<1>3. sync' \in GroceryFlags
  BY <1>1 DEF GroceryTypes
<1> DEFINE confirm == {Shop!Command("confirm", Shop!Empty)}
           none == {}
<1>4. confirm \in SUBSET GroceryCommands /\ \A c \in confirm : c.kind \in {"load", "pull", "confirm"}
  BY EmptyTyped, CommandTyped DEF Shop!Kinds
<1>5. none \in SUBSET GroceryCommands /\ \A c \in none : c.kind \in {"load", "pull", "confirm"}
  OBVIOUS
<1>6. sent' = sent \cup confirm \/ sent' = sent \cup none
  BY DEF Shop!PaymentPolled
<1> HIDE DEF confirm, none
<1> QED BY <1>1, <1>2, <1>3, <1>4, <1>5, <1>6, Looks

-----------------------------------------------------------------------------
(* Answers                                                                   *)

LEMMA StampedTyped ==
    ASSUME lines \in GroceryLines, NEW a \in GroceryAnswers
    PROVE  /\ Shop!Stamped(lines, a) \in GroceryLines /\ Shop!Stamped(lines, a).units = lines.units
           /\ Shop!LinesOf(a) \in GroceryLines /\ Shop!LinesOf(a).units = a.units
<1>1. /\ lines.units \in Shop!Carts /\ a.units \in Shop!Carts /\ a.out \in SUBSET Products
      /\ {p \in Products : p \in IF a.units[p] > 0 THEN a.out ELSE lines.out} \in SUBSET Products
  BY DEF GroceryLines, GroceryAnswers
<1> QED BY <1>1, LinesTyped DEF Shop!Stamped, Shop!LinesOf

LEMMA AnswerTyped ==
    ASSUME GroceryTypes, NEW c \in sent
    PROVE  /\ c.cart \in GroceryAnswers /\ c.units \in Shop!Carts /\ c.cart.units \in Shop!Carts
           /\ sync \in GroceryFlags /\ order \in GroceryOrders /\ past \in GroceryPasts
           /\ lines \in GroceryLines /\ lines.units \in Shop!Carts
           /\ base.lines \in GroceryLines
<1> QED BY DEF GroceryTypes, GroceryCommands, GroceryAnswers, GroceryLines

\* The answer to the one write is out of the way.
LEMMA WriteHeard ==
    ASSUME OneWrite, ~past.loose, NEW c \in sent, c.kind \in {"write", "clear"}
    PROVE  /\ c.kind = "write" /\ sync.inFlight
           /\ \A e \in sent \ {c} : e.kind \notin {"write", "clear"}
           /\ order.placing /\ ~order.placePending => \E e \in sent \ {c} : e.kind \in {"upi", "cod"}
           /\ place # "done"
<1> QED BY DEF OneWrite

LEMMA FailedHolds ==
    ASSUME GroceryInv, NEW c \in sent, Shop!SyncFailed(c)
    PROVE  GroceryInv'
<1> USE DEF GroceryInv
<1>1. c.kind \in {"write", "clear"} /\ UNCHANGED <<place, base, live, store>>
  BY DEF Shop!SyncFailed, Shop!Writes
<1>2. /\ order' \in GroceryOrders /\ ~order'.placePending
      /\ order'.placing => order.placing /\ ~order.placePending
  <2>1. order \in GroceryOrders /\ 0 \in Amounts /\ Shop!Empty \in Shop!Carts
    BY EmptyTyped DEF GroceryTypes, Amounts
  <2>2. CASE order.placePending
    <3>1. order' = [Shop!Settled EXCEPT !.placing = FALSE]
      BY <2>2 DEF Shop!SyncFailed
    <3>2. Shop!Settled \in GroceryOrders /\ ~Shop!Settled.placePending
      BY <2>1 DEF Shop!Settled, GroceryOrders
    <3> QED BY <3>1, <3>2 DEF GroceryOrders
  <2>3. CASE ~order.placePending
    BY <2>1, <2>3 DEF Shop!SyncFailed
  <2> QED BY <2>2, <2>3
<1>3. CASE c.state = "expired" /\ ~sync.rebuilt
  <2>1. /\ sync' = [sync EXCEPT !.confirmPending = FALSE, !.rebuilt = TRUE,
                                !.mutating = TRUE, !.inFlight = TRUE]
        /\ sent' = (sent \ {c}) \cup {Shop!Write(lines.units)}
        /\ UNCHANGED <<lines, past>>
    BY <1>3 DEF Shop!SyncFailed
  <2>2. sync' \in GroceryFlags /\ sync'.inFlight
    BY <2>1, AnswerTyped DEF GroceryFlags
  <2> DEFINE w == Shop!Write(lines.units)
  <2>3. w \in GroceryCommands /\ w.kind = "write" /\ w.state = "sent" /\ w.units = lines.units
    BY AnswerTyped, WriteTyped
  <2>4. sent' = (sent \ {c}) \cup {w}
    BY <2>1
  <2> HIDE DEF w
  <2>5. GroceryTypes'
    BY <1>1, <1>2, <2>1, <2>2, <2>3, <2>4 DEF GroceryTypes
  <2>6. CASE past.loose
    BY <2>1, <2>5, <2>6 DEF OneWrite, Faithful
  <2>7. CASE ~past.loose
    <3>1. /\ place' # "done" /\ \A e \in sent \ {c} : e.kind \notin {"write", "clear"}
          /\ order.placing /\ ~order.placePending => \E e \in sent \ {c} : e.kind \in {"upi", "cod"}
      BY <1>1, <2>7, WriteHeard
    <3>2. \A e \in sent' : e.kind # "clear" /\ (e.kind = "write" => e = w)
      BY <2>3, <2>4, <3>1
    <3>3. order'.placing /\ ~order'.placePending => \E e \in sent' : e.kind \in {"upi", "cod"}
      BY <1>2, <2>4, <3>1
    <3>4. OneWrite' /\ Faithful'
      BY <2>1, <2>2, <2>3, <2>4, <3>1, <3>2, <3>3, SendsOne
    <3> QED BY <2>5, <3>4
  <2> QED BY <2>6, <2>7
<1>4. CASE ~(c.state = "expired" /\ ~sync.rebuilt)
  <2>1. /\ sync' = [sync EXCEPT !.confirmPending = FALSE, !.inFlight = FALSE, !.mutating = FALSE,
                                !.closed = @ \/ c.state = "closed"]
        /\ sent' = sent \ {c}
        /\ lines' = IF base.set THEN base.lines ELSE Shop!NoLines
        /\ past' = Shop!Disowned
    BY <1>4 DEF Shop!SyncFailed
  <2>2. sync' \in GroceryFlags /\ ~sync'.inFlight /\ ~sync'.mutating
    <3>1. CASE sync.closed \/ c.state = "closed"
      <4>1. sync' = [sync EXCEPT !.confirmPending = FALSE, !.inFlight = FALSE, !.mutating = FALSE, !.closed = TRUE]
        BY <2>1, <3>1, Zenon
      <4> QED BY <4>1, AnswerTyped DEF GroceryFlags
    <3>2. CASE ~(sync.closed \/ c.state = "closed")
      <4>1. sync' = [sync EXCEPT !.confirmPending = FALSE, !.inFlight = FALSE, !.mutating = FALSE, !.closed = FALSE]
        BY <2>1, <3>2, Zenon
      <4> QED BY <4>1, AnswerTyped DEF GroceryFlags
    <3> QED BY <3>1, <3>2
  <2>3. lines' \in GroceryLines
    BY <2>1, AnswerTyped, NoLinesTyped
  <2>4. past' \in GroceryPasts /\ ~past'.own /\ past'.loose = past.loose
    BY <2>1, AnswerTyped, DisownedTyped
  <2>5. GroceryTypes'
    BY <1>1, <1>2, <2>1, <2>2, <2>3, <2>4 DEF GroceryTypes
  <2>6. CASE past.loose
    BY <2>4, <2>5, <2>6 DEF OneWrite, Faithful
  <2>7. CASE ~past.loose
    <3>1. /\ place' # "done" /\ \A e \in sent' : e.kind \notin {"write", "clear"}
          /\ order.placing /\ ~order.placePending => \E e \in sent' : e.kind \in {"upi", "cod"}
      BY <1>1, <2>1, <2>7, WriteHeard
    <3>2. OneWrite' /\ Faithful'
      BY <1>2, <2>2, <2>4, <3>1, LandsOne
    <3> QED BY <2>5, <3>2
  <2> QED BY <2>6, <2>7
<1> QED BY <1>3, <1>4

LEMMA LandedTyped ==
    ASSUME sync \in GroceryFlags
    PROVE  /\ Shop!Landed \in GroceryFlags /\ ~Shop!Landed.inFlight /\ ~Shop!Landed.mutating
           /\ Shop!Landed.pending = sync.pending
<1> QED BY DEF Shop!Landed, GroceryFlags

LEMMA SettledTyped ==
    ASSUME order \in GroceryOrders
    PROVE  Shop!Settled \in GroceryOrders /\ ~Shop!Settled.placePending /\ Shop!Settled.placing = order.placing
<1>1. 0 \in Amounts /\ Shop!Empty \in Shop!Carts
  BY EmptyTyped DEF Amounts
<1> QED BY <1>1 DEF Shop!Settled, GroceryOrders

\* A write that went well: the lines are the store's from then on, or edits wait.
LEMMA SyncedHolds ==
    ASSUME GroceryInv, NEW c \in sent, Shop!Synced(c)
    PROVE  GroceryInv'
<1> USE DEF GroceryInv
<1> DEFINE adjusted == Shop!Adopts(sync, lines, c.cart)
           l        == IF adjusted THEN Shop!LinesOf(c.cart) ELSE Shop!Stamped(lines, c.cart)
           chase    == sync.confirmPending /\ (sync.pending \/ ~Shop!Matches(l, c.cart)) /\ sync.chase < MaxChase
           spent    == sync.confirmPending /\ ~Shop!Matches(l, c.cart)
           final    == IF ~order.placePending /\ ~adjusted /\ ~chase /\ spent THEN Shop!LinesOf(c.cart) ELSE l
<1>1. /\ c.kind \in {"write", "clear"} /\ c.state = "ok" /\ live' = c.cart /\ UNCHANGED <<place, store>>
      /\ lines' = final /\ base' = [set |-> TRUE, lines |-> final]
      /\ past' = IF c.kind = "write" /\ final = l THEN past ELSE Shop!Disowned
      /\ IF order.placePending THEN Shop!Place(c, l)
         ELSE IF adjusted THEN /\ sync' = [Shop!Landed EXCEPT !.confirmPending = FALSE]
                               /\ sent' = sent \ {c} /\ UNCHANGED <<order, modal>>
         ELSE IF chase THEN Shop!Chase(c, l)
         ELSE /\ sync' = [Shop!Landed EXCEPT !.confirmPending = FALSE, !.pending = @ /\ ~spent]
              /\ sent' = sent \ {c} /\ UNCHANGED order
  BY DEF Shop!Synced, Shop!Writes
<1>2. /\ Shop!LinesOf(c.cart) \in GroceryLines /\ Shop!LinesOf(c.cart).units = c.cart.units
      /\ Shop!Stamped(lines, c.cart) \in GroceryLines /\ Shop!Stamped(lines, c.cart).units = lines.units
  BY AnswerTyped, StampedTyped
<1>3. l \in GroceryLines /\ final \in GroceryLines /\ l.units \in Shop!Carts
  BY <1>2 DEF GroceryLines
<1>4. spent => l.units # c.cart.units
  BY DEF Shop!Matches
<1>5. ~sync.pending => l.units = c.cart.units
  BY <1>2 DEF Shop!Adopts, Shop!Matches
<1>6. final # l => ~order.placePending /\ ~adjusted /\ ~chase /\ spent
  OBVIOUS
<1>7. ~order.placePending /\ ~adjusted /\ ~chase /\ spent => final # l
  BY <1>2, <1>4
<1> HIDE DEF adjusted, l, chase, spent, final
<1>8. past' \in GroceryPasts /\ past'.loose = past.loose /\ (past'.own => past' = past /\ final = l)
  BY <1>1, AnswerTyped, DisownedTyped
<1>9. live' \in GroceryAnswers /\ lines' \in GroceryLines /\ base' \in [set : BOOLEAN, lines : GroceryLines]
      /\ store' \in GroceryStores
  BY <1>1, <1>3, AnswerTyped DEF GroceryTypes
<1>10. sync \in GroceryFlags /\ order \in GroceryOrders
  BY DEF GroceryTypes
\* What is true of the lines once the write is out of the way.
<1>11. ASSUME ~past.loose, past'.own, ~past'.read, ~sync.pending, \A e \in sent : e.kind \notin {"cod", "confirm"}
       PROVE  lines'.units = store'.units
  <2>1. c.kind = "write"
    BY <1>1, <1>11, WriteHeard
  <2>2. c.cart.units = store.units
    BY <1>1, <1>8, <1>11, <2>1 DEF Faithful
  <2> QED BY <1>1, <1>5, <1>8, <1>11, <2>2
\* No write is left.
<1>12. ASSUME sync' \in GroceryFlags, ~sync'.inFlight, ~sync'.mutating, past'.own /\ ~sync'.pending => ~sync.pending,
              order' \in GroceryOrders, ~order'.placePending,
              NEW new \in SUBSET GroceryCommands, sent' = (sent \ {c}) \cup new, \A e \in new : e.kind = "upi",
              order'.placing => /\ order.placing
                                /\ ~order.placePending \/ new # {}
       PROVE  GroceryInv'
  <2>1. GroceryTypes'
    BY <1>8, <1>9, <1>12 DEF GroceryTypes
  <2>2. CASE past.loose
    BY <1>8, <2>1, <2>2 DEF OneWrite, Faithful
  <2>3. CASE ~past.loose
    <3>1. /\ place' # "done" /\ \A e \in sent \ {c} : e.kind \notin {"write", "clear"}
          /\ order.placing /\ ~order.placePending => \E e \in sent \ {c} : e.kind \in {"upi", "cod"}
          /\ c.kind = "write"
      BY <1>1, <2>3, WriteHeard
    <3>2. \A e \in sent' : e.kind \notin {"write", "clear"}
      BY <1>12, <3>1
    <3>3. order'.placing => \E e \in sent' : e.kind \in {"upi", "cod"}
      BY <1>12, <3>1
    <3>4. (\A e \in sent' : e.kind \notin {"cod", "confirm"}) => \A e \in sent : e.kind \notin {"cod", "confirm"}
      BY <1>12, <3>1
    <3>5. past'.own /\ ~past'.read /\ ~past'.loose /\ ~sync'.pending
            /\ (\A e \in sent' : e.kind \notin {"cod", "confirm"}) => lines'.units = store'.units
      BY <1>11, <1>12, <2>3, <3>4
    <3>6. OneWrite' /\ Faithful'
      BY <1>12, <3>1, <3>2, <3>3, <3>5, LandsOne
    <3> QED BY <2>1, <3>6
  <2> QED BY <2>2, <2>3
<1> DEFINE none == {}
<1>13. none \in SUBSET GroceryCommands /\ (\A e \in none : e.kind = "upi") /\ (sent' = sent \ {c} => sent' = (sent \ {c}) \cup none)
  OBVIOUS
<1> HIDE DEF none
<1>14. CASE order.placePending
  <2> DEFINE go  == l.out = {} /\ c.cart.total = order.total
             new == IF go THEN {Shop!Command("upi", order.approved)} ELSE {}
  <2>1. /\ order' = [Shop!Settled EXCEPT !.placing = @ /\ go]
        /\ sent' = (sent \ {c}) \cup new /\ sync' = Shop!Landed
    BY <1>1, <1>14 DEF Shop!Place
  <2>2. new \in SUBSET GroceryCommands /\ (\A e \in new : e.kind = "upi") /\ (go => new # {})
    BY <1>10, CommandTyped DEF GroceryOrders, Shop!Kinds
  <2> HIDE DEF new
  <2>3. order' \in GroceryOrders /\ ~order'.placePending /\ (order'.placing => order.placing /\ go)
    <3>1. CASE order.placing /\ go
      <4>1. order' = [Shop!Settled EXCEPT !.placing = TRUE]
        BY <1>10, <2>1, <3>1, SettledTyped, Zenon
      <4> QED BY <1>10, <3>1, <4>1, SettledTyped DEF GroceryOrders
    <3>2. CASE ~(order.placing /\ go)
      <4>1. order' = [Shop!Settled EXCEPT !.placing = FALSE]
        BY <1>10, <2>1, <3>2, SettledTyped, Zenon
      <4> QED BY <1>10, <4>1, SettledTyped DEF GroceryOrders
    <3> QED BY <3>1, <3>2
  <2> HIDE DEF go
  <2> QED BY <1>10, <1>12, <2>1, <2>2, <2>3, LandedTyped
<1>15. CASE ~order.placePending /\ adjusted
  <2>1. sync' = [Shop!Landed EXCEPT !.confirmPending = FALSE] /\ sent' = sent \ {c} /\ UNCHANGED order
    BY <1>1, <1>15
  <2>2. sync' \in GroceryFlags /\ ~sync'.inFlight /\ ~sync'.mutating /\ sync'.pending = sync.pending
    BY <1>10, <2>1, LandedTyped DEF GroceryFlags
  <2> QED BY <1>10, <1>12, <1>13, <1>15, <2>1, <2>2
<1>16. CASE ~order.placePending /\ ~adjusted /\ ~chase
  <2>1. sync' = [Shop!Landed EXCEPT !.confirmPending = FALSE, !.pending = @ /\ ~spent] /\ sent' = sent \ {c}
        /\ UNCHANGED order
    BY <1>1, <1>16
  <2>2. sync' \in GroceryFlags /\ ~sync'.inFlight /\ ~sync'.mutating /\ (~spent => sync'.pending = sync.pending)
    <3>1. CASE spent
      <4>1. (Shop!Landed.pending /\ ~spent) = FALSE
        BY <3>1
      <4>2. sync' = [Shop!Landed EXCEPT !.confirmPending = FALSE, !.pending = FALSE]
        BY <2>1, <4>1, Zenon
      <4> QED BY <1>10, <3>1, <4>2, LandedTyped DEF GroceryFlags
    <3>2. CASE ~spent
      <4>1. (Shop!Landed.pending /\ ~spent) = sync.pending
        BY <1>10, <3>2, LandedTyped DEF GroceryFlags
      <4>2. sync' = [Shop!Landed EXCEPT !.confirmPending = FALSE, !.pending = sync.pending]
        BY <2>1, <4>1, Zenon
      <4> QED BY <1>10, <4>2, LandedTyped DEF GroceryFlags
    <3> QED BY <3>1, <3>2
  <2>3. past'.own => ~spent
    BY <1>7, <1>8, <1>16
  <2> QED BY <1>10, <1>12, <1>13, <1>16, <2>1, <2>2, <2>3
<1>17. CASE ~order.placePending /\ ~adjusted /\ chase
  <2>1. Shop!Chase(c, l) /\ final = l
    BY <1>1, <1>6, <1>17
  <2> DEFINE s == [Shop!Landed EXCEPT !.chase = @ + 1, !.mutating = TRUE]
  <2>2. s \in GroceryFlags /\ ~s.inFlight
    <3>1. PICK n \in Nat : n = Shop!Landed.chase + 1
      BY <1>10, LandedTyped DEF GroceryFlags
    <3>2. s = [Shop!Landed EXCEPT !.chase = n, !.mutating = TRUE]
      BY <3>1
    <3> QED BY <1>10, <3>2, LandedTyped DEF GroceryFlags
  <2>3. sync' = Shop!FireNow(s) /\ sent' = (sent \ {c}) \cup Shop!FireNowCmd(s, l.units) /\ UNCHANGED order
    BY <2>1 DEF Shop!Chase
  <2> HIDE DEF s
  <2> DEFINE w == Shop!Write(l.units)
  <2>4. w \in GroceryCommands /\ w.kind = "write" /\ w.state = "sent" /\ w.units = l.units
    BY <1>3, WriteTyped
  <2>5. sent' = (sent \ {c}) \cup {w}
    BY <1>3, <2>2, <2>3, FireCmd
  <2> HIDE DEF w
  <2>6. sync' \in GroceryFlags /\ sync'.inFlight
    BY <2>2, <2>3, FireTyped
  <2>7. GroceryTypes'
    BY <1>8, <1>9, <1>10, <2>3, <2>4, <2>5, <2>6 DEF GroceryTypes
  <2>8. CASE past.loose
    BY <1>8, <2>7, <2>8 DEF OneWrite, Faithful
  <2>9. CASE ~past.loose
    <3>1. /\ place' # "done" /\ \A e \in sent \ {c} : e.kind \notin {"write", "clear"}
          /\ order.placing /\ ~order.placePending => \E e \in sent \ {c} : e.kind \in {"upi", "cod"}
      BY <1>1, <2>9, WriteHeard
    <3>2. \A e \in sent' : e.kind # "clear" /\ (e.kind = "write" => e = w)
      BY <2>4, <2>5, <3>1
    <3>3. order'.placing /\ ~order'.placePending => \E e \in sent' : e.kind \in {"upi", "cod"}
      BY <2>3, <2>5, <3>1
    <3>4. w \in sent' /\ w.units = lines'.units
      BY <1>1, <2>1, <2>4, <2>5
    <3>5. OneWrite' /\ Faithful'
      BY <2>4, <2>6, <3>1, <3>2, <3>3, <3>4, SendsOne
    <3> QED BY <2>7, <3>5
  <2> QED BY <2>8, <2>9
<1> QED BY <1>14, <1>15, <1>16, <1>17

LEMMA LoadedHolds ==
    ASSUME GroceryInv, NEW c \in sent, Shop!CartLoaded(c)
    PROVE  GroceryInv'
<1> USE DEF GroceryInv
<1>1. c.kind = "load" /\ sent' = sent \ {c} /\ UNCHANGED <<place, modal, sync, order, store>>
  BY DEF Shop!CartLoaded
<1>2. CASE UNCHANGED <<live, lines, base, past>>
  <2>1. GroceryTypes'
    BY <1>1, <1>2 DEF GroceryTypes
  <2>2. OneWrite' /\ Faithful'
    BY <1>1, <1>2 DEF OneWrite, Faithful
  <2> QED BY <2>1, <2>2
<1>3. CASE /\ live' = c.cart
           /\ lines' \in {Shop!LinesOf(c.cart), Shop!Stamped(lines, c.cart)}
           /\ base' = [set |-> TRUE, lines |-> lines']
           /\ past' = IF lines'.units = lines.units THEN past ELSE [Shop!Overtaken EXCEPT !.read = TRUE]
  <2>1. lines' \in GroceryLines
    BY <1>3, AnswerTyped, StampedTyped
  <2>2. /\ past' \in GroceryPasts /\ past'.loose = past.loose
        /\ ~past'.read => past' = past /\ lines'.units = lines.units
    <3>1. Shop!Overtaken \in GroceryPasts /\ Shop!Overtaken.loose = past.loose
      BY AnswerTyped, OvertakenTyped
    <3> QED BY <1>3, <3>1, AnswerTyped DEF GroceryPasts
  <2>3. GroceryTypes'
    BY <1>1, <1>3, <2>1, <2>2, AnswerTyped DEF GroceryTypes
  <2>4. OneWrite' /\ Faithful'
    BY <1>1, <2>2 DEF OneWrite, Faithful
  <2> QED BY <2>3, <2>4
<1> QED BY <1>2, <1>3 DEF Shop!CartLoaded

LEMMA PulledHolds ==
    ASSUME GroceryInv, NEW c \in sent, Shop!CartPulled(c)
    PROVE  GroceryInv'
<1> USE DEF GroceryInv
<1>1. c.kind = "pull" /\ sent' = sent \ {c} /\ UNCHANGED <<place, modal, sync, order, store>>
  BY DEF Shop!CartPulled
<1>2. live' \in GroceryAnswers
  <2>1. live \in GroceryAnswers
    BY DEF GroceryTypes
  <2> QED BY <2>1, AnswerTyped DEF Shop!CartPulled
<1>3. CASE UNCHANGED <<lines, base, past>>
  <2>1. GroceryTypes'
    BY <1>1, <1>2, <1>3 DEF GroceryTypes
  <2>2. OneWrite' /\ Faithful'
    BY <1>1, <1>3 DEF OneWrite, Faithful
  <2> QED BY <2>1, <2>2
<1>4. CASE /\ lines' = Shop!LinesOf(c.cart) /\ base' = [set |-> TRUE, lines |-> lines']
           /\ past' = [Shop!Overtaken EXCEPT !.own = FALSE]
  <2>1. lines' \in GroceryLines
    BY <1>4, AnswerTyped, StampedTyped
  <2>2. past' \in GroceryPasts /\ past'.loose = past.loose /\ ~past'.own
    <3>1. Shop!Overtaken \in GroceryPasts /\ Shop!Overtaken.loose = past.loose
      BY AnswerTyped, OvertakenTyped
    <3> QED BY <1>4, <3>1 DEF GroceryPasts
  <2>3. GroceryTypes'
    BY <1>1, <1>2, <1>4, <2>1, <2>2 DEF GroceryTypes
  <2>4. OneWrite' /\ Faithful'
    BY <1>1, <2>2 DEF OneWrite, Faithful
  <2> QED BY <2>3, <2>4
<1> QED BY <1>3, <1>4 DEF Shop!CartPulled

LEMMA UPIHolds ==
    ASSUME GroceryInv, NEW c \in sent, Shop!UPIPlaced(c)
    PROVE  GroceryInv'
<1> USE DEF GroceryInv
<1>1. c.kind = "upi" /\ UNCHANGED <<place, modal, lines, base, live, sync, store, past>>
  BY DEF Shop!UPIPlaced
<1>2. CASE c.state = "noqr"
  <2> DEFINE w == Shop!Command("cod", c.units)
  <2>1. w \in GroceryCommands /\ w.kind = "cod"
    BY AnswerTyped, CommandTyped DEF Shop!Kinds
  <2>2. order' = order /\ sent' = (sent \ {c}) \cup {w}
    BY <1>2 DEF Shop!UPIPlaced
  <2> HIDE DEF w
  <2>3. GroceryTypes'
    BY <1>1, <2>1, <2>2 DEF GroceryTypes
  <2>4. OneWrite'
    BY <1>1, <2>1, <2>2 DEF OneWrite
  <2>5. Faithful'
    BY <1>1, <2>1, <2>2 DEF Faithful
  <2> QED BY <2>3, <2>4, <2>5
<1>3. CASE c.state # "noqr"
  <2>1. order' = [order EXCEPT !.placing = FALSE, !.pay = IF c.state = "ok" THEN "waiting" ELSE @]
        /\ sent' = sent \ {c}
    BY <1>3 DEF Shop!UPIPlaced
  <2>2. order' \in GroceryOrders /\ ~order'.placing /\ order'.placePending = order.placePending
    BY <2>1, AnswerTyped DEF GroceryOrders
  <2>3. GroceryTypes'
    BY <1>1, <2>1, <2>2 DEF GroceryTypes
  <2>4. OneWrite'
    BY <1>1, <2>1, <2>2 DEF OneWrite
  <2>5. Faithful'
    BY <1>1, <2>1 DEF Faithful
  <2> QED BY <2>3, <2>4, <2>5
<1> QED BY <1>2, <1>3

LEMMA PlacedHolds ==
    ASSUME GroceryInv, NEW c \in sent, Shop!OrderPlaced(c)
    PROVE  GroceryInv'
<1> USE DEF GroceryInv
<1>1. c.kind \in {"cod", "confirm"} /\ UNCHANGED <<sync, store>>
  BY DEF Shop!OrderPlaced
<1>2. order' \in GroceryOrders /\ ~order'.placing /\ order'.placePending = order.placePending
  BY AnswerTyped DEF Shop!OrderPlaced, GroceryOrders
<1>3. past' \in GroceryPasts /\ ~past'.own /\ (past'.loose <=> past.loose \/ c.state = "ok")
  <2>1. past' = [Shop!Disowned EXCEPT !.loose = @ \/ c.state = "ok"]
    BY DEF Shop!OrderPlaced
  <2>2. Shop!Disowned \in GroceryPasts /\ ~Shop!Disowned.own /\ Shop!Disowned.loose = past.loose
    BY AnswerTyped, DisownedTyped
  <2>3. CASE Shop!Disowned.loose \/ c.state = "ok"
    <3>1. past' = [Shop!Disowned EXCEPT !.loose = TRUE]
      BY <2>1, <2>3, Zenon
    <3> QED BY <2>2, <2>3, <3>1 DEF GroceryPasts
  <2>4. CASE ~(Shop!Disowned.loose \/ c.state = "ok")
    <3>1. past' = [Shop!Disowned EXCEPT !.loose = FALSE]
      BY <2>1, <2>4, Zenon
    <3> QED BY <2>2, <2>4, <3>1 DEF GroceryPasts
  <2> QED BY <2>3, <2>4
<1>4. CASE c.state = "ok"
  <2> DEFINE w == Shop!Command("clear", Shop!Empty)
  <2>1. w \in GroceryCommands
    BY EmptyTyped, CommandTyped DEF Shop!Kinds
  <2>2. /\ sent' = (sent \ {c}) \cup {w} /\ lines' = Shop!NoLines /\ live' = Shop!NoCart
        /\ base' = [set |-> TRUE, lines |-> Shop!NoLines]
    BY <1>4 DEF Shop!OrderPlaced
  <2> HIDE DEF w
  <2>3. GroceryTypes'
    BY <1>1, <1>2, <1>3, <2>1, <2>2, NoLinesTyped, NoCartTyped DEF GroceryTypes
  <2> QED BY <1>3, <1>4, <2>3 DEF OneWrite, Faithful
<1>5. CASE c.state # "ok"
  <2>1. sent' = sent \ {c} /\ UNCHANGED <<place, lines, live, base>>
    BY <1>5 DEF Shop!OrderPlaced
  <2>2. GroceryTypes'
    BY <1>1, <1>2, <1>3, <2>1 DEF GroceryTypes
  <2>3. OneWrite'
    BY <1>1, <1>2, <1>3, <2>1 DEF OneWrite
  <2>4. Faithful'
    BY <1>3 DEF Faithful
  <2> QED BY <2>2, <2>3, <2>4
<1> QED BY <1>4, <1>5

-----------------------------------------------------------------------------

LEMMA GroceryNext == GroceryInv /\ [Shop!Next]_shopVars => GroceryInv'
<1> SUFFICES ASSUME GroceryInv, [Shop!Next]_shopVars PROVE GroceryInv'
  OBVIOUS
<1>1. CASE UNCHANGED shopVars
  BY <1>1 DEF shopVars, GroceryInv, GroceryTypes, OneWrite, Faithful
<1>2. CASE Shop!Key
  BY <1>2, EditKeys, ReduceHolds, VisitHolds, StillHolds, CheckoutHolds, EnterHolds, YesHolds, LeaveHolds
     DEF Shop!Key
<1>3. CASE Shop!Settle \/ Shop!Move \/ Shop!PaymentPolled
  BY <1>3, SettleHolds, MoveHolds, PolledHolds
<1>4. ASSUME NEW c \in sent, Shop!Serve(c) PROVE GroceryInv'
  BY <1>4, ServeWriteHolds, ServeReadHolds, ServeOrderHolds, ServeConfirmHolds DEF Shop!Serve
<1>5. ASSUME NEW c \in sent, Shop!Answer(c) PROVE GroceryInv'
  BY <1>5, FailedHolds, SyncedHolds, LoadedHolds, PulledHolds, UPIHolds, PlacedHolds DEF Shop!Answer
<1> QED BY <1>1, <1>2, <1>3, <1>4, <1>5 DEF Shop!Next

LEMMA GroceryInit == Shop!Init => GroceryInv
<1> SUFFICES ASSUME Shop!Init PROVE GroceryInv
  OBVIOUS
<1>1. 0 \in Amounts /\ Shop!NoLines \in GroceryLines /\ Shop!NoCart \in GroceryAnswers /\ Shop!Empty \in Shop!Carts
  BY NoLinesTyped, NoCartTyped, EmptyTyped DEF Amounts
<1>2. lines \in GroceryLines /\ live \in GroceryAnswers /\ base \in [set : BOOLEAN, lines : GroceryLines] /\ sent = {}
  BY <1>1 DEF Shop!Init
<1>3. sync \in GroceryFlags /\ ~sync.inFlight /\ ~sync.mutating
  BY DEF Shop!Init, GroceryFlags
<1>4. order \in GroceryOrders /\ ~order.placing /\ ~order.placePending
  BY <1>1 DEF Shop!Init, GroceryOrders
<1>5. past \in GroceryPasts /\ ~past.own
  BY DEF Shop!Init, GroceryPasts
<1>6. store \in GroceryStores /\ place # "done"
  BY DEF Shop!Init, GroceryStores
<1>7. GroceryTypes
  BY <1>2, <1>3, <1>4, <1>5, <1>6 DEF GroceryTypes
<1>8. OneWrite /\ Faithful
  BY <1>2, <1>3, <1>4, <1>5, <1>6 DEF OneWrite, Faithful
<1> QED BY <1>7, <1>8 DEF GroceryInv

LEMMA GroceryTrue == GroceryInv => Shop!IMGate /\ Shop!NoPhantom
<1> SUFFICES ASSUME GroceryInv PROVE Shop!IMGate /\ Shop!NoPhantom
  OBVIOUS
<1> USE DEF GroceryInv
<1>1. Shop!UnderWay({"write"}) = {c \in sent : c.kind = "write"}
  BY DEF Shop!UnderWay
<1>2. Shop!IMGate
  <2> SUFFICES ASSUME ~past.loose
               PROVE  /\ \A c, d \in Shop!UnderWay({"write"}) : c = d
                      /\ sync.inFlight <=> Shop!UnderWay({"write"}) # {}
                      /\ sync.mutating => sync.inFlight
                      /\ order.placing => Shop!UnderWay({"write", "upi", "cod"}) # {}
    BY DEF Shop!IMGate
  <2>1. sync.inFlight \in BOOLEAN
    BY DEF GroceryTypes, GroceryFlags
  <2>2. sync.inFlight <=> Shop!UnderWay({"write"}) # {}
    BY <1>1, <2>1 DEF OneWrite
  <2>3. order.placing => Shop!UnderWay({"write", "upi", "cod"}) # {}
    BY DEF OneWrite, Shop!UnderWay
  <2>4. sync.mutating => sync.inFlight
    BY DEF OneWrite
  <2>5. \A c, d \in Shop!UnderWay({"write"}) : c = d
    BY <1>1 DEF OneWrite
  <2> QED BY <2>2, <2>3, <2>4, <2>5
<1>3. Shop!NoPhantom
  <2> SUFFICES ASSUME Shop!Quiet, past.own, ~past.read, ~past.loose PROVE lines.units = store.units
    BY DEF Shop!NoPhantom
  <2>1. \A c \in sent : c.kind \notin {"cod", "confirm"}
    BY DEF Shop!Quiet, Shop!UnderWay
  <2> QED BY <2>1 DEF Faithful, Shop!Quiet
<1> QED BY <1>2, <1>3

\* IMCartIsTrue: the gate of the Instamart cart's writes tells the truth, and at rest the
\* lines the user made are what Swiggy's cart holds, however the store caps, fails,
\* expires or closes.
THEOREM GroceryCartIsTrue == OrdersSpec => []IMCartIsTrue
<1>1. OrdersInit => GroceryInv
  BY GroceryInit DEF OrdersInit
<1>2. GroceryInv /\ [OrdersNext]_<<focus, vars, shopVars, wizVars, cliVars>> => GroceryInv'
  <2> SUFFICES ASSUME GroceryInv, [OrdersNext]_<<focus, vars, shopVars, wizVars, cliVars>> PROVE GroceryInv'
    OBVIOUS
  <2>1. CASE ShopNext
    <3>1. Shop!Next
      BY <2>1 DEF ShopNext, Shop!Next, Shop!Key
    <3> QED BY <3>1, GroceryNext
  <2>2. CASE UNCHANGED shopVars
    BY <2>2, GroceryNext
  <2> QED BY <2>1, <2>2 DEF OrdersNext
<1>3. GroceryInv => IMCartIsTrue
  BY GroceryTrue DEF IMCartIsTrue
<1> QED BY <1>1, <1>2, <1>3, PTL DEF OrdersSpec

-----------------------------------------------------------------------------
(* What Swiggy orders from the Instamart cart                                *)

\* The store sells that much of every product.
Fits(u) == \A p \in Products : u[p] <= store.limit
OrEmpty(u) == {u, Shop!Empty}

\* Swiggy's cart is within what it sells, and whatever was read of it.
AllFits ==
    /\ Fits(store.units) /\ Fits(live.units)
    /\ \A c \in sent : Fits(c.cart.units)

\* The user is asked about lines the store can sell; should a write that is due then
\* fail, the lines that come back can be sold too.
ModalFits ==
    modal /\ ~past.loose =>
        /\ place = "checkout" /\ Fits(lines.units)
        /\ (sync.pending \/ sync.inFlight) /\ base.set => Fits(base.lines.units)

\* While the yes waits for its write: the lines, the write and what the store made of
\* it are what the user approved, or nothing at all.
WaitFits ==
    order.placePending /\ ~past.touched /\ ~past.loose =>
        /\ \A c \in sent : c.kind \notin {"upi", "cod"}
        /\ Fits(order.approved) /\ lines.units \in OrEmpty(order.approved)
        /\ \A w \in sent : w.kind = "write" =>
             /\ w.state = "sent" => w.units \in OrEmpty(order.approved)
             /\ w.state = "ok" => /\ w.cart.units \in OrEmpty(order.approved)
                                  /\ store.units \in OrEmpty(order.approved)

\* The same of an order that is under way, whose cart is by then the store's.
OrderFits ==
    ~past.touched /\ ~past.loose =>
        \A c \in sent : c.kind \in {"upi", "cod"} =>
            /\ Fits(c.units) /\ store.units \in OrEmpty(c.units)
            /\ lines.units \in OrEmpty(c.units)
            /\ base.set => base.lines.units \in OrEmpty(c.units)
            /\ \A w \in sent : w.kind = "write" =>
                 /\ w.state = "sent" => w.units \in OrEmpty(c.units)
                 /\ w.state = "ok" => w.cart.units \in OrEmpty(c.units)

ApprovedInv == AllFits /\ ModalFits /\ WaitFits /\ OrderFits

-----------------------------------------------------------------------------

LEMMA EmptyFits ==
    ASSUME store \in GroceryStores
    PROVE  Fits(Shop!Empty) /\ Fits(Shop!NoCart.units)
<1>1. store.limit \in 1..MaxQty /\ MaxQty \in Nat
  BY OrdersAssumption DEF GroceryStores
<1> QED BY <1>1 DEF Fits, Shop!Empty, Shop!NoCart

\* The store caps a cart to what it sells, and leaves one that fits as it is.
LEMMA CappedFits ==
    ASSUME store \in GroceryStores, NEW u \in Shop!Carts
    PROVE  /\ Fits(Shop!Capped(u))
           /\ Fits(u) => Shop!Capped(u) = u
           /\ Shop!Replaced(u).units = Shop!Capped(u)
           /\ Shop!Replaced(u).limit = store.limit
<1>1. store.limit \in 1..MaxQty /\ MaxQty \in Nat
  BY OrdersAssumption DEF GroceryStores
<1>2. Fits(Shop!Capped(u))
  BY <1>1 DEF Fits, Shop!Capped, Shop!Least, Shop!Carts
<1>3. Fits(u) => Shop!Capped(u) = u
  BY <1>1 DEF Fits, Shop!Capped, Shop!Least, Shop!Carts
<1>4. Shop!Replaced(u).units = Shop!Capped(u) /\ Shop!Replaced(u).limit = store.limit
  BY DEF Shop!Replaced, GroceryStores
<1> QED BY <1>2, <1>3, <1>4

\* No order is between the user's yes and Swiggy.
LEMMA NotPlacing ==
    ASSUME ~Shop!Placing
    PROVE  ~order.placePending /\ \A c \in sent : c.kind \notin {"upi", "cod"}
<1> QED BY DEF Shop!Placing, Shop!UnderWay

\* What is claimed of an order in flight ends when its clearing goes out.
LEMMA LooseEnds ==
    ASSUME AllFits', past'.loose
    PROVE  ApprovedInv'
<1> QED BY DEF ApprovedInv, ModalFits, WaitFits, OrderFits

LEMMA FitsStay ==
    ASSUME NEW u, Fits(u), store'.limit = store.limit
    PROVE  Fits(u)'
<1> QED BY DEF Fits

-----------------------------------------------------------------------------
(* Keys                                                                      *)

\* An edit of the lines: no modal is open, and an order that is being placed is told.
LEMMA EditApproved ==
    ASSUME GroceryInv, ApprovedInv, modal => past.loose, past' = Shop!Edited,
           UNCHANGED <<modal, live, order, store>>, NEW u \in Shop!Carts,
           sent' = sent \/ sent' = sent \cup {Shop!Write(u)}
    PROVE  ApprovedInv'
<1>1. store \in GroceryStores /\ past \in GroceryPasts
  BY DEF GroceryInv, GroceryTypes
<1>2. past'.loose = past.loose /\ (past'.touched <=> past.touched \/ Shop!Placing)
  BY <1>1, EditedTyped
<1>3. Shop!Write(u).kind = "write" /\ Shop!Write(u).cart = Shop!NoCart
  BY DEF Shop!Write, Shop!Command
<1>4. AllFits'
  BY <1>1, <1>3, EmptyFits DEF ApprovedInv, AllFits, Fits
<1>5. ModalFits'
  BY <1>2 DEF ModalFits
<1>6. WaitFits'
  BY <1>2, NotPlacing DEF WaitFits
<1>7. OrderFits'
  BY <1>2, <1>3, NotPlacing DEF OrderFits
<1> QED BY <1>4, <1>5, <1>6, <1>7 DEF ApprovedInv

\* A key that leaves the cart alone; it may send a read or a payment's confirmation.
LEMMA LookApproved ==
    ASSUME GroceryInv, ApprovedInv, UNCHANGED <<lines, base, live, store, past>>,
           modal' => past.loose \/ (modal /\ place' = place),
           sync'.pending = sync.pending, sync'.inFlight = sync.inFlight,
           order'.placePending = order.placePending, order'.approved = order.approved,
           NEW new, sent' = sent \cup new,
           \A c \in new : c.kind \in {"load", "pull", "confirm"} /\ c.cart = Shop!NoCart
    PROVE  ApprovedInv'
<1>1. store \in GroceryStores
  BY DEF GroceryInv, GroceryTypes
<1>2. AllFits'
  BY <1>1, EmptyFits DEF ApprovedInv, AllFits, Fits
<1>3. ModalFits'
  BY DEF ApprovedInv, ModalFits, Fits
<1>4. WaitFits'
  BY DEF ApprovedInv, WaitFits, Fits, OrEmpty
<1>5. OrderFits'
  BY DEF ApprovedInv, OrderFits, Fits, OrEmpty
<1> QED BY <1>2, <1>3, <1>4, <1>5 DEF ApprovedInv

\* The lines are written as they stand, or a write that is due stays due.
LEMMA FireApproved ==
    ASSUME GroceryInv, ApprovedInv, UNCHANGED <<lines, base, live, order, store, past>>,
           modal' => past.loose \/ (modal /\ place' = place /\ (sync.pending \/ sync.inFlight)),
           sent' = sent \/ sent' = sent \cup {Shop!Write(lines.units)}
    PROVE  ApprovedInv'
<1>1. store \in GroceryStores
  BY DEF GroceryInv, GroceryTypes
<1> DEFINE w == Shop!Write(lines.units)
<1>2. w.kind = "write" /\ w.cart = Shop!NoCart /\ w.units = lines.units /\ w.state = "sent"
  BY DEF Shop!Write, Shop!Command
<1>3. sent' = sent \/ sent' = sent \cup {w}
  OBVIOUS
<1> HIDE DEF w
<1>4. AllFits'
  BY <1>1, <1>2, <1>3, EmptyFits DEF ApprovedInv, AllFits, Fits
<1>5. ModalFits'
  BY DEF ApprovedInv, ModalFits, Fits
<1>6. WaitFits'
  BY <1>2, <1>3 DEF ApprovedInv, WaitFits, Fits, OrEmpty
<1>7. OrderFits'
  BY <1>2, <1>3 DEF ApprovedInv, OrderFits, Fits, OrEmpty
<1> QED BY <1>4, <1>5, <1>6, <1>7 DEF ApprovedInv

LEMMA FireSent ==
    ASSUME NEW s \in GroceryFlags, NEW u
    PROVE  Shop!FireNowCmd(s, u) = {} \/ Shop!FireNowCmd(s, u) = {Shop!Write(u)}
<1> QED BY DEF Shop!FireNowCmd

LEMMA CommandFresh ==
    ASSUME NEW kind, NEW u
    PROVE  Shop!Command(kind, u).kind = kind /\ Shop!Command(kind, u).cart = Shop!NoCart
<1> QED BY DEF Shop!Command

LEMMA KeysApproved ==
    ASSUME GroceryInv, ApprovedInv, NEW p \in Products,
           Shop!Add(p) \/ Shop!Dec(p) \/ Shop!Inc(p) \/ Shop!Reduce(p)
    PROVE  ApprovedInv'
<1>1. modal => past.loose
  BY DEF ApprovedInv, ModalFits, Shop!Add, Shop!Dec, Shop!Inc, Shop!Reduce, Shop!Unfrozen
<1>2. past' = Shop!Edited /\ UNCHANGED <<modal, live, order, store>>
  BY DEF Shop!Add, Shop!Dec, Shop!Inc, Shop!Reduce
<1>3. CASE Shop!Add(p) \/ Shop!Dec(p) \/ Shop!Inc(p)
  <2>1. sent' = sent
    BY <1>3 DEF Shop!Add, Shop!Dec, Shop!Inc
  <2> QED BY <1>1, <1>2, <2>1, EmptyTyped, EditApproved
<1>4. CASE Shop!Reduce(p)
  <2>1. sync \in GroceryFlags
    BY DEF GroceryInv, GroceryTypes
  <2>2. sent' = sent \/ sent' = sent \cup {Shop!Write(lines'.units)}
    BY <1>4, <2>1, FireSent DEF Shop!Reduce
  <2>3. GroceryInv'
    BY <1>4, ReduceHolds
  <2>4. lines'.units \in Shop!Carts
    BY <2>3 DEF GroceryInv, GroceryTypes, GroceryLines
  <2> QED BY <1>1, <1>2, <2>2, <2>4, EditApproved
<1> QED BY <1>3, <1>4

LEMMA StillApproved ==
    ASSUME GroceryInv, ApprovedInv, Shop!Visit \/ Shop!Home \/ Shop!Back \/ Shop!No \/ Shop!DropPayment
    PROVE  ApprovedInv'
<1>1. UNCHANGED <<lines, base, live, store, past>>
  BY DEF Shop!Visit, Shop!Home, Shop!Back, Shop!No, Shop!DropPayment
<1>2. modal' => past.loose \/ (modal /\ place' = place)
  BY DEF ApprovedInv, ModalFits, Shop!Visit, Shop!Home, Shop!Back, Shop!No, Shop!DropPayment, Shop!Unfrozen
<1>3. sync \in GroceryFlags /\ order \in GroceryOrders
  BY DEF GroceryInv, GroceryTypes
<1>4. sync'.pending = sync.pending /\ sync'.inFlight = sync.inFlight
  BY <1>3 DEF Shop!Visit, Shop!Home, Shop!Back, Shop!No, Shop!DropPayment, GroceryFlags
<1>5. order'.placePending = order.placePending /\ order'.approved = order.approved
  BY <1>3 DEF Shop!Visit, Shop!Home, Shop!Back, Shop!No, Shop!DropPayment, GroceryOrders
<1> DEFINE none == {}
           pull == {Shop!Command("pull", Shop!Empty)}
<1>6. \A c \in none : c.kind \in {"load", "pull", "confirm"} /\ c.cart = Shop!NoCart
  OBVIOUS
<1>7. \A c \in pull : c.kind \in {"load", "pull", "confirm"} /\ c.cart = Shop!NoCart
  BY CommandFresh
<1>8. sent' = sent \cup none \/ sent' = sent \cup pull
  BY DEF Shop!Visit, Shop!Home, Shop!Back, Shop!No, Shop!DropPayment
<1> HIDE DEF none, pull
<1> QED BY <1>1, <1>2, <1>4, <1>5, <1>6, <1>7, <1>8, LookApproved

LEMMA CheckoutApproved ==
    ASSUME GroceryInv, ApprovedInv, Shop!ToCheckout
    PROVE  ApprovedInv'
<1>1. UNCHANGED <<modal, lines, base, live, order, store, past>> /\ sync \in GroceryFlags
  BY DEF Shop!ToCheckout, GroceryInv, GroceryTypes
<1>2. modal => past.loose
  BY DEF ApprovedInv, ModalFits, Shop!ToCheckout
<1>3. CASE sent' = sent \cup Shop!FireNowCmd(sync, lines.units)
  <2>1. sent' = sent \/ sent' = sent \cup {Shop!Write(lines.units)}
    BY <1>1, <1>3, FireSent
  <2> QED BY <1>1, <1>2, <2>1, FireApproved DEF Shop!ToCheckout
<1>4. CASE sent' = sent \cup {Shop!Command("load", Shop!Empty)} /\ UNCHANGED sync
  <2> DEFINE new == {Shop!Command("load", Shop!Empty)}
  <2>1. sent' = sent \cup new /\ \A c \in new : c.kind \in {"load", "pull", "confirm"} /\ c.cart = Shop!NoCart
    BY <1>4, CommandFresh
  <2> HIDE DEF new
  <2> QED BY <1>1, <1>2, <1>4, <2>1, LookApproved
<1> QED BY <1>3, <1>4 DEF Shop!ToCheckout

LEMMA SettleApproved ==
    ASSUME GroceryInv, ApprovedInv, Shop!Settle
    PROVE  ApprovedInv'
<1> QED BY FireApproved DEF Shop!Settle

\* The modal opens over lines that are what Swiggy said it holds.
LEMMA EnterApproved ==
    ASSUME GroceryInv, ApprovedInv, Shop!Enter
    PROVE  ApprovedInv'
<1>1. UNCHANGED <<place, lines, base, live, order, store, past>> /\ sync \in GroceryFlags
      /\ place = "checkout" /\ ~modal
  BY DEF Shop!Enter, Shop!Unfrozen, GroceryInv, GroceryTypes
<1>2. CASE sent' = sent \cup Shop!FireNowCmd(sync, lines.units) /\ UNCHANGED modal
  <2>1. sent' = sent \/ sent' = sent \cup {Shop!Write(lines.units)}
    BY <1>1, <1>2, FireSent
  <2> QED BY <1>1, <1>2, <2>1, FireApproved
<1>3. CASE modal' /\ UNCHANGED <<sync, sent>> /\ ~sync.pending /\ ~sync.inFlight /\ Shop!Matches(lines, live)
  <2>1. AllFits' /\ WaitFits' /\ OrderFits'
    BY <1>1, <1>3 DEF ApprovedInv, AllFits, WaitFits, OrderFits, Fits, OrEmpty
  <2>2. ModalFits'
    BY <1>1, <1>3 DEF ApprovedInv, AllFits, ModalFits, Fits, Shop!Matches
  <2> QED BY <2>1, <2>2 DEF ApprovedInv
<1> QED BY <1>2, <1>3 DEF Shop!Enter

\* The last write is the only one, and it is the lines the user said yes to.
LEMMA YesApproved ==
    ASSUME GroceryInv, ApprovedInv, Shop!Yes
    PROVE  ApprovedInv'
<1>1. UNCHANGED <<place, lines, base, live, store>> /\ modal /\ ~modal'
  BY DEF Shop!Yes
<1>2. store \in GroceryStores /\ order \in GroceryOrders /\ past \in GroceryPasts
  BY DEF GroceryInv, GroceryTypes
<1>3. CASE UNCHANGED <<sync, order, sent, past>>
  <2>1. AllFits' /\ ModalFits' /\ WaitFits' /\ OrderFits'
    BY <1>1, <1>3 DEF ApprovedInv, AllFits, ModalFits, WaitFits, OrderFits, Fits, OrEmpty
  <2> QED BY <2>1 DEF ApprovedInv
<1>4. CASE ~order.placing
  <2> DEFINE w == Shop!Write(lines.units)
  <2>1. w.kind = "write" /\ w.cart = Shop!NoCart /\ w.units = lines.units /\ w.state = "sent"
    BY DEF Shop!Write, Shop!Command
  <2>2. sent' = sent \cup {w}
    BY <1>4 DEF Shop!Yes
  <2> HIDE DEF w
  <2>3. AllFits'
    BY <1>1, <1>2, <2>1, <2>2, EmptyFits DEF ApprovedInv, AllFits, Fits
  <2>4. (past'.loose <=> past.loose \/ sync.inFlight) /\ (past'.touched <=> Shop!Placing)
    <3>1. Shop!Placing \in BOOLEAN /\ (past.loose \/ sync.inFlight) \in BOOLEAN
      BY DEF Shop!Placing
    <3>2. past' = [past EXCEPT !.yes = @ + 1, !.touched = Shop!Placing, !.loose = @ \/ sync.inFlight]
      BY <1>4 DEF Shop!Yes
    <3> QED BY <1>2, <3>1, <3>2, YesPast, Zenon
  <2>5. CASE past'.loose
    BY <2>3, <2>5, LooseEnds
  <2>6. CASE ~past'.loose
    <3>1. ~past.loose /\ \A c \in sent : c.kind # "write"
      BY <2>4, <2>6 DEF GroceryInv, OneWrite
    <3>2. Fits(lines.units)
      BY <1>1, <3>1 DEF ApprovedInv, ModalFits
    <3>3. order'.approved = lines.units
      BY <1>2, <1>4 DEF Shop!Yes, GroceryOrders
    <3>4. ModalFits'
      BY <1>1 DEF ModalFits
    <3>5. WaitFits'
      BY <1>1, <2>1, <2>2, <2>4, <3>1, <3>2, <3>3, NotPlacing DEF WaitFits, Fits, OrEmpty
    <3>6. OrderFits'
      BY <2>1, <2>2, <2>4, NotPlacing DEF OrderFits
    <3> QED BY <2>3, <3>4, <3>5, <3>6 DEF ApprovedInv
  <2> QED BY <2>5, <2>6
<1> QED BY <1>3, <1>4 DEF Shop!Yes

LEMMA LeaveApproved ==
    ASSUME GroceryInv, ApprovedInv, Shop!Leave
    PROVE  ApprovedInv'
<1>1. past.loose /\ store \in GroceryStores /\ past \in GroceryPasts
  BY DEF GroceryInv, OneWrite, GroceryTypes, Shop!Leave
<1>2. past'.loose
  BY <1>1, DisownedTyped DEF Shop!Leave
<1>3. AllFits'
  BY <1>1, EmptyFits DEF ApprovedInv, AllFits, Fits, Shop!Leave
<1> QED BY <1>2, <1>3, LooseEnds

LEMMA PolledApproved ==
    ASSUME GroceryInv, ApprovedInv, Shop!PaymentPolled
    PROVE  ApprovedInv'
<1>1. UNCHANGED <<place, modal, lines, base, live, sync, store, past>> /\ order \in GroceryOrders
  BY DEF Shop!PaymentPolled, GroceryInv, GroceryTypes
<1>2. order'.placePending = order.placePending /\ order'.approved = order.approved
  BY <1>1 DEF Shop!PaymentPolled, GroceryOrders
<1> DEFINE none == {}
           confirm == {Shop!Command("confirm", Shop!Empty)}
<1>3. \A c \in none : c.kind \in {"load", "pull", "confirm"} /\ c.cart = Shop!NoCart
  OBVIOUS
<1>4. \A c \in confirm : c.kind \in {"load", "pull", "confirm"} /\ c.cart = Shop!NoCart
  BY CommandFresh
<1>5. sent' = sent \cup none \/ sent' = sent \cup confirm
  BY DEF Shop!PaymentPolled
<1> HIDE DEF none, confirm
<1> QED BY <1>1, <1>2, <1>3, <1>4, <1>5, LookApproved

-----------------------------------------------------------------------------
(* Swiggy                                                                    *)

\* An answer takes the place of its command, and may leave the cart empty.
LEMMA ServedApproved ==
    ASSUME GroceryInv, ApprovedInv, NEW c \in sent, c.kind \notin {"write", "clear"}, UNCHANGED Shop!loop,
           NEW d, sent' = (sent \ {c}) \cup {d}, d.kind = c.kind, d.units = c.units, Fits(d.cart.units),
           store'.limit = store.limit, store'.units \in OrEmpty(store.units),
           past'.touched = past.touched, past'.loose = past.loose
    PROVE  ApprovedInv'
<1>1. store \in GroceryStores /\ UNCHANGED <<place, modal, lines, base, live, sync, order>>
  BY DEF GroceryInv, GroceryTypes, Shop!loop
<1>2. AllFits'
  BY <1>1, EmptyFits DEF ApprovedInv, AllFits, Fits, OrEmpty
<1>3. ModalFits'
  BY <1>1 DEF ApprovedInv, ModalFits, Fits
<1>4. WaitFits'
  BY <1>1 DEF ApprovedInv, WaitFits, Fits, OrEmpty
<1>5. OrderFits'
  BY <1>1 DEF ApprovedInv, OrderFits, Fits, OrEmpty
<1> QED BY <1>2, <1>3, <1>4, <1>5 DEF ApprovedInv

\* A cart that fits is taken as it was sent.
LEMMA ServeWriteApproved ==
    ASSUME GroceryInv, ApprovedInv, NEW c \in sent, c.state = "sent", UNCHANGED Shop!loop, Shop!ServeWrite(c)
    PROVE  ApprovedInv'
<1>1. sent \subseteq GroceryCommands /\ c.units \in Shop!Carts /\ store \in GroceryStores /\ past \in GroceryPasts
      /\ UNCHANGED <<place, modal, lines, base, live, sync, order>>
  BY DEF GroceryInv, GroceryTypes, GroceryCommands, Shop!loop
<1>2. past'.touched = past.touched /\ past'.loose = past.loose
  BY <1>1, FaultTyped DEF Shop!ServeWrite
<1>3. /\ store'.limit = store.limit
      /\ store'.units \in {store.units, Shop!Capped(c.units), Shop!Empty}
      /\ store' \in GroceryStores
  <2>1. Shop!Replaced(c.units) \in GroceryStores /\ Shop!Replaced(c.units).units = Shop!Capped(c.units)
        /\ Shop!Replaced(c.units).limit = store.limit
    BY <1>1, ReplacedTyped, CappedFits
  <2> QED BY <1>1, <2>1, EmptyTyped DEF Shop!ServeWrite, GroceryStores
<1>4. PICK d \in GroceryCommands :
        /\ sent' = (sent \ {c}) \cup {d} /\ d.kind = c.kind /\ d.units = c.units /\ d.state # "sent"
        /\ \/ d.state = "ok" /\ d.cart.units = store'.units /\ store'.units = Shop!Capped(c.units)
           \/ d.state # "ok" /\ d.cart = Shop!NoCart
  <2>1. CASE Shop!Answered(c, "ok", Shop!Cart(store')) /\ store' = Shop!Replaced(c.units)
    <3>1. Shop!Cart(store') \in GroceryAnswers /\ Shop!Cart(store').units = store'.units /\ "ok" \in Shop!States
      BY <1>3, CartTyped DEF Shop!States
    <3>2. store'.units = Shop!Capped(c.units)
      BY <1>1, <2>1, CappedFits
    <3> QED BY <1>1, <2>1, <3>1, <3>2, AnsweredTyped
  <2>2. ASSUME NEW state \in {"error", "closed", "expired"}, Shop!Answered(c, state, Shop!NoCart)
        PROVE  \E d \in GroceryCommands :
                 /\ sent' = (sent \ {c}) \cup {d} /\ d.kind = c.kind /\ d.units = c.units
                 /\ d.state = state /\ d.cart = Shop!NoCart
    <3>1. state \in Shop!States
      BY DEF Shop!States
    <3> QED BY <1>1, <2>2, <3>1, NoCartTyped, AnsweredTyped
  <2>3. \A state \in {"error", "closed", "expired"} : state # "ok" /\ state # "sent"
    OBVIOUS
  <2> QED BY <2>1, <2>2, <2>3 DEF Shop!ServeWrite
<1>5. Fits(Shop!Capped(c.units)) /\ (Fits(c.units) => Shop!Capped(c.units) = c.units)
  BY <1>1, CappedFits
<1>6. Fits(Shop!Empty) /\ Fits(Shop!NoCart.units) /\ Fits(store.units)
  BY <1>1, EmptyFits DEF ApprovedInv, AllFits
<1>7. Fits(store'.units) /\ Fits(d.cart.units)
  BY <1>3, <1>4, <1>5, <1>6
<1>8. AllFits'
  BY <1>1, <1>3, <1>4, <1>7 DEF ApprovedInv, AllFits, Fits
<1>9. CASE past.loose
  BY <1>2, <1>8, <1>9, LooseEnds
<1>10. CASE ~past.loose
  <2>1. c.kind = "write" /\ \A e \in sent \ {c} : e.kind # "write"
    BY <1>10 DEF GroceryInv, OneWrite, Shop!ServeWrite, Shop!Writes
  <2>2. ModalFits'
    BY <1>1, <1>2, <1>3 DEF ApprovedInv, ModalFits, Fits
  <2>3. ASSUME NEW u, Fits(u), c.units \in OrEmpty(u)
        PROVE  Shop!Capped(c.units) \in OrEmpty(u)
    BY <1>5, <1>6, <2>3 DEF OrEmpty
  <2>4. WaitFits'
    <3> SUFFICES ASSUME order.placePending, ~past.touched PROVE WaitFits'
      BY <1>1, <1>2 DEF WaitFits
    <3>1. /\ \A e \in sent : e.kind \notin {"upi", "cod"}
          /\ Fits(order.approved) /\ lines.units \in OrEmpty(order.approved)
          /\ c.units \in OrEmpty(order.approved)
      BY <1>10, <2>1 DEF ApprovedInv, WaitFits
    <3>2. Shop!Capped(c.units) \in OrEmpty(order.approved)
      BY <2>3, <3>1
    <3>3. \A w \in sent' : w.kind = "write" => w = d
      BY <1>4, <2>1
    <3>4. Fits(order.approved)'
      BY <1>1, <1>3, <3>1 DEF Fits
    <3>5. \A e \in sent' : e.kind \notin {"upi", "cod"}
      BY <1>4, <2>1, <3>1
    <3> QED BY <1>1, <1>4, <3>1, <3>2, <3>3, <3>4, <3>5 DEF WaitFits, OrEmpty
  <2>5. OrderFits'
    <3> SUFFICES ASSUME ~past.touched, NEW e \in sent', e.kind \in {"upi", "cod"}
                 PROVE  /\ Fits(e.units)' /\ store'.units \in OrEmpty(e.units)
                        /\ lines'.units \in OrEmpty(e.units)
                        /\ base'.set => base'.lines.units \in OrEmpty(e.units)
                        /\ \A w \in sent' : w.kind = "write" =>
                             /\ w.state = "sent" => w.units \in OrEmpty(e.units)
                             /\ w.state = "ok" => w.cart.units \in OrEmpty(e.units)
      BY <1>2 DEF OrderFits, OrEmpty
    <3>1. e \in sent
      BY <1>4, <2>1
    <3>2. /\ Fits(e.units) /\ store.units \in OrEmpty(e.units)
          /\ lines.units \in OrEmpty(e.units)
          /\ base.set => base.lines.units \in OrEmpty(e.units)
          /\ c.units \in OrEmpty(e.units)
      BY <1>10, <2>1, <3>1 DEF ApprovedInv, OrderFits
    <3>3. Shop!Capped(c.units) \in OrEmpty(e.units)
      BY <2>3, <3>2
    <3>4. \A w \in sent' : w.kind = "write" => w = d
      BY <1>4, <2>1
    <3>5. Fits(e.units)'
      BY <1>3, <3>2 DEF Fits
    <3>6. store'.units \in OrEmpty(e.units)
      BY <1>3, <3>2, <3>3 DEF OrEmpty
    <3> QED BY <1>1, <1>4, <3>2, <3>3, <3>4, <3>5, <3>6
  <2> QED BY <1>8, <2>2, <2>4, <2>5 DEF ApprovedInv
<1> QED BY <1>9, <1>10

\* Swiggy takes an order, or not, and may fail after that.
LEMMA OrderedPast ==
    ASSUME past \in GroceryPasts, NEW c, Shop!ServeOrder(c)
    PROVE  past'.touched = past.touched /\ past'.loose = past.loose
<1>1. CASE past' \in {past, [past EXCEPT !.orders = @ + 1], [past EXCEPT !.faults = @ + 1]}
  BY <1>1 DEF GroceryPasts
<1>2. CASE past' = [past EXCEPT !.faults = @ + 1, !.orders = @ + 1]
  BY <1>2 DEF GroceryPasts
<1> QED BY <1>1, <1>2 DEF Shop!ServeOrder

LEMMA ServeOtherApproved ==
    ASSUME GroceryInv, ApprovedInv, NEW c \in sent, UNCHANGED Shop!loop,
           Shop!ServeRead(c) \/ Shop!ServeOrder(c) \/ Shop!ServeConfirm(c)
    PROVE  ApprovedInv'
<1>1. sent \subseteq GroceryCommands /\ store \in GroceryStores /\ past \in GroceryPasts
  BY DEF GroceryInv, GroceryTypes
<1>2. c.kind \notin {"write", "clear"}
  BY DEF Shop!ServeRead, Shop!ServeOrder, Shop!ServeConfirm
<1>3. past'.touched = past.touched /\ past'.loose = past.loose
  BY <1>1, FaultTyped, OrderedPast DEF Shop!ServeRead, Shop!ServeOrder, Shop!ServeConfirm
<1>4. store'.limit = store.limit /\ store'.units \in OrEmpty(store.units)
  BY <1>1 DEF Shop!ServeRead, Shop!ServeOrder, Shop!ServeConfirm, Shop!Emptied, GroceryStores, OrEmpty
<1>5. PICK d \in GroceryCommands :
        sent' = (sent \ {c}) \cup {d} /\ d.kind = c.kind /\ d.units = c.units /\ Fits(d.cart.units)
  <2>1. {"error", "noqr", "ok"} \subseteq Shop!States
    BY DEF Shop!States
  <2>2. Fits(Shop!NoCart.units) /\ Fits(Shop!Cart(store).units)
    BY <1>1, EmptyFits, CartTyped DEF ApprovedInv, AllFits
  <2>3. Shop!NoCart \in GroceryAnswers /\ Shop!Cart(store) \in GroceryAnswers
    BY <1>1, NoCartTyped, CartTyped
  <2>4. \E state \in {"error", "noqr", "ok"}, a \in {Shop!NoCart, Shop!Cart(store)} : Shop!Answered(c, state, a)
    BY DEF Shop!ServeRead, Shop!ServeOrder, Shop!ServeConfirm
  <2> QED BY <1>1, <2>1, <2>2, <2>3, <2>4, AnsweredTyped
<1> QED BY <1>2, <1>3, <1>4, <1>5, ServedApproved

LEMMA MoveApproved ==
    ASSUME GroceryInv, ApprovedInv, Shop!Move
    PROVE  ApprovedInv'
<1>1. store \in GroceryStores /\ past \in GroceryPasts
      /\ UNCHANGED <<place, modal, lines, base, live, sync, order, sent>>
  BY DEF GroceryInv, GroceryTypes, Shop!Move, Shop!loop
<1>2. past'.touched = past.touched /\ past'.loose = past.loose
  BY <1>1, FaultTyped DEF Shop!Move
<1>3. store'.units = store.units /\ store'.limit = store.limit
  BY <1>1 DEF Shop!Move, GroceryStores
<1>4. AllFits' /\ ModalFits'
  BY <1>1, <1>2, <1>3 DEF ApprovedInv, AllFits, ModalFits, Fits
<1>5. WaitFits' /\ OrderFits'
  BY <1>1, <1>2, <1>3 DEF ApprovedInv, WaitFits, OrderFits, Fits, OrEmpty
<1> QED BY <1>4, <1>5 DEF ApprovedInv

-----------------------------------------------------------------------------
(* Answers                                                                   *)

\* A write that failed: an order that waited for it is off, and the lines that come
\* back are the ones before it, or none.
LEMMA FailedApproved ==
    ASSUME GroceryInv, ApprovedInv, NEW c \in sent, Shop!SyncFailed(c)
    PROVE  ApprovedInv'
<1>1. c.kind \in {"write", "clear"} /\ UNCHANGED <<place, modal, base, live, store>>
  BY DEF Shop!SyncFailed, Shop!Writes
<1>2. store \in GroceryStores /\ order \in GroceryOrders /\ past \in GroceryPasts /\ sync \in GroceryFlags
  BY DEF GroceryInv, GroceryTypes
<1>3. past'.touched = past.touched /\ past'.loose = past.loose
  BY <1>2, DisownedTyped DEF Shop!SyncFailed
<1>4. ~order'.placePending
  <2>1. CASE order.placePending
    <3>1. order' = [Shop!Settled EXCEPT !.placing = FALSE]
      BY <2>1 DEF Shop!SyncFailed
    <3> QED BY <1>2, <3>1, SettledTyped DEF GroceryOrders
  <2>2. CASE ~order.placePending
    BY <2>2 DEF Shop!SyncFailed
  <2> QED BY <2>1, <2>2
<1> DEFINE w == Shop!Write(lines.units)
<1>5. w.kind = "write" /\ w.cart = Shop!NoCart /\ w.units = lines.units /\ w.state = "sent"
  BY DEF Shop!Write, Shop!Command
<1>6. \/ sent' = (sent \ {c}) \cup {w} /\ UNCHANGED lines
      \/ sent' = sent \ {c} /\ lines' = IF base.set THEN base.lines ELSE Shop!NoLines
  BY DEF Shop!SyncFailed
<1> HIDE DEF w
<1>7. Fits(Shop!Empty) /\ Fits(Shop!NoCart.units) /\ Shop!NoLines.units = Shop!Empty
  BY <1>2, EmptyFits DEF Shop!NoLines, Shop!Lines
<1>8. AllFits'
  BY <1>1, <1>5, <1>6, <1>7 DEF ApprovedInv, AllFits, Fits
<1>9. CASE past.loose
  BY <1>3, <1>8, <1>9, LooseEnds
<1>10. CASE ~past.loose
  <2>1. sync.inFlight /\ \A e \in sent \ {c} : e.kind # "write"
    BY <1>1, <1>10 DEF GroceryInv, OneWrite
  <2>2. order.placePending => past.touched \/ \A e \in sent : e.kind \notin {"upi", "cod"}
    BY <1>10 DEF ApprovedInv, WaitFits
  <2>3. ModalFits'
    BY <1>1, <1>3, <1>6, <1>7, <2>1 DEF ApprovedInv, ModalFits, Fits
  <2>4. WaitFits'
    BY <1>4 DEF WaitFits
  <2>5. OrderFits'
    BY <1>1, <1>3, <1>5, <1>6, <1>7, <1>10, <2>1 DEF ApprovedInv, OrderFits, Fits, OrEmpty
  <2> QED BY <1>8, <2>3, <2>4, <2>5 DEF ApprovedInv
<1> QED BY <1>9, <1>10

\* A write that went well: the order that waited goes out, for what the user approved.
LEMMA SyncedApproved ==
    ASSUME GroceryInv, ApprovedInv, NEW c \in sent, Shop!Synced(c)
    PROVE  ApprovedInv'
<1> DEFINE adjusted == Shop!Adopts(sync, lines, c.cart)
           l        == IF adjusted THEN Shop!LinesOf(c.cart) ELSE Shop!Stamped(lines, c.cart)
           chase    == sync.confirmPending /\ (sync.pending \/ ~Shop!Matches(l, c.cart)) /\ sync.chase < MaxChase
           spent    == sync.confirmPending /\ ~Shop!Matches(l, c.cart)
           final    == IF ~order.placePending /\ ~adjusted /\ ~chase /\ spent THEN Shop!LinesOf(c.cart) ELSE l
           w        == Shop!Write(l.units)
           upi      == Shop!Command("upi", order.approved)
<1>1. /\ c.kind \in {"write", "clear"} /\ c.state = "ok" /\ live' = c.cart /\ UNCHANGED <<place, store>>
      /\ lines' = final /\ base' = [set |-> TRUE, lines |-> final]
      /\ past' \in {past, Shop!Disowned}
  BY DEF Shop!Synced, Shop!Writes
<1>2. /\ GroceryTypes /\ store \in GroceryStores /\ order \in GroceryOrders /\ past \in GroceryPasts
      /\ sync \in GroceryFlags /\ lines \in GroceryLines /\ c.cart \in GroceryAnswers
  BY AnswerTyped DEF GroceryInv, GroceryTypes
<1>3. /\ Shop!LinesOf(c.cart).units = c.cart.units /\ Shop!Stamped(lines, c.cart).units = lines.units
  BY <1>2, StampedTyped
<1>4. l.units \in {lines.units, c.cart.units} /\ final.units \in {lines.units, c.cart.units}
  BY <1>3
<1>5. ~spent /\ sync.confirmPending => l.units = c.cart.units
  BY DEF Shop!Matches
\* The order goes out, or a write after an Enter that waited, or nothing.
<1>6. /\ ~order'.placePending
      /\ \/ order.placePending /\ sent' \in {sent \ {c}, (sent \ {c}) \cup {upi}} /\ modal' = modal
         \/ ~order.placePending /\ sent' \in {sent \ {c}, (sent \ {c}) \cup {w}} /\ (modal' => modal)
         \/ /\ ~order.placePending /\ sent' = sent \ {c} /\ final = l
            /\ modal' => modal \/ (place = "checkout" /\ sync.confirmPending /\ ~spent)
  <2>1. CASE order.placePending
    <3>1. Shop!Place(c, l)
      BY <2>1 DEF Shop!Synced
    <3>2. ~order'.placePending
      <4> DEFINE go == l.out = {} /\ c.cart.total = order.total
      <4>1. Shop!Settled \in GroceryOrders /\ ~Shop!Settled.placePending
        BY <1>2, SettledTyped
      <4>2. order' = [Shop!Settled EXCEPT !.placing = @ /\ go]
        BY <3>1 DEF Shop!Place
      <4> QED BY <4>1, <4>2 DEF GroceryOrders
    <3> HIDE DEF l
    <3> QED BY <2>1, <3>1, <3>2 DEF Shop!Place
  <2>2. CASE ~order.placePending /\ adjusted
    BY <2>2 DEF Shop!Synced
  <2>3. CASE ~order.placePending /\ ~adjusted /\ chase
    <3>1. Shop!Chase(c, l)
      BY <2>3 DEF Shop!Synced
    <3> HIDE DEF l
    <3>2. sent' \in {sent \ {c}, (sent \ {c}) \cup {w}} /\ UNCHANGED <<order, modal>>
      BY <3>1 DEF Shop!Chase, Shop!FireNowCmd
    <3> QED BY <2>3, <3>2
  <2>4. CASE ~order.placePending /\ ~adjusted /\ ~chase
    <3>1. sent' = sent \ {c} /\ UNCHANGED order
          /\ modal' = (modal \/ (/\ sync.confirmPending /\ ~spent /\ ~order.placing
                                 /\ l.units # Shop!Empty /\ place = "checkout"))
      BY <2>4 DEF Shop!Synced
    <3>2. CASE spent
      <4>1. modal' => modal
        BY <3>1, <3>2
      <4> QED BY <2>4, <3>1, <4>1
    <3>3. CASE ~spent
      BY <2>4, <3>1, <3>3
    <3> QED BY <3>2, <3>3
  <2> QED BY <2>1, <2>2, <2>3, <2>4
<1>7. /\ w.kind = "write" /\ w.cart = Shop!NoCart /\ w.units = l.units /\ w.state = "sent"
      /\ upi.kind = "upi" /\ upi.cart = Shop!NoCart /\ upi.units = order.approved
  BY DEF Shop!Write, Shop!Command
<1> HIDE DEF adjusted, l, chase, spent, final, w, upi
<1>8. past'.touched = past.touched /\ past'.loose = past.loose
  BY <1>1, <1>2, DisownedTyped
<1>9. Fits(c.cart.units) /\ Fits(Shop!Empty) /\ Fits(Shop!NoCart.units)
  BY <1>2, EmptyFits DEF ApprovedInv, AllFits
<1>10. AllFits'
  BY <1>1, <1>6, <1>7, <1>9 DEF ApprovedInv, AllFits, Fits
<1>11. CASE past.loose
  BY <1>8, <1>10, <1>11, LooseEnds
<1>12. CASE ~past.loose
  <2>1. c.kind = "write" /\ \A e \in sent \ {c} : e.kind # "write"
    BY <1>1, <1>12 DEF GroceryInv, OneWrite
  <2>2. modal' => place = "checkout" /\ Fits(final.units)
    BY <1>4, <1>5, <1>6, <1>9, <1>12 DEF ApprovedInv, ModalFits
  <2>3. ModalFits'
    BY <1>1, <1>8, <2>2 DEF ModalFits, Fits
  <2>4. WaitFits'
    BY <1>6 DEF WaitFits
  <2>5. OrderFits'
    <3> SUFFICES ASSUME ~past.touched, NEW e \in sent', e.kind \in {"upi", "cod"}
                 PROVE  /\ Fits(e.units) /\ store.units \in OrEmpty(e.units)
                        /\ final.units \in OrEmpty(e.units)
                        /\ \A v \in sent' : v.kind = "write" =>
                             v.state = "sent" /\ v.units \in OrEmpty(e.units)
      BY <1>1, <1>8 DEF OrderFits, OrEmpty, Fits
    <3>1. CASE order.placePending
      <4>1. /\ \A a \in sent : a.kind \notin {"upi", "cod"}
            /\ Fits(order.approved) /\ lines.units \in OrEmpty(order.approved)
            /\ c.cart.units \in OrEmpty(order.approved) /\ store.units \in OrEmpty(order.approved)
        BY <1>1, <1>12, <2>1, <3>1 DEF ApprovedInv, WaitFits
      <4>2. e.units = order.approved /\ \A v \in sent' : v.kind # "write"
        BY <1>6, <1>7, <2>1, <3>1, <4>1
      <4> QED BY <1>4, <4>1, <4>2
    <3>2. CASE ~order.placePending
      <4>1. e \in sent
        BY <1>6, <1>7, <3>2
      <4>2. /\ Fits(e.units) /\ store.units \in OrEmpty(e.units)
            /\ lines.units \in OrEmpty(e.units) /\ c.cart.units \in OrEmpty(e.units)
        BY <1>1, <1>12, <2>1, <4>1 DEF ApprovedInv, OrderFits
      <4>3. \A v \in sent' : v.kind = "write" => v = w
        BY <1>6, <2>1, <3>2
      <4> QED BY <1>4, <1>7, <4>2, <4>3
    <3> QED BY <3>1, <3>2
  <2> QED BY <1>10, <2>3, <2>4, <2>5 DEF ApprovedInv
<1> QED BY <1>11, <1>12

\* A read replaces the lines by what Swiggy held, and an order that is being placed is told.
LEMMA ReadApproved ==
    ASSUME GroceryInv, ApprovedInv, NEW c \in sent, sent' = sent \ {c},
           UNCHANGED <<place, modal, sync, order, store>>, live' \in {live, c.cart},
           \/ UNCHANGED <<lines, base, past>>
           \/ /\ base' = [set |-> TRUE, lines |-> lines'] /\ lines'.units \in {lines.units, c.cart.units}
              /\ past'.loose = past.loose /\ (~past'.touched => ~past.touched)
              /\ lines'.units = lines.units \/ (Shop!Placing => past'.touched)
    PROVE  ApprovedInv'
<1>1. AllFits'
  BY DEF ApprovedInv, AllFits, Fits
<1>2. CASE UNCHANGED <<lines, base, past>>
  <2>1. ModalFits' /\ WaitFits' /\ OrderFits'
    BY <1>2 DEF ApprovedInv, ModalFits, WaitFits, OrderFits, Fits, OrEmpty
  <2> QED BY <1>1, <2>1 DEF ApprovedInv
<1>3. CASE /\ base' = [set |-> TRUE, lines |-> lines'] /\ lines'.units \in {lines.units, c.cart.units}
           /\ past'.loose = past.loose /\ (~past'.touched => ~past.touched)
           /\ lines'.units = lines.units \/ (Shop!Placing => past'.touched)
  <2>1. ModalFits'
    BY <1>3 DEF ApprovedInv, AllFits, ModalFits, Fits
  <2>2. ~past'.touched => lines'.units = lines.units \/ ~Shop!Placing
    BY <1>3
  <2>3. WaitFits'
    BY <1>3, <2>2, NotPlacing DEF ApprovedInv, WaitFits, Fits, OrEmpty
  <2>4. OrderFits'
    BY <1>3, <2>2, NotPlacing DEF ApprovedInv, OrderFits, Fits, OrEmpty
  <2> QED BY <1>1, <2>1, <2>3, <2>4 DEF ApprovedInv
<1> QED BY <1>2, <1>3

LEMMA LoadedApproved ==
    ASSUME GroceryInv, ApprovedInv, NEW c \in sent, Shop!CartLoaded(c)
    PROVE  ApprovedInv'
<1>1. sent' = sent \ {c} /\ UNCHANGED <<place, modal, sync, order, store>>
  BY DEF Shop!CartLoaded
<1>2. CASE UNCHANGED <<live, lines, base, past>>
  BY <1>1, <1>2, ReadApproved
<1>3. CASE /\ live' = c.cart
           /\ lines' \in {Shop!LinesOf(c.cart), Shop!Stamped(lines, c.cart)}
           /\ base' = [set |-> TRUE, lines |-> lines']
           /\ past' = IF lines'.units = lines.units THEN past ELSE [Shop!Overtaken EXCEPT !.read = TRUE]
  <2>1. past \in GroceryPasts /\ lines'.units \in {lines.units, c.cart.units}
    BY <1>3, AnswerTyped, StampedTyped DEF GroceryInv, GroceryTypes
  <2>2. Shop!Overtaken \in GroceryPasts /\ Shop!Overtaken.loose = past.loose
        /\ (Shop!Overtaken.touched <=> past.touched \/ Shop!Placing)
    BY <2>1, OvertakenTyped
  <2>3. /\ past'.loose = past.loose /\ (~past'.touched => ~past.touched)
        /\ lines'.units = lines.units \/ (Shop!Placing => past'.touched)
    BY <1>3, <2>1, <2>2 DEF GroceryPasts
  <2> QED BY <1>1, <1>3, <2>1, <2>3, ReadApproved
<1> QED BY <1>2, <1>3 DEF Shop!CartLoaded

LEMMA PulledApproved ==
    ASSUME GroceryInv, ApprovedInv, NEW c \in sent, Shop!CartPulled(c)
    PROVE  ApprovedInv'
<1>1. sent' = sent \ {c} /\ UNCHANGED <<place, modal, sync, order, store>> /\ live' \in {live, c.cart}
  BY DEF Shop!CartPulled
<1>2. CASE UNCHANGED <<lines, base, past>>
  BY <1>1, <1>2, ReadApproved
<1>3. CASE /\ lines' = Shop!LinesOf(c.cart) /\ base' = [set |-> TRUE, lines |-> lines']
           /\ past' = [Shop!Overtaken EXCEPT !.own = FALSE]
  <2>1. past \in GroceryPasts /\ lines'.units = c.cart.units
    BY <1>3, AnswerTyped, StampedTyped DEF GroceryInv, GroceryTypes
  <2>2. Shop!Overtaken \in GroceryPasts /\ Shop!Overtaken.loose = past.loose
        /\ (Shop!Overtaken.touched <=> past.touched \/ Shop!Placing)
    BY <2>1, OvertakenTyped
  <2>3. past'.loose = past.loose /\ (past'.touched <=> past.touched \/ Shop!Placing)
    BY <1>3, <2>1, <2>2 DEF GroceryPasts
  <2> QED BY <1>1, <1>3, <2>1, <2>3, ReadApproved
<1> QED BY <1>2, <1>3 DEF Shop!CartPulled

LEMMA UPIApproved ==
    ASSUME GroceryInv, ApprovedInv, NEW c \in sent, Shop!UPIPlaced(c)
    PROVE  ApprovedInv'
<1>1. c.kind = "upi" /\ UNCHANGED <<place, modal, lines, base, live, sync, store, past>>
      /\ store \in GroceryStores /\ order \in GroceryOrders
  BY DEF Shop!UPIPlaced, GroceryInv, GroceryTypes
<1> DEFINE w == Shop!Command("cod", c.units)
<1>2. w.kind = "cod" /\ w.units = c.units /\ w.cart = Shop!NoCart
  BY DEF Shop!Command
<1>3. sent' \in {sent \ {c}, (sent \ {c}) \cup {w}}
  BY DEF Shop!UPIPlaced
<1> HIDE DEF w
<1>4. order'.placePending = order.placePending /\ order'.approved = order.approved
  BY <1>1 DEF Shop!UPIPlaced, GroceryOrders
<1>5. AllFits'
  BY <1>1, <1>2, <1>3, EmptyFits DEF ApprovedInv, AllFits, Fits
<1>6. ModalFits'
  BY <1>1 DEF ApprovedInv, ModalFits, Fits
<1>7. WaitFits'
  BY <1>1, <1>4 DEF ApprovedInv, WaitFits
<1>8. OrderFits'
  <2> SUFFICES ASSUME ~past.touched, ~past.loose, NEW e \in sent', e.kind \in {"upi", "cod"}
               PROVE  /\ Fits(e.units) /\ store.units \in OrEmpty(e.units)
                      /\ lines.units \in OrEmpty(e.units)
                      /\ base.set => base.lines.units \in OrEmpty(e.units)
                      /\ \A v \in sent' : v.kind = "write" =>
                           /\ v.state = "sent" => v.units \in OrEmpty(e.units)
                           /\ v.state = "ok" => v.cart.units \in OrEmpty(e.units)
    BY <1>1 DEF OrderFits, OrEmpty, Fits
  <2>1. PICK a \in sent : a.kind \in {"upi", "cod"} /\ a.units = e.units
    BY <1>1, <1>2, <1>3
  <2>2. \A v \in sent' : v.kind = "write" => v \in sent
    BY <1>2, <1>3
  <2> QED BY <2>1, <2>2 DEF ApprovedInv, OrderFits
<1> QED BY <1>5, <1>6, <1>7, <1>8 DEF ApprovedInv

LEMMA PlacedApproved ==
    ASSUME GroceryInv, ApprovedInv, NEW c \in sent, Shop!OrderPlaced(c)
    PROVE  ApprovedInv'
<1>1. UNCHANGED <<modal, sync, store>> /\ store \in GroceryStores /\ order \in GroceryOrders /\ past \in GroceryPasts
  BY DEF Shop!OrderPlaced, GroceryInv, GroceryTypes
<1>2. order'.placePending = order.placePending /\ order'.approved = order.approved
  BY <1>1 DEF Shop!OrderPlaced, GroceryOrders
<1>3. past' = [Shop!Disowned EXCEPT !.loose = @ \/ c.state = "ok"]
      /\ Shop!Disowned \in GroceryPasts /\ Shop!Disowned.loose = past.loose /\ Shop!Disowned.touched = past.touched
  BY <1>1, DisownedTyped DEF Shop!OrderPlaced
<1>4. past'.touched = past.touched /\ (past'.loose <=> past.loose \/ c.state = "ok")
  <2>1. CASE Shop!Disowned.loose \/ c.state = "ok"
    <3>1. past' = [Shop!Disowned EXCEPT !.loose = TRUE]
      BY <1>3, <2>1, Zenon
    <3> QED BY <1>3, <2>1, <3>1 DEF GroceryPasts
  <2>2. CASE ~(Shop!Disowned.loose \/ c.state = "ok")
    <3>1. past' = [Shop!Disowned EXCEPT !.loose = FALSE]
      BY <1>3, <2>2, Zenon
    <3> QED BY <1>3, <2>2, <3>1 DEF GroceryPasts
  <2> QED BY <2>1, <2>2
<1>5. CASE c.state = "ok"
  <2>1. AllFits'
    BY <1>1, <1>5, EmptyFits, CommandFresh DEF ApprovedInv, AllFits, Fits, Shop!OrderPlaced
  <2> QED BY <1>4, <1>5, <2>1, LooseEnds
<1>6. CASE c.state # "ok"
  <2>1. sent' = sent \ {c} /\ UNCHANGED <<place, lines, live, base>>
    BY <1>6 DEF Shop!OrderPlaced
  <2>2. AllFits' /\ ModalFits'
    BY <1>1, <1>4, <1>6, <2>1 DEF ApprovedInv, AllFits, ModalFits, Fits
  <2>3. WaitFits' /\ OrderFits'
    BY <1>1, <1>2, <1>4, <1>6, <2>1 DEF ApprovedInv, WaitFits, OrderFits, Fits, OrEmpty
  <2> QED BY <2>2, <2>3 DEF ApprovedInv
<1> QED BY <1>5, <1>6

-----------------------------------------------------------------------------

LEMMA ApprovedNext == GroceryInv /\ ApprovedInv /\ [Shop!Next]_shopVars => ApprovedInv'
<1> SUFFICES ASSUME GroceryInv, ApprovedInv, [Shop!Next]_shopVars PROVE ApprovedInv'
  OBVIOUS
<1>1. CASE UNCHANGED shopVars
  BY <1>1 DEF shopVars, ApprovedInv, AllFits, ModalFits, WaitFits, OrderFits, Fits, OrEmpty
<1>2. CASE Shop!Key
  BY <1>2, KeysApproved, StillApproved, CheckoutApproved, EnterApproved, YesApproved, LeaveApproved DEF Shop!Key
<1>3. CASE Shop!Settle \/ Shop!Move \/ Shop!PaymentPolled
  BY <1>3, SettleApproved, MoveApproved, PolledApproved
<1>4. ASSUME NEW c \in sent, Shop!Serve(c) PROVE ApprovedInv'
  BY <1>4, ServeWriteApproved, ServeOtherApproved DEF Shop!Serve
<1>5. ASSUME NEW c \in sent, Shop!Answer(c) PROVE ApprovedInv'
  BY <1>5, FailedApproved, SyncedApproved, LoadedApproved, PulledApproved, UPIApproved, PlacedApproved DEF Shop!Answer
<1> QED BY <1>1, <1>2, <1>3, <1>4, <1>5 DEF Shop!Next

LEMMA ApprovedInit == Shop!Init => ApprovedInv
<1> SUFFICES ASSUME Shop!Init PROVE ApprovedInv
  OBVIOUS
<1>1. store \in GroceryStores
  BY DEF Shop!Init, GroceryStores
<1>2. AllFits
  BY <1>1, EmptyFits DEF Shop!Init, AllFits, Fits
<1>3. ModalFits /\ WaitFits /\ OrderFits
  BY DEF Shop!Init, ModalFits, WaitFits, OrderFits
<1> QED BY <1>2, <1>3 DEF ApprovedInv

\* Only Swiggy takes an order.
LEMMA OrdersTaken ==
    ASSUME GroceryInv, Shop!Next, \A c \in sent : ~Shop!Serve(c)
    PROVE  past'.orders = past.orders
<1>1. past \in GroceryPasts
  BY DEF GroceryInv, GroceryTypes
<1>2. /\ Shop!Edited.orders = past.orders /\ Shop!Disowned \in GroceryPasts /\ Shop!Disowned.orders = past.orders
      /\ Shop!Overtaken \in GroceryPasts /\ Shop!Overtaken.orders = past.orders
      /\ (Shop!Fault => past'.orders = past.orders)
  BY <1>1, EditedTyped, DisownedTyped, OvertakenTyped, FaultTyped
<1>3. ASSUME Shop!Key PROVE past'.orders = past.orders
  <2>1. CASE Shop!Yes
    <3>1. CASE UNCHANGED past
      BY <3>1
    <3>2. CASE past' = [past EXCEPT !.yes = @ + 1, !.touched = Shop!Placing, !.loose = @ \/ sync.inFlight]
      <4>1. Shop!Placing \in BOOLEAN /\ (past.loose \/ sync.inFlight) \in BOOLEAN
        BY DEF Shop!Placing
      <4> QED BY <1>1, <3>2, <4>1, YesPast, Zenon
    <3> QED BY <2>1, <3>1, <3>2 DEF Shop!Yes
  <2>2. CASE past' \in {past, Shop!Edited, Shop!Disowned}
    BY <1>2, <2>2
  <2>3. Shop!Yes \/ past' \in {past, Shop!Edited, Shop!Disowned}
    BY <1>3 DEF Shop!Key, Shop!Add, Shop!Dec, Shop!Inc, Shop!Reduce, Shop!Visit, Shop!Home, Shop!ToCheckout,
                Shop!Back, Shop!Enter, Shop!No, Shop!DropPayment, Shop!Leave
  <2> QED BY <2>1, <2>2, <2>3
<1>4. ASSUME Shop!Settle \/ Shop!Move \/ Shop!PaymentPolled PROVE past'.orders = past.orders
  BY <1>2, <1>4 DEF Shop!Settle, Shop!Move, Shop!PaymentPolled
<1>5. ASSUME NEW c \in sent, Shop!Answer(c) PROVE past'.orders = past.orders
  <2>1. ASSUME Shop!SyncFailed(c) \/ Shop!Synced(c) \/ Shop!UPIPlaced(c) PROVE past'.orders = past.orders
    <3>1. past' \in {past, Shop!Disowned}
      BY <2>1 DEF Shop!SyncFailed, Shop!Synced, Shop!UPIPlaced
    <3> QED BY <1>2, <3>1
  <2>2. ASSUME Shop!CartLoaded(c) PROVE past'.orders = past.orders
    <3>1. past' \in {past, [Shop!Overtaken EXCEPT !.read = TRUE]}
      BY <2>2 DEF Shop!CartLoaded
    <3> QED BY <1>2, <3>1 DEF GroceryPasts
  <2>3. ASSUME Shop!CartPulled(c) PROVE past'.orders = past.orders
    <3>1. past' \in {past, [Shop!Overtaken EXCEPT !.own = FALSE]}
      BY <2>3 DEF Shop!CartPulled
    <3> QED BY <1>2, <3>1 DEF GroceryPasts
  <2>4. ASSUME Shop!OrderPlaced(c) PROVE past'.orders = past.orders
    <3>1. past' = [Shop!Disowned EXCEPT !.loose = @ \/ c.state = "ok"]
      BY <2>4 DEF Shop!OrderPlaced
    <3> QED BY <1>2, <3>1 DEF GroceryPasts
  <2> QED BY <1>5, <2>1, <2>2, <2>3, <2>4 DEF Shop!Answer
<1> QED BY <1>3, <1>4, <1>5 DEF Shop!Next

LEMMA OrderedStep ==
    ASSUME GroceryInv, ApprovedInv, Shop!Next, past'.orders > past.orders, ~past.touched, ~past.loose
    PROVE  \E c \in Shop!UnderWay({"upi", "cod"}) : c.state = "sent" /\ c \notin sent' /\ c.units = store.units
<1>1. past \in GroceryPasts /\ sent \subseteq GroceryCommands
  BY DEF GroceryInv, GroceryTypes
<1>2. past'.orders # past.orders
  BY <1>1 DEF GroceryPasts
<1>3. PICK c \in sent : Shop!Serve(c)
  BY <1>2, OrdersTaken
<1>4. Shop!ServeOrder(c)
  <2>1. Shop!ServeWrite(c) \/ Shop!ServeRead(c) \/ Shop!ServeConfirm(c) => past'.orders = past.orders
    BY <1>1, FaultTyped DEF Shop!ServeWrite, Shop!ServeRead, Shop!ServeConfirm
  <2> QED BY <1>2, <1>3, <2>1 DEF Shop!Serve
<1>5. c.state = "sent" /\ c.kind \in {"upi", "cod"}
  BY <1>3, <1>4 DEF Shop!Serve, Shop!ServeOrder
<1>6. Shop!Orderable
  <2>1. past' = [past EXCEPT !.faults = @ + 1] => past'.orders = past.orders
    BY <1>1 DEF GroceryPasts
  <2> QED BY <1>2, <1>4, <2>1 DEF Shop!ServeOrder
<1>7. c \notin sent'
  <2>1. PICK state \in {"error", "noqr", "ok"} : Shop!Answered(c, state, Shop!NoCart)
    BY <1>4 DEF Shop!ServeOrder
  <2>2. state \in Shop!States /\ state # "sent"
    BY DEF Shop!States
  <2>3. PICK d \in GroceryCommands : sent' = (sent \ {c}) \cup {d} /\ d.state = state
    BY <1>1, <2>1, <2>2, NoCartTyped, AnsweredTyped
  <2> QED BY <1>5, <2>2, <2>3
<1>8. c.units = store.units
  BY <1>5, <1>6 DEF ApprovedInv, OrderFits, OrEmpty, Shop!Orderable
<1> QED BY <1>5, <1>7, <1>8 DEF Shop!UnderWay

\* IMOrderedAsApproved: whatever the store caps, refuses, loses or sells out, what Swiggy
\* orders is the cart the user said yes to, unless the lines change before that.
THEOREM GroceryOrdersAsApproved == OrdersSpec => IMOrderedAsApproved
<1>1. OrdersInit => GroceryInv /\ ApprovedInv
  BY GroceryInit, ApprovedInit DEF OrdersInit
<1>2. [OrdersNext]_<<focus, vars, shopVars, wizVars, cliVars>> => [Shop!Next]_shopVars
  BY DEF OrdersNext, ShopNext, Shop!Next, Shop!Key
<1>3. GroceryInv /\ ApprovedInv /\ [OrdersNext]_<<focus, vars, shopVars, wizVars, cliVars>> => (GroceryInv /\ ApprovedInv)'
  BY <1>2, GroceryNext, ApprovedNext
<1>4. GroceryInv /\ ApprovedInv /\ [OrdersNext]_<<focus, vars, shopVars, wizVars, cliVars>> =>
        [past'.orders > past.orders /\ ~past.touched /\ ~past.loose =>
           \E c \in Shop!UnderWay({"upi", "cod"}) : c.state = "sent" /\ c \notin sent' /\ c.units = store.units]_Shop!imVars
  <2> SUFFICES ASSUME GroceryInv, ApprovedInv, [Shop!Next]_shopVars, ~UNCHANGED Shop!imVars,
                      past'.orders > past.orders, ~past.touched, ~past.loose
               PROVE  \E c \in Shop!UnderWay({"upi", "cod"}) : c.state = "sent" /\ c \notin sent' /\ c.units = store.units
    BY <1>2
  <2>1. Shop!Next
    BY DEF shopVars, Shop!imVars
  <2> QED BY <2>1, OrderedStep
<1> QED BY <1>1, <1>3, <1>4, PTL DEF OrdersSpec, IMOrderedAsApproved, Shop!IMOrderedAsApproved

-----------------------------------------------------------------------------
(* The wizard of the terminal                                                *)

WizFields == {"open", "phase", "loading", "priced", "page", "out", "pages", "shown", "picked", "stock",
              "todo", "at", "found", "crust", "subtotal"}
IsWizard(w) == w = [f \in WizFields |-> w[f]]
\* The add-on page is the one that comes after the variants.
OnPage(w) == w.pages \in Nat /\ w.shown \in Nat /\ (w.phase = "choosing" \/ w.pages <= w.shown)
IsWrite(c) == /\ c = [f \in {"id", "lines", "draft", "state", "cart"} |-> c[f]]
              /\ c.state \in {"sent", "ok", "error"}
WizTraces == [taps : Nat, edits : Nat, toggles : Nat, faults : Nat, stray : BOOLEAN]
WizTypes ==
    /\ wizard.open => IsWizard(wizard) /\ OnPage(wizard) /\ (wizard.phase = "crust" => wizard.at \in Nat)
    /\ \A c \in writes : IsWrite(c)
    /\ flags \in [pending : BOOLEAN, inFlight : BOOLEAN] /\ traces \in WizTraces

\* Unless an answer may be taken for another one, one write is under way: a question
\* of the wizard that is open, or the cart without a draft.
AloneAsks ==
    ~traces.stray =>
        /\ \A c, d \in writes : c = d
        /\ wizard.open => ~flags.inFlight /\ \A c \in writes : c.lines = dishes
        /\ ~wizard.open => /\ flags.inFlight => writes # {}
                           /\ \A c \in writes : flags.inFlight /\ c.draft = {}
        /\ \A c \in writes : c.state = "ok" => cart = [lines |-> c.lines, draft |-> c.draft]
        /\ wizard.open /\ wizard.phase = "crust" /\ writes # {} => wizard.at # 0
        /\ wizard.open /\ wizard.phase = "choosing" => \A c \in writes : c.draft = {wizard.picked}

\* Only a page that has asked waits.
Waits ==
    wizard.open => /\ wizard.phase = "pick" => ~wizard.loading
                   /\ wizard.loading => writes # {}

\* A cart that no wizard and no edit waits for is at Swiggy, or on its way.
Flushed ==
    ~wizard.open /\ ~flags.pending /\ ~traces.stray /\ traces.faults = 0 =>
        /\ writes = {} => Wizard!Held = dishes
        /\ \A c \in writes : c.lines = dishes /\ c.state # "error"

WizInv == WizTypes /\ AloneAsks /\ Waits /\ Flushed

-----------------------------------------------------------------------------
(* Pages and questions                                                       *)

LEMMA OpenedWizard ==
    ASSUME NEW priced, NEW picked
    PROVE  LET w == [Wizard!Opened(priced) EXCEPT !.picked = picked]
           IN  IsWizard(w) /\ w.open /\ w.pages = 1 /\ w.shown = 1
<1> QED BY DEF Wizard!Opened, IsWizard, WizFields

LEMMA EnterWizard ==
    ASSUME NEW w, IsWizard(w), w.open
    PROVE  LET e == Wizard!EnterVariantPage(w)
           IN  /\ IsWizard(e) /\ e.open /\ e.phase \in {"pick", "pricing"}
               /\ e.loading <=> Wizard!Asks(w)
               /\ e.phase = "pick" => ~e.loading
               /\ e.pages = w.pages /\ e.shown = w.shown
<1>1. CASE Wizard!Asks(w)
  BY <1>1 DEF Wizard!EnterVariantPage, IsWizard, WizFields
<1>2. CASE ~Wizard!Asks(w)
  BY <1>2 DEF Wizard!EnterVariantPage, IsWizard, WizFields
<1> QED BY <1>1, <1>2

LEMMA PageWizard ==
    ASSUME NEW w, IsWizard(w), w.open, NEW page, NEW out
    PROVE  LET e == Wizard!AddPage(w, page, out)
           IN  /\ IsWizard(e) /\ e.open /\ ~e.loading
               /\ e.pages = w.pages + 1 /\ e.shown = w.shown
<1> QED BY DEF Wizard!AddPage, IsWizard, WizFields

LEMMA FinishWizard ==
    ASSUME NEW w, IsWizard(w), w.open, w.pages \in Nat, w.shown \in Nat
    PROVE  LET e == Wizard!Finish(w)
           IN  IsWizard(e) /\ e.open /\ ~e.loading /\ e.phase = "choosing" /\ OnPage(e)
<1>1. PICK page, out : Wizard!Finish(w) = [Wizard!AddPage(w, page, out) EXCEPT !.phase = "choosing"]
  BY DEF Wizard!Finish
<1> DEFINE a == Wizard!AddPage(w, page, out)
<1>2. IsWizard(a) /\ a.open /\ ~a.loading /\ a.pages = w.pages + 1 /\ a.shown = w.shown
  BY PageWizard
<1>3. Wizard!Finish(w) = [a EXCEPT !.phase = "choosing"]
  BY <1>1
<1> HIDE DEF a
<1> DEFINE e == Wizard!Finish(w)
<1> HIDE DEF e
<1>4. e = [a EXCEPT !.phase = "choosing"]
  BY <1>3 DEF e
<1>5. IsWizard(e) /\ e.open /\ ~e.loading /\ e.phase = "choosing"
  BY <1>2, <1>4 DEF IsWizard, WizFields
<1>6. e.pages = a.pages /\ e.shown = a.shown
  BY <1>2, <1>4 DEF IsWizard, WizFields
<1> QED BY <1>2, <1>5, <1>6 DEF OnPage, e

LEMMA OptionalWizard ==
    ASSUME NEW w, IsWizard(w), w.open, w.pages \in Nat, w.shown \in Nat, w.pages <= w.shown
    PROVE  LET e == Wizard!BeginOptional(w)
           IN  /\ IsWizard(e) /\ e.open /\ OnPage(e)
               /\ e.phase = "optional" \/ (e.phase = "choosing" /\ ~e.loading)
<1>1. PICK some, next :
        /\ next = [w EXCEPT !.found = <<>>, !.todo = some, !.at = 1, !.phase = "optional", !.loading = TRUE]
        /\ Wizard!BeginOptional(w) = IF some = <<>> THEN Wizard!Finish(next) ELSE next
  BY DEF Wizard!BeginOptional
<1>2. IsWizard(next) /\ next.open /\ next.phase = "optional" /\ next.pages = w.pages /\ next.shown = w.shown
  <2>1. IsWizard(next)
    BY <1>1 DEF IsWizard, WizFields
  <2>2. next.open
    BY <1>1 DEF IsWizard, WizFields
  <2>3. next.phase = "optional"
    BY <1>1 DEF IsWizard, WizFields
  <2>4. next.pages = w.pages /\ next.shown = w.shown
    BY <1>1 DEF IsWizard, WizFields
  <2> QED BY <2>1, <2>2, <2>3, <2>4
<1>3. CASE some = <<>>
  <2>1. Wizard!BeginOptional(w) = Wizard!Finish(next)
    BY <1>1, <1>3
  <2>2. LET e == Wizard!Finish(next) IN IsWizard(e) /\ e.open /\ ~e.loading /\ e.phase = "choosing" /\ OnPage(e)
    BY <1>2, FinishWizard
  <2> QED BY <2>1, <2>2
<1>4. CASE some # <<>>
  BY <1>1, <1>2, <1>4 DEF OnPage
<1> QED BY <1>3, <1>4

\* A write that carries the cart as it is.
IsNew(w) == IsWrite(w) /\ w.state = "sent" /\ w.lines = dishes
LEMMA NewWrite ==
    ASSUME NEW id, NEW draft
    PROVE  IsNew(Wizard!Write(id, dishes, draft)) /\ Wizard!Write(id, dishes, draft).draft = draft
<1> QED BY DEF Wizard!Write, IsNew, IsWrite

LEMMA SentWrite ==
    ASSUME NEW draft
    PROVE  \E w : Wizard!Sent(draft) = writes \cup {w} /\ IsNew(w) /\ w.draft = draft
<1> QED BY NewWrite DEF Wizard!Sent

LEMMA EnterSends ==
    ASSUME NEW w
    PROVE  \E new : /\ Wizard!EnterAsks(w) = writes \cup new
                    /\ \A v \in new : IsNew(v)
                    /\ \A u, v \in new : u = v
                    /\ Wizard!Asks(w) => new # {}
<1>1. CASE Wizard!Asks(w)
  <2>1. PICK v : Wizard!Sent({Wizard!PriceQuestion(w)}) = writes \cup {v} /\ IsNew(v)
    BY SentWrite
  <2>2. Wizard!EnterAsks(w) = writes \cup {v}
    BY <1>1, <2>1 DEF Wizard!EnterAsks
  <2> QED BY <2>1, <2>2
<1>2. CASE ~Wizard!Asks(w)
  <2>1. Wizard!EnterAsks(w) = writes
    BY <1>2 DEF Wizard!EnterAsks
  <2> DEFINE none == {}
  <2>2. writes = writes \cup none /\ (\A v \in none : IsNew(v)) /\ \A u, v \in none : u = v
    OBVIOUS
  <2> HIDE DEF none
  <2> QED BY <1>2, <2>1, <2>2
<1> QED BY <1>1, <1>2

LEMMA StrayTyped ==
    ASSUME traces \in WizTraces, NEW when \in BOOLEAN
    PROVE  LET t == Wizard!Stray(when)
           IN  t \in WizTraces /\ (t.stray <=> traces.stray \/ when) /\ t.faults = traces.faults
<1>1. CASE traces.stray \/ when
  <2>1. Wizard!Stray(when) = [traces EXCEPT !.stray = TRUE]
    BY <1>1, Zenon DEF Wizard!Stray
  <2> QED BY <1>1, <2>1 DEF WizTraces
<1>2. CASE ~(traces.stray \/ when)
  <2>1. Wizard!Stray(when) = [traces EXCEPT !.stray = FALSE]
    BY <1>2, Zenon DEF Wizard!Stray
  <2> QED BY <1>2, <2>1 DEF WizTraces
<1> QED BY <1>1, <1>2

-----------------------------------------------------------------------------
(* What a step may be to the wizard                                          *)

\* A key that leaves the wizard open, and may ask.
LEMMA Presses ==
    ASSUME WizInv, IsWizard(wizard'), OnPage(wizard'), wizard'.open, UNCHANGED <<dishes, flags, cart>>,
           traces' \in WizTraces, ~traces'.stray => ~traces.stray /\ writes = {},
           NEW new, writes' = writes \cup new, \A w \in new : IsNew(w), \A v, w \in new : v = w,
           wizard'.phase = "pick" => ~wizard'.loading,
           wizard'.loading => new # {} \/ writes # {},
           wizard'.phase = "crust" => wizard'.at \in Nat /\ (new # {} => wizard'.at # 0),
           wizard'.phase = "choosing" => \A w \in new : w.draft = {wizard'.picked}
    PROVE  WizInv'
<1> USE DEF WizInv, IsNew
<1>1. WizTypes'
  BY DEF WizTypes, IsWrite
<1>2. AloneAsks'
  BY DEF AloneAsks
<1>3. Waits' /\ Flushed'
  BY DEF Waits, Flushed
<1> QED BY <1>1, <1>2, <1>3

\* An answer that leaves the wizard open, and may be followed by a question.
LEMMA Turns ==
    ASSUME WizInv, wizard.open, IsWizard(wizard'), OnPage(wizard'), wizard'.open,
           UNCHANGED <<dishes, flags, cart, traces>>,
           NEW c \in writes, NEW new, writes' = (writes \ {c}) \cup new,
           \A w \in new : IsNew(w), \A v, w \in new : v = w,
           wizard'.phase = "pick" => ~wizard'.loading,
           wizard'.loading => new # {},
           wizard'.phase = "crust" => wizard'.at \in Nat /\ (new # {} => wizard'.at # 0),
           wizard'.phase = "choosing" => new = {}
    PROVE  WizInv'
<1> USE DEF WizInv, IsNew
<1>1. WizTypes'
  BY DEF WizTypes, IsWrite
<1>2. AloneAsks'
  BY DEF AloneAsks
<1>3. Waits' /\ Flushed'
  BY DEF Waits, Flushed
<1> QED BY <1>1, <1>2, <1>3

\* The cart is written while the wizard is closed, or as it closes.
LEMMA Writes ==
    ASSUME WizInv, UNCHANGED <<dishes, cart>>, wizard' = wizard \/ ~wizard'.open,
           flags' \in [pending : BOOLEAN, inFlight : BOOLEAN], ~flags'.pending, flags'.inFlight,
           traces' \in WizTraces, ~traces'.stray => ~traces.stray /\ writes = {} /\ ~wizard'.open,
           NEW w, IsNew(w), w.draft = {}, writes' = writes \cup {w}
    PROVE  WizInv'
<1> USE DEF WizInv, IsNew
<1>1. WizTypes'
  BY DEF WizTypes, IsWrite
<1>2. AloneAsks'
  BY DEF AloneAsks
<1>3. Waits' /\ Flushed'
  BY DEF Waits, Flushed
<1> QED BY <1>1, <1>2, <1>3

-----------------------------------------------------------------------------
(* The steps                                                                 *)

LEMMA TapHolds ==
    ASSUME WizInv, Wizard!Tap \/ Wizard!OptionsFailed
    PROVE  WizInv'
<1> USE DEF WizInv
<1>1. UNCHANGED <<wizard, dishes, flags, writes, cart>>
  BY DEF Wizard!Tap, Wizard!OptionsFailed
<1>2. traces' \in WizTraces /\ traces'.stray = traces.stray /\ traces'.faults = traces.faults
  BY DEF Wizard!Tap, Wizard!OptionsFailed, WizTypes, WizTraces
<1> QED BY <1>1, <1>2 DEF WizTypes, AloneAsks, Waits, Flushed, Wizard!Held

LEMMA DecHolds ==
    ASSUME WizInv, Wizard!Dec
    PROVE  WizInv'
<1> USE DEF WizInv
<1>1. UNCHANGED <<wizard, writes, cart>> /\ ~wizard.open
  BY DEF Wizard!Dec
<1>2. traces' \in WizTraces /\ traces'.stray = traces.stray /\ traces'.faults = traces.faults
  BY DEF Wizard!Dec, WizTypes, WizTraces
<1>3. flags' \in [pending : BOOLEAN, inFlight : BOOLEAN] /\ flags'.pending /\ flags'.inFlight = flags.inFlight
  BY DEF Wizard!Dec, WizTypes
<1> QED BY <1>1, <1>2, <1>3 DEF WizTypes, AloneAsks, Waits, Flushed

LEMMA WizSettles ==
    ASSUME WizInv, Wizard!Settle
    PROVE  WizInv'
<1>1. PICK w : writes' = writes \cup {w} /\ IsNew(w) /\ w.draft = {}
  BY SentWrite DEF Wizard!Settle, Wizard!NoDraft
<1>2. traces' \in WizTraces /\ (traces'.stray <=> traces.stray \/ (wizard.open \/ writes # {}))
  <2>1. (wizard.open \/ writes # {}) \in BOOLEAN /\ traces \in WizTraces
    BY DEF WizInv, WizTypes
  <2> QED BY <2>1, StrayTyped, Zenon DEF Wizard!Settle
<1>3. /\ UNCHANGED <<wizard, dishes, cart>>
      /\ flags' \in [pending : BOOLEAN, inFlight : BOOLEAN] /\ ~flags'.pending /\ flags'.inFlight
  BY DEF Wizard!Settle
<1> QED BY <1>1, <1>2, <1>3, Writes

LEMMA EscHolds ==
    ASSUME WizInv, Wizard!Esc
    PROVE  WizInv'
<1>1. traces' \in WizTraces /\ (traces'.stray <=> traces.stray \/ writes # {})
  <2>1. (writes # {}) \in BOOLEAN /\ traces \in WizTraces
    BY DEF WizInv, WizTypes
  <2> QED BY <2>1, StrayTyped, Zenon DEF Wizard!Esc
<1>2. wizard.open /\ ~wizard'.open /\ UNCHANGED <<dishes, cart>>
  BY DEF Wizard!Esc, Wizard!Closed
<1>3. CASE flags.inFlight
  <2>1. UNCHANGED writes /\ flags' \in [pending : BOOLEAN, inFlight : BOOLEAN]
    BY <1>3 DEF Wizard!Esc, WizInv, WizTypes
  <2>2. traces.stray
    BY <1>2, <1>3 DEF WizInv, AloneAsks
  <2> QED BY <1>1, <1>2, <2>1, <2>2 DEF WizInv, WizTypes, AloneAsks, Waits, Flushed
<1>4. CASE ~flags.inFlight
  <2>1. PICK w : writes' = writes \cup {w} /\ IsNew(w) /\ w.draft = {}
    BY <1>4, SentWrite DEF Wizard!Esc, Wizard!NoDraft
  <2>2. flags' \in [pending : BOOLEAN, inFlight : BOOLEAN] /\ ~flags'.pending /\ flags'.inFlight
    <3>1. flags' = [pending |-> FALSE, inFlight |-> TRUE]
      BY <1>4 DEF Wizard!Esc
    <3> QED BY <3>1
  <2> QED BY <1>1, <1>2, <2>1, <2>2, Writes
<1> QED BY <1>3, <1>4

LEMMA ToggleHolds ==
    ASSUME WizInv, Wizard!Toggle
    PROVE  WizInv'
<1> USE DEF WizInv
<1>1. traces' \in WizTraces /\ (traces'.stray <=> traces.stray \/ writes # {})
  <2>1. (writes # {}) \in BOOLEAN /\ traces \in WizTraces
    BY DEF WizTypes
  <2>2. PICK t \in WizTraces : t = Wizard!Stray(writes # {}) /\ (t.stray <=> traces.stray \/ writes # {})
    BY <2>1, StrayTyped, Zenon
  <2>3. traces' = [t EXCEPT !.toggles = @ + 1]
    BY <2>2, Zenon DEF Wizard!Toggle
  <2> QED BY <2>2, <2>3 DEF WizTraces
<1>2. wizard.open /\ IsWizard(wizard) /\ OnPage(wizard) /\ UNCHANGED <<dishes, flags, cart>>
  BY DEF Wizard!Toggle, WizTypes
<1>3. PICK picked, w :
        /\ w = [wizard EXCEPT !.picked = picked]
        /\ IF Wizard!OnVariantPage(w) THEN wizard' = Wizard!EnterVariantPage(w) /\ writes' = Wizard!EnterAsks(w)
           ELSE wizard' = w /\ UNCHANGED writes
  BY DEF Wizard!Toggle
<1>4. IsWizard(w) /\ w.open /\ w.phase = wizard.phase /\ w.loading = wizard.loading /\ w.at = wizard.at
      /\ w.pages = wizard.pages /\ w.shown = wizard.shown
  BY <1>2, <1>3 DEF IsWizard, WizFields
<1>5. CASE Wizard!OnVariantPage(w) /\ wizard' = Wizard!EnterVariantPage(w) /\ writes' = Wizard!EnterAsks(w)
  <2>1. PICK new : /\ writes' = writes \cup new /\ \A v \in new : IsNew(v)
                   /\ \A u, v \in new : u = v
                   /\ Wizard!Asks(w) => new # {}
    BY <1>5, EnterSends
  <2>2. /\ IsWizard(wizard') /\ wizard'.open /\ wizard'.phase \in {"pick", "pricing"}
        /\ wizard'.loading => Wizard!Asks(w)
        /\ wizard'.phase = "pick" => ~wizard'.loading
        /\ wizard'.pages = wizard.pages /\ wizard'.shown = wizard.shown
    BY <1>4, <1>5, EnterWizard
  <2>3. OnPage(wizard')
    BY <1>2, <1>4, <1>5, <2>2 DEF OnPage, Wizard!OnVariantPage
  <2> QED BY <2>3, <1>1, <1>2, <2>1, <2>2, Presses
<1>6. CASE wizard' = w /\ UNCHANGED writes
  <2> DEFINE none == {}
  <2>1. writes' = writes \cup none /\ (\A v \in none : IsNew(v)) /\ (\A u, v \in none : u = v)
        /\ (\A v \in none : v.draft = {wizard'.picked}) /\ none = {}
    BY <1>6
  <2> HIDE DEF none
  <2>2. IsWizard(wizard') /\ wizard'.open /\ OnPage(wizard')
    BY <1>2, <1>4, <1>6 DEF OnPage
  <2>3. /\ wizard'.phase = "pick" => ~wizard'.loading
        /\ wizard'.loading => none # {} \/ writes # {}
        /\ wizard'.phase = "crust" => wizard'.at \in Nat
    BY <1>2, <1>4, <1>6 DEF Waits, WizTypes
  <2> QED BY <1>1, <1>2, <2>1, <2>2, <2>3, Presses
<1> QED BY <1>3, <1>5, <1>6

LEMMA AdvanceHolds ==
    ASSUME WizInv, Wizard!Advance
    PROVE  WizInv'
<1> USE DEF WizInv
<1>1. traces' \in WizTraces /\ (traces'.stray <=> traces.stray \/ writes # {})
  <2>1. (writes # {}) \in BOOLEAN /\ traces \in WizTraces
    BY DEF WizTypes
  <2> QED BY <2>1, StrayTyped, Zenon DEF Wizard!Advance
<1>2. /\ wizard.open /\ IsWizard(wizard) /\ OnPage(wizard) /\ wizard.pages <= wizard.shown
      /\ UNCHANGED <<dishes, flags, cart>>
  BY DEF Wizard!Advance, WizTypes, Wizard!OnVariantPage
<1>3. PICK v : writes' = writes \cup {v} /\ IsNew(v)
  BY SentWrite DEF Wizard!Advance
<1>4. IsWizard(wizard') /\ wizard'.open /\ wizard'.phase \in {"scope", "crust"} /\ wizard'.at = 1
      /\ wizard'.pages = wizard.pages /\ wizard'.shown = wizard.shown
  <2>1. CASE \E todo : wizard' = [wizard EXCEPT !.phase = "scope", !.todo = todo, !.at = 1, !.found = <<>>, !.loading = TRUE]
    BY <1>2, <2>1 DEF IsWizard, WizFields
  <2>2. CASE \E todo : wizard' = [wizard EXCEPT !.phase = "crust", !.todo = todo, !.at = 1, !.crust = <<>>, !.loading = TRUE]
    BY <1>2, <2>2 DEF IsWizard, WizFields
  <2> QED BY <2>1, <2>2 DEF Wizard!Advance
<1> DEFINE new == {v}
<1>5. writes' = writes \cup new /\ (\A u \in new : IsNew(u)) /\ (\A t, u \in new : t = u) /\ new # {}
  BY <1>3
<1> HIDE DEF new
<1>6. OnPage(wizard')
  BY <1>2, <1>4 DEF OnPage
<1> QED BY <1>1, <1>2, <1>4, <1>5, <1>6, Presses

LEMMA ConfirmHolds ==
    ASSUME WizInv, Wizard!Confirm
    PROVE  WizInv'
<1> USE DEF WizInv
<1>1. traces' \in WizTraces /\ (traces'.stray <=> traces.stray \/ writes # {})
  <2>1. (writes # {}) \in BOOLEAN /\ traces \in WizTraces
    BY DEF WizTypes
  <2> QED BY <2>1, StrayTyped, Zenon DEF Wizard!Confirm
<1>2. /\ wizard.open /\ IsWizard(wizard) /\ OnPage(wizard) /\ wizard.phase = "choosing"
      /\ UNCHANGED <<dishes, flags, cart>>
  BY DEF Wizard!Confirm, WizTypes, OnPage, Wizard!OnVariantPage
<1>3. PICK v : writes' = writes \cup {v} /\ IsNew(v) /\ v.draft = {wizard.picked}
  BY SentWrite DEF Wizard!Confirm, Wizard!FullSelection
<1>4. /\ IsWizard(wizard') /\ wizard'.open /\ wizard'.picked = wizard.picked /\ wizard'.phase = wizard.phase
      /\ wizard'.pages = wizard.pages /\ wizard'.shown = wizard.shown
  BY <1>2 DEF Wizard!Confirm, IsWizard, WizFields
<1> DEFINE new == {v}
<1>5. /\ writes' = writes \cup new /\ (\A u \in new : IsNew(u)) /\ (\A t, u \in new : t = u) /\ new # {}
      /\ \A u \in new : u.draft = {wizard'.picked}
  BY <1>3, <1>4
<1> HIDE DEF new
<1>6. OnPage(wizard')
  BY <1>2, <1>4 DEF OnPage
<1> QED BY <1>1, <1>2, <1>4, <1>5, <1>6, Presses

LEMMA OptionsHold ==
    ASSUME WizInv, Wizard!OptionsLoaded
    PROVE  WizInv'
<1> USE DEF WizInv
<1>1. traces' \in WizTraces /\ (traces'.stray <=> traces.stray \/ (writes # {} \/ wizard.open))
  <2>1. (writes # {} \/ wizard.open) \in BOOLEAN /\ traces \in WizTraces
    BY DEF WizTypes
  <2> QED BY <2>1, StrayTyped, Zenon DEF Wizard!OptionsLoaded
<1>2. UNCHANGED <<dishes, flags, cart>>
  BY DEF Wizard!OptionsLoaded
<1>3. PICK priced, picked, w :
        /\ w = [Wizard!Opened(priced) EXCEPT !.picked = picked]
        /\ wizard' = Wizard!EnterVariantPage(w) /\ writes' = Wizard!EnterAsks(w)
  BY DEF Wizard!OptionsLoaded
<1>4. IsWizard(w) /\ w.open /\ w.pages = 1 /\ w.shown = 1
  BY <1>3, OpenedWizard
<1>5. PICK new : /\ writes' = writes \cup new /\ \A v \in new : IsNew(v)
                 /\ \A u, v \in new : u = v
                 /\ Wizard!Asks(w) => new # {}
  BY <1>3, EnterSends
<1>6. /\ IsWizard(wizard') /\ wizard'.open /\ wizard'.phase \in {"pick", "pricing"}
      /\ wizard'.loading => Wizard!Asks(w)
      /\ wizard'.phase = "pick" => ~wizard'.loading
      /\ wizard'.pages = 1 /\ wizard'.shown = 1
  BY <1>3, <1>4, EnterWizard
<1>7. OnPage(wizard')
  BY <1>6 DEF OnPage
<1> QED BY <1>1, <1>2, <1>5, <1>6, <1>7, Presses

\* Swiggy takes a write for its cart, or says no.
LEMMA ServeHolds ==
    ASSUME WizInv, NEW c \in writes, Wizard!Serve(c)
    PROVE  WizInv'
<1> USE DEF WizInv
<1>1. c.state = "sent" /\ IsWrite(c) /\ UNCHANGED <<wizard, dishes, flags>>
  BY DEF Wizard!Serve, WizTypes
<1> DEFINE good == \A sels \in c.draft : Wizard!Accepts(sels)
<1>2. traces' \in WizTraces /\ traces'.stray = traces.stray /\ (traces'.faults = 0 => traces' = traces)
  <2>1. CASE UNCHANGED traces
    BY <2>1 DEF WizTypes
  <2>2. CASE traces' = [traces EXCEPT !.faults = @ + 1]
    <3>1. traces.faults \in Nat /\ traces' \in WizTraces /\ traces'.stray = traces.stray
          /\ traces'.faults = traces.faults + 1
      BY <2>2 DEF WizTypes, WizTraces
    <3> QED BY <3>1
  <2> QED BY <2>1, <2>2 DEF Wizard!Serve
<1>3. PICK d : /\ IsWrite(d) /\ writes' = (writes \ {c}) \cup {d}
               /\ d.lines = c.lines /\ d.draft = c.draft
               /\ \/ d.state = "ok" /\ cart' = [lines |-> c.lines, draft |-> c.draft]
                  \/ d.state = "error" /\ (traces' # traces \/ ~good)
  <2>1. CASE /\ cart' = [lines |-> c.lines, draft |-> c.draft]
             /\ writes' = (writes \ {c}) \cup {[c EXCEPT !.state = "ok", !.cart = [lines |-> c.lines, draft |-> c.draft]]}
    <3> DEFINE d == [c EXCEPT !.state = "ok", !.cart = [lines |-> c.lines, draft |-> c.draft]]
    <3>1. IsWrite(d) /\ d.lines = c.lines /\ d.draft = c.draft /\ d.state = "ok"
      BY <1>1 DEF IsWrite
    <3>2. writes' = (writes \ {c}) \cup {d}
      BY <2>1
    <3> HIDE DEF d
    <3> QED BY <2>1, <3>1, <3>2
  <2>2. CASE /\ traces' # traces \/ ~good
             /\ writes' = (writes \ {c}) \cup {[c EXCEPT !.state = "error"]}
    <3> DEFINE d == [c EXCEPT !.state = "error"]
    <3>1. IsWrite(d) /\ d.lines = c.lines /\ d.draft = c.draft /\ d.state = "error"
      BY <1>1 DEF IsWrite
    <3>2. writes' = (writes \ {c}) \cup {d}
      BY <2>2
    <3> HIDE DEF d
    <3> QED BY <2>2, <3>1, <3>2
  <2>3. traces' = [traces EXCEPT !.faults = @ + 1] => traces' # traces
    <3>1. traces.faults \in Nat /\ traces.faults + 1 # traces.faults
      BY DEF WizTypes, WizTraces
    <3>2. [traces EXCEPT !.faults = @ + 1].faults = traces.faults + 1
      BY DEF WizTypes, WizTraces
    <3> QED BY <3>1, <3>2
  <2> QED BY <2>1, <2>2, <2>3 DEF Wizard!Serve
<1>4. c.draft = {} => good
  OBVIOUS
<1> HIDE DEF good
<1>5. WizTypes'
  BY <1>1, <1>2, <1>3 DEF WizTypes
<1>6. AloneAsks'
  <2> SUFFICES ASSUME ~traces.stray
               PROVE  AloneAsks'
    BY <1>2 DEF AloneAsks
  <2>1. writes' = {d} /\ writes # {}
    BY <1>3 DEF AloneAsks
  <2>2. d.state = "ok" => cart' = [lines |-> d.lines, draft |-> d.draft]
    BY <1>3
  <2> QED BY <1>1, <1>3, <2>1, <2>2 DEF AloneAsks
<1>7. Waits'
  BY <1>1, <1>3 DEF Waits
<1>8. Flushed'
  <2> SUFFICES ASSUME ~wizard.open, ~flags.pending, ~traces.stray, traces'.faults = 0
               PROVE  Flushed'
    BY <1>1, <1>2 DEF Flushed
  <2>1. writes' = {d} /\ traces' = traces /\ c.draft = {} /\ c.lines = dishes
    BY <1>2, <1>3 DEF AloneAsks, Flushed
  <2> QED BY <1>1, <1>3, <1>4, <2>1 DEF Flushed
<1> QED BY <1>5, <1>6, <1>7, <1>8

-----------------------------------------------------------------------------
(* Answers                                                                   *)

\* The answer is heard, and no question follows.
LEMMA HeardHolds ==
    ASSUME WizInv, wizard.open, UNCHANGED <<dishes, flags, cart, traces>>,
           NEW c \in writes, Wizard!Heard(c, wizard'), IsWizard(wizard'), OnPage(wizard'), wizard'.open,
           ~wizard'.loading, wizard'.phase = "crust" => wizard'.at \in Nat
    PROVE  WizInv'
<1> DEFINE none == {}
<1>1. writes' = (writes \ {c}) \cup none /\ (\A w \in none : IsNew(w)) /\ (\A v, w \in none : v = w) /\ none = {}
  BY DEF Wizard!Heard
<1> HIDE DEF none
<1> QED BY <1>1, Turns

\* The next question goes out.
LEMMA GoesHolds ==
    ASSUME WizInv, wizard.open, UNCHANGED <<dishes, flags, cart, traces>>,
           NEW c \in writes, Wizard!Goes(c, wizard'), IsWizard(wizard'), OnPage(wizard'), wizard'.open,
           wizard'.phase \notin {"pick", "choosing"},
           wizard'.phase = "crust" => wizard'.at \in Nat \ {0}
    PROVE  WizInv'
<1> DEFINE v   == Wizard!Write(c.id, dishes, {Wizard!Question(wizard')})
           new == {v}
<1>1. IsNew(v)
  BY NewWrite
<1>2. writes' = (writes \ {c}) \cup new
  BY DEF Wizard!Goes
<1> HIDE DEF v
<1>3. (\A w \in new : IsNew(w)) /\ (\A u, w \in new : u = w) /\ new # {}
  BY <1>1
<1> HIDE DEF new
<1> QED BY <1>2, <1>3, Turns

LEMMA PricedHolds ==
    ASSUME WizInv, wizard.open, UNCHANGED <<dishes, flags, cart, traces>>,
           NEW c \in writes, Wizard!Idle(c) \/ Wizard!Priced(c) \/ Wizard!Refused(c)
    PROVE  WizInv'
<1>1. IsWizard(wizard) /\ OnPage(wizard) /\ (wizard.phase = "pick" => ~wizard.loading)
  BY DEF WizInv, WizTypes, Waits
<1>2. CASE Wizard!Idle(c)
  <2>1. Wizard!Heard(c, wizard') /\ wizard' = wizard /\ wizard.phase = "pick"
    BY <1>2 DEF Wizard!Idle, Wizard!Heard
  <2> QED BY <1>1, <2>1, HeardHolds
<1>3. CASE Wizard!Priced(c)
  <2>1. PICK stock, subtotal :
          wizard' = [wizard EXCEPT !.phase = "pick", !.loading = FALSE, !.stock = stock, !.subtotal = subtotal]
    BY <1>3 DEF Wizard!Priced, Wizard!Heard
  <2>2. IsWizard(wizard') /\ wizard'.open /\ ~wizard'.loading
    BY <1>1, <2>1 DEF IsWizard, WizFields
  <2>3. wizard'.phase = "pick"
    BY <1>1, <2>1 DEF IsWizard, WizFields
  <2>4. wizard'.pages = wizard.pages /\ wizard'.shown = wizard.shown
    BY <1>1, <2>1 DEF IsWizard, WizFields
  <2>5. Wizard!Heard(c, wizard')
    BY <1>3 DEF Wizard!Priced, Wizard!Heard
  <2>6. OnPage(wizard')
    BY <1>1, <1>3, <2>3, <2>4 DEF OnPage, Wizard!Priced
  <2> QED BY <2>2, <2>3, <2>5, <2>6, HeardHolds
<1>4. CASE Wizard!Refused(c)
  <2>1. wizard' = [wizard EXCEPT !.loading = FALSE] /\ wizard.phase = "choosing"
    BY <1>4 DEF Wizard!Refused, Wizard!Heard
  <2>2. /\ IsWizard(wizard') /\ wizard'.open /\ ~wizard'.loading /\ wizard'.phase = "choosing"
        /\ wizard'.pages = wizard.pages /\ wizard'.shown = wizard.shown
    BY <1>1, <2>1 DEF IsWizard, WizFields
  <2>3. Wizard!Heard(c, wizard')
    BY <1>4 DEF Wizard!Refused, Wizard!Heard
  <2>4. OnPage(wizard')
    BY <1>1, <2>2 DEF OnPage
  <2> QED BY <2>2, <2>3, <2>4, HeardHolds
<1> QED BY <1>2, <1>3, <1>4

LEMMA ScopedHolds ==
    ASSUME WizInv, wizard.open, UNCHANGED <<dishes, flags, cart, traces>>,
           NEW c \in writes, Wizard!Scoped(c)
    PROVE  WizInv'
<1>1. IsWizard(wizard) /\ OnPage(wizard) /\ wizard.phase = "scope"
  BY DEF WizInv, WizTypes, Wizard!Scoped
<1>2. PICK found, stock, w :
        /\ w = [wizard EXCEPT !.found = found, !.stock = stock]
        /\ \/ \E at : Wizard!Goes(c, [w EXCEPT !.at = at])
           \/ \E new : /\ new = [Wizard!AddPage(w, <<found>>, {}) EXCEPT !.shown = @ + 1]
                       /\ wizard' = Wizard!EnterVariantPage(new)
                       /\ writes' = (writes \ {c}) \cup
                            IF Wizard!Asks(new) THEN {Wizard!Write(c.id, dishes, {Wizard!PriceQuestion(new)})} ELSE {}
  BY DEF Wizard!Scoped
<1>3. /\ IsWizard(w) /\ w.open /\ w.phase = "scope"
      /\ w.pages = wizard.pages /\ w.shown = wizard.shown
  BY <1>1, <1>2 DEF IsWizard, WizFields
<1>4. ASSUME NEW at, Wizard!Goes(c, [w EXCEPT !.at = at]) PROVE WizInv'
  <2>1. wizard' = [w EXCEPT !.at = at] /\ Wizard!Goes(c, wizard')
    BY <1>4 DEF Wizard!Goes
  <2>2. /\ IsWizard(wizard') /\ wizard'.open /\ wizard'.phase = "scope"
        /\ wizard'.pages = wizard.pages /\ wizard'.shown = wizard.shown
    BY <1>3, <2>1 DEF IsWizard, WizFields
  <2>3. OnPage(wizard')
    BY <1>1, <2>2 DEF OnPage
  <2> QED BY <2>1, <2>2, <2>3, GoesHolds
<1>5. ASSUME NEW new, new = [Wizard!AddPage(w, <<found>>, {}) EXCEPT !.shown = @ + 1],
             wizard' = Wizard!EnterVariantPage(new),
             writes' = (writes \ {c}) \cup
                IF Wizard!Asks(new) THEN {Wizard!Write(c.id, dishes, {Wizard!PriceQuestion(new)})} ELSE {}
      PROVE  WizInv'
  <2> DEFINE a == Wizard!AddPage(w, <<found>>, {})
  <2>1. IsWizard(a) /\ a.open /\ a.pages = w.pages + 1 /\ a.shown = w.shown
    BY <1>3, PageWizard
  <2>2. new = [a EXCEPT !.shown = a.shown + 1]
    BY <1>5
  <2> HIDE DEF a
  <2>3. IsWizard(new) /\ new.open /\ new.pages = a.pages /\ new.shown = a.shown + 1
    BY <2>1, <2>2 DEF IsWizard, WizFields
  <2>4. /\ IsWizard(wizard') /\ wizard'.open /\ wizard'.phase \in {"pick", "pricing"}
        /\ wizard'.loading <=> Wizard!Asks(new)
        /\ wizard'.phase = "pick" => ~wizard'.loading
        /\ wizard'.pages = new.pages /\ wizard'.shown = new.shown
    BY <1>5, <2>3, EnterWizard
  <2>5. OnPage(wizard')
    BY <1>1, <1>3, <2>1, <2>3, <2>4 DEF OnPage
  <2> DEFINE v    == Wizard!Write(c.id, dishes, {Wizard!PriceQuestion(new)})
             asks == IF Wizard!Asks(new) THEN {v} ELSE {}
  <2>6. IsNew(v)
    BY NewWrite
  <2>7. writes' = (writes \ {c}) \cup asks
    BY <1>5
  <2> HIDE DEF v
  <2>8. (\A u \in asks : IsNew(u)) /\ (\A t, u \in asks : t = u) /\ (Wizard!Asks(new) => asks # {})
    BY <2>6
  <2> HIDE DEF asks
  <2> QED BY <2>4, <2>5, <2>7, <2>8, Turns
<1> QED BY <1>2, <1>4, <1>5

\* Optional groups are asked about, or the page is complete.
LEMMA OptionalHolds ==
    ASSUME WizInv, wizard.open, UNCHANGED <<dishes, flags, cart, traces>>, NEW c \in writes,
           NEW w, IsWizard(w), w.open, w.pages \in Nat, w.shown \in Nat, w.pages <= w.shown,
           LET next == Wizard!BeginOptional(w)
           IN  IF next.phase = "optional" THEN Wizard!Goes(c, next) ELSE Wizard!Heard(c, next)
    PROVE  WizInv'
<1> DEFINE next == Wizard!BeginOptional(w)
<1>1. /\ IsWizard(next) /\ next.open /\ OnPage(next)
      /\ next.phase = "optional" \/ (next.phase = "choosing" /\ ~next.loading)
  BY OptionalWizard
<1>2. IF next.phase = "optional" THEN Wizard!Goes(c, next) ELSE Wizard!Heard(c, next)
  OBVIOUS
<1> HIDE DEF next
<1>3. CASE next.phase = "optional"
  <2>1. Wizard!Goes(c, next) /\ wizard' = next
    BY <1>2, <1>3 DEF Wizard!Goes
  <2> QED BY <1>1, <1>3, <2>1, GoesHolds
<1>4. CASE next.phase # "optional"
  <2>1. Wizard!Heard(c, next) /\ wizard' = next
    BY <1>2, <1>4 DEF Wizard!Heard
  <2> QED BY <1>1, <1>4, <2>1, HeardHolds
<1> QED BY <1>3, <1>4

LEMMA TriedHolds ==
    ASSUME WizInv, wizard.open, UNCHANGED <<dishes, flags, cart, traces>>,
           NEW c \in writes, Wizard!Tried(c)
    PROVE  WizInv'
<1>1. /\ IsWizard(wizard) /\ OnPage(wizard) /\ wizard.phase = "crust" /\ wizard.at \in Nat
      /\ wizard.pages \in Nat /\ wizard.shown \in Nat /\ wizard.pages <= wizard.shown
  BY DEF WizInv, WizTypes, Wizard!Tried, OnPage
<1>2. CASE Wizard!Told(c)
  <2> DEFINE crust == IF wizard.todo = <<>> THEN <<>> ELSE wizard.todo[wizard.at]
             w     == [wizard EXCEPT !.stock = TRUE, !.crust = crust]
  <2>2. IsWizard(w) /\ w.open /\ w.pages = wizard.pages /\ w.shown = wizard.shown
    BY <1>1 DEF IsWizard, WizFields
  <2>3. LET next == Wizard!BeginOptional(w)
        IN  IF next.phase = "optional" THEN Wizard!Goes(c, next) ELSE Wizard!Heard(c, next)
    BY <1>2 DEF Wizard!Tried
  <2> HIDE DEF w
  <2> QED BY <1>1, <2>2, <2>3, OptionalHolds
<1>3. CASE ~Wizard!Told(c) /\ wizard.at # 0 /\ Wizard!Goes(c, [wizard EXCEPT !.at = @ + 1])
  <2>1. wizard' = [wizard EXCEPT !.at = wizard.at + 1] /\ Wizard!Goes(c, wizard')
    BY <1>3 DEF Wizard!Goes
  <2>2. /\ IsWizard(wizard') /\ wizard'.open /\ wizard'.phase = "crust" /\ wizard'.at = wizard.at + 1
        /\ wizard'.pages = wizard.pages /\ wizard'.shown = wizard.shown
    BY <1>1, <2>1 DEF IsWizard, WizFields
  <2>3. OnPage(wizard') /\ wizard'.at \in Nat \ {0}
    BY <1>1, <2>2 DEF OnPage
  <2> QED BY <2>1, <2>2, <2>3, GoesHolds
<1>4. CASE ~Wizard!Told(c) /\ Wizard!Heard(c, Wizard!Exhausted(wizard))
  <2>1. wizard' = [wizard EXCEPT !.at = 0, !.loading = FALSE] /\ Wizard!Heard(c, wizard')
    BY <1>4 DEF Wizard!Heard, Wizard!Exhausted
  <2>2. /\ IsWizard(wizard') /\ wizard'.open /\ wizard'.phase = "crust" /\ wizard'.at = 0 /\ ~wizard'.loading
        /\ wizard'.pages = wizard.pages /\ wizard'.shown = wizard.shown
    BY <1>1, <2>1 DEF IsWizard, WizFields
  <2>3. OnPage(wizard')
    BY <1>1, <2>2 DEF OnPage
  <2> QED BY <2>1, <2>2, <2>3, HeardHolds
<1> QED BY <1>2, <1>3, <1>4 DEF Wizard!Tried

LEMMA OfferedHolds ==
    ASSUME WizInv, wizard.open, UNCHANGED <<dishes, flags, cart, traces>>,
           NEW c \in writes, Wizard!Offered(c)
    PROVE  WizInv'
<1>1. /\ IsWizard(wizard) /\ wizard.phase = "optional"
      /\ wizard.pages \in Nat /\ wizard.shown \in Nat /\ wizard.pages <= wizard.shown
  BY DEF WizInv, WizTypes, Wizard!Offered, OnPage
<1>2. PICK found, w :
        /\ w = [wizard EXCEPT !.found = found]
        /\ Wizard!Goes(c, [w EXCEPT !.at = @ + 1]) \/ Wizard!Heard(c, Wizard!Finish(w))
  BY DEF Wizard!Offered
<1>3. IsWizard(w) /\ w.open /\ w.phase = "optional" /\ w.pages = wizard.pages /\ w.shown = wizard.shown
  BY <1>1, <1>2 DEF IsWizard, WizFields
<1>4. CASE Wizard!Goes(c, [w EXCEPT !.at = @ + 1])
  <2>1. wizard' = [w EXCEPT !.at = w.at + 1] /\ Wizard!Goes(c, wizard')
    BY <1>4 DEF Wizard!Goes
  <2>2. /\ IsWizard(wizard') /\ wizard'.open /\ wizard'.phase = "optional"
        /\ wizard'.pages = wizard.pages /\ wizard'.shown = wizard.shown
    BY <1>3, <2>1 DEF IsWizard, WizFields
  <2>3. OnPage(wizard')
    BY <1>1, <2>2 DEF OnPage
  <2> QED BY <2>1, <2>2, <2>3, GoesHolds
<1>5. CASE Wizard!Heard(c, Wizard!Finish(w))
  <2>1. wizard' = Wizard!Finish(w) /\ Wizard!Heard(c, wizard')
    BY <1>5 DEF Wizard!Heard
  <2>2. IsWizard(wizard') /\ wizard'.open /\ ~wizard'.loading /\ wizard'.phase = "choosing" /\ OnPage(wizard')
    BY <1>1, <1>3, <2>1, FinishWizard
  <2> QED BY <2>1, <2>2, HeardHolds
<1> QED BY <1>2, <1>4, <1>5

\* What is added is what is held.
LEMMA AddsHeld ==
    ASSUME WizInv, wizard.open, NEW c \in writes, Wizard!Added(c), ~traces.stray
    PROVE  cart.lines = dishes /\ cart.draft = {wizard.picked} /\ writes = {c}
<1>1. wizard.phase = "choosing" /\ c.state = "ok"
  BY DEF Wizard!Added, Wizard!Told
<1>2. cart = [lines |-> c.lines, draft |-> c.draft] /\ c.lines = dishes /\ c.draft = {wizard.picked}
  BY <1>1 DEF WizInv, AloneAsks
<1>3. writes = {c}
  BY DEF WizInv, AloneAsks
<1> QED BY <1>2, <1>3

LEMMA AddedHolds ==
    ASSUME WizInv, wizard.open, UNCHANGED <<flags, cart, traces>>, NEW c \in writes, Wizard!Added(c)
    PROVE  WizInv'
<1>1. ~wizard'.open /\ writes' = writes \ {c}
  BY DEF Wizard!Added, Wizard!Heard, Wizard!Closed
<1>2. WizTypes'
  BY <1>1 DEF WizInv, WizTypes
<1>3. AloneAsks'
  <2> SUFFICES ASSUME ~traces.stray PROVE AloneAsks'
    BY DEF AloneAsks
  <2>1. writes' = {} /\ ~flags.inFlight
    BY <1>1, AddsHeld DEF WizInv, AloneAsks
  <2> QED BY <1>1, <2>1 DEF AloneAsks
<1>4. Waits'
  BY <1>1 DEF Waits
<1>5. Flushed'
  <2> SUFFICES ASSUME ~traces.stray PROVE writes' = {} /\ Wizard!Held' = dishes'
    BY DEF Flushed
  <2>1. writes' = {} /\ cart.lines = dishes /\ cart.draft = {wizard.picked}
    BY <1>1, AddsHeld
  <2> QED BY <2>1 DEF Wizard!Held, Wizard!NoDraft, Wizard!Added
<1> QED BY <1>2, <1>3, <1>4, <1>5 DEF WizInv

LEMMA AnswerHolds ==
    ASSUME WizInv, NEW c \in writes, Wizard!WizardAnswer(c)
    PROVE  WizInv'
<1>1. wizard.open /\ UNCHANGED <<flags, cart, traces>>
  BY DEF Wizard!WizardAnswer
<1>2. CASE Wizard!Added(c)
  BY <1>1, <1>2, AddedHolds
<1>3. CASE UNCHANGED <<dishes, confirmed>>
  BY <1>1, <1>2, <1>3, PricedHolds, ScopedHolds, TriedHolds, OfferedHolds DEF Wizard!WizardAnswer
<1> QED BY <1>2, <1>3 DEF Wizard!WizardAnswer

\* An answer is beyond the candidates only if it may be taken for another.
LEMMA NeverBeyond ==
    ASSUME WizInv, NEW c \in writes, wizard.open, Wizard!Beyond(c)
    PROVE  traces.stray
<1> QED BY DEF WizInv, AloneAsks, Wizard!Beyond

LEMMA PanicHolds ==
    ASSUME WizInv, NEW c \in writes, Wizard!Panic(c)
    PROVE  WizInv'
<1>1. traces.stray /\ UNCHANGED <<cart, traces>> /\ ~wizard'.open /\ writes' = {}
  BY NeverBeyond DEF Wizard!Panic, Wizard!Closed
<1>2. flags' \in [pending : BOOLEAN, inFlight : BOOLEAN]
  BY DEF Wizard!Panic
<1> QED BY <1>1, <1>2 DEF WizInv, WizTypes, AloneAsks, Waits, Flushed

LEMMA WizSynced ==
    ASSUME WizInv, NEW c \in writes, Wizard!Synced(c)
    PROVE  WizInv'
<1> USE DEF WizInv
<1>1. /\ ~wizard.open /\ wizard' = wizard /\ c.state # "sent" /\ writes' = writes \ {c}
      /\ UNCHANGED <<cart, traces>>
      /\ IF c.state = "ok" THEN UNCHANGED dishes ELSE dishes' = confirmed
  BY DEF Wizard!Synced, Wizard!Told
<1>2. flags' \in [pending : BOOLEAN, inFlight : BOOLEAN] /\ flags'.pending = flags.pending /\ ~flags'.inFlight
  BY DEF Wizard!Synced, WizTypes
<1>3. WizTypes'
  BY <1>1, <1>2 DEF WizTypes
<1>4. AloneAsks'
  <2> SUFFICES ASSUME ~traces.stray PROVE AloneAsks'
    BY <1>1 DEF AloneAsks
  <2>1. writes' = {}
    BY <1>1 DEF AloneAsks
  <2> QED BY <1>1, <1>2, <2>1 DEF AloneAsks
<1>5. Waits'
  BY <1>1 DEF Waits
<1>6. Flushed'
  <2> SUFFICES ASSUME ~flags.pending, ~traces.stray, traces.faults = 0
               PROVE  writes' = {} /\ Wizard!Held' = dishes'
    BY <1>1, <1>2 DEF Flushed
  <2>1. writes' = {} /\ c.draft = {} /\ (c.state = "ok" => cart = [lines |-> c.lines, draft |-> c.draft])
    BY <1>1 DEF AloneAsks
  <2>2. c.lines = dishes /\ c.state # "error"
    BY <1>1 DEF Flushed
  <2>3. c.state = "ok"
    BY <1>1, <2>2 DEF WizTypes, IsWrite
  <2> QED BY <1>1, <2>1, <2>2, <2>3 DEF Wizard!Held, Wizard!NoDraft
<1> QED BY <1>3, <1>4, <1>5, <1>6

-----------------------------------------------------------------------------

LEMMA WizardNext == WizInv /\ [Wizard!Next]_wizVars => WizInv'
<1> SUFFICES ASSUME WizInv, [Wizard!Next]_wizVars PROVE WizInv'
  OBVIOUS
<1>1. CASE UNCHANGED wizVars
  BY <1>1 DEF wizVars, WizInv, WizTypes, AloneAsks, Waits, Flushed, Wizard!Held
<1>2. CASE Wizard!Next
  BY <1>2, WizSettles, EscHolds, ToggleHolds, AdvanceHolds, ConfirmHolds, OptionsHold, TapHolds, DecHolds,
     ServeHolds, AnswerHolds, PanicHolds, WizSynced DEF Wizard!Next
<1> QED BY <1>1, <1>2

LEMMA WizardInit == Wizard!Init => WizInv
<1> SUFFICES ASSUME Wizard!Init PROVE WizInv
  OBVIOUS
<1>1. ~wizard.open /\ writes = {} /\ cart.draft = {} /\ cart.lines = dishes
  BY DEF Wizard!Init, Wizard!Closed, Wizard!NoDraft
<1>2. flags \in [pending : BOOLEAN, inFlight : BOOLEAN] /\ ~flags.inFlight /\ traces \in WizTraces
  BY DEF Wizard!Init, WizTraces
<1> QED BY <1>1, <1>2 DEF WizInv, WizTypes, AloneAsks, Waits, Flushed, Wizard!Held, Wizard!NoDraft

\* One step of the wizard adds what Swiggy holds.
LEMMA WizardAdds ==
    ASSUME WizInv, [Wizard!Next]_wizVars
    PROVE  [wizard.open /\ ~wizard'.open /\ dishes' # dishes /\ ~traces.stray =>
              cart.lines = dishes /\ cart.draft = {wizard.picked}]_wizVars
<1> SUFFICES ASSUME wizard.open, ~wizard'.open, dishes' # dishes, ~traces.stray, Wizard!Next
             PROVE  cart.lines = dishes /\ cart.draft = {wizard.picked}
  BY DEF wizVars
<1>1. ASSUME NEW c \in writes, Wizard!WizardAnswer(c)
      PROVE  cart.lines = dishes /\ cart.draft = {wizard.picked}
  BY <1>1, AddsHeld DEF Wizard!WizardAnswer
<1>2. ~\E c \in writes : Wizard!Panic(c)
  BY NeverBeyond DEF Wizard!Panic
<1>3. \E c \in writes : Wizard!WizardAnswer(c)
  BY <1>2 DEF Wizard!Next, Wizard!Settle, Wizard!Esc, Wizard!Toggle, Wizard!Advance, Wizard!Confirm,
     Wizard!OptionsLoaded, Wizard!Tap, Wizard!Dec, Wizard!OptionsFailed, Wizard!Serve, Wizard!Synced
<1> QED BY <1>1, <1>3

LEMMA WizardAlways == OrdersSpec => []WizInv
<1>1. OrdersInit => WizInv
  BY WizardInit DEF OrdersInit
<1>2. WizInv /\ [OrdersNext]_<<focus, vars, shopVars, wizVars, cliVars>> => WizInv'
  BY WizardNext DEF OrdersNext
<1> QED BY <1>1, <1>2, PTL DEF OrdersSpec

\* AddedAsConfirmed: what the wizard adds to the lines is what Swiggy's cart holds with the
\* draft, unless an answer may have been taken for another one.
THEOREM WizardAddsAsConfirmed == OrdersSpec => AddedAsConfirmed
<1>1. WizInv /\ [OrdersNext]_<<focus, vars, shopVars, wizVars, cliVars>> =>
        [wizard.open /\ ~wizard'.open /\ dishes' # dishes /\ ~traces.stray =>
           cart.lines = dishes /\ cart.draft = {wizard.picked}]_wizVars
  BY WizardAdds DEF OrdersNext
<1> QED BY <1>1, WizardAlways, PTL DEF OrdersSpec, AddedAsConfirmed, Wizard!AddedAsConfirmed, Wizard!wizVars, wizVars

-----------------------------------------------------------------------------
(* Groups and their choices                                                  *)

\* The operators of the sequence library are the same in the instance.
LEMMA SameSequences ==
    /\ \A s : Wizard!ToSet(s) = ToSet(s)
    /\ \A s, e : Wizard!Contains(s, e) <=> Contains(s, e)
<1> QED BY DEF Wizard!ToSet, ToSet, Wizard!Contains, Contains

LEMMA InSeq ==
    ASSUME NEW R, NEW S, NEW g \in Seq(R), ToSet(g) \subseteq S
    PROVE  g \in Seq(S)
<1> QED BY DEF ToSet

LEMMA GroupsGiven ==
    /\ Len(VarGroups) \in Nat \ {0}
    /\ \A i \in 1..Len(VarGroups) : VarGroups[i] \in Seq(Wizard!Variants) \ {<<>>}
    /\ \A g \in ToSet(Required) \cup ToSet(Optional) : g \in Seq(Wizard!AddOns) \ {<<>>}
    /\ Required \in Seq(ToSet(Required)) /\ Optional \in Seq(ToSet(Optional))
    /\ Wizard!Variants \cap Wizard!AddOns = {} /\ Wizard!Rows = Wizard!Variants \cup Wizard!AddOns
<1>1. /\ VarGroups # <<>> /\ Wizard!Variants \cap Wizard!AddOns = {}
      /\ VarGroups \in Seq(Seq(Wizard!Rows) \ {<<>>}) /\ Required \in Seq(Seq(Wizard!Rows) \ {<<>>})
      /\ Optional \in Seq(Seq(Wizard!Rows) \ {<<>>})
  BY WizardAssumption DEF Wizard!GroupsHaveChoices
<1> DEFINE R == Wizard!Rows  V == Wizard!Variants  A == Wizard!AddOns
<1>2. V = UNION {ToSet(g) : g \in ToSet(VarGroups)}
  BY SameSequences DEF Wizard!Variants
<1>3. A = UNION {ToSet(g) : g \in ToSet(Required) \cup ToSet(Optional)}
  BY SameSequences DEF Wizard!AddOns
<1>4. R = V \cup A
  BY DEF Wizard!Rows
<1> HIDE DEF R, V, A
<1>5. ASSUME NEW i \in 1..Len(VarGroups) PROVE VarGroups[i] \in Seq(V) \ {<<>>}
  <2>1. VarGroups[i] \in Seq(R) \ {<<>>} /\ VarGroups[i] \in ToSet(VarGroups)
    BY <1>1 DEF R, ToSet
  <2>2. ToSet(VarGroups[i]) \subseteq V
    BY <2>1, <1>2
  <2> QED BY <2>1, <2>2, InSeq
<1>6. ASSUME NEW g \in ToSet(Required) \cup ToSet(Optional) PROVE g \in Seq(A) \ {<<>>}
  <2>1. g \in Seq(R) \ {<<>>}
    BY <1>1 DEF R, ToSet
  <2>2. ToSet(g) \subseteq A
    BY <1>3
  <2> QED BY <2>1, <2>2, InSeq
<1>7. Required \in Seq(ToSet(Required)) /\ Optional \in Seq(ToSet(Optional))
  BY <1>1, InSeq
<1>8. Len(VarGroups) \in Nat \ {0}
  BY <1>1
<1> QED BY <1>1, <1>4, <1>5, <1>6, <1>7, <1>8 DEF R, V, A

\* What is first of a group is a choice of it that is in stock.
LEMMA FirstOf ==
    ASSUME NEW S, NEW g \in Seq(S), NEW out, Wizard!HasStock(g, out)
    PROVE  Wizard!FirstIn(g, out) \in ToSet(g) \ out /\ Wizard!FirstIn(g, out) \in S
<1> DEFINE I == {i \in 1..Len(g) : g[i] \notin out}
           n == CHOOSE x \in I : \A y \in I : x <= y
<1>1. I # {} /\ I \subseteq Nat
  BY DEF Wizard!HasStock, Wizard!ToSet
<1>2. n \in I
  <2> HIDE DEF I
  <2> QED BY <1>1, LeastNumber
<1>3. Wizard!FirstIn(g, out) = g[n]
  BY <1>1 DEF Wizard!FirstIn, Wizard!SelectInSeq, Wizard!Min
<1> HIDE DEF n
<1> QED BY <1>2, <1>3 DEF ToSet

\* If the first choice is in stock, it is the one.
LEMMA FirstIsOne ==
    ASSUME NEW S, NEW g \in Seq(S), g # <<>>, NEW out, g[1] \notin out
    PROVE  Wizard!FirstIn(g, out) = g[1] /\ Wizard!HasStock(g, out)
<1> DEFINE I == {i \in 1..Len(g) : g[i] \notin out}
           n == CHOOSE x \in I : \A y \in I : x <= y
<1>1. 1 \in I /\ \A y \in I : 1 <= y
  OBVIOUS
<1>2. n = 1
  <2>1. I \subseteq Nat
    OBVIOUS
  <2> HIDE DEF I
  <2>2. n \in I /\ \A y \in I : n <= y
    BY <1>1
  <2>3. n <= 1 /\ 1 <= n /\ n \in Nat
    BY <1>1, <2>1, <2>2
  <2> HIDE DEF n
  <2> QED BY <2>3
<1>3. Wizard!FirstIn(g, out) = g[n]
  BY <1>1 DEF Wizard!FirstIn, Wizard!SelectInSeq, Wizard!Min
<1> HIDE DEF n
<1> QED BY <1>1, <1>2, <1>3 DEF Wizard!HasStock, Wizard!ToSet

LEMMA OnlyHere ==
    ASSUME NEW T, NEW seq \in Seq(T), NEW K
    PROVE  Wizard!Only(seq, K) \in Seq(T) /\ ToSet(Wizard!Only(seq, K)) = ToSet(seq) \cap K
<1>1. Wizard!Only(seq, K) = Filtered(seq, K)
  BY DEF Wizard!Only, Wizard!FoldLeft, Wizard!MapThenFoldSet, Wizard!Max, Filtered, FoldLeft, MapThenFoldSet, Max
<1> QED BY <1>1, OnlyThose

\* Ordered by name, a group keeps its choices.
LEMMA ByNameKeeps ==
    ASSUME NEW T, NEW g \in Seq(T)
    PROVE  Wizard!ByName(g) \in Seq(T) /\ ToSet(Wizard!ByName(g)) = ToSet(g)
<1> DEFINE A == Seq(T)
           More(c) == Wizard!Only(g, {d \in Wizard!ToSet(g) : NameOf[d] = NameOf[c]})
           F == [p \in A \X T |-> IF Wizard!Contains(p[1], p[2]) THEN p[1] ELSE p[1] \o More(p[2])]
           Of(f) == [s \in SUBSET DOMAIN g |->
                      IF s = {} THEN <<>>
                      ELSE IF Wizard!Contains(f[s \ {Max(s)}], g[Max(s)]) THEN f[s \ {Max(s)}]
                           ELSE f[s \ {Max(s)}] \o More(g[Max(s)])]
           h == CHOOSE f : f = Of(f)
<1>0. ASSUME NEW c PROVE More(c) \in Seq(T) /\ ToSet(More(c)) = {d \in ToSet(g) : NameOf[d] = NameOf[c]}
  BY OnlyHere, SameSequences
<1>00. Wizard!ByName(g) = h[DOMAIN g]
  BY DEF Wizard!ByName, Wizard!FoldLeft, Wizard!MapThenFoldSet, Wizard!Max, Max
<1> HIDE DEF More
<1>1. F \in [A \X T -> A] /\ <<>> \in A
  BY <1>0
<1>2. PICK f : LeftFolded(f, F, <<>>, g) /\ \A s \in SUBSET DOMAIN g : f[s] \in A
  <2> HIDE DEF F, A
  <2> QED BY <1>1, LeftFoldExists
<1>3. ASSUME NEW s \in SUBSET DOMAIN g, s # {}
      PROVE  f[s \ {Max(s)}] \in A /\ g[Max(s)] \in T /\ Max(s) \in s
  <2> HIDE DEF A
  <2> QED BY <1>2, <1>3, LastIsPicked
<1> HIDE DEF A
<1>4. f = Of(f)
  BY <1>2, <1>3 DEF LeftFolded
<1>5. h = Of(h)
  BY <1>4
<1> HIDE DEF h
<1>7. \A s \in SUBSET DOMAIN g : h[s] = Of(h)[s]
  BY <1>5, Zenon
<1> DEFINE G == {s \in SUBSET DOMAIN g : /\ h[s] \in Seq(T) /\ {g[i] : i \in s} \subseteq ToSet(h[s])
                                        /\ ToSet(h[s]) \subseteq ToSet(g)}
<1>8. {} \in G
  <2>1. h[{}] = <<>>
    BY <1>7
  <2>2. <<>> \in Seq(T) /\ ToSet(<<>>) = {} /\ {g[i] : i \in {}} = {}
    BY DEF ToSet
  <2> QED BY <2>1, <2>2
<1>9. ASSUME NEW s \in SUBSET DOMAIN g, s # {}, s \ {Max(s)} \in G PROVE s \in G
  <2> DEFINE t == s \ {Max(s)}  x == g[Max(s)]
  <2>1. h[t] \in Seq(T) /\ {g[i] : i \in t} \subseteq ToSet(h[t]) /\ ToSet(h[t]) \subseteq ToSet(g)
    BY <1>9
  <2>2. {g[i] : i \in s} = {g[i] : i \in t} \cup {x} /\ x \in T /\ x \in ToSet(g)
    BY <1>3, <1>9 DEF ToSet
  <2>3. h[s] = IF Contains(h[t], x) THEN h[t] ELSE h[t] \o More(x)
    BY <1>7, <1>9, SameSequences
  <2> HIDE DEF t, x
  <2>4. CASE Contains(h[t], x)
    <3>1. x \in ToSet(h[t]) /\ h[s] = h[t]
      BY <2>3, <2>4 DEF Contains, ToSet
    <3> QED BY <3>1, <2>1, <2>2
  <2>5. CASE ~Contains(h[t], x)
    <3>1. h[s] \in Seq(T) /\ ToSet(h[s]) = ToSet(h[t]) \cup ToSet(More(x))
      BY <2>1, <2>3, <2>5, <1>0, ToSetConcat
    <3>2. x \in ToSet(More(x)) /\ ToSet(More(x)) \subseteq ToSet(g)
      BY <1>0, <2>2
    <3> QED BY <3>1, <3>2, <2>1, <2>2
  <2> QED BY <2>4, <2>5
<1> HIDE DEF G
<1>10. DOMAIN g \in G
  BY <1>8, <1>9, Along
<1>11. h[DOMAIN g] \in Seq(T) /\ {g[i] : i \in DOMAIN g} \subseteq ToSet(h[DOMAIN g]) /\ ToSet(h[DOMAIN g]) \subseteq ToSet(g)
  BY <1>10 DEF G
<1> QED BY <1>00, <1>11 DEF ToSet

\* The groups that are tried are the required ones.
LEMMA TrialOrderKeeps ==
    ASSUME NEW w
    PROVE  Wizard!TrialOrder(w) \in Seq(ToSet(Required)) /\ ToSet(Wizard!TrialOrder(w)) = ToSet(Required)
<1>1. PICK H \in SUBSET ToSet(Required) :
        Wizard!TrialOrder(w) = Wizard!Only(Required, H) \o Wizard!Only(Required, ToSet(Required) \ H)
  BY SameSequences DEF Wizard!TrialOrder
<1> DEFINE S == ToSet(Required)
<1> HIDE DEF S
<1>2. Required \in Seq(S) /\ ToSet(Required) = S
  BY GroupsGiven DEF S
<1>3. ASSUME NEW K \in SUBSET S PROVE Wizard!Only(Required, K) \in Seq(S) /\ ToSet(Wizard!Only(Required, K)) = K
  <2>1. Required \in Seq(S)
    BY <1>2
  <2>2. Wizard!Only(Required, K) \in Seq(S) /\ ToSet(Wizard!Only(Required, K)) = ToSet(Required) \cap K
    BY <2>1, OnlyHere, Zenon
  <2> QED BY <1>2, <2>2
<1>4. Wizard!TrialOrder(w) \in Seq(S) /\ ToSet(Wizard!TrialOrder(w)) = H \cup (S \ H)
  BY <1>1, <1>2, <1>3, ToSetConcat
<1> QED BY <1>1, <1>2, <1>4 DEF S

-----------------------------------------------------------------------------
(* What the wizard holds                                                     *)

Stocked == {g \in ToSet(Optional) : Wizard!HasStock(g, Gone)}

\* The pages: those of the variants, and after them one of add-ons.
Paged(w) ==
    /\ w.phase \in Wizard!Phases /\ w.shown \in 1..Len(VarGroups) /\ w.at \in Nat
    /\ w.pages = IF w.phase = "choosing" THEN w.shown + 1 ELSE w.shown
    /\ w.picked \subseteq Wizard!Rows /\ w.found \in Seq(Wizard!Rows \cup ToSet(Optional))
    /\ w.crust \in ToSet(Required) \cup {<<>>}
    /\ IF w.phase = "choosing" THEN w.page \in Seq(ToSet(Required) \cup ToSet(Optional))
       ELSE w.picked \subseteq Wizard!Variants /\ w.page \in Seq(Seq(Wizard!Variants))

\* The candidates of a phase that asks.
Candidates(w) ==
    /\ w.phase = "scope" => /\ w.shown < Len(VarGroups) /\ w.todo \in Seq(Wizard!Variants)
                            /\ w.at \in 1..Len(w.todo) /\ w.found \in Seq(Wizard!Variants)
    /\ w.phase = "crust" => w.todo \in Seq(ToSet(Required)) /\ (w.todo # <<>> => w.at <= Len(w.todo))
    /\ w.phase = "optional" => /\ w.stock = TRUE /\ w.todo \in Seq(Stocked)
                               /\ w.at \in 1..Len(w.todo) /\ w.found \in Seq(ToSet(Optional))

Shaped(w) == IsWizard(w) /\ w.open /\ Paged(w) /\ Candidates(w)

LEMMA DefaultsAreOf ==
    ASSUME NEW S, NEW page, \A g \in ToSet(page) : g \in Seq(S), NEW out
    PROVE  Wizard!Defaults(page, out) \subseteq S
<1>1. ASSUME NEW c \in Wizard!Defaults(page, out) PROVE c \in S
  <2>1. PICK g \in ToSet(page) : Wizard!HasStock(g, out) /\ c = Wizard!FirstIn(g, out)
    BY <1>1, SameSequences DEF Wizard!Defaults
  <2> QED BY <2>1, FirstOf
<1> QED BY <1>1

LEMMA PricedVariants ==
    ASSUME NEW w
    PROVE  Wizard!PriceQuestion(w) \subseteq Wizard!Rows
<1>1. Wizard!VariantSelections(w) \subseteq Wizard!Rows
  BY GroupsGiven DEF Wizard!VariantSelections
<1>2. ASSUME NEW c \in Wizard!RequiredDefaults(w) PROVE c \in Wizard!Rows
  <2>1. PICK g \in ToSet(Required) : /\ Wizard!HasStock(g, Wizard!SoldOut(w))
                                     /\ c = Wizard!FirstIn(g, Wizard!SoldOut(w))
    BY <1>2, SameSequences DEF Wizard!RequiredDefaults
  <2>2. g \in Seq(Wizard!AddOns)
    BY <2>1, GroupsGiven
  <2>3. c \in Wizard!AddOns
    BY <2>1, <2>2, FirstOf
  <2> QED BY <2>3, GroupsGiven
<1> QED BY <1>1, <1>2 DEF Wizard!PriceQuestion

\* The first choice of a group, whatever its stock.
LEMMA FirstAdded ==
    ASSUME NEW g \in ToSet(Required) \cup ToSet(Optional), NEW out, g[1] \notin out
    PROVE  Wizard!FirstIn(g, out) = g[1] /\ Wizard!FirstIn(g, {}) = g[1] /\ Wizard!HasStock(g, out)
           /\ g[1] \in Wizard!AddOns
<1>1. g \in Seq(Wizard!AddOns) /\ g # <<>>
  BY GroupsGiven
<1>2. g[1] \in Wizard!AddOns /\ g[1] \notin {}
  BY <1>1
<1> QED BY <1>1, <1>2, FirstIsOne

\* What is asked is a selection of the dish.
LEMMA AsksRows ==
    ASSUME NEW w, Shaped(w), w.phase \in {"scope", "crust", "optional"}, w.phase = "crust" => w.at # 0
    PROVE  Wizard!Question(w) \subseteq Wizard!Rows
<1>1. Wizard!VariantSelections(w) \subseteq Wizard!Rows /\ w.picked \subseteq Wizard!Rows
  BY GroupsGiven DEF Wizard!VariantSelections, Shaped, Paged
<1>2. CASE w.phase = "scope"
  <2>1. w.todo[w.at] \in Wizard!Rows
    BY <1>2, GroupsGiven DEF Shaped, Candidates
  <2> QED BY <1>1, <1>2, <2>1 DEF Wizard!Question
<1>3. CASE w.phase = "crust"
  <2>1. CASE w.todo = <<>>
    BY <1>1, <1>3, <2>1 DEF Wizard!Question
  <2>2. CASE w.todo # <<>>
    <3>1. w.todo[w.at] \in ToSet(Required)
      BY <1>3, <2>2 DEF Shaped, Candidates, Paged
    <3>2. Wizard!FirstIn(w.todo[w.at], {}) \in Wizard!Rows
      BY <3>1, FirstAdded, GroupsGiven
    <3> QED BY <1>1, <1>3, <2>2, <3>2 DEF Wizard!Question
  <2> QED BY <2>1, <2>2
<1>4. CASE w.phase = "optional"
  <2>1. w.todo[w.at] \in Stocked /\ w.stock = TRUE
    BY <1>4 DEF Shaped, Candidates
  <2>2. Wizard!FirstIn(w.todo[w.at], Wizard!SoldOut(w)) \in Wizard!Rows
    <3>1. Wizard!SoldOut(w) = Gone
      BY <2>1 DEF Wizard!SoldOut
    <3>2. w.todo[w.at] \in Seq(Wizard!AddOns) /\ Wizard!HasStock(w.todo[w.at], Gone)
      BY <2>1, GroupsGiven DEF Stocked
    <3> QED BY <3>1, <3>2, FirstOf, GroupsGiven
  <2>3. Wizard!Base(w) \subseteq Wizard!Rows
    <3>1. CASE w.crust = <<>>
      BY <1>1, <3>1 DEF Wizard!Base
    <3>2. CASE w.crust # <<>>
      <4>1. w.crust \in ToSet(Required)
        BY <3>2 DEF Shaped, Paged
      <4>2. Wizard!FirstIn(w.crust, {}) \in Wizard!Rows
        BY <4>1, FirstAdded, GroupsGiven
      <4> QED BY <1>1, <3>2, <4>2 DEF Wizard!Base
    <3> QED BY <3>1, <3>2
  <2> QED BY <1>4, <2>2, <2>3 DEF Wizard!Question
<1> QED BY <1>2, <1>3, <1>4

LEMMA OpenedShaped ==
    ASSUME NEW priced
    PROVE  LET w == [Wizard!Opened(priced) EXCEPT !.picked = Wizard!Defaults(<<VarGroups[1]>>, {})]
           IN  IsWizard(w) /\ w.open /\ Paged(w) /\ w.phase = "pick"
<1> DEFINE page == <<VarGroups[1]>>  picked == Wizard!Defaults(page, {})
           w == [Wizard!Opened(priced) EXCEPT !.picked = picked]
<1>1. page \in Seq(Seq(Wizard!Variants)) /\ \A g \in ToSet(page) : g \in Seq(Wizard!Variants)
  BY GroupsGiven DEF ToSet
<1>2. picked \subseteq Wizard!Variants
  <2> HIDE DEF page
  <2> QED BY <1>1, DefaultsAreOf
<1>3. IsWizard(w) /\ w.open
  BY DEF Wizard!Opened, IsWizard, WizFields
<1>4. w.phase = "pick" /\ w.shown = 1 /\ w.at = 1 /\ w.pages = 1
  BY DEF Wizard!Opened
<1>5. w.picked = picked /\ w.found = <<>> /\ w.crust = <<>> /\ w.page = page
  BY DEF Wizard!Opened
<1> HIDE DEF w, picked, page
<1>6. Paged(w)
  BY <1>1, <1>2, <1>4, <1>5, GroupsGiven DEF Paged, Wizard!Phases
<1> QED BY <1>3, <1>4, <1>6 DEF w, picked, page

\* A page of variants that is entered.
LEMMA EnterShaped ==
    ASSUME NEW w, IsWizard(w), w.open, Paged(w), w.phase # "choosing"
    PROVE  Shaped(Wizard!EnterVariantPage(w))
<1> DEFINE e == Wizard!EnterVariantPage(w)
<1>1. IsWizard(e) /\ e.open /\ e.phase \in {"pick", "pricing"} /\ e.pages = w.pages /\ e.shown = w.shown
  BY EnterWizard
<1>2. e.at = w.at /\ e.picked = w.picked /\ e.found = w.found /\ e.crust = w.crust /\ e.page = w.page
  BY DEF Wizard!EnterVariantPage, IsWizard, WizFields
<1> HIDE DEF e
<1>3. Paged(e) /\ Candidates(e)
  BY <1>1, <1>2 DEF Paged, Candidates, Wizard!Phases
<1> QED BY <1>1, <1>3 DEF e, Shaped

LEMMA FinishShaped ==
    ASSUME NEW w, IsWizard(w), w.open, Paged(w), w.phase = "optional", w.found \in Seq(ToSet(Optional))
    PROVE  Shaped(Wizard!Finish(w))
<1> DEFINE page == (IF w.crust = <<>> THEN <<>> ELSE <<w.crust>>) \o w.found
           G == ToSet(Required) \cup ToSet(Optional)
           out == Wizard!SoldOut(w)
           e == Wizard!Finish(w)
<1>0. G = ToSet(Required) \cup ToSet(Optional)
  OBVIOUS
<1>1. page \in Seq(G)
  <2>1. w.crust \in ToSet(Required) \cup {<<>>}
    BY DEF Paged
  <2>2. w.found \in Seq(G)
    BY <1>0
  <2> HIDE DEF G
  <2>3. IF w.crust = <<>> THEN TRUE ELSE w.crust \in G
    BY <2>1, <1>0
  <2> QED BY <2>2, <2>3
<1>2. \A g \in ToSet(page) : g \in Seq(Wizard!AddOns)
  <2> HIDE DEF page, G
  <2>1. \A g \in ToSet(page) : g \in G
    BY <1>1 DEF ToSet
  <2> QED BY <2>1, <1>0, GroupsGiven
<1> HIDE DEF page, out
<1>3. Wizard!Defaults(page, out) \subseteq Wizard!AddOns
  BY <1>2, DefaultsAreOf
<1>4. e = [Wizard!AddPage(w, page, out) EXCEPT !.phase = "choosing"]
  BY DEF Wizard!Finish, page, out
<1>5. IsWizard(e) /\ e.open /\ e.phase = "choosing"
  BY FinishWizard DEF Paged
<1>6. e.page = page /\ e.pages = w.pages + 1 /\ e.shown = w.shown /\ e.at = w.at
  BY <1>4 DEF Wizard!AddPage, IsWizard, WizFields
<1>7. e.picked = w.picked \cup Wizard!Defaults(page, out) /\ e.found = w.found /\ e.crust = w.crust
  BY <1>4 DEF Wizard!AddPage, IsWizard, WizFields
<1> HIDE DEF e
<1>8. Paged(e) /\ Candidates(e)
  BY <1>1, <1>3, <1>5, <1>6, <1>7, GroupsGiven DEF Paged, Candidates, Wizard!Phases
<1> QED BY <1>5, <1>8 DEF Shaped, e

LEMMA OptionalShaped ==
    ASSUME NEW w, IsWizard(w), w.open, Paged(w), w.phase = "crust", w.stock = TRUE
    PROVE  Shaped(Wizard!BeginOptional(w))
<1> DEFINE some == Wizard!Only(Optional, {g \in Wizard!ToSet(Optional) : Wizard!HasStock(g, Wizard!SoldOut(w))})
           next == [w EXCEPT !.found = <<>>, !.todo = some, !.at = 1, !.phase = "optional", !.loading = TRUE]
           e == Wizard!BeginOptional(w)
<1>1. some \in Seq(Stocked)
  <2>1. {g \in Wizard!ToSet(Optional) : Wizard!HasStock(g, Wizard!SoldOut(w))} = Stocked
    BY SameSequences DEF Stocked, Wizard!SoldOut
  <2>2. some = Wizard!Only(Optional, Stocked)
    BY <2>1
  <2> HIDE DEF some
  <2>3. some \in Seq(ToSet(Optional)) /\ ToSet(some) = ToSet(Optional) \cap Stocked
    BY <2>2, OnlyHere, GroupsGiven
  <2>4. ToSet(some) \subseteq Stocked
    BY <2>3
  <2> QED BY <2>3, <2>4, InSeq
<1>2. e = IF some = <<>> THEN Wizard!Finish(next) ELSE next
  BY DEF Wizard!BeginOptional
<1> HIDE DEF some
<1>3. IsWizard(next) /\ next.open
  BY DEF IsWizard, WizFields
<1>4. next.phase = "optional" /\ next.found = <<>> /\ next.todo = some /\ next.at = 1
  BY DEF IsWizard, WizFields
<1>5. next.shown = w.shown /\ next.pages = w.pages /\ next.picked = w.picked /\ next.crust = w.crust
  BY DEF IsWizard, WizFields
<1>6. next.page = w.page /\ next.stock = w.stock
  BY DEF IsWizard, WizFields
<1> HIDE DEF next, e
<1>7. Paged(next) /\ next.found \in Seq(ToSet(Optional))
  BY <1>4, <1>5, <1>6 DEF Paged, Wizard!Phases
<1>8. CASE some = <<>>
  BY <1>2, <1>3, <1>4, <1>7, <1>8, FinishShaped DEF e
<1>9. CASE some # <<>>
  <2>1. next.at \in 1..Len(next.todo) /\ next.todo \in Seq(Stocked)
    BY <1>1, <1>4, <1>9
  <2>2. Candidates(next)
    BY <2>1, <1>4, <1>6, <1>7 DEF Candidates
  <2> QED BY <1>2, <1>3, <1>7, <1>9, <2>2 DEF Shaped, e
<1> QED BY <1>8, <1>9

-----------------------------------------------------------------------------
(* The lines and the writes                                                  *)

WritesOK(W) ==
    /\ IsFiniteSet(W) /\ \A c, d \in W : c.id = d.id => c = d
    /\ \A c \in W : /\ c.id \in 1..(MaxWire + 1) /\ c.draft \subseteq Wizard!Selections
                    /\ DOMAIN c.lines \subseteq Wizard!Selections

WizHeld ==
    /\ wizard.open => Shaped(wizard)
    /\ DOMAIN dishes \subseteq Wizard!Selections /\ DOMAIN confirmed \subseteq Wizard!Selections
    /\ DOMAIN cart.lines \subseteq Wizard!Selections
    /\ asked \in Nat /\ asked <= traces.taps /\ traces.taps <= MaxTaps
    /\ WritesOK(writes)

\* A number is free for a write that is sent.
LEMMA FreeNumber ==
    ASSUME WritesOK(writes), Cardinality(writes) < MaxWire
    PROVE  Wizard!Free \in 1..(MaxWire + 1) /\ \A c \in writes : c.id # Wizard!Free
<1> DEFINE ids == {c.id : c \in writes}
<1>1. IsFiniteSet(writes) /\ MaxWire \in Nat /\ Cardinality(writes) \in Nat
  BY FS_CardinalityType, WizardAssumption DEF WritesOK
<1>2. IsFiniteSet(ids) /\ Cardinality(ids) <= Cardinality(writes)
  <2> DEFINE f == [c \in writes |-> c.id]
  <2>1. f \in Surjection(writes, ids)
    BY DEF Surjection
  <2> HIDE DEF f, ids
  <2> QED BY <1>1, <2>1, FS_Surjection
<1>3. \E n \in 1..(MaxWire + 1) : n \notin ids
  <2> SUFFICES ASSUME 1..(MaxWire + 1) \subseteq ids PROVE FALSE
    OBVIOUS
  <2> HIDE DEF ids
  <2>1. Cardinality(1..(MaxWire + 1)) = MaxWire + 1
    <3>1. 1 \in Int /\ MaxWire + 1 \in Int /\ ~(1 > MaxWire + 1) /\ (MaxWire + 1) - 1 + 1 = MaxWire + 1
      BY <1>1
    <3> QED BY <3>1, FS_Interval
  <2>2. Cardinality(1..(MaxWire + 1)) <= Cardinality(ids) /\ Cardinality(ids) \in Nat
    BY <1>2, FS_Subset, FS_CardinalityType
  <2> QED BY <1>1, <1>2, <2>1, <2>2
<1>4. \E n \in 1..(MaxWire + 1) : \A c \in writes : c.id # n
  BY <1>3
<1> HIDE DEF ids
<1> DEFINE n == CHOOSE n \in 1..(MaxWire + 1) : \A c \in writes : c.id # n
<1>5. n \in 1..(MaxWire + 1) /\ \A c \in writes : c.id # n
  BY <1>4
<1> HIDE DEF n
<1>6. Wizard!Free = n
  BY DEF Wizard!Free, n
<1> QED BY <1>5, <1>6

LEMMA SentHeld ==
    ASSUME WizHeld, Cardinality(writes) < MaxWire, NEW draft, draft \subseteq Wizard!Selections
    PROVE  WritesOK(Wizard!Sent(draft))
<1> DEFINE v == Wizard!Write(Wizard!Free, dishes, draft)
<1>1. v.id = Wizard!Free /\ v.draft = draft /\ v.lines = dishes
  BY DEF Wizard!Write
<1>2. Wizard!Free \in 1..(MaxWire + 1) /\ \A c \in writes : c.id # Wizard!Free
  BY FreeNumber DEF WizHeld
<1>3. Wizard!Sent(draft) = writes \cup {v}
  BY DEF Wizard!Sent
<1> HIDE DEF v
<1>4. IsFiniteSet(writes \cup {v})
  BY FS_AddElement DEF WizHeld, WritesOK
<1> QED BY <1>1, <1>2, <1>3, <1>4 DEF WizHeld, WritesOK

LEMMA GoneHeld ==
    ASSUME WritesOK(writes), NEW c
    PROVE  WritesOK(writes \ {c})
<1>1. IsFiniteSet(writes \ {c})
  BY FS_Subset DEF WritesOK
<1> QED BY <1>1 DEF WritesOK

\* A write takes the number of the one that is answered.
LEMMA NextHeld ==
    ASSUME WritesOK(writes), NEW c \in writes, NEW v, v.id = c.id, v.draft \subseteq Wizard!Selections,
           DOMAIN v.lines \subseteq Wizard!Selections
    PROVE  WritesOK((writes \ {c}) \cup {v})
<1>1. IsFiniteSet((writes \ {c}) \cup {v})
  BY FS_Subset, FS_AddElement DEF WritesOK
<1>2. \A d \in writes \ {c} : d.id # v.id
  BY DEF WritesOK
<1> QED BY <1>1, <1>2 DEF WritesOK

LEMMA AskedHeld ==
    ASSUME WizHeld, NEW c \in writes, NEW draft, draft \subseteq Wizard!Selections
    PROVE  WritesOK((writes \ {c}) \cup {Wizard!Write(c.id, dishes, draft)})
<1> DEFINE v == Wizard!Write(c.id, dishes, draft)
<1>1. v.id = c.id /\ v.draft = draft /\ v.lines = dishes
  BY DEF Wizard!Write
<1> HIDE DEF v
<1>2. WritesOK((writes \ {c}) \cup {v})
  BY <1>1, NextHeld DEF WizHeld
<1> QED BY <1>2 DEF v

LEMMA StrayTaps ==
    ASSUME traces \in WizTraces, NEW when
    PROVE  Wizard!Stray(when).taps = traces.taps
<1> QED BY DEF Wizard!Stray, WizTraces

LEMMA HeldFrame ==
    ASSUME WizHeld, UNCHANGED <<dishes, confirmed, cart, asked>>, traces'.taps = traces.taps,
           wizard'.open => Shaped(wizard'), WritesOK(writes')
    PROVE  WizHeld'
<1> QED BY DEF WizHeld, WritesOK

-----------------------------------------------------------------------------
(* Keys, and what Swiggy does                                                *)

LEMMA TapHeld ==
    ASSUME WizInv, WizHeld, Wizard!Tap \/ Wizard!OptionsFailed
    PROVE  WizHeld'
<1>1. UNCHANGED <<wizard, dishes, confirmed, cart, writes>>
  BY DEF Wizard!Tap, Wizard!OptionsFailed
<1>2. asked' \in Nat /\ asked' <= traces'.taps /\ traces'.taps <= MaxTaps
  <2>1. traces \in WizTraces /\ MaxTaps \in Nat /\ asked \in Nat /\ asked <= traces.taps /\ traces.taps <= MaxTaps
    BY WizardAssumption DEF WizInv, WizTypes, WizHeld
  <2>2. CASE Wizard!Tap
    <3>1. traces'.taps = traces.taps + 1 /\ asked' = asked + 1 /\ traces.taps < MaxTaps
      BY <2>1, <2>2 DEF Wizard!Tap, WizTraces
    <3> QED BY <2>1, <3>1 DEF WizTraces
  <2>3. CASE Wizard!OptionsFailed
    BY <2>1, <2>3 DEF Wizard!OptionsFailed, WizTraces
  <2> QED BY <2>2, <2>3
<1> QED BY <1>1, <1>2 DEF WizHeld

LEMMA DecHeld ==
    ASSUME WizInv, WizHeld, Wizard!Dec
    PROVE  WizHeld'
<1>1. UNCHANGED <<wizard, confirmed, cart, writes, asked>>
  BY DEF Wizard!Dec
<1>2. traces'.taps = traces.taps
  BY DEF Wizard!Dec, WizInv, WizTypes, WizTraces
<1>3. DOMAIN dishes' \subseteq DOMAIN dishes
  <2>1. PICK sels : dishes' = Wizard!(-)(dishes, Wizard!SetToBag({sels}))
    BY DEF Wizard!Dec
  <2> QED BY <2>1 DEF Wizard!(-)
<1> QED BY <1>1, <1>2, <1>3 DEF WizHeld

LEMMA WritesHeld ==
    ASSUME WizInv, WizHeld, Cardinality(writes) < MaxWire, Wizard!Settle \/ Wizard!Esc
    PROVE  WizHeld'
<1>1. UNCHANGED <<dishes, confirmed, cart, asked>> /\ (wizard' = wizard \/ ~wizard'.open)
  BY DEF Wizard!Settle, Wizard!Esc, Wizard!Closed
<1>2. traces'.taps = traces.taps
  BY StrayTaps DEF Wizard!Settle, Wizard!Esc, WizInv, WizTypes
<1>3. writes' = writes \/ writes' = Wizard!Sent({})
  BY DEF Wizard!Settle, Wizard!Esc, Wizard!NoDraft
<1>4. WritesOK(writes')
  BY <1>3, SentHeld DEF WizHeld
<1>5. wizard'.open => Shaped(wizard')
  BY <1>1 DEF WizHeld
<1> QED BY <1>1, <1>2, <1>4, <1>5, HeldFrame

LEMMA ServedHeld ==
    ASSUME WizInv, WizHeld, NEW c \in writes, Wizard!Serve(c)
    PROVE  WizHeld'
<1>1. UNCHANGED <<wizard, dishes, confirmed, asked>>
  BY DEF Wizard!Serve
<1>2. traces'.taps = traces.taps
  BY DEF Wizard!Serve, WizInv, WizTypes, WizTraces
<1>3. DOMAIN c.lines \subseteq Wizard!Selections /\ IsWrite(c) /\ WritesOK(writes)
  BY DEF WizHeld, WritesOK, WizInv, WizTypes
<1>4. cart' = cart \/ cart'.lines = c.lines
  BY DEF Wizard!Serve
<1>5. PICK v : writes' = (writes \ {c}) \cup {v} /\ v.id = c.id /\ v.draft = c.draft /\ v.lines = c.lines
  <2>1. PICK ok, new : writes' = (writes \ {c}) \cup {[c EXCEPT !.state = ok, !.cart = new]} \/
                       writes' = (writes \ {c}) \cup {[c EXCEPT !.state = ok]}
    BY DEF Wizard!Serve
  <2> DEFINE u == [c EXCEPT !.state = ok, !.cart = new]  v == [c EXCEPT !.state = ok]
  <2>2. u.id = c.id /\ u.draft = c.draft /\ u.lines = c.lines
    BY <1>3 DEF IsWrite
  <2>3. v.id = c.id /\ v.draft = c.draft /\ v.lines = c.lines
    BY <1>3 DEF IsWrite
  <2>4. writes' = (writes \ {c}) \cup {u} \/ writes' = (writes \ {c}) \cup {v}
    BY <2>1
  <2> HIDE DEF u, v
  <2> QED BY <2>2, <2>3, <2>4
<1>6. WritesOK(writes')
  <2>1. c.draft \subseteq Wizard!Selections
    BY <1>3 DEF WritesOK
  <2> QED BY <1>3, <1>5, <2>1, NextHeld
<1> QED BY <1>1, <1>2, <1>3, <1>4, <1>6 DEF WizHeld

LEMMA ToggleHeld ==
    ASSUME WizInv, WizHeld, Cardinality(writes) < MaxWire, Wizard!Toggle
    PROVE  WizHeld'
<1>1. wizard.open /\ UNCHANGED <<dishes, confirmed, cart, asked>> /\ IsWizard(wizard) /\ Shaped(wizard)
  BY DEF Wizard!Toggle, WizHeld, Shaped
<1>2. traces'.taps = traces.taps
  <2>1. PICK t : t = Wizard!Stray(writes # {}) /\ traces' = [t EXCEPT !.toggles = @ + 1]
    BY DEF Wizard!Toggle
  <2>2. t \in WizTraces
    <3>1. (writes # {}) \in BOOLEAN /\ traces \in WizTraces
      BY DEF WizInv, WizTypes
    <3> QED BY <2>1, <3>1, StrayTyped
  <2>3. traces'.taps = t.taps
    BY <2>1, <2>2 DEF WizTraces
  <2> QED BY <2>1, <2>3, StrayTaps DEF WizInv, WizTypes
<1> DEFINE Toggles(g, c, w) ==
        /\ w = [wizard EXCEPT !.picked = Wizard!Toggled(wizard, g, c)]
        /\ IF Wizard!OnVariantPage(w) THEN wizard' = Wizard!EnterVariantPage(w) /\ writes' = Wizard!EnterAsks(w)
           ELSE wizard' = w /\ UNCHANGED writes
<1>3a. PICK g \in ToSet(wizard.page) : \E c \in ToSet(g) : \E w : Toggles(g, c, w)
  BY SameSequences DEF Wizard!Toggle
<1>3b. PICK c \in ToSet(g) : \E w : Toggles(g, c, w)
  BY <1>3a
<1>3. PICK w : Toggles(g, c, w)
  BY <1>3b
<1> DEFINE picked == Wizard!Toggled(wizard, g, c)
<1>4. picked \subseteq wizard.picked \cup {c}
  BY DEF Wizard!Toggled
<1>5. w = [wizard EXCEPT !.picked = picked]
  BY <1>3
<1> HIDE DEF picked
<1>6. IsWizard(w) /\ w.open /\ w.phase = wizard.phase /\ w.at = wizard.at /\ w.picked = picked
  BY <1>1, <1>5 DEF IsWizard, WizFields
<1>7. /\ w.pages = wizard.pages /\ w.shown = wizard.shown /\ w.found = wizard.found /\ w.crust = wizard.crust
      /\ w.page = wizard.page
  BY <1>1, <1>5 DEF IsWizard, WizFields
<1>8. w.todo = wizard.todo /\ w.stock = wizard.stock
  BY <1>1, <1>5 DEF IsWizard, WizFields
<1>9. c \in Wizard!Rows /\ (wizard.phase # "choosing" => c \in Wizard!Variants)
  <2>1. CASE wizard.phase = "choosing"
    <3>1. g \in ToSet(Required) \cup ToSet(Optional)
      BY <1>1, <2>1 DEF Shaped, Paged, ToSet
    <3>2. g \in Seq(Wizard!AddOns) /\ Wizard!AddOns \subseteq Wizard!Rows
      BY <3>1, GroupsGiven
    <3> QED BY <2>1, <3>2 DEF ToSet
  <2>2. CASE wizard.phase # "choosing"
    <3>1. g \in Seq(Wizard!Variants)
      BY <1>1, <2>2 DEF Shaped, Paged, ToSet
    <3> QED BY <3>1, GroupsGiven DEF ToSet
  <2> QED BY <2>1, <2>2
<1>10. Paged(w) /\ Candidates(w)
  BY <1>1, <1>4, <1>6, <1>7, <1>8, <1>9 DEF Shaped, Paged, Candidates
<1>11. CASE Wizard!OnVariantPage(w)
  <2>1. w.phase # "choosing"
    BY <1>10, <1>11 DEF Paged, Wizard!OnVariantPage
  <2>2. wizard' = Wizard!EnterVariantPage(w) /\ Shaped(wizard')
    BY <1>3, <1>6, <1>10, <1>11, <2>1, EnterShaped
  <2>3. writes' = writes \/ writes' = Wizard!Sent({Wizard!PriceQuestion(w)})
    BY <1>3, <1>11 DEF Wizard!EnterAsks
  <2>4. {Wizard!PriceQuestion(w)} \subseteq Wizard!Selections
    BY PricedVariants DEF Wizard!Selections
  <2>5. WritesOK(writes')
    BY <2>3, <2>4, SentHeld DEF WizHeld
  <2> QED BY <1>1, <1>2, <2>2, <2>5, HeldFrame
<1>12. CASE ~Wizard!OnVariantPage(w)
  <2>1. wizard' = w /\ writes' = writes
    BY <1>3, <1>12
  <2>2. Shaped(wizard')
    BY <1>6, <1>10, <2>1 DEF Shaped
  <2>3. WritesOK(writes')
    BY <2>1 DEF WizHeld
  <2> QED BY <1>1, <1>2, <2>2, <2>3, HeldFrame
<1> QED BY <1>11, <1>12

\* Enter on a variant page asks about the candidates of the next one.
LEMMA AdvanceHeld ==
    ASSUME WizInv, WizHeld, Cardinality(writes) < MaxWire, Wizard!Advance
    PROVE  WizHeld'
<1>1. /\ wizard.open /\ UNCHANGED <<dishes, confirmed, cart, asked>> /\ IsWizard(wizard) /\ Paged(wizard)
      /\ wizard.phase # "choosing"
  BY DEF Wizard!Advance, Wizard!OnVariantPage, WizHeld, Shaped, Paged
<1>2. traces'.taps = traces.taps
  BY StrayTaps DEF Wizard!Advance, WizInv, WizTypes
<1>3. writes' = Wizard!Sent({Wizard!Question(wizard')})
  BY DEF Wizard!Advance
<1>4. /\ IsWizard(wizard') /\ wizard'.open /\ Paged(wizard') /\ Candidates(wizard') /\ wizard'.at = 1
      /\ wizard'.phase \in {"scope", "crust"}
  <2>1. CASE wizard.shown < Len(VarGroups)
    <3> DEFINE g    == VarGroups[wizard.shown + 1]
               todo == Wizard!ByName(g)
               w    == [wizard EXCEPT !.phase = "scope", !.todo = todo, !.at = 1, !.found = <<>>, !.loading = TRUE]
    <3>1. wizard' = w
      BY <2>1 DEF Wizard!Advance
    <3>2. todo \in Seq(Wizard!Variants) /\ 1 \in 1..Len(todo)
      <4>1. g \in Seq(Wizard!Variants) /\ g # <<>>
        <5>1. wizard.shown + 1 \in 1..Len(VarGroups)
          BY <1>1, <2>1, GroupsGiven DEF Paged
        <5> HIDE DEF g
        <5>2. \A i \in 1..Len(VarGroups) : VarGroups[i] \in Seq(Wizard!Variants) \ {<<>>}
          BY GroupsGiven
        <5> QED BY <5>1, <5>2 DEF g
      <4> HIDE DEF g
      <4>2. todo \in Seq(Wizard!Variants) /\ ToSet(todo) = ToSet(g)
        BY <4>1, ByNameKeeps
      <4> HIDE DEF todo
      <4>3. 1 \in DOMAIN g
        BY <4>1
      <4>4. g[1] \in ToSet(g)
        BY <4>3 DEF ToSet
      <4>5. g[1] \in ToSet(todo)
        BY <4>2, <4>4
      <4> QED BY <4>2, <4>5 DEF ToSet
    <3> HIDE DEF todo
    <3>3. IsWizard(w) /\ w.open
      BY <1>1 DEF IsWizard, WizFields
    <3>4. w.phase = "scope" /\ w.todo = todo /\ w.at = 1 /\ w.found = <<>>
      BY <1>1 DEF IsWizard, WizFields
    <3>5. w.shown = wizard.shown /\ w.pages = wizard.pages /\ w.picked = wizard.picked
      BY <1>1 DEF IsWizard, WizFields
    <3>6. w.crust = wizard.crust /\ w.page = wizard.page
      BY <1>1 DEF IsWizard, WizFields
    <3> HIDE DEF w
    <3>7. Paged(w)
      BY <1>1, <3>4, <3>5, <3>6 DEF Paged, Wizard!Phases
    <3>8. Candidates(w)
      BY <2>1, <3>2, <3>4, <3>5 DEF Candidates
    <3> QED BY <3>1, <3>3, <3>4, <3>7, <3>8
  <2>2. CASE ~(wizard.shown < Len(VarGroups))
    <3> DEFINE todo == Wizard!TrialOrder(wizard)
               w    == [wizard EXCEPT !.phase = "crust", !.todo = todo, !.at = 1, !.crust = <<>>, !.loading = TRUE]
    <3>1. wizard' = w
      BY <2>2 DEF Wizard!Advance
    <3>2. todo \in Seq(ToSet(Required))
      BY TrialOrderKeeps
    <3> HIDE DEF todo
    <3>3. IsWizard(w) /\ w.open
      BY <1>1 DEF IsWizard, WizFields
    <3>4. w.phase = "crust" /\ w.todo = todo /\ w.at = 1 /\ w.crust = <<>>
      BY <1>1 DEF IsWizard, WizFields
    <3>5. w.shown = wizard.shown /\ w.pages = wizard.pages /\ w.picked = wizard.picked
      BY <1>1 DEF IsWizard, WizFields
    <3>6. w.found = wizard.found /\ w.page = wizard.page
      BY <1>1 DEF IsWizard, WizFields
    <3> HIDE DEF w
    <3>7. Paged(w)
      BY <1>1, <3>4, <3>5, <3>6 DEF Paged, Wizard!Phases
    <3>8. todo # <<>> => 1 <= Len(todo)
      BY <3>2
    <3>9. Candidates(w)
      BY <3>2, <3>4, <3>8 DEF Candidates
    <3> QED BY <3>1, <3>3, <3>4, <3>7, <3>9
  <2> QED BY <2>1, <2>2
<1>5. {Wizard!Question(wizard')} \subseteq Wizard!Selections
  BY <1>4, AsksRows DEF Shaped, Wizard!Selections
<1>6. WritesOK(writes')
  BY <1>3, <1>5, SentHeld
<1> QED BY <1>1, <1>2, <1>4, <1>6, HeldFrame DEF Shaped

LEMMA ConfirmHeld ==
    ASSUME WizInv, WizHeld, Cardinality(writes) < MaxWire, Wizard!Confirm
    PROVE  WizHeld'
<1>1. wizard.open /\ UNCHANGED <<dishes, confirmed, cart, asked>> /\ Shaped(wizard)
  BY DEF Wizard!Confirm, WizHeld
<1>2. traces'.taps = traces.taps
  BY StrayTaps DEF Wizard!Confirm, WizInv, WizTypes
<1>3. wizard' = [wizard EXCEPT !.loading = TRUE] /\ writes' = Wizard!Sent({wizard.picked})
  BY DEF Wizard!Confirm, Wizard!FullSelection
<1>4. Shaped(wizard')
  <2>1. IsWizard(wizard') /\ wizard'.open /\ wizard'.phase = wizard.phase
    BY <1>1, <1>3 DEF Shaped, IsWizard, WizFields
  <2>2. wizard'.todo = wizard.todo /\ wizard'.at = wizard.at /\ wizard'.found = wizard.found
    BY <1>1, <1>3 DEF Shaped, IsWizard, WizFields
  <2>3. wizard'.shown = wizard.shown /\ wizard'.pages = wizard.pages /\ wizard'.picked = wizard.picked
    BY <1>1, <1>3 DEF Shaped, IsWizard, WizFields
  <2>4. wizard'.crust = wizard.crust /\ wizard'.page = wizard.page /\ wizard'.stock = wizard.stock
    BY <1>1, <1>3 DEF Shaped, IsWizard, WizFields
  <2> QED BY <1>1, <2>1, <2>2, <2>3, <2>4 DEF Shaped, Paged, Candidates
<1>5. {wizard.picked} \subseteq Wizard!Selections
  BY <1>1 DEF Shaped, Paged, Wizard!Selections
<1>6. WritesOK(writes')
  BY <1>3, <1>5, SentHeld
<1> QED BY <1>1, <1>2, <1>4, <1>6, HeldFrame

\* A page that is entered may ask for its price.
LEMMA EnterHeld ==
    ASSUME WizHeld, Cardinality(writes) < MaxWire, NEW w
    PROVE  WritesOK(Wizard!EnterAsks(w))
<1>1. {Wizard!PriceQuestion(w)} \subseteq Wizard!Selections
  BY PricedVariants DEF Wizard!Selections
<1> QED BY <1>1, SentHeld DEF Wizard!EnterAsks, WizHeld

LEMMA OptionsHeld ==
    ASSUME WizInv, WizHeld, Cardinality(writes) < MaxWire, Wizard!OptionsLoaded
    PROVE  WizHeld'
<1>1. UNCHANGED <<dishes, confirmed, cart>>
  BY DEF Wizard!OptionsLoaded
<1>2. traces'.taps = traces.taps
  BY StrayTaps DEF Wizard!OptionsLoaded, WizInv, WizTypes
<1>3. PICK priced, w :
        /\ w = [Wizard!Opened(priced) EXCEPT !.picked = Wizard!Defaults(<<VarGroups[1]>>, {})]
        /\ wizard' = Wizard!EnterVariantPage(w) /\ writes' = Wizard!EnterAsks(w)
  BY DEF Wizard!OptionsLoaded
<1>4. IsWizard(w) /\ w.open /\ Paged(w) /\ w.phase = "pick"
  BY <1>3, OpenedShaped
<1>5. Shaped(wizard')
  BY <1>3, <1>4, EnterShaped
<1>6. WritesOK(writes')
  BY <1>3, EnterHeld
<1>7. asked' \in Nat /\ asked' <= traces'.taps /\ traces'.taps <= MaxTaps
  <2>1. asked > 0 /\ asked' = asked - 1
    BY DEF Wizard!OptionsLoaded
  <2>2. traces.taps \in Nat /\ MaxTaps \in Nat
    BY WizardAssumption DEF WizInv, WizTypes, WizTraces
  <2> QED BY <1>2, <2>1, <2>2 DEF WizHeld
<1> QED BY <1>1, <1>5, <1>6, <1>7 DEF WizHeld

-----------------------------------------------------------------------------
(* Answers                                                                   *)

LEMMA HeardHeld ==
    ASSUME WizHeld, UNCHANGED <<dishes, confirmed, cart, asked, traces>>,
           NEW c \in writes, Wizard!Heard(c, wizard'), Shaped(wizard')
    PROVE  WizHeld'
<1>1. WritesOK(writes')
  BY GoneHeld DEF WizHeld, Wizard!Heard
<1> QED BY <1>1, HeldFrame

LEMMA GoesHeld ==
    ASSUME WizHeld, UNCHANGED <<dishes, confirmed, cart, asked, traces>>,
           NEW c \in writes, Wizard!Goes(c, wizard'), Shaped(wizard'),
           wizard'.phase \in {"scope", "crust", "optional"}, wizard'.phase = "crust" => wizard'.at # 0
    PROVE  WizHeld'
<1>1. {Wizard!Question(wizard')} \subseteq Wizard!Selections
  BY AsksRows DEF Wizard!Selections
<1>2. WritesOK(writes')
  BY <1>1, AskedHeld DEF Wizard!Goes
<1> QED BY <1>2, HeldFrame

LEMMA PricedHeld ==
    ASSUME WizHeld, wizard.open, UNCHANGED <<dishes, confirmed, cart, asked, traces>>,
           NEW c \in writes, Wizard!Idle(c) \/ Wizard!Priced(c) \/ Wizard!Refused(c)
    PROVE  WizHeld'
<1>1. Shaped(wizard) /\ IsWizard(wizard)
  BY DEF WizHeld, Shaped
<1>2. Wizard!Heard(c, wizard')
  BY DEF Wizard!Idle, Wizard!Priced, Wizard!Refused, Wizard!Heard
<1>3. CASE Wizard!Idle(c)
  BY <1>1, <1>2, <1>3, HeardHeld DEF Wizard!Idle, Wizard!Heard
<1>4. CASE Wizard!Priced(c)
  <2>1. PICK stock, subtotal :
          wizard' = [wizard EXCEPT !.phase = "pick", !.loading = FALSE, !.stock = stock, !.subtotal = subtotal]
    BY <1>4 DEF Wizard!Priced, Wizard!Heard
  <2>2. IsWizard(wizard') /\ wizard'.open /\ wizard'.phase = "pick"
    BY <1>1, <2>1 DEF IsWizard, WizFields
  <2>3. wizard'.pages = wizard.pages /\ wizard'.shown = wizard.shown /\ wizard'.picked = wizard.picked
    BY <1>1, <2>1 DEF IsWizard, WizFields
  <2>4. wizard'.at = wizard.at /\ wizard'.found = wizard.found
    BY <1>1, <2>1 DEF IsWizard, WizFields
  <2>5. wizard'.crust = wizard.crust /\ wizard'.page = wizard.page
    BY <1>1, <2>1 DEF IsWizard, WizFields
  <2>6. wizard.phase = "pricing"
    BY <1>4 DEF Wizard!Priced
  <2>7. Shaped(wizard')
    BY <1>1, <2>2, <2>3, <2>4, <2>5, <2>6 DEF Shaped, Paged, Candidates, Wizard!Phases
  <2> QED BY <1>2, <2>7, HeardHeld
<1>5. CASE Wizard!Refused(c)
  <2>1. wizard' = [wizard EXCEPT !.loading = FALSE] /\ wizard.phase = "choosing"
    BY <1>5 DEF Wizard!Refused, Wizard!Heard
  <2>2. IsWizard(wizard') /\ wizard'.open /\ wizard'.phase = "choosing"
    BY <1>1, <2>1 DEF IsWizard, WizFields
  <2>3. wizard'.pages = wizard.pages /\ wizard'.shown = wizard.shown /\ wizard'.picked = wizard.picked
    BY <1>1, <2>1 DEF IsWizard, WizFields
  <2>4. wizard'.at = wizard.at /\ wizard'.found = wizard.found
    BY <1>1, <2>1 DEF IsWizard, WizFields
  <2>5. wizard'.crust = wizard.crust /\ wizard'.page = wizard.page
    BY <1>1, <2>1 DEF IsWizard, WizFields
  <2>6. Shaped(wizard')
    BY <1>1, <2>1, <2>2, <2>3, <2>4, <2>5 DEF Shaped, Paged, Candidates
  <2> QED BY <1>2, <2>6, HeardHeld
<1> QED BY <1>3, <1>4, <1>5

\* The answer about a choice of the next variant group.
LEMMA ScopedHeld ==
    ASSUME WizHeld, wizard.open, UNCHANGED <<dishes, confirmed, cart, asked, traces>>,
           NEW c \in writes, Wizard!Scoped(c)
    PROVE  WizHeld'
<1>1. /\ IsWizard(wizard) /\ Paged(wizard) /\ wizard.phase = "scope"
      /\ wizard.shown < Len(VarGroups) /\ wizard.todo \in Seq(Wizard!Variants)
      /\ wizard.at \in 1..Len(wizard.todo) /\ wizard.found \in Seq(Wizard!Variants)
  BY DEF WizHeld, Shaped, Candidates, Wizard!Scoped
<1> DEFINE Scopes(found, stock, w, left) ==
        /\ found \in {wizard.found, Append(wizard.found, wizard.todo[wizard.at])}
        /\ left \subseteq DOMAIN wizard.todo
        /\ w = [wizard EXCEPT !.found = found, !.stock = stock]
        /\ \/ /\ left # {}
              /\ Wizard!Goes(c, [w EXCEPT !.at = CHOOSE i \in left : \A j \in left : i <= j])
           \/ \E new : /\ new = [Wizard!AddPage(w, <<found>>, {}) EXCEPT !.shown = @ + 1]
                       /\ wizard' = Wizard!EnterVariantPage(new)
                       /\ writes' = (writes \ {c}) \cup
                            IF Wizard!Asks(new) THEN {Wizard!Write(c.id, dishes, {Wizard!PriceQuestion(new)})} ELSE {}
<1>2. PICK found, stock, w, left : Scopes(found, stock, w, left)
  <2> DEFINE v == wizard.todo[wizard.at]
             known == {NameOf[x] : x \in Wizard!ToSet(wizard.found)}
             f == IF Wizard!Told(c) /\ NameOf[v] \notin known THEN Append(wizard.found, v) ELSE wizard.found
             s == wizard.stock \/ Wizard!Told(c)
             names == {NameOf[x] : x \in Wizard!ToSet(f)}
             l == {i \in DOMAIN wizard.todo : i > wizard.at /\ NameOf[wizard.todo[i]] \notin names}
             u == [wizard EXCEPT !.found = f, !.stock = s]
             n == [Wizard!AddPage(u, <<f>>, {}) EXCEPT !.shown = @ + 1]
  <2>1. IF l # {} THEN Wizard!Goes(c, [u EXCEPT !.at = CHOOSE i \in l : \A j \in l : i <= j])
        ELSE /\ wizard' = Wizard!EnterVariantPage(n)
             /\ writes' = (writes \ {c}) \cup
                   IF Wizard!Asks(n) THEN {Wizard!Write(c.id, dishes, {Wizard!PriceQuestion(n)})} ELSE {}
    BY Zenon DEF Wizard!Scoped
  <2>2. f \in {wizard.found, Append(wizard.found, wizard.todo[wizard.at])} /\ l \subseteq DOMAIN wizard.todo
    OBVIOUS
  <2>3. Scopes(f, s, u, l)
    <3> HIDE DEF f, s, l
    <3> QED BY <2>1, <2>2
  <2> HIDE DEF Scopes, f, s, l, u
  <2> QED BY <2>3
<1>3. found \in Seq(Wizard!Variants)
  <2>1. wizard.todo[wizard.at] \in Wizard!Variants
    BY <1>1
  <2>2. found \in {wizard.found, Append(wizard.found, wizard.todo[wizard.at])}
    BY <1>2
  <2> HIDE DEF Scopes
  <2> QED BY <1>1, <2>1, <2>2
<1>4. IsWizard(w) /\ w.open /\ w.phase = "scope" /\ w.found = found
  BY <1>1, <1>2 DEF IsWizard, WizFields
<1>5. w.pages = wizard.pages /\ w.shown = wizard.shown /\ w.picked = wizard.picked
  BY <1>1, <1>2 DEF IsWizard, WizFields
<1>6. w.crust = wizard.crust /\ w.page = wizard.page /\ w.todo = wizard.todo
  BY <1>1, <1>2 DEF IsWizard, WizFields
<1>7. ASSUME left # {}, Wizard!Goes(c, [w EXCEPT !.at = CHOOSE i \in left : \A j \in left : i <= j])
      PROVE  WizHeld'
  <2> DEFINE at == CHOOSE i \in left : \A j \in left : i <= j
  <2>1. at \in 1..Len(wizard.todo)
    <3>1. left \subseteq Nat
      BY <1>1, <1>2
    <3>2. at \in left
      BY <1>7, <3>1, LeastNumber
    <3> HIDE DEF at
    <3> QED BY <1>1, <1>2, <3>2
  <2>2. wizard' = [w EXCEPT !.at = at] /\ Wizard!Goes(c, wizard')
    BY <1>7 DEF Wizard!Goes
  <2> HIDE DEF at
  <2>3. IsWizard(wizard') /\ wizard'.open /\ wizard'.phase = "scope" /\ wizard'.at = at /\ wizard'.found = found
    BY <1>4, <2>2 DEF IsWizard, WizFields
  <2>4. wizard'.pages = wizard.pages /\ wizard'.shown = wizard.shown /\ wizard'.picked = wizard.picked
    BY <1>4, <1>5, <2>2 DEF IsWizard, WizFields
  <2>5. wizard'.crust = wizard.crust /\ wizard'.page = wizard.page /\ wizard'.todo = wizard.todo
    BY <1>4, <1>6, <2>2 DEF IsWizard, WizFields
  <2>6. Paged(wizard')
    <3>1. found \in Seq(Wizard!Rows \cup ToSet(Optional))
      BY <1>3, GroupsGiven
    <3> QED BY <1>1, <2>1, <2>3, <2>4, <2>5, <3>1 DEF Paged
  <2>7. Candidates(wizard')
    BY <1>1, <1>3, <2>1, <2>3, <2>4, <2>5 DEF Candidates
  <2> QED BY <2>2, <2>3, <2>6, <2>7, GoesHeld DEF Shaped
<1>8. ASSUME NEW new, new = [Wizard!AddPage(w, <<found>>, {}) EXCEPT !.shown = @ + 1],
             wizard' = Wizard!EnterVariantPage(new),
             writes' = (writes \ {c}) \cup
                IF Wizard!Asks(new) THEN {Wizard!Write(c.id, dishes, {Wizard!PriceQuestion(new)})} ELSE {}
      PROVE  WizHeld'
  <2> DEFINE page == <<found>>
             picked == Wizard!Defaults(page, {})
  <2>1. page \in Seq(Seq(Wizard!Variants)) /\ \A g \in ToSet(page) : g \in Seq(Wizard!Variants)
    BY <1>3 DEF ToSet
  <2>2. picked \subseteq Wizard!Variants
    <3> HIDE DEF page
    <3> QED BY <2>1, DefaultsAreOf
  <2>3. new = [[w EXCEPT !.page = page, !.out = {}, !.pages = @ + 1, !.picked = @ \cup picked, !.loading = FALSE]
                 EXCEPT !.shown = @ + 1]
    BY <1>8 DEF Wizard!AddPage
  <2> HIDE DEF page, picked
  <2>4. IsWizard(new) /\ new.open
    BY <1>4, <2>3 DEF IsWizard, WizFields
  <2>5. new.phase = "scope" /\ new.found = found /\ new.page = page
    BY <1>4, <2>3 DEF IsWizard, WizFields
  <2>6. new.pages = w.pages + 1 /\ new.shown = w.shown + 1 /\ new.picked = w.picked \cup picked
    BY <1>4, <2>3 DEF IsWizard, WizFields
  <2>7. new.crust = w.crust /\ new.at = wizard.at
    <3>1. w.at = wizard.at
      BY <1>1, <1>2 DEF IsWizard, WizFields
    <3> QED BY <1>4, <2>3, <3>1 DEF IsWizard, WizFields
  <2>8. Paged(new)
    <3>1. found \in Seq(Wizard!Rows \cup ToSet(Optional)) /\ new.picked \subseteq Wizard!Variants
          /\ new.picked \subseteq Wizard!Rows
      BY <1>1, <1>3, <1>5, <2>2, <2>6, GroupsGiven DEF Paged
    <3>2. new.shown \in 1..Len(VarGroups) /\ new.pages = new.shown
      BY <1>1, <1>5, <2>6, GroupsGiven DEF Paged
    <3> QED BY <1>1, <1>6, <2>1, <2>5, <2>7, <3>1, <3>2 DEF Paged
  <2>9. Shaped(wizard')
    BY <1>8, <2>4, <2>5, <2>8, EnterShaped
  <2>10. WritesOK(writes')
    <3>1. {Wizard!PriceQuestion(new)} \subseteq Wizard!Selections
      BY PricedVariants DEF Wizard!Selections
    <3>2. CASE Wizard!Asks(new)
      <4>1. writes' = (writes \ {c}) \cup {Wizard!Write(c.id, dishes, {Wizard!PriceQuestion(new)})}
        BY <1>8, <3>2
      <4> QED BY <3>1, <4>1, AskedHeld
    <3>3. CASE ~Wizard!Asks(new)
      <4>1. writes' = writes \ {c}
        BY <1>8, <3>3
      <4> QED BY <4>1, GoneHeld DEF WizHeld
    <3> QED BY <3>2, <3>3
  <2> QED BY <2>9, <2>10, HeldFrame
<1> QED BY <1>2, <1>7, <1>8

\* The answer about a required group.
LEMMA TriedHeld ==
    ASSUME WizHeld, wizard.open, UNCHANGED <<dishes, confirmed, cart, asked, traces>>,
           NEW c \in writes, Wizard!Tried(c)
    PROVE  WizHeld'
<1>1. /\ IsWizard(wizard) /\ Paged(wizard) /\ wizard.phase = "crust" /\ wizard.todo \in Seq(ToSet(Required))
      /\ (wizard.todo # <<>> => wizard.at <= Len(wizard.todo)) /\ wizard.at \in Nat
  BY DEF WizHeld, Shaped, Candidates, Wizard!Tried, Paged
<1>2. CASE Wizard!Told(c)
  <2> DEFINE crust == IF wizard.todo = <<>> THEN <<>> ELSE wizard.todo[wizard.at]
             w     == [wizard EXCEPT !.stock = TRUE, !.crust = crust]
             next  == Wizard!BeginOptional(w)
  <2>1. crust \in ToSet(Required) \cup {<<>>}
    BY <1>1, <1>2 DEF Wizard!Tried, Wizard!Beyond
  <2> HIDE DEF crust
  <2>2. IsWizard(w) /\ w.open /\ w.phase = "crust" /\ w.stock = TRUE
    BY <1>1 DEF IsWizard, WizFields
  <2>3. w.pages = wizard.pages /\ w.shown = wizard.shown /\ w.picked = wizard.picked
    BY <1>1 DEF IsWizard, WizFields
  <2>4. w.at = wizard.at /\ w.found = wizard.found /\ w.page = wizard.page /\ w.crust = crust
    BY <1>1 DEF IsWizard, WizFields
  <2>5. IF next.phase = "optional" THEN Wizard!Goes(c, next) ELSE Wizard!Heard(c, next)
    BY <1>2 DEF Wizard!Tried, crust
  <2> HIDE DEF w
  <2>6. Paged(w)
    BY <1>1, <2>1, <2>2, <2>3, <2>4 DEF Paged
  <2>7. Shaped(next)
    BY <2>2, <2>6, OptionalShaped
  <2> HIDE DEF next
  <2>8. wizard' = next
    BY <2>5 DEF Wizard!Goes, Wizard!Heard
  <2>9. CASE next.phase = "optional"
    BY <2>5, <2>7, <2>8, <2>9, GoesHeld
  <2>10. CASE next.phase # "optional"
    BY <2>5, <2>7, <2>8, <2>10, HeardHeld
  <2> QED BY <2>9, <2>10
<1>3. CASE ~Wizard!Told(c) /\ wizard.at # 0 /\ wizard.at < Len(wizard.todo)
  <2>1. wizard' = [wizard EXCEPT !.at = wizard.at + 1] /\ Wizard!Goes(c, wizard')
    BY <1>3 DEF Wizard!Tried, Wizard!Goes
  <2>2. IsWizard(wizard') /\ wizard'.open /\ wizard'.phase = "crust" /\ wizard'.at = wizard.at + 1
    BY <1>1, <2>1 DEF IsWizard, WizFields
  <2>3. wizard'.pages = wizard.pages /\ wizard'.shown = wizard.shown /\ wizard'.picked = wizard.picked
    BY <1>1, <2>1 DEF IsWizard, WizFields
  <2>4. wizard'.crust = wizard.crust /\ wizard'.found = wizard.found /\ wizard'.page = wizard.page
    BY <1>1, <2>1 DEF IsWizard, WizFields
  <2>5. wizard'.todo = wizard.todo
    BY <1>1, <2>1 DEF IsWizard, WizFields
  <2>6. Paged(wizard')
    BY <1>1, <2>2, <2>3, <2>4 DEF Paged
  <2>7. Candidates(wizard')
    BY <1>1, <1>3, <2>2, <2>5 DEF Candidates
  <2>8. wizard'.at # 0
    BY <1>1, <2>2
  <2> QED BY <2>1, <2>2, <2>6, <2>7, <2>8, GoesHeld DEF Shaped
<1>4. CASE ~Wizard!Told(c) /\ ~(wizard.at # 0 /\ wizard.at < Len(wizard.todo))
  <2>1. wizard' = [wizard EXCEPT !.at = 0, !.loading = FALSE] /\ Wizard!Heard(c, wizard')
    BY <1>4 DEF Wizard!Tried, Wizard!Heard, Wizard!Exhausted
  <2>2. IsWizard(wizard') /\ wizard'.open /\ wizard'.phase = "crust" /\ wizard'.at = 0
    BY <1>1, <2>1 DEF IsWizard, WizFields
  <2>3. wizard'.pages = wizard.pages /\ wizard'.shown = wizard.shown /\ wizard'.picked = wizard.picked
    BY <1>1, <2>1 DEF IsWizard, WizFields
  <2>4. wizard'.crust = wizard.crust /\ wizard'.found = wizard.found /\ wizard'.page = wizard.page
    BY <1>1, <2>1 DEF IsWizard, WizFields
  <2>5. wizard'.todo = wizard.todo
    BY <1>1, <2>1 DEF IsWizard, WizFields
  <2>6. Paged(wizard')
    BY <1>1, <2>2, <2>3, <2>4 DEF Paged
  <2>7. Candidates(wizard')
    BY <1>1, <2>2, <2>5 DEF Candidates
  <2> QED BY <2>1, <2>2, <2>6, <2>7, HeardHeld DEF Shaped
<1> QED BY <1>2, <1>3, <1>4

\* The answer about an optional group.
LEMMA OfferedHeld ==
    ASSUME WizHeld, wizard.open, UNCHANGED <<dishes, confirmed, cart, asked, traces>>,
           NEW c \in writes, Wizard!Offered(c)
    PROVE  WizHeld'
<1>1. /\ IsWizard(wizard) /\ Paged(wizard) /\ wizard.phase = "optional" /\ wizard.stock = TRUE
      /\ wizard.todo \in Seq(Stocked) /\ wizard.at \in 1..Len(wizard.todo) /\ wizard.found \in Seq(ToSet(Optional))
  BY DEF WizHeld, Shaped, Candidates, Wizard!Offered
<1> DEFINE Offers(found, w) ==
        /\ found \in {wizard.found, Append(wizard.found, wizard.todo[wizard.at])}
        /\ w = [wizard EXCEPT !.found = found]
        /\ IF wizard.at < Len(wizard.todo) THEN Wizard!Goes(c, [w EXCEPT !.at = @ + 1])
           ELSE Wizard!Heard(c, Wizard!Finish(w))
<1>2. PICK found, w : Offers(found, w)
  <2> DEFINE f == IF Wizard!Keeps(c) THEN Append(wizard.found, wizard.todo[wizard.at]) ELSE wizard.found
             u == [wizard EXCEPT !.found = f]
  <2>1. f \in {wizard.found, Append(wizard.found, wizard.todo[wizard.at])}
    OBVIOUS
  <2>2. IF wizard.at < Len(wizard.todo) THEN Wizard!Goes(c, [u EXCEPT !.at = @ + 1])
           ELSE Wizard!Heard(c, Wizard!Finish(u))
    BY Zenon DEF Wizard!Offered
  <2>3. Offers(f, u)
    <3> HIDE DEF f
    <3> QED BY <2>1, <2>2
  <2> HIDE DEF Offers, f, u
  <2> QED BY <2>3
<1>3. found \in Seq(ToSet(Optional)) /\ found \in Seq(Wizard!Rows \cup ToSet(Optional))
  <2>1. wizard.todo[wizard.at] \in ToSet(Optional)
    <3>1. wizard.todo[wizard.at] \in Stocked
      BY <1>1
    <3> QED BY <3>1 DEF Stocked
  <2>2. found \in Seq(ToSet(Optional))
    <3>1. found \in {wizard.found, Append(wizard.found, wizard.todo[wizard.at])}
      BY <1>2
    <3> HIDE DEF Offers
    <3>2. wizard.found \in Seq(ToSet(Optional))
      BY <1>1
    <3> DEFINE g == wizard.todo[wizard.at]  S == ToSet(Optional)
    <3>3. g \in S
      BY <2>1
    <3> HIDE DEF g, S
    <3>4. Append(wizard.found, g) \in Seq(S)
      BY <3>2, <3>3 DEF S
    <3> QED BY <3>1, <3>2, <3>4 DEF g, S
  <2>3. found \in Seq(Wizard!Rows \cup ToSet(Optional))
    BY <2>2
  <2> QED BY <2>2, <2>3
<1>4. IsWizard(w) /\ w.open /\ w.phase = "optional" /\ w.found = found
  BY <1>1, <1>2 DEF IsWizard, WizFields
<1>5. w.pages = wizard.pages /\ w.shown = wizard.shown /\ w.picked = wizard.picked
  BY <1>1, <1>2 DEF IsWizard, WizFields
<1>6. w.crust = wizard.crust /\ w.page = wizard.page /\ w.todo = wizard.todo
  BY <1>1, <1>2 DEF IsWizard, WizFields
<1>7. w.at = wizard.at /\ w.stock = wizard.stock
  BY <1>1, <1>2 DEF IsWizard, WizFields
<1>8. Paged(w)
  BY <1>1, <1>3, <1>4, <1>5, <1>6, <1>7 DEF Paged
<1>9. CASE wizard.at < Len(wizard.todo)
  <2>1. wizard' = [w EXCEPT !.at = w.at + 1] /\ Wizard!Goes(c, wizard')
    BY <1>2, <1>9 DEF Wizard!Goes
  <2>2. IsWizard(wizard') /\ wizard'.open /\ wizard'.phase = "optional" /\ wizard'.at = wizard.at + 1
    BY <1>4, <1>7, <2>1 DEF IsWizard, WizFields
  <2>3. wizard'.pages = w.pages /\ wizard'.shown = w.shown /\ wizard'.picked = w.picked
    BY <1>4, <2>1 DEF IsWizard, WizFields
  <2>4. wizard'.crust = w.crust /\ wizard'.found = found /\ wizard'.page = w.page
    BY <1>4, <2>1 DEF IsWizard, WizFields
  <2>5. wizard'.todo = wizard.todo /\ wizard'.stock = TRUE
    BY <1>1, <1>4, <1>6, <1>7, <2>1 DEF IsWizard, WizFields
  <2>6. Paged(wizard')
    BY <1>1, <1>4, <1>8, <2>2, <2>3, <2>4 DEF Paged
  <2>7. Candidates(wizard')
    BY <1>1, <1>3, <1>9, <2>2, <2>4, <2>5 DEF Candidates
  <2> QED BY <2>1, <2>2, <2>6, <2>7, GoesHeld DEF Shaped
<1>10. CASE ~(wizard.at < Len(wizard.todo))
  <2>1. wizard' = Wizard!Finish(w) /\ Wizard!Heard(c, wizard')
    BY <1>2, <1>10 DEF Wizard!Heard
  <2>2. Shaped(wizard')
    BY <1>3, <1>4, <1>8, <2>1, FinishShaped
  <2> QED BY <2>1, <2>2, HeardHeld
<1> QED BY <1>9, <1>10

LEMMA AddedHeld ==
    ASSUME WizHeld, wizard.open, UNCHANGED <<cart, asked, traces>>, NEW c \in writes, Wizard!Added(c)
    PROVE  WizHeld'
<1>1. ~wizard'.open /\ writes' = writes \ {c} /\ confirmed' = dishes'
  BY DEF Wizard!Added, Wizard!Heard, Wizard!Closed
<1>2. DOMAIN dishes' \subseteq Wizard!Selections
  <2>1. DOMAIN dishes' = DOMAIN dishes \cup {wizard.picked}
    BY DEF Wizard!Added, Wizard!(+), Wizard!SetToBag
  <2>2. wizard.picked \in Wizard!Selections
    BY DEF WizHeld, Shaped, Paged, Wizard!Selections
  <2> QED BY <2>1, <2>2 DEF WizHeld
<1>3. WritesOK(writes')
  BY <1>1, GoneHeld DEF WizHeld
<1> QED BY <1>1, <1>2, <1>3 DEF WizHeld

LEMMA AnswerHeld ==
    ASSUME WizHeld, NEW c \in writes, Wizard!WizardAnswer(c)
    PROVE  WizHeld'
<1>1. wizard.open /\ UNCHANGED <<cart, asked, traces>>
  BY DEF Wizard!WizardAnswer
<1>2. CASE Wizard!Added(c)
  BY <1>1, <1>2, AddedHeld
<1>3. CASE UNCHANGED <<dishes, confirmed>>
  BY <1>1, <1>2, <1>3, PricedHeld, ScopedHeld, TriedHeld, OfferedHeld DEF Wizard!WizardAnswer
<1> QED BY <1>2, <1>3 DEF Wizard!WizardAnswer

\* The program that has ended holds nothing.
LEMMA PanicHeld ==
    ASSUME WizInv, WizHeld, NEW c \in writes, Wizard!Panic(c)
    PROVE  WizHeld'
<1>1. ~wizard'.open /\ writes' = {} /\ asked' = 0 /\ UNCHANGED <<cart, traces>>
  BY DEF Wizard!Panic, Wizard!Closed
<1>2. DOMAIN dishes' = {} /\ DOMAIN confirmed' = {}
  BY DEF Wizard!Panic, Wizard!EmptyBag, Wizard!SetToBag
<1>3. WritesOK(writes')
  BY <1>1, FS_EmptySet DEF WritesOK
<1>4. traces.taps \in Nat
  BY DEF WizInv, WizTypes, WizTraces
<1> QED BY <1>1, <1>2, <1>3, <1>4 DEF WizHeld

LEMMA SyncedHeld ==
    ASSUME WizHeld, NEW c \in writes, Wizard!Synced(c)
    PROVE  WizHeld'
<1>1. ~wizard.open /\ writes' = writes \ {c} /\ UNCHANGED <<wizard, cart, asked, traces>>
      /\ dishes' \in {dishes, confirmed} /\ confirmed' \in {dishes, confirmed}
  BY DEF Wizard!Synced
<1>2. WritesOK(writes')
  BY <1>1, GoneHeld DEF WizHeld
<1> QED BY <1>1, <1>2 DEF WizHeld

-----------------------------------------------------------------------------

LEMMA HeldNext == WizInv /\ WizHeld /\ [Wizard!Next]_wizVars => WizHeld'
<1> SUFFICES ASSUME WizInv, WizHeld, [Wizard!Next]_wizVars PROVE WizHeld'
  OBVIOUS
<1>1. CASE UNCHANGED wizVars
  <2>1. UNCHANGED <<wizard, dishes, confirmed, writes, asked, cart, traces>>
    BY <1>1 DEF wizVars
  <2>2. (wizard'.open => Shaped(wizard')) /\ WritesOK(writes')
    BY <2>1 DEF WizHeld
  <2> QED BY <2>1, <2>2, HeldFrame
<1>2. CASE Wizard!Next
  <2>1. Wizard!Cardinality(writes) = Cardinality(writes)
    BY DEF Wizard!Cardinality, Cardinality
  <2> QED BY <1>2, <2>1, WritesHeld, ToggleHeld, AdvanceHeld, ConfirmHeld, OptionsHeld, TapHeld, DecHeld,
     ServedHeld, AnswerHeld, PanicHeld, SyncedHeld DEF Wizard!Next
<1> QED BY <1>1, <1>2

LEMMA HeldInit == Wizard!Init => WizHeld
<1> SUFFICES ASSUME Wizard!Init PROVE WizHeld
  OBVIOUS
<1>1. ~wizard.open /\ writes = {} /\ asked = 0 /\ traces.taps = 0
  BY DEF Wizard!Init, Wizard!Closed
<1>2. DOMAIN dishes = {} /\ DOMAIN confirmed = {} /\ DOMAIN cart.lines = {}
  BY DEF Wizard!Init, Wizard!EmptyBag, Wizard!SetToBag
<1>3. WritesOK(writes)
  BY <1>1, FS_EmptySet DEF WritesOK
<1>4. MaxTaps \in Nat
  BY WizardAssumption
<1> QED BY <1>1, <1>2, <1>3, <1>4 DEF WizHeld

LEMMA WizardHeld == OrdersSpec => [](WizInv /\ WizHeld)
<1>1. OrdersInit => WizHeld
  BY HeldInit DEF OrdersInit
<1>2. WizInv /\ WizHeld /\ [OrdersNext]_<<focus, vars, shopVars, wizVars, cliVars>> => WizHeld'
  <2> SUFFICES ASSUME WizInv, WizHeld, [OrdersNext]_<<focus, vars, shopVars, wizVars, cliVars>> PROVE WizHeld'
    OBVIOUS
  <2>1. [Wizard!Next]_wizVars
    BY DEF OrdersNext
  <2> QED BY <2>1, HeldNext
<1> QED BY <1>1, <1>2, WizardAlways, PTL DEF OrdersSpec

LEMMA WizardTyped == WizInv /\ WizHeld => Wizard!WizTypeOK
<1> SUFFICES ASSUME WizInv, WizHeld PROVE Wizard!WizTypeOK
  OBVIOUS
<1>1. ASSUME wizard.open
      PROVE  /\ wizard.phase \in Wizard!Phases /\ wizard.picked \in Wizard!Selections
             /\ wizard.shown \in 1..Len(VarGroups) /\ wizard.pages \in wizard.shown..(wizard.shown + 1)
             /\ wizard.at \in Nat /\ Wizard!ToSet(wizard.found) \subseteq Wizard!Rows \cup Wizard!ToSet(Optional)
  <2>1. Paged(wizard)
    BY <1>1 DEF WizHeld, Shaped
  <2>2. wizard.pages \in wizard.shown..(wizard.shown + 1)
    BY <2>1, GroupsGiven DEF Paged
  <2>3. ToSet(wizard.found) \subseteq Wizard!Rows \cup ToSet(Optional)
    <3> DEFINE S == Wizard!Rows \cup ToSet(Optional)
    <3>1. wizard.found \in Seq(S)
      BY <2>1 DEF Paged
    <3> HIDE DEF S
    <3>2. ToSet(wizard.found) \subseteq S
      BY <3>1 DEF ToSet
    <3> QED BY <3>2 DEF S
  <2> QED BY <2>1, <2>2, <2>3, SameSequences DEF Paged, Wizard!Selections
<1>2. asked \in 0..MaxTaps
  BY WizardAssumption DEF WizHeld, WizInv, WizTypes, WizTraces
<1>3. \A c \in writes : c.id \in 1..(MaxWire + 1) /\ c.draft \subseteq Wizard!Selections /\ c.state \in {"sent", "ok", "error"}
  BY DEF WizHeld, WritesOK, WizInv, WizTypes, IsWrite
<1>4. flags \in [pending : BOOLEAN, inFlight : BOOLEAN]
  BY DEF WizInv, WizTypes
<1>5. \A c, d \in writes : c.id = d.id => c = d
  BY DEF WizHeld, WritesOK
<1>6. DOMAIN dishes \subseteq Wizard!Selections /\ DOMAIN confirmed \subseteq Wizard!Selections
      /\ DOMAIN cart.lines \subseteq Wizard!Selections
  BY DEF WizHeld
<1> QED BY <1>1, <1>2, <1>3, <1>4, <1>5, <1>6 DEF Wizard!WizTypeOK

-----------------------------------------------------------------------------
(* What the add-on page shows                                                *)

FitsWith(g, sels) == Wizard!HasStock(g, Gone) /\ Wizard!Accepts(sels \cup {Wizard!FirstIn(g, Gone)})
OrCrust(w) == IF w.crust = <<>> THEN {} ELSE {Wizard!FirstIn(w.crust, {})}

\* What Swiggy has said of a draft is so.
Truthful ==
    \A c \in writes : /\ c.state = "ok" => \A sels \in c.draft : Wizard!Accepts(sels)
                      /\ c.state = "error" => \E sels \in c.draft : ~Wizard!Accepts(sels)
\* The groups that are found fit, and none that fits has been passed over.
Offering(w) ==
    /\ w.crust = <<>> \/ Wizard!Accepts(w.picked \cup OrCrust(w))
    /\ \A g \in ToSet(w.found) : FitsWith(g, w.picked \cup OrCrust(w))
    /\ Stocked \subseteq ToSet(w.todo)
    /\ \A i \in 1..(w.at - 1) : w.todo[i] \in ToSet(w.found) \/ ~FitsWith(w.todo[i], w.picked \cup OrCrust(w))
PageIsFit(w) ==
    /\ \A g \in ToSet(w.page) : FitsWith(g, w.picked \cap Wizard!Variants)
    /\ \A g \in ToSet(Optional) \ ToSet(w.page) : ~FitsWith(g, (w.picked \cap Wizard!Variants) \cup OrCrust(w))
Fitting(w, W) ==
    /\ w.phase \in {"crust", "optional"} => \A c \in W : c.draft = {Wizard!Question(w)}
    /\ w.phase = "optional" => Offering(w)
    /\ w.phase = "choosing" => PageIsFit(w)

Undisturbed == ~traces.stray /\ traces.faults = 0
FitInv ==
    /\ traces.faults = 0 => Truthful
    /\ wizard.open /\ Undisturbed => Fitting(wizard, writes)

\* What Swiggy accepts, it accepts a part of.
LEMMA AcceptsLess ==
    ASSUME NEW sels, NEW part, part \subseteq sels, Wizard!Accepts(sels)
    PROVE  Wizard!Accepts(part)
<1> QED BY DEF Wizard!Accepts

LEMMA FitsLess ==
    ASSUME NEW g, NEW sels, NEW part, part \subseteq sels, FitsWith(g, sels)
    PROVE  FitsWith(g, part)
<1>1. part \cup {Wizard!FirstIn(g, Gone)} \subseteq sels \cup {Wizard!FirstIn(g, Gone)}
  OBVIOUS
<1> QED BY <1>1, AcceptsLess DEF FitsWith

\* A required group that was accepted with the variants fits them.
LEMMA CrustFits ==
    ASSUME NEW w, w.crust \in ToSet(Required), Wizard!Accepts(w.picked \cup OrCrust(w))
    PROVE  FitsWith(w.crust, w.picked)
<1> DEFINE g == w.crust
<1>1. w.crust # <<>>
  BY GroupsGiven
<1>2. Wizard!FirstIn(g, {}) = g[1]
  <2>1. g[1] \notin {}
    OBVIOUS
  <2> QED BY <2>1, FirstAdded
<1>3. OrCrust(w) = {g[1]}
  BY <1>1, <1>2 DEF OrCrust
<1>4. g[1] \notin Gone
  BY <1>3 DEF Wizard!Accepts
<1>5. Wizard!FirstIn(g, Gone) = g[1] /\ Wizard!HasStock(g, Gone)
  BY <1>4, FirstAdded
<1> QED BY <1>3, <1>5 DEF FitsWith

-----------------------------------------------------------------------------
(* What Swiggy has said                                                      *)

LEMMA TruthStays ==
    ASSUME traces'.faults = traces.faults, FitInv,
           \A c \in writes' : c \in writes \/ c.state = "sent"
    PROVE  traces'.faults = 0 => Truthful'
<1> QED BY DEF FitInv, Truthful

LEMMA TruthServed ==
    ASSUME WizInv, FitInv, NEW c \in writes, Wizard!Serve(c)
    PROVE  traces'.faults = 0 => Truthful'
<1> SUFFICES ASSUME traces'.faults = 0 PROVE Truthful'
  OBVIOUS
<1> DEFINE good == \A sels \in c.draft : Wizard!Accepts(sels)
<1>1. UNCHANGED traces /\ IsWrite(c)
  <2>1. traces.faults \in Nat /\ traces \in WizTraces
    BY DEF WizInv, WizTypes, WizTraces
  <2>2. traces' = [traces EXCEPT !.faults = @ + 1] => traces'.faults = traces.faults + 1
    BY <2>1 DEF WizTraces
  <2> QED BY <2>1, <2>2 DEF Wizard!Serve, WizInv, WizTypes
<1>2. traces.faults = 0 /\ Truthful
  BY <1>1 DEF FitInv
<1>3. PICK d : writes' = (writes \ {c}) \cup {d} /\ d.draft = c.draft
               /\ ((d.state = "ok" /\ good) \/ (d.state = "error" /\ ~good))
  <2>1. traces' # [traces EXCEPT !.faults = @ + 1]
    <3>1. traces.faults + 1 # traces.faults
      BY <1>2
    <3>2. [traces EXCEPT !.faults = @ + 1].faults = traces.faults + 1
      BY DEF WizInv, WizTypes, WizTraces
    <3> QED BY <1>1, <3>1, <3>2
  <2> DEFINE new == [lines |-> c.lines, draft |-> c.draft]
             u == [c EXCEPT !.state = "ok", !.cart = new]  v == [c EXCEPT !.state = "error"]
  <2>2. (good /\ writes' = (writes \ {c}) \cup {u}) \/ (~good /\ writes' = (writes \ {c}) \cup {v})
    BY <2>1 DEF Wizard!Serve
  <2>3. u.draft = c.draft /\ u.state = "ok" /\ v.draft = c.draft /\ v.state = "error"
    BY <1>1 DEF IsWrite
  <2> HIDE DEF u, v, good
  <2>4. CASE good /\ writes' = (writes \ {c}) \cup {u}
    BY <2>3, <2>4
  <2>5. CASE ~good /\ writes' = (writes \ {c}) \cup {v}
    BY <2>3, <2>5
  <2> QED BY <2>2, <2>4, <2>5
<1> QED BY <1>2, <1>3 DEF Truthful

LEMMA FaultsStay ==
    ASSUME traces \in WizTraces, NEW when
    PROVE  Wizard!Stray(when).faults = traces.faults
<1> QED BY DEF Wizard!Stray, WizTraces

LEMMA TruthNext ==
    ASSUME WizInv, FitInv, [Wizard!Next]_wizVars
    PROVE  traces'.faults = 0 => Truthful'
<1>0. traces \in WizTraces
  BY DEF WizInv, WizTypes
<1>1. ASSUME traces' = traces \/ \E when : traces' = Wizard!Stray(when) PROVE traces'.faults = traces.faults
  BY <1>0, <1>1, FaultsStay
<1>2. CASE UNCHANGED wizVars
  BY <1>2, TruthStays DEF wizVars
<1>3. CASE Wizard!Settle \/ Wizard!Esc \/ Wizard!Advance \/ Wizard!Confirm
  <2>1. traces' = traces \/ \E when : traces' = Wizard!Stray(when)
    BY <1>3 DEF Wizard!Settle, Wizard!Esc, Wizard!Advance, Wizard!Confirm
  <2>2. \E draft : writes' \in {writes, Wizard!Sent(draft)}
    BY <1>3 DEF Wizard!Settle, Wizard!Esc, Wizard!Advance, Wizard!Confirm
  <2>3. \A c \in writes' : c \in writes \/ c.state = "sent"
    BY <2>2 DEF Wizard!Sent, Wizard!Write
  <2> QED BY <1>1, <2>1, <2>3, TruthStays
<1>4. CASE Wizard!Toggle
  <2>1. traces'.faults = traces.faults
    <3>1. PICK t : t = Wizard!Stray(writes # {}) /\ traces' = [t EXCEPT !.toggles = @ + 1]
      BY <1>4 DEF Wizard!Toggle
    <3>2. t \in WizTraces
      <4>1. (writes # {}) \in BOOLEAN
        OBVIOUS
      <4> QED BY <1>0, <3>1, <4>1, StrayTyped
    <3>3. traces'.faults = t.faults
      BY <3>1, <3>2 DEF WizTraces
    <3> QED BY <1>0, <3>1, <3>3, FaultsStay
  <2>2. \E w : writes' \in {writes, Wizard!EnterAsks(w)}
    BY <1>4 DEF Wizard!Toggle
  <2>3. \A c \in writes' : c \in writes \/ c.state = "sent"
    BY <2>2 DEF Wizard!EnterAsks, Wizard!Sent, Wizard!Write
  <2> QED BY <2>1, <2>3, TruthStays
<1>5. CASE Wizard!OptionsLoaded
  <2>1. traces' = traces \/ \E when : traces' = Wizard!Stray(when)
    BY <1>5 DEF Wizard!OptionsLoaded
  <2>2. \E w : writes' = Wizard!EnterAsks(w)
    BY <1>5 DEF Wizard!OptionsLoaded
  <2>3. \A c \in writes' : c \in writes \/ c.state = "sent"
    BY <2>2 DEF Wizard!EnterAsks, Wizard!Sent, Wizard!Write
  <2> QED BY <1>1, <2>1, <2>3, TruthStays
<1>6. CASE Wizard!Tap \/ Wizard!Dec \/ Wizard!OptionsFailed
  <2>1. traces'.faults = traces.faults /\ writes' = writes
    BY <1>0, <1>6 DEF Wizard!Tap, Wizard!Dec, Wizard!OptionsFailed, WizTraces
  <2> QED BY <2>1, TruthStays
<1>7. ASSUME NEW c \in writes, Wizard!WizardAnswer(c) \/ Wizard!Panic(c) \/ Wizard!Synced(c)
      PROVE  traces'.faults = 0 => Truthful'
  <2>1. traces' = traces
    BY <1>7 DEF Wizard!WizardAnswer, Wizard!Panic, Wizard!Synced
  <2>2. CASE Wizard!Scoped(c) \/ Wizard!Tried(c) \/ Wizard!Offered(c)
    <3>1. writes' \subseteq writes \/ \E draft : writes' = (writes \ {c}) \cup {Wizard!Write(c.id, dishes, draft)}
      <4>1. CASE Wizard!Scoped(c)
        BY <4>1 DEF Wizard!Scoped, Wizard!Goes, Wizard!Heard
      <4>2. CASE Wizard!Tried(c)
        BY <4>2 DEF Wizard!Tried, Wizard!Goes, Wizard!Heard
      <4>3. CASE Wizard!Offered(c)
        BY <4>3 DEF Wizard!Offered, Wizard!Goes, Wizard!Heard
      <4> QED BY <2>2, <4>1, <4>2, <4>3
    <3>2. \A d \in writes' : d \in writes \/ d.state = "sent"
      BY <3>1 DEF Wizard!Write
    <3> QED BY <2>1, <3>2, TruthStays
  <2>3. CASE ~(Wizard!Scoped(c) \/ Wizard!Tried(c) \/ Wizard!Offered(c))
    <3>1. writes' \subseteq writes
      BY <1>7, <2>3 DEF Wizard!WizardAnswer, Wizard!Panic, Wizard!Synced, Wizard!Added, Wizard!Idle, Wizard!Priced,
         Wizard!Refused, Wizard!Heard
    <3> QED BY <2>1, <3>1, TruthStays
  <2> QED BY <2>2, <2>3
<1> QED BY <1>2, <1>3, <1>4, <1>5, <1>6, <1>7, TruthServed DEF Wizard!Next

\* The page that is complete: the crust's group and what was found; the variants stay.
LEMMA FinishPage ==
    ASSUME NEW w, IsWizard(w), w.open, Paged(w), w.phase = "optional", w.found \in Seq(ToSet(Optional))
    PROVE  LET e == Wizard!Finish(w)
           IN  /\ e.phase = "choosing" /\ e.crust = w.crust
               /\ e.picked \cap Wizard!Variants = w.picked
               /\ ToSet(e.page) = (IF w.crust = <<>> THEN {} ELSE {w.crust}) \cup ToSet(w.found)
<1> DEFINE page == (IF w.crust = <<>> THEN <<>> ELSE <<w.crust>>) \o w.found
           G == ToSet(Required) \cup ToSet(Optional)
           out == Wizard!SoldOut(w)
           e == Wizard!Finish(w)
<1>0. G = ToSet(Required) \cup ToSet(Optional)
  OBVIOUS
<1>1. page \in Seq(G) /\ ToSet(page) = (IF w.crust = <<>> THEN {} ELSE {w.crust}) \cup ToSet(w.found)
  <2>1. w.crust \in ToSet(Required) \cup {<<>>}
    BY DEF Paged
  <2>2. w.found \in Seq(G)
    BY <1>0
  <2> HIDE DEF G
  <2> DEFINE first == IF w.crust = <<>> THEN <<>> ELSE <<w.crust>>
  <2>3. first \in Seq(G) /\ ToSet(first) = IF w.crust = <<>> THEN {} ELSE {w.crust}
    <3>1. CASE w.crust = <<>>
      BY <3>1 DEF ToSet
    <3>2. CASE w.crust # <<>>
      <4>1. w.crust \in G
        BY <2>1, <3>2, <1>0
      <4>2. first = <<w.crust>>
        BY <3>2
      <4> HIDE DEF first
      <4> QED BY <4>1, <4>2, <3>2 DEF ToSet
    <3> QED BY <3>1, <3>2
  <2> HIDE DEF first
  <2>4. first \o w.found \in Seq(G) /\ ToSet(first \o w.found) = ToSet(first) \cup ToSet(w.found)
    BY <2>2, <2>3, ToSetConcat
  <2> QED BY <2>3, <2>4 DEF first
<1>2. \A g \in ToSet(page) : g \in Seq(Wizard!AddOns)
  <2> HIDE DEF page, G
  <2>1. \A g \in ToSet(page) : g \in G
    BY <1>1 DEF ToSet
  <2> QED BY <2>1, <1>0, GroupsGiven
<1> HIDE DEF page, out, G
<1>3. Wizard!Defaults(page, out) \subseteq Wizard!AddOns
  BY <1>2, DefaultsAreOf
<1>4. e = [Wizard!AddPage(w, page, out) EXCEPT !.phase = "choosing"]
  BY DEF Wizard!Finish, page, out
<1>5. e.phase = "choosing"
  BY FinishWizard DEF Paged
<1>6. e.page = page /\ e.crust = w.crust
  BY <1>4 DEF Wizard!AddPage, IsWizard, WizFields
<1>7. e.picked = w.picked \cup Wizard!Defaults(page, out)
  BY <1>4 DEF Wizard!AddPage, IsWizard, WizFields
<1> HIDE DEF e
<1>8. e.picked \cap Wizard!Variants = w.picked
  <2>1. w.picked \subseteq Wizard!Variants /\ Wizard!Variants \cap Wizard!AddOns = {}
    BY GroupsGiven DEF Paged
  <2> QED BY <1>3, <1>7, <2>1
<1> QED BY <1>1, <1>5, <1>6, <1>8 DEF e

\* When every group has been asked about, the page shows what fits.
LEMMA FinishFits ==
    ASSUME NEW w, IsWizard(w), w.open, Paged(w), w.phase = "optional", w.found \in Seq(ToSet(Optional)),
           w.crust = <<>> \/ Wizard!Accepts(w.picked \cup OrCrust(w)),
           \A g \in ToSet(w.found) : FitsWith(g, w.picked \cup OrCrust(w)),
           \A g \in ToSet(Optional) : g \in ToSet(w.found) \/ ~FitsWith(g, w.picked \cup OrCrust(w))
    PROVE  PageIsFit(Wizard!Finish(w))
<1> DEFINE e == Wizard!Finish(w)
<1>1. /\ e.crust = w.crust /\ e.picked \cap Wizard!Variants = w.picked
      /\ ToSet(e.page) = (IF w.crust = <<>> THEN {} ELSE {w.crust}) \cup ToSet(w.found)
  BY FinishPage
<1> HIDE DEF e
<1>2. OrCrust(e) = OrCrust(w)
  BY <1>1 DEF OrCrust
<1>3. ASSUME NEW g \in ToSet(e.page) PROVE FitsWith(g, w.picked)
  <2>1. CASE g \in ToSet(w.found)
    BY <2>1, FitsLess
  <2>2. CASE w.crust # <<>> /\ g = w.crust
    BY <2>2, CrustFits DEF Paged
  <2> QED BY <1>1, <2>1, <2>2
<1>4. ASSUME NEW g \in ToSet(Optional) \ ToSet(e.page) PROVE ~FitsWith(g, w.picked \cup OrCrust(e))
  BY <1>1, <1>2
<1> QED BY <1>1, <1>3, <1>4 DEF PageIsFit, e

\* Once the crust's group is known, the optional groups in stock are offered.
LEMMA OptionalFits ==
    ASSUME NEW w, IsWizard(w), w.open, Paged(w), w.phase = "crust", w.stock = TRUE,
           w.crust = <<>> \/ Wizard!Accepts(w.picked \cup OrCrust(w))
    PROVE  LET e == Wizard!BeginOptional(w)
           IN  \/ e.phase = "optional" /\ Offering(e)
               \/ e.phase = "choosing" /\ PageIsFit(e)
<1> DEFINE some == Wizard!Only(Optional, {g \in Wizard!ToSet(Optional) : Wizard!HasStock(g, Wizard!SoldOut(w))})
           next == [w EXCEPT !.found = <<>>, !.todo = some, !.at = 1, !.phase = "optional", !.loading = TRUE]
           e == Wizard!BeginOptional(w)
<1>1. some \in Seq(ToSet(Optional)) /\ ToSet(some) = Stocked
  <2>1. {g \in Wizard!ToSet(Optional) : Wizard!HasStock(g, Wizard!SoldOut(w))} = Stocked
    BY SameSequences DEF Stocked, Wizard!SoldOut
  <2>2. some = Wizard!Only(Optional, Stocked)
    BY <2>1
  <2> HIDE DEF some
  <2>3. some \in Seq(ToSet(Optional)) /\ ToSet(some) = ToSet(Optional) \cap Stocked
    BY <2>2, OnlyHere, GroupsGiven
  <2> QED BY <2>3 DEF Stocked
<1>2. e = IF some = <<>> THEN Wizard!Finish(next) ELSE next
  BY DEF Wizard!BeginOptional
<1> HIDE DEF some
<1>3. IsWizard(next) /\ next.open
  BY DEF IsWizard, WizFields
<1>4. next.phase = "optional" /\ next.found = <<>> /\ next.todo = some /\ next.at = 1
  BY DEF IsWizard, WizFields
<1>5. next.shown = w.shown /\ next.pages = w.pages /\ next.picked = w.picked /\ next.crust = w.crust
  BY DEF IsWizard, WizFields
<1>6. next.page = w.page
  BY DEF IsWizard, WizFields
<1> HIDE DEF next, e
<1>7. Paged(next) /\ next.found \in Seq(ToSet(Optional)) /\ ToSet(next.found) = {}
  BY <1>4, <1>5, <1>6 DEF Paged, Wizard!Phases, ToSet
<1>8. next.crust = <<>> \/ Wizard!Accepts(next.picked \cup OrCrust(next))
  BY <1>5 DEF OrCrust
<1>9. CASE some = <<>>
  <2>1. \A g \in ToSet(Optional) : ~FitsWith(g, next.picked \cup OrCrust(next))
    <3>1. Stocked = {}
      BY <1>1, <1>9 DEF ToSet
    <3> QED BY <3>1 DEF Stocked, FitsWith
  <2>2. PageIsFit(Wizard!Finish(next))
    BY <1>3, <1>4, <1>7, <1>8, <2>1, FinishFits
  <2>3. Wizard!Finish(next).phase = "choosing"
    BY <1>3, <1>4, <1>7, FinishPage
  <2> QED BY <1>2, <1>9, <2>2, <2>3 DEF e
<1>10. CASE some # <<>>
  <2>1. Offering(next)
    <3>1. 1..(next.at - 1) = {}
      BY <1>4
    <3>2. Stocked \subseteq ToSet(next.todo)
      BY <1>1, <1>4
    <3> QED BY <1>7, <1>8, <3>1, <3>2 DEF Offering
  <2> QED BY <1>2, <1>4, <1>10, <2>1 DEF e
<1> QED BY <1>9, <1>10

-----------------------------------------------------------------------------
(* The steps                                                                 *)

\* The question about a candidate is whether it fits.
LEMMA OptionalQuestion ==
    ASSUME NEW w, w.phase = "optional", w.stock = TRUE, w.todo \in Seq(Stocked), w.at \in 1..Len(w.todo)
    PROVE  Wizard!Accepts(Wizard!Question(w)) <=> FitsWith(w.todo[w.at], w.picked \cup OrCrust(w))
<1>1. Wizard!Question(w) = (w.picked \cup OrCrust(w)) \cup {Wizard!FirstIn(w.todo[w.at], Gone)}
  BY DEF Wizard!Question, Wizard!Base, OrCrust, Wizard!SoldOut
<1>2. Wizard!HasStock(w.todo[w.at], Gone)
  <2>1. w.todo[w.at] \in Stocked
    OBVIOUS
  <2> QED BY <2>1 DEF Stocked
<1> QED BY <1>1, <1>2 DEF FitsWith

LEMMA OtherPhases ==
    ASSUME NEW w, NEW W, w.phase \in {"pick", "pricing", "scope"}
    PROVE  Fitting(w, W)
<1> QED BY DEF Fitting

\* Pages that show the same choices.
LEMMA SamePage ==
    ASSUME NEW w, NEW v, NEW W, NEW U, w.phase = "choosing", Fitting(w, W), v.phase = "choosing",
           v.page = w.page, v.crust = w.crust, v.picked \cap Wizard!Variants = w.picked \cap Wizard!Variants
    PROVE  Fitting(v, U)
<1> QED BY DEF Fitting, PageIsFit, OrCrust

LEMMA Quietly ==
    ASSUME traces \in WizTraces, NEW when \in BOOLEAN, ~Wizard!Stray(when).stray
    PROVE  ~traces.stray /\ ~when
<1> QED BY StrayTyped

LEMMA StillFits ==
    ASSUME FitInv, wizard' = wizard, wizard.open, Undisturbed,
           \A d \in writes' : \E c \in writes : d.draft = c.draft
    PROVE  Fitting(wizard', writes')
<1> QED BY DEF FitInv, Fitting

LEMMA ToggleFits ==
    ASSUME WizInv, WizHeld, FitInv, Wizard!Toggle, Undisturbed'
    PROVE  Fitting(wizard', writes')
<1>1. wizard.open /\ IsWizard(wizard) /\ Paged(wizard)
  BY DEF Wizard!Toggle, WizHeld, Shaped
<1>2. Undisturbed
  <2>1. PICK t : t = Wizard!Stray(writes # {}) /\ traces' = [t EXCEPT !.toggles = @ + 1]
    BY DEF Wizard!Toggle
  <2>2. (writes # {}) \in BOOLEAN /\ traces \in WizTraces
    BY DEF WizInv, WizTypes
  <2>3. t \in WizTraces /\ (t.stray <=> traces.stray \/ writes # {}) /\ t.faults = traces.faults
    BY <2>1, <2>2, StrayTyped
  <2>4. traces'.stray = t.stray /\ traces'.faults = t.faults
    BY <2>1, <2>3 DEF WizTraces
  <2> QED BY <2>3, <2>4 DEF Undisturbed
<1>3. Fitting(wizard, writes)
  BY <1>1, <1>2 DEF FitInv
<1> DEFINE Toggles(g, c, w) ==
        /\ w = [wizard EXCEPT !.picked = Wizard!Toggled(wizard, g, c)]
        /\ IF Wizard!OnVariantPage(w) THEN wizard' = Wizard!EnterVariantPage(w) ELSE wizard' = w
<1>4. PICK g \in ToSet(wizard.page) : \E c \in ToSet(g) : \E w : Toggles(g, c, w)
  BY SameSequences DEF Wizard!Toggle
<1>5. PICK c \in ToSet(g) : \E w : Toggles(g, c, w)
  BY <1>4
<1>6. PICK w : Toggles(g, c, w)
  BY <1>5
<1> DEFINE picked == Wizard!Toggled(wizard, g, c)
<1>7. w = [wizard EXCEPT !.picked = picked]
  BY <1>6
<1>8. picked \in {wizard.picked \ {c}, wizard.picked, (wizard.picked \ Wizard!ToSet(g)) \cup {c}, wizard.picked \cup {c}}
  BY DEF Wizard!Toggled
<1> HIDE DEF picked
<1>9. IsWizard(w) /\ w.open /\ w.phase = wizard.phase /\ w.picked = picked
  BY <1>1, <1>7 DEF IsWizard, WizFields
<1>10. w.pages = wizard.pages /\ w.shown = wizard.shown /\ w.crust = wizard.crust /\ w.page = wizard.page
  BY <1>1, <1>7 DEF IsWizard, WizFields
<1>11. CASE Wizard!OnVariantPage(w)
  <2>1. wizard'.phase \in {"pick", "pricing"}
    BY <1>6, <1>9, <1>11, EnterWizard
  <2> QED BY <2>1, OtherPhases
<1>12. CASE ~Wizard!OnVariantPage(w)
  <2>1. wizard' = w /\ w.phase = "choosing"
    BY <1>1, <1>6, <1>9, <1>10, <1>12 DEF Paged, Wizard!OnVariantPage
  <2>2. ToSet(g) \subseteq Wizard!AddOns
    <3>1. g \in ToSet(Required) \cup ToSet(Optional)
      BY <1>1, <1>9, <2>1 DEF Paged, ToSet
    <3>2. g \in Seq(Wizard!AddOns)
      BY <3>1, GroupsGiven
    <3> QED BY <3>2 DEF ToSet
  <2>3. picked \cap Wizard!Variants = wizard.picked \cap Wizard!Variants
    <3>1. c \notin Wizard!Variants /\ ToSet(g) \cap Wizard!Variants = {}
      BY <2>2, GroupsGiven
    <3> QED BY <1>8, <3>1, SameSequences
  <2> QED BY <1>3, <1>9, <1>10, <2>1, <2>3, SamePage
<1> QED BY <1>11, <1>12

LEMMA AdvanceFits ==
    ASSUME WizInv, Wizard!Advance, Undisturbed'
    PROVE  Fitting(wizard', writes')
<1>1. writes = {}
  <2>1. (writes # {}) \in BOOLEAN /\ traces \in WizTraces
    BY DEF WizInv, WizTypes
  <2> QED BY <2>1, Quietly DEF Wizard!Advance, Undisturbed
<1>2. writes' = Wizard!Sent({Wizard!Question(wizard')})
  BY DEF Wizard!Advance
<1>3. \A c \in writes' : c.draft = {Wizard!Question(wizard')}
  BY <1>1, <1>2 DEF Wizard!Sent, Wizard!Write
<1>4. wizard'.phase \in {"scope", "crust"}
  <2>1. wizard.open /\ IsWizard(wizard)
    BY DEF Wizard!Advance, WizInv, WizTypes
  <2>2. CASE \E todo : wizard' = [wizard EXCEPT !.phase = "scope", !.todo = todo, !.at = 1, !.found = <<>>, !.loading = TRUE]
    BY <2>1, <2>2 DEF IsWizard, WizFields
  <2>3. CASE \E todo : wizard' = [wizard EXCEPT !.phase = "crust", !.todo = todo, !.at = 1, !.crust = <<>>, !.loading = TRUE]
    BY <2>1, <2>3 DEF IsWizard, WizFields
  <2> QED BY <2>2, <2>3 DEF Wizard!Advance
<1> QED BY <1>3, <1>4 DEF Fitting

LEMMA ConfirmFits ==
    ASSUME WizInv, FitInv, Wizard!Confirm, Undisturbed'
    PROVE  Fitting(wizard', writes')
<1>1. wizard.open /\ IsWizard(wizard) /\ wizard.phase = "choosing"
  BY DEF Wizard!Confirm, WizInv, WizTypes, OnPage, Wizard!OnVariantPage
<1>2. Undisturbed
  <2>1. (writes # {}) \in BOOLEAN /\ traces \in WizTraces
    BY DEF WizInv, WizTypes
  <2> QED BY <2>1, StrayTyped DEF Wizard!Confirm, Undisturbed
<1>3. wizard' = [wizard EXCEPT !.loading = TRUE]
  BY DEF Wizard!Confirm
<1>4. wizard'.phase = "choosing" /\ wizard'.page = wizard.page
  BY <1>1, <1>3 DEF IsWizard, WizFields
<1>5. wizard'.crust = wizard.crust /\ wizard'.picked = wizard.picked
  BY <1>1, <1>3 DEF IsWizard, WizFields
<1> QED BY <1>1, <1>2, <1>4, <1>5, SamePage DEF FitInv

LEMMA OptionsFits ==
    ASSUME Wizard!OptionsLoaded
    PROVE  Fitting(wizard', writes')
<1>1. PICK priced, picked, w :
        w = [Wizard!Opened(priced) EXCEPT !.picked = picked] /\ wizard' = Wizard!EnterVariantPage(w)
  BY DEF Wizard!OptionsLoaded
<1>2. IsWizard(w) /\ w.open
  BY <1>1, OpenedWizard
<1>3. wizard'.phase \in {"pick", "pricing"}
  BY <1>1, <1>2, EnterWizard
<1> QED BY <1>3, OtherPhases

LEMMA ServedFits ==
    ASSUME WizInv, FitInv, NEW c \in writes, Wizard!Serve(c), wizard'.open, Undisturbed'
    PROVE  Fitting(wizard', writes')
<1>1. wizard' = wizard /\ IsWrite(c)
  BY DEF Wizard!Serve, WizInv, WizTypes
<1>2. Undisturbed
  <2>1. traces.faults \in Nat /\ traces \in WizTraces
    BY DEF WizInv, WizTypes, WizTraces
  <2>2. CASE traces' = [traces EXCEPT !.faults = @ + 1]
    <3>1. traces'.faults = traces.faults + 1
      BY <2>1, <2>2 DEF WizTraces
    <3> QED BY <2>1, <3>1 DEF Undisturbed
  <2>3. CASE traces' = traces
    BY <2>3 DEF Undisturbed
  <2> QED BY <2>2, <2>3 DEF Wizard!Serve
<1>3. PICK d : writes' = (writes \ {c}) \cup {d} /\ d.draft = c.draft
  <2>1. PICK ok, new : \/ writes' = (writes \ {c}) \cup {[c EXCEPT !.state = ok, !.cart = new]}
                       \/ writes' = (writes \ {c}) \cup {[c EXCEPT !.state = ok]}
    BY DEF Wizard!Serve
  <2> DEFINE u == [c EXCEPT !.state = ok, !.cart = new]  v == [c EXCEPT !.state = ok]
  <2>2. u.draft = c.draft /\ v.draft = c.draft
    BY <1>1 DEF IsWrite
  <2>3. writes' = (writes \ {c}) \cup {u} \/ writes' = (writes \ {c}) \cup {v}
    BY <2>1
  <2> HIDE DEF u, v
  <2> QED BY <2>2, <2>3
<1>4. \A e \in writes' : \E b \in writes : e.draft = b.draft
  BY <1>3
<1> QED BY <1>1, <1>2, <1>4, StillFits

LEMMA PricedFits ==
    ASSUME WizInv, FitInv, wizard.open, Undisturbed,
           NEW c \in writes, Wizard!Idle(c) \/ Wizard!Priced(c) \/ Wizard!Refused(c)
    PROVE  Fitting(wizard', writes')
<1>1. IsWizard(wizard) /\ Fitting(wizard, writes)
  BY DEF WizInv, WizTypes, FitInv
<1>2. CASE Wizard!Idle(c)
  <2>1. wizard'.phase = "pick"
    BY <1>2 DEF Wizard!Idle, Wizard!Heard
  <2> QED BY <2>1, OtherPhases
<1>3. CASE Wizard!Priced(c)
  <2>1. PICK stock, subtotal :
          wizard' = [wizard EXCEPT !.phase = "pick", !.loading = FALSE, !.stock = stock, !.subtotal = subtotal]
    BY <1>3 DEF Wizard!Priced, Wizard!Heard
  <2>2. wizard'.phase = "pick"
    BY <1>1, <2>1 DEF IsWizard, WizFields
  <2> QED BY <2>2, OtherPhases
<1>4. CASE Wizard!Refused(c)
  <2>1. wizard' = [wizard EXCEPT !.loading = FALSE] /\ wizard.phase = "choosing"
    BY <1>4 DEF Wizard!Refused, Wizard!Heard
  <2>2. wizard'.phase = "choosing" /\ wizard'.page = wizard.page
    BY <1>1, <2>1 DEF IsWizard, WizFields
  <2>3. wizard'.crust = wizard.crust /\ wizard'.picked = wizard.picked
    BY <1>1, <2>1 DEF IsWizard, WizFields
  <2> QED BY <1>1, <2>1, <2>2, <2>3, SamePage
<1> QED BY <1>2, <1>3, <1>4

LEMMA ScopedFits ==
    ASSUME WizInv, wizard.open, NEW c \in writes, Wizard!Scoped(c)
    PROVE  Fitting(wizard', writes')
<1>1. IsWizard(wizard) /\ wizard.phase = "scope"
  BY DEF WizInv, WizTypes, Wizard!Scoped
<1>2. PICK found, stock, w :
        /\ w = [wizard EXCEPT !.found = found, !.stock = stock]
        /\ \/ \E at : Wizard!Goes(c, [w EXCEPT !.at = at])
           \/ \E new : /\ new = [Wizard!AddPage(w, <<found>>, {}) EXCEPT !.shown = @ + 1]
                       /\ wizard' = Wizard!EnterVariantPage(new)
  BY DEF Wizard!Scoped
<1>3. IsWizard(w) /\ w.open /\ w.phase = "scope"
  BY <1>1, <1>2 DEF IsWizard, WizFields
<1>4. ASSUME NEW at, Wizard!Goes(c, [w EXCEPT !.at = at]) PROVE wizard'.phase = "scope"
  <2>1. wizard' = [w EXCEPT !.at = at]
    BY <1>4 DEF Wizard!Goes
  <2> QED BY <1>3, <2>1 DEF IsWizard, WizFields
<1>5. ASSUME NEW new, new = [Wizard!AddPage(w, <<found>>, {}) EXCEPT !.shown = @ + 1],
             wizard' = Wizard!EnterVariantPage(new)
      PROVE  wizard'.phase \in {"pick", "pricing"}
  <2> DEFINE a == Wizard!AddPage(w, <<found>>, {})
  <2>1. IsWizard(a) /\ a.open
    BY <1>3, PageWizard
  <2>2. new = [a EXCEPT !.shown = a.shown + 1]
    BY <1>5
  <2> HIDE DEF a
  <2>3. IsWizard(new) /\ new.open
    BY <2>1, <2>2 DEF IsWizard, WizFields
  <2>4. Wizard!EnterVariantPage(new).phase \in {"pick", "pricing"}
    BY <2>3, EnterWizard
  <2> QED BY <1>5, <2>4
<1>6. wizard'.phase \in {"pick", "pricing", "scope"}
  <2>1. CASE \E at : Wizard!Goes(c, [w EXCEPT !.at = at])
    BY <1>4, <2>1
  <2>2. CASE \E new : /\ new = [Wizard!AddPage(w, <<found>>, {}) EXCEPT !.shown = @ + 1]
                      /\ wizard' = Wizard!EnterVariantPage(new)
    BY <1>5, <2>2
  <2> QED BY <1>2, <2>1, <2>2
<1> QED BY <1>6, OtherPhases

\* The only write under way is the one that is answered.
LEMMA OneAnswer ==
    ASSUME WizInv, Undisturbed, NEW c \in writes
    PROVE  writes = {c}
<1> QED BY DEF WizInv, AloneAsks, Undisturbed

LEMMA GoesFits ==
    ASSUME WizInv, Undisturbed, NEW c \in writes, Wizard!Goes(c, wizard')
    PROVE  \A d \in writes' : d.draft = {Wizard!Question(wizard')}
<1> QED BY OneAnswer DEF Wizard!Goes, Wizard!Write

LEMMA TriedFits ==
    ASSUME WizInv, WizHeld, FitInv, wizard.open, Undisturbed, NEW c \in writes, Wizard!Tried(c)
    PROVE  Fitting(wizard', writes')
<1>1. /\ IsWizard(wizard) /\ Paged(wizard) /\ wizard.phase = "crust" /\ wizard.todo \in Seq(ToSet(Required))
      /\ (wizard.todo # <<>> => wizard.at <= Len(wizard.todo)) /\ wizard.at \in Nat
  BY DEF WizHeld, Shaped, Candidates, Wizard!Tried, Paged
<1>2. CASE Wizard!Told(c)
  <2> DEFINE crust == IF wizard.todo = <<>> THEN <<>> ELSE wizard.todo[wizard.at]
             w     == [wizard EXCEPT !.stock = TRUE, !.crust = crust]
             next  == Wizard!BeginOptional(w)
  <2>1. crust \in ToSet(Required) \cup {<<>>}
    BY <1>1, <1>2 DEF Wizard!Tried, Wizard!Beyond
  <2>2. crust # <<>> => Wizard!Accepts(wizard.picked \cup {Wizard!FirstIn(crust, {})})
    <3>1. c.draft = {Wizard!Question(wizard)} /\ c.state = "ok"
      BY <1>1, <1>2 DEF FitInv, Fitting, Wizard!Told
    <3>2. Wizard!Accepts(Wizard!Question(wizard))
      BY <3>1 DEF FitInv, Truthful, Undisturbed
    <3>3. wizard.todo # <<>> => Wizard!Question(wizard) = wizard.picked \cup {Wizard!FirstIn(wizard.todo[wizard.at], {})}
      BY <1>1 DEF Wizard!Question
    <3> QED BY <3>2, <3>3
  <2> HIDE DEF crust
  <2>3. IsWizard(w) /\ w.open /\ w.phase = "crust" /\ w.stock = TRUE
    BY <1>1 DEF IsWizard, WizFields
  <2>4. w.pages = wizard.pages /\ w.shown = wizard.shown /\ w.picked = wizard.picked
    BY <1>1 DEF IsWizard, WizFields
  <2>5. w.at = wizard.at /\ w.found = wizard.found /\ w.page = wizard.page /\ w.crust = crust
    BY <1>1 DEF IsWizard, WizFields
  <2>6. IF next.phase = "optional" THEN Wizard!Goes(c, next) ELSE Wizard!Heard(c, next)
    BY <1>2 DEF Wizard!Tried, crust
  <2> HIDE DEF w
  <2>7. Paged(w)
    BY <1>1, <2>1, <2>3, <2>4, <2>5 DEF Paged
  <2>8. w.crust = <<>> \/ Wizard!Accepts(w.picked \cup OrCrust(w))
    BY <2>2, <2>4, <2>5 DEF OrCrust
  <2>9. \/ next.phase = "optional" /\ Offering(next)
        \/ next.phase = "choosing" /\ PageIsFit(next)
    BY <2>3, <2>7, <2>8, OptionalFits
  <2> HIDE DEF next
  <2>10. wizard' = next
    BY <2>6 DEF Wizard!Goes, Wizard!Heard
  <2>11. CASE next.phase = "optional" /\ Offering(next)
    <3>1. \A d \in writes' : d.draft = {Wizard!Question(wizard')}
      BY <2>6, <2>10, <2>11, GoesFits
    <3> QED BY <2>10, <2>11, <3>1 DEF Fitting
  <2>12. CASE next.phase = "choosing" /\ PageIsFit(next)
    BY <2>10, <2>12 DEF Fitting
  <2> QED BY <2>9, <2>11, <2>12
<1>3. CASE ~Wizard!Told(c) /\ wizard.at # 0 /\ wizard.at < Len(wizard.todo)
  <2>1. wizard' = [wizard EXCEPT !.at = wizard.at + 1] /\ Wizard!Goes(c, wizard')
    BY <1>3 DEF Wizard!Tried, Wizard!Goes
  <2>2. wizard'.phase = "crust"
    BY <1>1, <2>1 DEF IsWizard, WizFields
  <2>3. \A d \in writes' : d.draft = {Wizard!Question(wizard')}
    BY <2>1, GoesFits
  <2> QED BY <2>2, <2>3 DEF Fitting
<1>4. CASE ~Wizard!Told(c) /\ ~(wizard.at # 0 /\ wizard.at < Len(wizard.todo))
  <2>1. wizard' = [wizard EXCEPT !.at = 0, !.loading = FALSE] /\ Wizard!Heard(c, wizard')
    BY <1>4 DEF Wizard!Tried, Wizard!Heard, Wizard!Exhausted
  <2>2. wizard'.phase = "crust"
    BY <1>1, <2>1 DEF IsWizard, WizFields
  <2>3. writes' = {}
    BY <2>1, OneAnswer DEF Wizard!Heard
  <2> QED BY <2>2, <2>3 DEF Fitting
<1> QED BY <1>2, <1>3, <1>4

LEMMA OfferedFits ==
    ASSUME WizInv, WizHeld, FitInv, wizard.open, Undisturbed,
           NEW c \in writes, c.state # "sent", Wizard!Offered(c)
    PROVE  Fitting(wizard', writes')
<1>1. /\ IsWizard(wizard) /\ Paged(wizard) /\ wizard.phase = "optional" /\ wizard.stock = TRUE
      /\ wizard.todo \in Seq(Stocked) /\ wizard.at \in 1..Len(wizard.todo) /\ wizard.found \in Seq(ToSet(Optional))
  BY DEF WizHeld, Shaped, Candidates, Wizard!Offered
<1> DEFINE g == wizard.todo[wizard.at]
           sels == wizard.picked \cup OrCrust(wizard)
           f == IF Wizard!Keeps(c) THEN Append(wizard.found, g) ELSE wizard.found
           w == [wizard EXCEPT !.found = f]
<1>2. /\ Offering(wizard) /\ c.draft = {Wizard!Question(wizard)} /\ Truthful
      /\ c.state \in {"ok", "error"}
  <2>1. c.state \in {"sent", "ok", "error"} /\ c.state # "sent"
    BY DEF WizInv, WizTypes, IsWrite
  <2> QED BY <1>1, <2>1 DEF FitInv, Fitting, Undisturbed
<1>3. Wizard!Keeps(c) <=> FitsWith(g, sels)
  <2>1. Wizard!Accepts(Wizard!Question(wizard)) <=> FitsWith(g, sels)
    BY <1>1, OptionalQuestion
  <2> HIDE DEF g, sels
  <2> QED BY <1>2, <2>1 DEF Wizard!Keeps, Wizard!Told, Truthful
<1>4. g \in ToSet(Optional)
  <2>1. g \in Stocked
    BY <1>1
  <2> QED BY <2>1 DEF Stocked
<1>5. /\ IF wizard.at < Len(wizard.todo) THEN Wizard!Goes(c, [w EXCEPT !.at = @ + 1])
         ELSE Wizard!Heard(c, Wizard!Finish(w))
  BY Zenon DEF Wizard!Offered
<1>6. f \in Seq(ToSet(Optional)) /\ ToSet(f) = IF Wizard!Keeps(c) THEN ToSet(wizard.found) \cup {g} ELSE ToSet(wizard.found)
  <2> HIDE DEF g
  <2>1. Append(wizard.found, g) \in Seq(ToSet(Optional)) /\ ToSet(Append(wizard.found, g)) = ToSet(wizard.found) \cup {g}
    BY <1>1, <1>4, ToSetAppend
  <2> QED BY <1>1, <2>1
<1> HIDE DEF f
<1>7. IsWizard(w) /\ w.open /\ w.phase = "optional" /\ w.found = f
  BY <1>1 DEF IsWizard, WizFields
<1>8. w.pages = wizard.pages /\ w.shown = wizard.shown /\ w.picked = wizard.picked
  BY <1>1 DEF IsWizard, WizFields
<1>9. w.crust = wizard.crust /\ w.page = wizard.page /\ w.todo = wizard.todo
  BY <1>1 DEF IsWizard, WizFields
<1>10. w.at = wizard.at
  BY <1>1 DEF IsWizard, WizFields
<1> HIDE DEF w
<1>11. OrCrust(w) = OrCrust(wizard) /\ w.picked \cup OrCrust(w) = sels
  BY <1>8, <1>9 DEF OrCrust
<1>12. w.crust = <<>> \/ Wizard!Accepts(w.picked \cup OrCrust(w))
  BY <1>2, <1>9, <1>11 DEF Offering
<1>13. \A h \in ToSet(f) : FitsWith(h, sels)
  <2>1. \A h \in ToSet(wizard.found) : FitsWith(h, sels)
    BY <1>2 DEF Offering
  <2> HIDE DEF g, sels
  <2> QED BY <1>3, <1>6, <2>1
<1>14. \A i \in 1..wizard.at : wizard.todo[i] \in ToSet(f) \/ ~FitsWith(wizard.todo[i], sels)
  <2> SUFFICES ASSUME NEW i \in 1..wizard.at PROVE wizard.todo[i] \in ToSet(f) \/ ~FitsWith(wizard.todo[i], sels)
    OBVIOUS
  <2>1. CASE i = wizard.at
    <3>1. wizard.todo[i] = g
      BY <2>1
    <3> HIDE DEF g, sels
    <3> QED BY <1>3, <1>6, <3>1
  <2>2. CASE i # wizard.at
    <3>1. i \in 1..(wizard.at - 1)
      BY <1>1, <2>2
    <3>2. wizard.todo[i] \in ToSet(wizard.found) \/ ~FitsWith(wizard.todo[i], sels)
      BY <1>2, <3>1 DEF Offering
    <3> QED BY <1>6, <3>2
  <2> QED BY <2>1, <2>2
<1>15. Stocked \subseteq ToSet(wizard.todo)
  BY <1>2 DEF Offering
<1> HIDE DEF sels, g
<1>16. CASE wizard.at < Len(wizard.todo)
  <2>1. wizard' = [w EXCEPT !.at = w.at + 1] /\ Wizard!Goes(c, wizard')
    BY <1>5, <1>16 DEF Wizard!Goes
  <2>2. wizard'.phase = "optional" /\ wizard'.at = wizard.at + 1 /\ wizard'.found = f
    BY <1>7, <1>10, <2>1 DEF IsWizard, WizFields
  <2>3. wizard'.picked = w.picked /\ wizard'.crust = w.crust /\ wizard'.todo = wizard.todo
    BY <1>7, <1>9, <2>1 DEF IsWizard, WizFields
  <2>4. wizard'.picked \cup OrCrust(wizard') = sels
    BY <1>11, <2>3 DEF OrCrust
  <2>5. wizard'.crust = <<>> \/ Wizard!Accepts(wizard'.picked \cup OrCrust(wizard'))
    BY <1>11, <1>12, <2>3, <2>4
  <2>6. (wizard'.at) - 1 = wizard.at
    BY <1>1, <2>2
  <2>7. Offering(wizard')
    BY <1>13, <1>14, <1>15, <2>2, <2>3, <2>4, <2>5, <2>6 DEF Offering
  <2>8. \A d \in writes' : d.draft = {Wizard!Question(wizard')}
    BY <2>1, GoesFits
  <2> QED BY <2>2, <2>7, <2>8 DEF Fitting
<1>17. CASE ~(wizard.at < Len(wizard.todo))
  <2>1. wizard' = Wizard!Finish(w)
    BY <1>5, <1>17 DEF Wizard!Heard
  <2>2. Paged(w)
    <3>1. w.found \in Seq(Wizard!Rows \cup ToSet(Optional))
      BY <1>6, <1>7
    <3> QED BY <1>1, <1>7, <1>8, <1>9, <1>10, <3>1 DEF Paged
  <2>3. ASSUME NEW h \in ToSet(Optional) PROVE h \in ToSet(w.found) \/ ~FitsWith(h, sels)
    <3>1. CASE h \in Stocked
      <4>1. PICK i \in DOMAIN wizard.todo : wizard.todo[i] = h
        BY <1>15, <3>1 DEF ToSet
      <4>2. i \in 1..wizard.at
        BY <1>1, <1>17, <4>1
      <4> QED BY <1>7, <1>14, <4>1, <4>2
    <3>2. CASE h \notin Stocked
      BY <3>2 DEF Stocked, FitsWith
    <3> QED BY <3>1, <3>2
  <2>4. PageIsFit(Wizard!Finish(w))
    BY <1>6, <1>7, <1>11, <1>12, <1>13, <2>2, <2>3, FinishFits
  <2>5. Wizard!Finish(w).phase = "choosing"
    BY <1>6, <1>7, <2>2, FinishPage
  <2> QED BY <2>1, <2>4, <2>5 DEF Fitting
<1> QED BY <1>16, <1>17

LEMMA AnswerFits ==
    ASSUME WizInv, WizHeld, FitInv, NEW c \in writes, Wizard!WizardAnswer(c), wizard'.open, Undisturbed'
    PROVE  Fitting(wizard', writes')
<1>1. wizard.open /\ c.state # "sent" /\ Undisturbed
  BY DEF Wizard!WizardAnswer, Undisturbed
<1>2. ~Wizard!Added(c)
  BY DEF Wizard!Added, Wizard!Heard, Wizard!Closed
<1> QED BY <1>1, <1>2, PricedFits, ScopedFits, TriedFits, OfferedFits DEF Wizard!WizardAnswer

LEMMA FitNext == WizInv /\ WizHeld /\ FitInv /\ [Wizard!Next]_wizVars => FitInv'
<1> SUFFICES ASSUME WizInv, WizHeld, FitInv, [Wizard!Next]_wizVars PROVE FitInv'
  OBVIOUS
<1>1. traces'.faults = 0 => Truthful'
  BY TruthNext
<1>2. ASSUME wizard'.open, Undisturbed' PROVE Fitting(wizard', writes')
  <2>0. traces \in WizTraces
    BY DEF WizInv, WizTypes
  <2>1. CASE UNCHANGED wizVars
    <3>1. UNCHANGED <<wizard, writes, traces>>
      BY <2>1 DEF wizVars
    <3> QED BY <1>2, <3>1, StillFits DEF Undisturbed
  <2>2. CASE Wizard!Settle
    <3>1. wizard' = wizard /\ traces' = Wizard!Stray(wizard.open \/ writes # {})
      BY <2>2 DEF Wizard!Settle
    <3>2. (wizard.open \/ writes # {}) \in BOOLEAN
      BY <1>2, <3>1
    <3> QED BY <1>2, <2>0, <3>1, <3>2, StrayTyped DEF Undisturbed
  <2>3. CASE Wizard!Esc
    BY <1>2, <2>3 DEF Wizard!Esc, Wizard!Closed
  <2>4. CASE Wizard!Tap \/ Wizard!Dec
    BY <1>2, <2>4 DEF Wizard!Tap, Wizard!Dec
  <2>5. CASE Wizard!OptionsFailed
    <3>1. UNCHANGED <<wizard, writes, traces>>
      BY <2>5 DEF Wizard!OptionsFailed
    <3> QED BY <1>2, <3>1, StillFits DEF Undisturbed
  <2>6. ASSUME NEW c \in writes, Wizard!Panic(c) \/ Wizard!Synced(c) PROVE FALSE
    BY <1>2, <2>6 DEF Wizard!Panic, Wizard!Synced, Wizard!Closed
  <2> QED BY <1>2, <2>1, <2>2, <2>3, <2>4, <2>5, <2>6, ToggleFits, AdvanceFits, ConfirmFits, OptionsFits,
          ServedFits, AnswerFits DEF Wizard!Next
<1>3. wizard'.open /\ Undisturbed' => Fitting(wizard', writes')
  BY <1>2
<1>4. Fitting(wizard', writes') <=> Fitting(wizard, writes)'
  BY DEF Fitting, Offering, PageIsFit, OrCrust, FitsWith, Stocked
<1> QED BY <1>1, <1>3, <1>4 DEF FitInv

LEMMA FitInit == Wizard!Init => FitInv
<1> QED BY DEF Wizard!Init, Wizard!Closed, FitInv, Truthful

\* The page that is shown is the one of the property.
LEMMA PageShown == FitInv => Wizard!PageFits
<1> SUFFICES ASSUME FitInv, wizard.open, wizard.phase = "choosing", Undisturbed
             PROVE  Wizard!PageFits
  BY DEF Wizard!PageFits, Undisturbed
<1>1. PageIsFit(wizard)
  BY DEF FitInv, Fitting
<1>2. \A g, sels : FitsWith(g, sels) <=> Wizard!HasStock(g, Gone) /\ Wizard!Accepts(sels \cup {Wizard!FirstIn(g, Gone)})
  BY DEF FitsWith
<1>3. Wizard!VariantSelections(wizard) = wizard.picked \cap Wizard!Variants
  BY DEF Wizard!VariantSelections
<1> QED BY <1>1, <1>2, <1>3, SameSequences DEF Wizard!PageFits, PageIsFit, OrCrust

LEMMA WizardFits == OrdersSpec => [](WizInv /\ WizHeld /\ FitInv)
<1>1. OrdersInit => FitInv
  BY FitInit DEF OrdersInit
<1>2. WizInv /\ WizHeld /\ FitInv /\ [OrdersNext]_<<focus, vars, shopVars, wizVars, cliVars>> => FitInv'
  <2> SUFFICES ASSUME WizInv, WizHeld, FitInv, [OrdersNext]_<<focus, vars, shopVars, wizVars, cliVars>> PROVE FitInv'
    OBVIOUS
  <2>1. [Wizard!Next]_wizVars
    BY DEF OrdersNext
  <2> QED BY <2>1, FitNext
<1> QED BY <1>1, <1>2, WizardHeld, PTL DEF OrdersSpec

\* WizardEnds: a wizard that waits is answered, and nothing of one that was given up stays
\* in Swiggy's cart. And unless a write failed or an answer strayed, the add-on page shows
\* only groups whose first choice Swiggy accepts with the variants that are picked, and each
\* optional group it leaves out does not fit, for every menu whose groups have choices.
THEOREM WizardAlwaysEnds == OrdersSpec => []WizardEnds
<1>1. WizInv /\ WizHeld /\ FitInv => WizardEnds
  BY PageShown DEF WizardEnds, WizInv, Waits, Flushed, Wizard!WizardIsAnswered, Wizard!DraftFlushed
<1> QED BY <1>1, WizardFits, PTL

-----------------------------------------------------------------------------
(* The types                                                                 *)

\* The rest of the cart's types: where the user is, and that no Enter chases for long.
VisitTypes ==
    /\ place \in {"away", "browse", "checkout", "done"} /\ modal \in BOOLEAN
    /\ sync.chase <= MaxChase

LEMMA FireChase ==
    ASSUME NEW s \in GroceryFlags
    PROVE  Shop!FireNow(s).chase = s.chase
<1> QED BY DEF Shop!FireNow, GroceryFlags

LEMMA KeysVisit == GroceryTypes /\ VisitTypes /\ Shop!Key => VisitTypes'
<1> SUFFICES ASSUME GroceryTypes, VisitTypes, Shop!Key PROVE VisitTypes'
  OBVIOUS
<1>0. sync \in GroceryFlags /\ sync.chase \in Nat /\ MaxChase \in Nat
  BY OrdersAssumption DEF GroceryTypes, GroceryFlags
<1>1. CASE \E p \in Products : Shop!Add(p) \/ Shop!Dec(p) \/ Shop!Inc(p)
  <2>1. UNCHANGED <<place, modal>> /\ sync' = [sync EXCEPT !.pending = TRUE]
    BY <1>1 DEF Shop!Add, Shop!Dec, Shop!Inc, Shop!Armed
  <2> QED BY <1>0, <2>1 DEF VisitTypes, GroceryFlags
<1>2. CASE \E p \in Products : Shop!Reduce(p)
  <2>1. UNCHANGED <<place, modal>> /\ sync' = [Shop!FireNow(sync) EXCEPT !.mutating = TRUE]
    BY <1>2 DEF Shop!Reduce
  <2>2. Shop!FireNow(sync) \in GroceryFlags /\ Shop!FireNow(sync).chase = sync.chase
    BY <1>0, FireTyped, FireChase
  <2> QED BY <1>0, <2>1, <2>2 DEF VisitTypes, GroceryFlags
<1>3. CASE Shop!Visit
  <2>1. place' = "browse" /\ UNCHANGED modal /\ sync' = [sync EXCEPT !.pulled = TRUE]
    BY <1>3 DEF Shop!Visit
  <2> QED BY <1>0, <2>1 DEF VisitTypes, GroceryFlags
<1>4. CASE Shop!Home \/ Shop!Back \/ Shop!No \/ Shop!DropPayment
  BY <1>4 DEF Shop!Home, Shop!Back, Shop!No, Shop!DropPayment, VisitTypes
<1>5. CASE Shop!ToCheckout
  <2>1. place' = "checkout" /\ UNCHANGED modal /\ (sync' = Shop!FireNow(sync) \/ sync' = sync)
    BY <1>5 DEF Shop!ToCheckout
  <2> QED BY <1>0, <2>1, FireChase DEF VisitTypes
<1>6. CASE Shop!Enter
  <2>1. /\ place' = place
        /\ \/ sync' = [Shop!FireNow(sync) EXCEPT !.confirmPending = TRUE, !.chase = 0, !.mutating = TRUE]
              /\ modal' = modal
           \/ sync' = sync /\ modal' = TRUE
    BY <1>6, Zenon DEF Shop!Enter
  <2>2. Shop!FireNow(sync) \in GroceryFlags
    BY <1>0, FireTyped
  <2>3. [Shop!FireNow(sync) EXCEPT !.confirmPending = TRUE, !.chase = 0, !.mutating = TRUE].chase = 0
    BY <2>2 DEF GroceryFlags
  <2>4. sync'.chase \in {0, sync.chase}
    BY <2>1, <2>3, Zenon
  <2>5. modal' \in BOOLEAN
    BY <2>1, Zenon DEF VisitTypes
  <2>6. place' \in {"away", "browse", "checkout", "done"}
    BY <2>1 DEF VisitTypes
  <2>7. sync'.chase <= MaxChase
    BY <1>0, <2>4 DEF VisitTypes
  <2> QED BY <2>5, <2>6, <2>7 DEF VisitTypes
<1>7. CASE Shop!Yes
  <2>1. /\ place' = place /\ modal' = FALSE
        /\ sync' = sync \/ sync' = [sync EXCEPT !.pending = FALSE, !.inFlight = TRUE]
    BY <1>7, Zenon DEF Shop!Yes
  <2> QED BY <1>0, <2>1 DEF VisitTypes, GroceryFlags
<1>8. CASE Shop!Leave
  <2>1. /\ place' = "away" /\ modal' = modal
        /\ sync' = [sync EXCEPT !.pending = FALSE, !.inFlight = FALSE, !.confirmPending = FALSE, !.pulled = FALSE]
    BY <1>8 DEF Shop!Leave
  <2> QED BY <1>0, <2>1 DEF VisitTypes, GroceryFlags
<1> QED BY <1>1, <1>2, <1>3, <1>4, <1>5, <1>6, <1>7, <1>8 DEF Shop!Key

\* Of the answers, one chases: as long as it may.
LEMMA SyncedVisit ==
    ASSUME GroceryTypes, VisitTypes, NEW c \in sent, Shop!Synced(c)
    PROVE  VisitTypes'
<1>0. sync \in GroceryFlags /\ sync.chase \in Nat /\ MaxChase \in Nat
  BY OrdersAssumption DEF GroceryTypes, GroceryFlags
<1>1. Shop!Landed \in GroceryFlags /\ Shop!Landed.chase = sync.chase
  BY <1>0 DEF Shop!Landed, GroceryFlags
<1>2. /\ place' = place /\ modal' \in BOOLEAN
      /\ \/ sync' = Shop!Landed
         \/ sync' = [Shop!Landed EXCEPT !.confirmPending = FALSE]
         \/ /\ sync.chase < MaxChase
            /\ sync' = Shop!FireNow([Shop!Landed EXCEPT !.chase = @ + 1, !.mutating = TRUE])
         \/ \E p : sync' = [Shop!Landed EXCEPT !.confirmPending = FALSE, !.pending = p]
  BY DEF Shop!Synced, Shop!Place, Shop!Chase, VisitTypes
<1>3. CASE sync' = Shop!FireNow([Shop!Landed EXCEPT !.chase = @ + 1, !.mutating = TRUE]) /\ sync.chase < MaxChase
  <2> DEFINE s == [Shop!Landed EXCEPT !.chase = @ + 1, !.mutating = TRUE]
  <2>1. Shop!Landed.chase + 1 \in Nat
    BY <1>0, <1>1
  <2>2. s \in GroceryFlags /\ s.chase = Shop!Landed.chase + 1
    BY <1>1, <2>1 DEF GroceryFlags
  <2>3. sync' = Shop!FireNow(s)
    BY <1>3, Zenon
  <2> HIDE DEF s
  <2>4. sync'.chase = sync.chase + 1
    BY <1>1, <2>2, <2>3, FireChase
  <2>5. sync'.chase <= MaxChase
    BY <1>0, <1>3, <2>4
  <2> QED BY <1>2, <2>5 DEF VisitTypes
<1>4. CASE sync' = Shop!Landed \/ sync' = [Shop!Landed EXCEPT !.confirmPending = FALSE]
           \/ \E p : sync' = [Shop!Landed EXCEPT !.confirmPending = FALSE, !.pending = p]
  <2>1. sync'.chase = sync.chase
    BY <1>1, <1>4 DEF GroceryFlags
  <2> QED BY <1>0, <1>2, <2>1 DEF VisitTypes
<1> QED BY <1>2, <1>3, <1>4

LEMMA AnswerVisit ==
    ASSUME GroceryTypes, VisitTypes, NEW c \in sent, Shop!Answer(c)
    PROVE  VisitTypes'
<1>0. sync \in GroceryFlags /\ sync.chase \in Nat
  BY DEF GroceryTypes, GroceryFlags
<1>1. CASE Shop!SyncFailed(c)
  <2>1. /\ UNCHANGED <<place, modal>>
        /\ \/ sync' = [sync EXCEPT !.confirmPending = FALSE, !.rebuilt = TRUE, !.mutating = TRUE, !.inFlight = TRUE]
           \/ \E b : sync' = [sync EXCEPT !.confirmPending = FALSE, !.inFlight = FALSE, !.mutating = FALSE,
                                          !.closed = b]
    BY <1>1 DEF Shop!SyncFailed
  <2>2. sync'.chase = sync.chase
    BY <1>0, <2>1 DEF GroceryFlags
  <2> QED BY <2>1, <2>2 DEF VisitTypes
<1>2. CASE Shop!CartLoaded(c) \/ Shop!CartPulled(c) \/ Shop!UPIPlaced(c)
  BY <1>2 DEF Shop!CartLoaded, Shop!CartPulled, Shop!UPIPlaced, VisitTypes
<1>3. CASE Shop!OrderPlaced(c)
  BY <1>3 DEF Shop!OrderPlaced, VisitTypes
<1> QED BY <1>1, <1>2, <1>3, SyncedVisit DEF Shop!Answer

LEMMA VisitNext == GroceryTypes /\ VisitTypes /\ [Shop!Next]_shopVars => VisitTypes'
<1> SUFFICES ASSUME GroceryTypes, VisitTypes, [Shop!Next]_shopVars PROVE VisitTypes'
  OBVIOUS
<1>0. sync \in GroceryFlags
  BY DEF GroceryTypes
<1>1. CASE UNCHANGED shopVars
  BY <1>1 DEF shopVars, VisitTypes
<1>2. CASE Shop!Settle
  BY <1>0, <1>2, FireChase DEF Shop!Settle, VisitTypes
<1>3. CASE Shop!PaymentPolled
  BY <1>3 DEF Shop!PaymentPolled, VisitTypes
<1>4. CASE Shop!Move \/ \E c \in sent : Shop!Serve(c)
  BY <1>4 DEF Shop!Move, Shop!Serve, Shop!loop, VisitTypes
<1>5. CASE Shop!Key \/ \E c \in sent : Shop!Answer(c)
  BY <1>5, KeysVisit, AnswerVisit
<1> QED BY <1>1, <1>2, <1>3, <1>4, <1>5 DEF Shop!Next

LEMMA VisitInit == Shop!Init => VisitTypes
<1> SUFFICES ASSUME Shop!Init PROVE VisitTypes
  OBVIOUS
<1>1. place = "away" /\ modal = FALSE /\ sync.chase = 0
  BY DEF Shop!Init
<1>2. sync.chase <= MaxChase
  BY <1>1, OrdersAssumption
<1> QED BY <1>1, <1>2 DEF VisitTypes

\* What a cart costs is a number.
LEMMA AmountsAreNumbers == Amounts \subseteq Nat
<1>1. ASSUME NEW u \in Shop!Carts PROVE Shop!Units(u) \in Nat
  <2>1. u \in [Products -> Nat]
    BY OrdersAssumption DEF Shop!Carts
  <2>2. Shop!Units(u) = FoldFunction(+, 0, u)
    BY DEF Shop!Units, Shop!FoldFunction, Shop!FoldFunctionOnSet, Shop!MapThenFoldSet,
       FoldFunction, FoldFunctionOnSet, MapThenFoldSet
  <2> QED BY <2>1, <2>2, SumIsNat, OrdersAssumption
<1> QED BY <1>1 DEF Amounts

LEMMA GroceryTyped == GroceryTypes /\ VisitTypes => Shop!IMTypeOK
<1> SUFFICES ASSUME GroceryTypes, VisitTypes PROVE Shop!IMTypeOK
  OBVIOUS
<1>1. GroceryAnswers \subseteq Shop!Answers
  BY AmountsAreNumbers DEF GroceryAnswers, Shop!Answers
<1>2. sent \subseteq Shop!Commands /\ live \in Shop!Answers
  BY <1>1 DEF GroceryTypes, GroceryCommands, Shop!Commands
<1>3. order \in [placing : BOOLEAN, placePending : BOOLEAN, total : Nat, approved : Shop!Carts,
                 pay : {"idle", "waiting", "confirming", "failed"}]
  BY AmountsAreNumbers DEF GroceryTypes, GroceryOrders
<1>4. sync \in [pending : BOOLEAN, inFlight : BOOLEAN, mutating : BOOLEAN, confirmPending : BOOLEAN,
                chase : 0..MaxChase, rebuilt : BOOLEAN, pulled : BOOLEAN, closed : BOOLEAN]
  <2>1. sync.chase \in 0..MaxChase
    BY OrdersAssumption DEF GroceryTypes, GroceryFlags, VisitTypes
  <2> QED BY <2>1 DEF GroceryTypes, GroceryFlags
<1>5. store.units \in Shop!Carts /\ store.limit \in 1..MaxQty /\ store.surge \in {0, 1}
  BY DEF GroceryTypes, GroceryStores
<1> QED BY <1>2, <1>3, <1>4, <1>5 DEF GroceryTypes, GroceryLines, VisitTypes, Shop!IMTypeOK

LEMMA CommandIsTyped == CliInv => Command!CliTypeOK
<1> QED BY DEF CliInv, CliTypes, CmdRecord, ShopRecord, Command!CliTypeOK

\* OrdersTypeOK: in the four models every variable has its type, for any number of calls,
\* products, groups of choices and presets. A total is a number, which is why the cart's
\* products have to be finitely many; an Enter chases MaxChase writes at most.
THEOREM OrdersTyped == OrdersSpec => []OrdersTypeOK
<1> DEFINE P == IInv /\ LookInv
           G == GroceryInv /\ VisitTypes
<1>1. OrdersInit => P /\ G /\ CliInv
  BY InitInv, LookInit, GroceryInit, VisitInit, CliInitInv DEF OrdersInit
<1>2. P /\ [OrdersNext]_<<focus, vars, shopVars, wizVars, cliVars>> => P'
  <2>1. [OrdersNext]_<<focus, vars, shopVars, wizVars, cliVars>> => [Next]_vars
    BY DEF OrdersNext
  <2> QED BY <2>1, NextInv, LookNext
<1>3. G /\ [OrdersNext]_<<focus, vars, shopVars, wizVars, cliVars>> => G'
  <2> SUFFICES ASSUME G, [OrdersNext]_<<focus, vars, shopVars, wizVars, cliVars>> PROVE G'
    OBVIOUS
  <2>1. [Shop!Next]_shopVars \/ Shop!Leave \/ \E c \in sent : Shop!Serve(c) \/ Shop!Answer(c)
    BY DEF OrdersNext, ShopNext
  <2>2. [Shop!Next]_shopVars
    BY <2>1 DEF Shop!Next, Shop!Key
  <2> QED BY <2>2, GroceryNext, VisitNext DEF GroceryInv
<1>4. P /\ G /\ CliInv /\ WizInv /\ WizHeld => OrdersTypeOK
  BY PlacementTyped, GroceryTyped, CommandIsTyped, WizardTyped DEF GroceryInv, OrdersTypeOK
<1> QED BY <1>1, <1>2, <1>3, <1>4, CliNextInv, WizardHeld, PTL DEF OrdersSpec

=============================================================================
