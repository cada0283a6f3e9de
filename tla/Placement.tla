----------------------------- MODULE Placement -----------------------------
(***************************************************************************)
(* Placing an order that cannot be taken back (internal/swiggy/orders.go   *)
(* and payment.go). The cash path of both verticals, PlaceFoodOrder and    *)
(* Checkout, goes through placeWithVerify: read the active orders, place   *)
(* once, and when the answer leaves open whether the order was placed, read *)
(* again and take an order that was not there before. The UPI path places  *)
(* once and believes the answer.                                           *)
(*                                                                         *)
(* The network may lose an answer, and deliver a request after its client  *)
(* gave up. Orders are numbered in the order in which they are placed.     *)
(***************************************************************************)
EXTENDS Integers, Sequences, FiniteSets

CONSTANTS
    Calls,       \* calls of PlaceFoodOrder, Checkout and their UPI forms, on one account
    Other,       \* the same account's other devices
    MaxForeign,  \* bound: orders placed by them
    LiveOrders   \* liveOrdersEnabled

ASSUME OtherAssumption == Other \notin Calls
ASSUME BoundAssumption == MaxForeign \in Nat
ASSUME ArmingAssumption == LiveOrders \in BOOLEAN

VARIABLES
    orders,   \* at Swiggy: who placed each order of the account, in order
    wire,     \* place requests that may still reach Swiggy
    call      \* each call's progress

vars == <<orders, wire, call>>

Kinds == {"cash", "upi"}
Ids == 1..Len(orders)
PlacedBy(c) == {i \in Ids : orders[i] = c}

\* What a place request may bring back: an order id, a 200 without one, a 200 whose
\* envelope CallTool cannot read, a rejection (4xx, auth, isError), a 429 or 5xx, a
\* timeout, or another transport error.
Outcomes == {"ok", "drifted", "unreadable", "rejected", "transient", "timeout", "reset"}

\* The order was placed, was not, or nobody can tell.
Answered == {"ok", "drifted", "unreadable"}
Possible(c, o) == /\ o \in Answered => PlacedBy(c) # {}
                  /\ o = "rejected" => PlacedBy(c) = {}

\* Mutant: blind to timeouts.
SucceededIfTransient(o) == o = "transient"

\* mayHaveSucceeded, of an error of CallTool.
MayHaveSucceeded(o) == o \in {"transient", "timeout"}

\* Outcomes after which placeWithVerify looks for the order.
Doubtful(o) == o = "drifted" \/ MayHaveSucceeded(o)

\* known is the first read (the code's set of ids), read and blind whether the first
\* read succeeded and whether either read failed. first and seen are history: the next
\* order's number when the call began, and the orders there were when it returned.
Fresh == [pc |-> "idle", kind |-> "cash", known |-> {}, read |-> FALSE, blind |-> FALSE,
          outcome |-> "none", result |-> "none", id |-> 0, first |-> 0, seen |-> {}]

Init ==
    /\ orders = <<>>
    /\ wire = {}
    /\ call = [c \in Calls |-> Fresh]

At(c, pc) == call[c].pc = pc

Returned(r, result, id) == [r EXCEPT !.pc = "done", !.result = result, !.id = id, !.seen = Ids]
Return(c, result, id) == call' = [call EXCEPT ![c] = Returned(@, result, id)]

-----------------------------------------------------------------------------
(* The account at Swiggy *)

\* A request that is still under way arrives; its client may be gone.
Lands(c) ==
    /\ c \in wire
    /\ orders' = Append(orders, c)
    /\ wire' = wire \ {c}
    /\ UNCHANGED call

\* It never does.
Dropped(c) ==
    /\ c \in wire
    /\ wire' = wire \ {c}
    /\ UNCHANGED <<orders, call>>

\* The user orders something else on the phone.
Foreign ==
    /\ Cardinality(PlacedBy(Other)) < MaxForeign
    /\ orders' = Append(orders, Other)
    /\ UNCHANGED <<wire, call>>

-----------------------------------------------------------------------------
(* placeWithVerify *)

\* A call begins; disarmed, it ends there.
Begin(c, kind, pc) ==
    /\ At(c, "idle")
    /\ LET r == [Fresh EXCEPT !.kind = kind, !.first = Len(orders) + 1] IN
       call' = [call EXCEPT ![c] = IF LiveOrders THEN [r EXCEPT !.pc = pc]
                                                ELSE Returned(r, "failed", 0)]
    /\ UNCHANGED <<orders, wire>>

BeginCash(c) == Begin(c, "cash", "before")
BeginUPI(c) == Begin(c, "upi", "place")

\* The first read of the active orders.
SnapshotBefore(c) ==
    /\ At(c, "before")
    /\ call' = [call EXCEPT ![c].pc = "place", ![c].known = Ids, ![c].read = TRUE]
    /\ UNCHANGED <<orders, wire>>

\* It fails: an auth failure ends the call, another one gives up the recovery.
SnapshotFails(c, auth) ==
    /\ At(c, "before")
    /\ IF auth THEN Return(c, "failed", 0)
               ELSE call' = [call EXCEPT ![c].pc = "place", ![c].blind = TRUE]
    /\ UNCHANGED <<orders, wire>>

\* CallTool's single attempt at the order.
Place(c) ==
    /\ At(c, "place")
    /\ wire' = wire \cup {c}
    /\ call' = [call EXCEPT ![c].pc = "placing"]
    /\ UNCHANGED orders

\* The request comes to an end. What was answered or rejected is no longer under way.
Settled == Answered \cup {"rejected"}

EndRequest(c, o) ==
    /\ At(c, "placing")
    /\ Possible(c, o)
    /\ wire' = IF o \in Settled THEN wire \ {c} ELSE wire
    /\ UNCHANGED orders

\* The call's record after it.
Ended(c, o) == [call[c] EXCEPT !.outcome = o]

Placed(c, o) ==
    /\ o = "ok"
    /\ \E i \in PlacedBy(c) : call' = [call EXCEPT ![c] = Returned(Ended(c, o), "placed", i)]

\* Mutant: the second read is compared with a first one that failed.
VerifiesBlind(c, o) == Doubtful(o)

\* Does placeWithVerify read again after this outcome? Not without a first read.
Verifies(c, o) == Doubtful(o) /\ call[c].read

CashReturns(c, o) ==
    /\ call[c].kind = "cash"
    /\ EndRequest(c, o)
    /\ \/ Placed(c, o)
       \/ /\ o # "ok" /\ Verifies(c, o)
          /\ call' = [call EXCEPT ![c] = [Ended(c, o) EXCEPT !.pc = "after"]]
       \/ /\ o # "ok" /\ ~Verifies(c, o)
          /\ call' = [call EXCEPT ![c] = Returned(Ended(c, o), "failed", 0)]

\* The UPI path verifies nothing: an answer without an order or payment id is a failure.
UPIReturns(c, o) ==
    /\ call[c].kind = "upi"
    /\ EndRequest(c, o)
    /\ \/ Placed(c, o)
       \/ /\ o # "ok"
          /\ call' = [call EXCEPT ![c] = Returned(Ended(c, o), "failed", 0)]

\* Mutant: every failure is looked into, and nothing found means another attempt.
NothingPlacesAgain(c) ==
    /\ At(c, "after")
    /\ Ids \ call[c].known = {}
    /\ call' = [call EXCEPT ![c].pc = "place"]
    /\ UNCHANGED <<orders, wire>>

\* Mutant: an order of the list that shows no id (0) is taken as well.
UnknownOrBlank(c) == (Ids \cup {0}) \ call[c].known

\* The second read: the first order with an id that was not there before stands for this
\* one. The list's order is Swiggy's.
Unknown(c) == Ids \ call[c].known

Recover(c) ==
    /\ At(c, "after")
    /\ \E i \in Unknown(c) : Return(c, "placed", i)
    /\ UNCHANGED <<orders, wire>>

RecoverNothing(c) ==
    /\ At(c, "after")
    /\ Unknown(c) = {}
    /\ Return(c, "failed", 0)
    /\ UNCHANGED <<orders, wire>>

\* The second read fails: the error of the place is returned.
RecoverFails(c) ==
    /\ At(c, "after")
    /\ call' = [call EXCEPT ![c] = [Returned(@, "failed", 0) EXCEPT !.blind = TRUE]]
    /\ UNCHANGED <<orders, wire>>

-----------------------------------------------------------------------------

Step(c) ==
    \/ SnapshotBefore(c) \/ (\E auth \in BOOLEAN : SnapshotFails(c, auth))
    \/ Place(c) \/ (\E o \in Outcomes : CashReturns(c, o) \/ UPIReturns(c, o))
    \/ Recover(c) \/ RecoverNothing(c) \/ RecoverFails(c)

Next ==
    \/ \E c \in Calls : \/ BeginCash(c) \/ BeginUPI(c)
                        \/ Step(c)
                        \/ Lands(c)
                        \/ Dropped(c)
    \/ Foreign

Spec == Init /\ [][Next]_vars

-----------------------------------------------------------------------------
(* Properties *)

TypeOK ==
    /\ orders \in Seq(Calls \cup {Other})
    /\ wire \subseteq Calls
    /\ call \in [Calls ->
          [pc : {"idle", "before", "place", "placing", "after", "done"}, kind : Kinds,
           known : SUBSET Ids, read : BOOLEAN, blind : BOOLEAN,
           outcome : Outcomes \cup {"none"}, result : {"none", "placed", "failed"},
           id : Ids \cup {0}, first : Nat, seen : SUBSET Ids]]
    /\ \A c \in Calls : call[c].result = "placed" => call[c].id # 0

\* However its request is delayed, answered or recovered, a call places one order.
OneOrderPerCall == \A c \in Calls : Cardinality(PlacedBy(c)) <= 1

\* An order reported as placed is the call's own, or (the limitation orders.go:117
\* documents) another one that was placed while the call ran: never an older order.
SuccessIsReal ==
    \A c \in Calls : call[c].result = "placed" =>
        orders[call[c].id] = c \/ call[c].id >= call[c].first

\* A cash order that left its mark before the call returned is not reported as failed,
\* if both reads worked and the error was one that placeWithVerify looks into.
NothingOverlooked ==
    \A c \in Calls :
        /\ call[c].result = "failed" /\ call[c].kind = "cash" /\ ~call[c].blind
        /\ call[c].outcome \in {"drifted", "transient", "timeout"}
        => PlacedBy(c) \cap call[c].seen = {}

\* "A definitive rejection (4xx validation, auth, arming) - the order did not place; no
\* recovery to attempt" (orders.go:161): what the code takes for one includes a
\* connection that broke and a 200 CallTool could not read. A run refutes this.
RejectionIsDefinitive ==
    \A c \in Calls :
        /\ call[c].result = "failed" /\ call[c].kind = "cash"
        /\ call[c].outcome \in Outcomes /\ ~Doubtful(call[c].outcome)
        => PlacedBy(c) = {}

=============================================================================
