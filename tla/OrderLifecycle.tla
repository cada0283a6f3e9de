--------------------------- MODULE OrderLifecycle ---------------------------
(***************************************************************************)
(* What the ordering server promises its agent, whatever its handlers do   *)
(* inside: a confirmation is good for one attempt to order, a payment is   *)
(* settled once, by one confirm at a time, and only for a confirmation     *)
(* that was spent.  McpServer implements this.                             *)
(***************************************************************************)
CONSTANTS ConfIds, PayIds, None

VARIABLES
  ticket,     \* the life of each confirmation
  purse,      \* the life of each payment
  buys        \* the confirmation each payment pays for

lifeVars == <<ticket, purse, buys>>

\* unused -> open -> in hand -> ordered; a ticket is void once it was given up.
TicketMoves == {<<"unused", "open">>, <<"open", "void">>, <<"open", "inhand">>,
                <<"inhand", "ordered">>, <<"inhand", "void">>}

\* A held payment is confirmed by at most one call at a time.  It may be
\* forgotten at any moment; a confirm already on its way is still answered.
PurseMoves == {<<"none", "held">>, <<"none", "lost">>, <<"held", "claimed">>,
               <<"claimed", "held">>, <<"claimed", "settled">>,
               <<"held", "lost">>, <<"claimed", "lost">>}

Init == /\ ticket = [i \in ConfIds |-> "unused"]
        /\ purse = [p \in PayIds |-> "none"]
        /\ buys = [p \in PayIds |-> None]

TicketStep(i) == \/ ticket'[i] = ticket[i]
                 \/ <<ticket[i], ticket'[i]>> \in TicketMoves

PurseStep(p) ==
  /\ \/ purse'[p] = purse[p]
     \/ <<purse[p], purse'[p]>> \in PurseMoves
  /\ \/ buys'[p] = buys[p]
     \/ buys[p] = None /\ purse[p] = "none"
  /\ purse'[p] # "none" /\ purse'[p] # purse[p] =>
       buys'[p] # None /\ ticket'[buys'[p]] = "ordered"

\* One payment per order.
OneEach == \A p, q \in PayIds : buys'[p] # None /\ buys'[p] = buys'[q] => p = q

Next == /\ \A i \in ConfIds : TicketStep(i)
        /\ \A p \in PayIds : PurseStep(p)
        /\ OneEach

Spec == Init /\ [][Next]_lifeVars
=============================================================================
