----------------------------- MODULE MCPlacement -----------------------------
(* Two calls of Placement, and next to them the Instamart cart              *)
(* of the terminal interface (TuiInstamart), its wizard (TuiWizard) and the *)
(* order of the command line (CliOrder).                                    *)
(* They share no state in the models: `focus` says which one moves, the     *)
(* others stay as they start.                                               *)
(* The Instamart cart is explored once from any cart with more edits, and   *)
(* once from an empty one with a fault; both end with an order, after which *)
(* nothing is claimed of it.                                                *)
EXTENDS Placement, TLC

CONSTANTS Products, MaxQty, Floor, Cap, MaxChase, MaxEdits, MaxYes, MaxFaults, MaxReads,
          VarGroups, Required, Optional, NameOf, Hints, Clash, Gone, MaxTaps, MaxToggles, MaxWire,
          MaxKeys, MaxErrors, MaxMatches,
          thin, pan, st, sp, lp, r1, r2, o1, x1

\* The bounds are counts, a preset may have the name, the shop has its products.
ASSUME OrdersAssumption ==
    /\ MaxMatches \in Nat \ {0} /\ {MaxKeys, MaxErrors, MaxForeign, MaxQty, MaxChase} \subseteq Nat
    /\ IsFiniteSet(Products)

VARIABLES focus, place, modal, lines, base, live, sync, order, sent, store, past,
          wizard, dishes, confirmed, flags, writes, asked, cart, traces,
          cmd, keys, ctrlC, shop, log

shopVars == <<place, modal, lines, base, live, sync, order, sent, store, past>>

Shop == INSTANCE TuiInstamart WITH wire <- sent

wizVars == <<wizard, dishes, confirmed, flags, writes, asked, cart, traces>>

Wizard == INSTANCE TuiWizard WITH lines <- dishes, base <- confirmed, sync <- flags, wire <- writes,
                                  past <- traces, MaxEdits <- MaxToggles

ASSUME WizardAssumption == Wizard!GroupsHaveChoices /\ {MaxTaps, MaxWire} \subseteq Nat

cliVars == <<cmd, keys, ctrlC, shop, log>>

Command == INSTANCE CliOrder

Shopping == {"edits", "faults"}

OrdersInit ==
    /\ focus \in {"place", "wizard", "command"} \cup Shopping
    /\ Init /\ Wizard!Init
    /\ Command!CliInit /\ (focus # "command" => cmd.matches = 0 /\ cmd.given = 0 /\ cmd.armed /\ cmd.interactive)
    /\ Shop!Init /\ (focus # "edits" => store.units = Shop!Empty /\ store.limit = MaxQty)

ShopNext ==
    /\ \/ ~past.loose /\ Shop!Next
       \/ past.loose /\ (Shop!Leave \/ \E c \in sent : Shop!Serve(c) \/ Shop!Answer(c))
    /\ IF focus = "edits" THEN past'.faults = 0 ELSE past'.edits < MaxEdits

OrdersNext ==
    \/ focus = "place" /\ Next /\ UNCHANGED <<focus, shopVars, wizVars, cliVars>>
    \/ focus \in Shopping /\ ShopNext /\ UNCHANGED <<focus, vars, wizVars, cliVars>>
    \/ focus = "wizard" /\ Wizard!Next /\ UNCHANGED <<focus, vars, shopVars, cliVars>>
    \/ focus = "command" /\ Command!CliNext /\ UNCHANGED <<focus, vars, shopVars, wizVars>>

OrdersSpec == OrdersInit /\ [][OrdersNext]_<<focus, vars, shopVars, wizVars, cliVars>>

\* What does not move stays as it was checked in the initial states.
OrdersTypeOK ==
    /\ focus = "place" => TypeOK
    /\ focus \in Shopping => Shop!IMTypeOK
    /\ focus = "wizard" => Wizard!WizTypeOK
    /\ focus = "command" => Command!CliTypeOK
IMCartIsTrue == focus \in Shopping => Shop!IMGate /\ Shop!NoPhantom
IMOrderedAsApproved == Shop!IMOrderedAsApproved
WizardEnds == focus = "wizard" => Wizard!WizardIsAnswered /\ Wizard!DraftFlushed /\ Wizard!PageFits
CommandIsTrue == focus = "command" =>
    Command!CliOneOrder /\ Command!CliPlacedIsReal /\ Command!CliNothingHidden
AddedAsConfirmed == Wizard!AddedAsConfirmed

\* A crust by size, where the size "small" is a row for each crust; two groups of
\* required add-ons, one named for its crust; an optional one that starts with a
\* choice that is sold out. Every choice clashes with some other.
SomeVariants == << <<thin, pan>>, <<st, sp, lp>> >>
SomeRequired == << <<r1>>, <<r2>> >>
SomeOptional == << <<x1, o1>> >>
SomeNames == thin :> "thin" @@ pan :> "pan" @@ st :> "small" @@ sp :> "small" @@ lp :> "large"
SomeHints == {<< <<r2>>, "pan" >>}
SomeClashes == {{thin, sp}, {thin, lp}, {pan, st}, {pan, r1}, {st, r2}, {sp, r1}, {sp, o1}, {lp, r1}}
=============================================================================
