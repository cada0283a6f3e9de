----------------------------- MODULE TuiWizard -----------------------------
(* The wizard of the terminal interface for a dish whose add-ons depend on  *)
(* its variant (internal/tui/app.go, screens/wizard.go). Swiggy does not say *)
(* what fits what, so the wizard asks: each question is a write of the whole *)
(* cart with the dish as a draft, and whether Swiggy accepts it is the       *)
(* answer. The questions are outside the one write at a time of the cart,    *)
(* and their answers carry no tag: the phase says what the next one means.   *)
(*                                                                           *)
(* Left out: the conflict of two restaurants, the customize sheet, and the   *)
(* pages kept per combination, which no key can reach (nothing goes back to  *)
(* a variant page). The cart holds lines of this one dish.                   *)
EXTENDS Naturals, Sequences, FiniteSets, Bags, SequencesExt

CONSTANTS
  VarGroups,  \* the variant groups in order (crust, size), each a sequence of choices
  Required,   \* the add-on groups with Min = 1 and Max = 1, each a sequence of choices
  Optional,   \* the add-on groups with Min = 0 and no Max
  NameOf,     \* choice -> the name it is shown under; rows of a matrix share one
  Hints,      \* <<group, name>>: the name of the group contains the name of the variant
  Clash,      \* the pairs of choices Swiggy does not accept together
  Gone,       \* the add-ons that are sold out; only Swiggy's cart knows
  MaxTaps,    \* bound: dishes opened
  MaxEdits,   \* bound: toggles, and keys that change the cart, each
  MaxFaults,  \* bound: writes that fail
  MaxWire     \* bound: writes under way

VARIABLES
  wizard,  \* the wizard, or Closed
  lines,   \* m.lines, a bag of selections
  base,    \* confirmedLines
  sync,    \* cartSyncPending, cartSyncInFlight
  wire,    \* the writes under way
  asked,   \* LoadItemOptions under way
  cart,    \* Swiggy's cart, with the draft that came with it
  past     \* history: bounds, and whether an answer may be taken for another

wizVars == <<wizard, lines, base, sync, wire, asked, cart, past>>

Variants == UNION {ToSet(g) : g \in ToSet(VarGroups)}
AddOns == UNION {ToSet(g) : g \in ToSet(Required) \cup ToSet(Optional)}
Rows == Variants \cup AddOns
Selections == SUBSET Rows

\* A dish that has a wizard has a group of variants; a group without a choice is
\* dropped when the answer is read; a choice is that of a variant or of an add-on.
GroupsHaveChoices ==
  /\ VarGroups # <<>> /\ {VarGroups, Required, Optional} \subseteq Seq(Seq(Rows) \ {<<>>})
  /\ Variants \cap AddOns = {}

\* A draft is a set of no or one selections.
NoDraft == {}

Closed == [open |-> FALSE]
Phases == {"pick", "pricing", "scope", "crust", "optional", "choosing"}

\* page: the groups shown; out: what was sold out when they were shown; shown: how
\* many pages are variant pages; picked: over all pages; stock: wizardStock has
\* been told; todo and found: the candidates of the phase and what was accepted; at:
\* the candidate that is asked about, 0 when none is left.
Opened(priced) ==
  [open |-> TRUE, phase |-> "pick", loading |-> FALSE, priced |-> priced,
   page |-> <<VarGroups[1]>>, out |-> {}, pages |-> 1, shown |-> 1, picked |-> {}, stock |-> FALSE,
   todo |-> <<>>, at |-> 1, found |-> <<>>, crust |-> <<>>, subtotal |-> NoDraft]

Write(n, bag, draft) == [id |-> n, lines |-> bag, draft |-> draft, state |-> "sent", cart |-> [lines |-> EmptyBag, draft |-> NoDraft]]
Free == CHOOSE n \in 1..(MaxWire + 1) : \A c \in wire : c.id # n
Sent(draft) == wire \cup {Write(Free, lines, draft)}

Init ==
  /\ wizard = Closed
  /\ lines = EmptyBag /\ base = EmptyBag /\ cart = [lines |-> EmptyBag, draft |-> NoDraft]
  /\ sync = [pending |-> FALSE, inFlight |-> FALSE] /\ wire = {} /\ asked = 0
  /\ past = [taps |-> 0, edits |-> 0, toggles |-> 0, faults |-> 0, stray |-> FALSE]

\* history: from now on an answer may be taken for another one.
Stray(when) == [past EXCEPT !.stray = @ \/ when]

-----------------------------------------------------------------------------
(* Groups, choices and pages                                                 *)

SoldOut(w) == IF w.stock THEN Gone ELSE {}
\* firstInStockChoice, of a group that is known to have one
HasStock(g, out) == \E c \in ToSet(g) : c \notin out
FirstIn(g, out) == g[SelectInSeq(g, LAMBDA c : c \notin out)]

\* The elements of a sequence that are in a set, in their order.
Only(seq, K) == FoldLeft(LAMBDA acc, x : IF x \in K THEN Append(acc, x) ELSE acc, <<>>, seq)

\* newWizPage: the first choice in stock of a group that requires one is picked.
Single(g) == g \notin ToSet(Optional)
Defaults(page, out) == {FirstIn(g, out) : g \in {h \in ToSet(page) : Single(h) /\ HasStock(h, out)}}
AddPage(w, page, out) ==
  [w EXCEPT !.page = page, !.out = out, !.pages = @ + 1, !.picked = @ \cup Defaults(page, out), !.loading = FALSE]

OnVariantPage(w) == w.pages <= w.shown
PageValid(w) == \A g \in ToSet(w.page) : Single(g) => w.picked \cap ToSet(g) # {}
VariantSelections(w) == w.picked \cap Variants

Toggled(w, g, c) ==
  IF c \in w.picked THEN w.picked \ {c}
  ELSE IF c \in w.out THEN w.picked
  ELSE IF Single(g) THEN (w.picked \ ToSet(g)) \cup {c} ELSE w.picked \cup {c}

\* requiredDefaultsForVariants
RequiredDefaults(w) ==
  {FirstIn(g, SoldOut(w)) : g \in {h \in ToSet(Required) :
     /\ HasStock(h, SoldOut(w))
     /\ Len(Required) = 1 \/ \E v \in VariantSelections(w) : <<h, NameOf[v]>> \in Hints}}

\* trialOrder: the groups with the variant in their name first, sold out or not.
TrialOrder(w) ==
  LET hinted == {g \in ToSet(Required) : \E v \in w.picked \cap ToSet(VarGroups[1]) : <<g, NameOf[v]>> \in Hints}
  IN  Only(Required, hinted) \o Only(Required, ToSet(Required) \ hinted)

\* orderScopeChoices: by name, in the order in which the names appear; rows of one
\* name come cheapest first.
ByName(g) ==
  FoldLeft(LAMBDA acc, c : IF Contains(acc, c) THEN acc
                           ELSE acc \o Only(g, {d \in ToSet(g) : NameOf[d] = NameOf[c]}), <<>>, g)

-----------------------------------------------------------------------------
(* Questions                                                                 *)

\* wizardSubtotalCmd
PriceQuestion(w) == VariantSelections(w) \cup RequiredDefaults(w)
\* enterVariantPage, and the question it sends.
Asks(w) == w.shown >= Len(VarGroups) /\ ~w.priced
EnterVariantPage(w) ==
  IF Asks(w) THEN [w EXCEPT !.phase = "pricing", !.loading = TRUE, !.subtotal = NoDraft]
  ELSE [w EXCEPT !.phase = "pick", !.loading = FALSE]
EnterAsks(w) == IF Asks(w) THEN Sent({PriceQuestion(w)}) ELSE wire

\* scopeVariantCmd, wizardTrialCmd, wizardOptionalCmd: the question at w.at.
Base(w) == w.picked \cup IF w.crust = <<>> THEN {} ELSE {FirstIn(w.crust, {})}
Question(w) ==
  CASE w.phase = "scope" -> VariantSelections(w) \cup {w.todo[w.at]}
    [] w.phase = "crust" -> IF w.todo = <<>> THEN VariantSelections(w) ELSE w.picked \cup {FirstIn(w.todo[w.at], {})}
    [] w.phase = "optional" -> Base(w) \cup {FirstIn(w.todo[w.at], SoldOut(w))}

\* finishDiscovery
Finish(w) ==
  LET page == (IF w.crust = <<>> THEN <<>> ELSE <<w.crust>>) \o w.found
  IN  [AddPage(w, page, SoldOut(w)) EXCEPT !.phase = "choosing"]

\* beginOptionalDiscovery: groups that are sold out are skipped.
BeginOptional(w) ==
  LET some == Only(Optional, {g \in ToSet(Optional) : HasStock(g, SoldOut(w))})
      next == [w EXCEPT !.found = <<>>, !.todo = some, !.at = 1, !.phase = "optional", !.loading = TRUE]
  IN  IF some = <<>> THEN Finish(next) ELSE next

-----------------------------------------------------------------------------
(* Keys                                                                      *)

\* restIncSelected: the options of the dish are asked for.
Tap ==
  /\ ~wizard.open /\ past.taps < MaxTaps
  /\ asked' = asked + 1 /\ past' = [past EXCEPT !.taps = @ + 1]
  /\ UNCHANGED <<wizard, lines, base, sync, wire, cart>>

\* "-" on a dish of the cart; its write is armed.
Dec ==
  /\ ~wizard.open /\ past.edits < MaxEdits
  /\ \E sels \in BagToSet(lines) : lines' = lines (-) SetToBag({sels})
  /\ sync' = [sync EXCEPT !.pending = TRUE]
  /\ past' = [past EXCEPT !.edits = @ + 1]
  /\ UNCHANGED <<wizard, base, wire, asked, cart>>

\* settledCartSync, which does not look at the wizard.
Settle ==
  /\ sync.pending /\ ~sync.inFlight
  /\ sync' = [pending |-> FALSE, inFlight |-> TRUE]
  /\ wire' = Sent(NoDraft) /\ past' = Stray(wizard.open \/ wire # {})
  /\ UNCHANGED <<wizard, lines, base, asked, cart>>

\* Mutant: the draft stays in Swiggy's cart.
EscLocal == wizard.open /\ wizard' = Closed /\ UNCHANGED <<lines, base, sync, wire, asked, cart, past>>
\* The draft is flushed out of the cart.
Esc ==
  /\ wizard.open /\ wizard' = Closed
  /\ IF sync.inFlight THEN sync' = [sync EXCEPT !.pending = TRUE] /\ UNCHANGED wire
     ELSE sync' = [pending |-> FALSE, inFlight |-> TRUE] /\ wire' = Sent(NoDraft)
  /\ past' = Stray(wire # {})
  /\ UNCHANGED <<lines, base, asked, cart>>

\* A toggle of a variant page configures the page anew, whatever is under way.
Toggle ==
  /\ wizard.open /\ past.toggles < MaxEdits
  /\ past' = [Stray(wire # {}) EXCEPT !.toggles = @ + 1]
  /\ \E g \in ToSet(wizard.page) : \E c \in ToSet(g) :
       LET w == [wizard EXCEPT !.picked = Toggled(wizard, g, c)]
       IN  IF OnVariantPage(w) THEN wizard' = EnterVariantPage(w) /\ wire' = EnterAsks(w)
           ELSE wizard' = w /\ UNCHANGED wire
  /\ UNCHANGED <<lines, base, sync, asked, cart>>

\* Enter on a variant page: the options of the next group, or the add-ons.
Advance ==
  /\ wizard.open /\ ~wizard.loading /\ PageValid(wizard) /\ OnVariantPage(wizard)
  /\ LET scope == [wizard EXCEPT !.phase = "scope", !.todo = ByName(VarGroups[wizard.shown + 1]),
                                 !.at = 1, !.found = <<>>, !.loading = TRUE]
         crust == [wizard EXCEPT !.phase = "crust", !.todo = TrialOrder(wizard),
                                 !.at = 1, !.crust = <<>>, !.loading = TRUE]
         w == IF wizard.shown < Len(VarGroups) THEN scope ELSE crust
     IN  wizard' = w /\ wire' = Sent({Question(w)})
  /\ past' = Stray(wire # {})
  /\ UNCHANGED <<lines, base, sync, asked, cart>>

\* Mutant: the add-ons are left out of the confirmation.
VariantsOnly(w) == VariantSelections(w)
\* wizardCartCmd
FullSelection(w) == w.picked

\* Enter on the add-on page confirms all that is picked.
Confirm ==
  /\ wizard.open /\ ~wizard.loading /\ PageValid(wizard) /\ ~OnVariantPage(wizard)
  /\ wizard' = [wizard EXCEPT !.loading = TRUE]
  /\ wire' = Sent({FullSelection(wizard)}) /\ past' = Stray(wire # {})
  /\ UNCHANGED <<lines, base, sync, asked, cart>>

-----------------------------------------------------------------------------
(* Swiggy                                                                    *)

Accepts(sels) == sels \cap Gone = {} /\ \A pair \in Clash : ~(pair \subseteq sels)

\* A cart is replaced as a whole, or refused; a write may fail, done or not.
Serve(c) ==
  /\ c.state = "sent"
  /\ LET new == [lines |-> c.lines, draft |-> c.draft]
         good == \A sels \in c.draft : Accepts(sels)
     IN  \/ /\ good /\ cart' = new /\ UNCHANGED past
            /\ wire' = (wire \ {c}) \cup {[c EXCEPT !.state = "ok", !.cart = new]}
         \/ /\ ~good /\ UNCHANGED <<cart, past>>
            /\ wire' = (wire \ {c}) \cup {[c EXCEPT !.state = "error"]}
         \/ /\ past.faults < MaxFaults /\ past' = [past EXCEPT !.faults = @ + 1]
            /\ cart' \in {cart} \cup {d \in {new} : good}
            /\ wire' = (wire \ {c}) \cup {[c EXCEPT !.state = "error"]}
  /\ UNCHANGED <<wizard, lines, base, sync, asked>>

-----------------------------------------------------------------------------
(* Answers                                                                   *)

\* ItemOptionsLoadedMsg, also of a second tap.
OptionsLoaded ==
  /\ asked > 0
  /\ \E priced \in BOOLEAN :
       LET w == [Opened(priced) EXCEPT !.picked = Defaults(<<VarGroups[1]>>, {})]
       IN  wizard' = EnterVariantPage(w) /\ wire' = EnterAsks(w)
  /\ asked' = asked - 1 /\ past' = Stray(wire # {} \/ wizard.open)
  /\ UNCHANGED <<lines, base, sync, cart>>

OptionsFailed == asked > 0 /\ asked' = asked - 1 /\ UNCHANGED <<wizard, lines, base, sync, wire, cart, past>>

\* itemLinePrice: the first line of the dish in the cart; committed lines come first.
LinePriced(c) == IF c.lines = EmptyBag THEN c.draft ELSE {CHOOSE sels \in BagToSet(c.lines) : TRUE}

Told(c) == c.state = "ok"
Heard(c, w) == /\ wizard' = w /\ wire' = wire \ {c}
\* The next question, in place of the one that is answered.
Goes(c, w) == /\ wizard' = w
              /\ wire' = (wire \ {c}) \cup {Write(c.id, lines, {Question(w)})}

\* A stray answer on a variant page.
Idle(c) == wizard.phase = "pick" /\ Heard(c, wizard)

Priced(c) ==
  /\ wizard.phase = "pricing"
  /\ Heard(c, [wizard EXCEPT !.phase = "pick", !.loading = FALSE, !.stock = @ \/ Told(c),
                             !.subtotal = IF Told(c) THEN LinePriced(c.cart) ELSE NoDraft])

\* wzVarScope: an accepted choice stands for all of its name.
Scoped(c) ==
  /\ wizard.phase = "scope"
  /\ LET v     == wizard.todo[wizard.at]
         known == {NameOf[x] : x \in ToSet(wizard.found)}
         found == IF Told(c) /\ NameOf[v] \notin known THEN Append(wizard.found, v) ELSE wizard.found
         names == {NameOf[x] : x \in ToSet(found)}
         left  == {i \in DOMAIN wizard.todo : i > wizard.at /\ NameOf[wizard.todo[i]] \notin names}
         w     == [wizard EXCEPT !.found = found, !.stock = @ \/ Told(c)]
         new   == [AddPage(w, <<found>>, {}) EXCEPT !.shown = @ + 1]
     IN  IF left # {} THEN Goes(c, [w EXCEPT !.at = CHOOSE i \in left : \A j \in left : i <= j])
         ELSE /\ wizard' = EnterVariantPage(new)
              /\ wire' = (wire \ {c}) \cup IF Asks(new) THEN {Write(c.id, lines, {PriceQuestion(new)})} ELSE {}

\* Mutant: the page goes on waiting.
ExhaustedLoading(w) == [w EXCEPT !.at = 0]
\* "no valid options for this size"
Exhausted(w) == [w EXCEPT !.at = 0, !.loading = FALSE]

\* An answer that accepts when no candidate is left: the index is out of range.
Beyond(c) == wizard.phase = "crust" /\ Told(c) /\ wizard.at = 0 /\ wizard.todo # <<>>

\* wzCrust: the first required group that is accepted; a rejection tries the next.
Tried(c) ==
  /\ wizard.phase = "crust" /\ ~Beyond(c)
  /\ IF Told(c)
     THEN LET w == BeginOptional([wizard EXCEPT !.stock = TRUE,
                                    !.crust = IF wizard.todo = <<>> THEN <<>> ELSE wizard.todo[wizard.at]])
          IN  IF w.phase = "optional" THEN Goes(c, w) ELSE Heard(c, w)
     ELSE IF wizard.at # 0 /\ wizard.at < Len(wizard.todo) THEN Goes(c, [wizard EXCEPT !.at = @ + 1])
     ELSE Heard(c, Exhausted(wizard))

\* Mutant: a rejected group stays.
KeepsRejected(c) == TRUE
Keeps(c) == Told(c)

\* wzOptional
Offered(c) ==
  /\ wizard.phase = "optional"
  /\ LET w == [wizard EXCEPT !.found = IF Keeps(c) THEN Append(@, wizard.todo[wizard.at]) ELSE @]
     IN  IF wizard.at < Len(wizard.todo) THEN Goes(c, [w EXCEPT !.at = @ + 1]) ELSE Heard(c, Finish(w))

\* wzChoosing: any good answer adds the dish as it is picked now.
Added(c) ==
  /\ wizard.phase = "choosing" /\ Told(c)
  /\ Heard(c, Closed)
  /\ lines' = lines (+) SetToBag({wizard.picked}) /\ base' = lines'
Refused(c) ==
  /\ wizard.phase = "choosing" /\ ~Told(c)
  /\ Heard(c, [wizard EXCEPT !.loading = FALSE])

WizardAnswer(c) ==
  /\ wizard.open /\ c.state # "sent"
  /\ \/ Added(c)
     \/ /\ Idle(c) \/ Priced(c) \/ Scoped(c) \/ Tried(c) \/ Offered(c) \/ Refused(c)
        /\ UNCHANGED <<lines, base>>
  /\ UNCHANGED <<sync, asked, cart, past>>

\* The program ends, and starts again before it has pulled the cart.
Panic(c) ==
  /\ wizard.open /\ Beyond(c)
  /\ wizard' = Closed /\ lines' = EmptyBag /\ base' = EmptyBag
  /\ sync' = [pending |-> FALSE, inFlight |-> FALSE] /\ wire' = {} /\ asked' = 0
  /\ UNCHANGED <<cart, past>>

\* CartSyncedMsg of the cart itself, or of a wizard that is gone.
Synced(c) ==
  /\ ~wizard.open /\ c.state # "sent" /\ wire' = wire \ {c}
  /\ sync' = [sync EXCEPT !.inFlight = FALSE]
  /\ IF Told(c) THEN base' = lines /\ UNCHANGED lines ELSE lines' = base /\ UNCHANGED base
  /\ UNCHANGED <<wizard, asked, cart, past>>

Next ==
  \/ Cardinality(wire) < MaxWire /\ (Settle \/ Esc \/ Toggle \/ Advance \/ Confirm \/ OptionsLoaded)
  \/ Tap \/ Dec \/ OptionsFailed
  \/ \E c \in wire : Serve(c) \/ WizardAnswer(c) \/ Panic(c) \/ Synced(c)

WizSpec == Init /\ [][Next]_wizVars

-----------------------------------------------------------------------------
(* Properties                                                                *)

WizTypeOK ==
  /\ wizard.open => /\ wizard.phase \in Phases /\ wizard.picked \in Selections
                    /\ wizard.shown \in 1..Len(VarGroups) /\ wizard.pages \in wizard.shown..(wizard.shown + 1)
                    /\ wizard.at \in Nat /\ ToSet(wizard.found) \subseteq Rows \cup ToSet(Optional)
  /\ DOMAIN lines \subseteq Selections /\ DOMAIN base \subseteq Selections /\ DOMAIN cart.lines \subseteq Selections
  /\ sync \in [pending : BOOLEAN, inFlight : BOOLEAN] /\ asked \in 0..MaxTaps
  /\ \A c \in wire : c.id \in 1..(MaxWire + 1) /\ c.draft \subseteq Selections /\ c.state \in {"sent", "ok", "error"}
  /\ \A c, d \in wire : c.id = d.id => c = d

\* A wizard that waits is answered: whatever the user toggles meanwhile, closes or
\* opens again, "loading" holds Enter back (tui/app.go:4311) only while a write is
\* under way whose answer will be heard.
WizardIsAnswered == wizard.open /\ wizard.loading => wire # {}

\* The add-on page shows what Swiggy accepts with the variants that are picked, and
\* no optional group is missing, unless a write failed or an answer strayed.
PageFits ==
  wizard.open /\ wizard.phase = "choosing" /\ ~past.stray /\ past.faults = 0 =>
    LET fits(g, sels) == HasStock(g, Gone) /\ Accepts(sels \cup {FirstIn(g, Gone)})
        variants == VariantSelections(wizard)
    IN  /\ \A g \in ToSet(wizard.page) : fits(g, variants)
        /\ \A g \in ToSet(Optional) \ ToSet(wizard.page) :
             ~fits(g, variants \cup IF wizard.crust = <<>> THEN {} ELSE {FirstIn(wizard.crust, {})})

\* What the wizard adds to the lines is what Swiggy's cart holds: the item is real
\* when it is shown (tui/app.go:3031).
AddedAsConfirmed ==
  [][wizard.open /\ ~wizard'.open /\ lines' # lines /\ ~past.stray =>
       cart.lines = lines /\ cart.draft = {wizard.picked}]_wizVars

\* Nothing of a wizard that was given up stays in Swiggy's cart.
Held == IF cart.draft = NoDraft THEN cart.lines ELSE cart.lines (+) SetToBag(cart.draft)
DraftFlushed ==
  ~wizard.open /\ wire = {} /\ ~sync.pending /\ ~sync.inFlight /\ ~past.stray /\ past.faults = 0 => Held = lines

\* TLC refutes: the price shown is that of the variants that are picked.
PricedRight ==
  wizard.open /\ wizard.phase = "pick" /\ ~past.stray /\ past.faults = 0 =>
    \A sels \in wizard.subtotal : VariantSelections(wizard) \subseteq sels
\* TLC refutes: no answer is beyond the candidates.
NoPanic == \A c \in wire : ~(wizard.open /\ Beyond(c))
=============================================================================
