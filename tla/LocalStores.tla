----------------------------- MODULE LocalStores -----------------------------
(* The files in which this machine remembers its user (internal/localstore): *)
(* the card (default and last address, favourites, policies), the taste of   *)
(* dishes, the previous orders, the address preference and the presets.      *)
(* Every call reads a whole file, changes it and renames a new one over it;  *)
(* nothing locks a file between the two, and the terminal UI, the command    *)
(* line and any number of MCP servers do so at once.                         *)
EXTENDS Integers, Sequences, SequencesExt, FiniteSets

CONSTANTS Callers,           \* calls that may be under way at the same time
          Items, Groups, Flavours, Rests, Addrs, Policies, Words,
          MaxEntries,        \* MaxTasteEntries
          Threshold,         \* SuggestThreshold
          TTL,               \* InferredTTLDays, in steps of the clock
          MaxPerName,        \* MaxPresetsPerName
          MaxOrders,         \* maxOrdersPerAddr
          MaxCalls, MaxAlone, MaxStops, MaxTime   \* bounds: calls, calls if alone, failures, the clock

VARIABLES touched,   \* the files this behaviour follows; the others share nothing with them
          alone,     \* whether it makes more calls, one after the other and without failures
          disk, now, addresses,            \* the files, the clock, the addresses Swiggy knows
          todo, copy, kept, stamp,         \* per caller: edits left, file read, card and list kept, version read
          version, raced,                  \* times a file was replaced; files replaced from an old copy
          told, ran, wished, pinned, placed, calls, stops   \* what the user did

storeVars == <<touched, alone, disk, now, addresses, todo, copy, kept, stamp, version, raced,
               told, ran, wished, pinned, placed, calls, stops>>
asked == <<told, ran, wished, pinned, placed>>

Files == {"card", "taste", "orders", "pref", "presets"}
Picks == [choice : Flavours, source : {"explicit", "inferred"}, count : Nat, declined : BOOLEAN]
NoAddr == {}

\* The elements of seq that are in K.
Only(seq, K) == FoldLeft(LAMBDA acc, x : IF x \in K THEN Append(acc, x) ELSE acc, <<>>, seq)

NewCard == [default |-> NoAddr, last |-> NoAddr, favorites |-> [r \in Rests |-> 0],
            prefs |-> {}, cache |-> {}]
NewPref == [default |-> NoAddr, last |-> NoAddr]
-----------------------------------------------------------------------------
(* Taste *)
IndexOf(taste, item) == {i \in DOMAIN taste : taste[i].item = item}
Explicit(e) == {g \in DOMAIN e.picks : e.picks[g].source = "explicit"}
Qualifies(pick) == pick.source = "inferred" /\ pick.count >= Threshold /\ ~pick.declined

\* The entry of the item is found, or made at the end of the list.
Entered(taste, item) ==
    IF IndexOf(taste, item) # {} THEN taste
    ELSE Append(taste, [item |-> item, picks |-> <<>>, dontCare |-> {}, used |-> now])

\* `taste` with Change applied to the entry of `item`.
OnEntry(taste, item, Change(_)) ==
    [i \in DOMAIN taste |-> IF taste[i].item = item THEN Change(taste[i]) ELSE taste[i]]

SetPick(picks, g, pick) == [h \in DOMAIN picks \cup {g} |-> IF h = g THEN pick ELSE picks[h]]

\* Mutant: an observed choice replaces what the user said.
TallyOver(picks, obs) ==
    LET first == [choice |-> obs.choice, source |-> "inferred", count |-> 1, declined |-> FALSE]
    IN IF obs.group \in DOMAIN picks /\ picks[obs.group].choice = obs.choice
       THEN SetPick(picks, obs.group, [picks[obs.group] EXCEPT !.count = @ + 1])
       ELSE SetPick(picks, obs.group, first)

\* One pick of a placed line: what the user said stands, the same choice counts
\* up, another one starts over.
Tally(picks, obs) ==
    LET old == picks[obs.group]
        first == [choice |-> obs.choice, source |-> "inferred", count |-> 1, declined |-> FALSE]
    IN IF obs.group \notin DOMAIN picks THEN SetPick(picks, obs.group, first)
       ELSE IF old.source = "explicit" THEN picks
       ELSE IF old.choice = obs.choice THEN SetPick(picks, obs.group, [old EXCEPT !.count = @ + 1])
       ELSE SetPick(picks, obs.group, first)

\* Inferred picks of a stale entry go, empty entries go.
Pruned(taste) ==
    LET aged == [i \in DOMAIN taste |->
                   IF taste[i].used < now - TTL
                   THEN [taste[i] EXCEPT !.picks = [g \in Explicit(taste[i]) |-> taste[i].picks[g]]]
                   ELSE taste[i]]
    IN Only(aged, {e \in ToSet(aged) : DOMAIN e.picks # {} \/ e.dontCare # {}})

Evidence(e) == FoldLeft(LAMBDA n, g : n + e.picks[g].count, 0, SetToSeq(DOMAIN e.picks))
\* The entry that goes first: the oldest, then the one with the least evidence,
\* then the first in the list.
GoesBefore(taste, i, j) ==
    \/ taste[i].used < taste[j].used
    \/ taste[i].used = taste[j].used /\ Evidence(taste[i]) < Evidence(taste[j])
    \/ taste[i].used = taste[j].used /\ Evidence(taste[i]) = Evidence(taste[j]) /\ i <= j

Evictable(taste) == {i \in DOMAIN taste : Explicit(taste[i]) = {}}

\* Mutant: the oldest entry goes, whoever asked for it.
EvictOneAny(taste) == IF Len(taste) <= MaxEntries THEN taste ELSE Tail(taste)

EvictOne(taste) ==
    IF Len(taste) <= MaxEntries \/ Evictable(taste) = {} THEN taste
    ELSE RemoveAt(taste, CHOOSE i \in Evictable(taste) : \A j \in Evictable(taste) : GoesBefore(taste, i, j))

\* (1) prune, (2) evict until at the cap, or until only explicit entries are left.
EnforceCaps(taste) == FoldLeft(LAMBDA t, e : EvictOne(t), Pruned(taste), taste)

Observe(taste, item, line) ==
    EnforceCaps(OnEntry(Entered(taste, item), item,
        LAMBDA e : [e EXCEPT !.picks = FoldLeft(Tally, @, line), !.used = now]))

\* What the user says replaces what was there of the group.
Say(picks, obs) ==
    SetPick(picks, obs.group, [choice |-> obs.choice, source |-> "explicit", count |-> 0, declined |-> FALSE])

Upsert(taste, item, line, dontCare) ==
    OnEntry(Entered(taste, item), item,
        LAMBDA e : [e EXCEPT !.picks = FoldLeft(Say, @, line), !.dontCare = @ \cup dontCare, !.used = now])

Promote(taste, item) == OnEntry(taste, item, LAMBDA e :
    [e EXCEPT !.picks = [g \in DOMAIN @ |-> IF Qualifies(@[g]) THEN [@[g] EXCEPT !.source = "explicit"] ELSE @[g]]])

DeclineSuggestion(taste, item) == OnEntry(taste, item, LAMBDA e :
    [e EXCEPT !.picks = [g \in DOMAIN @ |-> IF Qualifies(@[g]) THEN [@[g] EXCEPT !.declined = TRUE] ELSE @[g]]])

ForgetEntry(taste, item) == Only(taste, {e \in ToSet(taste) : e.item # item})

ForgetPick(taste, item, g) ==
    LET less == OnEntry(taste, item, LAMBDA e : [e EXCEPT !.picks = [h \in DOMAIN @ \ {g} |-> @[h]]])
    IN Only(less, {e \in ToSet(less) : e.item # item \/ DOMAIN e.picks # {} \/ e.dontCare # {}})

Suggestions(taste) ==
    UNION {{<<taste[i].item, g, taste[i].picks[g].choice>> :
              g \in {h \in DOMAIN taste[i].picks : Qualifies(taste[i].picks[h])}} : i \in DOMAIN taste}
-----------------------------------------------------------------------------
(* The card, the address preference, the previous orders and the presets *)
\* Mutant: every order moves the default address.
RecordOrderMoves(card, addr, rest) == [card EXCEPT !.last = {addr}, !.default = {addr}]

RecordOrder(card, addr, rest) ==
    [card EXCEPT !.last = {addr},
                 !.default = IF @ = NoAddr THEN {addr} ELSE @,
                 !.favorites = [r \in Rests |-> IF r \in rest THEN @[r] + 1 ELSE @[r]]]

\* What is not in the live list is cleared.
ReconcileCard(card, list) == [card EXCEPT !.default = @ \cap list, !.last = @ \cap list]

\* The locked default, else the last, else the default (which is never kept unlocked).
Active(pref) == IF pref.default # NoAddr THEN pref.default ELSE pref.last

\* Mutant: the list is cut from its new end.
AppendOrderOld(orders, addr, id) ==
    [orders EXCEPT ![addr] = IF Len(@) < MaxOrders THEN <<id>> \o @ ELSE @]

\* The previous orders of an address, newest first.
AppendOrder(orders, addr, id) ==
    [orders EXCEPT ![addr] = SubSeq(<<id>> \o @, 1, IF Len(@) < MaxOrders THEN Len(@) + 1 ELSE MaxOrders)]

\* A name as it was given: a word, perhaps with blanks around it. ByName trims
\* what is asked for and not what was saved.
Names == [word : Words, padded : BOOLEAN]
ByName(presets, word) == {i \in DOMAIN presets : presets[i] = [word |-> word, padded |-> FALSE]}

\* Mutant: one preset of a name too many.
AddOneMore(presets, name) ==
    IF Cardinality(ByName(presets, name.word)) > MaxPerName THEN presets
    ELSE Append(presets, name)

Add(presets, name) ==
    IF Cardinality(ByName(presets, name.word)) >= MaxPerName THEN presets
    ELSE Append(presets, name)

\* The n-th of the presets of that name, if there is one.
Nth(presets, word, n) == {i \in ByName(presets, word) :
                            Cardinality({j \in ByName(presets, word) : j < i}) = n}
RemovePreset(presets, word, n) ==
    LET gone == Nth(presets, word, n)
    IN IF gone = {} THEN presets ELSE RemoveAt(presets, CHOOSE i \in gone : TRUE)
-----------------------------------------------------------------------------
(* An edit is what one load and save does to one file. `strict` edits end    *)
(* the call with an error when they fail, the others are best effort.        *)
Edited(p, edit, file) ==
    CASE edit.op = "observe"   -> FoldLeft(LAMBDA t, obs : Observe(t, obs[1], obs[2]), file, edit.lines)
      [] edit.op = "upsert"    -> EnforceCaps(Upsert(file, edit.item, edit.line, edit.dontCare))
      [] edit.op = "promote"   -> EnforceCaps(Promote(file, edit.item))
      [] edit.op = "decline"   -> EnforceCaps(DeclineSuggestion(file, edit.item))
      [] edit.op = "forget"    -> EnforceCaps(ForgetEntry(file, edit.item))
      [] edit.op = "forgetpick" -> EnforceCaps(ForgetPick(file, edit.item, edit.group))
      [] edit.op = "record"    -> RecordOrder(file, edit.addr, edit.rest)
      [] edit.op = "default"   -> [file EXCEPT !.default = {edit.addr}]
      [] edit.op = "policy"    -> [file EXCEPT !.prefs = @ \cup {edit.policy}]
      [] edit.op = "nopolicy"  -> [file EXCEPT !.prefs = @ \ {edit.policy}]
      [] edit.op = "cache"     -> [file EXCEPT !.cache = kept[p].list]
      [] edit.op = "heal"      -> ReconcileCard(kept[p].card, kept[p].list)
      [] edit.op = "append"    -> AppendOrder(file, edit.addr, version["orders"])
      [] edit.op = "placed"    -> [file EXCEPT !.last = {edit.addr}]
      [] edit.op = "choose"    -> [default |-> IF edit.lock THEN {edit.addr} ELSE file.default, last |-> {edit.addr}]
      [] edit.op = "add"       -> Add(file, edit.name)
      [] edit.op = "remove"    -> RemovePreset(file, edit.word, edit.n)

Followed == {{"taste"}, {"card"}, {"pref", "orders"}, {"presets"}}

Init ==
    /\ touched \in Followed /\ alone \in BOOLEAN
    /\ disk = [card |-> NewCard, taste |-> <<>>, orders |-> [a \in Addrs |-> <<>>],
               pref |-> NewPref, presets |-> <<>>]
    /\ now = 0 /\ addresses = Addrs
    /\ todo = [p \in Callers |-> <<>>] /\ copy = [p \in Callers |-> <<>>]
    /\ kept = [p \in Callers |-> <<>>] /\ stamp = [p \in Callers |-> 0]
    /\ version = [f \in Files |-> 0] /\ raced = {}
    /\ told = {} /\ ran = [i \in Items |-> <<>>] /\ wished = NoAddr /\ pinned = NoAddr
    /\ placed = [a \in Addrs |-> <<>>] /\ calls = 0 /\ stops = 0

AtMostOne(S) == {{}} \cup {{x} : x \in S}
One(S, Edit(_)) == [i \in 1..Cardinality(S) |-> Edit(CHOOSE x \in S : TRUE)]

\* The edits of a call that are to files in `files`.
Kept(edits, files) == Only(edits, {e \in ToSet(edits) : e.file \in files})
By(Edits) == [files \in Followed |-> {Kept(edits, files) : edits \in Edits} \ {<<>>}]

MayCall(p) ==
    /\ todo[p] = <<>> /\ kept[p] = <<>>
    /\ alone => p = CHOOSE q \in Callers : TRUE
    /\ calls < (IF alone THEN MaxAlone ELSE MaxCalls)

\* A call starts with the edits it has to make.
Starts(p, calling) ==
    /\ MayCall(p)
    /\ \E edits \in calling[touched] : todo' = [todo EXCEPT ![p] = edits]
    /\ calls' = calls + 1
    /\ UNCHANGED <<touched, alone, disk, now, addresses, copy, kept, stamp, version, raced, asked, stops>>

Obs == [group : Groups, choice : Flavours]
Lines == {<<o>> : o \in Obs} \cup {pair \in Obs \X Obs : pair[1] # pair[2]}

\* recordFoodPlacement and recordIMPlacement: the card first, then the previous
\* orders, the address preference and the taste; each of them best effort. An
\* order without a cart write that is known leaves no order and no taste; the
\* terminal and the command line (`app` is FALSE) leave it on the card only.
Placements == By({
    <<[file |-> "card", op |-> "record", addr |-> addr, rest |-> rest, strict |-> FALSE]>>
      \o (IF app /\ line # <<>> THEN <<[file |-> "orders", op |-> "append", addr |-> addr, strict |-> FALSE]>> ELSE <<>>)
      \o (IF app THEN <<[file |-> "pref", op |-> "placed", addr |-> addr, strict |-> FALSE]>> ELSE <<>>)
      \o (IF app /\ line # <<>>
          THEN <<[file |-> "taste", op |-> "observe", lines |-> <<<<item, line>>>>, strict |-> FALSE]>> ELSE <<>>) :
    addr \in Addrs, rest \in AtMostOne(Rests), item \in Items, line \in Lines \cup {<<>>}, app \in BOOLEAN})
Placement(p) == Starts(p, Placements)

\* handleRemember: default address, policy and taste, one after the other; the
\* first that fails ends the call with the earlier ones done. The address is not
\* checked against the live list. Picks and what the user does not care about
\* are told in calls of their own here.
Rememberings == By({
    One(addr, LAMBDA a : [file |-> "card", op |-> "default", addr |-> a, strict |-> TRUE])
      \o One(policy, LAMBDA c : [file |-> "card", op |-> "policy", policy |-> c, strict |-> TRUE])
      \o One(item, LAMBDA i : IF confirm
                             THEN [file |-> "taste", op |-> "promote", item |-> i, strict |-> TRUE]
                             ELSE [file |-> "taste", op |-> "upsert", item |-> i,
                                   line |-> IF dontCare = {} THEN line ELSE <<>>,
                                   dontCare |-> dontCare, strict |-> TRUE]) :
    addr \in AtMostOne(Addrs), policy \in AtMostOne(Policies), item \in AtMostOne(Items),
    line \in Lines \cup {<<>>}, dontCare \in AtMostOne(Groups), confirm \in BOOLEAN})
Remember(p) == Starts(p, Rememberings)

\* handleForget: a policy, then an entry, one of its groups, or only its suggestion.
Forgettings == By({
    One(policy, LAMBDA c : [file |-> "card", op |-> "nopolicy", policy |-> c, strict |-> TRUE])
      \o One(item, LAMBDA i : IF decline THEN [file |-> "taste", op |-> "decline", item |-> i, strict |-> TRUE]
                             ELSE IF group = {} THEN [file |-> "taste", op |-> "forget", item |-> i, strict |-> TRUE]
                             ELSE [file |-> "taste", op |-> "forgetpick", item |-> i,
                                   group |-> CHOOSE g \in group : TRUE, strict |-> TRUE]) :
    policy \in AtMostOne(Policies), item \in AtMostOne(Items), group \in AtMostOne(Groups), decline \in BOOLEAN})
Forget(p) == Starts(p, Forgettings)

\* handleSetAddress of the app.
Addressings == By({<<[file |-> "pref", op |-> "choose", addr |-> addr, lock |-> lock, strict |-> TRUE]>> :
                      addr \in Addrs, lock \in BOOLEAN})
SetAddress(p) == Starts(p, Addressings)

\* save_preset, save_preset of an Instamart cart, and `:alias set`, which takes
\* the name from a list of words and so has no blanks.
Savings == By({<<[file |-> "presets", op |-> "add", name |-> name, strict |-> TRUE]>> : name \in Names})
SavePreset(p) == Starts(p, Savings)

\* forget_preset and `alias rm`; without a number `alias rm` takes the only one.
Removals == By({<<[file |-> "presets", op |-> "remove", word |-> word, n |-> n,
                   only |-> only, strict |-> TRUE]>> : word \in Words, n \in 0..1, only \in BOOLEAN})
ForgetPreset(p) == Starts(p, Removals)

\* cardSnapshot (get_card, auth_status): the card is read, then the addresses are
\* asked for, then they are cached in a card that is read again.
SnapshotReads(p) ==
    /\ "card" \in touched /\ MayCall(p)
    /\ kept' = [kept EXCEPT ![p] = [card |-> disk.card, list |-> {}, stamp |-> version["card"]]]
    /\ calls' = calls + 1
    /\ UNCHANGED <<touched, alone, disk, now, addresses, todo, copy, stamp, version, raced, asked, stops>>

\* What is healed is the card of before; it is saved when an address is gone or
\* was renamed.
SnapshotLists(p) ==
    /\ kept[p] # <<>> /\ todo[p] = <<>>
    /\ LET card == kept[p].card
           cache == [file |-> "card", op |-> "cache", strict |-> FALSE]
           heal == [file |-> "card", op |-> "heal", strict |-> FALSE]
       IN \E renamed \in BOOLEAN :
            /\ renamed => (card.default \cup card.last) \cap addresses # {}
            /\ kept' = [kept EXCEPT ![p].list = addresses]
            /\ todo' = [todo EXCEPT ![p] = IF renamed \/ ReconcileCard(card, addresses) # card
                                           THEN <<cache, heal>> ELSE <<cache>>]
    /\ UNCHANGED <<touched, alone, disk, now, addresses, copy, stamp, version, raced, asked, calls, stops>>

\* Addresses answers with an error: the card is shown as it was read.
SnapshotUnlisted(p) ==
    /\ kept[p] # <<>> /\ todo[p] = <<>>
    /\ kept' = [kept EXCEPT ![p] = <<>>]
    /\ UNCHANGED <<touched, alone, disk, now, addresses, todo, copy, stamp, version, raced, asked, calls, stops>>
-----------------------------------------------------------------------------
Edit(p) == Head(todo[p])
Reads(p) == Edit(p).op # "heal"

\* The edit reads its file.
Load(p) ==
    /\ todo[p] # <<>> /\ copy[p] = <<>> /\ Reads(p)
    /\ copy' = [copy EXCEPT ![p] = <<disk[Edit(p).file]>>]
    /\ stamp' = [stamp EXCEPT ![p] = version[Edit(p).file]]
    /\ UNCHANGED <<touched, alone, disk, now, addresses, todo, kept, version, raced, asked, calls, stops>>

\* What is refused after reading: a preset too many of its name, a removal that is
\* ambiguous, a policy that is there already.
Refuses(edit, file) ==
    \/ edit.op = "add" /\ Add(file, edit.name) = file
    \/ edit.op = "remove" /\ edit.only /\ Cardinality(ByName(file, edit.word)) # 1
    \/ edit.op = "policy" /\ edit.policy \in file.prefs

\* The call goes on with its next edit, or is over.
Goes(p, rest) ==
    /\ todo' = [todo EXCEPT ![p] = rest]
    /\ copy' = [copy EXCEPT ![p] = <<>>]
    /\ stamp' = [stamp EXCEPT ![p] = 0]

Refused(p) ==
    /\ todo[p] # <<>> /\ copy[p] # <<>> /\ Refuses(Edit(p), copy[p][1])
    /\ Goes(p, IF Edit(p).op = "policy" THEN Tail(todo[p]) ELSE <<>>)
    /\ UNCHANGED <<touched, alone, disk, now, addresses, kept, version, raced, asked, calls, stops>>

\* One more order of a choice, or the first of another one in that group.
Run(r, obs) ==
    IF obs.group \in DOMAIN r /\ r[obs.group].choice = obs.choice
    THEN [r EXCEPT ![obs.group].n = @ + 1]
    ELSE SetPick(r, obs.group, [choice |-> obs.choice, n |-> 1])

\* What the user said, by the time it is on disk.
Notes(edit, file) ==
    LET Of(t, i) == {x \in t : x[1] = i}
        Line(i, line) == {<<i, line[k].group, line[k].choice>> :
                            k \in {k \in DOMAIN line : \A l \in DOMAIN line : line[l].group = line[k].group => l <= k}}
        Without(r, S) == [g \in DOMAIN r \ S |-> r[g]]
    IN /\ told' = CASE edit.op = "upsert" ->
                          {x \in told : x[1] # edit.item \/ \A y \in Line(edit.item, edit.line) : y[2] # x[2]}
                            \cup Line(edit.item, edit.line)
                    [] edit.op = "promote" -> told \cup Of(Suggestions(file), edit.item)
                    [] edit.op = "forget" -> told \ Of(told, edit.item)
                    [] edit.op = "forgetpick" -> {x \in told : x[1] # edit.item \/ x[2] # edit.group}
                    [] OTHER -> told
       /\ ran' = CASE edit.op = "observe" ->
                         [ran EXCEPT ![edit.lines[1][1]] = FoldLeft(Run, @, edit.lines[1][2])]
                   [] edit.op = "decline" ->
                         [ran EXCEPT ![edit.item] = Without(@, {x[2] : x \in Of(Suggestions(file), edit.item)})]
                   [] edit.op = "forget" -> [ran EXCEPT ![edit.item] = <<>>]
                   [] edit.op = "forgetpick" -> [ran EXCEPT ![edit.item] = Without(@, {edit.group})]
                   [] OTHER -> ran
       /\ wished' = IF edit.op = "default" THEN {edit.addr} \cap addresses ELSE wished
       /\ pinned' = IF edit.op = "choose" /\ edit.lock THEN {edit.addr} ELSE pinned
       /\ placed' = IF edit.op = "append" THEN [placed EXCEPT ![edit.addr] = <<version["orders"]>> \o @] ELSE placed

\* writeFileAtomic: the whole file is replaced by what the edit made of the copy.
Save(p) ==
    /\ todo[p] # <<>> /\ (Reads(p) => copy[p] # <<>> /\ ~Refuses(Edit(p), copy[p][1]))
    /\ LET edit == Edit(p)
           file == IF Reads(p) THEN copy[p][1] ELSE kept[p].card
           base == IF Reads(p) THEN stamp[p] ELSE kept[p].stamp
           fresh == version[edit.file] = base
       IN /\ disk' = [disk EXCEPT ![edit.file] = Edited(p, edit, file)]
          /\ version' = [version EXCEPT ![edit.file] = @ + 1]
          /\ raced' = IF fresh THEN raced ELSE raced \cup {edit.file}
          /\ Notes(edit, file)
          /\ kept' = [kept EXCEPT ![p] =
                IF Tail(todo[p]) = <<>> THEN <<>>
                ELSE IF edit.op = "cache" /\ fresh /\ @.stamp = base THEN [@ EXCEPT !.stamp = base + 1] ELSE @]
    /\ Goes(p, Tail(todo[p]))
    /\ UNCHANGED <<touched, alone, now, addresses, calls, stops>>

\* The file cannot be read or written, or the process dies before the rename:
\* the file stays as it was. A best-effort edit that fails is passed over.
Fails(p) ==
    /\ todo[p] # <<>> /\ stops < MaxStops /\ ~alone
    /\ \E dies \in BOOLEAN :
         LET rest == IF dies \/ Edit(p).strict THEN <<>> ELSE Tail(todo[p])
         IN Goes(p, rest) /\ kept' = [kept EXCEPT ![p] = IF rest = <<>> THEN <<>> ELSE @]
    /\ stops' = stops + 1
    /\ UNCHANGED <<touched, alone, disk, now, addresses, version, raced, asked, calls>>

\* Time passes; it matters to what the taste file drops.
Tick ==
    /\ "taste" \in touched /\ now < MaxTime
    /\ now' = now + 1
    /\ UNCHANGED <<touched, alone, disk, addresses, todo, copy, kept, stamp, version, raced, asked, calls, stops>>

\* The user deletes an address at Swiggy.
DeleteAddress ==
    /\ "card" \in touched
    /\ \E a \in addresses :
         /\ addresses # {a}
         /\ addresses' = addresses \ {a} /\ wished' = wished \ {a}
    /\ UNCHANGED <<touched, alone, disk, now, todo, copy, kept, stamp, version, raced, told, ran, pinned, placed, calls, stops>>

Calls(p) == Placement(p) \/ Remember(p) \/ Forget(p) \/ SetAddress(p) \/ SavePreset(p) \/ ForgetPreset(p)
            \/ SnapshotReads(p) \/ SnapshotLists(p) \/ SnapshotUnlisted(p)
Next == (\E p \in Callers : Calls(p) \/ Load(p) \/ Refused(p) \/ Save(p) \/ Fails(p)) \/ Tick \/ DeleteAddress

Spec == Init /\ [][Next]_storeVars
-----------------------------------------------------------------------------
StoreTypeOK ==
    /\ \A i \in DOMAIN disk.taste : \A g \in DOMAIN disk.taste[i].picks :
         g \in Groups /\ disk.taste[i].picks[g] \in Picks
    /\ disk.card.default \in AtMostOne(Addrs) /\ disk.card.last \in AtMostOne(Addrs)
    /\ \A p \in Callers : Len(copy[p]) <= 1 /\ (copy[p] # <<>> => todo[p] # <<>>)

\* What the user said about a dish is in the file, said by the user, through
\* any number of orders, suggestions and evictions; and nothing else is there
\* as said by the user.
ToldIsKept == "taste" \notin raced =>
    told = UNION {{<<disk.taste[i].item, g, disk.taste[i].picks[g].choice>> : g \in Explicit(disk.taste[i])} :
                    i \in DOMAIN disk.taste}

\* A choice is offered only after Threshold orders in a row of the dish had it,
\* counted from the last time the user declined or forgot it.
OffersAreEarned == "taste" \notin raced =>
    \A x \in Suggestions(disk.taste) :
        x[2] \in DOMAIN ran[x[1]] /\ ran[x[1]][x[2]].choice = x[3] /\ ran[x[1]][x[2]].n >= Threshold

\* The default the user asked for stands as long as Swiggy has that address,
\* whatever is ordered to and listed; and so does the lock of the app.
WishesStand ==
    /\ "card" \notin raced => wished = NoAddr \/ disk.card.default = wished
    /\ "pref" \notin raced => pinned = NoAddr \/ Active(disk.pref) = pinned

\* The previous orders of an address are its latest ones, the newest first, and
\* each once, also when two processes write them.
ListsAreSound ==
    /\ \A a \in Addrs : /\ Len(disk.orders[a]) <= MaxOrders
                        /\ \A i, j \in DOMAIN disk.orders[a] : i # j => disk.orders[a][i] # disk.orders[a][j]
                        /\ "orders" \notin raced => IsPrefix(disk.orders[a], placed[a])
                                                    /\ (Len(disk.orders[a]) < MaxOrders => disk.orders[a] = placed[a])
    /\ \A w \in Words : Cardinality(ByName(disk.presets, w)) <= MaxPerName

\* TLC refutes this: after a card was shown and healed, the addresses just listed
\* are in its cache (they are saved, and then replaced from the card of before).
CacheIsLatest == [][\A p \in Callers :
    (todo[p] # <<>> /\ Edit(p).op = "heal" /\ todo'[p] = <<>> /\ stops' = 0) => disk'.card.cache = kept[p].list]_storeVars

\* TLC refutes this: a preset can be found by the name it was saved under.
Findable == \A i \in DOMAIN disk.presets : i \in ByName(disk.presets, disk.presets[i].word)

\* TLC refutes this: what the user said he does not care about goes only when he
\* forgets the dish ("explicit entries are never evicted" looks at picks alone,
\* so such an entry is evicted, at once if the others have explicit picks).
CareIsKept == [][\A i \in DOMAIN disk.taste :
    \/ disk.taste[i].dontCare = {} \/ "taste" \in raced'
    \/ IndexOf(disk'.taste, disk.taste[i].item) # {}
    \/ \E p \in Callers : todo[p] # <<>> /\ Edit(p).op \in {"forget", "forgetpick"}]_storeVars
=============================================================================
