------------------------------ MODULE MCInstall ------------------------------
(* Small instances of Updater, Installation and LocalStores, which share no  *)
(* state in the models: `focus` says which of them moves, the others stay as *)
(* they start. So one run explores each of them by itself. Installation can  *)
(* move as a whole ("keep", what the theorems are about), or be explored     *)
(* from four sides, each without what the others look at.                    *)
EXTENDS Integers, FiniteSets, TLC

CONSTANTS Focuses, Launches, Channels, MaxVersion, MaxUpdFaults,
          Procs, Agents, Bundles, MaxExe, MaxStarts,
          Callers, Items, Groups, Flavours, Rests, Addrs, Policies, Words,
          MaxEntries, Threshold, TTL, MaxPerName, MaxOrders,
          MaxCalls, MaxAlone, MaxStops, MaxTime

\* There is a version to begin with, and a dish has its groups; the others are bounds.
ASSUME InstallAssumption ==
    /\ MaxVersion \in Nat \ {0} /\ MaxExe \in Nat \ {0, 1}
    /\ {MaxUpdFaults, MaxEntries, Threshold, TTL, MaxPerName, MaxOrders} \subseteq Nat
    /\ IsFiniteSet(Groups)

VARIABLES focus,
          goos, published, mark, disk, launch, mishaps,
          exe, files, token, entries, skills, proc, past,
          touched, alone, files_, now, addresses, todo, copy, kept, stamp, version, raced,
          told, ran, wished, pinned, placed, calls, stops

updVars == <<goos, published, mark, disk, launch, mishaps>>
insVars == <<exe, files, token, entries, skills, proc, past>>
stoVars == <<touched, alone, files_, now, addresses, todo, copy, kept, stamp, version, raced,
             told, ran, wished, pinned, placed, calls, stops>>

Update == INSTANCE Updater
Keep == INSTANCE Installation
Stores == INSTANCE LocalStores WITH disk <- files_

Init ==
    /\ focus \in Focuses
    /\ Update!Init /\ (focus # "update" => goos = "unix")
    /\ Keep!Init /\ (focus \in {"update", "stores"} => exe = 1)
    /\ Stores!Init /\ (focus # "stores" => touched = {"taste"} /\ alone)

\* "shows": the tour and the notes; "registers": the agents, while the binary is upgraded;
\* "leaves": registrations and removals of one version; "signs": tokens that come and go around
\* an uninstall, which may find or lose the keyring.
KeepSide ==
    /\ focus \in {"shows", "registers"} => Keep!Uninstalling' = {}
    /\ focus \in {"shows", "registers", "leaves"} => token' = token
    /\ focus \in {"shows", "signs"} => \A p \in Procs : proc'[p].sync \in {"none", "check"} /\ proc'[p].printed = {}
    /\ focus \in {"leaves", "signs"} => exe' \in {0, exe}
    /\ focus \in {"registers", "leaves", "signs"} => \A p \in Procs : proc'[p].ui = "none"

Next ==
    \/ focus = "update" /\ Update!Next /\ UNCHANGED focus /\ UNCHANGED <<insVars, stoVars>>
    \/ focus \notin {"update", "stores"} /\ Keep!Next /\ KeepSide /\ UNCHANGED focus /\ UNCHANGED <<updVars, stoVars>>
    \/ focus = "stores" /\ Stores!Next /\ UNCHANGED focus /\ UNCHANGED <<updVars, insVars>>

Spec == Init /\ [][Next]_<<focus, updVars, insVars, stoVars>>

\* What does not move stays as it was checked in the initial states.
MachineTypeOK ==
    /\ focus = "update" => Update!UpdTypeOK
    /\ focus \notin {"update", "stores"} => Keep!InsTypeOK
    /\ focus = "stores" => Stores!StoreTypeOK
AlwaysLaunchable == focus = "update" => Update!AlwaysLaunchable
InstalledAsNamed == Update!InstalledAsNamed
MarksTruthful == focus \notin {"update", "stores"} => Keep!MarkerTruthful /\ Keep!UninstallTruthful
StoresAreTrue == focus = "stores" =>
    Stores!ToldIsKept /\ Stores!OffersAreEarned /\ Stores!WishesStand /\ Stores!ListsAreSound

\* Nothing orders processes, channels, agents or bundles.
Alike == Permutations(Launches) \cup Permutations(Channels) \cup Permutations(Procs)
         \cup Permutations(Agents) \cup Permutations(Bundles)
=============================================================================
