------------------------------ MODULE MCSession ------------------------------
(* Small instances of the three modules below a tool call: SwiggyClient sends *)
(* it, TokenSource finds its token, AuthFlow brings one. They share no state  *)
(* in the models: `focus` says which of them moves, the others stay as they   *)
(* start. So one run explores each of them by itself.                         *)
EXTENDS SwiggyClient, TLC

CONSTANTS Procs, Gets, MaxFaults, MaxFlips, MaxOuts, KeyringUp,
          Tuis, Mcps, NoProc, Handlers, MaxFlows, MaxSends, MaxAuthFaults

VARIABLES focus,
          server, keyring, file, up, source, get, spent, past,
          running, port, flow, handler, token, gate, spoilt

\* NoProc and NoOne are no processes, and the bounds are numbers.
ASSUME SessionAssumption ==
    /\ NoProc \notin Tuis \cup Mcps /\ NoOne \notin Procs
    /\ KeyringUp \in BOOLEAN
    /\ MaxFaults \in Nat /\ MaxFlips \in Nat /\ MaxOuts \in Nat
    /\ MaxFlows \in Nat /\ MaxSends \in Nat /\ MaxAuthFaults \in Nat

tokenVars == <<server, keyring, file, up, source, get, spent, past>>
authVars == <<running, port, flow, handler, token, gate, spoilt>>

Token == INSTANCE TokenSource WITH Calls <- Gets, call <- get
Auth == INSTANCE AuthFlow

SessionInit ==
    /\ focus \in {"client", "token", "auth"}
    /\ Init
    /\ Token!Init
    /\ Auth!Init /\ (focus # "auth" => token = "none")

SessionNext ==
    \/ focus = "client" /\ Next /\ UNCHANGED focus /\ UNCHANGED tokenVars /\ UNCHANGED authVars
    \/ focus = "token" /\ Token!Next /\ UNCHANGED focus /\ UNCHANGED vars /\ UNCHANGED authVars
    \/ focus = "auth" /\ Auth!Next /\ UNCHANGED focus /\ UNCHANGED vars /\ UNCHANGED tokenVars

\* The fairness of each; what does not move takes none of these steps.
SessionSpec ==
    /\ SessionInit /\ [][SessionNext]_<<focus, vars, tokenVars, authVars>>
    /\ \A c \in Calls : WF_vars(focus = "client" /\ Step(c))
    /\ WF_vars(focus = "client" /\ Tick)
    /\ \A g \in Gets : WF_tokenVars(focus = "token" /\ Token!Step(g))
    /\ \A h \in Handlers : WF_authVars(focus = "auth" /\ Auth!Step(h))
    /\ \A f \in 1..MaxFlows : WF_authVars(focus = "auth" /\ \E h \in Handlers : Auth!Claim(h, f))
    /\ \A p \in Tuis : /\ WF_authVars(focus = "auth" /\ Auth!Poll(p))
                       /\ WF_authVars(focus = "auth" /\ Auth!Loaded(p))

\* What does not move stays as it was checked in the initial states.
SessionTypeOK ==
    /\ focus = "client" => TypeOK
    /\ focus = "token" => Token!TypeOK
    /\ focus = "auth" => Auth!AuthTypeOK
RefreshIsSafe == focus = "token" => Token!NoReuse /\ Token!StoreIsCurrent
SignInIsTrue == focus = "auth" => Auth!RedeemedOnce /\ Auth!DoneMeansStored

\* Calls are alike, and so are gets: what holds of one in every behaviour holds of all.
OneCall == CHOOSE c \in Calls : TRUE
OneGet == CHOOSE g \in Gets : TRUE
TheCallReturns == At(OneCall, "session") ~> At(OneCall, "done")
TheTokenReturns == Token!At(OneGet, "lock") ~> Token!At(OneGet, "done") \/ Token!At(OneGet, "purged")
SignInWorks == Auth!SignInWorks
=============================================================================
