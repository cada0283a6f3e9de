------------------------------ MODULE AuthFlow ------------------------------
(***************************************************************************)
(* Signing in (internal/auth/flow.go, cmd/store/main.go, mcpauth.go, the    *)
(* MCP tool sign_in and the terminal UI's gate in tui/app.go). Every        *)
(* process has a Manager of its own, in memory: the flows it started and    *)
(* the ones that are done. The browser's callback goes to whichever process *)
(* holds the redirect's port, which need not be the one that started the    *)
(* flow. Handlers are goroutines of the callback server.                    *)
(***************************************************************************)
EXTENDS Integers, FiniteSets

CONSTANTS
    Tuis,          \* processes that run the terminal UI
    Mcps,          \* processes that run the MCP server
    NoProc,        \* no process
    Handlers,      \* callback requests, each served by a goroutine
    MaxFlows,      \* bound: authorize flows
    MaxSends,      \* bound: times the browser sends the answer of a flow
    MaxAuthFaults  \* bound: exchanges and writes that fail, revocations, expiries

Owners == Tuis \cup Mcps
Flows == 1..MaxFlows

VARIABLES
    running,   \* the processes that run
    port,      \* who listens for callbacks, or NoProc
    flow,      \* each flow: proc (NoProc: not started), state ("new", "pending", "claimed",
               \* "done"), old (started more than stateTTL ago), approved (by the user), sent
               \* (times the browser sent the answer), and history: posts (times its code went
               \* to the token endpoint), stored (was its token stored?)
    handler,   \* each handler: pc, flow, proc
    token,     \* the stored token: "none", "good" or "revoked"
    gate,      \* of each terminal UI: shown, flow (authFlowID and authorizeURL, 0: none),
               \* loading (loads are under way)
    spoilt     \* faults, revocations and expiries so far

authVars == <<running, port, flow, handler, token, gate, spoilt>>

NotStarted == [proc |-> NoProc, state |-> "new", old |-> FALSE, approved |-> FALSE, sent |-> 0,
               posts |-> 0, stored |-> FALSE]
Idle == [pc |-> "idle", flow |-> 0, proc |-> NoProc]
NoGate == [shown |-> FALSE, flow |-> 0, loading |-> FALSE]

Init ==
    /\ running = {} /\ port = NoProc
    /\ flow = [f \in Flows |-> NotStarted]
    /\ handler = [h \in Handlers |-> Idle]
    /\ token \in {"none", "good", "revoked"}
    /\ gate = [p \in Tuis |-> NoGate]
    /\ spoilt = 0

Spoil == spoilt < MaxAuthFaults /\ spoilt' = spoilt + 1
NextFlow == CHOOSE f \in Flows : flow[f].proc = NoProc
CanStart == \E f \in Flows : flow[f].proc = NoProc

\* Manager.Start: the states that were never completed are swept, and one is added.
Started(p) ==
    [f \in Flows |->
       IF f = NextFlow THEN [NotStarted EXCEPT !.proc = p, !.state = "pending"]
       ELSE IF flow[f].proc = p /\ flow[f].state = "pending" /\ flow[f].old
            THEN [flow[f] EXCEPT !.state = "claimed"]
            ELSE flow[f]]

-----------------------------------------------------------------------------
(* Processes *)

\* launchTUI: take the port unless another process has it (a warning, no more); without a
\* token a flow is started and the gate comes up, with one the first loads go out.
\* EnsureAuth may find out that the token is dead, and then it is purged first.
LaunchTui(p, rejected) ==
    /\ p \in Tuis \ running
    /\ rejected => token = "revoked"
    /\ running' = running \cup {p}
    /\ port' = IF port = NoProc THEN p ELSE port
    /\ token' = IF rejected THEN "none" ELSE token
    /\ IF token' = "none"
       THEN /\ CanStart
            /\ flow' = Started(p)
            /\ gate' = [gate EXCEPT ![p] = [shown |-> TRUE, flow |-> NextFlow, loading |-> FALSE]]
       ELSE /\ gate' = [gate EXCEPT ![p] = [shown |-> FALSE, flow |-> 0, loading |-> TRUE]]
            /\ UNCHANGED flow
    /\ UNCHANGED <<handler, spoilt>>

LaunchMcp(p) ==
    /\ p \in Mcps \ running
    /\ running' = running \cup {p}
    /\ UNCHANGED <<port, flow, handler, token, gate, spoilt>>

\* Mutant: handlers outlive their process.
ExitLeaves(p) ==
    /\ p \in running
    /\ running' = running \ {p}
    /\ port' = IF port = p THEN NoProc ELSE port
    /\ flow' = [f \in Flows |-> IF flow[f].proc = p THEN [flow[f] EXCEPT !.state = "claimed"] ELSE flow[f]]
    /\ gate' = [q \in Tuis |-> IF q = p THEN NoGate ELSE gate[q]]
    /\ UNCHANGED <<handler, token, spoilt>>

\* The process ends, and with it its Manager and its handlers.
Exit(p) ==
    /\ p \in running
    /\ running' = running \ {p}
    /\ port' = IF port = p THEN NoProc ELSE port
    /\ flow' = [f \in Flows |-> IF flow[f].proc = p THEN [flow[f] EXCEPT !.state = "claimed"] ELSE flow[f]]
    /\ handler' = [h \in Handlers |-> IF handler[h].proc = p THEN Idle ELSE handler[h]]
    /\ gate' = [q \in Tuis |-> IF q = p THEN NoGate ELSE gate[q]]
    /\ UNCHANGED <<token, spoilt>>

\* sign_in: nothing to do with a token unless forced; else the port is tried (again, on
\* every call until it is got), a flow is started and the browser opened.
SignIn(p, force) ==
    /\ p \in Mcps \cap running
    /\ token = "none" \/ force
    /\ CanStart
    /\ port' = IF port = NoProc THEN p ELSE port
    /\ flow' = Started(p)
    /\ UNCHANGED <<running, handler, token, gate, spoilt>>

-----------------------------------------------------------------------------
(* Callbacks *)

\* The user opens the link of a flow (enter at the gate, or the one sign_in opened) and
\* approves. The browser may send the answer more than once.
Approve(f) ==
    /\ flow[f].proc \in running /\ flow[f].state = "pending" /\ ~flow[f].approved
    /\ flow[f].proc \in Tuis => gate[flow[f].proc].shown /\ gate[flow[f].proc].flow = f
    /\ flow' = [flow EXCEPT ![f].approved = TRUE]
    /\ UNCHANGED <<running, port, handler, token, gate, spoilt>>

\* Mutant: the state is looked up here and removed only when the flow is done.
ClaimKeeps(h, f) ==
    /\ handler[h].pc = "idle" /\ port # NoProc /\ flow[f].approved /\ flow[f].sent < MaxSends
    /\ flow' = [flow EXCEPT ![f].sent = @ + 1]
    /\ handler' = IF flow[f].proc = port /\ flow[f].state = "pending" /\ ~flow[f].old
                  THEN [handler EXCEPT ![h] = [pc |-> "exchange", flow |-> f, proc |-> port]]
                  ELSE handler
    /\ UNCHANGED <<running, port, token, gate, spoilt>>

\* HandleCallback claims the state, in one critical section, and then checks its age. A
\* callback that finds nothing to claim (used, swept, of another process) is refused.
Claim(h, f) ==
    LET claimed == flow[f].proc = port /\ flow[f].state = "pending" IN
    /\ handler[h].pc = "idle" /\ port # NoProc /\ flow[f].approved /\ flow[f].sent < MaxSends
    /\ flow' = [flow EXCEPT ![f].sent = @ + 1, ![f].state = IF claimed THEN "claimed" ELSE @]
    /\ handler' = IF claimed /\ ~flow[f].old
                  THEN [handler EXCEPT ![h] = [pc |-> "exchange", flow |-> f, proc |-> port]]
                  ELSE handler
    /\ UNCHANGED <<running, port, token, gate, spoilt>>

Serving(h, pc) == handler[h].pc = pc
Onwards(h, pc) == handler' = [handler EXCEPT ![h] = IF pc = "idle" THEN Idle ELSE [@ EXCEPT !.pc = pc]]

\* Exchange: the code and the verifier are posted to the token endpoint.
Exchange(h) ==
    /\ Serving(h, "exchange")
    /\ flow' = [flow EXCEPT ![handler[h].flow].posts = @ + 1]
    /\ Onwards(h, "put")
    /\ UNCHANGED <<running, port, token, gate, spoilt>>

\* Mutant: the flow is marked done whether or not the token could be stored.
CallbackFailsDone(h) ==
    /\ Serving(h, "exchange") \/ Serving(h, "put")
    /\ Spoil
    /\ flow' = [flow EXCEPT ![handler[h].flow].posts = @ + (IF Serving(h, "exchange") THEN 1 ELSE 0)]
    /\ Onwards(h, IF Serving(h, "put") THEN "finish" ELSE "idle")
    /\ UNCHANGED <<running, port, token, gate>>

\* The exchange, the identity, the account or the store fails: the state stays consumed.
CallbackFails(h) ==
    /\ Serving(h, "exchange") \/ Serving(h, "put")
    /\ Spoil
    /\ flow' = [flow EXCEPT ![handler[h].flow].posts = @ + (IF Serving(h, "exchange") THEN 1 ELSE 0)]
    /\ Onwards(h, "idle")
    /\ UNCHANGED <<running, port, token, gate>>

\* PutToken, under the one local account.
PutToken(h) ==
    /\ Serving(h, "put")
    /\ token' = "good"
    /\ flow' = [flow EXCEPT ![handler[h].flow].stored = TRUE]
    /\ Onwards(h, "finish")
    /\ UNCHANGED <<running, port, gate, spoilt>>

\* Mutant: the flow is not marked done.
FinishForgets(h) ==
    /\ Serving(h, "finish")
    /\ Onwards(h, "idle")
    /\ UNCHANGED <<running, port, flow, token, gate, spoilt>>

\* Nothing can fail any more: pollers see the flow done.
Finish(h) ==
    /\ Serving(h, "finish")
    /\ flow' = [flow EXCEPT ![handler[h].flow].state = "done"]
    /\ Onwards(h, "idle")
    /\ UNCHANGED <<running, port, token, gate, spoilt>>

Authorized(p, f) == f # 0 /\ flow[f].proc = p /\ flow[f].state = "done"

-----------------------------------------------------------------------------
(* The gate of the terminal UI *)

\* A tick while the gate is up polls its flow; when that is done the loads go out.
Poll(p) ==
    /\ p \in Tuis \cap running
    /\ gate[p].shown /\ Authorized(p, gate[p].flow)
    /\ gate' = [gate EXCEPT ![p].shown = FALSE, ![p].loading = TRUE]
    /\ UNCHANGED <<running, port, flow, handler, token, spoilt>>

\* "r" at the gate: try without signing in.
Retry(p) ==
    /\ p \in Tuis \cap running
    /\ gate[p].shown
    /\ gate' = [gate EXCEPT ![p].shown = FALSE, ![p].loading = TRUE]
    /\ UNCHANGED <<running, port, flow, handler, token, spoilt>>

\* The loads are answered, or refused: then enterAuthGate shows the gate, with a flow of
\* its own only if there never was a link.
Loaded(p) ==
    /\ p \in Tuis \cap running /\ gate[p].loading
    /\ IF token = "good"
       THEN /\ gate' = [gate EXCEPT ![p].loading = FALSE]
            /\ UNCHANGED flow
       ELSE IF gate[p].flow = 0
       THEN /\ CanStart
            /\ flow' = Started(p)
            /\ gate' = [gate EXCEPT ![p] = [shown |-> TRUE, flow |-> NextFlow, loading |-> FALSE]]
       ELSE /\ gate' = [gate EXCEPT ![p].shown = TRUE, ![p].loading = FALSE]
            /\ UNCHANGED flow
    /\ UNCHANGED <<running, port, handler, token, spoilt>>

\* The user looks at something else: another call to the server.
Load(p) ==
    /\ p \in Tuis \cap running /\ ~gate[p].shown /\ ~gate[p].loading
    /\ gate' = [gate EXCEPT ![p].loading = TRUE]
    /\ UNCHANGED <<running, port, flow, handler, token, spoilt>>

\* Settings, Disconnect: Logout purges the token and a flow is started for the gate.
Disconnect(p) ==
    /\ p \in Tuis \cap running /\ ~gate[p].shown /\ ~gate[p].loading
    /\ CanStart
    /\ token' = "none"
    /\ flow' = Started(p)
    /\ gate' = [gate EXCEPT ![p] = [shown |-> TRUE, flow |-> NextFlow, loading |-> FALSE]]
    /\ UNCHANGED <<running, port, handler, spoilt>>

-----------------------------------------------------------------------------
(* The world *)

\* A flow's fifteen minutes are over.
Expire(f) ==
    /\ flow[f].proc # NoProc /\ flow[f].state = "pending" /\ ~flow[f].old
    /\ Spoil
    /\ flow' = [flow EXCEPT ![f].old = TRUE]
    /\ UNCHANGED <<running, port, handler, token, gate>>

\* The server takes the grant back.
Revoke ==
    /\ token = "good"
    /\ Spoil
    /\ token' = "revoked"
    /\ UNCHANGED <<running, port, flow, handler, gate>>

Step(h) == Exchange(h) \/ CallbackFails(h) \/ PutToken(h) \/ Finish(h)

Next ==
    \/ \E p \in Tuis : \/ \E rejected \in BOOLEAN : LaunchTui(p, rejected)
                       \/ Poll(p) \/ Retry(p) \/ Loaded(p) \/ Load(p) \/ Disconnect(p)
    \/ \E p \in Mcps : LaunchMcp(p) \/ \E force \in BOOLEAN : SignIn(p, force)
    \/ \E p \in Owners : Exit(p)
    \/ \E f \in Flows : Approve(f) \/ Expire(f) \/ \E h \in Handlers : Claim(h, f)
    \/ \E h \in Handlers : Step(h)
    \/ Revoke

Spec == Init /\ [][Next]_authVars

\* Handlers run, their requests time out, ticks come, and the browser delivers an answer.
FairSpec ==
    /\ Spec
    /\ \A h \in Handlers : WF_authVars(Step(h))
    /\ \A f \in Flows : WF_authVars(\E h \in Handlers : Claim(h, f))
    /\ \A p \in Tuis : WF_authVars(Poll(p)) /\ WF_authVars(Loaded(p))

-----------------------------------------------------------------------------
(* Properties *)

\* A handler at work belongs to a process that runs.
AuthTypeOK ==
    /\ \A h \in Handlers : handler[h].pc # "idle" => handler[h].proc \in running
    /\ running \subseteq Owners /\ port \in Owners \cup {NoProc}
    /\ flow \in [Flows -> [proc : Owners \cup {NoProc}, state : {"new", "pending", "claimed", "done"},
                           old : BOOLEAN, approved : BOOLEAN, sent : 0..MaxSends,
                           posts : Nat, stored : BOOLEAN]]
    /\ handler \in [Handlers -> [pc : {"idle", "exchange", "put", "finish"},
                                 flow : 0..MaxFlows, proc : Owners \cup {NoProc}]]
    /\ token \in {"none", "good", "revoked"}
    /\ gate \in [Tuis -> [shown : BOOLEAN, flow : 0..MaxFlows, loading : BOOLEAN]]
    /\ spoilt \in 0..MaxAuthFaults

\* "Two concurrent callbacks with the same state can only one succeed" (flow.go): however
\* often the browser sends the answer, and whoever starts, exits or sweeps meanwhile, a
\* flow's code goes to the token endpoint at most once.
RedeemedOnce == \A f \in Flows : flow[f].posts <= 1

\* A flow that reports Authorized has stored its token: a gate that polls it does not
\* open over an exchange or a write that failed.
DoneMeansStored == \A f \in Flows : flow[f].state = "done" => flow[f].stored

\* The first sign-in of a terminal UI that got the port works: the user approves in time,
\* nothing fails, the process stays, and then the gate opens or the link is no longer the
\* gate's (the user went on).
SignInWorks ==
    \A p \in Tuis, f \in Flows :
       (gate[p].shown /\ gate[p].flow = f /\ flow[f].approved /\ flow[f].state = "pending" /\ port = p)
          ~> (~gate[p].shown \/ gate[p].flow # f \/ spoilt > 0 \/ p \notin running)

\* "Makes sure a fresh authorize flow is armed" (enterAuthGate, tui/app.go:5905): a gate that
\* comes up has a flow that is not over yet. A run refutes this: after a sign-in in the
\* same session the old link is still there, so a revoked token brings up the gate with a
\* flow that is done, and the next tick closes it again.
GateArmed ==
    [][\A p \in Tuis : ~gate[p].shown /\ gate'[p].shown
                         => flow'[gate'[p].flow].state # "done"]_authVars

=============================================================================
