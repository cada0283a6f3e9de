---------------------------- MODULE Session_proofs ----------------------------
(***************************************************************************)
(* Below a tool call, for every value of the constants: a sign-in redeems  *)
(* its code once and reports done only what it stored, and the clients of  *)
(* one process never send the server a refresh token it has rotated.       *)
(***************************************************************************)
EXTENDS MCSession, SwiggyClient_proofs

-----------------------------------------------------------------------------
(* Signing in *)

AtWork(h) == handler[h].pc # "idle"

\* A handler at work owns its flow: the state was claimed, no other handler has it, and the
\* process that started it runs. Its code is still to be posted, or its token stored.
AuthInv ==
    /\ Auth!AuthTypeOK
    /\ port # NoProc => port \in running
    /\ \A h \in Handlers : AtWork(h) =>
         /\ handler[h].flow \in Auth!Flows
         /\ flow[handler[h].flow].state = "claimed"
         /\ flow[handler[h].flow].proc = handler[h].proc
         /\ handler[h].pc = "exchange" => flow[handler[h].flow].posts = 0
         /\ handler[h].pc = "finish" => flow[handler[h].flow].stored
    /\ \A h, k \in Handlers : AtWork(h) /\ AtWork(k) /\ handler[h].flow = handler[k].flow => h = k
    /\ \A f \in Auth!Flows :
         /\ flow[f].posts <= 1
         /\ flow[f].state = "pending" => flow[f].posts = 0
         /\ flow[f].state = "done" => flow[f].stored

FlowRecord == [proc : Auth!Owners \cup {NoProc}, state : {"new", "pending", "claimed", "done"},
               old : BOOLEAN, approved : BOOLEAN, sent : 0..MaxSends, posts : Nat, stored : BOOLEAN]

GateRecord == [shown : BOOLEAN, flow : 0..MaxFlows, loading : BOOLEAN]

LEMMA NextFlowIsFree ==
  ASSUME Auth!CanStart
  PROVE  Auth!NextFlow \in Auth!Flows /\ flow[Auth!NextFlow].proc = NoProc
BY DEF Auth!CanStart, Auth!NextFlow

\* A step that leaves every claimed flow to its handler, and the others within the invariant.
KeepsFlows ==
    /\ flow' \in [Auth!Flows -> FlowRecord]
    /\ \A f \in Auth!Flows :
         /\ flow'[f].posts <= 1
         /\ flow'[f].state = "pending" => flow'[f].posts = 0
         /\ flow'[f].state = "done" => flow'[f].stored
         /\ flow[f].state = "claimed" /\ flow[f].proc # NoProc =>
              /\ flow'[f].state = flow[f].state /\ flow'[f].proc = flow[f].proc
              /\ flow'[f].posts = flow[f].posts /\ flow'[f].stored = flow[f].stored

\* Starting a flow takes an unused one and at most closes some that were pending.
LEMMA StartedFlows ==
  ASSUME AuthInv, Auth!CanStart, NEW p \in Auth!Owners, flow' = Auth!Started(p)
  PROVE  KeepsFlows
<1>1. Auth!NextFlow \in Auth!Flows /\ flow[Auth!NextFlow].proc = NoProc
  BY NextFlowIsFree
<1>2. flow \in [Auth!Flows -> FlowRecord]
  BY DEF AuthInv, Auth!AuthTypeOK, FlowRecord
<1> DEFINE new == [Auth!NotStarted EXCEPT !.proc = p, !.state = "pending"]
<1>3. new \in FlowRecord /\ new.posts = 0 /\ new.state = "pending"
  <2>1. 0 \in 0..MaxSends
    BY SessionAssumption
  <2>2. Auth!NotStarted \in FlowRecord /\ Auth!NotStarted.posts = 0
    BY <2>1 DEF Auth!NotStarted, FlowRecord
  <2> QED BY <2>2 DEF FlowRecord
<1> HIDE DEF new
<1>4. ASSUME NEW f \in Auth!Flows
      PROVE  /\ flow'[f] \in FlowRecord
             /\ flow'[f].posts <= 1
             /\ flow'[f].state = "pending" => flow'[f].posts = 0
             /\ flow'[f].state = "done" => flow'[f].stored
             /\ flow[f].state = "claimed" /\ flow[f].proc # NoProc => flow'[f] = flow[f]
  <2>1. CASE f = Auth!NextFlow
    <3>1. flow'[f] = new
      BY <1>1, <2>1 DEF Auth!Started, new
    <3> QED BY <1>1, <1>3, <2>1, <3>1
  <2>2. CASE f # Auth!NextFlow /\ flow[f].proc = p /\ flow[f].state = "pending" /\ flow[f].old
    <3>1. flow'[f] = [flow[f] EXCEPT !.state = "claimed"] /\ flow[f] \in FlowRecord
      BY <1>2, <2>2 DEF Auth!Started
    <3>2. flow'[f] \in FlowRecord /\ flow'[f].posts = flow[f].posts /\ flow'[f].state = "claimed"
      BY <3>1 DEF FlowRecord
    <3> QED BY <2>2, <3>2 DEF AuthInv
  <2>3. CASE f # Auth!NextFlow /\ ~(flow[f].proc = p /\ flow[f].state = "pending" /\ flow[f].old)
    <3>1. flow'[f] = flow[f]
      BY <2>3 DEF Auth!Started
    <3> QED BY <1>2, <3>1 DEF AuthInv
  <2> QED BY <2>1, <2>2, <2>3
<1>5. flow' \in [Auth!Flows -> FlowRecord]
  BY <1>4 DEF Auth!Started
<1> QED BY <1>4, <1>5 DEF KeepsFlows

LEMMA SameFlows ==
  ASSUME AuthInv, UNCHANGED flow
  PROVE  KeepsFlows
BY DEF AuthInv, Auth!AuthTypeOK, KeepsFlows, FlowRecord

\* The handlers stay where they are: what is left is the types.
LEMMA HandlersStay ==
  ASSUME AuthInv, KeepsFlows, UNCHANGED handler, running \subseteq running',
         running' \subseteq Auth!Owners, port' # NoProc => port' \in running',
         token' \in {"none", "good", "revoked"}, spoilt' \in 0..MaxAuthFaults,
         gate' \in [Tuis -> GateRecord]
  PROVE  AuthInv'
<1>1. \A h \in Handlers : AtWork(h) => handler[h].proc # NoProc
  BY SessionAssumption DEF AuthInv, Auth!AuthTypeOK, Auth!Owners, AtWork
<1>2. Auth!AuthTypeOK'
  BY DEF AuthInv, Auth!AuthTypeOK, KeepsFlows, FlowRecord, GateRecord
<1> QED BY <1>1, <1>2 DEF AuthInv, AtWork, KeepsFlows

LEMMA NumbersFlows == Auth!CanStart => Auth!NextFlow \in 0..MaxFlows
BY NextFlowIsFree DEF Auth!Flows

LEMMA GatesMove ==
  ASSUME AuthInv,
         \E p \in Tuis : \/ \E rejected \in BOOLEAN : Auth!LaunchTui(p, rejected)
                         \/ Auth!Poll(p) \/ Auth!Retry(p) \/ Auth!Loaded(p) \/ Auth!Load(p)
                         \/ Auth!Disconnect(p)
  PROVE  AuthInv'
<1>1. PICK p \in Tuis : \/ \E rejected \in BOOLEAN : Auth!LaunchTui(p, rejected)
                        \/ Auth!Poll(p) \/ Auth!Retry(p) \/ Auth!Loaded(p) \/ Auth!Load(p)
                        \/ Auth!Disconnect(p)
  OBVIOUS
<1>2. /\ p \in Auth!Owners /\ Auth!AuthTypeOK /\ 0 \in 0..MaxFlows
      /\ gate \in [Tuis -> GateRecord]
  BY SessionAssumption DEF Auth!Owners, AuthInv, Auth!AuthTypeOK, GateRecord
<1>3. Auth!CanStart /\ flow' = Auth!Started(p) => KeepsFlows
  BY <1>2, StartedFlows
<1> USE DEF Auth!AuthTypeOK
<1>4. CASE \E rejected \in BOOLEAN : Auth!LaunchTui(p, rejected)
  <2>1. KeepsFlows
    BY <1>3, <1>4, SameFlows DEF Auth!LaunchTui
  <2>2. gate' \in [Tuis -> GateRecord]
    <3>1. CASE Auth!CanStart /\ gate' = [gate EXCEPT ![p] = [shown |-> TRUE, flow |-> Auth!NextFlow, loading |-> FALSE]]
      BY <1>2, <3>1, NumbersFlows DEF GateRecord
    <3>2. CASE gate' = [gate EXCEPT ![p] = [shown |-> FALSE, flow |-> 0, loading |-> TRUE]]
      BY <1>2, <3>2 DEF GateRecord
    <3> QED BY <1>4, <3>1, <3>2 DEF Auth!LaunchTui
  <2>3. /\ UNCHANGED <<handler, spoilt>> /\ running' = running \cup {p}
        /\ token' \in {"none", "good", "revoked"} /\ port' \in {port, p}
    BY <1>2, <1>4 DEF Auth!LaunchTui
  <2> QED BY <1>2, <2>1, <2>2, <2>3, HandlersStay DEF AuthInv
<1>5. CASE Auth!Poll(p) \/ Auth!Retry(p) \/ Auth!Load(p)
  <2>1. gate' \in [Tuis -> GateRecord]
    <3>1. CASE gate' = [gate EXCEPT ![p].shown = FALSE, ![p].loading = TRUE]
      BY <1>2, <3>1 DEF GateRecord
    <3>2. CASE gate' = [gate EXCEPT ![p].loading = TRUE]
      BY <1>2, <3>2 DEF GateRecord
    <3> QED BY <1>5, <3>1, <3>2 DEF Auth!Poll, Auth!Retry, Auth!Load
  <2> QED BY <1>2, <1>5, <2>1, SameFlows, HandlersStay DEF Auth!Poll, Auth!Retry, Auth!Load, AuthInv
<1>6. CASE Auth!Loaded(p)
  <2>1. KeepsFlows
    BY <1>3, <1>6, SameFlows DEF Auth!Loaded
  <2>2. gate' \in [Tuis -> GateRecord]
    <3>1. CASE Auth!CanStart /\ gate' = [gate EXCEPT ![p] = [shown |-> TRUE, flow |-> Auth!NextFlow, loading |-> FALSE]]
      BY <1>2, <3>1, NumbersFlows DEF GateRecord
    <3>2. CASE gate' = [gate EXCEPT ![p].shown = TRUE, ![p].loading = FALSE]
      BY <1>2, <3>2 DEF GateRecord
    <3>3. CASE gate' = [gate EXCEPT ![p].loading = FALSE]
      BY <1>2, <3>3 DEF GateRecord
    <3> QED BY <1>6, <3>1, <3>2, <3>3 DEF Auth!Loaded
  <2> QED BY <1>2, <1>6, <2>1, <2>2, HandlersStay DEF Auth!Loaded, AuthInv
<1>7. CASE Auth!Disconnect(p)
  <2>1. gate' \in [Tuis -> GateRecord]
    BY <1>2, <1>7, NumbersFlows DEF Auth!Disconnect, GateRecord
  <2> QED BY <1>2, <1>3, <1>7, <2>1, HandlersStay DEF Auth!Disconnect, AuthInv
<1> QED BY <1>1, <1>4, <1>5, <1>6, <1>7

LEMMA FlowsMove ==
  ASSUME AuthInv,
         \/ \E p \in Mcps : Auth!LaunchMcp(p) \/ \E force \in BOOLEAN : Auth!SignIn(p, force)
         \/ \E f \in Auth!Flows : Auth!Approve(f) \/ Auth!Expire(f)
         \/ Auth!Revoke
  PROVE  AuthInv'
<1> USE DEF Auth!AuthTypeOK
<1>1. flow \in [Auth!Flows -> FlowRecord]
  BY DEF AuthInv, FlowRecord
<1>2. CASE \E p \in Mcps : Auth!LaunchMcp(p)
  BY <1>2, SameFlows, HandlersStay DEF Auth!LaunchMcp, AuthInv, Auth!Owners, GateRecord
<1>3. CASE \E p \in Mcps, force \in BOOLEAN : Auth!SignIn(p, force)
  <2>1. PICK p \in Mcps, force \in BOOLEAN : Auth!SignIn(p, force)
    BY <1>3
  <2>2. p \in Auth!Owners
    BY DEF Auth!Owners
  <2>3. KeepsFlows
    BY <2>1, <2>2, StartedFlows DEF Auth!SignIn
  <2> QED BY <2>1, <2>3, HandlersStay DEF Auth!SignIn, AuthInv, GateRecord
<1>4. CASE \E f \in Auth!Flows : Auth!Approve(f) \/ Auth!Expire(f)
  <2>1. PICK f \in Auth!Flows : Auth!Approve(f) \/ Auth!Expire(f)
    BY <1>4
  <2>2. flow' = [flow EXCEPT ![f].approved = TRUE] \/ flow' = [flow EXCEPT ![f].old = TRUE]
    BY <2>1 DEF Auth!Approve, Auth!Expire
  <2>3. flow[f].state = "pending" /\ UNCHANGED <<handler, running, port, gate, token>>
    BY <2>1 DEF Auth!Approve, Auth!Expire
  <2>4. spoilt' \in 0..MaxAuthFaults
    BY <2>1, SessionAssumption DEF Auth!Approve, Auth!Expire, Auth!Spoil, AuthInv
  <2>5. KeepsFlows
    <3>1. flow' \in [Auth!Flows -> FlowRecord]
      <4>1. CASE flow' = [flow EXCEPT ![f].approved = TRUE]
        BY <1>1, <4>1 DEF FlowRecord
      <4>2. CASE flow' = [flow EXCEPT ![f].old = TRUE]
        BY <1>1, <4>2 DEF FlowRecord
      <4> QED BY <2>2, <4>1, <4>2
    <3>2. \A g \in Auth!Flows :
            /\ flow'[g].posts = flow[g].posts /\ flow'[g].state = flow[g].state
            /\ flow'[g].stored = flow[g].stored
            /\ g # f => flow'[g] = flow[g]
      BY <1>1, <2>2 DEF FlowRecord
    <3> QED BY <2>3, <3>1, <3>2 DEF AuthInv, KeepsFlows
  <2> QED BY <2>3, <2>4, <2>5, HandlersStay DEF AuthInv, GateRecord
<1>5. CASE Auth!Revoke
  <2>1. spoilt' \in 0..MaxAuthFaults
    BY <1>5, SessionAssumption DEF Auth!Revoke, Auth!Spoil, AuthInv
  <2> QED BY <1>5, <2>1, SameFlows, HandlersStay DEF Auth!Revoke, AuthInv, GateRecord
<1> QED BY <1>2, <1>3, <1>4, <1>5

HandlerRecord == [pc : {"idle", "exchange", "put", "finish"}, flow : 0..MaxFlows,
                  proc : Auth!Owners \cup {NoProc}]

LEMMA HandlerTypes ==
  ASSUME AuthInv
  PROVE  /\ flow \in [Auth!Flows -> FlowRecord] /\ handler \in [Handlers -> HandlerRecord]
         /\ Auth!Idle \in HandlerRecord /\ Auth!Idle.pc = "idle"
<1>1. 0 \in 0..MaxFlows
  BY SessionAssumption
<1> QED BY <1>1 DEF AuthInv, Auth!AuthTypeOK, FlowRecord, HandlerRecord, Auth!Idle

\* A handler takes its flow, and itself, a step further.
LEMMA HandlerMoves ==
  ASSUME AuthInv, NEW h \in Handlers, AtWork(h), NEW r \in FlowRecord, NEW j \in HandlerRecord,
         flow' = [flow EXCEPT ![handler[h].flow] = r], handler' = [handler EXCEPT ![h] = j],
         r.posts <= 1, r.state # "pending", r.state = "done" => r.stored,
         j.pc # "idle" => /\ j.flow = handler[h].flow /\ j.proc = handler[h].proc
                          /\ r.state = "claimed" /\ r.proc = flow[handler[h].flow].proc
                          /\ j.pc = "exchange" => r.posts = 0
                          /\ j.pc = "finish" => r.stored,
         UNCHANGED <<running, port, gate>>,
         token' \in {"none", "good", "revoked"}, spoilt' \in 0..MaxAuthFaults
  PROVE  AuthInv'
<1>1. /\ flow \in [Auth!Flows -> FlowRecord] /\ handler \in [Handlers -> HandlerRecord]
      /\ handler[h].flow \in Auth!Flows
  BY HandlerTypes DEF AuthInv
<1>2. /\ flow'[handler[h].flow] = r /\ handler'[h] = j
      /\ \A f \in Auth!Flows : f # handler[h].flow => flow'[f] = flow[f]
      /\ \A k \in Handlers : k # h => handler'[k] = handler[k]
  BY <1>1
<1>3. flow' \in [Auth!Flows -> FlowRecord] /\ handler' \in [Handlers -> HandlerRecord]
  BY <1>1
<1>4. \A k \in Handlers : k # h /\ AtWork(k) =>
        handler[k].flow \in Auth!Flows /\ handler[k].flow # handler[h].flow
  BY DEF AuthInv
<1>5. Auth!AuthTypeOK'
  BY <1>2, <1>3 DEF AuthInv, Auth!AuthTypeOK, FlowRecord, HandlerRecord, AtWork
<1>6. \A k \in Handlers : AtWork(k)' =>
        /\ handler'[k].flow \in Auth!Flows
        /\ flow'[handler'[k].flow].state = "claimed"
        /\ flow'[handler'[k].flow].proc = handler'[k].proc
        /\ handler'[k].pc = "exchange" => flow'[handler'[k].flow].posts = 0
        /\ handler'[k].pc = "finish" => flow'[handler'[k].flow].stored
  BY <1>1, <1>2, <1>4 DEF AuthInv, AtWork
<1>7. \A k, l \in Handlers : AtWork(k)' /\ AtWork(l)' /\ handler'[k].flow = handler'[l].flow => k = l
  BY <1>2, <1>4 DEF AuthInv, AtWork
<1>8. \A f \in Auth!Flows : /\ flow'[f].posts <= 1
                            /\ flow'[f].state = "pending" => flow'[f].posts = 0
                            /\ flow'[f].state = "done" => flow'[f].stored
  BY <1>1, <1>2 DEF AuthInv
<1> QED BY <1>5, <1>6, <1>7, <1>8 DEF AuthInv

LEMMA StepsMove ==
  ASSUME AuthInv, NEW h \in Handlers, Auth!Step(h)
  PROVE  AuthInv'
<1> DEFINE f == handler[h].flow
<1>1. /\ flow \in [Auth!Flows -> FlowRecord] /\ handler \in [Handlers -> HandlerRecord]
      /\ Auth!Idle \in HandlerRecord /\ Auth!Idle.pc = "idle" /\ AtWork(h)
  BY HandlerTypes DEF Auth!Step, Auth!Exchange, Auth!CallbackFails, Auth!PutToken, Auth!Finish,
     Auth!Serving, AtWork
<1>2. /\ f \in Auth!Flows /\ flow[f] \in FlowRecord /\ handler[h] \in HandlerRecord
      /\ flow[f].state = "claimed" /\ flow[f].posts <= 1 /\ flow[f].posts \in Nat
      /\ handler[h].pc = "exchange" => flow[f].posts = 0
      /\ handler[h].pc = "finish" => flow[f].stored
      /\ token \in {"none", "good", "revoked"} /\ spoilt \in 0..MaxAuthFaults
  BY <1>1 DEF AuthInv, Auth!AuthTypeOK, FlowRecord
<1>3. CASE Auth!Exchange(h)
  <2> DEFINE r == [flow[f] EXCEPT !.posts = @ + 1]
             j == [handler[h] EXCEPT !.pc = "put"]
  <2>1. /\ r \in FlowRecord /\ r.posts <= 1 /\ r.state = "claimed" /\ r.proc = flow[f].proc
        /\ j \in HandlerRecord /\ j.pc = "put" /\ j.flow = handler[h].flow /\ j.proc = handler[h].proc
    BY <1>2, <1>3 DEF Auth!Exchange, Auth!Serving, FlowRecord, HandlerRecord
  <2>2. /\ flow' = [flow EXCEPT ![handler[h].flow] = r] /\ handler' = [handler EXCEPT ![h] = j]
        /\ UNCHANGED <<running, port, token, gate, spoilt>>
    BY <1>1, <1>2, <1>3 DEF Auth!Exchange, Auth!Onwards
  <2> HIDE DEF r, j
  <2> QED BY <1>1, <1>2, <2>1, <2>2, HandlerMoves
<1>4. CASE Auth!CallbackFails(h)
  <2> DEFINE n == flow[f].posts + (IF handler[h].pc = "exchange" THEN 1 ELSE 0)
             r == [flow[f] EXCEPT !.posts = n]
  <2>1. n \in Nat /\ n <= 1
    BY <1>2
  <2>2. r \in FlowRecord /\ r.posts = n /\ r.state = "claimed"
    BY <1>2, <2>1 DEF FlowRecord
  <2>3. /\ flow' = [flow EXCEPT ![handler[h].flow] = r]
        /\ handler' = [handler EXCEPT ![h] = Auth!Idle]
        /\ UNCHANGED <<running, port, token, gate>>
    BY <1>1, <1>2, <1>4 DEF Auth!CallbackFails, Auth!Onwards, Auth!Serving
  <2>4. spoilt' \in 0..MaxAuthFaults
    BY <1>2, <1>4, SessionAssumption DEF Auth!CallbackFails, Auth!Spoil
  <2> HIDE DEF r, n
  <2> QED BY <1>1, <1>2, <2>1, <2>2, <2>3, <2>4, HandlerMoves
<1>5. CASE Auth!PutToken(h)
  <2> DEFINE r == [flow[f] EXCEPT !.stored = TRUE]
             j == [handler[h] EXCEPT !.pc = "finish"]
  <2>1. /\ r \in FlowRecord /\ r.posts <= 1 /\ r.state = "claimed" /\ r.proc = flow[f].proc /\ r.stored
        /\ j \in HandlerRecord /\ j.pc = "finish" /\ j.flow = handler[h].flow /\ j.proc = handler[h].proc
    BY <1>2 DEF FlowRecord, HandlerRecord
  <2>2. /\ flow' = [flow EXCEPT ![handler[h].flow] = r] /\ handler' = [handler EXCEPT ![h] = j]
        /\ UNCHANGED <<running, port, gate, spoilt>> /\ token' = "good"
    BY <1>1, <1>2, <1>5 DEF Auth!PutToken, Auth!Onwards
  <2> HIDE DEF r, j
  <2> QED BY <1>1, <1>2, <2>1, <2>2, HandlerMoves
<1>6. CASE Auth!Finish(h)
  <2> DEFINE r == [flow[f] EXCEPT !.state = "done"]
  <2>1. r \in FlowRecord /\ r.posts <= 1 /\ r.state = "done" /\ r.stored
    BY <1>2, <1>6 DEF FlowRecord, Auth!Finish, Auth!Serving
  <2>2. /\ flow' = [flow EXCEPT ![handler[h].flow] = r]
        /\ handler' = [handler EXCEPT ![h] = Auth!Idle]
        /\ UNCHANGED <<running, port, token, gate, spoilt>>
    BY <1>1, <1>2, <1>6 DEF Auth!Finish, Auth!Onwards
  <2> HIDE DEF r
  <2> QED BY <1>1, <1>2, <2>1, <2>2, HandlerMoves
<1> QED BY <1>3, <1>4, <1>5, <1>6 DEF Auth!Step

LEMMA ClaimMoves ==
  ASSUME AuthInv, NEW h \in Handlers, NEW f \in Auth!Flows, Auth!Claim(h, f)
  PROVE  AuthInv'
<1> DEFINE claimed == flow[f].proc = port /\ flow[f].state = "pending"
           r == [flow[f] EXCEPT !.sent = @ + 1, !.state = IF claimed THEN "claimed" ELSE @]
           j == [pc |-> "exchange", flow |-> f, proc |-> port]
<1>1. /\ flow \in [Auth!Flows -> FlowRecord] /\ handler \in [Handlers -> HandlerRecord]
      /\ flow[f] \in FlowRecord /\ port \in running /\ port \in Auth!Owners /\ port # NoProc
      /\ handler[h].pc = "idle" /\ flow[f].sent < MaxSends
      /\ UNCHANGED <<running, port, token, gate, spoilt>>
  BY HandlerTypes DEF Auth!Claim, AuthInv, Auth!AuthTypeOK
<1>2. /\ flow' = [flow EXCEPT ![f] = r]
      /\ handler' = IF claimed /\ ~flow[f].old THEN [handler EXCEPT ![h] = j] ELSE handler
  BY <1>1 DEF Auth!Claim
<1>3. /\ r \in FlowRecord /\ r.proc = flow[f].proc /\ r.posts = flow[f].posts /\ r.stored = flow[f].stored
      /\ r.state = IF claimed THEN "claimed" ELSE flow[f].state
  <2>1. flow[f].sent + 1 \in 0..MaxSends
    BY <1>1, SessionAssumption DEF FlowRecord
  <2>2. CASE claimed
    <3>1. r = [flow[f] EXCEPT !.sent = @ + 1, !.state = "claimed"]
      BY <2>2
    <3> QED BY <1>1, <2>1, <2>2, <3>1 DEF FlowRecord
  <2>3. CASE ~claimed
    <3>1. r = [flow[f] EXCEPT !.sent = @ + 1, !.state = flow[f].state]
      BY <2>3
    <3> QED BY <1>1, <2>1, <2>3, <3>1 DEF FlowRecord
  <2> QED BY <2>2, <2>3
<1>4. j \in HandlerRecord /\ j.pc = "exchange" /\ j.flow = f /\ j.proc = port
  BY <1>1 DEF HandlerRecord, Auth!Flows
<1> HIDE DEF r, j
<1>5. /\ flow'[f] = r /\ flow' \in [Auth!Flows -> FlowRecord]
      /\ \A g \in Auth!Flows : g # f => flow'[g] = flow[g]
  BY <1>1, <1>2, <1>3
<1>6. \A g \in Auth!Flows : /\ flow'[g].posts <= 1
                            /\ flow'[g].state = "pending" => flow'[g].posts = 0
                            /\ flow'[g].state = "done" => flow'[g].stored
  BY <1>3, <1>5 DEF AuthInv
<1>7. CASE handler' = handler
  <2>1. KeepsFlows
    BY <1>3, <1>5, <1>6 DEF KeepsFlows
  <2> QED BY <1>1, <1>7, <2>1, HandlersStay DEF AuthInv, Auth!AuthTypeOK, GateRecord
<1>8. CASE handler' = [handler EXCEPT ![h] = j] /\ claimed
  <2>1. /\ handler' \in [Handlers -> HandlerRecord] /\ handler'[h] = j
        /\ \A k \in Handlers : k # h => handler'[k] = handler[k]
    BY <1>1, <1>4, <1>8
  <2>2. \A k \in Handlers : k # h /\ AtWork(k) => handler[k].flow \in Auth!Flows /\ handler[k].flow # f
    BY <1>8 DEF AuthInv
  <2>3. Auth!AuthTypeOK'
    BY <1>1, <1>4, <1>5, <2>1 DEF AuthInv, Auth!AuthTypeOK, FlowRecord, HandlerRecord, AtWork
  <2>4. flow[f].posts = 0
    BY <1>8 DEF AuthInv
  <2>5. \A k \in Handlers : AtWork(k)' =>
          /\ handler'[k].flow \in Auth!Flows
          /\ flow'[handler'[k].flow].state = "claimed"
          /\ flow'[handler'[k].flow].proc = handler'[k].proc
          /\ handler'[k].pc = "exchange" => flow'[handler'[k].flow].posts = 0
          /\ handler'[k].pc = "finish" => flow'[handler'[k].flow].stored
    BY <1>3, <1>4, <1>5, <1>8, <2>1, <2>2, <2>4 DEF AuthInv, AtWork
  <2>6. \A k, l \in Handlers : AtWork(k)' /\ AtWork(l)' /\ handler'[k].flow = handler'[l].flow => k = l
    BY <1>4, <2>1, <2>2 DEF AuthInv, AtWork
  <2> QED BY <1>1, <1>6, <2>3, <2>5, <2>6 DEF AuthInv
<1> QED BY <1>2, <1>7, <1>8

LEMMA ExitMoves ==
  ASSUME AuthInv, NEW p \in Auth!Owners, Auth!Exit(p)
  PROVE  AuthInv'
<1>1. /\ flow \in [Auth!Flows -> FlowRecord] /\ handler \in [Handlers -> HandlerRecord]
      /\ Auth!Idle \in HandlerRecord /\ Auth!Idle.pc = "idle"
  BY HandlerTypes
<1>2. /\ \A f \in Auth!Flows :
           flow'[f] = IF flow[f].proc = p THEN [flow[f] EXCEPT !.state = "claimed"] ELSE flow[f]
      /\ \A h \in Handlers : handler'[h] = IF handler[h].proc = p THEN Auth!Idle ELSE handler[h]
      /\ running' = running \ {p} /\ port' = (IF port = p THEN NoProc ELSE port)
      /\ UNCHANGED <<token, spoilt>>
      /\ flow' = [f \in Auth!Flows |-> flow'[f]] /\ handler' = [h \in Handlers |-> handler'[h]]
  BY DEF Auth!Exit
<1>3. \A f \in Auth!Flows :
        /\ flow'[f] \in FlowRecord /\ flow'[f].proc = flow[f].proc
        /\ flow'[f].posts = flow[f].posts /\ flow'[f].stored = flow[f].stored
        /\ flow'[f].state = (IF flow[f].proc = p THEN "claimed" ELSE flow[f].state)
  BY <1>1, <1>2 DEF FlowRecord
<1>4. \A h \in Handlers : AtWork(h)' => /\ handler'[h] = handler[h] /\ AtWork(h)
                                        /\ handler[h].proc # p
  BY <1>1, <1>2 DEF AtWork
<1>5. flow' \in [Auth!Flows -> FlowRecord] /\ handler' \in [Handlers -> HandlerRecord]
  BY <1>1, <1>2, <1>3
<1>6. gate' \in [Tuis -> GateRecord]
  <2>1. 0 \in 0..MaxFlows
    BY SessionAssumption
  <2> QED BY <2>1 DEF Auth!Exit, AuthInv, Auth!AuthTypeOK, GateRecord, Auth!NoGate
<1>7. Auth!AuthTypeOK'
  BY <1>2, <1>4, <1>5, <1>6 DEF AuthInv, Auth!AuthTypeOK, FlowRecord, HandlerRecord, GateRecord, AtWork
<1>8. \A h \in Handlers : AtWork(h)' =>
        /\ handler'[h].flow \in Auth!Flows
        /\ flow'[handler'[h].flow].state = "claimed"
        /\ flow'[handler'[h].flow].proc = handler'[h].proc
        /\ handler'[h].pc = "exchange" => flow'[handler'[h].flow].posts = 0
        /\ handler'[h].pc = "finish" => flow'[handler'[h].flow].stored
  BY <1>3, <1>4 DEF AuthInv
<1>9. \A h, k \in Handlers : AtWork(h)' /\ AtWork(k)' /\ handler'[h].flow = handler'[k].flow => h = k
  BY <1>4 DEF AuthInv
<1>10. \A f \in Auth!Flows : /\ flow'[f].posts <= 1
                             /\ flow'[f].state = "pending" => flow'[f].posts = 0
                             /\ flow'[f].state = "done" => flow'[f].stored
  BY <1>3 DEF AuthInv
<1>11. port' # NoProc => port' \in running'
  BY <1>2 DEF AuthInv
<1> QED BY <1>7, <1>8, <1>9, <1>10, <1>11 DEF AuthInv

LEMMA AuthInit == Auth!Init => AuthInv
<1> SUFFICES ASSUME Auth!Init PROVE AuthInv
  OBVIOUS
<1>1. 0 \in 0..MaxFlows /\ 0 \in 0..MaxAuthFaults /\ 0 \in 0..MaxSends
  BY SessionAssumption
<1>2. Auth!NotStarted \in FlowRecord /\ Auth!Idle \in HandlerRecord /\ Auth!NoGate \in GateRecord
  BY <1>1 DEF Auth!NotStarted, FlowRecord, Auth!Idle, HandlerRecord, Auth!NoGate, GateRecord
<1>3. /\ flow \in [Auth!Flows -> FlowRecord] /\ handler \in [Handlers -> HandlerRecord]
      /\ gate \in [Tuis -> GateRecord]
  BY <1>2 DEF Auth!Init
<1>4. \A h \in Handlers : ~AtWork(h)
  BY DEF Auth!Init, Auth!Idle, AtWork
<1>5. Auth!AuthTypeOK
  BY <1>1, <1>3, <1>4 DEF Auth!Init, Auth!AuthTypeOK, FlowRecord, HandlerRecord, GateRecord, AtWork
<1>6. \A f \in Auth!Flows : flow[f].posts = 0 /\ flow[f].state = "new"
  BY DEF Auth!Init, Auth!NotStarted
<1> QED BY <1>4, <1>5, <1>6 DEF Auth!Init, AuthInv

LEMMA AuthNext ==
  ASSUME AuthInv, Auth!Next \/ UNCHANGED authVars
  PROVE  AuthInv'
<1>1. CASE UNCHANGED authVars
  BY <1>1 DEF authVars, AuthInv, Auth!AuthTypeOK, AtWork
<1>2. CASE Auth!Next
  BY <1>2, GatesMove, FlowsMove, ExitMoves, ClaimMoves, StepsMove DEF Auth!Next
<1> QED BY <1>1, <1>2

\* Two callbacks with one state: only one of them posts the code (HandleCallback, flow.go).
\* And a flow that reports done has stored its token.
THEOREM SignInIsTrueAlways == SessionSpec => []SignInIsTrue
<1>1. SessionInit => AuthInv
  BY AuthInit DEF SessionInit
<1>2. AuthInv /\ [SessionNext]_<<focus, vars, tokenVars, authVars>> => AuthInv'
  BY AuthNext DEF SessionNext
<1>3. AuthInv => SignInIsTrue
  BY DEF AuthInv, SignInIsTrue, Auth!RedeemedOnce, Auth!DoneMeansStored
<1> QED BY <1>1, <1>2, <1>3, PTL DEF SessionSpec

-----------------------------------------------------------------------------
(* The token and its refreshes *)

\* The clients of one process.
OneProcess == \A p, q \in Procs : p = q

\* The keyring stays as it is, or turns up once. (One that goes away takes the token with
\* it, and brings it back when there is another one.)
OnlyTurnsUp == MaxFlips = 0 \/ (MaxFlips = 1 /\ ~KeyringUp)

Pc(g, pcs) == get[g].pc \in pcs
Clean == Token!Undisturbed

CallRecord == [pc : {"idle", "lock", "post", "put", "done", "purged"},
               proc : Procs \cup {NoOne}, source : Nat, boot : BOOLEAN, refresh : Nat,
               token : Token!TokenRecord, result : {"none", "token", "dead", "failed"}]

\* What a call leaves alone when it moves.
OtherGets(c) == \A d \in Gets : d # c => get'[d] = get[d]

\* A call moves within its process and its source.
GetMoves(c, pc) ==
    /\ get' \in [Gets -> CallRecord] /\ OtherGets(c) /\ get'[c].pc = pc
    /\ get'[c].proc = get[c].proc /\ get'[c].source = get[c].source /\ get'[c].boot = get[c].boot

\* What is stored and on its way was minted; which keyring a process finds.
TokensKnown ==
    /\ Token!TypeOK
    /\ server.live <= server.minted /\ server.expired <= server.minted
    /\ keyring.refresh <= server.minted /\ file.refresh <= server.minted
    /\ \A g \in Gets : Pc(g, {"put"}) => /\ get[g].token # Token!None
                                        /\ get[g].token.refresh <= server.minted

KeyringKnown ==
    /\ up <=> (spent.flips # 0 \/ KeyringUp)
    /\ ~up => keyring = Token!None

\* A call that has begun has a process; without a sign-out all of them share a source;
\* and while a process starts, its first call is alone.
CallsKnown ==
    /\ \A g \in Gets : Pc(g, {"idle"}) <=> get[g].proc = NoOne
    /\ Clean => /\ \A p \in Procs : source[p] = 0
                /\ \A g \in Gets : get[g].source = 0
    /\ \A g, h \in Gets : get[g].boot /\ Pc(g, {"lock", "post", "put"}) /\ h # g => Pc(h, {"idle"})

\* As long as nothing disturbs it: at most one call refreshes, with the refresh token that
\* the server honours; until it has stored the answer the others wait, and then they find
\* a usable token in the store.
RefreshInv == Clean =>
    /\ ~past.reused /\ server.live # 0 /\ Token!Stored # Token!None
    /\ \A g \in Gets : get[g].result # "dead"
    /\ \A g, h \in Gets : Pc(g, {"post", "put"}) /\ Pc(h, {"post", "put"}) => g = h
    /\ \/ \E g \in Gets : Pc(g, {"put"})
       \/ Token!Stored = [access |-> server.minted, refresh |-> server.live]
    /\ \A g \in Gets :
         /\ Pc(g, {"put"}) => /\ get[g].token = [access |-> server.minted, refresh |-> server.live]
                              /\ server.expired < server.minted
         /\ Pc(g, {"post"}) => get[g].refresh = server.live
         /\ Pc(g, {"lock"}) => \/ get[g].refresh = server.live \/ Token!Usable
                               \/ \E d \in Gets : Pc(d, {"put"})

StoreInv == TokensKnown /\ KeyringKnown /\ CallsKnown /\ RefreshInv

LEMMA NoToken == Token!None \in Token!TokenRecord /\ Token!None.refresh = 0 /\ Token!None.access = 0
BY DEF Token!None, Token!TokenRecord

LEMMA TokenMoves ==
  ASSUME get \in [Gets -> CallRecord], NEW c \in Gets, NEW pc \in {"lock", "post", "put", "done", "purged"},
         get' = [get EXCEPT ![c].pc = pc]
  PROVE  GetMoves(c, pc) /\ get'[c].refresh = get[c].refresh /\ get'[c].token = get[c].token
         /\ get'[c].result = get[c].result
BY DEF CallRecord, GetMoves, OtherGets

LEMMA TokenReturns ==
  ASSUME get \in [Gets -> CallRecord], NEW c \in Gets,
         NEW result \in {"token", "dead", "failed"}, Token!Return(c, result)
  PROVE  GetMoves(c, "done") /\ get'[c].result = result
<1>1. get' = [get EXCEPT ![c].pc = "done", ![c].result = result,
                         ![c].refresh = 0, ![c].token = Token!None]
  BY DEF Token!Return
<1>2. get'[c] = [get[c] EXCEPT !.pc = "done", !.result = result, !.refresh = 0, !.token = Token!None]
  BY <1>1
<1>3. get'[c] \in CallRecord /\ get'[c].pc = "done" /\ get'[c].result = result
      /\ get'[c].proc = get[c].proc /\ get'[c].source = get[c].source /\ get'[c].boot = get[c].boot
  <2> DEFINE one == [get[c] EXCEPT !.pc = "done", !.result = result]
             two == [one EXCEPT !.refresh = 0, !.token = Token!None]
  <2>1. one \in CallRecord /\ one.pc = "done" /\ one.result = result /\ one.proc = get[c].proc
        /\ one.source = get[c].source /\ one.boot = get[c].boot
    BY DEF CallRecord
  <2>2. get'[c] = two
    BY <1>2
  <2> HIDE DEF one
  <2>3. two \in CallRecord /\ two.pc = "done" /\ two.result = result /\ two.proc = one.proc
        /\ two.source = one.source /\ two.boot = one.boot
    BY <2>1, NoToken DEF CallRecord
  <2> QED BY <2>1, <2>2, <2>3
<1> QED BY <1>1, <1>3 DEF GetMoves, OtherGets

LEMMA TokenStarts ==
  ASSUME get \in [Gets -> CallRecord], source \in [Procs -> Nat], keyring \in Token!TokenRecord,
         file \in Token!TokenRecord, NEW c \in Gets, NEW p \in Procs, NEW boot \in BOOLEAN,
         Token!Token(c, p, boot)
  PROVE  /\ get' \in [Gets -> CallRecord] /\ OtherGets(c) /\ get[c].pc = "idle"
         /\ get'[c].proc = p /\ get'[c].source = source[p] /\ get'[c].boot = boot
         /\ \/ get'[c].pc = "done" /\ get'[c].result = "token"
            \/ get'[c].pc = "done" /\ get'[c].result = "dead" /\ Token!Stored.refresh = 0
            \/ /\ get'[c].pc = "lock" /\ get'[c].result = "none" /\ ~Token!Usable
               /\ get'[c].refresh = Token!Stored.refresh /\ Token!Stored.refresh # 0
         /\ get'[c].token = Token!None
         /\ Token!MayCall(p, boot)
         /\ UNCHANGED <<server, keyring, file, up, source, spent, past>>
<1> DEFINE r == [Token!Fresh EXCEPT !.proc = p, !.boot = boot, !.source = source[p]]
           fields(x) == x.proc = p /\ x.source = source[p] /\ x.boot = boot /\ x.token = Token!None
<1>1. Token!Fresh \in CallRecord /\ Token!Fresh.token = Token!None
      /\ Token!Fresh.result = "none"
  BY NoToken DEF Token!Fresh, CallRecord
<1>2. r \in CallRecord /\ fields(r) /\ r.result = "none"
  BY <1>1 DEF CallRecord
<1>3. Token!Stored \in Token!TokenRecord /\ Token!Stored.refresh \in Nat
  BY DEF Token!Stored, Token!TokenRecord, Token!None
<1> HIDE DEF r
<1>4. /\ get[c].pc = "idle" /\ Token!MayCall(p, boot)
      /\ UNCHANGED <<server, keyring, file, up, source, spent, past>>
  BY DEF Token!Token, Token!At, Token!store
<1>5. CASE get' = [get EXCEPT ![c] = [r EXCEPT !.pc = "done", !.result = "token"]]
  <2>1. [r EXCEPT !.pc = "done", !.result = "token"] \in CallRecord
        /\ [r EXCEPT !.pc = "done", !.result = "token"].pc = "done"
        /\ [r EXCEPT !.pc = "done", !.result = "token"].result = "token"
        /\ fields([r EXCEPT !.pc = "done", !.result = "token"])
    BY <1>2 DEF CallRecord
  <2> QED BY <1>4, <1>5, <2>1 DEF OtherGets
<1>6. CASE get' = [get EXCEPT ![c] = [r EXCEPT !.pc = "done", !.result = "dead"]] /\ Token!Stored.refresh = 0
  <2>1. [r EXCEPT !.pc = "done", !.result = "dead"] \in CallRecord
        /\ [r EXCEPT !.pc = "done", !.result = "dead"].pc = "done"
        /\ [r EXCEPT !.pc = "done", !.result = "dead"].result = "dead"
        /\ fields([r EXCEPT !.pc = "done", !.result = "dead"])
    BY <1>2 DEF CallRecord
  <2> QED BY <1>4, <1>6, <2>1 DEF OtherGets
<1>7. CASE get' = [get EXCEPT ![c] = [r EXCEPT !.pc = "lock", !.refresh = Token!Stored.refresh]]
           /\ Token!Stored.refresh # 0 /\ ~Token!Usable
  <2> DEFINE l == [r EXCEPT !.pc = "lock", !.refresh = Token!Stored.refresh]
  <2>1. l \in CallRecord /\ l.pc = "lock" /\ l.result = "none" /\ l.refresh = Token!Stored.refresh
        /\ fields(l)
    BY <1>2, <1>3 DEF CallRecord
  <2> QED BY <1>4, <1>7, <2>1 DEF OtherGets
<1> QED BY <1>5, <1>6, <1>7 DEF Token!Token, r

ServerRecord == [minted : Nat, live : Nat, expired : Nat]
SpentRecord == [faults : 0..MaxFaults, flips : 0..MaxFlips, outs : 0..MaxOuts]

\* What is stored and the server's numbers.
StoreFine ==
    /\ keyring \in Token!TokenRecord /\ file \in Token!TokenRecord
    /\ keyring.refresh <= server.minted /\ file.refresh <= server.minted
ServerFine ==
    /\ server \in ServerRecord
    /\ server.live <= server.minted /\ server.expired <= server.minted
Mints == server.minted <= server.minted'
CallFine(g) ==
    /\ Pc(g, {"lock", "post", "put"}) => get[g].refresh \in 1..server.minted
    /\ Pc(g, {"put"}) => get[g].token # Token!None /\ get[g].token.refresh <= server.minted

LEMMA Parts ==
  TokensKnown <=> /\ StoreFine /\ ServerFine /\ up \in BOOLEAN
                  /\ source \in [Procs -> Nat] /\ get \in [Gets -> CallRecord]
                  /\ spent \in SpentRecord /\ past \in [reused : BOOLEAN, signedOut : BOOLEAN]
                  /\ \A g \in Gets : CallFine(g)
BY DEF TokensKnown, Token!TypeOK, StoreFine, ServerFine, ServerRecord, CallRecord, SpentRecord, CallFine, Pc

LEMMA TokenParts ==
  ASSUME NEW t \in Token!TokenRecord
  PROVE  /\ t.refresh \in Nat /\ t.access \in Nat
         /\ t # Token!None => t.refresh # 0 /\ t.access # 0
BY DEF Token!TokenRecord, Token!None

LEMMA PutFine ==
  ASSUME StoreFine, ServerFine, ServerFine', Mints, up \in BOOLEAN,
         NEW t \in Token!TokenRecord, t.refresh <= server'.minted, Token!Put(t)
  PROVE  StoreFine'
<1>1. server.minted \in Nat /\ server'.minted \in Nat /\ keyring.refresh \in Nat /\ file.refresh \in Nat
  BY TokenParts DEF StoreFine, ServerFine, ServerRecord
<1> QED BY <1>1, NoToken DEF StoreFine, Mints, Token!Put

LEMMA PurgeFine ==
  ASSUME StoreFine, ServerFine, UNCHANGED server, up \in BOOLEAN, Token!Purge
  PROVE  StoreFine'
BY NoToken DEF StoreFine, ServerFine, ServerRecord, Token!Purge

LEMMA MintFine ==
  ASSUME ServerFine, NEW rotate \in BOOLEAN, Token!Mint(rotate), Token!Minted(rotate).refresh # 0
  PROVE  /\ ServerFine' /\ Mints
         /\ server' = [minted |-> server.minted + 1, live |-> Token!Minted(rotate).refresh,
                       expired |-> server.expired]
         /\ Token!Minted(rotate) \in Token!TokenRecord
         /\ Token!Minted(rotate).refresh <= server'.minted
         /\ Token!Minted(rotate) = [access |-> server.minted', refresh |-> server.live']
         /\ Token!Minted(rotate) # Token!None
<1>1. server = [minted |-> server.minted, live |-> server.live, expired |-> server.expired]
      /\ server.minted \in Nat /\ server.live \in Nat /\ server.expired \in Nat
  BY DEF ServerFine, ServerRecord
<1>2. Token!Minted(rotate).access = server.minted + 1 /\ Token!Minted(rotate).refresh \in 1..(server.minted + 1)
  BY <1>1 DEF Token!Minted, ServerFine
<1>3. Token!Minted(rotate) = [access |-> server.minted + 1, refresh |-> Token!Minted(rotate).refresh]
  BY DEF Token!Minted
<1>4. server' = [minted |-> server.minted + 1, live |-> Token!Minted(rotate).refresh,
                 expired |-> server.expired]
  BY <1>1 DEF Token!Mint
<1> QED BY <1>1, <1>2, <1>3, <1>4 DEF ServerFine, ServerRecord, Mints, Token!TokenRecord, Token!None

LEMMA RefreshIsMinted ==
  ASSUME StoreFine
  PROVE  Token!Stored \in Token!TokenRecord /\ Token!Stored.refresh <= server.minted
BY DEF StoreFine, Token!Stored

\* A move of one call.
LEMMA CallMovesFine ==
  ASSUME TokensKnown, NEW c \in Gets, ServerFine', Mints, StoreFine', UNCHANGED <<up, source>>,
         spent' \in SpentRecord, past' \in [reused : BOOLEAN, signedOut : BOOLEAN],
         get' \in [Gets -> CallRecord], OtherGets(c), CallFine(c)'
  PROVE  TokensKnown'
<1>1. ASSUME NEW g \in Gets PROVE CallFine(g)'
  <2>1. CASE g = c
    BY <2>1
  <2>2. CASE g # c
    <3>1. CallFine(g) /\ get'[g] = get[g] /\ get[g].refresh \in Nat /\ get[g].token \in Token!TokenRecord
      BY <2>2, Parts DEF OtherGets, CallRecord
    <3>2. server.minted \in Nat /\ server'.minted \in Nat /\ get[g].token.refresh \in Nat
      BY <3>1, Parts, TokenParts DEF ServerFine, ServerRecord
    <3> QED BY <3>1, <3>2 DEF CallFine, Pc, Mints
  <2> QED BY <2>1, <2>2
<1>2. /\ StoreFine' /\ ServerFine' /\ up' \in BOOLEAN
      /\ source' \in [Procs -> Nat] /\ get' \in [Gets -> CallRecord]
      /\ spent' \in SpentRecord /\ past' \in [reused : BOOLEAN, signedOut : BOOLEAN]
  BY Parts
<1> QED BY <1>1, <1>2 DEF TokensKnown, Token!TypeOK, StoreFine, ServerFine, ServerRecord, CallRecord, SpentRecord, CallFine, Pc

\* No call moves.
LEMMA OthersMoveFine ==
  ASSUME TokensKnown, ServerFine', Mints, StoreFine', up' \in BOOLEAN, source' \in [Procs -> Nat],
         spent' \in SpentRecord, past' \in [reused : BOOLEAN, signedOut : BOOLEAN], UNCHANGED get
  PROVE  TokensKnown'
<1>1. ASSUME NEW g \in Gets PROVE CallFine(g)'
  <2>1. CallFine(g) /\ get'[g] = get[g] /\ get[g].refresh \in Nat /\ get[g].token \in Token!TokenRecord
    BY Parts DEF CallRecord
  <2>2. server.minted \in Nat /\ server'.minted \in Nat /\ get[g].token.refresh \in Nat
    BY <2>1, Parts, TokenParts DEF ServerFine, ServerRecord
  <2> QED BY <2>1, <2>2 DEF CallFine, Pc, Mints
<1>2. get' \in [Gets -> CallRecord]
  BY Parts
<1> QED BY <1>1, <1>2 DEF TokensKnown, Token!TypeOK, StoreFine, ServerFine, ServerRecord, CallRecord, SpentRecord, CallFine, Pc

LEMMA FaultCounts ==
  ASSUME spent \in SpentRecord, Token!Fault
  PROVE  spent' \in SpentRecord /\ spent'.faults = spent.faults + 1
         /\ spent'.flips = spent.flips /\ spent'.outs = spent.outs
BY SessionAssumption DEF SpentRecord, Token!Fault

LEMMA RequestsFine ==
  ASSUME TokensKnown, NEW c \in Gets,
         \/ \E p \in Procs, boot \in BOOLEAN : Token!Token(c, p, boot)
         \/ Token!Lock(c) \/ Token!PurgeDead(c)
  PROVE  TokensKnown'
<1>1. ServerFine /\ StoreFine /\ get \in [Gets -> CallRecord] /\ CallFine(c) /\ server.minted \in Nat
      /\ source \in [Procs -> Nat] /\ keyring \in Token!TokenRecord /\ file \in Token!TokenRecord
      /\ spent \in SpentRecord /\ past \in [reused : BOOLEAN, signedOut : BOOLEAN] /\ up \in BOOLEAN
  BY Parts DEF ServerFine, ServerRecord, StoreFine
<1>2. ASSUME NEW p \in Procs, NEW boot \in BOOLEAN, Token!Token(c, p, boot) PROVE TokensKnown'
  <2>1. /\ get' \in [Gets -> CallRecord] /\ OtherGets(c)
        /\ UNCHANGED <<server, keyring, file, up, source, spent, past>>
        /\ get'[c].pc = "done" \/ (get'[c].pc = "lock" /\ get'[c].refresh = Token!Stored.refresh
                                   /\ Token!Stored.refresh # 0)
    BY <1>1, <1>2, TokenStarts
  <2>2. CallFine(c)'
    BY <1>1, <2>1, RefreshIsMinted, TokenParts DEF CallFine, Pc
  <2>3. ServerFine' /\ StoreFine' /\ Mints
    BY <1>1, <2>1 DEF ServerFine, ServerRecord, StoreFine, Mints
  <2> QED BY <1>1, <2>1, <2>2, <2>3, CallMovesFine
<1>3. CASE Token!Lock(c)
  <2>1. UNCHANGED <<server, keyring, file, up, source, spent, past>>
    BY <1>3 DEF Token!Lock, Token!store
  <2>2. /\ get' \in [Gets -> CallRecord] /\ OtherGets(c)
        /\ get'[c].pc = "done" \/ (get'[c].pc = "post" /\ get'[c].refresh = get[c].refresh)
    <3>1. CASE Token!Return(c, "token")
      BY <1>1, <3>1, TokenReturns DEF GetMoves
    <3>2. CASE get' = [get EXCEPT ![c].pc = "post"]
      BY <1>1, <3>2, TokenMoves DEF GetMoves
    <3> QED BY <1>3, <3>1, <3>2 DEF Token!Lock
  <2>3. CallFine(c)'
    BY <1>1, <1>3, <2>1, <2>2 DEF CallFine, Pc, Token!Lock, Token!At
  <2>4. ServerFine' /\ StoreFine' /\ Mints
    BY <1>1, <2>1 DEF ServerFine, ServerRecord, StoreFine, Mints
  <2> QED BY <1>1, <2>1, <2>2, <2>3, <2>4, CallMovesFine
<1>4. CASE Token!PurgeDead(c)
  <2>1. UNCHANGED <<server, up, source, spent, past>> /\ Token!Purge
    BY <1>4 DEF Token!PurgeDead
  <2>2. get' \in [Gets -> CallRecord] /\ OtherGets(c) /\ get'[c].pc = "purged"
    BY <1>1, <1>4, TokenMoves DEF Token!PurgeDead, GetMoves
  <2>3. CallFine(c)'
    BY <2>2 DEF CallFine, Pc
  <2>4. ServerFine' /\ StoreFine' /\ Mints
    BY <1>1, <2>1, PurgeFine DEF ServerFine, ServerRecord, Mints
  <2> QED BY <1>1, <2>1, <2>2, <2>3, <2>4, CallMovesFine
<1> QED BY <1>2, <1>3, <1>4

LEMMA GrantedFine ==
  ASSUME TokensKnown, NEW c \in Gets, NEW rotate \in BOOLEAN,
         Token!Granted(c, rotate)
  PROVE  /\ TokensKnown' /\ GetMoves(c, "put")
         /\ get'[c].token = [access |-> server.minted', refresh |-> server.live']
         /\ get'[c].result = get[c].result
         /\ server'.minted = server.minted + 1 /\ server'.expired = server.expired /\ server'.live # 0
<1> DEFINE t == Token!Minted(rotate)
<1>1. ServerFine /\ StoreFine /\ get \in [Gets -> CallRecord] /\ CallFine(c) /\ server.minted \in Nat
      /\ spent \in SpentRecord /\ past \in [reused : BOOLEAN, signedOut : BOOLEAN] /\ up \in BOOLEAN
  BY Parts DEF ServerFine, ServerRecord, StoreFine
<1>2. Pc(c, {"post"}) /\ get[c].refresh = server.live /\ Token!Mint(rotate)
      /\ UNCHANGED <<keyring, file, up, source, spent, past>>
      /\ get' = [get EXCEPT ![c].pc = "put", ![c].token = t]
  BY DEF Token!Granted, Token!At, Pc, Token!store
<1>3. server.live # 0 /\ get[c].refresh \in 1..server.minted
  BY <1>1, <1>2 DEF CallFine, Pc
<1> HIDE DEF t
<1>9. t.refresh # 0
  BY <1>1, <1>3 DEF t, Token!Minted
<1>4. /\ ServerFine' /\ Mints
      /\ server' = [minted |-> server.minted + 1, live |-> t.refresh, expired |-> server.expired]
      /\ t \in Token!TokenRecord /\ t.refresh <= server'.minted
      /\ t = [access |-> server.minted', refresh |-> server.live'] /\ t # Token!None
  BY <1>1, <1>2, <1>9, MintFine DEF t
<1>5. get'[c] = [get[c] EXCEPT !.pc = "put", !.token = t] /\ OtherGets(c)
      /\ get'[c] \in CallRecord /\ get' \in [Gets -> CallRecord]
      /\ get'[c].pc = "put" /\ get'[c].token = t /\ get'[c].refresh = get[c].refresh
      /\ get'[c].result = get[c].result /\ get'[c].proc = get[c].proc
      /\ get'[c].source = get[c].source /\ get'[c].boot = get[c].boot
  BY <1>1, <1>2, <1>4 DEF CallRecord, OtherGets
<1>6. CallFine(c)'
  BY <1>1, <1>3, <1>4, <1>5 DEF CallFine, Pc
<1>7. StoreFine'
  BY <1>1, <1>2, <1>4, TokenParts DEF StoreFine, ServerFine, ServerRecord
<1>8. server'.live # 0
  BY <1>4, TokenParts
<1> QED BY <1>1, <1>2, <1>4, <1>5, <1>6, <1>7, <1>8, CallMovesFine DEF GetMoves

LEMMA AnswersFine ==
  ASSUME TokensKnown, NEW c \in Gets, NEW rotate \in BOOLEAN,
         \/ Token!AnswerLost(c, rotate) \/ Token!Rejected(c, rotate) \/ Token!Unavailable(c)
         \/ Token!PersistFails(c)
  PROVE  /\ TokensKnown' /\ GetMoves(c, "done") /\ ~Pc(c, {"idle"}) /\ UNCHANGED <<keyring, file, up, source>>
         /\ spent'.flips = spent.flips /\ spent'.outs = spent.outs
         /\ \/ Token!Rejected(c, rotate) /\ UNCHANGED spent
            \/ spent'.faults = spent.faults + 1
<1>1. ServerFine /\ StoreFine /\ get \in [Gets -> CallRecord] /\ CallFine(c) /\ server.minted \in Nat
      /\ spent \in SpentRecord /\ past \in [reused : BOOLEAN, signedOut : BOOLEAN] /\ up \in BOOLEAN
  BY Parts DEF ServerFine, ServerRecord, StoreFine
<1>2. UNCHANGED <<keyring, file, up, source>> /\ ~Pc(c, {"idle"})
  BY DEF Token!AnswerLost, Token!Rejected, Token!Unavailable, Token!PersistFails, Token!store, Token!At, Pc
<1>3. GetMoves(c, "done") /\ get' \in [Gets -> CallRecord] /\ OtherGets(c) /\ CallFine(c)'
  BY <1>1, TokenReturns DEF Token!AnswerLost, Token!Rejected, Token!Unavailable, Token!PersistFails,
     GetMoves, CallFine, Pc
<1>4. /\ spent' \in SpentRecord /\ spent'.flips = spent.flips /\ spent'.outs = spent.outs
      /\ \/ Token!Rejected(c, rotate) /\ UNCHANGED spent
         \/ spent'.faults = spent.faults + 1
  BY <1>1, FaultCounts DEF Token!AnswerLost, Token!Rejected, Token!Unavailable, Token!PersistFails
<1>5. past' \in [reused : BOOLEAN, signedOut : BOOLEAN]
  BY <1>1 DEF Token!AnswerLost, Token!Rejected, Token!Unavailable, Token!PersistFails
<1>6. ServerFine' /\ Mints
  <2>1. CASE Token!AnswerLost(c, rotate)
    <3>1. server.live # 0 /\ Token!Mint(rotate)
      BY <1>1, <2>1 DEF Token!AnswerLost, CallFine, Pc, Token!At
    <3>2. Token!Minted(rotate).refresh # 0
      BY <1>1, <3>1 DEF Token!Minted
    <3> QED BY <1>1, <3>1, <3>2, MintFine
  <2>2. CASE Token!Rejected(c, rotate)
    BY <1>1, <2>2 DEF Token!Rejected, ServerFine, ServerRecord, Mints
  <2>3. CASE UNCHANGED server
    BY <1>1, <2>3 DEF ServerFine, ServerRecord, Mints
  <2> QED BY <2>1, <2>2, <2>3 DEF Token!Unavailable, Token!PersistFails
<1>7. StoreFine'
  BY <1>1, <1>2, <1>6, TokenParts DEF StoreFine, ServerFine, ServerRecord, Mints
<1> QED BY <1>1, <1>2, <1>3, <1>4, <1>5, <1>6, <1>7, CallMovesFine

LEMMA PersistFine ==
  ASSUME TokensKnown, NEW c \in Gets, Token!Persist(c)
  PROVE  /\ TokensKnown' /\ GetMoves(c, "done") /\ get'[c].result = "token" /\ Pc(c, {"put"})
         /\ Token!Put(get[c].token) /\ UNCHANGED <<server, up, source, spent, past>>
<1>1. ServerFine /\ StoreFine /\ get \in [Gets -> CallRecord] /\ CallFine(c) /\ server.minted \in Nat
      /\ spent \in SpentRecord /\ past \in [reused : BOOLEAN, signedOut : BOOLEAN] /\ up \in BOOLEAN
      /\ get[c].token \in Token!TokenRecord
  BY Parts DEF ServerFine, ServerRecord, StoreFine, CallRecord
<1>2. Pc(c, {"put"}) /\ Token!Put(get[c].token) /\ UNCHANGED <<server, up, source, spent, past>>
  BY DEF Token!Persist, Token!At, Pc
<1>3. GetMoves(c, "done") /\ get' \in [Gets -> CallRecord] /\ OtherGets(c) /\ CallFine(c)' /\ get'[c].result = "token"
  BY <1>1, TokenReturns DEF Token!Persist, GetMoves, CallFine, Pc
<1>4. ServerFine' /\ Mints
  BY <1>1, <1>2 DEF ServerFine, ServerRecord, Mints
<1>5. StoreFine'
  BY <1>1, <1>2, <1>4, PutFine DEF CallFine
<1> QED BY <1>1, <1>2, <1>3, <1>4, <1>5, CallMovesFine

\* What happens around the calls: sign-outs and sign-ins, tokens that expire, grants that
\* are revoked, keyrings that come and go.
LEMMA OthersFine ==
  ASSUME TokensKnown,
         (\E p \in Procs : Token!Logout(p)) \/ Token!SignIn \/ Token!Expire \/ Token!Revoke \/ Token!Flip
  PROVE  TokensKnown'
<1>1. ServerFine /\ StoreFine /\ get \in [Gets -> CallRecord] /\ server.minted \in Nat
      /\ spent \in SpentRecord /\ past \in [reused : BOOLEAN, signedOut : BOOLEAN] /\ up \in BOOLEAN
      /\ source \in [Procs -> Nat]
  BY Parts DEF ServerFine, ServerRecord, StoreFine
<1>2. ASSUME NEW p \in Procs, Token!Logout(p) PROVE TokensKnown'
  <2>1. UNCHANGED <<server, up, get>> /\ Token!Purge
        /\ past' \in [reused : BOOLEAN, signedOut : BOOLEAN]
    BY <1>1, <1>2 DEF Token!Logout
  <2>2. spent' \in SpentRecord
    BY <1>1, <1>2, SessionAssumption DEF Token!Logout, SpentRecord
  <2>3. source' \in [Procs -> Nat]
    BY <1>1, <1>2 DEF Token!Logout
  <2>4. ServerFine' /\ Mints /\ StoreFine'
    BY <1>1, <2>1, PurgeFine DEF ServerFine, ServerRecord, Mints
  <2> QED BY <1>1, <2>1, <2>2, <2>3, <2>4, OthersMoveFine
<1>3. CASE Token!SignIn
  <2>1. Token!Mint(TRUE) /\ Token!Put(Token!Minted(TRUE)) /\ UNCHANGED <<up, source, get, spent>>
        /\ past' \in [reused : BOOLEAN, signedOut : BOOLEAN]
    BY <1>1, <1>3 DEF Token!SignIn
  <2>2. ServerFine' /\ Mints /\ Token!Minted(TRUE) \in Token!TokenRecord
        /\ Token!Minted(TRUE).refresh <= server'.minted
    <3>1. Token!Minted(TRUE).refresh # 0
      BY <1>1 DEF Token!Minted
    <3>2. TRUE \in BOOLEAN
      OBVIOUS
    <3> QED BY <1>1, <2>1, <3>1, <3>2, MintFine, Zenon
  <2>3. StoreFine'
    BY <1>1, <2>1, <2>2, PutFine
  <2> QED BY <1>1, <2>1, <2>2, <2>3, OthersMoveFine
<1>4. CASE Token!Expire \/ Token!Revoke
  <2>1. UNCHANGED <<keyring, file, up, source, get, past>> /\ spent' \in SpentRecord
    BY <1>1, <1>4, FaultCounts DEF Token!Expire, Token!Revoke, Token!store
  <2>2. ServerFine' /\ server'.minted = server.minted
    BY <1>1, <1>4 DEF ServerFine, ServerRecord, Token!Expire, Token!Revoke
  <2>3. StoreFine' /\ Mints
    BY <1>1, <2>1, <2>2 DEF StoreFine, Mints
  <2> QED BY <1>1, <2>1, <2>2, <2>3, OthersMoveFine
<1>5. CASE Token!Flip
  <2>1. UNCHANGED <<server, keyring, file, source, get, past>> /\ up' \in BOOLEAN /\ spent' \in SpentRecord
    BY <1>1, <1>5, SessionAssumption DEF Token!Flip, Token!store, SpentRecord
  <2>2. ServerFine' /\ StoreFine' /\ Mints
    BY <1>1, <2>1 DEF ServerFine, ServerRecord, StoreFine, Mints
  <2> QED BY <1>1, <2>1, <2>2, OthersMoveFine
<1> QED BY <1>2, <1>3, <1>4, <1>5

LEMMA TokensNext ==
  ASSUME TokensKnown, Token!Next \/ UNCHANGED tokenVars
  PROVE  TokensKnown'
<1>1. CASE UNCHANGED tokenVars
  BY <1>1 DEF tokenVars, TokensKnown, Token!TypeOK, Pc
<1>2. CASE Token!Next
  BY <1>2, RequestsFine, GrantedFine, AnswersFine, PersistFine, OthersFine DEF Token!Next, Token!Step
<1> QED BY <1>1, <1>2

LEMMA TokensInit == Token!Init => TokensKnown
<1> SUFFICES ASSUME Token!Init PROVE TokensKnown
  OBVIOUS
<1>1. 0 \in 0..MaxFaults /\ 0 \in 0..MaxFlips /\ 0 \in 0..MaxOuts /\ KeyringUp \in BOOLEAN
  BY SessionAssumption
<1>2. Token!First \in Token!TokenRecord /\ Token!First.refresh = 1
  BY DEF Token!First, Token!TokenRecord
<1>3. Token!Fresh \in CallRecord /\ Token!Fresh.pc = "idle"
  BY NoToken DEF Token!Fresh, CallRecord
<1>4. StoreFine /\ ServerFine /\ up \in BOOLEAN
  BY <1>1, <1>2, NoToken DEF Token!Init, StoreFine, ServerFine, ServerRecord
<1>5. source \in [Procs -> Nat] /\ get \in [Gets -> CallRecord] /\ spent \in SpentRecord
      /\ past \in [reused : BOOLEAN, signedOut : BOOLEAN]
  BY <1>1, <1>3 DEF Token!Init, SpentRecord
<1>6. \A g \in Gets : CallFine(g)
  BY <1>3 DEF Token!Init, CallFine, Pc
<1> QED BY <1>4, <1>5, <1>6, Parts

-----------------------------------------------------------------------------
(* One process whose keyring at most turns up *)

LEMMA KeyringNext ==
  ASSUME OnlyTurnsUp, TokensKnown, KeyringKnown, Token!Next \/ UNCHANGED tokenVars
  PROVE  KeyringKnown'
<1>1. spent \in SpentRecord /\ up \in BOOLEAN
  BY Parts
<1>2. CASE Token!Flip
  <2>1. spent'.flips = spent.flips + 1 /\ spent.flips < MaxFlips /\ spent.flips \in Nat
    BY <1>1, <1>2, SessionAssumption DEF Token!Flip, SpentRecord
  <2>2. ~KeyringUp /\ spent.flips = 0 /\ spent'.flips = 1
    BY <2>1, SessionAssumption DEF OnlyTurnsUp
  <2>3. ~up
    BY <2>2 DEF KeyringKnown
  <2>4. up' = ~up
    BY <1>2 DEF Token!Flip
  <2>5. up'
    BY <2>3, <2>4, Zenon
  <2>6. spent'.flips # 0
    BY <2>2
  <2> QED BY <2>5, <2>6, Zenon DEF KeyringKnown
<1>3. CASE up' = up /\ spent'.flips = spent.flips /\ (up \/ UNCHANGED keyring)
  BY <1>3 DEF KeyringKnown
<1>4. CASE (\E c \in Gets : \/ \E p \in Procs, boot \in BOOLEAN : Token!Token(c, p, boot)
                            \/ Token!Lock(c) \/ Token!PurgeDead(c))
           \/ (\E p \in Procs : Token!Logout(p)) \/ Token!SignIn \/ Token!Expire
  <2>1. spent'.flips = spent.flips
    BY <1>1, <1>4 DEF Token!Token, Token!Lock, Token!PurgeDead, Token!Logout, Token!SignIn, Token!Expire,
       SpentRecord
  <2>2. up' = up /\ (up \/ UNCHANGED keyring)
    BY <1>4 DEF Token!Token, Token!Lock, Token!PurgeDead, Token!Logout, Token!SignIn, Token!Expire,
       Token!Purge, Token!Put, Token!store
  <2> QED BY <1>3, <2>1, <2>2
<1>5. ASSUME NEW c \in Gets, NEW rotate \in BOOLEAN,
             \/ Token!Granted(c, rotate) \/ Token!AnswerLost(c, rotate) \/ Token!Rejected(c, rotate)
             \/ Token!Unavailable(c) \/ Token!Persist(c) \/ Token!PersistFails(c) \/ Token!Revoke
      PROVE  KeyringKnown'
  <2>1. spent'.flips = spent.flips
    BY <1>1, <1>5, FaultCounts DEF Token!Granted, Token!AnswerLost, Token!Rejected, Token!Unavailable,
       Token!Persist, Token!PersistFails, Token!Revoke
  <2>2. up' = up /\ (up \/ UNCHANGED keyring)
    BY <1>5 DEF Token!Granted, Token!AnswerLost, Token!Rejected, Token!Unavailable,
       Token!Persist, Token!PersistFails, Token!Revoke, Token!Put, Token!store
  <2> QED BY <1>3, <2>1, <2>2
<1>6. CASE Token!Revoke
  <2>1. spent'.flips = spent.flips
    BY <1>1, <1>6, FaultCounts DEF Token!Revoke
  <2>2. up' = up /\ (up \/ UNCHANGED keyring)
    BY <1>6 DEF Token!Revoke, Token!store
  <2> QED BY <1>3, <2>1, <2>2
<1>7. CASE UNCHANGED tokenVars
  BY <1>3, <1>7 DEF tokenVars
<1> QED BY <1>2, <1>4, <1>5, <1>6, <1>7 DEF Token!Next, Token!Step

\* Disturbances are not forgotten.
LEMMA CleanBefore ==
  ASSUME TokensKnown, Token!Next \/ UNCHANGED tokenVars, Clean'
  PROVE  /\ Clean /\ (\A p \in Procs : ~Token!Logout(p)) /\ ~Token!Revoke
         /\ \A c \in Gets : /\ ~Token!Unavailable(c) /\ ~Token!PersistFails(c)
                            /\ \A rotate \in BOOLEAN : ~Token!AnswerLost(c, rotate)
<1>1. /\ spent \in SpentRecord /\ spent.faults \in Nat /\ spent.outs \in Nat
      /\ spent'.faults = 0 /\ spent'.outs = 0
  BY Parts DEF SpentRecord, Clean, Token!Undisturbed
<1>2. ~Token!Fault
  BY <1>1, FaultCounts
<1>3. ASSUME NEW p \in Procs PROVE ~Token!Logout(p)
  <2> SUFFICES ASSUME Token!Logout(p) PROVE FALSE
    OBVIOUS
  <2>1. spent'.outs = spent.outs + 1
    BY <1>1 DEF Token!Logout, SpentRecord
  <2> QED BY <1>1, <2>1
<1>4. ASSUME Token!Flip PROVE Clean
  <2>1. spent' = [spent EXCEPT !.flips = @ + 1]
    BY <1>4 DEF Token!Flip
  <2>2. spent'.outs = spent.outs /\ spent'.faults = spent.faults
    BY <1>1, <2>1 DEF SpentRecord
  <2> QED BY <1>1, <2>2 DEF Clean, Token!Undisturbed
<1>5. ASSUME UNCHANGED spent PROVE Clean
  BY <1>1, <1>5 DEF Clean, Token!Undisturbed
<1>6. /\ ~Token!Revoke
      /\ \A c \in Gets : /\ ~Token!Unavailable(c) /\ ~Token!PersistFails(c)
                         /\ \A rotate \in BOOLEAN : ~Token!AnswerLost(c, rotate)
  BY <1>2 DEF Token!Revoke, Token!Unavailable, Token!PersistFails, Token!AnswerLost
<1>7. Token!Flip \/ UNCHANGED spent
  BY <1>3, <1>6 DEF Token!Next, Token!Step, Token!Token, Token!Lock, Token!Granted, Token!Rejected,
     Token!Persist, Token!PurgeDead, Token!SignIn, Token!Expire, tokenVars
<1> QED BY <1>3, <1>4, <1>5, <1>6, <1>7

\* How one step moves the calls: one begins, one goes on, or none moves.
LEMMA HowCallsMove ==
  ASSUME TokensKnown, Token!Next \/ UNCHANGED tokenVars
  PROVE  \/ UNCHANGED get
         \/ \E c \in Gets, p \in Procs, boot \in BOOLEAN :
              /\ Token!Token(c, p, boot) /\ UNCHANGED source
         \/ \E c \in Gets : /\ ~Pc(c, {"idle"}) /\ UNCHANGED source
                            /\ \/ GetMoves(c, "done") \/ GetMoves(c, "purged")
                               \/ (GetMoves(c, "put") /\ Pc(c, {"post"}))
                               \/ (GetMoves(c, "post") /\ Pc(c, {"lock"}))
<1>1. get \in [Gets -> CallRecord]
  BY Parts
<1>2. ASSUME NEW c \in Gets, Token!Lock(c)
      PROVE  ~Pc(c, {"idle"}) /\ UNCHANGED source
             /\ (GetMoves(c, "done") \/ (GetMoves(c, "post") /\ Pc(c, {"lock"})))
  BY <1>1, <1>2, TokenReturns, TokenMoves DEF Token!Lock, Token!At, Pc
<1>3. ASSUME NEW c \in Gets, Token!PurgeDead(c)
      PROVE  ~Pc(c, {"idle"}) /\ UNCHANGED source /\ GetMoves(c, "purged")
  BY <1>1, <1>3, TokenMoves DEF Token!PurgeDead, Token!At, Pc
<1>4. ASSUME NEW c \in Gets, NEW rotate \in BOOLEAN, Token!Granted(c, rotate)
      PROVE  ~Pc(c, {"idle"}) /\ UNCHANGED source /\ GetMoves(c, "put") /\ Pc(c, {"post"})
  BY <1>4, GrantedFine DEF Token!Granted, Token!At, Pc
<1>5. ASSUME NEW c \in Gets, NEW rotate \in BOOLEAN,
             \/ Token!AnswerLost(c, rotate) \/ Token!Rejected(c, rotate) \/ Token!Unavailable(c)
             \/ Token!PersistFails(c)
      PROVE  ~Pc(c, {"idle"}) /\ UNCHANGED source /\ GetMoves(c, "done")
  BY <1>5, AnswersFine
<1>6. ASSUME NEW c \in Gets, Token!Persist(c)
      PROVE  ~Pc(c, {"idle"}) /\ UNCHANGED source /\ GetMoves(c, "done")
  BY <1>6, PersistFine DEF Pc
<1>7. ASSUME NEW c \in Gets, NEW p \in Procs, NEW boot \in BOOLEAN, Token!Token(c, p, boot)
      PROVE  UNCHANGED source
  BY <1>7 DEF Token!Token
<1>8. CASE UNCHANGED get
  BY <1>8
<1>9. CASE \E c \in Gets : Token!Step(c)
  BY <1>2, <1>4, <1>5, <1>6, <1>9 DEF Token!Step
<1>10. CASE (\E p \in Procs : Token!Logout(p)) \/ Token!SignIn \/ Token!Expire \/ Token!Revoke \/ Token!Flip
            \/ UNCHANGED tokenVars
  BY <1>8, <1>10 DEF Token!Logout, Token!SignIn, Token!Expire, Token!Revoke, Token!Flip, tokenVars
<1> QED BY <1>3, <1>7, <1>9, <1>10 DEF Token!Next

\* The token source is dropped by a sign-out only.
LEMMA SourceKept ==
  ASSUME Token!Next \/ UNCHANGED tokenVars, \A p \in Procs : ~Token!Logout(p)
  PROVE  UNCHANGED source
BY DEF Token!Next, Token!Step, Token!Token, Token!Lock, Token!Granted, Token!AnswerLost, Token!Rejected,
   Token!Unavailable, Token!Persist, Token!PersistFails, Token!PurgeDead, Token!SignIn, Token!Expire,
   Token!Revoke, Token!Flip, tokenVars

LEMMA CallsNext ==
  ASSUME OneProcess, TokensKnown, CallsKnown, Token!Next \/ UNCHANGED tokenVars
  PROVE  CallsKnown'
<1>1. get \in [Gets -> CallRecord] /\ get' \in [Gets -> CallRecord] /\ source \in [Procs -> Nat]
      /\ keyring \in Token!TokenRecord /\ file \in Token!TokenRecord
  BY TokensNext DEF TokensKnown, Token!TypeOK, CallRecord
<1>2. ASSUME Clean' PROVE Clean /\ UNCHANGED source
  BY <1>2, CleanBefore, SourceKept
<1>3. \A g \in Gets : ~Pc(g, {"idle"}) => get[g].proc \in Procs
  BY <1>1 DEF CallsKnown, CallRecord
<1>4. CASE UNCHANGED get
  BY <1>2, <1>4 DEF CallsKnown, Pc
<1>5. ASSUME NEW c \in Gets, NEW p \in Procs, NEW boot \in BOOLEAN, Token!Token(c, p, boot)
      PROVE  CallsKnown'
  <2>1. /\ OtherGets(c) /\ get[c].pc = "idle" /\ get'[c].pc \in {"done", "lock"}
        /\ get'[c].proc = p /\ get'[c].source = source[p] /\ get'[c].boot = boot
        /\ Token!MayCall(p, boot)
    BY <1>1, <1>5, TokenStarts
  <2>2. ASSUME NEW g \in Gets PROVE Pc(g, {"idle"})' <=> get'[g].proc = NoOne
    BY <2>1, SessionAssumption DEF CallsKnown, Pc, OtherGets
  <2>3. ASSUME Clean', NEW g \in Gets PROVE get'[g].source = 0
    BY <1>2, <2>1, <2>3 DEF CallsKnown, OtherGets
  <2>4. ASSUME NEW g \in Gets, get[g].boot, Pc(g, {"lock", "post", "put"}) PROVE FALSE
    <3>1. get[g].proc = p
      BY <1>3, <2>4 DEF OneProcess, Pc
    <3> QED BY <2>1, <2>4, <3>1 DEF Token!MayCall, Token!Starting, Pc
  <2>5. ASSUME boot, NEW h \in Gets, h # c PROVE Pc(h, {"idle"})'
    <3>1. get[h].proc # p
      BY <2>1, <2>5 DEF Token!MayCall
    <3> QED BY <1>3, <2>1, <2>5, <3>1 DEF OneProcess, Pc, OtherGets
  <2>6. ASSUME NEW g \in Gets, NEW h \in Gets, get'[g].boot, Pc(g, {"lock", "post", "put"})', h # g
        PROVE  Pc(h, {"idle"})'
    BY <2>1, <2>4, <2>5, <2>6 DEF Pc, OtherGets
  <2> QED BY <1>2, <2>2, <2>3, <2>6 DEF CallsKnown
<1>6. ASSUME NEW c \in Gets, ~Pc(c, {"idle"}), UNCHANGED source,
             NEW pc \in {"done", "purged", "put", "post"}, GetMoves(c, pc),
             pc \in {"put", "post"} => Pc(c, {"lock", "post"})
      PROVE  CallsKnown'
  <2>1. /\ OtherGets(c) /\ get'[c].pc = pc /\ get'[c].proc = get[c].proc
        /\ get'[c].source = get[c].source /\ get'[c].boot = get[c].boot
    BY <1>6 DEF GetMoves
  <2>2. ASSUME NEW g \in Gets PROVE Pc(g, {"idle"})' <=> get'[g].proc = NoOne
    BY <1>6, <2>1 DEF CallsKnown, Pc, OtherGets
  <2>3. ASSUME Clean', NEW g \in Gets PROVE get'[g].source = 0
    BY <1>2, <2>1, <2>3 DEF CallsKnown, OtherGets
  <2>4. ASSUME NEW g \in Gets, NEW h \in Gets, get'[g].boot, Pc(g, {"lock", "post", "put"})', h # g
        PROVE  Pc(h, {"idle"})'
    <3>1. get[g].boot /\ Pc(g, {"lock", "post", "put"})
      BY <1>6, <2>1, <2>4 DEF Pc, OtherGets
    <3> QED BY <1>6, <2>1, <2>4, <3>1 DEF CallsKnown, Pc, OtherGets
  <2> QED BY <1>2, <2>2, <2>3, <2>4 DEF CallsKnown
<1>7. CASE \E c \in Gets : /\ ~Pc(c, {"idle"}) /\ UNCHANGED source
                           /\ \/ GetMoves(c, "done") \/ GetMoves(c, "purged")
                              \/ GetMoves(c, "put") /\ Pc(c, {"post"})
                              \/ GetMoves(c, "post") /\ Pc(c, {"lock"})
  <2>1. PICK c \in Gets : /\ ~Pc(c, {"idle"}) /\ UNCHANGED source
                          /\ \/ GetMoves(c, "done") \/ GetMoves(c, "purged")
                             \/ GetMoves(c, "put") /\ Pc(c, {"post"})
                             \/ GetMoves(c, "post") /\ Pc(c, {"lock"})
    BY <1>7
  <2>2. \E pc \in {"done", "purged", "put", "post"} :
          GetMoves(c, pc) /\ (pc \in {"put", "post"} => Pc(c, {"lock", "post"}))
    BY <2>1 DEF Pc
  <2> QED BY <1>6, <2>1, <2>2
<1> QED BY <1>4, <1>5, <1>7, HowCallsMove

LEMMA StoredAfterPut ==
  ASSUME NEW t, t # Token!None, Token!Put(t), UNCHANGED up
  PROVE  Token!Stored' = t
BY DEF Token!Put, Token!Stored

\* Another call of the process that is at work holds the mutex.
LEMMA WorkersLock ==
  ASSUME OneProcess, TokensKnown, CallsKnown, Clean, NEW c \in Gets, Pc(c, {"lock"}), ~Token!Locked(c),
         NEW d \in Gets, Pc(d, {"post", "put"})
  PROVE  FALSE
<1>1. get \in [Gets -> CallRecord] /\ c # d
  BY Parts DEF Pc
<1>2. ~Pc(c, {"idle"}) /\ ~Pc(d, {"idle"}) /\ Pc(c, {"lock", "post", "put"}) /\ Pc(d, {"lock", "post", "put"})
  BY DEF Pc
<1>3. ~get[c].boot /\ ~get[d].boot
  BY <1>1, <1>2 DEF CallsKnown
<1>4. get[c].proc = get[d].proc
  BY <1>1, <1>2 DEF CallsKnown, CallRecord, OneProcess
<1>5. get[c].source = get[d].source
  BY DEF CallsKnown
<1> QED BY <1>1, <1>3, <1>4, <1>5 DEF Token!Locked, Token!Shares, Pc

\* As long as nothing disturbs it, one call at a time refreshes, and each finds what the
\* one before has stored.
LEMMA RefreshNext ==
  ASSUME OneProcess, OnlyTurnsUp, StoreInv, Token!Next \/ UNCHANGED tokenVars
  PROVE  RefreshInv'
<1> SUFFICES ASSUME Clean' PROVE RefreshInv'
  BY DEF RefreshInv
<1> DEFINE Current == Token!Stored = [access |-> server.minted, refresh |-> server.live]
<1> USE DEF StoreInv
<1>1. /\ Clean /\ (\A p \in Procs : ~Token!Logout(p)) /\ ~Token!Revoke
      /\ \A c \in Gets : /\ ~Token!Unavailable(c) /\ ~Token!PersistFails(c)
                         /\ \A rotate \in BOOLEAN : ~Token!AnswerLost(c, rotate)
  BY CleanBefore
<1>2. /\ get \in [Gets -> CallRecord] /\ source \in [Procs -> Nat]
      /\ keyring \in Token!TokenRecord /\ file \in Token!TokenRecord
      /\ server.minted \in Nat /\ server.expired \in Nat /\ server.live \in Nat
      /\ server.expired <= server.minted
  BY DEF TokensKnown, Token!TypeOK, CallRecord
<1>3. /\ ~past.reused /\ server.live # 0 /\ Token!Stored # Token!None
      /\ \A g \in Gets : get[g].result # "dead"
      /\ \A g, h \in Gets : Pc(g, {"post", "put"}) /\ Pc(h, {"post", "put"}) => g = h
      /\ (\E g \in Gets : Pc(g, {"put"})) \/ Current
  BY <1>1 DEF RefreshInv
<1>4. \A g \in Gets :
        /\ Pc(g, {"put"}) => /\ get[g].token = [access |-> server.minted, refresh |-> server.live]
                             /\ server.expired < server.minted
        /\ Pc(g, {"post"}) => get[g].refresh = server.live
        /\ Pc(g, {"lock"}) => \/ get[g].refresh = server.live \/ Token!Usable
                              \/ \E d \in Gets : Pc(d, {"put"})
  BY <1>1 DEF RefreshInv
<1>5. ASSUME UNCHANGED <<keyring, file, up>> PROVE UNCHANGED Token!Stored
  BY <1>5 DEF Token!Stored
<1>6. ASSUME UNCHANGED Token!Stored, UNCHANGED <<server, get, past>> PROVE RefreshInv'
  BY <1>3, <1>4, <1>6 DEF RefreshInv, Pc, Token!Usable
<1>7. ASSUME NEW c \in Gets, NEW p \in Procs, NEW boot \in BOOLEAN, Token!Token(c, p, boot)
      PROVE  RefreshInv'
  <2>1. /\ OtherGets(c) /\ get[c].pc = "idle" /\ UNCHANGED <<server, keyring, file, up, source, spent, past>>
        /\ \/ get'[c].pc = "done" /\ get'[c].result = "token"
           \/ get'[c].pc = "done" /\ get'[c].result = "dead" /\ Token!Stored.refresh = 0
           \/ /\ get'[c].pc = "lock" /\ get'[c].result = "none" /\ ~Token!Usable
              /\ get'[c].refresh = Token!Stored.refresh /\ Token!Stored.refresh # 0
    BY <1>2, <1>7, TokenStarts
  <2>2. UNCHANGED Token!Stored /\ (Token!Usable <=> Token!Usable')
    BY <1>5, <2>1 DEF Token!Usable
  <2>3. Token!Stored.refresh # 0
    BY <1>2, <1>3, TokenParts DEF Token!Stored
  <2>4. \A g \in Gets : Pc(g, {"put"}) => Pc(g, {"put"})'
    BY <2>1 DEF Pc, OtherGets
  <2>5. get'[c].pc = "lock" => \/ get'[c].refresh = server'.live
                               \/ \E d \in Gets : Pc(d, {"put"})'
    BY <1>3, <2>1, <2>4
  <2>6. \A g \in Gets : Pc(g, {"lock"})' => \/ get'[g].refresh = server'.live \/ Token!Usable'
                                           \/ \E d \in Gets : Pc(d, {"put"})'
    BY <1>4, <2>1, <2>2, <2>4, <2>5 DEF Pc, OtherGets
  <2>7. \A g \in Gets : /\ get'[g].result # "dead"
                        /\ Pc(g, {"post", "put"})' => Pc(g, {"post", "put"}) /\ get'[g] = get[g]
    BY <1>3, <2>1, <2>3 DEF Pc, OtherGets
  <2>8. (\E g \in Gets : Pc(g, {"put"})') \/ Current'
    BY <1>3, <2>1, <2>2, <2>4
  <2>9. \A g \in Gets :
          /\ Pc(g, {"put"})' => /\ get'[g].token = [access |-> server.minted', refresh |-> server.live']
                                /\ server'.expired < server'.minted
          /\ Pc(g, {"post"})' => get'[g].refresh = server'.live
    BY <1>4, <2>1, <2>7 DEF Pc
  <2> QED BY <1>3, <2>1, <2>2, <2>6, <2>7, <2>8, <2>9 DEF RefreshInv
<1>8. ASSUME NEW c \in Gets, Token!Lock(c) PROVE RefreshInv'
  <2>1. Pc(c, {"lock"}) /\ ~Token!Locked(c) /\ UNCHANGED <<server, keyring, file, up, past>>
    BY <1>8 DEF Token!Lock, Token!At, Token!store, Pc
  <2>2. UNCHANGED Token!Stored /\ (Token!Usable <=> Token!Usable')
    BY <1>5, <2>1 DEF Token!Usable
  <2>3. ASSUME NEW d \in Gets PROVE ~Pc(d, {"post", "put"})
    BY <1>1, <2>1, WorkersLock
  <2>4. Current /\ \A d \in Gets : ~Pc(d, {"put"})
    BY <1>3, <2>3 DEF Pc
  <2>5. CASE Token!Return(c, "token")
    <3>1. OtherGets(c) /\ get'[c].pc = "done" /\ get'[c].result = "token"
      BY <1>2, <2>5, TokenReturns DEF GetMoves
    <3>2. \A g \in Gets : /\ get'[g].result # "dead" /\ ~Pc(g, {"post", "put"})'
                          /\ Pc(g, {"lock"})' => get'[g].refresh = server.live \/ Token!Usable
      BY <1>3, <1>4, <2>3, <2>4, <3>1 DEF Pc, OtherGets
    <3> QED BY <1>3, <2>1, <2>2, <2>4, <3>2 DEF RefreshInv, Pc
  <2>6. CASE ~Token!Usable /\ get' = [get EXCEPT ![c].pc = "post"]
    <3>1. OtherGets(c) /\ get'[c].pc = "post" /\ get'[c].result = get[c].result
          /\ get'[c].refresh = get[c].refresh
      BY <1>2, <2>6, TokenMoves DEF GetMoves
    <3>2. get[c].refresh = server.live
      BY <1>4, <2>1, <2>4, <2>6
    <3>3. \A g \in Gets : /\ get'[g].result # "dead" /\ ~Pc(g, {"put"})'
                          /\ Pc(g, {"post"})' => g = c
                          /\ Pc(g, {"lock"})' => get'[g].refresh = server.live
      BY <1>3, <1>4, <2>3, <2>4, <2>6, <3>1 DEF Pc, OtherGets
    <3> QED BY <1>3, <2>1, <2>2, <2>4, <3>1, <3>2, <3>3 DEF RefreshInv, Pc
  <2> QED BY <1>8, <2>5, <2>6 DEF Token!Lock
<1>9. ASSUME NEW c \in Gets, NEW rotate \in BOOLEAN, Token!Granted(c, rotate) PROVE RefreshInv'
  <2>1. /\ GetMoves(c, "put") /\ OtherGets(c) /\ get'[c].pc = "put"
        /\ get'[c].token = [access |-> server'.minted, refresh |-> server'.live]
        /\ get'[c].result = get[c].result
        /\ server'.minted = server.minted + 1 /\ server'.expired = server.expired /\ server'.live # 0
    BY <1>9, GrantedFine DEF GetMoves
  <2>2. Pc(c, {"post"}) /\ UNCHANGED <<keyring, file, up, past>>
    BY <1>9 DEF Token!Granted, Token!At, Token!store, Pc
  <2>3. UNCHANGED Token!Stored /\ server'.expired < server'.minted
    BY <1>2, <1>5, <2>1, <2>2
  <2>4. \A g \in Gets : get'[g].result # "dead" /\ (Pc(g, {"post", "put"})' => g = c)
    BY <1>3, <2>1, <2>2 DEF Pc, OtherGets
  <2> QED BY <1>3, <2>1, <2>2, <2>3, <2>4 DEF RefreshInv, Pc
<1>10. ASSUME NEW c \in Gets, NEW revoke \in BOOLEAN, Token!Rejected(c, revoke) PROVE FALSE
  BY <1>4, <1>10 DEF Token!Rejected, Token!At, Pc
<1>11. ASSUME NEW c \in Gets, Token!Persist(c) PROVE RefreshInv'
  <2>1. /\ OtherGets(c) /\ get'[c].pc = "done" /\ get'[c].result = "token" /\ Pc(c, {"put"})
        /\ Token!Put(get[c].token) /\ UNCHANGED <<server, up, past>>
    BY <1>11, PersistFine DEF GetMoves
  <2>2. get[c].token = [access |-> server.minted, refresh |-> server.live] /\ server.expired < server.minted
        /\ get[c].token # Token!None
    BY <1>3, <1>4, <2>1 DEF Token!None
  <2>3. Token!Stored' = [access |-> server.minted, refresh |-> server.live] /\ Token!Stored' # Token!None
    BY <2>1, <2>2, StoredAfterPut
  <2>4. Token!Usable'
    BY <1>2, <2>1, <2>2, <2>3 DEF Token!Usable
  <2>5. \A g \in Gets : get'[g].result # "dead" /\ ~Pc(g, {"post", "put"})'
    BY <1>3, <2>1 DEF Pc, OtherGets
  <2> QED BY <1>3, <2>1, <2>3, <2>4, <2>5 DEF RefreshInv, Pc
<1>12. ASSUME NEW c \in Gets, Token!PurgeDead(c) PROVE FALSE
  BY <1>3, <1>12 DEF Token!PurgeDead
<1>13. ASSUME Token!SignIn PROVE FALSE
  BY <1>3, <1>13 DEF Token!SignIn
<1>14. ASSUME Token!Expire PROVE RefreshInv'
  <2>1. /\ \A g \in Gets : ~Pc(g, {"lock", "post", "put"})
        /\ server'.minted = server.minted /\ server'.live = server.live
        /\ UNCHANGED <<keyring, file, up, get, past>>
    BY <1>2, <1>14 DEF Token!Expire, Token!Refreshing, Token!store, Pc, TokensKnown, Token!TypeOK
  <2>2. \A g \in Gets : ~Pc(g, {"post", "put"}) /\ ~Pc(g, {"put"}) /\ ~Pc(g, {"post"}) /\ ~Pc(g, {"lock"})
    BY <2>1 DEF Pc
  <2>3. \A g \in Gets : /\ ~Pc(g, {"post", "put"})' /\ ~Pc(g, {"put"})' /\ ~Pc(g, {"post"})' /\ ~Pc(g, {"lock"})'
                        /\ get'[g].result # "dead"
    BY <1>3, <2>1, <2>2 DEF Pc
  <2>4. Current'
    BY <1>3, <1>5, <2>1, <2>2
  <2> QED BY <1>3, <1>5, <2>1, <2>3, <2>4 DEF RefreshInv
<1>15. ASSUME Token!Flip PROVE RefreshInv'
  <2>1. UNCHANGED <<server, keyring, file, get, past>> /\ up' = ~up
        /\ spent.flips < MaxFlips /\ spent.flips \in Nat
    BY <1>15 DEF Token!Flip, Token!store, TokensKnown, Token!TypeOK
  <2>2. ~KeyringUp /\ spent.flips = 0
    BY <2>1, SessionAssumption DEF OnlyTurnsUp
  <2>3. ~up /\ keyring = Token!None
    BY <2>2 DEF KeyringKnown
  <2>4. UNCHANGED Token!Stored
    BY <2>1, <2>3 DEF Token!Stored
  <2> QED BY <1>6, <2>1, <2>4
<1>16. CASE UNCHANGED tokenVars
  BY <1>5, <1>6, <1>16 DEF tokenVars
<1> QED BY <1>1, <1>7, <1>8, <1>9, <1>10, <1>11, <1>12, <1>13, <1>14, <1>15, <1>16 DEF Token!Next, Token!Step

LEMMA StoreInit == Token!Init => StoreInv
<1> SUFFICES ASSUME Token!Init PROVE StoreInv
  OBVIOUS
<1>1. TokensKnown
  BY TokensInit
<1>2. \A g \in Gets : get[g].pc = "idle" /\ get[g].proc = NoOne /\ get[g].source = 0 /\ get[g].result = "none"
  BY DEF Token!Init, Token!Fresh
<1>3. KeyringKnown
  BY SessionAssumption DEF Token!Init, KeyringKnown
<1>4. CallsKnown
  BY <1>2 DEF Token!Init, CallsKnown, Pc
<1>5. Token!Stored = [access |-> server.minted, refresh |-> server.live] /\ Token!Stored # Token!None
  BY SessionAssumption DEF Token!Init, Token!Stored, Token!First, Token!None
<1>6. RefreshInv
  BY <1>2, <1>5 DEF Token!Init, RefreshInv, Pc
<1> QED BY <1>1, <1>3, <1>4, <1>6 DEF StoreInv

\* The clients of one process never send the server a refresh token it has rotated, and
\* between two refreshes the store holds the youngest token: the mutex and the second look
\* under it suffice (refresh, tokensource.go), and so do the rules by which the keyring and
\* the file take over from each other (PutToken, readToken). For any number of calls.
THEOREM RefreshIsSafeAlways ==
  ASSUME OneProcess, OnlyTurnsUp
  PROVE  SessionSpec => []RefreshIsSafe
<1>1. SessionInit => StoreInv
  BY StoreInit DEF SessionInit
<1>2. StoreInv /\ [SessionNext]_<<focus, vars, tokenVars, authVars>> => StoreInv'
  <2> SUFFICES ASSUME StoreInv, Token!Next \/ UNCHANGED tokenVars PROVE StoreInv'
    BY DEF SessionNext
  <2> QED BY TokensNext, KeyringNext, CallsNext, RefreshNext DEF StoreInv
<1>3. StoreInv => RefreshIsSafe
  BY DEF StoreInv, RefreshInv, Clean, Pc, RefreshIsSafe, Token!NoReuse, Token!StoreIsCurrent, Token!At
<1> QED BY <1>1, <1>2, <1>3, PTL DEF SessionSpec

\* The types of the three modules, whatever is disturbed. Among them: a refresh token that
\* is sent was minted.
THEOREM SessionTypes == SessionSpec => []SessionTypeOK
<1>1. SessionInit => AuthInv /\ TokensKnown /\ IInv /\ TypeOK
  BY AuthInit, TokensInit, InitInv, TypesInit DEF SessionInit
<1>2. AuthInv /\ TokensKnown /\ IInv /\ TypeOK /\ [SessionNext]_<<focus, vars, tokenVars, authVars>>
        => AuthInv' /\ TokensKnown' /\ IInv' /\ TypeOK'
  <2> SUFFICES ASSUME AuthInv, TokensKnown, IInv, TypeOK, Auth!Next \/ UNCHANGED authVars,
                      Token!Next \/ UNCHANGED tokenVars, [Next]_vars
               PROVE  AuthInv' /\ TokensKnown' /\ IInv' /\ TypeOK'
    BY DEF SessionNext
  <2> QED BY AuthNext, TokensNext, NextInv, TypesNext
<1>3. AuthInv /\ TokensKnown /\ TypeOK => SessionTypeOK
  BY DEF AuthInv, TokensKnown, SessionTypeOK
<1> QED BY <1>1, <1>2, <1>3, PTL DEF SessionSpec
=============================================================================
