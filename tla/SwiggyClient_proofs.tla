------------------------- MODULE SwiggyClient_proofs -------------------------
(***************************************************************************)
(* The limiters of SwiggyClient keep their promise, and a revoked session  *)
(* is not used again, for any number of clients and calls, any interval,   *)
(* burst, refill and retry policy, and without the bounds of the runs.     *)
(***************************************************************************)
EXTENDS SwiggyClient, FiniteSetTheorems, TLAPS

\* What the limiters' state says of the slots and tokens handed out: the next slot is
\* an interval after all of them, and the bucket's debt (last - credit is the time to
\* which its tokens are spent) covers every token but a burst of them.
SlotInv ==
    /\ now \in Nat /\ next \in Nat /\ slots \in Seq(Nat)
    /\ \A i \in 1..Len(slots) : next - slots[i] >= (Len(slots) + 1 - i) * Interval
    /\ SlotsSpaced

TokenInv ==
    /\ bucket \in [credit : Int, last : Nat] /\ grants \in Seq(Int)
    /\ \A i \in 1..Len(grants) :
          (bucket.last - bucket.credit) - grants[i] >= (Len(grants) + 1 - i - Burst) * Refill
    /\ WriteBudget

\* A session is one that was issued, so the next one is new to whoever reports it.
Fields == {"pc", "client", "tool", "session", "attempt", "due"}

CallInv(r) ==
    /\ DOMAIN r = Fields
    /\ r.session \in Nat /\ r.session <= issued
    /\ r.pc = "idle" \/ r.client \in Clients

SessionInv ==
    /\ issued \in Nat
    /\ session \in [Clients -> Nat] /\ \A k \in Clients : session[k] <= issued
    /\ reported \in [Clients -> SUBSET Nat]
    /\ \A k \in Clients : \A r \in reported[k] : r # 0 /\ r <= issued
    /\ DOMAIN call = Calls /\ \A c \in Calls : CallInv(call[c])
    /\ RevokedNotReused

IInv == SlotInv /\ TokenInv /\ SessionInv

-----------------------------------------------------------------------------
(* Arithmetic *)

LEMMA OneMore ==
    ASSUME NEW m \in Int, NEW d \in Int
    PROVE  (m + 1) * d = m * d + d
BY SMT

LEMMA Monotone ==
    ASSUME NEW m \in Int, NEW n \in Int, NEW d \in Nat, m <= n
    PROVE  m * d <= n * d
BY SMT

-----------------------------------------------------------------------------
(* The limiters *)

\* Reserving any slot that is not before next keeps the spacing.
LEMMA ReserveSafe ==
    ASSUME SlotInv, now' = now, Reserve(Slot)
    PROVE  SlotInv'
<1> USE LimiterAssumption
<1> DEFINE n == Len(slots)
<1>1. /\ now \in Nat /\ next \in Nat /\ slots \in Seq(Nat) /\ n \in Nat
      /\ Slot \in Nat /\ Slot >= next
  BY DEF SlotInv, Slot, Larger
<1>2. /\ slots' = Append(slots, Slot) /\ Len(slots') = n + 1
      /\ \A i \in 1..n : slots'[i] = slots[i] /\ slots[i] \in Nat
      /\ slots'[n + 1] = Slot
      /\ next' = Slot + Interval
  BY <1>1 DEF Reserve
<1>3. slots' \in Seq(Nat) /\ now' \in Nat /\ next' \in Nat
  BY <1>1, <1>2
<1>4. \A i \in 1..n : Slot - slots[i] >= (n + 1 - i) * Interval
  <2>1. TAKE i \in 1..n
  <2>2. next - slots[i] >= (n + 1 - i) * Interval /\ slots[i] \in Nat
    BY <1>2 DEF SlotInv
  <2>3. (n + 1 - i) * Interval \in Int
    BY <1>1
  <2> QED BY <1>1, <2>2, <2>3
<1>5. \A i \in 1..(n + 1) : next' - slots'[i] >= (n + 2 - i) * Interval
  <2>1. TAKE i \in 1..(n + 1)
  <2>2. CASE i = n + 1
    <3>1. (n + 2 - i) * Interval = Interval
      BY <2>2, <1>1
    <3> QED BY <3>1, <2>2, <1>1, <1>2
  <2>3. CASE i \in 1..n
    <3>1. Slot - slots[i] >= (n + 1 - i) * Interval /\ slots[i] \in Nat /\ slots'[i] = slots[i]
      BY <1>4, <1>2, <2>3
    <3>2. (n + 2 - i) * Interval = (n + 1 - i) * Interval + Interval
      <4>1. n + 1 - i \in Int /\ (n + 1 - i) + 1 = n + 2 - i
        BY <1>1
      <4> QED BY <4>1, OneMore
    <3>3. (n + 1 - i) * Interval \in Int
      BY <1>1
    <3> QED BY <3>1, <3>2, <3>3, <1>1, <1>2
  <2> QED BY <2>1, <2>2, <2>3, <1>1
<1>6. SlotsSpaced'
  <2>1. SUFFICES ASSUME NEW i \in 1..(n + 1), NEW j \in 1..(n + 1), i < j
                 PROVE  slots'[j] - slots'[i] >= (j - i) * Interval
    BY <1>2 DEF SlotsSpaced
  <2>2. i \in 1..n
    BY <2>1, <1>1
  <2>3. CASE j = n + 1
    BY <2>3, <2>2, <1>2, <1>4
  <2>4. CASE j \in 1..n
    BY <2>4, <2>2, <2>1, <1>2 DEF SlotInv, SlotsSpaced
  <2> QED BY <2>3, <2>4, <1>1
<1> QED BY <1>2, <1>3, <1>5, <1>6 DEF SlotInv

\* Taking a token, with any credit the refill leaves, keeps the budget.
LEMMA TakeTokenSafe ==
    ASSUME TokenInv, now \in Nat, TakeToken(Refilled, TokenAt(Refilled))
    PROVE  TokenInv'
<1> USE LimiterAssumption
<1> DEFINE n == Len(grants)
           spent == bucket.last - bucket.credit
           at == TokenAt(Refilled)
<1>1. n \in Nat /\ bucket.credit \in Int /\ bucket.last \in Nat /\ grants \in Seq(Int) /\ spent \in Int
  BY DEF TokenInv
<1>2. /\ Burst * Refill \in Nat
      /\ Refilled \in Int /\ at \in Int
      /\ Refilled <= Burst * Refill
      /\ now - Refilled >= spent
      /\ at >= now /\ at >= now + Refill - Refilled
      /\ at = now \/ at = now + Refill - Refilled
  <2>1. Burst * Refill \in Nat
    BY SMT
  <2> DEFINE full == Burst * Refill
  <2> HIDE DEF full
  <2>2. full \in Nat /\ Refilled = Smaller(full, bucket.credit + (now - bucket.last))
    BY <2>1 DEF Refilled, full
  <2>3. Refilled \in Int /\ Refilled <= full /\ now - Refilled >= spent
    BY <1>1, <2>2 DEF Smaller
  <2>4. /\ at \in Int
        /\ at >= now /\ at >= now + Refill - Refilled
        /\ at = now \/ at = now + Refill - Refilled
    BY <2>3 DEF TokenAt, Larger
  <2>5. Refilled <= Burst * Refill
    BY <2>3 DEF full
  <2> QED BY <2>1, <2>3, <2>4, <2>5
<1>3. /\ grants' = Append(grants, at) /\ Len(grants') = n + 1
      /\ \A i \in 1..n : grants'[i] = grants[i] /\ grants[i] \in Int
      /\ grants'[n + 1] = at
      /\ bucket' = [credit |-> Refilled - Refill, last |-> now]
  BY <1>1 DEF TakeToken
<1> DEFINE owed == now + Refill - Refilled
<1>4. /\ bucket'.last - bucket'.credit = owed /\ owed \in Int
      /\ owed >= spent + Refill /\ at >= owed
  BY <1>1, <1>2, <1>3
<1> HIDE DEF at, spent, owed
<1>5. \A i \in 1..n : owed - grants[i] >= (n + 2 - i - Burst) * Refill
  <2>1. TAKE i \in 1..n
  <2>2. spent - grants[i] >= (n + 1 - i - Burst) * Refill /\ grants[i] \in Int
    BY <1>3 DEF TokenInv, spent
  <2>3. (n + 2 - i - Burst) * Refill = (n + 1 - i - Burst) * Refill + Refill
    <3>1. n + 1 - i - Burst \in Int /\ (n + 1 - i - Burst) + 1 = n + 2 - i - Burst
      BY <1>1
    <3> QED BY <3>1, OneMore
  <2>4. (n + 1 - i - Burst) * Refill \in Int
    BY <1>1
  <2>5. spent \in Int
    BY <1>1
  <2> QED BY <2>2, <2>3, <2>4, <2>5, <1>4
<1>6. owed - at >= (1 - Burst) * Refill
  <2>1. (1 - Burst) * Refill <= 0 /\ (1 - Burst) * Refill = Refill - Burst * Refill
    <3>1. (1 - Burst) * Refill <= 0 * Refill
      BY Monotone
    <3>2. (1 - Burst) * Refill = Refill - Burst * Refill
      BY SMT
    <3> QED BY <3>1, <3>2
  <2>2. owed - now >= Refill - Burst * Refill
    <3> DEFINE full == Burst * Refill
    <3> HIDE DEF full
    <3>1. full \in Nat /\ Refilled <= full /\ Refilled \in Int
      BY <1>2 DEF full
    <3>2. owed - now >= Refill - full
      BY <3>1 DEF owed
    <3> QED BY <3>2 DEF full
  <2>3. at \in Int /\ owed \in Int /\ (at = now \/ at = owed)
    BY <1>2, <1>4 DEF at, owed
  <2> QED BY <2>1, <2>2, <2>3
<1>7. bucket' \in [credit : Int, last : Nat] /\ grants' \in Seq(Int)
  BY <1>1, <1>2, <1>3 DEF at
<1>8. \A i \in 1..(n + 1) :
         (bucket'.last - bucket'.credit) - grants'[i] >= (n + 2 - i - Burst) * Refill
  <2>1. TAKE i \in 1..(n + 1)
  <2>2. CASE i = n + 1
    <3>1. n + 2 - i - Burst = 1 - Burst
      BY <2>2, <1>1
    <3> QED BY <3>1, <2>2, <1>3, <1>4, <1>6
  <2>3. CASE i \in 1..n
    BY <2>3, <1>3, <1>4, <1>5
  <2> QED BY <2>1, <2>2, <2>3, <1>1
<1>9. WriteBudget'
  <2>1. SUFFICES ASSUME NEW i \in 1..(n + 1), NEW j \in 1..(n + 1), j - i >= Burst
                 PROVE  grants'[j] - grants'[i] >= (j - i - Burst + 1) * Refill
    BY <1>3 DEF WriteBudget
  <2>2. i \in 1..n
    BY <2>1, <1>1
  <2>3. CASE j = n + 1
    <3>1. owed - grants[i] >= (n + 2 - i - Burst) * Refill /\ grants[i] \in Int
      BY <1>5, <2>2, <1>3
    <3>2. n + 2 - i - Burst = j - i - Burst + 1
      BY <2>3, <1>1
    <3>3. at >= owed /\ at \in Int /\ owed \in Int /\ (j - i - Burst + 1) * Refill \in Int
      BY <1>4, <1>2 DEF at
    <3> QED BY <3>1, <3>2, <3>3, <2>2, <2>3, <1>3
  <2>4. CASE j \in 1..n
    BY <2>4, <2>2, <2>1, <1>3 DEF TokenInv, WriteBudget
  <2> QED BY <2>3, <2>4, <1>1
<1> QED BY <1>3, <1>7, <1>8, <1>9 DEF TokenInv

-----------------------------------------------------------------------------
(* Sessions *)

\* What a step of call c may do to the calls' records.
Moves(c) ==
    /\ DOMAIN call' = Calls
    /\ \A d \in Calls : d # c => call'[d] = call[d]
    /\ DOMAIN call'[c] = Fields
    /\ call'[c].pc = "idle" \/ call'[c].client \in Clients

LEMMA KeepsSession ==
    ASSUME SessionInv, UNCHANGED <<session, issued, reported>>, NEW c \in Calls, Moves(c),
           call'[c].session \in Nat /\ call'[c].session <= issued
    PROVE  SessionInv'
<1>1. \A d \in Calls : CallInv(call[d])'
  <2>1. SUFFICES ASSUME NEW d \in Calls PROVE CallInv(call[d])'
    OBVIOUS
  <2>2. CASE d = c
    BY <2>2 DEF CallInv, Moves
  <2>3. CASE d # c
    BY <2>3 DEF SessionInv, CallInv, Moves
  <2> QED BY <2>2, <2>3
<1> QED BY <1>1 DEF SessionInv, RevokedNotReused, Moves

LEMMA IdleSafe ==
    ASSUME SessionInv, UNCHANGED <<session, issued, reported, call>>
    PROVE  SessionInv'
BY DEF SessionInv, CallInv, RevokedNotReused

LEMMA BeginSafe ==
    ASSUME SessionInv, NEW c \in Calls, NEW k \in Clients, NEW tool \in Tools, Begin(c, k, tool)
    PROVE  SessionInv'
<1>1. UNCHANGED <<session, issued, reported>>
  BY DEF Begin, sessions
<1>2. Moves(c) /\ call'[c].session = 0
  BY DEF Begin, Moves, SessionInv, Fresh, Fields
<1> QED BY <1>1, <1>2, KeepsSession DEF SessionInv

\* The actions in which a call moves on with the session it has, or with the cached one.
LEMMA StepsSafe ==
    ASSUME SessionInv, NEW c \in Calls,
           \/ Reuse(c) \/ Initialize(c) \/ InitializeFails(c) \/ WaitToken(c) \/ Send(c)
           \/ Answer(c) \/ Transient(c) \/ Retry(c) \/ Revoked(c) \/ Cancel(c)
    PROVE  SessionInv'
<1> USE DEF Moves, Fields, At, Goto, Sleep
<1>0. /\ DOMAIN call = Calls /\ DOMAIN call[c] = Fields
      /\ call[c].pc = "idle" \/ call[c].client \in Clients
      /\ call[c].session \in Nat /\ call[c].session <= issued
  BY DEF SessionInv, CallInv
<1>1. CASE Reuse(c)
  <2>1. UNCHANGED <<session, issued, reported>>
    BY <1>1 DEF Reuse, sessions
  <2>2. call[c].client \in Clients
    BY <1>0, <1>1 DEF Reuse
  <2>3. Moves(c) /\ call'[c].session = session[call[c].client]
    BY <1>0, <1>1, <2>2 DEF Reuse, Client
  <2> QED BY <2>1, <2>2, <2>3, KeepsSession DEF SessionInv
<1>2. CASE Initialize(c)
  <2>1. UNCHANGED <<session, issued, reported>> /\ Moves(c) /\ call'[c].session = call[c].session
    BY <1>0, <1>2 DEF Initialize
  <2> QED BY <1>0, <2>1, KeepsSession
<1>3. CASE InitializeFails(c)
  <2>1. UNCHANGED <<session, issued, reported>> /\ Moves(c) /\ call'[c].session = call[c].session
    BY <1>0, <1>3 DEF InitializeFails
  <2> QED BY <1>0, <2>1, KeepsSession
<1>4. CASE WaitToken(c)
  <2>1. UNCHANGED <<session, issued, reported>> /\ Moves(c) /\ call'[c].session = call[c].session
    BY <1>0, <1>4 DEF WaitToken, sessions
  <2> QED BY <1>0, <2>1, KeepsSession
<1>5. CASE Send(c)
  <2>1. UNCHANGED <<session, issued, reported>> /\ Moves(c) /\ call'[c].session = call[c].session
    BY <1>0, <1>5 DEF Send, Post, sessions
  <2> QED BY <1>0, <2>1, KeepsSession
<1>6. CASE Answer(c)
  <2>1. UNCHANGED <<session, issued, reported>> /\ Moves(c) /\ call'[c].session = call[c].session
    BY <1>0, <1>6 DEF Answer, sessions
  <2> QED BY <1>0, <2>1, KeepsSession
<1>7. CASE Transient(c)
  <2>1. PICK d \in Backoffs(call[c].attempt) : Sleep(c, "backoff", now + d)
    BY <1>7 DEF Transient
  <2>2. UNCHANGED <<session, issued, reported>> /\ Moves(c) /\ call'[c].session = call[c].session
    BY <1>0, <1>7, <2>1 DEF Transient, sessions
  <2> QED BY <1>0, <2>2, KeepsSession
<1>8. CASE Retry(c)
  <2>1. UNCHANGED <<session, issued, reported>> /\ Moves(c) /\ call'[c].session = call[c].session
    BY <1>0, <1>8 DEF Retry, sessions
  <2> QED BY <1>0, <2>1, KeepsSession
<1>9. CASE Revoked(c)
  <2>1. UNCHANGED <<session, issued, reported>> /\ Moves(c) /\ call'[c].session = call[c].session
    BY <1>0, <1>9 DEF Revoked, sessions
  <2> QED BY <1>0, <2>1, KeepsSession
<1>10. CASE Cancel(c)
  <2>1. UNCHANGED <<session, issued, reported>> /\ Moves(c) /\ call'[c].session = call[c].session
    BY <1>0, <1>10 DEF Cancel, sessions
  <2> QED BY <1>0, <2>1, KeepsSession
<1> QED BY <1>1, <1>2, <1>3, <1>4, <1>5, <1>6, <1>7, <1>8, <1>9, <1>10

LEMMA InitializedSafe ==
    ASSUME SessionInv, NEW c \in Calls, NEW f \in BOOLEAN, Initialized(c, f)
    PROVE  SessionInv'
<1> DEFINE k == call[c].client
           s == IF f THEN issued + 1 ELSE 0
<1>1. /\ DOMAIN call = Calls /\ DOMAIN call[c] = Fields
      /\ k \in Clients /\ issued \in Nat
  BY DEF SessionInv, CallInv, Initialized, At
<1>2. /\ issued' = (IF f THEN s ELSE issued) /\ reported' = reported
      /\ session' = [session EXCEPT ![k] = s]
  BY DEF Initialized, Client
<1>3. /\ s \in Nat /\ issued' \in Nat /\ issued <= issued' /\ s <= issued'
      /\ s = 0 \/ s = issued + 1
  BY <1>1, <1>2
<1>4. Moves(c) /\ call'[c].session = s
  BY <1>1 DEF Initialized, Moves, Fields, Client
<1> HIDE DEF s
<1>5. session' \in [Clients -> Nat] /\ \A i \in Clients : session'[i] <= issued'
  BY <1>1, <1>2, <1>3 DEF SessionInv
<1>6. \A i \in Clients : \A r \in reported'[i] : r # 0 /\ r <= issued' /\ r <= issued
  BY <1>2, <1>3 DEF SessionInv
<1>7. \A d \in Calls : CallInv(call[d])'
  <2>1. SUFFICES ASSUME NEW d \in Calls PROVE CallInv(call[d])'
    OBVIOUS
  <2>2. CASE d = c
    BY <2>2, <1>3, <1>4 DEF CallInv, Moves
  <2>3. CASE d # c
    BY <2>3, <1>1, <1>3, <1>4 DEF SessionInv, CallInv, Moves
  <2> QED BY <2>2, <2>3
<1>8. RevokedNotReused'
  <2>1. SUFFICES ASSUME NEW i \in Clients PROVE session'[i] \notin reported'[i]
    BY DEF RevokedNotReused
  <2>2. CASE i # k
    BY <2>2, <1>2 DEF SessionInv, RevokedNotReused
  <2>3. CASE i = k
    <3>1. session'[i] = s
      BY <2>3, <1>2 DEF SessionInv
    <3> QED BY <3>1, <1>1, <1>3, <1>6
  <2> QED BY <2>2, <2>3
<1> QED BY <1>2, <1>3, <1>4, <1>5, <1>6, <1>7, <1>8 DEF SessionInv, Moves

LEMMA ResetSafe ==
    ASSUME SessionInv, NEW c \in Calls, ResetSession(c)
    PROVE  SessionInv'
<1> DEFINE k == call[c].client
           told == reported[k] \cup ({call[c].session} \ {0})
<1>1. /\ issued' = issued
      /\ session' = [session EXCEPT ![k] = 0]
      /\ reported' = [reported EXCEPT ![k] = told]
  BY DEF ResetSession, Client
<1>2. /\ DOMAIN call = Calls /\ DOMAIN call[c] = Fields /\ k \in Clients
      /\ issued \in Nat /\ call[c].session \in Nat /\ call[c].session <= issued
  BY DEF SessionInv, CallInv, ResetSession, At
<1>3. Moves(c) /\ call'[c].session = call[c].session
  BY <1>2 DEF ResetSession, Goto, Moves, Fields
<1>4. \A i \in Clients : reported'[i] = IF i = k THEN told ELSE reported[i]
  BY <1>1 DEF SessionInv
<1>5. \A i \in Clients : /\ reported'[i] \in SUBSET Nat
                         /\ \A q \in reported'[i] : q # 0 /\ q <= issued'
  BY <1>1, <1>2, <1>4 DEF SessionInv
<1>6. reported' \in [Clients -> SUBSET Nat]
  BY <1>1, <1>5 DEF SessionInv
<1>7. session' \in [Clients -> Nat] /\ \A i \in Clients : session'[i] <= issued'
  BY <1>1, <1>2 DEF SessionInv
<1>8. \A d \in Calls : CallInv(call[d])'
  BY <1>1, <1>2, <1>3 DEF SessionInv, CallInv, Moves
<1>9. RevokedNotReused'
  <2>1. SUFFICES ASSUME NEW i \in Clients PROVE session'[i] \notin reported'[i]
    BY DEF RevokedNotReused
  <2>2. CASE i # k
    BY <2>2, <1>1 DEF SessionInv, RevokedNotReused
  <2>3. CASE i = k
    <3>1. session'[i] = 0
      BY <2>3, <1>1 DEF SessionInv
    <3> QED BY <3>1, <1>5
  <2> QED BY <2>2, <2>3
<1> QED BY <1>1, <1>2, <1>3, <1>5, <1>6, <1>7, <1>8, <1>9 DEF SessionInv, Moves

-----------------------------------------------------------------------------
(* The limiters again: an action reserves a slot, takes a token, or does neither *)

LEMMA LimitersKept ==
    /\ SlotInv /\ UNCHANGED <<next, slots>> /\ now' \in Nat => SlotInv'
    /\ TokenInv /\ UNCHANGED <<bucket, grants>> => TokenInv'
BY DEF SlotInv, SlotsSpaced, TokenInv, WriteBudget

LEMMA LimitersSafe ==
    ASSUME SlotInv, TokenInv, Next
    PROVE  SlotInv' /\ TokenInv'
<1>0. now \in Nat
  BY DEF SlotInv
<1>1. ASSUME UNCHANGED <<now, throttle>> PROVE SlotInv' /\ TokenInv'
  BY <1>0, <1>1, LimitersKept DEF throttle
<1>2. ASSUME UNCHANGED <<now, bucket, grants>>, Reserve(Slot) PROVE SlotInv' /\ TokenInv'
  BY <1>2, LimitersKept, ReserveSafe
<1>3. CASE \E c \in Calls, k \in Clients, tool \in Tools : Begin(c, k, tool)
  BY <1>1, <1>3 DEF Begin
<1>4. ASSUME NEW c \in Calls, Step(c) \/ Cancel(c) PROVE SlotInv' /\ TokenInv'
  <2>1. CASE Reuse(c)
    BY <1>2, <2>1 DEF Reuse
  <2>2. CASE Initialize(c) \/ InitializeFails(c) \/ ResetSession(c)
    BY <1>1, <2>2 DEF Initialize, InitializeFails, ResetSession
  <2>3. CASE \E f \in BOOLEAN : Initialized(c, f)
    BY <1>2, <2>3 DEF Initialized
  <2>4. CASE WaitToken(c)
    <3>1. UNCHANGED <<now, next, slots>> /\ TakeToken(Refilled, TokenAt(Refilled))
      BY <2>4 DEF WaitToken
    <3> QED BY <1>0, <3>1, LimitersKept, TakeTokenSafe
  <2>5. CASE Send(c) \/ Answer(c) \/ Transient(c) \/ Revoked(c) \/ Cancel(c)
    BY <1>1, <2>5 DEF Send, Answer, Transient, Revoked, Cancel
  <2>6. CASE Retry(c)
    BY <1>2, <2>6 DEF Retry
  <2> QED BY <1>4, <2>1, <2>2, <2>3, <2>4, <2>5, <2>6 DEF Step
<1>5. CASE Tick
  BY <1>0, <1>5, LimitersKept DEF Tick, throttle
<1> QED BY <1>3, <1>4, <1>5 DEF Next

-----------------------------------------------------------------------------
(* The theorems *)

LEMMA InitInv == Init => IInv
<1> SUFFICES ASSUME Init PROVE IInv
  OBVIOUS
<1> USE LimiterAssumption DEF Init
<1>1. SlotInv
  BY DEF SlotInv, SlotsSpaced
<1>2. TokenInv
  <2>1. Burst * Refill \in Int
    BY SMT
  <2> QED BY <2>1 DEF TokenInv, WriteBudget
<1>3. SessionInv
  BY DEF SessionInv, CallInv, Fresh, Fields, RevokedNotReused
<1> QED BY <1>1, <1>2, <1>3 DEF IInv

LEMMA NextInv == IInv /\ [Next]_vars => IInv'
<1> SUFFICES ASSUME IInv, [Next]_vars PROVE IInv'
  OBVIOUS
<1>1. CASE Next
  <2>1. SlotInv' /\ TokenInv'
    BY <1>1, LimitersSafe DEF IInv
  <2>2. SessionInv'
    <3> USE DEF IInv
    <3>1. ASSUME NEW c \in Calls, NEW k \in Clients, NEW tool \in Tools, Begin(c, k, tool)
          PROVE  SessionInv'
      BY <3>1, BeginSafe
    <3>2. ASSUME NEW c \in Calls, Step(c) \/ Cancel(c) PROVE SessionInv'
      BY <3>2, StepsSafe, InitializedSafe, ResetSafe DEF Step
    <3>3. CASE Tick
      BY <3>3, IdleSafe DEF Tick, sessions
    <3> QED BY <1>1, <3>1, <3>2, <3>3 DEF Next
  <2> QED BY <2>1, <2>2 DEF IInv
<1>2. CASE UNCHANGED vars
  <2>1. UNCHANGED <<now, next, slots, bucket, grants, session, issued, reported, call>>
    BY <1>2 DEF vars
  <2>2. SlotInv' /\ TokenInv'
    BY <2>1, LimitersKept DEF IInv, SlotInv
  <2>3. SessionInv'
    BY <2>1, IdleSafe DEF IInv
  <2> QED BY <2>2, <2>3 DEF IInv
<1> QED BY <1>1, <1>2

\* The limiters' and the sessions' invariant holds in every reachable state.
THEOREM Invariance == Spec => []IInv
BY InitInv, NextInv, PTL DEF Spec

\* rateLimiter: any two slots of an account are as far apart as the slots between them
\* allow, whoever reserved them and whatever became of the calls (ratelimit.go:32-42).
THEOREM SlotsAreSpaced == Spec => []SlotsSpaced
<1>1. IInv => SlotsSpaced
  BY DEF IInv, SlotInv
<1> QED BY <1>1, Invariance, PTL

\* writeLimiter: no window holds more write tokens than the burst and the refill allow
\* (ratelimit.go:91-114).
THEOREM WritesAreBounded == Spec => []WriteBudget
<1>1. IInv => WriteBudget
  BY DEF IInv, TokenInv
<1> QED BY <1>1, Invariance, PTL

\* ensureSession and resetSession: a session that was reported revoked stays out of the
\* cache (client.go:254-287).
THEOREM RevokedStaysOut == Spec => []RevokedNotReused
<1>1. IInv => RevokedNotReused
  BY DEF IInv, SessionInv
<1> QED BY <1>1, Invariance, PTL

-----------------------------------------------------------------------------
(* Types *)

CallType == [pc : {"idle", "session", "init", "slot", "token", "rpc", "backoff", "revoked", "done"},
             client : Clients \cup {NoOne}, tool : Tools,
             session : Nat, attempt : Nat, due : Nat]
AtWorkPcs == {"session", "init", "slot", "token", "rpc", "backoff", "revoked", "done"}

LEMMA GotoTyped ==
    ASSUME call \in [Calls -> CallType], NEW c \in Calls, NEW pc \in AtWorkPcs, Goto(c, pc)
    PROVE  call' \in [Calls -> CallType]
BY DEF CallType, AtWorkPcs, Goto

LEMMA SleepTyped ==
    ASSUME call \in [Calls -> CallType], NEW c \in Calls, NEW pc \in AtWorkPcs, NEW due \in Nat, Sleep(c, pc, due)
    PROVE  call' \in [Calls -> CallType]
<1>1. [call[c] EXCEPT !.pc = pc, !.due = due] \in CallType
  BY DEF CallType, AtWorkPcs
<1>2. call' = [call EXCEPT ![c] = [call[c] EXCEPT !.pc = pc, !.due = due]]
  BY DEF Sleep
<1> QED BY <1>1, <1>2

LEMMA SlotTyped ==
    ASSUME call \in [Calls -> CallType], NEW c \in Calls, NEW s \in Nat, NEW due \in Nat,
           call' = [call EXCEPT ![c].pc = "slot", ![c].session = s, ![c].due = due]
    PROVE  call' \in [Calls -> CallType]
<1>1. [call[c] EXCEPT !.pc = "slot", !.session = s] \in CallType
  BY DEF CallType
<1>2. [call[c] EXCEPT !.pc = "slot", !.session = s, !.due = due] \in CallType
  BY <1>1 DEF CallType
<1> QED BY <1>2

LEMMA SlotIsTime == now \in Nat /\ next \in Nat => Slot \in Nat
BY DEF Slot, Larger

LEMMA BackoffIsTime ==
    ASSUME NEW n \in 0..MaxRetries, NEW d \in Backoffs(n)
    PROVE  d \in Nat
<1>1. RetryBase * 2^n \in Nat /\ Cap \in Nat /\ MaxRetryAfter \in Nat
  <2>1. 2^n \in Nat /\ RetryBase \in Nat
    BY RetryAssumption
  <2> QED BY <2>1, RetryAssumption
<1> DEFINE most == Smaller(Cap, RetryBase * 2^n)
<1>2. most \in Nat
  BY <1>1 DEF Smaller
<1>3. \/ \E r \in 1..MaxRetryAfter : d = Smaller(Cap, r)
      \/ \E j \in 0..(most \div 2) : d = Smaller(Cap, most + j)
  BY DEF Backoffs
<1> HIDE DEF most
<1> QED BY <1>1, <1>2, <1>3 DEF Smaller

\* What an action does not leave as it is stays what it was.
LEMMA ReserveTyped ==
    ASSUME TypeOK, Reserve(Slot)
    PROVE  next' \in Nat /\ slots' \in Seq(Nat)
BY SlotIsTime, LimiterAssumption DEF TypeOK, Reserve

LEMMA TokenTyped ==
    ASSUME TypeOK, TakeToken(Refilled, TokenAt(Refilled))
    PROVE  bucket' \in [credit : Int, last : Nat] /\ grants' \in Seq(Nat) /\ TokenAt(Refilled) \in Nat
<1>1. Burst * Refill \in Int /\ Refill \in Nat
  BY LimiterAssumption
<1>2. now \in Nat /\ bucket.credit \in Int /\ bucket.last \in Nat /\ grants \in Seq(Nat)
  BY DEF TypeOK
<1>3. Refilled \in Int
  BY <1>1, <1>2 DEF Refilled, Smaller
<1>4. TokenAt(Refilled) \in Nat
  BY <1>1, <1>2, <1>3 DEF TokenAt, Larger
<1> QED BY <1>1, <1>2, <1>3, <1>4 DEF TakeToken

LEMMA TypesInit == Init => TypeOK
<1> SUFFICES ASSUME Init PROVE TypeOK
  OBVIOUS
<1>1. Burst * Refill \in Int
  BY LimiterAssumption
<1>2. Fresh \in CallType
  BY DEF Fresh, CallType, Tools
<1> QED BY <1>1, <1>2 DEF Init, TypeOK, CallType

LEMMA ClientKnown ==
    ASSUME IInv, NEW c \in Calls, ~At(c, "idle")
    PROVE  Client(c) \in Clients
BY DEF IInv, SessionInv, CallInv, At, Client

LEMMA TypesNext == IInv /\ TypeOK /\ [Next]_vars => TypeOK'
<1> SUFFICES ASSUME IInv, TypeOK, [Next]_vars PROVE TypeOK'
  OBVIOUS
<1>1. /\ now \in Nat /\ next \in Nat /\ bucket \in [credit : Int, last : Nat]
      /\ session \in [Clients -> Nat] /\ mutex \in [Clients -> Calls \cup {NoOne}] /\ issued \in Nat
      /\ call \in [Calls -> CallType] /\ slots \in Seq(Nat) /\ grants \in Seq(Nat)
      /\ reported \in [Clients -> SUBSET Nat] /\ sent \in Seq([call : Calls, tool : Tools, at : Nat])
      /\ Slot \in Nat
  BY SlotIsTime DEF TypeOK, CallType
<1>2. ASSUME NEW c \in Calls, NEW k \in Clients, NEW tool \in Tools, Begin(c, k, tool) PROVE TypeOK'
  <2>1. Fresh \in CallType
    BY DEF Fresh, CallType, Tools
  <2> DEFINE r == [Fresh EXCEPT !.pc = "session", !.client = k, !.tool = tool]
  <2>2. r \in CallType
    BY <2>1 DEF CallType
  <2> HIDE DEF r
  <2>3. call' = [call EXCEPT ![c] = r] /\ UNCHANGED <<now, throttle, sessions, sent>>
    BY <1>2 DEF Begin, r
  <2>4. call' \in [Calls -> CallType]
    BY <1>1, <2>2, <2>3
  <2> QED BY <1>1, <2>3, <2>4 DEF TypeOK, CallType, throttle, sessions
<1>3. ASSUME NEW c \in Calls, Reuse(c) \/ Retry(c) PROVE TypeOK'
  <2>1. Reserve(Slot) /\ UNCHANGED <<now, bucket, grants, sessions, sent>>
    BY <1>3 DEF Reuse, Retry
  <2>2. ASSUME Reuse(c) PROVE call' \in [Calls -> CallType]
    <3>1. Client(c) \in Clients /\ session[Client(c)] \in Nat
      BY <1>1, <2>2, ClientKnown DEF Reuse, At
    <3>2. call' = [call EXCEPT ![c].pc = "slot", ![c].session = session[Client(c)], ![c].due = Slot]
      BY <2>2 DEF Reuse
    <3> QED BY <1>1, <3>1, <3>2, SlotTyped
  <2>3. ASSUME Retry(c) PROVE call' \in [Calls -> CallType]
    <3> DEFINE n == call[c].attempt + 1
    <3>1. call' = [call EXCEPT ![c].pc = "slot", ![c].attempt = n, ![c].due = Slot]
      BY <2>3 DEF Retry
    <3>2. n \in Nat
      BY <1>1 DEF CallType
    <3> HIDE DEF n
    <3>3. [call[c] EXCEPT !.pc = "slot", !.attempt = n] \in CallType
      BY <1>1, <3>2 DEF CallType
    <3>4. [call[c] EXCEPT !.pc = "slot", !.attempt = n, !.due = Slot] \in CallType
      BY <1>1, <3>3 DEF CallType
    <3> QED BY <1>1, <3>1, <3>4
  <2>4. call' \in [Calls -> CallType]
    BY <1>3, <2>2, <2>3
  <2>5. next' \in Nat /\ slots' \in Seq(Nat)
    BY <2>1, ReserveTyped
  <2> QED BY <1>1, <2>1, <2>4, <2>5 DEF TypeOK, CallType, sessions
<1>4. ASSUME NEW c \in Calls, NEW f \in BOOLEAN, Initialized(c, f) PROVE TypeOK'
  <2> DEFINE k == Client(c)
             s == IF f THEN issued + 1 ELSE 0
  <2>1. k \in Clients /\ s \in Nat
    BY <1>1, <1>4, ClientKnown DEF Initialized, At
  <2>2. /\ issued' = IF f THEN s ELSE issued
        /\ session' = [session EXCEPT ![k] = s] /\ mutex' = [mutex EXCEPT ![k] = NoOne]
        /\ Reserve(Slot) /\ UNCHANGED <<now, bucket, grants, reported, sent>>
        /\ call' = [call EXCEPT ![c].pc = "slot", ![c].session = s, ![c].due = Slot]
    BY <1>4 DEF Initialized
  <2> HIDE DEF k, s
  <2>3. call' \in [Calls -> CallType]
    BY <1>1, <2>1, <2>2, SlotTyped
  <2>4. issued' \in Nat /\ session' \in [Clients -> Nat] /\ mutex' \in [Clients -> Calls \cup {NoOne}]
    BY <1>1, <2>1, <2>2
  <2>5. next' \in Nat /\ slots' \in Seq(Nat)
    BY <2>2, ReserveTyped
  <2> QED BY <1>1, <2>2, <2>3, <2>4, <2>5 DEF TypeOK, CallType
<1>5. ASSUME NEW c \in Calls, Initialize(c) \/ InitializeFails(c) PROVE TypeOK'
  <2>1. UNCHANGED <<now, throttle, session, issued, reported, sent>>
    BY <1>5 DEF Initialize, InitializeFails
  <2>2. call' \in [Calls -> CallType]
    BY <1>1, <1>5, GotoTyped DEF Initialize, InitializeFails, AtWorkPcs
  <2>3. mutex' \in [Clients -> Calls \cup {NoOne}]
    BY <1>1, <1>5 DEF Initialize, InitializeFails
  <2> QED BY <1>1, <2>1, <2>2, <2>3 DEF TypeOK, CallType, throttle
<1>6. ASSUME NEW c \in Calls, WaitToken(c) PROVE TypeOK'
  <2>1. UNCHANGED <<now, next, slots, sessions, sent>> /\ TakeToken(Refilled, TokenAt(Refilled))
        /\ Sleep(c, "token", TokenAt(Refilled))
    BY <1>6 DEF WaitToken
  <2>2. bucket' \in [credit : Int, last : Nat] /\ grants' \in Seq(Nat) /\ TokenAt(Refilled) \in Nat
    BY <2>1, TokenTyped
  <2>3. call' \in [Calls -> CallType]
    BY <1>1, <2>1, <2>2, SleepTyped DEF AtWorkPcs
  <2> QED BY <1>1, <2>1, <2>2, <2>3 DEF TypeOK, CallType, sessions
<1>7. ASSUME NEW c \in Calls, Send(c) PROVE TypeOK'
  <2>1. UNCHANGED <<now, throttle, sessions>> /\ Goto(c, "rpc")
        /\ sent' = Append(sent, [call |-> c, tool |-> call[c].tool, at |-> now])
    BY <1>7 DEF Send, Post
  <2>2. [call |-> c, tool |-> call[c].tool, at |-> now] \in [call : Calls, tool : Tools, at : Nat]
    BY <1>1 DEF CallType
  <2>3. sent' \in Seq([call : Calls, tool : Tools, at : Nat])
    BY <1>1, <2>1, <2>2
  <2>4. call' \in [Calls -> CallType]
    BY <1>1, <2>1, GotoTyped DEF AtWorkPcs
  <2> QED BY <1>1, <2>1, <2>3, <2>4 DEF TypeOK, CallType, throttle, sessions
<1>8. ASSUME NEW c \in Calls, Answer(c) \/ Transient(c) \/ Revoked(c) \/ Cancel(c) PROVE TypeOK'
  <2>1. UNCHANGED <<now, throttle, sessions, sent>>
    BY <1>8 DEF Answer, Transient, Revoked, Cancel
  <2>2. ASSUME Transient(c) PROVE call' \in [Calls -> CallType]
    <3>1. call[c].attempt \in 0..MaxRetries
      BY <1>1, <2>2, RetryAssumption DEF Transient, CallType
    <3>2. PICK d \in Backoffs(call[c].attempt) : Sleep(c, "backoff", now + d)
      BY <2>2 DEF Transient
    <3>3. now + d \in Nat
      BY <1>1, <3>1, BackoffIsTime
    <3> QED BY <1>1, <3>2, <3>3, SleepTyped DEF AtWorkPcs
  <2>3. call' \in [Calls -> CallType]
    BY <1>1, <1>8, <2>2, GotoTyped DEF Answer, Revoked, Cancel, AtWorkPcs
  <2> QED BY <1>1, <2>1, <2>3 DEF TypeOK, CallType, throttle, sessions
<1>9. ASSUME NEW c \in Calls, ResetSession(c) PROVE TypeOK'
  <2> DEFINE k == Client(c)
             revoked == {call[c].session} \ {0}
  <2>1. k \in Clients
    BY <1>9, ClientKnown DEF ResetSession, At
  <2>2. revoked \in SUBSET Nat
    BY <1>1 DEF CallType
  <2>3. /\ session' = [session EXCEPT ![k] = 0] /\ reported' = [reported EXCEPT ![k] = @ \cup revoked]
        /\ Goto(c, "done") /\ UNCHANGED <<now, throttle, mutex, issued, sent>>
    BY <1>9 DEF ResetSession
  <2> HIDE DEF k, revoked
  <2>4. call' \in [Calls -> CallType]
    BY <1>1, <2>3, GotoTyped DEF AtWorkPcs
  <2>5. session' \in [Clients -> Nat] /\ reported' \in [Clients -> SUBSET Nat]
    BY <1>1, <2>1, <2>2, <2>3
  <2> QED BY <1>1, <2>3, <2>4, <2>5 DEF TypeOK, CallType, throttle
<1>10. CASE Tick
  BY <1>1, <1>10 DEF Tick, TypeOK, CallType, throttle, sessions
<1>11. CASE UNCHANGED vars
  BY <1>1, <1>11 DEF vars, TypeOK, CallType
<1> QED BY <1>2, <1>3, <1>4, <1>5, <1>6, <1>7, <1>8, <1>9, <1>10, <1>11 DEF Next, Step

\* No wait, slot or backoff is negative, and whoever sends has a client: the types of the
\* client's state (client.go, ratelimit.go).
THEOREM ClientTypes == Spec => []TypeOK
BY InitInv, NextInv, TypesInit, TypesNext, PTL DEF Spec

-----------------------------------------------------------------------------
(* How often a call is sent *)

Sendings(c) == {i \in 1..Len(sent) : sent[i].call = c}
Sends(c) == Cardinality(Sendings(c))
OnceMore(c) == IF call[c].pc \in {"rpc", "backoff", "revoked", "done"} THEN 1 ELSE 0
Retries(c) == IF call[c].tool = "place" THEN 0 ELSE MaxRetries

\* A call has been sent once per attempt it counts, and once more if this attempt's request
\* is out; and it counts no attempt more than it is allowed.
SendInv == \A c \in Calls :
    /\ Sends(c) <= call[c].attempt + OnceMore(c)
    /\ call[c].attempt <= Retries(c)
    /\ At(c, "idle") => call[c].attempt = 0
    /\ At(c, "backoff") => Retryable(call[c].tool) /\ call[c].attempt < MaxRetries

LEMMA SendsNumber ==
    ASSUME TypeOK, NEW c \in Calls
    PROVE  IsFiniteSet(Sendings(c)) /\ Sends(c) \in Nat /\ Len(sent) \in Nat
<1>1. Len(sent) \in Nat
  BY DEF TypeOK
<1>2. IsFiniteSet(1..Len(sent))
  BY <1>1, FS_Interval
<1>3. Sendings(c) \in SUBSET (1..Len(sent))
  BY DEF Sendings
<1>4. IsFiniteSet(Sendings(c))
  BY <1>2, <1>3, FS_Subset
<1> QED BY <1>1, <1>4, FS_CardinalityType DEF Sends

\* A request more is a sending more of the call that makes it, and of no other.
LEMMA PostCounts ==
    ASSUME TypeOK, NEW c \in Calls, Post(c), NEW d \in Calls
    PROVE  Sends(d)' = IF d = c THEN Sends(c) + 1 ELSE Sends(d)
<1> DEFINE n == Len(sent)
           r == [call |-> c, tool |-> call[c].tool, at |-> now]
<1>1. n \in Nat /\ IsFiniteSet(Sendings(d)) /\ Sends(d) \in Nat
  BY SendsNumber
<1>2. r \in [call : Calls, tool : Tools, at : Nat] /\ r.call = c
  BY DEF TypeOK
<1>3. /\ sent' = Append(sent, r) /\ Len(sent') = n + 1 /\ sent'[n + 1] = r
      /\ \A i \in 1..n : sent'[i] = sent[i]
  BY <1>2 DEF TypeOK, Post
<1> HIDE DEF n, r
<1>4. Sendings(d)' = {i \in 1..(n + 1) : sent'[i].call = d}
  BY <1>3 DEF Sendings
<1>5. 1..(n + 1) = (1..n) \cup {n + 1} /\ n + 1 \notin 1..n
  BY <1>1
<1>6. n + 1 \notin Sendings(d) /\ Sendings(d) = {i \in 1..n : sent[i].call = d}
  BY <1>5 DEF Sendings, n
<1>7. CASE d = c
  <2>1. Sendings(d)' = Sendings(d) \cup {n + 1}
    BY <1>2, <1>3, <1>4, <1>5, <1>6, <1>7
  <2>2. Cardinality(Sendings(d) \cup {n + 1}) = Cardinality(Sendings(d)) + 1
    BY <1>1, <1>6, FS_AddElement
  <2> QED BY <1>7, <2>1, <2>2 DEF Sends
<1>8. CASE d # c
  <2>1. Sendings(d)' = Sendings(d)
    BY <1>2, <1>3, <1>4, <1>5, <1>6, <1>8
  <2> QED BY <1>8, <2>1 DEF Sends
<1> QED BY <1>7, <1>8

\* A step that sends nothing, and moves call c so that it owes no sending.
LEMMA OwesNone ==
    ASSUME TypeOK, SendInv, UNCHANGED sent, NEW c \in Calls,
           \A d \in Calls : d # c => call'[d] = call[d],
           call'[c].attempt \in Nat, call'[c].attempt <= Retries(c)',
           call[c].attempt + OnceMore(c) <= call'[c].attempt + OnceMore(c)',
           ~At(c, "idle")',
           At(c, "backoff")' => Retryable(call'[c].tool) /\ call'[c].attempt < MaxRetries
    PROVE  SendInv'
<1> SUFFICES ASSUME NEW d \in Calls
             PROVE  /\ Sends(d)' <= call'[d].attempt + OnceMore(d)'
                    /\ call'[d].attempt <= Retries(d)'
                    /\ At(d, "idle")' => call'[d].attempt = 0
                    /\ At(d, "backoff")' => Retryable(call'[d].tool) /\ call'[d].attempt < MaxRetries
  BY DEF SendInv
<1>1. Sends(d)' = Sends(d)
  BY DEF Sends, Sendings
<1>2. Sends(d) \in Nat /\ Sends(d) <= call[d].attempt + OnceMore(d) /\ call[d].attempt \in Nat
  BY SendsNumber DEF SendInv, TypeOK
<1>3. CASE d = c
  BY <1>1, <1>2, <1>3 DEF OnceMore
<1>4. CASE d # c
  BY <1>1, <1>2, <1>4 DEF SendInv, OnceMore, Retries, At
<1> QED BY <1>3, <1>4

LEMMA SendNext == TypeOK /\ SendInv /\ [Next]_vars => SendInv'
<1> SUFFICES ASSUME TypeOK, SendInv, [Next]_vars PROVE SendInv'
  OBVIOUS
<1>1. call \in [Calls -> CallType]
  BY DEF TypeOK, CallType
<1>2. ASSUME UNCHANGED <<call, sent>> PROVE SendInv'
  BY <1>2 DEF SendInv, Sends, Sendings, OnceMore, Retries, At
<1>3. ASSUME NEW c \in Calls
      PROVE  /\ call[c] \in CallType /\ call[c].attempt \in Nat /\ call[c].attempt <= Retries(c)
             /\ OnceMore(c) \in {0, 1}
             /\ At(c, "idle") => call[c].attempt = 0
             /\ At(c, "backoff") => Retryable(call[c].tool) /\ call[c].attempt < MaxRetries
  BY <1>1 DEF SendInv, CallType, OnceMore
<1>4. ASSUME NEW c \in Calls, NEW k \in Clients, NEW tool \in Tools, Begin(c, k, tool) PROVE SendInv'
  <2>1. UNCHANGED sent /\ At(c, "idle") /\ \A d \in Calls : d # c => call'[d] = call[d]
    BY <1>4 DEF Begin
  <2>2. call'[c] = [Fresh EXCEPT !.pc = "session", !.client = k, !.tool = tool]
    BY <1>1, <1>4 DEF Begin
  <2>3. call'[c].pc = "session" /\ call'[c].attempt = 0
    BY <2>2 DEF Fresh
  <2>4. 0 <= Retries(c)'
    BY RetryAssumption DEF Retries
  <2>5. OnceMore(c) = 0 /\ OnceMore(c)' = 0 /\ call[c].attempt = 0 /\ ~At(c, "idle")' /\ ~At(c, "backoff")'
    BY <1>3, <2>1, <2>3 DEF OnceMore, At
  <2>6. call'[c].attempt \in Nat /\ call'[c].attempt <= Retries(c)'
        /\ call[c].attempt + OnceMore(c) <= call'[c].attempt + OnceMore(c)'
    BY <2>3, <2>4, <2>5
  <2> QED BY <2>1, <2>5, <2>6, OwesNone
<1>5. ASSUME NEW c \in Calls, NEW pc \in AtWorkPcs, call'[c].pc = pc, UNCHANGED sent,
             \A d \in Calls : d # c => call'[d] = call[d],
             call'[c].attempt = call[c].attempt, call'[c].tool = call[c].tool,
             pc = "backoff" => Retryable(call[c].tool) /\ call[c].attempt < MaxRetries,
             OnceMore(c) = 0 \/ pc \in {"rpc", "backoff", "revoked", "done"}
      PROVE  SendInv'
  <2>1. Retries(c)' = Retries(c) /\ OnceMore(c) <= OnceMore(c)'
    BY <1>3, <1>5 DEF Retries, OnceMore
  <2>2. ~At(c, "idle")' /\ (At(c, "backoff")' => Retryable(call'[c].tool) /\ call'[c].attempt < MaxRetries)
    BY <1>5 DEF At, AtWorkPcs
  <2>3. OnceMore(c)' \in {0, 1}
    BY DEF OnceMore
  <2>4. call'[c].attempt \in Nat /\ call'[c].attempt <= Retries(c)'
        /\ call[c].attempt + OnceMore(c) <= call'[c].attempt + OnceMore(c)'
    <3>1. call[c].attempt \in Nat /\ call[c].attempt <= Retries(c) /\ OnceMore(c) \in {0, 1}
      BY <1>3
    <3> QED BY <1>5, <2>1, <2>3, <3>1
  <2> QED BY <1>5, <2>2, <2>4, OwesNone
<1>6. ASSUME NEW c \in Calls, Reuse(c) \/ (\E f \in BOOLEAN : Initialized(c, f)) PROVE SendInv'
  <2>1. PICK s : call' = [call EXCEPT ![c].pc = "slot", ![c].session = s, ![c].due = Slot]
    BY <1>6 DEF Reuse, Initialized
  <2>2. call'[c].pc = "slot" /\ call'[c].attempt = call[c].attempt /\ call'[c].tool = call[c].tool
        /\ \A d \in Calls : d # c => call'[d] = call[d]
    BY <1>1, <2>1 DEF CallType
  <2>3. UNCHANGED sent /\ OnceMore(c) = 0
    BY <1>6 DEF Reuse, Initialized, At, OnceMore
  <2> QED BY <1>5, <2>2, <2>3 DEF AtWorkPcs
<1>7. ASSUME NEW c \in Calls, NEW pc \in AtWorkPcs, Goto(c, pc) \/ (\E due : Sleep(c, pc, due)), UNCHANGED sent,
             pc = "backoff" => Retryable(call[c].tool) /\ call[c].attempt < MaxRetries,
             OnceMore(c) = 0 \/ pc \in {"rpc", "backoff", "revoked", "done"}
      PROVE  SendInv'
  <2>1. call'[c].pc = pc /\ call'[c].attempt = call[c].attempt /\ call'[c].tool = call[c].tool
        /\ \A d \in Calls : d # c => call'[d] = call[d]
    BY <1>1, <1>7 DEF CallType, Goto, Sleep
  <2> QED BY <1>5, <1>7, <2>1
<1>8. ASSUME NEW c \in Calls, Initialize(c) \/ InitializeFails(c) \/ WaitToken(c) PROVE SendInv'
  <2>1. UNCHANGED sent /\ OnceMore(c) = 0
    BY <1>8 DEF Initialize, InitializeFails, WaitToken, At, OnceMore
  <2> QED BY <1>7, <1>8, <2>1 DEF Initialize, InitializeFails, WaitToken, AtWorkPcs
<1>9. ASSUME NEW c \in Calls, Answer(c) \/ Transient(c) \/ Revoked(c) \/ ResetSession(c) \/ Cancel(c) PROVE SendInv'
  <2>1. UNCHANGED sent
    BY <1>9 DEF Answer, Transient, Revoked, ResetSession, Cancel
  <2> QED BY <1>7, <1>9, <2>1 DEF Answer, Transient, Revoked, ResetSession, Cancel, AtWorkPcs
<1>10. ASSUME NEW c \in Calls, Send(c) PROVE SendInv'
  <2>1. Post(c) /\ OnceMore(c) = 0
    BY <1>10 DEF Send, At, OnceMore
  <2>2. call'[c].pc = "rpc" /\ call'[c].attempt = call[c].attempt /\ call'[c].tool = call[c].tool
        /\ \A d \in Calls : d # c => call'[d] = call[d]
    BY <1>1, <2>1 DEF CallType, Post, Goto
  <2>3. ASSUME NEW d \in Calls
        PROVE  /\ Sends(d)' <= call'[d].attempt + OnceMore(d)'
               /\ call'[d].attempt <= Retries(d)'
               /\ At(d, "idle")' => call'[d].attempt = 0
               /\ At(d, "backoff")' => Retryable(call'[d].tool) /\ call'[d].attempt < MaxRetries
    <3>1. Sends(d)' = IF d = c THEN Sends(c) + 1 ELSE Sends(d)
      BY <2>1, PostCounts
    <3>2. Sends(d) \in Nat /\ Sends(d) <= call[d].attempt + OnceMore(d)
      BY SendsNumber DEF SendInv
    <3>5. call[d].attempt \in Nat /\ call[d].attempt <= Retries(d)
      BY <1>3
    <3>3. CASE d = c
      <4>1. OnceMore(d)' = 1 /\ OnceMore(d) = 0 /\ ~At(d, "idle")' /\ ~At(d, "backoff")'
        BY <2>1, <2>2, <3>3 DEF OnceMore, At
      <4>2. Retries(d)' = Retries(d) /\ call'[d].attempt = call[d].attempt
        BY <2>2, <3>3 DEF Retries
      <4> QED BY <3>1, <3>2, <3>3, <3>5, <4>1, <4>2
    <3>4. CASE d # c
      <4>1. call'[d] = call[d] /\ Sends(d)' = Sends(d)
        BY <2>2, <3>1, <3>4
      <4>2. /\ OnceMore(d)' = OnceMore(d) /\ Retries(d)' = Retries(d)
            /\ (At(d, "idle")' <=> At(d, "idle")) /\ (At(d, "backoff")' <=> At(d, "backoff"))
        BY <4>1 DEF OnceMore, Retries, At
      <4> QED BY <1>3, <3>2, <4>1, <4>2
    <3> QED BY <3>3, <3>4
  <2> QED BY <2>3 DEF SendInv
<1>11. ASSUME NEW c \in Calls, Retry(c) PROVE SendInv'
  <2>1. /\ UNCHANGED sent /\ At(c, "backoff")
        /\ call' = [call EXCEPT ![c].pc = "slot", ![c].attempt = @ + 1, ![c].due = Slot]
    BY <1>11 DEF Retry
  <2>2. call'[c].pc = "slot" /\ call'[c].attempt = call[c].attempt + 1 /\ call'[c].tool = call[c].tool
        /\ \A d \in Calls : d # c => call'[d] = call[d]
    BY <1>1, <2>1 DEF CallType
  <2>3. call'[c].attempt \in Nat /\ call'[c].attempt <= Retries(c)'
    <3>1. call[c].attempt \in Nat /\ call[c].attempt < MaxRetries /\ call[c].tool # "place"
      BY <1>3, <2>1 DEF Retryable
    <3>2. Retries(c)' = MaxRetries
      BY <2>2, <3>1 DEF Retries
    <3> QED BY <2>2, <3>1, <3>2, RetryAssumption
  <2>4. OnceMore(c)' = 0 /\ OnceMore(c) = 1 /\ ~At(c, "idle")' /\ ~At(c, "backoff")'
    BY <2>1, <2>2 DEF OnceMore, At
  <2>5. call[c].attempt + OnceMore(c) <= call'[c].attempt + OnceMore(c)'
    BY <1>3, <2>2, <2>4
  <2> QED BY <2>1, <2>2, <2>3, <2>4, <2>5, OwesNone
<1>12. CASE Tick \/ UNCHANGED vars
  BY <1>2, <1>12 DEF Tick, vars
<1> QED BY <1>4, <1>6, <1>8, <1>9, <1>10, <1>11, <1>12 DEF Next, Step

\* A call that places or confirms an order is sent at most once, whatever its client is told
\* (nonIdempotentTools, client.go), and any other call at most once more than its retries.
THEOREM OrdersAreSentOnce == Spec => []SendsBounded
<1>1. Init => SendInv
  <2> SUFFICES ASSUME Init, NEW c \in Calls
               PROVE  Sends(c) = 0 /\ call[c] = Fresh
    BY RetryAssumption DEF SendInv, Fresh, OnceMore, Retries, At
  <2>1. Sendings(c) = {} /\ call[c] = Fresh
    BY DEF Init, Sendings
  <2> QED BY <2>1, FS_EmptySet DEF Sends
<1>2. TypeOK /\ SendInv => SendsBounded
  <2> SUFFICES ASSUME TypeOK, SendInv, NEW c \in Calls
               PROVE  Sends(c) <= 1 + Retries(c)
    BY DEF SendsBounded, Sends, Sendings, Retries
  <2>1. /\ Sends(c) \in Nat /\ Sends(c) <= call[c].attempt + OnceMore(c)
        /\ call[c].attempt <= Retries(c) /\ OnceMore(c) \in {0, 1} /\ Retries(c) \in Nat
        /\ call[c].attempt \in Nat
    BY SendsNumber, RetryAssumption DEF SendInv, OnceMore, Retries, TypeOK
  <2> QED BY <2>1
<1> QED BY <1>1, <1>2, InitInv, NextInv, TypesInit, TypesNext, SendNext, PTL DEF Spec

=============================================================================
