---------------------------- MODULE SwiggyClient ----------------------------
(***************************************************************************)
(* The path of a tool call through the Swiggy client (internal/swiggy):    *)
(* the lazily initialised MCP session of each vertical's client, the rate  *)
(* limiter and the write token bucket that an account's clients share, and *)
(* the retry loop of CallTool.                                             *)
(*                                                                         *)
(* Time is a counter. Timers fire on time and the code between two waits   *)
(* takes none (Tick waits for whoever is due), so whatever spacing is lost *)
(* is lost by the code, not by a slow scheduler; a request in flight takes *)
(* any time.                                                               *)
(***************************************************************************)
EXTENDS Integers, Sequences, FiniteSets

CONSTANTS
    Clients,        \* one per vertical of an account; they share the limiter
    Calls,          \* the goroutines that call CallTool
    Interval,       \* minimum time between two read slots
    Burst, Refill,  \* the write bucket: its size, and the time of one token
    MaxRetries,     \* Client.maxRetries
    RetryBase, Cap, \* Client.retryBase and backoffDelay's cap
    MaxRetryAfter,  \* bound: the largest Retry-After a server sends
    MaxSessions,    \* bound: sessions a server ever issues
    MaxTime,        \* bound: no call begins after it
    NoOne           \* no holder of a client's mutex

ASSUME LimiterAssumption == Interval \in Nat /\ Refill \in Nat /\ Burst \in Nat \ {0}
\* (The last conjunct is arithmetic: a power of two is a number.)
ASSUME RetryAssumption == /\ MaxRetries \in Nat /\ RetryBase \in Nat /\ Cap \in Nat
                          /\ MaxRetryAfter \in Nat
                          /\ \A n \in 0..MaxRetries : 2^n \in Nat
ASSUME BoundAssumption == MaxSessions \in Nat /\ MaxTime \in Nat
ASSUME NoOneAssumption == NoOne \notin Calls

VARIABLES
    now,      \* the clock
    next,     \* rateLimiter.next
    bucket,   \* writeLimiter: credit is tokens * refill, last as in the code
    session,  \* Client.session of each client; 0 is the empty string
    mutex,    \* Client.mu: the call in the critical section of ensureSession
    issued,   \* sessions issued so far by the servers
    call,     \* each call's progress
    slots,    \* history: the read slots handed out, in order
    grants,   \* history: the write tokens handed out, in order
    reported, \* history: the sessions each client was told are revoked
    sent      \* history: every tools/call request sent, in order

vars == <<now, next, bucket, session, mutex, issued, call, slots, grants, reported, sent>>
throttle == <<next, bucket, slots, grants>>
sessions == <<session, mutex, issued, reported>>

Tools == {"read", "write", "place"}  \* read-only, writeTools, nonIdempotentTools
Larger(a, b) == IF a >= b THEN a ELSE b
Smaller(a, b) == IF a <= b THEN a ELSE b

Fresh == [pc |-> "idle", client |-> NoOne, tool |-> "read", session |-> 0, attempt |-> 0, due |-> 0]

Init ==
    /\ now = 0
    /\ next = 0
    /\ bucket = [credit |-> Burst * Refill, last |-> 0]
    /\ session = [k \in Clients |-> 0]
    /\ mutex = [k \in Clients |-> NoOne]
    /\ issued = 0
    /\ call = [c \in Calls |-> Fresh]
    /\ slots = <<>>
    /\ grants = <<>>
    /\ reported = [k \in Clients |-> {}]
    /\ sent = <<>>

Goto(c, pc) == call' = [call EXCEPT ![c].pc = pc]
Sleep(c, pc, due) == call' = [call EXCEPT ![c].pc = pc, ![c].due = due]
At(c, pc) == call[c].pc = pc
Due(c) == call[c].due <= now
Client(c) == call[c].client

-----------------------------------------------------------------------------
(* The limiters *)

\* Mutant: a limiter that forgets the slots it has handed out.
SlotNow == now

\* rateLimiter.reserve: the slot a caller gets now.
Slot == Larger(next, now)
Reserve(slot) ==
    /\ next' = slot + Interval
    /\ slots' = Append(slots, slot)

\* Mutant: a bucket that is not capped at its burst.
RefilledUncapped == bucket.credit + (now - bucket.last)

\* writeLimiter.reserve: refill for the time passed, up to the burst, then take
\* one token, on credit if there is none.
Refilled == Smaller(Burst * Refill, bucket.credit + (now - bucket.last))
TakeToken(credit, at) ==
    /\ bucket' = [credit |-> credit - Refill, last |-> now]
    /\ grants' = Append(grants, at)

\* The time at which the borrowed token is refilled.
TokenAt(credit) == now + Larger(0, Refill - credit)

\* Mutant: a Retry-After of a negative number of seconds is taken at its word.
BackoffsSigned(n) ==
    LET d == Smaller(Cap, RetryBase * 2^n)
    IN  {Smaller(Cap, r) : r \in -1..MaxRetryAfter} \cup {Smaller(Cap, d + j) : j \in 0..(d \div 2)}


\* backoffDelay after attempt n: Retry-After when the server gives one (r > 0),
\* else base * 2^n with a jitter of up to half, both capped.
Backoffs(n) ==
    LET d == Smaller(Cap, RetryBase * 2^n)
    IN  {Smaller(Cap, r) : r \in 1..MaxRetryAfter} \cup {Smaller(Cap, d + j) : j \in 0..(d \div 2)}

Retryable(tool) == tool # "place"

-----------------------------------------------------------------------------
(* ensureSession *)

\* CallTool's first step, up to the client's mutex. (Token failing leaves no trace.)
Begin(c, k, tool) ==
    /\ At(c, "idle")
    /\ now < MaxTime
    /\ call' = [call EXCEPT ![c] = [Fresh EXCEPT !.pc = "session", !.client = k, !.tool = tool]]
    /\ UNCHANGED <<now, throttle, sessions, sent>>

\* The session is cached: go on with it, reserving the read slot.
Reuse(c) ==
    LET k == Client(c) IN
    /\ At(c, "session")
    /\ mutex[k] = NoOne
    /\ session[k] # 0
    /\ Reserve(Slot)
    /\ call' = [call EXCEPT ![c].pc = "slot", ![c].session = session[k], ![c].due = Slot]
    /\ UNCHANGED <<now, bucket, grants, sessions, sent>>

\* It is not: send initialize, holding the mutex for the round trip.
Initialize(c) ==
    LET k == Client(c) IN
    /\ At(c, "session")
    /\ mutex[k] = NoOne
    /\ session[k] = 0
    /\ mutex' = [mutex EXCEPT ![k] = c]
    /\ Goto(c, "init")
    /\ UNCHANGED <<now, throttle, session, issued, reported, sent>>

\* The server answers with a new session, or with none (no header: the next call
\* initialises again). The notification that follows changes nothing.
Initialized(c, fresh) ==
    LET k == Client(c)
        s == IF fresh THEN issued + 1 ELSE 0 IN
    /\ At(c, "init")
    /\ fresh => issued < MaxSessions
    /\ issued' = IF fresh THEN s ELSE issued
    /\ session' = [session EXCEPT ![k] = s]
    /\ mutex' = [mutex EXCEPT ![k] = NoOne]
    /\ Reserve(Slot)
    /\ call' = [call EXCEPT ![c].pc = "slot", ![c].session = s, ![c].due = Slot]
    /\ UNCHANGED <<now, bucket, grants, reported, sent>>

\* Mutant: an initialize that fails returns without unlocking.
InitializeFailsLocked(c) ==
    /\ At(c, "init")
    /\ Goto(c, "done")
    /\ UNCHANGED <<now, throttle, sessions, sent>>

\* initialize fails, or its context ends: the call fails and nothing is cached.
InitializeFails(c) ==
    /\ At(c, "init")
    /\ mutex' = [mutex EXCEPT ![Client(c)] = NoOne]
    /\ Goto(c, "done")
    /\ UNCHANGED <<now, throttle, session, issued, reported, sent>>

-----------------------------------------------------------------------------
(* The loop of CallTool *)

NeedsToken(c) == call[c].attempt = 0 /\ call[c].tool = "write"

Post(c) ==
    /\ sent' = Append(sent, [call |-> c, tool |-> call[c].tool, at |-> now])
    /\ Goto(c, "rpc")

\* The read slot has come: a first write still waits for a write token.
WaitToken(c) ==
    /\ At(c, "slot") /\ Due(c) /\ NeedsToken(c)
    /\ TakeToken(Refilled, TokenAt(Refilled))
    /\ Sleep(c, "token", TokenAt(Refilled))
    /\ UNCHANGED <<now, next, slots, sessions, sent>>

\* Everything else is sent.
Send(c) ==
    /\ \/ At(c, "slot") /\ ~NeedsToken(c)
       \/ At(c, "token")
    /\ Due(c)
    /\ Post(c)
    /\ UNCHANGED <<now, throttle, sessions>>

\* Success, or an error that is not retried: the call returns.
Answer(c) ==
    /\ At(c, "rpc")
    /\ Goto(c, "done")
    /\ UNCHANGED <<now, throttle, sessions, sent>>

\* 429 or 5xx of a call that may be sent again: back off, then reserve a new slot.
Transient(c) ==
    /\ At(c, "rpc")
    /\ Retryable(call[c].tool) /\ call[c].attempt < MaxRetries
    /\ \E d \in Backoffs(call[c].attempt) : Sleep(c, "backoff", now + d)
    /\ UNCHANGED <<now, throttle, sessions, sent>>

Retry(c) ==
    /\ At(c, "backoff") /\ Due(c)
    /\ Reserve(Slot)
    /\ call' = [call EXCEPT ![c].pc = "slot", ![c].attempt = @ + 1, ![c].due = Slot]
    /\ UNCHANGED <<now, bucket, grants, sessions, sent>>

\* 419: the server revoked the session; resetSession takes the mutex first.
Revoked(c) ==
    /\ At(c, "rpc")
    /\ Goto(c, "revoked")
    /\ UNCHANGED <<now, throttle, sessions, sent>>

\* Mutant: a 419 of a call that is not retried returns before the reset.
ResetIfRetryable(c) ==
    LET k == Client(c) IN
    /\ At(c, "revoked")
    /\ mutex[k] = NoOne
    /\ session' = IF call[c].tool # "place" THEN [session EXCEPT ![k] = 0] ELSE session
    /\ reported' = [reported EXCEPT ![k] = @ \cup ({call[c].session} \ {0})]
    /\ Goto(c, "done")
    /\ UNCHANGED <<now, throttle, mutex, issued, sent>>

ResetSession(c) ==
    LET k == Client(c) IN
    /\ At(c, "revoked")
    /\ mutex[k] = NoOne
    /\ session' = [session EXCEPT ![k] = 0]
    /\ reported' = [reported EXCEPT ![k] = @ \cup ({call[c].session} \ {0})]
    /\ Goto(c, "done")
    /\ UNCHANGED <<now, throttle, mutex, issued, sent>>

\* The context ends during a wait or a backoff: the call returns, and the slot or
\* token it reserved stays spent. (In a request this is Answer.)
Cancel(c) ==
    /\ call[c].pc \in {"slot", "token", "backoff"}
    /\ Goto(c, "done")
    /\ UNCHANGED <<now, throttle, sessions, sent>>

-----------------------------------------------------------------------------
(* The clock, and the specification *)

Waiting(c) == call[c].pc \in {"slot", "token", "backoff"}

Tick ==
    /\ \A c \in Calls : Waiting(c) => ~Due(c)
    /\ now < MaxTime \/ \E c \in Calls : Waiting(c)
    /\ now' = now + 1
    /\ UNCHANGED <<throttle, sessions, call, sent>>

Step(c) ==
    \/ Reuse(c) \/ Initialize(c) \/ (\E f \in BOOLEAN : Initialized(c, f)) \/ InitializeFails(c)
    \/ WaitToken(c) \/ Send(c) \/ Answer(c) \/ Transient(c) \/ Retry(c)
    \/ Revoked(c) \/ ResetSession(c)

Next ==
    \/ \E c \in Calls : \/ \E k \in Clients, tool \in Tools : Begin(c, k, tool)
                        \/ Step(c)
                        \/ Cancel(c)
    \/ Tick

Spec == Init /\ [][Next]_vars

\* A call's goroutine runs, its requests time out (http.Client.Timeout) and its timers
\* fire; nobody is assumed to cancel.
FairSpec == Spec /\ WF_vars(Tick) /\ \A c \in Calls : WF_vars(Step(c))

-----------------------------------------------------------------------------
(* Properties *)

TypeOK ==
    /\ now \in Nat /\ next \in Nat
    /\ bucket \in [credit : Int, last : Nat]
    /\ session \in [Clients -> Nat]
    /\ mutex \in [Clients -> Calls \cup {NoOne}]
    /\ issued \in Nat
    /\ call \in [Calls -> [pc : {"idle", "session", "init", "slot", "token", "rpc", "backoff", "revoked", "done"},
                           client : Clients \cup {NoOne}, tool : Tools,
                           session : Nat, attempt : Nat, due : Nat]]
    /\ slots \in Seq(Nat) /\ grants \in Seq(Nat)
    /\ reported \in [Clients -> SUBSET Nat]
    /\ sent \in Seq([call : Calls, tool : Tools, at : Nat])

\* Read slots are at least an interval apart, whichever clients and goroutines ask
\* for them, in any order, and whether or not the calls that hold them were cancelled.
SlotsSpaced ==
    \A i, j \in 1..Len(slots) : i < j => slots[j] - slots[i] >= (j - i) * Interval

\* Any window that holds more write tokens than the burst is as long as the refill of
\* the extra ones: concurrent writers, idle times and cancelled writes gain nothing.
WriteBudget ==
    \A i, j \in 1..Len(grants) :
        j - i >= Burst => grants[j] - grants[i] >= (j - i - Burst + 1) * Refill

\* Once a client has handled the 419 of a session, it never hands that session to a
\* call again, however the reset interleaves with other calls' initialize.
RevokedNotReused == \A k \in Clients : session[k] \notin reported[k]

\* A call that places or confirms an order is sent at most once, and any other call at
\* most once more than the retries it is allowed.
SendsBounded ==
    \A c \in Calls :
        Cardinality({i \in 1..Len(sent) : sent[i].call = c})
            <= 1 + (IF call[c].tool = "place" THEN 0 ELSE MaxRetries)

\* Every call returns: no wait on the session mutex, a slot, a token, a backoff or an
\* answer is for ever.
CallsReturn == \A c \in Calls : At(c, "session") ~> At(c, "done")

=============================================================================
