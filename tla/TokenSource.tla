---------------------------- MODULE TokenSource ----------------------------
(***************************************************************************)
(* The account's OAuth token: the store that keeps it (internal/localstore/ *)
(* localstore.go: the OS keyring, or token.json when the keyring cannot be  *)
(* reached), the token sources that refresh it (internal/broker/            *)
(* tokensource.go: one per process, shared by the account's clients), the   *)
(* check at start-up (EnsureAuth and cmd/store/main.go), signing out        *)
(* (Service.Logout) and in (auth.HandleCallback), and the authorization     *)
(* server, which may rotate refresh tokens and revoke a grant of which a    *)
(* rotated one comes back.                                                  *)
(*                                                                         *)
(* Access and refresh tokens are numbered as the server mints them.         *)
(***************************************************************************)
EXTENDS Integers, FiniteSets

CONSTANTS
    Procs,      \* consolestore processes of the user (TUI, MCP server, CLI)
    Calls,      \* goroutines that ask for a token, once each
    NoOne,      \* no process
    MaxFaults,  \* bound: lost answers, 5xx, failed writes of the store, revoked grants
    MaxFlips,   \* bound: times the keyring comes or goes
    MaxOuts,    \* bound: sign-outs
    KeyringUp   \* is the keyring reachable at the start?

VARIABLES
    server,   \* minted: tokens so far, live: the refresh token it accepts (0: none), and
              \* expired: the access tokens up to this one are within refreshSkew of their
              \* expiry (every access token lives equally long)
    keyring,  \* the token in the OS keyring, reachable or not
    file,     \* token.json
    up,       \* is the keyring reachable?
    source,   \* of each process: how many token sources Logout has dropped
    call,     \* each call's progress
    spent,    \* faults, flips and sign-outs so far
    past      \* history: reused (the server saw a refresh token it had rotated) and
              \* signedOut (and not in again since)

vars == <<server, keyring, file, up, source, call, spent, past>>
store == <<keyring, file>>

None == [access |-> 0, refresh |-> 0]
First == [access |-> 1, refresh |-> 1]
Fresh == [pc |-> "idle", proc |-> NoOne, source |-> 0, boot |-> FALSE, refresh |-> 0,
          token |-> None, result |-> "none"]

Init ==
    /\ server = [minted |-> 1, live |-> 1, expired |-> 0]
    /\ up = KeyringUp
    /\ keyring = IF up THEN First ELSE None
    /\ file = IF up THEN None ELSE First
    /\ source = [p \in Procs |-> 0]
    /\ call = [c \in Calls |-> Fresh]
    /\ spent = [faults |-> 0, flips |-> 0, outs |-> 0]
    /\ past = [reused |-> FALSE, signedOut |-> FALSE]

At(c, pc) == call[c].pc = pc
Fault == spent.faults < MaxFaults /\ spent' = [spent EXCEPT !.faults = @ + 1]
Return(c, result) == call' = [call EXCEPT ![c].pc = "done", ![c].result = result,
                                     ![c].refresh = 0, ![c].token = None]

-----------------------------------------------------------------------------
(* The store *)

\* readToken: the keyring, or the file when it has no entry or cannot be reached.
Stored == IF up /\ keyring # None THEN keyring ELSE file

\* Mutant: a write to a keyring that cannot be reached is lost.
PutKeyring(t) ==
    /\ keyring' = IF up THEN t ELSE keyring
    /\ file' = IF up THEN None ELSE file

\* PutToken: into the keyring, and the plaintext file goes; or into the file.
Put(t) ==
    /\ keyring' = IF up THEN t ELSE keyring
    /\ file' = IF up THEN None ELSE t

\* PurgeToken: out of both; a keyring that cannot be reached does not count.
Purge ==
    /\ keyring' = IF up THEN None ELSE keyring
    /\ file' = None

-----------------------------------------------------------------------------
(* The token source *)

\* A stored token that can still be used: its expiry is stored with it.
Usable == Stored.access > server.expired

\* A process is starting: EnsureAuth runs, or main is about to purge what it rejected.
Starting(p) == \E c \in Calls :
    /\ call[c].boot /\ call[c].proc = p
    /\ call[c].pc \in {"lock", "post", "put"} \/ (At(c, "done") /\ call[c].result = "dead")

\* The first call of a process may be EnsureAuth's, if it starts with a token; its other
\* calls come when that is over.
MayCall(p, boot) ==
    IF boot THEN Stored # None /\ \A c \in Calls : call[c].proc # p
            ELSE ~Starting(p)

\* Mutant: an expired token is refreshed whether or not it has a refresh token.
TokenUnchecked(c, p, boot) ==
    LET r == [Fresh EXCEPT !.proc = p, !.boot = boot, !.source = source[p]] IN
    /\ At(c, "idle") /\ MayCall(p, boot)
    /\ \/ /\ Usable
          /\ call' = [call EXCEPT ![c] = [r EXCEPT !.pc = "done", !.result = "token"]]
       \/ /\ ~Usable
          /\ call' = [call EXCEPT ![c] = [r EXCEPT !.pc = "lock", !.refresh = Stored.refresh]]
    /\ UNCHANGED <<server, store, up, source, spent, past>>

\* Token: read the store; a usable token is returned, one that cannot be refreshed is
\* an expired sign-in, any other is refreshed with the refresh token read here.
\* EnsureAuth, at start-up (boot), does the same with a token source of its own.
Token(c, p, boot) ==
    LET r == [Fresh EXCEPT !.proc = p, !.boot = boot, !.source = source[p]] IN
    /\ At(c, "idle") /\ MayCall(p, boot)
    /\ \/ /\ Usable
          /\ call' = [call EXCEPT ![c] = [r EXCEPT !.pc = "done", !.result = "token"]]
       \/ /\ ~Usable /\ Stored.refresh = 0
          /\ call' = [call EXCEPT ![c] = [r EXCEPT !.pc = "done", !.result = "dead"]]
       \/ /\ ~Usable /\ Stored.refresh # 0
          /\ call' = [call EXCEPT ![c] = [r EXCEPT !.pc = "lock", !.refresh = Stored.refresh]]
    /\ UNCHANGED <<server, store, up, source, spent, past>>

\* The mutex of the source that a call uses is held by another call of that source.
Shares(c, d) == /\ ~call[c].boot /\ ~call[d].boot
                /\ call[c].proc = call[d].proc /\ call[c].source = call[d].source

\* Mutant: a call that fails leaves the mutex locked.
LockedByFailed(c) == \E d \in Calls \ {c} :
    Shares(c, d) /\ (call[d].pc \in {"post", "put"} \/ call[d].result = "failed")

Locked(c) == \E d \in Calls \ {c} : Shares(c, d) /\ call[d].pc \in {"post", "put"}

\* Mutant: no second look.
LockBlind(c) ==
    /\ At(c, "lock")
    /\ ~Locked(c)
    /\ call' = [call EXCEPT ![c].pc = "post"]
    /\ UNCHANGED <<server, store, up, source, spent, past>>

\* refresh: under the mutex, look again, since somebody may have refreshed. If not, go
\* on with the refresh token read before, whatever the store holds now.
Lock(c) ==
    /\ At(c, "lock")
    /\ ~Locked(c)
    /\ \/ /\ Usable
          /\ Return(c, "token")
       \/ /\ ~Usable
          /\ call' = [call EXCEPT ![c].pc = "post"]
    /\ UNCHANGED <<server, store, up, source, spent, past>>

\* The server mints a new access token and, if it rotates, a new refresh token; else
\* the source keeps the one it has.
Minted(rotate) == [access |-> server.minted + 1,
                   refresh |-> IF rotate THEN server.minted + 1 ELSE server.live]
Mint(rotate) ==
    server' = [server EXCEPT !.minted = @ + 1, !.live = Minted(rotate).refresh]

\* The refresh is granted and answered.
Granted(c, rotate) ==
    /\ At(c, "post")
    /\ call[c].refresh = server.live
    /\ Mint(rotate)
    /\ call' = [call EXCEPT ![c].pc = "put", ![c].token = Minted(rotate)]
    /\ UNCHANGED <<store, up, source, spent, past>>

\* It is granted and the answer is lost, or the server fails (5xx): the call fails.
AnswerLost(c, rotate) ==
    /\ At(c, "post")
    /\ call[c].refresh = server.live
    /\ Mint(rotate)
    /\ Fault
    /\ Return(c, "failed")
    /\ UNCHANGED <<store, up, source, past>>

Unavailable(c) ==
    /\ At(c, "post")
    /\ Fault
    /\ Return(c, "failed")
    /\ UNCHANGED <<server, store, up, source, past>>

\* A refresh token that is no longer the live one is rejected (4xx), and the server
\* may take the whole grant back.
Rejected(c, revoke) ==
    /\ At(c, "post")
    /\ call[c].refresh # server.live
    /\ server' = IF revoke THEN [server EXCEPT !.live = 0] ELSE server
    /\ past' = [past EXCEPT !.reused = TRUE]
    /\ Return(c, "dead")
    /\ UNCHANGED <<store, up, source, spent>>

\* PutToken; the mutex is released.
Persist(c) ==
    /\ At(c, "put")
    /\ Put(call[c].token)
    /\ Return(c, "token")
    /\ UNCHANGED <<server, up, source, spent, past>>

\* PutToken fails: the call fails, and what was minted is lost.
PersistFails(c) ==
    /\ At(c, "put")
    /\ Fault
    /\ Return(c, "failed")
    /\ UNCHANGED <<server, store, up, source, past>>

-----------------------------------------------------------------------------
(* Around it *)

\* At start-up, a token that EnsureAuth reports as dead is purged.
PurgeDead(c) ==
    /\ At(c, "done") /\ call[c].boot /\ call[c].result = "dead"
    /\ Purge
    /\ call' = [call EXCEPT ![c].pc = "purged"]
    /\ UNCHANGED <<server, up, source, spent, past>>

\* Logout: the process drops its token source and its clients, and purges the token.
\* Calls under way keep the source they have.
Logout(p) ==
    /\ spent.outs < MaxOuts /\ ~Starting(p)
    /\ spent' = [spent EXCEPT !.outs = @ + 1]
    /\ source' = [source EXCEPT ![p] = @ + 1]
    /\ Purge
    /\ past' = [past EXCEPT !.signedOut = TRUE]
    /\ UNCHANGED <<server, up, call>>

\* HandleCallback: the user signs in again, with a grant of its own.
SignIn ==
    /\ Stored = None
    /\ Mint(TRUE)
    /\ Put(Minted(TRUE))
    /\ past' = [past EXCEPT !.signedOut = FALSE]
    /\ UNCHANGED <<up, source, call, spent>>

\* An access token comes within refreshSkew of its expiry. Tokens live far longer than
\* the requests that a call waits for: none expires while a call refreshes.
Refreshing == \E c \in Calls : call[c].pc \in {"lock", "post", "put"}

Expire ==
    /\ ~Refreshing
    /\ server.expired < server.minted
    /\ server' = [server EXCEPT !.expired = @ + 1]
    /\ UNCHANGED <<store, up, source, call, spent, past>>

\* The server takes the grant back on its own (the account was signed out elsewhere).
Revoke ==
    /\ server.live # 0
    /\ Fault
    /\ server' = [server EXCEPT !.live = 0]
    /\ UNCHANGED <<store, up, source, call, past>>

\* The keyring's backend comes or goes.
Flip ==
    /\ spent.flips < MaxFlips
    /\ spent' = [spent EXCEPT !.flips = @ + 1]
    /\ up' = ~up
    /\ UNCHANGED <<server, store, source, call, past>>

-----------------------------------------------------------------------------

Step(c) ==
    \/ Lock(c)
    \/ \E rotate \in BOOLEAN : Granted(c, rotate) \/ AnswerLost(c, rotate) \/ Rejected(c, rotate)
    \/ Unavailable(c) \/ Persist(c) \/ PersistFails(c)

Next ==
    \/ \E c \in Calls : \/ \E p \in Procs, boot \in BOOLEAN : Token(c, p, boot)
                        \/ Step(c)
                        \/ PurgeDead(c)
    \/ \E p \in Procs : Logout(p)
    \/ SignIn \/ Expire \/ Revoke \/ Flip

Spec == Init /\ [][Next]_vars

\* A goroutine runs and its requests time out.
FairSpec == Spec /\ \A c \in Calls : WF_vars(Step(c))

-----------------------------------------------------------------------------
(* Properties *)

TokenRecord == {None} \cup [access : Nat \ {0}, refresh : Nat \ {0}]

TypeOK ==
    /\ server \in [minted : Nat, live : Nat, expired : Nat]
    /\ keyring \in TokenRecord /\ file \in TokenRecord /\ up \in BOOLEAN
    /\ source \in [Procs -> Nat]
    /\ call \in [Calls -> [pc : {"idle", "lock", "post", "put", "done", "purged"},
                           proc : Procs \cup {NoOne}, source : Nat, boot : BOOLEAN, refresh : Nat,
                           token : TokenRecord, result : {"none", "token", "dead", "failed"}]]
    /\ spent \in [faults : 0..MaxFaults, flips : 0..MaxFlips, outs : 0..MaxOuts]
    /\ \A c \in Calls : call[c].pc \in {"lock", "post", "put"} =>
                          call[c].refresh \in 1..server.minted
    /\ past \in [reused : BOOLEAN, signedOut : BOOLEAN]

Undisturbed == spent.faults = 0 /\ spent.outs = 0

\* Without a lost answer, a failed write, a revoked grant or a sign-out, the clients of one process never
\* send the server a refresh token it has rotated: the mutex and the second look under
\* it keep them apart ("two clients near expiry can't each POST the same refresh
\* token", tokensource.go). With one of these they do, and the grant may be revoked.
NoReuse == Undisturbed => ~past.reused

\* Under the same conditions, between two refreshes the store holds the youngest token,
\* with the refresh token that the server honours: no write goes to one store while
\* reads come from the other, and none falls back to an older token when the keyring
\* turns up (readToken, PutToken).
StoreIsCurrent ==
    Undisturbed /\ (\A c \in Calls : ~At(c, "put")) =>
        Stored = [access |-> server.minted, refresh |-> server.live]

\* Every call that refreshes returns, whatever fails and whoever signs out: the mutex is
\* released on every path, and a call that waits for it gets it.
CallsReturn == \A c \in Calls : At(c, "lock") ~> At(c, "done") \/ At(c, "purged")

\* "Clear both stores so a sign-out is complete regardless of which one holds the token"
\* (localstore.go:177). TLC refutes this: a refresh that was under way puts its token
\* back. (So does a keyring that could not be reached, when it comes back.)
SignOutIsComplete == past.signedOut => Stored = None

=============================================================================
