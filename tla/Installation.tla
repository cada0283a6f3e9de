---------------------------- MODULE Installation ----------------------------
(***************************************************************************)
(* What an installation keeps between launches: the first-run and           *)
(* last-version marks (internal/localstore/onboarding.go, lastseen.go), the *)
(* install id (internal/telemetry), the registration with the local agents  *)
(* and its marker (internal/agents), and how "uninstall" takes it all away  *)
(* (internal/cli/uninstall.go). Processes start, work on these files step   *)
(* by step, and may be gone at any moment; the binary is upgraded between   *)
(* launches (Updater). Where the code goes on after a call that failed (a    *)
(* config that cannot be saved, a bundle copied in part, a keyring out of    *)
(* reach, a directory removed in part), the outcome is an argument of the    *)
(* action.                                                                  *)
(***************************************************************************)
EXTENDS Integers, FiniteSets

CONSTANTS
    Procs,     \* processes of the installation
    Agents,    \* local agents that are present
    Bundles,   \* skill bundles; every version changes them
    MaxExe,    \* bound: versions of the binary
    MaxStarts  \* bound: processes started

VARIABLES
    exe,      \* the version of the binary, 0: removed
    files,    \* onboarded, prior (presets.json or active-order.json is there), seen
              \* (last-version, 0: none), id (install.json: the process that made it, or
              \* "none") and marker (agents-sync.hash: the version, 0: none)
    token,    \* where a token is stored: "keyring", "file" (token.json)
    entries,  \* the agents whose config has our entry
    skills,   \* each bundle in the skills directory, which the agents share: its version,
              \* 0: none, or only a part
    proc,     \* each process: pc, ver, ui, sync (what its goroutine does), left (agents it
              \* has still to do), todo (bundles it has still to copy), wired (it wired
              \* some), signed (its launch found a token that is good), failed; and history:
              \* missed (a token that was stored escaped its launch or its logout), printed
              \* (agents it printed an error for when it removed them)
    past      \* history: finished (the tour), closed (versions whose notes were closed),
              \* passed (versions without notes, or the first one seen), two (two terminal UIs
              \* at once, or an older one after a newer one), mixed (registrations of two
              \* versions overlapped, an older one followed a newer one, one was undone, or one
              \* broke off in a bundle another one had copied or was copying), crowded (another
              \* process was there during an uninstall), racing (a process started while another
              \* one made the id), since (processes that were past their launch when another
              \* one stored a token), starts

insVars == <<exe, files, token, entries, skills, proc, past>>

NoFiles == [onboarded |-> FALSE, prior |-> FALSE, seen |-> 0, id |-> "none", marker |-> 0]
Gone == [pc |-> "off", ver |-> 0, ui |-> "none", sync |-> "none", left |-> {}, wired |-> FALSE,
         todo |-> {}, signed |-> FALSE, failed |-> FALSE, missed |-> FALSE, printed |-> {}]

\* A new installation, or one whose first version was opened (without agents or telemetry)
\* and then replaced.
Init ==
    /\ exe \in 1..2
    /\ files = IF exe = 1 THEN NoFiles ELSE [NoFiles EXCEPT !.onboarded = TRUE, !.seen = 1]
    /\ token = {}
    /\ entries = {}
    /\ skills = [b \in Bundles |-> 0]
    /\ proc = [p \in Procs |-> Gone]
    /\ past = [finished |-> exe = 2, closed |-> {}, passed |-> IF exe = 1 THEN {} ELSE {1}, two |-> FALSE,
               mixed |-> FALSE, crowded |-> FALSE, racing |-> FALSE, since |-> {}, starts |-> 0]

OpenUis == {p \in Procs : proc[p].ui # "none"}
Uninstalling == {p \in Procs : proc[p].pc \in {"logout", "data", "binary", "uninstalled"}}
Syncing == {p \in Procs : proc[p].sync \notin {"none", "done"}}
Launched == {p \in Procs : proc[p].pc \in {"ready", "logout", "data", "binary", "uninstalled"}}

-----------------------------------------------------------------------------
(* Launch: the install id, then the marks *)

\* Mutant: the id is written again although one was read.
ReadIdAlways(p) ==
    /\ proc[p].pc = "off" /\ exe # 0 /\ past.starts < MaxStarts
    /\ proc' = [proc EXCEPT ![p] = [Gone EXCEPT !.pc = IF files.id = p THEN "boot" ELSE "make", !.ver = exe]]
    /\ past' = [past EXCEPT !.crowded = @ \/ Uninstalling # {}, !.starts = @ + 1,
                          !.racing = @ \/ \E q \in Procs : proc[q].pc = "make"]
    /\ UNCHANGED <<exe, files, token, entries, skills>>

\* telemetry.Launch, InstallID: an id that is there is used; else one is made.
ReadId(p) ==
    /\ proc[p].pc = "off" /\ exe # 0 /\ past.starts < MaxStarts
    /\ proc' = [proc EXCEPT ![p] = [Gone EXCEPT !.pc = IF files.id = "none" THEN "make" ELSE "boot",
                                                !.ver = exe]]
    /\ past' = [past EXCEPT !.crowded = @ \/ Uninstalling # {}, !.starts = @ + 1,
                          !.racing = @ \/ \E q \in Procs : proc[q].pc = "make"]
    /\ UNCHANGED <<exe, files, token, entries, skills>>

WriteId(p) ==
    /\ proc[p].pc = "make"
    /\ files' = [files EXCEPT !.id = p]
    /\ proc' = [proc EXCEPT ![p].pc = "boot"]
    /\ UNCHANGED <<exe, token, entries, skills, past>>

\* GetTokenFull: the keyring if it can be reached and has one, else token.json. What PurgeToken
\* leaves: a keyring that cannot be reached counts as empty (localstore.go:180) and keeps its
\* token silently, a file that cannot be removed is the only error.
Seen(here) == "file" \in token \/ (here /\ "keyring" \in token)

\* bootstrap: whether the user is signed in is settled here, once for the process. A token that
\* cannot be read or that Swiggy rejects is purged; one that cannot be verified is kept.
Bootstrap(p, here, dead, rest) ==
    /\ proc[p].pc = "boot"
    /\ dead => Seen(here)
    /\ token' = IF dead THEN rest ELSE token
    /\ proc' = [proc EXCEPT ![p].pc = "ready", ![p].signed = Seen(here) /\ ~dead,
                            ![p].missed = IF dead THEN rest # {} ELSE ~here /\ "keyring" \in token]
    /\ past' = [past EXCEPT !.since = @ \ {p}]
    /\ UNCHANGED <<exe, files, entries, skills>>

\* ShouldOnboard: never again with the marker; a user who is signed in, or has left traces
\* of real use, gets the marker without the tour.
Fresh(p) == ~files.onboarded /\ ~proc[p].signed /\ ~files.prior

\* launchTUI: the tour for a fresh install, else the notes of a version that is not the
\* one last seen; a first version is noted silently. SyncIfChanged runs beside it.
OpenTui(p) ==
    /\ proc[p].pc = "ready"
    /\ LET first == Fresh(p) \/ files.seen = 0
           notes == ~first /\ files.seen # proc[p].ver
       IN
       /\ proc' = [proc EXCEPT ![p].pc = "on", ![p].sync = "check",
                               ![p].ui = IF Fresh(p) THEN "welcome" ELSE IF notes THEN "fetching" ELSE "splash"]
       /\ files' = [files EXCEPT !.onboarded = ~Fresh(p), !.seen = IF first THEN proc[p].ver ELSE @]
       /\ past' = [past EXCEPT !.two = @ \/ OpenUis # {} \/ proc[p].ver < files.seen,
                               !.passed = IF first THEN @ \cup {proc[p].ver} ELSE @]
    /\ UNCHANGED <<exe, token, entries, skills>>

\* The MCP server has no marks, but registers with the agents as well.
OpenMcp(p) ==
    /\ proc[p].pc = "ready"
    /\ proc' = [proc EXCEPT ![p].pc = "on", ![p].sync = "check"]
    /\ UNCHANGED <<exe, files, token, entries, skills, past>>

\* Mutant: leaving the tour is not remembered.
FinishTourForgets(p) ==
    /\ proc[p].ui = "welcome"
    /\ past' = [past EXCEPT !.finished = TRUE]
    /\ proc' = [proc EXCEPT ![p].ui = "splash"]
    /\ UNCHANGED <<exe, files, token, entries, skills>>

\* Enter on the tour's card: MarkOnboarded.
FinishTour(p) ==
    /\ proc[p].ui = "welcome"
    /\ files' = [files EXCEPT !.onboarded = TRUE]
    /\ past' = [past EXCEPT !.finished = TRUE]
    /\ proc' = [proc EXCEPT ![p].ui = "splash"]
    /\ UNCHANGED <<exe, token, entries, skills>>

\* Mutant: a fetch that failed counts as seen.
NotesArriveSeen(p, answer) ==
    /\ proc[p].ui = "fetching"
    /\ proc' = [proc EXCEPT ![p].ui = IF answer = "notes" THEN "ready" ELSE "splash"]
    /\ files' = [files EXCEPT !.seen = IF answer = "notes" THEN @ ELSE proc[p].ver]
    /\ past' = IF answer = "absent" THEN [past EXCEPT !.passed = @ \cup {proc[p].ver}] ELSE past
    /\ UNCHANGED <<exe, token, entries, skills>>

\* ReleaseNotesMsg: an error leaves everything for the next launch, notes that do not exist
\* count as seen, others wait for the menu.
NotesArrive(p, answer) ==
    /\ proc[p].ui = "fetching"
    /\ proc' = [proc EXCEPT ![p].ui = IF answer = "notes" THEN "ready" ELSE "splash"]
    /\ IF answer = "absent"
       THEN /\ files' = [files EXCEPT !.seen = proc[p].ver]
            /\ past' = [past EXCEPT !.passed = @ \cup {proc[p].ver}]
       ELSE UNCHANGED <<files, past>>
    /\ UNCHANGED <<exe, token, entries, skills>>

\* Splash to menu: the notes open themselves.
OpenNotes(p) ==
    /\ proc[p].ui = "ready"
    /\ proc' = [proc EXCEPT ![p].ui = "notes"]
    /\ UNCHANGED <<exe, files, token, entries, skills, past>>

\* Mutant: closing the notes does not count them as seen.
CloseNotesForgets(p) ==
    /\ proc[p].ui = "notes"
    /\ proc' = [proc EXCEPT ![p].ui = "splash"]
    /\ past' = [past EXCEPT !.closed = @ \cup {proc[p].ver}]
    /\ UNCHANGED <<exe, files, token, entries, skills>>

\* Any key closes them, and then they are seen.
CloseNotes(p) ==
    /\ proc[p].ui = "notes"
    /\ proc' = [proc EXCEPT ![p].ui = "splash"]
    /\ files' = [files EXCEPT !.seen = proc[p].ver]
    /\ past' = [past EXCEPT !.closed = @ \cup {proc[p].ver}]
    /\ UNCHANGED <<exe, token, entries, skills>>

-----------------------------------------------------------------------------
(* The agents *)

\* SyncIfChanged: nothing to do if the marker is this version's.
SyncCheck(p) ==
    /\ proc[p].sync = "check"
    /\ proc' = [proc EXCEPT ![p].sync = IF files.marker = proc[p].ver THEN "done" ELSE "wire",
                            ![p].left = IF files.marker = proc[p].ver THEN {} ELSE Agents]
    /\ past' = [past EXCEPT !.mixed =
                  \/ @ \/ files.marker > proc[p].ver
                  \/ files.marker # proc[p].ver /\ \E q \in Syncing \ {p} : proc[q].ver # proc[p].ver]
    /\ UNCHANGED <<exe, files, token, entries, skills>>

\* Mutant: an agent that cannot be wired does not count as an error.
WireLenient(p, a, fails) ==
    /\ proc[p].sync = "wire" /\ proc[p].todo = {} /\ a \in proc[p].left
    /\ entries' = IF fails THEN entries ELSE entries \cup {a}
    /\ proc' = [proc EXCEPT ![p].left = @ \ {a}, ![p].wired = @ \/ ~fails, ![p].todo = IF fails THEN {} ELSE Bundles]
    /\ UNCHANGED <<exe, files, token, skills, past>>

\* Install, one agent: a config that cannot be parsed, or not be saved with our entry, is an error
\* and stays as it is; else the bundles are copied next.
Wire(p, a, fails) ==
    /\ proc[p].sync = "wire" /\ proc[p].todo = {} /\ a \in proc[p].left
    /\ entries' = IF fails THEN entries ELSE entries \cup {a}
    /\ proc' = IF fails
               THEN [proc EXCEPT ![p].left = @ \ {a}, ![p].failed = TRUE]
               ELSE [proc EXCEPT ![p].left = @ \ {a}, ![p].wired = TRUE, ![p].todo = Bundles]
    /\ UNCHANGED <<exe, files, token, skills, past>>

\* installSkills, one bundle after the other; another process may write the same ones.
Copy(p, b) ==
    /\ b \in proc[p].todo
    /\ skills' = [skills EXCEPT ![b] = proc[p].ver]
    /\ proc' = [proc EXCEPT ![p].todo = @ \ {b}]
    /\ UNCHANGED <<exe, files, token, entries, past>>

\* A file is truncated before it is written: the bundle in which the copying breaks off is
\* there in part, whichever version it was before.
BreakOff(p, torn) ==
    /\ skills' = [b \in Bundles |-> IF b \in torn THEN 0 ELSE skills[b]]
    /\ past' = [past EXCEPT !.mixed = \/ @
                                      \/ torn # {} /\ \/ files.marker = proc[p].ver
                                                      \/ \E q \in Procs \ {p} : proc[q].sync = "wire"]

\* Mutant: a bundle that could not be copied does not count as an error.
CopyFailsLenient(p, torn) ==
    /\ proc[p].todo # {}
    /\ BreakOff(p, torn)
    /\ proc' = [proc EXCEPT ![p].todo = {}]
    /\ UNCHANGED <<exe, files, token, entries>>

\* The first bundle that cannot be copied ends it, with an error; the agent counts as wired.
CopyFails(p, torn) ==
    /\ proc[p].todo # {}
    /\ BreakOff(p, torn)
    /\ proc' = [proc EXCEPT ![p].todo = {}, ![p].failed = TRUE]
    /\ UNCHANGED <<exe, files, token, entries>>

\* The marker is written if some agent was wired and none failed; that may fail, too, before
\* or after the old one is truncated.
Mark(p, marker) ==
    /\ proc[p].sync = "wire" /\ proc[p].todo = {} /\ proc[p].left = {}
    /\ marker \in IF proc[p].wired /\ ~proc[p].failed THEN {proc[p].ver, files.marker, 0} ELSE {files.marker}
    /\ proc' = [proc EXCEPT ![p].sync = "done"]
    /\ files' = [files EXCEPT !.marker = marker]
    /\ UNCHANGED <<exe, token, entries, skills, past>>

-----------------------------------------------------------------------------
(* Uninstall *)

\* Mutant: after a config that fails no other one is changed.
RemoveAgentsStops(errs, kept) ==
    /\ IF errs = Agents THEN kept = Bundles ELSE kept \subseteq {b \in Bundles : skills[b] # 0}
    /\ entries' = IF errs = {} THEN {} ELSE entries
    /\ skills' = [b \in Bundles |-> IF b \in kept THEN skills[b] ELSE 0]

\* Remove: an agent whose config cannot be parsed, or not be saved without our entry, is printed
\* and passed over; for each of the others the bundles are removed, and some stay only where that
\* fails (and is printed) every time. It returns no error.
RemoveAgents(errs, kept) ==
    /\ IF errs = Agents THEN kept = Bundles ELSE kept \subseteq {b \in Bundles : skills[b] # 0}
    /\ entries' = entries \cap errs
    /\ skills' = [b \in Bundles |-> IF b \in kept THEN skills[b] ELSE 0]

\* "console agents remove".
AgentsRemove(errs, kept) ==
    /\ exe # 0
    /\ RemoveAgents(errs, kept)
    /\ past' = [past EXCEPT !.mixed = TRUE]
    /\ UNCHANGED <<exe, files, token, proc>>

\* runUninstall, after the yes: four steps, each goes on when the one before failed. What Remove
\* printed does not count as a failure.
Uninstall(p, errs, kept) ==
    /\ proc[p].pc = "ready"
    /\ RemoveAgents(errs, kept)
    /\ past' = [past EXCEPT !.mixed = TRUE, !.crowded = @ \/ \E q \in Procs \ {p} : proc[q].pc # "off"]
    /\ proc' = [proc EXCEPT ![p].pc = "logout", ![p].printed = IF kept = {} THEN errs ELSE Agents]
    /\ UNCHANGED <<exe, files, token>>

\* Logout, if there was a token when the process started: `rest` is what PurgeToken leaves.
UninstallLogout(p, rest) ==
    /\ proc[p].pc = "logout"
    /\ proc[p].signed \/ rest = token
    /\ token' = rest
    /\ proc' = [proc EXCEPT ![p].pc = "data", ![p].failed = proc[p].signed /\ "file" \in rest,
                            ![p].missed = @ \/ (proc[p].signed /\ "keyring" \in rest)]
    /\ UNCHANGED <<exe, files, entries, skills, past>>

\* The directory without what could be removed; with a mark goes its history.
Without(kept) ==
    /\ files' = [onboarded |-> files.onboarded /\ "onboarded" \in kept, prior |-> files.prior /\ "prior" \in kept,
                 seen |-> IF "seen" \in kept THEN files.seen ELSE 0, id |-> IF "id" \in kept THEN files.id ELSE "none",
                 marker |-> IF "marker" \in kept THEN files.marker ELSE 0]
    /\ token' = IF "token" \in kept THEN token ELSE token \ {"file"}
    /\ past' = [past EXCEPT !.finished = @ /\ "onboarded" \in kept,
                            !.closed = IF "seen" \in kept THEN @ ELSE {},
                            !.passed = IF "seen" \in kept THEN @ ELSE {}]

\* Mutant: an error of this step is not reported.
UninstallDataQuiet(p, fails, kept) ==
    /\ proc[p].pc = "data"
    /\ fails \/ kept = {}
    /\ Without(kept)
    /\ proc' = [proc EXCEPT ![p].pc = "binary"]
    /\ UNCHANGED <<exe, entries, skills>>

\* RemoveAllData: the whole directory, or an error and what could be removed.
UninstallData(p, fails, kept) ==
    /\ proc[p].pc = "data"
    /\ fails \/ kept = {}
    /\ Without(kept)
    /\ proc' = [proc EXCEPT ![p].pc = "binary", ![p].failed = @ \/ fails]
    /\ UNCHANGED <<exe, entries, skills>>

\* The binary: removed, kept (--keep-binary), or it cannot be removed.
UninstallBinary(p, how) ==
    /\ proc[p].pc = "binary"
    /\ exe' = IF how = "removed" THEN 0 ELSE exe
    /\ proc' = [proc EXCEPT ![p].pc = IF proc[p].failed \/ how = "fails" THEN "incomplete" ELSE "uninstalled"]
    /\ UNCHANGED <<files, token, entries, skills, past>>

-----------------------------------------------------------------------------
(* Around it *)

\* The process is over, or killed, perhaps in the middle of a bundle.
Quit(p, torn) ==
    /\ proc[p].pc # "off"
    /\ torn # {} => proc[p].todo # {}
    /\ BreakOff(p, torn)
    /\ proc' = [proc EXCEPT ![p] = Gone]
    /\ UNCHANGED <<exe, files, token, entries>>

\* PutToken, of a sign-in or of a refresh (that of bootstrap included): the keyring if it can be
\* reached, and then token.json is removed if it can be; else token.json.
Store(p, here, cleared) ==
    /\ \/ proc[p].pc = "on" /\ proc[p].ui # "welcome"
       \/ proc[p].pc = "ready" /\ proc[p].signed
    /\ token' = IF here THEN {"keyring"} \cup (IF cleared THEN {} ELSE token) ELSE token \cup {"file"}
    /\ past' = [past EXCEPT !.since = @ \cup (Launched \ {p})]
    /\ UNCHANGED <<exe, files, entries, skills, proc>>

\* Settings, Disconnect in an open UI, or "console logout".
SignOut(rest) ==
    /\ exe # 0 \/ OpenUis # {}
    /\ rest # token
    /\ token' = rest
    /\ UNCHANGED <<exe, files, entries, skills, proc, past>>

\* Real use leaves its traces; an order that is over takes its own away again.
Use(p, prior) ==
    /\ proc[p].pc = "on" /\ proc[p].ui # "welcome"
    /\ prior # files.prior /\ (prior => token # {})
    /\ files' = [files EXCEPT !.prior = prior]
    /\ UNCHANGED <<exe, token, entries, skills, proc, past>>

Upgrade ==
    /\ exe \in 1..(MaxExe - 1)
    /\ exe' = exe + 1
    /\ UNCHANGED <<files, token, entries, skills, proc, past>>

\* At most one bundle is being written.
Tears == {{}} \cup {{b} : b \in Bundles}
Kept == SUBSET {"onboarded", "prior", "seen", "id", "marker", "token"}

Next ==
    \/ \E p \in Procs :
          \/ ReadId(p) \/ WriteId(p) \/ OpenTui(p) \/ OpenMcp(p) \/ FinishTour(p)
          \/ \E here, dead \in BOOLEAN, rest \in SUBSET token : Bootstrap(p, here, dead, rest)
          \/ \E answer \in {"error", "absent", "notes"} : NotesArrive(p, answer)
          \/ OpenNotes(p) \/ CloseNotes(p) \/ SyncCheck(p)
          \/ \E marker \in 0..MaxExe : Mark(p, marker)
          \/ \E a \in Agents, fails \in BOOLEAN : Wire(p, a, fails)
          \/ \E b \in Bundles : Copy(p, b)
          \/ \E torn \in Tears : CopyFails(p, torn) \/ Quit(p, torn)
          \/ \E errs \in SUBSET Agents, kept \in SUBSET Bundles : Uninstall(p, errs, kept)
          \/ \E rest \in SUBSET token : UninstallLogout(p, rest)
          \/ \E fails \in BOOLEAN, kept \in Kept : UninstallData(p, fails, kept)
          \/ \E how \in {"removed", "kept", "fails"} : UninstallBinary(p, how)
          \/ \E here, cleared \in BOOLEAN : Store(p, here, cleared)
          \/ \E prior \in BOOLEAN : Use(p, prior)
    \/ \E errs \in SUBSET Agents, kept \in SUBSET Bundles : AgentsRemove(errs, kept)
    \/ \E rest \in SUBSET token : SignOut(rest)
    \/ Upgrade

Spec == Init /\ [][Next]_insVars

-----------------------------------------------------------------------------
(* Properties *)

\* A registration that is done left no agent out.
InsTypeOK ==
    /\ \A p \in Procs : proc[p].sync = "done" => proc[p].left = {}
    /\ exe \in 0..MaxExe /\ token \subseteq {"keyring", "file"}
    /\ files \in [onboarded : BOOLEAN, prior : BOOLEAN, seen : 0..MaxExe, id : Procs \cup {"none"},
                  marker : 0..MaxExe]
    /\ entries \subseteq Agents
    /\ skills \in [Bundles -> 0..MaxExe]
    /\ proc \in [Procs -> [pc : {"off", "make", "boot", "ready", "on", "logout", "data", "binary", "incomplete",
                                 "uninstalled"},
                           ver : 0..MaxExe,
                           ui : {"none", "welcome", "splash", "fetching", "ready", "notes"},
                           sync : {"none", "check", "wire", "done"},
                           left : SUBSET Agents, todo : SUBSET Bundles, wired : BOOLEAN, signed : BOOLEAN,
                           failed : BOOLEAN, missed : BOOLEAN, printed : SUBSET Agents]]

\* The tour is for a genuinely fresh install: whoever finished it, used the program or has a token
\* is never shown it again, in whatever order processes start, until "uninstall". (A token that came
\* after the launch, that was out of its reach, or that Swiggy rejected and that could not be
\* removed, does not count.)
TourOnce == [][\A p \in Procs : proc[p].ui # "welcome" /\ proc'[p].ui = "welcome"
                  => /\ ~past.finished /\ ~files.prior
                     /\ token = {} \/ proc[p].missed \/ p \in past.since]_insVars

\* Notes are not lost: a version counts as seen only when its notes were closed, do not
\* exist, or it was the first one; a fetch that failed or a process that ended before the
\* notes were read leaves them for the next launch.
NotesNotLost ==
    files.seen # 0 => files.seen \in past.closed \cup past.passed

\* While terminal UIs are opened one at a time and never of an older version, notes that
\* were closed do not come back. (Of two at once, the older one may close its notes last,
\* and that brings the newer ones back.)
NotesOnce ==
    [][\A p \in Procs : proc[p].ui = "ready" /\ proc'[p].ui = "notes"
          => past.two \/ proc[p].ver \notin past.closed]_insVars

\* The marker that spares later launches the registration is truthful: every agent that
\* was there is wired and every bundle is whole and this version's, whatever failed on the way and
\* also while others register, if registrations of two versions did not overlap, no older process
\* registered after a newer one, none was undone, and none broke off in a bundle that another one
\* relies on. (Otherwise the marker may stand over other bundles until the next release.)
MarkerTruthful ==
    (files.marker = exe /\ exe # 0 /\ ~past.mixed) =>
        /\ entries = Agents
        /\ \A b \in Bundles : skills[b] = files.marker

\* The install id, which counts installations, does not change once it is there, unless two
\* first launches overlapped (they make two).
IdStable ==
    [][files.id # "none" /\ ~past.racing => files'.id \in {files.id, "none"}]_insVars

\* What "uninstalled" is worth. No token is left in the directory, unless another process
\* stored one after this one's launch, and none in the keyring, unless, besides, the keyring was out
\* of reach when the launch looked for it or when the logout purged it. If no other process of the
\* installation was there meanwhile, no file is left, and an entry or a bundle only under an error
\* that was printed for its agent (it does not make the command fail).
UninstallTruthful ==
    \A p \in Procs : proc[p].pc = "uninstalled" =>
        /\ "file" \in token => p \in past.since
        /\ "keyring" \in token => p \in past.since \/ proc[p].missed
        /\ ~past.crowded =>
              /\ files = NoFiles
              /\ entries \subseteq proc[p].printed
              /\ (\E b \in Bundles : skills[b] # 0) => proc[p].printed = Agents

=============================================================================
