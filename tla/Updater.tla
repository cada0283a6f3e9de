------------------------------ MODULE Updater ------------------------------
(***************************************************************************)
(* Self-update (internal/updater, cli/update.go). At every launch a release *)
(* build asks its channel for the signed manifest, downloads the binary     *)
(* that it names if it is newer, checks its sum, puts it in its own place   *)
(* and runs itself again. Several processes of one installation (terminal   *)
(* UI, MCP server, commands) do this at the same time, any of them may be   *)
(* killed between two steps, and a release may come out between two         *)
(* requests. On Windows a running image can be renamed but not replaced.    *)
(*                                                                         *)
(* Versions of a channel are numbered in the order of Newer (Semver).       *)
(***************************************************************************)
EXTENDS Integers, FiniteSets

CONSTANTS
    Launches,    \* processes of the installation
    Channels,    \* release channels; every one of them is published to
    MaxVersion,  \* bound: versions
    MaxUpdFaults \* bound: failed requests, failed file operations and kills

VARIABLES
    goos,       \* "unix" or "windows": the build
    published,  \* of each channel, the youngest version
    mark,       \* channel.json
    disk,       \* exe, old: the version of the binary at ExePath and at ExePath.old (0: none),
                \* and temps: the processes whose temporary file is there
    launch,     \* each process: pc, image (the version that runs), force, updated
                \* (CONSOLE_UPDATED), channel, want (the manifest's version), body (the version
                \* of the bytes), outcome, and history: reexecs, met
                \* (another process was there at some time)
    mishaps     \* faults and kills so far, switched: "update --channel" was used, and bare: on
                \* Windows a process was killed between its two renames, or its second one failed
                \* and the backup did not go back

updVars == <<goos, published, mark, disk, launch, mishaps>>

Off == [pc |-> "off", image |-> 0, force |-> FALSE, updated |-> FALSE, channel |-> mark,
        want |-> 0, body |-> 0, outcome |-> "none", reexecs |-> 0, met |-> FALSE]

Init ==
    /\ goos \in {"unix", "windows"}
    /\ published = [c \in Channels |-> 1]
    /\ mark \in Channels
    /\ disk = [exe |-> 1, old |-> 0, temps |-> {}]
    /\ launch = [p \in Launches |-> Off]
    /\ mishaps = [faults |-> 0, kills |-> 0, switched |-> FALSE, bare |-> FALSE]

On(p, pc) == launch[p].pc = pc
Go(p, pc) == launch' = [launch EXCEPT ![p].pc = pc]
Ends(p, outcome) == launch' = [launch EXCEPT ![p].pc = "runs", ![p].outcome = outcome]
Mishap == /\ mishaps.faults + mishaps.kills < MaxUpdFaults
          /\ mishaps' = [mishaps EXCEPT !.faults = @ + 1]
Bares(lost) == goos = "windows" /\ (mishaps.bare \/ lost)
MishapBares(lost) ==
    /\ mishaps.faults + mishaps.kills < MaxUpdFaults
    /\ mishaps' = [mishaps EXCEPT !.faults = @ + 1, !.bare = Bares(lost)]

-----------------------------------------------------------------------------
(* One attempt *)

\* Mutant: a process that was run again by its predecessor looks for an update as well.
SkipsNever(force, updated) == FALSE

\* RunDefault's gates: an update that re-executed has set CONSOLE_UPDATED for its successor.
Skips(force, updated) == updated

\* A process starts (force: CONSOLE_FORCE_UPDATE) and cleanupOld removes the backup of the
\* last swap; on Windows it stays while its image still runs.
Start(p, force) ==
    /\ On(p, "off") /\ disk.exe # 0
    /\ LET others == {q \in Launches \ {p} : ~On(q, "off")} IN
       launch' = [q \in Launches |->
                    CASE q = p -> [Off EXCEPT !.pc = "check", !.image = disk.exe, !.force = force,
                                              !.met = others # {}]
                      [] q \in others -> [launch[q] EXCEPT !.met = TRUE]
                      [] OTHER -> launch[q]]
    /\ \/ disk' = [disk EXCEPT !.old = 0]
       \/ goos = "windows" /\ disk.old # 0 /\ UNCHANGED disk
    /\ UNCHANGED <<goos, published, mark, mishaps>>

\* Mutant: a manifest of the same version is an update as well.
ManifestOrEqual(p, v) ==
    /\ On(p, "check")
    /\ v \in 1..published[launch[p].channel]
    /\ launch' = IF launch[p].force \/ v >= launch[p].image
                 THEN [launch EXCEPT ![p].pc = "download", ![p].want = v]
                 ELSE [launch EXCEPT ![p].pc = "runs", ![p].outcome = "up to date"]
    /\ UNCHANGED <<goos, published, mark, disk, mishaps>>

\* fetchManifest and Verify: the channel's manifest, or one that a cache still holds. The
\* signature covers version, channel and sums, so any other manifest is no manifest. An
\* older or equal version is no update, unless forced.
Manifest(p, v) ==
    /\ On(p, "check")
    /\ v \in 1..published[launch[p].channel]
    /\ launch' = IF launch[p].force \/ v > launch[p].image
                 THEN [launch EXCEPT ![p].pc = "download", ![p].want = v]
                 ELSE [launch EXCEPT ![p].pc = "runs", ![p].outcome = "up to date"]
    /\ UNCHANGED <<goos, published, mark, disk, mishaps>>

\* The manifest of another channel, or without a build for this platform.
NotForUs(p) ==
    /\ On(p, "check")
    /\ Ends(p, "up to date")
    /\ UNCHANGED <<goos, published, mark, disk, mishaps>>

\* Mutant: whatever comes is put in place.
DownloadUnchecked(p, w) ==
    /\ On(p, "download")
    /\ w \in 1..published[launch[p].channel]
    /\ launch' = [launch EXCEPT ![p].pc = "temp", ![p].body = w]
    /\ UNCHANGED <<goos, published, mark, disk, mishaps>>

\* downloadProgress and the sum: a second request, answered with what the channel (or a
\* cache) has by now. Bytes that the manifest does not name are refused.
Download(p, w) ==
    /\ On(p, "download")
    /\ w \in 1..published[launch[p].channel]
    /\ launch' = IF w = launch[p].want
                 THEN [launch EXCEPT ![p].pc = "temp", ![p].body = w]
                 ELSE [launch EXCEPT ![p].pc = "runs", ![p].outcome = "failed"]
    /\ UNCHANGED <<goos, published, mark, disk, mishaps>>

\* No answer, a bad signature, a body cut short or longer than maxBinary.
RequestFails(p) ==
    /\ launch[p].pc \in {"check", "download"}
    /\ Mishap
    /\ Ends(p, "failed")
    /\ UNCHANGED <<goos, published, mark, disk>>

\* Mutant: the binary is moved away first on every system.
WriteTempAlike(p) ==
    /\ On(p, "temp")
    /\ Go(p, "backup")
    /\ disk' = [disk EXCEPT !.temps = @ \cup {p}]
    /\ UNCHANGED <<goos, published, mark, mishaps>>

\* swap: the bytes go to a temporary file beside the binary. On Windows the last backup
\* is removed then, if it can be.
WriteTemp(p) ==
    /\ On(p, "temp")
    /\ Go(p, IF goos = "windows" THEN "backup" ELSE "replace")
    /\ \/ disk' = [disk EXCEPT !.temps = @ \cup {p}]
       \/ /\ goos = "windows"
          /\ disk' = [disk EXCEPT !.temps = @ \cup {p}, !.old = 0]
    /\ UNCHANGED <<goos, published, mark, mishaps>>

\* It cannot be written: it is removed.
TempFails(p) ==
    /\ On(p, "temp")
    /\ Mishap
    /\ Ends(p, "failed")
    /\ UNCHANGED <<goos, published, mark, disk>>

\* Windows: the binary is moved out of the way; a second updater that finds none gives up.
Backup(p) ==
    /\ On(p, "backup")
    /\ IF disk.exe # 0
       THEN /\ disk' = [disk EXCEPT !.old = disk.exe, !.exe = 0]
            /\ Go(p, "replace")
       ELSE /\ disk' = [disk EXCEPT !.temps = @ \ {p}]
            /\ Ends(p, "failed")
    /\ UNCHANGED <<goos, published, mark, mishaps>>

\* Mutant: the temporary file stays when the backup fails.
BackupFailsLeaving(p) ==
    /\ On(p, "backup")
    /\ Mishap
    /\ Ends(p, "failed")
    /\ UNCHANGED <<goos, published, mark, disk>>

BackupFails(p) ==
    /\ On(p, "backup")
    /\ Mishap
    /\ disk' = [disk EXCEPT !.temps = @ \ {p}]
    /\ Ends(p, "failed")
    /\ UNCHANGED <<goos, published, mark>>

\* The temporary file takes the place of the binary: on Unix an atomic replacement.
Replace(p) ==
    /\ On(p, "replace")
    /\ disk' = [disk EXCEPT !.exe = launch[p].body, !.temps = @ \ {p}]
    /\ Go(p, "reexec")
    /\ UNCHANGED <<goos, published, mark, mishaps>>

\* Whether the backup goes back: on Windows, if it is still there and that rename works.
GoesBack(back) == goos = "windows" /\ disk.old # 0 /\ back

\* Mutant: the backup is forgotten.
ReplaceFailsForgets(p, back) ==
    /\ On(p, "replace")
    /\ MishapBares(~GoesBack(back))
    /\ disk' = [disk EXCEPT !.temps = @ \ {p}]
    /\ Ends(p, "failed")
    /\ UNCHANGED <<goos, published, mark>>

\* It cannot: on Windows it is rolled back, and an error of that is ignored.
ReplaceFails(p, back) ==
    /\ On(p, "replace")
    /\ MishapBares(~GoesBack(back))
    /\ disk' = IF GoesBack(back)
               THEN [disk EXCEPT !.exe = disk.old, !.old = 0, !.temps = @ \ {p}]
               ELSE [disk EXCEPT !.temps = @ \ {p}]
    /\ Ends(p, "failed")
    /\ UNCHANGED <<goos, published, mark>>

\* Mutant: CONSOLE_UPDATED is not set for the successor.
ReexecUnmarked(p) ==
    /\ On(p, "reexec") /\ disk.exe # 0
    /\ launch' = [launch EXCEPT ![p].pc = "check", ![p].image = disk.exe,
                                ![p].outcome = "updated", ![p].reexecs = @ + 1]
    /\ UNCHANGED <<goos, published, mark, disk, mishaps>>

\* reexec: the process goes on as what is at ExePath by now, with CONSOLE_UPDATED set (on
\* Windows in a child for which it waits). If that cannot be run, it goes on as it is.
Reexec(p) ==
    /\ On(p, "reexec")
    /\ launch' = IF disk.exe # 0
                 THEN [launch EXCEPT ![p].pc = IF Skips(launch[p].force, TRUE) THEN "runs" ELSE "check",
                                     ![p].image = disk.exe, ![p].updated = TRUE,
                                     ![p].outcome = "updated", ![p].reexecs = @ + 1]
                 ELSE [launch EXCEPT ![p].pc = "runs", ![p].outcome = "updated"]
    /\ UNCHANGED <<goos, published, mark, disk, mishaps>>

-----------------------------------------------------------------------------
(* Around it *)

Quit(p) ==
    /\ On(p, "runs")
    /\ launch' = [launch EXCEPT ![p] = Off]
    /\ UNCHANGED <<goos, published, mark, disk, mishaps>>

\* Killed in the middle (Ctrl-C is not caught during the update's file operations, and
\* nothing catches a power cut): its temporary file stays.
Kill(p) ==
    /\ launch[p].pc \notin {"off", "runs"}
    /\ mishaps.faults + mishaps.kills < MaxUpdFaults
    /\ mishaps' = [mishaps EXCEPT !.kills = @ + 1, !.bare = Bares(On(p, "replace"))]
    /\ launch' = [launch EXCEPT ![p] = Off]
    /\ UNCHANGED <<goos, published, mark, disk>>

\* runUpdate: "update --channel" writes the mark that the next launch reads (LoadMark).
Switch(c) ==
    /\ c # mark
    /\ mark' = c
    /\ mishaps' = [mishaps EXCEPT !.switched = TRUE]
    /\ UNCHANGED <<goos, published, disk, launch>>

Publish(c) ==
    /\ published[c] < MaxVersion
    /\ published' = [published EXCEPT ![c] = @ + 1]
    /\ UNCHANGED <<goos, mark, disk, launch, mishaps>>

Attempt(p) ==
    \/ \E v \in 1..MaxVersion : Manifest(p, v) \/ Download(p, v)
    \/ NotForUs(p) \/ RequestFails(p) \/ WriteTemp(p) \/ TempFails(p) \/ Backup(p)
    \/ BackupFails(p) \/ Replace(p) \/ Reexec(p)
    \/ \E back \in BOOLEAN : ReplaceFails(p, back)

Next ==
    \/ \E p \in Launches : \/ \E force \in BOOLEAN : Start(p, force)
                           \/ Attempt(p) \/ Quit(p) \/ Kill(p)
    \/ \E c \in Channels : Switch(c) \/ Publish(c)

Spec == Init /\ [][Next]_updVars

-----------------------------------------------------------------------------
(* Properties *)

\* A process that was run again carries the mark.
UpdTypeOK ==
    /\ \A p \in Launches : launch[p].reexecs > 0 => launch[p].updated
    /\ goos \in {"unix", "windows"}
    /\ published \in [Channels -> 1..MaxVersion] /\ mark \in Channels
    /\ disk \in [exe : 0..MaxVersion, old : 0..MaxVersion, temps : SUBSET Launches]
    /\ launch \in [Launches ->
          [pc : {"off", "check", "download", "temp", "backup", "replace", "reexec", "runs"},
           image : 0..MaxVersion, force : BOOLEAN, updated : BOOLEAN, channel : Channels,
           want : 0..MaxVersion, body : 0..MaxVersion,
           outcome : {"none", "up to date", "failed", "updated"}, reexecs : Nat, met : BOOLEAN]]
    /\ mishaps \in [faults : 0..MaxUpdFaults, kills : 0..MaxUpdFaults, switched : BOOLEAN, bare : BOOLEAN]

Swapping(p) == launch[p].pc \in {"backup", "replace"}

\* There is always a binary to launch: on Unix whatever fails and whoever is killed, because
\* the replacement is atomic; on Windows, where it is two renames, while nobody is between
\* them, whatever fails (the second rename included, which is rolled back) and whoever is
\* killed elsewhere, also with two processes that swap at once. (The code has no answer to a
\* kill between the two renames, nor to a second one that fails when the backup cannot go
\* back, as another process has removed it, say.)
AlwaysLaunchable ==
    disk.exe = 0 => /\ goos = "windows"
                    /\ (\E p \in Launches : On(p, "replace")) \/ mishaps.bare

\* A rename that fails on Windows is rolled back ("roll back", swap_windows.go): a process
\* that meets no other ends its swap with a binary in place, whatever failed but that.
RolledBack ==
    [][\A p \in Launches : Swapping(p) /\ ~launch[p].met /\ launch'[p].pc = "runs"
                             => disk'.exe # 0 \/ mishaps'.bare]_updVars

\* What is put in place is what the signed manifest named when it was judged newer, whatever
\* was published between the two requests.
InstalledAsNamed ==
    [][disk'.exe \notin {0, disk.exe, disk.old} =>
          \E p \in Launches : On(p, "replace") /\ launch[p].want = disk'.exe]_updVars

\* "Guards against an update loop" (reexec): however often a release comes out and even when
\* every launch is forced, one launch runs itself again at most once.
NoUpdateLoop == \A p \in Launches : launch[p].reexecs <= 1

\* Without kills, no temporary file outlives the process that wrote it.
NoLeftovers ==
    mishaps.kills = 0 => \A p \in disk.temps : Swapping(p)

\* A process that meets no other, on one channel and unforced, never replaces the binary
\* by an older one, even when a cache serves an old manifest. (Two at once may: the one with
\* the older manifest swaps last. The next launch puts it right.)
NoDowngrade ==
    [][\A p \in Launches :
          (On(p, "replace") /\ launch'[p].pc = "reexec" /\ ~launch[p].met
             /\ ~launch[p].force /\ ~mishaps.switched)
          => disk'.exe > (IF disk.exe # 0 THEN disk.exe ELSE disk.old)]_updVars

=============================================================================
