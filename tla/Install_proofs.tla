--------------------------- MODULE Install_proofs ---------------------------
(***************************************************************************)
(* The installation of the program for any number of processes, versions,  *)
(* agents, dishes and faults: there is a binary to launch, what is put in   *)
(* its place is what the signed manifest named and no older; the marks it   *)
(* leaves on the machine - a tour was taken, notes were read, an agent is   *)
(* registered, everything is uninstalled - are true; and its files remember *)
(* what the user said.                                                      *)
(***************************************************************************)
EXTENDS MCInstall, FoldLemmas, SequenceTheorems

everything == <<focus, updVars, insVars, stoVars>>

-----------------------------------------------------------------------------
(* Self-update *)

Pcs == {"off", "check", "download", "temp", "backup", "replace", "reexec", "runs"}
LaunchRecord ==
    [pc : Pcs, image : 0..MaxVersion, force : BOOLEAN, updated : BOOLEAN, channel : Channels,
     want : 0..MaxVersion, body : 0..MaxVersion,
     outcome : {"none", "up to date", "failed", "updated"}, reexecs : Nat, met : BOOLEAN]
DiskRecord == [exe : 0..MaxVersion, old : 0..MaxVersion, temps : SUBSET Launches]
MishapRecord == [faults : 0..MaxUpdFaults, kills : 0..MaxUpdFaults, switched : BOOLEAN, bare : BOOLEAN]

\* What has been checked against the manifest is what it named; only Windows moves the
\* binary away.
Sound(r) ==
    /\ r \in LaunchRecord
    /\ r.reexecs > 0 => r.updated
    /\ r.pc \in {"temp", "backup", "replace"} => r.body = r.want /\ r.body # 0
    /\ r.pc = "backup" => goos = "windows"

UpdTypes ==
    /\ goos \in {"unix", "windows"}
    /\ published \in [Channels -> 1..MaxVersion] /\ mark \in Channels
    /\ disk \in DiskRecord
    /\ mishaps \in MishapRecord
UpdInv ==
    /\ UpdTypes
    /\ launch \in [Launches -> LaunchRecord] /\ \A p \in Launches : Sound(launch[p])
    /\ Update!AlwaysLaunchable

LEMMA OffSound ==
    ASSUME UpdTypes
    PROVE  Sound(Update!Off) /\ Update!Off.pc = "off"
<1>1. 0 \in 0..MaxVersion /\ mark \in Channels
  BY InstallAssumption DEF UpdTypes
<1>2. Update!Off \in LaunchRecord
  BY <1>1 DEF LaunchRecord, Pcs, Update!Off
<1>3. Update!Off.pc = "off" /\ Update!Off.reexecs = 0
  BY DEF Update!Off
<1> QED BY <1>2, <1>3 DEF Sound

\* One process moves.
LEMMA OneMoves ==
    ASSUME UpdInv, UNCHANGED goos, NEW p \in Launches, NEW r, Sound(r), launch' = [launch EXCEPT ![p] = r]
    PROVE  /\ launch' \in [Launches -> LaunchRecord] /\ \A q \in Launches : Sound(launch[q])'
           /\ launch'[p] = r /\ \A q \in Launches \ {p} : launch'[q] = launch[q]
<1>1. r \in LaunchRecord
  BY DEF Sound
<1>2. launch' \in [Launches -> LaunchRecord] /\ launch'[p] = r /\ \A q \in Launches \ {p} : launch'[q] = launch[q]
  BY <1>1 DEF UpdInv
<1>3. ASSUME NEW q \in Launches PROVE Sound(launch[q])'
  <2>1. Sound(launch'[q])
    BY <1>2 DEF UpdInv
  <2> QED BY <2>1 DEF Sound
<1> QED BY <1>2, <1>3

\* A binary that was there stays, or a swap that is not over accounts for it, or one that broke
\* off between its two renames.
LEMMA StaysLaunchable ==
    ASSUME UpdInv, UNCHANGED goos,
           \/ disk'.exe # 0
           \/ goos = "windows" /\ mishaps'.bare
           \/ /\ disk'.exe = disk.exe /\ (mishaps.bare => mishaps'.bare)
              /\ \A q \in Launches : launch[q].pc = "replace" => launch'[q].pc = "replace"
    PROVE  Update!AlwaysLaunchable'
BY DEF UpdInv, Update!AlwaysLaunchable, Update!On

\* A step to another place, with nothing else of the process changed.
LEMMA Goes ==
    ASSUME UpdInv, UNCHANGED goos, NEW p \in Launches, NEW pc \in Pcs, Update!Go(p, pc),
           pc \in {"temp", "backup", "replace"} => launch[p].pc \in {"temp", "backup", "replace"},
           pc = "backup" => goos = "windows"
    PROVE  /\ launch' \in [Launches -> LaunchRecord] /\ \A q \in Launches : Sound(launch[q])'
           /\ launch'[p].pc = pc /\ \A q \in Launches \ {p} : launch'[q] = launch[q]
<1> DEFINE r == [launch[p] EXCEPT !.pc = pc]
<1>1. launch[p] \in LaunchRecord /\ Sound(launch[p])
  BY DEF UpdInv
<1>2. Sound(r) /\ r.pc = pc
  BY <1>1 DEF Sound, LaunchRecord
<1>3. launch' = [launch EXCEPT ![p] = r]
  BY DEF Update!Go
<1> HIDE DEF r
<1> QED BY <1>2, <1>3, OneMoves

\* The attempt is over.
LEMMA Over ==
    ASSUME UpdInv, UNCHANGED goos, NEW p \in Launches, NEW outcome \in {"up to date", "failed", "updated"},
           launch' = [launch EXCEPT ![p].pc = "runs", ![p].outcome = outcome]
    PROVE  /\ launch' \in [Launches -> LaunchRecord] /\ \A q \in Launches : Sound(launch[q])'
           /\ launch'[p].pc = "runs" /\ \A q \in Launches \ {p} : launch'[q] = launch[q]
<1> DEFINE a == [launch[p] EXCEPT !.pc = "runs"]
           r == [a EXCEPT !.outcome = outcome]
<1>1. launch[p] \in LaunchRecord /\ Sound(launch[p])
  BY DEF UpdInv
<1>2. Sound(a) /\ a.pc = "runs"
  BY <1>1 DEF Sound, LaunchRecord, Pcs
<1>3. launch' = [launch EXCEPT ![p] = r]
  BY DEF UpdInv
<1> HIDE DEF a
<1>4. Sound(r) /\ r.pc = "runs"
  BY <1>2 DEF Sound, LaunchRecord
<1> HIDE DEF r
<1> QED BY <1>3, <1>4, OneMoves

LEMMA OverEnds ==
    ASSUME UpdInv, UNCHANGED goos, NEW p \in Launches, NEW outcome \in {"up to date", "failed", "updated"},
           Update!Ends(p, outcome)
    PROVE  /\ launch' \in [Launches -> LaunchRecord] /\ \A q \in Launches : Sound(launch[q])'
           /\ launch'[p].pc = "runs" /\ \A q \in Launches \ {p} : launch'[q] = launch[q]
BY Over DEF Update!Ends

LEMMA MishapCounts ==
    ASSUME mishaps \in MishapRecord, Update!Mishap
    PROVE  mishaps' \in MishapRecord /\ mishaps'.bare = mishaps.bare
<1>1. mishaps.faults + 1 \in 0..MaxUpdFaults
  BY InstallAssumption DEF Update!Mishap, MishapRecord
<1> QED BY <1>1 DEF Update!Mishap, MishapRecord

LEMMA MishapBaresCounts ==
    ASSUME mishaps \in MishapRecord, NEW lost \in BOOLEAN, Update!MishapBares(lost)
    PROVE  mishaps' \in MishapRecord /\ mishaps'.bare = Update!Bares(lost)
<1> DEFINE bare == Update!Bares(lost)
           a == [mishaps EXCEPT !.faults = mishaps.faults + 1]
<1>1. mishaps.faults + 1 \in 0..MaxUpdFaults
  BY InstallAssumption DEF Update!MishapBares, MishapRecord
<1>2. bare \in BOOLEAN
  BY DEF Update!Bares
<1>3. a \in MishapRecord
  BY <1>1 DEF MishapRecord
<1>4. mishaps' = [a EXCEPT !.bare = bare]
  BY DEF Update!MishapBares
<1> HIDE DEF a, bare
<1>5. mishaps' \in MishapRecord /\ mishaps'.bare = bare
  BY <1>2, <1>3, <1>4 DEF MishapRecord
<1> QED BY <1>5 DEF bare

\* cleanupOld, and the process begins; the others only note that it is there.
LEMMA StartInv ==
    ASSUME UpdInv, NEW p \in Launches, NEW force \in BOOLEAN, Update!Start(p, force)
    PROVE  UpdInv'
<1>1. /\ UNCHANGED <<goos, published, mark, mishaps>> /\ launch[p].pc = "off" /\ disk.exe # 0
      /\ disk' \in {disk, [disk EXCEPT !.old = 0]}
  BY DEF Update!Start, Update!On
<1>2. UpdTypes' /\ disk'.exe = disk.exe
  <2>1. 0 \in 0..MaxVersion
    BY InstallAssumption
  <2>2. disk' \in DiskRecord /\ disk'.exe = disk.exe
    BY <1>1, <2>1 DEF UpdInv, UpdTypes, DiskRecord
  <2> QED BY <1>1, <2>2 DEF UpdInv, UpdTypes
<1> DEFINE others == {q \in Launches \ {p} : ~Update!On(q, "off")}
           one == [Update!Off EXCEPT !.pc = "check", !.image = disk.exe]
           two == [one EXCEPT !.force = force, !.met = others # {}]
<1>3. launch' = [q \in Launches |->
                   CASE q = p -> two
                     [] q \in others -> [launch[q] EXCEPT !.met = TRUE]
                     [] OTHER -> launch[q]]
  <2>1. two = [Update!Off EXCEPT !.pc = "check", !.image = disk.exe, !.force = force, !.met = others # {}]
    OBVIOUS
  <2> QED BY <2>1 DEF Update!Start
<1>4. Sound(two)
  <2>1. Sound(Update!Off) /\ Update!Off.pc = "off"
    BY OffSound DEF UpdInv
  <2>2. disk.exe \in 0..MaxVersion
    BY DEF UpdInv, UpdTypes, DiskRecord
  <2>3. Sound(one)
    BY <2>1, <2>2 DEF Sound, LaunchRecord, Pcs
  <2>4. (others # {}) \in BOOLEAN
    OBVIOUS
  <2> HIDE DEF one, others
  <2> QED BY <2>3, <2>4 DEF Sound, LaunchRecord
<1> HIDE DEF two
<1>5. ASSUME NEW q \in Launches PROVE Sound(launch'[q]) /\ launch'[q] \in LaunchRecord
  <2>1. launch[q] \in LaunchRecord /\ Sound(launch[q])
    BY DEF UpdInv
  <2>2. CASE q = p
    BY <1>3, <1>4, <2>2 DEF Sound
  <2>3. CASE q # p /\ q \in others
    <3>1. launch'[q] = [launch[q] EXCEPT !.met = TRUE]
      BY <1>3, <2>3
    <3> QED BY <2>1, <3>1 DEF Sound, LaunchRecord
  <2>4. CASE q # p /\ q \notin others
    <3>1. launch'[q] = launch[q]
      BY <1>3, <2>4
    <3> QED BY <2>1, <3>1
  <2> QED BY <2>2, <2>3, <2>4
<1>6. launch' \in [Launches -> LaunchRecord]
  BY <1>3, <1>5
<1>7. \A q \in Launches : Sound(launch[q])'
  BY <1>1, <1>5 DEF Sound
<1>8. Update!AlwaysLaunchable'
  BY <1>1, <1>2, StaysLaunchable
<1> QED BY <1>2, <1>6, <1>7, <1>8 DEF UpdInv

\* A newer manifest, or no update.
LEMMA ManifestInv ==
    ASSUME UpdInv, NEW p \in Launches, NEW v \in 1..MaxVersion, Update!Manifest(p, v)
    PROVE  UpdInv'
<1>1. UNCHANGED <<goos, published, mark, disk, mishaps>> /\ launch[p].pc = "check"
  BY DEF Update!Manifest, Update!On
<1>2. launch[p] \in LaunchRecord /\ Sound(launch[p])
  BY DEF UpdInv
<1> DEFINE a == [launch[p] EXCEPT !.pc = "download"]
           r == [a EXCEPT !.want = v]
<1>3. CASE launch' = [launch EXCEPT ![p].pc = "download", ![p].want = v]
  <2>1. Sound(a) /\ a.pc = "download"
    BY <1>2 DEF Sound, LaunchRecord, Pcs
  <2>2. launch' = [launch EXCEPT ![p] = r]
    BY <1>3 DEF UpdInv
  <2>3. v \in 0..MaxVersion
    BY InstallAssumption
  <2> HIDE DEF a
  <2>4. Sound(r) /\ r.pc = "download"
    BY <2>1, <2>3 DEF Sound, LaunchRecord
  <2> HIDE DEF r
  <2>5. /\ launch' \in [Launches -> LaunchRecord] /\ \A q \in Launches : Sound(launch[q])'
        /\ \A q \in Launches \ {p} : launch'[q] = launch[q]
    BY <1>1, <2>2, <2>4, OneMoves
  <2>6. Update!AlwaysLaunchable'
    BY <1>1, <2>5, StaysLaunchable
  <2> QED BY <1>1, <2>5, <2>6 DEF UpdInv, UpdTypes
<1>4. CASE launch' = [launch EXCEPT ![p].pc = "runs", ![p].outcome = "up to date"]
  <2>1. /\ launch' \in [Launches -> LaunchRecord] /\ \A q \in Launches : Sound(launch[q])'
        /\ \A q \in Launches \ {p} : launch'[q] = launch[q]
    BY <1>1, <1>4, Over
  <2>2. Update!AlwaysLaunchable'
    BY <1>1, <2>1, StaysLaunchable
  <2> QED BY <1>1, <2>1, <2>2 DEF UpdInv, UpdTypes
<1> QED BY <1>3, <1>4 DEF Update!Manifest

\* Only the bytes that the manifest names are taken.
LEMMA DownloadInv ==
    ASSUME UpdInv, NEW p \in Launches, NEW w \in 1..MaxVersion, Update!Download(p, w)
    PROVE  UpdInv'
<1>1. UNCHANGED <<goos, published, mark, disk, mishaps>> /\ launch[p].pc = "download"
  BY DEF Update!Download, Update!On
<1>2. launch[p] \in LaunchRecord /\ Sound(launch[p])
  BY DEF UpdInv
<1> DEFINE a == [launch[p] EXCEPT !.body = w]
           r == [a EXCEPT !.pc = "temp"]
<1>3. CASE w = launch[p].want /\ launch' = [launch EXCEPT ![p].pc = "temp", ![p].body = w]
  <2>1. w \in 0..MaxVersion /\ w # 0
    BY InstallAssumption
  <2>2. Sound(a) /\ a.want = w /\ a.body = w
    BY <1>1, <1>2, <1>3, <2>1 DEF Sound, LaunchRecord
  <2>3. launch' = [launch EXCEPT ![p] = r]
    BY <1>2, <1>3 DEF UpdInv, LaunchRecord
  <2> HIDE DEF a
  <2>4. Sound(r) /\ r.pc = "temp"
    BY <2>1, <2>2 DEF Sound, LaunchRecord, Pcs
  <2> HIDE DEF r
  <2>5. /\ launch' \in [Launches -> LaunchRecord] /\ \A q \in Launches : Sound(launch[q])'
        /\ \A q \in Launches \ {p} : launch'[q] = launch[q]
    BY <1>1, <2>3, <2>4, OneMoves
  <2>6. Update!AlwaysLaunchable'
    BY <1>1, <2>5, StaysLaunchable
  <2> QED BY <1>1, <2>5, <2>6 DEF UpdInv, UpdTypes
<1>4. CASE launch' = [launch EXCEPT ![p].pc = "runs", ![p].outcome = "failed"]
  <2>1. /\ launch' \in [Launches -> LaunchRecord] /\ \A q \in Launches : Sound(launch[q])'
        /\ \A q \in Launches \ {p} : launch'[q] = launch[q]
    BY <1>1, <1>4, Over
  <2>2. Update!AlwaysLaunchable'
    BY <1>1, <2>1, StaysLaunchable
  <2> QED BY <1>1, <2>1, <2>2 DEF UpdInv, UpdTypes
<1> QED BY <1>3, <1>4 DEF Update!Download

\* What ends an attempt before the swap.
LEMMA GivesUpInv ==
    ASSUME UpdInv, NEW p \in Launches,
           Update!NotForUs(p) \/ Update!RequestFails(p) \/ Update!TempFails(p)
    PROVE  UpdInv'
<1>1. UNCHANGED <<goos, published, mark, disk>>
  BY DEF Update!NotForUs, Update!RequestFails, Update!TempFails
<1>2. Update!Ends(p, "up to date") \/ Update!Ends(p, "failed")
  BY DEF Update!NotForUs, Update!RequestFails, Update!TempFails
<1>3. /\ launch' \in [Launches -> LaunchRecord] /\ \A q \in Launches : Sound(launch[q])'
      /\ \A q \in Launches \ {p} : launch'[q] = launch[q]
  BY <1>1, <1>2, OverEnds
<1>4. CASE UNCHANGED mishaps /\ launch[p].pc # "replace"
  <2>1. Update!AlwaysLaunchable'
    BY <1>1, <1>3, <1>4, StaysLaunchable
  <2> QED BY <1>1, <1>3, <1>4, <2>1 DEF UpdInv, UpdTypes
<1>5. CASE Update!Mishap
  <2>1. mishaps' \in MishapRecord /\ mishaps'.bare = mishaps.bare
    BY <1>5, MishapCounts DEF UpdInv, UpdTypes
  <2>2. launch[p].pc # "replace"
    BY DEF Update!NotForUs, Update!RequestFails, Update!TempFails, Update!On
  <2>3. Update!AlwaysLaunchable'
    BY <1>1, <1>3, <2>1, <2>2, StaysLaunchable
  <2> QED BY <1>1, <1>3, <2>1, <2>3 DEF UpdInv, UpdTypes
<1> QED BY <1>4, <1>5 DEF Update!NotForUs, Update!RequestFails, Update!TempFails, Update!On

-----------------------------------------------------------------------------
(* The swap *)

LEMMA WriteTempInv ==
    ASSUME UpdInv, NEW p \in Launches, Update!WriteTemp(p)
    PROVE  UpdInv'
<1>1. UNCHANGED <<goos, published, mark, mishaps>> /\ launch[p].pc = "temp"
  BY DEF Update!WriteTemp, Update!On
<1>2. disk' \in DiskRecord /\ disk'.exe = disk.exe
  <2>1. disk \in DiskRecord /\ 0 \in 0..MaxVersion
    BY InstallAssumption DEF UpdInv, UpdTypes
  <2>2. \/ disk' = [disk EXCEPT !.temps = @ \cup {p}]
        \/ disk' = [disk EXCEPT !.temps = @ \cup {p}, !.old = 0]
    BY DEF Update!WriteTemp
  <2> DEFINE a == [disk EXCEPT !.temps = @ \cup {p}]
  <2>3. a \in DiskRecord /\ a.exe = disk.exe
    BY <2>1 DEF DiskRecord
  <2>4. disk' = a \/ disk' = [a EXCEPT !.old = 0]
    BY <2>2
  <2> HIDE DEF a
  <2> QED BY <2>1, <2>3, <2>4 DEF DiskRecord
<1>3. \E pc \in {"backup", "replace"} : Update!Go(p, pc) /\ (pc = "backup" => goos = "windows")
  BY DEF Update!WriteTemp
<1>4. PICK pc \in {"backup", "replace"} : Update!Go(p, pc) /\ (pc = "backup" => goos = "windows")
  BY <1>3
<1>5. /\ launch' \in [Launches -> LaunchRecord] /\ \A q \in Launches : Sound(launch[q])'
      /\ \A q \in Launches \ {p} : launch'[q] = launch[q]
  BY <1>1, <1>4, Goes DEF Pcs
<1>6. Update!AlwaysLaunchable'
  BY <1>1, <1>2, <1>5, StaysLaunchable
<1> QED BY <1>1, <1>2, <1>5, <1>6 DEF UpdInv, UpdTypes

\* Between the two renames of Windows there is no binary, and a process that puts one there.
LEMMA BackupUpdInv ==
    ASSUME UpdInv, NEW p \in Launches, Update!Backup(p)
    PROVE  UpdInv'
<1>1. UNCHANGED <<goos, published, mark, mishaps>> /\ launch[p].pc = "backup" /\ goos = "windows"
  BY DEF Update!Backup, Update!On, UpdInv, Sound
<1>2. disk \in DiskRecord /\ 0 \in 0..MaxVersion
  BY InstallAssumption DEF UpdInv, UpdTypes
<1>3. CASE disk' = [disk EXCEPT !.old = disk.exe, !.exe = 0] /\ Update!Go(p, "replace")
  <2> DEFINE a == [disk EXCEPT !.old = disk.exe]
  <2>1. a \in DiskRecord
    BY <1>2 DEF DiskRecord
  <2>2. disk' = [a EXCEPT !.exe = 0]
    BY <1>3
  <2> HIDE DEF a
  <2>3. disk' \in DiskRecord
    BY <1>2, <2>1, <2>2 DEF DiskRecord
  <2>4. /\ launch' \in [Launches -> LaunchRecord] /\ \A q \in Launches : Sound(launch[q])'
        /\ launch'[p].pc = "replace"
    BY <1>1, <1>3, Goes DEF Pcs
  <2>5. Update!AlwaysLaunchable'
    BY <1>1, <2>4 DEF Update!AlwaysLaunchable, Update!On
  <2> QED BY <1>1, <2>3, <2>4, <2>5 DEF UpdInv, UpdTypes
<1>4. CASE disk' = [disk EXCEPT !.temps = @ \ {p}] /\ Update!Ends(p, "failed")
  <2>1. disk' \in DiskRecord /\ disk'.exe = disk.exe
    BY <1>2, <1>4 DEF DiskRecord
  <2>2. /\ launch' \in [Launches -> LaunchRecord] /\ \A q \in Launches : Sound(launch[q])'
        /\ \A q \in Launches \ {p} : launch'[q] = launch[q]
    BY <1>1, <1>4, OverEnds
  <2>3. Update!AlwaysLaunchable'
    BY <1>1, <2>1, <2>2, StaysLaunchable
  <2> QED BY <1>1, <2>1, <2>2, <2>3 DEF UpdInv, UpdTypes
<1> QED BY <1>3, <1>4 DEF Update!Backup

LEMMA BackupFailsInv ==
    ASSUME UpdInv, NEW p \in Launches, Update!BackupFails(p)
    PROVE  UpdInv'
<1>1. /\ UNCHANGED <<goos, published, mark>> /\ launch[p].pc = "backup" /\ Update!Mishap /\ Update!Ends(p, "failed")
      /\ disk' = [disk EXCEPT !.temps = @ \ {p}]
  BY DEF Update!BackupFails, Update!On
<1>2. mishaps' \in MishapRecord /\ mishaps'.bare = mishaps.bare
  BY <1>1, MishapCounts DEF UpdInv, UpdTypes
<1>3. disk' \in DiskRecord /\ disk'.exe = disk.exe
  BY <1>1 DEF UpdInv, UpdTypes, DiskRecord
<1>4. /\ launch' \in [Launches -> LaunchRecord] /\ \A q \in Launches : Sound(launch[q])'
      /\ \A q \in Launches \ {p} : launch'[q] = launch[q]
  BY <1>1, OverEnds
<1>5. Update!AlwaysLaunchable'
  BY <1>1, <1>2, <1>3, <1>4, StaysLaunchable
<1> QED BY <1>1, <1>2, <1>3, <1>4, <1>5 DEF UpdInv, UpdTypes

\* Windows rolls back, if the backup is still there; on Unix the binary was there.
LEMMA ReplaceFailsInv ==
    ASSUME UpdInv, NEW p \in Launches, NEW back \in BOOLEAN, Update!ReplaceFails(p, back)
    PROVE  UpdInv'
<1>1. UNCHANGED <<goos, published, mark>> /\ Update!MishapBares(~Update!GoesBack(back)) /\ Update!Ends(p, "failed")
  BY DEF Update!ReplaceFails
<1>2. disk \in DiskRecord /\ 0 \in 0..MaxVersion
  BY InstallAssumption DEF UpdInv, UpdTypes
<1>3. mishaps' \in MishapRecord /\ mishaps'.bare = Update!Bares(~Update!GoesBack(back))
  BY <1>1, MishapBaresCounts DEF UpdInv, UpdTypes
<1>4. launch' \in [Launches -> LaunchRecord] /\ \A q \in Launches : Sound(launch[q])'
  BY <1>1, OverEnds
<1>5. CASE Update!GoesBack(back)
  <2> DEFINE a == [disk EXCEPT !.exe = disk.old, !.old = 0]
  <2>1. a \in DiskRecord /\ a.exe = disk.old
    BY <1>2 DEF DiskRecord
  <2>2. disk' = [a EXCEPT !.temps = @ \ {p}]
    BY <1>5 DEF Update!ReplaceFails
  <2> HIDE DEF a
  <2>3. disk' \in DiskRecord /\ disk'.exe # 0
    BY <1>5, <2>1, <2>2 DEF DiskRecord, Update!GoesBack
  <2>4. Update!AlwaysLaunchable'
    BY <1>1, <2>3, StaysLaunchable
  <2> QED BY <1>1, <1>3, <1>4, <2>3, <2>4 DEF UpdInv, UpdTypes
<1>6. CASE ~Update!GoesBack(back)
  <2>1. disk' = [disk EXCEPT !.temps = @ \ {p}]
    BY <1>6 DEF Update!ReplaceFails
  <2>2. disk' \in DiskRecord /\ disk'.exe = disk.exe
    BY <1>2, <2>1 DEF DiskRecord
  <2>3. disk.exe # 0 \/ goos = "windows"
    BY DEF UpdInv, Update!AlwaysLaunchable
  <2>4. disk'.exe # 0 \/ (goos = "windows" /\ mishaps'.bare)
    BY <1>3, <1>6, <2>2, <2>3 DEF Update!Bares
  <2>5. Update!AlwaysLaunchable'
    BY <1>1, <2>4, StaysLaunchable
  <2> QED BY <1>1, <1>3, <1>4, <2>2, <2>5 DEF UpdInv, UpdTypes
<1> QED BY <1>5, <1>6

\* What takes the place of the binary is what the manifest named, and there is one.
LEMMA ReplaceInv ==
    ASSUME UpdInv, NEW p \in Launches, Update!Replace(p)
    PROVE  UpdInv' /\ disk'.exe = launch[p].want
<1>1. /\ UNCHANGED <<goos, published, mark, mishaps>> /\ launch[p].pc = "replace"
      /\ Update!Go(p, "reexec") /\ disk' = [disk EXCEPT !.exe = launch[p].body, !.temps = @ \ {p}]
  BY DEF Update!Replace, Update!On
<1>2. disk \in DiskRecord
  BY DEF UpdInv, UpdTypes
<1>3. launch[p].body \in 0..MaxVersion /\ launch[p].body = launch[p].want /\ launch[p].body # 0
  BY <1>1 DEF UpdInv, Sound, LaunchRecord
<1>4. disk' \in DiskRecord /\ disk'.exe = launch[p].body
  <2> DEFINE a == [disk EXCEPT !.exe = launch[p].body]
  <2>1. a \in DiskRecord /\ a.exe = launch[p].body
    BY <1>2, <1>3 DEF DiskRecord
  <2>2. disk' = [a EXCEPT !.temps = @ \ {p}]
    BY <1>1
  <2> HIDE DEF a
  <2> QED BY <2>1, <2>2 DEF DiskRecord
<1>5. launch' \in [Launches -> LaunchRecord] /\ \A q \in Launches : Sound(launch[q])'
  BY <1>1, Goes DEF Pcs
<1>6. Update!AlwaysLaunchable'
  BY <1>1, <1>3, <1>4, StaysLaunchable
<1> QED BY <1>1, <1>3, <1>4, <1>5, <1>6 DEF UpdInv, UpdTypes

\* The successor carries the mark.
LEMMA ReexecInv ==
    ASSUME UpdInv, NEW p \in Launches, Update!Reexec(p)
    PROVE  UpdInv'
<1>1. UNCHANGED <<goos, published, mark, disk, mishaps>> /\ launch[p].pc = "reexec"
  BY DEF Update!Reexec, Update!On
<1>2. launch[p] \in LaunchRecord /\ Sound(launch[p]) /\ disk.exe \in 0..MaxVersion
  BY DEF UpdInv, UpdTypes, DiskRecord
<1>3. /\ launch' \in [Launches -> LaunchRecord] /\ \A q \in Launches : Sound(launch[q])'
      /\ \A q \in Launches \ {p} : launch'[q] = launch[q]
  <2>1. CASE launch' = [launch EXCEPT ![p].pc = "runs", ![p].outcome = "updated"]
    BY <1>1, <2>1, Over
  <2>2. CASE launch' = [launch EXCEPT ![p].pc = IF Update!Skips(launch[p].force, TRUE) THEN "runs" ELSE "check",
                                      ![p].image = disk.exe, ![p].updated = TRUE,
                                      ![p].outcome = "updated", ![p].reexecs = @ + 1]
    <3> DEFINE a == [launch[p] EXCEPT !.pc = "runs", !.image = disk.exe]
               b == [a EXCEPT !.updated = TRUE, !.outcome = "updated"]
               n == launch[p].reexecs + 1
               r == [b EXCEPT !.reexecs = n]
    <3>1. launch' = [launch EXCEPT ![p] = r]
      BY <2>2 DEF UpdInv, Update!Skips
    <3>2. Sound(a) /\ a.pc = "runs"
      BY <1>2 DEF Sound, LaunchRecord, Pcs
    <3> HIDE DEF a
    <3>3. Sound(b) /\ b.pc = "runs" /\ b.updated
      BY <3>2 DEF Sound, LaunchRecord
    <3>4. n \in Nat
      <4>1. launch[p].reexecs \in Nat
        BY <1>2 DEF LaunchRecord
      <4> QED BY <4>1
    <3> HIDE DEF b, n
    <3>5. Sound(r)
      BY <3>3, <3>4 DEF Sound, LaunchRecord
    <3> HIDE DEF r
    <3> QED BY <1>1, <3>1, <3>5, OneMoves
  <2> QED BY <2>1, <2>2 DEF Update!Reexec
<1>4. Update!AlwaysLaunchable'
  BY <1>1, <1>3, StaysLaunchable
<1> QED BY <1>1, <1>3, <1>4 DEF UpdInv, UpdTypes

\* A process is gone.
LEMMA GoneInv ==
    ASSUME UpdInv, NEW p \in Launches, Update!Quit(p) \/ Update!Kill(p)
    PROVE  UpdInv'
<1>1. UNCHANGED <<goos, published, mark, disk>> /\ launch' = [launch EXCEPT ![p] = Update!Off]
  BY DEF Update!Quit, Update!Kill
<1>2. Sound(Update!Off)
  BY OffSound DEF UpdInv
<1>3. /\ launch' \in [Launches -> LaunchRecord] /\ \A q \in Launches : Sound(launch[q])'
      /\ \A q \in Launches \ {p} : launch'[q] = launch[q]
  BY <1>1, <1>2, OneMoves
<1>4. CASE Update!Quit(p)
  <2>1. UNCHANGED mishaps /\ launch[p].pc # "replace"
    BY <1>4 DEF Update!Quit, Update!On
  <2>2. Update!AlwaysLaunchable'
    BY <1>1, <1>3, <2>1, StaysLaunchable
  <2> QED BY <1>1, <1>3, <2>1, <2>2 DEF UpdInv, UpdTypes
<1>5. CASE Update!Kill(p)
  <2> DEFINE bare == Update!Bares(Update!On(p, "replace"))
             a == [mishaps EXCEPT !.kills = mishaps.kills + 1]
  <2>1. mishaps \in MishapRecord /\ mishaps.faults \in Nat /\ mishaps.kills \in Nat
    BY InstallAssumption DEF UpdInv, UpdTypes, MishapRecord
  <2>2. mishaps.kills + 1 \in 0..MaxUpdFaults
    BY <1>5, <2>1, InstallAssumption DEF Update!Kill
  <2>3. a \in MishapRecord /\ bare \in BOOLEAN
    BY <2>1, <2>2 DEF MishapRecord, Update!Bares
  <2>4. mishaps' = [a EXCEPT !.bare = bare]
    BY <1>5 DEF Update!Kill
  <2> HIDE DEF a, bare
  <2>5. mishaps' \in MishapRecord /\ mishaps'.bare = bare
    BY <2>3, <2>4 DEF MishapRecord
  <2>6. disk.exe # 0 \/ goos = "windows"
    BY DEF UpdInv, Update!AlwaysLaunchable
  <2>7. disk'.exe # 0 \/ (goos = "windows" /\ (mishaps.bare \/ launch[p].pc = "replace" => mishaps'.bare))
    BY <1>1, <2>5, <2>6 DEF bare, Update!Bares, Update!On
  <2>8. Update!AlwaysLaunchable'
    BY <1>1, <1>3, <2>7, StaysLaunchable
  <2> QED BY <1>1, <1>3, <2>5, <2>8 DEF UpdInv, UpdTypes
<1> QED BY <1>4, <1>5

\* A channel is chosen, or published to.
LEMMA ChannelInv ==
    ASSUME UpdInv, NEW c \in Channels, Update!Switch(c) \/ Update!Publish(c)
    PROVE  UpdInv'
<1>1. UNCHANGED <<goos, disk, launch>>
  BY DEF Update!Switch, Update!Publish
<1>2. mishaps' \in MishapRecord /\ mishaps'.bare = mishaps.bare
  BY DEF UpdInv, UpdTypes, MishapRecord, Update!Switch, Update!Publish
<1>3. published' \in [Channels -> 1..MaxVersion] /\ mark' \in Channels
  <2>1. CASE Update!Switch(c)
    BY <2>1 DEF UpdInv, UpdTypes, Update!Switch
  <2>2. CASE Update!Publish(c)
    <3>1. published[c] + 1 \in 1..MaxVersion
      BY <2>2, InstallAssumption DEF UpdInv, UpdTypes, Update!Publish
    <3> QED BY <2>2, <3>1 DEF UpdInv, UpdTypes, Update!Publish
  <2> QED BY <2>1, <2>2
<1>4. Update!AlwaysLaunchable'
  BY <1>1, <1>2, StaysLaunchable
<1>5. \A q \in Launches : Sound(launch[q])'
  BY <1>1 DEF UpdInv, Sound
<1> QED BY <1>1, <1>2, <1>3, <1>4, <1>5 DEF UpdInv, UpdTypes

LEMMA UpdInit == Init => UpdInv
<1> SUFFICES ASSUME Init PROVE UpdInv
  OBVIOUS
<1>1. UpdTypes
  BY InstallAssumption DEF Init, Update!Init, UpdTypes, DiskRecord, MishapRecord
<1>2. Sound(Update!Off)
  BY <1>1, OffSound
<1>3. launch = [p \in Launches |-> Update!Off] /\ disk.exe = 1
  BY DEF Init, Update!Init
<1> QED BY <1>1, <1>2, <1>3 DEF UpdInv, Sound, Update!AlwaysLaunchable

LEMMA UpdNext == UpdInv /\ [Next]_everything => UpdInv'
<1>1. ASSUME UpdInv, UNCHANGED updVars PROVE UpdInv'
  BY <1>1 DEF updVars, UpdInv, UpdTypes, Sound, Update!AlwaysLaunchable, Update!On
<1>2. ASSUME UpdInv, Update!Next PROVE UpdInv'
  BY <1>2, StartInv, ManifestInv, DownloadInv, GivesUpInv, WriteTempInv, BackupUpdInv, BackupFailsInv, ReplaceFailsInv, ReplaceInv,
     ReexecInv, GoneInv, ChannelInv DEF Update!Next, Update!Attempt
<1> QED BY <1>1, <1>2 DEF Next, everything

\* There is always a binary to launch, for any number of processes that swap at once: whatever
\* fails and whoever is killed on Unix, and on Windows unless a process is, or broke off, between its
\* two renames (updater.swap).
THEOREM LaunchableAlways == Spec => []AlwaysLaunchable
<1>1. UpdInv => AlwaysLaunchable
  BY DEF UpdInv, AlwaysLaunchable
<1> QED BY <1>1, UpdInit, UpdNext, PTL DEF Spec, everything

\* What is put in place is what the verified manifest named (updater.Verify, download).
THEOREM NamedIsInstalled == Spec => InstalledAsNamed
<1> DEFINE Named == disk'.exe \notin {0, disk.exe, disk.old} =>
                      \E p \in Launches : Update!On(p, "replace") /\ launch[p].want = disk'.exe
<1>1. ASSUME UpdInv, [Next]_everything PROVE [Named]_Update!updVars
  <2>1. CASE UNCHANGED updVars
    BY <2>1 DEF updVars, Update!updVars
  <2>2. CASE Update!Next
    <3>1. ASSUME NEW p \in Launches, Update!Replace(p) PROVE Named
      BY <1>1, <3>1, ReplaceInv DEF Update!Replace
    <3>2. ASSUME NEW p \in Launches, NEW force \in BOOLEAN, Update!Start(p, force) PROVE disk'.exe = disk.exe
      BY <1>1, <3>2 DEF Update!Start, UpdInv, UpdTypes, DiskRecord
    <3>3. ASSUME NEW p \in Launches, Update!WriteTemp(p) PROVE disk'.exe = disk.exe
      BY <1>1, <3>3 DEF Update!WriteTemp, UpdInv, UpdTypes, DiskRecord
    <3>4. ASSUME NEW p \in Launches, Update!Backup(p) PROVE disk'.exe \in {0, disk.exe}
      BY <1>1, <3>4 DEF Update!Backup, UpdInv, UpdTypes, DiskRecord
    <3>5. ASSUME NEW p \in Launches, NEW back \in BOOLEAN, Update!BackupFails(p) \/ Update!ReplaceFails(p, back)
          PROVE  disk'.exe \in {disk.exe, disk.old}
      BY <1>1, <3>5 DEF Update!BackupFails, Update!ReplaceFails, Update!GoesBack, UpdInv, UpdTypes, DiskRecord
    <3>6. ASSUME NEW p \in Launches, NEW v \in 1..MaxVersion,
                 \/ Update!Manifest(p, v) \/ Update!Download(p, v) \/ Update!NotForUs(p) \/ Update!RequestFails(p)
                 \/ Update!TempFails(p) \/ Update!Reexec(p) \/ Update!Quit(p) \/ Update!Kill(p)
          PROVE  disk'.exe = disk.exe
      BY <3>6 DEF Update!Manifest, Update!Download, Update!NotForUs, Update!RequestFails, Update!TempFails,
         Update!Reexec, Update!Quit, Update!Kill
    <3>7. ASSUME NEW c \in Channels, Update!Switch(c) \/ Update!Publish(c) PROVE disk'.exe = disk.exe
      BY <3>7 DEF Update!Switch, Update!Publish
    <3>8. 1 \in 1..MaxVersion
      BY InstallAssumption
    <3> HIDE DEF Named
    <3>9. disk'.exe \in {0, disk.exe, disk.old} => Named
      BY DEF Named
    <3> QED BY <2>2, <3>1, <3>2, <3>3, <3>4, <3>5, <3>6, <3>7, <3>8, <3>9 DEF Update!Next, Update!Attempt
  <2> QED BY <1>1, <2>1, <2>2 DEF Next, everything
<1> QED BY <1>1, UpdInit, UpdNext, PTL DEF Spec, everything, InstalledAsNamed, Update!InstalledAsNamed

-----------------------------------------------------------------------------
(* What a process of its own can count on while it updates *)

\* Of a process that has met no other: until the swap the binary is the image that it runs,
\* between the renames of Windows the backup is, and what it has in its hands is newer.
Lone(p) ==
    ~launch[p].met =>
        /\ launch[p].pc \in {"check", "download", "temp", "backup"} =>
             disk.exe = launch[p].image /\ disk.exe # 0
        /\ launch[p].pc = "replace" =>
             /\ launch[p].image # 0
             /\ goos = "unix" => disk.exe = launch[p].image
             /\ goos = "windows" => disk.exe = 0 /\ disk.old = launch[p].image
        /\ launch[p].pc \in {"download", "temp", "backup", "replace"} /\ ~launch[p].force =>
             launch[p].want > launch[p].image
Once(p) == launch[p].reexecs \in {0, 1} /\ (launch[p].pc # "runs" => launch[p].reexecs = 0)
Present(p) == launch[p].pc # "off"
Tidy == mishaps.kills = 0 => \A p \in disk.temps : Update!Swapping(p)

SwapInv ==
    /\ UpdInv /\ Tidy
    /\ \A p, q \in Launches : p # q /\ Present(p) /\ Present(q) => launch[p].met
    /\ \A p \in Launches : Lone(p) /\ Once(p)

\* A process moves that was there: whoever else is there has met it, and counts on nothing.
LEMMA OneSwaps ==
    ASSUME SwapInv, UpdInv', NEW p \in Launches, Present(p),
           \A q \in Launches \ {p} : launch'[q] = launch[q],
           launch'[p].met = launch[p].met \/ launch'[p].pc = "off",
           Lone(p)', Once(p)',
           mishaps'.kills = 0 => /\ mishaps.kills = 0 /\ disk'.temps \ {p} \subseteq disk.temps
                                 /\ (p \in disk'.temps => Update!Swapping(p)')
    PROVE  SwapInv'
<1>1. Tidy'
  <2> SUFFICES ASSUME mishaps'.kills = 0, NEW q \in disk'.temps PROVE Update!Swapping(q)'
    BY DEF Tidy
  <2>1. q \in Launches
    BY DEF UpdInv, UpdTypes, DiskRecord
  <2>2. CASE q # p
    <3>1. Update!Swapping(q) /\ launch'[q] = launch[q]
      BY <2>1, <2>2 DEF SwapInv, Tidy
    <3> QED BY <3>1 DEF Update!Swapping
  <2> QED BY <2>2
<1>2. \A q, r \in Launches : q # r /\ Present(q)' /\ Present(r)' => launch'[q].met
  BY DEF SwapInv, Present
<1>3. ASSUME NEW q \in Launches \ {p} PROVE Lone(q)' /\ Once(q)'
  <2>1. launch'[q] = launch[q] /\ Once(q)
    BY DEF SwapInv
  <2>2. launch[q].pc = "off" \/ launch[q].met
    BY DEF SwapInv, Present
  <2> QED BY <2>1, <2>2 DEF Lone, Once
<1> QED BY <1>1, <1>2, <1>3 DEF SwapInv

\* A process that is over, or gone, counts on nothing.
LEMMA StopsSwapping ==
    ASSUME SwapInv, UpdInv', NEW p \in Launches, Present(p),
           \A q \in Launches \ {p} : launch'[q] = launch[q],
           \/ launch'[p].pc = "runs" /\ launch'[p].met = launch[p].met /\ launch'[p].reexecs \in {0, 1}
           \/ launch'[p].pc = "off" /\ launch'[p].reexecs = 0,
           mishaps'.kills = 0 => mishaps.kills = 0 /\ disk'.temps \subseteq disk.temps \ {p}
    PROVE  SwapInv'
BY OneSwaps DEF Lone, Once

LEMMA StartSwaps ==
    ASSUME SwapInv, UpdInv', NEW p \in Launches, NEW force \in BOOLEAN, Update!Start(p, force)
    PROVE  SwapInv'
<1> DEFINE others == {q \in Launches \ {p} : ~Update!On(q, "off")}
           one == [Update!Off EXCEPT !.pc = "check", !.image = disk.exe, !.force = force, !.met = others # {}]
<1>1. /\ launch[p].pc = "off" /\ disk.exe # 0 /\ UNCHANGED <<goos, mishaps>>
      /\ disk' \in {disk, [disk EXCEPT !.old = 0]}
      /\ launch' = [q \in Launches |->
                      CASE q = p -> one
                        [] q \in others -> [launch[q] EXCEPT !.met = TRUE]
                        [] OTHER -> launch[q]]
  BY DEF Update!Start, Update!On
<1>2. disk'.exe = disk.exe /\ disk'.temps = disk.temps /\ disk \in DiskRecord
  BY <1>1 DEF SwapInv, UpdInv, UpdTypes, DiskRecord
<1>3. one.pc = "check" /\ one.image = disk.exe /\ one.met = (others # {}) /\ one.reexecs = 0
  BY DEF Update!Off
<1>4. launch'[p] = one
  BY <1>1
<1> HIDE DEF one
<1>5. ASSUME NEW q \in others PROVE launch'[q] = [launch[q] EXCEPT !.met = TRUE] /\ q # p /\ q \in Launches
  BY <1>1
<1>6. ASSUME NEW q \in Launches, q # p, q \notin others PROVE launch'[q] = launch[q] /\ launch[q].pc = "off"
  BY <1>1, <1>6 DEF Update!On
<1>7. ASSUME NEW q \in others
      PROVE  /\ launch'[q].met /\ launch'[q].pc = launch[q].pc /\ launch'[q].reexecs = launch[q].reexecs
  <2>1. launch[q] \in LaunchRecord
    BY <1>5 DEF SwapInv, UpdInv
  <2> QED BY <1>5, <2>1 DEF LaunchRecord
<1>8. \A q, r \in Launches : q # r /\ Present(q)' /\ Present(r)' => launch'[q].met
  <2> SUFFICES ASSUME NEW q \in Launches, NEW r \in Launches, q # r, Present(q)', Present(r)'
               PROVE  launch'[q].met
    OBVIOUS
  <2>1. CASE q \in others
    BY <1>7, <2>1
  <2>2. CASE q = p
    <3>1. r \in others
      BY <1>6, <2>2 DEF Present
    <3> QED BY <1>3, <1>4, <2>2, <3>1
  <2> HIDE DEF others
  <2> QED BY <1>6, <2>1, <2>2 DEF Present
<1>9. ASSUME NEW q \in Launches PROVE Lone(q)' /\ Once(q)'
  <2>1. CASE q = p
    BY <1>1, <1>2, <1>3, <1>4, <2>1 DEF Lone, Once
  <2>2. CASE q \in others
    <3>1. Once(q)
      BY <2>2 DEF SwapInv
    <3> QED BY <1>7, <2>2, <3>1 DEF Lone, Once
  <2>3. CASE q # p /\ q \notin others
    <3>1. launch'[q] = launch[q] /\ launch[q].pc = "off" /\ Once(q)
      BY <1>6, <2>3 DEF SwapInv
    <3> QED BY <3>1 DEF Lone, Once
  <2> QED BY <2>1, <2>2, <2>3
<1>10. Tidy'
  <2> SUFFICES ASSUME mishaps'.kills = 0, NEW q \in disk'.temps PROVE Update!Swapping(q)'
    BY DEF Tidy
  <2>1. Update!Swapping(q) /\ q \in Launches
    BY <1>1, <1>2 DEF SwapInv, Tidy, DiskRecord
  <2>2. q \in others
    BY <1>1, <2>1 DEF Update!Swapping, Update!On
  <2> QED BY <1>7, <2>1, <2>2 DEF Update!Swapping
<1> QED BY <1>8, <1>9, <1>10 DEF SwapInv

LEMMA ManifestSwaps ==
    ASSUME SwapInv, UpdInv', NEW p \in Launches, NEW v \in 1..MaxVersion, Update!Manifest(p, v)
    PROVE  SwapInv'
<1>1. UNCHANGED <<goos, disk, mishaps>> /\ launch[p].pc = "check" /\ launch[p] \in LaunchRecord
      /\ launch \in [Launches -> LaunchRecord]
  BY DEF Update!Manifest, Update!On, SwapInv, UpdInv
<1>2. p \notin disk.temps \/ mishaps.kills # 0
  BY <1>1 DEF SwapInv, Tidy, Update!Swapping
<1>3. CASE (launch[p].force \/ v > launch[p].image) /\ launch' = [launch EXCEPT ![p].pc = "download", ![p].want = v]
  <2>1. /\ launch'[p].pc = "download" /\ launch'[p].want = v /\ launch'[p].met = launch[p].met
        /\ launch'[p].force = launch[p].force /\ launch'[p].image = launch[p].image
        /\ launch'[p].reexecs = launch[p].reexecs
        /\ \A q \in Launches \ {p} : launch'[q] = launch[q]
    BY <1>1, <1>3 DEF LaunchRecord
  <2>2. Lone(p)'
    BY <1>1, <1>3, <2>1 DEF SwapInv, Lone
  <2> QED BY <1>1, <1>2, <2>1, <2>2, OneSwaps DEF SwapInv, Once, Present
<1>4. CASE launch' = [launch EXCEPT ![p].pc = "runs", ![p].outcome = "up to date"]
  <2>1. /\ launch'[p].pc = "runs" /\ launch'[p].met = launch[p].met /\ launch'[p].reexecs = launch[p].reexecs
        /\ \A q \in Launches \ {p} : launch'[q] = launch[q]
    BY <1>1, <1>4 DEF LaunchRecord
  <2> QED BY <1>1, <1>2, <2>1, StopsSwapping DEF SwapInv, Once, Present
<1> QED BY <1>3, <1>4 DEF Update!Manifest

\* What leaves the disk alone and ends the attempt.
LEMMA EndsAttempt ==
    ASSUME SwapInv, NEW p \in Launches, NEW outcome,
           launch' = [launch EXCEPT ![p].pc = "runs", ![p].outcome = outcome]
    PROVE  /\ launch'[p].pc = "runs" /\ launch'[p].met = launch[p].met /\ launch'[p].reexecs = launch[p].reexecs
           /\ \A q \in Launches \ {p} : launch'[q] = launch[q]
<1>1. launch \in [Launches -> LaunchRecord]
  BY DEF SwapInv, UpdInv
<1> QED BY <1>1 DEF LaunchRecord

LEMMA DownloadSwaps ==
    ASSUME SwapInv, UpdInv', NEW p \in Launches, NEW w \in 1..MaxVersion, Update!Download(p, w)
    PROVE  SwapInv'
<1>1. UNCHANGED <<goos, disk, mishaps>> /\ launch[p].pc = "download" /\ launch \in [Launches -> LaunchRecord]
  BY DEF Update!Download, Update!On, SwapInv, UpdInv
<1>2. p \notin disk.temps \/ mishaps.kills # 0
  BY <1>1 DEF SwapInv, Tidy, Update!Swapping
<1>3. CASE launch' = [launch EXCEPT ![p].pc = "temp", ![p].body = w]
  <2>1. /\ launch'[p].pc = "temp" /\ launch'[p].want = launch[p].want /\ launch'[p].met = launch[p].met
        /\ launch'[p].force = launch[p].force /\ launch'[p].image = launch[p].image
        /\ launch'[p].reexecs = launch[p].reexecs
        /\ \A q \in Launches \ {p} : launch'[q] = launch[q]
    BY <1>1, <1>3 DEF LaunchRecord
  <2>2. Lone(p)'
    BY <1>1, <1>3, <2>1 DEF SwapInv, Lone
  <2> QED BY <1>1, <1>2, <2>1, <2>2, OneSwaps DEF SwapInv, Once, Present
<1>4. CASE launch' = [launch EXCEPT ![p].pc = "runs", ![p].outcome = "failed"]
  <2>1. /\ launch'[p].pc = "runs" /\ launch'[p].met = launch[p].met /\ launch'[p].reexecs = launch[p].reexecs
        /\ \A q \in Launches \ {p} : launch'[q] = launch[q]
    BY <1>4, EndsAttempt
  <2> QED BY <1>1, <1>2, <2>1, StopsSwapping DEF SwapInv, Once, Present
<1> QED BY <1>3, <1>4 DEF Update!Download

LEMMA MishapKills ==
    ASSUME SwapInv, NEW lost \in BOOLEAN, Update!Mishap \/ Update!MishapBares(lost)
    PROVE  mishaps'.kills = mishaps.kills
BY DEF SwapInv, UpdInv, UpdTypes, MishapRecord, Update!Mishap, Update!MishapBares

LEMMA GivesUpSwaps ==
    ASSUME SwapInv, UpdInv', NEW p \in Launches,
           Update!NotForUs(p) \/ Update!RequestFails(p) \/ Update!TempFails(p)
    PROVE  SwapInv'
<1>1. /\ UNCHANGED disk /\ launch[p].pc \in {"check", "download", "temp"}
      /\ UNCHANGED mishaps \/ Update!Mishap
      /\ Update!Ends(p, "up to date") \/ Update!Ends(p, "failed")
  BY DEF Update!NotForUs, Update!RequestFails, Update!TempFails, Update!On
<1>2. p \notin disk.temps \/ mishaps.kills # 0
  BY <1>1 DEF SwapInv, Tidy, Update!Swapping
<1>3. /\ launch'[p].pc = "runs" /\ launch'[p].met = launch[p].met /\ launch'[p].reexecs = launch[p].reexecs
      /\ \A q \in Launches \ {p} : launch'[q] = launch[q]
  BY <1>1, EndsAttempt DEF Update!Ends
<1>4. mishaps'.kills = mishaps.kills
  BY <1>1, MishapKills
<1> QED BY <1>1, <1>2, <1>3, <1>4, StopsSwapping DEF SwapInv, Once, Present

LEMMA MovesOn ==
    ASSUME SwapInv, NEW p \in Launches, NEW pc, Update!Go(p, pc)
    PROVE  /\ launch'[p].pc = pc /\ launch'[p].want = launch[p].want /\ launch'[p].met = launch[p].met
           /\ launch'[p].force = launch[p].force /\ launch'[p].image = launch[p].image
           /\ launch'[p].reexecs = launch[p].reexecs
           /\ \A q \in Launches \ {p} : launch'[q] = launch[q]
<1>1. launch \in [Launches -> LaunchRecord]
  BY DEF SwapInv, UpdInv
<1> QED BY <1>1 DEF LaunchRecord, Update!Go

LEMMA WriteTempSwaps ==
    ASSUME SwapInv, UpdInv', NEW p \in Launches, Update!WriteTemp(p)
    PROVE  SwapInv'
<1>1. UNCHANGED <<goos, mishaps>> /\ launch[p].pc = "temp" /\ disk \in DiskRecord
  BY DEF Update!WriteTemp, Update!On, SwapInv, UpdInv, UpdTypes
<1>2. disk'.exe = disk.exe /\ disk'.temps = disk.temps \cup {p}
  BY <1>1 DEF Update!WriteTemp, DiskRecord
<1>3. CASE goos = "windows" /\ Update!Go(p, "backup")
  <2>1. Lone(p)'
    BY <1>1, <1>2, <1>3, MovesOn DEF SwapInv, Lone
  <2>2. Update!Swapping(p)' /\ Once(p)'
    BY <1>1, <1>3, MovesOn DEF SwapInv, Once, Update!Swapping
  <2> QED BY <1>1, <1>2, <1>3, <2>1, <2>2, MovesOn, OneSwaps DEF Present
<1>4. CASE goos # "windows" /\ Update!Go(p, "replace")
  <2>1. Lone(p)'
    BY <1>1, <1>2, <1>4, MovesOn DEF SwapInv, Lone
  <2>2. Update!Swapping(p)' /\ Once(p)'
    BY <1>1, <1>4, MovesOn DEF SwapInv, Once, Update!Swapping
  <2> QED BY <1>1, <1>2, <1>4, <2>1, <2>2, MovesOn, OneSwaps DEF Present
<1> QED BY <1>3, <1>4 DEF Update!WriteTemp

LEMMA BackupSwaps ==
    ASSUME SwapInv, UpdInv', NEW p \in Launches, Update!Backup(p)
    PROVE  SwapInv'
<1>1. UNCHANGED <<goos, mishaps>> /\ launch[p].pc = "backup" /\ disk \in DiskRecord /\ goos = "windows"
  BY DEF Update!Backup, Update!On, SwapInv, UpdInv, UpdTypes, Sound
<1>2. CASE disk.exe # 0 /\ disk' = [disk EXCEPT !.old = disk.exe, !.exe = 0] /\ Update!Go(p, "replace")
  <2>1. disk'.old = disk.exe /\ disk'.exe = 0 /\ disk'.temps = disk.temps
    BY <1>1, <1>2 DEF DiskRecord
  <2>2. Lone(p)'
    BY <1>1, <1>2, <2>1, MovesOn DEF SwapInv, Lone
  <2>3. Update!Swapping(p)' /\ Once(p)'
    BY <1>1, <1>2, MovesOn DEF SwapInv, Once, Update!Swapping
  <2> QED BY <1>1, <1>2, <2>1, <2>2, <2>3, MovesOn, OneSwaps DEF Present
<1>3. CASE disk' = [disk EXCEPT !.temps = @ \ {p}] /\ Update!Ends(p, "failed")
  <2>1. disk'.temps = disk.temps \ {p}
    BY <1>1, <1>3 DEF DiskRecord
  <2> QED BY <1>1, <1>3, <2>1, EndsAttempt, StopsSwapping DEF Update!Ends, SwapInv, Once, Present
<1> QED BY <1>2, <1>3 DEF Update!Backup

LEMMA FailsSwaps ==
    ASSUME SwapInv, UpdInv', NEW p \in Launches, NEW back \in BOOLEAN,
           Update!BackupFails(p) \/ Update!ReplaceFails(p, back)
    PROVE  SwapInv'
<1> DEFINE lost == ~Update!GoesBack(back)
<1>1. /\ Update!Mishap \/ Update!MishapBares(lost)
      /\ Update!Ends(p, "failed") /\ launch[p].pc \in {"backup", "replace"} /\ disk \in DiskRecord
  BY DEF Update!BackupFails, Update!ReplaceFails, Update!On, SwapInv, UpdInv, UpdTypes
<1>2. disk'.temps = disk.temps \ {p}
  BY <1>1 DEF Update!BackupFails, Update!ReplaceFails, DiskRecord
<1>3. mishaps'.kills = mishaps.kills
  <2>1. lost \in BOOLEAN
    BY DEF Update!GoesBack
  <2> HIDE DEF lost
  <2> QED BY <1>1, <2>1, MishapKills
<1> QED BY <1>1, <1>2, <1>3, EndsAttempt, StopsSwapping DEF Update!Ends, SwapInv, Once, Present

LEMMA ReplaceSwaps ==
    ASSUME SwapInv, UpdInv', NEW p \in Launches, Update!Replace(p)
    PROVE  SwapInv'
<1>1. UNCHANGED mishaps /\ launch[p].pc = "replace" /\ disk \in DiskRecord /\ Update!Go(p, "reexec")
  BY DEF Update!Replace, Update!On, SwapInv, UpdInv, UpdTypes
<1>2. disk'.temps = disk.temps \ {p}
  BY <1>1 DEF Update!Replace, DiskRecord
<1>3. Lone(p)' /\ Once(p)'
  BY <1>1, MovesOn DEF SwapInv, Lone, Once
<1> QED BY <1>1, <1>2, <1>3, MovesOn, OneSwaps DEF Present

LEMMA ReexecSwaps ==
    ASSUME SwapInv, UpdInv', NEW p \in Launches, Update!Reexec(p)
    PROVE  SwapInv'
<1>1. UNCHANGED <<disk, mishaps>> /\ launch[p].pc = "reexec" /\ launch \in [Launches -> LaunchRecord]
  BY DEF Update!Reexec, Update!On, SwapInv, UpdInv
<1>2. launch[p].reexecs = 0 /\ (p \notin disk.temps \/ mishaps.kills # 0)
  BY <1>1 DEF SwapInv, Once, Tidy, Update!Swapping
<1>3. /\ launch'[p].pc = "runs" /\ launch'[p].met = launch[p].met /\ launch'[p].reexecs \in {0, 1}
      /\ \A q \in Launches \ {p} : launch'[q] = launch[q]
  <2>1. CASE launch' = [launch EXCEPT ![p].pc = "runs", ![p].outcome = "updated"]
    BY <1>2, <2>1, EndsAttempt
  <2>2. CASE launch' = [launch EXCEPT ![p].pc = "runs", ![p].image = disk.exe, ![p].updated = TRUE,
                                      ![p].outcome = "updated", ![p].reexecs = @ + 1]
    <3> DEFINE r == [launch[p] EXCEPT !.pc = "runs", !.image = disk.exe, !.updated = TRUE,
                                      !.outcome = "updated", !.reexecs = @ + 1]
    <3>1. launch' = [launch EXCEPT ![p] = r]
      BY <1>1, <2>2
    <3>2. launch[p] \in LaunchRecord
      BY <1>1
    <3>3. r.pc = "runs" /\ r.met = launch[p].met /\ r.reexecs = launch[p].reexecs + 1
      BY <3>2 DEF LaunchRecord
    <3> HIDE DEF r
    <3>4. launch'[p] = r /\ \A q \in Launches \ {p} : launch'[q] = launch[q]
      BY <1>1, <3>1
    <3> QED BY <1>2, <3>3, <3>4
  <2> QED BY <1>1, <2>1, <2>2 DEF Update!Reexec, Update!Skips
<1> QED BY <1>1, <1>2, <1>3, StopsSwapping DEF Present

LEMMA GoneSwaps ==
    ASSUME SwapInv, UpdInv', NEW p \in Launches, Update!Quit(p) \/ Update!Kill(p)
    PROVE  SwapInv'
<1>1. UNCHANGED disk /\ launch[p].pc # "off" /\ launch' = [launch EXCEPT ![p] = Update!Off]
  BY DEF Update!Quit, Update!Kill, Update!On
<1>2. launch'[p].pc = "off" /\ launch'[p].reexecs = 0 /\ \A q \in Launches \ {p} : launch'[q] = launch[q]
  BY <1>1 DEF SwapInv, UpdInv, Update!Off
<1>3. mishaps'.kills = 0 => mishaps.kills = 0 /\ disk'.temps \subseteq disk.temps \ {p}
  <2>1. CASE Update!Quit(p)
    BY <1>1, <2>1 DEF Update!Quit, Update!On, SwapInv, Tidy, Update!Swapping
  <2>2. CASE Update!Kill(p)
    <3>1. mishaps \in MishapRecord /\ mishaps'.kills = mishaps.kills + 1 /\ mishaps.kills \in Nat
      BY <2>2, InstallAssumption DEF Update!Kill, SwapInv, UpdInv, UpdTypes, MishapRecord
    <3> QED BY <3>1
  <2> QED BY <2>1, <2>2
<1> QED BY <1>1, <1>2, <1>3, StopsSwapping DEF Present

LEMMA ChannelSwaps ==
    ASSUME SwapInv, UpdInv', NEW c \in Channels, Update!Switch(c) \/ Update!Publish(c)
    PROVE  SwapInv'
<1>1. UNCHANGED <<goos, disk, launch>> /\ mishaps'.kills = mishaps.kills
  BY DEF Update!Switch, Update!Publish, SwapInv, UpdInv, UpdTypes, MishapRecord
<1> QED BY <1>1 DEF SwapInv, Lone, Once, Present, Tidy, Update!Swapping

LEMMA SwapInit == Init => SwapInv
<1> SUFFICES ASSUME Init PROVE SwapInv
  OBVIOUS
<1>1. UpdInv /\ launch = [p \in Launches |-> Update!Off] /\ disk.temps = {}
  BY UpdInit DEF Init, Update!Init
<1>2. Update!Off.pc = "off" /\ Update!Off.reexecs = 0
  BY DEF Update!Off
<1> QED BY <1>1, <1>2 DEF SwapInv, Lone, Once, Present, Tidy

LEMMA SwapNext == SwapInv /\ [Next]_everything => SwapInv'
<1> SUFFICES ASSUME SwapInv, [Next]_everything PROVE SwapInv'
  OBVIOUS
<1>1. UpdInv'
  BY UpdNext DEF SwapInv
<1>2. CASE UNCHANGED updVars
  BY <1>1, <1>2 DEF updVars, SwapInv, Lone, Once, Present, Tidy, Update!Swapping
<1>3. CASE Update!Next
  BY <1>1, <1>3, StartSwaps, ManifestSwaps, DownloadSwaps, GivesUpSwaps, WriteTempSwaps, BackupSwaps, FailsSwaps,
     ReplaceSwaps, ReexecSwaps, GoneSwaps, ChannelSwaps DEF Update!Next, Update!Attempt
<1> QED BY <1>2, <1>3 DEF Next, everything

\* One launch runs itself again at most once, however often releases come out and even when it
\* is forced (updater.reexec, RunDefault), and without a kill no temporary file outlives
\* the process that wrote it (updater.swap).
THEOREM LaunchesEndTidily == Spec => [](Update!NoUpdateLoop /\ Update!NoLeftovers)
<1>1. SwapInv => Update!NoUpdateLoop /\ Update!NoLeftovers
  BY DEF SwapInv, Once, Tidy, Update!NoUpdateLoop, Update!NoLeftovers
<1> QED BY <1>1, SwapInit, SwapNext, PTL DEF Spec, everything

\* A process whose swap comes to an end has either moved by itself or not moved.
LEMMA WhoMoves ==
    ASSUME SwapInv, [Next]_everything, NEW p \in Launches, Present(p), launch'[p].pc # launch[p].pc
    PROVE  \/ Update!Attempt(p) \/ Update!Quit(p) \/ Update!Kill(p)
<1>1. launch \in [Launches -> LaunchRecord] /\ Update!Next
  BY DEF updVars, Next, everything, SwapInv, UpdInv
<1>2. ASSUME NEW q \in Launches, q # p, Update!Quit(q) \/ Update!Kill(q) PROVE FALSE
  BY <1>1, <1>2 DEF Update!Quit, Update!Kill
<1>3. ASSUME NEW q \in Launches, q # p, Update!Attempt(q) PROVE FALSE
  BY <1>1, <1>3 DEF Update!Attempt, Update!Manifest, Update!Download, Update!NotForUs, Update!RequestFails,
     Update!WriteTemp, Update!TempFails, Update!Backup, Update!BackupFails, Update!Replace, Update!ReplaceFails,
     Update!Reexec, Update!Ends, Update!Go
<1>4. ASSUME NEW q \in Launches, NEW force \in BOOLEAN, Update!Start(q, force) PROVE FALSE
  <2>1. launch[q].pc = "off" /\ q # p
    BY <1>4 DEF Update!Start, Update!On, Present
  <2>2. launch'[p] = [launch[p] EXCEPT !.met = TRUE]
    BY <1>4, <2>1 DEF Update!Start, Update!On, Present
  <2> QED BY <1>1, <2>2 DEF LaunchRecord
<1>5. ASSUME NEW c \in Channels, Update!Switch(c) \/ Update!Publish(c) PROVE FALSE
  BY <1>5 DEF Update!Switch, Update!Publish
<1> QED BY <1>1, <1>2, <1>3, <1>4, <1>5 DEF Update!Next

\* A process that meets no other ends its swap with a binary in place, whatever failed: a
\* rename that fails on Windows is rolled back (swap_windows.go), unless that fails as well.
THEOREM SwapsRollBack == Spec => Update!RolledBack
<1> DEFINE Back == \A p \in Launches : Update!Swapping(p) /\ ~launch[p].met /\ launch'[p].pc = "runs"
                                        => disk'.exe # 0 \/ mishaps'.bare
<1>1. ASSUME SwapInv, [Next]_everything PROVE Back
  <2> SUFFICES ASSUME NEW p \in Launches, Update!Swapping(p), ~launch[p].met, launch'[p].pc = "runs"
               PROVE  disk'.exe # 0 \/ mishaps'.bare
    OBVIOUS
  <2>1. Present(p) /\ launch'[p].pc # launch[p].pc /\ Lone(p) /\ disk \in DiskRecord
        /\ goos \in {"unix", "windows"} /\ launch \in [Launches -> LaunchRecord]
    BY <1>1 DEF Update!Swapping, Present, SwapInv, UpdInv, UpdTypes
  <2>2. Update!Attempt(p) \/ Update!Quit(p) \/ Update!Kill(p)
    BY <1>1, <2>1, WhoMoves
  <2>3. CASE Update!Backup(p)
    <3>1. disk.exe # 0 /\ launch[p].pc = "backup"
      BY <2>1, <2>3 DEF Lone, Update!Backup, Update!On
    <3>2. Update!Go(p, "replace")
      BY <2>3, <3>1 DEF Update!Backup
    <3> QED BY <1>1, <3>2, MovesOn
  <2>4. CASE Update!BackupFails(p)
    <3>1. disk.exe # 0 /\ disk'.exe = disk.exe
      BY <2>1, <2>4 DEF Lone, Update!BackupFails, Update!On, DiskRecord
    <3> QED BY <3>1
  <2>5. CASE Update!Replace(p)
    <3>1. launch'[p].pc = "reexec"
      BY <1>1, <2>5, MovesOn DEF Update!Replace
    <3> QED BY <3>1
  <2>6. ASSUME NEW back \in BOOLEAN, Update!ReplaceFails(p, back) PROVE disk'.exe # 0 \/ mishaps'.bare
    <3>1. launch[p].pc = "replace"
      BY <2>6 DEF Update!ReplaceFails, Update!On
    <3>2. CASE goos = "windows"
      <4>1. disk.old # 0
        BY <2>1, <3>1, <3>2 DEF Lone
      <4>2. CASE back
        <5>1. disk'.exe = disk.old
          BY <2>1, <2>6, <3>2, <4>1, <4>2 DEF Update!ReplaceFails, Update!GoesBack, DiskRecord
        <5> QED BY <4>1, <5>1
      <4>3. CASE ~back
        <5>1. Update!MishapBares(~Update!GoesBack(back)) /\ mishaps \in MishapRecord
          BY <1>1, <2>6 DEF Update!ReplaceFails, SwapInv, UpdInv, UpdTypes
        <5>2. mishaps'.bare = Update!Bares(~Update!GoesBack(back))
          BY <5>1, MishapBaresCounts
        <5> QED BY <3>2, <4>3, <5>2 DEF Update!Bares, Update!GoesBack
      <4> QED BY <4>2, <4>3
    <3>3. CASE goos = "unix"
      <4>1. disk.exe # 0
        BY <2>1, <3>1, <3>3 DEF Lone
      <4>2. disk'.exe = disk.exe
        BY <2>1, <2>6, <3>3 DEF Update!ReplaceFails, Update!GoesBack, DiskRecord
      <4> QED BY <4>1, <4>2
    <3> QED BY <2>1, <3>2, <3>3
  <2>7. CASE Update!Quit(p) \/ Update!Kill(p)
    <3>1. launch'[p].pc = "off"
      BY <2>1, <2>7 DEF Update!Quit, Update!Kill, Update!Off
    <3> QED BY <3>1
  <2> QED BY <2>2, <2>3, <2>4, <2>5, <2>6, <2>7 DEF Update!Attempt, Update!Swapping, Update!On,
        Update!Manifest, Update!Download, Update!NotForUs, Update!RequestFails, Update!WriteTemp, Update!TempFails,
        Update!Reexec
<1> QED BY <1>1, SwapInit, SwapNext, PTL DEF Spec, everything, Update!RolledBack, Update!updVars, updVars

\* A process that meets no other and is not forced never puts an older binary in the place
\* of a younger one, even when a cache serves an old manifest (updater.RunDefault).
THEOREM NeverDowngrades == Spec => Update!NoDowngrade
<1> DEFINE Up == \A p \in Launches :
                    (Update!On(p, "replace") /\ launch'[p].pc = "reexec" /\ ~launch[p].met
                       /\ ~launch[p].force /\ ~mishaps.switched)
                    => disk'.exe > (IF disk.exe # 0 THEN disk.exe ELSE disk.old)
<1>1. ASSUME SwapInv, [Next]_everything PROVE Up
  <2> SUFFICES ASSUME NEW p \in Launches, launch[p].pc = "replace", launch'[p].pc = "reexec", ~launch[p].met,
                      ~launch[p].force
               PROVE  disk'.exe > (IF disk.exe # 0 THEN disk.exe ELSE disk.old)
    BY DEF Update!On
  <2>1. /\ Present(p) /\ launch'[p].pc # launch[p].pc /\ Lone(p) /\ goos \in {"unix", "windows"}
        /\ launch \in [Launches -> LaunchRecord]
    BY <1>1 DEF Present, SwapInv, UpdInv, UpdTypes
  <2>2. Update!Attempt(p) \/ Update!Quit(p) \/ Update!Kill(p)
    BY <1>1, <2>1, WhoMoves
  <2>3. CASE Update!Replace(p)
    <3>1. disk'.exe = launch[p].want
      BY <1>1, <2>3, ReplaceInv DEF SwapInv
    <3>2. launch[p].want > launch[p].image
      BY <2>1 DEF Lone
    <3>3. (IF disk.exe # 0 THEN disk.exe ELSE disk.old) = launch[p].image
      BY <2>1 DEF Lone
    <3> QED BY <3>1, <3>2, <3>3
  <2>4. ASSUME NEW back \in BOOLEAN, Update!ReplaceFails(p, back) PROVE FALSE
    <3>1. launch'[p].pc = "runs"
      BY <1>1, <2>4, EndsAttempt DEF Update!ReplaceFails, Update!Ends
    <3> QED BY <3>1
  <2>5. CASE Update!Quit(p) \/ Update!Kill(p)
    <3>1. launch'[p].pc = "off"
      BY <2>1, <2>5 DEF Update!Quit, Update!Kill, Update!Off
    <3> QED BY <3>1
  <2> QED BY <2>2, <2>3, <2>4, <2>5 DEF Update!Attempt, Update!On,
        Update!Manifest, Update!Download, Update!NotForUs, Update!RequestFails, Update!WriteTemp, Update!TempFails,
        Update!Backup, Update!BackupFails, Update!Reexec
<1> QED BY <1>1, SwapInit, SwapNext, PTL DEF Spec, everything, Update!NoDowngrade, Update!updVars, updVars

-----------------------------------------------------------------------------
(* The registration with the agents, and "uninstall" *)

FilesRecord == [onboarded : BOOLEAN, prior : BOOLEAN, seen : 0..MaxExe, id : Procs \cup {"none"},
                marker : 0..MaxExe]
ProcRecord ==
    [pc : {"off", "make", "boot", "ready", "on", "logout", "data", "binary", "incomplete", "uninstalled"},
     ver : 0..MaxExe, ui : {"none", "welcome", "splash", "fetching", "ready", "notes"},
     sync : {"none", "check", "wire", "done"},
     left : SUBSET Agents, todo : SUBSET Bundles, wired : BOOLEAN, signed : BOOLEAN,
     failed : BOOLEAN, missed : BOOLEAN, printed : SUBSET Agents]
PastRecord == [finished : BOOLEAN, closed : SUBSET Nat, passed : SUBSET Nat, two : BOOLEAN, mixed : BOOLEAN,
               crowded : BOOLEAN, racing : BOOLEAN, since : SUBSET Procs, starts : Nat]
KeepTypes ==
    /\ exe \in 0..MaxExe /\ token \subseteq {"keyring", "file"} /\ files \in FilesRecord
    /\ entries \subseteq Agents /\ skills \in [Bundles -> 0..MaxExe]
    /\ proc \in [Procs -> ProcRecord] /\ past \in PastRecord

Works(p) == proc[p].sync = "wire"
Leaving(p) == proc[p].pc \in {"logout", "data", "binary", "uninstalled"}

\* Whoever registers does so as the one version, which no marker is ahead of, and what it
\* has done stays done, or it has an error.
WorkInv(p) ==
    /\ proc[p].pc # "off" /\ exe # 0 => proc[p].ver <= exe
    /\ proc[p].ui # "none" \/ proc[p].sync # "none" => proc[p].pc = "on"
    /\ proc[p].sync \in {"none", "check"} => ~proc[p].wired
    /\ proc[p].todo # {} => Works(p)
    /\ proc[p].sync = "done" => proc[p].left = {}
    /\ ~past.mixed /\ Works(p) =>
         /\ files.marker <= proc[p].ver
         /\ \A q \in Procs : Works(q) => proc[q].ver = proc[p].ver
         /\ Agents \ proc[p].left \subseteq entries \/ proc[p].failed
         /\ proc[p].wired => proc[p].failed \/ \A b \in Bundles \ proc[p].todo : skills[b] = proc[p].ver

\* The marker is never ahead of the binary, and where it has caught up it is truthful.
MarkInv ==
    /\ exe # 0 => files.marker <= exe
    /\ files.marker = exe /\ exe # 0 /\ ~past.mixed =>
         entries = Agents /\ \A b \in Bundles : skills[b] = files.marker

\* Who uninstalls is alone, what it left behind it has printed, and each step it has done
\* without an error stays done.
LeaveInv(p) ==
    /\ ~past.crowded /\ Leaving(p) =>
        /\ \A q \in Procs \ {p} : proc[q].pc = "off"
        /\ entries \subseteq proc[p].printed
        /\ (\E b \in Bundles : skills[b] # 0) => proc[p].printed = Agents
        /\ proc[p].pc \in {"binary", "uninstalled"} /\ ~proc[p].failed => files = Keep!NoFiles
    /\ proc[p].pc = "uninstalled" => ~proc[p].failed

\* Until another process stores a token, the launch knows whether there is one, and the logout
\* and the removal of the data leave none that did not escape them.
TokenInv(p) == p \notin past.since =>
    /\ proc[p].pc \in {"ready", "logout"} /\ ~proc[p].signed /\ ~proc[p].missed => token = {}
    /\ proc[p].pc \in {"data", "binary", "uninstalled"} /\ ~proc[p].missed => "keyring" \notin token
    /\ proc[p].pc \in {"binary", "uninstalled"} /\ ~proc[p].failed => "file" \notin token

KeepInv == KeepTypes /\ MarkInv /\ \A p \in Procs : WorkInv(p) /\ LeaveInv(p) /\ TokenInv(p)

OthersStay(p) == \A q \in Procs \ {p} : proc'[q] = proc[q]

LEMMA ProcMoves ==
    ASSUME KeepTypes, NEW p \in Procs, NEW r \in ProcRecord, proc' = [proc EXCEPT ![p] = r]
    PROVE  proc' \in [Procs -> ProcRecord] /\ proc'[p] = r /\ OthersStay(p)
BY DEF KeepTypes, OthersStay

\* A step of a process that was there: nobody else who uninstalls alone notices.
LEMMA OthersLeave ==
    ASSUME KeepInv, NEW p \in Procs, proc[p].pc # "off", past'.crowded = past.crowded, OthersStay(p)
    PROVE  \A q \in Procs \ {p} : LeaveInv(q)'
<1>1. ASSUME NEW q \in Procs \ {p}, ~past'.crowded, Leaving(q)' PROVE FALSE
  <2>1. proc'[q] = proc[q] /\ ~past.crowded
    BY <1>1 DEF OthersStay
  <2>2. Leaving(q)
    BY <1>1, <2>1 DEF Leaving
  <2>3. proc[p].pc = "off"
    BY <1>1, <2>1, <2>2 DEF KeepInv, LeaveInv
  <2> QED BY <2>3
<1>2. ASSUME NEW q \in Procs \ {p} PROVE proc'[q].pc = "uninstalled" => ~proc'[q].failed
  BY DEF KeepInv, LeaveInv, OthersStay
<1> QED BY <1>1, <1>2 DEF LeaveInv

LEMMA NobodyLeaves ==
    ASSUME KeepInv, NEW p \in Procs, proc[p].pc # "off", past'.crowded = past.crowded,
           proc'[p].pc \notin {"logout", "data", "binary", "uninstalled"}, OthersStay(p)
    PROVE  \A q \in Procs : LeaveInv(q)'
<1>1. LeaveInv(p)'
  BY DEF LeaveInv, Leaving
<1> QED BY <1>1, OthersLeave

\* A step that stores no token: what the others know of it stays true.
LEMMA OthersTokens ==
    ASSUME KeepInv, NEW p \in Procs, OthersStay(p), token' \subseteq token, past.since \ {p} \subseteq past'.since
    PROVE  \A q \in Procs \ {p} : TokenInv(q)'
<1> SUFFICES ASSUME NEW q \in Procs \ {p} PROVE TokenInv(q)'
  OBVIOUS
<1>1. TokenInv(q) /\ proc'[q] = proc[q] /\ (q \notin past'.since => q \notin past.since)
  BY DEF KeepInv, OthersStay
<1> QED BY <1>1 DEF TokenInv

LEMMA TokensKept ==
    ASSUME KeepInv, NEW p \in Procs, OthersStay(p), token' \subseteq token, past'.since = past.since,
           proc'[p].pc \notin {"ready", "logout", "data", "binary", "uninstalled"}
    PROVE  \A q \in Procs : TokenInv(q)'
<1>1. TokenInv(p)'
  BY DEF TokenInv
<1> QED BY <1>1, OthersTokens

\* A step of a process that does not touch entries, bundles or marker.
LEMMA WorkKept ==
    ASSUME KeepInv, NEW p \in Procs, proc' \in [Procs -> ProcRecord], OthersStay(p),
           UNCHANGED <<exe, entries, skills>>, files'.marker = files.marker, past'.mixed = past.mixed,
           proc'[p].pc # "off" /\ exe # 0 => proc'[p].ver <= exe,
           proc'[p].ui # "none" \/ proc'[p].sync # "none" => proc'[p].pc = "on",
           proc'[p].sync \in {"none", "check"} => ~proc'[p].wired, proc'[p].todo # {} => Works(p)',
           proc'[p].sync = "done" => proc'[p].left = {},
           Works(p)' => /\ proc'[p].sync = proc[p].sync /\ proc'[p].ver = proc[p].ver /\ proc'[p].left = proc[p].left
                        /\ proc'[p].todo = proc[p].todo
                        /\ proc'[p].wired = proc[p].wired /\ proc'[p].failed = proc[p].failed
    PROVE  MarkInv' /\ \A q \in Procs : WorkInv(q)'
<1>1. MarkInv'
  BY DEF KeepInv, MarkInv
<1>2. \A q \in Procs : Works(q)' => Works(q) /\ proc'[q].ver = proc[q].ver
  BY DEF Works, OthersStay
<1>3. ASSUME NEW q \in Procs PROVE WorkInv(q)'
  <2>1. WorkInv(q)
    BY DEF KeepInv
  <2>2. CASE q = p
    BY <1>2, <2>1, <2>2 DEF WorkInv, Works
  <2>3. CASE q # p
    <3>1. proc'[q] = proc[q]
      BY <2>3 DEF OthersStay
    <3> QED BY <1>2, <2>1, <3>1 DEF WorkInv, Works
  <2> QED BY <2>2, <2>3
<1> QED BY <1>1, <1>3

\* The ordinary steps of a process.
LEMMA Quiet ==
    ASSUME KeepInv, NEW p \in Procs, NEW r \in ProcRecord, proc' = [proc EXCEPT ![p] = r],
           UNCHANGED <<exe, token, entries, skills>>,
           files' \in FilesRecord, files'.marker = files.marker,
           past' \in PastRecord, past'.mixed = past.mixed, past'.crowded = past.crowded, past'.since = past.since,
           proc[p].pc # "off", r.pc \notin {"ready", "logout", "data", "binary", "uninstalled"},
           r.ver = proc[p].ver \/ r.pc = "off",
           r.ui # "none" \/ r.sync # "none" => r.pc = "on",
           r.sync \in {"none", "check"} => ~r.wired, r.todo # {} => r.sync = "wire", r.sync = "done" => r.left = {},
           r.sync = "wire" => /\ r.sync = proc[p].sync /\ r.ver = proc[p].ver /\ r.left = proc[p].left
                              /\ r.todo = proc[p].todo /\ r.wired = proc[p].wired /\ r.failed = proc[p].failed
    PROVE  KeepInv'
<1>1. proc' \in [Procs -> ProcRecord] /\ proc'[p] = r /\ OthersStay(p)
  BY ProcMoves DEF KeepInv
<1>2. KeepTypes'
  BY <1>1 DEF KeepInv, KeepTypes
<1>3. \A q \in Procs : LeaveInv(q)'
  BY <1>1, NobodyLeaves
<1>4. r.pc # "off" /\ exe # 0 => r.ver <= exe
  BY DEF KeepInv, WorkInv
<1>5. MarkInv' /\ \A q \in Procs : WorkInv(q)'
  BY <1>1, <1>4, WorkKept DEF Works
<1>6. \A q \in Procs : TokenInv(q)'
  BY <1>1, TokensKept
<1> QED BY <1>2, <1>3, <1>5, <1>6 DEF KeepInv

\* A launch counts for those who are uninstalling.
LEMMA ReadIdKept ==
    ASSUME KeepInv, NEW p \in Procs, Keep!ReadId(p)
    PROVE  KeepInv'
<1>1. /\ proc[p].pc = "off" /\ exe # 0 /\ UNCHANGED <<exe, files, token, entries, skills>>
      /\ KeepTypes /\ exe \in 0..MaxExe
  BY DEF Keep!ReadId, KeepInv, KeepTypes
<1> DEFINE crowded == past.crowded \/ Keep!Uninstalling # {}
           racing == past.racing \/ \E q \in Procs : proc[q].pc = "make"
           n == past.starts + 1
<1>2. past' = [past EXCEPT !.crowded = crowded, !.starts = n, !.racing = racing]
  BY DEF Keep!ReadId
<1>3. crowded \in BOOLEAN /\ racing \in BOOLEAN
  OBVIOUS
<1>4. n \in Nat
  <2>1. past.starts \in Nat
    BY DEF KeepInv, KeepTypes, PastRecord
  <2> QED BY <2>1
<1>5. crowded = FALSE => \A q \in Procs : ~Leaving(q)
  BY DEF Keep!Uninstalling, Leaving
<1> HIDE DEF crowded, racing, n
<1>6. /\ past' \in PastRecord /\ past'.mixed = past.mixed /\ past'.crowded = crowded
      /\ past'.since = past.since
  <2> DEFINE a == [past EXCEPT !.crowded = crowded]
             b == [a EXCEPT !.starts = n]
  <2>1. a \in PastRecord /\ a.mixed = past.mixed /\ a.crowded = crowded /\ a.since = past.since
    BY <1>3 DEF KeepInv, KeepTypes, PastRecord
  <2>2. past' = [b EXCEPT !.racing = racing]
    BY <1>2
  <2> HIDE DEF a
  <2>3. b \in PastRecord /\ b.mixed = past.mixed /\ b.crowded = crowded /\ b.since = past.since
    BY <1>4, <2>1 DEF PastRecord
  <2> HIDE DEF b
  <2> QED BY <1>3, <2>2, <2>3 DEF PastRecord
<1> DEFINE r == [Keep!Gone EXCEPT !.pc = IF files.id = "none" THEN "make" ELSE "boot", !.ver = exe]
<1>7. /\ r \in ProcRecord /\ r.pc \in {"make", "boot"} /\ r.ver = exe /\ r.ui = "none" /\ r.sync = "none" /\ ~r.wired
      /\ r.todo = {}
  <2>1. 0 \in 0..MaxExe
    BY InstallAssumption
  <2> DEFINE a == [Keep!Gone EXCEPT !.pc = IF files.id = "none" THEN "make" ELSE "boot"]
  <2>2. a \in ProcRecord /\ a.pc \in {"make", "boot"} /\ a.ui = "none" /\ a.sync = "none" /\ ~a.wired /\ a.todo = {}
    BY <2>1 DEF ProcRecord, Keep!Gone
  <2>3. r = [a EXCEPT !.ver = exe]
    OBVIOUS
  <2> HIDE DEF a, r
  <2> QED BY <1>1, <2>2, <2>3 DEF ProcRecord
<1>8. proc' = [proc EXCEPT ![p] = r]
  BY DEF Keep!ReadId
<1> HIDE DEF r
<1>9. proc' \in [Procs -> ProcRecord] /\ proc'[p] = r /\ OthersStay(p)
  BY <1>1, <1>7, <1>8, ProcMoves
<1>10. KeepTypes'
  BY <1>1, <1>6, <1>9 DEF KeepTypes
<1>11. ASSUME NEW q \in Procs PROVE LeaveInv(q)'
  <2>0. proc'[q].pc = "uninstalled" => ~proc'[q].failed
    BY <1>7, <1>9 DEF KeepInv, LeaveInv, OthersStay
  <2>1. CASE past'.crowded
    BY <2>0, <2>1 DEF LeaveInv
  <2>2. CASE ~past'.crowded
    <3>1. \A x \in Procs : ~Leaving(x)
      BY <1>3, <1>5, <1>6, <2>2
    <3>2. ~Leaving(q)'
      BY <1>7, <1>9, <3>1 DEF Leaving, OthersStay
    <3> QED BY <2>0, <3>2 DEF LeaveInv
  <2> QED BY <2>1, <2>2
<1>12. proc'[p].pc # "off" /\ exe # 0 => proc'[p].ver <= exe
  BY <1>1, <1>7, <1>9
<1>13. MarkInv' /\ \A q \in Procs : WorkInv(q)'
  BY <1>1, <1>6, <1>7, <1>9, <1>12, WorkKept DEF Works
<1>14. \A q \in Procs : TokenInv(q)'
  BY <1>1, <1>6, <1>7, <1>9, TokensKept
<1> QED BY <1>10, <1>11, <1>13, <1>14 DEF KeepInv
LEMMA WriteIdKept ==
    ASSUME KeepInv, NEW p \in Procs, Keep!WriteId(p)
    PROVE  KeepInv'
<1>1. /\ proc[p].pc = "make" /\ UNCHANGED <<exe, token, entries, skills, past>>
      /\ proc[p] \in ProcRecord /\ WorkInv(p) /\ files \in FilesRecord /\ past \in PastRecord
  BY DEF Keep!WriteId, KeepInv, KeepTypes
<1> DEFINE r == [proc[p] EXCEPT !.pc = "boot"]
<1>2. /\ r \in ProcRecord /\ r.pc = "boot" /\ r.ver = proc[p].ver /\ r.ui = "none" /\ r.sync = "none" /\ ~r.wired
      /\ r.todo = {}
  BY <1>1 DEF ProcRecord, WorkInv, Works
<1>3. files' \in FilesRecord /\ files'.marker = files.marker
  BY <1>1 DEF Keep!WriteId, FilesRecord
<1>4. proc' = [proc EXCEPT ![p] = r]
  BY DEF Keep!WriteId
<1> HIDE DEF r
<1> QED BY <1>1, <1>2, <1>3, <1>4, Quiet

\* The launch looks for a token once.
LEMMA BootstrapKept ==
    ASSUME KeepInv, NEW p \in Procs, NEW here \in BOOLEAN, NEW dead \in BOOLEAN, NEW rest \in SUBSET token,
           Keep!Bootstrap(p, here, dead, rest)
    PROVE  KeepInv'
<1> DEFINE signed == Keep!Seen(here) /\ ~dead
           missed == IF dead THEN rest # {} ELSE ~here /\ "keyring" \in token
           since == past.since \ {p}
           a == [proc[p] EXCEPT !.pc = "ready"]
           b == [a EXCEPT !.signed = signed]
           r == [b EXCEPT !.missed = missed]
<1>1. /\ proc[p].pc = "boot" /\ UNCHANGED <<exe, files, entries, skills>> /\ token' = IF dead THEN rest ELSE token
      /\ token' \subseteq token /\ token \subseteq {"keyring", "file"}
      /\ proc[p] \in ProcRecord /\ WorkInv(p) /\ past \in PastRecord /\ proc \in [Procs -> ProcRecord]
  BY DEF Keep!Bootstrap, KeepInv, KeepTypes
<1>2. past' = [past EXCEPT !.since = since] /\ proc' = [proc EXCEPT ![p] = r]
  BY <1>1 DEF Keep!Bootstrap
<1>3. signed \in BOOLEAN /\ missed \in BOOLEAN /\ since \in SUBSET Procs
  BY <1>1 DEF Keep!Seen, PastRecord
<1>4. ~signed /\ ~missed => token' = {}
  <2>1. CASE dead
    BY <1>1, <2>1
  <2>2. CASE ~dead
    BY <1>1, <2>2 DEF Keep!Seen
  <2> QED BY <2>1, <2>2
<1>5. /\ a \in ProcRecord /\ a.pc = "ready" /\ a.ver = proc[p].ver /\ a.ui = "none" /\ a.sync = "none"
      /\ a.todo = {} /\ ~a.wired
  BY <1>1 DEF ProcRecord, WorkInv, Works
<1>6. p \notin since /\ past.since \ {p} \subseteq since
  OBVIOUS
<1> HIDE DEF signed, missed, since, a
<1>7. /\ b \in ProcRecord /\ b.pc = "ready" /\ b.ver = proc[p].ver /\ b.ui = "none" /\ b.sync = "none"
      /\ b.todo = {} /\ ~b.wired /\ b.signed = signed
  BY <1>3, <1>5 DEF ProcRecord
<1> HIDE DEF b
<1>8. /\ r \in ProcRecord /\ r.pc = "ready" /\ r.ver = proc[p].ver /\ r.ui = "none" /\ r.sync = "none"
      /\ r.todo = {} /\ ~r.wired /\ r.signed = signed /\ r.missed = missed
  BY <1>3, <1>7 DEF ProcRecord
<1> HIDE DEF r
<1>9. past' \in PastRecord /\ past'.mixed = past.mixed /\ past'.crowded = past.crowded /\ past'.since = since
  BY <1>1, <1>2, <1>3 DEF PastRecord
<1>10. proc' \in [Procs -> ProcRecord] /\ proc'[p] = r /\ OthersStay(p)
  BY <1>2, <1>8, ProcMoves DEF KeepInv
<1>11. KeepTypes'
  BY <1>1, <1>9, <1>10 DEF KeepInv, KeepTypes
<1>12. \A q \in Procs : LeaveInv(q)'
  BY <1>1, <1>8, <1>9, <1>10, NobodyLeaves
<1>13. exe # 0 => r.ver <= exe
  BY <1>1, <1>8 DEF WorkInv
<1>14. MarkInv' /\ \A q \in Procs : WorkInv(q)'
  BY <1>1, <1>8, <1>9, <1>10, <1>13, WorkKept DEF Works
<1>15. TokenInv(p)'
  BY <1>4, <1>8, <1>10 DEF TokenInv
<1>16. \A q \in Procs \ {p} : TokenInv(q)'
  BY <1>1, <1>6, <1>9, <1>10, OthersTokens
<1> QED BY <1>11, <1>12, <1>14, <1>15, <1>16 DEF KeepInv

\* The interface opens: the marks, and the registration begins.
LEMMA OpenKept ==
    ASSUME KeepInv, NEW p \in Procs, Keep!OpenTui(p) \/ Keep!OpenMcp(p)
    PROVE  KeepInv'
<1>1. /\ proc[p].pc = "ready" /\ UNCHANGED <<exe, token, entries, skills>>
      /\ proc[p] \in ProcRecord /\ WorkInv(p) /\ files \in FilesRecord /\ past \in PastRecord
      /\ proc \in [Procs -> ProcRecord]
  BY DEF Keep!OpenTui, Keep!OpenMcp, KeepInv, KeepTypes
<1>2. /\ proc[p].ver \in 0..MaxExe /\ proc[p].ver \in Nat
      /\ proc[p].ui = "none" /\ proc[p].sync = "none" /\ ~proc[p].wired
      /\ proc[p].todo = {}
  BY <1>1, InstallAssumption DEF ProcRecord, WorkInv, Works
<1> DEFINE a == [proc[p] EXCEPT !.pc = "on", !.sync = "check"]
<1>3. a \in ProcRecord /\ a.pc = "on" /\ a.sync = "check" /\ a.ver = proc[p].ver /\ ~a.wired /\ a.todo = {}
  BY <1>1, <1>2 DEF ProcRecord
<1>4. CASE Keep!OpenTui(p)
  <2> DEFINE first == Keep!Fresh(p) \/ files.seen = 0
             notes == ~first /\ files.seen # proc[p].ver
             ui == IF Keep!Fresh(p) THEN "welcome" ELSE IF notes THEN "fetching" ELSE "splash"
             two == past.two \/ Keep!OpenUis # {} \/ proc[p].ver < files.seen
             tour == ~Keep!Fresh(p)
             seen == IF first THEN proc[p].ver ELSE files.seen
             passed == IF first THEN past.passed \cup {proc[p].ver} ELSE past.passed
             r == [a EXCEPT !.ui = ui]
  <2>1. /\ proc' = [proc EXCEPT ![p].pc = "on", ![p].sync = "check", ![p].ui = ui]
        /\ files' = [files EXCEPT !.onboarded = tour, !.seen = seen]
        /\ past' = [past EXCEPT !.two = two, !.passed = passed]
    BY <1>4 DEF Keep!OpenTui
  <2>2. /\ ui \in {"welcome", "fetching", "splash"} /\ two \in BOOLEAN /\ tour \in BOOLEAN
        /\ seen \in 0..MaxExe /\ passed \in SUBSET Nat
    BY <1>1, <1>2 DEF FilesRecord, PastRecord
  <2> HIDE DEF first, notes, two, tour, seen, passed, ui
  <2>3. proc' = [proc EXCEPT ![p] = r]
    BY <1>1, <2>1
  <2> HIDE DEF a
  <2>4. r \in ProcRecord /\ r.pc = "on" /\ r.sync = "check" /\ r.ver = proc[p].ver /\ ~r.wired /\ r.todo = {}
    BY <1>3, <2>2 DEF ProcRecord
  <2>5. files' \in FilesRecord /\ files'.marker = files.marker
    <3> DEFINE b == [files EXCEPT !.onboarded = tour]
    <3>1. b \in FilesRecord /\ b.marker = files.marker
      BY <1>1, <2>2 DEF FilesRecord
    <3>2. files' = [b EXCEPT !.seen = seen]
      BY <2>1
    <3> HIDE DEF b
    <3> QED BY <2>2, <3>1, <3>2 DEF FilesRecord
  <2>6. /\ past' \in PastRecord /\ past'.mixed = past.mixed
        /\ past'.crowded = past.crowded /\ past'.since = past.since
    <3> DEFINE b == [past EXCEPT !.two = two]
    <3>1. b \in PastRecord /\ b.mixed = past.mixed /\ b.crowded = past.crowded /\ b.since = past.since
      BY <1>1, <2>2 DEF PastRecord
    <3>2. past' = [b EXCEPT !.passed = passed]
      BY <2>1
    <3> HIDE DEF b
    <3> QED BY <2>2, <3>1, <3>2 DEF PastRecord
  <2> HIDE DEF r
  <2> QED BY <1>1, <2>3, <2>4, <2>5, <2>6, Quiet
<1>5. CASE Keep!OpenMcp(p)
  <2>1. proc' = [proc EXCEPT ![p] = a] /\ UNCHANGED <<files, past>>
    BY <1>1, <1>5 DEF Keep!OpenMcp
  <2> HIDE DEF a
  <2> QED BY <1>1, <1>3, <2>1, Quiet
<1> QED BY <1>4, <1>5

\* The tour and the notes.
LEMMA ShowsKept ==
    ASSUME KeepInv, NEW p \in Procs,
           \/ Keep!FinishTour(p) \/ Keep!OpenNotes(p) \/ Keep!CloseNotes(p)
           \/ \E answer \in {"error", "absent", "notes"} : Keep!NotesArrive(p, answer)
    PROVE  KeepInv'
<1>1. /\ UNCHANGED <<exe, token, entries, skills>> /\ proc[p].ui # "none"
      /\ proc[p] \in ProcRecord /\ WorkInv(p) /\ files \in FilesRecord /\ past \in PastRecord
      /\ proc \in [Procs -> ProcRecord]
  BY DEF Keep!FinishTour, Keep!OpenNotes, Keep!CloseNotes, Keep!NotesArrive, KeepInv, KeepTypes
<1>2. proc[p].pc = "on" /\ proc[p].ver \in 0..MaxExe /\ proc[p].ver \in Nat
  BY <1>1, InstallAssumption DEF ProcRecord, WorkInv
<1>3. \E ui \in {"splash", "ready", "notes"} : proc' = [proc EXCEPT ![p].ui = ui]
  BY DEF Keep!FinishTour, Keep!OpenNotes, Keep!CloseNotes, Keep!NotesArrive
<1>4. PICK ui \in {"splash", "ready", "notes"} : proc' = [proc EXCEPT ![p].ui = ui]
  BY <1>3
<1> DEFINE r == [proc[p] EXCEPT !.ui = ui]
<1>5. /\ r \in ProcRecord /\ r.pc = "on" /\ r.sync = proc[p].sync /\ r.ver = proc[p].ver /\ r.left = proc[p].left
      /\ r.todo = proc[p].todo
      /\ r.wired = proc[p].wired /\ r.failed = proc[p].failed
  BY <1>1, <1>2 DEF ProcRecord
<1>6. proc' = [proc EXCEPT ![p] = r]
  BY <1>1, <1>4
<1>7. files' \in FilesRecord /\ files'.marker = files.marker
  BY <1>1, <1>2 DEF Keep!FinishTour, Keep!OpenNotes, Keep!CloseNotes, Keep!NotesArrive, FilesRecord
<1>8. past' \in PastRecord /\ past'.mixed = past.mixed /\ past'.crowded = past.crowded /\ past'.since = past.since
  <2>1. \/ past' = past \/ past' = [past EXCEPT !.finished = TRUE]
        \/ past' = [past EXCEPT !.closed = @ \cup {proc[p].ver}]
        \/ past' = [past EXCEPT !.passed = @ \cup {proc[p].ver}]
    BY DEF Keep!FinishTour, Keep!OpenNotes, Keep!CloseNotes, Keep!NotesArrive
  <2>2. ASSUME past' = [past EXCEPT !.finished = TRUE]
        PROVE  past' \in PastRecord /\ past'.mixed = past.mixed /\ past'.crowded = past.crowded /\ past'.since = past.since
    BY <1>1, <2>2 DEF PastRecord
  <2>3. ASSUME past' = [past EXCEPT !.closed = @ \cup {proc[p].ver}]
        PROVE  past' \in PastRecord /\ past'.mixed = past.mixed /\ past'.crowded = past.crowded /\ past'.since = past.since
    BY <1>1, <1>2, <2>3 DEF PastRecord
  <2>4. ASSUME past' = [past EXCEPT !.passed = @ \cup {proc[p].ver}]
        PROVE  past' \in PastRecord /\ past'.mixed = past.mixed /\ past'.crowded = past.crowded /\ past'.since = past.since
    BY <1>1, <1>2, <2>4 DEF PastRecord
  <2> QED BY <1>1, <2>1, <2>2, <2>3, <2>4
<1> HIDE DEF r
<1>9. r.sync \in {"none", "check"} => ~r.wired
  BY <1>1, <1>5 DEF WorkInv
<1>10. r.sync = "done" => r.left = {}
  BY <1>1, <1>5 DEF WorkInv
<1>11. r.todo # {} => r.sync = "wire"
  BY <1>1, <1>5 DEF WorkInv, Works
<1> QED BY <1>1, <1>2, <1>5, <1>6, <1>7, <1>8, <1>9, <1>10, <1>11, Quiet

\* A process is used, or it or another one stores or purges a token.
LEMMA UseKept ==
    ASSUME KeepInv, NEW p \in Procs, NEW prior \in BOOLEAN, Keep!Use(p, prior)
    PROVE  KeepInv'
<1> DEFINE r == proc[p]
<1>1. /\ UNCHANGED <<exe, token, entries, skills, proc, past>> /\ r.pc = "on"
      /\ r \in ProcRecord /\ WorkInv(p) /\ files \in FilesRecord /\ past \in PastRecord
      /\ proc \in [Procs -> ProcRecord] /\ files' = [files EXCEPT !.prior = prior]
  BY DEF Keep!Use, KeepInv, KeepTypes
<1>2. files' \in FilesRecord /\ files'.marker = files.marker
  BY <1>1 DEF FilesRecord
<1>3. (r.sync \in {"none", "check"} => ~r.wired) /\ (r.sync = "done" => r.left = {}) /\ (r.todo # {} => r.sync = "wire")
  BY <1>1 DEF WorkInv, Works
<1>4. proc' = [proc EXCEPT ![p] = r]
  BY <1>1
<1> HIDE DEF r
<1>5. r = proc[p]
  BY DEF r
<1> QED BY <1>1, <1>2, <1>3, <1>4, <1>5, Quiet

LEMMA StoreKept ==
    ASSUME KeepInv, NEW p \in Procs, NEW here \in BOOLEAN, NEW cleared \in BOOLEAN, Keep!Store(p, here, cleared)
    PROVE  KeepInv'
<1> DEFINE since == past.since \cup (Keep!Launched \ {p})
<1>1. /\ UNCHANGED <<exe, files, entries, skills, proc>> /\ past' = [past EXCEPT !.since = since]
      /\ token' \subseteq {"keyring", "file"} /\ past \in PastRecord /\ since \in SUBSET Procs
      /\ proc[p].pc = "on" \/ (proc[p].pc = "ready" /\ proc[p].signed)
  BY DEF Keep!Store, Keep!Launched, KeepInv, KeepTypes, PastRecord
<1>2. \A q \in Procs \ {p} : q \notin since => proc[q].pc \notin {"ready", "logout", "data", "binary", "uninstalled"}
  BY DEF Keep!Launched
<1> HIDE DEF since
<1>3. past' \in PastRecord /\ past'.mixed = past.mixed /\ past'.crowded = past.crowded /\ past'.since = since
  BY <1>1 DEF PastRecord
<1>4. KeepTypes'
  BY <1>1, <1>3 DEF KeepInv, KeepTypes
<1>5. MarkInv'
  BY <1>1, <1>3 DEF KeepInv, MarkInv
<1>6. ASSUME NEW q \in Procs PROVE WorkInv(q)' /\ LeaveInv(q)'
  <2>1. WorkInv(q) /\ LeaveInv(q)
    BY DEF KeepInv
  <2>2. WorkInv(q)'
    BY <1>1, <1>3, <2>1 DEF WorkInv, Works
  <2>3. LeaveInv(q)'
    BY <1>1, <1>3, <2>1 DEF LeaveInv, Leaving
  <2> QED BY <2>2, <2>3
<1>7. ASSUME NEW q \in Procs PROVE TokenInv(q)'
  BY <1>1, <1>2, <1>3 DEF TokenInv
<1> QED BY <1>4, <1>5, <1>6, <1>7 DEF KeepInv

LEMMA SignOutKept ==
    ASSUME KeepInv, NEW rest \in SUBSET token, Keep!SignOut(rest)
    PROVE  KeepInv'
<1>1. UNCHANGED <<exe, files, entries, skills, proc, past>> /\ token' \subseteq token
  BY DEF Keep!SignOut
<1>2. KeepTypes' /\ MarkInv'
  BY <1>1 DEF KeepInv, KeepTypes, MarkInv
<1>3. ASSUME NEW q \in Procs PROVE WorkInv(q)' /\ LeaveInv(q)' /\ TokenInv(q)'
  <2>1. WorkInv(q) /\ LeaveInv(q) /\ TokenInv(q)
    BY DEF KeepInv
  <2> QED BY <1>1, <2>1 DEF WorkInv, Works, LeaveInv, Leaving, TokenInv
<1> QED BY <1>2, <1>3 DEF KeepInv

LEMMA UpgradeKept ==
    ASSUME KeepInv, Keep!Upgrade
    PROVE  KeepInv'
<1>1. /\ UNCHANGED <<files, token, entries, skills, proc, past>> /\ exe \in 1..(MaxExe - 1) /\ exe' = exe + 1
      /\ MaxExe \in Nat
  BY InstallAssumption DEF Keep!Upgrade
<1>2. exe' \in 0..MaxExe /\ exe' > exe /\ exe # 0 /\ exe \in Nat
  BY <1>1
<1>3. files.marker \in Nat /\ files.marker <= exe
  BY <1>1, <1>2 DEF KeepInv, KeepTypes, MarkInv, FilesRecord
<1>4. MarkInv'
  BY <1>1, <1>2, <1>3 DEF MarkInv
<1>5. ASSUME NEW p \in Procs PROVE WorkInv(p)' /\ LeaveInv(p)' /\ TokenInv(p)'
  <2>1. proc[p].ver \in Nat /\ WorkInv(p) /\ LeaveInv(p) /\ TokenInv(p)
    BY <1>1 DEF KeepInv, KeepTypes, ProcRecord
  <2>2. proc[p].pc # "off" => proc[p].ver <= exe'
    BY <1>2, <2>1 DEF WorkInv
  <2>3. WorkInv(p)'
    BY <1>1, <2>1, <2>2 DEF WorkInv, Works
  <2>4. LeaveInv(p)'
    BY <1>1, <2>1 DEF LeaveInv, Leaving
  <2>5. TokenInv(p)'
    BY <1>1, <2>1 DEF TokenInv
  <2> QED BY <2>3, <2>4, <2>5
<1>6. KeepTypes'
  BY <1>1, <1>2 DEF KeepInv, KeepTypes
<1> QED BY <1>4, <1>5, <1>6 DEF KeepInv

-----------------------------------------------------------------------------
(* The agents *)

\* A registration begins: from here on every one is of this version, or they are mixed.
LEMMA SyncCheckKept ==
    ASSUME KeepInv, NEW p \in Procs, Keep!SyncCheck(p)
    PROVE  KeepInv'
<1>1. /\ UNCHANGED <<exe, files, token, entries, skills>> /\ proc[p].sync = "check"
      /\ proc[p] \in ProcRecord /\ WorkInv(p) /\ past \in PastRecord /\ proc \in [Procs -> ProcRecord]
  BY DEF Keep!SyncCheck, KeepInv, KeepTypes
<1>2. proc[p].pc = "on" /\ ~proc[p].wired /\ proc[p].todo = {}
  BY <1>1 DEF WorkInv, Works
<1> DEFINE r == [proc[p] EXCEPT !.sync = IF files.marker = proc[p].ver THEN "done" ELSE "wire",
                                !.left = IF files.marker = proc[p].ver THEN {} ELSE Agents]
           mixed == \/ past.mixed \/ files.marker > proc[p].ver
                    \/ files.marker # proc[p].ver /\ \E q \in Keep!Syncing \ {p} : proc[q].ver # proc[p].ver
<1>3. /\ proc' = [proc EXCEPT ![p] = r]
      /\ r \in ProcRecord /\ r.pc = "on" /\ r.ver = proc[p].ver /\ ~r.wired /\ r.todo = {}
      /\ \/ r.sync = "done" /\ r.left = {}
         \/ r.sync = "wire" /\ r.left = Agents /\ files.marker # r.ver
  <2>1. proc' = [proc EXCEPT ![p] = r]
    BY <1>1 DEF Keep!SyncCheck
  <2>2. CASE files.marker = proc[p].ver
    <3>1. r = [proc[p] EXCEPT !.sync = "done", !.left = {}]
      BY <2>2
    <3> QED BY <1>1, <1>2, <2>1, <3>1 DEF ProcRecord
  <2>3. CASE files.marker # proc[p].ver
    <3>1. r = [proc[p] EXCEPT !.sync = "wire", !.left = Agents]
      BY <2>3
    <3> QED BY <1>1, <1>2, <2>1, <2>3, <3>1 DEF ProcRecord
  <2> QED BY <2>2, <2>3
<1>4. past' = [past EXCEPT !.mixed = mixed]
  BY DEF Keep!SyncCheck
<1>5. mixed \in BOOLEAN
  OBVIOUS
<1>6. ~mixed => /\ ~past.mixed /\ ~(files.marker > proc[p].ver)
                /\ files.marker # proc[p].ver => \A q \in Procs : Works(q) => proc[q].ver = proc[p].ver
  BY DEF Keep!Syncing, Works
<1> HIDE DEF r, mixed
<1>7. /\ past' \in PastRecord /\ past'.crowded = past.crowded /\ past'.mixed = mixed
      /\ past'.since = past.since
  BY <1>1, <1>4, <1>5 DEF PastRecord
<1>8. proc' \in [Procs -> ProcRecord] /\ proc'[p] = r /\ OthersStay(p)
  BY <1>3, ProcMoves DEF KeepInv
<1>9. KeepTypes'
  BY <1>1, <1>7, <1>8 DEF KeepInv, KeepTypes
<1>10. \A q \in Procs : LeaveInv(q)'
  BY <1>2, <1>3, <1>7, <1>8, NobodyLeaves
<1>11. MarkInv'
  BY <1>1, <1>6, <1>7 DEF KeepInv, MarkInv
<1>12. files.marker \in Nat /\ proc[p].ver \in Nat
  BY <1>1, InstallAssumption DEF KeepInv, KeepTypes, FilesRecord, ProcRecord
<1>13. ASSUME NEW q \in Procs PROVE WorkInv(q)'
  <2>1. WorkInv(q)
    BY DEF KeepInv
  <2>2. ASSUME NEW x \in Procs, Works(x)'
        PROVE  proc'[x].ver = proc[x].ver /\ (Works(x) \/ (x = p /\ files.marker # proc[p].ver))
    <3>1. CASE x = p
      BY <1>3, <1>8, <2>2, <3>1 DEF Works
    <3>2. CASE x # p
      BY <1>8, <2>2, <3>2 DEF Works, OthersStay
    <3> QED BY <3>1, <3>2
  <2>3. CASE q = p
    <3>1. ~mixed /\ Works(p)' => /\ files.marker <= r.ver
                                 /\ \A x \in Procs : Works(x)' => proc'[x].ver = r.ver
      BY <1>3, <1>6, <1>8, <1>12, <2>2 DEF Works
    <3>2. (proc[p].pc # "off" /\ exe # 0) => proc[p].ver <= exe
      BY <2>1, <2>3 DEF WorkInv
    <3>3. Works(p)' => r.left = Agents
      BY <1>3, <1>8 DEF Works
    <3> QED BY <1>1, <1>2, <1>3, <1>7, <1>8, <2>3, <3>1, <3>2, <3>3 DEF WorkInv, Works
  <2>4. CASE q # p
    <3>1. proc'[q] = proc[q]
      BY <1>8, <2>4 DEF OthersStay
    <3>2. ~mixed /\ Works(q) => \A x \in Procs : Works(x)' => proc'[x].ver = proc[q].ver
      BY <1>6, <2>1, <2>2 DEF WorkInv
    <3> QED BY <1>1, <1>6, <1>7, <2>1, <3>1, <3>2 DEF WorkInv, Works
  <2> QED BY <2>3, <2>4
<1>14. \A q \in Procs : TokenInv(q)'
  BY <1>1, <1>2, <1>3, <1>7, <1>8, TokensKept
<1> QED BY <1>9, <1>10, <1>11, <1>13, <1>14 DEF KeepInv

\* A step of a registration: what the others rely on may only grow, or they are mixed.
LEMMA OthersWork ==
    ASSUME KeepInv, NEW p \in Procs, OthersStay(p), UNCHANGED exe, entries \subseteq entries',
           past.mixed => past'.mixed,
           files'.marker \in {files.marker, 0} \/ (Works(p) /\ files'.marker = proc[p].ver),
           Works(p)' => Works(p) /\ proc'[p].ver = proc[p].ver,
           ~past'.mixed => \A q \in Procs \ {p}, b \in Bundles :
                              Works(q) => skills'[b] = skills[b] \/ skills'[b] = proc[q].ver
    PROVE  \A q \in Procs \ {p} : WorkInv(q)'
<1> SUFFICES ASSUME NEW q \in Procs \ {p} PROVE WorkInv(q)'
  OBVIOUS
<1>1. WorkInv(q) /\ proc'[q] = proc[q] /\ proc[q].ver \in Nat /\ proc[p].ver \in Nat
  BY InstallAssumption DEF KeepInv, KeepTypes, ProcRecord, OthersStay
<1>2. \A x \in Procs : Works(x)' => Works(x) /\ proc'[x].ver = proc[x].ver
  BY DEF Works, OthersStay
<1>3. ASSUME ~past'.mixed, Works(q)'
      PROVE  /\ files'.marker <= proc[q].ver
             /\ \A x \in Procs : Works(x)' => proc'[x].ver = proc[q].ver
             /\ (Agents \ proc[q].left) \subseteq entries' \/ proc[q].failed
             /\ proc[q].wired => proc[q].failed \/ \A b \in Bundles \ proc[q].todo : skills'[b] = proc[q].ver
  <2>1. Works(q) /\ ~past.mixed
    BY <1>1, <1>3 DEF Works
  <2>2. /\ files.marker <= proc[q].ver /\ \A x \in Procs : Works(x) => proc[x].ver = proc[q].ver
        /\ (Agents \ proc[q].left) \subseteq entries \/ proc[q].failed
        /\ proc[q].wired => proc[q].failed \/ \A b \in Bundles \ proc[q].todo : skills[b] = proc[q].ver
    BY <1>1, <2>1 DEF WorkInv
  <2>3. files'.marker <= proc[q].ver
    BY <1>1, <2>2
  <2>4. \A b \in Bundles : skills'[b] = skills[b] \/ skills'[b] = proc[q].ver
    BY <1>3, <2>1
  <2> QED BY <1>2, <2>2, <2>3, <2>4
<1> QED BY <1>1, <1>3 DEF WorkInv, Works

\* One agent more has been dealt with.
LEMMA WireKept ==
    ASSUME KeepInv, NEW p \in Procs, NEW a \in Agents, NEW fails \in BOOLEAN, Keep!Wire(p, a, fails)
    PROVE  KeepInv'
<1>1. /\ UNCHANGED <<exe, files, token, skills, past>> /\ Works(p) /\ proc[p].todo = {} /\ a \in proc[p].left
      /\ proc[p] \in ProcRecord /\ WorkInv(p) /\ proc \in [Procs -> ProcRecord] /\ entries \subseteq Agents
      /\ entries' = IF fails THEN entries ELSE entries \cup {a}
  BY DEF Keep!Wire, KeepInv, KeepTypes, Works
<1> DEFINE left == proc[p].left \ {a}
<1>2. proc[p].pc = "on" /\ proc[p].left \in SUBSET Agents /\ left \in SUBSET Agents
  BY <1>1 DEF WorkInv, ProcRecord, Works
<1>3. \E r \in ProcRecord :
        /\ proc' = [proc EXCEPT ![p] = r] /\ r.pc = "on" /\ r.ver = proc[p].ver /\ r.left = left /\ r.sync = "wire"
        /\ r.failed \/ (~fails /\ r.todo = Bundles /\ r.failed = proc[p].failed)
  <2>1. CASE ~fails
    <3> DEFINE b == [proc[p] EXCEPT !.wired = TRUE, !.todo = Bundles]
               r == [b EXCEPT !.left = left]
    <3>1. /\ b \in ProcRecord /\ b.pc = "on" /\ b.ver = proc[p].ver /\ b.sync = "wire" /\ b.todo = Bundles
          /\ b.failed = proc[p].failed
      BY <1>1, <1>2 DEF ProcRecord, Works
    <3>2. proc' = [proc EXCEPT ![p] = r]
      BY <1>1, <2>1 DEF Keep!Wire
    <3> HIDE DEF b, left
    <3>3. /\ r \in ProcRecord /\ r.pc = "on" /\ r.ver = proc[p].ver /\ r.sync = "wire" /\ r.todo = Bundles
          /\ r.failed = proc[p].failed /\ r.left = left
      BY <1>2, <3>1 DEF ProcRecord
    <3> HIDE DEF r
    <3> QED BY <2>1, <3>2, <3>3
  <2>2. CASE fails
    <3> DEFINE b == [proc[p] EXCEPT !.failed = TRUE]
               r == [b EXCEPT !.left = left]
    <3>1. b \in ProcRecord /\ b.pc = "on" /\ b.ver = proc[p].ver /\ b.sync = "wire" /\ b.failed
      BY <1>1, <1>2 DEF ProcRecord, Works
    <3>2. proc' = [proc EXCEPT ![p] = r]
      BY <1>1, <2>2 DEF Keep!Wire
    <3> HIDE DEF b, left
    <3>3. r \in ProcRecord /\ r.pc = "on" /\ r.ver = proc[p].ver /\ r.sync = "wire" /\ r.failed /\ r.left = left
      BY <1>2, <3>1 DEF ProcRecord
    <3> HIDE DEF r
    <3> QED BY <3>2, <3>3
  <2> QED BY <2>1, <2>2
<1>4. PICK r \in ProcRecord :
        /\ proc' = [proc EXCEPT ![p] = r] /\ r.pc = "on" /\ r.ver = proc[p].ver /\ r.left = left /\ r.sync = "wire"
        /\ r.failed \/ (~fails /\ r.todo = Bundles /\ r.failed = proc[p].failed)
  BY <1>3
<1>5. proc' \in [Procs -> ProcRecord] /\ proc'[p] = r /\ OthersStay(p)
  BY <1>4, ProcMoves DEF KeepInv
<1>6. entries \subseteq entries' /\ entries' \subseteq Agents /\ (a \in entries' \/ r.failed)
  BY <1>1, <1>4
<1>7. KeepTypes'
  BY <1>1, <1>5, <1>6 DEF KeepInv, KeepTypes
<1>8. \A q \in Procs : LeaveInv(q)'
  BY <1>1, <1>2, <1>4, <1>5, NobodyLeaves
<1>9. \A q \in Procs : TokenInv(q)'
  BY <1>1, <1>4, <1>5, TokensKept
<1>10. MarkInv'
  BY <1>1, <1>6 DEF KeepInv, MarkInv
<1>11. \A q \in Procs \ {p} : WorkInv(q)'
  BY <1>1, <1>4, <1>5, <1>6, OthersWork DEF Works
<1>12. WorkInv(p)'
  <2>1. \A x \in Procs : Works(x)' => Works(x) /\ proc'[x].ver = proc[x].ver
    BY <1>1, <1>4, <1>5 DEF Works, OthersStay
  <2>2. ~past.mixed => files.marker <= r.ver /\ \A x \in Procs : Works(x)' => proc'[x].ver = r.ver
    BY <1>1, <1>4, <2>1 DEF WorkInv
  <2>3. ~past.mixed => (Agents \ r.left) \subseteq entries' \/ r.failed
    BY <1>1, <1>4, <1>6 DEF WorkInv
  <2>4. exe # 0 => r.ver <= exe
    BY <1>1, <1>2, <1>4 DEF WorkInv
  <2> QED BY <1>1, <1>4, <1>5, <2>2, <2>3, <2>4 DEF WorkInv, Works
<1> QED BY <1>7, <1>8, <1>9, <1>10, <1>11, <1>12 DEF KeepInv

\* A bundle of this version is copied; where the marker has caught up it was this version's.
LEMMA CopyKept ==
    ASSUME KeepInv, NEW p \in Procs, NEW b \in Bundles, Keep!Copy(p, b)
    PROVE  KeepInv'
<1>1. /\ UNCHANGED <<exe, files, token, entries, past>> /\ b \in proc[p].todo
      /\ skills' = [skills EXCEPT ![b] = proc[p].ver]
      /\ proc[p] \in ProcRecord /\ WorkInv(p) /\ proc \in [Procs -> ProcRecord] /\ skills \in [Bundles -> 0..MaxExe]
  BY DEF Keep!Copy, KeepInv, KeepTypes
<1>2. Works(p) /\ proc[p].pc = "on" /\ proc[p].ver \in 0..MaxExe
  BY <1>1 DEF WorkInv, ProcRecord, Works
<1>3. skills' \in [Bundles -> 0..MaxExe] /\ skills'[b] = proc[p].ver /\ \A x \in Bundles \ {b} : skills'[x] = skills[x]
  BY <1>1, <1>2
<1> DEFINE toGo == proc[p].todo \ {b}
           r == [proc[p] EXCEPT !.todo = toGo]
<1>4. proc' = [proc EXCEPT ![p] = r]
  BY <1>1 DEF Keep!Copy
<1>5. toGo \in SUBSET Bundles
  BY <1>1 DEF ProcRecord
<1>6. \A x \in Bundles \ toGo : x = b \/ x \in Bundles \ proc[p].todo
  OBVIOUS
<1> HIDE DEF toGo
<1>7. /\ r \in ProcRecord /\ r.pc = "on" /\ r.ver = proc[p].ver /\ r.left = proc[p].left /\ r.todo = toGo
      /\ r.wired = proc[p].wired /\ r.failed = proc[p].failed /\ r.sync = "wire"
  BY <1>1, <1>2, <1>5 DEF ProcRecord, Works
<1> HIDE DEF r
<1>8. proc' \in [Procs -> ProcRecord] /\ proc'[p] = r /\ OthersStay(p)
  BY <1>4, <1>7, ProcMoves DEF KeepInv
<1>9. KeepTypes'
  BY <1>1, <1>3, <1>8 DEF KeepInv, KeepTypes
<1>10. \A q \in Procs : LeaveInv(q)'
  BY <1>1, <1>2, <1>7, <1>8, NobodyLeaves
<1>11. \A q \in Procs : TokenInv(q)'
  BY <1>1, <1>7, <1>8, TokensKept
<1>12. ~past.mixed => /\ files.marker <= proc[p].ver /\ \A x \in Procs : Works(x) => proc[x].ver = proc[p].ver
                      /\ (Agents \ proc[p].left) \subseteq entries \/ proc[p].failed
                      /\ proc[p].wired => proc[p].failed \/ \A x \in Bundles \ proc[p].todo : skills[x] = proc[p].ver
  BY <1>1, <1>2 DEF WorkInv
<1>13. exe # 0 => proc[p].ver <= exe
  BY <1>1, <1>2 DEF WorkInv
<1>14. MarkInv'
  <2>1. files.marker \in Nat /\ proc[p].ver \in Nat /\ exe \in Nat
    BY <1>2, InstallAssumption DEF KeepInv, KeepTypes, FilesRecord
  <2>2. files.marker = exe /\ exe # 0 /\ ~past.mixed => proc[p].ver = files.marker
    BY <1>12, <1>13, <2>1
  <2> QED BY <1>1, <1>3, <2>2 DEF KeepInv, MarkInv
<1>15. \A q \in Procs \ {p} : WorkInv(q)'
  <2>1. ~past.mixed => \A q \in Procs \ {p}, x \in Bundles :
                          Works(q) => skills'[x] = skills[x] \/ skills'[x] = proc[q].ver
    BY <1>3, <1>12
  <2> QED BY <1>1, <1>2, <1>7, <1>8, <2>1, OthersWork
<1>16. WorkInv(p)'
  <2>1. \A x \in Procs : Works(x)' => Works(x) /\ proc'[x].ver = proc[x].ver
    BY <1>2, <1>7, <1>8 DEF Works, OthersStay
  <2>2. ~past.mixed => files.marker <= r.ver /\ \A x \in Procs : Works(x)' => proc'[x].ver = r.ver
    BY <1>7, <1>12, <2>1
  <2>3. ~past.mixed /\ r.wired => r.failed \/ \A x \in Bundles \ r.todo : skills'[x] = r.ver
    BY <1>3, <1>6, <1>7, <1>12
  <2> QED BY <1>1, <1>7, <1>8, <1>12, <1>13, <2>2, <2>3 DEF WorkInv, Works
<1> QED BY <1>9, <1>10, <1>11, <1>14, <1>15, <1>16 DEF KeepInv

\* A bundle is torn: no marker and no other registration relied on it, or they are mixed.
LEMMA Broken ==
    ASSUME KeepInv, NEW p \in Procs, NEW torn \in Keep!Tears, torn # {} => proc[p].todo # {}, Keep!BreakOff(p, torn),
           UNCHANGED <<exe, files, entries>>, OthersStay(p), Works(p)' => Works(p) /\ proc'[p].ver = proc[p].ver
    PROVE  /\ skills' \in [Bundles -> 0..MaxExe] /\ past' \in PastRecord /\ (past.mixed => past'.mixed)
           /\ past'.crowded = past.crowded /\ past'.since = past.since
           /\ MarkInv' /\ \A q \in Procs \ {p} : WorkInv(q)'
<1> DEFINE mixed == \/ past.mixed
                    \/ torn # {} /\ \/ files.marker = proc[p].ver
                                    \/ \E q \in Procs \ {p} : proc[q].sync = "wire"
<1>1. /\ past \in PastRecord /\ skills \in [Bundles -> 0..MaxExe] /\ past' = [past EXCEPT !.mixed = mixed]
      /\ mixed \in BOOLEAN /\ WorkInv(p)
      /\ proc[p].ver \in Nat /\ files.marker \in Nat /\ exe \in Nat /\ 0 \in 0..MaxExe
  BY InstallAssumption DEF Keep!BreakOff, KeepInv, KeepTypes, PastRecord, ProcRecord, FilesRecord
<1>2. ~mixed => ~past.mixed /\ (torn = {} \/ (files.marker # proc[p].ver /\ \A q \in Procs \ {p} : ~Works(q)))
  BY DEF Works
<1>3. past.mixed => mixed
  OBVIOUS
<1> HIDE DEF mixed
<1>4. /\ past' \in PastRecord /\ past'.mixed = mixed /\ past'.crowded = past.crowded /\ past'.since = past.since
  BY <1>1 DEF PastRecord
<1>5. skills' \in [Bundles -> 0..MaxExe] /\ (torn = {} => \A b \in Bundles : skills'[b] = skills[b])
  BY <1>1 DEF Keep!BreakOff
<1>6. MarkInv'
  <2>1. CASE torn = {}
    BY <1>3, <1>4, <1>5, <2>1 DEF KeepInv, MarkInv
  <2>2. CASE torn # {}
    <3>1. Works(p) /\ proc[p].pc = "on"
      BY <1>1, <2>2 DEF WorkInv, Works
    <3>2. ~mixed /\ exe # 0 => files.marker # exe
      BY <1>1, <1>2, <2>2, <3>1 DEF WorkInv
    <3> QED BY <1>4, <3>2 DEF KeepInv, MarkInv
  <2> QED BY <2>1, <2>2
<1>7. ~past'.mixed => \A q \in Procs \ {p}, b \in Bundles :
                         Works(q) => skills'[b] = skills[b] \/ skills'[b] = proc[q].ver
  BY <1>2, <1>4, <1>5
<1>8. \A q \in Procs \ {p} : WorkInv(q)'
  BY <1>3, <1>4, <1>7, OthersWork
<1> QED BY <1>3, <1>4, <1>5, <1>6, <1>8

LEMMA CopyFailsKept ==
    ASSUME KeepInv, NEW p \in Procs, NEW torn \in Keep!Tears, Keep!CopyFails(p, torn)
    PROVE  KeepInv'
<1>1. /\ UNCHANGED <<exe, files, token, entries>> /\ proc[p].todo # {} /\ Keep!BreakOff(p, torn)
      /\ proc[p] \in ProcRecord /\ WorkInv(p) /\ proc \in [Procs -> ProcRecord]
  BY DEF Keep!CopyFails, KeepInv, KeepTypes
<1>2. Works(p) /\ proc[p].pc = "on"
  BY <1>1 DEF WorkInv, Works
<1> DEFINE r == [proc[p] EXCEPT !.todo = {}, !.failed = TRUE]
<1>3. proc' = [proc EXCEPT ![p] = r]
  BY <1>1 DEF Keep!CopyFails
<1>4. /\ r \in ProcRecord /\ r.pc = "on" /\ r.ver = proc[p].ver /\ r.left = proc[p].left /\ r.todo = {}
      /\ r.failed /\ r.sync = "wire"
  BY <1>1, <1>2 DEF ProcRecord, Works
<1> HIDE DEF r
<1>5. proc' \in [Procs -> ProcRecord] /\ proc'[p] = r /\ OthersStay(p)
  BY <1>3, <1>4, ProcMoves DEF KeepInv
<1>6. /\ skills' \in [Bundles -> 0..MaxExe] /\ past' \in PastRecord /\ (past.mixed => past'.mixed)
      /\ past'.crowded = past.crowded /\ past'.since = past.since
      /\ MarkInv' /\ \A q \in Procs \ {p} : WorkInv(q)'
  BY <1>1, <1>2, <1>4, <1>5, Broken DEF Works
<1>7. KeepTypes'
  BY <1>1, <1>5, <1>6 DEF KeepInv, KeepTypes
<1>8. \A q \in Procs : LeaveInv(q)'
  BY <1>2, <1>4, <1>5, <1>6, NobodyLeaves
<1>9. \A q \in Procs : TokenInv(q)'
  BY <1>1, <1>4, <1>5, <1>6, TokensKept
<1>10. WorkInv(p)'
  <2>1. \A x \in Procs : Works(x)' => Works(x) /\ proc'[x].ver = proc[x].ver
    BY <1>2, <1>4, <1>5 DEF Works, OthersStay
  <2>2. ~past'.mixed => files.marker <= r.ver /\ \A x \in Procs : Works(x)' => proc'[x].ver = r.ver
    BY <1>1, <1>2, <1>4, <1>6, <2>1 DEF WorkInv
  <2>3. exe # 0 => r.ver <= exe
    BY <1>1, <1>2, <1>4 DEF WorkInv
  <2> QED BY <1>1, <1>4, <1>5, <2>2, <2>3 DEF WorkInv, Works
<1> QED BY <1>6, <1>7, <1>8, <1>9, <1>10 DEF KeepInv

LEMMA QuitKept ==
    ASSUME KeepInv, NEW p \in Procs, NEW torn \in Keep!Tears, Keep!Quit(p, torn)
    PROVE  KeepInv'
<1> DEFINE r == Keep!Gone
<1>1. /\ UNCHANGED <<exe, files, token, entries>> /\ proc[p].pc # "off" /\ (torn # {} => proc[p].todo # {})
      /\ Keep!BreakOff(p, torn) /\ proc' = [proc EXCEPT ![p] = r]
  BY DEF Keep!Quit
<1>2. r \in ProcRecord /\ r.pc = "off" /\ r.ui = "none" /\ r.sync = "none" /\ r.todo = {} /\ ~r.wired
  BY InstallAssumption DEF ProcRecord, Keep!Gone
<1> HIDE DEF r
<1>3. proc' \in [Procs -> ProcRecord] /\ proc'[p] = r /\ OthersStay(p)
  BY <1>1, <1>2, ProcMoves DEF KeepInv
<1>4. /\ skills' \in [Bundles -> 0..MaxExe] /\ past' \in PastRecord /\ (past.mixed => past'.mixed)
      /\ past'.crowded = past.crowded /\ past'.since = past.since
      /\ MarkInv' /\ \A q \in Procs \ {p} : WorkInv(q)'
  BY <1>1, <1>2, <1>3, Broken DEF Works
<1>5. KeepTypes'
  BY <1>1, <1>3, <1>4 DEF KeepInv, KeepTypes
<1>6. \A q \in Procs : LeaveInv(q)'
  BY <1>1, <1>2, <1>3, <1>4, NobodyLeaves
<1>7. \A q \in Procs : TokenInv(q)'
  BY <1>1, <1>2, <1>3, <1>4, TokensKept
<1>8. WorkInv(p)'
  BY <1>2, <1>3 DEF WorkInv, Works
<1> QED BY <1>4, <1>5, <1>6, <1>7, <1>8 DEF KeepInv

\* Every agent is wired and every bundle copied when the marker says so.
LEMMA MarkKept ==
    ASSUME KeepInv, NEW p \in Procs, NEW marker \in 0..MaxExe, Keep!Mark(p, marker)
    PROVE  KeepInv'
<1>1. /\ UNCHANGED <<exe, token, entries, skills, past>> /\ Works(p) /\ proc[p].left = {} /\ proc[p].todo = {}
      /\ proc[p] \in ProcRecord /\ WorkInv(p) /\ proc \in [Procs -> ProcRecord] /\ files \in FilesRecord
      /\ files' = [files EXCEPT !.marker = marker] /\ entries \subseteq Agents
  BY DEF Keep!Mark, KeepInv, KeepTypes, Works
<1> DEFINE r == [proc[p] EXCEPT !.sync = "done"]
<1>2. /\ r \in ProcRecord /\ r.pc = "on" /\ proc[p].pc = "on" /\ r.ver = proc[p].ver /\ r.left = {} /\ r.todo = {}
      /\ r.sync = "done"
  BY <1>1 DEF ProcRecord, WorkInv, Works
<1>3. proc' = [proc EXCEPT ![p] = r]
  BY <1>1 DEF Keep!Mark
<1> HIDE DEF r
<1>4. proc' \in [Procs -> ProcRecord] /\ proc'[p] = r /\ OthersStay(p)
  BY <1>2, <1>3, ProcMoves DEF KeepInv
<1>5. /\ files' \in FilesRecord
      /\ \/ files'.marker \in {files.marker, 0}
         \/ proc[p].wired /\ ~proc[p].failed /\ files'.marker = proc[p].ver
  BY <1>1 DEF Keep!Mark, FilesRecord
<1>6. KeepTypes'
  BY <1>1, <1>4, <1>5 DEF KeepInv, KeepTypes
<1>7. \A q \in Procs : LeaveInv(q)'
  BY <1>1, <1>2, <1>4, NobodyLeaves
<1>8. \A q \in Procs : TokenInv(q)'
  BY <1>1, <1>2, <1>4, TokensKept
<1>9. exe # 0 => proc[p].ver <= exe
  BY <1>1, <1>2 DEF WorkInv
<1>10. MarkInv'
  <2>1. CASE files'.marker = files.marker
    BY <1>1, <2>1 DEF KeepInv, MarkInv
  <2>2. CASE files'.marker = 0
    BY <1>1, <2>2 DEF KeepInv, KeepTypes, MarkInv
  <2>3. CASE proc[p].wired /\ ~proc[p].failed /\ files'.marker = proc[p].ver
    <3>1. ~past.mixed => entries = Agents /\ \A b \in Bundles : skills[b] = proc[p].ver
      BY <1>1, <2>3 DEF WorkInv
    <3> QED BY <1>1, <1>9, <2>3, <3>1 DEF MarkInv
  <2> QED BY <1>5, <2>1, <2>2, <2>3
<1>11. \A q \in Procs \ {p} : WorkInv(q)'
  BY <1>1, <1>2, <1>4, <1>5, OthersWork DEF Works
<1>12. WorkInv(p)'
  BY <1>1, <1>2, <1>4, <1>9 DEF WorkInv, Works
<1> QED BY <1>6, <1>7, <1>8, <1>10, <1>11, <1>12 DEF KeepInv

-----------------------------------------------------------------------------
(* Uninstall *)

\* Nobody's registration counts any more, and the binary's version is no older than it was.
LEMMA WorkMixed ==
    ASSUME KeepInv, NEW p \in Procs, past'.mixed, UNCHANGED <<exe, files>>,
           OthersStay(p),
           proc'[p].ver = proc[p].ver, proc'[p].ui = proc[p].ui, proc'[p].sync = proc[p].sync,
           proc'[p].wired = proc[p].wired, proc'[p].left = proc[p].left,
           proc'[p].todo = proc[p].todo, proc[p].pc # "off",
           proc[p].pc = "on" => proc'[p].pc = "on"
    PROVE  MarkInv' /\ \A q \in Procs : WorkInv(q)'
<1>1. MarkInv'
  BY DEF KeepInv, MarkInv
<1>2. ASSUME NEW q \in Procs PROVE WorkInv(q)'
  <2>1. WorkInv(q)
    BY DEF KeepInv
  <2>2. CASE q = p
    BY <2>1, <2>2 DEF WorkInv, Works
  <2>3. CASE q # p
    <3>1. proc'[q] = proc[q]
      BY <2>3 DEF OthersStay
    <3> QED BY <2>1, <3>1 DEF WorkInv, Works
  <2> QED BY <2>2, <2>3
<1> QED BY <1>1, <1>2

\* A step of a process that registers nothing: the binary may go, and the marker with the files.
LEMMA StepKept ==
    ASSUME KeepInv, NEW p \in Procs, UNCHANGED <<entries, skills>>, exe' \in {0, exe},
           files'.marker \in {files.marker, 0}, past'.mixed = past.mixed,
           OthersStay(p),
           proc[p].pc \notin {"off", "on"}, proc'[p].ver = proc[p].ver, proc'[p].ui = proc[p].ui,
           proc'[p].sync = proc[p].sync, proc'[p].wired = proc[p].wired, proc'[p].left = proc[p].left,
           proc'[p].todo = proc[p].todo
    PROVE  MarkInv' /\ \A q \in Procs : WorkInv(q)'
<1>1. exe \in Nat /\ files.marker \in Nat /\ \A q \in Procs : proc[q].ver \in Nat
  BY InstallAssumption DEF KeepInv, KeepTypes, FilesRecord, ProcRecord
<1>2. WorkInv(p) /\ proc[p].ui = "none" /\ proc[p].sync = "none" /\ proc[p].todo = {}
  BY DEF KeepInv, WorkInv, KeepTypes, Works
<1>3. MarkInv'
  <2>1. exe' # 0 /\ files'.marker = exe' => files'.marker = files.marker /\ exe' = exe
    BY <1>1
  <2>2. exe' # 0 => files'.marker <= exe'
    BY <1>1 DEF KeepInv, MarkInv
  <2> QED BY <2>1, <2>2 DEF KeepInv, MarkInv
<1>4. \A q \in Procs : Works(q)' => q # p /\ Works(q) /\ proc'[q] = proc[q]
  BY <1>2 DEF Works, OthersStay
<1>5. ASSUME NEW q \in Procs PROVE WorkInv(q)'
  <2>1. WorkInv(q)
    BY DEF KeepInv
  <2>2. CASE q = p
    <3>1. proc[p].ver \in Nat /\ (exe' # 0 => proc[p].ver <= exe')
      BY <1>1, <1>2 DEF WorkInv
    <3> QED BY <1>2, <1>4, <2>2, <3>1 DEF WorkInv
  <2>3. CASE q # p
    <3>1. proc'[q] = proc[q]
      BY <2>3 DEF OthersStay
    <3>2. files.marker <= proc[q].ver => files'.marker <= proc[q].ver
      BY <1>1
    <3>3. proc[q].pc # "off" /\ exe' # 0 => proc[q].ver <= exe'
      BY <2>1 DEF WorkInv
    <3> QED BY <1>4, <2>1, <3>1, <3>2, <3>3 DEF WorkInv, Works
  <2> QED BY <2>2, <2>3
<1> QED BY <1>3, <1>5

\* An entry is left only under an error, and a bundle stays whole.
LEMMA Removed ==
    ASSUME KeepTypes, NEW errs \in SUBSET Agents, NEW stay \in SUBSET Bundles, Keep!RemoveAgents(errs, stay)
    PROVE  /\ skills' \in [Bundles -> 0..MaxExe] /\ entries' \subseteq entries /\ entries' \subseteq errs
           /\ \A b \in Bundles : skills'[b] # 0 => skills[b] # 0 /\ b \in stay
<1>1. entries' = entries \cap errs /\ skills' = [b \in Bundles |-> IF b \in stay THEN skills[b] ELSE 0]
  BY DEF Keep!RemoveAgents
<1>2. skills \in [Bundles -> 0..MaxExe] /\ 0 \in 0..MaxExe
  BY InstallAssumption DEF KeepTypes
<1>3. ASSUME NEW b \in Bundles PROVE skills'[b] \in 0..MaxExe /\ (skills'[b] # 0 => skills[b] # 0 /\ b \in stay)
  BY <1>1, <1>2
<1> QED BY <1>1, <1>3

\* "agents remove": what those who uninstall have removed stays removed.
LEMMA AgentsRemoveKept ==
    ASSUME KeepInv, NEW errs \in SUBSET Agents, NEW stay \in SUBSET Bundles, Keep!AgentsRemove(errs, stay)
    PROVE  KeepInv'
<1>1. UNCHANGED <<exe, files, token, proc>> /\ past' = [past EXCEPT !.mixed = TRUE] /\ past \in PastRecord
  BY DEF Keep!AgentsRemove, KeepInv, KeepTypes
<1>2. past' \in PastRecord /\ past'.mixed /\ past'.crowded = past.crowded /\ past'.since = past.since
  BY <1>1 DEF PastRecord
<1>3. /\ skills' \in [Bundles -> 0..MaxExe] /\ entries' \subseteq entries
      /\ \A b \in Bundles : skills'[b] # 0 => skills[b] # 0
  BY Removed DEF Keep!AgentsRemove, KeepInv
<1>4. KeepTypes'
  BY <1>1, <1>2, <1>3 DEF KeepInv, KeepTypes
<1>5. MarkInv'
  BY <1>1, <1>2 DEF KeepInv, MarkInv
<1>6. ASSUME NEW q \in Procs PROVE WorkInv(q)' /\ LeaveInv(q)' /\ TokenInv(q)'
  <2>1. WorkInv(q) /\ LeaveInv(q) /\ TokenInv(q)
    BY DEF KeepInv
  <2>2. WorkInv(q)'
    BY <1>1, <1>2, <2>1 DEF WorkInv, Works
  <2>3. LeaveInv(q)'
    BY <1>1, <1>2, <1>3, <2>1 DEF LeaveInv, Leaving
  <2>4. TokenInv(q)'
    BY <1>1, <1>2, <2>1 DEF TokenInv
  <2> QED BY <2>2, <2>3, <2>4
<1> QED BY <1>4, <1>5, <1>6 DEF KeepInv

\* The uninstall begins: whether there is a token was known before the yes.
LEMMA UninstallKept ==
    ASSUME KeepInv, NEW p \in Procs, NEW errs \in SUBSET Agents, NEW stay \in SUBSET Bundles,
           Keep!Uninstall(p, errs, stay)
    PROVE  KeepInv'
<1>1. /\ UNCHANGED <<exe, files, token>> /\ proc[p].pc = "ready" /\ proc[p] \in ProcRecord /\ past \in PastRecord
      /\ entries \subseteq Agents /\ WorkInv(p) /\ TokenInv(p) /\ proc \in [Procs -> ProcRecord]
  BY DEF Keep!Uninstall, KeepInv, KeepTypes
<1> DEFINE crowded == past.crowded \/ \E q \in Procs \ {p} : proc[q].pc # "off"
           printed == IF stay = {} THEN errs ELSE Agents
           b == [past EXCEPT !.mixed = TRUE]
           a == [proc[p] EXCEPT !.pc = "logout"]
           r == [a EXCEPT !.printed = printed]
<1>2. past' = [b EXCEPT !.crowded = crowded] /\ proc' = [proc EXCEPT ![p] = r]
  BY <1>1 DEF Keep!Uninstall
<1>3. crowded \in BOOLEAN /\ printed \in SUBSET Agents
  BY <1>1 DEF PastRecord
<1>4. ~crowded => ~past.crowded /\ \A q \in Procs \ {p} : proc[q].pc = "off"
  OBVIOUS
<1>5. b \in PastRecord /\ b.mixed /\ b.since = past.since
  BY <1>1 DEF PastRecord
<1>6. /\ a \in ProcRecord /\ a.pc = "logout" /\ a.ver = proc[p].ver /\ a.ui = proc[p].ui
      /\ a.sync = proc[p].sync /\ a.left = proc[p].left /\ a.wired = proc[p].wired /\ a.todo = proc[p].todo
      /\ a.signed = proc[p].signed /\ a.missed = proc[p].missed
  BY <1>1 DEF ProcRecord
<1>7. /\ skills' \in [Bundles -> 0..MaxExe] /\ entries' \subseteq Agents
      /\ entries' \subseteq printed /\ ((\E x \in Bundles : skills'[x] # 0) => printed = Agents)
  <2>1. /\ skills' \in [Bundles -> 0..MaxExe] /\ entries' \subseteq entries /\ entries' \subseteq errs
        /\ \A x \in Bundles : skills'[x] # 0 => x \in stay
    BY Removed DEF Keep!Uninstall, KeepInv
  <2>2. CASE stay = {}
    BY <1>1, <2>1, <2>2
  <2>3. CASE stay # {}
    BY <1>1, <2>1, <2>3
  <2> QED BY <2>2, <2>3
<1> HIDE DEF crowded, printed, a, b
<1>8. past' \in PastRecord /\ past'.mixed /\ past'.crowded = crowded /\ past'.since = past.since
  BY <1>2, <1>3, <1>5 DEF PastRecord
<1>9. /\ r \in ProcRecord /\ r.pc = "logout" /\ r.ver = proc[p].ver /\ r.ui = proc[p].ui
      /\ r.sync = proc[p].sync /\ r.left = proc[p].left /\ r.wired = proc[p].wired /\ r.todo = proc[p].todo
      /\ r.signed = proc[p].signed /\ r.missed = proc[p].missed /\ r.printed = printed
  BY <1>3, <1>6 DEF ProcRecord
<1> HIDE DEF r
<1>10. proc' \in [Procs -> ProcRecord] /\ proc'[p] = r /\ OthersStay(p)
  BY <1>2, <1>9, ProcMoves DEF KeepInv
<1>11. KeepTypes'
  BY <1>1, <1>7, <1>8, <1>10 DEF KeepInv, KeepTypes
<1>12. MarkInv' /\ \A q \in Procs : WorkInv(q)'
  BY <1>1, <1>8, <1>9, <1>10, WorkMixed
<1>13. LeaveInv(p)'
  BY <1>4, <1>7, <1>8, <1>9, <1>10 DEF LeaveInv, OthersStay
<1>14. ASSUME NEW q \in Procs \ {p} PROVE LeaveInv(q)'
  <2>1. proc'[q] = proc[q] /\ (proc[q].pc = "uninstalled" => ~proc[q].failed)
    BY <1>10 DEF OthersStay, KeepInv, LeaveInv
  <2>2. ~crowded => proc[q].pc = "off"
    BY <1>4
  <2> QED BY <1>8, <2>1, <2>2 DEF LeaveInv, Leaving
<1>15. TokenInv(p)'
  BY <1>1, <1>8, <1>9, <1>10 DEF TokenInv
<1>16. \A q \in Procs \ {p} : TokenInv(q)'
  BY <1>1, <1>8, <1>10, OthersTokens
<1> QED BY <1>11, <1>12, <1>13, <1>14, <1>15, <1>16 DEF KeepInv

\* The token is purged, or it escapes: silently from the keyring, with an error from the file.
LEMMA LogoutKept ==
    ASSUME KeepInv, NEW p \in Procs, NEW rest \in SUBSET token, Keep!UninstallLogout(p, rest)
    PROVE  KeepInv'
<1>1. /\ UNCHANGED <<exe, files, entries, skills, past>> /\ proc[p].pc = "logout" /\ proc[p] \in ProcRecord
      /\ token' = rest /\ (proc[p].signed \/ rest = token) /\ token \subseteq {"keyring", "file"}
      /\ WorkInv(p) /\ LeaveInv(p) /\ TokenInv(p) /\ proc \in [Procs -> ProcRecord]
  BY DEF Keep!UninstallLogout, KeepInv, KeepTypes
<1> DEFINE failed == proc[p].signed /\ "file" \in rest
           missed == proc[p].missed \/ (proc[p].signed /\ "keyring" \in rest)
           a == [proc[p] EXCEPT !.pc = "data"]
           b == [a EXCEPT !.failed = failed]
           r == [b EXCEPT !.missed = missed]
<1>2. proc' = [proc EXCEPT ![p] = r]
  BY <1>1 DEF Keep!UninstallLogout
<1>3. failed \in BOOLEAN /\ missed \in BOOLEAN
  BY <1>1 DEF ProcRecord
<1>4. p \notin past.since /\ ~missed => "keyring" \notin token'
  BY <1>1 DEF TokenInv
<1>5. /\ a \in ProcRecord /\ a.pc = "data" /\ a.ver = proc[p].ver /\ a.ui = proc[p].ui
      /\ a.sync = proc[p].sync /\ a.left = proc[p].left /\ a.wired = proc[p].wired /\ a.todo = proc[p].todo
      /\ a.printed = proc[p].printed
  BY <1>1 DEF ProcRecord
<1> HIDE DEF failed, missed, a
<1>6. /\ b \in ProcRecord /\ b.pc = "data" /\ b.ver = proc[p].ver /\ b.ui = proc[p].ui
      /\ b.sync = proc[p].sync /\ b.left = proc[p].left /\ b.wired = proc[p].wired /\ b.todo = proc[p].todo
      /\ b.printed = proc[p].printed
  BY <1>3, <1>5 DEF ProcRecord
<1> HIDE DEF b
<1>7. /\ r \in ProcRecord /\ r.pc = "data" /\ r.ver = proc[p].ver /\ r.ui = proc[p].ui
      /\ r.sync = proc[p].sync /\ r.left = proc[p].left /\ r.wired = proc[p].wired /\ r.todo = proc[p].todo
      /\ r.printed = proc[p].printed /\ r.missed = missed
  BY <1>3, <1>6 DEF ProcRecord
<1> HIDE DEF r
<1>8. proc' \in [Procs -> ProcRecord] /\ proc'[p] = r /\ OthersStay(p)
  BY <1>2, <1>7, ProcMoves DEF KeepInv
<1>9. KeepTypes'
  BY <1>1, <1>8 DEF KeepInv, KeepTypes
<1>10. MarkInv' /\ \A q \in Procs : WorkInv(q)'
  BY <1>1, <1>7, <1>8, StepKept
<1>11. \A q \in Procs \ {p} : LeaveInv(q)'
  BY <1>1, <1>8, OthersLeave
<1>12. LeaveInv(p)'
  BY <1>1, <1>7, <1>8 DEF LeaveInv, Leaving, OthersStay
<1>13. TokenInv(p)'
  BY <1>1, <1>4, <1>7, <1>8 DEF TokenInv
<1>14. \A q \in Procs \ {p} : TokenInv(q)'
  BY <1>1, <1>8, OthersTokens
<1> QED BY <1>9, <1>10, <1>11, <1>12, <1>13, <1>14 DEF KeepInv

\* What is left of the directory; without an error it is nothing.
LEMMA WithoutIt ==
    ASSUME KeepTypes, NEW stay \in Keep!Kept, Keep!Without(stay)
    PROVE  /\ files' \in FilesRecord /\ files'.marker \in {files.marker, 0} /\ (stay = {} => files' = Keep!NoFiles)
           /\ token' \subseteq token /\ (stay = {} => "file" \notin token')
           /\ past' \in PastRecord /\ past'.mixed = past.mixed /\ past'.crowded = past.crowded
           /\ past'.since = past.since
<1> DEFINE onboarded == files.onboarded /\ "onboarded" \in stay
           prior == files.prior /\ "prior" \in stay
           seen == IF "seen" \in stay THEN files.seen ELSE 0
           id == IF "id" \in stay THEN files.id ELSE "none"
           marker == IF "marker" \in stay THEN files.marker ELSE 0
           finished == past.finished /\ "onboarded" \in stay
           closed == IF "seen" \in stay THEN past.closed ELSE {}
           passed == IF "seen" \in stay THEN past.passed ELSE {}
<1>1. /\ files' = [onboarded |-> onboarded, prior |-> prior, seen |-> seen, id |-> id, marker |-> marker]
      /\ token' = IF "token" \in stay THEN token ELSE token \ {"file"}
      /\ past' = [past EXCEPT !.finished = finished, !.closed = closed, !.passed = passed]
  BY DEF Keep!Without
<1>2. files \in FilesRecord /\ past \in PastRecord /\ 0 \in 0..MaxExe
  BY InstallAssumption DEF KeepTypes
<1>3. /\ onboarded \in BOOLEAN /\ prior \in BOOLEAN /\ seen \in 0..MaxExe /\ id \in Procs \cup {"none"}
      /\ marker \in 0..MaxExe /\ marker \in {files.marker, 0}
  BY <1>2 DEF FilesRecord
<1>4. finished \in BOOLEAN /\ closed \in SUBSET Nat /\ passed \in SUBSET Nat
  BY <1>2 DEF PastRecord
<1>5. stay = {} => onboarded = FALSE /\ prior = FALSE /\ seen = 0 /\ id = "none" /\ marker = 0
  OBVIOUS
<1> HIDE DEF onboarded, prior, seen, id, marker, finished, closed, passed
<1>6. files' \in FilesRecord /\ files'.marker \in {files.marker, 0}
  BY <1>1, <1>3 DEF FilesRecord
<1>7. stay = {} => files' = Keep!NoFiles
  BY <1>1, <1>5 DEF Keep!NoFiles
<1>8. /\ past' \in PastRecord /\ past'.mixed = past.mixed /\ past'.crowded = past.crowded /\ past'.since = past.since
  BY <1>1, <1>2, <1>4 DEF PastRecord
<1> QED BY <1>1, <1>6, <1>7, <1>8

\* The files are gone, or that is reported.
LEMMA DataKept ==
    ASSUME KeepInv, NEW p \in Procs, NEW fails \in BOOLEAN, NEW stay \in Keep!Kept, Keep!UninstallData(p, fails, stay)
    PROVE  KeepInv'
<1>1. /\ UNCHANGED <<exe, entries, skills>> /\ proc[p].pc = "data" /\ proc[p] \in ProcRecord
      /\ Keep!Without(stay) /\ (fails \/ stay = {}) /\ WorkInv(p) /\ LeaveInv(p) /\ TokenInv(p)
      /\ proc \in [Procs -> ProcRecord] /\ token \subseteq {"keyring", "file"}
  BY DEF Keep!UninstallData, KeepInv, KeepTypes
<1> DEFINE failed == proc[p].failed \/ fails
           a == [proc[p] EXCEPT !.pc = "binary"]
           r == [a EXCEPT !.failed = failed]
<1>2. proc' = [proc EXCEPT ![p] = r]
  BY <1>1 DEF Keep!UninstallData
<1>3. failed \in BOOLEAN /\ (~failed => stay = {})
  BY <1>1 DEF ProcRecord
<1>4. /\ a \in ProcRecord /\ a.pc = "binary" /\ a.ver = proc[p].ver /\ a.ui = proc[p].ui
      /\ a.sync = proc[p].sync /\ a.left = proc[p].left /\ a.wired = proc[p].wired /\ a.todo = proc[p].todo
      /\ a.printed = proc[p].printed /\ a.missed = proc[p].missed
  BY <1>1 DEF ProcRecord
<1> HIDE DEF failed, a
<1>5. /\ r \in ProcRecord /\ r.pc = "binary" /\ r.ver = proc[p].ver /\ r.ui = proc[p].ui
      /\ r.sync = proc[p].sync /\ r.left = proc[p].left /\ r.wired = proc[p].wired /\ r.todo = proc[p].todo
      /\ r.printed = proc[p].printed /\ r.missed = proc[p].missed /\ r.failed = failed
  BY <1>3, <1>4 DEF ProcRecord
<1> HIDE DEF r
<1>6. /\ files' \in FilesRecord /\ files'.marker \in {files.marker, 0} /\ (stay = {} => files' = Keep!NoFiles)
      /\ token' \subseteq token /\ (stay = {} => "file" \notin token')
      /\ past' \in PastRecord /\ past'.mixed = past.mixed /\ past'.crowded = past.crowded
      /\ past'.since = past.since
  BY <1>1, WithoutIt DEF KeepInv
<1>7. proc' \in [Procs -> ProcRecord] /\ proc'[p] = r /\ OthersStay(p)
  BY <1>2, <1>5, ProcMoves DEF KeepInv
<1>8. KeepTypes'
  BY <1>1, <1>6, <1>7 DEF KeepInv, KeepTypes
<1>9. MarkInv' /\ \A q \in Procs : WorkInv(q)'
  BY <1>1, <1>5, <1>6, <1>7, StepKept
<1>10. \A q \in Procs \ {p} : LeaveInv(q)'
  BY <1>1, <1>6, <1>7, OthersLeave
<1>11. ~past.crowded => /\ \A q \in Procs \ {p} : proc[q].pc = "off"
                        /\ entries \subseteq proc[p].printed
                        /\ (\E b \in Bundles : skills[b] # 0) => proc[p].printed = Agents
  BY <1>1 DEF LeaveInv, Leaving
<1>12. LeaveInv(p)'
  BY <1>1, <1>3, <1>5, <1>6, <1>7, <1>11 DEF LeaveInv, Leaving, OthersStay
<1>13. TokenInv(p)'
  BY <1>1, <1>3, <1>5, <1>6, <1>7 DEF TokenInv
<1>14. \A q \in Procs \ {p} : TokenInv(q)'
  BY <1>6, <1>7, OthersTokens
<1> QED BY <1>8, <1>9, <1>10, <1>12, <1>13, <1>14 DEF KeepInv

\* The binary is gone, kept, or cannot be removed; success is claimed only without an error.
LEMMA BinaryKept ==
    ASSUME KeepInv, NEW p \in Procs, NEW how \in {"removed", "kept", "fails"}, Keep!UninstallBinary(p, how)
    PROVE  KeepInv'
<1>1. /\ UNCHANGED <<files, token, entries, skills, past>> /\ proc[p].pc = "binary" /\ proc[p] \in ProcRecord
      /\ exe' \in {0, exe} /\ exe' \in 0..MaxExe /\ WorkInv(p) /\ LeaveInv(p) /\ TokenInv(p)
      /\ proc \in [Procs -> ProcRecord]
  BY InstallAssumption DEF Keep!UninstallBinary, KeepInv, KeepTypes
<1> DEFINE r == [proc[p] EXCEPT !.pc = IF proc[p].failed \/ how = "fails" THEN "incomplete" ELSE "uninstalled"]
<1>2. proc' = [proc EXCEPT ![p] = r]
  BY <1>1 DEF Keep!UninstallBinary
<1>3. /\ r \in ProcRecord /\ r.ver = proc[p].ver /\ r.ui = proc[p].ui
      /\ r.sync = proc[p].sync /\ r.left = proc[p].left /\ r.wired = proc[p].wired /\ r.todo = proc[p].todo
      /\ r.failed = proc[p].failed /\ r.missed = proc[p].missed /\ r.printed = proc[p].printed
      /\ r.pc = "incomplete" \/ (r.pc = "uninstalled" /\ ~proc[p].failed)
  BY <1>1 DEF ProcRecord
<1> HIDE DEF r
<1>4. proc' \in [Procs -> ProcRecord] /\ proc'[p] = r /\ OthersStay(p)
  BY <1>2, <1>3, ProcMoves DEF KeepInv
<1>5. KeepTypes'
  BY <1>1, <1>4 DEF KeepInv, KeepTypes
<1>6. MarkInv' /\ \A q \in Procs : WorkInv(q)'
  BY <1>1, <1>3, <1>4, StepKept
<1>7. \A q \in Procs \ {p} : LeaveInv(q)'
  BY <1>1, <1>4, OthersLeave
<1>8. LeaveInv(p)'
  BY <1>1, <1>3, <1>4 DEF LeaveInv, Leaving, OthersStay
<1>9. TokenInv(p)'
  BY <1>1, <1>3, <1>4 DEF TokenInv
<1>10. \A q \in Procs \ {p} : TokenInv(q)'
  BY <1>1, <1>4, OthersTokens
<1> QED BY <1>5, <1>6, <1>7, <1>8, <1>9, <1>10 DEF KeepInv

-----------------------------------------------------------------------------
(* All together *)

LEMMA KeepInit == Init => KeepInv
<1> SUFFICES ASSUME Init PROVE KeepInv
  OBVIOUS
<1>1. /\ exe \in 1..2 /\ token = {} /\ skills = [b \in Bundles |-> 0] /\ proc = [p \in Procs |-> Keep!Gone]
      /\ entries = {}
      /\ files = IF exe = 1 THEN Keep!NoFiles ELSE [Keep!NoFiles EXCEPT !.onboarded = TRUE, !.seen = 1]
      /\ past.mixed = FALSE /\ past \in PastRecord
  <2> DEFINE tour == exe = 2
             notes == IF exe = 1 THEN {} ELSE {1}
  <2>1. tour \in BOOLEAN /\ notes \in SUBSET Nat
    OBVIOUS
  <2>2. past = [finished |-> tour, closed |-> {}, passed |-> notes, two |-> FALSE, mixed |-> FALSE,
                crowded |-> FALSE, racing |-> FALSE, since |-> {}, starts |-> 0]
    BY DEF Init, Keep!Init
  <2> HIDE DEF tour, notes
  <2>3. past.mixed = FALSE /\ past \in PastRecord
    BY <2>1, <2>2 DEF PastRecord
  <2> QED BY <2>3 DEF Init, Keep!Init
<1>2. exe \in 0..MaxExe /\ 1 \in 0..MaxExe /\ 0 \in 0..MaxExe /\ exe # 0 /\ 0 <= exe
  BY <1>1, InstallAssumption
<1>3. Keep!Gone \in ProcRecord
  BY <1>2 DEF Keep!Gone, ProcRecord
<1>4. files \in FilesRecord /\ files.marker = 0
  <2>1. Keep!NoFiles \in FilesRecord /\ Keep!NoFiles.marker = 0
    BY <1>2 DEF Keep!NoFiles, FilesRecord
  <2> DEFINE a == [Keep!NoFiles EXCEPT !.onboarded = TRUE]
             f == [a EXCEPT !.seen = 1]
  <2>2. a \in FilesRecord /\ a.marker = 0
    BY <2>1 DEF FilesRecord
  <2> HIDE DEF a
  <2>3. f \in FilesRecord /\ f.marker = 0
    BY <1>2, <2>2 DEF FilesRecord
  <2>4. files = Keep!NoFiles \/ files = f
    BY <1>1 DEF a
  <2> QED BY <2>1, <2>3, <2>4
<1>5. KeepTypes
  BY <1>1, <1>2, <1>3, <1>4 DEF KeepTypes
<1>6. \A p \in Procs : /\ proc[p].pc = "off" /\ proc[p].ui = "none" /\ proc[p].sync = "none"
                      /\ proc[p].wired = FALSE /\ proc[p].todo = {}
  BY <1>1 DEF Keep!Gone
<1> QED BY <1>2, <1>4, <1>5, <1>6 DEF KeepInv, MarkInv, WorkInv, LeaveInv, TokenInv, Works, Leaving

LEMMA KeepNext == KeepInv /\ [Next]_everything => KeepInv'
<1>1. ASSUME KeepInv, UNCHANGED insVars PROVE KeepInv'
  <2>1. KeepTypes' /\ MarkInv'
    BY <1>1 DEF insVars, KeepInv, KeepTypes, MarkInv
  <2>2. ASSUME NEW p \in Procs PROVE WorkInv(p)' /\ LeaveInv(p)' /\ TokenInv(p)'
    <3>1. WorkInv(p) /\ LeaveInv(p) /\ TokenInv(p)
      BY <1>1 DEF KeepInv
    <3> QED BY <1>1, <3>1 DEF insVars, WorkInv, LeaveInv, TokenInv, Works, Leaving
  <2> QED BY <2>1, <2>2 DEF KeepInv
<1>2. ASSUME KeepInv, Keep!Next PROVE KeepInv'
  BY <1>2, ReadIdKept, WriteIdKept, BootstrapKept, OpenKept, ShowsKept, SyncCheckKept, WireKept, CopyKept,
     CopyFailsKept, MarkKept, AgentsRemoveKept, UninstallKept, LogoutKept, DataKept, BinaryKept, QuitKept, UseKept,
     StoreKept, SignOutKept, UpgradeKept DEF Keep!Next
<1> QED BY <1>1, <1>2 DEF Next, everything

\* The marker that spares later launches the registration is truthful, and so is an "uninstalled"
\* (agents.SyncIfChanged, cli.runUninstall), for any number of processes, agents, bundles and
\* failures: no token is left but one that was stored meanwhile or that a keyring out of reach had,
\* and, if nobody else was there, no file, and no entry or bundle but under an error that was printed.
THEOREM MarksAreTruthful == Spec => []MarksTruthful
<1>1. KeepInv => MarksTruthful
  <2> SUFFICES ASSUME KeepInv PROVE MarksTruthful
    OBVIOUS
  <2>1. Keep!MarkerTruthful
    BY DEF KeepInv, MarkInv, Keep!MarkerTruthful
  <2>2. Keep!UninstallTruthful
    <3> SUFFICES ASSUME NEW p \in Procs, proc[p].pc = "uninstalled"
                 PROVE  /\ "file" \in token => p \in past.since
                        /\ "keyring" \in token => p \in past.since \/ proc[p].missed
                        /\ ~past.crowded => /\ files = Keep!NoFiles /\ entries \subseteq proc[p].printed
                                            /\ (\E b \in Bundles : skills[b] # 0) => proc[p].printed = Agents
      BY DEF Keep!UninstallTruthful
    <3>1. LeaveInv(p) /\ TokenInv(p)
      BY DEF KeepInv
    <3> QED BY <3>1 DEF LeaveInv, TokenInv, Leaving
  <2> QED BY <2>1, <2>2 DEF MarksTruthful
<1> QED BY <1>1, KeepInit, KeepNext, PTL DEF Spec, everything

-----------------------------------------------------------------------------
(* What an installation shows and counts once                                *)

Noted(p) == proc[p].ui \in {"fetching", "ready", "notes"}

\* Whoever makes an id is alone in it, until two launches overlap.
IdInv == ~past.racing =>
    \A p \in Procs : proc[p].pc = "make" => files.id = "none" /\ \A q \in Procs \ {p} : proc[q].pc # "make"

\* While the interface is opened by one process at a time and by no older one, the version
\* last seen is the youngest whose notes were closed, and notes on their way are of a younger one.
SeenInv == ~past.two =>
    /\ \A c \in past.closed : c <= files.seen
    /\ \A p \in Procs : proc[p].ui # "none" =>
         /\ files.seen <= proc[p].ver /\ (Noted(p) => files.seen < proc[p].ver)
         /\ \A q \in Procs \ {p} : proc[q].ui = "none"

HistInv ==
    /\ KeepInv
    /\ past.finished => files.onboarded
    /\ Keep!NotesNotLost
    /\ \A p \in Procs : proc[p].pc # "off" => proc[p].ver # 0
    /\ IdInv /\ SeenInv

SameMarks ==
    /\ files'.seen = files.seen /\ files'.id = files.id /\ files'.onboarded = files.onboarded
    /\ past'.closed = past.closed /\ past'.passed = past.passed /\ past'.finished = past.finished
    /\ past'.two = past.two /\ past'.racing = past.racing

\* The step neither makes an id nor opens an interface nor finds notes.
Stays(p) ==
    /\ OthersStay(p)
    /\ proc'[p].pc = "make" => proc[p].pc = "make"
    /\ proc'[p].pc # "off" => proc'[p].ver # 0
    /\ proc'[p].ui # "none" => proc[p].ui # "none" /\ proc'[p].ver = proc[p].ver /\ (Noted(p)' => Noted(p))

\* The five parts are about different things: a step that leaves one alone keeps it.
LEMMA IdKept ==
    ASSUME HistInv, files'.id \in {files.id, "none"}, past'.racing = past.racing,
           \A q \in Procs : proc'[q].pc = "make" => proc[q].pc = "make"
    PROVE  IdInv'
BY DEF HistInv, IdInv

LEMMA SeenKept ==
    ASSUME HistInv, NEW p \in Procs, Stays(p), files'.seen = files.seen, past'.closed = past.closed,
           past'.two = past.two
    PROVE  SeenInv'
<1> SUFFICES ASSUME ~past'.two PROVE SeenInv'
  BY DEF SeenInv
<1>1. SeenInv /\ ~past.two
  BY DEF HistInv
<1>2. ASSUME NEW q \in Procs, proc'[q].ui # "none"
      PROVE  proc[q].ui # "none" /\ proc'[q].ver = proc[q].ver /\ (Noted(q)' => Noted(q))
  BY <1>2 DEF Stays, OthersStay, Noted
<1> QED BY <1>1, <1>2 DEF SeenInv

LEMMA StaysHist ==
    ASSUME HistInv, KeepInv', NEW p \in Procs, Stays(p), SameMarks
    PROVE  HistInv'
<1>1. IdInv'
  BY IdKept DEF SameMarks, Stays, OthersStay
<1>2. SeenInv'
  BY SeenKept DEF SameMarks
<1>3. \A q \in Procs : proc'[q].pc # "off" => proc'[q].ver # 0
  BY DEF HistInv, Stays, OthersStay
<1> QED BY <1>1, <1>2, <1>3 DEF HistInv, SameMarks, Keep!NotesNotLost

LEMMA HistTypes ==
    ASSUME HistInv
    PROVE  /\ files \in FilesRecord /\ past \in PastRecord /\ proc \in [Procs -> ProcRecord]
           /\ files.seen \in Nat /\ past.closed \subseteq Nat /\ \A p \in Procs : proc[p].ver \in Nat
           /\ exe \in Nat /\ 0 \in 0..MaxExe
<1>1. /\ files \in FilesRecord /\ past \in PastRecord /\ proc \in [Procs -> ProcRecord] /\ exe \in 0..MaxExe
  BY DEF HistInv, KeepInv, KeepTypes
<1> QED BY <1>1, InstallAssumption DEF FilesRecord, PastRecord, ProcRecord

-----------------------------------------------------------------------------
(* The steps that leave the marks alone *)

\* What registers, or uninstalls, shows and is what it was.
LEMMA Registers ==
    ASSUME proc \in [Procs -> ProcRecord], NEW p \in Procs,
           \/ Keep!SyncCheck(p) \/ (\E marker \in 0..MaxExe : Keep!Mark(p, marker))
           \/ (\E a \in Agents, fails \in BOOLEAN : Keep!Wire(p, a, fails))
           \/ (\E b \in Bundles : Keep!Copy(p, b)) \/ \E torn \in Keep!Tears : Keep!CopyFails(p, torn)
    PROVE  OthersStay(p) /\ proc'[p].pc = proc[p].pc /\ proc'[p].ver = proc[p].ver /\ proc'[p].ui = proc[p].ui
<1>1. CASE Keep!SyncCheck(p)
  BY <1>1 DEF OthersStay, ProcRecord, Keep!SyncCheck
<1>2. ASSUME NEW marker \in 0..MaxExe, Keep!Mark(p, marker)
      PROVE  OthersStay(p) /\ proc'[p].pc = proc[p].pc /\ proc'[p].ver = proc[p].ver /\ proc'[p].ui = proc[p].ui
  BY <1>2 DEF OthersStay, ProcRecord, Keep!Mark
<1>3. ASSUME NEW a \in Agents, NEW fails \in BOOLEAN, Keep!Wire(p, a, fails)
      PROVE  OthersStay(p) /\ proc'[p].pc = proc[p].pc /\ proc'[p].ver = proc[p].ver /\ proc'[p].ui = proc[p].ui
  <2> DEFINE left == proc[p].left \ {a}
  <2>1. \/ proc' = [proc EXCEPT ![p].left = left, ![p].failed = TRUE]
        \/ proc' = [proc EXCEPT ![p].left = left, ![p].wired = TRUE, ![p].todo = Bundles]
    BY <1>3 DEF Keep!Wire
  <2> HIDE DEF left
  <2> QED BY <2>1 DEF OthersStay, ProcRecord
<1>4. ASSUME NEW b \in Bundles, Keep!Copy(p, b)
      PROVE  OthersStay(p) /\ proc'[p].pc = proc[p].pc /\ proc'[p].ver = proc[p].ver /\ proc'[p].ui = proc[p].ui
  BY <1>4 DEF OthersStay, ProcRecord, Keep!Copy
<1>5. ASSUME NEW torn \in Keep!Tears, Keep!CopyFails(p, torn)
      PROVE  OthersStay(p) /\ proc'[p].pc = proc[p].pc /\ proc'[p].ver = proc[p].ver /\ proc'[p].ui = proc[p].ui
  BY <1>5 DEF OthersStay, ProcRecord, Keep!CopyFails
<1> QED BY <1>1, <1>2, <1>3, <1>4, <1>5

LEMMA Uninstalls ==
    ASSUME proc \in [Procs -> ProcRecord], NEW p \in Procs,
           \/ \E errs \in SUBSET Agents, stay \in SUBSET Bundles : Keep!Uninstall(p, errs, stay)
           \/ \E rest \in SUBSET token : Keep!UninstallLogout(p, rest)
           \/ \E fails \in BOOLEAN, stay \in Keep!Kept : Keep!UninstallData(p, fails, stay)
           \/ \E how \in {"removed", "kept", "fails"} : Keep!UninstallBinary(p, how)
    PROVE  /\ OthersStay(p) /\ proc'[p].ver = proc[p].ver /\ proc'[p].ui = proc[p].ui
           /\ proc'[p].pc \in {"logout", "data", "binary", "incomplete", "uninstalled"}
<1> DEFINE Same == /\ OthersStay(p) /\ proc'[p].ver = proc[p].ver /\ proc'[p].ui = proc[p].ui
                   /\ proc'[p].pc \in {"logout", "data", "binary", "incomplete", "uninstalled"}
<1>1. ASSUME NEW errs \in SUBSET Agents, NEW stay \in SUBSET Bundles, Keep!Uninstall(p, errs, stay) PROVE Same
  <2> DEFINE printed == IF stay = {} THEN errs ELSE Agents
  <2>1. proc' = [proc EXCEPT ![p].pc = "logout", ![p].printed = printed]
    BY <1>1 DEF Keep!Uninstall
  <2> HIDE DEF printed
  <2> QED BY <2>1 DEF OthersStay, ProcRecord
<1>2. ASSUME NEW rest \in SUBSET token, Keep!UninstallLogout(p, rest) PROVE Same
  <2> DEFINE failed == proc[p].signed /\ "file" \in rest
             missed == proc[p].missed \/ (proc[p].signed /\ "keyring" \in rest)
  <2>1. proc' = [proc EXCEPT ![p].pc = "data", ![p].failed = failed, ![p].missed = missed]
    BY <1>2 DEF Keep!UninstallLogout
  <2> HIDE DEF failed, missed
  <2> QED BY <2>1 DEF OthersStay, ProcRecord
<1>3. ASSUME NEW fails \in BOOLEAN, NEW stay \in Keep!Kept, Keep!UninstallData(p, fails, stay) PROVE Same
  <2> DEFINE failed == proc[p].failed \/ fails
  <2>1. proc' = [proc EXCEPT ![p].pc = "binary", ![p].failed = failed]
    BY <1>3 DEF Keep!UninstallData
  <2> HIDE DEF failed
  <2> QED BY <2>1 DEF OthersStay, ProcRecord
<1>4. ASSUME NEW how \in {"removed", "kept", "fails"}, Keep!UninstallBinary(p, how) PROVE Same
  BY <1>4 DEF OthersStay, ProcRecord, Keep!UninstallBinary
<1> QED BY <1>1, <1>2, <1>3, <1>4

LEMMA Begins ==
    ASSUME proc \in [Procs -> ProcRecord], NEW p \in Procs,
           Keep!OpenMcp(p) \/ \E here, dead \in BOOLEAN, rest \in SUBSET token : Keep!Bootstrap(p, here, dead, rest)
    PROVE  /\ OthersStay(p) /\ proc[p].pc # "off" /\ proc'[p].pc \in {"on", "ready"}
           /\ proc'[p].ver = proc[p].ver /\ proc'[p].ui = proc[p].ui
<1>1. CASE Keep!OpenMcp(p)
  BY <1>1 DEF OthersStay, ProcRecord, Keep!OpenMcp
<1>2. ASSUME NEW here \in BOOLEAN, NEW dead \in BOOLEAN, NEW rest \in SUBSET token, Keep!Bootstrap(p, here, dead, rest)
      PROVE  /\ OthersStay(p) /\ proc[p].pc # "off" /\ proc'[p].pc = "ready"
             /\ proc'[p].ver = proc[p].ver /\ proc'[p].ui = proc[p].ui
  <2> DEFINE signed == Keep!Seen(here) /\ ~dead
             missed == IF dead THEN rest # {} ELSE ~here /\ "keyring" \in token
  <2>1. proc' = [proc EXCEPT ![p].pc = "ready", ![p].signed = signed, ![p].missed = missed] /\ proc[p].pc = "boot"
    BY <1>2 DEF Keep!Bootstrap
  <2> HIDE DEF signed, missed
  <2> QED BY <2>1 DEF OthersStay, ProcRecord
<1> QED BY <1>1, <1>2

LEMMA QuietHist ==
    ASSUME HistInv, KeepInv', NEW p \in Procs,
           \/ Keep!OpenMcp(p) \/ Keep!OpenNotes(p) \/ Keep!SyncCheck(p)
           \/ \E marker \in 0..MaxExe : Keep!Mark(p, marker)
           \/ \E prior \in BOOLEAN : Keep!Use(p, prior)
           \/ \E here, dead \in BOOLEAN, rest \in SUBSET token : Keep!Bootstrap(p, here, dead, rest)
           \/ \E here, cleared \in BOOLEAN : Keep!Store(p, here, cleared)
           \/ \E a \in Agents, fails \in BOOLEAN : Keep!Wire(p, a, fails)
           \/ \E b \in Bundles : Keep!Copy(p, b)
           \/ \E torn \in Keep!Tears : Keep!CopyFails(p, torn) \/ Keep!Quit(p, torn)
    PROVE  HistInv'
<1>1. /\ files \in FilesRecord /\ past \in PastRecord /\ proc \in [Procs -> ProcRecord]
      /\ proc[p].pc # "off" => proc[p].ver # 0
  BY HistTypes DEF HistInv
<1>2. \/ files' = files \/ (\E prior \in BOOLEAN : files' = [files EXCEPT !.prior = prior])
      \/ \E marker \in 0..MaxExe : files' = [files EXCEPT !.marker = marker]
  BY DEF Keep!OpenMcp, Keep!OpenNotes, Keep!SyncCheck, Keep!Mark, Keep!Use, Keep!Bootstrap, Keep!Store,
     Keep!Wire, Keep!Copy, Keep!CopyFails, Keep!Quit
<1>3. files'.seen = files.seen /\ files'.id = files.id /\ files'.onboarded = files.onboarded
  BY <1>1, <1>2 DEF FilesRecord
<1>4. SameMarks
  <2>1. \/ past' = past \/ (\E mixed : past' = [past EXCEPT !.mixed = mixed])
        \/ \E since : past' = [past EXCEPT !.since = since]
    BY DEF Keep!OpenMcp, Keep!OpenNotes, Keep!SyncCheck, Keep!Mark, Keep!Use, Keep!Bootstrap, Keep!Store,
       Keep!Wire, Keep!Copy, Keep!CopyFails, Keep!Quit, Keep!BreakOff
  <2>2. /\ past'.closed = past.closed /\ past'.passed = past.passed /\ past'.finished = past.finished
        /\ past'.two = past.two /\ past'.racing = past.racing
    BY <1>1, <2>1 DEF PastRecord
  <2> QED BY <1>3, <2>2 DEF SameMarks
<1>5. CASE Keep!OpenMcp(p) \/ \E here, dead \in BOOLEAN, rest \in SUBSET token : Keep!Bootstrap(p, here, dead, rest)
  <2>1. /\ OthersStay(p) /\ proc[p].pc # "off" /\ proc'[p].pc \in {"on", "ready"}
        /\ proc'[p].ver = proc[p].ver /\ proc'[p].ui = proc[p].ui
    BY <1>1, <1>5, Begins
  <2>2. Stays(p)
    BY <1>1, <2>1 DEF Stays, Noted
  <2> QED BY <1>4, <2>2, StaysHist
<1>6. CASE Keep!OpenNotes(p)
  <2>0. proc[p].pc # "off"
    BY <1>6 DEF HistInv, KeepInv, WorkInv, Keep!OpenNotes
  <2>1. Stays(p)
    BY <1>1, <1>6, <2>0 DEF Stays, OthersStay, Noted, ProcRecord, Keep!OpenNotes
  <2> QED BY <1>4, <2>1, StaysHist
<1>7. CASE \/ Keep!SyncCheck(p) \/ (\E marker \in 0..MaxExe : Keep!Mark(p, marker))
           \/ (\E a \in Agents, fails \in BOOLEAN : Keep!Wire(p, a, fails))
           \/ (\E b \in Bundles : Keep!Copy(p, b)) \/ \E torn \in Keep!Tears : Keep!CopyFails(p, torn)
  <2>1. proc[p].pc # "off"
    BY <1>7 DEF HistInv, KeepInv, WorkInv, Works, Keep!SyncCheck, Keep!Mark, Keep!Wire, Keep!Copy, Keep!CopyFails
  <2>2. OthersStay(p) /\ proc'[p].pc = proc[p].pc /\ proc'[p].ver = proc[p].ver /\ proc'[p].ui = proc[p].ui
    BY <1>1, <1>7, Registers
  <2>3. Stays(p)
    BY <1>1, <2>1, <2>2 DEF Stays, Noted
  <2> QED BY <1>4, <2>3, StaysHist
<1>8. CASE \E torn \in Keep!Tears : Keep!Quit(p, torn)
  <2>1. Stays(p)
    BY <1>1, <1>8 DEF Stays, OthersStay, Noted, Keep!Quit, Keep!Gone
  <2> QED BY <1>4, <2>1, StaysHist
<1>9. CASE (\E prior \in BOOLEAN : Keep!Use(p, prior)) \/ \E here, cleared \in BOOLEAN : Keep!Store(p, here, cleared)
  <2>1. proc' = proc
    BY <1>9 DEF Keep!Use, Keep!Store
  <2>2. Stays(p)
    BY <1>1, <2>1 DEF Stays, OthersStay, Noted
  <2> QED BY <1>4, <2>2, StaysHist
<1> QED BY <1>5, <1>6, <1>7, <1>8, <1>9

\* "uninstall" but for the data, and what no process does.
LEMMA LeavesHist ==
    ASSUME HistInv, KeepInv', NEW p \in Procs,
           \/ \E errs \in SUBSET Agents, stay \in SUBSET Bundles : Keep!Uninstall(p, errs, stay)
           \/ \E rest \in SUBSET token : Keep!UninstallLogout(p, rest)
           \/ \E how \in {"removed", "kept", "fails"} : Keep!UninstallBinary(p, how)
    PROVE  HistInv'
<1>1. /\ files \in FilesRecord /\ past \in PastRecord /\ proc \in [Procs -> ProcRecord] /\ UNCHANGED files
      /\ proc[p].pc # "off" /\ proc[p].ver # 0
  BY HistTypes DEF HistInv, Keep!Uninstall, Keep!UninstallLogout, Keep!UninstallBinary
<1>2. SameMarks
  BY <1>1 DEF SameMarks, PastRecord, Keep!Uninstall, Keep!UninstallLogout, Keep!UninstallBinary
<1>3. /\ OthersStay(p) /\ proc'[p].ui = proc[p].ui /\ proc'[p].ver = proc[p].ver
      /\ proc'[p].pc \in {"logout", "data", "binary", "incomplete", "uninstalled"}
  BY <1>1, Uninstalls
<1>4. Stays(p)
  BY <1>1, <1>3 DEF Stays, Noted
<1> QED BY <1>2, <1>4, StaysHist

LEMMA NobodysHist ==
    ASSUME HistInv, KeepInv',
           \/ \E errs \in SUBSET Agents, stay \in SUBSET Bundles : Keep!AgentsRemove(errs, stay)
           \/ \E rest \in SUBSET token : Keep!SignOut(rest)
           \/ Keep!Upgrade
    PROVE  HistInv'
<1>1. UNCHANGED <<files, proc>> /\ past \in PastRecord
  BY HistTypes DEF Keep!AgentsRemove, Keep!SignOut, Keep!Upgrade
<1>2. SameMarks
  BY <1>1 DEF SameMarks, PastRecord, Keep!AgentsRemove, Keep!SignOut, Keep!Upgrade
<1> QED BY <1>1, <1>2 DEF SameMarks, HistInv, IdInv, SeenInv, Noted, Keep!NotesNotLost

-----------------------------------------------------------------------------
(* The steps that make them *)

LEMMA ReadIdHist ==
    ASSUME HistInv, KeepInv', NEW p \in Procs, Keep!ReadId(p)
    PROVE  HistInv'
<1>1. /\ UNCHANGED files /\ past \in PastRecord /\ proc \in [Procs -> ProcRecord] /\ exe # 0 /\ proc[p].pc = "off"
  BY HistTypes DEF Keep!ReadId
<1>2. /\ OthersStay(p) /\ proc'[p].ui = "none" /\ proc'[p].ver # 0
      /\ proc'[p].pc = IF files.id = "none" THEN "make" ELSE "boot"
  BY <1>1 DEF OthersStay, Keep!ReadId, Keep!Gone
<1> DEFINE racing == past.racing \/ \E q \in Procs : proc[q].pc = "make"
<1>3. /\ past'.closed = past.closed /\ past'.passed = past.passed /\ past'.finished = past.finished
      /\ past'.two = past.two /\ past'.racing = racing
  BY <1>1 DEF PastRecord, Keep!ReadId
<1>4. IdInv'
  <2> SUFFICES ASSUME ~past'.racing, NEW q \in Procs, proc'[q].pc = "make"
               PROVE  files'.id = "none" /\ \A x \in Procs \ {q} : proc'[x].pc # "make"
    BY DEF IdInv
  <2>1. \A x \in Procs : proc[x].pc # "make"
    BY <1>3
  <2>2. q = p /\ \A x \in Procs \ {p} : proc'[x].pc # "make"
    BY <1>2, <2>1 DEF OthersStay
  <2> QED BY <1>1, <1>2, <2>2
<1>5. SeenInv'
  <2> SUFFICES ASSUME ~past'.two PROVE SeenInv'
    BY DEF SeenInv
  <2> HIDE DEF racing
  <2>1. SeenInv /\ ~past.two
    BY <1>3 DEF HistInv
  <2>2. ASSUME NEW q \in Procs, proc'[q].ui # "none" PROVE q # p /\ proc'[q] = proc[q]
    BY <1>2, <2>2 DEF OthersStay
  <2>3. \A q \in Procs : proc[q].ui = "none" => proc'[q].ui = "none"
    BY <1>2 DEF OthersStay
  <2> QED BY <1>1, <1>3, <2>1, <2>2, <2>3 DEF SeenInv, Noted
<1>6. \A q \in Procs : proc'[q].pc # "off" => proc'[q].ver # 0
  BY <1>2 DEF HistInv, OthersStay
<1> QED BY <1>1, <1>3, <1>4, <1>5, <1>6 DEF HistInv, Keep!NotesNotLost

LEMMA WriteIdHist ==
    ASSUME HistInv, KeepInv', NEW p \in Procs, Keep!WriteId(p)
    PROVE  HistInv'
<1>1. /\ files \in FilesRecord /\ proc \in [Procs -> ProcRecord] /\ proc[p].pc = "make" /\ UNCHANGED past
      /\ proc[p].ver # 0
  BY HistTypes DEF HistInv, Keep!WriteId
<1>2. files'.seen = files.seen /\ files'.onboarded = files.onboarded
  BY <1>1 DEF FilesRecord, Keep!WriteId
<1>3. OthersStay(p) /\ proc'[p].pc = "boot" /\ proc'[p].ui = proc[p].ui /\ proc'[p].ver = proc[p].ver
  BY <1>1 DEF OthersStay, ProcRecord, Keep!WriteId
<1>4. IdInv'
  BY <1>1, <1>3 DEF HistInv, IdInv, OthersStay
<1>5. Stays(p)
  BY <1>1, <1>3 DEF Stays, Noted
<1>6. SeenInv'
  BY <1>1, <1>2, <1>5, SeenKept
<1>7. \A q \in Procs : proc'[q].pc # "off" => proc'[q].ver # 0
  BY <1>1, <1>3 DEF HistInv, OthersStay
<1> QED BY <1>1, <1>2, <1>4, <1>6, <1>7 DEF HistInv, Keep!NotesNotLost

LEMMA OpenTuiHist ==
    ASSUME HistInv, KeepInv', NEW p \in Procs, Keep!OpenTui(p)
    PROVE  HistInv'
<1>1. /\ files \in FilesRecord /\ past \in PastRecord /\ proc \in [Procs -> ProcRecord] /\ proc[p].pc = "ready"
      /\ proc[p].ver # 0 /\ proc[p].ver \in Nat /\ files.seen \in Nat /\ past.closed \subseteq Nat
  BY HistTypes DEF HistInv, Keep!OpenTui
<1> DEFINE first == Keep!Fresh(p) \/ files.seen = 0
           notes == ~first /\ files.seen # proc[p].ver
           ui == IF Keep!Fresh(p) THEN "welcome" ELSE IF notes THEN "fetching" ELSE "splash"
           two == past.two \/ Keep!OpenUis # {} \/ proc[p].ver < files.seen
           tour == ~Keep!Fresh(p)
           seen == IF first THEN proc[p].ver ELSE files.seen
           passed == IF first THEN past.passed \cup {proc[p].ver} ELSE past.passed
<1>2. /\ proc' = [proc EXCEPT ![p].pc = "on", ![p].sync = "check", ![p].ui = ui]
      /\ files' = [files EXCEPT !.onboarded = tour, !.seen = seen]
      /\ past' = [past EXCEPT !.two = two, !.passed = passed]
  BY DEF Keep!OpenTui
<1>3. ~two => ~past.two /\ (\A q \in Procs : proc[q].ui = "none") /\ files.seen <= proc[p].ver
  BY <1>1 DEF Keep!OpenUis
<1>4. ui = "fetching" => files.seen # proc[p].ver /\ seen = files.seen
  OBVIOUS
<1>5. seen \in {files.seen, proc[p].ver} /\ (seen = proc[p].ver => ui # "fetching")
  BY <1>4
<1>6. ui \in {"welcome", "fetching", "splash"}
  OBVIOUS
<1>7. files.onboarded => tour
  BY DEF Keep!Fresh
<1>8. \/ seen = files.seen /\ passed = past.passed
      \/ seen = proc[p].ver /\ passed = past.passed \cup {seen}
  OBVIOUS
<1> HIDE DEF first, notes, ui, two, tour, seen, passed
<1>9. files'.onboarded = tour /\ files'.seen = seen /\ files'.id = files.id
  BY <1>1, <1>2 DEF FilesRecord
<1>10. /\ past'.two = two /\ past'.passed = passed /\ past'.closed = past.closed
       /\ past'.finished = past.finished /\ past'.racing = past.racing
  BY <1>1, <1>2 DEF PastRecord
<1>11. OthersStay(p) /\ proc'[p].pc = "on" /\ proc'[p].ui = ui /\ proc'[p].ver = proc[p].ver
  BY <1>1, <1>2 DEF OthersStay, ProcRecord
<1>12. IdInv'
  BY <1>9, <1>10, <1>11, IdKept DEF OthersStay
<1>13. SeenInv'
  <2> SUFFICES ASSUME ~two PROVE SeenInv'
    BY <1>10 DEF SeenInv
  <2>1. files.seen <= seen /\ seen <= proc[p].ver /\ (ui = "fetching" => seen < proc[p].ver)
    BY <1>1, <1>3, <1>5
  <2>2. \A c \in past.closed : c <= files.seen
    BY <1>3 DEF HistInv, SeenInv
  <2>3. \A c \in past'.closed : c <= files'.seen
    <3> SUFFICES ASSUME NEW c \in past.closed PROVE c <= seen
      BY <1>9, <1>10
    <3>1. c \in Nat /\ c <= files.seen /\ seen \in Nat
      BY <1>1, <1>5, <2>2
    <3> QED BY <1>1, <2>1, <3>1
  <2>4. \A q \in Procs \ {p} : proc'[q].ui = "none"
    BY <1>3, <1>11 DEF OthersStay
  <2>5. Noted(p)' => ui = "fetching"
    BY <1>6, <1>11 DEF Noted
  <2> QED BY <1>9, <1>10, <1>11, <2>1, <2>3, <2>4, <2>5 DEF SeenInv
<1>14. \A q \in Procs : proc'[q].pc # "off" => proc'[q].ver # 0
  BY <1>1, <1>11 DEF HistInv, OthersStay
<1> QED BY <1>7, <1>8, <1>9, <1>10, <1>12, <1>13, <1>14 DEF HistInv, Keep!NotesNotLost

LEMMA ShowsHist ==
    ASSUME HistInv, KeepInv', NEW p \in Procs,
           \/ Keep!FinishTour(p) \/ Keep!CloseNotes(p)
           \/ \E answer \in {"error", "absent", "notes"} : Keep!NotesArrive(p, answer)
    PROVE  HistInv'
<1>1. /\ files \in FilesRecord /\ past \in PastRecord /\ proc \in [Procs -> ProcRecord]
      /\ proc[p].ver \in Nat /\ files.seen \in Nat /\ past.closed \subseteq Nat
  BY HistTypes
<1>2. proc[p].ui # "none" /\ proc[p].pc = "on" /\ proc[p].ver # 0
  BY DEF HistInv, KeepInv, WorkInv, Keep!FinishTour, Keep!CloseNotes, Keep!NotesArrive
<1>3. \E ui \in {"splash", "ready"} : proc' = [proc EXCEPT ![p].ui = ui] /\ (ui = "ready" => Noted(p))
  BY DEF Keep!FinishTour, Keep!CloseNotes, Keep!NotesArrive, Noted
<1>4. PICK ui \in {"splash", "ready"} : proc' = [proc EXCEPT ![p].ui = ui] /\ (ui = "ready" => Noted(p))
  BY <1>3
<1>5. OthersStay(p) /\ proc'[p].pc = "on" /\ proc'[p].ui = ui /\ proc'[p].ver = proc[p].ver
  BY <1>1, <1>2, <1>4 DEF OthersStay, ProcRecord
<1>6. Stays(p)
  BY <1>2, <1>4, <1>5 DEF Stays, Noted
<1>7. \A q \in Procs : proc'[q].pc # "off" => proc'[q].ver # 0
  BY <1>2, <1>5 DEF HistInv, OthersStay
<1>8. CASE UNCHANGED <<files, past>>
  BY <1>6, <1>8, StaysHist DEF SameMarks
<1>9. CASE files' = [files EXCEPT !.onboarded = TRUE] /\ past' = [past EXCEPT !.finished = TRUE]
  <2>1. files'.onboarded /\ files'.seen = files.seen /\ files'.id = files.id
    BY <1>1, <1>9 DEF FilesRecord
  <2>2. past'.closed = past.closed /\ past'.passed = past.passed /\ past'.two = past.two /\ past'.racing = past.racing
    BY <1>1, <1>9 DEF PastRecord
  <2>3. SeenInv'
    BY <1>6, <2>1, <2>2, SeenKept
  <2>4. IdInv'
    BY <1>2, <1>5, <2>1, <2>2, IdKept DEF OthersStay
  <2> QED BY <1>7, <2>1, <2>2, <2>3, <2>4 DEF HistInv, Keep!NotesNotLost
<1>10. CASE Keep!CloseNotes(p) \/ Keep!NotesArrive(p, "absent")
  <2>0. /\ files' = [files EXCEPT !.seen = proc[p].ver]
        /\ \/ past' = [past EXCEPT !.closed = @ \cup {proc[p].ver}]
           \/ past' = [past EXCEPT !.passed = @ \cup {proc[p].ver}]
    BY <1>10 DEF Keep!CloseNotes, Keep!NotesArrive
  <2>1. files'.onboarded = files.onboarded /\ files'.seen = proc[p].ver /\ files'.id = files.id
    BY <1>1, <2>0 DEF FilesRecord
  <2>2. /\ past'.finished = past.finished /\ past'.two = past.two /\ past'.racing = past.racing
        /\ past'.closed \subseteq past.closed \cup {proc[p].ver}
        /\ proc[p].ver \in past'.closed \cup past'.passed
    BY <1>1, <2>0 DEF PastRecord
  <2>3. ui = "splash"
    <3>1. proc'[p].ui = "splash"
      BY <1>1, <1>10 DEF Keep!CloseNotes, Keep!NotesArrive, ProcRecord
    <3> QED BY <1>5, <3>1
  <2>4. SeenInv'
    <3> SUFFICES ASSUME ~past.two PROVE SeenInv'
      BY <2>2 DEF SeenInv
    <3>1. /\ files.seen <= proc[p].ver /\ \A c \in past.closed : c <= files.seen
          /\ \A q \in Procs \ {p} : proc[q].ui = "none"
      BY <1>2 DEF HistInv, SeenInv
    <3>2. \A c \in past'.closed : c <= proc[p].ver
      BY <1>1, <2>2, <3>1
    <3>3. \A q \in Procs \ {p} : proc'[q].ui = "none"
      BY <1>5, <3>1 DEF OthersStay
    <3> QED BY <1>1, <1>5, <2>1, <2>3, <3>2, <3>3 DEF SeenInv, Noted
  <2>5. IdInv'
    BY <1>2, <1>5, <2>1, <2>2, IdKept DEF OthersStay
  <2> QED BY <1>7, <2>1, <2>2, <2>4, <2>5 DEF HistInv, Keep!NotesNotLost
<1> QED BY <1>8, <1>9, <1>10 DEF Keep!FinishTour, Keep!CloseNotes, Keep!NotesArrive

\* The data goes, and with it the history of what was shown.
LEMMA DataHist ==
    ASSUME HistInv, KeepInv', NEW p \in Procs, NEW fails \in BOOLEAN, NEW stay \in Keep!Kept,
           Keep!UninstallData(p, fails, stay)
    PROVE  HistInv'
<1>1. /\ files \in FilesRecord /\ past \in PastRecord /\ proc \in [Procs -> ProcRecord] /\ proc[p].pc = "data"
      /\ proc[p].ver # 0 /\ (\A q \in Procs : proc[q].ver \in Nat) /\ Keep!Without(stay)
  BY HistTypes DEF HistInv, Keep!UninstallData
<1>2. OthersStay(p) /\ proc'[p].pc = "binary" /\ proc'[p].ui = proc[p].ui /\ proc'[p].ver = proc[p].ver
  <2>1. proc'[p].pc = "binary"
    BY <1>1 DEF ProcRecord, Keep!UninstallData
  <2>2. OthersStay(p) /\ proc'[p].ui = proc[p].ui /\ proc'[p].ver = proc[p].ver
    BY <1>1, Uninstalls
  <2> QED BY <2>1, <2>2
<1>3. Stays(p)
  BY <1>1, <1>2 DEF Stays, Noted
<1>4. /\ files'.id \in {files.id, "none"} /\ files'.onboarded = (files.onboarded /\ "onboarded" \in stay)
      /\ files'.seen = IF "seen" \in stay THEN files.seen ELSE 0
  BY <1>1 DEF Keep!Without
<1>5. /\ past'.two = past.two /\ past'.racing = past.racing /\ past'.finished = (past.finished /\ "onboarded" \in stay)
      /\ past'.closed = IF "seen" \in stay THEN past.closed ELSE {}
      /\ past'.passed = IF "seen" \in stay THEN past.passed ELSE {}
  BY <1>1 DEF Keep!Without, PastRecord
<1>6. IdInv'
  BY <1>2, <1>4, <1>5, IdKept DEF OthersStay
<1>7. \A q \in Procs : proc'[q].pc # "off" => proc'[q].ver # 0
  BY <1>1, <1>2 DEF HistInv, OthersStay
<1>8. SeenInv'
  <2>1. CASE "seen" \in stay
    BY <1>3, <1>4, <1>5, <2>1, SeenKept
  <2>2. CASE "seen" \notin stay
    <3>1. \A x \in Procs : proc'[x].ui = proc[x].ui /\ proc'[x].ver = proc[x].ver
      BY <1>2 DEF OthersStay
    <3>2. ASSUME ~past.two, NEW q \in Procs, proc'[q].ui # "none"
          PROVE  0 <= proc'[q].ver /\ 0 < proc'[q].ver /\ \A x \in Procs \ {q} : proc'[x].ui = "none"
      <4>1. \A x \in Procs \ {q} : proc[x].ui = "none"
        BY <3>1, <3>2 DEF HistInv, SeenInv
      <4>2. proc[q].pc = "on"
        BY <3>1, <3>2 DEF HistInv, KeepInv, WorkInv
      <4>3. proc[q].ver # 0 /\ proc[q].ver \in Nat
        BY <1>1, <4>2 DEF HistInv
      <4> QED BY <3>1, <4>1, <4>3
    <3> QED BY <1>4, <1>5, <2>2, <3>2 DEF SeenInv
  <2> QED BY <2>1, <2>2
<1>9. (past'.finished => files'.onboarded) /\ Keep!NotesNotLost'
  BY <1>4, <1>5 DEF HistInv, Keep!NotesNotLost
<1> QED BY <1>6, <1>7, <1>8, <1>9 DEF HistInv

LEMMA HistInit == Init => HistInv
<1> SUFFICES ASSUME Init PROVE HistInv
  OBVIOUS
<1>1. KeepInv
  BY KeepInit
<1>2. /\ proc = [p \in Procs |-> Keep!Gone] /\ past.closed = {}
      /\ past.passed = (IF exe = 1 THEN {} ELSE {1}) /\ exe \in 1..2
      /\ files = IF exe = 1 THEN Keep!NoFiles ELSE [Keep!NoFiles EXCEPT !.onboarded = TRUE, !.seen = 1]
  BY DEF Init, Keep!Init
<1>3. \A p \in Procs : proc[p].pc = "off" /\ proc[p].ui = "none"
  BY <1>2 DEF Keep!Gone
<1>4. exe = 1 \/ exe = 2
  BY <1>2
<1>5. CASE exe = 1
  <2>1. ~past.finished
    <3> DEFINE tour == exe = 2
    <3>1. past.finished = tour
      BY DEF Init, Keep!Init
    <3>2. ~tour
      BY <1>5
    <3> HIDE DEF tour
    <3> QED BY <3>1, <3>2
  <2>2. files.seen = 0
    BY <1>2, <1>5 DEF Keep!NoFiles
  <2> QED BY <1>1, <1>2, <1>3, <2>1, <2>2 DEF HistInv, IdInv, SeenInv, Keep!NotesNotLost
<1>6. CASE exe = 2
  <2>1. files.onboarded = TRUE /\ files.seen = 1
    BY <1>2, <1>6 DEF Keep!NoFiles
  <2>2. past.passed = {1}
    BY <1>2, <1>6
  <2> QED BY <1>1, <1>2, <1>3, <2>1, <2>2 DEF HistInv, IdInv, SeenInv, Keep!NotesNotLost
<1> QED BY <1>4, <1>5, <1>6

LEMMA HistNext == HistInv /\ [Next]_everything => HistInv'
<1> SUFFICES ASSUME HistInv, [Next]_everything PROVE HistInv'
  OBVIOUS
<1>1. KeepInv'
  BY KeepNext DEF HistInv
<1>2. CASE UNCHANGED insVars
  BY <1>1, <1>2 DEF insVars, HistInv, IdInv, SeenInv, Noted, Keep!NotesNotLost
<1>3. CASE Keep!Next
  BY <1>1, <1>3, QuietHist, LeavesHist, NobodysHist, ReadIdHist, WriteIdHist, OpenTuiHist, ShowsHist, DataHist
     DEF Keep!Next
<1> QED BY <1>2, <1>3 DEF Next, everything

\* A version counts as seen only when its notes were closed, do not exist, or it was the first
\* one (localstore/lastseen.go, app.ReleaseNotesMsg).
THEOREM NotesAreNotLost == Spec => []Keep!NotesNotLost
<1>1. HistInv => Keep!NotesNotLost
  BY DEF HistInv
<1> QED BY <1>1, HistInit, HistNext, PTL DEF Spec, everything

\* The tour is for a genuinely fresh install: whoever finished it, used the program or has a token
\* that its launch could see is never shown it again, in whatever order processes start
\* (localstore.ShouldOnboard, cli.bootstrap).
THEOREM TourIsShownOnce == Spec => Keep!TourOnce
<1> DEFINE Fresh == \A p \in Procs : proc[p].ui # "welcome" /\ proc'[p].ui = "welcome"
                      => /\ ~past.finished /\ ~files.prior
                         /\ token = {} \/ proc[p].missed \/ p \in past.since
<1>1. ASSUME HistInv, [Next]_everything PROVE [Fresh]_Keep!insVars
  <2>1. CASE UNCHANGED insVars
    BY <2>1 DEF insVars, Keep!insVars
  <2>2. CASE Keep!Next
    <3> SUFFICES ASSUME NEW p \in Procs, proc[p].ui # "welcome", proc'[p].ui = "welcome"
                 PROVE  ~past.finished /\ ~files.prior /\ (token = {} \/ proc[p].missed \/ p \in past.since)
      OBVIOUS
    <3>1. proc \in [Procs -> ProcRecord]
      BY <1>1, HistTypes
    <3>2. ASSUME NEW q \in Procs,
                 \/ Keep!FinishTour(q) \/ Keep!OpenNotes(q) \/ Keep!CloseNotes(q)
                 \/ \E answer \in {"error", "absent", "notes"} : Keep!NotesArrive(q, answer)
          PROVE  FALSE
      BY <3>1, <3>2 DEF ProcRecord, Keep!FinishTour, Keep!OpenNotes, Keep!CloseNotes, Keep!NotesArrive
    <3>3. ASSUME NEW q \in Procs, Keep!ReadId(q) \/ \E torn \in Keep!Tears : Keep!Quit(q, torn) PROVE FALSE
      <4>1. CASE Keep!ReadId(q)
        <5> DEFINE r == [Keep!Gone EXCEPT !.pc = IF files.id = "none" THEN "make" ELSE "boot", !.ver = exe]
        <5>1. proc' = [proc EXCEPT ![q] = r]
          BY <4>1 DEF Keep!ReadId
        <5>2. r.ui = "none"
          BY DEF Keep!Gone
        <5> HIDE DEF r
        <5>3. proc'[q].ui = "none" /\ OthersStay(q)
          BY <3>1, <5>1, <5>2 DEF OthersStay
        <5> QED BY <5>3 DEF OthersStay
      <4>2. CASE \E torn \in Keep!Tears : Keep!Quit(q, torn)
        BY <3>1, <4>2 DEF Keep!Quit, Keep!Gone
      <4> QED BY <3>3, <4>1, <4>2
    <3>4. ASSUME NEW q \in Procs,
                 \/ Keep!WriteId(q) \/ Keep!OpenMcp(q) \/ Keep!SyncCheck(q)
                 \/ \E marker \in 0..MaxExe : Keep!Mark(q, marker)
                 \/ \E here, dead \in BOOLEAN, rest \in SUBSET token : Keep!Bootstrap(q, here, dead, rest)
                 \/ \E a \in Agents, fails \in BOOLEAN : Keep!Wire(q, a, fails)
                 \/ \E b \in Bundles : Keep!Copy(q, b)
                 \/ \E torn \in Keep!Tears : Keep!CopyFails(q, torn)
          PROVE  FALSE
      <4>1. CASE Keep!WriteId(q)
        BY <3>1, <4>1 DEF ProcRecord, Keep!WriteId
      <4>2. CASE Keep!OpenMcp(q) \/ \E here, dead \in BOOLEAN, rest \in SUBSET token : Keep!Bootstrap(q, here, dead, rest)
        <5>1. OthersStay(q) /\ proc'[q].ui = proc[q].ui
          BY <3>1, <4>2, Begins
        <5> QED BY <5>1 DEF OthersStay
      <4>3. CASE \/ Keep!SyncCheck(q) \/ (\E marker \in 0..MaxExe : Keep!Mark(q, marker))
                 \/ (\E a \in Agents, fails \in BOOLEAN : Keep!Wire(q, a, fails))
                 \/ (\E b \in Bundles : Keep!Copy(q, b)) \/ \E torn \in Keep!Tears : Keep!CopyFails(q, torn)
        <5>1. OthersStay(q) /\ proc'[q].ui = proc[q].ui
          BY <3>1, <4>3, Registers
        <5> QED BY <5>1 DEF OthersStay
      <4> QED BY <3>4, <4>1, <4>2, <4>3
    <3>5. ASSUME NEW q \in Procs,
                 \/ \E errs \in SUBSET Agents, stay \in SUBSET Bundles : Keep!Uninstall(q, errs, stay)
                 \/ \E rest \in SUBSET token : Keep!UninstallLogout(q, rest)
                 \/ \E fails \in BOOLEAN, stay \in Keep!Kept : Keep!UninstallData(q, fails, stay)
                 \/ \E how \in {"removed", "kept", "fails"} : Keep!UninstallBinary(q, how)
          PROVE  FALSE
      <4>1. OthersStay(q) /\ proc'[q].ui = proc[q].ui
        BY <3>1, <3>5, Uninstalls
      <4> QED BY <4>1 DEF OthersStay
    <3>6. ASSUME \/ \E errs \in SUBSET Agents, stay \in SUBSET Bundles : Keep!AgentsRemove(errs, stay)
                 \/ \E rest \in SUBSET token : Keep!SignOut(rest)
                 \/ \E q \in Procs, here, cleared \in BOOLEAN : Keep!Store(q, here, cleared)
                 \/ \E q \in Procs, prior \in BOOLEAN : Keep!Use(q, prior)
                 \/ Keep!Upgrade
          PROVE  FALSE
      BY <3>6 DEF Keep!AgentsRemove, Keep!SignOut, Keep!Store, Keep!Use, Keep!Upgrade
    <3>7. PICK q \in Procs : Keep!OpenTui(q)
      BY <2>2, <3>2, <3>3, <3>4, <3>5, <3>6 DEF Keep!Next
    <3>8. q = p /\ Keep!Fresh(p) /\ proc[p].pc = "ready"
      BY <3>1, <3>7 DEF Keep!OpenTui, ProcRecord
    <3>9. past.finished => files.onboarded
      BY <1>1 DEF HistInv
    <3>10. TokenInv(p)
      BY <1>1 DEF HistInv, KeepInv
    <3> QED BY <3>8, <3>9, <3>10 DEF Keep!Fresh, TokenInv
  <2> HIDE DEF Fresh
  <2> QED BY <1>1, <2>1, <2>2 DEF Next, everything
<1> QED BY <1>1, HistInit, HistNext, PTL DEF Spec, everything, Keep!TourOnce

\* While the interface is opened by one process at a time and never by an older version, notes that
\* were closed do not come back (localstore/lastseen.go).
THEOREM NotesAreShownOnce == Spec => Keep!NotesOnce
<1> DEFINE Once1 == \A p \in Procs : proc[p].ui = "ready" /\ proc'[p].ui = "notes"
                                       => past.two \/ proc[p].ver \notin past.closed
<1>1. ASSUME HistInv PROVE Once1
  <2> SUFFICES ASSUME NEW p \in Procs, proc[p].ui = "ready", ~past.two, proc[p].ver \in past.closed PROVE FALSE
    OBVIOUS
  <2>1. files.seen < proc[p].ver /\ proc[p].ver <= files.seen
    BY <1>1 DEF HistInv, SeenInv, Noted
  <2> QED BY <1>1, <2>1, HistTypes
<1> QED BY <1>1, HistInit, HistNext, PTL DEF Spec, everything, Keep!NotesOnce, Keep!insVars, insVars

\* The install id, which counts installations, does not change once it is there, unless two
\* first launches overlapped (telemetry.InstallID).
THEOREM IdsAreStable == Spec => Keep!IdStable
<1> DEFINE Same == files.id # "none" /\ ~past.racing => files'.id \in {files.id, "none"}
<1>1. ASSUME HistInv, [Next]_everything PROVE [Same]_Keep!insVars
  <2>1. CASE UNCHANGED insVars
    BY <2>1 DEF insVars, Keep!insVars
  <2>2. CASE Keep!Next
    <3> SUFFICES ASSUME files.id # "none", ~past.racing PROVE files'.id \in {files.id, "none"}
      OBVIOUS
    <3>1. files \in FilesRecord
      BY <1>1, HistTypes
    <3>2. ASSUME NEW p \in Procs, Keep!WriteId(p) PROVE FALSE
      BY <1>1, <3>2 DEF HistInv, IdInv, Keep!WriteId
    <3>3. ASSUME NEW p \in Procs,
                 \/ Keep!OpenTui(p) \/ Keep!FinishTour(p) \/ Keep!CloseNotes(p)
                 \/ \E marker \in 0..MaxExe : Keep!Mark(p, marker)
                 \/ \E prior \in BOOLEAN : Keep!Use(p, prior)
                 \/ \E answer \in {"error", "absent", "notes"} : Keep!NotesArrive(p, answer)
          PROVE  files'.id = files.id
      <4>1. CASE Keep!OpenTui(p)
        BY <3>1, <4>1 DEF FilesRecord, Keep!OpenTui
      <4>2. CASE \/ Keep!FinishTour(p) \/ Keep!CloseNotes(p) \/ (\E marker \in 0..MaxExe : Keep!Mark(p, marker))
                 \/ \E prior \in BOOLEAN : Keep!Use(p, prior)
        BY <3>1, <4>2 DEF FilesRecord, Keep!FinishTour, Keep!CloseNotes, Keep!Mark, Keep!Use
      <4>3. CASE \E answer \in {"error", "absent", "notes"} : Keep!NotesArrive(p, answer)
        BY <3>1, <4>3 DEF FilesRecord, Keep!NotesArrive
      <4> QED BY <3>3, <4>1, <4>2, <4>3
    <3>4. ASSUME NEW p \in Procs,
                 \/ Keep!ReadId(p) \/ Keep!OpenMcp(p) \/ Keep!OpenNotes(p) \/ Keep!SyncCheck(p)
                 \/ \E here, dead \in BOOLEAN, rest \in SUBSET token : Keep!Bootstrap(p, here, dead, rest)
                 \/ \E a \in Agents, fails \in BOOLEAN : Keep!Wire(p, a, fails)
                 \/ \E b \in Bundles : Keep!Copy(p, b)
                 \/ \E torn \in Keep!Tears : Keep!CopyFails(p, torn) \/ Keep!Quit(p, torn)
                 \/ \E errs \in SUBSET Agents, stay \in SUBSET Bundles : Keep!Uninstall(p, errs, stay)
                 \/ \E rest \in SUBSET token : Keep!UninstallLogout(p, rest)
                 \/ \E how \in {"removed", "kept", "fails"} : Keep!UninstallBinary(p, how)
                 \/ \E here, cleared \in BOOLEAN : Keep!Store(p, here, cleared)
          PROVE  files' = files
      BY <3>4 DEF Keep!ReadId, Keep!OpenMcp, Keep!OpenNotes, Keep!SyncCheck, Keep!Bootstrap, Keep!Wire, Keep!Copy,
         Keep!CopyFails, Keep!Quit, Keep!Uninstall, Keep!UninstallLogout, Keep!UninstallBinary, Keep!Store
    <3>5. ASSUME NEW p \in Procs, NEW fails \in BOOLEAN, NEW stay \in Keep!Kept, Keep!UninstallData(p, fails, stay)
          PROVE  files'.id \in {files.id, "none"}
      BY <3>5 DEF Keep!UninstallData, Keep!Without
    <3>6. ASSUME \/ \E errs \in SUBSET Agents, stay \in SUBSET Bundles : Keep!AgentsRemove(errs, stay)
                 \/ \E rest \in SUBSET token : Keep!SignOut(rest)
                 \/ Keep!Upgrade
          PROVE  files' = files
      BY <3>6 DEF Keep!AgentsRemove, Keep!SignOut, Keep!Upgrade
    <3> QED BY <2>2, <3>2, <3>3, <3>4, <3>5, <3>6 DEF Keep!Next
  <2> QED BY <1>1, <2>1, <2>2 DEF Next, everything
<1> QED BY <1>1, HistInit, HistNext, PTL DEF Spec, everything, Keep!IdStable

-----------------------------------------------------------------------------
(* The taste of dishes                                                       *)

\* The choices of an entry, by group.
Choosing == UNION {[S -> Stores!Picks] : S \in SUBSET Groups}
Entries == [item : Items, picks : Choosing, dontCare : SUBSET Groups, used : Nat]
ItemOf == [e \in Entries |-> e.item]
TasteOK(t) == t \in Seq(Entries) /\ Apart(ItemOf, t)

At(t, item) == {k \in DOMAIN t : t[k].item = item}
\* What a taste file says of every dish.
Book(t) == [i \in Items |-> IF At(t, i) = {} THEN <<>> ELSE t[CHOOSE k \in At(t, i) : TRUE].picks]

LEMMA ChoosingIs ==
    ASSUME NEW f
    PROVE  f \in Choosing <=> DOMAIN f \subseteq Groups /\ f \in [DOMAIN f -> Stores!Picks]
<1> QED BY DEF Choosing

LEMMA NoneChosen == <<>> \in Choosing /\ DOMAIN <<>> = {}
<1>1. <<>> \in [{} -> Stores!Picks]
  OBVIOUS
<1> QED BY <1>1, ChoosingIs

LEMMA BookAt ==
    ASSUME NEW t, TasteOK(t), NEW k \in DOMAIN t
    PROVE  t[k] \in Entries /\ t[k].item \in Items /\ At(t, t[k].item) = {k} /\ Book(t)[t[k].item] = t[k].picks
<1>1. t \in Seq(Entries)
  BY DEF TasteOK
<1>2. ASSUME NEW j \in DOMAIN t PROVE t[j] \in Entries /\ ItemOf[t[j]] = t[j].item /\ t[j].item \in Items
  <2>1. t[j] \in Entries
    BY <1>1
  <2> QED BY <2>1 DEF ItemOf, Entries
<1>3. At(t, t[k].item) = {k}
  <2>1. ASSUME NEW j \in DOMAIN t, t[j].item = t[k].item PROVE j = k
    BY <1>2, <2>1, Zenon DEF TasteOK, Apart
  <2> QED BY <2>1 DEF At
<1>4. (CHOOSE j \in At(t, t[k].item) : TRUE) = k
  BY <1>3
<1> QED BY <1>2, <1>3, <1>4 DEF Book

LEMMA BookTyped ==
    ASSUME NEW t, TasteOK(t)
    PROVE  /\ Book(t) \in [Items -> Choosing]
           /\ \A i \in Items : /\ At(t, i) = {} => Book(t)[i] = <<>>
                               /\ At(t, i) # {} => \E k \in DOMAIN t : t[k].item = i /\ Book(t)[i] = t[k].picks
<1>1. ASSUME NEW i \in Items, At(t, i) # {} PROVE \E k \in DOMAIN t : t[k].item = i /\ Book(t)[i] = t[k].picks
  <2>1. PICK k \in DOMAIN t : t[k].item = i
    BY <1>1 DEF At
  <2> QED BY <2>1, BookAt
<1>2. ASSUME NEW i \in Items, At(t, i) = {} PROVE Book(t)[i] = <<>>
  BY <1>2 DEF Book
<1>3. ASSUME NEW i \in Items PROVE Book(t)[i] \in Choosing
  <2>1. CASE At(t, i) = {}
    BY <1>2, <2>1, NoneChosen
  <2>2. CASE At(t, i) # {}
    <3>1. PICK k \in DOMAIN t : t[k].item = i /\ Book(t)[i] = t[k].picks
      BY <1>1, <2>2
    <3>2. t[k] \in Entries
      BY BookAt
    <3> QED BY <3>1, <3>2 DEF Entries
  <2> QED BY <2>1, <2>2
<1>4. Book(t) = [i \in Items |-> Book(t)[i]]
  BY DEF Book
<1> QED BY <1>1, <1>2, <1>3, <1>4

\* What is said, and what is offered, in terms of the book.
SaidOf(b) == {x \in Items \X Groups \X Flavours :
                x[2] \in DOMAIN b[x[1]] /\ b[x[1]][x[2]].source = "explicit" /\ b[x[1]][x[2]].choice = x[3]}
OfferedOf(b) == {x \in Items \X Groups \X Flavours :
                x[2] \in DOMAIN b[x[1]] /\ Stores!Qualifies(b[x[1]][x[2]]) /\ b[x[1]][x[2]].choice = x[3]}
Said(t) == UNION {{<<t[i].item, g, t[i].picks[g].choice>> : g \in Stores!Explicit(t[i])} : i \in DOMAIN t}

LEMMA SaidBook ==
    ASSUME NEW t, TasteOK(t)
    PROVE  Said(t) = SaidOf(Book(t)) /\ Stores!Suggestions(t) = OfferedOf(Book(t))
<1> DEFINE b == Book(t)
<1>1. ASSUME NEW i \in DOMAIN t, NEW g \in DOMAIN t[i].picks
      PROVE  /\ b[t[i].item][g] = t[i].picks[g] /\ g \in DOMAIN b[t[i].item]
             /\ <<t[i].item, g, t[i].picks[g].choice>> \in Items \X Groups \X Flavours
  <2>1. t[i] \in Entries /\ t[i].item \in Items /\ b[t[i].item] = t[i].picks
    BY BookAt
  <2>2. t[i].picks \in Choosing
    BY <2>1 DEF Entries
  <2>3. g \in Groups /\ t[i].picks[g] \in Stores!Picks
    BY <2>2, ChoosingIs
  <2>4. t[i].picks[g].choice \in Flavours
    BY <2>3 DEF Stores!Picks
  <2> QED BY <2>1, <2>3, <2>4
<1>2. ASSUME NEW x \in Items \X Groups \X Flavours, x[2] \in DOMAIN b[x[1]]
      PROVE  \E i \in DOMAIN t : t[i].item = x[1] /\ b[x[1]] = t[i].picks
  <2>1. x[1] \in Items /\ At(t, x[1]) # {}
    BY <1>2, BookTyped, NoneChosen
  <2> HIDE DEF b
  <2> QED BY <2>1, BookTyped DEF b
<1>3. ASSUME NEW x \in Said(t) PROVE x \in SaidOf(b)
  <2>1. PICK i \in DOMAIN t : \E g \in Stores!Explicit(t[i]) : x = <<t[i].item, g, t[i].picks[g].choice>>
    BY DEF Said
  <2>2. PICK g \in DOMAIN t[i].picks : t[i].picks[g].source = "explicit" /\ x = <<t[i].item, g, t[i].picks[g].choice>>
    BY <2>1 DEF Stores!Explicit
  <2>3. x \in Items \X Groups \X Flavours /\ x[1] = t[i].item /\ x[2] = g /\ x[3] = t[i].picks[g].choice
    BY <1>1, <2>2
  <2> HIDE DEF b
  <2> QED BY <2>2, <2>3, <1>1 DEF SaidOf
<1>4. ASSUME NEW x \in SaidOf(b) PROVE x \in Said(t)
  <2>1. PICK i \in DOMAIN t : t[i].item = x[1] /\ b[x[1]] = t[i].picks
    BY <1>2 DEF SaidOf
  <2>2. x = <<t[i].item, x[2], t[i].picks[x[2]].choice>> /\ x[2] \in DOMAIN t[i].picks
        /\ t[i].picks[x[2]].source = "explicit"
    BY <2>1 DEF SaidOf
  <2> QED BY <2>2 DEF Said, Stores!Explicit
<1>5. ASSUME NEW x \in Stores!Suggestions(t) PROVE x \in OfferedOf(b)
  <2>1. PICK i \in DOMAIN t : \E g \in {h \in DOMAIN t[i].picks : Stores!Qualifies(t[i].picks[h])} :
                                 x = <<t[i].item, g, t[i].picks[g].choice>>
    BY DEF Stores!Suggestions
  <2>2. PICK g \in DOMAIN t[i].picks : Stores!Qualifies(t[i].picks[g]) /\ x = <<t[i].item, g, t[i].picks[g].choice>>
    BY <2>1
  <2>3. x \in Items \X Groups \X Flavours /\ x[1] = t[i].item /\ x[2] = g /\ x[3] = t[i].picks[g].choice
    BY <1>1, <2>2
  <2> HIDE DEF b
  <2> QED BY <2>2, <2>3, <1>1 DEF OfferedOf
<1>6. ASSUME NEW x \in OfferedOf(b) PROVE x \in Stores!Suggestions(t)
  <2>1. PICK i \in DOMAIN t : t[i].item = x[1] /\ b[x[1]] = t[i].picks
    BY <1>2 DEF OfferedOf
  <2>2. x = <<t[i].item, x[2], t[i].picks[x[2]].choice>> /\ x[2] \in DOMAIN t[i].picks
        /\ Stores!Qualifies(t[i].picks[x[2]])
    BY <2>1 DEF OfferedOf
  <2> QED BY <2>2 DEF Stores!Suggestions
<1> QED BY <1>3, <1>4, <1>5, <1>6

-----------------------------------------------------------------------------
(* What the helpers make of a file                                           *)

LEMMA SameHere ==
    /\ \A s : Stores!ToSet(s) = ToSet(s)
    /\ \A s, n : Stores!RemoveAt(s, n) = RemoveAt(s, n)
    /\ \A s, K : Stores!Only(s, K) = Filtered(s, K)
<1>1. ASSUME NEW s, NEW K PROVE Stores!Only(s, K) = Filtered(s, K)
  BY DEF Stores!Only, Stores!FoldLeft, Stores!MapThenFoldSet, Stores!Max, Filtered, FoldLeft, MapThenFoldSet, Max
<1> QED BY <1>1 DEF Stores!ToSet, ToSet, Stores!RemoveAt, RemoveAt

\* A file in which some entries are kept, and the others go.
LEMMA KeptEntries ==
    ASSUME NEW t, TasteOK(t), NEW K
    PROVE  /\ TasteOK(Stores!Only(t, K))
           /\ \A i \in Items : Book(Stores!Only(t, K))[i] =
                 IF \E k \in DOMAIN t : t[k].item = i /\ t[k] \in K THEN Book(t)[i] ELSE <<>>
<1> DEFINE u == Filtered(t, K)
<1>1. u \in Seq(Entries) /\ ToSet(u) = ToSet(t) \cap K /\ Apart(ItemOf, u)
  BY OnlyThose, OnlyApart DEF TasteOK
<1>2. Stores!Only(t, K) = u
  BY SameHere
<1> HIDE DEF u
<1>3. TasteOK(u)
  BY <1>1 DEF TasteOK
<1>4. ASSUME NEW i \in Items, NEW k \in DOMAIN t, t[k].item = i, t[k] \in K PROVE Book(u)[i] = Book(t)[i]
  <2>1. t[k] \in ToSet(u)
    BY <1>1, <1>4 DEF ToSet
  <2>2. PICK j \in DOMAIN u : u[j] = t[k]
    BY <2>1 DEF ToSet
  <2> QED BY <1>3, <1>4, <2>2, BookAt
<1>5. ASSUME NEW i \in Items, ~\E k \in DOMAIN t : t[k].item = i /\ t[k] \in K PROVE Book(u)[i] = <<>>
  <2>1. ASSUME NEW j \in DOMAIN u PROVE u[j].item # i
    <3>1. u[j] \in ToSet(t) /\ u[j] \in K
      BY <1>1 DEF ToSet
    <3> QED BY <3>1, <1>5 DEF ToSet
  <2>2. At(u, i) = {}
    BY <2>1 DEF At
  <2> QED BY <2>2, <1>3, BookTyped
<1> QED BY <1>2, <1>3, <1>4, <1>5

LEMMA RemovedEntry ==
    ASSUME NEW t, TasteOK(t), NEW n \in DOMAIN t
    PROVE  /\ TasteOK(Stores!RemoveAt(t, n))
           /\ \A i \in Items : Book(Stores!RemoveAt(t, n))[i] = IF i = t[n].item THEN <<>> ELSE Book(t)[i]
<1> DEFINE u == RemoveAt(t, n)
           at(i) == IF i < n THEN i ELSE i + 1
<1>1. t \in Seq(Entries) /\ Len(t) \in Nat /\ DOMAIN t = 1..Len(t)
  BY DEF TasteOK
<1>2. u \in Seq(Entries) /\ DOMAIN u = 1..(Len(t) - 1) /\ \A i \in DOMAIN u : u[i] = IF i < n THEN t[i] ELSE t[i + 1]
  BY <1>1, Removed1
<1>3. Stores!RemoveAt(t, n) = u
  BY SameHere
<1> HIDE DEF u
<1>4. \A i \in DOMAIN u : u[i] = t[at(i)] /\ at(i) \in DOMAIN t /\ at(i) # n
  BY <1>1, <1>2
<1>5. \A i, j \in DOMAIN u : at(i) = at(j) => i = j
  BY <1>2, <1>1
<1>6. \A k \in DOMAIN t \ {n} : \E i \in DOMAIN u : at(i) = k
  <2>1. ASSUME NEW k \in DOMAIN t \ {n} PROVE (IF k < n THEN k ELSE k - 1) \in DOMAIN u
                                              /\ at(IF k < n THEN k ELSE k - 1) = k
    BY <1>1, <1>2
  <2> QED BY <2>1
<1> HIDE DEF at
<1>7. TasteOK(u)
  <2>1. Apart(ItemOf, u)
    BY <1>4, <1>5 DEF TasteOK, Apart
  <2> QED BY <1>2, <2>1 DEF TasteOK
<1>8. ASSUME NEW i \in Items, i # t[n].item PROVE Book(u)[i] = Book(t)[i]
  <2>1. CASE At(t, i) = {}
    <3>1. At(u, i) = {}
      BY <1>4, <2>1 DEF At
    <3> QED BY <2>1, <3>1, <1>7, BookTyped
  <2>2. CASE At(t, i) # {}
    <3>1. PICK k \in DOMAIN t : t[k].item = i
      BY <2>2 DEF At
    <3>2. PICK j \in DOMAIN u : at(j) = k
      BY <3>1, <1>6, <1>8
    <3>3. u[j] = t[k]
      BY <3>2, <1>4
    <3> QED BY <3>1, <3>3, <1>7, BookAt
  <2> QED BY <2>1, <2>2
<1>9. t[n].item \in Items /\ Book(u)[t[n].item] = <<>>
  <2>1. At(t, t[n].item) = {n} /\ t[n].item \in Items
    BY BookAt
  <2>2. At(u, t[n].item) = {}
    BY <2>1, <1>4 DEF At
  <2> QED BY <2>1, <2>2, <1>7, BookTyped
<1> QED BY <1>3, <1>7, <1>8, <1>9

\* SetToSeq is a sequence of the elements, if they are finitely many.
LEMMA SetToSeqIs ==
    ASSUME NEW S, IsFiniteSet(S)
    PROVE  SetToSeq(S) \in Seq(S)
<1>1. Cardinality(S) \in Nat /\ ExistsBijection(1..Cardinality(S), S)
  BY FS_CardinalityType
<1>2. \E f \in [1..Cardinality(S) -> S] : IsInjective(f)
  BY <1>1 DEF ExistsBijection, Bijection, Injection
<1>3. SetToSeq(S) \in [1..Cardinality(S) -> S]
  BY <1>2 DEF SetToSeq
<1> QED BY <1>1, <1>3

LEMMA SameSetToSeq == \A S : Stores!SetToSeq(S) = SetToSeq(S)
BY DEF Stores!SetToSeq, SetToSeq, Stores!IsInjective, IsInjective, Stores!Cardinality, Cardinality

LEMMA EvidenceIs ==
    ASSUME NEW e \in Entries
    PROVE  Stores!Evidence(e) \in Nat
<1> DEFINE D == DOMAIN e.picks
           seq == Stores!SetToSeq(D)
           F == [p \in Nat \X D |-> p[1] + e.picks[p[2]].count]
           Of(g) == [s \in SUBSET DOMAIN seq |->
                      IF s = {} THEN 0 ELSE g[s \ {Max(s)}] + e.picks[seq[Max(s)]].count]
           h == CHOOSE g : g = Of(g)
<1>1. D \subseteq Groups /\ \A x \in D : e.picks[x].count \in Nat
  <2>1. e.picks \in Choosing
    BY DEF Entries
  <2>2. D \subseteq Groups /\ \A x \in D : e.picks[x] \in Stores!Picks
    BY <2>1, ChoosingIs
  <2> QED BY <2>2 DEF Stores!Picks
<1>2. seq \in Seq(D)
  <2>1. IsFiniteSet(D)
    BY <1>1, FS_Subset, InstallAssumption
  <2> HIDE DEF D
  <2> QED BY <2>1, SetToSeqIs, SameSetToSeq
<1>3. F \in [Nat \X D -> Nat] /\ 0 \in Nat
  BY <1>1
<1>4. Stores!Evidence(e) = h[DOMAIN seq]
  BY DEF Stores!Evidence, Stores!FoldLeft, Stores!MapThenFoldSet, Stores!Max, Max
<1> HIDE DEF D, seq
<1>5. PICK g : LeftFolded(g, F, 0, seq) /\ \A s \in SUBSET DOMAIN seq : g[s] \in Nat
  <2> HIDE DEF F
  <2> QED BY <1>2, <1>3, LeftFoldExists
<1>6. ASSUME NEW s \in SUBSET DOMAIN seq, s # {} PROVE g[s \ {Max(s)}] \in Nat /\ seq[Max(s)] \in D
  BY <1>2, <1>5, <1>6, LastIsPicked
<1>7. g = Of(g)
  BY <1>5, <1>6 DEF LeftFolded
<1>8. h = Of(h)
  BY <1>7
<1> HIDE DEF h
<1>9. \A s \in SUBSET DOMAIN seq : h[s] = IF s = {} THEN 0 ELSE h[s \ {Max(s)}] + e.picks[seq[Max(s)]].count
  BY <1>8, Zenon
<1>10. h[{}] \in Nat
  <2>1. {} \in SUBSET DOMAIN seq
    OBVIOUS
  <2>2. h[{}] = 0
    BY <1>9, <2>1, Zenon
  <2> QED BY <2>2
<1>11. ASSUME NEW s \in SUBSET DOMAIN seq, s # {}, h[s \ {Max(s)}] \in Nat PROVE h[s] \in Nat
  <2>1. seq[Max(s)] \in D
    BY <1>2, <1>11, LastIsPicked
  <2>2. h[s] = h[s \ {Max(s)}] + e.picks[seq[Max(s)]].count
    BY <1>9, <1>11, Zenon
  <2>3. e.picks[seq[Max(s)]].count \in Nat
    BY <2>1, <1>1, Zenon
  <2> QED BY <1>11, <2>2, <2>3
<1>12. h[DOMAIN seq] \in Nat
  BY <1>2, <1>10, <1>11, LeftFoldStays
<1> QED BY <1>4, <1>12

\* Of the entries that may go there is one that goes first.
LEMMA GoesFirst ==
    ASSUME NEW t, TasteOK(t), Stores!Evictable(t) # {}
    PROVE  \E i \in Stores!Evictable(t) : \A j \in Stores!Evictable(t) : Stores!GoesBefore(t, i, j)
<1> DEFINE E == Stores!Evictable(t)
           U == {t[i].used : i \in E}
<1>1. E \subseteq DOMAIN t /\ t \in Seq(Entries)
  BY DEF Stores!Evictable, TasteOK
<1>2. \A i \in E : t[i] \in Entries /\ i \in Nat
  BY <1>1
<1>3. \A i \in E : t[i].used \in Nat /\ Stores!Evidence(t[i]) \in Nat
  BY <1>2, EvidenceIs DEF Entries
<1> HIDE DEF E
<1>4. PICK u \in U : \A v \in U : u <= v
  <2>1. U \subseteq Nat /\ U # {}
    BY <1>3 DEF E
  <2> HIDE DEF U
  <2> QED BY <2>1, LeastNumber
<1> DEFINE E2 == {i \in E : t[i].used = u}
           V == {Stores!Evidence(t[i]) : i \in E2}
<1>5. PICK w \in V : \A v \in V : w <= v
  <2>1. V \subseteq Nat /\ V # {}
    BY <1>3, <1>4
  <2> HIDE DEF V
  <2> QED BY <2>1, LeastNumber
<1> DEFINE E3 == {i \in E2 : Stores!Evidence(t[i]) = w}
<1>6. PICK i \in E3 : \A j \in E3 : i <= j
  <2>1. E3 \subseteq Nat /\ E3 # {}
    BY <1>2, <1>5
  <2> HIDE DEF E3
  <2> QED BY <2>1, LeastNumber
<1>7. ASSUME NEW j \in E PROVE Stores!GoesBefore(t, i, j)
  <2>1. t[i].used = u /\ Stores!Evidence(t[i]) = w /\ u \in Nat /\ w \in Nat
    BY <1>3, <1>6
  <2>2. u <= t[j].used /\ t[j].used \in Nat
    BY <1>3, <1>4
  <2>3. t[j].used = u => w <= Stores!Evidence(t[j])
    BY <1>5
  <2>4. t[j].used = u /\ Stores!Evidence(t[j]) = w => i <= j
    BY <1>6
  <2>5. Stores!Evidence(t[j]) \in Nat
    BY <1>3
  <2> QED BY <2>1, <2>2, <2>3, <2>4, <2>5 DEF Stores!GoesBefore
<1> QED BY <1>6, <1>7 DEF E

\* Of what a book says nothing is new, and what the user said is all there.
Trims(b, c) ==
    \A i \in Items : /\ \A g \in DOMAIN c[i] : g \in DOMAIN b[i] /\ c[i][g] = b[i][g]
                     /\ \A g \in DOMAIN b[i] : b[i][g].source = "explicit" => g \in DOMAIN c[i]

LEMMA TrimsOn ==
    ASSUME NEW a, NEW b, NEW c, Trims(a, b), Trims(b, c)
    PROVE  Trims(a, c)
BY DEF Trims

LEMMA EvictKeeps ==
    ASSUME NEW t, TasteOK(t)
    PROVE  TasteOK(Stores!EvictOne(t)) /\ Trims(Book(t), Book(Stores!EvictOne(t)))
<1> DEFINE u == Stores!EvictOne(t)
           E == Stores!Evictable(t)
           k == CHOOSE i \in E : \A j \in E : Stores!GoesBefore(t, i, j)
<1>1. CASE u = t
  BY <1>1 DEF Trims
<1>2. CASE u # t
  <2>1. E # {} /\ u = Stores!RemoveAt(t, k)
    BY <1>2 DEF Stores!EvictOne
  <2>2. k \in E
    BY <2>1, GoesFirst
  <2>3. k \in DOMAIN t /\ \A g \in DOMAIN t[k].picks : t[k].picks[g].source # "explicit"
    BY <2>2 DEF Stores!Evictable, Stores!Explicit
  <2> HIDE DEF u, k, E
  <2>4. TasteOK(u) /\ \A i \in Items : Book(u)[i] = IF i = t[k].item THEN <<>> ELSE Book(t)[i]
    BY <2>1, <2>3, RemovedEntry
  <2>5. Book(t)[t[k].item] = t[k].picks
    BY <2>3, BookAt
  <2>6. ASSUME NEW i \in Items
        PROVE  /\ \A g \in DOMAIN Book(u)[i] : g \in DOMAIN Book(t)[i] /\ Book(u)[i][g] = Book(t)[i][g]
               /\ \A g \in DOMAIN Book(t)[i] : Book(t)[i][g].source = "explicit" => g \in DOMAIN Book(u)[i]
    <3>1. CASE i = t[k].item
      BY <3>1, <2>3, <2>4, <2>5, NoneChosen
    <3>2. CASE i # t[k].item
      BY <3>2, <2>4
    <3> QED BY <3>1, <3>2
  <2>7. Trims(Book(t), Book(u))
    BY <2>6 DEF Trims
  <2> QED BY <2>4, <2>7 DEF u
<1> QED BY <1>1, <1>2

\* A file whose entries are changed, each in its place.
LEMMA MappedEntries ==
    ASSUME NEW t, TasteOK(t), NEW u \in [DOMAIN t -> Entries], \A i \in DOMAIN t : u[i].item = t[i].item
    PROVE  /\ TasteOK(u) /\ DOMAIN u = DOMAIN t
           /\ \A i \in DOMAIN t : Book(u)[t[i].item] = u[i].picks
           /\ \A item \in Items : At(t, item) = {} => Book(u)[item] = <<>>
<1>1. t \in Seq(Entries) /\ DOMAIN t = 1..Len(t) /\ Len(t) \in Nat /\ DOMAIN u = DOMAIN t
  BY DEF TasteOK
<1>2. u \in Seq(Entries)
  BY <1>1
<1>3. ASSUME NEW i \in DOMAIN t PROVE t[i] \in Entries /\ u[i] \in Entries /\ ItemOf[t[i]] = t[i].item /\ ItemOf[u[i]] = t[i].item
  <2>1. t[i] \in Entries /\ u[i] \in Entries
    BY <1>1
  <2> QED BY <2>1 DEF ItemOf
<1>4. Apart(ItemOf, u)
  <2>1. ASSUME NEW i \in DOMAIN t, NEW j \in DOMAIN t, ItemOf[u[i]] = ItemOf[u[j]] PROVE i = j
    <3>1. ItemOf[t[i]] = ItemOf[t[j]]
      BY <1>3, <2>1
    <3> QED BY <3>1 DEF TasteOK, Apart
  <2> QED BY <1>1, <2>1 DEF Apart
<1>5. TasteOK(u)
  BY <1>2, <1>4 DEF TasteOK
<1>6. ASSUME NEW i \in DOMAIN t PROVE Book(u)[t[i].item] = u[i].picks
  BY <1>1, <1>5, BookAt
<1>7. ASSUME NEW item \in Items, At(t, item) = {} PROVE Book(u)[item] = <<>>
  <2>1. At(u, item) = {}
    BY <1>1, <1>7 DEF At
  <2> QED BY <2>1, <1>5, BookTyped
<1> QED BY <1>1, <1>5, <1>6, <1>7

\* A file in which the entry of one dish is changed.
LEMMA ChangedEntry ==
    ASSUME NEW t, TasteOK(t), NEW item, NEW k \in DOMAIN t, t[k].item = item,
           NEW c \in Entries, c.item = item,
           NEW u, u = [i \in DOMAIN t |-> IF i = k THEN c ELSE t[i]]
    PROVE  /\ TasteOK(u)
           /\ Book(u) = [Book(t) EXCEPT ![item] = c.picks]
<1>1. \A i \in DOMAIN t : t[i] \in Entries
  BY DEF TasteOK
<1>2. u \in [DOMAIN t -> Entries] /\ \A i \in DOMAIN t : u[i].item = t[i].item
  BY <1>1
<1>3. /\ TasteOK(u)
      /\ \A i \in DOMAIN t : Book(u)[t[i].item] = u[i].picks
      /\ \A j \in Items : At(t, j) = {} => Book(u)[j] = <<>>
  BY <1>2, MappedEntries
<1>4. item \in Items /\ At(t, item) = {k}
  BY BookAt
<1>5. ASSUME NEW j \in Items PROVE Book(u)[j] = IF j = item THEN c.picks ELSE Book(t)[j]
  <2>1. CASE j = item
    BY <1>3, <2>1
  <2>2. CASE j # item /\ At(t, j) = {}
    BY <1>3, <2>2, BookTyped
  <2>3. CASE j # item /\ At(t, j) # {}
    <3>1. PICK i \in DOMAIN t : t[i].item = j /\ Book(t)[j] = t[i].picks
      BY <2>3, BookTyped
    <3>2. u[i] = t[i]
      BY <3>1, <2>3
    <3> QED BY <1>3, <3>1, <3>2, <2>3
  <2> QED BY <2>1, <2>2, <2>3
<1>6. Book(u) \in [Items -> Choosing] /\ Book(t) \in [Items -> Choosing]
  BY <1>3, BookTyped
<1>7. Book(u) = [Book(t) EXCEPT ![item] = c.picks]
  BY <1>4, <1>5, <1>6
<1> QED BY <1>3, <1>7

\* An entry for the dish is found, or made: it says nothing new.
LEMMA EnteredIs ==
    ASSUME NEW t, TasteOK(t), NEW item \in Items, now \in Nat
    PROVE  /\ TasteOK(Stores!Entered(t, item)) /\ Book(Stores!Entered(t, item)) = Book(t)
           /\ At(Stores!Entered(t, item), item) # {}
<1> DEFINE n == [item |-> item, picks |-> <<>>, dontCare |-> {}, used |-> now]
           w == Append(t, n)
<1>1. CASE Stores!IndexOf(t, item) # {}
  BY <1>1 DEF Stores!Entered, Stores!IndexOf, At
<1>2. CASE Stores!IndexOf(t, item) = {}
  <2>1. Stores!Entered(t, item) = w
    BY <1>2 DEF Stores!Entered
  <2>2. At(t, item) = {}
    BY <1>2 DEF Stores!IndexOf, At
  <2>3. n \in Entries /\ n.item = item /\ n.picks = <<>>
    BY NoneChosen DEF Entries
  <2> HIDE DEF n
  <2>4. t \in Seq(Entries) /\ \A i \in DOMAIN t : t[i] \in Entries
    BY DEF TasteOK
  <2>5. w \in Seq(Entries) /\ DOMAIN w = DOMAIN t \cup {Len(t) + 1} /\ w[Len(t) + 1] = n /\ \A i \in DOMAIN t : w[i] = t[i]
    BY <2>3, <2>4
  <2> HIDE DEF w
  <2>6. \A i \in DOMAIN t : ItemOf[t[i]] = t[i].item /\ t[i].item # item
    BY <2>2, <2>4 DEF At, ItemOf
  <2>7. ItemOf[n] = item
    BY <2>3 DEF ItemOf
  <2>8. Apart(ItemOf, w)
    BY <2>5, <2>6, <2>7 DEF TasteOK, Apart
  <2>9. TasteOK(w)
    BY <2>5, <2>8 DEF TasteOK
  <2>10. At(w, item) # {}
    BY <2>3, <2>5 DEF At
  <2>11. ASSUME NEW j \in Items PROVE Book(w)[j] = Book(t)[j]
    <3>1. CASE j = item
      <4>1. Len(t) + 1 \in DOMAIN w
        BY <2>5
      <4>2. Book(w)[item] = <<>>
        BY <4>1, <2>3, <2>5, <2>9, BookAt
      <4> QED BY <3>1, <4>2, <2>2, BookTyped
    <3>2. CASE j # item /\ At(t, j) = {}
      <4>1. At(w, j) = {}
        BY <3>2, <2>3, <2>5 DEF At
      <4> QED BY <4>1, <3>2, <2>9, BookTyped
    <3>3. CASE j # item /\ At(t, j) # {}
      <4>1. PICK i \in DOMAIN t : t[i].item = j /\ Book(t)[j] = t[i].picks
        BY <3>3, BookTyped
      <4>2. i \in DOMAIN w /\ w[i] = t[i]
        BY <2>5
      <4>3. Book(w)[w[i].item] = w[i].picks
        BY <4>2, <2>9, BookAt
      <4> QED BY <4>1, <4>2, <4>3
    <3> QED BY <3>1, <3>2, <3>3
  <2>12. Book(w) = Book(t)
    <3>1. Book(w) \in [Items -> Choosing] /\ Book(t) \in [Items -> Choosing]
      BY <2>9, BookTyped
    <3> QED BY <3>1, <2>11
  <2> QED BY <2>1, <2>9, <2>10, <2>12
<1> QED BY <1>1, <1>2

\* What Prune makes of an entry.
Aged(e) == IF e.used < now - TTL
           THEN [e EXCEPT !.picks = [g \in Stores!Explicit(e) |-> e.picks[g]]]
           ELSE e

LEMMA AgedIs ==
    ASSUME NEW e \in Entries
    PROVE  /\ Aged(e) \in Entries /\ Aged(e).item = e.item
           /\ \A g \in DOMAIN Aged(e).picks : g \in DOMAIN e.picks /\ Aged(e).picks[g] = e.picks[g]
           /\ \A g \in DOMAIN e.picks : e.picks[g].source = "explicit" => g \in DOMAIN Aged(e).picks
<1> DEFINE x == [g \in Stores!Explicit(e) |-> e.picks[g]]
<1>1. e.picks \in Choosing
  BY DEF Entries
<1>2. DOMAIN x \subseteq DOMAIN e.picks /\ \A g \in DOMAIN x : x[g] = e.picks[g]
  BY DEF Stores!Explicit
<1>3. \A g \in DOMAIN e.picks : e.picks[g].source = "explicit" => g \in DOMAIN x
  BY DEF Stores!Explicit
<1>4. x \in Choosing
  <2>1. DOMAIN e.picks \subseteq Groups /\ \A g \in DOMAIN e.picks : e.picks[g] \in Stores!Picks
    BY <1>1, ChoosingIs
  <2>2. x \in [DOMAIN x -> Stores!Picks]
    BY <2>1, <1>2
  <2> HIDE DEF x
  <2>3. DOMAIN x \subseteq Groups
    BY <1>2, <2>1
  <2> QED BY <2>2, <2>3, ChoosingIs
<1> HIDE DEF x
<1>5. [e EXCEPT !.picks = x] \in Entries /\ [e EXCEPT !.picks = x].picks = x /\ [e EXCEPT !.picks = x].item = e.item
  BY <1>4 DEF Entries
<1>6. CASE e.used < now - TTL
  <2>1. Aged(e) = [e EXCEPT !.picks = x]
    BY <1>6 DEF Aged, x
  <2> QED BY <2>1, <1>5, <1>2, <1>3
<1>7. CASE ~(e.used < now - TTL)
  BY <1>7 DEF Aged
<1> QED BY <1>6, <1>7

LEMMA PrunedKeeps ==
    ASSUME NEW t, TasteOK(t)
    PROVE  TasteOK(Stores!Pruned(t)) /\ Trims(Book(t), Book(Stores!Pruned(t)))
<1> DEFINE a == [i \in DOMAIN t |-> Aged(t[i])]
           K == {e \in ToSet(a) : DOMAIN e.picks # {} \/ e.dontCare # {}}
           u == Stores!Only(a, K)
<1>1. \A i \in DOMAIN t : t[i] \in Entries
  BY DEF TasteOK
<1>2. a \in [DOMAIN t -> Entries] /\ \A i \in DOMAIN t : a[i].item = t[i].item
  BY <1>1, AgedIs
<1>3. Stores!Pruned(t) = u
  <2>1. a = [i \in DOMAIN t |-> IF t[i].used < now - TTL
                   THEN [t[i] EXCEPT !.picks = [g \in Stores!Explicit(t[i]) |-> t[i].picks[g]]]
                   ELSE t[i]]
    BY DEF Aged
  <2> HIDE DEF a
  <2>2. Stores!Pruned(t) = Stores!Only(a, {e \in Stores!ToSet(a) : DOMAIN e.picks # {} \/ e.dontCare # {}})
    BY <2>1, Zenon DEF Stores!Pruned
  <2>3. Stores!ToSet(a) = ToSet(a)
    BY SameHere
  <2> QED BY <2>2, <2>3
<1>4. \A i \in DOMAIN t : a[i] = Aged(t[i]) /\ (DOMAIN a[i].picks # {} => a[i] \in K)
  BY DEF ToSet
<1> HIDE DEF a, K, u
<1>5. /\ TasteOK(a) /\ DOMAIN a = DOMAIN t
      /\ \A i \in DOMAIN t : Book(a)[t[i].item] = a[i].picks
      /\ \A j \in Items : At(t, j) = {} => Book(a)[j] = <<>>
  BY <1>2, MappedEntries
<1>6. TasteOK(u) /\ \A j \in Items : Book(u)[j] = IF \E k \in DOMAIN a : a[k].item = j /\ a[k] \in K THEN Book(a)[j] ELSE <<>>
  BY <1>5, KeptEntries DEF u
<1>7. ASSUME NEW j \in Items
      PROVE  /\ \A g \in DOMAIN Book(u)[j] : g \in DOMAIN Book(t)[j] /\ Book(u)[j][g] = Book(t)[j][g]
             /\ \A g \in DOMAIN Book(t)[j] : Book(t)[j][g].source = "explicit" => g \in DOMAIN Book(u)[j]
  <2>1. CASE At(t, j) = {}
    <3>1. Book(t)[j] = <<>> /\ Book(a)[j] = <<>>
      BY <2>1, <1>5, BookTyped
    <3>2. Book(u)[j] = <<>>
      BY <3>1, <1>6
    <3> QED BY <3>1, <3>2, NoneChosen
  <2>2. CASE At(t, j) # {}
    <3>1. PICK i \in DOMAIN t : t[i].item = j /\ Book(t)[j] = t[i].picks
      BY <2>2, BookTyped
    <3>2. Book(a)[j] = a[i].picks /\ a[i].item = j
      BY <3>1, <1>2, <1>5
    <3>3. /\ \A g \in DOMAIN a[i].picks : g \in DOMAIN t[i].picks /\ a[i].picks[g] = t[i].picks[g]
          /\ \A g \in DOMAIN t[i].picks : t[i].picks[g].source = "explicit" => g \in DOMAIN a[i].picks
      BY <1>1, <1>4, AgedIs
    <3>4. CASE \E k \in DOMAIN a : a[k].item = j /\ a[k] \in K
      <4>1. Book(u)[j] = a[i].picks
        BY <3>2, <3>4, <1>6
      <4> QED BY <4>1, <3>1, <3>3
    <3>5. CASE ~\E k \in DOMAIN a : a[k].item = j /\ a[k] \in K
      <4>1. Book(u)[j] = <<>>
        BY <3>5, <1>6
      <4>2. a[i] \notin K
        BY <3>5, <3>2, <1>5
      <4>3. DOMAIN a[i].picks = {}
        BY <4>2, <1>4
      <4> QED BY <4>1, <4>3, <3>1, <3>3, NoneChosen
    <3> QED BY <3>4, <3>5
  <2> QED BY <2>1, <2>2
<1>8. Trims(Book(t), Book(u))
  BY <1>7 DEF Trims
<1> QED BY <1>3, <1>6, <1>8

\* EnforceCaps prunes and evicts: it takes nothing the user said.
LEMMA CapsKeep ==
    ASSUME NEW t, TasteOK(t)
    PROVE  TasteOK(Stores!EnforceCaps(t)) /\ Trims(Book(t), Book(Stores!EnforceCaps(t)))
<1> DEFINE base == Stores!Pruned(t)
           A == {u \in Seq(Entries) : TasteOK(u) /\ Trims(Book(t), Book(u))}
           F == [p \in A \X Entries |-> Stores!EvictOne(p[1])]
           Of(g) == [s \in SUBSET DOMAIN t |-> IF s = {} THEN base ELSE Stores!EvictOne(g[s \ {Max(s)}])]
           h == CHOOSE g : g = Of(g)
<1>1. t \in Seq(Entries)
  BY DEF TasteOK
<1>2. base \in A
  BY PrunedKeeps DEF TasteOK
<1>3. ASSUME NEW u \in A PROVE Stores!EvictOne(u) \in A
  <2>1. TasteOK(u) /\ Trims(Book(t), Book(u))
    OBVIOUS
  <2>2. TasteOK(Stores!EvictOne(u)) /\ Trims(Book(u), Book(Stores!EvictOne(u)))
    BY <2>1, EvictKeeps
  <2>3. Trims(Book(t), Book(Stores!EvictOne(u)))
    BY <2>1, <2>2, TrimsOn
  <2> QED BY <2>2, <2>3 DEF TasteOK
<1>4. Stores!EnforceCaps(t) = h[DOMAIN t]
  BY DEF Stores!EnforceCaps, Stores!FoldLeft, Stores!MapThenFoldSet, Stores!Max, Max
<1> HIDE DEF A, base
<1>5. F \in [A \X Entries -> A]
  BY <1>3
<1>6. PICK g : LeftFolded(g, F, base, t) /\ \A s \in SUBSET DOMAIN t : g[s] \in A
  <2> HIDE DEF F
  <2> QED BY <1>1, <1>2, <1>5, LeftFoldExists
<1>7. ASSUME NEW s \in SUBSET DOMAIN t, s # {} PROVE g[s \ {Max(s)}] \in A /\ t[Max(s)] \in Entries
  BY <1>1, <1>6, <1>7, LastIsPicked
<1>8. g = Of(g)
  BY <1>6, <1>7 DEF LeftFolded
<1>9. h = Of(h)
  BY <1>8
<1> HIDE DEF h
<1>10. \A s \in SUBSET DOMAIN t : h[s] = IF s = {} THEN base ELSE Stores!EvictOne(h[s \ {Max(s)}])
  BY <1>9, Zenon
<1>11. h[{}] \in A
  BY <1>2, <1>10
<1>12. ASSUME NEW s \in SUBSET DOMAIN t, s # {}, h[s \ {Max(s)}] \in A PROVE h[s] \in A
  BY <1>3, <1>10, <1>12
<1>13. h[DOMAIN t] \in A
  BY <1>1, <1>11, <1>12, LeftFoldStays
<1> QED BY <1>4, <1>13 DEF A

\* Orders in a row, by group.
Runs == UNION {[S -> [choice : Flavours, n : Nat]] : S \in SUBSET Groups}

LEMMA RunsIs ==
    ASSUME NEW f
    PROVE  f \in Runs <=> DOMAIN f \subseteq Groups /\ f \in [DOMAIN f -> [choice : Flavours, n : Nat]]
<1> QED BY DEF Runs

LEMMA NoRuns == <<>> \in Runs /\ DOMAIN <<>> = {}
<1>1. <<>> \in [{} -> [choice : Flavours, n : Nat]]
  OBVIOUS
<1> QED BY <1>1, RunsIs

\* What is inferred was ordered as often in a row, unless it was declined.
Backed(picks, r) ==
    \A g \in DOMAIN picks : picks[g].source = "inferred" /\ ~picks[g].declined =>
        g \in DOMAIN r /\ r[g].choice = picks[g].choice /\ r[g].n >= picks[g].count
\* The two have the same explicit picks.
SameSaid(p, q) ==
    /\ \A g \in DOMAIN p : p[g].source = "explicit" => g \in DOMAIN q /\ q[g] = p[g]
    /\ \A g \in DOMAIN q : q[g].source = "explicit" => g \in DOMAIN p /\ q[g] = p[g]

LEMMA PickSet ==
    ASSUME NEW f \in Choosing, NEW g \in Groups, NEW v \in Stores!Picks
    PROVE  Stores!SetPick(f, g, v) \in Choosing
<1> DEFINE u == Stores!SetPick(f, g, v)
<1>1. DOMAIN f \subseteq Groups /\ \A h \in DOMAIN f : f[h] \in Stores!Picks
  BY ChoosingIs
<1>2. /\ DOMAIN u = DOMAIN f \cup {g} /\ u[g] = v /\ \A h \in DOMAIN f : h # g => u[h] = f[h]
      /\ u = [h \in DOMAIN f \cup {g} |-> u[h]]
  BY DEF Stores!SetPick
<1> HIDE DEF u
<1>3. DOMAIN u \subseteq Groups /\ u \in [DOMAIN u -> Stores!Picks]
  BY <1>1, <1>2
<1>4. u \in Choosing
  BY <1>3, ChoosingIs
<1> QED BY <1>4 DEF u

LEMMA RunSet ==
    ASSUME NEW f \in Runs, NEW g \in Groups, NEW v \in [choice : Flavours, n : Nat]
    PROVE  Stores!SetPick(f, g, v) \in Runs
<1> DEFINE u == Stores!SetPick(f, g, v)
<1>1. DOMAIN f \subseteq Groups /\ \A h \in DOMAIN f : f[h] \in [choice : Flavours, n : Nat]
  BY RunsIs
<1>2. /\ DOMAIN u = DOMAIN f \cup {g} /\ u[g] = v /\ \A h \in DOMAIN f : h # g => u[h] = f[h]
      /\ u = [h \in DOMAIN f \cup {g} |-> u[h]]
  BY DEF Stores!SetPick
<1> HIDE DEF u
<1>3. DOMAIN u \subseteq Groups /\ u \in [DOMAIN u -> [choice : Flavours, n : Nat]]
  BY <1>1, <1>2
<1>4. u \in Runs
  BY <1>3, RunsIs
<1> QED BY <1>4 DEF u

LEMMA RunIs ==
    ASSUME NEW r \in Runs, NEW o \in Stores!Obs
    PROVE  /\ Stores!Run(r, o) \in Runs
           /\ DOMAIN Stores!Run(r, o) = DOMAIN r \cup {o.group}
           /\ Stores!Run(r, o)[o.group].choice = o.choice
           /\ Stores!Run(r, o)[o.group].n >= 1
           /\ o.group \in DOMAIN r /\ r[o.group].choice = o.choice =>
                Stores!Run(r, o)[o.group].n = r[o.group].n + 1
           /\ \A g \in DOMAIN r : g # o.group => Stores!Run(r, o)[g] = r[g]
<1> DEFINE u == Stores!Run(r, o)
           one == [choice |-> o.choice, n |-> 1]
<1>1. DOMAIN r \subseteq Groups /\ (\A h \in DOMAIN r : r[h] \in [choice : Flavours, n : Nat]) /\ r = [h \in DOMAIN r |-> r[h]]
  BY RunsIs
<1>2. o.group \in Groups /\ o.choice \in Flavours /\ one \in [choice : Flavours, n : Nat]
  BY DEF Stores!Obs
<1>3. CASE o.group \in DOMAIN r /\ r[o.group].choice = o.choice
  <2> DEFINE x == [r[o.group] EXCEPT !.n = r[o.group].n + 1]
  <2>1. u = [r EXCEPT ![o.group] = x]
    BY <1>3 DEF Stores!Run
  <2>2. x \in [choice : Flavours, n : Nat] /\ x.choice = o.choice /\ x.n = r[o.group].n + 1 /\ x.n >= 1
    <3>1. r[o.group] \in [choice : Flavours, n : Nat]
      BY <1>1, <1>3
    <3>2. r[o.group].n \in Nat
      BY <3>1
    <3> QED BY <3>1, <3>2, <1>3
  <2> HIDE DEF x, u
  <2>3. DOMAIN u = DOMAIN r /\ u[o.group] = x /\ \A g \in DOMAIN r : g # o.group => u[g] = r[g]
    BY <2>1, <1>3
  <2>4. u \in [DOMAIN u -> [choice : Flavours, n : Nat]]
    BY <2>1, <2>2, <1>1
  <2>5. u \in Runs
    BY <2>3, <2>4, <1>1, RunsIs
  <2>6. DOMAIN u = DOMAIN r \cup {o.group}
    BY <2>3, <1>3
  <2> QED BY <2>2, <2>3, <2>5, <2>6, <1>3 DEF u
<1>4. CASE ~(o.group \in DOMAIN r /\ r[o.group].choice = o.choice)
  <2>1. u = Stores!SetPick(r, o.group, one)
    BY <1>4 DEF Stores!Run
  <2>2. Stores!SetPick(r, o.group, one) \in Runs
    BY <1>2, RunSet
  <2>3. one.choice = o.choice /\ one.n = 1
    OBVIOUS
  <2> HIDE DEF one, u
  <2>4. DOMAIN u = DOMAIN r \cup {o.group} /\ u[o.group] = one /\ \A g \in DOMAIN r : g # o.group => u[g] = r[g]
    BY <2>1 DEF Stores!SetPick
  <2> QED BY <2>1, <2>2, <2>3, <2>4, <1>4 DEF u
<1> QED BY <1>3, <1>4

LEMMA TallyIs ==
    ASSUME NEW p \in Choosing, NEW o \in Stores!Obs
    PROVE  Stores!Tally(p, o) \in Choosing /\ SameSaid(p, Stores!Tally(p, o))
<1> DEFINE first == [choice |-> o.choice, source |-> "inferred", count |-> 1, declined |-> FALSE]
           old == p[o.group]
           more == [old EXCEPT !.count = old.count + 1]
<1>1. o.group \in Groups /\ o.choice \in Flavours
  BY DEF Stores!Obs
<1>2. first \in Stores!Picks /\ first.source # "explicit"
  BY <1>1 DEF Stores!Picks
<1>3. \A h \in DOMAIN p : p[h] \in Stores!Picks
  BY ChoosingIs
<1>4. CASE o.group \in DOMAIN p /\ old.source = "explicit"
  BY <1>4 DEF Stores!Tally, SameSaid
<1>5. CASE o.group \in DOMAIN p /\ old.source # "explicit" /\ old.choice = o.choice
  <2>1. Stores!Tally(p, o) = Stores!SetPick(p, o.group, more)
    BY <1>5 DEF Stores!Tally
  <2>2. old \in Stores!Picks
    BY <1>5, <1>3
  <2>3. more \in Stores!Picks /\ more.source = old.source
    BY <2>2 DEF Stores!Picks
  <2> HIDE DEF more
  <2>4. SameSaid(p, Stores!SetPick(p, o.group, more))
    BY <1>5, <2>3 DEF SameSaid, Stores!SetPick
  <2> QED BY <2>1, <2>3, <2>4, <1>1, PickSet
<1>6. CASE o.group \notin DOMAIN p \/ (old.source # "explicit" /\ old.choice # o.choice)
  <2>1. Stores!Tally(p, o) = Stores!SetPick(p, o.group, first)
    BY <1>6 DEF Stores!Tally
  <2> HIDE DEF first
  <2>2. SameSaid(p, Stores!SetPick(p, o.group, first))
    BY <1>6, <1>2 DEF SameSaid, Stores!SetPick
  <2> QED BY <2>1, <2>2, <1>1, <1>2, PickSet
<1> QED BY <1>4, <1>5, <1>6

\* One pick of a placed line.
LEMMA TallyBacked ==
    ASSUME NEW p \in Choosing, NEW r \in Runs, Backed(p, r), NEW o \in Stores!Obs
    PROVE  Backed(Stores!Tally(p, o), Stores!Run(r, o))
<1> DEFINE first == [choice |-> o.choice, source |-> "inferred", count |-> 1, declined |-> FALSE]
           old == p[o.group]
           more == [old EXCEPT !.count = old.count + 1]
           s == Stores!Run(r, o)
<1>1. /\ DOMAIN s = DOMAIN r \cup {o.group}
      /\ s[o.group].choice = o.choice /\ s[o.group].n >= 1
      /\ o.group \in DOMAIN r /\ r[o.group].choice = o.choice => s[o.group].n = r[o.group].n + 1
      /\ \A g \in DOMAIN r : g # o.group => s[g] = r[g]
  BY RunIs
<1>2. \A h \in DOMAIN p : p[h] \in Stores!Picks
  BY ChoosingIs
<1>3. first.choice = o.choice /\ first.count = 1
  OBVIOUS
<1> HIDE DEF s
<1>4. \A g \in DOMAIN p : g # o.group /\ p[g].source = "inferred" /\ ~p[g].declined =>
          g \in DOMAIN s /\ s[g].choice = p[g].choice /\ s[g].n >= p[g].count
  BY <1>1 DEF Backed
<1>5. CASE o.group \in DOMAIN p /\ old.source = "explicit"
  <2>1. Stores!Tally(p, o) = p
    BY <1>5 DEF Stores!Tally
  <2> QED BY <2>1, <1>4, <1>5 DEF Backed, s
<1>6. CASE o.group \in DOMAIN p /\ old.source # "explicit" /\ old.choice = o.choice
  <2>1. Stores!Tally(p, o) = Stores!SetPick(p, o.group, more)
    BY <1>6 DEF Stores!Tally
  <2>2. old \in Stores!Picks
    BY <1>6, <1>2
  <2>3. /\ more.source = old.source /\ more.declined = old.declined /\ more.choice = o.choice
        /\ more.count = old.count + 1 /\ old.count \in Nat
    BY <2>2, <1>6 DEF Stores!Picks
  <2>4. old.source = "inferred" /\ ~old.declined =>
          o.group \in DOMAIN r /\ r[o.group].choice = o.choice /\ r[o.group].n >= old.count
    BY <1>6 DEF Backed
  <2>5. o.group \in DOMAIN r => r[o.group].n \in Nat
    BY RunsIs
  <2> HIDE DEF more, old
  <2>6. more.source = "inferred" /\ ~more.declined => s[o.group].n >= more.count
    BY <2>3, <2>4, <2>5, <1>1
  <2>7. Backed(Stores!SetPick(p, o.group, more), s)
    BY <1>1, <1>4, <2>3, <2>6 DEF Backed, Stores!SetPick
  <2> QED BY <2>1, <2>7 DEF s
<1>7. CASE o.group \notin DOMAIN p \/ (old.source # "explicit" /\ old.choice # o.choice)
  <2>1. Stores!Tally(p, o) = Stores!SetPick(p, o.group, first)
    BY <1>7 DEF Stores!Tally
  <2> HIDE DEF first
  <2>2. Backed(Stores!SetPick(p, o.group, first), s)
    BY <1>1, <1>3, <1>4 DEF Backed, Stores!SetPick
  <2> QED BY <2>1, <2>2 DEF s
<1> QED BY <1>5, <1>6, <1>7

LEMMA SameSaidOn ==
    ASSUME NEW a, NEW b, NEW c, SameSaid(a, b), SameSaid(b, c)
    PROVE  SameSaid(a, c)
<1>1. \A g \in DOMAIN a : a[g].source = "explicit" => g \in DOMAIN c /\ c[g] = a[g]
  BY DEF SameSaid
<1>2. \A g \in DOMAIN c : c[g].source = "explicit" => g \in DOMAIN a /\ c[g] = a[g]
  BY DEF SameSaid
<1> QED BY <1>1, <1>2 DEF SameSaid

\* A placed line: what the user said stands, what is inferred was ordered as often.
LEMMA TallyLine ==
    ASSUME NEW p \in Choosing, NEW r \in Runs, Backed(p, r), NEW line \in Seq(Stores!Obs)
    PROVE  /\ Stores!FoldLeft(Stores!Tally, p, line) \in Choosing
           /\ Stores!FoldLeft(Stores!Run, r, line) \in Runs
           /\ SameSaid(p, Stores!FoldLeft(Stores!Tally, p, line))
           /\ Backed(Stores!FoldLeft(Stores!Tally, p, line), Stores!FoldLeft(Stores!Run, r, line))
<1> DEFINE O == Stores!Obs
           F == [x \in Choosing \X O |-> Stores!Tally(x[1], x[2])]
           Of(g) == [s \in SUBSET DOMAIN line |->
                      IF s = {} THEN p ELSE Stores!Tally(g[s \ {Max(s)}], line[Max(s)])]
           h == CHOOSE g : g = Of(g)
           F2 == [x \in Runs \X O |-> Stores!Run(x[1], x[2])]
           Of2(g) == [s \in SUBSET DOMAIN line |->
                      IF s = {} THEN r ELSE Stores!Run(g[s \ {Max(s)}], line[Max(s)])]
           h2 == CHOOSE g : g = Of2(g)
<1>1. F \in [Choosing \X O -> Choosing] /\ F2 \in [Runs \X O -> Runs]
  <2>1. \A x \in Choosing \X O : Stores!Tally(x[1], x[2]) \in Choosing
    BY TallyIs
  <2>2. \A x \in Runs \X O : Stores!Run(x[1], x[2]) \in Runs
    BY RunIs
  <2> QED BY <2>1, <2>2
<1>2. Stores!FoldLeft(Stores!Tally, p, line) = h[DOMAIN line]
  BY DEF Stores!FoldLeft, Stores!MapThenFoldSet, Stores!Max, Max
<1>3. Stores!FoldLeft(Stores!Run, r, line) = h2[DOMAIN line]
  BY DEF Stores!FoldLeft, Stores!MapThenFoldSet, Stores!Max, Max
<1>4. PICK g : LeftFolded(g, F, p, line) /\ \A s \in SUBSET DOMAIN line : g[s] \in Choosing
  <2> HIDE DEF F, O
  <2> QED BY <1>1, LeftFoldExists DEF O
<1>5. PICK g2 : LeftFolded(g2, F2, r, line) /\ \A s \in SUBSET DOMAIN line : g2[s] \in Runs
  <2> HIDE DEF F2, O
  <2> QED BY <1>1, LeftFoldExists DEF O
<1>6. ASSUME NEW s \in SUBSET DOMAIN line, s # {}
      PROVE  g[s \ {Max(s)}] \in Choosing /\ g2[s \ {Max(s)}] \in Runs /\ line[Max(s)] \in O
  BY <1>4, <1>5, <1>6, LastIsPicked
<1>7. g = Of(g)
  BY <1>4, <1>6 DEF LeftFolded
<1>8. g2 = Of2(g2)
  BY <1>5, <1>6 DEF LeftFolded
<1>9. h = Of(h)
  BY <1>7
<1>10. h2 = Of2(h2)
  BY <1>8
<1> HIDE DEF h, h2
<1>11. \A s \in SUBSET DOMAIN line : h[s] = IF s = {} THEN p ELSE Stores!Tally(h[s \ {Max(s)}], line[Max(s)])
  BY <1>9, Zenon
<1>12. \A s \in SUBSET DOMAIN line : h2[s] = IF s = {} THEN r ELSE Stores!Run(h2[s \ {Max(s)}], line[Max(s)])
  BY <1>10, Zenon
<1> DEFINE G == {s \in SUBSET DOMAIN line : h[s] \in Choosing /\ h2[s] \in Runs /\ SameSaid(p, h[s]) /\ Backed(h[s], h2[s])}
<1>13. {} \in G
  <2>1. h[{}] = p /\ h2[{}] = r
    BY <1>11, <1>12
  <2>2. SameSaid(p, p)
    BY DEF SameSaid
  <2> QED BY <2>1, <2>2
<1>14. ASSUME NEW s \in SUBSET DOMAIN line, s # {}, s \ {Max(s)} \in G PROVE s \in G
  <2> DEFINE a == h[s \ {Max(s)}]
             b == h2[s \ {Max(s)}]
             o == line[Max(s)]
  <2>1. a \in Choosing /\ b \in Runs /\ SameSaid(p, a) /\ Backed(a, b) /\ o \in Stores!Obs
    BY <1>6, <1>14
  <2>2. h[s] = Stores!Tally(a, o) /\ h2[s] = Stores!Run(b, o)
    BY <1>11, <1>12, <1>14
  <2> HIDE DEF a, b, o
  <2>3. Stores!Tally(a, o) \in Choosing /\ SameSaid(a, Stores!Tally(a, o))
    BY <2>1, TallyIs
  <2>4. Stores!Run(b, o) \in Runs
    BY <2>1, RunIs
  <2>5. Backed(Stores!Tally(a, o), Stores!Run(b, o))
    BY <2>1, TallyBacked
  <2>6. SameSaid(p, Stores!Tally(a, o))
    BY <2>1, <2>3, SameSaidOn
  <2> QED BY <2>2, <2>3, <2>4, <2>5, <2>6
<1>15. DOMAIN line \in G
  <2> HIDE DEF G
  <2> QED BY <1>13, <1>14, Along
<1> QED BY <1>2, <1>3, <1>15

\* The last place of s in which line has that group.
LastIn(line, s, k) == k \in s /\ \A l \in s : line[l].group = line[k].group => l <= k
Spoken(o) == [choice |-> o.choice, source |-> "explicit", count |-> 0, declined |-> FALSE]
\* q is p with what the places s of the line say.
Told(p, line, s, q) ==
    /\ \A g \in Groups : (\A l \in s : line[l].group # g) => (g \in DOMAIN q <=> g \in DOMAIN p) /\ (g \in DOMAIN p => q[g] = p[g])
    /\ \A k \in s : line[k].group \in DOMAIN q
    /\ \A k \in s : LastIn(line, s, k) => q[line[k].group] = Spoken(line[k])

LEMMA SayLine ==
    ASSUME NEW p \in Choosing, NEW line \in Seq(Stores!Obs)
    PROVE  /\ Stores!FoldLeft(Stores!Say, p, line) \in Choosing
           /\ Told(p, line, DOMAIN line, Stores!FoldLeft(Stores!Say, p, line))
<1> DEFINE O == Stores!Obs
           F == [x \in Choosing \X O |-> Stores!Say(x[1], x[2])]
           Of(g) == [s \in SUBSET DOMAIN line |->
                      IF s = {} THEN p ELSE Stores!Say(g[s \ {Max(s)}], line[Max(s)])]
           h == CHOOSE g : g = Of(g)
<1>0. ASSUME NEW a \in Choosing, NEW o \in Stores!Obs
      PROVE  Stores!Say(a, o) \in Choosing /\ Stores!Say(a, o) = Stores!SetPick(a, o.group, Spoken(o))
  <2>1. o.group \in Groups /\ Spoken(o) \in Stores!Picks
    BY DEF Stores!Obs, Spoken, Stores!Picks
  <2>2. Stores!Say(a, o) = Stores!SetPick(a, o.group, Spoken(o))
    BY DEF Stores!Say, Spoken
  <2> QED BY <2>1, <2>2, PickSet
<1>1. F \in [Choosing \X O -> Choosing]
  <2>1. \A x \in Choosing \X O : Stores!Say(x[1], x[2]) \in Choosing
    BY <1>0
  <2> QED BY <2>1
<1>2. Stores!FoldLeft(Stores!Say, p, line) = h[DOMAIN line]
  BY DEF Stores!FoldLeft, Stores!MapThenFoldSet, Stores!Max, Max
<1>4. PICK g : LeftFolded(g, F, p, line) /\ \A s \in SUBSET DOMAIN line : g[s] \in Choosing
  <2> HIDE DEF F, O
  <2> QED BY <1>1, LeftFoldExists DEF O
<1>6. ASSUME NEW s \in SUBSET DOMAIN line, s # {}
      PROVE  g[s \ {Max(s)}] \in Choosing /\ line[Max(s)] \in O
  BY <1>4, <1>6, LastIsPicked
<1>7. g = Of(g)
  BY <1>4, <1>6 DEF LeftFolded
<1>9. h = Of(h)
  BY <1>7
<1> HIDE DEF h
<1>11. \A s \in SUBSET DOMAIN line : h[s] = IF s = {} THEN p ELSE Stores!Say(h[s \ {Max(s)}], line[Max(s)])
  BY <1>9, Zenon
<1> DEFINE G == {s \in SUBSET DOMAIN line : h[s] \in Choosing /\ Told(p, line, s, h[s])}
<1>13. {} \in G
  <2>1. h[{}] = p
    BY <1>11
  <2>2. Told(p, line, {}, p)
    BY DEF Told
  <2> QED BY <2>1, <2>2
<1>14. ASSUME NEW s \in SUBSET DOMAIN line, s # {}, s \ {Max(s)} \in G PROVE s \in G
  <2> DEFINE m == Max(s)
             t == s \ {m}
             a == h[t]
             o == line[m]
  <2>1. a \in Choosing /\ Told(p, line, t, a) /\ o \in Stores!Obs /\ o.group \in Groups
    BY <1>6, <1>14 DEF Stores!Obs
  <2>2. h[s] = Stores!SetPick(a, o.group, Spoken(o)) /\ h[s] \in Choosing
    BY <1>11, <1>14, <1>0, <2>1
  <2>3. m \in s /\ \A k \in s : k <= m
    <3>1. DOMAIN line = 1..Len(line) /\ Len(line) \in Nat
      OBVIOUS
    <3> QED BY <3>1, <1>14, MaxIsIn
  <2>4. s = t \cup {m} /\ m \notin t /\ \A k \in t : k < m
    <3>1. \A k \in s : k \in Int
      OBVIOUS
    <3> HIDE DEF m
    <3> QED BY <2>3, <3>1
  <2>5. \A k \in s : line[k].group \in Groups
    <3>1. \A k \in s : line[k] \in Stores!Obs
      OBVIOUS
    <3> QED BY <3>1 DEF Stores!Obs
  <2> DEFINE q == h[s]
  <2>6. DOMAIN q = DOMAIN a \cup {o.group} /\ q[o.group] = Spoken(o) /\ \A g_ \in DOMAIN a : g_ # o.group => q[g_] = a[g_]
    BY <2>2 DEF Stores!SetPick
  <2> HIDE DEF m, a, q
  <2>7. ASSUME NEW k \in s, LastIn(line, s, k) PROVE q[line[k].group] = Spoken(line[k])
    <3>1. CASE line[k].group = o.group
      <4>1. m <= k /\ k <= m /\ m \in Int /\ k \in Int
        BY <3>1, <2>3, <2>7 DEF LastIn
      <4>2. k = m
        BY <4>1
      <4> QED BY <4>2, <2>6
    <3>2. CASE line[k].group # o.group
      <4>1. k \in t /\ LastIn(line, t, k)
        BY <3>2, <2>4, <2>7 DEF LastIn
      <4>2. a[line[k].group] = Spoken(line[k]) /\ line[k].group \in DOMAIN a
        BY <4>1, <2>1 DEF Told
      <4> QED BY <4>2, <3>2, <2>6
    <3> QED BY <3>1, <3>2
  <2>8. ASSUME NEW k \in s PROVE line[k].group \in DOMAIN q
    BY <2>1, <2>4, <2>6 DEF Told
  <2>9. ASSUME NEW x \in Groups, \A l \in s : line[l].group # x
        PROVE  (x \in DOMAIN q <=> x \in DOMAIN p) /\ (x \in DOMAIN p => q[x] = p[x])
    <3>1. x # o.group /\ \A l \in t : line[l].group # x
      BY <2>4, <2>9
    <3>2. (x \in DOMAIN a <=> x \in DOMAIN p) /\ (x \in DOMAIN p => a[x] = p[x])
      BY <3>1, <2>1 DEF Told
    <3> QED BY <3>1, <3>2, <2>6
  <2>10. Told(p, line, s, q)
    BY <2>7, <2>8, <2>9 DEF Told
  <2> QED BY <2>2, <2>10 DEF q
<1>15. DOMAIN line \in G
  <2> HIDE DEF G
  <2> QED BY <1>13, <1>14, Along
<1> QED BY <1>2, <1>15

\* b with other picks for one dish, after EnforceCaps: a file of which that is the book.
Becomes(t, item, picks, u) ==
    TasteOK(u) /\ Trims([Book(t) EXCEPT ![item] = picks], Book(u))

\* An operation on the entry of a dish that is there, and EnforceCaps.
LEMMA EntryBecomes ==
    ASSUME NEW t, TasteOK(t), NEW w, TasteOK(w), Book(w) = Book(t), NEW item \in Items,
           NEW k \in DOMAIN w, w[k].item = item, NEW c \in Entries, c.item = item,
           NEW u, u = [i \in DOMAIN w |-> IF i = k THEN c ELSE w[i]]
    PROVE  Becomes(t, item, c.picks, Stores!EnforceCaps(u))
<1>1. TasteOK(u) /\ Book(u) = [Book(t) EXCEPT ![item] = c.picks]
  BY ChangedEntry
<1>2. TasteOK(Stores!EnforceCaps(u)) /\ Trims(Book(u), Book(Stores!EnforceCaps(u)))
  BY <1>1, CapsKeep
<1> QED BY <1>1, <1>2 DEF Becomes

LEMMA ObserveIs ==
    ASSUME NEW t, TasteOK(t), now \in Nat, NEW item \in Items, NEW line \in Seq(Stores!Obs)
    PROVE  Becomes(t, item, Stores!FoldLeft(Stores!Tally, Book(t)[item], line), Stores!Observe(t, item, line))
<1> DEFINE w == Stores!Entered(t, item)
<1>1. TasteOK(w) /\ Book(w) = Book(t) /\ At(w, item) # {}
  BY EnteredIs
<1>2. PICK k \in DOMAIN w : w[k].item = item
  BY <1>1 DEF At
<1>3. /\ w[k] \in Entries /\ Book(t)[item] = w[k].picks /\ w[k].picks \in Choosing
      /\ \A i \in DOMAIN w : w[i].item = item <=> i = k
  <2>1. w[k] \in Entries /\ At(w, item) = {k} /\ Book(w)[item] = w[k].picks
    BY <1>1, <1>2, BookAt
  <2> QED BY <2>1, <1>1 DEF At, Entries
<1> DEFINE q == Stores!FoldLeft(Stores!Tally, w[k].picks, line)
           c == [w[k] EXCEPT !.picks = q, !.used = now]
           u == Stores!OnEntry(w, item, LAMBDA e : [e EXCEPT !.picks = Stores!FoldLeft(Stores!Tally, e.picks, line), !.used = now])
<1>4. q \in Choosing
  <2>1. <<>> \in Runs /\ w[k].picks \in Choosing
    BY <1>3, NoRuns
  <2>2. PICK r \in Runs : Backed(w[k].picks, r)
    <3> DEFINE p == w[k].picks
               r == [g \in DOMAIN p |-> [choice |-> p[g].choice, n |-> p[g].count]]
    <3>1. DOMAIN p \subseteq Groups /\ \A g \in DOMAIN p : p[g] \in Stores!Picks
      BY <1>3, ChoosingIs
    <3>2. r \in Runs
      <4>1. \A g \in DOMAIN p : [choice |-> p[g].choice, n |-> p[g].count] \in [choice : Flavours, n : Nat]
        BY <3>1 DEF Stores!Picks
      <4>2. DOMAIN r \subseteq Groups /\ r \in [DOMAIN r -> [choice : Flavours, n : Nat]]
        BY <3>1, <4>1
      <4> QED BY <4>2, RunsIs
    <3>3. Backed(p, r)
      <4>1. \A g \in DOMAIN p : p[g].count \in Nat
        BY <3>1 DEF Stores!Picks
      <4> QED BY <4>1 DEF Backed
    <3> QED BY <3>2, <3>3
  <2> QED BY <2>1, <2>2, TallyLine
<1> HIDE DEF q
<1>5. c \in Entries /\ c.item = item /\ c.picks = q
  BY <1>2, <1>3, <1>4 DEF Entries
<1>6. u = [i \in DOMAIN w |-> IF i = k THEN c ELSE w[i]]
  <2>1. u = [i \in DOMAIN w |-> IF w[i].item = item
               THEN [w[i] EXCEPT !.picks = Stores!FoldLeft(Stores!Tally, w[i].picks, line), !.used = now] ELSE w[i]]
    BY DEF Stores!OnEntry
  <2>2. c = [w[k] EXCEPT !.picks = Stores!FoldLeft(Stores!Tally, w[k].picks, line), !.used = now]
    BY DEF q
  <2> HIDE DEF u, c, w
  <2> QED BY <2>1, <2>2, <1>3
<1>7. Stores!Observe(t, item, line) = Stores!EnforceCaps(u)
  BY DEF Stores!Observe
<1> HIDE DEF c, u, w
<1>8. Becomes(t, item, c.picks, Stores!EnforceCaps(u))
  BY <1>1, <1>2, <1>5, <1>6, EntryBecomes
<1> QED BY <1>7, <1>8, <1>5, <1>3 DEF q

LEMMA UpsertIs ==
    ASSUME NEW t, TasteOK(t), now \in Nat, NEW item \in Items, NEW line \in Seq(Stores!Obs), NEW care \in SUBSET Groups
    PROVE  Becomes(t, item, Stores!FoldLeft(Stores!Say, Book(t)[item], line),
                   Stores!EnforceCaps(Stores!Upsert(t, item, line, care)))
<1> DEFINE w == Stores!Entered(t, item)
<1>1. TasteOK(w) /\ Book(w) = Book(t) /\ At(w, item) # {}
  BY EnteredIs
<1>2. PICK k \in DOMAIN w : w[k].item = item
  BY <1>1 DEF At
<1>3. /\ w[k] \in Entries /\ Book(t)[item] = w[k].picks /\ w[k].picks \in Choosing
      /\ \A i \in DOMAIN w : w[i].item = item <=> i = k
  <2>1. w[k] \in Entries /\ At(w, item) = {k} /\ Book(w)[item] = w[k].picks
    BY <1>1, <1>2, BookAt
  <2> QED BY <2>1, <1>1 DEF At, Entries
<1> DEFINE q == Stores!FoldLeft(Stores!Say, w[k].picks, line)
           c == [w[k] EXCEPT !.picks = q, !.dontCare = w[k].dontCare \cup care, !.used = now]
           u == Stores!OnEntry(w, item, LAMBDA e : [e EXCEPT !.picks = Stores!FoldLeft(Stores!Say, e.picks, line),
                                                             !.dontCare = e.dontCare \cup care, !.used = now])
<1>4. q \in Choosing
  BY <1>3, SayLine
<1> HIDE DEF q
<1>5. c \in Entries /\ c.item = item /\ c.picks = q
  BY <1>2, <1>3, <1>4 DEF Entries
<1>6. u = [i \in DOMAIN w |-> IF i = k THEN c ELSE w[i]]
  <2>1. u = [i \in DOMAIN w |-> IF w[i].item = item
               THEN [w[i] EXCEPT !.picks = Stores!FoldLeft(Stores!Say, w[i].picks, line),
                                 !.dontCare = w[i].dontCare \cup care, !.used = now] ELSE w[i]]
    BY DEF Stores!OnEntry
  <2>2. c = [w[k] EXCEPT !.picks = Stores!FoldLeft(Stores!Say, w[k].picks, line),
                         !.dontCare = w[k].dontCare \cup care, !.used = now]
    BY DEF q
  <2> HIDE DEF u, c, w
  <2> QED BY <2>1, <2>2, <1>3
<1>7. Stores!Upsert(t, item, line, care) = u
  BY DEF Stores!Upsert
<1> HIDE DEF c, u, w
<1>8. Becomes(t, item, c.picks, Stores!EnforceCaps(u))
  BY <1>1, <1>2, <1>5, <1>6, EntryBecomes
<1> QED BY <1>7, <1>8, <1>5, <1>3 DEF q

\* What promoting and declining make of the picks of a dish.
Promoted(p) == [g \in DOMAIN p |-> IF Stores!Qualifies(p[g]) THEN [p[g] EXCEPT !.source = "explicit"] ELSE p[g]]
Declined(p) == [g \in DOMAIN p |-> IF Stores!Qualifies(p[g]) THEN [p[g] EXCEPT !.declined = TRUE] ELSE p[g]]

LEMMA PromotedIs ==
    ASSUME NEW p \in Choosing
    PROVE  /\ Promoted(p) \in Choosing /\ Declined(p) \in Choosing
           /\ \A r : Backed(p, r) => Backed(Promoted(p), r)
           /\ SameSaid(p, Declined(p))
<1>1. DOMAIN p \subseteq Groups /\ \A g \in DOMAIN p : p[g] \in Stores!Picks
  BY ChoosingIs
<1>2. \A g \in DOMAIN p : /\ [p[g] EXCEPT !.source = "explicit"] \in Stores!Picks
                          /\ [p[g] EXCEPT !.source = "explicit"].source = "explicit"
                          /\ [p[g] EXCEPT !.declined = TRUE] \in Stores!Picks
                          /\ [p[g] EXCEPT !.declined = TRUE].source = p[g].source
  BY <1>1 DEF Stores!Picks
<1>3. Promoted(p) \in [DOMAIN p -> Stores!Picks] /\ Declined(p) \in [DOMAIN p -> Stores!Picks]
  BY <1>1, <1>2 DEF Promoted, Declined
<1>4. DOMAIN Promoted(p) = DOMAIN p /\ DOMAIN Declined(p) = DOMAIN p
  BY DEF Promoted, Declined
<1>5. Promoted(p) \in Choosing /\ Declined(p) \in Choosing
  <2>1. Promoted(p) \in [DOMAIN Promoted(p) -> Stores!Picks] /\ Declined(p) \in [DOMAIN Declined(p) -> Stores!Picks]
    BY <1>3, <1>4
  <2> QED BY <2>1, <1>1, <1>4, ChoosingIs
<1>6. ASSUME NEW r, Backed(p, r) PROVE Backed(Promoted(p), r)
  <2>1. \A g \in DOMAIN p : Promoted(p)[g] = p[g] \/ Promoted(p)[g].source = "explicit"
    BY <1>2 DEF Promoted
  <2>2. "explicit" # "inferred"
    OBVIOUS
  <2> QED BY <2>1, <2>2, <1>4, <1>6 DEF Backed
<1>7. SameSaid(p, Declined(p))
  <2>1. \A g \in DOMAIN p : /\ Declined(p)[g].source = p[g].source
                            /\ p[g].source = "explicit" => Declined(p)[g] = p[g]
    BY <1>2 DEF Declined, Stores!Qualifies
  <2> QED BY <2>1, <1>4 DEF SameSaid
<1> QED BY <1>5, <1>6, <1>7

LEMMA PromoteIs ==
    ASSUME NEW t, TasteOK(t), NEW item \in Items
    PROVE  /\ Becomes(t, item, Promoted(Book(t)[item]), Stores!EnforceCaps(Stores!Promote(t, item)))
           /\ Becomes(t, item, Declined(Book(t)[item]), Stores!EnforceCaps(Stores!DeclineSuggestion(t, item)))
<1> DEFINE u == Stores!OnEntry(t, item, LAMBDA e :
                 [e EXCEPT !.picks = [g \in DOMAIN e.picks |->
                    IF Stores!Qualifies(e.picks[g]) THEN [e.picks[g] EXCEPT !.source = "explicit"] ELSE e.picks[g]]])
           v == Stores!OnEntry(t, item, LAMBDA e :
                 [e EXCEPT !.picks = [g \in DOMAIN e.picks |->
                    IF Stores!Qualifies(e.picks[g]) THEN [e.picks[g] EXCEPT !.declined = TRUE] ELSE e.picks[g]]])
<1>1. Stores!Promote(t, item) = u /\ Stores!DeclineSuggestion(t, item) = v
  BY DEF Stores!Promote, Stores!DeclineSuggestion
<1>2. /\ u = [i \in DOMAIN t |-> IF t[i].item = item THEN [t[i] EXCEPT !.picks = Promoted(t[i].picks)] ELSE t[i]]
      /\ v = [i \in DOMAIN t |-> IF t[i].item = item THEN [t[i] EXCEPT !.picks = Declined(t[i].picks)] ELSE t[i]]
  BY DEF Stores!OnEntry, Promoted, Declined
<1> HIDE DEF u, v
<1>3. t \in Seq(Entries) /\ Book(t) \in [Items -> Choosing]
  BY BookTyped DEF TasteOK
<1>4. CASE At(t, item) = {}
  <2>1. \A i \in DOMAIN t : t[i].item # item
    BY <1>4 DEF At
  <2>2. t = [i \in DOMAIN t |-> t[i]]
    BY <1>3
  <2>3. u = t /\ v = t
    BY <2>1, <2>2, <1>2
  <2>4. Book(t)[item] = <<>>
    BY <1>4, BookTyped
  <2>5. Promoted(<<>>) = <<>> /\ Declined(<<>>) = <<>>
    <3>1. DOMAIN <<>> = {}
      OBVIOUS
    <3> QED BY <3>1 DEF Promoted, Declined
  <2>6. [Book(t) EXCEPT ![item] = <<>>] = Book(t)
    BY <2>4, <1>3
  <2>7. TasteOK(Stores!EnforceCaps(t)) /\ Trims(Book(t), Book(Stores!EnforceCaps(t)))
    BY CapsKeep
  <2> QED BY <1>1, <2>3, <2>4, <2>5, <2>6, <2>7 DEF Becomes
<1>5. CASE At(t, item) # {}
  <2>1. PICK k \in DOMAIN t : t[k].item = item
    BY <1>5 DEF At
  <2>2. /\ t[k] \in Entries /\ Book(t)[item] = t[k].picks /\ t[k].picks \in Choosing
        /\ \A i \in DOMAIN t : t[i].item = item <=> i = k
    <3>1. t[k] \in Entries /\ At(t, item) = {k} /\ Book(t)[item] = t[k].picks
      BY <2>1, BookAt
    <3> QED BY <3>1 DEF At, Entries
  <2> DEFINE c == [t[k] EXCEPT !.picks = Promoted(t[k].picks)]
             d == [t[k] EXCEPT !.picks = Declined(t[k].picks)]
  <2>3. /\ c \in Entries /\ c.item = item /\ c.picks = Promoted(t[k].picks)
        /\ d \in Entries /\ d.item = item /\ d.picks = Declined(t[k].picks)
    <3>1. Promoted(t[k].picks) \in Choosing /\ Declined(t[k].picks) \in Choosing
      BY <2>2, PromotedIs
    <3> QED BY <3>1, <2>1, <2>2 DEF Entries
  <2>4. u = [i \in DOMAIN t |-> IF i = k THEN c ELSE t[i]] /\ v = [i \in DOMAIN t |-> IF i = k THEN d ELSE t[i]]
    BY <1>2, <2>2
  <2> HIDE DEF c, d
  <2>5. Becomes(t, item, c.picks, Stores!EnforceCaps(u))
    BY <2>1, <2>3, <2>4, EntryBecomes
  <2>6. Becomes(t, item, d.picks, Stores!EnforceCaps(v))
    BY <2>1, <2>3, <2>4, EntryBecomes
  <2> QED BY <1>1, <2>2, <2>3, <2>5, <2>6
<1> QED BY <1>4, <1>5

\* The dish is forgotten, or one of its groups.
Without(f, S) == [g \in DOMAIN f \ S |-> f[g]]

LEMMA WithoutIs ==
    ASSUME NEW p \in Choosing, NEW S
    PROVE  Without(p, S) \in Choosing
<1>1. DOMAIN p \subseteq Groups /\ \A g \in DOMAIN p : p[g] \in Stores!Picks
  BY ChoosingIs
<1>2. DOMAIN Without(p, S) \subseteq Groups /\ Without(p, S) \in [DOMAIN Without(p, S) -> Stores!Picks]
  BY <1>1 DEF Without
<1> QED BY <1>2, ChoosingIs

LEMMA ForgetIs ==
    ASSUME NEW t, TasteOK(t), NEW item \in Items
    PROVE  Becomes(t, item, <<>>, Stores!EnforceCaps(Stores!ForgetEntry(t, item)))
<1> DEFINE K == {e \in ToSet(t) : e.item # item}
           u == Stores!Only(t, K)
<1>1. Stores!ForgetEntry(t, item) = u
  BY SameHere DEF Stores!ForgetEntry
<1>2. \A k \in DOMAIN t : t[k] \in K <=> t[k].item # item
  BY DEF ToSet
<1> HIDE DEF K, u
<1>3. TasteOK(u) /\ \A i \in Items : Book(u)[i] = IF \E k \in DOMAIN t : t[k].item = i /\ t[k] \in K THEN Book(t)[i] ELSE <<>>
  BY KeptEntries DEF u
<1>4. ASSUME NEW i \in Items PROVE Book(u)[i] = IF i = item THEN <<>> ELSE Book(t)[i]
  <2>1. CASE i = item
    BY <2>1, <1>2, <1>3
  <2>2. CASE i # item /\ At(t, i) = {}
    BY <2>2, <1>3, BookTyped
  <2>3. CASE i # item /\ At(t, i) # {}
    <3>1. PICK k \in DOMAIN t : t[k].item = i
      BY <2>3 DEF At
    <3> QED BY <3>1, <2>3, <1>2, <1>3
  <2> QED BY <2>1, <2>2, <2>3
<1>5. Book(u) = [Book(t) EXCEPT ![item] = <<>>]
  <2>1. Book(u) \in [Items -> Choosing] /\ Book(t) \in [Items -> Choosing]
    BY <1>3, BookTyped
  <2> QED BY <2>1, <1>4
<1>6. TasteOK(Stores!EnforceCaps(u)) /\ Trims(Book(u), Book(Stores!EnforceCaps(u)))
  BY <1>3, CapsKeep
<1> QED BY <1>1, <1>5, <1>6 DEF Becomes

LEMMA ForgetPickIs ==
    ASSUME NEW t, TasteOK(t), NEW item \in Items, NEW g \in Groups
    PROVE  Becomes(t, item, Without(Book(t)[item], {g}), Stores!EnforceCaps(Stores!ForgetPick(t, item, g)))
<1> DEFINE a == [i \in DOMAIN t |-> IF t[i].item = item THEN [t[i] EXCEPT !.picks = Without(t[i].picks, {g})] ELSE t[i]]
           K == {e \in ToSet(a) : e.item # item \/ DOMAIN e.picks # {} \/ e.dontCare # {}}
           u == Stores!Only(a, K)
<1>1. \A i \in DOMAIN t : t[i] \in Entries /\ t[i].picks \in Choosing /\ t[i].item \in Items
  <2>1. \A i \in DOMAIN t : t[i] \in Entries
    BY DEF TasteOK
  <2>2. \A e \in Entries : e.picks \in Choosing /\ e.item \in Items
    BY DEF Entries
  <2> QED BY <2>1, <2>2
<1>2. a \in [DOMAIN t -> Entries] /\ \A i \in DOMAIN t : a[i].item = t[i].item
  <2>1. ASSUME NEW i \in DOMAIN t PROVE a[i] \in Entries /\ a[i].item = t[i].item
    <3>1. Without(t[i].picks, {g}) \in Choosing /\ t[i] \in Entries
      BY <1>1, WithoutIs
    <3>2. [t[i] EXCEPT !.picks = Without(t[i].picks, {g})] \in Entries
          /\ [t[i] EXCEPT !.picks = Without(t[i].picks, {g})].item = t[i].item
      BY <3>1 DEF Entries
    <3> QED BY <3>1, <3>2
  <2> QED BY <2>1
<1>3. Stores!ForgetPick(t, item, g) = u
  <2>1. a = Stores!OnEntry(t, item, LAMBDA e : [e EXCEPT !.picks = [h \in DOMAIN e.picks \ {g} |-> e.picks[h]]])
    BY DEF Stores!OnEntry, Without
  <2> HIDE DEF a
  <2>2. Stores!ForgetPick(t, item, g) = Stores!Only(a, {e \in Stores!ToSet(a) : e.item # item \/ DOMAIN e.picks # {} \/ e.dontCare # {}})
    BY <2>1, Zenon DEF Stores!ForgetPick
  <2>3. Stores!ToSet(a) = ToSet(a)
    BY SameHere
  <2> QED BY <2>2, <2>3
<1>4. \A i \in DOMAIN t : /\ t[i].item # item => a[i] = t[i]
                          /\ t[i].item = item => a[i].picks = Without(t[i].picks, {g})
                          /\ (a[i].item # item \/ DOMAIN a[i].picks # {}) => a[i] \in K
  <2>1. \A i \in DOMAIN t : t[i].item = item => a[i].picks = Without(t[i].picks, {g})
    BY <1>1 DEF Entries
  <2>2. \A i \in DOMAIN t : t[i].item # item => a[i] = t[i]
    OBVIOUS
  <2>3. \A i \in DOMAIN t : a[i] \in ToSet(a)
    BY DEF ToSet
  <2> HIDE DEF a
  <2> QED BY <2>1, <2>2, <2>3
<1> HIDE DEF a, K, u
<1>5. /\ TasteOK(a) /\ DOMAIN a = DOMAIN t
      /\ \A i \in DOMAIN t : Book(a)[t[i].item] = a[i].picks
      /\ \A j \in Items : At(t, j) = {} => Book(a)[j] = <<>>
  BY <1>2, MappedEntries
<1>6. TasteOK(u) /\ \A j \in Items : Book(u)[j] = IF \E k \in DOMAIN a : a[k].item = j /\ a[k] \in K THEN Book(a)[j] ELSE <<>>
  BY <1>5, KeptEntries DEF u
<1>7. ASSUME NEW j \in Items PROVE Book(u)[j] = IF j = item THEN Without(Book(t)[item], {g}) ELSE Book(t)[j]
  <2>0. Without(<<>>, {g}) = <<>>
    <3>1. DOMAIN <<>> = {}
      OBVIOUS
    <3> QED BY <3>1 DEF Without
  <2>1. CASE At(t, j) = {}
    <3>1. Book(t)[j] = <<>> /\ Book(u)[j] = <<>>
      BY <2>1, <1>5, <1>6, BookTyped
    <3> QED BY <3>1, <2>0
  <2>2. CASE At(t, j) # {}
    <3>1. PICK k \in DOMAIN t : t[k].item = j /\ Book(t)[j] = t[k].picks
      BY <2>2, BookTyped
    <3>2. Book(a)[j] = a[k].picks /\ a[k].item = j
      BY <3>1, <1>2, <1>5
    <3>3. CASE j # item
      <4>1. a[k] = t[k] /\ a[k] \in K
        BY <3>1, <3>2, <3>3, <1>4
      <4> QED BY <4>1, <3>1, <3>2, <3>3, <1>5, <1>6
    <3>4. CASE j = item
      <4>1. a[k].picks = Without(Book(t)[item], {g})
        BY <3>1, <3>4, <1>4
      <4>2. CASE \E l \in DOMAIN a : a[l].item = j /\ a[l] \in K
        BY <4>1, <4>2, <3>2, <3>4, <1>6
      <4>3. CASE ~\E l \in DOMAIN a : a[l].item = j /\ a[l] \in K
        <5>1. DOMAIN a[k].picks = {}
          BY <4>3, <3>2, <1>4, <1>5
        <5>2. Book(u)[j] = <<>>
          BY <4>3, <1>6
        <5>3. Without(Book(t)[item], {g}) = <<>>
          <6> DEFINE W == Without(Book(t)[item], {g})
          <6>1. DOMAIN W = {} /\ W = [x \in DOMAIN W |-> W[x]]
            BY <5>1, <4>1 DEF Without
          <6>2. <<>> = [x \in {} |-> W[x]]
            OBVIOUS
          <6> HIDE DEF W
          <6>3. W = <<>>
            BY <6>1, <6>2
          <6> QED BY <6>3 DEF W
        <5> QED BY <5>2, <5>3, <3>4
      <4> QED BY <4>2, <4>3
    <3> QED BY <3>3, <3>4
  <2> QED BY <2>1, <2>2
<1>8. Book(u) = [Book(t) EXCEPT ![item] = Without(Book(t)[item], {g})]
  <2>1. Book(u) \in [Items -> Choosing] /\ Book(t) \in [Items -> Choosing]
    BY <1>6, BookTyped
  <2> QED BY <2>1, <1>7
<1>9. TasteOK(Stores!EnforceCaps(u)) /\ Trims(Book(u), Book(Stores!EnforceCaps(u)))
  BY <1>6, CapsKeep
<1> QED BY <1>3, <1>8, <1>9 DEF Becomes

\* What the user said is what the book has as said; what it has as inferred is
\* backed by the orders.
Memory(t, said, runs) ==
    /\ said = SaidOf(Book(t))
    /\ \A i \in Items : Backed(Book(t)[i], runs[i])
\* What the picks of a dish say.
SaidIn(item, q) ==
    {x \in {item} \X Groups \X Flavours : x[2] \in DOMAIN q /\ q[x[2]].source = "explicit" /\ q[x[2]].choice = x[3]}

LEMMA AfterTrims ==
    ASSUME NEW b, NEW c, Trims(b, c)
    PROVE  /\ SaidOf(c) = SaidOf(b)
           /\ \A i \in Items : \A r : Backed(b[i], r) => Backed(c[i], r)
<1>1. ASSUME NEW i \in Items
      PROVE  /\ \A g \in DOMAIN c[i] : g \in DOMAIN b[i] /\ c[i][g] = b[i][g]
             /\ \A g \in DOMAIN b[i] : b[i][g].source = "explicit" => g \in DOMAIN c[i]
  BY DEF Trims
<1>2. ASSUME NEW x \in Items \X Groups \X Flavours PROVE x \in SaidOf(c) <=> x \in SaidOf(b)
  <2>1. x[1] \in Items
    OBVIOUS
  <2> QED BY <1>1, <2>1 DEF SaidOf
<1>3. SaidOf(c) = SaidOf(b)
  <2>1. SaidOf(c) \subseteq Items \X Groups \X Flavours /\ SaidOf(b) \subseteq Items \X Groups \X Flavours
    BY DEF SaidOf
  <2> QED BY <1>2, <2>1
<1>4. ASSUME NEW i \in Items, NEW r, Backed(b[i], r) PROVE Backed(c[i], r)
  BY <1>1, <1>4 DEF Backed
<1> QED BY <1>3, <1>4

\* What is said of one dish changes, and nothing else.
LEMMA NowSaid ==
    ASSUME NEW t, TasteOK(t), NEW runs \in [Items -> Runs], Memory(t, SaidOf(Book(t)), runs), NEW item \in Items,
           NEW q \in Choosing, NEW r \in Runs, Backed(q, r), NEW u, Becomes(t, item, q, u)
    PROVE  /\ SaidOf(Book(u)) = {x \in SaidOf(Book(t)) : x[1] # item} \cup SaidIn(item, q)
           /\ Memory(u, SaidOf(Book(u)), [runs EXCEPT ![item] = r])
<1> DEFINE b == [Book(t) EXCEPT ![item] = q]
<1>1. Book(t) \in [Items -> Choosing]
  BY BookTyped
<1>2. \A i \in Items : b[i] = IF i = item THEN q ELSE Book(t)[i]
  BY <1>1
<1>3. Trims(b, Book(u))
  BY DEF Becomes
<1> HIDE DEF b
<1>4. SaidOf(Book(u)) = SaidOf(b) /\ \A i \in Items : \A s : Backed(b[i], s) => Backed(Book(u)[i], s)
  BY <1>3, AfterTrims
<1>5. SaidOf(b) = {x \in SaidOf(Book(t)) : x[1] # item} \cup SaidIn(item, q)
  <2>1. ASSUME NEW x \in SaidOf(b) PROVE x \in {y \in SaidOf(Book(t)) : y[1] # item} \cup SaidIn(item, q)
    <3>1. x \in Items \X Groups \X Flavours /\ x[1] \in Items
      BY DEF SaidOf
    <3>2. CASE x[1] = item
      <4>1. x \in {item} \X Groups \X Flavours
        BY <3>1, <3>2
      <4>2. b[x[1]] = q
        BY <3>2, <1>2
      <4> QED BY <4>1, <4>2 DEF SaidOf, SaidIn
    <3>3. CASE x[1] # item
      <4>1. b[x[1]] = Book(t)[x[1]]
        BY <3>1, <3>3, <1>2
      <4>2. x \in SaidOf(Book(t))
        BY <4>1, <3>1 DEF SaidOf
      <4> QED BY <4>2, <3>3
    <3> QED BY <3>2, <3>3
  <2>2. ASSUME NEW x \in SaidOf(Book(t)), x[1] # item PROVE x \in SaidOf(b)
    <3>1. x \in Items \X Groups \X Flavours /\ x[1] \in Items
      BY DEF SaidOf
    <3>2. b[x[1]] = Book(t)[x[1]]
      BY <3>1, <2>2, <1>2
    <3> QED BY <3>1, <3>2 DEF SaidOf
  <2>3. ASSUME NEW x \in SaidIn(item, q) PROVE x \in SaidOf(b)
    <3>1. x \in Items \X Groups \X Flavours /\ x[1] = item
      BY DEF SaidIn
    <3>2. b[x[1]] = q
      BY <3>1, <1>2
    <3> QED BY <3>1, <3>2 DEF SaidOf, SaidIn
  <2> QED BY <2>1, <2>2, <2>3
<1>6. ASSUME NEW i \in Items PROVE Backed(Book(u)[i], [runs EXCEPT ![item] = r][i])
  <2>1. Backed(b[i], [runs EXCEPT ![item] = r][i])
    <3>1. CASE i = item
      BY <3>1, <1>2
    <3>2. CASE i # item
      <4>1. b[i] = Book(t)[i] /\ [runs EXCEPT ![item] = r][i] = runs[i]
        BY <3>2, <1>2
      <4> QED BY <4>1 DEF Memory
    <3> QED BY <3>1, <3>2
  <2> QED BY <2>1, <1>4
<1> QED BY <1>4, <1>5, <1>6 DEF Memory

\* What is said of a dish, of all that is said.
LEMMA SaidHere ==
    ASSUME NEW b, NEW item \in Items
    PROVE  SaidOf(b) = {x \in SaidOf(b) : x[1] # item} \cup SaidIn(item, b[item])
<1>1. ASSUME NEW x \in SaidOf(b), x[1] = item PROVE x \in SaidIn(item, b[item])
  <2>1. x \in {item} \X Groups \X Flavours
    BY <1>1 DEF SaidOf
  <2> QED BY <2>1, <1>1 DEF SaidOf, SaidIn
<1>2. ASSUME NEW x \in SaidIn(item, b[item]) PROVE x \in SaidOf(b)
  <2>1. x \in Items \X Groups \X Flavours /\ x[1] = item
    BY DEF SaidIn
  <2> QED BY <2>1 DEF SaidOf, SaidIn
<1> QED BY <1>1, <1>2

LEMMA SameSaidIn ==
    ASSUME NEW item \in Items, NEW p, NEW q, SameSaid(p, q)
    PROVE  SaidIn(item, p) = SaidIn(item, q)
<1>1. ASSUME NEW x \in {item} \X Groups \X Flavours PROVE x \in SaidIn(item, p) <=> x \in SaidIn(item, q)
  BY DEF SameSaid, SaidIn
<1>2. SaidIn(item, p) \subseteq {item} \X Groups \X Flavours /\ SaidIn(item, q) \subseteq {item} \X Groups \X Flavours
  BY DEF SaidIn
<1> QED BY <1>1, <1>2

\* Nothing new is said.
LEMMA AsSaid ==
    ASSUME NEW t, TasteOK(t), NEW runs \in [Items -> Runs], NEW said, Memory(t, said, runs), NEW item \in Items,
           NEW q \in Choosing, NEW r \in Runs, Backed(q, r), SameSaid(Book(t)[item], q), NEW u, Becomes(t, item, q, u)
    PROVE  Memory(u, said, [runs EXCEPT ![item] = r])
<1>1. said = SaidOf(Book(t)) /\ Memory(t, SaidOf(Book(t)), runs)
  BY DEF Memory
<1>2. /\ SaidOf(Book(u)) = {x \in SaidOf(Book(t)) : x[1] # item} \cup SaidIn(item, q)
      /\ Memory(u, SaidOf(Book(u)), [runs EXCEPT ![item] = r])
  BY <1>1, NowSaid
<1>3. SaidOf(Book(t)) = {x \in SaidOf(Book(t)) : x[1] # item} \cup SaidIn(item, Book(t)[item])
  BY SaidHere
<1>4. SaidIn(item, Book(t)[item]) = SaidIn(item, q)
  BY SameSaidIn
<1> QED BY <1>1, <1>2, <1>3, <1>4

\* What is new of what is told of a dish (Notes).
Line(i, line) == {<<i, line[k].group, line[k].choice>> :
                    k \in {k \in DOMAIN line : \A l \in DOMAIN line : line[l].group = line[k].group => l <= k}}

\* Every group of a line has a last place.
LEMMA LastOfGroup ==
    ASSUME NEW line \in Seq(Stores!Obs), NEW k \in DOMAIN line
    PROVE  \E m \in DOMAIN line : line[m].group = line[k].group /\ LastIn(line, DOMAIN line, m)
<1> DEFINE S == {l \in DOMAIN line : line[l].group = line[k].group}
<1>1. DOMAIN line = 1..Len(line) /\ Len(line) \in Nat
  OBVIOUS
<1>2. S \in SUBSET (1..Len(line)) /\ S # {}
  BY <1>1
<1>3. Max(S) \in S /\ \A l \in S : l <= Max(S)
  <2> HIDE DEF S
  <2> QED BY <1>1, <1>2, MaxIsIn
<1> QED BY <1>3 DEF LastIn

LEMMA SaidLine ==
    ASSUME NEW p \in Choosing, NEW line \in Seq(Stores!Obs), NEW q \in Choosing, Told(p, line, DOMAIN line, q),
           NEW item \in Items
    PROVE  SaidIn(item, q) = {x \in SaidIn(item, p) : \A y \in Line(item, line) : y[2] # x[2]} \cup Line(item, line)
<1>1. ASSUME NEW k \in DOMAIN line PROVE line[k].group \in Groups /\ line[k].choice \in Flavours
  <2>1. line[k] \in Stores!Obs
    OBVIOUS
  <2> QED BY <2>1 DEF Stores!Obs
<1>2. ASSUME NEW y \in Line(item, line) PROVE y \in SaidIn(item, q)
  <2>1. PICK k \in DOMAIN line : LastIn(line, DOMAIN line, k) /\ y = <<item, line[k].group, line[k].choice>>
    BY DEF Line, LastIn
  <2>2. q[line[k].group] = Spoken(line[k]) /\ line[k].group \in DOMAIN q
    BY <2>1 DEF Told
  <2>3. Spoken(line[k]).source = "explicit" /\ Spoken(line[k]).choice = line[k].choice
    BY DEF Spoken
  <2>4. y \in {item} \X Groups \X Flavours /\ y[2] = line[k].group /\ y[3] = line[k].choice
    BY <2>1, <1>1
  <2> QED BY <2>2, <2>3, <2>4 DEF SaidIn
<1>3. ASSUME NEW k \in DOMAIN line PROVE \E y \in Line(item, line) : y[2] = line[k].group /\ y[3] = q[line[k].group].choice
  <2>1. PICK m \in DOMAIN line : line[m].group = line[k].group /\ LastIn(line, DOMAIN line, m)
    BY LastOfGroup
  <2>2. <<item, line[m].group, line[m].choice>> \in Line(item, line)
    BY <2>1 DEF Line, LastIn
  <2>3. q[line[m].group] = Spoken(line[m])
    BY <2>1 DEF Told
  <2>4. Spoken(line[m]).choice = line[m].choice
    BY DEF Spoken
  <2> QED BY <2>1, <2>2, <2>3, <2>4
<1>4. ASSUME NEW y \in Line(item, line) PROVE \E k \in DOMAIN line : y = <<item, line[k].group, line[k].choice>>
  BY DEF Line
<1>5. ASSUME NEW x \in SaidIn(item, q) PROVE x \in {z \in SaidIn(item, p) : \A y \in Line(item, line) : y[2] # z[2]} \cup Line(item, line)
  <2>1. x \in {item} \X Groups \X Flavours /\ x[1] = item /\ x[2] \in Groups /\ x = <<x[1], x[2], x[3]>> /\ x[2] \in DOMAIN q
    BY DEF SaidIn
  <2>2. q[x[2]].source = "explicit" /\ q[x[2]].choice = x[3]
    BY DEF SaidIn
  <2>3. CASE \E k \in DOMAIN line : line[k].group = x[2]
    <3>1. PICK y \in Line(item, line) : y[2] = x[2] /\ y[3] = q[x[2]].choice
      BY <2>3, <1>3
    <3>2. PICK k \in DOMAIN line : y = <<item, line[k].group, line[k].choice>>
      BY <1>4
    <3>3. y = x
      BY <3>1, <3>2, <2>1, <2>2
    <3> QED BY <3>3
  <2>4. CASE \A k \in DOMAIN line : line[k].group # x[2]
    <3>1. x[2] \in DOMAIN p /\ q[x[2]] = p[x[2]]
      BY <2>1, <2>4 DEF Told
    <3>2. x \in SaidIn(item, p)
      BY <2>1, <2>2, <3>1 DEF SaidIn
    <3>3. \A y \in Line(item, line) : y[2] # x[2]
      BY <2>4, <1>4
    <3> QED BY <3>2, <3>3
  <2> QED BY <2>3, <2>4
<1>6. ASSUME NEW x \in SaidIn(item, p), \A y \in Line(item, line) : y[2] # x[2] PROVE x \in SaidIn(item, q)
  <2>1. x \in {item} \X Groups \X Flavours /\ x[2] \in Groups /\ x[2] \in DOMAIN p
        /\ p[x[2]].source = "explicit" /\ p[x[2]].choice = x[3]
    BY DEF SaidIn
  <2>2. \A k \in DOMAIN line : line[k].group # x[2]
    BY <1>3, <1>6
  <2>3. x[2] \in DOMAIN q /\ q[x[2]] = p[x[2]]
    BY <2>1, <2>2 DEF Told
  <2> QED BY <2>1, <2>3 DEF SaidIn
<1> QED BY <1>2, <1>5, <1>6

\* The edits of a taste file.
ObserveEdits == [file : {"taste"}, op : {"observe"}, lines : {<<<<x[1], x[2]>>>> : x \in Items \X Seq(Stores!Obs)}, strict : BOOLEAN]
UpsertEdits == [file : {"taste"}, op : {"upsert"}, item : Items, line : Seq(Stores!Obs), dontCare : SUBSET Groups, strict : BOOLEAN]
DishEdits == [file : {"taste"}, op : {"promote", "decline", "forget"}, item : Items, strict : BOOLEAN]
PickEdits == [file : {"taste"}, op : {"forgetpick"}, item : Items, group : Groups, strict : BOOLEAN]

\* What an edit has to do to the file and to what is noted.
Does(t, u) ==
    /\ TasteOK(u) /\ ran' \in [Items -> Runs]
    /\ Memory(t, told, ran) => Memory(u, told', ran')

LEMMA OneFold ==
    ASSUME NEW t, NEW x
    PROVE  Stores!FoldLeft(LAMBDA a, obs : Stores!Observe(a, obs[1], obs[2]), t, <<x>>) = Stores!Observe(t, x[1], x[2])
<1> DEFINE D == DOMAIN <<x>>
           Of(g) == [s \in SUBSET D |-> IF s = {} THEN t
                      ELSE Stores!Observe(g[s \ {Max(s)}], <<x>>[Max(s)][1], <<x>>[Max(s)][2])]
           h == CHOOSE g : g = Of(g)
           g0 == [s \in SUBSET D |-> IF s = {} THEN t ELSE Stores!Observe(t, x[1], x[2])]
<1>1. D = {1} /\ <<x>>[1] = x
  OBVIOUS
<1>2. Stores!FoldLeft(LAMBDA a, obs : Stores!Observe(a, obs[1], obs[2]), t, <<x>>) = h[D]
  BY DEF Stores!FoldLeft, Stores!MapThenFoldSet, Stores!Max, Max
<1>3. \A s \in SUBSET D : s # {} => s = {1} /\ Max(s) = 1 /\ s \ {Max(s)} = {}
  <2>1. Max({1}) = 1
    <3>1. {1} \in SUBSET (1..1) /\ {1} # {} /\ 1 \in Nat
      OBVIOUS
    <3>2. Max({1}) \in {1}
      BY <3>1, MaxIsIn
    <3> QED BY <3>2
  <2> QED BY <2>1, <1>1
<1>4. g0[{}] = t
  BY <1>1
<1>5. g0 = Of(g0)
  <2>1. \A s \in SUBSET D : s # {} => g0[s \ {Max(s)}] = t /\ <<x>>[Max(s)] = x
    BY <1>1, <1>3, <1>4
  <2> QED BY <2>1
<1>6. h = Of(h)
  BY <1>5
<1> HIDE DEF h
<1>7. \A s \in SUBSET D : h[s] = IF s = {} THEN t ELSE Stores!Observe(h[s \ {Max(s)}], <<x>>[Max(s)][1], <<x>>[Max(s)][2])
  BY <1>6, Zenon
<1>8. h[{}] = t /\ {1} \in SUBSET D
  BY <1>1, <1>7
<1>9. h[{1}] = Stores!Observe(h[{1} \ {Max({1})}], <<x>>[Max({1})][1], <<x>>[Max({1})][2])
  BY <1>7, <1>8
<1>10. h[{1}] = Stores!Observe(t, x[1], x[2])
  BY <1>1, <1>3, <1>8, <1>9
<1> QED BY <1>1, <1>2, <1>10

LEMMA ObserveDoes ==
    ASSUME NEW t, TasteOK(t), now \in Nat, ran \in [Items -> Runs], NEW p, NEW e \in ObserveEdits, Stores!Notes(e, t)
    PROVE  Does(t, Stores!Edited(p, e, t))
<1>1. e.op = "observe" /\ e.lines \in {<<<<x[1], x[2]>>>> : x \in Items \X Seq(Stores!Obs)}
  BY DEF ObserveEdits
<1>2. PICK x \in Items \X Seq(Stores!Obs) : e.lines = <<<<x[1], x[2]>>>>
  BY <1>1
<1> DEFINE item == x[1]
           line == x[2]
           u == Stores!Observe(t, item, line)
           q == Stores!FoldLeft(Stores!Tally, Book(t)[item], line)
           r == Stores!FoldLeft(Stores!Run, ran[item], line)
<1>3. item \in Items /\ line \in Seq(Stores!Obs) /\ e.lines = <<<<item, line>>>>
  BY <1>2
<1>4. told' = told /\ ran' = [ran EXCEPT ![item] = r]
  <2>1. e.lines[1][1] = item /\ e.lines[1][2] = line
    BY <1>3
  <2>2. told' = told
    BY <1>1 DEF Stores!Notes
  <2>3. ran' = [ran EXCEPT ![e.lines[1][1]] = Stores!FoldLeft(Stores!Run, ran[e.lines[1][1]], e.lines[1][2])]
    BY <1>1 DEF Stores!Notes
  <2> QED BY <2>1, <2>2, <2>3
<1>5. Stores!Edited(p, e, t) = u
  <2>1. Stores!Edited(p, e, t) = Stores!FoldLeft(LAMBDA a, obs : Stores!Observe(a, obs[1], obs[2]), t, e.lines)
    BY <1>1 DEF Stores!Edited
  <2>2. e.lines = <<<<item, line>>>> /\ <<item, line>>[1] = item /\ <<item, line>>[2] = line
    BY <1>3
  <2> HIDE DEF item, line
  <2>3. Stores!FoldLeft(LAMBDA a, obs : Stores!Observe(a, obs[1], obs[2]), t, <<<<item, line>>>>)
          = Stores!Observe(t, <<item, line>>[1], <<item, line>>[2])
    BY OneFold
  <2> QED BY <2>1, <2>2, <2>3
<1> HIDE DEF item, line, u, q, r
<1>6. ran[item] \in Runs /\ Book(t)[item] \in Choosing
  BY <1>3, BookTyped
<1>7. Becomes(t, item, q, u)
  BY <1>3, ObserveIs DEF q, u
<1>8. r \in Runs
  <2>1. <<>> \in Choosing /\ Backed(<<>>, ran[item])
    BY NoneChosen DEF Backed
  <2> QED BY <2>1, <1>3, <1>6, TallyLine DEF r
<1>9. ran' \in [Items -> Runs]
  BY <1>3, <1>4, <1>8
<1>10. ASSUME Memory(t, told, ran) PROVE Memory(u, told', ran')
  <2>1. Backed(Book(t)[item], ran[item])
    BY <1>3, <1>10 DEF Memory
  <2>2. q \in Choosing /\ SameSaid(Book(t)[item], q) /\ Backed(q, r)
    BY <2>1, <1>3, <1>6, TallyLine DEF q, r
  <2>3. Memory(u, told, [ran EXCEPT ![item] = r])
    BY <2>2, <1>3, <1>7, <1>8, <1>10, AsSaid
  <2> QED BY <2>3, <1>4
<1> QED BY <1>5, <1>7, <1>9, <1>10 DEF Does, Becomes

LEMMA UpsertDoes ==
    ASSUME NEW t, TasteOK(t), now \in Nat, ran \in [Items -> Runs], NEW p, NEW e \in UpsertEdits, Stores!Notes(e, t)
    PROVE  Does(t, Stores!Edited(p, e, t))
<1>1. e.op = "upsert" /\ e.item \in Items /\ e.line \in Seq(Stores!Obs) /\ e.dontCare \in SUBSET Groups
  BY DEF UpsertEdits
<1> DEFINE item == e.item
           line == e.line
           u == Stores!EnforceCaps(Stores!Upsert(t, item, line, e.dontCare))
           q == Stores!FoldLeft(Stores!Say, Book(t)[item], line)
           p0 == Book(t)[item]
<1>2. /\ told' = {x \in told : x[1] # item \/ \A y \in Line(item, line) : y[2] # x[2]} \cup Line(item, line)
      /\ ran' = ran
  <2>1. ran' = ran
    BY <1>1 DEF Stores!Notes
  <2>2. told' = {x \in told : x[1] # item \/ \A y \in Line(item, line) : y[2] # x[2]} \cup Line(item, line)
    BY <1>1 DEF Stores!Notes, Line
  <2> QED BY <2>1, <2>2
<1>3. Stores!Edited(p, e, t) = u
  BY <1>1 DEF Stores!Edited
<1>4. item \in Items /\ line \in Seq(Stores!Obs) /\ p0 \in Choosing
  BY <1>1, BookTyped
<1>5. Becomes(t, item, q, u)
  BY <1>1, UpsertIs
<1>6. q \in Choosing /\ Told(p0, line, DOMAIN line, q)
  BY <1>4, SayLine
<1> HIDE DEF item, line, u, q, p0
<1>7. ASSUME Memory(t, told, ran) PROVE Memory(u, told', ran')
  <2>1. Backed(p0, ran[item]) /\ told = SaidOf(Book(t)) /\ ran[item] \in Runs
    BY <1>4, <1>7 DEF Memory, p0
  <2>2. Backed(q, ran[item])
    <3>1. ASSUME NEW g \in DOMAIN q, q[g].source = "inferred" PROVE g \in DOMAIN p0 /\ q[g] = p0[g]
      <4>1. g \in Groups
        BY <1>6, ChoosingIs
      <4>2. CASE \E k \in DOMAIN line : line[k].group = g
        <5>1. PICK k \in DOMAIN line : line[k].group = g
          BY <4>2
        <5>2. PICK m \in DOMAIN line : line[m].group = line[k].group /\ LastIn(line, DOMAIN line, m)
          BY <1>4, LastOfGroup
        <5>3. q[g] = Spoken(line[m])
          BY <5>1, <5>2, <1>6 DEF Told
        <5>4. Spoken(line[m]).source = "explicit" /\ "explicit" # "inferred"
          BY DEF Spoken
        <5> QED BY <5>3, <5>4, <3>1
      <4>3. CASE \A k \in DOMAIN line : line[k].group # g
        BY <4>1, <4>3, <1>6 DEF Told
      <4> QED BY <4>2, <4>3
    <3> QED BY <3>1, <2>1 DEF Backed
  <2>3. /\ SaidOf(Book(u)) = {x \in SaidOf(Book(t)) : x[1] # item} \cup SaidIn(item, q)
        /\ Memory(u, SaidOf(Book(u)), [ran EXCEPT ![item] = ran[item]])
    <3>1. Memory(t, SaidOf(Book(t)), ran)
      BY <1>7, <2>1
    <3> QED BY <3>1, <2>1, <2>2, <1>4, <1>5, <1>6, NowSaid
  <2>4. [ran EXCEPT ![item] = ran[item]] = ran
    BY <1>4
  <2>5. SaidOf(Book(t)) = {x \in SaidOf(Book(t)) : x[1] # item} \cup SaidIn(item, p0)
    BY <1>4, SaidHere DEF p0
  <2>6. SaidIn(item, q) = {x \in SaidIn(item, p0) : \A y \in Line(item, line) : y[2] # x[2]} \cup Line(item, line)
    BY <1>4, <1>6, SaidLine
  <2>7. \A x \in SaidIn(item, p0) : x[1] = item
    BY DEF SaidIn
  <2>8. told' = SaidOf(Book(u))
    BY <2>1, <2>3, <2>5, <2>6, <2>7, <1>2
  <2> QED BY <2>3, <2>4, <2>8, <1>2
<1> QED BY <1>2, <1>3, <1>5, <1>7 DEF Does, Becomes

\* What is offered of one dish.
OfferedHere(item, p) == {x \in {item} \X Groups \X Flavours : x[2] \in DOMAIN p /\ Stores!Qualifies(p[x[2]]) /\ p[x[2]].choice = x[3]}

LEMMA OffersHere ==
    ASSUME NEW t, TasteOK(t), NEW item \in Items
    PROVE  {x \in Stores!Suggestions(t) : x[1] = item} = OfferedHere(item, Book(t)[item])
<1> DEFINE b == Book(t)
<1>1. Stores!Suggestions(t) = OfferedOf(b)
  BY SaidBook
<1> HIDE DEF b
<1>2. ASSUME NEW x \in OfferedOf(b), x[1] = item PROVE x \in OfferedHere(item, b[item])
  <2>1. x \in {item} \X Groups \X Flavours
    BY <1>2 DEF OfferedOf
  <2> QED BY <2>1, <1>2 DEF OfferedOf, OfferedHere
<1>3. ASSUME NEW x \in OfferedHere(item, b[item]) PROVE x \in OfferedOf(b) /\ x[1] = item
  <2>1. x \in Items \X Groups \X Flavours /\ x[1] = item
    BY DEF OfferedHere
  <2> QED BY <2>1 DEF OfferedOf, OfferedHere
<1>4. {x \in OfferedOf(b) : x[1] = item} = OfferedHere(item, b[item])
  BY <1>2, <1>3
<1> QED BY <1>1, <1>4 DEF b

LEMMA OfferedGroups ==
    ASSUME NEW item, NEW p \in Choosing
    PROVE  \A g \in DOMAIN p : Stores!Qualifies(p[g]) <=> g \in {x[2] : x \in OfferedHere(item, p)}
<1>1. ASSUME NEW g \in DOMAIN p, Stores!Qualifies(p[g]) PROVE g \in {x[2] : x \in OfferedHere(item, p)}
  <2>1. g \in Groups /\ p[g] \in Stores!Picks
    BY ChoosingIs
  <2>2. p[g].choice \in Flavours
    BY <2>1 DEF Stores!Picks
  <2> DEFINE x == <<item, g, p[g].choice>>
  <2>3. x \in {item} \X Groups \X Flavours /\ x[2] = g /\ x[3] = p[g].choice
    BY <2>1, <2>2
  <2> HIDE DEF x
  <2>4. x \in OfferedHere(item, p)
    BY <2>3, <1>1 DEF OfferedHere
  <2> QED BY <2>3, <2>4
<1>2. ASSUME NEW g \in DOMAIN p, g \in {x[2] : x \in OfferedHere(item, p)} PROVE Stores!Qualifies(p[g])
  BY <1>2 DEF OfferedHere
<1> QED BY <1>1, <1>2

LEMMA PromoteDoes ==
    ASSUME NEW t, TasteOK(t), ran \in [Items -> Runs], NEW p, NEW e \in DishEdits, e.op = "promote", Stores!Notes(e, t)
    PROVE  Does(t, Stores!Edited(p, e, t))
<1> DEFINE item == e.item
           u == Stores!EnforceCaps(Stores!Promote(t, item))
           p0 == Book(t)[item]
           q == Promoted(p0)
<1>1. item \in Items /\ p0 \in Choosing
  <2>1. item \in Items
    BY DEF DishEdits
  <2> QED BY <2>1, BookTyped
<1>2. told' = told \cup {x \in Stores!Suggestions(t) : x[1] = item} /\ ran' = ran
  BY DEF Stores!Notes
<1>3. Stores!Edited(p, e, t) = u
  BY DEF Stores!Edited
<1>4. Becomes(t, item, q, u)
  BY <1>1, PromoteIs
<1>5. q \in Choosing /\ \A r : Backed(p0, r) => Backed(q, r)
  BY <1>1, PromotedIs
<1>6. {x \in Stores!Suggestions(t) : x[1] = item} = OfferedHere(item, p0)
  BY <1>1, OffersHere
<1>7. SaidIn(item, q) = SaidIn(item, p0) \cup OfferedHere(item, p0)
  <2>1. DOMAIN q = DOMAIN p0
    BY DEF Promoted
  <2>2. \A g \in DOMAIN p0 : /\ q[g].source = "explicit" <=> Stores!Qualifies(p0[g]) \/ p0[g].source = "explicit"
                             /\ q[g].choice = p0[g].choice
    <3>1. ASSUME NEW g \in DOMAIN p0
          PROVE  /\ q[g].source = "explicit" <=> Stores!Qualifies(p0[g]) \/ p0[g].source = "explicit"
                 /\ q[g].choice = p0[g].choice
      <4>1. p0[g] \in Stores!Picks
        BY <1>1, ChoosingIs
      <4>2. [p0[g] EXCEPT !.source = "explicit"].source = "explicit" /\ [p0[g] EXCEPT !.source = "explicit"].choice = p0[g].choice
        BY <4>1 DEF Stores!Picks
      <4> QED BY <4>2 DEF Promoted
    <3> QED BY <3>1
  <2> HIDE DEF q, p0
  <2>3. ASSUME NEW x \in {item} \X Groups \X Flavours
        PROVE  x \in SaidIn(item, q) <=> x \in SaidIn(item, p0) \/ x \in OfferedHere(item, p0)
    BY <2>1, <2>2 DEF SaidIn, OfferedHere
  <2>4. /\ SaidIn(item, q) \subseteq {item} \X Groups \X Flavours /\ SaidIn(item, p0) \subseteq {item} \X Groups \X Flavours
        /\ OfferedHere(item, p0) \subseteq {item} \X Groups \X Flavours
    BY DEF SaidIn, OfferedHere
  <2> QED BY <2>3, <2>4
<1> HIDE DEF item, u, q, p0
<1>8. ASSUME Memory(t, told, ran) PROVE Memory(u, told', ran')
  <2>1. Backed(p0, ran[item]) /\ told = SaidOf(Book(t)) /\ ran[item] \in Runs
    BY <1>1, <1>8 DEF Memory, p0
  <2>2. Backed(q, ran[item])
    BY <2>1, <1>5
  <2>3. /\ SaidOf(Book(u)) = {x \in SaidOf(Book(t)) : x[1] # item} \cup SaidIn(item, q)
        /\ Memory(u, SaidOf(Book(u)), [ran EXCEPT ![item] = ran[item]])
    <3>1. Memory(t, SaidOf(Book(t)), ran)
      BY <1>8, <2>1
    <3> QED BY <3>1, <2>1, <2>2, <1>1, <1>4, <1>5, NowSaid
  <2>4. [ran EXCEPT ![item] = ran[item]] = ran
    BY <1>1
  <2>5. SaidOf(Book(t)) = {x \in SaidOf(Book(t)) : x[1] # item} \cup SaidIn(item, p0)
    BY <1>1, SaidHere DEF p0
  <2>6. told' = SaidOf(Book(u))
    BY <2>1, <2>3, <2>5, <1>2, <1>6, <1>7
  <2> QED BY <2>3, <2>4, <2>6, <1>2
<1> QED BY <1>2, <1>3, <1>4, <1>8 DEF Does, Becomes

LEMMA RunsWithout ==
    ASSUME NEW r \in Runs, NEW S
    PROVE  Without(r, S) \in Runs
<1>1. DOMAIN r \subseteq Groups /\ \A g \in DOMAIN r : r[g] \in [choice : Flavours, n : Nat]
  BY RunsIs
<1>2. DOMAIN Without(r, S) \subseteq Groups /\ Without(r, S) \in [DOMAIN Without(r, S) -> [choice : Flavours, n : Nat]]
  BY <1>1 DEF Without
<1> QED BY <1>2, RunsIs

LEMMA DeclineDoes ==
    ASSUME NEW t, TasteOK(t), ran \in [Items -> Runs], NEW p, NEW e \in DishEdits, e.op = "decline", Stores!Notes(e, t)
    PROVE  Does(t, Stores!Edited(p, e, t))
<1> DEFINE item == e.item
           u == Stores!EnforceCaps(Stores!DeclineSuggestion(t, item))
           p0 == Book(t)[item]
           q == Declined(p0)
           S == {x[2] : x \in {x \in Stores!Suggestions(t) : x[1] = item}}
           r == Without(ran[item], S)
<1>1. item \in Items /\ p0 \in Choosing
  <2>1. item \in Items
    BY DEF DishEdits
  <2> QED BY <2>1, BookTyped
<1>2. told' = told /\ ran' = [ran EXCEPT ![item] = r]
  <2>1. told' = told
    BY DEF Stores!Notes
  <2>2. ran' = [ran EXCEPT ![item] = r]
    BY DEF Stores!Notes, Without
  <2> QED BY <2>1, <2>2
<1>3. Stores!Edited(p, e, t) = u
  BY DEF Stores!Edited
<1>4. Becomes(t, item, q, u)
  BY <1>1, PromoteIs
<1>5. q \in Choosing /\ SameSaid(p0, q)
  BY <1>1, PromotedIs
<1>6. \A g \in DOMAIN p0 : Stores!Qualifies(p0[g]) <=> g \in S
  <2>1. {x \in Stores!Suggestions(t) : x[1] = item} = OfferedHere(item, p0)
    BY <1>1, OffersHere
  <2>2. S = {x[2] : x \in OfferedHere(item, p0)}
    BY <2>1
  <2> HIDE DEF S, p0, item
  <2> QED BY <2>2, <1>1, OfferedGroups
<1>7. r \in Runs
  <2>1. ran[item] \in Runs
    BY <1>1
  <2> HIDE DEF item, S
  <2> QED BY <2>1, RunsWithout
<1>8. ASSUME Memory(t, told, ran) PROVE Memory(u, told', ran')
  <2>1. Backed(p0, ran[item])
    BY <1>1, <1>8 DEF Memory
  <2>2. Backed(q, r)
    <3>1. DOMAIN q = DOMAIN p0 /\ DOMAIN r = DOMAIN ran[item] \ S /\ \A g \in DOMAIN r : r[g] = ran[item][g]
      BY DEF Declined, Without
    <3>2. ASSUME NEW g \in DOMAIN p0 PROVE IF g \in S THEN q[g].declined ELSE q[g] = p0[g]
      <4>1. p0[g] \in Stores!Picks
        BY <1>1, ChoosingIs
      <4>2. [p0[g] EXCEPT !.declined = TRUE].declined
        BY <4>1 DEF Stores!Picks
      <4> QED BY <4>2, <1>6 DEF Declined
    <3> HIDE DEF q, r, S, p0, item
    <3> QED BY <3>1, <3>2, <2>1 DEF Backed
  <2> HIDE DEF q, r, S, p0, item, u
  <2>3. Memory(u, told, [ran EXCEPT ![item] = r])
    BY <2>2, <1>1, <1>4, <1>5, <1>7, <1>8, AsSaid DEF p0
  <2> QED BY <2>3, <1>2
<1> HIDE DEF item, u, q, p0, S, r
<1>9. ran' \in [Items -> Runs]
  BY <1>1, <1>2, <1>7
<1> QED BY <1>3, <1>4, <1>8, <1>9 DEF Does, Becomes

LEMMA ForgetDoes ==
    ASSUME NEW t, TasteOK(t), ran \in [Items -> Runs], NEW p, NEW e \in DishEdits, e.op = "forget", Stores!Notes(e, t)
    PROVE  Does(t, Stores!Edited(p, e, t))
<1> DEFINE item == e.item
           u == Stores!EnforceCaps(Stores!ForgetEntry(t, item))
<1>1. item \in Items
  BY DEF DishEdits
<1>2. told' = told \ {x \in told : x[1] = item} /\ ran' = [ran EXCEPT ![item] = <<>>]
  BY DEF Stores!Notes
<1>3. Stores!Edited(p, e, t) = u
  BY DEF Stores!Edited
<1>4. Becomes(t, item, <<>>, u)
  BY <1>1, ForgetIs
<1> HIDE DEF item, u
<1>5. <<>> \in Choosing /\ <<>> \in Runs /\ Backed(<<>>, <<>>) /\ SaidIn(item, <<>>) = {}
  BY NoneChosen, NoRuns DEF Backed, SaidIn
<1>6. ran' \in [Items -> Runs]
  BY <1>1, <1>2, <1>5
<1>7. ASSUME Memory(t, told, ran) PROVE Memory(u, told', ran')
  <2>1. told = SaidOf(Book(t)) /\ Memory(t, SaidOf(Book(t)), ran)
    BY <1>7 DEF Memory
  <2>2. /\ SaidOf(Book(u)) = {x \in SaidOf(Book(t)) : x[1] # item} \cup SaidIn(item, <<>>)
        /\ Memory(u, SaidOf(Book(u)), [ran EXCEPT ![item] = <<>>])
    BY <2>1, <1>1, <1>4, <1>5, NowSaid
  <2>3. told' = SaidOf(Book(u))
    BY <2>1, <2>2, <1>2, <1>5
  <2> QED BY <2>2, <2>3, <1>2
<1> QED BY <1>3, <1>4, <1>6, <1>7 DEF Does, Becomes

LEMMA ForgetPickDoes ==
    ASSUME NEW t, TasteOK(t), ran \in [Items -> Runs], NEW p, NEW e \in PickEdits, Stores!Notes(e, t)
    PROVE  Does(t, Stores!Edited(p, e, t))
<1> DEFINE item == e.item
           u == Stores!EnforceCaps(Stores!ForgetPick(t, item, e.group))
           p0 == Book(t)[item]
           q == Without(p0, {e.group})
           r == Without(ran[item], {e.group})
<1>1. e.op = "forgetpick" /\ item \in Items /\ e.group \in Groups /\ p0 \in Choosing
  <2>1. e.op = "forgetpick" /\ item \in Items /\ e.group \in Groups
    BY DEF PickEdits
  <2> QED BY <2>1, BookTyped
<1>2. told' = {x \in told : x[1] # item \/ x[2] # e.group} /\ ran' = [ran EXCEPT ![item] = r]
  <2>1. told' = {x \in told : x[1] # item \/ x[2] # e.group}
    BY <1>1 DEF Stores!Notes
  <2>2. ran' = [ran EXCEPT ![item] = r]
    BY <1>1 DEF Stores!Notes, Without
  <2> QED BY <2>1, <2>2
<1>3. Stores!Edited(p, e, t) = u
  BY <1>1 DEF Stores!Edited
<1>4. Becomes(t, item, q, u)
  BY <1>1, ForgetPickIs
<1>5. q \in Choosing
  BY <1>1, WithoutIs
<1>6. r \in Runs
  <2>1. ran[item] \in Runs
    BY <1>1
  <2> HIDE DEF item
  <2> QED BY <2>1, RunsWithout
<1>7. /\ DOMAIN q = DOMAIN p0 \ {e.group} /\ \A g \in DOMAIN q : q[g] = p0[g]
      /\ DOMAIN r = DOMAIN ran[item] \ {e.group} /\ \A g \in DOMAIN r : r[g] = ran[item][g]
  BY DEF Without
<1> HIDE DEF q, r, p0, item, u
<1>8. ran' \in [Items -> Runs]
  BY <1>1, <1>2, <1>6
<1>9. SaidIn(item, q) = {x \in SaidIn(item, p0) : x[2] # e.group}
  BY <1>7 DEF SaidIn
<1>10. ASSUME Memory(t, told, ran) PROVE Memory(u, told', ran')
  <2>1. Backed(p0, ran[item]) /\ told = SaidOf(Book(t)) /\ Memory(t, SaidOf(Book(t)), ran)
    BY <1>1, <1>10 DEF Memory, p0
  <2>2. Backed(q, r)
    BY <1>7, <2>1 DEF Backed
  <2>3. /\ SaidOf(Book(u)) = {x \in SaidOf(Book(t)) : x[1] # item} \cup SaidIn(item, q)
        /\ Memory(u, SaidOf(Book(u)), [ran EXCEPT ![item] = r])
    BY <2>1, <2>2, <1>1, <1>4, <1>5, <1>6, NowSaid
  <2>4. SaidOf(Book(t)) = {x \in SaidOf(Book(t)) : x[1] # item} \cup SaidIn(item, p0)
    BY <1>1, SaidHere DEF p0
  <2>5. \A x \in SaidIn(item, p0) : x[1] = item
    BY DEF SaidIn
  <2>6. told' = SaidOf(Book(u))
    BY <2>1, <2>3, <2>4, <2>5, <1>2, <1>9
  <2> QED BY <2>3, <2>6, <1>2
<1> QED BY <1>3, <1>4, <1>8, <1>10 DEF Does, Becomes

TasteEdits == ObserveEdits \cup UpsertEdits \cup DishEdits \cup PickEdits

LEMMA TasteDoes ==
    ASSUME NEW t, TasteOK(t), now \in Nat, ran \in [Items -> Runs], NEW p, NEW e \in TasteEdits, Stores!Notes(e, t)
    PROVE  Does(t, Stores!Edited(p, e, t))
<1>1. CASE e \in ObserveEdits
  BY <1>1, ObserveDoes
<1>2. CASE e \in UpsertEdits
  BY <1>2, UpsertDoes
<1>3. CASE e \in DishEdits
  <2>1. e.op \in {"promote", "decline", "forget"}
    BY <1>3 DEF DishEdits
  <2>2. CASE e.op = "promote"
    BY <1>3, <2>2, PromoteDoes
  <2>3. CASE e.op = "decline"
    BY <1>3, <2>3, DeclineDoes
  <2>4. CASE e.op = "forget"
    BY <1>3, <2>4, ForgetDoes
  <2> QED BY <2>1, <2>2, <2>3, <2>4
<1>4. CASE e \in PickEdits
  BY <1>4, ForgetPickDoes
<1> QED BY <1>1, <1>2, <1>3, <1>4 DEF TasteEdits

(* Presets *)
PresetsOK(s) ==
    /\ s \in Seq(Stores!Names)
    /\ \A w \in Words : Stores!Cardinality(Stores!ByName(s, w)) <= MaxPerName

LEMMA SameCount == \A S : Stores!Cardinality(S) = Cardinality(S)
BY DEF Stores!Cardinality, Cardinality

LEMMA NamedIn ==
    ASSUME NEW s \in Seq(Stores!Names), NEW w
    PROVE  Stores!ByName(s, w) \subseteq DOMAIN s /\ IsFiniteSet(Stores!ByName(s, w)) /\ Cardinality(Stores!ByName(s, w)) \in Nat
<1>1. DOMAIN s = 1..Len(s) /\ Len(s) \in Nat
  OBVIOUS
<1>2. IsFiniteSet(1..Len(s))
  BY <1>1, FS_Interval
<1>3. Stores!ByName(s, w) \subseteq DOMAIN s
  BY DEF Stores!ByName
<1>4. IsFiniteSet(Stores!ByName(s, w))
  BY <1>1, <1>2, <1>3, FS_Subset
<1> QED BY <1>3, <1>4, FS_CardinalityType

LEMMA AddedPreset ==
    ASSUME NEW s, PresetsOK(s), NEW name \in Stores!Names
    PROVE  PresetsOK(Stores!Add(s, name))
<1> DEFINE u == Append(s, name)
<1>1. s \in Seq(Stores!Names) /\ name.word \in Words
  BY DEF PresetsOK, Stores!Names
<1>2. CASE Stores!Cardinality(Stores!ByName(s, name.word)) >= MaxPerName
  BY <1>2 DEF Stores!Add
<1>3. CASE ~(Stores!Cardinality(Stores!ByName(s, name.word)) >= MaxPerName)
  <2>1. Stores!Add(s, name) = u
    BY <1>3 DEF Stores!Add
  <2>2. u \in Seq(Stores!Names) /\ DOMAIN u = DOMAIN s \cup {Len(s) + 1} /\ u[Len(s) + 1] = name /\ (\A i \in DOMAIN s : u[i] = s[i])
        /\ Len(s) + 1 \notin DOMAIN s
    BY <1>1
  <2> HIDE DEF u
  <2>3. ASSUME NEW w \in Words PROVE Stores!Cardinality(Stores!ByName(u, w)) <= MaxPerName
    <3> DEFINE B == Stores!ByName(s, w)
    <3>1. B \subseteq DOMAIN s /\ IsFiniteSet(B) /\ Cardinality(B) \in Nat
      BY <1>1, NamedIn
    <3>2. Cardinality(B) <= MaxPerName /\ MaxPerName \in Nat
      BY SameCount, InstallAssumption DEF PresetsOK
    <3>3. CASE name = [word |-> w, padded |-> FALSE]
      <4>1. Stores!ByName(u, w) = B \cup {Len(s) + 1}
        BY <2>2, <3>3 DEF Stores!ByName
      <4>2. Cardinality(B \cup {Len(s) + 1}) = Cardinality(B) + 1
        <5>1. Len(s) + 1 \notin B
          BY <2>2, <3>1
        <5> HIDE DEF B
        <5> QED BY <5>1, <3>1, FS_AddElement
      <4>3. name.word = w
        BY <3>3
      <4>4. Cardinality(B) < MaxPerName
        BY <1>3, <4>3, <3>1, <3>2, SameCount
      <4> QED BY <4>1, <4>2, <4>4, <3>1, <3>2, SameCount
    <3>4. CASE name # [word |-> w, padded |-> FALSE]
      <4>1. Stores!ByName(u, w) = B
        BY <2>2, <3>4 DEF Stores!ByName
      <4> QED BY <4>1, <3>2, SameCount
    <3> QED BY <3>3, <3>4
  <2> QED BY <2>1, <2>2, <2>3 DEF PresetsOK
<1> QED BY <1>2, <1>3

LEMMA RemovedPreset ==
    ASSUME NEW s, PresetsOK(s), NEW word, NEW n
    PROVE  PresetsOK(Stores!RemovePreset(s, word, n))
<1> DEFINE gone == Stores!Nth(s, word, n)
           k == CHOOSE i \in gone : TRUE
           u == RemoveAt(s, k)
<1>1. s \in Seq(Stores!Names) /\ DOMAIN s = 1..Len(s) /\ Len(s) \in Nat
  BY DEF PresetsOK
<1>2. CASE gone = {}
  BY <1>2 DEF Stores!RemovePreset
<1>3. CASE gone # {}
  <2>1. Stores!RemovePreset(s, word, n) = u
    BY <1>3, SameHere DEF Stores!RemovePreset
  <2>2. k \in DOMAIN s
    <3>1. gone \subseteq DOMAIN s
      BY DEF Stores!Nth, Stores!ByName
    <3>2. k \in gone
      BY <1>3
    <3> QED BY <3>1, <3>2
  <2> HIDE DEF k
  <2>3. u \in Seq(Stores!Names) /\ DOMAIN u = 1..(Len(s) - 1) /\ \A i \in DOMAIN u : u[i] = IF i < k THEN s[i] ELSE s[i + 1]
    BY <1>1, <2>2, Removed1
  <2> HIDE DEF u, gone
  <2>4. ASSUME NEW w \in Words PROVE Stores!Cardinality(Stores!ByName(u, w)) <= MaxPerName
    <3> DEFINE A == Stores!ByName(u, w)
               B == Stores!ByName(s, w)
               f == [i \in A |-> IF i < k THEN i ELSE i + 1]
    <3>1. B \subseteq DOMAIN s /\ IsFiniteSet(B) /\ Cardinality(B) \in Nat
      BY <1>1, NamedIn
    <3>2. \A i \in A : i \in DOMAIN u /\ u[i] = [word |-> w, padded |-> FALSE]
      BY DEF Stores!ByName
    <3>3. \A i \in A : f[i] = (IF i < k THEN i ELSE i + 1)
      OBVIOUS
    <3>4. f \in Injection(A, B)
      <4>1. ASSUME NEW i \in A PROVE i \in Int /\ (IF i < k THEN i ELSE i + 1) \in B
        <5>1. i \in 1..(Len(s) - 1) /\ u[i] = [word |-> w, padded |-> FALSE] /\ i \in DOMAIN u
          BY <3>2, <2>3
        <5> HIDE DEF A, f
        <5>2. CASE i < k
          <6>1. i \in DOMAIN s
            BY <5>1, <1>1
          <6>2. s[i] = u[i]
            BY <5>1, <5>2, <2>3
          <6>3. i \in B
            BY <6>1, <6>2, <5>1, Zenon DEF Stores!ByName
          <6> QED BY <6>3, <5>1, <5>2
        <5>3. CASE ~(i < k)
          <6>1. i + 1 \in DOMAIN s
            BY <5>1, <1>1
          <6>2. s[i + 1] = u[i]
            BY <5>1, <5>3, <2>3
          <6>3. i + 1 \in B
            BY <6>1, <6>2, <5>1, Zenon DEF Stores!ByName
          <6> QED BY <6>3, <5>1, <5>3
        <5> QED BY <5>2, <5>3
      <4>2. f \in [A -> B]
        <5> HIDE DEF A, B
        <5> QED BY <4>1
      <4>3. ASSUME NEW i \in A, NEW j \in A, f[i] = f[j] PROVE i = j
        <5>1. i \in Int /\ j \in Int /\ k \in Int
          BY <4>1, <1>1, <2>2
        <5>2. (IF i < k THEN i ELSE i + 1) = (IF j < k THEN j ELSE j + 1)
          BY <3>3, <4>3
        <5> HIDE DEF f, A, B
        <5> QED BY <5>1, <5>2
      <4>4. DOMAIN f = A
        OBVIOUS
      <4> HIDE DEF f, A, B
      <4>5. IsInjective(f)
        BY <4>3, <4>4 DEF IsInjective
      <4> QED BY <4>2, <4>5 DEF Injection
    <3>5. Cardinality(A) <= Cardinality(B) /\ IsFiniteSet(A)
      <4> HIDE DEF A, B, f
      <4> QED BY <3>1, <3>4, FS_Injection
    <3>6. Cardinality(B) <= MaxPerName /\ MaxPerName \in Nat
      BY SameCount, InstallAssumption DEF PresetsOK
    <3>7. Cardinality(A) \in Nat
      <4> HIDE DEF A
      <4> QED BY <3>5, FS_CardinalityType
    <3> QED BY <3>1, <3>5, <3>6, <3>7, SameCount
  <2> QED BY <2>1, <2>3, <2>4 DEF PresetsOK
<1> QED BY <1>2, <1>3

-----------------------------------------------------------------------------
(* Previous orders *)
\* The list of an address: not too long, each order once, the next one is new.
ListOK(s, v) ==
    /\ s \in Seq(Nat) /\ Len(s) <= MaxOrders
    /\ \A i \in DOMAIN s : s[i] < v
    /\ \A i, j \in DOMAIN s : i # j => s[i] # s[j]
OrdersOK(o, v) == o \in [Addrs -> Seq(Nat)] /\ \A a \in Addrs : ListOK(o[a], v)
\* The latest ones of all that were placed there.
Latest(s, all) == Stores!IsPrefix(s, all) /\ (Len(s) < MaxOrders => s = all)

LEMMA PrefixIs ==
    ASSUME NEW s \in Seq(Nat), NEW all \in Seq(Nat)
    PROVE  Stores!IsPrefix(s, all) <=> Len(s) <= Len(all) /\ \A i \in DOMAIN s : s[i] = all[i]
<1>1. Len(s) \in Nat /\ Len(all) \in Nat /\ DOMAIN s = 1..Len(s)
  OBVIOUS
<1>2. ASSUME Len(s) <= Len(all)
      PROVE  SubSeq(s, 1, Len(s)) = SubSeq(all, 1, Len(s)) <=> \A i \in DOMAIN s : s[i] = all[i]
  <2> DEFINE a == SubSeq(s, 1, Len(s))
             b == SubSeq(all, 1, Len(s))
  <2>1. Len(a) = Len(s) /\ Len(b) = Len(s) /\ a \in Seq(Nat) /\ b \in Seq(Nat)
        /\ (\A i \in 1..Len(s) : a[i] = s[i]) /\ (\A i \in 1..Len(s) : b[i] = all[i])
    BY <1>1, <1>2
  <2> HIDE DEF a, b
  <2>2. ASSUME a = b PROVE \A i \in DOMAIN s : s[i] = all[i]
    BY <1>1, <2>1, <2>2
  <2>3. ASSUME \A i \in DOMAIN s : s[i] = all[i] PROVE a = b
    <3>1. a \in [1..Len(s) -> Nat] /\ b \in [1..Len(s) -> Nat]
      BY <1>1, <2>1
    <3>2. \A i \in 1..Len(s) : a[i] = b[i]
      BY <1>1, <2>1, <2>3
    <3> QED BY <3>1, <3>2
  <2>4. a = b <=> \A i \in DOMAIN s : s[i] = all[i]
    BY <2>2, <2>3
  <2> QED BY <2>4 DEF a, b
<1> QED BY <1>2 DEF Stores!IsPrefix

\* An order is put in front of the list, which is cut.
Newest(v, s) == SubSeq(<<v>> \o s, 1, IF Len(s) < MaxOrders THEN Len(s) + 1 ELSE MaxOrders)

LEMMA NewestIs ==
    ASSUME NEW v \in Nat, NEW s \in Seq(Nat), Len(s) <= MaxOrders
    PROVE  /\ Newest(v, s) \in Seq(Nat) /\ Len(Newest(v, s)) <= MaxOrders
           /\ Len(Newest(v, s)) <= Len(s) + 1
           /\ Len(Newest(v, s)) < MaxOrders => Len(s) < MaxOrders /\ Len(Newest(v, s)) = Len(s) + 1
           /\ 1 \in DOMAIN Newest(v, s) => Newest(v, s)[1] = v
           /\ \A i \in DOMAIN Newest(v, s) : i # 1 => i - 1 \in DOMAIN s /\ Newest(v, s)[i] = s[i - 1]
<1> DEFINE w == <<v>> \o s
           n == IF Len(s) < MaxOrders THEN Len(s) + 1 ELSE MaxOrders
           u == SubSeq(w, 1, n)
<1>1. Len(s) \in Nat /\ MaxOrders \in Nat /\ DOMAIN s = 1..Len(s) /\ <<v>> \in Seq(Nat) /\ Len(<<v>>) = 1 /\ <<v>>[1] = v
  BY InstallAssumption
<1>2. w \in Seq(Nat) /\ Len(w) = Len(s) + 1 /\ w[1] = v /\ \A i \in 2..(Len(s) + 1) : w[i] = s[i - 1]
  BY <1>1
<1>3. n \in Nat /\ n <= Len(s) + 1 /\ n <= MaxOrders /\ (n < MaxOrders => Len(s) < MaxOrders /\ n = Len(s) + 1)
  BY <1>1
<1>4. Newest(v, s) = u
  BY DEF Newest
<1> HIDE DEF w, n
<1>5. u \in Seq(Nat) /\ Len(u) = n /\ \A i \in 1..n : u[i] = w[i]
  BY <1>1, <1>2, <1>3
<1> HIDE DEF u
<1>6. DOMAIN u = 1..n
  BY <1>5
<1>7. 1 \in DOMAIN u => u[1] = v
  BY <1>2, <1>5, <1>6
<1>8. ASSUME NEW i \in DOMAIN u, i # 1 PROVE i - 1 \in DOMAIN s /\ u[i] = s[i - 1]
  <2>1. i \in 2..(Len(s) + 1) /\ i - 1 \in 1..Len(s)
    BY <1>1, <1>3, <1>6, <1>8
  <2>2. u[i] = w[i]
    BY <1>5, <1>6
  <2> QED BY <2>1, <2>2, <1>1, <1>2
<1>9. u \in Seq(Nat) /\ Len(u) <= MaxOrders /\ Len(u) <= Len(s) + 1 /\ (Len(u) < MaxOrders => Len(s) < MaxOrders /\ Len(u) = Len(s) + 1)
  BY <1>3, <1>5
<1> QED BY <1>4, <1>7, <1>8, <1>9

LEMMA NewFirst ==
    ASSUME NEW v \in Nat, NEW s, ListOK(s, v)
    PROVE  ListOK(Newest(v, s), v + 1)
<1> DEFINE u == Newest(v, s)
<1>1. s \in Seq(Nat) /\ Len(s) <= MaxOrders
  BY DEF ListOK
<1>2. /\ u \in Seq(Nat) /\ Len(u) <= MaxOrders
      /\ 1 \in DOMAIN u => u[1] = v
      /\ \A i \in DOMAIN u : i # 1 => i - 1 \in DOMAIN s /\ u[i] = s[i - 1]
  BY <1>1, NewestIs
<1>3. \A i \in DOMAIN s : s[i] \in Nat /\ s[i] < v
  BY <1>1 DEF ListOK
<1> HIDE DEF u
<1>4. ASSUME NEW i \in DOMAIN u, i # 1 PROVE u[i] < v /\ u[i] \in Nat
  <2>1. i - 1 \in DOMAIN s /\ u[i] = s[i - 1]
    BY <1>2, <1>4
  <2> QED BY <2>1, <1>3
<1>5. \A i \in DOMAIN u : u[i] < v + 1
  BY <1>2, <1>4
<1>6. ASSUME NEW i \in DOMAIN u, NEW j \in DOMAIN u, i # j PROVE u[i] # u[j]
  <2>0. i \in Int /\ j \in Int
    BY <1>2
  <2>1. CASE i = 1
    <3>1. u[j] < v /\ u[j] \in Nat /\ u[i] = v
      BY <2>1, <1>2, <1>4, <1>6
    <3> QED BY <3>1
  <2>2. CASE j = 1
    <3>1. u[i] < v /\ u[i] \in Nat /\ u[j] = v
      BY <2>2, <1>2, <1>4, <1>6
    <3> QED BY <3>1
  <2>3. CASE i # 1 /\ j # 1
    <3>1. u[i] = s[i - 1] /\ u[j] = s[j - 1] /\ i - 1 \in DOMAIN s /\ j - 1 \in DOMAIN s
      BY <2>3, <1>2
    <3>2. i - 1 # j - 1
      BY <2>0, <1>6
    <3> QED BY <3>1, <3>2 DEF ListOK
  <2> QED BY <2>1, <2>2, <2>3
<1> QED BY <1>2, <1>5, <1>6 DEF ListOK, u

LEMMA StaysLatest ==
    ASSUME NEW v \in Nat, NEW s \in Seq(Nat), Len(s) <= MaxOrders, NEW all \in Seq(Nat), Latest(s, all)
    PROVE  (<<v>> \o all) \in Seq(Nat) /\ Latest(Newest(v, s), <<v>> \o all)
<1> DEFINE u == Newest(v, s)
           x == <<v>> \o all
<1>1. x \in Seq(Nat) /\ Len(x) = Len(all) + 1 /\ x[1] = v /\ \A i \in 2..(Len(all) + 1) : x[i] = all[i - 1]
  OBVIOUS
<1>2. /\ u \in Seq(Nat) /\ Len(u) <= Len(s) + 1
      /\ Len(u) < MaxOrders => Len(s) < MaxOrders /\ Len(u) = Len(s) + 1
      /\ 1 \in DOMAIN u => u[1] = v
      /\ \A i \in DOMAIN u : i # 1 => i - 1 \in DOMAIN s /\ u[i] = s[i - 1]
  BY NewestIs
<1>3. Len(s) <= Len(all) /\ \A i \in DOMAIN s : s[i] = all[i]
  BY PrefixIs DEF Latest
<1>4. Len(s) \in Nat /\ Len(all) \in Nat /\ DOMAIN s = 1..Len(s)
  OBVIOUS
<1> HIDE DEF u, x
<1>5. ASSUME NEW i \in DOMAIN u PROVE u[i] = x[i]
  <2>1. CASE i = 1
    BY <2>1, <1>1, <1>2
  <2>2. CASE i # 1
    <3>1. i - 1 \in DOMAIN s /\ u[i] = s[i - 1]
      BY <2>2, <1>2
    <3>4. i \in Int
      <4>1. DOMAIN u = 1..Len(u)
        BY <1>2
      <4> QED BY <4>1
    <3>5. i - 1 \in 1..Len(s)
      BY <3>1, <1>4
    <3>2. i - 1 \in 1..Len(all) /\ i \in Int
      BY <3>4, <3>5, <1>3, <1>4
    <3>3. x[i] = all[i - 1]
      BY <3>2, <1>1, <1>4
    <3> QED BY <3>1, <3>3, <1>3
  <2> QED BY <2>1, <2>2
<1>6. Stores!IsPrefix(u, x)
  <2>1. Len(u) <= Len(x)
    BY <1>1, <1>2, <1>3, <1>4
  <2> QED BY <2>1, <1>1, <1>2, <1>5, PrefixIs
<1>7. ASSUME Len(u) < MaxOrders PROVE u = x
  <2>1. Len(u) = Len(s) + 1 /\ s = all
    BY <1>2, <1>7 DEF Latest
  <2>2. Len(u) = Len(x)
    BY <2>1, <1>1
  <2>3. u \in [1..Len(u) -> Nat]
    BY <1>2
  <2>4. x \in [1..Len(u) -> Nat]
    BY <1>1, <2>2
  <2>5. \A i \in 1..Len(u) : u[i] = x[i]
    BY <1>2, <1>5
  <2> QED BY <2>3, <2>4, <2>5
<1> QED BY <1>1, <1>6, <1>7 DEF Latest, u, x

-----------------------------------------------------------------------------
(* The card and the address preference                                       *)

Cards == [default : Stores!AtMostOne(Addrs), last : Stores!AtMostOne(Addrs), favorites : [Rests -> Nat],
          prefs : SUBSET Policies, cache : SUBSET Addrs]
Prefs == [default : Stores!AtMostOne(Addrs), last : Stores!AtMostOne(Addrs)]

RecordEdits == [file : {"card"}, op : {"record"}, addr : Addrs, rest : SUBSET Rests, strict : BOOLEAN]
DefaultEdits == [file : {"card"}, op : {"default"}, addr : Addrs, strict : BOOLEAN]
PolicyEdits == [file : {"card"}, op : {"policy", "nopolicy"}, policy : Policies, strict : BOOLEAN]
SnapEdits == [file : {"card"}, op : {"cache", "heal"}, strict : BOOLEAN]
AppendEdits == [file : {"orders"}, op : {"append"}, addr : Addrs, strict : BOOLEAN]
PlacedEdits == [file : {"pref"}, op : {"placed"}, addr : Addrs, strict : BOOLEAN]
ChooseEdits == [file : {"pref"}, op : {"choose"}, addr : Addrs, lock : BOOLEAN, strict : BOOLEAN]
AddEdits == [file : {"presets"}, op : {"add"}, name : Stores!Names, strict : BOOLEAN]
RemoveEdits == [file : {"presets"}, op : {"remove"}, word : Words, n : Nat, only : BOOLEAN, strict : BOOLEAN]

\* The edits of a call; those of a card that is shown are of another kind.
CallEdits == TasteEdits \cup RecordEdits \cup DefaultEdits \cup PolicyEdits \cup AppendEdits \cup PlacedEdits
             \cup ChooseEdits \cup AddEdits \cup RemoveEdits
AllEdits == CallEdits \cup SnapEdits

LEMMA AtMostOneIs ==
    ASSUME NEW S
    PROVE  /\ \A x \in S : {x} \in Stores!AtMostOne(S)
           /\ {} \in Stores!AtMostOne(S)
           /\ \A A \in Stores!AtMostOne(S) : A \subseteq S /\ \A B : A \cap B \in Stores!AtMostOne(S)
<1>1. ASSUME NEW A \in Stores!AtMostOne(S), NEW B PROVE A \subseteq S /\ A \cap B \in Stores!AtMostOne(S)
  <2>1. CASE A = {}
    <3>1. A \cap B = {}
      BY <2>1
    <3> QED BY <2>1, <3>1 DEF Stores!AtMostOne
  <2>2. CASE \E x \in S : A = {x}
    <3>1. PICK x \in S : A = {x}
      BY <2>2
    <3>2. A \cap B = {} \/ A \cap B = {x}
      BY <3>1
    <3> QED BY <3>1, <3>2 DEF Stores!AtMostOne
  <2> QED BY <2>1, <2>2 DEF Stores!AtMostOne
<1> QED BY <1>1 DEF Stores!AtMostOne

\* The kinds of an edit, by its file.
LEMMA EditKinds ==
    ASSUME NEW e \in AllEdits
    PROVE  /\ e.file \in Stores!Files
           /\ e.file = "taste" => e \in TasteEdits
           /\ e.file = "card" => e \in RecordEdits \cup DefaultEdits \cup PolicyEdits \cup SnapEdits
           /\ e.file = "orders" => e \in AppendEdits
           /\ e.file = "pref" => e \in PlacedEdits \cup ChooseEdits
           /\ e.file = "presets" => e \in AddEdits \cup RemoveEdits
<1>1. e \in TasteEdits => e.file = "taste"
  BY DEF TasteEdits, ObserveEdits, UpsertEdits, DishEdits, PickEdits
<1>2. e \in RecordEdits \cup DefaultEdits \cup PolicyEdits \cup SnapEdits => e.file = "card"
  BY DEF RecordEdits, DefaultEdits, PolicyEdits, SnapEdits
<1>3. e \in AppendEdits => e.file = "orders"
  BY DEF AppendEdits
<1>4. e \in PlacedEdits \cup ChooseEdits => e.file = "pref"
  BY DEF PlacedEdits, ChooseEdits
<1>5. e \in AddEdits \cup RemoveEdits => e.file = "presets"
  BY DEF AddEdits, RemoveEdits
<1>6. \/ e \in TasteEdits \/ e \in RecordEdits \cup DefaultEdits \cup PolicyEdits \cup SnapEdits
      \/ e \in AppendEdits \/ e \in PlacedEdits \cup ChooseEdits \/ e \in AddEdits \cup RemoveEdits
  BY DEF AllEdits, CallEdits
<1> HIDE DEF TasteEdits, RecordEdits, DefaultEdits, PolicyEdits, SnapEdits, AppendEdits, PlacedEdits, ChooseEdits, AddEdits, RemoveEdits
<1> QED BY <1>1, <1>2, <1>3, <1>4, <1>5, <1>6 DEF Stores!Files

\* What an edit of the card does to it.
LEMMA RecordKeeps ==
    ASSUME NEW c \in Cards, NEW addr \in Addrs, NEW rest \in SUBSET Rests
    PROVE  /\ Stores!RecordOrder(c, addr, rest) \in Cards
           /\ c.default # {} => Stores!RecordOrder(c, addr, rest).default = c.default
<1> DEFINE a == [c EXCEPT !.last = {addr}]
           d == IF c.default = {} THEN {addr} ELSE c.default
           b == [a EXCEPT !.default = d]
           f == [r \in Rests |-> IF r \in rest THEN c.favorites[r] + 1 ELSE c.favorites[r]]
           n == [b EXCEPT !.favorites = f]
<1>1. {addr} \in Stores!AtMostOne(Addrs) /\ c.default \in Stores!AtMostOne(Addrs) /\ c.favorites \in [Rests -> Nat]
  BY AtMostOneIs DEF Cards
<1>2. a \in Cards /\ a.default = c.default /\ a.favorites = c.favorites
  BY <1>1 DEF Cards
<1>3. d \in Stores!AtMostOne(Addrs) /\ (c.default # {} => d = c.default)
  BY <1>1
<1>4. f \in [Rests -> Nat]
  BY <1>1
<1>5. Stores!RecordOrder(c, addr, rest) = n
  BY <1>2 DEF Stores!RecordOrder, Stores!NoAddr
<1> HIDE DEF a, d, f
<1>6. b \in Cards /\ b.default = d
  BY <1>2, <1>3 DEF Cards
<1> HIDE DEF b
<1>7. n \in Cards /\ n.default = d
  BY <1>4, <1>6 DEF Cards
<1> QED BY <1>3, <1>5, <1>7

LEMMA ShownKeeps ==
    ASSUME NEW c \in Cards, NEW list \in SUBSET Addrs
    PROVE  /\ [c EXCEPT !.cache = list] \in Cards /\ [c EXCEPT !.cache = list].default = c.default
           /\ Stores!ReconcileCard(c, list) \in Cards
           /\ Stores!ReconcileCard(c, list).default = c.default \cap list
<1>1. [c EXCEPT !.cache = list] \in Cards /\ [c EXCEPT !.cache = list].default = c.default
  BY DEF Cards
<1> DEFINE d == c.default \cap list
           l == c.last \cap list
           a == [c EXCEPT !.default = d]
           b == [a EXCEPT !.last = l]
<1>2. d \in Stores!AtMostOne(Addrs) /\ l \in Stores!AtMostOne(Addrs)
  <2>1. c.default \in Stores!AtMostOne(Addrs) /\ c.last \in Stores!AtMostOne(Addrs)
    BY DEF Cards
  <2> QED BY <2>1, AtMostOneIs
<1>3. Stores!ReconcileCard(c, list) = b
  BY DEF Stores!ReconcileCard, Cards
<1> HIDE DEF d, l
<1>4. a \in Cards /\ a.default = d
  BY <1>2 DEF Cards
<1> HIDE DEF a
<1>5. b \in Cards /\ b.default = d
  BY <1>2, <1>4 DEF Cards
<1> QED BY <1>1, <1>3, <1>5 DEF d

-----------------------------------------------------------------------------
(* A save                                                                    *)

\* What is in file `f` is well formed, if `v` orders were saved.
FileOK(f, x, v) ==
    /\ f = "card" => x \in Cards
    /\ f = "taste" => TasteOK(x)
    /\ f = "orders" => OrdersOK(x, v)
    /\ f = "pref" => x \in Prefs
    /\ f = "presets" => PresetsOK(x)
\* It is what the user said and did.
Agrees(f, x, said, runs, wish, pin, all) ==
    /\ f = "card" => wish = Stores!NoAddr \/ x.default = wish
    /\ f = "taste" => Memory(x, said, runs)
    /\ f = "orders" => \A a \in Addrs : Latest(x[a], all[a])
    /\ f = "pref" => pin = Stores!NoAddr \/ x.default = pin
Notings ==
    /\ now \in Nat /\ ran \in [Items -> Runs] /\ placed \in [Addrs -> Seq(Nat)]
    /\ addresses \in SUBSET Addrs /\ wished \subseteq addresses

LEMMA NotesOnly ==
    ASSUME NEW e \in AllEdits, NEW x, Stores!Notes(e, x)
    PROVE  /\ e.file # "taste" => told' = told /\ ran' = ran
           /\ wished' = IF e.op = "default" THEN {e.addr} \cap addresses ELSE wished
           /\ e.op # "choose" => pinned' = pinned
           /\ e.op = "choose" => pinned' = IF e.lock THEN {e.addr} ELSE pinned
           /\ placed' = IF e.op = "append" THEN [placed EXCEPT ![e.addr] = <<version["orders"]>> \o @] ELSE placed
<1>1. e.file # "taste" => e.op \in {"record", "default", "policy", "nopolicy", "cache", "heal", "append", "placed", "choose",
                                    "add", "remove"}
  <2>1. e \in RecordEdits \cup DefaultEdits \cup PolicyEdits \cup SnapEdits \cup AppendEdits \cup PlacedEdits
              \cup ChooseEdits \cup AddEdits \cup RemoveEdits
        => e.op \in {"record", "default", "policy", "nopolicy", "cache", "heal", "append", "placed", "choose", "add", "remove"}
    BY DEF RecordEdits, DefaultEdits, PolicyEdits, SnapEdits, AppendEdits, PlacedEdits, ChooseEdits, AddEdits, RemoveEdits
  <2>2. e \in TasteEdits => e.file = "taste"
    BY DEF TasteEdits, ObserveEdits, UpsertEdits, DishEdits, PickEdits
  <2> QED BY <2>1, <2>2, Zenon DEF AllEdits, CallEdits
<1>2. ASSUME e.file # "taste" PROVE told' = told /\ ran' = ran
  <2>1. e.op \notin {"upsert", "promote", "forget", "forgetpick", "observe", "decline"}
    BY <1>1, <1>2
  <2> QED BY <2>1 DEF Stores!Notes
<1>3. /\ wished' = IF e.op = "default" THEN {e.addr} \cap addresses ELSE wished
      /\ e.op # "choose" => pinned' = pinned
      /\ e.op = "choose" => pinned' = IF e.lock THEN {e.addr} ELSE pinned
      /\ placed' = IF e.op = "append" THEN [placed EXCEPT ![e.addr] = <<version["orders"]>> \o @] ELSE placed
  BY DEF Stores!Notes
<1> QED BY <1>2, <1>3

LEMMA CardSaved ==
    ASSUME NEW e \in RecordEdits \cup DefaultEdits \cup PolicyEdits \cup SnapEdits, NEW x \in Cards, NEW p,
           Stores!Notes(e, x), Notings,
           e \in SnapEdits => kept[p].list \in SUBSET Addrs /\ addresses \subseteq kept[p].list,
           e.op = "heal" => x = kept[p].card
    PROVE  /\ Stores!Edited(p, e, x) \in Cards
           /\ wished = Stores!NoAddr \/ x.default = wished => wished' = Stores!NoAddr \/ Stores!Edited(p, e, x).default = wished'
<1>1. e \in AllEdits
  BY DEF AllEdits, CallEdits
<1>2. wished' = IF e.op = "default" THEN {e.addr} \cap addresses ELSE wished
  BY <1>1, NotesOnly
<1>3. CASE e \in RecordEdits
  <2>1. e.op = "record" /\ e.addr \in Addrs /\ e.rest \in SUBSET Rests
    BY <1>3 DEF RecordEdits
  <2>2. Stores!Edited(p, e, x) = Stores!RecordOrder(x, e.addr, e.rest)
    BY <2>1 DEF Stores!Edited
  <2>3. wished' = wished
    BY <1>2, <2>1
  <2> QED BY <2>1, <2>2, <2>3, RecordKeeps DEF Stores!NoAddr
<1>4. CASE e \in DefaultEdits
  <2>1. e.op = "default" /\ e.addr \in Addrs
    BY <1>4 DEF DefaultEdits
  <2> DEFINE a == e.addr
  <2>2. Stores!Edited(p, e, x) = [x EXCEPT !.default = {a}]
    BY <2>1 DEF Stores!Edited
  <2>3. wished' = {a} \cap addresses
    BY <1>2, <2>1
  <2>4. a \in Addrs
    BY <2>1
  <2> HIDE DEF a
  <2>5. {a} \in Stores!AtMostOne(Addrs)
    BY <2>4, AtMostOneIs
  <2>6. [x EXCEPT !.default = {a}] \in Cards /\ [x EXCEPT !.default = {a}].default = {a}
    BY <2>5 DEF Cards
  <2> QED BY <2>2, <2>3, <2>6 DEF Stores!NoAddr
<1>5. CASE e \in PolicyEdits
  <2>1. e.op \in {"policy", "nopolicy"} /\ e.policy \in Policies
    BY <1>5 DEF PolicyEdits
  <2> DEFINE q == e.policy
  <2>2. \/ Stores!Edited(p, e, x) = [x EXCEPT !.prefs = @ \cup {q}]
        \/ Stores!Edited(p, e, x) = [x EXCEPT !.prefs = @ \ {q}]
    BY <2>1 DEF Stores!Edited
  <2>3. wished' = wished
    BY <1>2, <2>1
  <2>4. q \in Policies
    BY <2>1
  <2> HIDE DEF q
  <2>5. x.prefs \cup {q} \in SUBSET Policies /\ x.prefs \ {q} \in SUBSET Policies
    BY <2>4 DEF Cards
  <2>6. /\ [x EXCEPT !.prefs = @ \cup {q}] \in Cards /\ [x EXCEPT !.prefs = @ \cup {q}].default = x.default
        /\ [x EXCEPT !.prefs = @ \ {q}] \in Cards /\ [x EXCEPT !.prefs = @ \ {q}].default = x.default
    BY <2>5 DEF Cards
  <2> QED BY <2>2, <2>3, <2>6
<1>6. CASE e \in SnapEdits
  <2>1. e.op \in {"cache", "heal"} /\ kept[p].list \in SUBSET Addrs /\ addresses \subseteq kept[p].list
    BY <1>6 DEF SnapEdits
  <2> DEFINE list == kept[p].list
  <2>2. \/ Stores!Edited(p, e, x) = [x EXCEPT !.cache = list]
        \/ Stores!Edited(p, e, x) = Stores!ReconcileCard(x, list)
    BY <2>1 DEF Stores!Edited
  <2>3. wished' = wished /\ wished \subseteq list
    BY <1>2, <2>1 DEF Notings
  <2>4. list \in SUBSET Addrs
    BY <2>1
  <2> HIDE DEF list
  <2>5. /\ [x EXCEPT !.cache = list] \in Cards /\ [x EXCEPT !.cache = list].default = x.default
        /\ Stores!ReconcileCard(x, list) \in Cards /\ Stores!ReconcileCard(x, list).default = x.default \cap list
    BY <2>4, ShownKeeps
  <2>6. x.default = wished => x.default \cap list = wished
    BY <2>3
  <2> QED BY <2>2, <2>3, <2>5, <2>6
<1> QED BY <1>3, <1>4, <1>5, <1>6

LEMMA OrdersSaved ==
    ASSUME NEW e \in AppendEdits, NEW x, NEW p, version["orders"] \in Nat, OrdersOK(x, version["orders"]),
           Stores!Notes(e, x), Notings
    PROVE  /\ OrdersOK(Stores!Edited(p, e, x), version["orders"] + 1) /\ placed' \in [Addrs -> Seq(Nat)]
           /\ (\A a \in Addrs : Latest(x[a], placed[a])) => \A a \in Addrs : Latest(Stores!Edited(p, e, x)[a], placed'[a])
<1> DEFINE v == version["orders"]
           b == e.addr
           u == Stores!Edited(p, e, x)
<1>1. e \in AllEdits
  BY DEF AllEdits, CallEdits
<1>2. e.op = "append" /\ b \in Addrs
  BY DEF AppendEdits
<1>3. placed' = [placed EXCEPT ![b] = <<v>> \o @]
  BY <1>1, <1>2, NotesOnly
<1>4. u = [x EXCEPT ![b] = Newest(v, @)]
  BY <1>2 DEF Stores!Edited, Stores!AppendOrder, Newest
<1>5. x \in [Addrs -> Seq(Nat)] /\ v \in Nat /\ \A a \in Addrs : ListOK(x[a], v)
  BY DEF OrdersOK
<1>6. placed \in [Addrs -> Seq(Nat)]
  BY DEF Notings
<1> HIDE DEF u, v, b
<1>7. ListOK(Newest(v, x[b]), v + 1) /\ Newest(v, x[b]) \in Seq(Nat)
  <2>1. ListOK(x[b], v)
    BY <1>2, <1>5
  <2>2. ListOK(Newest(v, x[b]), v + 1)
    BY <2>1, <1>5, NewFirst
  <2> QED BY <2>2 DEF ListOK
<1>8. u \in [Addrs -> Seq(Nat)] /\ u[b] = Newest(v, x[b]) /\ \A a \in Addrs : a # b => u[a] = x[a]
  BY <1>2, <1>4, <1>5, <1>7
<1>9. <<v>> \o placed[b] \in Seq(Nat)
  BY <1>2, <1>5, <1>6
<1>10. placed' \in [Addrs -> Seq(Nat)] /\ placed'[b] = <<v>> \o placed[b] /\ \A a \in Addrs : a # b => placed'[a] = placed[a]
  BY <1>2, <1>3, <1>6, <1>9
<1>11. ASSUME NEW a \in Addrs PROVE ListOK(u[a], v + 1)
  <2>1. CASE a = b
    BY <2>1, <1>7, <1>8
  <2>2. CASE a # b
    <3>1. u[a] = x[a] /\ ListOK(x[a], v)
      BY <2>2, <1>5, <1>8
    <3> HIDE <1>8
    <3>2. \A i \in DOMAIN x[a] : x[a][i] < v + 1
      <4>1. x[a] \in Seq(Nat) /\ \A i \in DOMAIN x[a] : x[a][i] < v
        BY <3>1 DEF ListOK
      <4> QED BY <4>1, <1>5
    <3> QED BY <3>1, <3>2 DEF ListOK
  <2> QED BY <2>1, <2>2
<1>12. ASSUME \A a \in Addrs : Latest(x[a], placed[a]), NEW a \in Addrs PROVE Latest(u[a], placed'[a])
  <2>1. CASE a = b
    <3>1. x[b] \in Seq(Nat) /\ Len(x[b]) <= MaxOrders /\ placed[b] \in Seq(Nat) /\ Latest(x[b], placed[b])
      BY <1>2, <1>5, <1>6, <1>12 DEF ListOK
    <3>2. Latest(Newest(v, x[b]), <<v>> \o placed[b])
      BY <3>1, <1>5, StaysLatest
    <3> QED BY <2>1, <3>2, <1>8, <1>10
  <2>2. CASE a # b
    BY <2>2, <1>8, <1>10, <1>12
  <2> QED BY <2>1, <2>2
<1>13. OrdersOK(u, v + 1)
  BY <1>8, <1>11 DEF OrdersOK
<1> QED BY <1>10, <1>12, <1>13 DEF u, v

LEMMA PrefSaved ==
    ASSUME NEW e \in PlacedEdits \cup ChooseEdits, NEW x \in Prefs, NEW p, Stores!Notes(e, x)
    PROVE  /\ Stores!Edited(p, e, x) \in Prefs
           /\ pinned = Stores!NoAddr \/ x.default = pinned => pinned' = Stores!NoAddr \/ Stores!Edited(p, e, x).default = pinned'
<1>1. e \in AllEdits
  BY DEF AllEdits, CallEdits
<1>2. /\ e.op # "choose" => pinned' = pinned
      /\ e.op = "choose" => pinned' = IF e.lock THEN {e.addr} ELSE pinned
  BY <1>1, NotesOnly
<1>3. CASE e \in PlacedEdits
  <2>1. e.op = "placed" /\ e.addr \in Addrs
    BY <1>3 DEF PlacedEdits
  <2> DEFINE a == e.addr
  <2>2. Stores!Edited(p, e, x) = [x EXCEPT !.last = {a}]
    BY <2>1 DEF Stores!Edited
  <2>3. {a} \in Stores!AtMostOne(Addrs)
    BY <2>1, AtMostOneIs
  <2> HIDE DEF a
  <2>4. [x EXCEPT !.last = {a}] \in Prefs /\ [x EXCEPT !.last = {a}].default = x.default
    BY <2>3 DEF Prefs
  <2> QED BY <2>1, <2>2, <2>4, <1>2
<1>4. CASE e \in ChooseEdits
  <2>1. e.op = "choose" /\ e.addr \in Addrs /\ e.lock \in BOOLEAN
    BY <1>4 DEF ChooseEdits
  <2> DEFINE d == IF e.lock THEN {e.addr} ELSE x.default
             l == {e.addr}
  <2>2. Stores!Edited(p, e, x) = [default |-> d, last |-> l]
    BY <2>1 DEF Stores!Edited
  <2>3. l \in Stores!AtMostOne(Addrs) /\ d \in Stores!AtMostOne(Addrs)
    BY <2>1, AtMostOneIs DEF Prefs
  <2>4. pinned' = IF e.lock THEN l ELSE pinned
    BY <1>2, <2>1
  <2>5. d = IF e.lock THEN l ELSE x.default
    OBVIOUS
  <2> HIDE DEF d, l
  <2>6. [default |-> d, last |-> l] \in Prefs
    BY <2>3 DEF Prefs
  <2> QED BY <2>1, <2>2, <2>4, <2>5, <2>6
<1> QED BY <1>3, <1>4

LEMMA PresetsSaved ==
    ASSUME NEW e \in AddEdits \cup RemoveEdits, NEW x, PresetsOK(x), NEW p
    PROVE  PresetsOK(Stores!Edited(p, e, x))
<1>1. CASE e \in AddEdits
  <2>1. e.op = "add" /\ e.name \in Stores!Names
    BY <1>1 DEF AddEdits
  <2>2. Stores!Edited(p, e, x) = Stores!Add(x, e.name)
    BY <2>1 DEF Stores!Edited
  <2> QED BY <2>1, <2>2, AddedPreset
<1>2. CASE e \in RemoveEdits
  <2>1. e.op = "remove"
    BY <1>2 DEF RemoveEdits
  <2>2. Stores!Edited(p, e, x) = Stores!RemovePreset(x, e.word, e.n)
    BY <2>1 DEF Stores!Edited
  <2> QED BY <2>2, RemovedPreset
<1> QED BY <1>1, <1>2

-----------------------------------------------------------------------------
(* What a call has to do                                                     *)

LEMMA TellsApart ==
    ASSUME NEW e \in AllEdits
    PROVE  /\ e.file # "card" => e.op # "default"
           /\ e.file # "pref" => e.op # "choose"
           /\ e.file # "orders" => e.op # "append"
           /\ e.op \in {"cache", "heal"} => e \in SnapEdits
           /\ e \in CallEdits => e.op \notin {"cache", "heal"}
<1>1. e \in TasteEdits => e.op \in {"observe", "upsert", "promote", "decline", "forget", "forgetpick"}
  BY DEF TasteEdits, ObserveEdits, UpsertEdits, DishEdits, PickEdits
<1>2. e \in RecordEdits \cup DefaultEdits \cup PolicyEdits => e.op \in {"record", "default", "policy", "nopolicy"} /\ e.file = "card"
  BY DEF RecordEdits, DefaultEdits, PolicyEdits
<1>3. e \in AppendEdits => e.op = "append" /\ e.file = "orders"
  BY DEF AppendEdits
<1>4. e \in PlacedEdits \cup ChooseEdits => e.op \in {"placed", "choose"} /\ e.file = "pref"
  BY DEF PlacedEdits, ChooseEdits
<1>5. e \in AddEdits \cup RemoveEdits => e.op \in {"add", "remove"}
  BY DEF AddEdits, RemoveEdits
<1>6. e \in SnapEdits => e.op \in {"cache", "heal"}
  BY DEF SnapEdits
<1> HIDE DEF TasteEdits, RecordEdits, DefaultEdits, PolicyEdits, SnapEdits, AppendEdits, PlacedEdits, ChooseEdits, AddEdits, RemoveEdits
<1>7. e \in CallEdits => \/ e \in TasteEdits \/ e \in RecordEdits \cup DefaultEdits \cup PolicyEdits
                         \/ e \in AppendEdits \/ e \in PlacedEdits \cup ChooseEdits \/ e \in AddEdits \cup RemoveEdits
  BY DEF CallEdits
<1>8. e \in CallEdits \/ e \in SnapEdits
  BY DEF AllEdits
<1> QED BY <1>1, <1>2, <1>3, <1>4, <1>5, <1>6, <1>7, <1>8

\* An edit keeps its file well formed and true, and the other files true.
LEMMA EditDoes ==
    ASSUME NEW e \in AllEdits, NEW x, NEW p, Stores!Notes(e, x), Notings, version["orders"] \in Nat,
           FileOK(e.file, x, version["orders"]),
           e \in SnapEdits => kept[p].list \in SUBSET Addrs /\ addresses \subseteq kept[p].list,
           e.op = "heal" => x = kept[p].card
    PROVE  /\ FileOK(e.file, Stores!Edited(p, e, x), version["orders"] + 1)
           /\ Agrees(e.file, x, told, ran, wished, pinned, placed) =>
                Agrees(e.file, Stores!Edited(p, e, x), told', ran', wished', pinned', placed')
           /\ \A f, y : f # e.file /\ Agrees(f, y, told, ran, wished, pinned, placed) =>
                Agrees(f, y, told', ran', wished', pinned', placed')
           /\ ran' \in [Items -> Runs] /\ placed' \in [Addrs -> Seq(Nat)] /\ wished' \subseteq addresses
<1> DEFINE u == Stores!Edited(p, e, x)
<1>1. /\ e.file # "taste" => told' = told /\ ran' = ran
      /\ e.file # "card" => wished' = wished
      /\ e.file # "pref" => pinned' = pinned
      /\ e.file # "orders" => placed' = placed
      /\ wished' \subseteq addresses
  BY NotesOnly, TellsApart DEF Notings
<1>2. \A f, y : f # e.file /\ Agrees(f, y, told, ran, wished, pinned, placed) =>
                Agrees(f, y, told', ran', wished', pinned', placed')
  BY <1>1 DEF Agrees
<1> HIDE DEF u
<1>3. CASE e.file = "taste"
  <2>1. e \in TasteEdits /\ TasteOK(x) /\ now \in Nat /\ ran \in [Items -> Runs]
    BY <1>3, EditKinds DEF FileOK, Notings
  <2>2. Does(x, u)
    BY <2>1, TasteDoes DEF u
  <2>3. placed' \in [Addrs -> Seq(Nat)]
    BY <1>1, <1>3 DEF Notings
  <2> QED BY <2>2, <2>3, <1>1, <1>2, <1>3 DEF Does, FileOK, Agrees, u
<1>4. CASE e.file = "card"
  <2>1. e \in RecordEdits \cup DefaultEdits \cup PolicyEdits \cup SnapEdits /\ x \in Cards
    BY <1>4, EditKinds DEF FileOK
  <2>2. /\ u \in Cards
        /\ wished = Stores!NoAddr \/ x.default = wished => wished' = Stores!NoAddr \/ u.default = wished'
    BY <2>1, CardSaved DEF u
  <2>3. placed' \in [Addrs -> Seq(Nat)] /\ ran' \in [Items -> Runs]
    BY <1>1, <1>4 DEF Notings
  <2> QED BY <2>2, <2>3, <1>1, <1>2, <1>4 DEF FileOK, Agrees, u
<1>5. CASE e.file = "orders"
  <2>1. e \in AppendEdits /\ OrdersOK(x, version["orders"])
    BY <1>5, EditKinds DEF FileOK
  <2>2. /\ OrdersOK(u, version["orders"] + 1) /\ placed' \in [Addrs -> Seq(Nat)]
        /\ (\A a \in Addrs : Latest(x[a], placed[a])) => \A a \in Addrs : Latest(u[a], placed'[a])
    BY <2>1, OrdersSaved DEF u
  <2>3. ran' \in [Items -> Runs]
    BY <1>1, <1>5 DEF Notings
  <2> QED BY <2>2, <2>3, <1>1, <1>2, <1>5 DEF FileOK, Agrees, u
<1>6. CASE e.file = "pref"
  <2>1. e \in PlacedEdits \cup ChooseEdits /\ x \in Prefs
    BY <1>6, EditKinds DEF FileOK
  <2>2. /\ u \in Prefs
        /\ pinned = Stores!NoAddr \/ x.default = pinned => pinned' = Stores!NoAddr \/ u.default = pinned'
    BY <2>1, PrefSaved DEF u
  <2>3. placed' \in [Addrs -> Seq(Nat)] /\ ran' \in [Items -> Runs]
    BY <1>1, <1>6 DEF Notings
  <2> QED BY <2>2, <2>3, <1>1, <1>2, <1>6 DEF FileOK, Agrees, u
<1>7. CASE e.file = "presets"
  <2>1. e \in AddEdits \cup RemoveEdits /\ PresetsOK(x)
    BY <1>7, EditKinds DEF FileOK
  <2>2. PresetsOK(u)
    BY <2>1, PresetsSaved DEF u
  <2>3. placed' \in [Addrs -> Seq(Nat)] /\ ran' \in [Items -> Runs]
    BY <1>1, <1>7 DEF Notings
  <2> QED BY <2>2, <2>3, <1>1, <1>2, <1>7 DEF FileOK, Agrees, u
<1> QED BY <1>3, <1>4, <1>5, <1>6, <1>7, EditKinds DEF Stores!Files

LEMMA FileLater ==
    ASSUME NEW f, NEW x, NEW v \in Nat, NEW w \in Nat, FileOK(f, x, v), f = "orders" => v <= w
    PROVE  FileOK(f, x, w)
<1>1. CASE f = "orders"
  <2>1. x \in [Addrs -> Seq(Nat)] /\ v <= w /\ \A a \in Addrs : ListOK(x[a], v)
    BY <1>1 DEF FileOK, OrdersOK
  <2>2. ASSUME NEW a \in Addrs PROVE ListOK(x[a], w)
    <3>1. x[a] \in Seq(Nat) /\ ListOK(x[a], v)
      BY <2>1
    <3>2. \A i \in DOMAIN x[a] : x[a][i] \in Nat /\ x[a][i] < v
      BY <3>1 DEF ListOK
    <3>3. \A i \in DOMAIN x[a] : x[a][i] < w
      BY <3>2, <2>1
    <3> QED BY <3>1, <3>3 DEF ListOK
  <2> QED BY <1>1, <2>1, <2>2 DEF FileOK, OrdersOK
<1> QED BY <1>1 DEF FileOK

-----------------------------------------------------------------------------
\* The ways in which a call's edits are written down.
LEMMA Joined ==
    ASSUME NEW T
    PROVE  /\ <<>> \in Seq(T) /\ \A x \in T : <<x>> \in Seq(T)
           /\ \A a, b \in Seq(T) : a \o b \in Seq(T)
OBVIOUS

LEMMA OneIs ==
    ASSUME NEW X, NEW S \in Stores!AtMostOne(X), NEW T, NEW e, S # {} => e \in T
    PROVE  [i \in 1..Stores!Cardinality(S) |-> e] \in Seq(T)
<1> DEFINE n == Stores!Cardinality(S)
<1>1. CASE S = {}
  <2>1. n = 0
    BY <1>1, SameCount, FS_EmptySet
  <2> HIDE DEF n
  <2>2. [i \in 1..n |-> e] \in [1..n -> T] /\ n \in Nat
    BY <2>1
  <2> QED BY <2>2, SeqDef DEF n
<1>2. CASE S # {}
  <2>1. PICK x : S = {x}
    BY <1>2 DEF Stores!AtMostOne
  <2>2. n = 1
    BY <2>1, SameCount, FS_Singleton
  <2> HIDE DEF n
  <2>3. [i \in 1..n |-> e] \in [1..n -> T] /\ n \in Nat
    BY <1>2, <2>2
  <2> QED BY <2>3, SeqDef DEF n
<1> QED BY <1>1, <1>2

LEMMA ByIs ==
    ASSUME NEW E, E \subseteq Seq(CallEdits), NEW f \in Stores!Followed
    PROVE  Stores!By(E)[f] \subseteq Seq(CallEdits)
<1>1. Stores!By(E)[f] = {Stores!Kept(s, f) : s \in E} \ {<<>>}
  BY DEF Stores!By
<1>2. ASSUME NEW s \in E PROVE Stores!Kept(s, f) \in Seq(CallEdits)
  <2> DEFINE K == {e \in Stores!ToSet(s) : e.file \in f}
  <2>1. Stores!Kept(s, f) = Filtered(s, K)
    BY SameHere DEF Stores!Kept
  <2> HIDE DEF K
  <2>2. s \in Seq(CallEdits)
    OBVIOUS
  <2> QED BY <2>1, <2>2, OnlyThose
<1> QED BY <1>1, <1>2

LEMMA LinesAre == Stores!Lines \cup {<<>>} \subseteq Seq(Stores!Obs)
<1>1. \A o \in Stores!Obs : <<o>> \in Seq(Stores!Obs)
  OBVIOUS
<1>2. ASSUME NEW x \in Stores!Obs \X Stores!Obs PROVE x \in Seq(Stores!Obs)
  <2>1. PICK a \in Stores!Obs, b \in Stores!Obs : x = <<a, b>>
    OBVIOUS
  <2>2. <<a, b>> \in Seq(Stores!Obs)
    OBVIOUS
  <2> QED BY <2>1, <2>2
<1>3. <<>> \in Seq(Stores!Obs)
  OBVIOUS
<1> DEFINE Q == Seq(Stores!Obs)
<1>4. (\A o \in Stores!Obs : <<o>> \in Q) /\ (\A x \in Stores!Obs \X Stores!Obs : x \in Q) /\ <<>> \in Q
  BY <1>1, <1>2, <1>3
<1> HIDE DEF Q
<1>5. Stores!Lines \cup {<<>>} \subseteq Q
  BY <1>4 DEF Stores!Lines
<1> QED BY <1>5 DEF Q

LEMMA PlacementsAre == \A f \in Stores!Followed : Stores!Placements[f] \subseteq Seq(CallEdits)
<1> DEFINE R(addr, rest) == [file |-> "card", op |-> "record", addr |-> addr, rest |-> rest, strict |-> FALSE]
           O(addr) == [file |-> "orders", op |-> "append", addr |-> addr, strict |-> FALSE]
           P(addr) == [file |-> "pref", op |-> "placed", addr |-> addr, strict |-> FALSE]
           T(item, line) == [file |-> "taste", op |-> "observe", lines |-> <<<<item, line>>>>, strict |-> FALSE]
           Of(addr, rest, item, line, app) ==
             <<R(addr, rest)>> \o (IF app /\ line # <<>> THEN <<O(addr)>> ELSE <<>>)
               \o (IF app THEN <<P(addr)>> ELSE <<>>)
               \o (IF app /\ line # <<>> THEN <<T(item, line)>> ELSE <<>>)
           E == {Of(addr, rest, item, line, app) : addr \in Addrs, rest \in Stores!AtMostOne(Rests), item \in Items,
                                                  line \in Stores!Lines \cup {<<>>}, app \in BOOLEAN}
<1>1. Stores!Placements = Stores!By(E)
  BY DEF Stores!Placements
<1>2. ASSUME NEW addr \in Addrs, NEW rest \in Stores!AtMostOne(Rests), NEW item \in Items,
             NEW line \in Stores!Lines \cup {<<>>}, NEW app \in BOOLEAN
      PROVE  Of(addr, rest, item, line, app) \in Seq(CallEdits)
  <2>1. rest \in SUBSET Rests /\ line \in Seq(Stores!Obs)
    BY AtMostOneIs, LinesAre
  <2>2. R(addr, rest) \in CallEdits
    <3>1. R(addr, rest) \in RecordEdits
      BY <2>1 DEF RecordEdits
    <3> QED BY <3>1 DEF CallEdits
  <2>3. O(addr) \in CallEdits /\ P(addr) \in CallEdits
    <3>1. O(addr) \in AppendEdits /\ P(addr) \in PlacedEdits
      BY DEF AppendEdits, PlacedEdits
    <3> QED BY <3>1 DEF CallEdits
  <2>4. T(item, line) \in CallEdits
    <3> DEFINE l == <<<<item, line>>>>
    <3>1. l \in {<<<<x[1], x[2]>>>> : x \in Items \X Seq(Stores!Obs)}
      <4>1. <<item, line>> \in Items \X Seq(Stores!Obs)
        BY <2>1
      <4> QED BY <4>1
    <3> HIDE DEF l
    <3>2. [file |-> "taste", op |-> "observe", lines |-> l, strict |-> FALSE] \in ObserveEdits
      BY <3>1 DEF ObserveEdits
    <3> QED BY <3>2 DEF CallEdits, TasteEdits, l
  <2> HIDE DEF R, O, P, T
  <2> DEFINE a == IF app /\ line # <<>> THEN <<O(addr)>> ELSE <<>>
             b == IF app THEN <<P(addr)>> ELSE <<>>
             c == IF app /\ line # <<>> THEN <<T(item, line)>> ELSE <<>>
             r == <<R(addr, rest)>>
  <2>5. r \in Seq(CallEdits) /\ a \in Seq(CallEdits) /\ b \in Seq(CallEdits) /\ c \in Seq(CallEdits)
    BY <2>2, <2>3, <2>4, Joined
  <2> HIDE DEF r, a, b, c
  <2>6. r \o a \o b \o c \in Seq(CallEdits)
    BY <2>5, Joined
  <2> QED BY <2>6 DEF r, a, b, c
<1>3. E \subseteq Seq(CallEdits)
  <2> HIDE DEF Of
  <2> QED BY <1>2
<1> HIDE DEF E
<1> QED BY <1>1, <1>3, ByIs

LEMMA TheOne ==
    ASSUME NEW X, NEW S \in Stores!AtMostOne(X), S # {}
    PROVE  (CHOOSE x \in S : TRUE) \in X
<1>1. (CHOOSE x \in S : TRUE) \in S
  OBVIOUS
<1> QED BY <1>1, AtMostOneIs

LEMMA RememberingsAre == \A f \in Stores!Followed : Stores!Rememberings[f] \subseteq Seq(CallEdits)
<1> DEFINE A(addr) == [file |-> "card", op |-> "default", addr |-> addr, strict |-> TRUE]
           C(policy) == [file |-> "card", op |-> "policy", policy |-> policy, strict |-> TRUE]
           P(item) == [file |-> "taste", op |-> "promote", item |-> item, strict |-> TRUE]
           U(item, line, dontCare) == [file |-> "taste", op |-> "upsert", item |-> item,
                                       line |-> IF dontCare = {} THEN line ELSE <<>>,
                                       dontCare |-> dontCare, strict |-> TRUE]
           I(item, line, dontCare, confirm) == IF confirm THEN P(item) ELSE U(item, line, dontCare)
           Of(addr, policy, item, line, dontCare, confirm) ==
             [i \in 1..Stores!Cardinality(addr) |-> A(CHOOSE x \in addr : TRUE)]
               \o [i \in 1..Stores!Cardinality(policy) |-> C(CHOOSE x \in policy : TRUE)]
               \o [i \in 1..Stores!Cardinality(item) |-> I(CHOOSE x \in item : TRUE, line, dontCare, confirm)]
           E == {Of(addr, policy, item, line, dontCare, confirm) :
                   addr \in Stores!AtMostOne(Addrs), policy \in Stores!AtMostOne(Policies),
                   item \in Stores!AtMostOne(Items), line \in Stores!Lines \cup {<<>>},
                   dontCare \in Stores!AtMostOne(Groups), confirm \in BOOLEAN}
<1>1. Stores!Rememberings = Stores!By(E)
  BY DEF Stores!Rememberings, Stores!One
<1>2. ASSUME NEW addr \in Stores!AtMostOne(Addrs), NEW policy \in Stores!AtMostOne(Policies),
             NEW item \in Stores!AtMostOne(Items), NEW line \in Stores!Lines \cup {<<>>},
             NEW dontCare \in Stores!AtMostOne(Groups), NEW confirm \in BOOLEAN
      PROVE  Of(addr, policy, item, line, dontCare, confirm) \in Seq(CallEdits)
  <2>1. line \in Seq(Stores!Obs) /\ <<>> \in Seq(Stores!Obs) /\ dontCare \in SUBSET Groups
    BY LinesAre, AtMostOneIs
  <2>2. ASSUME NEW a \in Addrs PROVE A(a) \in CallEdits
    <3>1. A(a) \in DefaultEdits
      BY DEF DefaultEdits
    <3> QED BY <3>1 DEF CallEdits
  <2>3. ASSUME NEW q \in Policies PROVE C(q) \in CallEdits
    <3>1. C(q) \in PolicyEdits
      BY DEF PolicyEdits
    <3> QED BY <3>1 DEF CallEdits
  <2>4. ASSUME NEW i \in Items PROVE I(i, line, dontCare, confirm) \in CallEdits
    <3>1. P(i) \in DishEdits
      BY DEF DishEdits
    <3>2. U(i, line, dontCare) \in UpsertEdits
      BY <2>1 DEF UpsertEdits
    <3> HIDE DEF P, U
    <3> QED BY <3>1, <3>2 DEF CallEdits, TasteEdits
  <2> HIDE DEF A, C, I
  <2> DEFINE a == A(CHOOSE x \in addr : TRUE)
             c == C(CHOOSE x \in policy : TRUE)
             d == I(CHOOSE x \in item : TRUE, line, dontCare, confirm)
  <2>5. (addr # {} => a \in CallEdits) /\ (policy # {} => c \in CallEdits) /\ (item # {} => d \in CallEdits)
    BY <2>2, <2>3, <2>4, TheOne
  <2> HIDE DEF a, c, d
  <2> DEFINE r == [i \in 1..Stores!Cardinality(addr) |-> a]
             s == [i \in 1..Stores!Cardinality(policy) |-> c]
             t == [i \in 1..Stores!Cardinality(item) |-> d]
  <2>6. r \in Seq(CallEdits) /\ s \in Seq(CallEdits) /\ t \in Seq(CallEdits)
    BY <2>5, OneIs
  <2> HIDE DEF r, s, t
  <2>7. r \o s \o t \in Seq(CallEdits)
    BY <2>6, Joined
  <2> QED BY <2>7 DEF r, s, t, a, c, d
<1>3. E \subseteq Seq(CallEdits)
  <2> HIDE DEF Of
  <2> QED BY <1>2
<1> HIDE DEF E
<1> QED BY <1>1, <1>3, ByIs

LEMMA ForgettingsAre == \A f \in Stores!Followed : Stores!Forgettings[f] \subseteq Seq(CallEdits)
<1> DEFINE C(policy) == [file |-> "card", op |-> "nopolicy", policy |-> policy, strict |-> TRUE]
           D(item) == [file |-> "taste", op |-> "decline", item |-> item, strict |-> TRUE]
           F(item) == [file |-> "taste", op |-> "forget", item |-> item, strict |-> TRUE]
           G(item, g) == [file |-> "taste", op |-> "forgetpick", item |-> item, group |-> g, strict |-> TRUE]
           I(item, group, decline) == IF decline THEN D(item) ELSE IF group = {} THEN F(item)
                                      ELSE G(item, CHOOSE g \in group : TRUE)
           Of(policy, item, group, decline) ==
             [i \in 1..Stores!Cardinality(policy) |-> C(CHOOSE x \in policy : TRUE)]
               \o [i \in 1..Stores!Cardinality(item) |-> I(CHOOSE x \in item : TRUE, group, decline)]
           E == {Of(policy, item, group, decline) :
                   policy \in Stores!AtMostOne(Policies), item \in Stores!AtMostOne(Items),
                   group \in Stores!AtMostOne(Groups), decline \in BOOLEAN}
<1>1. Stores!Forgettings = Stores!By(E)
  BY DEF Stores!Forgettings, Stores!One
<1>2. ASSUME NEW policy \in Stores!AtMostOne(Policies), NEW item \in Stores!AtMostOne(Items),
             NEW group \in Stores!AtMostOne(Groups), NEW decline \in BOOLEAN
      PROVE  Of(policy, item, group, decline) \in Seq(CallEdits)
  <2>1. ASSUME NEW q \in Policies PROVE C(q) \in CallEdits
    <3>1. C(q) \in PolicyEdits
      BY DEF PolicyEdits
    <3> QED BY <3>1 DEF CallEdits
  <2>2. ASSUME NEW i \in Items PROVE I(i, group, decline) \in CallEdits
    <3>1. D(i) \in DishEdits /\ F(i) \in DishEdits
      BY DEF DishEdits
    <3>2. ASSUME NEW g \in Groups PROVE G(i, g) \in PickEdits
      BY DEF PickEdits
    <3>3. group # {} => (CHOOSE g \in group : TRUE) \in Groups
      BY TheOne
    <3> HIDE DEF D, F, G
    <3> QED BY <3>1, <3>2, <3>3 DEF CallEdits, TasteEdits
  <2> HIDE DEF C, I
  <2> DEFINE c == C(CHOOSE x \in policy : TRUE)
             d == I(CHOOSE x \in item : TRUE, group, decline)
  <2>3. (policy # {} => c \in CallEdits) /\ (item # {} => d \in CallEdits)
    BY <2>1, <2>2, TheOne
  <2> HIDE DEF c, d
  <2> DEFINE s == [i \in 1..Stores!Cardinality(policy) |-> c]
             t == [i \in 1..Stores!Cardinality(item) |-> d]
  <2>4. s \in Seq(CallEdits) /\ t \in Seq(CallEdits)
    BY <2>3, OneIs
  <2> HIDE DEF s, t
  <2>5. s \o t \in Seq(CallEdits)
    BY <2>4, Joined
  <2> QED BY <2>5 DEF s, t, c, d
<1>3. E \subseteq Seq(CallEdits)
  <2> HIDE DEF Of
  <2> QED BY <1>2
<1> HIDE DEF E
<1> QED BY <1>1, <1>3, ByIs

LEMMA AddressingsAre == \A f \in Stores!Followed : Stores!Addressings[f] \subseteq Seq(CallEdits)
<1> DEFINE E == {<<[file |-> "pref", op |-> "choose", addr |-> addr, lock |-> lock, strict |-> TRUE]>> :
                   addr \in Addrs, lock \in BOOLEAN}
<1>1. Stores!Addressings = Stores!By(E)
  BY DEF Stores!Addressings
<1>2. ASSUME NEW addr \in Addrs, NEW lock \in BOOLEAN
      PROVE  [file |-> "pref", op |-> "choose", addr |-> addr, lock |-> lock, strict |-> TRUE] \in CallEdits
  <2>1. [file |-> "pref", op |-> "choose", addr |-> addr, lock |-> lock, strict |-> TRUE] \in ChooseEdits
    BY DEF ChooseEdits
  <2> QED BY <2>1 DEF CallEdits
<1>3. ASSUME NEW s \in E PROVE s \in Seq(CallEdits)
  <2>1. PICK addr \in Addrs, lock \in BOOLEAN :
          s = <<[file |-> "pref", op |-> "choose", addr |-> addr, lock |-> lock, strict |-> TRUE]>>
    OBVIOUS
  <2> DEFINE e == [file |-> "pref", op |-> "choose", addr |-> addr, lock |-> lock, strict |-> TRUE]
  <2>2. e \in CallEdits /\ s = <<e>>
    BY <1>2, <2>1
  <2> HIDE DEF e
  <2> QED BY <2>2, Joined
<1> HIDE DEF E
<1> QED BY <1>1, <1>3, ByIs

LEMMA SavingsAre == \A f \in Stores!Followed : Stores!Savings[f] \subseteq Seq(CallEdits)
<1> DEFINE E == {<<[file |-> "presets", op |-> "add", name |-> name, strict |-> TRUE]>> : name \in Stores!Names}
<1>1. Stores!Savings = Stores!By(E)
  BY DEF Stores!Savings
<1>2. ASSUME NEW name \in Stores!Names
      PROVE  [file |-> "presets", op |-> "add", name |-> name, strict |-> TRUE] \in CallEdits
  <2>1. [file |-> "presets", op |-> "add", name |-> name, strict |-> TRUE] \in AddEdits
    BY DEF AddEdits
  <2> QED BY <2>1 DEF CallEdits
<1>3. E \subseteq Seq(CallEdits)
  BY <1>2, Joined
<1> HIDE DEF E
<1> QED BY <1>1, <1>3, ByIs

LEMMA RemovalsAre == \A f \in Stores!Followed : Stores!Removals[f] \subseteq Seq(CallEdits)
<1> DEFINE E == {<<[file |-> "presets", op |-> "remove", word |-> word, n |-> n, only |-> only, strict |-> TRUE]>> :
                   word \in Words, n \in 0..1, only \in BOOLEAN}
<1>1. Stores!Removals = Stores!By(E)
  BY DEF Stores!Removals
<1>2. ASSUME NEW word \in Words, NEW n \in 0..1, NEW only \in BOOLEAN
      PROVE  [file |-> "presets", op |-> "remove", word |-> word, n |-> n, only |-> only, strict |-> TRUE] \in CallEdits
  <2>1. [file |-> "presets", op |-> "remove", word |-> word, n |-> n, only |-> only, strict |-> TRUE] \in RemoveEdits
    BY DEF RemoveEdits
  <2> QED BY <2>1 DEF CallEdits
<1>3. ASSUME NEW s \in E PROVE s \in Seq(CallEdits)
  <2>1. PICK word \in Words, n \in 0..1, only \in BOOLEAN :
          s = <<[file |-> "presets", op |-> "remove", word |-> word, n |-> n, only |-> only, strict |-> TRUE]>>
    OBVIOUS
  <2> DEFINE e == [file |-> "presets", op |-> "remove", word |-> word, n |-> n, only |-> only, strict |-> TRUE]
  <2>2. e \in CallEdits /\ s = <<e>>
    BY <1>2, <2>1
  <2> HIDE DEF e
  <2> QED BY <2>2, Joined
<1> HIDE DEF E
<1> QED BY <1>1, <1>3, ByIs

-----------------------------------------------------------------------------
(* The files and the calls that are under way                                *)

KeptCards == [card : Cards, list : SUBSET Addrs, stamp : Nat]
StoreTypes ==
    /\ touched \in Stores!Followed /\ Notings
    /\ version \in [Stores!Files -> Nat] /\ files_ = [f \in Stores!Files |-> files_[f]]
    /\ todo \in [Callers -> Seq(AllEdits)] /\ stamp \in [Callers -> Nat]
    /\ copy = [p \in Callers |-> copy[p]] /\ kept = [p \in Callers |-> kept[p]]
\* Every file is well formed; one that nobody replaced from an old copy is true.
FilesInv == \A f \in Stores!Files :
    /\ FileOK(f, files_[f], version["orders"])
    /\ f \notin raced => Agrees(f, files_[f], told, ran, wished, pinned, placed)
\* A copy whose version is still that of the file is the file.
CopyInv(p) == copy[p] # <<>> =>
    /\ todo[p] # <<>> /\ copy[p] = <<copy[p][1]>>
    /\ FileOK(Head(todo[p]).file, copy[p][1], version["orders"])
    /\ stamp[p] <= version[Head(todo[p]).file]
    /\ stamp[p] = version[Head(todo[p]).file] => copy[p][1] = files_[Head(todo[p]).file]
\* So has the card that is shown the default of the one on disk; the addresses it is
\* reconciled with are those of now, or more.
KeptInv(p) ==
    /\ kept[p] # <<>> =>
         /\ kept[p] \in KeptCards /\ kept[p].stamp <= version["card"]
         /\ kept[p].stamp = version["card"] => kept[p].card.default = files_["card"].default
    /\ \A i \in DOMAIN todo[p] : todo[p][i] \in SnapEdits => kept[p] # <<>> /\ addresses \subseteq kept[p].list
CallInv(p) == CopyInv(p) /\ KeptInv(p)
StoreInv == StoreTypes /\ FilesInv /\ \A p \in Callers : CallInv(p)

\* What a step may do to the files and the addresses while another call looks at them.
Later ==
    /\ version' \in [Stores!Files -> Nat] /\ addresses' \subseteq addresses
    /\ \A f \in Stores!Files : version[f] <= version'[f] /\ (version'[f] = version[f] => files_'[f] = files_[f])

LEMMA FirstEdit ==
    ASSUME NEW s \in Seq(AllEdits), s # <<>>
    PROVE  /\ 1 \in DOMAIN s /\ Head(s) = s[1] /\ Head(s) \in AllEdits /\ Head(s).file \in Stores!Files
           /\ Tail(s) \in Seq(AllEdits) /\ \A i \in DOMAIN Tail(s) : i + 1 \in DOMAIN s /\ Tail(s)[i] = s[i + 1]
<1>1. 1 \in DOMAIN s /\ Head(s) = s[1] /\ Head(s) \in AllEdits
  BY HeadTailProperties
<1>2. Tail(s) \in Seq(AllEdits) /\ \A i \in DOMAIN Tail(s) : i + 1 \in DOMAIN s /\ Tail(s)[i] = s[i + 1]
  BY HeadTailProperties
<1> QED BY <1>1, <1>2, EditKinds

LEMMA OthersGoOn ==
    ASSUME StoreTypes, Later, NEW q \in Callers, CallInv(q),
           todo'[q] = todo[q], copy'[q] = copy[q], kept'[q] = kept[q], stamp'[q] = stamp[q]
    PROVE  CallInv(q)'
<1> DEFINE f == Head(todo[q]).file
<1>1. version \in [Stores!Files -> Nat] /\ version' \in [Stores!Files -> Nat] /\ stamp[q] \in Nat /\ todo[q] \in Seq(AllEdits)
  BY DEF StoreTypes, Later
<1>2. \A g \in Stores!Files : /\ version[g] \in Nat /\ version'[g] \in Nat /\ version[g] <= version'[g]
                              /\ version'[g] = version[g] => files_'[g] = files_[g]
  BY <1>1 DEF Later
<1>3. "orders" \in Stores!Files /\ "card" \in Stores!Files
  BY DEF Stores!Files
<1>4. ASSUME copy[q] # <<>>
      PROVE  /\ todo[q] # <<>> /\ copy[q] = <<copy[q][1]>> /\ FileOK(f, copy[q][1], version'["orders"])
             /\ stamp[q] <= version'[f] /\ (stamp[q] = version'[f] => copy[q][1] = files_'[f])
  <2>1. /\ todo[q] # <<>> /\ copy[q] = <<copy[q][1]>> /\ FileOK(f, copy[q][1], version["orders"])
        /\ stamp[q] <= version[f] /\ (stamp[q] = version[f] => copy[q][1] = files_[f])
    BY <1>4 DEF CallInv, CopyInv
  <2>2. f \in Stores!Files
    BY <2>1, <1>1, FirstEdit
  <2> HIDE DEF f
  <2>3. FileOK(f, copy[q][1], version'["orders"])
    BY <2>1, <1>2, <1>3, FileLater
  <2>4. stamp[q] <= version'[f] /\ (stamp[q] = version'[f] => version'[f] = version[f])
    BY <2>1, <2>2, <1>1, <1>2
  <2>5. stamp[q] = version'[f] => copy[q][1] = files_'[f]
    BY <2>1, <2>2, <2>4, <1>2
  <2> QED BY <2>1, <2>3, <2>4, <2>5
<1>5. CopyInv(q)'
  BY <1>4 DEF CopyInv
<1>6. ASSUME kept[q] # <<>>
      PROVE  /\ kept[q] \in KeptCards /\ kept[q].stamp <= version'["card"]
             /\ kept[q].stamp = version'["card"] => kept[q].card.default = files_'["card"].default
  <2>1. /\ kept[q] \in KeptCards /\ kept[q].stamp <= version["card"]
        /\ kept[q].stamp = version["card"] => kept[q].card.default = files_["card"].default
    BY <1>6 DEF CallInv, KeptInv
  <2>2. kept[q].stamp \in Nat
    BY <2>1 DEF KeptCards
  <2>3. kept[q].stamp <= version'["card"] /\ (kept[q].stamp = version'["card"] => version'["card"] = version["card"])
    BY <2>1, <2>2, <1>2, <1>3
  <2> QED BY <2>1, <2>3, <1>2, <1>3
<1>7. \A i \in DOMAIN todo[q] : todo[q][i] \in SnapEdits => kept[q] # <<>> /\ addresses' \subseteq kept[q].list
  BY DEF CallInv, KeptInv, Later
<1>8. KeptInv(q)'
  BY <1>6, <1>7 DEF KeptInv
<1> QED BY <1>5, <1>8 DEF CallInv

\* The files and what the user did are as they were.
Still == UNCHANGED <<files_, version, raced, told, ran, wished, pinned, placed>>
LEMMA StillTrue ==
    ASSUME FilesInv, Still
    PROVE  FilesInv'
BY DEF FilesInv, Still

LEMMA StillLater ==
    ASSUME StoreTypes, Still, addresses' \subseteq addresses
    PROVE  Later
<1>1. version' = version /\ files_' = files_ /\ version \in [Stores!Files -> Nat]
  BY DEF StoreTypes, Still
<1> QED BY <1>1 DEF Later

-----------------------------------------------------------------------------
(* The steps                                                                 *)

LEMMA StartsInv ==
    ASSUME StoreInv, NEW p \in Callers, NEW calling, \A f \in Stores!Followed : calling[f] \subseteq Seq(CallEdits),
           Stores!Starts(p, calling)
    PROVE  StoreInv'
<1>1. /\ todo[p] = <<>> /\ kept[p] = <<>> /\ Still
      /\ touched' = touched /\ now' = now /\ addresses' = addresses /\ copy' = copy /\ kept' = kept /\ stamp' = stamp
  BY DEF Stores!Starts, Stores!MayCall, Stores!asked, Still
<1>2. PICK edits \in calling[touched] : todo' = [todo EXCEPT ![p] = edits]
  BY DEF Stores!Starts
<1>3. StoreTypes /\ FilesInv /\ \A q \in Callers : CallInv(q)
  BY DEF StoreInv
<1>4. edits \in Seq(CallEdits) /\ edits \in Seq(AllEdits)
  <2>1. touched \in Stores!Followed
    BY <1>3 DEF StoreTypes
  <2>2. edits \in Seq(CallEdits)
    BY <2>1, <1>2
  <2>3. CallEdits \subseteq AllEdits
    BY DEF AllEdits
  <2> QED BY <2>2, <2>3
<1>5. todo' \in [Callers -> Seq(AllEdits)] /\ todo'[p] = edits /\ \A q \in Callers : q # p => todo'[q] = todo[q]
  BY <1>2, <1>3, <1>4 DEF StoreTypes
<1>6. StoreTypes'
  BY <1>1, <1>3, <1>5 DEF StoreTypes, Notings, Still
<1>7. ASSUME NEW q \in Callers, q # p PROVE CallInv(q)'
  <2>1. Later
    BY <1>1, <1>3, StillLater
  <2>2. todo'[q] = todo[q] /\ copy'[q] = copy[q] /\ kept'[q] = kept[q] /\ stamp'[q] = stamp[q]
    BY <1>1, <1>5, <1>7
  <2> QED BY <2>1, <2>2, <1>3, OthersGoOn
<1>8. CallInv(p)'
  <2>1. copy[p] = <<>>
    BY <1>1, <1>3 DEF CallInv, CopyInv
  <2>2. \A i \in DOMAIN edits : edits[i] \notin SnapEdits
    <3>1. ASSUME NEW i \in DOMAIN edits PROVE edits[i] \notin SnapEdits
      <4>1. edits[i] \in CallEdits
        BY <1>4
      <4>2. edits[i] \in SnapEdits => edits[i].op \in {"cache", "heal"}
        BY DEF SnapEdits
      <4>3. edits[i] \in AllEdits
        BY <4>1 DEF AllEdits
      <4> QED BY <4>1, <4>2, <4>3, TellsApart
    <3> QED BY <3>1
  <2> QED BY <2>1, <2>2, <1>1, <1>5 DEF CallInv, CopyInv, KeptInv
<1> QED BY <1>1, <1>3, <1>6, <1>7, <1>8, StillTrue DEF StoreInv

\* A call with edits `t` left, copy `c` of version `n` and card `k` is as it has to be.
CallOK(t, c, k, n) ==
    /\ t \in Seq(AllEdits) /\ n \in Nat
    /\ c # <<>> => /\ t # <<>> /\ c = <<c[1]>> /\ FileOK(Head(t).file, c[1], version["orders"])
                   /\ n <= version[Head(t).file]
                   /\ n = version[Head(t).file] => c[1] = files_[Head(t).file]
    /\ k # <<>> => /\ k \in KeptCards /\ k.stamp <= version["card"]
                   /\ k.stamp = version["card"] => k.card.default = files_["card"].default
    /\ \A i \in DOMAIN t : t[i] \in SnapEdits => k # <<>> /\ addresses \subseteq k.list

LEMMA IsCallOK ==
    ASSUME StoreInv, NEW p \in Callers
    PROVE  CallOK(todo[p], copy[p], kept[p], stamp[p])
BY DEF StoreInv, StoreTypes, CallInv, CopyInv, KeptInv, CallOK

LEMMA Holds ==
    ASSUME StoreInv, NEW p \in Callers
    PROVE  /\ todo = [todo EXCEPT ![p] = todo[p]] /\ copy = [copy EXCEPT ![p] = copy[p]]
           /\ kept = [kept EXCEPT ![p] = kept[p]] /\ stamp = [stamp EXCEPT ![p] = stamp[p]]
<1>1. /\ todo = [q \in Callers |-> todo[q]] /\ copy = [q \in Callers |-> copy[q]]
      /\ kept = [q \in Callers |-> kept[q]] /\ stamp = [q \in Callers |-> stamp[q]]
  BY DEF StoreInv, StoreTypes
<1> QED BY <1>1

LEMMA CallMoves ==
    ASSUME StoreInv, NEW p \in Callers, Still, touched' = touched, now' = now, addresses' = addresses,
           NEW t, NEW c, NEW k, NEW n, CallOK(t, c, k, n),
           todo' = [todo EXCEPT ![p] = t], copy' = [copy EXCEPT ![p] = c],
           kept' = [kept EXCEPT ![p] = k], stamp' = [stamp EXCEPT ![p] = n]
    PROVE  StoreInv'
<1>1. StoreTypes /\ FilesInv /\ \A q \in Callers : CallInv(q)
  BY DEF StoreInv
<1>2. t \in Seq(AllEdits) /\ n \in Nat
  BY DEF CallOK
<1>3. /\ todo' \in [Callers -> Seq(AllEdits)] /\ stamp' \in [Callers -> Nat]
      /\ copy' = [q \in Callers |-> copy'[q]] /\ kept' = [q \in Callers |-> kept'[q]]
      /\ todo'[p] = t /\ copy'[p] = c /\ kept'[p] = k /\ stamp'[p] = n
      /\ \A q \in Callers : q # p => /\ todo'[q] = todo[q] /\ copy'[q] = copy[q]
                                     /\ kept'[q] = kept[q] /\ stamp'[q] = stamp[q]
  <2>1. /\ todo \in [Callers -> Seq(AllEdits)] /\ stamp \in [Callers -> Nat]
        /\ copy = [q \in Callers |-> copy[q]] /\ kept = [q \in Callers |-> kept[q]]
    BY <1>1 DEF StoreTypes
  <2>2. todo' \in [Callers -> Seq(AllEdits)] /\ todo'[p] = t /\ \A q \in Callers : q # p => todo'[q] = todo[q]
    BY <1>2, <2>1
  <2>3. stamp' \in [Callers -> Nat] /\ stamp'[p] = n /\ \A q \in Callers : q # p => stamp'[q] = stamp[q]
    BY <1>2, <2>1
  <2>4. copy' = [q \in Callers |-> copy'[q]] /\ copy'[p] = c /\ \A q \in Callers : q # p => copy'[q] = copy[q]
    BY <2>1
  <2>5. kept' = [q \in Callers |-> kept'[q]] /\ kept'[p] = k /\ \A q \in Callers : q # p => kept'[q] = kept[q]
    BY <2>1
  <2> QED BY <2>2, <2>3, <2>4, <2>5
<1>4. StoreTypes'
  BY <1>1, <1>3 DEF StoreTypes, Notings, Still
<1>5. ASSUME NEW q \in Callers, q # p PROVE CallInv(q)'
  <2>1. Later
    BY <1>1, StillLater
  <2> QED BY <2>1, <1>1, <1>3, <1>5, OthersGoOn
<1>6. version' = version /\ files_' = files_
  BY DEF Still
<1>7. CopyInv(p)' /\ KeptInv(p)'
  BY <1>3, <1>6 DEF CallOK, CopyInv, KeptInv
<1> QED BY <1>1, <1>4, <1>5, <1>7, StillTrue DEF StoreInv, CallInv

LEMMA SnapshotReadsInv == ASSUME StoreInv, NEW p \in Callers, Stores!SnapshotReads(p) PROVE StoreInv'
<1> DEFINE k == [card |-> files_["card"], list |-> {}, stamp |-> version["card"]]
<1>1. /\ Still /\ touched' = touched /\ now' = now /\ addresses' = addresses
      /\ todo' = todo /\ copy' = copy /\ kept' = [kept EXCEPT ![p] = k] /\ stamp' = stamp
      /\ todo[p] = <<>> /\ kept[p] = <<>>
  BY DEF Stores!SnapshotReads, Stores!MayCall, Stores!asked, Still
<1>2. k \in KeptCards /\ k # <<>>
  <2>1. "card" \in Stores!Files /\ files_["card"] \in Cards /\ version["card"] \in Nat
    BY DEF StoreInv, StoreTypes, FilesInv, FileOK, Stores!Files
  <2> QED BY <2>1 DEF KeptCards
<1>3. CallOK(todo[p], copy[p], k, stamp[p])
  <2>1. version["card"] \in Nat /\ k.stamp = version["card"] /\ k.card = files_["card"]
    BY DEF StoreInv, StoreTypes, Stores!Files
  <2> QED BY <1>1, <1>2, <2>1, IsCallOK DEF CallOK
<1> HIDE DEF k
<1>4. todo' = [todo EXCEPT ![p] = todo[p]] /\ copy' = [copy EXCEPT ![p] = copy[p]] /\ stamp' = [stamp EXCEPT ![p] = stamp[p]]
  <2>1. todo' = todo /\ copy' = copy /\ stamp' = stamp
    BY <1>1
  <2> QED BY <2>1, Holds, Zenon
<1>5. Still /\ touched' = touched /\ now' = now /\ addresses' = addresses /\ kept' = [kept EXCEPT ![p] = k]
  BY <1>1
<1> QED BY <1>3, <1>4, <1>5, CallMoves

LEMMA SnapshotUnlistedInv == ASSUME StoreInv, NEW p \in Callers, Stores!SnapshotUnlisted(p) PROVE StoreInv'
<1>1. /\ Still /\ touched' = touched /\ now' = now /\ addresses' = addresses
      /\ todo' = todo /\ copy' = copy /\ kept' = [kept EXCEPT ![p] = <<>>] /\ stamp' = stamp
      /\ todo[p] = <<>>
  BY DEF Stores!SnapshotUnlisted, Stores!asked, Still
<1>2. CallOK(todo[p], copy[p], <<>>, stamp[p])
  BY <1>1, IsCallOK DEF CallOK
<1>4. todo' = [todo EXCEPT ![p] = todo[p]] /\ copy' = [copy EXCEPT ![p] = copy[p]] /\ stamp' = [stamp EXCEPT ![p] = stamp[p]]
  <2>1. todo' = todo /\ copy' = copy /\ stamp' = stamp
    BY <1>1
  <2> QED BY <2>1, Holds, Zenon
<1>5. Still /\ touched' = touched /\ now' = now /\ addresses' = addresses /\ kept' = [kept EXCEPT ![p] = <<>>]
  BY <1>1
<1> QED BY <1>2, <1>4, <1>5, CallMoves

LEMMA SnapshotListsInv == ASSUME StoreInv, NEW p \in Callers, Stores!SnapshotLists(p) PROVE StoreInv'
<1> DEFINE k == [kept[p] EXCEPT !.list = addresses]
           cache == [file |-> "card", op |-> "cache", strict |-> FALSE]
           heal == [file |-> "card", op |-> "heal", strict |-> FALSE]
<1>1. /\ Still /\ touched' = touched /\ now' = now /\ addresses' = addresses
      /\ copy' = copy /\ stamp' = stamp /\ todo[p] = <<>> /\ kept[p] # <<>>
  BY DEF Stores!SnapshotLists, Stores!asked, Still
<1>2. PICK t \in {<<cache, heal>>, <<cache>>} : todo' = [todo EXCEPT ![p] = t]
  BY DEF Stores!SnapshotLists
<1>3. kept' = [kept EXCEPT ![p] = k]
  BY DEF Stores!SnapshotLists
<1>4. CallOK(todo[p], copy[p], kept[p], stamp[p])
  BY IsCallOK
<1>5. kept[p] \in KeptCards /\ addresses \in SUBSET Addrs
  BY <1>1, <1>4 DEF CallOK, StoreInv, StoreTypes, Notings
<1>6. k \in KeptCards /\ k # <<>> /\ k.list = addresses /\ k.stamp = kept[p].stamp /\ k.card = kept[p].card
  BY <1>5 DEF KeptCards
<1>7. cache \in AllEdits /\ heal \in AllEdits
  BY DEF AllEdits, SnapEdits
<1> HIDE DEF k, cache, heal
<1>8. t \in Seq(AllEdits)
  <2>1. <<cache>> \in Seq(AllEdits) /\ <<cache, heal>> \in Seq(AllEdits)
    BY <1>7
  <2> QED BY <1>2, <2>1
<1>9. CallOK(t, copy[p], k, stamp[p])
  <2>1. copy[p] = <<>>
    BY <1>1, <1>4 DEF CallOK
  <2>2. stamp[p] \in Nat
    BY <1>4 DEF CallOK
  <2>3. /\ k # <<>> /\ k \in KeptCards /\ k.stamp <= version["card"]
        /\ k.stamp = version["card"] => k.card.default = files_["card"].default
    BY <1>1, <1>4, <1>6 DEF CallOK
  <2>4. addresses \subseteq k.list
    BY <1>6
  <2> QED BY <1>8, <2>1, <2>2, <2>3, <2>4 DEF CallOK
<1>10. copy' = [copy EXCEPT ![p] = copy[p]] /\ stamp' = [stamp EXCEPT ![p] = stamp[p]]
  BY <1>1, Holds, Zenon
<1> QED BY <1>1, <1>2, <1>3, <1>9, <1>10, CallMoves

LEMMA LoadInv == ASSUME StoreInv, NEW p \in Callers, Stores!Load(p) PROVE StoreInv'
<1> DEFINE f == Head(todo[p]).file
           c == <<files_[f]>>
<1>1. /\ Still /\ touched' = touched /\ now' = now /\ addresses' = addresses
      /\ todo' = todo /\ kept' = kept /\ todo[p] # <<>>
      /\ copy' = [copy EXCEPT ![p] = c] /\ stamp' = [stamp EXCEPT ![p] = version[f]]
  BY DEF Stores!Load, Stores!Edit, Stores!asked, Still
<1>2. CallOK(todo[p], copy[p], kept[p], stamp[p])
  BY IsCallOK
<1>3. f \in Stores!Files /\ todo[p] \in Seq(AllEdits)
  BY <1>1, <1>2, FirstEdit DEF CallOK
<1>4. version[f] \in Nat /\ FileOK(f, files_[f], version["orders"])
  BY <1>3 DEF StoreInv, StoreTypes, FilesInv
<1>5. c # <<>> /\ c[1] = files_[f] /\ c = <<c[1]>>
  OBVIOUS
<1>6. CallOK(todo[p], c, kept[p], version[f])
  <2>1. version[f] <= version[f]
    BY <1>4
  <2> HIDE DEF c
  <2> QED BY <1>1, <1>2, <1>4, <1>5, <2>1 DEF CallOK
<1> HIDE DEF c, f
<1>7. todo' = [todo EXCEPT ![p] = todo[p]] /\ kept' = [kept EXCEPT ![p] = kept[p]]
  BY <1>1, Holds, Zenon
<1> QED BY <1>1, <1>6, <1>7, CallMoves

LEMMA Passes ==
    ASSUME StoreInv, NEW p \in Callers, todo[p] # <<>>, NEW t \in {<<>>, Tail(todo[p])}
    PROVE  CallOK(t, <<>>, kept[p], 0) /\ CallOK(<<>>, <<>>, <<>>, 0)
<1>1. CallOK(todo[p], copy[p], kept[p], stamp[p])
  BY IsCallOK
<1>2. todo[p] \in Seq(AllEdits)
  BY <1>1 DEF CallOK
<1>3. /\ Tail(todo[p]) \in Seq(AllEdits)
      /\ \A i \in DOMAIN Tail(todo[p]) : i + 1 \in DOMAIN todo[p] /\ Tail(todo[p])[i] = todo[p][i + 1]
  BY <1>2, FirstEdit
<1>4. <<>> \in Seq(AllEdits) /\ DOMAIN <<>> = {}
  OBVIOUS
<1>5. t \in Seq(AllEdits) /\ \A i \in DOMAIN t : t[i] \in SnapEdits => kept[p] # <<>> /\ addresses \subseteq kept[p].list
  <2>1. \A i \in DOMAIN todo[p] : todo[p][i] \in SnapEdits => kept[p] # <<>> /\ addresses \subseteq kept[p].list
    BY <1>1 DEF CallOK
  <2>2. CASE t = <<>>
    BY <2>2, <1>4
  <2>3. CASE t = Tail(todo[p])
    BY <2>1, <2>3, <1>3
  <2> QED BY <2>2, <2>3
<1>6. 0 \in Nat
  OBVIOUS
<1>7. CallOK(<<>>, <<>>, <<>>, 0)
  BY <1>4, <1>6 DEF CallOK
<1>8. CallOK(t, <<>>, kept[p], 0)
  BY <1>1, <1>5, <1>6 DEF CallOK
<1> QED BY <1>7, <1>8

LEMMA RefusedInv == ASSUME StoreInv, NEW p \in Callers, Stores!Refused(p) PROVE StoreInv'
<1> DEFINE t == IF Stores!Edit(p).op = "policy" THEN Tail(todo[p]) ELSE <<>>
<1>1. /\ Still /\ touched' = touched /\ now' = now /\ addresses' = addresses
      /\ todo' = [todo EXCEPT ![p] = t] /\ kept' = kept /\ todo[p] # <<>>
      /\ copy' = [copy EXCEPT ![p] = <<>>] /\ stamp' = [stamp EXCEPT ![p] = 0]
  BY DEF Stores!Refused, Stores!Goes, Stores!asked, Still
<1>2. t \in {<<>>, Tail(todo[p])}
  OBVIOUS
<1> HIDE DEF t
<1>3. CallOK(t, <<>>, kept[p], 0)
  BY <1>1, <1>2, Passes
<1> QED BY <1>1, <1>3, Holds, CallMoves

LEMMA FailsInv == ASSUME StoreInv, NEW p \in Callers, Stores!Fails(p) PROVE StoreInv'
<1>1. /\ Still /\ touched' = touched /\ now' = now /\ addresses' = addresses /\ todo[p] # <<>>
      /\ copy' = [copy EXCEPT ![p] = <<>>] /\ stamp' = [stamp EXCEPT ![p] = 0]
  BY DEF Stores!Fails, Stores!Goes, Stores!asked, Still
<1>2. PICK t \in {<<>>, Tail(todo[p])} : /\ todo' = [todo EXCEPT ![p] = t]
                                       /\ kept' = [kept EXCEPT ![p] = IF t = <<>> THEN <<>> ELSE @]
  BY DEF Stores!Fails, Stores!Goes
<1>3. CallOK(t, <<>>, kept[p], 0) /\ CallOK(<<>>, <<>>, <<>>, 0)
  BY <1>1, Passes
<1> DEFINE k == IF t = <<>> THEN <<>> ELSE kept[p]
<1>4. kept' = [kept EXCEPT ![p] = k] /\ CallOK(t, <<>>, k, 0)
  BY <1>2, <1>3
<1> HIDE DEF k
<1> QED BY <1>1, <1>2, <1>4, CallMoves

LEMMA TickInv == ASSUME StoreInv, Stores!Tick PROVE StoreInv'
<1>1. /\ Still /\ touched' = touched /\ now' = now + 1 /\ addresses' = addresses
      /\ todo' = todo /\ copy' = copy /\ kept' = kept /\ stamp' = stamp
  BY DEF Stores!Tick, Stores!asked, Still
<1>2. StoreTypes /\ FilesInv /\ \A q \in Callers : CallInv(q)
  BY DEF StoreInv
<1>3. StoreTypes'
  BY <1>1, <1>2 DEF StoreTypes, Notings, Still
<1>4. Later
  BY <1>1, <1>2, StillLater
<1>5. \A q \in Callers : CallInv(q)'
  BY <1>1, <1>2, <1>4, OthersGoOn
<1> QED BY <1>1, <1>2, <1>3, <1>5, StillTrue DEF StoreInv

LEMMA DeleteAddressInv == ASSUME StoreInv, Stores!DeleteAddress PROVE StoreInv'
<1>1. PICK a \in addresses : addresses' = addresses \ {a} /\ wished' = wished \ {a}
  BY DEF Stores!DeleteAddress
<1>2. /\ UNCHANGED <<touched, files_, now, todo, copy, kept, stamp, version, raced, told, ran, pinned, placed>>
  BY DEF Stores!DeleteAddress
<1>3. StoreTypes /\ FilesInv /\ \A q \in Callers : CallInv(q)
  BY DEF StoreInv
<1>4. StoreTypes'
  BY <1>1, <1>2, <1>3 DEF StoreTypes, Notings
<1>5. Later
  <2>1. version' = version /\ files_' = files_ /\ version \in [Stores!Files -> Nat] /\ addresses' \subseteq addresses
    BY <1>1, <1>2, <1>3 DEF StoreTypes
  <2> QED BY <2>1 DEF Later
<1>6. \A q \in Callers : CallInv(q)'
  BY <1>2, <1>3, <1>5, OthersGoOn
<1>7. FilesInv'
  <2>1. ASSUME NEW f \in Stores!Files, f \notin raced PROVE Agrees(f, files_[f], told, ran, wished', pinned, placed)
    <3>1. FileOK(f, files_[f], version["orders"]) /\ Agrees(f, files_[f], told, ran, wished, pinned, placed)
      BY <1>3, <2>1 DEF FilesInv
    <3>2. CASE f = "card"
      <4> DEFINE d == files_[f].default
      <4>1. d \in Stores!AtMostOne(Addrs) /\ (wished = {} \/ d = wished)
        BY <3>1, <3>2 DEF FileOK, Agrees, Cards, Stores!NoAddr
      <4> HIDE DEF d
      <4>2. wished \ {a} = {} \/ d = wished \ {a}
        <5>1. CASE wished = {}
          BY <5>1
        <5>2. CASE d = wished /\ wished # {}
          <6>1. PICK x \in Addrs : wished = {x}
            BY <4>1, <5>2 DEF Stores!AtMostOne
          <6> QED BY <6>1, <5>2
        <5> QED BY <4>1, <5>1, <5>2
      <4> QED BY <4>2, <1>1, <3>2 DEF Agrees, Stores!NoAddr, d
    <3>3. CASE f # "card"
      BY <3>1, <3>3 DEF Agrees
    <3> QED BY <3>2, <3>3
  <2> QED BY <2>1, <1>2, <1>3 DEF FilesInv
<1> QED BY <1>3, <1>4, <1>6, <1>7 DEF StoreInv

\* What is saved may be relied on: the copy, and the card that is healed.
LEMMA SaveReads ==
    ASSUME StoreInv, NEW p \in Callers, todo[p] # <<>>, Head(todo[p]).op # "heal" => copy[p] # <<>>,
           NEW x, x = (IF Head(todo[p]).op # "heal" THEN copy[p][1] ELSE kept[p].card),
           NEW base, base = (IF Head(todo[p]).op # "heal" THEN stamp[p] ELSE kept[p].stamp)
    PROVE  /\ FileOK(Head(todo[p]).file, x, version["orders"])
           /\ Head(todo[p]) \in SnapEdits => /\ kept[p] # <<>> /\ kept[p] \in KeptCards
                                             /\ addresses \subseteq kept[p].list /\ Head(todo[p]).file = "card"
           /\ base = version[Head(todo[p]).file] /\ Agrees(Head(todo[p]).file, files_[Head(todo[p]).file], told, ran, wished, pinned, placed)
                => Agrees(Head(todo[p]).file, x, told, ran, wished, pinned, placed)
           /\ base = version[Head(todo[p]).file] /\ Head(todo[p]).op = "cache" => x = files_["card"]
<1> DEFINE e == Head(todo[p])
           f == e.file
<1>1. CallOK(todo[p], copy[p], kept[p], stamp[p])
  BY IsCallOK
<1>2. todo[p] \in Seq(AllEdits)
  BY <1>1 DEF CallOK
<1>3. 1 \in DOMAIN todo[p] /\ e = todo[p][1] /\ e \in AllEdits /\ f \in Stores!Files
  BY <1>2, FirstEdit
<1>4. e \in SnapEdits => e.file = "card" /\ e.op \in {"cache", "heal"}
  BY DEF SnapEdits
<1>5. ASSUME e \in SnapEdits
      PROVE  kept[p] # <<>> /\ kept[p] \in KeptCards /\ addresses \subseteq kept[p].list /\ f = "card"
  <2>1. kept[p] # <<>> /\ addresses \subseteq kept[p].list
    BY <1>1, <1>3, <1>5 DEF CallOK
  <2> QED BY <1>1, <1>4, <1>5, <2>1 DEF CallOK
<1>6. CASE e.op # "heal"
  <2>1. copy[p] # <<>> /\ x = copy[p][1] /\ base = stamp[p]
    BY <1>6
  <2>2. FileOK(f, x, version["orders"]) /\ (base = version[f] => x = files_[f])
    BY <1>1, <2>1 DEF CallOK
  <2>3. e.op = "cache" => f = "card"
    BY <1>3, <1>4, TellsApart
  <2> QED BY <1>5, <2>2, <2>3
<1>7. CASE e.op = "heal"
  <2>1. e \in SnapEdits /\ f = "card"
    BY <1>3, <1>4, <1>7, TellsApart
  <2>2. x = kept[p].card /\ base = kept[p].stamp
    BY <1>7
  <2>3. x \in Cards
    BY <1>5, <2>1, <2>2 DEF KeptCards
  <2>4. base = version["card"] => x.default = files_["card"].default
    BY <1>1, <1>5, <2>1, <2>2 DEF CallOK
  <2>5. FileOK(f, x, version["orders"])
    BY <2>1, <2>3 DEF FileOK
  <2>6. base = version[f] /\ Agrees(f, files_[f], told, ran, wished, pinned, placed) => Agrees(f, x, told, ran, wished, pinned, placed)
    BY <2>1, <2>4 DEF Agrees
  <2> QED BY <1>5, <1>7, <2>5, <2>6
<1> QED BY <1>6, <1>7

LEMMA SaveInv == ASSUME StoreInv, NEW p \in Callers, Stores!Save(p) PROVE StoreInv'
<1> DEFINE e == Head(todo[p])
           f == e.file
           x == IF e.op # "heal" THEN copy[p][1] ELSE kept[p].card
           base == IF e.op # "heal" THEN stamp[p] ELSE kept[p].stamp
           u == Stores!Edited(p, e, x)
           t == Tail(todo[p])
           k == IF t = <<>> THEN <<>>
                ELSE IF e.op = "cache" /\ version[f] = base /\ kept[p].stamp = base THEN [kept[p] EXCEPT !.stamp = base + 1]
                ELSE kept[p]
<1>1. todo[p] # <<>> /\ (e.op # "heal" => copy[p] # <<>>)
  BY DEF Stores!Save, Stores!Reads, Stores!Edit
<1>2. /\ files_' = [files_ EXCEPT ![f] = u] /\ version' = [version EXCEPT ![f] = @ + 1]
      /\ raced' = (IF version[f] = base THEN raced ELSE raced \cup {f})
      /\ Stores!Notes(e, x)
  BY DEF Stores!Save, Stores!Reads, Stores!Edit
<1>3. kept' = [kept EXCEPT ![p] = k]
  BY DEF Stores!Save, Stores!Reads, Stores!Edit
<1>4. /\ todo' = [todo EXCEPT ![p] = t] /\ copy' = [copy EXCEPT ![p] = <<>>] /\ stamp' = [stamp EXCEPT ![p] = 0]
      /\ touched' = touched /\ now' = now /\ addresses' = addresses
  BY DEF Stores!Save, Stores!Goes
<1>5. StoreTypes /\ FilesInv /\ (\A q \in Callers : CallInv(q)) /\ Notings
  BY DEF StoreInv, StoreTypes
<1>6. /\ FileOK(f, x, version["orders"])
      /\ e \in SnapEdits => kept[p] # <<>> /\ kept[p] \in KeptCards /\ addresses \subseteq kept[p].list /\ f = "card"
      /\ base = version[f] /\ Agrees(f, files_[f], told, ran, wished, pinned, placed)
            => Agrees(f, x, told, ran, wished, pinned, placed)
      /\ base = version[f] /\ e.op = "cache" => x = files_["card"]
  BY <1>1, SaveReads
<1>7. CallOK(todo[p], copy[p], kept[p], stamp[p]) /\ todo[p] \in Seq(AllEdits)
  BY IsCallOK DEF CallOK
<1>8. e \in AllEdits /\ f \in Stores!Files /\ t \in Seq(AllEdits) /\ \A i \in DOMAIN t : i + 1 \in DOMAIN todo[p] /\ t[i] = todo[p][i + 1]
  BY <1>1, <1>7, FirstEdit
<1>9. /\ \A g \in Stores!Files : version[g] \in Nat
      /\ "orders" \in Stores!Files /\ "card" \in Stores!Files
  BY <1>5 DEF StoreTypes, Stores!Files
<1>10. e.op = "heal" => x = kept[p].card
  OBVIOUS
<1>11. e \in SnapEdits => kept[p].list \in SUBSET Addrs /\ addresses \subseteq kept[p].list
  BY <1>6 DEF KeptCards
<1> HIDE DEF x, base, k
<1>12. /\ FileOK(f, u, version["orders"] + 1)
       /\ Agrees(f, x, told, ran, wished, pinned, placed) => Agrees(f, u, told', ran', wished', pinned', placed')
       /\ \A g, y : g # f /\ Agrees(g, y, told, ran, wished, pinned, placed) =>
            Agrees(g, y, told', ran', wished', pinned', placed')
       /\ ran' \in [Items -> Runs] /\ placed' \in [Addrs -> Seq(Nat)] /\ wished' \subseteq addresses
  BY <1>2, <1>5, <1>6, <1>8, <1>9, <1>10, <1>11, EditDoes
<1>13. e.op = "cache" /\ x \in Cards => u.default = x.default
  <2>1. ASSUME e.op = "cache", x \in Cards PROVE u.default = x.default
    <3>1. e \in SnapEdits
      BY <1>8, <2>1, TellsApart
    <3>2. u = [x EXCEPT !.cache = kept[p].list] /\ kept[p].list \in SUBSET Addrs
      BY <1>11, <2>1, <3>1 DEF Stores!Edited
    <3> HIDE DEF u
    <3> QED BY <2>1, <3>2, ShownKeeps
  <2> QED BY <2>1
<1> HIDE DEF u
<1>14. /\ files_' = [g \in Stores!Files |-> files_'[g]] /\ files_'[f] = u /\ \A g \in Stores!Files : g # f => files_'[g] = files_[g]
       /\ version' \in [Stores!Files -> Nat] /\ version'[f] = version[f] + 1
       /\ \A g \in Stores!Files : g # f => version'[g] = version[g]
  <2>1. files_ = [g \in Stores!Files |-> files_[g]] /\ version \in [Stores!Files -> Nat]
    BY <1>5 DEF StoreTypes
  <2>2. files_' = [g \in Stores!Files |-> files_'[g]] /\ files_'[f] = u /\ \A g \in Stores!Files : g # f => files_'[g] = files_[g]
    BY <1>2, <1>8, <2>1
  <2>3. version' \in [Stores!Files -> Nat] /\ version'[f] = version[f] + 1 /\ \A g \in Stores!Files : g # f => version'[g] = version[g]
    BY <1>2, <1>8, <2>1
  <2> QED BY <2>2, <2>3
<1>15. /\ todo' \in [Callers -> Seq(AllEdits)] /\ stamp' \in [Callers -> Nat]
       /\ copy' = [q \in Callers |-> copy'[q]] /\ kept' = [q \in Callers |-> kept'[q]]
       /\ todo'[p] = t /\ copy'[p] = <<>> /\ kept'[p] = k /\ stamp'[p] = 0
       /\ \A q \in Callers : q # p => /\ todo'[q] = todo[q] /\ copy'[q] = copy[q]
                                      /\ kept'[q] = kept[q] /\ stamp'[q] = stamp[q]
  <2>1. /\ todo \in [Callers -> Seq(AllEdits)] /\ stamp \in [Callers -> Nat]
        /\ copy = [q \in Callers |-> copy[q]] /\ kept = [q \in Callers |-> kept[q]]
    BY <1>5 DEF StoreTypes
  <2> HIDE DEF t
  <2>2. todo' \in [Callers -> Seq(AllEdits)] /\ todo'[p] = t /\ \A q \in Callers : q # p => todo'[q] = todo[q]
    BY <1>4, <1>8, <2>1
  <2>3. stamp' \in [Callers -> Nat] /\ stamp'[p] = 0 /\ \A q \in Callers : q # p => stamp'[q] = stamp[q]
    BY <1>4, <2>1
  <2>4. copy' = [q \in Callers |-> copy'[q]] /\ copy'[p] = <<>> /\ \A q \in Callers : q # p => copy'[q] = copy[q]
    BY <1>4, <2>1
  <2>5. kept' = [q \in Callers |-> kept'[q]] /\ kept'[p] = k /\ \A q \in Callers : q # p => kept'[q] = kept[q]
    BY <1>3, <2>1
  <2> QED BY <2>2, <2>3, <2>4, <2>5
<1> HIDE DEF t, f
<1>16. StoreTypes'
  BY <1>4, <1>5, <1>12, <1>14, <1>15 DEF StoreTypes, Notings
<1>17. FilesInv'
  <2>1. ASSUME NEW g \in Stores!Files PROVE FileOK(g, files_'[g], version'["orders"])
    <3>1. CASE g = f
      <4>1. FileOK(f, u, version["orders"] + 1)
        BY <1>12
      <4>2. CASE f = "orders"
        BY <3>1, <4>1, <4>2, <1>14
      <4>3. CASE f # "orders"
        <5>1. version["orders"] + 1 \in Nat /\ version'["orders"] \in Nat
          BY <1>9, <1>14
        <5>2. FileOK(f, u, version'["orders"])
          BY <4>1, <4>3, <5>1, FileLater
        <5> QED BY <3>1, <5>2, <1>14
      <4> QED BY <4>2, <4>3
    <3>2. CASE g # f
      <4>1. FileOK(g, files_[g], version["orders"])
        BY <1>5 DEF FilesInv
      <4>2. version["orders"] \in Nat /\ version'["orders"] \in Nat /\ version["orders"] <= version'["orders"]
        BY <1>9, <1>14
      <4>3. FileOK(g, files_[g], version'["orders"])
        BY <4>1, <4>2, FileLater
      <4> QED BY <3>2, <4>3, <1>14
    <3> QED BY <3>1, <3>2
  <2>2. ASSUME NEW g \in Stores!Files, g \notin raced' PROVE Agrees(g, files_'[g], told', ran', wished', pinned', placed')
    <3>1. CASE g = f
      <4>1. version[f] = base /\ f \notin raced
        BY <1>2, <2>2, <3>1
      <4>2. Agrees(f, files_[f], told, ran, wished, pinned, placed)
        BY <1>5, <1>8, <4>1 DEF FilesInv
      <4>3. Agrees(f, u, told', ran', wished', pinned', placed')
        BY <1>6, <1>12, <4>1, <4>2
      <4> QED BY <3>1, <4>3, <1>14
    <3>2. CASE g # f
      <4>1. g \notin raced
        BY <1>2, <2>2
      <4>2. Agrees(g, files_[g], told, ran, wished, pinned, placed)
        BY <1>5, <4>1 DEF FilesInv
      <4>3. Agrees(g, files_[g], told', ran', wished', pinned', placed')
        BY <3>2, <4>2, <1>12
      <4> QED BY <3>2, <4>3, <1>14
    <3> QED BY <3>1, <3>2
  <2> QED BY <2>1, <2>2 DEF FilesInv
<1>18. ASSUME NEW q \in Callers, q # p PROVE CallInv(q)'
  <2>1. \A g \in Stores!Files : version[g] <= version'[g] /\ (version'[g] = version[g] => files_'[g] = files_[g])
    BY <1>8, <1>9, <1>14
  <2>2. Later
    BY <1>4, <1>14, <2>1 DEF Later
  <2> QED BY <2>2, <1>5, <1>15, <1>18, OthersGoOn
<1>19. CopyInv(p)'
  BY <1>15 DEF CopyInv
<1>20. KeptInv(p)'
  <2>1. /\ kept[p] # <<>> => /\ kept[p] \in KeptCards /\ kept[p].stamp <= version["card"]
                             /\ kept[p].stamp = version["card"] => kept[p].card.default = files_["card"].default
        /\ \A i \in DOMAIN todo[p] : todo[p][i] \in SnapEdits => kept[p] # <<>> /\ addresses \subseteq kept[p].list
    BY <1>7 DEF CallOK
  <2>2. CASE t = <<>>
    <3>1. k = <<>> /\ todo'[p] = <<>>
      BY <2>2, <1>15 DEF k
    <3> QED BY <3>1, <1>15 DEF KeptInv
  <2>3. CASE t # <<>> /\ e.op = "cache" /\ version[f] = base /\ kept[p].stamp = base
    <3>1. k = [kept[p] EXCEPT !.stamp = base + 1]
      BY <2>3 DEF k
    <3>2. e \in SnapEdits
      BY <1>8, <2>3, TellsApart
    <3>3. kept[p] # <<>> /\ kept[p] \in KeptCards /\ addresses \subseteq kept[p].list /\ f = "card" /\ base \in Nat /\ x = files_["card"]
      BY <1>6, <1>9, <2>3, <3>2
    <3>4. k \in KeptCards /\ k # <<>> /\ k.list = kept[p].list /\ k.card = kept[p].card /\ k.stamp = base + 1
      BY <3>1, <3>3 DEF KeptCards
    <3>5. k.stamp = version'["card"]
      BY <3>3, <3>4, <2>3, <1>14
    <3>6. k.card.default = files_'["card"].default
      <4>1. x \in Cards
        BY <1>6, <3>3 DEF FileOK
      <4>2. u.default = x.default
        BY <1>13, <4>1, <2>3
      <4>3. kept[p].card.default = files_["card"].default
        BY <2>1, <2>3, <3>3
      <4> QED BY <3>3, <3>4, <4>2, <4>3, <1>14
    <3>7. k.stamp <= version'["card"]
      BY <3>4, <3>5, <3>3
    <3> HIDE DEF e
    <3> QED BY <3>3, <3>4, <3>6, <3>7, <1>4, <1>15 DEF KeptInv
  <2>4. CASE t # <<>> /\ ~(e.op = "cache" /\ version[f] = base /\ kept[p].stamp = base)
    <3>1. k = kept[p]
      BY <2>4 DEF k
    <3>2. ASSUME kept[p] # <<>>
          PROVE  /\ kept[p] \in KeptCards /\ kept[p].stamp <= version'["card"]
                 /\ kept[p].stamp = version'["card"] => kept[p].card.default = files_'["card"].default
      <4>1. /\ kept[p] \in KeptCards /\ kept[p].stamp <= version["card"]
            /\ kept[p].stamp = version["card"] => kept[p].card.default = files_["card"].default
        BY <2>1, <3>2
      <4>2. kept[p].stamp \in Nat
        BY <4>1 DEF KeptCards
      <4>3. version["card"] \in Nat
        BY <1>9
      <4>4. CASE f = "card"
        <5>1. version'["card"] = version["card"] + 1
          BY <4>4, <1>14
        <5> QED BY <4>1, <4>2, <4>3, <5>1
      <4>5. CASE f # "card"
        BY <4>1, <4>5, <1>9, <1>14
      <4> QED BY <4>4, <4>5
    <3>3. ASSUME NEW i \in DOMAIN t, t[i] \in SnapEdits PROVE kept[p] # <<>> /\ addresses \subseteq kept[p].list
      BY <1>8, <2>1, <3>3
    <3> QED BY <3>1, <3>2, <3>3, <1>4, <1>15 DEF KeptInv
  <2> QED BY <2>2, <2>3, <2>4
<1> QED BY <1>16, <1>17, <1>18, <1>19, <1>20 DEF StoreInv, CallInv

LEMMA StoreInit == Init => StoreInv
<1> SUFFICES ASSUME Init PROVE StoreInv
  OBVIOUS
<1>1. /\ touched \in Stores!Followed
      /\ files_ = [card |-> Stores!NewCard, taste |-> <<>>, orders |-> [a \in Addrs |-> <<>>],
                   pref |-> Stores!NewPref, presets |-> <<>>]
      /\ now = 0 /\ addresses = Addrs
      /\ todo = [p \in Callers |-> <<>>] /\ copy = [p \in Callers |-> <<>>]
      /\ kept = [p \in Callers |-> <<>>] /\ stamp = [p \in Callers |-> 0]
      /\ version = [f \in Stores!Files |-> 0]
      /\ told = {} /\ ran = [i \in Items |-> <<>>] /\ wished = {} /\ pinned = {}
      /\ placed = [a \in Addrs |-> <<>>]
  BY DEF Init, Stores!Init, Stores!NoAddr
<1>2. <<>> \in Seq(AllEdits) /\ <<>> \in Seq(Nat) /\ <<>> \in Seq(Entries) /\ <<>> \in Seq(Stores!Names) /\ DOMAIN <<>> = {}
      /\ Len(<<>>) = 0
  OBVIOUS
<1>3. Notings
  BY <1>1, <1>2, NoRuns DEF Notings
<1>4. StoreTypes
  <2>1. files_ = [f \in Stores!Files |-> files_[f]]
    BY <1>1 DEF Stores!Files
  <2>2. version \in [Stores!Files -> Nat] /\ todo \in [Callers -> Seq(AllEdits)] /\ stamp \in [Callers -> Nat]
    BY <1>1, <1>2
  <2>3. copy = [p \in Callers |-> copy[p]] /\ kept = [p \in Callers |-> kept[p]]
    BY <1>1
  <2> QED BY <1>1, <1>3, <2>1, <2>2, <2>3 DEF StoreTypes
<1>5. \A p \in Callers : CallInv(p)
  BY <1>1, <1>2 DEF CallInv, CopyInv, KeptInv
<1>6. TasteOK(<<>>) /\ Memory(<<>>, {}, ran)
  <2>1. TasteOK(<<>>)
    BY <1>2 DEF TasteOK, Apart
  <2>2. \A i \in Items : At(<<>>, i) = {}
    BY <1>2 DEF At
  <2>3. Book(<<>>) = [i \in Items |-> <<>>]
    BY <2>2 DEF Book
  <2>4. SaidOf(Book(<<>>)) = {}
    BY <2>3, <1>2 DEF SaidOf
  <2>5. \A i \in Items : Backed(Book(<<>>)[i], ran[i])
    BY <2>3, <1>2 DEF Backed
  <2> QED BY <2>1, <2>4, <2>5 DEF Memory
<1>7. Stores!NewCard \in Cards
  BY DEF Stores!NewCard, Stores!NoAddr, Stores!AtMostOne, Cards
<1>8. Stores!NewPref \in Prefs
  BY DEF Stores!NewPref, Stores!NoAddr, Stores!AtMostOne, Prefs
<1>9. OrdersOK(files_["orders"], 0) /\ \A a \in Addrs : Latest(files_["orders"][a], placed[a])
  <2>0. files_["orders"] = [a \in Addrs |-> <<>>] /\ placed = [a \in Addrs |-> <<>>]
    BY <1>1
  <2>1. ListOK(<<>>, 0)
    BY <1>2, InstallAssumption DEF ListOK
  <2>2. Latest(<<>>, <<>>)
    <3> DEFINE z == <<>>
    <3>1. z \in Seq(Nat) /\ Len(z) = 0 /\ DOMAIN z = {}
      BY <1>2
    <3> HIDE DEF z
    <3>2. Len(z) <= Len(z) /\ \A i \in DOMAIN z : z[i] = z[i]
      BY <3>1
    <3>3. Stores!IsPrefix(z, z)
      BY <3>1, <3>2, PrefixIs
    <3> QED BY <3>3 DEF Latest, z
  <2>3. files_["orders"] \in [Addrs -> Seq(Nat)]
    BY <2>0, <1>2
  <2>4. \A a \in Addrs : files_["orders"][a] = <<>> /\ placed[a] = <<>>
    BY <2>0
  <2>5. \A a \in Addrs : ListOK(files_["orders"][a], 0) /\ Latest(files_["orders"][a], placed[a])
    BY <2>1, <2>2, <2>4
  <2> QED BY <2>3, <2>5 DEF OrdersOK
<1>10. PresetsOK(<<>>)
  <2>1. ASSUME NEW w \in Words PROVE Stores!Cardinality(Stores!ByName(<<>>, w)) <= MaxPerName
    <3>1. Stores!ByName(<<>>, w) = {}
      BY <1>2 DEF Stores!ByName
    <3>2. Cardinality({}) = 0 /\ MaxPerName \in Nat
      BY FS_EmptySet, InstallAssumption
    <3> QED BY <3>1, <3>2, SameCount
  <2> QED BY <1>2, <2>1 DEF PresetsOK
<1>11. /\ files_["card"] = Stores!NewCard /\ files_["taste"] = <<>>
       /\ files_["pref"] = Stores!NewPref /\ files_["presets"] = <<>> /\ version["orders"] = 0
  BY <1>1 DEF Stores!Files
<1>12. FilesInv
  <2>1. ASSUME NEW f \in Stores!Files PROVE FileOK(f, files_[f], version["orders"])
    BY <1>6, <1>7, <1>8, <1>9, <1>10, <1>11 DEF FileOK
  <2>2. ASSUME NEW f \in Stores!Files PROVE Agrees(f, files_[f], told, ran, wished, pinned, placed)
    BY <1>1, <1>6, <1>9, <1>11 DEF Agrees, Stores!NoAddr
  <2> QED BY <2>1, <2>2 DEF FilesInv
<1> QED BY <1>4, <1>5, <1>12 DEF StoreInv

LEMMA StoreNext == StoreInv /\ [Next]_everything => StoreInv'
<1>1. ASSUME StoreInv, UNCHANGED stoVars PROVE StoreInv'
  <2>1. /\ Still /\ touched' = touched /\ now' = now /\ addresses' = addresses
        /\ todo' = todo /\ copy' = copy /\ kept' = kept /\ stamp' = stamp
    BY <1>1 DEF stoVars, Still
  <2>2. StoreTypes /\ FilesInv /\ \A q \in Callers : CallInv(q)
    BY <1>1 DEF StoreInv
  <2>3. StoreTypes'
    BY <2>1, <2>2 DEF StoreTypes, Notings, Still
  <2>4. Later
    BY <2>1, <2>2, StillLater
  <2>5. \A q \in Callers : CallInv(q)'
    BY <2>1, <2>2, <2>4, OthersGoOn
  <2> QED BY <2>1, <2>2, <2>3, <2>5, StillTrue DEF StoreInv
<1>2. ASSUME StoreInv, Stores!Next PROVE StoreInv'
  <2>1. ASSUME NEW p \in Callers, Stores!Calls(p) PROVE StoreInv'
    <3>1. CASE Stores!Placement(p)
      BY <1>2, <3>1, PlacementsAre, StartsInv DEF Stores!Placement
    <3>2. CASE Stores!Remember(p)
      BY <1>2, <3>2, RememberingsAre, StartsInv DEF Stores!Remember
    <3>3. CASE Stores!Forget(p)
      BY <1>2, <3>3, ForgettingsAre, StartsInv DEF Stores!Forget
    <3>4. CASE Stores!SetAddress(p)
      BY <1>2, <3>4, AddressingsAre, StartsInv DEF Stores!SetAddress
    <3>5. CASE Stores!SavePreset(p)
      BY <1>2, <3>5, SavingsAre, StartsInv DEF Stores!SavePreset
    <3>6. CASE Stores!ForgetPreset(p)
      BY <1>2, <3>6, RemovalsAre, StartsInv DEF Stores!ForgetPreset
    <3>7. CASE Stores!SnapshotReads(p) \/ Stores!SnapshotLists(p) \/ Stores!SnapshotUnlisted(p)
      BY <1>2, <3>7, SnapshotReadsInv, SnapshotListsInv, SnapshotUnlistedInv
    <3> QED BY <2>1, <3>1, <3>2, <3>3, <3>4, <3>5, <3>6, <3>7 DEF Stores!Calls
  <2>2. ASSUME NEW p \in Callers, Stores!Load(p) \/ Stores!Refused(p) \/ Stores!Save(p) \/ Stores!Fails(p) PROVE StoreInv'
    BY <1>2, <2>2, LoadInv, RefusedInv, SaveInv, FailsInv
  <2> QED BY <1>2, <2>1, <2>2, TickInv, DeleteAddressInv DEF Stores!Next
<1> QED BY <1>1, <1>2 DEF Next, everything

\* Reading the invariant.
LEMMA TasteIsTrue == StoreInv => Stores!ToldIsKept /\ Stores!OffersAreEarned
<1> SUFFICES ASSUME StoreInv, "taste" \notin raced PROVE Stores!ToldIsKept /\ Stores!OffersAreEarned
  BY DEF Stores!ToldIsKept, Stores!OffersAreEarned
<1> DEFINE t == files_["taste"]
<1>1. "taste" \in Stores!Files
  BY DEF Stores!Files
<1>2. TasteOK(t) /\ Memory(t, told, ran)
  BY <1>1 DEF StoreInv, FilesInv, FileOK, Agrees
<1>3. Said(t) = SaidOf(Book(t)) /\ Stores!Suggestions(t) = OfferedOf(Book(t))
  BY <1>2, SaidBook
<1>4. Stores!ToldIsKept
  BY <1>2, <1>3 DEF Memory, Said, Stores!ToldIsKept
<1>5. ASSUME NEW x \in Stores!Suggestions(t)
      PROVE  x[2] \in DOMAIN ran[x[1]] /\ ran[x[1]][x[2]].choice = x[3] /\ ran[x[1]][x[2]].n >= Threshold
  <2> DEFINE b == Book(t)[x[1]]
             r == ran[x[1]]
  <2>1. x[1] \in Items /\ x[2] \in DOMAIN b /\ Stores!Qualifies(b[x[2]]) /\ b[x[2]].choice = x[3]
    BY <1>3 DEF OfferedOf
  <2>2. b \in Choosing /\ r \in Runs /\ Backed(b, r)
    BY <2>1, <1>2, BookTyped DEF Memory, StoreInv, StoreTypes, Notings
  <2> HIDE DEF b, r
  <2>3. b[x[2]].source = "inferred" /\ b[x[2]].count >= Threshold /\ ~b[x[2]].declined
    BY <2>1 DEF Stores!Qualifies
  <2>4. x[2] \in DOMAIN r /\ r[x[2]].choice = b[x[2]].choice /\ r[x[2]].n >= b[x[2]].count
    BY <2>1, <2>2, <2>3 DEF Backed
  <2>5. b[x[2]].count \in Nat
    BY <2>1, <2>2, ChoosingIs DEF Stores!Picks
  <2>6. r[x[2]].n \in Nat
    BY <2>2, <2>4, RunsIs
  <2>7. Threshold \in Nat
    BY InstallAssumption
  <2> QED BY <2>1, <2>3, <2>4, <2>5, <2>6, <2>7 DEF r
<1> QED BY <1>4, <1>5 DEF Stores!OffersAreEarned

LEMMA RestIsTrue == StoreInv => Stores!WishesStand /\ Stores!ListsAreSound
<1> SUFFICES ASSUME StoreInv PROVE Stores!WishesStand /\ Stores!ListsAreSound
  OBVIOUS
<1>1. {"card", "orders", "pref", "presets"} \subseteq Stores!Files
  BY DEF Stores!Files
<1>2. /\ OrdersOK(files_["orders"], version["orders"]) /\ PresetsOK(files_["presets"])
      /\ "card" \notin raced => wished = Stores!NoAddr \/ files_["card"].default = wished
      /\ "pref" \notin raced => pinned = Stores!NoAddr \/ files_["pref"].default = pinned
      /\ "orders" \notin raced => \A a \in Addrs : Latest(files_["orders"][a], placed[a])
  BY <1>1 DEF StoreInv, FilesInv, FileOK, Agrees
<1>3. Stores!WishesStand
  BY <1>2 DEF Stores!WishesStand, Stores!Active
<1>4. Stores!ListsAreSound
  <2>1. \A w \in Words : Stores!Cardinality(Stores!ByName(files_["presets"], w)) <= MaxPerName
    BY <1>2 DEF PresetsOK
  <2>2. ASSUME NEW a \in Addrs
        PROVE  /\ Len(files_["orders"][a]) <= MaxOrders
               /\ \A i, j \in DOMAIN files_["orders"][a] : i # j => files_["orders"][a][i] # files_["orders"][a][j]
    BY <1>2 DEF OrdersOK, ListOK
  <2>3. ASSUME NEW a \in Addrs, "orders" \notin raced
        PROVE  /\ Stores!IsPrefix(files_["orders"][a], placed[a])
               /\ Len(files_["orders"][a]) < MaxOrders => files_["orders"][a] = placed[a]
    BY <1>2, <2>3 DEF Latest
  <2> QED BY <2>1, <2>2, <2>3 DEF Stores!ListsAreSound
<1> QED BY <1>3, <1>4

LEMMA StoreTyped == StoreInv => Stores!StoreTypeOK
<1> SUFFICES ASSUME StoreInv PROVE Stores!StoreTypeOK
  OBVIOUS
<1>1. {"card", "taste"} \subseteq Stores!Files
  BY DEF Stores!Files
<1>2. TasteOK(files_["taste"]) /\ files_["card"] \in Cards
  BY <1>1 DEF StoreInv, FilesInv, FileOK
<1>3. ASSUME NEW i \in DOMAIN files_["taste"], NEW g \in DOMAIN files_["taste"][i].picks
      PROVE  g \in Groups /\ files_["taste"][i].picks[g] \in Stores!Picks
  <2>1. files_["taste"][i] \in Entries
    BY <1>2, BookAt
  <2>2. files_["taste"][i].picks \in Choosing
    BY <2>1 DEF Entries
  <2> QED BY <2>2, ChoosingIs
<1>4. files_["card"].default \in Stores!AtMostOne(Addrs) /\ files_["card"].last \in Stores!AtMostOne(Addrs)
  BY <1>2 DEF Cards
<1>5. ASSUME NEW p \in Callers PROVE Len(copy[p]) <= 1 /\ (copy[p] # <<>> => todo[p] # <<>>)
  <2>1. copy[p] # <<>> => todo[p] # <<>> /\ copy[p] = <<copy[p][1]>>
    BY DEF StoreInv, CallInv, CopyInv
  <2>2. CASE copy[p] = <<>>
    <3>1. Len(copy[p]) = 0
      BY <2>2
    <3> QED BY <2>2, <3>1
  <2>3. CASE copy[p] # <<>>
    <3> DEFINE x == copy[p][1]
    <3>1. copy[p] = <<x>> /\ todo[p] # <<>>
      BY <2>1, <2>3
    <3> HIDE DEF x
    <3>2. Len(copy[p]) = 1
      BY <3>1
    <3> QED BY <3>1, <3>2
  <2> QED BY <2>2, <2>3
<1> QED BY <1>3, <1>4, <1>5 DEF Stores!StoreTypeOK

\* The files in which the machine remembers its user are true to what the user said and
\* did, for any number of callers, dishes and addresses (internal/localstore).
THEOREM StoresRemember == Spec => []StoresAreTrue
<1>1. StoreInv => StoresAreTrue
  BY TasteIsTrue, RestIsTrue DEF StoresAreTrue
<1> QED BY <1>1, StoreInit, StoreNext, PTL DEF Spec, everything

\* The update, the installation and the files have their types.
THEOREM MachineTypes == Spec => []MachineTypeOK
<1>1. UpdInv => Update!UpdTypeOK
  <2> SUFFICES ASSUME UpdInv PROVE Update!UpdTypeOK
    OBVIOUS
  <2>1. \A p \in Launches : launch[p].reexecs > 0 => launch[p].updated
    BY DEF UpdInv, Sound
  <2>2. launch \in [Launches -> LaunchRecord]
    BY DEF UpdInv
  <2>3. UpdTypes
    BY DEF UpdInv
  <2> QED BY <2>1, <2>2, <2>3 DEF UpdTypes, DiskRecord, MishapRecord, LaunchRecord, Pcs, Update!UpdTypeOK
<1>2. KeepInv => Keep!InsTypeOK
  <2> SUFFICES ASSUME KeepInv PROVE Keep!InsTypeOK
    OBVIOUS
  <2>1. \A p \in Procs : proc[p].sync = "done" => proc[p].left = {}
    BY DEF KeepInv, WorkInv
  <2>2. KeepTypes
    BY DEF KeepInv
  <2> QED BY <2>1, <2>2 DEF KeepTypes, FilesRecord, ProcRecord, Keep!InsTypeOK
<1>3. UpdInv /\ KeepInv /\ StoreInv => MachineTypeOK
  BY <1>1, <1>2, StoreTyped DEF MachineTypeOK
<1> QED BY <1>3, UpdInit, UpdNext, KeepInit, KeepNext, StoreInit, StoreNext, PTL DEF Spec, everything

=============================================================================
