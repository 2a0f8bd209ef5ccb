------------------------- MODULE FirecrackerProofs --------------------------
(***************************************************************************)
(* Theorems about the scripts of runner/firecracker: for any number of     *)
(* launchers on one host, of builders of one image, and of boots of one    *)
(* guest; whatever fails, and wherever signals come.                       *)
(***************************************************************************)
EXTENDS MCFirecracker, TLAPS

-----------------------------------------------------------------------------
(* launch.sh.                                                              *)

Stages == {"start", "check", "add", "note", "up", "spawn", "pid", "socket", "wait",
           "killVM", "deleteTap", "remove", "done"}
CleaningUp == {"killVM", "deleteTap", "remove"}
Past(l, stages) == pc[l] \in stages

LaunchTypeOK ==
  /\ pc \in [Launchers -> Stages]
  /\ tap_created \in [Launchers -> BOOLEAN] /\ fc_pid \in [Launchers -> BOOLEAN]
  /\ signalled \in [Launchers -> BOOLEAN] /\ rounds \in [Launchers -> Nat]
  /\ vm \in [Launchers -> {"none", "api", "guest", "ended"}]
  /\ workdir \in [Launchers -> BOOLEAN]
  /\ tap \in Launchers \cup {Nobody}

(* What the script's variables say of the device, the process and the      *)
(* directory.  Each variable is set one command after its resource is made:*)
(* only a signal in between leads into the cleanup without it.             *)
OwnInv(l) ==
  /\ pc[l] \in {"start", "check", "add"} => tap # l
  /\ pc[l] \in {"start", "check", "add", "note"} => ~tap_created[l]
  /\ pc[l] \in {"up", "spawn", "pid", "socket", "wait"} => tap_created[l]
  /\ tap = l /\ ~tap_created[l] => pc[l] = "note" \/ signalled[l]
  /\ pc[l] \in {"remove", "done"} /\ tap_created[l] => tap # l
  /\ pc[l] = "start" => ~fc_pid[l]
  /\ pc[l] \in {"socket", "wait"} => fc_pid[l]
  /\ vm[l] \in {"api", "guest"} /\ ~fc_pid[l] => pc[l] = "pid" \/ signalled[l]
  /\ pc[l] \in {"deleteTap", "remove", "done"} /\ fc_pid[l] => vm[l] \notin {"api", "guest"}
  /\ pc[l] \in {"start", "done"} => ~workdir[l]

(* A signal leads into the cleanup for good; without one it runs once.     *)
RoundsInv(l) ==
  /\ signalled[l] => pc[l] \in CleaningUp \cup {"done"}
  /\ ~signalled[l] => rounds[l] <= 1
  /\ pc[l] \in CleaningUp => rounds[l] >= 1

(* A launcher that no signal has met and that has a device to delete has   *)
(* it still, or somebody else was signalled, who deletes by name twice; and*)
(* the device there is now, if any, is not that one's, who makes none any  *)
(* more.                                                                   *)
Undeleted == {"note", "up", "spawn", "pid", "socket", "wait", "killVM", "deleteTap"}
DeviceInv(l) ==
  (~signalled[l] /\ pc[l] \in Undeleted /\ (tap_created[l] \/ pc[l] = "note")) =>
    tap = l \/ \E k \in Launchers \ {l} : signalled[k] /\ tap # k

LaunchInv ==
  /\ LaunchTypeOK
  /\ \A l \in Launchers : OwnInv(l) /\ RoundsInv(l) /\ DeviceInv(l)

LEMMA LaunchInvInit == LaunchInit => LaunchInv
BY LauncherAssumption
   DEF LaunchInit, LaunchInv, LaunchTypeOK, Stages, OwnInv, RoundsInv, DeviceInv, CleaningUp, Undeleted

LaunchUses(l) == LaunchStep(l) \/ Signal(l) \/ VMEnds(l)

LEMMA LaunchTypeNext ==
  ASSUME LaunchInv, NEW l \in Launchers, LaunchUses(l)
  PROVE  LaunchTypeOK'
<1> USE DEF LaunchTypeOK, At, To, Keeps, Exits, ExitsAlone, hostVars, scriptVars
<1>0. LaunchTypeOK /\ rounds[l] \in Nat /\ (pc[l] \in CleaningUp => rounds[l] - 1 \in Nat)
  BY DEF LaunchInv, RoundsInv
<1>1. CASE MakeWorkdir(l)
  BY <1>0, <1>1 DEF MakeWorkdir, Stages
<1>2. CASE CheckTap(l)
  BY <1>0, <1>2 DEF CheckTap, Stages
<1>3. CASE AddTap(l)
  BY <1>0, <1>3 DEF AddTap, Stages
<1>4. CASE NoteTap(l)
  BY <1>0, <1>4 DEF NoteTap, Stages
<1>5. CASE TapUp(l)
  BY <1>0, <1>5 DEF TapUp, Stages
<1>6. CASE SpawnVM(l)
  BY <1>0, <1>6 DEF SpawnVM, Stages
<1>7. CASE NotePid(l)
  BY <1>0, <1>7 DEF NotePid, Stages
<1>8. CASE StartGuest(l)
  BY <1>0, <1>8 DEF StartGuest, Stages
<1>9. CASE WaitVM(l)
  BY <1>0, <1>9 DEF WaitVM, Stages
<1>10. CASE KillVM(l)
  BY <1>0, <1>10 DEF KillVM, Stages
<1>11. CASE DeleteTap(l)
  BY <1>0, <1>11 DEF DeleteTap, Stages
<1>12. CASE RemoveWorkdir(l)
  BY <1>0, <1>12 DEF RemoveWorkdir, Stages, CleaningUp
<1>13. CASE Signal(l)
  BY <1>0, <1>13 DEF Signal, Stages
<1>14. CASE VMEnds(l)
  BY <1>0, <1>14 DEF VMEnds, Stages
<1> QED
  BY <1>1, <1>2, <1>3, <1>4, <1>5, <1>6, <1>7, <1>8, <1>9, <1>10, <1>11, <1>12, <1>13, <1>14
     DEF LaunchUses, LaunchStep, CleanUp

(* A step changes what is a launcher's own of one launcher only, and the   *)
(* TAP in two ways.                                                        *)
LEMMA LaunchFrame ==
  ASSUME LaunchInv, NEW l \in Launchers, LaunchUses(l)
  PROVE  /\ \A m \in Launchers \ {l} :
              /\ pc'[m] = pc[m] /\ tap_created'[m] = tap_created[m] /\ fc_pid'[m] = fc_pid[m]
              /\ signalled'[m] = signalled[m] /\ rounds'[m] = rounds[m]
              /\ vm'[m] = vm[m] /\ workdir'[m] = workdir[m]
         /\ \/ tap' = tap
            \/ AddTap(l) /\ tap = Nobody /\ tap' = l /\ signalled' = signalled
            \/ DeleteTap(l) /\ tap_created[l] /\ tap' = Nobody
<1> USE DEF LaunchInv, LaunchTypeOK, At, To, Keeps, Exits, ExitsAlone, hostVars, scriptVars
<1>1. CASE MakeWorkdir(l) \/ CheckTap(l) \/ AddTap(l) \/ NoteTap(l) \/ TapUp(l)
  BY <1>1 DEF MakeWorkdir, CheckTap, AddTap, NoteTap, TapUp
<1>2. CASE SpawnVM(l) \/ NotePid(l) \/ StartGuest(l) \/ WaitVM(l)
  BY <1>2 DEF SpawnVM, NotePid, StartGuest, WaitVM
<1>3. CASE CleanUp(l)
  BY <1>3 DEF CleanUp, KillVM, DeleteTap, RemoveWorkdir
<1>4. CASE Signal(l) \/ VMEnds(l)
  BY <1>4 DEF Signal, VMEnds
<1> QED
  BY <1>1, <1>2, <1>3, <1>4 DEF LaunchUses, LaunchStep

(* The step of a launcher keeps what is true of itself ...                 *)
LEMMA OwnNext ==
  ASSUME LaunchInv, NEW l \in Launchers, LaunchUses(l)
  PROVE  OwnInv(l)' /\ RoundsInv(l)'
<1> USE LauncherAssumption DEF LaunchInv, LaunchTypeOK, Stages, OwnInv, RoundsInv, CleaningUp,
        At, To, Keeps, Exits, ExitsAlone, hostVars, scriptVars
<1>0. l # Nobody /\ rounds[l] \in Nat /\ OwnInv(l) /\ RoundsInv(l)
  OBVIOUS
<1>1. CASE MakeWorkdir(l)
  BY <1>0, <1>1 DEF MakeWorkdir
<1>2. CASE CheckTap(l)
  BY <1>0, <1>2 DEF CheckTap
<1>3. CASE AddTap(l)
  BY <1>0, <1>3 DEF AddTap
<1>4. CASE NoteTap(l) \/ TapUp(l) \/ SpawnVM(l) \/ NotePid(l)
  BY <1>0, <1>4 DEF NoteTap, TapUp, SpawnVM, NotePid
<1>5. CASE StartGuest(l) \/ WaitVM(l)
  BY <1>0, <1>5 DEF StartGuest, WaitVM
<1>6. CASE KillVM(l) \/ DeleteTap(l)
  BY <1>0, <1>6 DEF KillVM, DeleteTap
<1>7. CASE RemoveWorkdir(l)
  BY <1>0, <1>7 DEF RemoveWorkdir
<1>8. CASE Signal(l)
  BY <1>0, <1>8 DEF Signal
<1>9. CASE VMEnds(l)
  BY <1>0, <1>9 DEF VMEnds
<1> QED
  BY <1>1, <1>2, <1>3, <1>4, <1>5, <1>6, <1>7, <1>8, <1>9 DEF LaunchUses, LaunchStep, CleanUp

(* ... and of the others, of whose resources it can take the device only.  *)
LEMMA OthersNext ==
  ASSUME LaunchInv, NEW l \in Launchers, LaunchUses(l), NEW m \in Launchers \ {l}
  PROVE  OwnInv(m)' /\ RoundsInv(m)'
<1>1. OwnInv(m) /\ RoundsInv(m) /\ m # Nobody /\ (tap' = m => tap = m)
  BY LaunchFrame, LauncherAssumption DEF LaunchInv
<1> QED
  BY <1>1, LaunchFrame DEF OwnInv, RoundsInv

(* The device of a launcher without a signal goes only when another one was*)
(* signalled: whoever deletes it has made one too, and lost it that way.   *)
LEMMA DeviceNext ==
  ASSUME LaunchInv, NEW l \in Launchers, LaunchUses(l), NEW m \in Launchers
  PROVE  DeviceInv(m)'
<1> USE DEF LaunchInv, LaunchTypeOK
<1> SUFFICES ASSUME ~signalled'[m], pc'[m] \in Undeleted, tap_created'[m] \/ pc'[m] = "note"
             PROVE  tap' = m \/ \E k \in Launchers \ {m} : signalled'[k] /\ tap' # k
  BY DEF DeviceInv
<1>0. /\ \A k \in Launchers : k # Nobody /\ (signalled[k] => signalled'[k])
      /\ \A k \in Launchers : signalled[k] => pc[k] \in CleaningUp \cup {"done"}
  <2>1. signalled[l] => signalled'[l]
    BY DEF LaunchUses, LaunchStep, MakeWorkdir, CheckTap, AddTap, NoteTap, TapUp, SpawnVM,
           NotePid, StartGuest, WaitVM, CleanUp, KillVM, DeleteTap, RemoveWorkdir, Signal,
           VMEnds, Keeps, Exits, ExitsAlone, scriptVars
  <2> QED
    BY <2>1, LaunchFrame, LauncherAssumption DEF RoundsInv
<1>1. CASE AddTap(l) /\ tap = Nobody /\ tap' = l /\ signalled' = signalled
  <2>1. m = l \/ (pc'[m] = pc[m] /\ tap_created'[m] = tap_created[m])
    BY LaunchFrame
  <2>2. ~signalled[l]
    BY <1>0, <1>1 DEF AddTap, At, CleaningUp
  <2>3. m # l => \E k \in Launchers \ {m} : signalled[k]
    BY <1>0, <1>1, <2>1 DEF DeviceInv
  <2> QED
    BY <1>0, <1>1, <2>2, <2>3
<1>2. CASE DeleteTap(l) /\ tap_created[l] /\ tap' = Nobody
  <2>1. m # l
    BY <1>2 DEF DeleteTap, To, Undeleted
  <2>2. /\ pc[l] = "deleteTap" /\ pc'[m] = pc[m] /\ tap_created'[m] = tap_created[m]
        /\ signalled'[m] = signalled[m]
    BY <1>2, <2>1, LaunchFrame DEF DeleteTap, At
  <2>3. tap = m => \E k \in Launchers \ {m} : signalled[k]
    BY <1>2, <2>1, <2>2 DEF DeviceInv, Undeleted
  <2>4. tap # m => \E k \in Launchers \ {m} : signalled[k]
    BY <2>2 DEF DeviceInv
  <2> QED
    BY <1>0, <1>2, <2>3, <2>4
<1>3. CASE tap' = tap
  <2>1. ~signalled[m] /\ pc[m] \in Undeleted /\ (tap_created[m] \/ pc[m] = "note")
    <3>1. CASE m # l
      BY <3>1, LaunchFrame
    <3>2. CASE m = l
      <4> USE <3>2 DEF Undeleted, At, To, Keeps, Exits, ExitsAlone, hostVars, scriptVars
      <4>1. OwnInv(l) /\ l # Nobody
        BY LauncherAssumption
      <4>2. CASE MakeWorkdir(l) \/ CheckTap(l) \/ AddTap(l) \/ NoteTap(l)
        BY <1>3, <4>1, <4>2 DEF MakeWorkdir, CheckTap, AddTap, NoteTap, OwnInv
      <4>3. CASE TapUp(l) \/ SpawnVM(l) \/ NotePid(l) \/ StartGuest(l) \/ WaitVM(l)
        BY <4>1, <4>3 DEF TapUp, SpawnVM, NotePid, StartGuest, WaitVM, OwnInv
      <4>4. CASE CleanUp(l)
        BY <4>4 DEF CleanUp, KillVM, DeleteTap, RemoveWorkdir, RoundsInv, CleaningUp
      <4>5. CASE Signal(l) \/ VMEnds(l)
        BY <4>5 DEF Signal, VMEnds
      <4> QED
        BY <4>2, <4>3, <4>4, <4>5 DEF LaunchUses, LaunchStep
    <3> QED
      BY <3>1, <3>2
  <2> QED
    BY <1>0, <1>3, <2>1 DEF DeviceInv
<1> QED
  BY <1>1, <1>2, <1>3, LaunchFrame

LEMMA LaunchInvNext == LaunchInv /\ [LaunchNext]_launchVars => LaunchInv'
<1>1. CASE UNCHANGED launchVars
  BY <1>1 DEF launchVars, scriptVars, hostVars, LaunchInv, LaunchTypeOK, OwnInv, RoundsInv, DeviceInv
<1>2. ASSUME LaunchInv, NEW l \in Launchers, LaunchUses(l) PROVE LaunchInv'
  BY <1>2, LaunchTypeNext, OwnNext, OthersNext, DeviceNext DEF LaunchInv
<1> QED
  BY <1>1, <1>2 DEF LaunchNext, LaunchUses

LEMMA LaunchInvHolds == LaunchSpec => []LaunchInv
BY LaunchInvInit, LaunchInvNext, PTL DEF LaunchSpec

(* Any number of launchers, with failing commands, signals and VMs that    *)
(* end anywhere: each leaves neither device nor process nor directory,     *)
(* unless a signal met it before its variables were set (launch.sh,        *)
(* cleanup).                                                               *)
THEOREM LaunchersCleanUp == LaunchSpec => []LauncherCleansUp
<1>1. LaunchInv => LauncherCleansUp
  BY DEF LaunchInv, OwnInv, LauncherCleansUp, Left, At
<1> QED
  BY <1>1, LaunchInvHolds, PTL

(* No step of a launcher takes the device of another one, who won the race *)
(* for its name, unless somebody else was signalled (launch.sh, "ip link   *)
(* delete" in cleanup).                                                    *)
THEOREM OthersTapKept == LaunchSpec => LoserKeepsOthersTap
<1>1. ASSUME LaunchInv, [LaunchNext]_launchVars, NEW l \in Launchers, NEW m \in Launchers,
             l # m, tap = l, tap' # l, pc'[m] # pc[m]
      PROVE  \E k \in Launchers \ {l} : signalled[k]
  <2>1. LaunchUses(m)
    <3>1. PICK k \in Launchers : LaunchUses(k)
      BY <1>1 DEF LaunchNext, LaunchUses, launchVars, hostVars
    <3> QED
      BY <1>1, <3>1, LaunchFrame
  <2>2. DeleteTap(m) /\ tap_created[m]
    BY <1>1, <2>1, LaunchFrame, LauncherAssumption
  <2>3. DeviceInv(m) /\ pc[m] = "deleteTap"
    BY <1>1, <2>2 DEF LaunchInv, DeleteTap, At
  <2> QED
    BY <1>1, <2>2, <2>3 DEF DeviceInv, Undeleted
<1>2. LaunchInv /\ [LaunchNext]_launchVars =>
        [\A l, m \in Launchers :
           (l # m /\ tap = l /\ tap' # l /\ pc'[m] # pc[m]) =>
             \E k \in Launchers \ {l} : signalled[k]]_launchVars
  BY <1>1
<1> QED
  BY <1>2, LaunchInvHolds, PTL DEF LaunchSpec, LoserKeepsOthersTap

-----------------------------------------------------------------------------
(* build-rootfs.sh.                                                        *)

BuildStages == {"check", "hash", "truncate", "mkfs", "mount", "note", "extract", "install",
                "end", "unmount", "remove", "keep", "done"}

BuildTypeOK ==
  /\ buildPC \in [Builders -> BuildStages]
  /\ mounted \in [Builders -> BOOLEAN] /\ stuck \in [Builders -> BOOLEAN]
  /\ buildSignalled \in [Builders -> BOOLEAN] /\ buildRounds \in [Builders -> Nat]
  /\ status \in [Builders -> {"none", "ok", "failed"}]
  /\ mount \in [Builders -> Builders \cup {None}] /\ path \in Builders \cup {None}
  /\ parts \in [Builders -> SUBSET (R!Complete \cup {"other"})]
  /\ archive \in {"pinned", "replaced", "other"}

(* The script's variable and the mount; the image a builder has made.      *)
MountInv(b) ==
  /\ buildPC[b] \in {"check", "hash", "truncate", "mkfs", "mount"} =>
       mount[b] = None /\ ~mounted[b]
  /\ buildPC[b] = "note" => ~mounted[b]
  /\ buildPC[b] \in {"note", "extract", "install", "end"} => mount[b] # None
  /\ buildPC[b] \in {"extract", "install", "end"} => mounted[b]
  /\ buildPC[b] = "unmount" /\ ~mounted[b] => mount[b] = None \/ buildSignalled[b]
  /\ buildPC[b] \in {"remove", "keep", "done"} =>
       mount[b] = None \/ stuck[b] \/ (buildSignalled[b] /\ ~mounted[b])
  /\ buildPC[b] \in {"check", "hash", "truncate"} => path # b
  /\ buildPC[b] = "done" /\ status[b] = "failed" => path # b
  /\ buildSignalled[b] => buildPC[b] \in {"unmount", "remove", "keep", "done"}
  /\ ~buildSignalled[b] => buildRounds[b] <= 1
  /\ buildPC[b] \in {"unmount", "remove", "keep"} => buildRounds[b] >= 1

(* Who will complete the image at the path, or remove it.                  *)
Responsible(b) ==
  \/ buildPC[b] = "mkfs"
  \/ buildPC[b] = "mount" /\ "fs" \in parts[path]
  \/ buildPC[b] \in {"note", "extract", "install"} /\ mount[b] = path /\ "fs" \in parts[path]
  \/ buildPC[b] \in {"unmount", "remove", "keep"} /\ status[b] = "failed"

(* As long as nothing disturbs the builders, what one has written to an    *)
(* image it has mounted stays there (mkfs refuses a mounted image), and an *)
(* image at the path is complete or some builder is responsible for it.    *)
ImageInv ==
  R!Undisturbed /\ archive = "pinned" =>
    /\ \A i \in Builders : "other" \notin parts[i]
    /\ \A b \in Builders : buildPC[b] = "install" => "pinned" \in parts[mount[b]]
    /\ path # None => parts[path] = R!Complete \/ \E b \in Builders : Responsible(b)

(* Only a builder that has seen the digest goes on.                        *)
PinnedInv ==
  archive = "other" => path = None /\ \A b \in Builders : buildPC[b] \in {"check", "hash", "done"}

BuildInv ==
  /\ BuildTypeOK
  /\ \A b \in Builders : MountInv(b)
  /\ PinnedInv
  /\ ImageInv

LEMMA BuildInvInit == R!BuildInit => BuildInv
BY PartAssumption
   DEF R!BuildInit, BuildInv, BuildTypeOK, BuildStages, MountInv, PinnedInv, ImageInv

BuilderUses(b) == R!BuildStep(b) \/ R!Signal(b)

LEMMA BuildTypeNext ==
  ASSUME BuildTypeOK, NEW b \in Builders, MountInv(b), BuilderUses(b)
  PROVE  BuildTypeOK'
<1> USE DEF BuildTypeOK, R!At, R!To, R!Alone, R!Holds, R!Exits, R!Fails, R!Dies, R!Write, R!Tree,
        R!Complete
<1>1. CASE R!CheckImage(b)
  BY <1>1 DEF R!CheckImage, BuildStages
<1>2. CASE R!HashArchive(b)
  BY <1>2 DEF R!HashArchive, BuildStages
<1>3. CASE R!TruncateImage(b)
  BY <1>3 DEF R!TruncateImage, BuildStages
<1>4. CASE R!MakeFS(b)
  BY <1>4 DEF R!MakeFS, BuildStages
<1>5. CASE R!MountImage(b)
  BY <1>5 DEF R!MountImage, BuildStages
<1>6. CASE R!NoteMount(b)
  BY <1>6 DEF R!NoteMount, BuildStages
<1>7. CASE R!ExtractArchive(b)
  BY <1>7 DEF R!ExtractArchive, BuildStages
<1>8. CASE R!InstallHoldout(b)
  BY <1>8 DEF R!InstallHoldout, BuildStages
<1>9. CASE R!EndBuild(b)
  BY <1>9 DEF R!EndBuild, BuildStages
<1>10. CASE R!UnmountImage(b)
  BY <1>10 DEF R!UnmountImage, BuildStages
<1>11. CASE R!RemoveWorkdir(b)
  BY <1>11 DEF R!RemoveWorkdir, BuildStages
<1>12. CASE R!KeepImage(b)
  <2>1. buildRounds[b] - 1 \in Nat
    BY <1>12 DEF R!KeepImage, MountInv
  <2> QED
    BY <1>12, <2>1 DEF R!KeepImage, R!NextRound, BuildStages
<1>13. CASE R!Signal(b)
  BY <1>13 DEF R!Signal, BuildStages
<1> QED
  BY <1>1, <1>2, <1>3, <1>4, <1>5, <1>6, <1>7, <1>8, <1>9, <1>10, <1>11, <1>12, <1>13
     DEF BuilderUses, R!BuildStep

(* A step changes what is a builder's own of one builder only; the image at*)
(* the path in two ways, and what an image holds by three commands.        *)
LEMMA BuildFrame ==
  ASSUME BuildTypeOK, NEW b \in Builders, BuilderUses(b)
  PROVE  /\ \A m \in Builders \ {b} :
              /\ buildPC'[m] = buildPC[m] /\ mounted'[m] = mounted[m] /\ status'[m] = status[m]
              /\ buildSignalled'[m] = buildSignalled[m] /\ buildRounds'[m] = buildRounds[m]
              /\ mount'[m] = mount[m] /\ stuck'[m] = stuck[m]
         /\ archive' = archive
         /\ buildSignalled[b] => buildSignalled'[b]
         /\ stuck[b] => stuck'[b]
         /\ path' = path \/ (path = None /\ path' = b) \/ path' = None
<1> USE DEF BuildTypeOK, R!At, R!To, R!Alone, R!Holds, R!Exits, R!Fails, R!Dies, R!Write
<1>1. CASE R!CheckImage(b) \/ R!HashArchive(b) \/ R!TruncateImage(b) \/ R!MakeFS(b)
  BY <1>1 DEF R!CheckImage, R!HashArchive, R!TruncateImage, R!MakeFS
<1>2. CASE R!MountImage(b) \/ R!NoteMount(b) \/ R!ExtractArchive(b) \/ R!InstallHoldout(b)
             \/ R!EndBuild(b)
  BY <1>2 DEF R!MountImage, R!NoteMount, R!ExtractArchive, R!InstallHoldout, R!EndBuild
<1>3. CASE R!UnmountImage(b) \/ R!RemoveWorkdir(b) \/ R!KeepImage(b)
  BY <1>3 DEF R!UnmountImage, R!RemoveWorkdir, R!KeepImage, R!NextRound
<1>4. CASE R!Signal(b)
  BY <1>4 DEF R!Signal
<1> QED
  BY <1>1, <1>2, <1>3, <1>4 DEF BuilderUses, R!BuildStep

(* The step of a builder keeps what is true of its own mount and image.    *)
LEMMA MountNext ==
  ASSUME BuildTypeOK, NEW b \in Builders, MountInv(b), BuilderUses(b)
  PROVE  MountInv(b)'
<1> USE PartAssumption DEF BuildTypeOK, MountInv, R!At, R!To, R!Alone, R!Holds, R!Exits, R!Fails,
        R!Dies, R!Write
<1>1. CASE R!CheckImage(b) \/ R!HashArchive(b)
  BY <1>1 DEF R!CheckImage, R!HashArchive
<1>2. CASE R!TruncateImage(b)
  BY <1>2 DEF R!TruncateImage
<1>3. CASE R!MakeFS(b)
  BY <1>3 DEF R!MakeFS
<1>4. CASE R!MountImage(b)
  BY <1>4 DEF R!MountImage
<1>5. CASE R!NoteMount(b)
  BY <1>5 DEF R!NoteMount
<1>6. CASE R!ExtractArchive(b)
  BY <1>6 DEF R!ExtractArchive
<1>7. CASE R!InstallHoldout(b)
  BY <1>7 DEF R!InstallHoldout
<1>8. CASE R!EndBuild(b)
  BY <1>8 DEF R!EndBuild
<1>9. CASE R!UnmountImage(b)
  BY <1>9 DEF R!UnmountImage
<1>10. CASE R!RemoveWorkdir(b)
  BY <1>10 DEF R!RemoveWorkdir
<1>11. CASE R!KeepImage(b)
  BY <1>11 DEF R!KeepImage, R!NextRound
<1>12. CASE R!Signal(b)
  BY <1>12 DEF R!Signal
<1> QED
  BY <1>1, <1>2, <1>3, <1>4, <1>5, <1>6, <1>7, <1>8, <1>9, <1>10, <1>11, <1>12
     DEF BuilderUses, R!BuildStep

LEMMA OtherMountsNext ==
  ASSUME BuildTypeOK, NEW b \in Builders, BuilderUses(b), NEW m \in Builders \ {b}, MountInv(m)
  PROVE  MountInv(m)'
<1>1. m # None /\ (path' = m => path = m)
  BY BuildFrame, PartAssumption
<1> QED
  BY <1>1, BuildFrame DEF MountInv

LEMMA PinnedNext ==
  ASSUME BuildTypeOK, PinnedInv, NEW b \in Builders, BuilderUses(b)
  PROVE  PinnedInv'
<1> SUFFICES ASSUME archive = "other"
             PROVE  path' = None /\ buildPC'[b] \in {"check", "hash", "done"}
  BY BuildFrame DEF PinnedInv
<1>1. path = None /\ buildPC[b] \in {"check", "hash", "done"}
  BY DEF PinnedInv
<1> QED
  BY <1>1 DEF BuildTypeOK, BuilderUses, R!BuildStep, R!CheckImage, R!HashArchive, R!TruncateImage,
              R!MakeFS, R!MountImage, R!NoteMount, R!ExtractArchive, R!InstallHoldout, R!EndBuild,
              R!UnmountImage, R!RemoveWorkdir, R!KeepImage, R!Signal, R!At, R!To, R!Alone, R!Dies

(* What an undisturbed builder writes: a file system where none is mounted,*)
(* or a part of an image it has mounted; the cleanup writes nothing.       *)
LEMMA UndisturbedWrites ==
  ASSUME BuildInv, NEW b \in Builders, R!BuildStep(b), R!Undisturbed, archive = "pinned"
  PROVE  \/ parts' = parts
         \/ /\ R!MakeFS(b) /\ path \in Builders /\ \A m \in Builders : mount[m] # path
            /\ parts' = [parts EXCEPT ![path] = {"fs"}] /\ buildPC'[b] = "mount"
            /\ path' = path /\ mount' = mount
         \/ /\ mount[b] \in Builders /\ path' = path /\ mount' = mount
            /\ \/ /\ R!ExtractArchive(b) /\ buildPC'[b] = "install"
                  /\ parts' = [parts EXCEPT ![mount[b]] = @ \cup {"pinned"}]
               \/ /\ R!InstallHoldout(b) /\ buildPC'[b] = "end"
                  /\ parts' = [parts EXCEPT ![mount[b]] = @ \cup {"holdout"}]
<1> USE DEF BuildInv, BuildTypeOK, R!At, R!To, R!Alone, R!Holds, R!Exits, R!Fails, R!Dies
<1>1. CASE R!CheckImage(b) \/ R!HashArchive(b) \/ R!TruncateImage(b) \/ R!MountImage(b)
             \/ R!NoteMount(b) \/ R!EndBuild(b) \/ R!UnmountImage(b) \/ R!KeepImage(b)
  BY <1>1 DEF R!CheckImage, R!HashArchive, R!TruncateImage, R!MountImage, R!NoteMount,
              R!EndBuild, R!UnmountImage, R!KeepImage, R!NextRound
<1>2. CASE R!MakeFS(b)
  BY <1>2 DEF R!MakeFS
<1>3. CASE R!ExtractArchive(b) \/ R!InstallHoldout(b)
  <2>1. mount[b] \in Builders
    BY <1>3 DEF R!ExtractArchive, R!InstallHoldout, MountInv
  <2> QED
    BY <1>3, <2>1 DEF R!ExtractArchive, R!InstallHoldout, R!Write, R!Tree
<1>4. CASE R!RemoveWorkdir(b)
  <2>1. mount[b] = None
    BY <1>4 DEF R!RemoveWorkdir, R!Undisturbed, MountInv
  <2> QED
    BY <1>4, <2>1 DEF R!RemoveWorkdir
<1> QED
  BY <1>1, <1>2, <1>3, <1>4 DEF R!BuildStep

LEMMA ImageNext ==
  ASSUME BuildInv, BuildTypeOK', NEW b \in Builders, BuilderUses(b)
  PROVE  ImageInv'
<1> SUFFICES ASSUME R!Undisturbed', archive' = "pinned"
             PROVE  /\ \A i \in Builders : "other" \notin parts'[i]
                    /\ \A m \in Builders : buildPC'[m] = "install" => "pinned" \in parts'[mount'[m]]
                    /\ path' # None => parts'[path'] = R!Complete
                                       \/ \E m \in Builders : Responsible(m)'
  BY DEF ImageInv
<1> USE DEF BuildInv
<1>1. R!Undisturbed /\ archive = "pinned" /\ R!BuildStep(b)
  <2>1. R!Undisturbed /\ archive = "pinned"
    BY BuildFrame DEF R!Undisturbed, BuildTypeOK
  <2>2. ~R!Signal(b)
    BY DEF R!Undisturbed, R!Signal, BuildTypeOK
  <2> QED
    BY <2>1, <2>2 DEF BuilderUses
<1>2. /\ \A i \in Builders : "other" \notin parts[i]
      /\ \A m \in Builders : buildPC[m] = "install" => "pinned" \in parts[mount[m]]
      /\ path # None => parts[path] = R!Complete \/ \E m \in Builders : Responsible(m)
  BY <1>1 DEF ImageInv
<1>3. \A i \in Builders : "other" \notin parts'[i]
  BY <1>1, <1>2, UndisturbedWrites DEF BuildTypeOK
<1>4. ASSUME NEW m \in Builders, buildPC'[m] = "install" PROVE "pinned" \in parts'[mount'[m]]
  <2>1. CASE m # b
    <3>1. buildPC[m] = "install" /\ mount'[m] = mount[m] /\ mount[m] \in Builders
      BY <1>4, <2>1, BuildFrame DEF BuildTypeOK, MountInv
    <3> QED
      BY <1>1, <1>2, <3>1, UndisturbedWrites DEF BuildTypeOK
  <2>2. CASE m = b
    <3>1. R!ExtractArchive(b)
      BY <1>1, <1>4, <2>2 DEF BuildTypeOK, R!BuildStep, R!CheckImage, R!HashArchive,
         R!TruncateImage, R!MakeFS, R!MountImage, R!NoteMount, R!InstallHoldout, R!EndBuild,
         R!UnmountImage, R!RemoveWorkdir, R!KeepImage, R!NextRound, R!At, R!To, R!Dies, R!Exits,
         R!Fails, R!Write
    <3>2. mount[b] \in Builders
      BY <3>1 DEF R!ExtractArchive, R!At, MountInv, BuildTypeOK
    <3> QED
      BY <1>1, <1>4, <2>2, <3>1, <3>2
         DEF BuildTypeOK, R!ExtractArchive, R!Write, R!Holds, R!Tree, R!To, R!Fails, R!Exits, R!Alone
  <2> QED
    BY <2>1, <2>2
<1>5. ASSUME path' # None, parts'[path'] # R!Complete
      PROVE  \E m \in Builders : Responsible(m)'
  <2>1. CASE path' # path
    BY <1>1, <1>5, <2>1 DEF BuildTypeOK, R!BuildStep, R!CheckImage, R!HashArchive,
         R!TruncateImage, R!MakeFS, R!MountImage, R!NoteMount, R!ExtractArchive, R!InstallHoldout,
         R!EndBuild, R!UnmountImage, R!RemoveWorkdir, R!KeepImage, R!At, R!To, R!Dies, R!Exits,
         R!Fails, R!Write, R!Alone, Responsible
  <2>2. CASE path' = path /\ R!MakeFS(b)
    BY <1>5, <2>2 DEF BuildTypeOK, R!MakeFS, R!Holds, R!To, R!Fails, R!Exits, R!Alone, Responsible
  <2>3. CASE path' = path /\ ~R!MakeFS(b)
    <3>1. path \in Builders /\ parts[path] # R!Complete
      <4>1. parts[path] = R!Complete => parts'[path] = R!Complete
        BY <1>1, <1>5, <2>3, UndisturbedWrites DEF BuildTypeOK, R!Complete
      <4> QED
        BY <1>5, <2>3, <4>1 DEF BuildTypeOK
    <3>2. PICK m \in Builders : Responsible(m)
      BY <1>2, <3>1, PartAssumption
    <3>3. "fs" \in parts[path] => "fs" \in parts'[path]
      BY <1>1, <2>3, <3>1, UndisturbedWrites DEF BuildTypeOK
    <3>4. CASE m # b
      BY <2>3, <3>2, <3>3, <3>4, BuildFrame DEF Responsible
    <3>5. CASE m = b
      <4> USE DEF BuildTypeOK, R!At, R!To, R!Dies, R!Exits, R!Fails, R!Alone, R!Holds, R!Write
      <4>1. ~R!InstallHoldout(b) \/ buildPC'[b] = "unmount"
        BY <1>1, <1>2, <1>5, <2>3, <3>1, <3>2, <3>5 DEF R!InstallHoldout, Responsible, R!Complete
      <4>2. CASE R!CheckImage(b) \/ R!HashArchive(b) \/ R!TruncateImage(b) \/ R!EndBuild(b)
        BY <3>2, <3>5, <4>2 DEF R!CheckImage, R!HashArchive, R!TruncateImage, R!EndBuild,
                                Responsible
      <4>3. CASE R!MountImage(b) \/ R!NoteMount(b)
        BY <2>3, <3>2, <3>3, <3>5, <4>3 DEF R!MountImage, R!NoteMount, Responsible
      <4>4. CASE R!ExtractArchive(b) \/ R!InstallHoldout(b)
        BY <2>3, <3>2, <3>3, <3>5, <4>1, <4>4 DEF R!ExtractArchive, R!InstallHoldout, Responsible
      <4>5. CASE R!UnmountImage(b) \/ R!RemoveWorkdir(b) \/ R!KeepImage(b)
        BY <1>5, <2>3, <3>2, <3>5, <4>5 DEF R!UnmountImage, R!RemoveWorkdir, R!KeepImage, Responsible
      <4> QED
        BY <1>1, <2>3, <4>2, <4>3, <4>4, <4>5 DEF R!BuildStep
    <3> QED
      BY <3>4, <3>5
  <2> QED
    BY <2>1, <2>2, <2>3, BuildFrame
<1> QED
  BY <1>3, <1>4, <1>5

LEMMA BuildInvNext == BuildInv /\ [R!BuildNext]_R!buildVars => BuildInv'
<1> SUFFICES ASSUME BuildInv, [R!BuildNext]_R!buildVars PROVE BuildInv'
  OBVIOUS
<1>1. CASE UNCHANGED R!buildVars
  BY <1>1 DEF R!buildVars, R!scriptVars, BuildInv, BuildTypeOK, MountInv, PinnedInv, ImageInv,
              Responsible, R!Undisturbed
<1>2. ASSUME NEW b \in Builders, BuilderUses(b) PROVE BuildInv'
  <2>1. BuildTypeOK'
    BY <1>2, BuildTypeNext DEF BuildInv
  <2> QED
    BY <1>2, <2>1, MountNext, OtherMountsNext, PinnedNext, ImageNext DEF BuildInv
<1>3. CASE R!ReplaceArchive
  BY <1>3 DEF R!ReplaceArchive, R!scriptVars, BuildInv, BuildTypeOK, MountInv, PinnedInv, ImageInv
<1> QED
  BY <1>1, <1>2, <1>3 DEF R!BuildNext, BuilderUses

LEMMA BuildInvHolds == R!BuildSpec => []BuildInv
BY BuildInvInit, BuildInvNext, PTL DEF R!BuildSpec

(* Any number of builders that meet on one path, with failing commands: an *)
(* image that rests there is complete and of the archive with the digest   *)
(* (build-rootfs.sh), unless a signal came, an umount failed or the archive*)
(* was replaced after it was hashed.                                       *)
THEOREM ImagesComplete == R!BuildSpec => []RestingImageComplete
<1>1. BuildInv => RestingImageComplete
  <2> SUFFICES ASSUME BuildInv, R!Resting, path # None, R!Undisturbed, archive # "replaced"
               PROVE  parts[path] = R!Complete
    BY DEF RestingImageComplete, R!RestingImageComplete
  <2>1. archive = "pinned"
    BY DEF BuildInv, BuildTypeOK, PinnedInv
  <2>2. \A b \in Builders : ~Responsible(b)
    BY DEF R!Resting, Responsible
  <2> QED
    BY <2>1, <2>2 DEF BuildInv, ImageInv
<1> QED
  BY <1>1, BuildInvHolds, PTL

(* A build that failed leaves no image of its making, and no mount unless  *)
(* the umount failed or a signal came before the mount was noted.          *)
THEOREM FailedBuildsLeaveNothing == R!BuildSpec => []FailureLeavesNothing
<1>1. BuildInv => FailureLeavesNothing
  BY DEF BuildInv, MountInv, FailureLeavesNothing, R!FailureLeavesNothing, R!At
<1> QED
  BY <1>1, BuildInvHolds, PTL

-----------------------------------------------------------------------------
(* guest-init.sh, holdout-guest.sh and environment.go.                     *)

Sealed == V!File(V!Whole, FALSE)
VMInv ==
  /\ at = "seal" => marker = V!File(V!Whole, marker.writable)
  /\ at \in {"network", "exec", "entry", "login", "flags", "lstat", "read", "gate"} =>
       marker = Sealed
  /\ at \in {"exec", "entry", "login", "flags", "lstat", "read", "gate"} =>
       (V!AddressGiven => net = "route")
  /\ at \in {"lstat", "read", "gate"} => (allow => settings.understand)
  /\ at = "gate" => outerVM

LEMMA VMInvInit == V!VMInit => VMInv
BY DEF V!VMInit, VMInv

LEMMA VMInvNext == VMInv /\ [V!VMNext]_V!vmVars => VMInv'
<1> SUFFICES ASSUME VMInv, [V!VMNext]_V!vmVars PROVE VMInv'
  OBVIOUS
<1> USE DEF VMInv, Sealed, V!File, V!Whole, V!AddressGiven, V!To, V!Refuse, V!RunsCommand
<1>1. CASE UNCHANGED V!vmVars
  BY <1>1 DEF V!vmVars
<1>2. CASE V!BootVM \/ V!PowerOff
  BY <1>2 DEF V!BootVM, V!PowerOff
<1>3. CASE V!CheckMarker \/ V!CreateMarker \/ V!FillMarker
  BY <1>3 DEF V!CheckMarker, V!CreateMarker, V!FillMarker
<1>4. CASE V!SealMarker
  <2>1. marker = V!File(V!Whole, marker.writable)
    BY <1>4 DEF V!SealMarker
  <2>2. marker' = [V!File(V!Whole, marker.writable) EXCEPT !.writable = FALSE]
    BY <1>4, <2>1, Zenon DEF V!SealMarker
  <2>3. marker' = Sealed
    BY <2>2
  <2> QED
    BY <1>4, <2>3 DEF V!SealMarker
<1>5. CASE V!SkipNetwork \/ V!ConfigureNetwork \/ V!ExecEntry
  BY <1>5 DEF V!SkipNetwork, V!ConfigureNetwork, V!ExecEntry
<1>6. CASE V!EntryRefuses \/ V!EntryRuns \/ V!OperatorRuns
  BY <1>6 DEF V!EntryRefuses, V!EntryRuns, V!OperatorRuns
<1>7. CASE V!ReadFlags
  <2>1. marker' = marker /\ net' = net /\ settings' = settings /\ allow' = allow
        /\ (at' = "stopped" \/ (at' = "lstat" /\ (allow => settings.understand)))
    BY <1>7 DEF V!ReadFlags
  <2> QED
    BY <1>7, <2>1 DEF V!ReadFlags
<1>8. CASE V!LstatMarker
  <2>1. marker.kind = "file" /\ ~marker.writable
    BY <1>8 DEF V!LstatMarker
  <2> QED
    BY <1>8, <2>1 DEF V!LstatMarker
<1>9. CASE V!ReadMarker
  <2>1. marker.content = "firecracker"
    BY <1>9 DEF V!ReadMarker
  <2> QED
    BY <1>9, <2>1 DEF V!ReadMarker
<1> QED
  BY <1>1, <1>2, <1>3, <1>4, <1>5, <1>6, <1>7, <1>8, <1>9
     DEF V!VMNext, V!GuestInit, V!DetectEnvironment

(* In any boot, after any number of boots that were cut short anywhere, a  *)
(* command that reaches the gate finds itself in the VM, has the network   *)
(* it was given an address for, and the consent for what it was allowed    *)
(* (guest-init.sh, holdout-guest.sh, environment.go).                      *)
THEOREM GuestRunsAttested == V!VMSpec => []RunsAreAttested
<1>1. VMInv => RunsAreAttested
  BY DEF VMInv, RunsAreAttested, V!RunsAreAttested
<1> QED
  BY <1>1, VMInvInit, VMInvNext, PTL DEF V!VMSpec
=============================================================================
