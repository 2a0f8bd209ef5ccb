------------------------------ MODULE Launcher ------------------------------
(***************************************************************************)
(* runner/firecracker/launch.sh: launchers on one host, which share the    *)
(* names HOLDOUT_TAP and HOLDOUT_BRIDGE; Firecracker processes that end    *)
(* when they like; and signals.  Bash runs a trap between two commands, so *)
(* a signal is an action between two steps.  The trap of a signal ends in  *)
(* "exit", which runs the same cleanup once more as the trap of EXIT.      *)
(* Commands of the script may fail; those of the cleanup, whose failures it*)
(* ignores, are taken to succeed, and a command that a signal meets to end,*)
(* as Bash waits for it before it runs the trap.                           *)
(***************************************************************************)
EXTENDS Naturals, FiniteSets

CONSTANT Launchers

VARIABLES
  pc,          \* where each launcher is
  tap_created, \* the script's variables
  fc_pid,      \* whether the pid of Firecracker is known
  signalled,   \* whether INT or TERM has come (at most once: a bound)
  rounds,      \* how often the cleanup is still to run
  vm,          \* the Firecracker of each: "none", "api", "guest", "ended"
  workdir,     \* whether /run/holdout-firecracker.XXXXXX is there
  tap          \* the launcher that made the TAP there is, if any

scriptVars == <<pc, tap_created, fc_pid, signalled, rounds>>
hostVars == <<vm, workdir, tap>>
launchVars == <<scriptVars, hostVars>>

Nobody == "nobody"
ASSUME LauncherAssumption == Nobody \notin Launchers

LaunchInit ==
  /\ pc = [l \in Launchers |-> "start"] /\ tap = Nobody
  /\ tap_created = [l \in Launchers |-> FALSE] /\ fc_pid = [l \in Launchers |-> FALSE]
  /\ signalled = [l \in Launchers |-> FALSE] /\ rounds = [l \in Launchers |-> 0]
  /\ vm = [l \in Launchers |-> "none"] /\ workdir = [l \in Launchers |-> FALSE]

At(l, place) == pc[l] = place
To(l, place) == pc' = [pc EXCEPT ![l] = place]
Keeps == UNCHANGED <<tap_created, fc_pid, signalled, rounds>>

(* die, or a command that "set -e" does not forgive: the trap of EXIT runs.*)
Exits(l) ==
  /\ To(l, "killVM") /\ rounds' = [rounds EXCEPT ![l] = 1]
  /\ UNCHANGED <<tap_created, fc_pid, signalled>>
ExitsAlone(l) == Exits(l) /\ UNCHANGED hostVars

-----------------------------------------------------------------------------
(* The checks of lines 84-110 end a launcher that has done nothing. *)
MakeWorkdir(l) ==
  /\ At(l, "start") /\ Keeps
  /\ \/ To(l, "check") /\ workdir' = [workdir EXCEPT ![l] = TRUE] /\ UNCHANGED <<vm, tap>>
     \/ To(l, "done") /\ UNCHANGED hostVars

CheckTap(l) ==
  /\ At(l, "check")
  /\ \/ tap = Nobody /\ To(l, "add") /\ Keeps /\ UNCHANGED hostVars
     \/ ExitsAlone(l)                   \* the TAP exists, or the bridge does not

(* Mistake: the variable is set before the device is made. *)
NoteTapFirst(l) ==
  /\ At(l, "add") /\ tap_created' = [tap_created EXCEPT ![l] = TRUE]
  /\ \/ /\ tap = Nobody /\ tap' = l
        /\ To(l, "up") /\ UNCHANGED <<fc_pid, signalled, rounds, vm, workdir>>
     \/ /\ To(l, "killVM") /\ rounds' = [rounds EXCEPT ![l] = 1]
        /\ UNCHANGED <<fc_pid, signalled, hostVars>>

AddTap(l) ==
  /\ At(l, "add")
  /\ \/ /\ tap = Nobody /\ tap' = l     \* exclusive, whatever was seen before
        /\ To(l, "note") /\ Keeps /\ UNCHANGED <<vm, workdir>>
     \/ ExitsAlone(l)

NoteTap(l) ==
  /\ At(l, "note") /\ tap_created' = [tap_created EXCEPT ![l] = TRUE] /\ To(l, "up")
  /\ UNCHANGED <<fc_pid, signalled, rounds, hostVars>>

TapUp(l) ==
  /\ At(l, "up")
  /\ \/ tap # Nobody /\ To(l, "spawn") /\ Keeps /\ UNCHANGED hostVars
     \/ ExitsAlone(l)

SpawnVM(l) ==
  /\ At(l, "spawn") /\ vm' = [vm EXCEPT ![l] = "api"] /\ To(l, "pid")
  /\ Keeps /\ UNCHANGED <<workdir, tap>>

(* Mistake: the pid is kept once the API socket is there. *)
NotePidLate(l) ==
  /\ At(l, "pid") /\ To(l, "socket") /\ UNCHANGED <<tap_created, signalled, rounds, hostVars>>
  /\ \/ fc_pid' = [fc_pid EXCEPT ![l] = TRUE] /\ vm[l] = "api"
     \/ UNCHANGED fc_pid

NotePid(l) ==
  /\ At(l, "pid") /\ fc_pid' = [fc_pid EXCEPT ![l] = TRUE] /\ To(l, "socket")
  /\ UNCHANGED <<tap_created, signalled, rounds, hostVars>>

(* The wait for the API socket, the requests to the API and InstanceStart. *)
StartGuest(l) ==
  /\ At(l, "socket")
  /\ \/ /\ vm[l] = "api" /\ vm' = [vm EXCEPT ![l] = "guest"]
        /\ To(l, "wait") /\ Keeps /\ UNCHANGED <<workdir, tap>>
     \/ ExitsAlone(l)

WaitVM(l) == At(l, "wait") /\ vm[l] = "ended" /\ ExitsAlone(l)

-----------------------------------------------------------------------------
(* cleanup() *)

(* Mistake: a guest that was not killed is waited for. *)
KillVMInVain(l) ==
  /\ At(l, "killVM") /\ (fc_pid[l] => vm[l] = "ended")
  /\ To(l, "deleteTap") /\ Keeps /\ UNCHANGED hostVars

KillVM(l) ==
  /\ At(l, "killVM") /\ To(l, "deleteTap") /\ Keeps /\ UNCHANGED <<workdir, tap>>
  /\ vm' = IF fc_pid[l] /\ vm[l] # "none" THEN [vm EXCEPT ![l] = "ended"] ELSE vm

(* "ip link delete" goes by name, and the variable is not reset.  A delete *)
(* that fails, which the script passes over, is left out.                  *)
DeleteTap(l) ==
  /\ At(l, "deleteTap") /\ To(l, "remove") /\ Keeps /\ UNCHANGED <<vm, workdir>>
  /\ tap' = IF tap_created[l] THEN Nobody ELSE tap

RemoveWorkdir(l) ==
  /\ At(l, "remove") /\ workdir' = [workdir EXCEPT ![l] = FALSE]
  /\ rounds' = [rounds EXCEPT ![l] = rounds[l] - 1]
  /\ To(l, IF rounds[l] > 1 THEN "killVM" ELSE "done")
  /\ UNCHANGED <<tap_created, fc_pid, signalled, vm, tap>>

CleanUp(l) == KillVM(l) \/ DeleteTap(l) \/ RemoveWorkdir(l)

LaunchStep(l) ==
  \/ MakeWorkdir(l) \/ CheckTap(l) \/ AddTap(l) \/ NoteTap(l) \/ TapUp(l)
  \/ SpawnVM(l) \/ NotePid(l) \/ StartGuest(l) \/ WaitVM(l)
  \/ CleanUp(l)

(* INT or TERM, once the trap is set; in the cleanup it starts it anew.    *)
Signal(l) ==
  /\ ~signalled[l] /\ pc[l] \notin {"start", "done"}
  /\ signalled' = [signalled EXCEPT ![l] = TRUE]
  /\ To(l, "killVM")
  /\ rounds' = [rounds EXCEPT ![l] = IF rounds[l] > 0 THEN rounds[l] ELSE 2]
  /\ UNCHANGED <<tap_created, fc_pid, hostVars>>

(* The guest shuts down, or Firecracker fails. *)
VMEnds(l) ==
  /\ vm[l] \in {"api", "guest"} /\ vm' = [vm EXCEPT ![l] = "ended"]
  /\ UNCHANGED <<scriptVars, workdir, tap>>

LaunchNext == \E l \in Launchers : LaunchStep(l) \/ Signal(l) \/ VMEnds(l)

LaunchSpec == LaunchInit /\ [][LaunchNext]_launchVars
(* A launcher goes on whenever it can; a guest runs as long as it likes. *)
LaunchFairSpec == LaunchSpec /\ \A l \in Launchers : WF_launchVars(LaunchStep(l))

-----------------------------------------------------------------------------
Left(l) == tap = l \/ vm[l] \in {"api", "guest"} \/ workdir[l]

(* A launcher leaves nothing, on whichever line it ended and whatever other*)
(* launchers did, if no signal met it, or one that found both variables    *)
(* set, as they are while it waits for its VM.                             *)
LauncherCleansUp ==
  \A l \in Launchers :
    (At(l, "done") /\ (signalled[l] => tap_created[l] /\ fc_pid[l])) => ~Left(l)

(* The loser of the race for the name never takes the winner's device: one *)
(* launcher deletes another's only after a signal somewhere, whose second  *)
(* cleanup deletes by name what may have been made anew.                   *)
LoserKeepsOthersTap ==
  [][\A l, m \in Launchers :
       (l # m /\ tap = l /\ tap' # l /\ pc'[m] # pc[m]) =>
         \E k \in Launchers \ {l} : signalled[k]]_launchVars

(* A launcher that was told to stop, or whose VM has ended, ends, as far as*)
(* its commands do: launch.sh gives curl no time limit.                    *)
ToldLauncherEnds ==
  \A l \in Launchers : (signalled[l] \/ (At(l, "wait") /\ vm[l] = "ended")) ~> At(l, "done")

-----------------------------------------------------------------------------
(* runner/README.md: the launcher cleans up the process and TAP device on  *)
(* exit.                                                                   *)
LauncherLeavesNothing == \A l \in Launchers : At(l, "done") => ~Left(l)

(* runner/README.md: it creates a private TAP device, which is then there  *)
(* while its guest runs.                                                   *)
GuestKeepsItsTap ==
  \A l \in Launchers : (At(l, "wait") /\ vm[l] = "guest") => tap = l
=============================================================================
