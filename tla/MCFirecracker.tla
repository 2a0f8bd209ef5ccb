--------------------------- MODULE MCFirecracker ----------------------------
(***************************************************************************)
(* The scripts of runner/firecracker: two launchers that want one TAP, two *)
(* builders of one image, and three boots of every image under every       *)
(* setting.  The three share no state the properties are about; the first  *)
(* state chooses the one that moves.                                       *)
(***************************************************************************)
EXTENDS Launcher

CONSTANTS
  Builders, None,                                     \* as in RootfsBuild
  Images, Settings, MaxBoots,                         \* as in OuterVM
  Parts                                               \* the parts considered

VARIABLES
  buildPC, mounted, status, buildSignalled, buildRounds, mount, stuck, path, parts, archive,
  image, settings, marker, net, at, refused, allow, outerVM, boots,
  part

R == INSTANCE RootfsBuild
       WITH pc <- buildPC, signalled <- buildSignalled, rounds <- buildRounds
V == INSTANCE OuterVM

ASSUME PartAssumption == None \notin Builders /\ MaxBoots \in Nat

MCImages == [entry: BOOLEAN, ip: BOOLEAN, complete: BOOLEAN]
MCSettings ==
  [ip: BOOLEAN, allow: BOOLEAN, understand: BOOLEAN, proc: BOOLEAN, overrides: BOOLEAN]

(* An image of the builder, started by the launcher. *)
BuiltImage == {[entry |-> TRUE, ip |-> TRUE, complete |-> TRUE]}
PlainSettings ==
  {[ip |-> TRUE, allow |-> FALSE, understand |-> FALSE, proc |-> TRUE, overrides |-> TRUE]}

buildVars == <<buildPC, mounted, status, buildSignalled, buildRounds, mount, stuck, path, parts, archive>>
vmVars == <<image, settings, marker, net, at, refused, allow, outerVM, boots>>
partVars == <<part, launchVars, buildVars, vmVars>>

MCInit ==
  /\ part \in Parts
  /\ LaunchInit /\ R!BuildInit /\ V!VMInit
  /\ part # "rootfs" => archive = "pinned"
  /\ part # "guest" => /\ image = (CHOOSE i \in Images : TRUE)
                       /\ settings = (CHOOSE s \in Settings : TRUE)
                       /\ marker = V!NoMarker

Moves(which) == part = which /\ UNCHANGED part
LauncherMoves(l) == Moves("launcher") /\ LaunchStep(l) /\ UNCHANGED <<buildVars, vmVars>>
HostMoves(l) ==
  Moves("launcher") /\ (Signal(l) \/ VMEnds(l)) /\ UNCHANGED <<buildVars, vmVars>>
BuilderMoves == Moves("rootfs") /\ R!BuildNext /\ UNCHANGED <<launchVars, vmVars>>
GuestMoves == Moves("guest") /\ V!VMNext /\ UNCHANGED <<launchVars, buildVars>>

MCNext == (\E l \in Launchers : LauncherMoves(l) \/ HostMoves(l)) \/ BuilderMoves \/ GuestMoves
MCSpec == /\ MCInit /\ [][MCNext]_partVars
          /\ \A l \in Launchers : WF_partVars(LauncherMoves(l))   \* as in LaunchFairSpec

-----------------------------------------------------------------------------
(* No image that is not complete rests at the path (build-rootfs.sh). *)
RestingImageComplete == R!RestingImageComplete
(* A failed build leaves neither image nor mount (build-rootfs.sh, cleanup). *)
FailureLeavesNothing == R!FailureLeavesNothing
(* A run in the VM has its marker, network and consent (guest-init.sh). *)
RunsAreAttested == V!RunsAreAttested

(* holdout-guest.sh lines 4 and 14: the entry refuses a marker for being   *)
(* writable only when it has write permissions.                            *)
SealedMarkerAccepted == V!SealedMarkerAccepted
=============================================================================
