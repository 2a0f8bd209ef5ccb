------------------------------ MODULE OuterVM -------------------------------
(***************************************************************************)
(* The boots of one guest image: /sbin/holdout-init creates the marker and *)
(* configures eth0 (guest-init.sh), the guest's entry checks the marker and*)
(* assembles the arguments (holdout-guest.sh), and the command line reads  *)
(* the marker again (environment.go).  The root file system outlives a     *)
(* boot, and a boot may be cut short between any two steps.  The marker is *)
(* looked for where init puts it: that HOLDOUT_OUTER_VM_MARKER names no    *)
(* other file is assumed.                                                  *)
(***************************************************************************)
EXTENDS Naturals

CONSTANTS
  Images,    \* the images considered
  Settings,  \* the kernel arguments, and so the environment of init
  MaxBoots   \* bound: the boots of one image

VARIABLES
  image,     \* [entry, ip, complete: BOOLEAN]: what the builder and the archive put there
  settings,  \* [ip, allow, understand, proc, overrides: BOOLEAN]
  marker,    \* [kind, content, writable] of /run/holdout/outer-vm
  net,       \* of eth0: "down", "link", "address", "route"
  at,        \* where control is
  refused,   \* why it ended early
  allow,     \* --allow-dangerous was given
  outerVM,   \* the verdict of DetectEnvironment
  boots

vmVars == <<image, settings, marker, net, at, refused, allow, outerVM, boots>>

NoMarker == [kind |-> "absent", content |-> "empty", writable |-> FALSE]
File(content, writable) == [kind |-> "file", content |-> content, writable |-> writable]
Whole == "firecracker"      \* exactly these eleven characters and a newline
Foreign ==                  \* what an archive may hold at the marker's path
  {[NoMarker EXCEPT !.kind = "symlink"], [NoMarker EXCEPT !.kind = "directory"],
   File("other", TRUE), File(Whole, TRUE)}

VMInit ==
  /\ image \in Images /\ settings \in Settings
  /\ marker \in {NoMarker} \cup Foreign
  /\ net = "down" /\ at = "off" /\ refused = "no"
  /\ allow = FALSE /\ outerVM = FALSE /\ boots = 0

To(place) == at' = place /\ UNCHANGED <<image, settings, refused, allow, outerVM, boots>>
Refuse(reason) ==
  /\ at' = "stopped" /\ refused' = reason
  /\ UNCHANGED <<image, settings, marker, net, allow, outerVM, boots>>

-----------------------------------------------------------------------------
(* guest-init.sh, which "set -e" ends at the first command that fails. *)

BootVM ==
  /\ at = "off" /\ boots < MaxBoots
  /\ boots' = boots + 1 /\ at' = "init"
  /\ UNCHANGED <<image, settings, marker, net, refused, allow, outerVM>>

CheckMarker ==
  /\ at = "init"
  /\ \/ marker.kind = "absent" /\ To("create") /\ UNCHANGED <<marker, net>>
     \/ marker.kind # "absent" /\ marker # File(Whole, marker.writable) /\ Refuse("marker")
     \/ marker = File(Whole, marker.writable) /\ To("seal") /\ UNCHANGED <<marker, net>>

(* The shell creates the file, and printf fills it. *)
CreateMarker == at = "create" /\ marker' = File("empty", TRUE) /\ To("fill") /\ UNCHANGED net
FillMarker ==
  /\ at = "fill"
  /\ \/ marker' = File(Whole, TRUE) /\ To("seal") /\ UNCHANGED net
     \/ Refuse("marker")

(* Mistake: a marker that was there is left as it is. *)
SealFirstMarker ==
  /\ at = "seal"
  /\ \/ boots = 1 /\ marker' = [marker EXCEPT !.writable = FALSE]
     \/ boots > 1 /\ UNCHANGED marker
  /\ To("network") /\ UNCHANGED net

SealMarker ==
  /\ at = "seal" /\ marker' = [marker EXCEPT !.writable = FALSE]
  /\ To("network") /\ UNCHANGED net

(* The loop over $(cat /proc/cmdline) is empty when cat fails. *)
AddressGiven == settings.ip /\ settings.proc
SkipNetwork == at = "network" /\ ~AddressGiven /\ To("exec") /\ UNCHANGED <<marker, net>>

(* link, address, route: each may fail. *)
ConfigureNetwork ==
  /\ at = "network" /\ AddressGiven
  /\ \/ /\ image.ip /\ net # "route"
        /\ net' = CASE net = "down" -> "link" [] net = "link" -> "address" [] OTHER -> "route"
        /\ To("network") /\ UNCHANGED marker
     \/ net # "route" /\ Refuse("network")
     \/ net = "route" /\ To("exec") /\ UNCHANGED <<marker, net>>

ExecEntry ==
  /\ at = "exec" /\ UNCHANGED <<marker, net>>
  /\ To(IF image.entry THEN "entry" ELSE "login")

GuestInit ==
  \/ CheckMarker \/ CreateMarker \/ FillMarker \/ SealMarker
  \/ SkipNetwork \/ ConfigureNetwork \/ ExecEntry

-----------------------------------------------------------------------------
(* holdout-guest.sh.  "test -w" says yes to a process that overrides file  *)
(* permissions (CAP_DAC_OVERRIDE), as root does unless it was dropped.     *)
TestW == marker.writable \/ settings.overrides

EntryRefuses ==
  /\ at = "entry"
  /\ \/ marker.kind # "file" /\ Refuse("missing")
     \/ marker.kind = "file" /\ TestW /\ Refuse("writable")
     \/ ~TestW /\ marker # File(Whole, FALSE) /\ Refuse("invalid")
     \/ marker = File(Whole, FALSE) /\ ~TestW /\ ~image.complete /\ Refuse("incomplete")
     \/ /\ marker = File(Whole, FALSE) /\ ~TestW /\ image.complete
        /\ settings.allow /\ ~settings.understand /\ Refuse("not understood")

RunsCommand(given) ==
  /\ at' = "flags" /\ allow' = given
  /\ UNCHANGED <<image, settings, marker, net, refused, outerVM, boots>>

EntryRuns ==
  /\ at = "entry" /\ marker = File(Whole, FALSE) /\ ~TestW /\ image.complete
  /\ settings.allow => settings.understand
  /\ RunsCommand(settings.allow)

(* Without an entry /sbin/init runs and an operator starts the command. *)
OperatorRuns == at = "login" /\ image.complete /\ \E given \in BOOLEAN : RunsCommand(given)

-----------------------------------------------------------------------------
(* cmd/holdout: the flags of run, then runner.DetectEnvironment. *)

ReadFlags ==
  /\ at = "flags"
  /\ \/ (allow => settings.understand) /\ To("lstat") /\ UNCHANGED <<marker, net>>
     \/ allow /\ ~settings.understand /\ Refuse("not understood")

LstatMarker ==
  /\ at = "lstat" /\ UNCHANGED <<marker, net>>
  /\ To(IF marker.kind = "file" /\ ~marker.writable THEN "read" ELSE "gate")

ReadMarker ==
  /\ at = "read" /\ at' = "gate" /\ outerVM' = (marker.content = Whole)
  /\ UNCHANGED <<image, settings, marker, net, refused, allow, boots>>

DetectEnvironment == ReadFlags \/ LstatMarker \/ ReadMarker

-----------------------------------------------------------------------------
(* The VM ends, in the middle of anything; the image keeps its files. *)
PowerOff ==
  /\ at # "off" /\ at' = "off" /\ net' = "down" /\ refused' = "no"
  /\ allow' = FALSE /\ outerVM' = FALSE
  /\ UNCHANGED <<image, settings, marker, boots>>

VMNext == BootVM \/ GuestInit \/ EntryRefuses \/ EntryRuns \/ OperatorRuns
            \/ DetectEnvironment \/ PowerOff
VMSpec == VMInit /\ [][VMNext]_vmVars

-----------------------------------------------------------------------------
(* A command that is started in the VM, by the entry or by an operator,    *)
(* in the first boot or after boots that were cut short anywhere, finds    *)
(* itself in the VM; it has its network, if it was given an address; and it*)
(* has the operator's consent for dangerous tasks.                         *)
RunsAreAttested ==
  at = "gate" =>
    /\ outerVM
    /\ AddressGiven => net = "route"
    /\ allow => settings.understand

-----------------------------------------------------------------------------
(* launch.sh lines 4-6: the guest init creates the marker only after the   *)
(* network is ready.                                                       *)
MarkerAfterNetwork ==
  (AddressGiven /\ boots = 1 /\ marker = File(Whole, FALSE)) => net = "route"

(* runner/README.md: init configures eth0 before starting the runner.      *)
NetworkConfigured == (settings.ip /\ at = "gate") => net = "route"

(* holdout-guest.sh lines 14 and 4: the entry refuses a marker for being   *)
(* writable only when it has write permissions; init has sealed it before. *)
SealedMarkerAccepted == refused = "writable" => marker.writable
=============================================================================
