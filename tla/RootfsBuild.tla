---------------------------- MODULE RootfsBuild ----------------------------
(***************************************************************************)
(* runner/firecracker/build-rootfs.sh: builders of the image at one path,  *)
(* their loop mounts, the archive an operator supplies, and signals.  As in*)
(* Launcher, a trap runs between two commands, and that of a signal runs   *)
(* the cleanup twice, with the status of the command that ran last.        *)
(***************************************************************************)
EXTENDS Naturals, FiniteSets

CONSTANTS Builders, None

VARIABLES
  pc,        \* where each builder is
  mounted,   \* the script's variable
  status,    \* the exit status it will have: "none", "ok", "failed"
  signalled, \* whether INT or TERM has come (at most once: a bound)
  rounds,    \* how often the cleanup is still to run
  mount,     \* the image each has mounted; an image is named for who made it
  stuck,     \* whether an umount has failed
  path,      \* the image at HOLDOUT_ROOTFS_IMAGE
  parts,     \* what each image holds: parts of Complete, "other"
  archive    \* what HOLDOUT_ROOTFS_SOURCE holds: "pinned", "replaced", "other"

scriptVars == <<pc, mounted, status, signalled, rounds>>
buildVars == <<scriptVars, mount, stuck, path, parts, archive>>

(* An image holds a file system ("fs"), the tree of the archive, which is  *)
(* the one with the digest or not, and what the script installs.           *)
Complete == {"fs", "pinned", "holdout"}
Tree == IF archive = "pinned" THEN "pinned" ELSE "other"

BuildInit ==
  /\ pc = [b \in Builders |-> "check"] /\ mounted = [b \in Builders |-> FALSE]
  /\ status = [b \in Builders |-> "none"] /\ signalled = [b \in Builders |-> FALSE]
  /\ rounds = [b \in Builders |-> 0] /\ mount = [b \in Builders |-> None]
  /\ stuck = [b \in Builders |-> FALSE] /\ path = None
  /\ parts = [b \in Builders |-> {}] /\ archive \in {"pinned", "other"}

At(b, place) == pc[b] = place
To(b, place) == pc' = [pc EXCEPT ![b] = place] /\ UNCHANGED <<mounted, status, signalled, rounds>>
Alone == UNCHANGED <<mount, stuck, path, parts, archive>>
Holds(i, what) == parts' = [parts EXCEPT ![i] = what]

(* The trap is set: a command that fails, or the end, runs the cleanup.    *)
Exits(b, how) ==
  /\ pc' = [pc EXCEPT ![b] = "unmount"] /\ status' = [status EXCEPT ![b] = how]
  /\ rounds' = [rounds EXCEPT ![b] = 1] /\ UNCHANGED <<mounted, signalled>>
Fails(b) == Exits(b, "failed") /\ Alone

-----------------------------------------------------------------------------
(* Before the trap is set; a builder that ends here has made nothing.      *)
Dies(b) ==
  /\ pc' = [pc EXCEPT ![b] = "done"] /\ status' = [status EXCEPT ![b] = "failed"]
  /\ UNCHANGED <<mounted, signalled, rounds>>

CheckImage(b) ==
  /\ At(b, "check") /\ Alone
  /\ \/ path = None /\ To(b, "hash")
     \/ path # None /\ Dies(b)

HashArchive(b) ==
  /\ At(b, "hash") /\ Alone
  /\ \/ archive = "pinned" /\ To(b, "truncate")
     \/ archive # "pinned" /\ Dies(b)

-----------------------------------------------------------------------------
(* truncate makes the file or opens the one there is. *)
TruncateImage(b) ==
  /\ At(b, "truncate")
  /\ \/ /\ path' = IF path = None THEN b ELSE path
        /\ To(b, "mkfs") /\ UNCHANGED <<mount, stuck, parts, archive>>
     \/ Fails(b)

(* mkfs -F asks nothing, but refuses an image that is mounted.             *)
MakeFS(b) ==
  /\ At(b, "mkfs")
  /\ \/ /\ path # None /\ \A m \in Builders : mount[m] # path
        /\ Holds(path, {"fs"}) /\ To(b, "mount") /\ UNCHANGED <<mount, stuck, path, archive>>
     \/ Fails(b)

(* A second mount of one image is the same file system once more.          *)
MountImage(b) ==
  /\ At(b, "mount")
  /\ \/ /\ path # None /\ mount' = [mount EXCEPT ![b] = path] /\ To(b, "note")
        /\ UNCHANGED <<stuck, path, parts, archive>>
     \/ Fails(b)

NoteMount(b) ==
  /\ At(b, "note") /\ mounted' = [mounted EXCEPT ![b] = TRUE]
  /\ pc' = [pc EXCEPT ![b] = "extract"] /\ UNCHANGED <<status, signalled, rounds>> /\ Alone

(* tar, then install, mkdir, cp and printf: all that is written to the     *)
(* image; a command that fails has written some of it or none.             *)
Write(b, what, next) ==
  \/ /\ Holds(mount[b], parts[mount[b]] \cup {what})
     /\ To(b, next) /\ UNCHANGED <<mount, stuck, path, archive>>
  \/ Fails(b)

ExtractArchive(b) == At(b, "extract") /\ Write(b, Tree, "install")
(* Mistake: a copy that fails is passed over. *)
InstallLoosely(b) == At(b, "install") /\ Alone /\ To(b, "end")

InstallHoldout(b) == At(b, "install") /\ Write(b, "holdout", "end")
EndBuild(b) == At(b, "end") /\ Exits(b, "ok") /\ Alone

-----------------------------------------------------------------------------
(* cleanup() *)

UnmountImage(b) ==
  /\ At(b, "unmount") /\ To(b, "remove") /\ UNCHANGED <<path, parts, archive>>
  /\ \/ mounted[b] /\ mount' = [mount EXCEPT ![b] = None] /\ UNCHANGED stuck
     \/ /\ mounted[b] /\ mount[b] # None
        /\ stuck' = [stuck EXCEPT ![b] = TRUE] /\ UNCHANGED mount
     \/ ~mounted[b] /\ UNCHANGED <<mount, stuck>>

(* rm -rf of the work directory goes into an image still mounted on it.    *)
RemoveWorkdir(b) ==
  /\ At(b, "remove") /\ To(b, "keep") /\ UNCHANGED <<mount, stuck, path, archive>>
  /\ IF mount[b] = None THEN UNCHANGED parts
     ELSE Holds(mount[b], parts[mount[b]] \cap {"fs"})

NextRound(b) ==
  /\ rounds' = [rounds EXCEPT ![b] = rounds[b] - 1]
  /\ pc' = [pc EXCEPT ![b] = IF rounds[b] > 1 THEN "unmount" ELSE "done"]
  /\ UNCHANGED <<mounted, status, signalled, mount, stuck, parts, archive>>

(* Mistake: the image of a build that failed is kept. *)
KeepImageAlways(b) == At(b, "keep") /\ NextRound(b) /\ UNCHANGED path

KeepImage(b) ==
  /\ At(b, "keep") /\ NextRound(b)
  /\ path' = IF status[b] = "ok" THEN path ELSE None

BuildStep(b) ==
  \/ CheckImage(b) \/ HashArchive(b) \/ TruncateImage(b) \/ MakeFS(b) \/ MountImage(b)
  \/ NoteMount(b) \/ ExtractArchive(b) \/ InstallHoldout(b) \/ EndBuild(b)
  \/ UnmountImage(b) \/ RemoveWorkdir(b) \/ KeepImage(b)

(* The command that was running has succeeded, or died of the signal too.  *)
(* In the cleanup the signal starts it anew, and its status with it.       *)
Signal(b) ==
  /\ ~signalled[b] /\ pc[b] \notin {"check", "hash", "done"}
  /\ signalled' = [signalled EXCEPT ![b] = TRUE]
  /\ pc' = [pc EXCEPT ![b] = "unmount"] /\ rounds' = [rounds EXCEPT ![b] = IF rounds[b] > 0 THEN rounds[b] ELSE 2]
  /\ \E how \in {"ok", "failed"} : status' = [status EXCEPT ![b] = how]
  /\ UNCHANGED mounted /\ Alone

(* The operator puts another archive in the place of the pinned one. *)
ReplaceArchive ==
  /\ archive = "pinned" /\ archive' = "replaced"
  /\ UNCHANGED <<scriptVars, mount, stuck, path, parts>>

BuildNext == (\E b \in Builders : BuildStep(b) \/ Signal(b)) \/ ReplaceArchive

BuildSpec == BuildInit /\ [][BuildNext]_buildVars

-----------------------------------------------------------------------------
Succeeded(b) == At(b, "done") /\ status[b] = "ok"
Resting == \A b \in Builders : pc[b] \in {"check", "done"}
Undisturbed == \A b \in Builders : ~signalled[b] /\ ~stuck[b]

(* Once no builder is at work, an image at the path is complete and of the *)
(* archive with the digest, also when builders met on the path, unless a   *)
(* signal came, an umount failed, or the archive was replaced in between.  *)
RestingImageComplete ==
  (Resting /\ path # None /\ Undisturbed) =>
    parts[path] = Complete \/ archive = "replaced"

(* A failed build leaves no image of its making, and no mount unless the   *)
(* umount failed or a signal came before the mount was noted.              *)
FailureLeavesNothing ==
  \A b \in Builders :
    (At(b, "done") /\ status[b] = "failed") =>
      path # b /\ (mount[b] = None \/ stuck[b] \/ (signalled[b] /\ ~mounted[b]))

-----------------------------------------------------------------------------
(* Lines 72-76 keep an image with status 0; runner/README.md says what the *)
(* build adds to it.                                                       *)
SuccessIsComplete ==
  \A b \in Builders : (Succeeded(b) /\ path # None) => "holdout" \in parts[path]

(* MVP_STATUS.md line 16, runner/README.md: the script does not overwrite  *)
(* an existing image.                                                      *)
ImageNotOverwritten ==
  [][\A b \in Builders :
       (Succeeded(b) /\ Undisturbed /\ path = b /\ parts[b] = Complete)
         => path' = b /\ parts'[b] = Complete]_buildVars

(* The head of the script: an image is built from a hash-verified archive. *)
VerifiedArchiveExtracted == \A b \in Builders : "other" \notin parts[b]
=============================================================================
