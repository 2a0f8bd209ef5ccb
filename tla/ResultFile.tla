----------------------------- MODULE ResultFile -----------------------------
(***************************************************************************)
(* runner.Write (internal/runner/runner.go): the result is written to a    *)
(* temporary file in the target's directory, synced, closed, and renamed   *)
(* over the target.  Any of the calls may fail, the process may be killed  *)
(* between any two of them, and the machine may lose power: a file whose   *)
(* data is not synced then keeps any part of it, and the rename, as the    *)
(* directory is not synced, may be undone.                                 *)
(*                                                                         *)
(* A file is its contents and whether they are on the disk; "part" stands  *)
(* for every incomplete result.                                            *)
(***************************************************************************)
VARIABLES
  writer,    \* where Write is: "ready", a step, "removing", "done", "dead"
  writeErr,  \* the error Write is about to return, or has returned
  tmp,       \* the temporary file
  target,    \* the file at the output path
  before     \* the file that was there when the program started

fileVars == <<writer, writeErr, tmp, target, before>>

Files == [data: {"old", "part", "result"}, synced: BOOLEAN]
NoFile == [data |-> "none", synced |-> TRUE]

FileTypeOK ==
  /\ writer \in {"ready", "write", "sync", "close", "rename", "removing", "done", "dead"}
  /\ writeErr \in BOOLEAN
  /\ {tmp, target, before} \subseteq Files \cup {NoFile}

FileInit ==
  /\ writer = "ready" /\ writeErr = FALSE /\ tmp = NoFile
  /\ before \in {NoFile, [data |-> "old", synced |-> TRUE]} /\ target = before

(* A step of Write that goes wrong: the deferred Remove, then the return.  *)
Fails == writer' = "removing" /\ writeErr' = TRUE
Proceeds(step) == writer' = step /\ UNCHANGED writeErr

CreateTemp ==
  /\ writer = "ready"
  /\ \/ tmp' = [data |-> "part", synced |-> FALSE] /\ Proceeds("write")
     \/ writer' = "done" /\ writeErr' = TRUE /\ UNCHANGED tmp
  /\ UNCHANGED target

WriteData ==
  /\ writer = "write"
  /\ \/ tmp' = [data |-> "result", synced |-> FALSE] /\ Proceeds("sync")
     \/ UNCHANGED tmp /\ Fails
  /\ UNCHANGED target

(* Mistake: the file is not synced. *)
SyncTempSkipped ==
  /\ writer = "sync"
  /\ Proceeds("close")
  /\ UNCHANGED <<tmp, target>>

SyncTemp ==
  /\ writer = "sync"
  /\ \/ tmp' = [tmp EXCEPT !.synced = TRUE] /\ Proceeds("close")
     \/ UNCHANGED tmp /\ Fails
  /\ UNCHANGED target

CloseTemp ==
  /\ writer = "close"
  /\ Proceeds("rename") \/ Fails
  /\ UNCHANGED <<tmp, target>>

RenameTemp ==
  /\ writer = "rename"
  /\ \/ target' = tmp /\ tmp' = NoFile /\ Proceeds("removing")
     \/ UNCHANGED <<tmp, target>> /\ Fails

(* After the rename there is nothing left to remove. *)
RemoveTemp ==
  /\ writer = "removing"
  /\ writer' = "done" /\ tmp' = NoFile
  /\ UNCHANGED <<writeErr, target>>

WriteStep ==
  /\ CreateTemp \/ WriteData \/ SyncTemp \/ CloseTemp \/ RenameTemp \/ RemoveTemp
  /\ UNCHANGED before

(* What a power failure leaves of a file. *)
AfterPowerLoss(file) ==
  {file} \cup (IF file.synced THEN {} ELSE {[data |-> "part", synced |-> TRUE]})

Killed ==
  /\ writer # "dead" /\ writer' = "dead"
  /\ UNCHANGED <<writeErr, tmp, target, before>>

PowerLoss ==
  /\ writer # "dead"
  /\ writer' = "dead"
  /\ \/ tmp' \in AfterPowerLoss(tmp) /\ target' \in AfterPowerLoss(target)
     \/ target # before /\ tmp' \in AfterPowerLoss(target) /\ target' = before
  /\ UNCHANGED <<writeErr, before>>

-----------------------------------------------------------------------------
(* The output path holds a whole result or what it held before, whenever   *)
(* the writing stops: the data is on the disk before the rename.           *)
TargetNeverPartial == target.data # "part"

(* Write returns nil only with the result in place. *)
WrittenMeansInPlace ==
  (writer = "done" /\ ~writeErr) => target.data = "result" /\ target.synced
=============================================================================
