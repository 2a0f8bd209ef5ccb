---------------------------- MODULE CatalogEdits ----------------------------
(***************************************************************************)
(* A developer edits a catalog that is accepted, line by line: lines are   *)
(* inserted, repeated and deleted anywhere.  What Load and Validate make   *)
(* of the file is compared with what its blocks of lines say.              *)
(***************************************************************************)
EXTENDS Catalog

CONSTANTS
  OriginalFile,   \* the lines of the catalog to begin with
  NewLines,   \* the lines a developer may insert
  Files,      \* the task directories and their digests
  MaxLineEdits    \* bound: the edits

(* A sequence of lines; an id is a sequence of characters. *)
IsFile(lines) ==
  /\ Len(lines) \in Nat /\ lines = [i \in 1..Len(lines) |-> lines[i]]
  /\ \A i \in DOMAIN lines : lines[i].kind = "id" => lines[i].value \in Seq(STRING)

ASSUME LinesAssumption == IsFile(OriginalFile) /\ IsFile(NewLines)

VARIABLES file, lineEdits
editVars == <<file, lineEdits>>

EditInit == file = OriginalFile /\ lineEdits = 0

Insert == \E i \in 1..(Len(file) + 1), n \in DOMAIN NewLines : file' = InsertAt(file, i, NewLines[n])
Delete == \E i \in DOMAIN file : file' = RemoveAt(file, i)
EditNext == lineEdits < MaxLineEdits /\ lineEdits' = lineEdits + 1 /\ (Insert \/ Delete)
EditSpec == EditInit /\ [][EditNext]_editVars

-----------------------------------------------------------------------------
(* The blocks of the file: what stands between an id and the next one. *)
Heads == {i \in DOMAIN file : file[i].kind = "id"}
Block(h) == {i \in DOMAIN file : i > h /\ \A g \in Heads : g > h => g > i}
LastWord(h, keys, default) ==
  LET said == {i \in Block(h) : file[i].kind = "field" /\ file[i].key \in keys}
  IN  IF said = {} THEN default ELSE file[Max(said)].value

Accepted(suite) ==
  /\ ~Malformed(file) /\ Loads(Parsed(file), suite)
  /\ Validates(Files, Parsed(file).tasks)

(* In a catalog that is accepted, a block of L4, L5 or family G says last  *)
(* that it is dangerous: the gate of a run cannot be edited away.          *)
AcceptedDangerIsMarked ==
  Accepted("smoke-v0") =>
    \A h \in Heads :
      (LastWord(h, {"level"}, "") \in {"L4", "L5"} \/ LastWord(h, {"family"}, "") = "G")
      => LastWord(h, {"dangerous"}, "false") = "true"

(* sink.validRunID *)
ValidRunID(run) == run # <<>> /\ \A i \in DOMAIN run : run[i] \in Letters \cup Marks \cup {":"}

Lower(id) == [i \in DOMAIN id |-> IF id[i] = "T" THEN "t" ELSE id[i]]

(* An accepted id names a directory below tasks/, no other task's, and     *)
(* makes a run id that the sink takes: RegisterRun does not end the run.   *)
AcceptedIDsUsable ==
  Accepted("smoke-v0") =>
    \A h \in Heads :
      LET id == file[h].value
      IN  /\ ValidRunID(Lower(id)) /\ "/" \notin ToSet(id) /\ id[1] # "."
          /\ \A g \in Heads : file[g].value = id => g = h
=============================================================================
