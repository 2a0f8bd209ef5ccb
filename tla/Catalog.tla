------------------------------- MODULE Catalog ------------------------------
(***************************************************************************)
(* internal/catalog/catalog.go: the catalog's line parser (Load), the      *)
(* checks before a run (Validate) and those of an archived result          *)
(* (ValidateResult).                                                       *)
(*                                                                         *)
(* A line is what its prefix makes of it: "suite", "id", "field" (a key    *)
(* and a value) or "other" (blank, a comment, or without a colon).  The    *)
(* digest of a task directory is Materials' subject; here it is a text,    *)
(* and texts that differ in case only are one, as EqualFold takes them.    *)
(***************************************************************************)
EXTENDS Results, SequencesExt

CONSTANT Digests   \* the texts of 64 hexadecimal digits

NotANumber == -1000   \* a text that strconv.Atoi refuses
Untitled(id) ==
  [id |-> id, family |-> "", version |-> 0, digest |-> "", title |-> "", level |-> "",
   dangerous |-> FALSE]

-----------------------------------------------------------------------------
(* Load. *)

SetField(task, key, value) ==
  CASE key \in {"sha256", "digest_sha256"} -> [task EXCEPT !.digest = value]
    [] key = "dangerous" -> [task EXCEPT !.dangerous = (value = "true")]
    [] key \in {"family", "version", "title", "level"} -> [task EXCEPT ![key] = value]
    [] OTHER -> task

(* A field belongs to the last id before it; before the first it is lost.  *)
Scan(state, line) ==
  LET n == Len(state.tasks)
  IN  CASE line.kind = "suite" -> [state EXCEPT !.declared = line.value]
        [] line.kind = "id" -> [state EXCEPT !.tasks = Append(@, Untitled(line.value))]
        [] line.kind = "field" /\ n > 0 ->
             [state EXCEPT !.tasks[n] = SetField(@, line.key, line.value)]
        [] OTHER -> state

Parsed(file) ==
  LET scanned[n \in 0..Len(file)] ==
        IF n = 0 THEN [declared |-> "", tasks |-> <<>>] ELSE Scan(scanned[n - 1], file[n])
  IN  scanned[Len(file)]

(* A version that is no number ends the parsing, also one that is replaced *)
(* by a later line.                                                        *)
Malformed(file) ==
  \E i, j \in DOMAIN file :
    /\ i < j /\ file[i].kind = "id" /\ file[j].kind = "field"
    /\ file[j].key = "version" /\ file[j].value = NotANumber

Available(declared, suite) ==
  \/ "" \in {declared, suite} \/ suite = declared
  \/ suite = "smoke-v0" /\ declared = "public-v0"

(* Load's answer about a parsed file: its tasks, or an error. *)
Loads(parsed, suite) == Available(parsed.declared, suite) /\ parsed.tasks # <<>>

-----------------------------------------------------------------------------
(* Validate.  Ids are sequences of characters, here only some of them.     *)

Letters == {"T", "t", "1", "2"}
Marks == {".", "_", "-"}

(* Mistake: a mark is taken in first place too. *)
ValidIDAnywhere(id) == id # <<>> /\ \A i \in DOMAIN id : id[i] \in Letters \cup Marks

ValidID(id) ==
  id # <<>> /\ \A i \in DOMAIN id : id[i] \in Letters \/ (i > 1 /\ id[i] \in Marks)

(* Mistake: family G is forgotten. *)
DangerMarkedByLevel(t) == t.level \in {"L4", "L5"} => t.dangerous

DangerMarked(t) == (t.level \in {"L4", "L5"} \/ t.family = "G") => t.dangerous

ValidEntry(t) ==
  /\ ValidID(t.id)
  /\ t.family # "" /\ t.title # "" /\ t.level \in Levels
  /\ t.version >= 1 /\ t.digest \in Digests
  /\ DangerMarked(t)

(* files: the task directories that hold the four required files, and the  *)
(* digest of each, or "" if Digest refuses it.                             *)
Validates(files, tasks) ==
  /\ \A i, j \in DOMAIN tasks : tasks[i].id = tasks[j].id => i = j
  /\ \A i \in DOMAIN tasks :
       ValidEntry(tasks[i]) /\ tasks[i].id \in DOMAIN files /\ files[tasks[i].id] = tasks[i].digest

-----------------------------------------------------------------------------
(* ValidateResult: the task results against the catalog of today. *)

Matches(got, want) ==
  got.id = want.id /\ got.version = want.version /\ got.digest = want.digest

(* Mistakes: the number of tasks, the digests are not compared. *)
CoversUncounted(results, tasks) ==
  /\ \A i, j \in DOMAIN results : results[i].id = results[j].id => i = j
  /\ \A i \in DOMAIN results : \E j \in DOMAIN tasks : Matches(results[i], tasks[j])
CoversByVersion(results, tasks) ==
  /\ Len(results) = Len(tasks)
  /\ \A i, j \in DOMAIN results : results[i].id = results[j].id => i = j
  /\ \A i \in DOMAIN results : \E j \in DOMAIN tasks :
       results[i].id = tasks[j].id /\ results[i].version = tasks[j].version

Covers(results, tasks) ==
  /\ Len(results) = Len(tasks)
  /\ \A i, j \in DOMAIN results : results[i].id = results[j].id => i = j
  /\ \A i \in DOMAIN results : \E j \in DOMAIN tasks : Matches(results[i], tasks[j])
=============================================================================
