----------------------------- MODULE MCCatalog ------------------------------
(***************************************************************************)
(* What is checked of the catalog, its tasks and the address their evidence*)
(* is sent to, in parts that share no state: the digest of a task directory*)
(* (Materials), the lines of the catalog (CatalogEdits), catalog, files and*)
(* results over time (Archive), every task in every sandbox (Probes), and  *)
(* every address for the sink (BindAddress).  Only the part that the first *)
(* state chooses moves.                                                    *)
(***************************************************************************)
EXTENDS Materials, CatalogEdits, Archive, MCProbes, BindAddress

VARIABLE part
partVars == <<part, materialVars, editVars, archiveVars, probeVars, bindVars>>

(* A task directory with attacker/run.py, attacker.py, a dot file, a cache *)
(* and a dot directory, and contents that tell line ends apart and imitate *)
(* the header of another file.                                             *)
MCPaths ==
  { <<<<4>>, <<5, Dot, Text>>>>,            \* attacker/run.py
    <<<<4, Dot, Text>>>>,                   \* attacker.py
    <<<<Dot, 6>>>>,                         \* .env
    <<<<4>>, <<PyCache>>, <<5>>>>,          \* attacker/__pycache__/run
    <<<<Dot, 5>>, <<4>>>> }                 \* .git/index
MCContents ==
  { <<>>, <<9, LF>>, <<9, CR, LF>>, <<CR, CR, LF>>,
    <<4, Dot, Text, NUL>>, <<4, Dot, Text, NUL, Length(0), NUL>> }

(* A file of two tasks, one of family G, and lines that repeat, change or  *)
(* break what it says.                                                     *)
Field(key, value) == [kind |-> "field", key |-> key, value |-> value]
TaskLine(id) == [kind |-> "id", value |-> id]
Entry(id, digest, family, level, dangerous) ==
  <<TaskLine(id), Field("version", 1), Field("sha256", digest), Field("family", family),
    Field("title", "a title"), Field("level", level), Field("dangerous", dangerous)>>
MCOriginalFile ==
  <<[kind |-> "suite", value |-> "public-v0"]>>
  \o Entry(<<"T", "1">>, "d1", "A", "L1", "false") \o Entry(<<"T", "2">>, "d2", "G", "L3", "true")
MCNewLines ==
  << [kind |-> "other"], [kind |-> "suite", value |-> "smoke-v0"], [kind |-> "suite", value |-> "x"],
     TaskLine(<<"T", "1">>), TaskLine(<<"t", "1">>), TaskLine(<<".", "1">>),
     Field("version", 2), Field("version", 0), Field("version", NotANumber),
     Field("digest_sha256", "d2"), Field("sha256", "short"), Field("family", "G"),
     Field("level", "L4"), Field("level", "L9"), Field("dangerous", "true"),
     Field("dangerous", "yes"), Field("title", ""), Field("description", "text") >>
MCFiles ==
  LET ids == {<<"T", "1">>, <<"T", "2">>, <<"t", "1">>, <<".", "1">>}
  IN  [id \in ids |-> IF id = <<"T", "2">> THEN "d2" ELSE "d1"]

(* A catalog of two tasks, the second dangerous. *)
Task(id, digest, level, dangerous) ==
  [id |-> id, family |-> "A", version |-> 1, digest |-> digest, title |-> "a title",
   level |-> level, dangerous |-> dangerous]
MCOriginal ==
  [declared |-> "public-v0",
   tasks |-> <<Task(<<"T", "1">>, "d1", "L1", FALSE), Task(<<"T", "2">>, "d2", "L4", TRUE)>>]

(* Bytes at both ends of every range, and one inside and outside each. *)
MCBytes ==
  {0, 1, 9, 10, 11, 15, 16, 31, 32, 127, 128, 168, 169, 172, 191, 192, 251, 252, 253, 254, 255}

Sheltered ==
  [egress |-> FALSE, home |-> FALSE, root |-> FALSE, link |-> FALSE, scrubs |-> FALSE,
   filters |-> FALSE, workspace |-> FALSE, socket |-> "absent", neighbour |-> FALSE]

MCInit ==
  /\ part \in {"materials", "lines", "archive", "probes", "address"}
  /\ MaterialInit /\ ArchiveInit
  /\ IF part = "lines" THEN EditInit ELSE file = <<>> /\ lineEdits = 0
  /\ part # "archive" => run.suite = "smoke-v0" /\ run.mode = "dry"
  /\ ProbeInit /\ (part # "probes" => sandbox = Sheltered /\ task = "T001")
  /\ IF part = "address" THEN BindInit ELSE address = NoLiteral /\ listener = "run"
MCNext ==
  /\ UNCHANGED part
  /\ \/ /\ part = "materials" /\ MaterialNext
        /\ UNCHANGED <<editVars, archiveVars, probeVars, bindVars>>
     \/ /\ part = "lines" /\ EditNext
        /\ UNCHANGED <<materialVars, archiveVars, probeVars, bindVars>>
     \/ /\ part = "archive" /\ ArchiveNext
        /\ UNCHANGED <<materialVars, editVars, probeVars, bindVars>>
     \/ /\ part = "probes" /\ ProbeNext
        /\ UNCHANGED <<materialVars, editVars, archiveVars, bindVars>>
     \/ /\ part = "address" /\ (RunChecks \/ StartOn)
        /\ UNCHANGED <<materialVars, editVars, archiveVars, probeVars>>
MCSpec == MCInit /\ [][MCNext]_partVars
=============================================================================
