----------------------------- MODULE Materials ------------------------------
(***************************************************************************)
(* catalog.Digest (internal/catalog/catalog.go): the digest of a task's    *)
(* materials, over a working copy that git has checked out, with either    *)
(* line ending, that Python fills with caches and a developer edits.       *)
(*                                                                         *)
(* SHA-256 is taken to be injective: a digest is the byte sequence that is *)
(* hashed.  Bytes and tokens are numbers in the order of their characters. *)
(***************************************************************************)
EXTENDS Integers, SequencesExt

CONSTANTS
  Paths,      \* the paths a task directory may have, as sequences of names
  Contents,   \* the contents a file may have
  MaxFiles,   \* bound: the files committed
  MaxCopyEdits  \* bound: the edits of the working copy

NUL == 0   Dot == 1   Slash == 2   PyCache == 3   LF == 10   CR == 13
Text == 7                  \* an extension of isTextMaterial
Length(n) == 100 + n       \* the decimal digits of a length

(* Names are not empty and have neither of the two characters that no file *)
(* system allows in them.                                                  *)
FileNames == Seq(Nat \ {NUL, Slash}) \ {<<>>}
ASSUME MaterialAssumption ==
  /\ \A p \in Paths : p \in Seq(FileNames) /\ p # <<>>
  /\ \A data \in Contents : data \in Seq(Nat)

VARIABLES
  tree,       \* the committed materials, a function from paths to contents
  copy,       \* the working copy
  links,      \* the paths of the working copy that are symbolic links
  stage,      \* "commit", "out"
  copyEdits   \* the edits of the working copy so far

materialVars == <<tree, copy, links, stage, copyEdits>>

-----------------------------------------------------------------------------
(* Digest. *)

SharePrefix(s, t, i) == i <= Len(s) + 1 /\ SubSeq(s, 1, i - 1) = SubSeq(t, 1, i - 1)
StringBefore(s, t) ==
  \E i \in DOMAIN t : SharePrefix(s, t, i) /\ (i <= Len(s) => s[i] < t[i])
PathBefore(p, q) ==
  \E i \in DOMAIN q : SharePrefix(p, q, i) /\ (i <= Len(p) => StringBefore(p[i], q[i]))

(* A path with its separators, as filepath.ToSlash gives it. *)
Joined(path) ==
  LET joined[n \in 1..Len(path)] ==
        IF n = 1 THEN path[1] ELSE joined[n - 1] \o <<Slash>> \o path[n]
  IN  joined[Len(path)]

(* Directories that Walk does not enter; a dot file is a material. *)
Skipped(path) ==
  \E i \in 1..(Len(path) - 1) : path[i] = <<PyCache>> \/ path[i][1] = Dot

IsText(path) == Len(Last(path)) > 1 /\ SubSeq(Last(path), Len(Last(path)) - 1, Len(Last(path))) = <<Dot, Text>>

(* strings.ReplaceAll(data, "\r\n", "\n") *)
LineFeeds(data) ==
  LET text[n \in 0..Len(data)] ==
        IF n = 0 THEN <<>>
        ELSE IF data[n] = CR /\ n < Len(data) /\ data[n + 1] = LF THEN text[n - 1]
        ELSE Append(text[n - 1], data[n])
  IN  text[Len(data)]
(* Mistake: texts are hashed as they are. *)
NormalisedNowhere(path, data) == data

Normalised(path, data) == IF IsText(path) THEN LineFeeds(data) ELSE data

(* The files that Walk meets, and what is kept of each. *)
Met(files) == {p \in DOMAIN files : ~Skipped(p)}
FileEntry(path, data) == [path |-> Joined(path), data |-> Normalised(path, data)]

(* filepath.Walk: the names of each directory in order, so that the files  *)
(* of a/ come before a.x, whose path is smaller; the i-th comes after i - 1*)
(* others.                                                                 *)
Walk(files) ==
  LET met == Met(files)
  IN  [i \in 1..Cardinality(met) |->
        LET p == CHOOSE q \in met : Cardinality({r \in met : PathBefore(r, q)}) = i - 1
        IN  FileEntry(p, files[p])]

(* Mistake: the order of Walk is kept. *)
SortedAsWalked(entries) == entries

(* The insertion sort: an entry passes the larger ones before it. *)
Inserted(done, entry) ==
  LET before == {i \in DOMAIN done : ~StringBefore(entry.path, done[i].path)}
  IN  InsertAt(done, Cardinality(before) + 1, entry)
Sorted(entries) ==
  LET done[n \in 0..Len(entries)] ==
        IF n = 0 THEN <<>> ELSE Inserted(done[n - 1], entries[n])
  IN  done[Len(entries)]

(* Mistake: no length. *)
HashedUnprefixed(entry) == entry.path \o <<NUL>> \o entry.data

Hashed(entry) == entry.path \o <<NUL, Length(Len(entry.data)), NUL>> \o entry.data

AllHashed(entries) ==
  LET bytes[n \in 0..Len(entries)] ==
        IF n = 0 THEN <<>> ELSE bytes[n - 1] \o Hashed(entries[n])
  IN  bytes[Len(entries)]

Refused == <<-1>>
Digest(files, symlinks) ==
  IF \E p \in symlinks : ~Skipped(p) THEN Refused ELSE AllHashed(Sorted(Walk(files)))

-----------------------------------------------------------------------------
(* The working copy. *)

With(files, path, data) ==
  [p \in DOMAIN files \cup {path} |-> IF p = path THEN data ELSE files[p]]

MaterialInit ==
  /\ tree = <<>> /\ copy = <<>> /\ links = {}
  /\ stage = "commit" /\ copyEdits = 0

Commit ==
  /\ stage = "commit" /\ Cardinality(DOMAIN tree) < MaxFiles
  /\ \E p \in Paths \ DOMAIN tree, data \in Contents :
       ~Skipped(p) /\ tree' = With(tree, p, data)
  /\ UNCHANGED <<copy, links, stage, copyEdits>>

(* git turns the line ends of texts that have no CR into CR LF, or none.   *)
CarriageReturns(data) ==
  LET text[n \in 0..Len(data)] ==
        IF n = 0 THEN <<>>
        ELSE text[n - 1] \o (IF data[n] = LF THEN <<CR, LF>> ELSE <<data[n]>>)
  IN  IF CR \in ToSet(data) THEN data ELSE text[Len(data)]

CheckOut ==
  /\ stage = "commit" /\ stage' = "out"
  /\ \E crlf \in BOOLEAN :
       copy' = [p \in DOMAIN tree |->
                 IF crlf /\ IsText(p) THEN CarriageReturns(tree[p]) ELSE tree[p]]
  /\ UNCHANGED <<tree, links, copyEdits>>

(* Python and git write below directories of their own, links included. *)
Generate ==
  /\ stage = "out"
  /\ \E p \in {q \in Paths \ DOMAIN copy : Skipped(q)} :
       /\ copy' = With(copy, p, <<>>)
       /\ links' \in {links, links \cup {p}}
  /\ UNCHANGED <<tree, stage, copyEdits>>

Edit ==
  /\ stage = "out" /\ copyEdits < MaxCopyEdits
  /\ \E p \in {q \in Paths : ~Skipped(q)} :
       \/ /\ \E data \in Contents : copy' = With(copy, p, data)
          /\ links' \in {links \ {p}, links \cup {p}}
       \/ /\ p \in DOMAIN copy /\ copy' = Restrict(copy, DOMAIN copy \ {p})
          /\ links' = links \ {p}
  /\ copyEdits' = copyEdits + 1
  /\ UNCHANGED <<tree, stage>>

MaterialNext == Commit \/ CheckOut \/ Generate \/ Edit
MaterialSpec == MaterialInit /\ [][MaterialNext]_materialVars

-----------------------------------------------------------------------------
(* What of a copy is material, whatever order it is visited in. *)
Material(files) == {FileEntry(p, files[p]) : p \in Met(files)}

(* The digest changes with the materials and with nothing else: no two     *)
(* directories whose files differ, shifted contents included, are hashed   *)
(* from the same bytes.  (catalog.go, the length before each file's data)  *)
DigestIdentifiesMaterials ==
  (stage = "out" /\ \A p \in links : Skipped(p)) =>
    (Digest(copy, links) = Digest(tree, {}) <=> Material(copy) = Material(tree))

(* A checkout with either line ending, with caches and git's own files, has*)
(* the digest that was committed (the comment at catalog.go:220).          *)
CheckoutKeepsDigest ==
  (stage = "out" /\ copyEdits = 0) => Digest(copy, links) = Digest(tree, {})

(* TECH_STACK.md line 18: the digest is over path, length and bytes, sorted*)
(* by normalised path, as another implementation would compute it.         *)
DigestInPathOrder ==
  stage = "out" =>
    LET entries == Sorted(Walk(copy))
    IN  /\ ToSet(entries) = Material(copy)
        /\ \A i, j \in DOMAIN entries : i < j => StringBefore(entries[i].path, entries[j].path)
=============================================================================
