------------------------------ MODULE FileTree ------------------------------
(***************************************************************************)
(* Trees of files, and what is computed over them: the dictionary of the   *)
(* sim's remote filesystem (ssh/_sim.py), and the choice of files and of   *)
(* their places in a transfer (ssh/_file_select.py).  A path is the        *)
(* sequence of its names, as normalize_remote_path leaves it; a tree maps  *)
(* paths to what is there, the empty tuple for a directory.                *)
(***************************************************************************)
EXTENDS Naturals, SequencesExt

CONSTANTS FileNames,
          Matching    \* the names that the pattern of a glob fits

ASSUME NamesAssumption == Matching \subseteq FileNames

Dir == <<>>

IsDir(tree, p)  == p \in DOMAIN tree /\ tree[p] = Dir
IsFile(tree, p) == p \in DOMAIN tree /\ tree[p] # Dir

Below(tree, p) == {q \in DOMAIN tree : IsStrictPrefix(p, q)}
Above(p)       == {q \in Prefixes(p) : q # p /\ q # <<>>}

With(tree, p, node) ==
  [q \in DOMAIN tree \cup {p} |-> IF q = p THEN node ELSE tree[q]]
Without(tree, p) == [q \in DOMAIN tree \ {p} |-> tree[q]]

\* A file stands where a directory is needed.
Blocked(tree, p) == \E q \in Above(p) : IsFile(tree, q)

\* Those of dirs that are missing are made, but none below a file.
MkDirs(tree, dirs) ==
  LET new == {q \in dirs \ DOMAIN tree : ~Blocked(tree, q)} IN
  [q \in DOMAIN tree \cup new |-> IF q \in new THEN Dir ELSE tree[q]]

EnsureParent(tree, p) == MkDirs(tree, Above(p))
-----------------------------------------------------------------------------
(* select_remote_files and select_local_files *)

\* Mutant of Descends: a limit is one level deeper than it says.
DescendsOneMore(depth, limit) == depth <= limit

\* A directory at this depth below the first is left for those in it.
Descends(depth, limit) == depth < limit

\* The directories that walk_dir, or _walk_local_dir, lists.
Walked(tree, root, limit) ==
  LET SubDirs(dir) == {q \in DOMAIN tree : IsDir(tree, q) /\ q # <<>> /\ Front(q) = dir}
      walk[dir \in DOMAIN tree] ==
        {dir} \cup IF Descends(Len(dir) - Len(root), limit)
                   THEN UNION {walk[q] : q \in SubDirs(dir)} ELSE {}
  IN IF IsDir(tree, root) THEN walk[root] ELSE {}

\* What walk_dir finds when these directories are refused: an error of the
\* listing is swallowed, and such a directory is as good as empty.
Listed(tree, refused) ==
  [p \in {q \in DOMAIN tree : \A d \in refused : ~IsStrictPrefix(d, q)} |-> tree[p]]

WalkedFiles(tree, root, limit, names) ==
  LET dirs == Walked(tree, root, limit) IN
  {p \in DOMAIN tree \ {<<>>} :
     IsFile(tree, p) /\ Front(p) \in dirs /\ Last(p) \in names}

\* listdir_attr of the sim meets a name whose entry is gone: KeyError.
ListingBreaks(tree, root, limit) ==
  \E dir \in Walked(tree, root, limit) : \E q \in Below(tree, dir) :
    SubSeq(q, 1, Len(dir) + 1) \notin DOMAIN tree

\* What a transfer is asked for: spec.at, or spec.at/pattern if spec.glob.
Limit(spec) == IF spec.recursive THEN spec.depth ELSE 0

SelectRaises(tree, spec) ==
  ~spec.glob /\ (spec.at \in DOMAIN tree => IsDir(tree, spec.at) /\ ~spec.recursive)

Selected(tree, spec) ==
  IF spec.glob THEN WalkedFiles(tree, spec.at, Limit(spec), Matching)
  ELSE IF IsFile(tree, spec.at) THEN {spec.at}
  ELSE WalkedFiles(tree, spec.at, Limit(spec), FileNames)

\* The reference: every file so many levels below, by its name.
Wanted(tree, spec) ==
  {p \in DOMAIN tree :
     /\ IsFile(tree, p)
     /\ \/ ~spec.glob /\ p = spec.at
        \/ /\ IsDir(tree, spec.at) /\ IsStrictPrefix(spec.at, p)
           /\ Len(p) <= Len(spec.at) + 1 + (IF spec.recursive THEN spec.depth ELSE 0)
           /\ spec.glob => p[Len(p)] \in Matching}
-----------------------------------------------------------------------------
(* map_remote_get_paths and map_local_put_paths *)

\* _relative_remote; relative_to
Relative(root, p) == SubSeq(p, Len(root) + 1, Len(p))

\* remote_dirname: a directory that is got keeps its own name.
GetRoot(spec) == IF spec.glob THEN spec.at ELSE Front(spec.at)

\* One file goes to local, which is a directory for more files or a glob.
GetMany(spec, files) == Cardinality(files) > 1 \/ spec.glob

GetPlace(spec, files, local, p) ==
  IF GetMany(spec, files) THEN local \o Relative(GetRoot(spec), p) ELSE local

\* _local_selection_root: a directory that is put does not repeat its name.
PutRoot(tree, spec) ==
  IF spec.glob \/ IsDir(tree, spec.at) THEN spec.at ELSE Front(spec.at)

\* slash: remote ends with one.
PutPlace(tree, spec, files, remote, slash, p) ==
  IF Cardinality(files) = 1 /\ ~slash THEN remote
  ELSE remote \o Relative(PutRoot(tree, spec), p)
=============================================================================
