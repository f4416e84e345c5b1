---------------------------- MODULE RemoteFiles ----------------------------
(***************************************************************************)
(* The file calls of an SSH client (ssh/client.py, scp/client.py): get and *)
(* put over SFTP or SCP, mkdir, remove, rename, and the delivery of a      *)
(* script by exec_sequence, on the filesystem of the sim (ssh/_sim.py) or  *)
(* of a server.  A script makes one call after another; between the        *)
(* selection and each file of a transfer, others may change the server's   *)
(* files.  External: the server, what it refuses, and lost connections.    *)
(***************************************************************************)
EXTENDS FileTree

CONSTANTS Suffixed,     \* the names with a suffix
          Folder,       \* the directory that is there at first
          Places,       \* the paths that calls are given
          Specs,        \* what transfers are asked for, see FileTree
          MaxFileCalls, \* bound: calls over the run
          MaxOthers     \* bound: changes of others over the run

ASSUME PlacesAssumption ==
  /\ IsFiniteSet(FileNames) /\ Suffixed \subseteq FileNames /\ Folder \in FileNames
  /\ Places \subseteq Seq(FileNames) \ {<<>>}
  /\ \A spec \in Specs : /\ spec.at \in Seq(FileNames) /\ spec.depth \in Nat
                         /\ {spec.glob, spec.recursive} \subseteq BOOLEAN
  /\ MaxFileCalls \in Nat /\ MaxOthers \in Nat

VARIABLES
  driver,   \* "sim" or "ssh"
  fs,       \* the remote files
  local,    \* the files under the run's output directory
  call,     \* where the call is, or how the last one ended; "left" is the
            \* end of exec_sequence, returned or raised, with its script there
  mappings, \* of a transfer, those that are left
  means,    \* "sftp" or "scp", in a transfer
  lost,     \* the connection is gone
  goal,     \* history: what the last transfer was to do
  touched,  \* history: what others changed while it did
  torn,     \* history: the sim lost a directory that had entries
  calls, others

fileVars ==
  <<driver, fs, local, call, mappings, means, lost, goal, touched, torn, calls, others>>

Ended   == {"idle", "got", "stored", "done", "raised", "crashed"}
Script  == <<"script">>   \* the fresh name of an uploaded script
Body    == <<"body">>
Part    == <<"part">>     \* a file whose writing broke off
Foreign == <<"foreign">>  \* what others write

ASSUME ScriptAssumption == "script" \notin FileNames

\* Both sides have a folder with a file for each of the other names, and in
\* it a folder with the matching ones.
Seed(side) ==
  LET files == {<<Folder, n>> : n \in FileNames \ {Folder}}
                 \cup {<<Folder, Folder, n>> : n \in Matching} IN
  [p \in files \cup {<<>>, <<Folder>>, <<Folder, Folder>>} |->
     IF p \in files THEN <<side, Len(p), Last(p)>> ELSE Dir]

FilesInit ==
  /\ driver \in {"sim", "ssh"}
  /\ fs = Seed("remote") /\ local = Seed("local")
  /\ call = "idle" /\ mappings = {} /\ means = "sftp" /\ lost = FALSE
  /\ goal = {} /\ touched = {} /\ torn = FALSE /\ calls = 0 /\ others = 0

\* What calls do on a lost connection is left out: they raise, but a get by
\* a pattern finds nothing in its listing and returns.  A run ends, too, where
\* a script is left behind, though its caller may go on.
MayBegin == call \in Ended /\ ~lost /\ calls < MaxFileCalls

Begin == MayBegin /\ calls' = calls + 1 /\ touched' = {}

\* The sim's dictionary loses the node at p from above its entries.
Tears(p) == driver = "sim" /\ Below(fs, p) # {}
-----------------------------------------------------------------------------
(* Transfers *)

\* A directory takes the file in, where SCP is told to write.
Landing(tree, place, name) ==
  IF means = "scp" /\ IsDir(tree, place) THEN Append(place, name) ELSE place

\* newest or oldest leave at most one of the files, by a time that anything
\* may have set.
Picked(files, one) == IF one /\ files # {} THEN {{f} : f \in files} ELSE {files}

NoTransfer(result) == call' = result /\ mappings' = {} /\ goal' = {}

Transfer(mapped, wanted, started, finished) ==
  /\ mappings' = mapped /\ goal' = wanted
  /\ call' = IF mapped = {} THEN finished ELSE started

\* One file is through; call is what it is until the last one.
Transferred(m, finished) ==
  /\ mappings' = mappings \ {m} /\ call' = IF mappings = {m} THEN finished ELSE call
  /\ UNCHANGED goal

\* What listings may show: a server may refuse any directories.
Views(spec) ==
  LET dirs == {d \in DOMAIN fs : IsDir(fs, d) /\ IsPrefix(spec.at, d)} IN
  IF driver = "sim" THEN {fs} ELSE {Listed(fs, refused) : refused \in SUBSET dirs}

\* The choice among what the listings showed, the mapping, and the
\* directories that it makes.
MapGet(seen, spec, one, into, slash) ==
  \E files \in Picked(Selected(seen, spec), one) :
    LET Place(f) == GetPlace(spec, files, into, f)
        wanted   == IF one THEN files \cap Wanted(seen, spec) ELSE Wanted(seen, spec)
        Mapped(fset) == {[from |-> f, to |-> Place(f)] : f \in fset}
        many     == files # {} /\ GetMany(spec, files)
        suffixed == many /\ Last(into) \in Suffixed /\ ~slash
        Dirs(done) == (UNION {Above(Place(f)) : f \in done}) \cup
                        (IF many THEN {into} ELSE {})
    IN IF suffixed
       THEN NoTransfer("raised") /\ local' = EnsureParent(local, into)
       ELSE IF \E d \in Dirs(files) : IsFile(local, d)
       THEN /\ NoTransfer("raised")
            /\ \E done \in SUBSET files :
                 local' = MkDirs(local, Dirs(done) \cup Above(into))
       ELSE /\ Transfer(Mapped(files), Mapped(wanted), "get", "got")
            /\ local' = MkDirs(local, Dirs(files))

\* sftp_get up to its first file.  The stat of a server may fail, and raises,
\* and so does a connection that breaks, unless the error is one of the
\* listing: that is swallowed as a refusal is.
SftpGet(by, spec, one, into, slash) ==
  /\ Begin /\ means' = by /\ UNCHANGED <<driver, fs, torn, others>>
  /\ \/ /\ SelectRaises(fs, spec) \/ driver = "ssh"
        /\ NoTransfer("raised") /\ UNCHANGED local
     \/ /\ ~SelectRaises(fs, spec)
        /\ driver = "sim" /\ ListingBreaks(fs, spec.at, Limit(spec))
        /\ NoTransfer("crashed") /\ UNCHANGED local
     \/ /\ ~SelectRaises(fs, spec)
        /\ ~(driver = "sim" /\ ListingBreaks(fs, spec.at, Limit(spec)))
        /\ \E seen \in Views(spec) : MapGet(seen, spec, one, into, slash)
  /\ lost' \in IF driver = "sim" \/ call' = "get" THEN {lost} ELSE BOOLEAN

\* get_file, SFTPClient.get or SCPClient.get.
GetFile(m) ==
  /\ call = "get" /\ m \in mappings
  /\ LET to == Landing(local, m.to, Last(m.from)) IN
     IF IsFile(fs, m.from) /\ ~IsDir(local, to)
     THEN Transferred(m, "got") /\ local' = With(local, to, fs[m.from])
     ELSE /\ NoTransfer("raised")
          /\ \/ UNCHANGED local
             \/ driver = "ssh" /\ ~IsDir(local, to) /\ local' = With(local, to, Part)
  /\ UNCHANGED <<driver, fs, means, lost, touched, torn, calls, others>>

\* sftp_put: the selection and the mapping.
SftpPut(by, spec, remote, slash) ==
  /\ Begin /\ means' = by /\ UNCHANGED <<driver, fs, local, lost, torn, others>>
  /\ IF SelectRaises(local, spec) \/ (spec.glob /\ ~IsDir(local, spec.at))
     THEN NoTransfer("raised")
     ELSE LET files == Selected(local, spec)
              Mapped(fset) == {[from |-> f, to |-> PutPlace(local, spec, files, remote, slash, f)] :
                                 f \in fset}
          IN Transfer(Mapped(files), Mapped(Wanted(local, spec)), "put", "stored")

\* Where a file is put, with the directories on the way: by _ensure_parent of
\* the sim, or sftp_mkdir if the parent is not there; SCP makes none.
Made(to) == IF means = "scp" THEN fs ELSE EnsureParent(fs, to)

\* The sim replaces whatever is there; a server keeps its directories.
Refused(to) ==
  \/ Blocked(fs, to)
  \/ driver = "ssh" /\ (IsDir(fs, to) \/ Front(to) \notin DOMAIN Made(to))

\* put_file, SFTPClient.put or SCPClient.put.
PutFile(m) ==
  /\ call = "put" /\ m \in mappings
  /\ LET to == Landing(fs, m.to, Last(m.from)) IN
     IF Refused(to) THEN NoTransfer("raised") /\ fs' = Made(to) /\ UNCHANGED torn
     ELSE /\ Transferred(m, "stored") /\ fs' = With(Made(to), to, local[m.from])
          /\ torn' = (torn \/ Tears(to))
  /\ UNCHANGED <<driver, local, means, lost, touched, calls, others>>

\* The server refuses, or the connection breaks, anywhere in a file.
TransferFails(m) ==
  /\ driver = "ssh" /\ m \in mappings /\ NoTransfer("raised") /\ lost' \in BOOLEAN
  /\ \/ LET to == Landing(local, m.to, Last(m.from)) IN
        /\ call = "get" /\ UNCHANGED fs
        /\ \/ UNCHANGED local
           \/ ~IsDir(local, to) /\ local' = With(local, to, Part)
     \/ LET to == Landing(fs, m.to, Last(m.from)) IN
        /\ call = "put" /\ UNCHANGED local
        /\ \/ fs' \in {fs, Made(to)}
           \/ ~Refused(to) /\ fs' = With(Made(to), to, Part)
  /\ UNCHANGED <<driver, means, touched, torn, calls, others>>
-----------------------------------------------------------------------------
(* Single calls *)

Result(tree, result) ==
  /\ Begin /\ NoTransfer(result) /\ fs' = tree
  /\ UNCHANGED <<driver, local, means, lost, others>>

\* The sim replaces what is there; sftp_mkdir leaves it alone, file or not.
SftpMkdir(p) ==
  LET made == EnsureParent(fs, p)
      tree == IF driver = "ssh" /\ p \in DOMAIN fs THEN fs ELSE With(made, p, Dir)
  IN /\ IF Blocked(fs, p) THEN Result(made, "raised") ELSE Result(tree, "done")
     /\ UNCHANGED torn

SftpRemove(p) ==
  LET fails == p \notin DOMAIN fs \/ (driver = "ssh" /\ IsDir(fs, p)) IN
  /\ IF fails THEN Result(fs, "raised") ELSE Result(Without(fs, p), "done")
  /\ torn' = (torn \/ (~fails /\ Tears(p)))

\* The sim moves the node alone, and deletes it when both names are one.
RenameSim(old, new) ==
  LET made == EnsureParent(fs, new) IN
  /\ IF old \notin DOMAIN fs THEN Result(fs, "raised")
     ELSE IF Blocked(fs, new) THEN Result(made, "raised")
     ELSE Result(Without(With(made, new, fs[old]), old), "done")
  /\ torn' = (torn \/ (old \in DOMAIN fs /\ ~Blocked(fs, new)
                        /\ (Tears(old) \/ IsStrictPrefix(old, new)
                            \/ (Tears(new) /\ IsFile(fs, old)))))

\* A server moves what is below too, and takes no name that is in use.
RenameServer(old, new) ==
  LET moved == {q \in DOMAIN fs : IsPrefix(old, q)}
      New(q) == new \o Relative(old, q)
      fails == \/ old \notin DOMAIN fs \/ new \in DOMAIN fs \/ ~IsDir(fs, Front(new))
               \/ IsPrefix(old, new)
      tree  == [p \in (DOMAIN fs \ moved) \cup {New(q) : q \in moved} |->
                  IF IsPrefix(new, p) THEN fs[old \o Relative(new, p)] ELSE fs[p]]
  IN /\ IF fails THEN Result(fs, "raised") ELSE Result(tree, "done")
     /\ UNCHANGED torn

SftpRename(old, new) ==
  IF driver = "sim" THEN RenameSim(old, new) ELSE RenameServer(old, new)
-----------------------------------------------------------------------------
(* exec_sequence with a script that is uploaded *)

ScriptStep(from, to) ==
  /\ call = from /\ call' = to
  /\ UNCHANGED <<driver, local, mappings, means, goal, touched, torn, calls, others>>

\* The upload is through, or the file cannot be opened or written.
Upload ==
  /\ driver = "ssh" /\ Begin /\ goal' = {} /\ mappings' = {}
  /\ \/ call' = "run" /\ fs' = With(fs, Script, Body)
     \/ call' = "cleanup" /\ (UNCHANGED fs \/ fs' = With(fs, Script, Part))
  /\ UNCHANGED <<driver, local, means, lost, torn, others>>

\* exec returns or raises, and may lose the connection.
RunScript == ScriptStep("run", "cleanup") /\ lost' \in BOOLEAN /\ UNCHANGED fs

\* The server refuses the remove, to a script that is busy or in a directory
\* that others changed.
RemoveRefused ==
  ~lost /\ Script \in DOMAIN fs /\ ScriptStep("cleanup", "left") /\ UNCHANGED <<fs, lost>>

\* Mutant of CleanUp: a script that others changed is left alone.
CleanUpOwn ==
  \/ \E result \in {"done", "raised"} :
       /\ ScriptStep("cleanup", result) /\ UNCHANGED lost
       /\ fs' = IF lost \/ (Script \in DOMAIN fs => fs[Script] # Body)
                THEN fs ELSE Without(fs, Script)
  \/ RemoveRefused

\* The finally block; an error of the remove itself is ignored.
CleanUp ==
  \/ \E result \in {"done", "raised"} :
       /\ ScriptStep("cleanup", result) /\ UNCHANGED lost
       /\ fs' = IF lost THEN fs ELSE Without(fs, Script)
  \/ RemoveRefused

-----------------------------------------------------------------------------
\* What the call has still to read or write on the server; changes elsewhere
\* might as well come before the call or after it.
Concerned ==
  IF call = "run" THEN {Script}
  ELSE {IF call = "get" THEN m.from ELSE m.to : m \in mappings}

\* Others write or remove a file on the server.
Others(p) ==
  /\ driver = "ssh" /\ others < MaxOthers
  /\ \/ IsDir(fs, Front(p)) /\ ~IsDir(fs, p) /\ fs' = With(fs, p, Foreign)
     \/ IsFile(fs, p) /\ fs' = Without(fs, p)
  /\ others' = others + 1 /\ touched' = touched \cup {p}
  /\ UNCHANGED <<driver, local, call, mappings, means, lost, goal, torn, calls>>

Means == IF driver = "sim" THEN {"sftp"} ELSE {"sftp", "scp"}

\* A slash at the end, or a number of files, is given where it may matter.
FilesNext ==
  \/ MayBegin /\ \E by \in Means, spec \in Specs, to \in Places, slash, one \in BOOLEAN :
       \/ /\ slash => Last(to) \in Suffixed
          /\ one => spec.glob \/ spec.recursive
          /\ SftpGet(by, spec, one, to, slash)
       \/ one = slash /\ SftpPut(by, spec, to, slash)
  \/ \E m \in mappings : GetFile(m) \/ PutFile(m) \/ TransferFails(m)
  \/ MayBegin /\ \E p \in Places :
       SftpMkdir(p) \/ SftpRemove(p) \/ \E q \in Places : SftpRename(p, q)
  \/ Upload \/ RunScript \/ CleanUp
  \/ \E p \in Concerned : Others(p)
-----------------------------------------------------------------------------
(* Properties *)

\* A transfer is of the files that match and of no other, by the reference and
\* not by the walk, as far as the server lets its directories be listed: over
\* one that it refuses get passes in silence, and brings what it finds beside
\* it.  When get or put has returned each of those files is in a place of
\* its own with the content that its source has, but for those that others
\* changed meanwhile; and no call breaks down over the sim's own dictionary,
\* after any sequence of calls.  Nothing is claimed once the sim has
\* lost a directory that had entries, which the code allows.
TransfersComplete ==
  ~torn =>
    /\ call # "crashed" /\ mappings \subseteq goal
    /\ \A m, n \in goal : m.to = n.to => m = n
    /\ call = "got" => \A m \in goal : m.from \in touched \/
         LET to == Landing(local, m.to, Last(m.from)) IN
         to \in DOMAIN local /\ local[to] = fs[m.from]
    /\ call = "stored" => \A m \in goal : m.to \in touched \/
         LET to == Landing(fs, m.to, Last(m.from)) IN
         to \in DOMAIN fs /\ fs[to] = local[m.from]

\* The script is there in full while its command runs, unless others changed
\* it, and whatever fails before the remove, nothing of it is left on the host
\* after the call, unless the connection is gone or the server refused the
\* remove, which exec_sequence does not tell its caller.
ScriptLeavesNoTrace ==
  /\ call = "run" => Script \in touched \/ (Script \in DOMAIN fs /\ fs[Script] = Body)
  /\ call \in Ended /\ ~lost => Script \notin DOMAIN fs

\* The remote files are a tree while the sim has not torn it.
FilesTypeOK ==
  /\ driver \in {"sim", "ssh"} /\ means \in {"sftp", "scp"}
  /\ {lost, torn} \subseteq BOOLEAN
  /\ call \in Ended \cup {"get", "put", "run", "cleanup", "left"}
  /\ mappings # {} <=> call \in {"get", "put"}
  /\ calls \in 0..MaxFileCalls /\ others \in 0..MaxOthers
  /\ torn => driver = "sim"
  /\ \A p \in DOMAIN local \ {<<>>} : IsDir(local, Front(p))
  /\ ~torn => \A p \in DOMAIN fs \ {<<>>} : IsDir(fs, Front(p))
=============================================================================
