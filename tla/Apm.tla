--------------------------------- MODULE Apm ---------------------------------
(***************************************************************************)
(* Loading extension modules: apm load (src/slash_apm.c) followed, in a    *)
(* build with Python, by its Python half (src/python/python_loader.c).     *)
(*                                                                         *)
(* A library or a Python module is a number, so that the order of names is *)
(* the order of numbers; names are unique in a directory, not among        *)
(* directories.  What matters of the content of a file is its kind:        *)
(*   ok       loads (API version 8 or 9) and its init function succeeds,   *)
(*   failinit its init function fails,                                     *)
(*   old      another API version,                                         *)
(*   nosym    has no apm_init_version,                                     *)
(*   broken   dlopen fails.                                                *)
(* The characters of a path are abstracted to which directory they belong  *)
(* to, because build_apm_list reuses one buffer for all paths.  Left out:  *)
(* subdirectories (one level is walked), symbolic links, and two paths one *)
(* of which is the beginning of the other.                                 *)
(***************************************************************************)
EXTENDS Integers, Sequences, SequencesExt, FiniteSetsExt

CONSTANTS
  Dirs,               (* directories: a set of positive numbers              *)
  Missing,            (* those that do not exist                             *)
  PathLen,            (* length of a directory's path                        *)
  NameLen,            (* length of the names in a directory                  *)
  Natives, Pythons,   (* names of libraries (libcsh_*.so), of Python modules *)
  Disk0,              (* what the directories hold at first                  *)
  SysPath,            (* Python's sys.path, as far as it matters             *)
  Searches,           (* what apm load is asked to search, see apm_load      *)
  WALKDIR_MAX_ENTRIES,
  MaxInstalls,        (* bound: changes to the directories                   *)
  MaxListed           (* bound: no load begins with a longer list            *)

Names == Natives \cup Pythons

KindsOf(f) == IF f \in Natives THEN {"ok", "failinit", "old", "nosym", "broken"}
              ELSE {"ok", "failinit"}

Contents == [Names -> (UNION {KindsOf(f) : f \in Names}) \cup {"none"}]

(* What the constants must satisfy; the MC module assumes it.              *)
ApmAssumption ==
  /\ Dirs \subseteq Nat \ {0} /\ Missing \subseteq Dirs
  /\ PathLen \in [Dirs -> Nat \ {0}] /\ NameLen \in Nat \ {0}
  /\ Natives \cap Pythons = {} /\ Names \subseteq Nat
  /\ Disk0 \in [Dirs -> Contents] /\ \A d \in Missing, f \in Names : Disk0[d][f] = "none"
  /\ SysPath \in Seq(Dirs)
  /\ Searches \subseteq
       [paths : Seq(Dirs), py_paths : Seq(Dirs), slash : BOOLEAN, find : Seq(Names)]
  /\ WALKDIR_MAX_ENTRIES \in Nat \ {0} /\ MaxInstalls \in Nat /\ MaxListed \in Nat

VARIABLES
  disk,       (* the kind of each name in each directory, or "none"          *)
  apm_queue,  (* the loaded modules: name and directory                      *)
  libmain,    (* history: how often libmain of each library succeeded        *)
  imported,   (* Python's sys.modules: the kind of each module, or "none"    *)
  shell,      (* "running", "exited" or "crashed"                            *)
  installs,   (* number of changes to the directories                        *)
  search      (* the last search: the paths given, the directories walked    *)

vars == <<disk, apm_queue, libmain, imported, shell, installs, search>>

Init ==
  /\ disk = Disk0
  /\ apm_queue = << >> /\ libmain = [f \in Natives |-> 0]
  /\ imported = [f \in Pythons |-> "none"]
  /\ shell = "running" /\ installs = 0
  /\ search = [given |-> << >>, walked |-> << >>]

(* External: somebody puts, replaces or removes a file.                    *)
Install(d, f, kind) ==
  /\ installs < MaxInstalls /\ d \notin Missing /\ disk[d][f] # kind
  /\ disk' = [disk EXCEPT ![d][f] = kind]
  /\ installs' = installs + 1
  /\ UNCHANGED <<apm_queue, libmain, imported, shell, search>>

-----------------------------------------------------------------------------
(* apm_queue_add: before the first module whose name is not smaller.  (A   *)
(* name ending in Mut is a deliberately wrong variant.)                    *)
apm_queue_addMut(queue, e) == <<e>> \o queue
apm_queue_add(queue, e) ==
  LET n == Min({i \in 1 .. Len(queue) : queue[i].file >= e.file} \cup {Len(queue) + 1})
  IN  SubSeq(queue, 1, n - 1) \o <<e>> \o SubSeq(queue, n, Len(queue))

-----------------------------------------------------------------------------
(* build_apm_list: which directories are walked.  Of the buffer wpath it   *)
(* matters where it holds a NUL.                                           *)

(* The NULs after the next path was put into wpath: strncpy of its         *)
(* characters for all but the last, strcpy with the NUL for the last.      *)
Copied(nuls, d, is_last) ==
  (nuls \ 1 .. PathLen[d]) \cup (IF is_last THEN {PathLen[d] + 1} ELSE {})

(* opendir: wpath names a directory only if its string ends where the path *)
(* ends.  (The remains of another path behind it name nothing.)            *)
Opens(nuls, d) == d \notin Missing /\ PathLen[d] + 1 \in nuls

(* walkdir appends "/" and each entry to wpath and restores only the NUL   *)
(* behind the path itself.  (Entries have one length here, and "." and     *)
(* ".." are read before them, so that the longer entries cover them.)      *)
AfterWalk(nuls, d) ==
  (nuls \ (PathLen[d] + 2 .. PathLen[d] + NameLen + 1))
    \cup {PathLen[d] + 1, PathLen[d] + NameLen + 2}

NextPath(acc, d, is_last) ==
  LET nuls == Copied(acc.nuls, d, is_last)
  IN  IF Opens(nuls, d)
      THEN [nuls |-> AfterWalk(nuls, d), walked |-> Append(acc.walked, d)]
      ELSE [nuls |-> nuls, walked |-> acc.walked]

(* The buffer is all NULs at first, further than any path reaches.         *)
NoPath == [nuls |-> UNION {1 .. PathLen[d] + NameLen + 2 : d \in Dirs}, walked |-> << >>]

build_apm_list(paths) ==
  LET acc[i \in 0 .. Len(paths)] ==
        IF i = 0 THEN NoPath ELSE NextPath(acc[i - 1], paths[i], i = Len(paths))
  IN  acc[Len(paths)].walked

-----------------------------------------------------------------------------
(* What may be read in the directories, as readdir orders it: the names    *)
(* that are not there do not come up.                                      *)
Entry == [file : Names, dir : Dirs]

Candidates(dirs, order) ==
  LET found[i \in 0 .. Len(dirs)] ==
        IF i = 0 THEN << >>
        ELSE found[i - 1] \o [k \in 1 .. Len(order) |-> [file |-> order[k], dir |-> dirs[i]]]
  IN  found[Len(dirs)]

There(f) == disk[f.dir][f.file] # "none"

Holds(seq, f) == \E i \in DOMAIN seq : seq[i].file = f

(* file_callback: a library, not loaded already and not found in an        *)
(* earlier directory of this search.                                       *)
SkippedMut(libs, f) == Holds(libs, f)
Skipped(libs, f) == Holds(apm_queue, f) \/ Holds(libs, f)

file_callback(libs, f) ==
  IF /\ There(f) /\ Len(libs) < WALKDIR_MAX_ENTRIES
     /\ f.file \in Natives /\ ~Skipped(libs, f.file)
  THEN Append(libs, f) ELSE libs

Libraries(found) ==
  LET libs[i \in 0 .. Len(found)] ==
        IF i = 0 THEN << >> ELSE file_callback(libs[i - 1], found[i])
  IN  libs[Len(found)]

(* load_apm and initialize_apm for one library of the list.  A library     *)
(* that cannot be opened ends the command; one with another version is     *)
(* closed again; one without apm_init_version is dereferenced in load_apm; *)
(* one whose libmain fails takes the shell with it.                        *)
LoadNative(acc, lib) ==
  LET kind == disk[lib.dir][lib.file]
  IN  IF ~acc.go THEN acc
      ELSE CASE kind = "old"      -> acc
             [] kind = "broken"   -> [acc EXCEPT !.go = FALSE]
             [] kind = "nosym"    -> [acc EXCEPT !.go = FALSE, !.shell = "crashed"]
             [] kind = "failinit" -> [acc EXCEPT !.go = FALSE, !.shell = "exited"]
             [] OTHER             -> [acc EXCEPT !.queue = apm_queue_add(@, lib),
                                                 !.libmain[lib.file] = @ + 1]

Natively(libs) ==
  LET acc[i \in 0 .. Len(libs)] ==
        IF i = 0
        THEN [queue |-> apm_queue, libmain |-> libmain, shell |-> "running", go |-> TRUE]
        ELSE LoadNative(acc[i - 1], libs[i])
  IN  acc[Len(libs)]

(* pycsh_load_pymod: a module is imported by its name alone, from          *)
(* sys.modules or else from the first directory of sys.path that has it.   *)
OnSysPath(f) == {i \in 1 .. Len(SysPath) : disk[SysPath[i]][f] # "none"}

pycsh_load_pymod(modules, f) ==
  IF modules[f] # "none" THEN modules[f]
  ELSE IF OnSysPath(f) # {} THEN disk[SysPath[Min(OnSysPath(f))]][f]
  ELSE "none"

(* load_py for one file of a directory; the init function of a module runs *)
(* at every load, and if it succeeds the module is listed.                 *)
LoadPython(acc, mod) ==
  LET kind == pycsh_load_pymod(acc.imported, mod.file)
  IN  IF ~There(mod) \/ mod.file \notin Pythons THEN acc
      ELSE [acc EXCEPT !.imported[mod.file] = kind,
                       !.queue = IF kind = "ok" THEN apm_queue_add(@, mod) ELSE @]

InPython(queue, found) ==
  LET acc[i \in 0 .. Len(found)] ==
        IF i = 0 THEN [queue |-> queue, imported |-> imported]
        ELSE LoadPython(acc[i - 1], found[i])
  IN  acc[Len(found)]

(* apm load.  asked.find are the names that contain the string of -f (all  *)
(* without it), in the order of readdir; asked.paths are the directories   *)
(* searched for libraries, asked.py_paths those for Python modules;        *)
(* without a "/" at the end of the path no Python module is found          *)
(* (~asked.slash).  The result of the first half is replaced by that of    *)
(* the second.                                                             *)
apm_load(asked) ==
  LET walked == build_apm_list(asked.paths)
      native == Natively(Libraries(Candidates(walked, asked.find)))
      both   == IF native.shell = "running" /\ asked.slash
                THEN InPython(native.queue, Candidates(asked.py_paths, asked.find))
                ELSE [queue |-> native.queue, imported |-> imported]
  IN  /\ Len(apm_queue) <= MaxListed
      /\ apm_queue' = both.queue /\ imported' = both.imported
      /\ libmain' = native.libmain /\ shell' = native.shell
      /\ search' = [given |-> asked.paths, walked |-> walked]
      /\ UNCHANGED <<disk, installs>>

-----------------------------------------------------------------------------
Next ==
  /\ shell = "running"
  /\ \/ \E d \in Dirs, f \in Names : \E kind \in KindsOf(f) \cup {"none"} : Install(d, f, kind)
     \/ \E asked \in Searches : apm_load(asked)

Spec == Init /\ [][Next]_vars

-----------------------------------------------------------------------------
(* Properties.                                                             *)

(* Types, part of ListedInOrder.                                           *)
TypeOK ==
  /\ disk \in [Dirs -> Contents]
  /\ apm_queue \in Seq(Entry)
  /\ shell \in {"running", "exited", "crashed"} /\ installs \in 0 .. MaxInstalls

(* The list stays in the order of the names, whatever is loaded, by either *)
(* loader and however often; entries of one name can only be those of a    *)
(* Python module, which is loaded again each time.                         *)
ListedInOrder ==
  /\ TypeOK
  /\ \A i \in 1 .. Len(apm_queue) - 1 :
       apm_queue[i].file < apm_queue[i + 1].file
         \/ (apm_queue[i].file = apm_queue[i + 1].file /\ apm_queue[i].file \in Pythons)

(* While the shell lives, libmain of a library has run exactly as often as *)
(* the library is listed, which is at most once -- over all loads, with    *)
(* libraries replaced between them and directories that share names.       *)
LibmainOnce ==
  \A f \in Natives :
    /\ libmain[f] = Cardinality({i \in DOMAIN apm_queue : apm_queue[i].file = f})
    /\ libmain[f] <= 1

(* "Search paths separated by ';'" (help of apm load -p): every directory  *)
(* given that exists is searched.                                          *)
EveryPathWalked == ToSet(search.given) \ Missing \subseteq ToSet(search.walked)
=============================================================================
