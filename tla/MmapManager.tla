---------------------------- MODULE MmapManager -----------------------------
(***************************************************************************)
(* utils/MmapManager.h and utils/Mmaper.{h,cpp}: the cache of files, one   *)
(* Mmaper for every name that was ever asked for, over a file system that  *)
(* others change.  getFiler and the functions of Mmaper are only called    *)
(* by tasks, which the pool executes one at a time (module ThreadPoll), so *)
(* each call is one step.                                                  *)
(***************************************************************************)
EXTENDS Naturals, FiniteSets

CONSTANTS
  Path,           \* file names
  Inode,          \* files
  None,           \* no file, no Mmaper
  MaxSize,        \* bound: size of a file
  MaxChanges,     \* bound: changes of the file system
  BIG_FILE_SIZE   \* files of this size are sent by sendfile (2^30)

VARIABLES
  names,          \* what each name stands for
  length,         \* size of each file
  changes,        \* number of changes so far
  touched,        \* history: names whose file has changed since it was cached
  openFiles,      \* number of file descriptors the process has open
  mmap_manager_   \* the Mmaper of each name, or None

diskVars == <<names, length, changes>>
cacheVars == <<touched, openFiles, mmap_manager_>>

Target == Inode \cup {"missing", "forbidden", "dir"}

MmaperState == {"kNone", "kNotFound", "kForbidden", "kUnavailable", "kStart"}

Mmaper == [state_   : MmaperState,
           fileFd_  : Inode \cup {"dir", None},
           st_size_ : 0 .. MaxSize,
           fileMap_ : BOOLEAN]  \* is the file mapped?

ASSUME MmapManagerAssumption ==
  /\ IsFiniteSet(Path)
  /\ None \notin Path
  /\ None \notin Inode
  /\ None \notin Mmaper
  /\ None # "dir"
  /\ Inode \cap {"missing", "forbidden", "dir"} = {}
  /\ MaxSize \in Nat
  /\ MaxChanges \in Nat
  /\ BIG_FILE_SIZE \in Nat \ {0}

CacheTypeOK ==
  /\ names \in [Path -> Target]
  /\ length \in [Inode -> 0 .. MaxSize]
  /\ changes \in 0 .. MaxChanges
  /\ touched \subseteq Path
  /\ openFiles \in Nat
  /\ mmap_manager_ \in [Path -> Mmaper \cup {None}]

CacheInit ==
  /\ names \in [Path -> Target]
  /\ length \in [Inode -> 0 .. MaxSize]
  /\ changes = 0
  /\ touched = {}
  /\ openFiles = 0
  /\ mmap_manager_ = [p \in Path |-> None]

-----------------------------------------------------------------------------

New(state, fd, size) ==
  [state_ |-> state, fileFd_ |-> fd, st_size_ |-> size, fileMap_ |-> FALSE]

(* Mmaper::init: open and fstat, which can also fail for reasons that have *)
(* nothing to do with the file; then no descriptor stays open.  open       *)
(* succeeds for a directory, and then the state stays kNone.               *)
InitResults(p) ==
  {New("kUnavailable", None, 0)} \cup
  CASE names[p] = "missing"   -> {New("kNotFound", None, 0)}
    [] names[p] = "forbidden" -> {New("kForbidden", None, 0)}
    [] names[p] = "dir"       -> {New("kNone", "dir", 0)}
    [] names[p] \in Inode     -> {New("kStart", names[p], length[names[p]])}

(* getFiler returns m: the Mmaper of the cache, or a new one.              *)
GetFilerAnew(p, m) ==
  /\ m \in InitResults(p)
  /\ mmap_manager_' = [mmap_manager_ EXCEPT ![p] = m]
  /\ openFiles' = openFiles + (IF m.fileFd_ # None THEN 1 ELSE 0)
  /\ UNCHANGED <<diskVars, touched>>

GetFiler(p, m) ==
  IF mmap_manager_[p] # None
    THEN m = mmap_manager_[p] /\ UNCHANGED <<diskVars, cacheVars>>
    ELSE GetFilerAnew(p, m)

(* getMap maps the file unless it is mapped, and returns nullptr when that *)
(* fails; it always fails for an empty file.                               *)
GetMap(p, ok) ==
  /\ ok => mmap_manager_[p].st_size_ > 0
  /\ mmap_manager_[p].fileMap_ => ok
  /\ mmap_manager_' = [mmap_manager_ EXCEPT ![p].fileMap_ = ok]

(* getFd opens the file by its name once more.                             *)
GetFdResults(p) == {None} \cup (IF names[p] \in Inode \cup {"dir"} THEN {names[p]} ELSE {})

-----------------------------------------------------------------------------
(* Others change the file system.                                          *)

Cached(p) == mmap_manager_[p] # None

Rename(p, target) ==
  /\ changes < MaxChanges
  /\ target # names[p]
  /\ names' = [names EXCEPT ![p] = target]
  /\ changes' = changes + 1
  /\ touched' = IF Cached(p) THEN touched \cup {p} ELSE touched
  /\ UNCHANGED <<length, openFiles, mmap_manager_>>

Resize(i, n) ==
  /\ changes < MaxChanges
  /\ n # length[i]
  /\ length' = [length EXCEPT ![i] = n]
  /\ changes' = changes + 1
  /\ touched' = touched \cup {p \in Path : Cached(p) /\ mmap_manager_[p].fileFd_ = i}
  /\ UNCHANGED <<names, openFiles, mmap_manager_>>

DiskChanges ==
  \/ \E p \in Path, target \in Target : Rename(p, target)
  \/ \E i \in Inode, n \in 0 .. MaxSize : Resize(i, n)

=============================================================================
