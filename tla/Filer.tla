------------------------------- MODULE Filer --------------------------------
(***************************************************************************)
(* utils/Filer.{h,cpp} and what HttpConn::onRequest and                    *)
(* HylChan::processWrite do with it: the file of a response is looked up   *)
(* in the cache, and then sent in as many calls as the socket needs.  One  *)
(* connection at a time; the cache outlives it.                            *)
(***************************************************************************)
EXTENDS MmapManager, Integers, Sequences

CONSTANT Word  \* number of values of a size_t

(* What a response says of the file that follows it.                      *)
Announcement == [file : Inode, size : 0 .. MaxSize]

ASSUME FilerAssumption == Word \in Nat /\ Word > MaxSize /\ None \notin Announcement

VARIABLES
  mmaper_,   \* name of the file the Filer holds, or None (Filer not started)
  size_,
  offset_,
  left_,
  cpFd,      \* the file sendBigFile has opened, or None
  turn,      \* what processWrite does next: "read" a request, "write", or "none"
  head,      \* history: file and size announced by the response, or None
  wire,      \* history: what the Filer has sent behind it since offset 0
  whole      \* history: has it been sent completely?

filerVars == <<mmaper_, size_, offset_, left_, cpFd>>
history == <<head, wire, whole>>
vars == <<diskVars, cacheVars, filerVars, turn, history>>

TypeOK ==
  /\ CacheTypeOK
  /\ mmaper_ \in Path \cup {None}
  /\ size_ \in 0 .. MaxSize
  /\ offset_ \in Nat
  /\ left_ \in 0 .. Word - 1
  /\ cpFd \in Inode \cup {"dir", None}
  /\ turn \in {"read", "write", "none"}
  /\ head \in Announcement \cup {None}
  /\ wire \in Seq((Inode \cup {None}) \X Nat)
  /\ whole \in BOOLEAN

FilerInit ==
  /\ mmaper_ = None
  /\ size_ = 0
  /\ offset_ = 0
  /\ left_ = 0
  /\ cpFd = None

Init ==
  /\ CacheInit
  /\ FilerInit
  /\ turn = "read"
  /\ head = None
  /\ wire = <<>>
  /\ whole = FALSE

Held == mmap_manager_[mmaper_]
Big == size_ >= BIG_FILE_SIZE

-----------------------------------------------------------------------------

(* exchange and init: offset_ and cpFd stay as they are.                   *)
ExchangeKeepsLeft(p, m) ==
  /\ mmaper_' = p
  /\ size_' = m.st_size_
  /\ UNCHANGED <<left_, offset_, cpFd>>
Exchange(p, m) ==
  /\ mmaper_' = p
  /\ size_' = m.st_size_
  /\ left_' = m.st_size_
  /\ UNCHANGED <<offset_, cpFd>>

(* onRequest: a file, or a page that says why there is none.               *)
Request(p, m) ==
  /\ turn = "read"
  /\ GetFiler(p, m)
  /\ IF m.state_ = "kStart"
       THEN Exchange(p, m) /\ head' = [file |-> m.fileFd_, size |-> m.st_size_]
       ELSE UNCHANGED filerVars /\ head' = None
  /\ wire' = <<>>
  /\ whole' = FALSE
  /\ turn' = "write"

(* The byte of file f at position p; a mapping has a zero there, if the    *)
(* file has been cut off before p since.                                   *)
Byte(f, p) == <<IF p < length[f] THEN f ELSE None, p>>

Bytes(f, n) == [i \in 1 .. n |-> Byte(f, offset_ + i - 1)]

(* n bytes of file f from offset_ on go to the socket; then the end of     *)
(* Filer::send.  resetRWPtr comes before the result, which is 0 for an     *)
(* empty file only.  left_ is a size_t.                                    *)
SentForgetsOffset(f, n) ==
  LET left == (left_ - n) % Word IN
  /\ offset_' = offset_ + n
  /\ left_' = IF left = 0 THEN size_ ELSE left
  /\ turn' = IF left_' = 0 THEN "read" ELSE "write"
  /\ wire' = IF left = 0 THEN <<>> ELSE wire \o Bytes(f, n)
  /\ whole' = (whole \/ left = 0)

SentSigned(f, n) ==
  LET left == left_ - n IN
  /\ offset_' = IF left = 0 THEN 0 ELSE offset_ + n
  /\ left_' = IF left = 0 THEN size_ ELSE left
  /\ turn' = IF left_' = 0 THEN "read" ELSE "write"
  /\ wire' = IF left = 0 THEN <<>> ELSE wire \o Bytes(f, n)
  /\ whole' = (whole \/ left = 0)

Sent(f, n) ==
  LET left == (left_ - n) % Word IN
  /\ offset_' = IF left = 0 THEN 0 ELSE offset_ + n
  /\ left_' = IF left = 0 THEN size_ ELSE left
  /\ turn' = IF left_' = 0 THEN "read" ELSE "write"
  /\ wire' = IF left = 0 THEN <<>> ELSE wire \o Bytes(f, n)
  /\ whole' = (whole \/ left = 0)

(* sendSmallFile: the socket takes n bytes; fewer than are left, when it   *)
(* is full, or when a page of the mapping has no file behind it any more.  *)
SendSmallFile(n) ==
  /\ turn = "write"
  /\ mmaper_ # None
  /\ ~Big
  /\ n \in 0 .. left_
  /\ \E ok \in BOOLEAN : GetMap(mmaper_, ok) /\ (~ok => n = 0)
  /\ Sent(Held.fileFd_, n)
  /\ UNCHANGED <<diskVars, touched, openFiles, mmaper_, size_, cpFd, head>>

(* sendBigFile: up to the end of the file it has opened, however many      *)
(* bytes are left.                                                         *)
SendBigFileReopens(n) ==
  /\ turn = "write"
  /\ mmaper_ # None
  /\ Big
  /\ cpFd' \in GetFdResults(mmaper_)
  /\ openFiles' = openFiles + (IF cpFd' # None THEN 1 ELSE 0)
  /\ n > 0 => cpFd' \in Inode /\ offset_ + n <= length[cpFd']
  /\ Sent(cpFd', n)
  /\ UNCHANGED <<diskVars, touched, mmap_manager_, mmaper_, size_, head>>

SendBigFile(n) ==
  /\ turn = "write"
  /\ mmaper_ # None
  /\ Big
  /\ IF cpFd # None THEN UNCHANGED <<cpFd, openFiles>>
     ELSE /\ cpFd' \in GetFdResults(mmaper_)
          /\ openFiles' = openFiles + (IF cpFd' # None THEN 1 ELSE 0)
  /\ n > 0 => cpFd' \in Inode /\ offset_ + n <= length[cpFd']
  /\ Sent(cpFd', n)
  /\ UNCHANGED <<diskVars, touched, mmap_manager_, mmaper_, size_, head>>

(* The Filer was never started: send returns -1.                           *)
SendNothing ==
  /\ turn = "write"
  /\ mmaper_ = None
  /\ turn' = "none"
  /\ UNCHANGED <<diskVars, cacheVars, filerVars, history>>

(* The connection ends (~Filer), and another one begins.                   *)
Reconnect ==
  /\ openFiles' = openFiles - (IF cpFd # None THEN 1 ELSE 0)
  /\ mmaper_' = None
  /\ size_' = 0
  /\ offset_' = 0
  /\ left_' = 0
  /\ cpFd' = None
  /\ turn' = "read"
  /\ head' = None
  /\ wire' = <<>>
  /\ whole' = FALSE
  /\ UNCHANGED <<diskVars, touched, mmap_manager_>>

Send(n) == SendSmallFile(n) \/ SendBigFile(n)

Next ==
  \/ \E p \in Path : \E m \in InitResults(p) \cup {mmap_manager_[p]} : Request(p, m)
  \/ \E n \in 0 .. MaxSize : Send(n)
  \/ SendNothing
  \/ Reconnect
  \/ DiskChanges /\ UNCHANGED <<filerVars, turn, history>>

(* processWrite is called again as long as it re-arms the descriptor, and  *)
(* a client that stays reads what it is sent: attempts to send succeed     *)
(* again and again.                                                        *)
Fairness ==
  /\ WF_vars(\E n \in 0 .. MaxSize : Send(n))
  /\ SF_vars(\E n \in 1 .. MaxSize : Send(n))

Spec == Init /\ [][Next]_vars /\ Fairness

-----------------------------------------------------------------------------

(* The cached size and the opened files are those of the file on disk: no  *)
(* change since the name was first asked for.                              *)
Steady == mmaper_ \notin touched

(* What follows a response on the wire is the file it announced, from its  *)
(* first byte on, in order, and not more than it announced (Filer.cpp:30,  *)
(* 53, Filer.h:90, HttpConn.cpp:170).  For a file that is mapped whatever  *)
(* happens to the file meanwhile, but for zeros in place of the bytes that *)
(* the file has lost since it was cached (Mmaper.cpp:55, Filer.cpp:31).    *)
WireIsFile ==
  wire # <<>> /\ (Big => Steady) =>
    /\ head # None
    /\ Len(wire) <= head.size
    /\ \A i \in DOMAIN wire :
         \/ wire[i] = <<head.file, i - 1>>
         \/ ~Steady /\ wire[i] = <<None, i - 1>>

(* The descriptors of the process are those of the cache, one for a name,  *)
(* and the one of the Filer (Mmaper.cpp:38, Filer.h:55, Filer.cpp:44).     *)
FilesAreOwned ==
  openFiles = Cardinality({p \in Path : Cached(p) /\ mmap_manager_[p].fileFd_ # None})
              + (IF cpFd # None THEN 1 ELSE 0)

(* A name that has been answered once is answered the same for ever: the   *)
(* cache never looks at the file system again (MmapManager.h:16).          *)
AnswersAreFinal ==
  [][\A p \in Path : Cached(p) =>
       /\ Cached(p)'
       /\ mmap_manager_'[p].state_ = mmap_manager_[p].state_
       /\ mmap_manager_'[p].st_size_ = mmap_manager_[p].st_size_]_vars

(* A file that does not change is sent completely if the client goes on    *)
(* reading: processWrite and Filer::send neither stop too early nor        *)
(* starve (Filer.h:71-81, HylChan.cpp:100-103).                            *)
FileIsCompleted ==
  (turn = "write" /\ head # None /\ Steady)
    ~> (whole \/ head = None \/ ~Steady)

=============================================================================
