---------------------------- MODULE FilerProofs -----------------------------
(***************************************************************************)
(* For files of every size and however the file system changes: what       *)
(* follows a response is the file it announced, the cache never takes an   *)
(* answer back, and no descriptor is lost.                                 *)
(***************************************************************************)
EXTENDS Filer, FiniteSetTheorems, TLAPS

(* The cache: it holds the files as they were when they were asked for.    *)
CacheInv ==
  \A p \in Path : Cached(p) /\ mmap_manager_[p].state_ = "kStart" =>
    /\ mmap_manager_[p].fileFd_ \in Inode
    /\ p \notin touched =>
         /\ names[p] = mmap_manager_[p].fileFd_
         /\ length[names[p]] = mmap_manager_[p].st_size_

(* The Filer: not started, or it has the file of an entry of the cache.    *)
Idle == size_ = 0 /\ offset_ = 0 /\ left_ = 0 /\ cpFd = None

Holds ==
  /\ mmaper_ # None
  /\ Cached(mmaper_)
  /\ Held.state_ = "kStart"
  /\ size_ = Held.st_size_

FilerInv ==
  /\ mmaper_ = None => Idle /\ head = None /\ wire = <<>>
  /\ mmaper_ # None => Holds
  /\ head = None => size_ = 0
  /\ head # None => mmaper_ # None /\ head = [file |-> Held.fileFd_, size |-> size_]
  /\ turn = "read" => size_ = 0
  /\ cpFd # None => Big
  /\ cpFd # None /\ Steady => cpFd = Held.fileFd_

(* How far the Filer is, as long as it can be told.                        *)
Known == Big => Steady

ProgressInv ==
  Known =>
    /\ offset_ + left_ = size_
    /\ Len(wire) = offset_
    /\ \A i \in DOMAIN wire : wire[i] = <<Held.fileFd_, i - 1>> \/ (~Steady /\ wire[i] = <<None, i - 1>>)

(* The names whose Mmaper has a file descriptor.                           *)
OwnedNames == {p \in Path : Cached(p) /\ mmap_manager_[p].fileFd_ # None}

IInv == TypeOK /\ CacheInv /\ FilesAreOwned /\ FilerInv /\ ProgressInv

-----------------------------------------------------------------------------

LEMMA Owned ==
  /\ FilesAreOwned <=>
       openFiles = Cardinality(OwnedNames) + (IF cpFd # None THEN 1 ELSE 0)
  /\ FilesAreOwned' <=>
       openFiles' = Cardinality(OwnedNames') + (IF cpFd' # None THEN 1 ELSE 0)
BY DEF FilesAreOwned, OwnedNames

LEMMA InitIInv == Init => IInv
<1> SUFFICES ASSUME Init PROVE IInv
  OBVIOUS
<1>1. TypeOK
  <2>1. CacheTypeOK
    BY MmapManagerAssumption DEF Init, CacheInit, CacheTypeOK
  <2>2. 0 \in 0 .. MaxSize /\ 0 \in 0 .. Word - 1
    BY MmapManagerAssumption, FilerAssumption
  <2>3. <<>> \in Seq((Inode \cup {None}) \X Nat)
    OBVIOUS
  <2>4. /\ mmaper_ \in Path \cup {None}
        /\ size_ \in 0 .. MaxSize
        /\ offset_ \in Nat
        /\ left_ \in 0 .. Word - 1
        /\ cpFd \in Inode \cup {"dir", None}
    BY <2>2 DEF Init, FilerInit
  <2>5. /\ turn \in {"read", "write", "none"}
        /\ head \in Announcement \cup {None}
        /\ wire \in Seq((Inode \cup {None}) \X Nat)
        /\ whole \in BOOLEAN
    BY <2>3 DEF Init
  <2> QED BY <2>1, <2>4, <2>5 DEF TypeOK
<1>2. CacheInv
  BY DEF Init, CacheInit, CacheInv, Cached
<1>3. ~Big
  BY MmapManagerAssumption DEF Init, FilerInit, Big
<1>4. FilerInv
  BY DEF Init, FilerInit, FilerInv, Idle
<1>5. ProgressInv
  BY <1>3 DEF Init, FilerInit, ProgressInv
<1>6. FilesAreOwned
  <2>1. OwnedNames = {}
    BY DEF Init, CacheInit, OwnedNames, Cached
  <2>2. Cardinality(OwnedNames) = 0
    BY <2>1, FS_EmptySet
  <2> QED BY <2>2, Owned DEF Init, CacheInit, FilerInit
<1> QED BY <1>1, <1>2, <1>4, <1>5, <1>6 DEF IInv

(* init makes a Mmaper, whose file is one of the disk when it says so.     *)
LEMMA InitResult ==
  ASSUME CacheTypeOK, NEW p \in Path, NEW m \in InitResults(p)
  PROVE  /\ m \in Mmaper
         /\ m # None
         /\ m.state_ = "kStart" =>
              m.fileFd_ \in Inode /\ names[p] = m.fileFd_ /\ length[names[p]] = m.st_size_
<1>1. names[p] \in Target
  BY DEF CacheTypeOK
<1>2. ASSUME NEW st \in MmaperState, NEW fd \in Inode \cup {"dir", None},
             NEW size \in 0 .. MaxSize
      PROVE  /\ New(st, fd, size) \in Mmaper
             /\ New(st, fd, size).state_ = st
             /\ New(st, fd, size).fileFd_ = fd
             /\ New(st, fd, size).st_size_ = size
  BY DEF New, Mmaper
<1>3. 0 \in 0 .. MaxSize /\ None \in Inode \cup {"dir", None}
  BY MmapManagerAssumption
<1>4. \/ m \in {New("kUnavailable", None, 0), New("kNotFound", None, 0),
               New("kForbidden", None, 0), New("kNone", "dir", 0)}
      \/ names[p] \in Inode /\ m = New("kStart", names[p], length[names[p]])
  <2>1. CASE names[p] = "missing"
    BY <2>1 DEF InitResults
  <2>2. CASE names[p] = "forbidden"
    BY <2>2 DEF InitResults
  <2>3. CASE names[p] = "dir"
    BY <2>3 DEF InitResults
  <2>4. CASE names[p] \in Inode
    <3>1. names[p] \notin {"missing", "forbidden", "dir"}
      BY <2>4, MmapManagerAssumption
    <3> QED BY <2>4, <3>1 DEF InitResults
  <2> QED BY <1>1, <2>1, <2>2, <2>3, <2>4 DEF Target
<1>5. m \in Mmaper /\ (m.state_ = "kStart" =>
        m.fileFd_ \in Inode /\ names[p] = m.fileFd_ /\ length[names[p]] = m.st_size_)
  <2>1. CASE m \in {New("kUnavailable", None, 0), New("kNotFound", None, 0),
                    New("kForbidden", None, 0), New("kNone", "dir", 0)}
    BY <1>2, <1>3, <2>1 DEF MmaperState
  <2>2. CASE names[p] \in Inode /\ m = New("kStart", names[p], length[names[p]])
    <3>1. length[names[p]] \in 0 .. MaxSize
      BY <2>2 DEF CacheTypeOK
    <3> QED BY <1>2, <2>2, <3>1 DEF MmaperState
  <2> QED BY <1>4, <2>1, <2>2
<1> QED BY <1>5, MmapManagerAssumption

LEMMA OwnedIsFinite ==
  /\ IsFiniteSet(OwnedNames) /\ Cardinality(OwnedNames) \in Nat
  /\ IsFiniteSet(OwnedNames') /\ Cardinality(OwnedNames') \in Nat
<1>1. OwnedNames \subseteq Path /\ OwnedNames' \subseteq Path
  BY DEF OwnedNames
<1> QED BY <1>1, MmapManagerAssumption, FS_Subset, FS_CardinalityType

(* getFiler leaves the entry it returns in the cache, and the others alone. *)
LEMMA GetFilerResult ==
  ASSUME CacheTypeOK, CacheInv, NEW p \in Path, NEW m, GetFiler(p, m)
  PROVE  /\ CacheTypeOK'
         /\ CacheInv'
         /\ m \in Mmaper
         /\ m # None
         /\ mmap_manager_' = [mmap_manager_ EXCEPT ![p] = m]
         /\ m.state_ = "kStart" => m.fileFd_ \in Inode
         /\ UNCHANGED <<diskVars, touched>>
         /\ Cached(p) => m = mmap_manager_[p]
<1>1. CASE mmap_manager_[p] # None
  <2>1. m = mmap_manager_[p] /\ UNCHANGED <<diskVars, cacheVars>>
    BY <1>1 DEF GetFiler
  <2>2. CacheTypeOK' /\ CacheInv'
    BY <2>1 DEF CacheTypeOK, CacheInv, Cached, diskVars, cacheVars
  <2> QED BY <1>1, <2>1, <2>2 DEF CacheTypeOK, CacheInv, Cached, diskVars, cacheVars
<1>2. CASE mmap_manager_[p] = None
  <2>1. GetFilerAnew(p, m)
    BY <1>2 DEF GetFiler
  <2>2. /\ m \in InitResults(p)
        /\ mmap_manager_' = [mmap_manager_ EXCEPT ![p] = m]
        /\ openFiles' = openFiles + (IF m.fileFd_ # None THEN 1 ELSE 0)
        /\ UNCHANGED <<names, length, changes, touched>>
    BY <2>1 DEF GetFilerAnew, diskVars
  <2>3. /\ m \in Mmaper
        /\ m # None
        /\ m.state_ = "kStart" =>
             m.fileFd_ \in Inode /\ names[p] = m.fileFd_ /\ length[names[p]] = m.st_size_
    BY <2>2, InitResult
  <2>4. CacheTypeOK'
    BY <2>2, <2>3 DEF CacheTypeOK
  <2>5. CacheInv'
    BY <2>2, <2>3 DEF CacheTypeOK, CacheInv, Cached
  <2> QED BY <1>2, <2>2, <2>3, <2>4, <2>5 DEF Cached, diskVars
<1> QED BY <1>1, <1>2

(* getFiler opens a file exactly when it makes a name own one.             *)
LEMMA GetFilerOwns ==
  ASSUME CacheTypeOK, NEW p \in Path, NEW m, GetFiler(p, m)
  PROVE  openFiles' - openFiles = Cardinality(OwnedNames') - Cardinality(OwnedNames)
<1>1. CASE mmap_manager_[p] # None
  <2>1. UNCHANGED <<mmap_manager_, openFiles>>
    BY <1>1 DEF GetFiler, cacheVars
  <2>2. OwnedNames' = OwnedNames
    BY <2>1 DEF OwnedNames, Cached
  <2> QED BY <2>1, <2>2, OwnedIsFinite DEF CacheTypeOK
<1>2. CASE mmap_manager_[p] = None
  <2>1. /\ m \in InitResults(p)
        /\ mmap_manager_' = [mmap_manager_ EXCEPT ![p] = m]
        /\ openFiles' = openFiles + (IF m.fileFd_ # None THEN 1 ELSE 0)
    BY <1>2 DEF GetFiler, GetFilerAnew
  <2>2. m # None
    BY <2>1, InitResult
  <2>3. p \notin OwnedNames
    BY <1>2 DEF OwnedNames, Cached
  <2>4. OwnedNames' = IF m.fileFd_ # None THEN OwnedNames \cup {p} ELSE OwnedNames
    BY <1>2, <2>1, <2>2 DEF OwnedNames, Cached, CacheTypeOK
  <2>5. m.fileFd_ # None => Cardinality(OwnedNames') = Cardinality(OwnedNames) + 1
    BY <2>3, <2>4, OwnedIsFinite, FS_AddElement
  <2> QED BY <2>1, <2>4, <2>5, OwnedIsFinite DEF CacheTypeOK
<1> QED BY <1>1, <1>2

(* getMap changes nothing that a reader of the entry sees but fileMap_.    *)
LEMMA GetMapResult ==
  ASSUME CacheTypeOK, NEW p \in Path, Cached(p), NEW ok \in BOOLEAN, GetMap(p, ok)
  PROVE  /\ mmap_manager_' \in [Path -> Mmaper \cup {None}]
         /\ \A q \in Path :
              /\ Cached(q)' = Cached(q)
              /\ mmap_manager_'[q].state_ = mmap_manager_[q].state_
              /\ mmap_manager_'[q].fileFd_ = mmap_manager_[q].fileFd_
              /\ mmap_manager_'[q].st_size_ = mmap_manager_[q].st_size_
         /\ OwnedNames' = OwnedNames
<1> DEFINE m == [mmap_manager_[p] EXCEPT !.fileMap_ = ok]
<1>1. mmap_manager_' = [mmap_manager_ EXCEPT ![p] = m]
  BY DEF GetMap
<1>2. mmap_manager_[p] \in Mmaper
  BY DEF CacheTypeOK, Cached
<1>3. /\ m \in Mmaper
      /\ m.state_ = mmap_manager_[p].state_
      /\ m.fileFd_ = mmap_manager_[p].fileFd_
      /\ m.st_size_ = mmap_manager_[p].st_size_
  BY <1>2 DEF Mmaper
<1>4. m # None
  BY <1>3, MmapManagerAssumption
<1> HIDE DEF m
<1>5. /\ mmap_manager_' \in [Path -> Mmaper \cup {None}]
      /\ \A q \in Path :
           /\ Cached(q)' = Cached(q)
           /\ mmap_manager_'[q].state_ = mmap_manager_[q].state_
           /\ mmap_manager_'[q].fileFd_ = mmap_manager_[q].fileFd_
           /\ mmap_manager_'[q].st_size_ = mmap_manager_[q].st_size_
  BY <1>1, <1>2, <1>3, <1>4, MmapManagerAssumption DEF CacheTypeOK, Cached
<1>6. OwnedNames' = OwnedNames
  BY <1>5 DEF OwnedNames
<1> QED BY <1>5, <1>6

-----------------------------------------------------------------------------
(* The end of Filer::send.                                                 *)

LEMMA SmallRemainder ==
  ASSUME NEW w \in Nat, NEW x \in 0 .. w - 1
  PROVE  x % w = x
OBVIOUS

LEMMA Concatenation ==
  ASSUME NEW S, NEW a \in Seq(S), NEW b \in Seq(S)
  PROVE  /\ a \o b \in Seq(S)
         /\ Len(a \o b) = Len(a) + Len(b)
         /\ \A i \in 1 .. Len(a) + Len(b) :
              (a \o b)[i] = IF i <= Len(a) THEN a[i] ELSE b[i - Len(a)]
OBVIOUS

LEMMA SentBytes ==
  ASSUME NEW f, NEW n \in Nat, n > 0 => f \in Inode,
         offset_ \in Nat
  PROVE  /\ Bytes(f, n) \in Seq((Inode \cup {None}) \X Nat)
         /\ Len(Bytes(f, n)) = n
         /\ \A i \in 1 .. n : Bytes(f, n)[i] = Byte(f, offset_ + i - 1)
<1>1. Bytes(f, n) = [i \in 1 .. n |-> <<IF offset_ + i - 1 < length[f] THEN f ELSE None, offset_ + i - 1>>]
  BY DEF Byte, Bytes
<1>2. \A i \in 1 .. n :
        <<IF offset_ + i - 1 < length[f] THEN f ELSE None, offset_ + i - 1>>
          \in (Inode \cup {None}) \X Nat
  OBVIOUS
<1>3. Bytes(f, n) \in Seq((Inode \cup {None}) \X Nat) /\ Len(Bytes(f, n)) = n
  BY ONLY <1>1, <1>2, n \in Nat
<1>4. \A i \in 1 .. n : Bytes(f, n)[i] = Byte(f, offset_ + i - 1)
  BY <1>1 DEF Byte
<1> QED BY <1>3, <1>4

LEMMA SentTypes ==
  ASSUME TypeOK, NEW f, NEW n \in 0 .. MaxSize, Sent(f, n), n > 0 => f \in Inode
  PROVE  /\ offset_' \in Nat
         /\ left_' \in 0 .. Word - 1
         /\ turn' \in {"read", "write"}
         /\ turn' = "read" => size_ = 0
         /\ wire' \in Seq((Inode \cup {None}) \X Nat)
         /\ whole' \in BOOLEAN
<1> DEFINE left == (left_ - n) % Word
           sent == Bytes(f, n)
<1>1. /\ offset_' = IF left = 0 THEN 0 ELSE offset_ + n
      /\ left_' = IF left = 0 THEN size_ ELSE left
      /\ turn' = IF left_' = 0 THEN "read" ELSE "write"
      /\ wire' = IF left = 0 THEN <<>> ELSE wire \o sent
      /\ whole' = (whole \/ left = 0)
  BY DEF Sent
<1>2. /\ MaxSize \in Nat /\ Word \in Nat /\ Word > MaxSize
      /\ offset_ \in Nat /\ left_ \in 0 .. Word - 1 /\ size_ \in 0 .. MaxSize
      /\ wire \in Seq((Inode \cup {None}) \X Nat) /\ whole \in BOOLEAN
  BY MmapManagerAssumption, FilerAssumption DEF TypeOK
<1>3. left \in 0 .. Word - 1
  BY <1>2
<1>4. sent \in Seq((Inode \cup {None}) \X Nat)
  <2>1. n \in Nat
    BY <1>2
  <2> QED BY <1>2, <2>1, SentBytes
<1> HIDE DEF left, sent
<1>5. wire \o sent \in Seq((Inode \cup {None}) \X Nat)
  BY <1>2, <1>4
<1>6. offset_' \in Nat /\ left_' \in 0 .. Word - 1
  BY <1>1, <1>2, <1>3
<1>7. turn' \in {"read", "write"} /\ (turn' = "read" => size_ = 0)
  BY <1>1
<1>8. wire' \in Seq((Inode \cup {None}) \X Nat)
  BY <1>1, <1>5
<1>9. whole' \in BOOLEAN
  BY <1>1
<1> QED BY <1>6, <1>7, <1>8, <1>9

(* n bytes of the file that was sent before, and no more than are left of  *)
(* it; zeros are among them only if the file has lost bytes.               *)
LEMMA SentProgress ==
  ASSUME TypeOK, NEW f, NEW g, NEW n \in 0 .. left_, Sent(f, n), n > 0 => f \in Inode /\ f = g,
         offset_ + left_ = size_,
         Len(wire) = offset_,
         \A i \in DOMAIN wire : wire[i] = <<g, i - 1>> \/ (~Steady /\ wire[i] = <<None, i - 1>>),
         Steady => length[g] = size_
  PROVE  /\ offset_' + left_' = size_
         /\ Len(wire') = offset_'
         /\ \A i \in DOMAIN wire' : wire'[i] = <<g, i - 1>> \/ (~Steady /\ wire'[i] = <<None, i - 1>>)
<1> DEFINE left == (left_ - n) % Word
           sent == Bytes(f, n)
<1>1. /\ offset_' = IF left = 0 THEN 0 ELSE offset_ + n
      /\ left_' = IF left = 0 THEN size_ ELSE left
      /\ wire' = IF left = 0 THEN <<>> ELSE wire \o sent
  BY DEF Sent
<1>2. /\ MaxSize \in Nat /\ Word \in Nat /\ Word > MaxSize
      /\ offset_ \in Nat /\ left_ \in 0 .. Word - 1 /\ size_ \in 0 .. MaxSize
      /\ wire \in Seq((Inode \cup {None}) \X Nat)
  BY MmapManagerAssumption, FilerAssumption DEF TypeOK
<1>3. left = left_ - n
  <2>1. left_ - n \in 0 .. Word - 1
    BY <1>2
  <2> QED BY <1>2, <2>1, SmallRemainder
<1>4. CASE left = 0
  <2>1. wire' = <<>> /\ offset_' = 0 /\ left_' = size_
    BY ONLY <1>1, <1>4
  <2>2. \A i \in DOMAIN wire' : wire'[i] = <<g, i - 1>> \/ (~Steady /\ wire'[i] = <<None, i - 1>>)
    BY <2>1
  <2> QED BY <1>2, <2>1, <2>2
<1>5. CASE left # 0
  <2>1. n \in Nat
    BY <1>2
  <2>2. /\ sent \in Seq((Inode \cup {None}) \X Nat)
        /\ Len(sent) = n
        /\ \A i \in 1 .. n : sent[i] = Byte(f, offset_ + i - 1)
    <3>1. n > 0 => f \in Inode
      OBVIOUS
    <3> QED BY ONLY <1>2, <2>1, <3>1, SentBytes
  <2> HIDE DEF left, sent
  <2>3. /\ wire' = wire \o sent
        /\ Len(wire') = offset_ + n
        /\ DOMAIN wire = 1 .. offset_
        /\ DOMAIN wire' = 1 .. offset_ + n
        /\ \A i \in 1 .. offset_ + n :
             wire'[i] = IF i <= offset_ THEN wire[i] ELSE sent[i - offset_]
    <3>1. wire' = wire \o sent
      BY <1>1, <1>5
    <3>2. /\ wire' \in Seq((Inode \cup {None}) \X Nat)
          /\ Len(wire') = offset_ + n
          /\ \A i \in 1 .. offset_ + n :
               wire'[i] = IF i <= offset_ THEN wire[i] ELSE sent[i - offset_]
      <4>1. /\ wire' \in Seq((Inode \cup {None}) \X Nat)
            /\ Len(wire') = Len(wire) + Len(sent)
            /\ \A i \in 1 .. Len(wire) + Len(sent) :
                 wire'[i] = IF i <= Len(wire) THEN wire[i] ELSE sent[i - Len(wire)]
        BY ONLY <1>2, <2>2, <3>1, Concatenation
      <4>2. Len(wire) = offset_ /\ Len(sent) = n
        BY ONLY <2>2, Len(wire) = offset_
      <4> QED BY ONLY <4>1, <4>2
    <3>3. DOMAIN wire = 1 .. offset_
      BY <1>2
    <3>5. DOMAIN wire' = 1 .. offset_ + n
      BY <3>2
    <3> QED BY <3>1, <3>2, <3>3, <3>5
  <2>4. ASSUME NEW i \in 1 .. offset_ + n
        PROVE  \/ wire'[i] = <<g, i - 1>>
               \/ ~Steady /\ wire'[i] = <<None, i - 1>>
    <3>1. CASE i <= offset_
      <4>1. i \in DOMAIN wire
        BY <1>2, <2>3, <3>1
      <4>2. \/ wire[i] = <<g, i - 1>>
            \/ ~Steady /\ wire[i] = <<None, i - 1>>
        BY <4>1
      <4> QED BY <2>3, <3>1, <4>2
    <3>2. CASE i > offset_
      <4>1. i - offset_ \in 1 .. n /\ offset_ + (i - offset_) - 1 = i - 1 /\ f = g
        BY <1>2, <3>2
      <4>2. wire'[i] = Byte(g, i - 1)
        <5>1. ~(i <= offset_)
          BY <1>2, <3>2
        <5>2. wire'[i] = sent[i - offset_]
          BY <2>3, <5>1
        <5>3. sent[i - offset_] = Byte(f, offset_ + (i - offset_) - 1)
          BY <2>2, <4>1
        <5> QED BY ONLY <4>1, <5>2, <5>3
      <4>3. Steady => i - 1 < length[g]
        BY <1>2
      <4> QED BY <4>2, <4>3 DEF Byte
    <3> QED BY <1>2, <3>1, <3>2
  <2>5. offset_' = offset_ + n /\ left_' = left_ - n
    BY <1>1, <1>3, <1>5
  <2>6. offset_' + left_' = size_
    BY <1>2, <2>5
  <2>7. \A i \in DOMAIN wire' : wire'[i] = <<g, i - 1>> \/ (~Steady /\ wire'[i] = <<None, i - 1>>)
    <3> SUFFICES ASSUME NEW i \in DOMAIN wire'
                 PROVE  \/ wire'[i] = <<g, i - 1>>
                        \/ ~Steady /\ wire'[i] = <<None, i - 1>>
      OBVIOUS
    <3> QED BY <2>3, <2>4
  <2> QED BY <2>3, <2>5, <2>6, <2>7
<1> QED BY <1>4, <1>5

-----------------------------------------------------------------------------
(* The steps.                                                              *)

LEMMA RequestIInv ==
  ASSUME IInv, NEW p \in Path, NEW m, Request(p, m)
  PROVE  IInv'
<1>1. /\ turn = "read" /\ turn' = "write"
      /\ GetFiler(p, m)
      /\ IF m.state_ = "kStart"
           THEN Exchange(p, m) /\ head' = [file |-> m.fileFd_, size |-> m.st_size_]
           ELSE UNCHANGED filerVars /\ head' = None
      /\ wire' = <<>>
      /\ whole' = FALSE
  BY DEF Request
<1>2. /\ CacheTypeOK'
      /\ CacheInv'
      /\ m \in Mmaper
      /\ m # None
      /\ mmap_manager_' = [mmap_manager_ EXCEPT ![p] = m]
      /\ m.state_ = "kStart" => m.fileFd_ \in Inode
      /\ UNCHANGED <<diskVars, touched>>
      /\ Cached(p) => m = mmap_manager_[p]
  BY <1>1, GetFilerResult DEF IInv, TypeOK
<1>3. size_ = 0 /\ ~Big /\ cpFd = None /\ offset_ = 0 /\ left_ = 0
  <2>1. size_ = 0 /\ ~Big
    BY <1>1, MmapManagerAssumption DEF IInv, FilerInv, Big
  <2>2. offset_ + left_ = 0
    BY <2>1 DEF IInv, ProgressInv, Known
  <2> QED BY <2>1, <2>2 DEF IInv, FilerInv, TypeOK
<1>4. FilesAreOwned'
  <2>1. openFiles' - openFiles = Cardinality(OwnedNames') - Cardinality(OwnedNames)
    BY <1>1, GetFilerOwns DEF IInv, TypeOK
  <2>2. cpFd' = cpFd
    BY <1>1 DEF Exchange, filerVars
  <2>4. openFiles' \in Nat /\ openFiles \in Nat
    BY <1>2 DEF CacheTypeOK, IInv, TypeOK
  <2>5. openFiles' = Cardinality(OwnedNames')
    BY <1>3, <2>1, <2>4, OwnedIsFinite, Owned DEF IInv
  <2> QED BY <1>3, <2>2, <2>5, OwnedIsFinite, Owned
<1>5. <<>> \in Seq((Inode \cup {None}) \X Nat)
  OBVIOUS
<1>6. CASE m.state_ = "kStart"
  <2>1. /\ mmaper_' = p /\ size_' = m.st_size_ /\ left_' = m.st_size_
        /\ offset_' = 0 /\ cpFd' = None
        /\ head' = [file |-> m.fileFd_, size |-> m.st_size_]
    BY <1>1, <1>3, <1>6 DEF Exchange
  <2>2. m.st_size_ \in 0 .. MaxSize /\ m.st_size_ \in 0 .. Word - 1
    BY <1>2, MmapManagerAssumption, FilerAssumption DEF Mmaper
  <2>3. TypeOK'
    BY <1>1, <1>2, <1>5, <1>6, <2>1, <2>2 DEF TypeOK, Announcement
  <2>4. p # None /\ head' # None /\ mmap_manager_'[p] = m
    <3>1. head' \in Announcement
      BY <1>2, <1>6, <2>1, <2>2 DEF Announcement
    <3>2. p # None /\ head' # None
      BY <3>1, MmapManagerAssumption, FilerAssumption
    <3>3. mmap_manager_ \in [Path -> Mmaper \cup {None}]
      BY DEF IInv, TypeOK, CacheTypeOK
    <3> QED BY ONLY <3>2, <3>3, <1>2
  <2>5. FilerInv'
    BY <1>1, <1>2, <1>6, <2>1, <2>4 DEF FilerInv, Holds, Held, Cached
  <2>6. ProgressInv'
    BY <1>1, <2>1, <2>2 DEF ProgressInv
  <2> QED BY <1>2, <1>4, <2>3, <2>5, <2>6 DEF IInv
<1>7. CASE m.state_ # "kStart"
  <2>1. /\ UNCHANGED <<mmaper_, size_, offset_, left_, cpFd>>
        /\ head' = None
    BY <1>1, <1>7 DEF filerVars
  <2>2. TypeOK'
    BY <1>1, <1>2, <1>5, <2>1 DEF IInv, TypeOK
  <2>3. Holds => Holds'
    <3>1. CASE mmaper_ = p
      BY <1>2, <2>1, <3>1 DEF Holds, Held, Cached, IInv, TypeOK, CacheTypeOK
    <3>2. CASE mmaper_ # p
      BY <1>2, <2>1, <3>2 DEF Holds, Held, Cached, IInv, TypeOK, CacheTypeOK
    <3> QED BY <3>1, <3>2
  <2>4. FilerInv'
    BY <1>1, <1>3, <2>1, <2>3 DEF IInv, FilerInv, Idle
  <2>5. ProgressInv'
    BY <1>1, <1>3, <2>1 DEF ProgressInv
  <2> QED BY <1>2, <1>4, <2>2, <2>4, <2>5 DEF IInv
<1> QED BY <1>6, <1>7

LEMMA SendSmallFileIInv ==
  ASSUME IInv, NEW n \in 0 .. MaxSize, SendSmallFile(n)
  PROVE  IInv'
<1>1. PICK ok \in BOOLEAN : GetMap(mmaper_, ok)
  BY DEF SendSmallFile
<1>2. /\ turn = "write" /\ mmaper_ # None /\ ~Big /\ n \in 0 .. left_
      /\ Sent(Held.fileFd_, n)
      /\ UNCHANGED <<names, length, changes, touched, openFiles, mmaper_, size_, cpFd, head>>
  BY DEF SendSmallFile, diskVars
<1>3. /\ mmaper_ \in Path
      /\ Cached(mmaper_)
      /\ Held.state_ = "kStart"
      /\ Held.fileFd_ \in Inode
      /\ size_ = Held.st_size_
      /\ Steady => length[Held.fileFd_] = size_
  BY <1>2 DEF IInv, TypeOK, FilerInv, Holds, CacheInv, Held, Steady
<1>4. /\ mmap_manager_' \in [Path -> Mmaper \cup {None}]
      /\ \A q \in Path :
           /\ Cached(q)' = Cached(q)
           /\ mmap_manager_'[q].state_ = mmap_manager_[q].state_
           /\ mmap_manager_'[q].fileFd_ = mmap_manager_[q].fileFd_
           /\ mmap_manager_'[q].st_size_ = mmap_manager_[q].st_size_
      /\ OwnedNames' = OwnedNames
  BY <1>1, <1>3, GetMapResult DEF IInv, TypeOK
<1>5. /\ Held'.state_ = Held.state_
      /\ Held'.fileFd_ = Held.fileFd_
      /\ Held'.st_size_ = Held.st_size_
  BY <1>2, <1>3, <1>4 DEF Held
<1>6. /\ offset_' \in Nat
      /\ left_' \in 0 .. Word - 1
      /\ turn' \in {"read", "write"}
      /\ turn' = "read" => size_ = 0
      /\ wire' \in Seq((Inode \cup {None}) \X Nat)
      /\ whole' \in BOOLEAN
  BY <1>2, <1>3, SentTypes DEF IInv
<1>7. /\ offset_' + left_' = size_
      /\ Len(wire') = offset_'
      /\ \A i \in DOMAIN wire' : wire'[i] = <<Held.fileFd_, i - 1>> \/ (~Steady /\ wire'[i] = <<None, i - 1>>)
  BY <1>2, <1>3, SentProgress DEF IInv, ProgressInv, Known
<1>8. TypeOK'
  BY <1>2, <1>4, <1>6 DEF IInv, TypeOK, CacheTypeOK
<1>9. CacheInv'
  BY <1>2, <1>4 DEF IInv, CacheInv
<1>10. FilesAreOwned'
  BY <1>2, <1>4, Owned DEF IInv
<1>11. FilerInv'
  BY <1>2, <1>3, <1>4, <1>5, <1>6 DEF IInv, FilerInv, Holds, Idle, Big, Steady
<1>12. ProgressInv'
  BY <1>2, <1>5, <1>7 DEF ProgressInv, Steady
<1> QED BY <1>8, <1>9, <1>10, <1>11, <1>12 DEF IInv

LEMMA SendBigFileIInv ==
  ASSUME IInv, NEW n \in 0 .. MaxSize, SendBigFile(n)
  PROVE  IInv'
<1>1. /\ turn = "write" /\ mmaper_ # None /\ Big
      /\ IF cpFd # None THEN UNCHANGED <<cpFd, openFiles>>
         ELSE /\ cpFd' \in GetFdResults(mmaper_)
              /\ openFiles' = openFiles + (IF cpFd' # None THEN 1 ELSE 0)
      /\ n > 0 => cpFd' \in Inode /\ offset_ + n <= length[cpFd']
      /\ Sent(cpFd', n)
      /\ UNCHANGED <<names, length, changes, touched, mmap_manager_, mmaper_, size_, head>>
  BY DEF SendBigFile, diskVars
<1>2. /\ mmaper_ \in Path
      /\ Cached(mmaper_)
      /\ Held.state_ = "kStart"
      /\ Held.fileFd_ \in Inode
      /\ size_ = Held.st_size_
      /\ Steady => names[mmaper_] = Held.fileFd_ /\ length[Held.fileFd_] = size_
  BY <1>1 DEF IInv, TypeOK, FilerInv, Holds, CacheInv, Held, Steady
<1>3. /\ cpFd' \in Inode \cup {"dir", None}
      /\ cpFd' # None /\ Steady => cpFd' = Held.fileFd_
  BY <1>1, <1>2 DEF IInv, TypeOK, FilerInv, GetFdResults
<1>4. /\ offset_' \in Nat
      /\ left_' \in 0 .. Word - 1
      /\ turn' \in {"read", "write"}
      /\ turn' = "read" => size_ = 0
      /\ wire' \in Seq((Inode \cup {None}) \X Nat)
      /\ whole' \in BOOLEAN
  BY <1>1, SentTypes DEF IInv
<1>5. Held' = Held
  BY <1>1 DEF Held
<1>6. TypeOK'
  <2>1. openFiles' \in Nat
    BY <1>1 DEF IInv, TypeOK, CacheTypeOK
  <2> QED BY <1>1, <1>3, <1>4, <2>1 DEF IInv, TypeOK, CacheTypeOK
<1>7. CacheInv'
  BY <1>1 DEF IInv, CacheInv, Cached
<1>8. FilesAreOwned'
  <2>1. OwnedNames' = OwnedNames
    BY <1>1 DEF OwnedNames, Cached
  <2> QED BY <1>1, <2>1, Owned, OwnedIsFinite DEF IInv
<1>9. FilerInv'
  BY <1>1, <1>2, <1>3, <1>4, <1>5 DEF IInv, FilerInv, Holds, Idle, Big, Steady, Cached
<1>10. ProgressInv'
  <2> SUFFICES ASSUME Steady PROVE ProgressInv'
    BY <1>1 DEF ProgressInv, Known, Steady, Big
  <2>1. /\ offset_ + left_ = size_
        /\ Len(wire) = offset_
        /\ \A i \in DOMAIN wire : wire[i] = <<Held.fileFd_, i - 1>> \/ (~Steady /\ wire[i] = <<None, i - 1>>)
    BY DEF IInv, ProgressInv, Known
  <2>2. n > 0 => cpFd' \in Inode /\ cpFd' = Held.fileFd_
    BY <1>1, <1>3, MmapManagerAssumption
  <2>3. n \in 0 .. left_
    BY <1>1, <1>2, <2>1, <2>2, MmapManagerAssumption DEF IInv, TypeOK
  <2>4. /\ offset_' + left_' = size_
        /\ Len(wire') = offset_'
        /\ \A i \in DOMAIN wire' : wire'[i] = <<Held.fileFd_, i - 1>> \/ (~Steady /\ wire'[i] = <<None, i - 1>>)
    BY <1>1, <1>2, <2>1, <2>2, <2>3, SentProgress DEF IInv
  <2> QED BY <1>1, <1>5, <2>4 DEF ProgressInv, Steady
<1> QED BY <1>6, <1>7, <1>8, <1>9, <1>10 DEF IInv

LEMMA ReconnectIInv ==
  ASSUME IInv, Reconnect
  PROVE  IInv'
<1>1. /\ openFiles' = openFiles - (IF cpFd # None THEN 1 ELSE 0)
      /\ mmaper_' = None /\ size_' = 0 /\ offset_' = 0 /\ left_' = 0 /\ cpFd' = None
      /\ turn' = "read" /\ head' = None /\ wire' = <<>> /\ whole' = FALSE
      /\ UNCHANGED <<names, length, changes, touched, mmap_manager_>>
  BY DEF Reconnect, diskVars
<1>2. OwnedNames' = OwnedNames
  BY <1>1 DEF OwnedNames, Cached
<1>3. openFiles' = Cardinality(OwnedNames) /\ openFiles' \in Nat
  BY <1>1, Owned, OwnedIsFinite DEF IInv
<1>4. TypeOK'
  <2>1. <<>> \in Seq((Inode \cup {None}) \X Nat) /\ 0 \in 0 .. Word - 1 /\ 0 \in 0 .. MaxSize
    BY MmapManagerAssumption, FilerAssumption
  <2> QED BY <1>1, <1>3, <2>1 DEF IInv, TypeOK, CacheTypeOK
<1>5. CacheInv'
  BY <1>1 DEF IInv, CacheInv, Cached
<1>6. FilesAreOwned'
  BY <1>1, <1>2, <1>3, Owned, OwnedIsFinite
<1>7. FilerInv'
  BY <1>1 DEF FilerInv, Idle
<1>8. ProgressInv'
  BY <1>1 DEF ProgressInv
<1> QED BY <1>4, <1>5, <1>6, <1>7, <1>8 DEF IInv

(* Others change files: what was cached of them is stale from then on, and *)
(* no file becomes steady again.                                           *)
LEMMA DiskIInv ==
  ASSUME IInv, DiskChanges, UNCHANGED <<filerVars, turn, history>>
  PROVE  IInv'
<1>1. /\ CacheTypeOK'
      /\ CacheInv'
      /\ touched \subseteq touched'
      /\ UNCHANGED <<openFiles, mmap_manager_>>
  <2>1. ASSUME NEW p \in Path, NEW target \in Target, Rename(p, target)
        PROVE  /\ CacheTypeOK'
               /\ CacheInv'
               /\ touched \subseteq touched'
               /\ UNCHANGED <<openFiles, mmap_manager_>>
    <3>1. /\ changes < MaxChanges
          /\ names' = [names EXCEPT ![p] = target]
          /\ changes' = changes + 1
          /\ touched' = IF Cached(p) THEN touched \cup {p} ELSE touched
          /\ UNCHANGED <<length, openFiles, mmap_manager_>>
      BY <2>1 DEF Rename
    <3>2. CacheTypeOK'
      <4>1. names' \in [Path -> Target] /\ touched' \subseteq Path
        BY <3>1 DEF IInv, TypeOK, CacheTypeOK
      <4>2. changes' \in 0 .. MaxChanges
        BY <3>1, MmapManagerAssumption DEF IInv, TypeOK, CacheTypeOK
      <4> QED BY <3>1, <4>1, <4>2 DEF IInv, TypeOK, CacheTypeOK
    <3>3. CacheInv'
      BY <3>1 DEF IInv, TypeOK, CacheTypeOK, CacheInv, Cached
    <3> QED BY <3>1, <3>2, <3>3
  <2>2. ASSUME NEW i \in Inode, NEW n \in 0 .. MaxSize, Resize(i, n)
        PROVE  /\ CacheTypeOK'
               /\ CacheInv'
               /\ touched \subseteq touched'
               /\ UNCHANGED <<openFiles, mmap_manager_>>
    <3>1. /\ changes < MaxChanges
          /\ length' = [length EXCEPT ![i] = n]
          /\ changes' = changes + 1
          /\ touched' = touched \cup {p \in Path : Cached(p) /\ mmap_manager_[p].fileFd_ = i}
          /\ UNCHANGED <<names, openFiles, mmap_manager_>>
      BY <2>2 DEF Resize
    <3>2. CacheTypeOK'
      <4>1. length' \in [Inode -> 0 .. MaxSize] /\ touched' \subseteq Path
        BY <3>1 DEF IInv, TypeOK, CacheTypeOK
      <4>2. changes' \in 0 .. MaxChanges
        BY <3>1, MmapManagerAssumption DEF IInv, TypeOK, CacheTypeOK
      <4> QED BY <3>1, <4>1, <4>2 DEF IInv, TypeOK, CacheTypeOK
    <3>3. CacheInv'
      BY <3>1 DEF IInv, TypeOK, CacheTypeOK, CacheInv, Cached
    <3> QED BY <3>1, <3>2, <3>3
  <2> QED BY <2>1, <2>2 DEF DiskChanges
<1>2. /\ UNCHANGED <<mmaper_, size_, left_, offset_, cpFd, turn, head, wire, whole>>
      /\ Held' = Held /\ Cached(mmaper_)' = Cached(mmaper_)
      /\ Steady' => Steady
  BY <1>1 DEF filerVars, history, Held, Cached, Steady
<1>3. TypeOK'
  BY <1>1, <1>2 DEF IInv, TypeOK
<1>4. FilesAreOwned'
  <2>1. OwnedNames' = OwnedNames
    BY <1>1 DEF OwnedNames, Cached
  <2> QED BY <1>1, <1>2, <2>1, Owned DEF IInv
<1>5. FilerInv'
  BY <1>2 DEF IInv, FilerInv, Holds, Idle, Big
<1>6. ProgressInv'
  BY <1>2 DEF IInv, ProgressInv, Known, Big
<1> QED BY <1>1, <1>3, <1>4, <1>5, <1>6 DEF IInv

LEMMA NextIInv ==
  ASSUME IInv, [Next]_vars
  PROVE  IInv'
<1>1. CASE UNCHANGED vars
  <2>1. UNCHANGED <<names, length, changes, touched, openFiles, mmap_manager_, mmaper_, size_,
                    left_, offset_, cpFd, turn, head, wire, whole>>
    BY <1>1 DEF vars, diskVars, cacheVars, filerVars, history
  <2>2. TypeOK' /\ CacheInv' /\ FilesAreOwned'
    BY <2>1 DEF IInv, TypeOK, CacheTypeOK, CacheInv, Cached, FilesAreOwned
  <2>3. FilerInv' /\ ProgressInv'
    BY <2>1 DEF IInv, FilerInv, ProgressInv, Known, Holds, Idle, Held, Cached, Big, Steady
  <2> QED BY <2>2, <2>3 DEF IInv
<1>2. ASSUME NEW p \in Path, NEW m, Request(p, m) PROVE IInv'
  BY <1>2, RequestIInv
<1>3. ASSUME NEW n \in 0 .. MaxSize, Send(n) PROVE IInv'
  BY <1>3, SendSmallFileIInv, SendBigFileIInv DEF Send
<1>4. CASE SendNothing
  <2>1. /\ turn' = "none"
        /\ UNCHANGED <<names, length, changes, touched, openFiles, mmap_manager_, mmaper_, size_,
                       left_, offset_, cpFd, head, wire, whole>>
    BY <1>4 DEF SendNothing, diskVars, cacheVars, filerVars, history
  <2>2. TypeOK' /\ CacheInv' /\ FilesAreOwned'
    BY <2>1 DEF IInv, TypeOK, CacheTypeOK, CacheInv, Cached, FilesAreOwned
  <2>3. FilerInv' /\ ProgressInv'
    BY <2>1 DEF IInv, FilerInv, ProgressInv, Known, Holds, Idle, Held, Cached, Big, Steady
  <2> QED BY <2>2, <2>3 DEF IInv
<1>5. CASE Reconnect
  BY <1>5, ReconnectIInv
<1>6. CASE DiskChanges /\ UNCHANGED <<filerVars, turn, history>>
  BY <1>6, DiskIInv
<1> QED BY <1>1, <1>2, <1>3, <1>4, <1>5, <1>6 DEF Next

-----------------------------------------------------------------------------

THEOREM InvariantHolds == Spec => []IInv
<1>1. IInv /\ [Next]_vars => IInv'
  BY NextIInv
<1> QED BY InitIInv, <1>1, PTL DEF Spec

(* Type correctness: in particular left_ stays a size_t and openFiles is   *)
(* never negative.                                                         *)
THEOREM TypesAreCorrect == Spec => []TypeOK
<1>1. IInv => TypeOK
  BY DEF IInv
<1> QED BY <1>1, InvariantHolds, PTL

(* What follows a response is the file that it announced, from its first   *)
(* byte on, in order, and not more of it (Filer.cpp:30, 53, Filer.h:90).   *)
THEOREM FileFollowsResponse == Spec => []WireIsFile
<1>1. IInv => WireIsFile
  <2> SUFFICES ASSUME IInv, wire # <<>>, Known
               PROVE  /\ head # None
                      /\ Len(wire) <= head.size
                      /\ \A i \in DOMAIN wire :
                           \/ wire[i] = <<head.file, i - 1>>
                           \/ ~Steady /\ wire[i] = <<None, i - 1>>
    BY DEF WireIsFile, Known
  <2>1. /\ offset_ + left_ = size_
        /\ Len(wire) = offset_
        /\ \A i \in DOMAIN wire : wire[i] = <<Held.fileFd_, i - 1>> \/ (~Steady /\ wire[i] = <<None, i - 1>>)
    BY DEF IInv, ProgressInv
  <2>2. /\ offset_ \in Nat /\ left_ \in Nat /\ size_ \in Nat
        /\ wire \in Seq((Inode \cup {None}) \X Nat)
    BY MmapManagerAssumption, FilerAssumption DEF IInv, TypeOK
  <2>3. head # None
    BY <2>1, <2>2 DEF IInv, FilerInv
  <2>4. head.file = Held.fileFd_ /\ head.size = size_
    BY <2>3 DEF IInv, FilerInv
  <2> QED BY <2>1, <2>2, <2>3, <2>4
<1> QED BY <1>1, InvariantHolds, PTL

(* No descriptor is lost: each open file belongs to a name in the cache or *)
(* to the Filer that opened it (Mmaper.cpp:38, Filer.cpp:44, Filer.h:55).  *)
THEOREM NoFileIsLost == Spec => []FilesAreOwned
<1>1. IInv => FilesAreOwned
  BY DEF IInv
<1> QED BY <1>1, InvariantHolds, PTL

(* The cache never takes back what it has answered, however the file       *)
(* system changes (MmapManager.h:16).                                      *)
THEOREM AnswersStay == Spec => AnswersAreFinal
<1> DEFINE Final(p) ==
      /\ Cached(p)'
      /\ mmap_manager_'[p].state_ = mmap_manager_[p].state_
      /\ mmap_manager_'[p].st_size_ = mmap_manager_[p].st_size_
<1>1. ASSUME IInv, [Next]_vars, NEW p \in Path, Cached(p)
      PROVE  Final(p)
  <2>1. CASE UNCHANGED mmap_manager_
    BY <1>1, <2>1 DEF Cached
  <2>2. ASSUME NEW q \in Path, NEW m, Request(q, m) PROVE Final(p)
    <3>1. /\ mmap_manager_' = [mmap_manager_ EXCEPT ![q] = m]
          /\ m # None
          /\ Cached(q) => m = mmap_manager_[q]
      BY <1>1, <2>2, GetFilerResult DEF IInv, TypeOK, Request
    <3> QED BY <1>1, <3>1 DEF IInv, TypeOK, CacheTypeOK, Cached
  <2>3. ASSUME NEW n \in 0 .. MaxSize, SendSmallFile(n) PROVE Final(p)
    <3>1. PICK ok \in BOOLEAN : GetMap(mmaper_, ok)
      BY <2>3 DEF SendSmallFile
    <3>2. mmaper_ \in Path /\ Cached(mmaper_)
      BY <1>1, <2>3 DEF SendSmallFile, IInv, TypeOK, FilerInv, Holds
    <3> QED BY <1>1, <3>1, <3>2, GetMapResult DEF IInv, TypeOK
  <2>4. ASSUME NEW n \in 0 .. MaxSize, SendBigFile(n) PROVE UNCHANGED mmap_manager_
    BY <2>4 DEF SendBigFile
  <2>5. DiskChanges => UNCHANGED mmap_manager_
    BY DEF DiskChanges, Rename, Resize
  <2>6. SendNothing \/ Reconnect \/ UNCHANGED vars => UNCHANGED mmap_manager_
    BY DEF SendNothing, Reconnect, vars, cacheVars
  <2> HIDE DEF Final
  <2> QED BY <1>1, <2>1, <2>2, <2>3, <2>4, <2>5, <2>6 DEF Next, Send
<1>2. IInv /\ [Next]_vars => [\A p \in Path : Cached(p) => Final(p)]_vars
  BY <1>1
<1> HIDE DEF Final
<1>3. Spec => [][\A p \in Path : Cached(p) => Final(p)]_vars
  BY <1>2, InvariantHolds, PTL DEF Spec
<1> QED BY <1>3 DEF AnswersAreFinal, Final

=============================================================================
