------------------------------- MODULE Fat32 -------------------------------
(***************************************************************************)
(* The file system of fat32.c as the VFS of sqlite_os.c uses it: files of  *)
(* the root directory are opened, created, written, truncated and deleted. *)
(* The table of clusters is worked on in memory; what a call changes goes  *)
(* to the disk through the block cache, in an order the model keeps.       *)
(*                                                                         *)
(* A unit is the size of a directory entry, and a cluster is SecPerClus    *)
(* sectors of SectorUnits units.  One task uses the file system.           *)
(*                                                                         *)
(* A name is the eight characters a directory entry has, so a database and *)
(* its journal are one name when the database's own has eight or more.     *)
(* Nothing keeps a file from being open more than once, and each handle    *)
(* has a copy of start and size of its own.                                *)
(***************************************************************************)
EXTENDS Integers, Sequences, FiniteSets

CONSTANTS
  Names,        \* the names of files
  Handles,      \* the handles callers may have open at once
  Careful,      \* a file is written and cut through a handle that is current
  Clusters,     \* the number of clusters of the volume
  SecPerClus,   \* BPB_SecPerClus
  SectorUnits,  \* the units of a sector
  Host,         \* a file the volume came with
  HostSize,     \* its size, in units
  MaxSize,      \* bound: the size of a file
  MaxWrites     \* bound: the calls of fwrite, each with data of its own

ASSUME Fat32Assumption ==
  /\ Clusters \in Nat \ {0} /\ SecPerClus \in Nat \ {0} /\ SectorUnits \in Nat \ {0}
  /\ Host \in Names /\ HostSize \in Nat \ {0}
  /\ HostSize <= (Clusters - 1) * SecPerClus * SectorUnits
  /\ Careful \in BOOLEAN /\ MaxSize \in Nat /\ MaxWrites \in Nat

ClusterUnits == SecPerClus * SectorUnits

\* The clusters count from 2, the number of the root directory's first.
Cluster == 2 .. Clusters + 1
Root == 2
FREE == 0
EOF == -1    \* 0x0FFFFFFF

\* The units of the disk from the first cluster on, with a cluster behind
\* the volume.
DiskUnits == 0 .. (Clusters + 1) * ClusterUnits - 1

\* What a unit holds: nothing, data of a write, or a directory entry.
NoData == <<"free">>
Data(v) == <<"data", v>>
Entry(n, start, size) == <<"file", n, start, size>>

Empty == [o \in {} |-> NoData]
NoFile == [name |-> Host, fnode |-> 0, size |-> 0, findex |-> -1]

VARIABLES
  fat,      \* this->fat32_fat from entry 2 on
  dfat,     \* the table on the disk
  data,     \* the units on the disk
  handle,   \* each FILE_OF_FAT32: the name it was opened by, fnode, size and findex
  current,  \* the open handles whose file no call through another changed since
  todo,     \* the writes to the disk still to come in the call
  content,  \* what each file holds as its callers wrote it
  writes,   \* the number of calls that wrote
  broken    \* "no", or what went wrong where the code goes on

vars == <<fat, dfat, data, handle, current, todo, content, writes, broken>>

-----------------------------------------------------------------------------
\* The clusters from c on: Path(f, c)[k] is the one k steps behind c.
Path(f, c) ==
  LET p[k \in 0 .. Clusters] ==
        IF k = 0 THEN c
        ELSE LET d == p[k - 1] IN IF d \in Cluster THEN f[d] ELSE d
  IN  p

ChainOf(f, c) == LET p == Path(f, c) IN {p[k] : k \in 0 .. Clusters} \cap Cluster
Length(f, c) == Cardinality(ChainOf(f, c))
Ends(f, c) == Path(f, c)[Clusters] = EOF

\* Mutant: only the sector of the remainder is added.
AddressOfSector(p, s, o) ==
  LET base == (p[o \div ClusterUnits] - 2) * ClusterUnits
      rem  == s % ClusterUnits
  IN  IF rem # 0 /\ o \div ClusterUnits = s \div ClusterUnits
      THEN base + (rem \div SectorUnits) * SectorUnits + (o - s)
      ELSE base + (o % ClusterUnits)

\* The disk unit where a call that starts at offset s finds offset o of the
\* file with path p.  In a first cluster that is not met at its start, the
\* sector is in lba already when the whole remainder is added to it.
Address(p, s, o) ==
  LET base == (p[o \div ClusterUnits] - 2) * ClusterUnits
      rem  == s % ClusterUnits
  IN  IF rem # 0 /\ o \div ClusterUnits = s \div ClusterUnits
      THEN base + (rem \div SectorUnits) * SectorUnits + rem + (o - s)
      ELSE base + (o % ClusterUnits)

Unused(f) == {c \in Cluster : f[c] = FREE}

\* The cluster fat32_find_node_from_fat finds.
Fresh(f) == CHOOSE c \in Unused(f) : \A d \in Unused(f) : c <= d

\* n more clusters behind cluster a.
Extended(f, a, n) ==
  LET g[k \in 0 .. n] ==
        IF k = 0 THEN [fat |-> f, last |-> a]
        ELSE LET x == g[k - 1] IN LET c == Fresh(x.fat)
             IN  [fat |-> [x.fat EXCEPT ![c] = EOF, ![x.last] = c], last |-> c]
  IN  g[n].fat

\* n more clusters for the chain from c.
Longer(f, c, n) == Extended(f, Path(f, c)[Length(f, c) - 1], n)

-----------------------------------------------------------------------------
\* The root directory.
DirIndexes(f) == 0 .. Length(f, Root) * ClusterUnits - 1
EntryIn(f, i) == data[Address(Path(f, Root), i, i)]
EntryAt(i) == EntryIn(fat, i)
IsEntryOf(e, n) == e[1] = "file" /\ e[2] = n
Found(n) ==
  LET p == Path(fat, Root)
  IN  {i \in DirIndexes(fat) : IsEntryOf(data[Address(p, i, i)], n)}
First(S) == CHOOSE i \in S : \A j \in S : i <= j

\* The volume: the root directory with one file, which fills its clusters.
HostClusters == (HostSize + ClusterUnits - 1) \div ClusterUnits

Init ==
  /\ fat = [c \in Cluster |-> CASE c = Root -> EOF
                                [] c \in 3 .. 1 + HostClusters -> c + 1
                                [] c = 2 + HostClusters -> EOF
                                [] OTHER -> FREE]
  /\ dfat = fat
  /\ data = [u \in DiskUnits |->
       CASE u = 0 -> Entry(Host, 3, HostSize)
         [] u \in ClusterUnits .. ClusterUnits + HostSize - 1 -> Data(0)
         [] OTHER -> NoData]
  /\ handle = [h \in Handles |-> NoFile] /\ current = {}
  /\ todo = <<>>
  /\ content = [n \in Names |-> IF n = Host THEN [o \in 0 .. HostSize - 1 |-> Data(0)]
                                ELSE Empty]
  /\ writes = 0 /\ broken = "no"

Idle == todo = <<>> /\ broken = "no"
IsOpen(h) == handle[h] # NoFile

\* The handles of file n but h, which a call through h leaves behind.
Others(n, h) == {g \in Handles \ {h} : handle[g].name = n}

\* What the caller of fwrite sees to: h knows its file, and a file cut to
\* nothing is opened again before it is written to.
Cares(h) == h \in current /\ (handle[h].fnode = 0 \/ handle[h].size > 0)

\* The writes to the disk a call on file n has in turn: units, data of the
\* file, which had old units before, and the table (_flush_fat).
PutUnits(n, us) == [kind |-> "units", units |-> us, name |-> n, old |-> 0]
PutData(n, us, old) == [kind |-> "data", units |-> us, name |-> n, old |-> old]
PutFat(n) == [kind |-> "fat", units |-> Empty, name |-> n, old |-> 0]

\* The unit u is to hold e.
OneUnit(u, e) == [x \in {u} |-> e]

\* The directory entry at index i is written.
PutEntry(n, f, i, e) == PutUnits(n, OneUnit(Address(Path(f, Root), i, i), e))

\* Entry e read from the disk with another start and size.  One that was
\* deleted stays so.
Changed(e, start, size) == IF e[1] = "file" THEN Entry(e[2], start, size) ELSE e

\* The units d with those of us in their places.
Over(us, d) == [u \in DOMAIN us \cup DOMAIN d |-> IF u \in DOMAIN us THEN us[u] ELSE d[u]]

\* One write reaches the disk.
DiskWrite ==
  /\ todo # <<>> /\ broken = "no"
  /\ todo' = Tail(todo)
  /\ IF Head(todo).kind = "fat"
     THEN dfat' = fat /\ UNCHANGED data
     ELSE data' = Over(Head(todo).units, data) /\ UNCHANGED dfat
  /\ UNCHANGED <<fat, handle, current, content, writes, broken>>

\* The code goes on with a broken volume.
Breaks(why) ==
  /\ broken' = why
  /\ UNCHANGED <<fat, dfat, data, handle, current, todo, content, writes>>

NoRoom == "cluster behind the volume"
NoIndex == "index behind the table"

-----------------------------------------------------------------------------
\* fat32Open of a file that is there, whether it is open already or not.
Open(h, n) ==
  /\ Idle /\ ~IsOpen(h) /\ Found(n) # {}
  /\ LET i == First(Found(n))
     IN  handle' = [handle EXCEPT ![h] = [name   |-> n,
                                          fnode  |-> EntryAt(i)[3],
                                          size   |-> EntryAt(i)[4],
                                          findex |-> i]]
  /\ current' = current \cup {h}
  /\ UNCHANGED <<fat, dfat, data, todo, content, writes, broken>>

\* The table when the directory has k more clusters, and its free entries.
Grown(k) == Longer(fat, Root, k)
FreeInCluster(k) ==   \* mutant: the index counts from the cluster's start
  LET p == Path(Grown(k), Root)
  IN  {i % ClusterUnits : i \in {j \in DirIndexes(Grown(k)) : data[Address(p, 0, j)] = NoData}}
FreeEntries(k) ==
  LET p == Path(Grown(k), Root)
  IN  {i \in DirIndexes(Grown(k)) : data[Address(p, 0, i)] = NoData}

\* fat32Open of a new file: the directory grows until there is a free entry.
\* A new cluster of the directory is not cleared.
Create(h, n) ==
  /\ Idle /\ ~IsOpen(h) /\ Found(n) = {}
  /\ LET grows == {k \in 0 .. Cardinality(Unused(fat)) : FreeEntries(k) # {}}
         f     == Grown(First(grows))
         i     == First(FreeEntries(First(grows)))
     IN  IF grows = {} THEN Breaks(NoRoom)
         ELSE /\ fat' = f
              /\ handle' = [handle EXCEPT ![h] = [name |-> n, fnode |-> 0, size |-> 0, findex |-> i]]
              /\ current' = current \cup {h}
              /\ todo' = <<PutUnits(n, OneUnit(Address(Path(f, Root), 0, i), Entry(n, 0, 0))),
                           PutFat(n)>>
              /\ content' = [content EXCEPT ![n] = Empty]
              /\ UNCHANGED <<dfat, data, writes, broken>>

Close(h) ==
  /\ Idle /\ IsOpen(h)
  /\ handle' = [handle EXCEPT ![h] = NoFile] /\ current' = current \ {h}
  /\ UNCHANGED <<fat, dfat, data, todo, content, writes, broken>>

-----------------------------------------------------------------------------
\* The clusters a write up to end needs beyond those file h has.
NeededOfAll(h, end) ==   \* mutant: the clusters the file has are not counted
  IF h.fnode = 0 THEN end \div ClusterUnits + 1
  ELSE IF h.size < end THEN end \div ClusterUnits ELSE 0
Needed(h, end) ==
  IF h.fnode = 0 THEN end \div ClusterUnits + 1
  ELSE IF h.size < end THEN end \div ClusterUnits - (Length(fat, h.fnode) - 1)
  ELSE 0

\* The file and the table after they were found.
Start(h) == IF h.fnode = 0 THEN Fresh(fat) ELSE h.fnode
Allocated(h, end) ==
  IF h.fnode = 0
  THEN Extended([fat EXCEPT ![Fresh(fat)] = EOF], Fresh(fat), end \div ClusterUnits)
  ELSE Longer(fat, h.fnode, Needed(h, end))

\* The units of the disk a write of units s to end - 1 goes to.
Placed(p, s, end, v) == [u \in {Address(p, s, o) : o \in s .. end - 1} |-> v]

\* Whether that has a chain of the table to work on: the walk from a start
\* that was given up ends at a free cluster and goes on behind the table.
Walks(h, end) == h.fnode = 0 \/ h.size >= end \/ Ends(fat, h.fnode)
Covers(f, h, s, end) ==
  \A o \in s .. end - 1 : Path(f, Start(h))[o \div ClusterUnits] \in Cluster

\* The entry a write up to end makes of e: with the file's first cluster its
\* start is written, later the size alone.
Written(e, h, end) == Changed(e, IF h.fnode = 0 THEN Start(h) ELSE e[3], end)

\* fwrite through x of size units at offset s: clusters for them, the
\* directory entry, and at last the data.
Write(x, s, size) ==
  LET h   == handle[x]
      n   == h.name
      end == s + size
      f   == Allocated(h, end)
      v   == Data(writes + 1)
  IN  /\ Idle /\ IsOpen(x) /\ (Careful => Cares(x))
      /\ writes < MaxWrites
      /\ IF ~Walks(h, end) THEN Breaks(NoIndex)
         ELSE IF Needed(h, end) \notin 0 .. Cardinality(Unused(fat)) THEN Breaks(NoRoom)
         ELSE IF ~Covers(f, h, s, end) THEN Breaks(NoIndex)
         ELSE /\ fat' = f
              /\ handle' = [handle EXCEPT ![x].fnode = Start(h),
                                          ![x].size = IF @ < end THEN end ELSE @]
              /\ current' = current \ Others(n, x)
              /\ todo' = (IF h.size < end
                          THEN <<PutEntry(n, f, h.findex, Written(EntryAt(h.findex), h, end))>>
                          ELSE <<>>)
                         \o <<PutFat(n), PutData(n, Placed(Path(f, Start(h)), s, end, v), h.size),
                              PutFat(n)>>
              /\ content' = [content EXCEPT ![n] =
                   [o \in 0 .. handle'[x].size - 1 |->
                      IF o \in s .. end - 1 THEN v
                      ELSE IF o \in DOMAIN @ THEN @[o] ELSE NoData]]
              /\ writes' = writes + 1
              /\ UNCHANGED <<dfat, data, broken>>

\* The table after the chain from c was cut at offset s.
CutKept(c, s) ==   \* mutant: a file cut to nothing keeps its first cluster
  LET last   == Path(fat, c)[s \div ClusterUnits]
      behind == ChainOf(fat, last) \ {last}
  IN  [d \in Cluster |-> IF d \in behind THEN FREE ELSE IF d = last THEN EOF ELSE fat[d]]
Cut(c, s) ==
  LET last   == Path(fat, c)[s \div ClusterUnits]
      behind == ChainOf(fat, last) \ {last}
  IN  [d \in Cluster |-> IF d \in behind \/ (s = 0 /\ d = c) THEN FREE
                         ELSE IF d = last THEN EOF ELSE fat[d]]

\* Whether that looks at the table behind its end.
CutBreaks(c, s) ==
  \/ c = 0 \/ Path(fat, c)[s \div ClusterUnits] \notin Cluster
  \/ ~Ends(fat, Path(fat, c)[s \div ClusterUnits])

\* The entry e of a file cut at s.
CutEntry(e, s) == Changed(e, IF s = 0 THEN 0 ELSE e[3], s)

\* The writes of a cut of file n with entry i at s: its entry and the table.
\* The mutant leaves the table.
CutUnflushed(f, n, i, s) == <<PutEntry(n, f, i, CutEntry(EntryAt(i), s))>>
CutWrites(f, n, i, s) == <<PutEntry(n, f, i, CutEntry(EntryAt(i), s)), PutFat(n)>>

\* fwrite without data through x: the file is cut at offset s.
Truncate(x, s) ==
  LET h == handle[x]
      n == h.name
  IN  /\ Idle /\ IsOpen(x) /\ s <= h.size /\ (Careful => Cares(x))
      /\ IF CutBreaks(h.fnode, s) THEN Breaks(NoIndex)
         ELSE /\ fat' = Cut(h.fnode, s)
              /\ handle' = [handle EXCEPT ![x].size = s]
              /\ current' = current \ Others(n, x)
              /\ todo' = CutWrites(fat', n, h.findex, s)
              /\ content' = [content EXCEPT ![n] =
                   [o \in 0 .. s - 1 |-> IF o \in DOMAIN @ THEN @[o] ELSE NoData]]
              /\ UNCHANGED <<dfat, data, writes, broken>>

\* fat32Delete of a file that is there, open or not: it is cut to nothing and
\* its entry is cleared.
Delete(n) ==
  /\ Idle /\ Found(n) # {}
  /\ LET i == First(Found(n))
         c == EntryAt(i)[3]
     IN  IF CutBreaks(c, 0) THEN Breaks(NoIndex)
         ELSE /\ fat' = Cut(c, 0)
              /\ current' = {h \in current : handle[h].name # n}
              /\ todo' = CutWrites(fat', n, i, 0) \o <<PutEntry(n, fat', i, NoData), PutFat(n)>>
              /\ content' = [content EXCEPT ![n] = Empty]
              /\ UNCHANGED <<dfat, data, handle, writes, broken>>

-----------------------------------------------------------------------------
Next ==
  \/ DiskWrite
  \/ \E n \in Names : Delete(n) \/ \E h \in Handles : Open(h, n) \/ Create(h, n)
  \/ \E h \in Handles :
       \/ Close(h)
       \/ \E s \in 0 .. MaxSize - 1, size \in 1 .. MaxSize : s + size <= MaxSize /\ Write(h, s, size)
       \/ \E s \in 0 .. MaxSize : Truncate(h, s)

Spec == Init /\ [][Next]_vars

Files == {n \in Names : Found(n) # {}}
EntryOf(n) == EntryAt(First(Found(n)))
StartOf(e) == e[3]
SizeOf(e) == e[4]

(* Between calls every cluster in use is in the chain of one file or of the
   directory: none is shared and none is lost, and no file has two entries. *)
ChainsApart ==
  Idle =>
    LET start == [n \in Files |-> StartOf(EntryOf(n))]
        inUse == {n \in Files : start[n] # 0}
        chain == [c \in {Root} \cup {start[n] : n \in inUse} |-> ChainOf(fat, c)]
    IN  /\ \A n \in Files : Cardinality(Found(n)) = 1
        /\ \A n, m \in inUse : n # m => start[n] # start[m]
        /\ \A c \in DOMAIN chain : Ends(fat, c)
        /\ \A c, d \in DOMAIN chain : c # d => chain[c] \cap chain[d] = {}
        /\ UNION {chain[c] : c \in DOMAIN chain} = Cluster \ Unused(fat)

(* Between calls a chain is long enough for its file and never more than one
   cluster too long, so the difference the code forms before it extends a
   chain, of unsigned numbers, never wraps. *)
ChainFits ==
  Idle =>
    \A n \in Files :
      LET entry  == EntryOf(n)
          start  == StartOf(entry)
          size   == SizeOf(entry)
          length == Length(fat, start)
      IN  /\ start = 0 <=> size = 0
          /\ length * ClusterUnits >= size /\ length <= size \div ClusterUnits + 1

(* What a handle remembers of its entry is what the entry says, however often
   the file is open and the directory is rewritten, until the file is changed
   or deleted through another: the code tells no handle of that. *)
HandlesAgree ==
  Idle =>
    \A h \in current :
      /\ Found(handle[h].name) = {handle[h].findex}
      /\ LET entry == EntryAt(handle[h].findex)
         IN  /\ handle[h].size = SizeOf(entry)
             /\ SizeOf(entry) # 0 => handle[h].fnode = StartOf(entry)

(* fat32FileSize gives the size of the file: not so for a handle that is not
   current. *)
SizeTold ==
  Idle =>
    \A h \in Handles : IsOpen(h) /\ Found(handle[h].name) # {} =>
      handle[h].size = SizeOf(EntryOf(handle[h].name))

\* The files the call in progress works on, one or none.
Busy == {todo[k].name : k \in DOMAIN todo}

(* What the disk alone holds at every moment, between two writes of one call as
   well: the chains its entries name are apart from one another's and from the
   directory's, and every file but the one the call works on is there whole,
   with a chain that ends, is long enough and has what was written.  Of the
   file of the call nothing is said but that its chain takes no cluster of
   another's: its entry may name a cluster the table on the disk has as free
   (fwrite writes the entry of a new file before the table), and if the machine
   stops there the next start may give that cluster to another file. *)
CrashKeeps ==
  LET start(i)  == StartOf(EntryIn(dfat, i))
      size(i)   == SizeOf(EntryIn(dfat, i))
      listed(n) == {i \in DirIndexes(dfat) : IsEntryOf(EntryIn(dfat, i), n)}
      chain(i)  == ChainOf(dfat, start(i))
      all       == UNION {listed(n) : n \in Names}
  IN  /\ \A i \in all : chain(i) \cap ChainOf(dfat, Root) = {}
      /\ \A i, j \in all : i # j => chain(i) \cap chain(j) = {}
      /\ \A n \in Files \ Busy : Cardinality(listed(n)) = 1
      /\ \A n \in Names \ Busy : \A i \in listed(n) :
           /\ start(i) # 0 => Ends(dfat, start(i))
           /\ Length(dfat, start(i)) * ClusterUnits >= size(i)
           /\ DOMAIN content[n] = 0 .. size(i) - 1
           /\ \A s, o \in DOMAIN content[n] :
                s <= o /\ content[n][o] # NoData =>
                  data[Address(Path(dfat, start(i)), s, o)] = content[n][o]

(* What sqlite_os.c:169 promises: data that is appended is on the disk before
   the entry has the size that covers it.  The code does it the other way
   round. *)
SafeAppend ==
  \A k \in DOMAIN todo : \A i \in Found(todo[k].name) :
    todo[k].kind = "data" => SizeOf(EntryAt(i)) <= todo[k].old

(* A read of any part of a file gives what was written there last, whatever
   was written to, cut from or deleted from the volume in between. *)
ReadBack ==
  Idle =>
    \A n \in Files :
      LET entry == EntryOf(n)
          p     == Path(fat, StartOf(entry))
      IN  /\ DOMAIN content[n] = 0 .. SizeOf(entry) - 1
          /\ \A s, o \in DOMAIN content[n] :
               s <= o /\ content[n][o] # NoData => data[Address(p, s, o)] = content[n][o]

=============================================================================
