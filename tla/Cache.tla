------------------------------- MODULE Cache -------------------------------
(***************************************************************************)
(* The block cache of cache.c between fat32.c and an AHCI disk.  A call of *)
(* cache_read or cache_write goes through the blocks of its range.  What   *)
(* meets a block that is not read from the disk yet becomes a request;     *)
(* cache_sync_ahci reads those blocks and serves the requests in the order *)
(* of the table, and cache_flush_ahci writes the dirty blocks.             *)
(*                                                                         *)
(* One task works on a table, so a step is one iteration of the loop of a  *)
(* call, or one sync or flush, which wait until the disk is done.          *)
(***************************************************************************)
EXTENDS Integers, Sequences, FiniteSets

CONSTANTS
  Blocks,       \* the number of blocks of the disk
  CacheSize,    \* CACHE_SIZE, in units of what a call moves
  MaxCaches,    \* MAX_CACHES
  MaxRequests,  \* MAX_REQUESTS
  MaxWrites,    \* bound: the calls of cache_write, each with data of its own
  Careful       \* TRUE iff callers sync before a call could overfill requests

ASSUME CacheAssumption ==
  /\ Blocks \in Nat \ {0} /\ CacheSize \in Nat \ {0}
  /\ MaxCaches \in Nat \ {0} /\ MaxRequests \in Nat \ {0}
  /\ MaxWrites \in Nat /\ Careful \in BOOLEAN

Units == 0 .. Blocks * CacheSize - 1
\* What a unit holds: 0 at the start, or the number of the write.
Values == 0 .. MaxWrites
Lbas == 0 .. Blocks - 1
Slots == 0 .. MaxCaches - 1
Offsets == 0 .. CacheSize - 1

\* The block of unit u and its place in it.
LbaOf(u) == u \div CacheSize
OffsetOf(u) == u % CacheSize
UnitAt(l, o) == l * CacheSize + o

\* The states of a block.
IDLE == 0
ENABLE == 1
ACTIVE == 2
DIRTY == 3

VARIABLES
  disk,      \* what the disk holds
  valid,     \* cache_blocks[s].valid
  lba,       \* cache_blocks[s].lba, in blocks
  buffer,    \* cache_blocks[s].buffer
  point,     \* cache_blocks_point, block_count entries
  requests,  \* requests: those in use are the first request_count
  call,      \* what is left to do of the call, size 0 between calls
  writes,    \* the number of calls of cache_write
  content,   \* what the units hold as the callers wrote them
  misread,   \* TRUE once a caller got what no unit held when it asked
  failed     \* "no", or why the call ended or the system broke

blockvars == <<valid, lba, buffer, point>>
vars == <<disk, valid, lba, buffer, point, requests, call, writes, content,
          misread, failed>>

NoCall == [op |-> "none", offset |-> 0, size |-> 0, data |-> 0]

\* cache_init, on a disk that holds 0 everywhere.
Init ==
  /\ disk = [u \in Units |-> 0]
  /\ valid = [s \in Slots |-> IDLE]
  /\ lba = [s \in Slots |-> 0]
  /\ buffer = [s \in Slots |-> [o \in Offsets |-> 0]]
  /\ point = <<>> /\ requests = <<>>
  /\ call = NoCall
  /\ writes = 0 /\ content = disk /\ misread = FALSE
  /\ failed = "no"

-----------------------------------------------------------------------------
Idle == call.size = 0

\* What this iteration is about.
Lba == LbaOf(call.offset)
Offset == OffsetOf(call.offset)
Size == IF CacheSize - Offset < call.size THEN CacheSize - Offset ELSE call.size
Covered == call.offset .. call.offset + Size - 1

\* The search through the first block_count blocks.
Found == {s \in 0 .. Len(point) - 1 : lba[s] = Lba /\ valid[s] # IDLE}

\* The call goes on behind this iteration's range.
Advance ==
  call' = IF call.size = Size THEN NoCall
          ELSE [call EXCEPT !.offset = @ + Size, !.size = @ - Size]

\* A request for slot s: a write has its data, a read what it must find.
Request(s) ==
  [slot |-> s, op |-> call.op, offset |-> call.offset, size |-> Size,
   data |-> IF call.op = "write" THEN [u \in Covered |-> call.data]
            ELSE [u \in Covered |-> content[u]]]

\* The unit at place o of the block that request r is for.
UnitOf(r, o) == UnitAt(LbaOf(r.offset), o)

\* Buffers b after the data of write r were copied into slot s.
Written(b, s, r) ==
  [b EXCEPT ![s] = [o \in Offsets |->
     IF UnitOf(r, o) \in DOMAIN r.data THEN r.data[UnitOf(r, o)] ELSE @[o]]]

\* Read r finds in slot s of buffers b what it must.
ReadsWell(b, s, r) == \A u \in DOMAIN r.data : b[s][OffsetOf(u)] = r.data[u]

\* What the callers wrote, after this iteration.
Recorded ==
  content' = IF call.op = "write"
             THEN [u \in Units |-> IF u \in Covered THEN call.data ELSE content[u]]
             ELSE content

-----------------------------------------------------------------------------
\* The blocks a call of n units at o goes through.
Iterations(o, n) == LbaOf(o + n - 1) - LbaOf(o) + 1

\* A call of cache_read or cache_write begins.
Begin ==
  /\ Idle
  /\ \E op \in {"read", "write"}, o \in Units, n \in 1 .. CacheSize + 1 :
       /\ o + n - 1 \in Units
       /\ op = "write" => writes < MaxWrites
       /\ writes' = writes + (IF op = "write" THEN 1 ELSE 0)
       /\ Careful => Len(requests) + Iterations(o, n) <= MaxRequests
       /\ call' = [op |-> op, offset |-> o, size |-> n, data |-> IF op = "write" THEN writes' ELSE 0]
  /\ UNCHANGED <<disk, blockvars, requests, content, misread, failed>>

\* Mutant of HitLoaded: a write leaves the state of the block.
HitLoadedClean ==
  /\ ~Idle
  /\ \E s \in Found :
       /\ valid[s] \in {ACTIVE, DIRTY}
       /\ IF call.op = "write"
          THEN buffer' = Written(buffer, s, Request(s)) /\ UNCHANGED misread
          ELSE /\ misread' = (misread \/ ~ReadsWell(buffer, s, Request(s)))
               /\ UNCHANGED buffer
  /\ Advance /\ Recorded
  /\ UNCHANGED <<writes, disk, valid, lba, point, requests, failed>>

\* The block is cached: the data are copied.
HitLoaded ==
  /\ ~Idle
  /\ \E s \in Found :
       /\ valid[s] \in {ACTIVE, DIRTY}
       /\ IF call.op = "write"
          THEN /\ buffer' = Written(buffer, s, Request(s))
               /\ valid' = [valid EXCEPT ![s] = DIRTY]
               /\ UNCHANGED misread
          ELSE /\ misread' = (misread \/ ~ReadsWell(buffer, s, Request(s)))
               /\ UNCHANGED <<buffer, valid>>
  /\ Advance /\ Recorded
  /\ UNCHANGED <<writes, disk, lba, point, requests, failed>>

\* A request goes to the first free place.  There is no test for a full table.
Enqueue(s) ==
  IF Len(requests) < MaxRequests
  THEN requests' = Append(requests, Request(s)) /\ UNCHANGED failed
  ELSE failed' = "request behind the table" /\ UNCHANGED requests

\* The block is cached but not read yet: a request.
HitEnabled ==
  /\ ~Idle
  /\ \E s \in Found : valid[s] = ENABLE /\ Enqueue(s)
  /\ Advance /\ Recorded
  /\ UNCHANGED <<writes, disk, blockvars, misread>>

-----------------------------------------------------------------------------
\* Mutant of Inserted: insert_sorted stops at the first larger block.
InsertedFront(q, s, l) == <<s>> \o q

\* insert_sorted: slot s, of block l, goes behind the last block up to l.
Inserted(q, s, l) ==
  LET k == CHOOSE k \in 0 .. Len(q) :
             /\ k > 0 => lba[q[k]] <= l
             /\ \A i \in k + 1 .. Len(q) : lba[q[i]] > l
  IN  [i \in 1 .. Len(q) + 1 |->
         IF i <= k THEN q[i] ELSE IF i = k + 1 THEN s ELSE q[i - 1]]

\* Mutant of Evictable: a dirty block is evicted too.
EvictableDirty == {i \in 1 .. Len(point) : valid[point[i]] \in {ACTIVE, DIRTY}}

\* The blocks _cache_block_rel may release, by their place in point.
Evictable == {i \in 1 .. Len(point) : valid[point[i]] = ACTIVE}

First(S) == CHOOSE i \in S : \A j \in S : i <= j

\* The entries behind place i move up.
Dropped(i) == [j \in 1 .. Len(point) - 1 |-> IF j < i THEN point[j] ELSE point[j + 1]]

\* No block can be released: the call ends with an error.
MissFull ==
  /\ ~Idle /\ Found = {}
  /\ Len(point) = MaxCaches /\ Evictable = {}
  /\ call' = NoCall
  /\ UNCHANGED <<writes, disk, blockvars, requests, content, misread, failed>>

\* The slot for a new block, and the list without it.
NewSlot ==
  IF Len(point) = MaxCaches THEN point[First(Evictable)]
  ELSE First({s \in Slots : valid[s] = IDLE})

Kept == IF Len(point) = MaxCaches THEN Dropped(First(Evictable)) ELSE point

\* A new block with the given state.
Created(state) ==
  LET s == NewSlot
  IN  /\ valid' = [valid EXCEPT ![s] = state]
      /\ lba' = [lba EXCEPT ![s] = Lba]
      /\ point' = Inserted(Kept, s, Lba)

CanCreate == Len(point) < MaxCaches \/ Evictable # {}

\* A write covers a block that is not cached: nothing is read, and the loop
\* comes again to find the block dirty.
MissWhole ==
  /\ ~Idle /\ Found = {} /\ CanCreate
  /\ call.op = "write" /\ Offset = 0 /\ Size = CacheSize
  /\ Created(DIRTY)
  /\ buffer' = Written(buffer, NewSlot, Request(NewSlot))
  /\ Recorded
  /\ UNCHANGED <<writes, disk, requests, call, misread, failed>>

-----------------------------------------------------------------------------
\* What sync does with blocks v, b and requests q.
Loaded(v, b, l) ==
  [s \in Slots |-> IF v[s] = ENABLE
                   THEN [o \in Offsets |-> disk[UnitAt(l[s], o)]]
                   ELSE b[s]]

\* The writes among the first n requests of q to place o of slot s.
WritesTo(q, n, s, o) ==
  {i \in 1 .. n : q[i].op = "write" /\ q[i].slot = s /\ UnitOf(q[i], o) \in DOMAIN q[i].data}

Last(S) == CHOOSE i \in S : \A j \in S : j <= i

\* Buffers b after the first n requests of q: the last write stays.
After(b, q, n) ==
  [s \in Slots |-> [o \in Offsets |->
     LET W == WritesTo(q, n, s, o)
     IN  IF W = {} THEN b[s][o] ELSE q[Last(W)].data[UnitOf(q[Last(W)], o)]]]

\* The requests of q served in order, on blocks v with buffers b.
Served(v, b, q) ==
  [valid   |-> [s \in Slots |->
                  IF \E i \in 1 .. Len(q) : q[i].op = "write" /\ q[i].slot = s
                  THEN DIRTY ELSE v[s]],
   buffer  |-> After(b, q, Len(q)),
   misread |-> misread \/ \E i \in 1 .. Len(q) :
                 q[i].op = "read" /\ ~ReadsWell(After(b, q, i - 1), q[i].slot, q[i])]

\* Enabled blocks that were read are active.
Activated(v) == [s \in Slots |-> IF v[s] = ENABLE THEN ACTIVE ELSE v[s]]

\* Mutant of Synced: the requests are served from the last to the first.
SyncedBackwards(v, b, l, q) ==
  Served(Activated(v), Loaded(v, b, l), [i \in 1 .. Len(q) |-> q[Len(q) + 1 - i]])

\* Enabled blocks are read and become active; then the requests are served.
Synced(v, b, l, q) == Served(Activated(v), Loaded(v, b, l), q)

\* A new block and a request for it, with a sync when that fills the table.
Miss ==
  /\ ~Idle /\ Found = {} /\ CanCreate
  /\ ~(call.op = "write" /\ Offset = 0 /\ Size = CacheSize)
  /\ LET s == NewSlot
         v == [valid EXCEPT ![s] = ENABLE]
         l == [lba EXCEPT ![s] = Lba]
         q == Append(requests, Request(s))
         w == Synced(v, buffer, l, q)
     IN  /\ lba' = l /\ point' = Inserted(Kept, s, Lba)
         /\ IF Len(q) < MaxRequests
            THEN valid' = v /\ requests' = q /\ UNCHANGED <<buffer, misread, failed>>
            ELSE IF Len(q) = MaxRequests
            THEN /\ valid' = w.valid /\ buffer' = w.buffer /\ misread' = w.misread
                 /\ requests' = <<>> /\ UNCHANGED failed
            ELSE /\ failed' = "request behind the table"
                 /\ valid' = v /\ UNCHANGED <<requests, buffer, misread>>
  /\ Advance /\ Recorded
  /\ UNCHANGED <<writes, disk>>

\* cache_sync_ahci
Sync ==
  /\ Idle
  /\ LET w == Synced(valid, buffer, lba, requests)
     IN  valid' = w.valid /\ buffer' = w.buffer /\ misread' = w.misread
  /\ requests' = <<>>
  /\ UNCHANGED <<writes, disk, lba, point, call, content, failed>>

\* cache_flush_ahci
Flush ==
  /\ Idle
  /\ disk' = [u \in Units |->
       LET S == {s \in Slots : valid[s] = DIRTY /\ lba[s] = LbaOf(u)}
       IN  IF S = {} THEN disk[u] ELSE buffer[First(S)][OffsetOf(u)]]
  /\ valid' = [s \in Slots |-> IF valid[s] = DIRTY THEN ACTIVE ELSE valid[s]]
  /\ UNCHANGED <<writes, lba, buffer, point, requests, call, content, misread, failed>>

Next ==
  /\ failed = "no"
  /\ \/ Begin \/ HitLoaded \/ HitEnabled \/ MissFull \/ MissWhole \/ Miss
     \/ Sync \/ Flush

Spec == Init /\ [][Next]_vars

-----------------------------------------------------------------------------
(* cache_blocks_point lists the used blocks once each in the order of the
   disk, they are the first block_count of cache_blocks, which the search
   relies on, and no part of the disk is cached twice; there are never more
   than MAX_CACHES. *)
BlockTable ==
  /\ Len(point) <= MaxCaches
  /\ \A s \in Slots : valid[s] # IDLE <=> s < Len(point)
  /\ {point[i] : i \in 1 .. Len(point)} = 0 .. Len(point) - 1
  /\ \A i, j \in 1 .. Len(point) : i < j => lba[point[i]] < lba[point[j]]

\* What the units hold when the cache goes before the disk.
View ==
  [u \in Units |->
     LET S == {s \in Slots : valid[s] \in {ACTIVE, DIRTY} /\ lba[s] = LbaOf(u)}
     IN  IF S = {} THEN disk[u] ELSE buffer[First(S)][OffsetOf(u)]]

(* No write is lost: with no request open, cache and disk together hold what
   the callers wrote, across partial writes, whole blocks, evictions and
   blocks that were written to before they were read. *)
NothingLost == requests = <<>> => View = content

(* A block that may be released without writing it holds what the disk
   holds, so after a flush the disk alone has everything. *)
CleanIsOnDisk ==
  \A s \in Slots : valid[s] = ACTIVE =>
    \A o \in Offsets : buffer[s][o] = disk[UnitAt(lba[s], o)]

(* Every caller has after sync what the units held when it called cache_read,
   whether they were cached, read by sync or written to by an earlier or a
   later request of the same batch. *)
ReadsRight == ~misread
=============================================================================
