-------------------------------- MODULE Ahci --------------------------------
(***************************************************************************)
(* How cache.c reads and writes its blocks through an AHCI controller:     *)
(* ahci_fis_send hands a command to a slot of the port, and                *)
(* cache_sync_ahci and cache_flush_ahci wait for a batch of commands by    *)
(* polling prdbc, the byte count the controller keeps in the header of the *)
(* slot.  The controller works on its own; a step of the task is one       *)
(* iteration of a loop.  All transfers have the size of a block, as those  *)
(* of the cache do.                                                        *)
(***************************************************************************)
EXTENDS Integers

CONSTANTS
  Blocks,    \* block_count
  NumSlots,  \* 32, the command slots of a port
  MaxSync    \* MAX_SYNC_REQUESTS, 32 too

Block == 0 .. Blocks - 1
Slot == 0 .. NumSlots - 1
Fis == 0 .. MaxSync - 1

\* The states of a block of the cache.
IDLE == 0
ENABLE == 1
ACTIVE == 2
DIRTY == 3

\* No command, and no address (0).
NoCommand == [block |-> -1, op |-> "none"]
NoAddress == -1

VARIABLES
  valid,       \* cache_blocks[b].valid
  agree,       \* TRUE iff the buffer of b holds what the disk holds
  cache_fis,   \* the commands in the array of that name
  prdbc_addr,  \* the slot whose prdbc the command's prdbc_addr points to
  CI,          \* the slots whose bit in HBA_RPxCI is set
  clb,         \* the command that the header of a slot refers to
  prdbc,       \* TRUE iff the count in a header is the size of a block
  work,        \* external: the command the controller carries out for a slot
  pc,          \* where the task is: outside, in the loop, or in one of the waits
  op,          \* "read" in cache_sync_ahci, "write" in cache_flush_ahci
  i,           \* the block the loop has come to
  fis_index,   \* the commands of the batch
  k            \* i of the waits

cacheVars == <<valid, agree>>
portVars == <<cache_fis, prdbc_addr, CI, clb>>
hbaVars == <<prdbc, work>>
loopVars == <<pc, op, i, fis_index, k>>
vars == <<cacheVars, portVars, hbaVars, loopVars>>

\* Nothing cached; the commands so far, at boot, had another size.
Init ==
  /\ valid = [b \in Block |-> IDLE] /\ agree = [b \in Block |-> TRUE]
  /\ cache_fis = [f \in Fis |-> NoCommand]
  /\ prdbc_addr = [f \in Fis |-> NoAddress]
  /\ CI = {} /\ clb = [s \in Slot |-> 0]
  /\ prdbc = [s \in Slot |-> FALSE] /\ work = [s \in Slot |-> NoCommand]
  /\ pc = "outside" /\ op = "read" /\ i = 0 /\ fis_index = 0 /\ k = 0

-----------------------------------------------------------------------------
\* Between the calls the cache gives a free or clean block to another part of
\* the disk, to be read, or writes into it.
Use(b) ==
  /\ pc = "outside" /\ valid[b] \in {IDLE, ACTIVE}
  /\ \E v \in {ENABLE, DIRTY} : valid' = [valid EXCEPT ![b] = v]
  /\ agree' = [agree EXCEPT ![b] = FALSE]
  /\ UNCHANGED <<portVars, hbaVars, loopVars>>

\* cache_sync_ahci or cache_flush_ahci is called.
Call ==
  /\ pc = "outside" /\ pc' = "loop"
  /\ op' \in {"read", "write"}
  /\ i' = 0 /\ fis_index' = 0 /\ k' = 0
  /\ UNCHANGED <<cacheVars, portVars, hbaVars>>

\* The blocks the call is about.
Wanted(b) == valid[b] = IF op = "read" THEN ENABLE ELSE DIRTY

\* ahci_fis_send: the first slot without a command.  With none it returns -1,
\* which its callers do not look at.  It leaves prdbc as it is.
Send(f) ==
  IF CI = Slot THEN UNCHANGED <<CI, clb, prdbc_addr>>
  ELSE LET s == CHOOSE s \in Slot \ CI : \A t \in Slot \ CI : s <= t
       IN  /\ CI' = CI \cup {s}
           /\ clb' = [clb EXCEPT ![s] = f]
           /\ prdbc_addr' = [prdbc_addr EXCEPT ![f] = s]

\* A block of the loop.  A full batch is waited for before the loop goes on.
Scan ==
  /\ pc = "loop" /\ i \in Block
  /\ i' = i + 1 /\ k' = 0
  /\ IF ~Wanted(i) THEN UNCHANGED <<valid, portVars, fis_index, pc>>
     ELSE /\ cache_fis' = [cache_fis EXCEPT ![fis_index] = [block |-> i, op |-> op]]
          /\ Send(fis_index)
          /\ valid' = [valid EXCEPT ![i] = ACTIVE]
          /\ fis_index' = fis_index + 1
          /\ pc' = IF fis_index + 1 = MaxSync THEN "batch" ELSE "loop"
  /\ UNCHANGED <<agree, hbaVars, op>>

\* The loop ends, and the rest of the commands are waited for.
ScanEnd ==
  /\ pc = "loop" /\ i = Blocks
  /\ pc' = "rest" /\ k' = 0
  /\ UNCHANGED <<cacheVars, portVars, hbaVars, op, i, fis_index>>

\* A look at one count: when it is not the size of the block, the wait starts
\* again with the first command.
Poll ==
  /\ pc \in {"batch", "rest"} /\ k < fis_index
  /\ k' = IF prdbc_addr[k] # NoAddress /\ prdbc[prdbc_addr[k]] THEN k + 1 ELSE 0
  /\ UNCHANGED <<cacheVars, portVars, hbaVars, pc, op, i, fis_index>>

\* All counts were right.
WaitEnd ==
  /\ pc \in {"batch", "rest"} /\ k = fis_index
  /\ IF pc = "batch" THEN pc' = "loop" /\ fis_index' = 0
     ELSE pc' = "outside" /\ UNCHANGED fis_index
  /\ UNCHANGED <<cacheVars, portVars, hbaVars, op, i, k>>

-----------------------------------------------------------------------------
\* The controller takes up a command some time after its bit was set, and
\* starts to count from 0.
Fetch(s) ==
  /\ s \in CI /\ work[s] = NoCommand
  /\ work' = [work EXCEPT ![s] = cache_fis[clb[s]]]
  /\ prdbc' = [prdbc EXCEPT ![s] = FALSE]
  /\ UNCHANGED <<cacheVars, portVars, loopVars>>

\* It transfers the block, in either direction.
Transfer(s) ==
  /\ work[s] # NoCommand /\ ~prdbc[s]
  /\ prdbc' = [prdbc EXCEPT ![s] = TRUE]
  /\ agree' = [agree EXCEPT ![work[s].block] = valid[work[s].block] = ACTIVE]
  /\ UNCHANGED <<valid, portVars, work, loopVars>>

\* The device says that it is done, and the bit goes.
Complete(s) ==
  /\ work[s] # NoCommand /\ prdbc[s]
  /\ CI' = CI \ {s}
  /\ work' = [work EXCEPT ![s] = NoCommand]
  /\ UNCHANGED <<cacheVars, cache_fis, prdbc_addr, clb, prdbc, loopVars>>

Next ==
  \/ \E b \in Block : Use(b)
  \/ Call \/ Scan \/ ScanEnd \/ Poll \/ WaitEnd
  \/ \E s \in Slot : Fetch(s) \/ Transfer(s) \/ Complete(s)

Spec == Init /\ [][Next]_vars

-----------------------------------------------------------------------------
(* A call waits for its transfers: when it has returned, every block that it
   took for clean or read holds what the disk holds. *)
Transferred == pc = "outside" => \A b \in Block : valid[b] = ACTIVE => agree[b]
=============================================================================
