------------------------------ MODULE AllocPool ------------------------------
(***************************************************************************)
(* The typed memory pools of src/alloc_pool.c: one descriptor, a free list *)
(* per thread that only its thread touches, and a global free list under   *)
(* the descriptor's lock.  Batches of items move between them.  A free     *)
(* list is a stack of chunks of CHUNK_SIZE slots.  A safe pointer          *)
(* (include/qpid/dispatch/alloc_pool.h) remembers the sequence number of   *)
(* its item, which every release increments.                               *)
(*                                                                         *)
(* Items are numbered as the heap provides them; the heap has apcfg.heap   *)
(* of them and then fails.  Chunks are always available.                   *)
(***************************************************************************)
EXTENDS Integers, Sequences, FiniteSets, FiniteSetsExt, SequencesExt

CONSTANTS ApConfigs, CHUNK_SIZE

(* ApConfigs: records [threads : set, heap : Nat, batch, localMax,         *)
(* globalMax : the descriptor's qd_alloc_config_t, frees : releases at     *)
(* most, pointers : safe pointers at most].                                *)
ASSUME ChunkSizePositive == CHUNK_SIZE \in Nat \ {0}

VARIABLES apcfg, ap

apvars == <<apcfg, ap>>

EmptyChunk == [i \in 1 .. CHUNK_SIZE |-> 0]

init_stack == [chunks |-> <<EmptyChunk>>, topChunk |-> 1, top |-> 0, size |-> 0]

prev_chunk_stack(s) == [s EXCEPT !.topChunk = @ - 1, !.top = CHUNK_SIZE]

(* The stack after a pop; TopItem is what it returns, 0 when empty.        *)
Settled(s) == IF s.top = 0 /\ s.size > 0 THEN prev_chunk_stack(s) ELSE s

TopItem(s) == IF s.size = 0 THEN 0
              ELSE LET t == Settled(s) IN t.chunks[t.topChunk][t.top]

pop_stack_KeepsChunk(s) ==
  IF s.size = 0 THEN s ELSE [s EXCEPT !.top = IF @ = 0 THEN CHUNK_SIZE - 1 ELSE @ - 1, !.size = @ - 1]

pop_stack(s) ==
  IF s.size = 0 THEN s
  ELSE LET t == Settled(s) IN [t EXCEPT !.top = @ - 1, !.size = @ - 1]

next_chunk_stack(s) ==
  [s EXCEPT !.chunks = IF s.topChunk = Len(@) THEN Append(@, EmptyChunk) ELSE @,
            !.topChunk = @ + 1, !.top = 0]

push_stack(s, item) ==
  LET t == IF s.top = CHUNK_SIZE THEN next_chunk_stack(s) ELSE s
  IN [t EXCEPT !.chunks[t.topChunk][t.top + 1] = item, !.top = @ + 1, !.size = @ + 1]

MoveSome(m) ==
  LET from == Settled(m.from)
      to == IF m.to.top = CHUNK_SIZE THEN next_chunk_stack(m.to) ELSE m.to
      n == Min({m.remaining, from.top, CHUNK_SIZE - to.top})
      copied == [i \in 1 .. CHUNK_SIZE |->
                   IF i \in to.top + 1 .. to.top + n
                   THEN from.chunks[from.topChunk][from.top - n + (i - to.top)]
                   ELSE to.chunks[to.topChunk][i]]
  IN IF m.remaining = 0 THEN m
     ELSE [ from |-> [from EXCEPT !.top = @ - n, !.size = @ - n],
            to |-> [to EXCEPT !.chunks[to.topChunk] = copied, !.top = @ + n, !.size = @ + n],
            remaining |-> m.remaining - n ]

(* Each round of the loop moves an item at least.                          *)
unordered_move_stack(from, to, length) ==
  LET n == IF from.size < length THEN from.size ELSE length
  IN FoldLeft(LAMBDA m, i : MoveSome(m), [from |-> from, to |-> to, remaining |-> n],
              [i \in 1 .. n |-> i])

(* The items of a stack: full chunks below the top one.                    *)
ItemsOf(s) ==
  {s.chunks[c][i] : c \in 1 .. s.topChunk - 1, i \in 1 .. CHUNK_SIZE}
  \cup {s.chunks[s.topChunk][i] : i \in 1 .. s.top}

-----------------------------------------------------------------------------
NoPool == [listed |-> FALSE, free |-> init_stack]

Uninitialized ==
  [ header |-> FALSE, global |-> init_stack, pools |-> [t \in apcfg.threads |-> NoPool],
    held |-> 0, fromHeap |-> 0, toHeap |-> 0 ]

ApInit == /\ apcfg \in ApConfigs
          /\ ap = [ desc |-> Uninitialized, pc |-> [t \in apcfg.threads |-> "idle"],
                    used |-> {}, seq |-> <<>>, freed |-> {}, frees |-> 0,
                    ptrs |-> {}, stale |-> {}, finalized |-> FALSE ]

ApStep(s) == ap' = s /\ UNCHANGED apcfg

Local(t) == ap.desc.pools[t].free

(* qd_alloc_init: under init_lock, and only for the first thread.          *)
qd_alloc_init(d) ==
  IF d.header THEN d
  ELSE [d EXCEPT !.header = TRUE, !.global = init_stack, !.held = 0, !.fromHeap = 0, !.toHeap = 0]

(* The thread's first pass through here.                                   *)
WithPool(d, t) == IF d.pools[t].listed THEN d
                  ELSE [d EXCEPT !.pools[t] = [listed |-> TRUE, free |-> init_stack]]

(* The item on top of the local list is handed out.                        *)
Take(s, t) ==
  LET item == TopItem(s.desc.pools[t].free)
  IN [s EXCEPT !.desc.pools[t].free = pop_stack(@),
               !.used = IF item = 0 THEN @ ELSE @ \cup {item},
               !.pc[t] = "idle"]

(* qd_alloc: without a lock while the local list lasts.                    *)
AllocFast(t) ==
  /\ ap.pc[t] = "idle" /\ ~ap.finalized
  /\ LET d == WithPool(qd_alloc_init(ap.desc), t)
         s == [ap EXCEPT !.desc = d]
     IN ApStep(IF d.pools[t].free.size > 0 THEN Take(s, t)
                                            ELSE [s EXCEPT !.pc[t] = "refill"])

FromHeap(s, t) ==
  LET item == Len(s.seq) + 1
  IN IF item > apcfg.heap THEN s
     ELSE [s EXCEPT !.desc.pools[t].free = push_stack(@, item), !.seq = Append(@, 0),
                    !.desc.held = @ + 1, !.desc.fromHeap = @ + 1]

(* Under the descriptor's lock: a batch from the global list or the heap.  *)
RefillThread(t) ==
  /\ ap.pc[t] = "refill"
  /\ LET g == ap.desc.global
         m == unordered_move_stack(g, Local(t), apcfg.batch)
         s == IF g.size >= apcfg.batch
              THEN [ap EXCEPT !.desc.global = m.from, !.desc.pools[t].free = m.to,
                              !.desc.held = @ + apcfg.batch]
              ELSE FoldLeft(LAMBDA r, i : FromHeap(r, t), ap, [i \in 1 .. apcfg.batch |-> i])
     IN ApStep([s EXCEPT !.pc[t] = "take"])

(* The second pop: no memory, no item.                                     *)
AllocSlow(t) == ap.pc[t] = "take" /\ ApStep(Take(ap, t))

(* qd_dealloc up to the lock.                                              *)
HandedBack(s, t, item) ==
  [s EXCEPT !.desc = [WithPool(@, t) EXCEPT !.pools[t].free = push_stack(@, item)],
            !.used = @ \ {item}, !.frees = @ + 1,
            !.stale = @ \cup {p \in s.ptrs : p.item = item}]

Dealloc(t, item) ==
  /\ ap.pc[t] = "idle" /\ ~ap.finalized /\ ap.frees < apcfg.frees
  /\ LET s == [HandedBack(ap, t, item) EXCEPT !.seq[item] = @ + 1]
     IN ApStep([s EXCEPT !.pc[t] = IF s.desc.pools[t].free.size < apcfg.localMax
                                   THEN "idle" ELSE "rebalance"])

ToHeap(s) == [s EXCEPT !.freed = @ \cup {TopItem(s.desc.global)},
                       !.desc.global = pop_stack(@), !.desc.toHeap = @ + 1]

RebalanceGlobal(t) ==
  /\ ap.pc[t] = "rebalance"
  /\ LET m == unordered_move_stack(Local(t), ap.desc.global, apcfg.batch)
         s == [ap EXCEPT !.desc.pools[t].free = m.from, !.desc.global = m.to,
                         !.desc.held = @ - apcfg.batch]
         over == IF apcfg.globalMax = 0 \/ m.to.size <= apcfg.globalMax THEN 0
                 ELSE m.to.size - apcfg.globalMax
         r == FoldLeft(LAMBDA acc, i : ToHeap(acc), s, [i \in 1 .. over |-> i])
     IN ApStep([r EXCEPT !.pc[t] = "idle"])

(* qd_alloc_set_safe_ptr on an item in use.                                *)
SetSafePtr(item) ==
  /\ Cardinality(ap.ptrs) < apcfg.pointers
  /\ ApStep([ap EXCEPT !.ptrs = @ \cup {[item |-> item, seq |-> ap.seq[item], no |-> ap.frees]}])

(* qd_alloc_deref_safe_ptr; an item that went back to the heap is no       *)
(* longer there to be read.                                                *)
qd_alloc_deref_safe_ptr(p) == p.seq = ap.seq[p.item]

(* qd_alloc_finalize: the threads have been joined.                        *)
qd_alloc_finalize ==
  /\ ~ap.finalized /\ ap.desc.header /\ \A t \in apcfg.threads : ap.pc[t] = "idle"
  /\ LET d == ap.desc
         listed == {t \in apcfg.threads : d.pools[t].listed}
         items == ItemsOf(d.global) \cup UNION {ItemsOf(d.pools[t].free) : t \in listed}
     IN ApStep([ap EXCEPT !.freed = @ \cup items, !.finalized = TRUE,
                          !.desc = [Uninitialized EXCEPT !.fromHeap = d.fromHeap,
                                      !.toHeap = d.toHeap + d.global.size
                                        + MapThenSumSet(LAMBDA t : d.pools[t].free.size, listed)]])

ApNext ==
  \/ \E t \in apcfg.threads :
       \/ AllocFast(t) \/ RefillThread(t) \/ AllocSlow(t) \/ RebalanceGlobal(t)
       \/ \E item \in ap.used : Dealloc(t, item)
  \/ \E item \in ap.used : SetSafePtr(item)
  \/ qd_alloc_finalize

ApSpec == ApInit /\ [][ApNext]_apvars

-----------------------------------------------------------------------------
Pools == {t \in apcfg.threads : ap.desc.pools[t].listed}
Known == 1 .. Len(ap.seq)

(* However the threads interleave, every item the heap has provided is in  *)
(* exactly one place: in use, on one free list (once), or back in the      *)
(* heap; held_by_threads counts what is in use or on a thread's list, a    *)
(* list is below its limit when its thread rests, and the finalizer finds  *)
(* exactly the items that are in use missing.                              *)
(* (qd_alloc, qd_dealloc, unordered_move_stack, qd_alloc_finalize)         *)
ItemsConserved ==
  /\ \A s \in {ap.desc.global} \cup {Local(t) : t \in Pools} : Cardinality(ItemsOf(s)) = s.size
  /\ LET places == {ap.used, ap.freed, ItemsOf(ap.desc.global)}
         held == UNION {ItemsOf(Local(t)) : t \in Pools}
     IN /\ Known = UNION places \cup held
        /\ Len(ap.seq) = Cardinality(ap.used) + Cardinality(ap.freed) + ap.desc.global.size
                          + MapThenSumSet(LAMBDA t : Local(t).size, Pools)
        /\ ~ap.finalized => ap.desc.held = Cardinality(ap.used) + Cardinality(held)
        /\ ap.finalized => ap.desc.fromHeap - ap.desc.toHeap = Cardinality(ap.used)
  /\ \A t \in Pools : ap.pc[t] = "idle" => Local(t).size < apcfg.localMax
  /\ (\A t \in Pools : ap.pc[t] = "idle") /\ apcfg.globalMax > 0
       => ap.desc.global.size <= apcfg.globalMax

(* A safe pointer gives its item as long as the item is allocated as it    *)
(* was when the pointer was set, and nothing once it has been released,    *)
(* be it in use again.  (qd_alloc_deref_safe_ptr)                          *)
SafePointersExact ==
  \A p \in ap.ptrs : qd_alloc_deref_safe_ptr(p) <=> p \notin ap.stale

(* The pools as a whole: items and safe pointers.                          *)
PoolSound == ItemsConserved /\ SafePointersExact
=============================================================================
