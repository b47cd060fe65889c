---------------------------- MODULE NgxMemPool ----------------------------
(***************************************************************************)
(* The memory pool after nginx: small allocations are cut from one block,  *)
(* large ones come from malloc() and hang on a list whose entries are cut  *)
(* from the block, too.  Addresses are offsets in the block.               *)
(*                                                                         *)
(* A second block is never seen: ngx_palloc_block() writes its header      *)
(* through a pointer that was not initialised, and the program's behaviour *)
(* is undefined from then on.                                              *)
(***************************************************************************)
EXTENDS Naturals, Sequences, FiniteSets

CONSTANTS PoolSizes,    \* sizes the program creates a pool with
          AllocSizes,   \* sizes it asks for
          Scanned,      \* entries of the list tried for a new block; 5 in the
                        \* code
          MaxLarge,     \* bound: large allocations at a time
          MaxSmall,     \* bound: allocations within the block
          MaxCleanup    \* bound: cleanup entries

PoolHeader == 64        \* sizeof(ngx_pool_s)
LargeHeader == 16       \* sizeof(ngx_pool_large_s)
CleanupHeader == 24     \* sizeof(ngx_pool_cleanup_s)
Alignment == 8          \* NGX_ALIGNMENT
MaxFromPool == 4095     \* NGX_MAX_ALLOC_FROM_POOL

ASSUME PoolAssumption ==
  /\ \A n \in PoolSizes : n \in Nat /\ n >= PoolHeader + CleanupHeader
  /\ \A n \in AllocSizes : n \in Nat \ {0}
  /\ Scanned \in Nat /\ MaxLarge \in Nat
  /\ MaxSmall \in Nat /\ MaxCleanup \in Nat

VARIABLES
    pool                \* the pool: its members, and a history:
                        \*   handed: what was cut from the block,
                        \*   heap, leaked: large blocks not yet freed, and
                        \*   those of them that nobody can free any more

NullPtr == 0
AlignPtr(m) == ((m + (Alignment - 1)) \div Alignment) * Alignment

\* (size_t)(end - m) is huge if m lies behind the end.
Fits(q, m, size) == m <= q.size => q.size - m >= size

\* ngx_palloc_small() and, if the block is full, ngx_palloc_block(); block
\* says whether its malloc() succeeds.
Small(q, size, align, block) ==
  LET m == IF align THEN AlignPtr(q.last) ELSE q.last IN
  IF Fits(q, m, size)
  THEN [pool |-> [q EXCEPT !.last = m + size,
                           !.handed = Append(@, [from |-> m, to |-> m + size,
                                                 align |-> align])],
        ptr |-> m]
  ELSE [pool |-> IF block THEN [q EXCEPT !.status = "undefined"] ELSE q,
        ptr |-> NullPtr]

\* Variant: any of the first entries is used again, empty or not.
Reusable_Taken(q) == {i \in 1..Len(q.larges) : i <= Scanned}
Reusable(q) == {i \in 1..Len(q.larges) : i <= Scanned /\ q.larges[i].alloc = NullPtr}

\* ngx_palloc_large(): an empty entry among the first ones is used again.  If
\* there is no room for a new entry, the block is freed by ngx_pfree(), which
\* does not find it in the list.
Large(q, large, block) ==
  LET id == CHOOSE n \in 1..(MaxLarge + 1) : n \notin q.heap
      r == [q EXCEPT !.heap = @ \cup {id}]
      entry == Small(r, LargeHeader, TRUE, block)
  IN IF ~large THEN [pool |-> q, ptr |-> NullPtr]
     ELSE IF Reusable(q) # {}
     THEN LET i == CHOOSE i \in Reusable(q) : \A j \in Reusable(q) : i <= j
          IN [pool |-> [r EXCEPT !.larges[i].alloc = id], ptr |-> id]
     ELSE IF entry.ptr = NullPtr
     THEN [pool |-> [entry.pool EXCEPT !.leaked = @ \cup {id}],
           ptr |-> NullPtr]
     ELSE [pool |-> [entry.pool EXCEPT
                      !.larges = <<[at |-> entry.ptr, alloc |-> id]>> \o @],
           ptr |-> id]

\* ngx_palloc(), ngx_pcalloc() with align, ngx_pnalloc() without.
PoolMax(q) == IF q.size - PoolHeader < MaxFromPool THEN q.size - PoolHeader
              ELSE MaxFromPool
Palloc(q, size, align, large, block) ==
  IF size <= PoolMax(q) THEN Small(q, size, align, block)
  ELSE Large(q, large, block)

\* ngx_pfree(): the entry stays.
Pfree(q, id) ==
  LET at == {i \in 1..Len(q.larges) : q.larges[i].alloc = id} IN
  IF at = {} THEN q
  ELSE LET i == CHOOSE i \in at : \A j \in at : i <= j IN
       [q EXCEPT !.larges[i].alloc = NullPtr, !.heap = @ \ {id}]

\* ngx_pool_cleanup_add()
CleanupAdd(q, size, large, block) ==
  LET c == Palloc(q, CleanupHeader, TRUE, large, block)
      data == Palloc(c.pool, size, TRUE, large, block)
      Listed(r) == [r EXCEPT !.cleanup = <<[at |-> c.ptr, old |-> FALSE]>> \o @]
  IN IF c.ptr = NullPtr THEN c.pool
     ELSE IF size = 0 THEN Listed(c.pool)
     ELSE IF data.ptr = NullPtr THEN data.pool
     ELSE Listed(data.pool)

\* ngx_resent_pool(): the list of cleanup entries is kept, though their memory
\* is handed out again.
Reset(q) ==
  [q EXCEPT !.heap = @ \ {q.larges[i].alloc : i \in DOMAIN q.larges},
            !.last = PoolHeader, !.larges = << >>, !.handed = << >>,
            !.cleanup = [i \in DOMAIN @ |-> [@[i] EXCEPT !.old = TRUE]]]

\* ngx_destory_pool(): undefined if an entry of the cleanup list has been
\* overwritten, else everything that is listed is freed.
Overwritten(q, c) ==
  c.old /\ \E i \in DOMAIN q.handed :
             q.handed[i].from < c.at + CleanupHeader /\ c.at < q.handed[i].to
Destroy(q) ==
  IF \E i \in DOMAIN q.cleanup : Overwritten(q, q.cleanup[i])
  THEN [q EXCEPT !.status = "undefined"]
  ELSE [q EXCEPT !.status = "destroyed",
                 !.heap = @ \ {q.larges[i].alloc : i \in DOMAIN q.larges}]

-----------------------------------------------------------------------------
\* ngx_create_pool()
PoolInit ==
  \E n \in PoolSizes :
    pool = [status |-> "ready", size |-> n, last |-> PoolHeader,
            larges |-> << >>, cleanup |-> << >>, handed |-> << >>,
            heap |-> {}, leaked |-> {}]

Bounded == /\ pool.status = "ready"
           /\ Cardinality(pool.heap) < MaxLarge
           /\ Len(pool.handed) < MaxSmall

NgxPalloc(size, align, large, block) ==
  Bounded /\ pool' = Palloc(pool, size, align, large, block).pool
NgxPoolCleanupAdd(size, large, block) ==
  /\ Bounded /\ Len(pool.cleanup) < MaxCleanup
  /\ pool' = CleanupAdd(pool, size, large, block)
NgxPfree(id) ==
  /\ pool.status = "ready" /\ id \in pool.heap \ pool.leaked
  /\ pool' = Pfree(pool, id)
NgxResetPool == pool.status = "ready" /\ pool' = Reset(pool)
NgxDestroyPool == pool.status = "ready" /\ pool' = Destroy(pool)

PoolNext ==
  \/ \E size \in AllocSizes, large, block \in BOOLEAN :
       \/ \E align \in BOOLEAN : NgxPalloc(size, align, large, block)
       \/ NgxPoolCleanupAdd(size, large, block)
  \/ \E large, block \in BOOLEAN : NgxPoolCleanupAdd(0, large, block)
  \/ \E id \in pool.heap : NgxPfree(id)
  \/ NgxResetPool
  \/ NgxDestroyPool

PoolSpec == PoolInit /\ [][PoolNext]_pool

-----------------------------------------------------------------------------
\* While the pool is defined, what it hands out from its block lies behind the
\* header, before the end, aligned if asked for, and apart from everything
\* handed out since the last reset, list entries included
\* (ngx_mem_pool.cpp:55-77); only a pool whose size is no multiple of the
\* alignment may hand out memory behind its end (line 68).  A large block is
\* in exactly one entry of the list until it is freed, so that destroying the
\* pool frees each once, but for blocks that found no room for an entry
\* (lines 80-127, 201-205).
AllocationsAreDisjoint ==
  pool.status # "undefined" =>
    /\ \A i \in DOMAIN pool.handed :
         LET a == pool.handed[i] IN
         /\ PoolHeader <= a.from
         /\ pool.size % Alignment = 0 => a.to <= pool.size
         /\ a.align => a.from % Alignment = 0
         /\ \A j \in DOMAIN pool.handed : i < j => a.to <= pool.handed[j].from
    /\ \A i \in DOMAIN pool.larges :
         \E j \in DOMAIN pool.handed :
           /\ pool.handed[j].from = pool.larges[i].at
           /\ pool.handed[j].to = pool.larges[i].at + LargeHeader
    /\ pool.leaked \subseteq pool.heap
    /\ IF pool.status = "destroyed" THEN pool.heap = pool.leaked
       ELSE \A id \in pool.heap \ pool.leaked :
              Cardinality({i \in DOMAIN pool.larges :
                             pool.larges[i].alloc = id}) = 1
=============================================================================
