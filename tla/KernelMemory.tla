---------------------------- MODULE KernelMemory ----------------------------
(***************************************************************************)
(* The page allocator (threads/palloc.c) and malloc on top of it           *)
(* (threads/malloc.c), used by several threads.  Addresses are numbers,    *)
(* the kernel pool begins at 0; a step is what is done under one lock.     *)
(***************************************************************************)
EXTENDS Integers, Sequences, FiniteSets

CONSTANTS MThreads,     \* threads that allocate
          PGSIZE, ArenaBytes, \* a page; sizeof (struct arena)
          FirstBlock,   \* the smallest block_size (16 in the code)
          FreePages,    \* pages from 1 MB to the end of RAM
          user_page_limit, free_page_limit, \* arguments of palloc_init
          MSizes,       \* arguments of malloc and realloc
          Callocs,      \* arguments of calloc
          WordMod,      \* size_t counts modulo this
          MaxBlocks     \* bound on what one thread holds

ASSUME MeAssumption ==
  /\ IsFiniteSet(MThreads)
  /\ {PGSIZE, ArenaBytes, FirstBlock, WordMod} \subseteq Nat \ {0} /\ MSizes \subseteq Nat /\ Callocs \subseteq Nat \X Nat
  /\ ArenaBytes <= PGSIZE \div 2 /\ {FreePages, user_page_limit, free_page_limit, MaxBlocks} \subseteq Nat

VARIABLES used_map,   \* struct pool: the pages in use, by pool
          arena,      \* struct arena of each kernel page: desc (0: big) and free_cnt
          free_list,  \* struct desc: free blocks, by block_size
          held,       \* per thread: what it got, [p, size]; size is what it asked for
          job         \* per thread: a realloc between its steps

MeVars == <<used_map, arena, free_list, held, job>>

NULLP == -1
DIV_ROUND_UP(x, step) == (x + step - 1) \div step

\* A pool's used_map lies at its base: struct bitmap and elements of 32 bits.
bitmap_buf_size(bit_cnt) == 8 + 4 * DIV_ROUND_UP(bit_cnt, 32)
init_pool(page_cnt) == page_cnt - DIV_ROUND_UP(bitmap_buf_size(page_cnt), PGSIZE)

\* palloc_init: pages of each pool, without those of its used_map.
Pools ==
  LET Lesser(a, b) == IF a < b THEN a ELSE b
      user_pages == Lesser(FreePages \div 2, user_page_limit)
  IN [kernel |-> init_pool(Lesser(FreePages, free_page_limit) - user_pages),
      user |-> init_pool(user_pages)]
KernelPages == Pools.kernel
UserPages == Pools.user
NoArena == [desc |-> -1, free_cnt |-> 0]
Idling == [step |-> "idle", old |-> [p |-> NULLP, size |-> 0], new |-> NULLP]

\* malloc_init: powers of two up to half a page.
DescSizes == {d \in {FirstBlock * m : m \in {1, 2, 4, 8, 16, 32, 64, 128, 256}} : d < PGSIZE \div 2}
blocks_per_arena(d) == (PGSIZE - ArenaBytes) \div d

MeInit ==
  /\ used_map = [pool \in DOMAIN Pools |-> {}]
  /\ arena = [pg \in 0 .. KernelPages - 1 |-> NoArena]
  /\ free_list = [d \in DescSizes |-> <<>>]
  /\ held = [t \in MThreads |-> {}] /\ job = [t \in MThreads |-> Idling]

Least(s) == CHOOSE x \in s : \A y \in s : x <= y
PageOf(p) == p \div PGSIZE
arena_to_block(pg, idx, d) == pg * PGSIZE + ArenaBytes + idx * d
BlocksOf(pg, d) == {arena_to_block(pg, i, d) : i \in 0 .. blocks_per_arena(d) - 1}

-----------------------------------------------------------------------------
\* palloc_get_multiple: where cnt pages in a row are free; none for cnt = 0.
Groups(pool, cnt) ==
  IF cnt = 0 THEN {}
  ELSE {i \in 0 .. Pools[pool] - cnt : (i .. i + cnt - 1) \cap used_map[pool] = {}}

palloc_get_multiple(pool, page_idx, cnt) ==
  /\ Groups(pool, cnt) # {} /\ page_idx = Least(Groups(pool, cnt))
  /\ used_map' = [used_map EXCEPT ![pool] = @ \cup (page_idx .. page_idx + cnt - 1)]

palloc_free_multiple(pool, page_idx, cnt) ==
  used_map' = [used_map EXCEPT ![pool] = @ \ (page_idx .. page_idx + cnt - 1)]

\* The smallest descriptor that fits, and otherwise pages (with size_t's wrap).
Fitting(size) == {d \in DescSizes : d >= size}

\* mistake: the arena's header is not counted
big_pagesBare(size) == DIV_ROUND_UP(size, PGSIZE)

big_pages(size) == DIV_ROUND_UP((size + ArenaBytes) % WordMod, PGSIZE)

\* malloc of a big block: the arena's header, then the block.
MallocBig(size, p) ==
  LET cnt == big_pages(size)
  IN \/ \E i \in 0 .. KernelPages - 1 :
          /\ palloc_get_multiple("kernel", i, cnt)
          /\ arena' = [arena EXCEPT ![i] = [desc |-> 0, free_cnt |-> cnt]]
          /\ p = i * PGSIZE + ArenaBytes /\ UNCHANGED free_list
     \/ /\ Groups("kernel", cnt) = {} /\ p = NULLP
        /\ UNCHANGED <<used_map, arena, free_list>>

\* malloc of a small one, under the descriptor's lock: from the free list,
\* which gets a new arena's blocks first when it is empty.
MallocSmall(d, p) ==
  \/ /\ free_list[d] # <<>> /\ p = Head(free_list[d])
     /\ free_list' = [free_list EXCEPT ![d] = Tail(@)]
     /\ arena' = [arena EXCEPT ![PageOf(p)].free_cnt = @ - 1]
     /\ UNCHANGED used_map
  \/ /\ free_list[d] = <<>>
     /\ \E i \in 0 .. KernelPages - 1 :
          /\ palloc_get_multiple("kernel", i, 1)
          /\ p = arena_to_block(i, 0, d)
          /\ arena' = [arena EXCEPT ![i] = [desc |-> d, free_cnt |-> blocks_per_arena(d) - 1]]
          /\ free_list' = [free_list EXCEPT ![d] =
               [k \in 1 .. blocks_per_arena(d) - 1 |-> arena_to_block(i, k, d)]]
  \/ /\ free_list[d] = <<>> /\ Groups("kernel", 1) = {} /\ p = NULLP
     /\ UNCHANGED <<used_map, arena, free_list>>

malloc(size, p) ==
  \/ size = 0 /\ p = NULLP /\ UNCHANGED <<used_map, arena, free_list>>
  \/ size # 0 /\ Fitting(size) = {} /\ MallocBig(size, p)
  \/ size # 0 /\ Fitting(size) # {} /\ MallocSmall(Least(Fitting(size)), p)

\* The list without the blocks of a page that is given back, in its order.
Ascending(S) ==
  {f \in [1 .. Cardinality(S) -> S] : S = {f[i] : i \in DOMAIN f} /\ \A i, j \in DOMAIN f : i < j => f[i] < f[j]}
Without(list, pg) ==
  {[i \in DOMAIN f |-> list[f[i]]] : f \in Ascending({k \in DOMAIN list : PageOf(list[k]) # pg})}

\* free of a block that is not NULL.
free(p) ==
  LET pg == PageOf(p)
      d == arena[pg].desc
      unused == arena[pg].free_cnt + 1 >= blocks_per_arena(d)
  IN IF d = 0 THEN palloc_free_multiple("kernel", pg, arena[pg].free_cnt) /\ UNCHANGED <<arena, free_list>>
     ELSE /\ arena' = [arena EXCEPT ![pg].free_cnt = @ + 1]
          /\ IF unused
             THEN /\ \E rest \in Without(free_list[d], pg) : free_list' = [free_list EXCEPT ![d] = rest]
                  /\ palloc_free_multiple("kernel", pg, 1)
             ELSE free_list' = [free_list EXCEPT ![d] = <<p>> \o @] /\ UNCHANGED used_map

\* The bytes a block has.
block_size(p) ==
  LET a == arena[PageOf(p)]
  IN IF a.desc # 0 THEN a.desc ELSE PGSIZE * a.free_cnt - (p % PGSIZE)

-----------------------------------------------------------------------------
Hold(t, p, size) == held' = [held EXCEPT ![t] = IF p = NULLP THEN @ ELSE @ \cup {[p |-> p, size |-> size]}]
Addresses ==
  LET pages == 0 .. KernelPages - 1
  IN {NULLP} \cup {pg * PGSIZE + ArenaBytes : pg \in pages} \cup UNION {BlocksOf(pg, d) : pg \in pages, d \in DescSizes}
Ready(t) == job[t] = Idling
MayHold(t) == Ready(t) /\ Cardinality(held[t]) < MaxBlocks

Malloc(t, size) ==
  /\ MayHold(t)
  /\ \E p \in Addresses : malloc(size, p) /\ Hold(t, p, size)
  /\ UNCHANGED job

\* calloc refuses some of the products that do not fit in a size_t.
calloc(t, m, n) ==
  LET size == (m * n) % WordMod
  IN /\ MayHold(t) /\ size >= m /\ size >= n
     /\ \E p \in Addresses : malloc(size, p) /\ Hold(t, p, m * n)
     /\ UNCHANGED job

Free(t) ==
  /\ Ready(t)
  /\ \E x \in held[t] : free(x.p) /\ held' = [held EXCEPT ![t] = @ \ {x}]
  /\ UNCHANGED job

\* realloc to a size that is not 0: a new block, the copy, the old one freed;
\* without a new one the old one stays.  (realloc to 0 is free.)
ReallocNew(t, size) ==
  /\ MayHold(t) /\ size # 0
  /\ \E x \in held[t], p \in Addresses :
       /\ malloc(size, p) /\ Hold(t, p, size)
       /\ job' = [job EXCEPT ![t] = IF p = NULLP THEN @ ELSE [step |-> "copied", old |-> x, new |-> p]]

ReallocFree(t) ==
  /\ job[t].step = "copied" /\ job' = [job EXCEPT ![t] = Idling]
  /\ free(job[t].old.p) /\ held' = [held EXCEPT ![t] = @ \ {job[t].old}]

\* A page from the user pool, and back.
palloc_get_page(t) ==
  /\ Ready(t)
  /\ \/ \E i \in 0 .. UserPages - 1 :
          /\ palloc_get_multiple("user", i, 1)
          /\ job' = [job EXCEPT ![t] = [step |-> "page", old |-> [p |-> i, size |-> 0], new |-> NULLP]]
     \/ Groups("user", 1) = {} /\ UNCHANGED <<used_map, job>>
  /\ UNCHANGED <<arena, free_list, held>>

palloc_free_page(t) ==
  /\ job[t].step = "page" /\ palloc_free_multiple("user", job[t].old.p, 1)
  /\ job' = [job EXCEPT ![t] = Idling] /\ UNCHANGED <<arena, free_list, held>>

MeNext ==
  \E t \in MThreads :
    \/ \E size \in MSizes : Malloc(t, size) \/ ReallocNew(t, size)
    \/ \E c \in Callocs : calloc(t, c[1], c[2])
    \/ Free(t) \/ ReallocFree(t) \/ palloc_get_page(t) \/ palloc_free_page(t)

MeSpec == MeInit /\ [][MeNext]_MeVars

\* No size that is asked for wraps around size_t (what malloc adds to it, what
\* calloc multiplies).
NoWrap ==
  /\ \A size \in MSizes : size + ArenaBytes < WordMod
  /\ \A c \in Callocs :
       LET size == (c[1] * c[2]) % WordMod
       IN size >= c[1] /\ size >= c[2] => size = c[1] * c[2] /\ size + ArenaBytes < WordMod

-----------------------------------------------------------------------------
Live == UNION {held[t] : t \in MThreads}
BytesOf(p, n) == p .. p + n - 1

\* What malloc, calloc and realloc return is at least as long as asked for, in
\* pages that are in use, clear of the arenas' headers and of every other
\* block, held or free.
BlocksDisjoint ==
  LET Taken == {[p |-> x.p, size |-> x.size] : x \in Live}
                 \cup UNION {{[p |-> free_list[d][i], size |-> d] : i \in DOMAIN free_list[d]} : d \in DescSizes}
      Heads == UNION {BytesOf(pg * PGSIZE, ArenaBytes) : pg \in {PageOf(x.p) : x \in Taken}}
  IN /\ \A x \in Taken : /\ {PageOf(q) : q \in BytesOf(x.p, x.size)} \subseteq used_map["kernel"]
                         /\ BytesOf(x.p, x.size) \cap Heads = {}
     /\ \A x, y \in Taken : x.p # y.p => BytesOf(x.p, x.size) \cap BytesOf(y.p, y.size) = {}
     /\ Cardinality(Taken) = Cardinality(Live) + Cardinality(UNION {{<<d, i>> : i \in DOMAIN free_list[d]} : d \in DescSizes})
     /\ \A x \in Live : block_size(x.p) >= x.size

\* An arena's free_cnt counts its blocks on the free list, and an arena or a
\* big block has its pages exactly as long as something in it is held: no page
\* leaks and none is given back in use.
PagesComeBack ==
  /\ \A d \in DescSizes : \A i \in DOMAIN free_list[d] :
       LET pg == PageOf(free_list[d][i])
       IN arena[pg].desc = d /\ arena[pg].free_cnt = Cardinality({k \in DOMAIN free_list[d] : PageOf(free_list[d][k]) = pg})
  /\ used_map["kernel"] = UNION {{PageOf(q) : q \in BytesOf(x.p, block_size(x.p))} : x \in Live}
  /\ Cardinality(used_map["user"]) = Cardinality({t \in MThreads : job[t].step = "page"})

\* Blocks and pages are handed out once and come back (malloc.c, palloc.c).
HeapSound == BlocksDisjoint /\ PagesComeBack

=============================================================================
