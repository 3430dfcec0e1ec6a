-------------------------------- MODULE Slab --------------------------------
(***************************************************************************)
(* The slab allocator of a shared memory segment (pg_rest_slab.c): an      *)
(* array of page descriptors, a list of runs of free pages, and one list   *)
(* of partly used pages per chunk size. pgrest_slab_alloc and              *)
(* pgrest_slab_free hold the LWLock of the pool from their first to their  *)
(* last access, so each call is one action.                                *)
(***************************************************************************)
EXTENDS Integers, SequencesExt

CONSTANTS
    NPages,      \* pages of the pool
    NClasses,    \* chunk sizes, pgrest_pagesize_shift - pool->min_shift
    Chunks,      \* per class: chunks in a page
    Reserved,    \* per class: chunks that hold the bitmap of a SMALL page
    MaxRun,      \* bound: pages of the largest request
    DoubleFrees  \* whether callers may free a page that is free

ASSUME SlabAssumption ==
    /\ NPages \in Nat \ {0}
    /\ NClasses \in Nat
    /\ Chunks \in [1 .. NClasses -> Nat]
    /\ Reserved \in [1 .. NClasses -> Nat]
    /\ \A k \in 1 .. NClasses : Reserved[k] + 1 < Chunks[k]
    /\ MaxRun \in 1 .. NPages
    /\ DoubleFrees \in BOOLEAN

VARIABLES
    mem,   \* the descriptors and list heads: next, prev, slab, and the type
           \* that the code keeps in the low bits of prev
    map,   \* per page: the bitmap of its chunks
    live   \* the blocks that callers own

vars == <<mem, map, live>>

Pages == 0 .. NPages - 1
Classes == 1 .. NClasses
Usable(k) == Reserved[k] .. Chunks[k] - 1

\* Pointers: a page descriptor, &pool->free, &slots[k], or NULL.
Null == -1
FreeHead == NPages
Slot(k) == NPages + k
Nodes == 0 .. NPages + NClasses

\* Values of page->slab for pages that hold no chunks.
PageFree == 0
PageBusy == -1
PageStart == NPages + 1
PageType == 0

\* A block: len pages from page on, or one chunk of a page (len is 0).
Runs == {[page |-> p, len |-> n, class |-> 0, chunk |-> 0] :
            p \in Pages, n \in 1 .. MaxRun}
Pieces == UNION {{[page |-> p, len |-> 0, class |-> k, chunk |-> c] :
                     p \in Pages, c \in Usable(k)} : k \in Classes}
Blocks == Runs \cup Pieces
Covers(b) == b.page .. b.page + (IF b.len = 0 THEN 0 ELSE b.len - 1)

Memory == [next : [Nodes -> Nodes \cup {Null}],
           prev : [Nodes -> Nodes \cup {Null}],
           slab : [Pages -> PageBusy .. PageStart + NPages],
           type : [Pages -> {PageType} \cup Classes]]

TypeOK ==
    /\ mem \in Memory
    /\ map \in [Pages -> SUBSET Nat]
    /\ live \subseteq Blocks

\* pgrest_slab_init: one run of all the pages, empty slot lists.
Init ==
    /\ mem = [next |-> [x \in Nodes |->
                          CASE x = FreeHead -> 0
                            [] x > FreeHead -> x
                            [] x = 0 -> FreeHead
                            [] OTHER -> Null],
              prev |-> [x \in Nodes |-> IF x = 0 THEN FreeHead ELSE Null],
              slab |-> [p \in Pages |-> IF p = 0 THEN NPages ELSE PageFree],
              type |-> [p \in Pages |-> PageType]]
    /\ map = [p \in Pages |-> {}]
    /\ live = {}

-----------------------------------------------------------------------------
(* Lists.                                                                  *)

\* The pages of the list that starts at head, in the order of next.
List(m, head) ==
    LET at[i \in 0 .. NPages] ==
          IF i = 0 THEN m.next[head]
          ELSE IF at[i - 1] \in Pages THEN m.next[at[i - 1]] ELSE Null
        len == Cardinality({i \in 0 .. NPages : at[i] \in Pages})
    IN  [i \in 1 .. len |-> at[i - 1]]

Unlink(m, x) ==
    [m EXCEPT !.next[m.prev[x]] = m.next[x], !.prev[m.next[x]] = m.prev[x]]

PushFront(m, head, x) ==
    [m EXCEPT !.next[x] = m.next[head], !.prev[x] = head,
              !.prev[m.next[head]] = x, !.next[head] = x]

-----------------------------------------------------------------------------
(* pgrest_slab_alloc_pages and pgrest_slab_free_pages.                     *)

\* Where the free list has a run of at least n pages; the first is taken.
Fitting(m, n) ==
    LET list == List(m, FreeHead)
    IN  {i \in 1 .. Len(list) : m.slab[list[i]] >= n}
FirstFit(m, n) == List(m, FreeHead)[Min(Fitting(m, n))]

\* The run that starts at page gives its first n pages; what is left takes its
\* place in the list, and the last page of the rest points back to its head.
TakePages(m, page, n) ==
    LET size == m.slab[page]
        rest == page + n
        cut  == IF size > n
                THEN [m EXCEPT !.prev[page + size - 1] = rest,
                               !.slab[rest] = size - n,
                               !.next[rest] = m.next[page],
                               !.prev[rest] = m.prev[page],
                               !.next[m.prev[page]] = rest,
                               !.prev[m.next[page]] = rest]
                ELSE Unlink(m, page)
        run  == page .. page + n - 1
    IN  [cut EXCEPT !.slab = [p \in Pages |->
                                CASE p = page -> PageStart + n
                                  [] p \in run \ {page} -> PageBusy
                                  [] OTHER -> @[p]],
                    !.next = [x \in Nodes |-> IF x \in run THEN Null ELSE @[x]],
                    !.prev = [x \in Nodes |-> IF x \in run THEN Null ELSE @[x]]]

\* The run that starts at x becomes part of the run at page.
Absorb(m, x, page) ==
    [m EXCEPT !.slab[x] = PageFree, !.next[x] = Null, !.prev[x] = Null,
              !.slab[page] = @ + m.slab[x]]

\* The pages are marked free and leave the slot list they may be in.
Release(m, page, n) ==
    LET inner == page + 1 .. page + n - 1
        freed == [m EXCEPT
                    !.slab = [p \in Pages |-> CASE p = page -> n
                                                [] p \in inner -> PageFree
                                                [] OTHER -> @[p]],
                    !.next = [x \in Nodes |-> IF x \in inner THEN Null ELSE @[x]],
                    !.prev = [x \in Nodes |-> IF x \in inner THEN Null ELSE @[x]],
                    !.type[page] = PageType]
    IN  IF m.next[page] # Null THEN Unlink(freed, page) ELSE freed

\* A free run right behind is joined.
JoinNext(m, page) ==
    LET join == page + m.slab[page]
    IN  IF /\ join < NPages
           /\ m.type[join] = PageType
           /\ m.next[join] # Null
        THEN Absorb(Unlink(m, join), join, page)
        ELSE m

\* Seeded fault: only a run of one page is recognised.
RunBeforeSingle(m, page) ==
    LET last == page - 1
    IN  IF page > 0 /\ m.type[last] = PageType /\ m.next[last] # Null
        THEN last ELSE page

\* The head of the free run right before page, or page itself if there is none:
\* the last page of a run of several points back to the head.
RunBefore(m, page) ==
    LET last == page - 1
        head == IF m.slab[last] = PageFree THEN m.prev[last] ELSE last
    IN  IF page > 0 /\ m.type[last] = PageType /\ m.next[head] # Null
        THEN head ELSE page

JoinPrev(m, page) ==
    LET head == RunBefore(m, page)
    IN  IF head # page
        THEN Absorb(Unlink(m, head), page, head)
        ELSE m

PointBack(m, head) ==
    IF m.slab[head] > 1
    THEN [m EXCEPT !.prev[head + m.slab[head] - 1] = head]
    ELSE m

FreePages(m, page, n) ==
    LET joined == JoinNext(Release(m, page, n), page)
        head   == RunBefore(joined, page)
    IN  PushFront(PointBack(JoinPrev(joined, page), head), FreeHead, head)

-----------------------------------------------------------------------------
(* pgrest_slab_do_alloc. A request that finds no room returns NULL and     *)
(* changes nothing.                                                        *)

\* A request of more than half a page.
AllocRun(n) ==
    LET page == FirstFit(mem, n)
    IN  /\ Fitting(mem, n) # {}
        /\ mem' = TakePages(mem, page, n)
        /\ live' = live \cup {[page |-> page, len |-> n, class |-> 0, chunk |-> 0]}
        /\ UNCHANGED map

Piece(p, k, c) == [page |-> p, len |-> 0, class |-> k, chunk |-> c]

\* Seeded fault: an off-by-one in the mask of a full page.
FullMaskShort(k) == 0 .. Chunks[k] - 2

\* The bitmap of a page that has no chunk to give.
FullMask(k) == 0 .. Chunks[k] - 1

\* The first page in the list of the class gives its first free chunk, and
\* leaves the list when that was the last.
AllocChunk(k) ==
    LET page == mem.next[Slot(k)]
        c    == CHOOSE i \in 0 .. Chunks[k] - 1 :
                   i \notin map[page] /\ 0 .. i - 1 \subseteq map[page]
        full == map[page] \cup {c} = FullMask(k)
    IN  /\ page # Slot(k)
        /\ map' = [map EXCEPT ![page] = @ \cup {c}]
        /\ mem' = IF full
                  THEN [Unlink(mem, page) EXCEPT !.next[page] = Null,
                                                 !.prev[page] = Null]
                  ELSE mem
        /\ live' = live \cup {Piece(page, k, c)}

\* The chunk a new page gives first: the one behind its bitmap.
FirstChunk(k) == Reserved[k]

\* The list of the class is empty: a new page, whose first chunks may hold its
\* bitmap.
AllocChunkPage(k) ==
    LET page == FirstFit(mem, 1)
        new  == TakePages(mem, page, 1)
    IN  /\ mem.next[Slot(k)] = Slot(k)
        /\ Fitting(mem, 1) # {}
        /\ mem' = [new EXCEPT !.type[page] = k, !.next[page] = Slot(k),
                              !.prev[page] = Slot(k), !.next[Slot(k)] = page]
        /\ map' = [map EXCEPT ![page] = 0 .. FirstChunk(k)]
        /\ live' = live \cup {Piece(page, k, FirstChunk(k))}

-----------------------------------------------------------------------------
(* pgrest_slab_do_free, for the pointer to chunk c of a page (c is 0 for   *)
(* the page itself). What it does depends on the descriptor alone.         *)

\* Seeded fault: only one word of the bitmap is looked at.
EmptiedFirstWord(k, bits) == Reserved[k] \notin bits

\* No chunk of the page is owned any more.
Emptied(k, bits) == bits \cap Usable(k) = {}

\* SMALL, EXACT, BIG: a page that was full goes to the head of its slot list, a
\* page whose last chunk this was goes back to the free runs.
FreeChunk(page, c) ==
    LET k     == mem.type[page]
        left  == map[page] \ {c}
        found == IF mem.next[page] = Null
                 THEN PushFront(mem, Slot(k), page) ELSE mem
    IN  /\ k # PageType
        /\ c \in map[page]
        /\ map' = [map EXCEPT ![page] = left]
        /\ mem' = IF Emptied(k, left) THEN FreePages(found, page, 1) ELSE found

\* PAGE: refused when the descriptor says PAGE_FREE or PAGE_BUSY.
FreeRun(page) ==
    LET slab == mem.slab[page]
    IN  /\ mem.type[page] = PageType
        /\ slab \notin {PageFree, PageBusy}
        /\ mem' = FreePages(mem, page,
                            IF slab > PageStart THEN slab - PageStart ELSE slab)
        /\ UNCHANGED map

FreeBlock(b) ==
    /\ b \in live
    /\ IF b.len = 0 THEN FreeChunk(b.page, b.chunk) ELSE FreeRun(b.page)
    /\ live' = live \ {b}

\* A caller frees a page that nobody owns.
FreeAgain(page) ==
    /\ DoubleFrees
    /\ \A b \in live : page \notin Covers(b)
    /\ FreeRun(page)
    /\ UNCHANGED live

Next ==
    \/ \E n \in 1 .. MaxRun : AllocRun(n)
    \/ \E k \in Classes : AllocChunk(k) \/ AllocChunkPage(k)
    \/ \E b \in live : FreeBlock(b)
    \/ \E p \in Pages : FreeAgain(p)

Spec == Init /\ [][Next]_vars

-----------------------------------------------------------------------------
(* Properties.                                                             *)

InUse == UNION {Covers(b) : b \in live}

\* The maximal runs of pages that no block uses, each as <<first, length>>.
Gaps ==
    {g \in Pages \X (1 .. NPages) :
       LET run == g[1] .. g[1] + g[2] - 1
       IN  /\ run \subseteq Pages \ InUse
           /\ g[1] - 1 \notin Pages \ InUse
           /\ g[1] + g[2] \notin Pages \ InUse}

\* The free list describes exactly the pages that no caller owns, every gap
\* whole: adjacent free runs have been joined on both sides, so a request that
\* is refused (slab.c:685) really has no room, and a chunk page came back with
\* its last chunk. Holds after any order of requests and frees.
FreeListExact ==
    LET list == List(mem, FreeHead)
    IN  /\ IsInjective(list)
        /\ {<<p, mem.slab[p]>> : p \in ToSet(list)} = Gaps

\* Every list can be walked both ways: unlinking relies on prev, and the prev of
\* a list member must not be overwritten by the back pointer of a run
\* (slab.c:650, 760).
LinksAgree ==
    \A head \in {FreeHead} \cup {Slot(k) : k \in Classes} :
       LET list == List(mem, head)
       IN  \A i \in 1 .. Len(list) :
              mem.prev[list[i]] = IF i = 1 THEN head ELSE list[i - 1]

\* The lists of the allocator are exact: typed, complete and linked both ways
\* (slab.c:641-790).
ListsExact == TypeOK /\ FreeListExact /\ LinksAgree

\* The list of a class holds exactly its pages with a chunk to give, and the
\* bitmap of a page says which of its chunks are owned: the search of do_alloc
\* always finds a chunk in the first page (slab.c:193-301), and no page with
\* room is lost.
SlotListsExact ==
    \A k \in Classes :
       LET own(p) == {b.chunk : b \in {x \in live : x.page = p /\ x.class = k}}
       IN  /\ ToSet(List(mem, Slot(k))) =
                 {p \in Pages : own(p) # {} /\ own(p) # Usable(k)}
           /\ \A p \in Pages :
                 own(p) # {} => map[p] = 0 .. Reserved[k] - 1 \cup own(p)

\* No two callers own the same memory: the allocator implements the abstract
\* one, in which a block overlaps no other.
Overlap(a, b) ==
    /\ Covers(a) \cap Covers(b) # {}
    /\ a.len = 0 /\ b.len = 0 /\ a.class = b.class => a.chunk = b.chunk
Abstract == INSTANCE Allocator
ImplementsAllocator == Abstract!Spec

=============================================================================
