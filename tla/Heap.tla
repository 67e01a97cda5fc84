-------------------------------- MODULE Heap --------------------------------
(***************************************************************************)
(* The kernel heap of src/memory.asm: a list of blocks, each behind a      *)
(* five-word header (prev, next, size, magic, flags) that lives in the     *)
(* heap memory itself, with kmalloc (first fit), kfree and mem_get_stats;  *)
(* NANO and WGET (commands.c), which call the first two, and the back      *)
(* buffer of vbe_graphics.c.                                               *)
(*                                                                         *)
(* memory.asm takes the argument in EAX; the compiler pushes it on the     *)
(* stack.  kmalloc and kfree work on what the code before the call left    *)
(* in EAX: for kmalloc zero, an address on the stack, or a number that     *)
(* ends in a character, and only for the back buffer the size itself; for  *)
(* kfree a key, a number of characters or the like, and never the address  *)
(* of a block.                                                             *)
(*                                                                         *)
(* Memory is modelled word by word, so that a header written into a block, *)
(* or user data written over a header, has the effect it has on the        *)
(* machine.  User data does not look like a header.  Addresses and sizes   *)
(* count words; arithmetic wraps at Wrap (2^32 bytes).                     *)
(***************************************************************************)
EXTENDS Integers, FiniteSets, SequencesExt

CONSTANTS
    Base,           \* heap_base: 0x200000
    Size,           \* heap_size: 16 MB
    Wrap,           \* words in the address space
    MIN_SPLIT_SIZE, \* 32 bytes: 8 words
    Requests,       \* sizes callers ask for
    Leftovers,      \* what else than the size EAX holds at a call of kmalloc, in words
    MaxLive         \* bound: blocks held by callers at one time

MCB_HEADER_SIZE == 5

ASSUME HeapAssumption ==
    /\ Base \in Nat \ {0} /\ Size \in Nat /\ Size > MCB_HEADER_SIZE
    /\ Wrap \in Nat /\ Base + Size < Wrap
    /\ MIN_SPLIT_SIZE \in Nat \ {0}
    /\ Requests \subseteq 1..(Wrap - 1) /\ Leftovers \subseteq 0..(Wrap - 1)
    /\ MaxLive \in Nat

VARIABLES
    mem,             \* the words of the heap
    heap_free_head,  \* address of the first block of the list, 0 for none
    mem_total_free,
    mem_total_used,
    live,            \* blocks held by callers: payload address -> size asked for
    overrun          \* history: a caller wrote past its block, or a remainder wrapped

heap_vars == <<mem, heap_free_head, mem_total_free, mem_total_used, live, overrun>>

NULL == 0
heap_end == Base + Size
Heap == Base..(heap_end - 1)

(* Words that are neither addresses nor sizes.                             *)
MCB_MAGIC == -1
UserWord == -2

MCB_FLAG_USED == 0
MCB_FLAG_FREE == 1

(* Header fields, by their word offset.                                    *)
PREV == 0
NEXT == 1
SIZE == 2
MAGIC == 3
FLAGS == 4

Plus(a, b) == (a + b) % Wrap
Minus(a, b) == (a - b) % Wrap

(* Memory outside the heap holds no block header.                          *)
Word(m, a) == IF a \in Heap THEN m[a] ELSE 0
Field(m, b, f) == Word(m, Plus(b, f))

(* m after the writes ws, a function from addresses to words.              *)
Write(m, ws) == [a \in Heap |-> IF a \in DOMAIN ws THEN ws[a] ELSE m[a]]
Set(b, f, w) == [a \in {Plus(b, f)} |-> w]
Header(b, p, n, s, fl) ==
    [a \in {Plus(b, f) : f \in PREV..FLAGS} |->
        CASE a = Plus(b, PREV)  -> p
          [] a = Plus(b, NEXT)  -> n
          [] a = Plus(b, SIZE)  -> s
          [] a = Plus(b, MAGIC) -> MCB_MAGIC
          [] a = Plus(b, FLAGS) -> fl]

(* Writes ws followed by writes xs.                                        *)
Then(ws, xs) ==
    [a \in DOMAIN ws \cup DOMAIN xs |-> IF a \in DOMAIN xs THEN xs[a] ELSE ws[a]]
SetUnlessNull(b, f, w) == IF b = NULL THEN <<>> ELSE Set(b, f, w)

-----------------------------------------------------------------------------
(* mem_init: the whole heap is one free block.                             *)
mem_init ==
    /\ mem = Write([a \in Heap |-> UserWord],
                   Header(Base, NULL, NULL, Size - MCB_HEADER_SIZE, MCB_FLAG_FREE))
    /\ heap_free_head = Base
    /\ mem_total_free = Size - MCB_HEADER_SIZE
    /\ mem_total_used = 0

-----------------------------------------------------------------------------
(* kmalloc.                                                                *)

Intact(b) == Field(mem, b, MAGIC) = MCB_MAGIC
Free(b) == Field(mem, b, FLAGS) = MCB_FLAG_FREE
Fits(b, n) == Free(b) /\ Field(mem, b, SIZE) >= n

(* The blocks a loop visits from start on, up to the first that stops it,  *)
(* or one more than the heap has room for: then it goes round for ever.    *)
MaxBlocks == Size \div MCB_HEADER_SIZE
Walk(start, Stops(_), Succ(_)) ==
    LET walk[k \in 0..(MaxBlocks + 1)] ==
          IF k = 0 THEN <<start>>
          ELSE LET w == walk[k - 1]
               IN  IF Stops(Last(w)) THEN w ELSE Append(w, Succ(Last(w)))
    IN  walk[MaxBlocks + 1]

SearchStops(b, n) == b = NULL \/ ~Intact(b) \/ Fits(b, n)
Found(n) ==
    Last(Walk(heap_free_head, LAMBDA b : SearchStops(b, n), LAMBDA b : Field(mem, b, NEXT)))

(* The comparison with MIN_SPLIT_SIZE is unsigned: when less than a header *)
(* is left over, the remainder wraps and passes it.                        *)
Wraps(b, n) == Field(mem, b, SIZE) < n + MCB_HEADER_SIZE

(* Mutation: the new header is not taken off the new block.                *)
Remainder_headerless(b, n) == Minus(Field(mem, b, SIZE), n)

Remainder(b, n) == Minus(Minus(Field(mem, b, SIZE), n), MCB_HEADER_SIZE)
Splits(b, n) == Remainder(b, n) >= MIN_SPLIT_SIZE

(* Mutation: the new header is placed without leaving room for the old one. *)
SplitWrites_overlapping(b, n) ==
    Then(Then(Header(Plus(b, n), b, Field(mem, b, NEXT), Remainder(b, n), MCB_FLAG_FREE),
              Set(b, NEXT, Plus(b, n))),
         Set(b, FLAGS, MCB_FLAG_USED))

(* The allocated part stays in the list, with the new free block behind it. *)
SplitWrites(b, n) ==
    LET new  == Plus(b, MCB_HEADER_SIZE + n)
        next == Field(mem, b, NEXT)
    IN  Then(Then(Then(Then(Header(new, b, next, Remainder(b, n), MCB_FLAG_FREE),
                            Set(b, NEXT, new)),
                       Set(b, SIZE, n)),
                  SetUnlessNull(next, PREV, new)),
             Set(b, FLAGS, MCB_FLAG_USED))

(* The block leaves the list but keeps its own links.                      *)
WholeWrites(b) ==
    LET prev == Field(mem, b, PREV)
        next == Field(mem, b, NEXT)
    IN  Then(Then(SetUnlessNull(prev, NEXT, next), SetUnlessNull(next, PREV, prev)),
             Set(b, FLAGS, MCB_FLAG_USED))

CountAllocation(n) ==
    /\ mem_total_free' = Minus(mem_total_free, n + MCB_HEADER_SIZE)
    /\ mem_total_used' = Plus(mem_total_used, n + MCB_HEADER_SIZE)

(* A caller asks for some words and eax is what kmalloc reads.  A search   *)
(* that meets a broken header returns NULL, but counts an allocation all   *)
(* the same; one that goes round does not return.                          *)
kmalloc(asked, eax) ==
    LET b == Found(eax)
        counts == eax # 0 /\ b # NULL
    IN  /\ eax = 0 \/ SearchStops(b, eax)
        /\ IF counts THEN CountAllocation(eax) ELSE UNCHANGED <<mem_total_free, mem_total_used>>
        /\ IF counts /\ Intact(b)
           THEN /\ mem' = Write(mem, IF Splits(b, eax) THEN SplitWrites(b, eax) ELSE WholeWrites(b))
                /\ heap_free_head' = IF ~Splits(b, eax) /\ Field(mem, b, PREV) = NULL
                                     THEN Field(mem, b, NEXT) ELSE heap_free_head
                /\ live' = Then(live, [p \in {Plus(b, MCB_HEADER_SIZE)} |-> asked])
                /\ overrun' = (overrun \/ (Splits(b, eax) /\ Wraps(b, eax)))
           ELSE UNCHANGED <<mem, heap_free_head, live, overrun>>

-----------------------------------------------------------------------------
(* kfree, when NANO or WGET gives its block back: no header is where EAX   *)
(* points, and nothing is done.  The block stays used; merging free blocks *)
(* is code that never runs.                                                *)
kfree(p) ==
    /\ live' = [q \in DOMAIN live \ {p} |-> live[q]]
    /\ UNCHANGED <<mem, heap_free_head, mem_total_free, mem_total_used, overrun>>

-----------------------------------------------------------------------------
(* mem_get_stats: a scan of the heap by block sizes.                       *)

ScanStops(b) == b >= heap_end \/ ~Intact(b)
Scan == Walk(Base, ScanStops, LAMBDA b : Plus(b, MCB_HEADER_SIZE + Field(mem, b, SIZE)))
ScanEnds == ScanStops(Last(Scan))
SumOf(free) ==
    FoldLeft(LAMBDA sum, b : IF Free(b) = free THEN Plus(sum, Field(mem, b, SIZE)) ELSE sum,
             0, Front(Scan))

mem_get_stats ==
    /\ ScanEnds
    /\ mem_total_free' = SumOf(TRUE) /\ mem_total_used' = SumOf(FALSE)
    /\ UNCHANGED <<mem, heap_free_head, live, overrun>>

-----------------------------------------------------------------------------
(* A caller fills the block it holds, up to the size it asked for: NANO    *)
(* clears all of it, WGET stores what it receives.                         *)
Fill(p, n) ==
    /\ n <= live[p]
    /\ mem' = Write(mem, [a \in {Plus(p, k) : k \in 0..(n - 1)} |-> UserWord])
    /\ overrun' = (overrun \/ n > Field(mem, p - MCB_HEADER_SIZE, SIZE))
    /\ UNCHANGED <<heap_free_head, mem_total_free, mem_total_used, live>>

HeapInit ==
    /\ mem_init
    /\ live = <<>>
    /\ overrun = FALSE

HeapNext ==
    \/ /\ Cardinality(DOMAIN live) < MaxLive
       /\ \E asked \in Requests : \E eax \in Leftovers \cup {asked} : kmalloc(asked, eax)
    \/ \E p \in DOMAIN live : kfree(p) \/ \E n \in Requests : Fill(p, n)
    \/ mem_get_stats

HeapSpec == HeapInit /\ [][HeapNext]_heap_vars

-----------------------------------------------------------------------------
(* Properties.                                                             *)

Words == 0..(Wrap - 1) \cup {MCB_MAGIC, UserWord}

(* Every word of the heap, the list head and both counters keep a value of *)
(* their width, however often the counters wrap.                           *)
HeapTypeOK ==
    /\ mem \in [Heap -> Words]
    /\ heap_free_head \in Words
    /\ mem_total_free \in 0..(Wrap - 1) /\ mem_total_used \in 0..(Wrap - 1)
    /\ \A p \in DOMAIN live : live[p] \in Requests
    /\ overrun \in BOOLEAN

(* A block a caller holds lies inside the heap behind a header that still  *)
(* marks it used and shares no word with another held block: whatever is   *)
(* allocated, no memory is handed out twice - as long as no caller has     *)
(* written past its block and no remainder has wrapped.                    *)
LiveBlocksIntact ==
    LET Length(p) == Field(mem, p - MCB_HEADER_SIZE, SIZE)
    IN  /\ HeapTypeOK
        /\ ~overrun => \A p \in DOMAIN live :
             /\ p >= Base + MCB_HEADER_SIZE /\ p + Length(p) <= heap_end
             /\ Intact(p - MCB_HEADER_SIZE) /\ ~Free(p - MCB_HEADER_SIZE)
             /\ \A q \in DOMAIN live \ {p} : q >= p + Length(p) \/ p >= q + Length(q)

(* Under the same condition the blocks tile the heap: the scan of          *)
(* mem_get_stats ends at its last word, what it reports as free and as     *)
(* used and the headers add up to its size, and every search ends.         *)
StatsAddUp ==
    ~overrun =>
        /\ \A n \in (Requests \cup Leftovers) \ {0} : SearchStops(Found(n), n)
        /\ Last(Scan) = heap_end
        /\ SumOf(TRUE) + SumOf(FALSE) + (Len(Scan) - 1) * MCB_HEADER_SIZE = Size

(* What STRUCTURE.md says of kmalloc's argument, "Number of bytes to       *)
(* allocate": the block returned holds as much as was asked for.           *)
BlocksHoldRequests ==
    ~overrun => \A p \in DOMAIN live : Field(mem, p - MCB_HEADER_SIZE, SIZE) >= live[p]
=============================================================================
