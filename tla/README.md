# Verification of rusty_rtos_heap

TLA+ specifications of the allocators of `rusty_rtos_heap-core`, the TLC
configurations that check them and TLAPS proofs about them. Paths of source files
are relative to `src/crates/rusty_rtos_heap-core/src/`.

## The system

| Component | State | Operations | What makes it correct |
|---|---|---|---|
| `Heap4` (`heap4.rs`) | the arena with block headers in it, `start_next`, `end`, the byte counters, `next_generation` | lazy `init`, `define_regions`, `alloc`, `free(Block)`, `free_raw(offset)` | no byte has two owners, none is lost, free neighbours are one block, counters agree with the bytes, first fit in address order, a stale `Block` is refused |
| `Heap5` (`heap5.rs`) | an inner `Heap4` | `new(regions)`, then `Heap4`'s | as `Heap4`, over several regions, none crossed |
| `Pool` (`pool.rs`) | the blocks, a stack of free indices, per block a generation and a live flag | `alloc`, `free(Slot)`, `bytes`, `bytes_mut` | a block has at most one holder, its bytes are that holder's, a stale `Slot` is `Gone`, the pool never loses a block |
| `Heap1` (`heap1.rs`) | the next free byte | `alloc`; `free` is refused | grants are disjoint, in the arena, and a rounding that overflows is refused |
| `Heap3` (`heap3.rs`) | slots over the platform's allocator, generations, `live_bytes` | `alloc`, `free(Handle)`, `bytes_mut` | a `Handle` names its own bytes or is `Gone`, `live_bytes` adds up, slots are reused |
| binding (`address_of`, `offset_of`) | none of its own | offset to pointer and back | a pointer from elsewhere is refused, a held block's own is taken |
| getters | none of their own | | field reads |
| facade crate, C oracle, differential tests, benches, firmware notes | | | not modelled |

The components do not call one another, except that `Heap5` wraps `Heap4`. What
interacts with each of them is its callers: several parts of a firmware that hold
blocks of the same heap, write into them, and free them in any order, correctly or
not. Every operation takes `&mut self`, so calls are atomic with respect to one
another; the repository has no scheduler, thread, lock or callback. What is hard is
therefore the *sequence*: what a long run of legal and illegal calls leaves in a free
list that lives inside the memory it manages. `PROJECT.json` lists the hazards by
line; in short:

* the free list is threaded through the arena, beside payload any caller writes;
* splitting and coalescing decide later placements, so one wrong comparison shows
  only many calls later;
* handles outlive their blocks;
* an initialiser can fail half way;
* `alloc` and `free` follow a list with no bound of their own: they return only because
  the list ends;
* generations wrap;
* sizes meet a word's top bit, `usize::MAX` and the end of the arena.

## Modules

| Module | Models | How it corresponds |
|---|---|---|
| `FirstFit` | the contract of `heap_4` and `heap_5` | `free` and `live` are sets of spans. `LayOut` is an initialiser; `Alloc` grants the lowest free span that fits; `FirstAlloc` is the first `alloc` of a heap nobody laid out, which runs `init`; `Free` joins what it releases with its neighbours. Grants are numbered to tell them apart; the number is no generation. No headers, links or offsets. |
| `Heap4` | `heap4.rs`, and `heap5.rs` through `define_regions` | `heap` is the struct, its `store` an array of header-sized words. The operators have the names of the functions they translate; each action is a whole public call, and a call that answers an error has an action of its own (`...Refused`, `AllocUnservable`, `AllocNoRoom`). `held` and `stale` are the callers' handles and `Write` what they do with a payload; `arena` remembers the regions. |
| `FreeList` | the two walks of `heap4.rs`: the search in `alloc` and `insert_into_free_list` | `list` is the nodes from `start_next` up to `pxEnd`, end markers of inner regions included. A call is several steps: `CallAlloc` or `CallFree`, one `AllocHop` or `FreeHop` per header read, and `AllocTake`, `AllocNone` or `FreeInsert`, which relinks. `cursor` is where the walk is. Words and offsets are left to `Heap4`; what is here is why following a list finds what `FirstFit` picks out of a set. |
| `Handles` | what `Slot` and `Handle` promise alike | a handle is issued, accepted, retired, and never accepted again. No generations, slots or bytes. |
| `Pool`, `Heap1`, `Heap3` | the files of those names | the same style: struct fields, one action per call, callers' handles. A block's bytes in `Pool` are the `Slot` they were written through (`Write` is a caller using `bytes_mut`). |
| `Heap4_list_proofs`, `Heap4_proofs`, `Heap4_fit_proofs` | | proofs about `Heap4`: what header writes and the two walks do, the inductive invariant, the refinement of `FirstFit`. |
| `FirstFit_proofs`, `FreeList_proofs`, `Pool_proofs`, `Heap1_proofs`, `Heap3_proofs` | | the proofs about the modules of those names. |
| `MCFirstFit`, `MCFreeList`, `MCHeap4`, `MCPool` | | values a cfg cannot spell. |

`Heap4` implements `FirstFit`: `FF == INSTANCE FirstFit` maps the nodes of the free
list with a size to `free` (end markers are nodes too, and stand for nothing), each
held `Block` with the size in its header to `live`, and the counters to `room`, `low`
and `granted`. `ImplementsFirstFit == FF!Spec` says that every call does exactly one
`FirstFit` step or, when it refuses, changes no block. A grant
carries the size it was asked for, so a block handed out for a larger request than it
serves is no step of `FirstFit`. It is a statement about which
block is chosen, how it is cut and what is joined, so it is also what the C
differential tests compare, over every sequence of calls instead of a recorded one.

`FreeList` implements `FirstFit` too, for every arena: its `FF` maps the nodes with a
size to `free`, the grants and the block a running `free` is about to insert to
`live`, and `room - freeing.size` to `room`. A walk is then a stutter, and the call
takes effect when it relinks the list (or, for an `alloc` that lays the heap out, at
the call). `free_at` counts the bytes before it inserts the block; the mapping shows
that nothing between the two can be told from outside, because the call holds
`&mut self`. `Heap4` runs the same walks over the words of an arena, in one step.

`Pool` and `Heap3` implement `Handles`: of all values their handle type has, the
accepted ones are those `check` (or the generation test) says `Ok` to, the retired ones
those that were given back. `ImplementsHandles` therefore covers handles nobody ever
issued, a thing no test of held and stale handles would.

`Heap4`'s `Base` is the address of its arena. `FreePointer` is a C caller's
`vPortFree`: the pointer's `offset_of`, then `free_raw`.

Words are scaled: `WORD_MOD` stands for 2^32 or 2^64, `USIZE_MAX` for `usize::MAX`,
`U32_MOD` for 2^32, and in `Heap4` `GENERATION_MOD` for the 2^32 at which generations
wrap, scaled on its own so that a run can cross it; overflow, saturation and the allocated bit are modelled at
the scaled width. A header outside the arena reads as zeros and is not written, as in
the code. `header_of`'s slicing into bytes is abstracted to words: `WORD` divides
every offset a header can be at, which `GeometryFits` requires.

Operators commented *Mutant* are the code as a plausible slip would have it. No
specification uses them; `PROJECT.json` names, for each property, the one that must
violate it.

## Runs

| cfg | Shows | Bounds, and why they suffice |
|---|---|---|
| `FirstFit_spans` | the contract has the properties it is there for: `NoOverlap`, `Tiling`, `Coalesced`, `RoomIsFree`, `InOneRegion`, `LowNeverRises` | layouts of one to three regions, sizes that split, fit exactly and leave the minimum; five grants. Proved without bounds below. |
| `Heap4_arena` | `heap_4` implements `FirstFit`; the list stays ordered (`ListOrdered`), held blocks can be freed and stale ones cannot (`HeldCanBeFreed`, `StaleIsRefused`), requests are served exactly when bytes in a row are free (`ServesWhatFits`), payloads survive (`PayloadKept`), calls balance (`CallsBalance`). C callers may pass any offset to `free_raw` and any pointer to the binding: exactly held blocks are freed (`RawFreesOnlyHeld`) | 64 bytes, 8-byte headers, four allocations. The 56 bytes below the end marker hold three blocks at most: enough for two free ones around a live one, hence a join on both sides, an exact fit and a remainder of exactly the minimum. Sizes 0, 130 (top bit) and 250 (overflow) are refused early, 48 takes the whole arena. Generations wrap at 3, so the fourth allocation carries the first one's: `StaleIsRefused` holds of Blocks up to the age the source documents. Offsets: aligned, misaligned, zero, the end marker's and past the end; pointers just below, into and just past the arena, and null. Payload has the top bit clear: an aligned offset inside other payload is judged by what the caller wrote there, as in `heap_4.c`. Every property is proved without bounds below |
| `FreeList_list` | hop by hop: `ListOrdered`, `ImplementsFirstFit`, and `CallsReturn` under the fairness below | one to three regions of 9 to 11 cells, three sizes, five grants: up to three fragments, exact fits, remainders of the minimum, absorbed markers. The first two are proved without bounds. |
| `Heap4_wide` | 16-byte headers on 8-byte alignment, the oracle's geometry, over one region or several: frees are taken only where somebody holds a block (`OnlyHeldAreTaken`, of which `StaleIsRefused` is a consequence), payloads survive (`PayloadKept`), `ImplementsFirstFit` | 136 bytes; blocks of 24, 32 and 120 bytes, so that a header starts in the middle of a stale one. Tables: two regions off the alignment; three, each right behind the marker of the one before. The callers take and free one small block 22 times (`SpecAfterRounds`), then make five allocations as they like, holding at most two blocks at once: generation 24 is given to a block while freed blocks of 24 bytes leave their size behind, and the payload word is 24 too, so that only the allocated bit tells a stale `Block`'s header from these. Offsets for `free_raw`: half a header and more off the blocks, and past the arena. Left out are those half a header past the marker of the last region, 128 and, for the unaligned table, 120 (see below). All three properties are proved without bounds, for every payload with the top bit clear, when callers free only `Block`s |
| `Heap4_regions` | `ListOrdered`, `ServesWhatFits` and `ImplementsFirstFit` of `heap_5`: two regions with a gap, abutting, unaligned; tables refused at the first or second region; the empty table; retries and the lazy layout afterwards | 72 bytes, seven tables, four allocations; proved without bounds |
| `Pool_slots` | `StackIsTheFreeBlocks`, `OneHolder`, `AgreesWithItself`, `ImplementsHandles` | three blocks, four frees: a block is reused while another is held and a third free; proved without bounds |
| `Heap1_bump` | `GrantsAreOwn`, `ReportIsHonest` | every order of twelve sizes in 40 bytes |
| `Heap3_handles` | `HeldNamesItsBytes`, `LiveBytesAddUp`, `SlotsTrackPeak`, `ImplementsHandles`, and in `TypeOK` that the slots and the generations stay of one length | two sizes and zero, five allocations: three live at once and two reuses. In each call the platform may refuse any of the bytes, room for a slot and room for its generation (`Requests`); proved without bounds |
| `Heap4_doc_abutting`, `Heap4_doc_shape`, `Heap4_doc_wide_raw`, `Heap4_doc_wide_stale` | four places where a comment says something else than the code; see below | the last one's callers are those of `Heap4_wide`, with a payload word that has the top bit set |

`MaxAllocs`, `MaxGrants` and `MaxFrees` bound successful calls. In `Pool` and `Heap3`
they stay below `U32_MOD`, so generations do not wrap there: the code then accepts a
handle of the wrapped generation, which its documentation does not mention. In `Heap4`
generations do wrap (heap4.rs:152-156 documents it). `FirstFit_spans`,
`FreeList_list` and `Heap4_wide` run without the deadlock check: a behaviour that has
spent its grants is over (`ComeToSizes` leaves out the calls that change nothing). In
every other passing run some call, if only a refused one, is always possible.

### Fairness

One liveness property is stated: every call returns (`CallsReturn` of `FreeList`). Its
fairness is `WF_vars(Step)`, weak fairness of the running call's own next step. The
code justifies it: a call runs on its caller's thread, holds `&mut self`, and its loop
neither waits nor blocks, so as long as the thread is scheduled the next header is read.
Nothing is assumed of the callers; no call has to be made. In the other modules a call
is one step and nothing runs by itself, so they state no fairness. `Heap4` reads a
whole list at once; there `Hops` bounds a walk, and every walk of a list in order
reaches `NONE` within it.

### Disagreements with comments

* heap4.rs:488 says that regions that abut coalesce. They do not: each has its own end
  marker. The repository's README and a test say so too.
* heap5.rs:98 (and heap4.rs:969) say `free_list_shape` counts free blocks. It also
  counts the end markers between regions, until a block freed below one absorbs it.
* heap4.rs:797 says `free_raw` answers `Gone` for an offset that was never allocated.
  With 16-byte headers on an 8-byte alignment, the offset half a header past the end
  marker's is taken, because the word read as its size is the marker's link.
* heap4.rs:152-155 says a wrapped generation is the one case in which a stale `Block`
  could collide. With 16-byte headers on an 8-byte alignment there is another: a block
  that starts 8 bytes below the stale one leaves its size, once freed, where the stale
  `Block`'s generation was, and its first payload word where the size was. If the size
  equals the generation and the word has its top bit set, `free` answers `Ok`. The run
  finds a `Block` of generation 24 that is taken after 26 allocations. The proofs below
  say which payload words rule it out.

## Proofs

`FirstFit_proofs` proves, for every set of layouts, sizes and minimum block size, that
the contract keeps its promises: `TypeCorrect`, `BlocksDisjoint` (`NoOverlap`),
`NothingLost` (`Tiling`), `BlocksStayInRegions` (`InOneRegion`), `AlwaysCoalesced`, `BooksBalance`
(`RoomIsFree`) and `LowIsMonotonic`. The assumptions are those the
module names: a layout is a finite set of regions no two of which touch (an end marker
lies between them), sizes are positive, the minimum is a natural number.

The promises are not inductive one by one. Joining a released span with its
neighbours stays inside a region only because regions do not touch; the counter
changes by the size of a span only if spans are disjoint and their bytes finite; a new
number is new only if all others are at most `granted`. `FitInv` is the conjunction
that carries all of them: `Sound` for the spans, `Counted` for the numbers. The proof
reduces spans to sets of bytes (`CellsUnion`, `CellsOne`, `RangeSize`,
`DisjointSizes`), shows that granting and releasing keep `Sound` for any three sets of
spans (`GrantSound` and its counterpart for `Free`), and uses the first twice: for
`Alloc` and for the `FirstAlloc` that lays out the arena in the same step.

`Pool_proofs` proves every property of `Pool` for every number of blocks. `PoolInv`
adds `GenerationsBehind` to the checked ones: no generation has outrun the frees, so
none has wrapped, and a stale `Slot` names a generation its block has left behind. The
stack invariant and `OneHolder` need each other. That a push in `free` always lands is
a counting argument, the pigeonhole of `StackHasRoom`. `PoolImplementsHandles` maps each
step: `Alloc` issues a `Slot` whose generation no retired one of its block can carry,
`Free` retires one, everything else stutters.

`FreeList_proofs` proves that the walks are first fit (`WalksAreFirstFit`), for every
set of region tables whose regions rise with room for a marker between them, every
set of sizes and every minimum. `ListInv` is the inductive invariant: the list rises and stays
below `pxEnd` and clear of granted blocks (`ListOrdered`); granted blocks are apart
(`BlocksApart`); what a running walk has passed is too small, or lies before its block
(`WalkSoFar`). The last is what makes a walk more than its final step: with it, the node
an `alloc` stops at is the lowest that fits, and the two nodes a `free` stops between
are the only ones that can touch the freed block. Relinking is `Spliced`, a run of nodes
giving way to one: `SplicedRises` and `SplicedNodes` say what it keeps, and
`InsertedNode` that the node inserted ends where its last absorbed part did, so that
absorbing a marker of size 0 changes the list and not the free blocks.

`Heap1_proofs` proves the bump allocator's three properties for every arena, alignment
and set of requests, from `BumpInv`: the front is aligned and below the bytes heap_1.c
keeps back, and every grant lies before it.

`Heap3_proofs` proves every property of `Heap3`. Its `Heap3Inv` adds that
generations count the allocations (`Fresh`: none handed out is reused before the wrap),
that callers hold exactly one `Handle` per occupied slot (`OneEach`) and that the slot of
a freed `Handle` is vacant or on another generation (`StaleLeft`). An `alloc` refused
the bytes, the slot or the generation changes nothing (`RefusedKeeps`). It assumes fewer
than 2^32 allocations (`SizesAssumption`). `BytesAddUp` (`LiveBytesAddUp`) carries `Books`,
live_bytes against the sizes asked for by the `Handle`s that are held. The sum over a
set is a recursive function on its subsets; that there is such a function is shown by
looking at the smallest set for which there would be none (`SmallestSet`, `SumsExist`),
and `AskedAddsUp` is the one fact the step needs: a `Handle` more adds its size.

### Heap4

The walks of `Heap4` are recursive functions over the words of an arena.
`Heap4_list_proofs` says what they return by an explicit statement: `FreeList(h, F)`
names the set `F` of the nodes, says the least of them is `start_next`, that every link
leads to the next higher one (`Linked`), that `h.end` is the highest and holds `NONE`,
and that their blocks do not overlap (`Laid`). From it follow the path a walk takes,
where `Search` and `InsertPosition` stop, and what each write of a header leaves of the
others. Inductions over a walk are done on its least counterexample.

`Heap4_proofs` first proves `TableOutcome`: what the loop of `define_regions` writes for
any table, turn by turn, and what is left of it when it is refused. Then the outcome of
each call is one named statement (`AllocDone`, `FreeDone`, `LaidOut`): which block is
chosen, which free nodes there are after, and that everything else in the arena is as
it was. The invariant is `HeapInv`: a heap nobody laid out is `Fresh` (also after
refused tables), and the words of any other are `Sound`:

* `FreeList` for some set of nodes;
* every held `Block`'s header is the one alloc wrote, its block has room for the
  request, and the payload is what its caller wrote (`Lives`);
* no held block touches a free node's block or another held one (`Beside`,
  `Disjoint`), which is why relinking and a caller's writes leave the rest alone;
* a `Block` that was given back is older than whoever holds its place (`Gone`);
* the counters agree with all that.

None of the run's properties is inductive without the others: `PayloadKept` needs the
list's blocks apart from the payload, `ListOrdered` needs payloads apart from the list,
and both need that `free` is only ever taken of a held block. That last part,
`OnlyHeldAreTaken`, cannot follow from headers alone, since callers write the arena's
other words: it is what `HeapIsSound` assumes of a behaviour, for any geometry, and what
`FreesAreOfHeldBlocks` proves from `NoForgedHeaders`, one of

* headers as wide as the alignment, and no caller writes a word with the top bit set;
* the same headers, callers free only `Block`s, and no caller writes a word that is a
  generation;
* any geometry, callers free only `Block`s, no caller writes a word with the top bit
  set, and generations do not reach it (64-bit words).

For the first two the invariant adds `WatchInv`: every place with the allocated bit is a
held block's header, or payload whose first word a caller wrote. Where a header is wider
than the alignment that is not so: half a header past another's place one reads its size
as a link. There the invariant adds `StaleInv`: of the places where `Block`s that were
given back point, only held blocks have the allocated bit. The condition on payload
cannot be dropped (`Heap4_doc_wide_stale`), nor can callers of `free_raw` be admitted
(`Heap4_doc_wide_raw`).

The theorems assume `ArenaSuits`: the arena has room for one block and its end marker
(in a smaller one the first header and `pxEnd`'s overlap), its offsets fit the `u32` of a
`Block`, and the headers of accepted tables do not overlap. The last is a consequence
where headers are as wide as the alignment (`NarrowTablesSuit`); for wider ones it is the
caller's duty that the source's assertion leaves open. With it and `NoForgedHeaders`,
`ListStaysOrdered`, `HeldStaysFreeable`, `StaleStaysRefused`, `PayloadStaysKept`,
`CallsStayBalanced` and `RawFreesStayHonest` follow.

`Heap4_fit_proofs` proves the refinement. `FitAssumed` shows `FirstFit`'s assumptions
from `Heap4`'s. `Mapping` turns the free spans, which `Heap4` defines by a walk, into
those of the nodes in `F`; then each call is shown to be a step of `FirstFit` or nothing
to it: `DefineFits`, `AllocIsGrant`, `NoRoomFits`, `ReturnFits`, `WriteFits`. `FitInv`,
`FirstFit`'s own invariant under the mapping, is carried along, because `Heap4`'s
counters are modulo `usize::MAX` + 1 and only the invariant says that they do not wrap.
The result is `HeapImplementsFirstFit`, and through it the promises of
`FirstFit_proofs` hold of the arena (`BlocksStayApart`), the counters keep their types
(`TypesAreKept`) and `alloc` serves exactly what fits (`FitsAreServed`).
`HonestCallersAreSafe`, `HonestCallersGetFirstFit` and `HonestCallersAreServed` state the
same of any geometry and any payload, for behaviours in which `OnlyHeldAreTaken` holds.

Only model-checked: `CallsReturn`, as liveness under fairness is; and
`OnlyHeldAreTaken` of `free_raw` for 16-byte headers on 8-byte alignment, which
`Heap4_wide` checks for six offsets.

## Not modelled

The single bytes of blocks: a payload is one word its caller fills it with, a `Pool`'s
block the `Slot` it was written through. Getters that read a field. The facade crate,
which re-exports. The C oracle, whose FreeRTOS sources are not in the repository, and
the differential tests that replay its traces. The benches: deterministic drivers that
make a fixed sequence of calls from a linear congruential generator and count
instructions; they hold no logic of the heap. The firmware notes, the SBOM and CI. The
compile-time assertions appear as `ASSUME`s.

Of the code that is modelled, three cases are left out, each a hazard without a
property in `PROJECT.json`: the saturated offset of a `Block` in an arena above 4 GiB is
modelled but no instance reaches it; `free_list_shape` of a heap whose
`define_regions` was refused half way walks what was written so far; a slot number of
`Heap3` above `u32::MAX`. In `Pool` and `Heap3`, behaviours end before a generation
wraps.

## Plan

Done: every allocator of the crate, the contract `FirstFit` and its two
implementations, `Handles` and its two, and the proofs above. What could still be
added, in this order:

1. `Heap3`'s and `Pool`'s generations across the wrap, with the exception stated as
   `Heap4` states it.
2. Callers of `free_raw` with 16-byte headers on 8-byte alignment: which offsets besides
   the one past the end marker are taken.
3. `free_list_shape` after a refused table.
