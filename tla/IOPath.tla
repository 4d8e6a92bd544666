------------------------------- MODULE IOPath -------------------------------
(***************************************************************************)
(* One request from its page list to the bytes it moves: lib/pio.c builds  *)
(* the list, lib/ssd_cache_target.c checks it and computes where it goes,  *)
(* and lib/spdk.c describes its buffers to the driver through two          *)
(* callbacks.  The driver (external) may cut a request into commands at any *)
(* sector; for each it calls reset_sgl_fn with the offset of the command   *)
(* and then next_sge_fn until it has as many bytes as it needs.            *)
(*                                                                         *)
(* Whether the request hits, and on which block, is Mapping's business and *)
(* a choice here.  A transferred byte is a pair of its place on the device *)
(* (or in the file) and its place in a buffer, for reads and writes alike. *)
(* Paths, errors of the driver and the allocation of iovecs are left out.  *)
(***************************************************************************)
EXTENDS Integers, Sequences, SequencesExt

CONSTANTS
  PAGE_SIZE,
  PagesPerCblock,       \* the literal 8 of check_pio and overwritable
  BlockSizes,           \* the sector sizes a device may have
  CACHE_BLOCK_NUMBER,
  PageIndexes,          \* bound: where requests may start
  OFFSET_MOD            \* file offsets are computed in an unsigned int

CACHE_BLOCK_SIZE == PAGE_SIZE * PagesPerCblock

ASSUME IOPathAssumption ==
  /\ {PAGE_SIZE, PagesPerCblock, CACHE_BLOCK_NUMBER} \subseteq Nat \ {0}
  /\ BlockSizes \subseteq Nat
  /\ \A b \in BlockSizes : \E n \in 0 .. PAGE_SIZE : PAGE_SIZE = b * 2 ^ n
  /\ \E n \in 0 .. PagesPerCblock : PagesPerCblock = 2 ^ n
  /\ PageIndexes \subseteq Nat
  /\ OFFSET_MOD \in Nat \ {0} /\ OFFSET_MOD % CACHE_BLOCK_SIZE = 0

VARIABLES
  pc,
  block_size,    \* cache_dev.block_size
  pio,           \* the nodes of the list
  cblock,        \* the block that the look-up returned
  target_block,  \* the sector the I/O starts at
  req,           \* struct io_req, but for iovs, which are the buffers of pio
  done, left,    \* the driver: bytes transferred, bytes the command still needs
  moved,         \* bytes transferred between the device and the buffers
  filed          \* the same for the file

vars == <<pc, block_size, pio, cblock, target_block, req, done, left, moved, filed>>

-----------------------------------------------------------------------------
LOG2(m) ==
  LET f[n \in 0 .. m] == IF n > 1 THEN 1 + f[n \div 2] ELSE 0 IN f[m]

block_per_cblock_shift == LOG2(CACHE_BLOCK_SIZE \div block_size)
block_per_page_shift == LOG2(PAGE_SIZE \div block_size)

head == pio[1]

\* As if the page itself were counted twice (mutant).
check_pio_off_by_one(p) == PagesPerCblock - (p.page_index % PagesPerCblock) + 1 >= p.pio_cnt

check_pio(p) == PagesPerCblock - (p.page_index % PagesPerCblock) >= p.pio_cnt

\* As if any large aligned request would do (mutant).
overwritable_half(p) == 2 * p.pio_cnt >= PagesPerCblock /\ p.page_index % PagesPerCblock = 0

overwritable(p) == p.pio_cnt = PagesPerCblock /\ p.page_index % PagesPerCblock = 0

optimizable(p) == p.operation = "WRITE" /\ overwritable(p)

\* As if the shift were done in 64 bits here, and only here (mutant).
origin_offset_wide(p) == p.page_index * PAGE_SIZE

origin_offset(p) == (p.page_index * PAGE_SIZE) % OFFSET_MOD

-----------------------------------------------------------------------------
Init ==
  /\ pc = "idle"
  /\ block_size \in BlockSizes
  /\ pio = <<>> /\ cblock = 0 /\ target_block = 0
  /\ req = [iov_pos |-> 0, iov_offset |-> 0]
  /\ done = 0 /\ left = 0
  /\ moved = {} /\ filed = {}

create_pio(page_index, operation, pio_cnt) ==
  /\ pc = "idle"
  /\ pio' = <<[page_index |-> page_index, operation |-> operation,
               buffer |-> 0, pio_cnt |-> pio_cnt]>>
  /\ pc' = "build"
  /\ moved' = {} /\ filed' = {}
  /\ UNCHANGED <<block_size, cblock, target_block, req, done, left>>

\* The callers append until there is a node for each page.
append_pio ==
  /\ pc = "build"
  /\ Len(pio) < head.pio_cnt
  /\ LET current == Last(pio) IN
     pio' = Append(pio, [current EXCEPT !.page_index = @ + 1, !.buffer = Len(pio)])
  /\ UNCHANGED <<pc, block_size, cblock, target_block, req, done, left, moved, filed>>

Submitted == pc = "build" /\ Len(pio) = head.pio_cnt

\* _submit_pio: a request that leaves its cache page is refused, a DISCARD moves
\* nothing (what it does to the table is in Mapping).
NoTransfer ==
  /\ Submitted
  /\ ~check_pio(head) \/ head.operation = "DISCARD"
  /\ pc' = "idle"
  /\ UNCHANGED <<block_size, pio, cblock, target_block, req, done, left, moved, filed>>

\* A hit, or a block inserted for an optimizable request: write_cache, read_cache.
map_to_cache(c) ==
  /\ Submitted
  /\ check_pio(head) /\ head.operation # "DISCARD"
  /\ cblock' = c
  /\ target_block' = c * 2 ^ block_per_cblock_shift
                       + (head.page_index % PagesPerCblock) * 2 ^ block_per_page_shift
  /\ done' = 0 /\ left' = 0
  /\ req' = [iov_pos |-> 0, iov_offset |-> 0]
  /\ pc' = "device"
  /\ UNCHANGED <<block_size, pio, moved, filed>>

\* write_origin, read_origin: pwritev and preadv of all the pages at one offset.
map_to_origin ==
  /\ Submitted
  /\ check_pio(head) /\ head.operation # "DISCARD"
  /\ filed' = {<<origin_offset(head) + i * PAGE_SIZE + o, <<pio[i + 1].buffer, o>>>> :
                 i \in 0 .. head.pio_cnt - 1, o \in 0 .. PAGE_SIZE - 1}
  /\ pc' = "idle"
  /\ UNCHANGED <<block_size, pio, cblock, target_block, req, done, left, moved>>

-----------------------------------------------------------------------------
(* readv_spdk and writev_spdk *)

\* num_block is iov_cnt << block_per_page_shift.
Total == head.pio_cnt * 2 ^ block_per_page_shift * block_size

\* As if an offset at the end of a buffer belonged to it (mutant).
skip_past_end(offset) ==
  LET pos[n \in 0 .. offset] == IF n <= PAGE_SIZE THEN 0 ELSE pos[n - PAGE_SIZE] + 1
  IN [iov_pos |-> pos[offset], iov_offset |-> offset - pos[offset] * PAGE_SIZE]

\* The loop of reset_sgl_fn over iovecs of PAGE_SIZE bytes.
skip(offset) ==
  LET pos[n \in 0 .. offset] == IF n < PAGE_SIZE THEN 0 ELSE pos[n - PAGE_SIZE] + 1
  IN [iov_pos |-> pos[offset], iov_offset |-> offset - pos[offset] * PAGE_SIZE]

\* The driver starts a command of some sectors.
reset_sgl_fn ==
  /\ pc = "device"
  /\ left = 0 /\ done < Total
  /\ \E n \in 1 .. (Total - done) \div block_size : left' = n * block_size
  /\ req' = skip(done)
  /\ UNCHANGED <<pc, block_size, pio, cblock, target_block, done, moved, filed>>

\* As if the offset were not counted from the start of the iovec (mutant).
advanced_by_length(r, length) ==
  IF length = PAGE_SIZE THEN [iov_pos |-> r.iov_pos + 1, iov_offset |-> 0]
                        ELSE [r EXCEPT !.iov_offset = length]

advanced(r, length) ==
  IF r.iov_offset + length = PAGE_SIZE THEN [iov_pos |-> r.iov_pos + 1, iov_offset |-> 0]
                                       ELSE [r EXCEPT !.iov_offset = @ + length]

\* A segment, of which the driver takes what the command needs; the callback does
\* not learn how much that is.
next_sge_fn ==
  LET length == PAGE_SIZE - req.iov_offset
      taken == IF length < left THEN length ELSE left
  IN /\ pc = "device"
     /\ left > 0
     /\ moved' = moved \cup
          {<<target_block * block_size + done + j,
             <<pio[req.iov_pos + 1].buffer, req.iov_offset + j>>>> : j \in 0 .. taken - 1}
     /\ done' = done + taken /\ left' = left - taken
     /\ req' = advanced(req, length)
     /\ UNCHANGED <<pc, block_size, pio, cblock, target_block, filed>>

cb_fn ==
  /\ pc = "device"
  /\ done = Total
  /\ pc' = "idle"
  /\ UNCHANGED <<block_size, pio, cblock, target_block, req, done, left, moved, filed>>

Next ==
  \/ \E x \in PageIndexes, op \in {"READ", "WRITE", "DISCARD"}, n \in 1 .. PagesPerCblock :
       create_pio(x, op, n)
  \/ append_pio \/ NoTransfer \/ map_to_origin
  \/ \E c \in 0 .. CACHE_BLOCK_NUMBER - 1 : map_to_cache(c)
  \/ reset_sgl_fn \/ next_sge_fn \/ cb_fn

Spec == Init /\ [][Next]_vars

-----------------------------------------------------------------------------
\* Every variable keeps its type; the walk over the buffers stays inside them and
\* never reports an empty segment, whatever the cuts of the driver.
TypeOK ==
  /\ pc \in {"idle", "build", "device"}
  /\ block_size \in BlockSizes
  /\ Len(pio) <= PagesPerCblock
  /\ cblock \in 0 .. CACHE_BLOCK_NUMBER - 1
  /\ pc = "device" =>
       /\ req.iov_offset \in 0 .. PAGE_SIZE - 1
       /\ req.iov_pos \in 0 .. Len(pio)
       /\ left > 0 => req.iov_pos < Len(pio)

\* The bytes of the block that the request is about, by definition: page i of the
\* request lies i pages after the first, which is where it is in its cache page.
Place(i, o) ==
  cblock * CACHE_BLOCK_SIZE + ((head.page_index % PagesPerCblock) + i) * PAGE_SIZE + o

\* Each byte of the device meets its own byte of the buffers, and when the request
\* is complete all have been transferred: for every sector size and every way the
\* driver cuts the request, also in the middle of a buffer.
EveryByteInPlace ==
  LET all == {<<Place(i, o), <<i, o>>>> : i \in 0 .. head.pio_cnt - 1, o \in 0 .. PAGE_SIZE - 1}
  IN pio # <<>> /\ moved # {} =>
       moved \subseteq all /\ (pc = "idle" => moved = all)

\* No byte of another block is touched: a request that passes check_pio ends
\* inside the block that its first page is in.
StaysInBlock == \A m \in moved : m[1] \div CACHE_BLOCK_SIZE = cblock

\* A request for which lookup_mapping_with_insert makes a block visible without
\* loading it leaves no byte of that block as it was.
OverwriteFillsBlock ==
  pc = "idle" /\ moved # {} /\ optimizable(head) =>
    {m[1] : m \in moved} =
      cblock * CACHE_BLOCK_SIZE .. (cblock + 1) * CACHE_BLOCK_SIZE - 1

\* mg_start: where the file has byte j of the cache page of a page.
mg_offset(page_index) == ((page_index \div PagesPerCblock) * CACHE_BLOCK_SIZE) % OFFSET_MOD

\* A user that misses and the worker that promotes or writes back the cache page
\* agree on where a page is in the file, also where the offset has wrapped.
SamePlaceInFile ==
  \A f \in filed :
    f[1] = mg_offset(head.page_index)
             + ((head.page_index % PagesPerCblock) + f[2][1]) * PAGE_SIZE + f[2][2]

\* inc/pio.h:17: "file offset = page_index * page_size".
OffsetIsExact ==
  \A f \in filed : f[1] = (head.page_index + f[2][1]) * PAGE_SIZE + f[2][2]
=============================================================================
