----------------------------- MODULE SparseFile -----------------------------
(***************************************************************************)
(* libsparse: the list of backed blocks a sparse file is made of           *)
(* (backed_block.c), the chunks it is written as (sparse.c,                *)
(* output_file.c), reading them back (sparse_read.c) and splitting a file  *)
(* into pieces of a maximal length.  Lengths are in words of 4 bytes, a    *)
(* block has BlockWords of them; a checksum is the sequence of words it    *)
(* was computed over.                                                      *)
(***************************************************************************)
EXTENDS Integers, Sequences, FiniteSets, SequencesExt, FiniteSetsExt

CONSTANTS
    Blocks,     \* blocks of the image
    BlockWords, \* words of a block
    Lens,       \* lengths of the data and file chunks added, in words
    FillLens,   \* and of the fill chunks
    Fills,      \* fill values, positive
    MaxAdds,
    Room,       \* what max_len leaves for chunks in a piece, in words
    Reuse       \* TRUE: the allocator hands out the block it got back last

VARIABLES
    list,       \* data_blocks: a sequence of [block, len, type, val]
    last_used,  \* position in the list, 0 (NULL), or Dangling
    want        \* history: want[w], the word the caller put at w, or Hole

vars == <<list, last_used, want>>

Words == 0 .. Blocks * BlockWords - 1
Dangling == 0 - 1
Hole == 0
Types == {"fill", "fd", "data"}

(* A data or fd word is named by its offset in the source, below zero; a   *)
(* chunk is padded with Zero.                                              *)
Zero == 99
WordAt(bb, i) == IF i >= bb.len THEN Zero ELSE IF bb.type = "fill" THEN bb.val ELSE bb.val - i
RoundUp(n) == ((n + BlockWords - 1) \div BlockWords) * BlockWords
First(bb) == bb.block * BlockWords

TypeOK ==
    /\ \A k \in DOMAIN list : /\ list[k].block \in 0 .. Blocks - 1
                              /\ list[k].len \in 0 .. Blocks * BlockWords
                              /\ list[k].type \in Types
    /\ last_used \in {Dangling} \cup 0 .. Len(list)

Init == list = <<>> /\ last_used = 0 /\ want = [w \in Words |-> Hole]
-----------------------------------------------------------------------------
(* Mutant: adjacency is not asked for. *)
MergeableAnywhere(l, k) ==
    /\ k >= 1 /\ k < Len(l) /\ l[k].type = l[k + 1].type /\ l[k].type # "data"
    /\ \/ l[k].val = l[k + 1].val \/ l[k].val - l[k].len = l[k + 1].val

(* merge_bb on the neighbours at k and k + 1 of l: same type, adjacent     *)
(* (the length rounded down), and one the continuation of the other.       *)
Mergeable(l, k) ==
    /\ k >= 1 /\ k < Len(l)
    /\ LET a == l[k] b == l[k + 1] IN
       /\ a.type = b.type /\ a.block + a.len \div BlockWords = b.block
       /\ \/ a.type = "fill" /\ a.val = b.val
          \/ a.type = "fd" /\ a.val - a.len = b.val

Merged(l, k) ==
    IF Mergeable(l, k)
    THEN RemoveAt([l EXCEPT ![k].len = @ + l[k + 1].len], k + 1) ELSE l

(* Where queue_bb inserts: after the last block before the new one, looked *)
(* for from `from` on.                                                     *)
InsertAfter(l, from, nb) ==
    CHOOSE k \in from .. Len(l) :
        /\ \A j \in from + 1 .. k : l[j].block < nb.block
        /\ k < Len(l) => l[k + 1].block >= nb.block

(* Mutant: the new block is not looked at again after the first merge. *)
QueueFront(nb, lost) == ~lost /\ list' = <<nb>> \o list /\ last_used' = 0

(* queue_bb.  A new first block is put in front; else last_used becomes    *)
(* the new block, which the second merge may free.  `lost`: last_used was  *)
(* freed and its memory sends the new block to nowhere.                    *)
Queue(nb, lost) ==
    LET front == list = <<>> \/ list[1].block > nb.block
        from == IF last_used > 0 /\ nb.block > list[last_used].block THEN last_used ELSE 1
        at == InsertAfter(list, from, nb)
        one == Merged(InsertAt(list, at + 1, nb), at + 1)
    IN
    /\ lost => last_used = Dangling /\ ~Reuse /\ ~front
    /\ IF front
       THEN /\ list' = <<nb>> \o list
            /\ last_used' = IF last_used > 0 THEN last_used + 1 ELSE last_used
       ELSE IF lost THEN UNCHANGED <<list, last_used>>
       ELSE /\ list' = Merged(one, at)
            /\ last_used' = IF Mergeable(one, at) THEN Dangling ELSE at + 1

(* sparse_file_add_data, _fill, _file and _fd: a region not yet in use.    *)
Add(block, len, type, val) ==
    LET nb == [block |-> block, len |-> len, type |-> type, val |-> val]
        used == First(nb) .. First(nb) + RoundUp(len) - 1
    IN
    /\ Cardinality({w \in Words : want[w] # Hole}) < MaxAdds * BlockWords
    /\ used \subseteq Words /\ \A w \in used : want[w] = Hole
    /\ \E lost \in BOOLEAN : Queue(nb, lost)
    /\ want' = [w \in Words |-> IF w \in used THEN WordAt(nb, w - First(nb)) ELSE want[w]]

Next == \E b \in 0 .. Blocks - 1 :
            \/ \E v \in Fills, n \in FillLens : Add(b, n, "fill", v)
            \/ \E t \in {"fd", "data"}, n \in Lens : Add(b, n, t, 0 - 1 - b * BlockWords)

Spec == Init /\ [][Next]_vars
-----------------------------------------------------------------------------
(* sparse_count_chunks: a chunk for each block, gap and the end.           *)
Ends(bb) == bb.block + RoundUp(bb.len) \div BlockWords
Before(l, k) == IF k = 1 THEN 0 ELSE Ends(l[k - 1])
Gaps(l) == {k \in DOMAIN l : l[k].block > Before(l, k)}
CountChunks(l) ==
    Len(l) + Cardinality(Gaps(l)) + (IF Before(l, Len(l) + 1) < Blocks THEN 1 ELSE 0)

(* write_sparse_skip_chunk; write_sparse_data_chunk, padding with zeros;   *)
(* write_sparse_fill_chunk, whose length is rounded up.  `words` is what   *)
(* the chunk expands to.                                                   *)
Same(v, n) == [i \in 1 .. n |-> v]
Skip(n) == IF n > 0 THEN <<[type |-> "skip", sz |-> n, words |-> Same(Hole, n * BlockWords)]>> ELSE <<>>
Chunk(bb) ==
    [type |-> IF bb.type = "fill" THEN "fill" ELSE "raw",
     sz |-> RoundUp(bb.len) \div BlockWords,
     words |-> IF bb.type = "fill" THEN Same(bb.val, RoundUp(bb.len))
               ELSE [i \in 1 .. RoundUp(bb.len) |-> WordAt(bb, i - 1)]]

(* Mutant: the end of the image is not skipped. *)
WriteAllShort(l) ==
    FlattenSeq([k \in 1 .. Len(l) |-> Skip(l[k].block - Before(l, k)) \o <<Chunk(l[k])>>])

(* write_all_blocks in the sparse format.                                  *)
WriteAll(l) ==
    FlattenSeq([k \in 1 .. Len(l) |-> Skip(l[k].block - Before(l, k)) \o <<Chunk(l[k])>>])
    \o Skip(Blocks - Before(l, Len(l) + 1))

(* The same in the normal format: a data chunk skips what it is padded     *)
(* with, a fill chunk writes its words and no more.                        *)
WriteNormal(l) ==
    FlattenSeq([k \in 1 .. Len(l) |->
        Same(Hole, (l[k].block - Before(l, k)) * BlockWords) \o
        IF l[k].type = "fill" THEN Same(l[k].val, l[k].len)
        ELSE Chunk(l[k]).words])

(* The length of a chunk, and of the whole file: sparse_file_len, with a   *)
(* header of 7 words and chunk headers of 3.                               *)
ChunkWords(c) == 3 + (CASE c.type = "raw" -> Len(c.words) [] c.type = "fill" -> 1 [] OTHER -> 0)
Total(cs) == FoldLeft(LAMBDA n, c : n + ChunkWords(c), 0, cs)
FileWords(l) == 7 + Total(WriteAll(l))

(* sparse_file_read_sparse: the chunks put back from block 0 on, the data  *)
(* as parts of the sparse file itself.                                     *)
BlockOf(cs, k) == FoldLeft(LAMBDA n, c : n + c.sz, 0, SubSeq(cs, 1, k - 1))
ReadSparse(cs) ==
    [w \in Words |->
        LET in == {k \in DOMAIN cs : w \in BlockOf(cs, k) * BlockWords ..
                                           (BlockOf(cs, k) + cs[k].sz) * BlockWords - 1} IN
        IF in = {} THEN Hole
        ELSE LET k == Max(in) IN cs[k].words[w - BlockOf(cs, k) * BlockWords + 1]]

(* What a list stands for: every chunk with its padding.                   *)
Expand(l) ==
    [w \in Words |->
        LET at == {k \in DOMAIN l : w \in First(l[k]) .. First(l[k]) + RoundUp(l[k].len) - 1} IN
        IF at = {} THEN Hole ELSE LET k == Max(at) IN WordAt(l[k], w - First(l[k]))]

(* The words the checksum is taken over when a file is written (of a fill  *)
(* chunk one block, of a skipped one nothing) and when it is read.         *)
CrcWritten(cs) ==
    FlattenSeq([k \in 1 .. Len(cs) |->
        CASE cs[k].type = "raw" -> cs[k].words
          [] cs[k].type = "fill" -> Same(cs[k].words[1], BlockWords)
          [] OTHER -> <<>>])
CrcRead(cs) == FlattenSeq([k \in 1 .. Len(cs) |-> cs[k].words])
-----------------------------------------------------------------------------
(* Mutant: the offset of the second part is not moved. *)
SplitForgets(l, k, n) ==
    LET whole == (n \div BlockWords) * BlockWords IN
    IF l[k].len <= whole THEN l
    ELSE InsertAt([l EXCEPT ![k].len = whole], k + 1,
                  [l[k] EXCEPT !.len = @ - whole, !.block = @ + whole \div BlockWords])

(* backed_block_split at n words, rounded down to whole blocks.            *)
Split(l, k, n) ==
    LET whole == (n \div BlockWords) * BlockWords IN
    IF l[k].len <= whole THEN l
    ELSE InsertAt([l EXCEPT ![k].len = whole], k + 1,
                  [l[k] EXCEPT !.len = @ - whole, !.block = @ + whole \div BlockWords,
                               !.val = IF l[k].type = "fill" THEN @ ELSE @ - whole])

(* move_chunks_up_to_len: the blocks of l up to the first that does not    *)
(* fit, and a part of that one if it is the only one or more than an       *)
(* eighth of the room is left; sparse_file_resparse repeats it.            *)
Used(l, k) == Total([j \in 1 .. k |-> Chunk(l[j])])
Cut(l) == CHOOSE k \in DOMAIN l : Used(l, k - 1) <= Room /\ Used(l, k) > Room
Left(l) == Room - Used(l, Cut(l) - 1)

(* backed_block_list_move of a run of blocks.                              *)
Move(l, a, b) == SubSeq(l, a, b)

RECURSIVE Pieces(_)
Pieces(l) ==
    IF Used(l, Len(l)) <= Room THEN <<l>>
    ELSE IF Cut(l) = 1 \/ Left(l) > Room \div 8
         THEN LET s == Split(l, Cut(l), Left(l)) IN
              <<Move(s, 1, Cut(l))>> \o Pieces(Move(s, Cut(l) + 1, Len(s)))
         ELSE <<Move(l, 1, Cut(l) - 1)>> \o Pieces(Move(l, Cut(l), Len(l)))

(* max_len: Room and what is set aside for the header, an initial skip, a  *)
(* split and a final skip chunk, and the checksum.                         *)
MaxLen == Room + 7 + 4 * 3 + 1
-----------------------------------------------------------------------------
(* However the regions are ordered when they are added, and whatever is    *)
(* merged, the list is sorted, its blocks do not overlap and it stands for *)
(* what was added ("Optimization: blocks are mostly queued in sequence, so *)
(* save the pointer to the last bb that was added").                       *)
ListHoldsAll ==
    /\ Expand(list) = want
    /\ \A k \in 2 .. Len(list) : list[k].block >= Ends(list[k - 1])

(* A file written in the sparse format and read back stands for the same   *)
(* words, also if written in the normal format; its header announces the   *)
(* number of chunks that follow, and they cover the image.                 *)
RoundTrip ==
    LET cs == WriteAll(list) IN
    /\ ReadSparse(cs) = Expand(list)
    /\ \A w \in Words : w < Len(WriteNormal(list)) => WriteNormal(list)[w + 1] = Expand(list)[w]
    /\ Len(cs) = CountChunks(list) /\ BlockOf(cs, Len(cs) + 1) = Blocks

(* Splitting a file for fastboot loses and repeats nothing: a word is in   *)
(* exactly one piece, and the pieces together are the file.                *)
PiecesWhole ==
    LET ps == Pieces(list) IN
    \A w \in Words :
        LET has == {k \in DOMAIN ps : Expand(ps[k])[w] # Hole} IN
        IF Expand(list)[w] = Hole THEN has = {}
        ELSE \E k \in has : has = {k} /\ Expand(ps[k])[w] = Expand(list)[w]

(* "each sparse file is less than max_len".                                *)
PiecesFit == LET ps == Pieces(list) IN \A k \in DOMAIN ps : FileWords(ps[k]) <= MaxLen

(* "If crc is true, the crc of the expanded data will be calculated": the  *)
(* reader computes the checksum the writer put there.                      *)
CrcAgrees == LET cs == WriteAll(list) IN CrcWritten(cs) = CrcRead(cs)

\* A sparse file holds what was added to it, in order; written out and read back
\* it is the same image; and splitting it into pieces loses and repeats nothing.
FileFaithful == ListHoldsAll /\ RoundTrip /\ PiecesWhole
=============================================================================
