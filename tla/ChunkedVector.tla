--------------------------- MODULE ChunkedVector ---------------------------
(***************************************************************************)
(* ChunkedVector: a sequence in blocks of BlockSize elements, so that it   *)
(* grows without moving what it holds.                                     *)
(*                                                                         *)
(* A definition marked "Variant" is a plausible mistake in the code, kept  *)
(* beside the definition it would replace.  No action uses it.             *)
(***************************************************************************)
EXTENDS Integers, Sequences, SequencesExt

CONSTANTS Values, BlockSize,
          MaxSize               \* bound of the model

\* The constants are meant to be like this.
ConstantsOK == BlockSize \in Nat \ {0} /\ MaxSize \in Nat

VARIABLES blocks_,          \* the blocks, each a std::vector
          total_size_

vars == <<blocks_, total_size_>>

Init == blocks_ = <<>> /\ total_size_ = 0

\* std::vector::resize()
Resized(s, n, v) == [i \in 1 .. n |-> IF i <= Len(s) THEN s[i] ELSE v]

\* get_block_and_offset().  Blocks and offsets count from 0.
BlockOf(index) == index \div BlockSize
OffsetOf(index) == index % BlockSize
BlocksFor(n) == (n + BlockSize - 1) \div BlockSize

-----------------------------------------------------------------------------
\* ensure_back_block()
NeedsBlock(blocks) == blocks = <<>> \/ Len(Last(blocks)) = BlockSize
Ensured == IF NeedsBlock(blocks_) THEN Append(blocks_, <<>>) ELSE blocks_

push_back(v) ==
    /\ total_size_ < MaxSize
    /\ blocks_' = [Ensured EXCEPT ![Len(Ensured)] = Append(@, v)]
    /\ total_size_' = total_size_ + 1

pop_back ==
    /\ total_size_ > 0
    /\ LET rest == Front(Last(blocks_))
       IN  blocks_' = IF rest = <<>> THEN Front(blocks_) ELSE Front(blocks_) \o <<rest>>
    /\ total_size_' = total_size_ - 1

clear == blocks_' = <<>> /\ total_size_' = 0

-----------------------------------------------------------------------------
(* resize(n, v) *)

\* The block of index n is cut at its offset, and goes if that leaves it empty.
Shrink(n) ==
    /\ n < total_size_
    /\ LET cut == [blocks_ EXCEPT ![BlockOf(n) + 1] = SubSeq(@, 1, OffsetOf(n))]
       IN  blocks_' = SubSeq(cut, 1, BlocksFor(n))
    /\ total_size_' = n

Smaller(a, b) == IF a < b THEN a ELSE b

\* What fits into the block where the sequence ends.
\* Variant: the block is filled up, whatever is asked for.
FillsBlock(n) == BlockSize - OffsetOf(total_size_)
FillInBlock(n) == Smaller(BlockSize - OffsetOf(total_size_), n - total_size_)

\* The blocks behind that one are full, but for the final one.
Grow(n, v) ==
    /\ n > total_size_
    /\ LET enough == Resized(blocks_, BlocksFor(n), <<>>)
           old == BlockOf(total_size_)
           SizeOf(b) ==
               CASE b < old -> Len(enough[b + 1])
                 [] b = old -> OffsetOf(total_size_) + FillInBlock(n)
                 [] b > old -> Smaller(BlockSize, n - b * BlockSize)
       IN  blocks_' = [k \in DOMAIN enough |-> Resized(enough[k], SizeOf(k - 1), v)]
    /\ total_size_' = n

Next ==
    \/ \E v \in Values : push_back(v) \/ \E n \in 0 .. MaxSize : Grow(n, v)
    \/ \E n \in 0 .. MaxSize : Shrink(n)
    \/ pop_back
    \/ clear

Spec == Init /\ [][Next]_vars

-----------------------------------------------------------------------------
(* Properties *)

\* operator[]; "none" where it would look for an element that is not there.
At(index) ==
    LET b == BlockOf(index) + 1
        o == OffsetOf(index) + 1
    IN  IF b \in DOMAIN blocks_ /\ o \in DOMAIN blocks_[b] THEN blocks_[b][o] ELSE "none"

DA == INSTANCE DynamicArray WITH
        list <- [i \in 1 .. total_size_ |-> At(i - 1)]

\* Whatever was pushed, popped and resized before, on either side of the
\* borders between blocks, index i finds the i-th element.
ImplementsDynamicArray == DA!Spec

=============================================================================
