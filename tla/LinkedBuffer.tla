---------------------------- MODULE LinkedBuffer ----------------------------
(***************************************************************************)
(* The buffer of received bytes (transceiver/linked_buffer.hpp): a list of *)
(* blocks of which the first offset bytes have been consumed, the next     *)
(* size bytes hold data and the last capacity bytes are free.              *)
(***************************************************************************)
EXTENDS Integers, Sequences

CONSTANTS
    Bytes,
    Unwritten,     \* what a new block holds
    BlockSize

ASSUME BlockSizeAssumption == BlockSize \in Nat \ {0}

Block == [1 .. BlockSize -> Bytes \cup {Unwritten}]

Buffer == [size : Nat, capacity : 0 .. BlockSize,
           offset : 0 .. BlockSize - 1, blocks : Seq(Block)]

Empty == [size |-> 0, capacity |-> 0, offset |-> 0, blocks |-> <<>>]

(* get_available_block adds a block when the last one is full ... *)
Reserve(b) ==
    IF b.capacity = 0
    THEN [b EXCEPT !.capacity = BlockSize,
                   !.blocks = Append(@, [i \in 1 .. BlockSize |-> Unwritten])]
    ELSE b

(* ... and otherwise points behind the data in it.  A read writes there,   *)
(* and commit makes what it wrote data.                                    *)
Write(b, data) ==
    LET at == (b.offset + b.size) % BlockSize
        last == b.blocks[Len(b.blocks)]
        new == [i \in 1 .. BlockSize |->
                  IF i - at \in 1 .. Len(data) THEN data[i - at] ELSE last[i]]
    IN [size |-> b.size + Len(data), capacity |-> b.capacity - Len(data),
        offset |-> b.offset,
        blocks |-> [b.blocks EXCEPT ![Len(b.blocks)] = new]]

(* get_data_blocks and take_data: the first n bytes of the data *)
Data(b, n) == [i \in 1 .. n |->
                 LET k == b.offset + i - 1
                 IN b.blocks[1 + (k \div BlockSize)][1 + (k % BlockSize)]]

Contents(b) == Data(b, b.size)

(* The part of the data that is in the first block. *)
FirstBlock(b) == IF b.size <= BlockSize - b.offset
                 THEN Contents(b)
                 ELSE Data(b, BlockSize - b.offset)

(* consume frees the blocks that have been consumed. *)
Consume(b, n) ==
    LET end == b.offset + n
    IN [size |-> b.size - n, capacity |-> b.capacity,
        offset |-> end % BlockSize,
        blocks |-> SubSeq(b.blocks, (end \div BlockSize) + 1, Len(b.blocks))]
=============================================================================
