------------------------------ MODULE PacketRing ------------------------------
(***************************************************************************)
(* The PACKET_MMAP ring of packet/packet_mmap.rs: blocks of packets in     *)
(* memory that the kernel shares with the reader, and one status word per  *)
(* block that says who may touch it.  A packet is its number.              *)
(***************************************************************************)
EXTENDS Naturals, Sequences

CONSTANTS
    BlockNr,         \* BLOCK_NR: 16
    BlockCap         \* packets a block can hold

ASSUME RingAssumption == {BlockNr, BlockCap} \subseteq Nat \ {0}

VARIABLES
    blocks,          \* the packets in each block
    status,          \* block_status: whose the block is
    filling,         \* the block the kernel is at
    current,         \* current_block of the reader
    walking,         \* the reader is inside that block,
    walked           \*   past so many packets

kernelVars == <<blocks, status, filling>>
readerVars == <<current, walking, walked>>
ringVars == <<kernelVars, readerVars>>

BlockIds == 0 .. BlockNr - 1
Following(b) == (b + 1) % BlockNr

RingTypeOK ==
    /\ DOMAIN blocks = BlockIds
    /\ \A b \in BlockIds : Len(blocks[b]) <= BlockCap
    /\ status \in [BlockIds -> {"kernel", "user"}]
    /\ {filling, current} \subseteq BlockIds
    /\ walking \in BOOLEAN
    /\ walked \in 0 .. BlockCap

(* PacketMmapRing::new *)
RingInit ==
    /\ blocks = [b \in BlockIds |-> <<>>]
    /\ status = [b \in BlockIds |-> "kernel"]
    /\ filling = 0
    /\ current = 0
    /\ walking = FALSE
    /\ walked = 0

--------------------------------------------------------------------------------
(* The kernel. *)

(* A packet goes into the open block; when that is full, the block is given*)
(* to the reader and the next one opened.  While the next one is still the *)
(* reader's, packets are dropped.                                          *)
KernelPuts(p) ==
    LET next == Following(filling)
    IN  \/ /\ status[filling] = "kernel" /\ Len(blocks[filling]) < BlockCap
           /\ blocks' = [blocks EXCEPT ![filling] = Append(@, p)]
           /\ UNCHANGED <<status, filling>>
        \/ /\ status[filling] = "kernel" /\ Len(blocks[filling]) = BlockCap
           /\ status' = [status EXCEPT ![filling] = "user"]
           /\ filling' = next
           /\ blocks' = IF status'[next] = "kernel" THEN [blocks EXCEPT ![next] = <<p>>] ELSE blocks
        \/ /\ status[filling] = "user"
           /\ UNCHANGED kernelVars

(* After BLOCK_TIMEOUT_MS a block with packets in it is given away as it is.*)
KernelRetires ==
    /\ status[filling] = "kernel" /\ blocks[filling] # <<>>
    /\ status' = [status EXCEPT ![filling] = "user"]
    /\ filling' = Following(filling)
    /\ UNCHANGED <<blocks, readerVars>>

--------------------------------------------------------------------------------
(* process_block *)

(* The status word is read, at once or after poll().  num_pkts does not    *)
(* change while the block is the reader's.                                 *)
BlockReady ==
    /\ ~walking
    /\ status[current] = "user"
    /\ walking' = TRUE
    /\ UNCHANGED <<kernelVars, current, walked>>

(* The next packet of the block, at its tp_next_offset. *)
AtPacket == walking /\ walked < Len(blocks[current])
PacketHere == blocks[current][walked + 1]
WalkOn == walked' = walked + 1 /\ UNCHANGED <<kernelVars, current, walking>>

(* Mutant: the reader does not go on to the next block.                    *)
ReleaseBlockStay ==
    /\ walking /\ walked = Len(blocks[current])
    /\ status' = [status EXCEPT ![current] = "kernel"]
    /\ blocks' = [blocks EXCEPT ![current] = <<>>]
    /\ walking' = FALSE /\ walked' = 0
    /\ UNCHANGED <<filling, current>>

ReleaseBlock ==
    /\ walking /\ walked = Len(blocks[current])
    /\ status' = [status EXCEPT ![current] = "kernel"]
    /\ blocks' = [blocks EXCEPT ![current] = <<>>]
    /\ current' = Following(current)
    /\ walking' = FALSE /\ walked' = 0
    /\ UNCHANGED filling

(* What is in the ring and was not walked past. *)
Unwalked(b) == {i \in DOMAIN blocks[b] : b = current => i > walked}
RingContents == UNION {{blocks[b][i] : i \in Unwalked(b)} : b \in BlockIds}
================================================================================
