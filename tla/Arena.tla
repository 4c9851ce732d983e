------------------------------- MODULE Arena -------------------------------
(***************************************************************************)
(* The bump allocator of src/src/core.h.  One instance, global_arena,      *)
(* serves every engine and, through allocate_memory, the JavaScript side:  *)
(* a block is carved at the current offset and nothing is ever given back  *)
(* except by reset, which forgets all of them at once.                     *)
(*                                                                         *)
(* Addresses are offsets from the start of the buffer.  Blocks lists what  *)
(* has been handed out since the last reset; the code keeps no such list,  *)
(* it is what the callers hold.                                            *)
(***************************************************************************)
EXTENDS Integers

CONSTANTS
  Capacity,  (* size of the buffer in bytes (MEMORY_CAPACITY)              *)
  Word,      (* size_t arithmetic is modulo Word (2^32 on wasm32)          *)
  Sizes      (* the sizes callers ask for                                  *)

Alignment == 8   \* the default argument; no caller passes another

\* The sum the guard computes does not wrap around.  Every sizeof(T) * n of
\* the engines is far below the 4 GiB at which it would.
NoWrap(size) == Capacity + Alignment + size <= Word

ASSUME ArenaAssumption ==
  /\ Capacity \in Nat
  /\ Word \in Nat
  /\ Sizes \subseteq Nat
  /\ \A size \in Sizes : NoWrap(size)

VARIABLES
  offset,    (* first free byte                                            *)
  blocks     (* the blocks callers may be using: [at, size]                *)

arenaVars == <<offset, blocks>>

----------------------------------------------------------------------------
\* Forms of the allocator with one slip each.
Unpadded(off) == 0
PaddingForgotten(off, size) == size
NarrowSum(off, size) == (size + ((8 - (off % 8)) % 8)) % 16

Padding(off) == (Alignment - (off % Alignment)) % Alignment

\* aligned_size: what one allocation takes from the buffer.
Taken(off, size) == (size + Padding(off)) % Word

Fits(off, size) == (off + Taken(off, size)) % Word <= Capacity

\* The pointer allocate returns when the block fits.
BlockAt(off, size) == [at |-> off + Padding(off), size |-> size]

----------------------------------------------------------------------------
Init ==
  /\ offset = 0
  /\ blocks = {}

\* allocate: a request that does not fit gets nullptr and changes nothing.
Allocate(size) ==
  /\ Fits(offset, size)
  /\ offset' = (offset + Taken(offset, size)) % Word
  /\ blocks' = blocks \union {BlockAt(offset, size)}

AllocateFails(size) ==
  /\ ~ Fits(offset, size)
  /\ UNCHANGED arenaVars

Reset ==
  /\ offset' = 0
  /\ blocks' = {}

Next ==
  \/ \E size \in Sizes : Allocate(size) \/ AllocateFails(size)
  \/ Reset

Spec == Init /\ [][Next]_arenaVars

----------------------------------------------------------------------------
Blocks == [at : Nat, size : Sizes]

TypeOK ==
  /\ offset \in 0 .. Capacity
  /\ blocks \subseteq Blocks

\* Every block handed out since the last reset lies below the offset, so
\* inside the buffer, whatever the order and the sizes of the requests.
BlocksInBuffer ==
  \A b \in blocks : b.at + b.size <= offset

BlocksDisjoint ==
  \A b, c \in blocks :
    b # c => b.at + b.size <= c.at \/ c.at + c.size <= b.at

\* Two callers never share a byte: a string the page stored through
\* allocate_memory is not overwritten by an engine's next record, and neither
\* reaches beyond the buffer.
BlocksApart == offset <= Capacity /\ BlocksInBuffer /\ BlocksDisjoint

\* Every pointer is a multiple of 8 from the start of the buffer, also after
\* requests of odd sizes: records hold 64-bit timestamps and doubles.
BlocksAligned ==
  \A b \in blocks : b.at % Alignment = 0

\* Exhaustion is final: a request refused once is refused until the reset,
\* whatever is asked for in between and although the padding in front of a
\* block varies with the offset.  An engine that lost a buffer at start-up
\* cannot get it later.
RefusedStaysRefused ==
  [][~ Reset =>
       \A size \in Sizes : ~ Fits(offset, size) => ~ Fits(offset', size)]_arenaVars
============================================================================
