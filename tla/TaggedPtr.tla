----------------------------- MODULE TaggedPtr -----------------------------
(***************************************************************************)
(* The arithmetic of src/imp_std.rs on the word `queue`: a pointer to a    *)
(* Waiter whose two low bits say the state of the cell, and the polyfill   *)
(* of strict provenance through which all of it goes.  A pointer is its    *)
(* address; what it may be used for (its provenance) has no part in the    *)
(* arithmetic.                                                             *)
(***************************************************************************)
EXTENDS Integers

CONSTANT Usizes  \* how many values a usize has

usize == 0..(Usizes - 1)

(* Casts keep the bits. *)
as_isize(a) == IF a < Usizes \div 2 THEN a ELSE a - Usizes

wrapping_sub(x, y) == as_isize((x - y) % Usizes)
wrapping_offset(ptr, offset) == (ptr + offset) % Usizes

(* mod strict *)
addr(ptr) == ptr

with_addr(ptr, a) == wrapping_offset(ptr, wrapping_sub(as_isize(a), as_isize(addr(ptr))))

map_addr(ptr, f) == with_addr(ptr, f[addr(ptr)])
-----------------------------------------------------------------------------
INCOMPLETE == 0
RUNNING == 1
COMPLETE == 2

STATE_MASK == 3

(* repr(align(4)) of Waiter. *)
WrongAlign == 2
Align == 4

(* & STATE_MASK, & !STATE_MASK, and | with one of the states.              *)
MaskedBits(q) == q % (STATE_MASK + 1)
OtherBits(q) == q - MaskedBits(q)

Bit(n, k) == (n \div k) % 2
OrBit(m, n, k) == IF Bit(m, k) = 1 \/ Bit(n, k) = 1 THEN k ELSE 0

WithState(q, s) == OtherBits(q) + OrBit(MaskedBits(q), s, 1) + OrBit(MaskedBits(q), s, 2)

WrongStateOf(q) == addr(q) % STATE_MASK
StateOf(q) == MaskedBits(addr(q))

(* The head of the list that a queue word carries: in wait and Guard::drop. *)
HeadOf(q) == map_addr(q, [a \in usize |-> OtherBits(a)])

(* What initialize_or_wait and wait offer to compare_exchange. *)
MadeRunning(q) == map_addr(q, [a \in usize |-> WithState(OtherBits(a), RUNNING)])

Tagged(me, s) == map_addr(me, [a \in usize |-> WithState(a, s)])
=============================================================================
