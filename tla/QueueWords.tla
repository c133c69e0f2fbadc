----------------------------- MODULE QueueWords -----------------------------
(***************************************************************************)
(* ImpStd has the queue word decoded, as a record of a state and a thread. *)
(* Here each Waiter has an address, and the words are what the code makes  *)
(* of them.                                                                *)
(***************************************************************************)
EXTENDS ImpStd, Integers

CONSTANTS
  Usizes,  \* how many values a usize has
  Slot    \* where on the stack of each thread its Waiter is, in units of its alignment

Ptr == INSTANCE TaggedPtr

ASSUME UsizesAssumption == Usizes \in Nat \ {0} /\ Usizes % 8 = 0
ASSUME SlotAssumption ==
  /\ Slot \in [Threads -> Nat \ {0}]
  /\ \A t \in Threads : 4 * Slot[t] < Usizes
  /\ \A t, u \in Threads : Slot[t] = Slot[u] => t = u

(* The address of a Waiter, and the null pointer. *)
Address(p) == IF p = Null THEN 0 ELSE Ptr!Align * Slot[p]

Bits(state) ==
  CASE state = INCOMPLETE -> Ptr!INCOMPLETE
    [] state = RUNNING -> Ptr!RUNNING
    [] state = COMPLETE -> Ptr!COMPLETE

Encode(q) == Ptr!Tagged(Address(q.head), Bits(q.state))

(* t is about to exchange the word it read last. *)
InExchange(t) == pc[t] \in {"start", "push"}
-----------------------------------------------------------------------------
\* The words tell apart all that the records do: masking gives back the state and the
\* head of the list, compare_exchange, which compares words, succeeds exactly when the
\* records are equal, and is_initialized, which compares the whole word with COMPLETE_PTR
\* and not its state bits, holds in every COMPLETE state: that word never has a pointer.
WordsAreFaithful ==
  LET w == Encode(queue) IN
  /\ w \in Ptr!usize
  /\ Ptr!StateOf(w) = Bits(queue.state)
  /\ Ptr!HeadOf(w) = Address(queue.head)
  /\ w = Encode(COMPLETE_PTR) <=> queue.state = COMPLETE
  /\ \A t \in Threads : InExchange(t) => (w = Encode(frame[t].cur) <=> Exchanges(t))

\* The code computes the next word from the word its thread read last and the address of
\* its Waiter, never from the decoded queue: the result is the word of the next record,
\* and `next` of a Waiter is the head of the list it was pushed to.
WordsFollow ==
  [][\A t \in Threads :
       LET cur == Encode(frame[t].cur) IN
       /\ Start(t) => Encode(queue') = Ptr!MadeRunning(cur)
       /\ Push(t) =>
            /\ Encode(queue') = Ptr!Tagged(Address(t), Ptr!StateOf(cur))
            /\ Address(node'[t].next) = Ptr!HeadOf(cur)]_vars
=============================================================================
