----------------------------- MODULE MCMempool -----------------------------
(***************************************************************************)
(* The pool in two worlds: as two sets (Mempool), and with the nested map  *)
(* and the ordered queue of the code (MempoolQueue).  Two senders reuse    *)
(* nonces with a higher, an equal and a lower fee, and the clock outlives  *)
(* an entry.  The variables of the other world stay as they begin.         *)
(***************************************************************************)
EXTENDS Mempool, TLC

CONSTANTS a, b, x

VARIABLES world, map, queue, panicked

MCSenders == {a, b}
MCBodies == {x}
MCNonces == 1 .. 3
MCFees == 1 .. 3

Symmetry == Permutations(MCSenders)

Q == INSTANCE MempoolQueue WITH transactions <- map, transactions_priority <- queue,
       Nonces <- 1 .. 2, Fees <- 1 .. 2

v == <<world, vars, map, queue, panicked>>

WorldsInit == Init /\ Q!Init /\ world \in {"sets", "queue"}

WorldsNext ==
    /\ \/ world = "sets" /\ Next /\ UNCHANGED <<map, queue, panicked>>
       \/ world = "queue" /\ Q!Next /\ UNCHANGED <<transactions, records, transactions_priority>>
    /\ UNCHANGED world

WorldsSpec == WorldsInit /\ [][WorldsNext]_v

\* The queue alone, with a clock that runs forwards or may be set back.
QueueSpec == WorldsInit /\ world = "queue" /\ [][WorldsNext]_v
SteppedClockSpec ==
    /\ WorldsInit /\ world = "queue"
    /\ [][/\ Q!SteppedClockNext
          /\ UNCHANGED <<world, transactions, records, transactions_priority>>]_v

-----------------------------------------------------------------------------
\* The pool with its nested map and its ordered queue does nothing that the pool
\* seen as two sets may not do (add_transaction, remove_transaction).
ImplementsMempool ==
    Q!Pool!Init /\ [][world = "queue" => Q!Pool!Next \/ UNCHANGED Q!Pool!vars]_v

\* "Highest fee" first: the order the comment in add_transaction and the test
\* test_mempool_transactions_priority give the queue.
HighestFeeFirst == Q!HighestFeeFirst

\* "Length of `transactions` is used in `add_transaction`. So need to remove
\* empty records": no sender is left in the map without a transaction.
NoEmptySender == Q!NoEmptySender
=============================================================================
