----------------------------- MODULE NodeProofs -----------------------------
(***************************************************************************)
(* What a node keeps by itself: the two structures of its memory pool      *)
(* (Mempool), for every set of senders, nonces, fees and bodies and every  *)
(* limit, and the tables it loads a dump into (Snapshot).                  *)
(***************************************************************************)
EXTENDS Mempool, Snapshot, FiniteSetTheorems, SequenceTheorems, TLAPS

\* Only live records and entries survive expiry, and under QueuesAgree and
\* OnePerNonce the queue loses exactly what the map loses.
LEMMA LivePriorityAgrees ==
    ASSUME QueuesAgree, OnePerNonce, TypeOK
    PROVE  LivePriority = LiveTransactions
<1>1. ASSUME NEW p \in LivePriority PROVE p \in LiveTransactions
  BY <1>1 DEF LivePriority, LiveTransactions, QueuesAgree
<1>2. ASSUME NEW e \in LiveTransactions PROVE e \in LivePriority
  <2>1. e \in transactions_priority /\ Live(e.ts)
    BY <1>2 DEF LiveTransactions, QueuesAgree
  <2>2. SUFFICES ASSUME NEW f \in transactions, ~Live(f.ts), f.tx = e.tx
                 PROVE  FALSE
    BY <2>1 DEF LivePriority
  <2>3. f = e
    BY <2>1, <2>2 DEF OnePerNonce, QueuesAgree, has_conflict
  <2> QED BY <2>1, <2>2, <2>3
<1> QED BY <1>1, <1>2

\* Expiry preserves the inductive invariant (as a step to time t).
LEMMA ExpireInductive ==
    ASSUME IInv, NEW t \in Time, now <= t, remove_expired_transactions, now' = t
    PROVE  IInv'
<1>0. LivePriority = LiveTransactions
  BY LivePriorityAgrees DEF IInv
<1>1. TypeOK'
  BY DEF IInv, TypeOK, remove_expired_transactions, LiveTransactions,
         LiveRecords, LivePriority
<1>2. QueuesAgree'
  BY <1>0 DEF QueuesAgree, remove_expired_transactions
<1>3. OnePerNonce'
  BY DEF IInv, OnePerNonce, remove_expired_transactions, LivePriority
<1>4. RecordsBacked'
  <2> SUFFICES ASSUME NEW r \in LiveRecords
               PROVE  \E e \in LiveTransactions :
                          e.tx.sender = r[1] /\ e.ts >= r[2]
    BY DEF RecordsBacked, remove_expired_transactions
  <2>1. PICK e \in transactions : e.tx.sender = r[1] /\ e.ts >= r[2]
    BY DEF IInv, RecordsBacked, LiveRecords
  <2>2. r[2] \in Int /\ e.ts \in Int /\ now \in Int /\ Expiration \in Int
    BY PoolAssumption DEF IInv, TypeOK, Entry, Time, LiveRecords
  <2>3. Live(e.ts)
    BY <2>1, <2>2 DEF LiveRecords, Live
  <2> QED BY <2>1, <2>3 DEF LiveTransactions
<1>5. StampsPast'
  <2>1. \A r \in LiveRecords : r[2] <= t
    BY PoolAssumption DEF IInv, StampsPast, LiveRecords, TypeOK, Time
  <2>2. \A e \in LiveTransactions : <<e.tx.sender, e.ts>> \in LiveRecords
    BY DEF IInv, StampsPast, LiveRecords, LiveTransactions
  <2> QED BY <2>1, <2>2 DEF StampsPast, remove_expired_transactions
<1> QED BY <1>1, <1>2, <1>3, <1>4, <1>5 DEF IInv

\* Accepting a transaction: the conflicts leave both structures, and what is
\* kept is at least as young as what its sender loses.
LEMMA AcceptInductive ==
    ASSUME IInv, NEW tx \in Transaction, NEW t \in Time,
           NEW kept \in handle_conflicts(get_conflicts(LivePriority, tx), tx, t),
           AcceptTransaction(tx, t, kept)
    PROVE  IInv'
<1> DEFINE C == get_conflicts(LivePriority, tx)
<1>0. LivePriority = LiveTransactions
  BY LivePriorityAgrees DEF IInv
<1>1. \/ kept = [tx |-> tx, ts |-> t]
      \/ kept \in C
  BY DEF handle_conflicts
<1>2. kept \in Entry
  BY <1>1 DEF get_conflicts, LivePriority, IInv, TypeOK, Entry
<1>3. has_conflict(kept.tx, tx)
  BY <1>1 DEF get_conflicts, has_conflict
<1>4. \A e, f \in LivePriority : has_conflict(e.tx, f.tx) => e = f
  BY DEF IInv, OnePerNonce, LivePriority
<1>5. \A e \in LivePriority : e \in WithoutConflicts(LiveTransactions, C) <=> e \notin C
  BY <1>0, <1>4 DEF WithoutConflicts, get_conflicts, has_conflict
<1>6. WithoutConflicts(LiveTransactions, C) = LivePriority \ C
  BY <1>0, <1>5 DEF WithoutConflicts
<1>7. /\ transactions' = (LivePriority \ C) \union {kept}
      /\ records' = LiveRecords \union {<<tx.sender, kept.ts>>}
      /\ transactions_priority' = (LivePriority \ C) \union {kept}
      /\ now' = t
      /\ now <= t
  BY <1>6 DEF AcceptTransaction
<1>8. TypeOK'
  <2>1. LivePriority \subseteq Entry /\ LiveRecords \subseteq Senders \X Time
    BY DEF IInv, TypeOK, LivePriority, LiveRecords
  <2>2. <<tx.sender, kept.ts>> \in Senders \X Time
    BY <1>2 DEF Entry, Transaction
  <2> QED BY <1>2, <1>7, <2>1, <2>2 DEF TypeOK
<1>9. QueuesAgree'
  BY <1>7 DEF QueuesAgree
<1>10. OnePerNonce'
  <2>1. \A e \in LivePriority \ C : ~has_conflict(e.tx, kept.tx)
    BY <1>3 DEF get_conflicts, has_conflict
  <2>2. \A e \in LivePriority \ C : ~has_conflict(kept.tx, e.tx)
    BY <2>1 DEF has_conflict
  <2> QED BY <1>4, <1>7, <2>1, <2>2 DEF OnePerNonce
<1>11. now \in Int /\ t \in Int /\ Expiration \in Int
  BY PoolAssumption DEF IInv, TypeOK, Time
<1>12. ASSUME NEW e \in C PROVE kept.ts >= e.ts
  <2>1. e \in transactions /\ e \in LivePriority /\ e.ts \in Int
    BY <1>0, <1>12 DEF get_conflicts, LiveTransactions, IInv, TypeOK, Entry, Time
  <2>2. e.ts <= now
    BY <2>1 DEF IInv, StampsPast
  <2>3. CASE kept = [tx |-> tx, ts |-> t]
    BY <1>7, <1>11, <2>1, <2>2, <2>3
  <2>4. CASE kept \in C
    <3>1. has_conflict(kept.tx, e.tx) /\ kept \in LivePriority
      BY <1>12, <2>4 DEF get_conflicts, has_conflict
    <3>2. kept = e
      BY <1>4, <2>1, <3>1
    <3> QED BY <2>1, <3>2
  <2> QED BY <1>1, <2>3, <2>4
<1>13. RecordsBacked'
  <2> SUFFICES ASSUME NEW r \in LiveRecords \union {<<tx.sender, kept.ts>>}
               PROVE  \E e \in (LivePriority \ C) \union {kept} :
                          e.tx.sender = r[1] /\ e.ts >= r[2]
    BY <1>7 DEF RecordsBacked
  <2>0. kept.ts \in Int
    BY <1>2 DEF Entry, Time
  <2>1. CASE r = <<tx.sender, kept.ts>>
    BY <1>3, <2>0, <2>1 DEF has_conflict
  <2>2. CASE r \in LiveRecords
    <3>1. PICK e \in transactions : e.tx.sender = r[1] /\ e.ts >= r[2]
      BY <2>2 DEF IInv, RecordsBacked, LiveRecords
    <3>2. r[2] \in Int /\ e.ts \in Int
      BY <2>2 DEF IInv, TypeOK, Entry, Time, LiveRecords
    <3>3. e \in LivePriority
      BY <1>0, <1>11, <2>2, <3>1, <3>2 DEF LiveRecords, LiveTransactions, Live
    <3>4. CASE e \notin C
      BY <3>1, <3>3, <3>4
    <3>5. CASE e \in C
      <4>1. kept.tx.sender = r[1]
        BY <1>3, <3>1, <3>5 DEF get_conflicts, has_conflict
      <4>2. kept.ts >= r[2]
        BY <1>12, <2>0, <3>1, <3>2, <3>5
      <4> QED BY <4>1, <4>2
    <3> QED BY <3>4, <3>5
  <2> QED BY <2>1, <2>2
<1>14. StampsPast'
  <2>1. \A r \in LiveRecords : r[2] <= t
    BY <1>7, <1>11 DEF IInv, StampsPast, LiveRecords, TypeOK, Time
  <2>2. kept.ts <= t
    <3>1. CASE kept = [tx |-> tx, ts |-> t]
      BY <1>11, <3>1
    <3>2. CASE kept \in C
      <4>1. kept \in transactions /\ kept.ts \in Int
        BY <1>0, <1>2, <3>2 DEF get_conflicts, LiveTransactions, Entry, Time
      <4>2. kept.ts <= now
        BY <4>1 DEF IInv, StampsPast
      <4> QED BY <1>7, <1>11, <4>1, <4>2
    <3> QED BY <1>1, <3>1, <3>2
  <2>3. \A e \in LivePriority : <<e.tx.sender, e.ts>> \in LiveRecords
    BY <1>0 DEF IInv, StampsPast, LiveRecords, LiveTransactions
  <2>4. kept.tx.sender = tx.sender
    BY <1>3 DEF has_conflict
  <2> QED BY <1>7, <2>1, <2>2, <2>3, <2>4 DEF StampsPast
<1> QED BY <1>8, <1>9, <1>10, <1>13, <1>14 DEF IInv

\* Removing a transaction also drops the empty records of its sender.
LEMMA RemoveInductive ==
    ASSUME IInv, NEW tx \in Transaction, remove_transaction(tx)
    PROVE  IInv'
<1> DEFINE left == {e \in transactions : e.tx # tx}
<1>1. /\ transactions' = left
      /\ transactions_priority' = left
      /\ records' = {r \in records : r[1] = tx.sender =>
                         \E e \in left : e.tx.sender = r[1] /\ e.ts = r[2]}
      /\ now' = now
  BY DEF remove_transaction, IInv, QueuesAgree
<1>2. TypeOK' /\ QueuesAgree' /\ OnePerNonce'
  BY <1>1 DEF IInv, TypeOK, QueuesAgree, OnePerNonce
<1>3. RecordsBacked'
  <2> SUFFICES ASSUME NEW r \in records'
               PROVE  \E e \in left : e.tx.sender = r[1] /\ e.ts >= r[2]
    BY <1>1 DEF RecordsBacked
  <2>1. r[2] \in Int
    BY <1>1 DEF IInv, TypeOK, Time
  <2>2. CASE r[1] = tx.sender
    BY <1>1, <2>1, <2>2
  <2>3. CASE r[1] # tx.sender
    BY <1>1, <2>3 DEF IInv, RecordsBacked
  <2> QED BY <2>2, <2>3
<1>4. StampsPast'
  BY <1>1 DEF IInv, StampsPast
<1> QED BY <1>2, <1>3, <1>4 DEF IInv

LEMMA InitInductive == Init => IInv
BY PoolAssumption
   DEF Init, IInv, TypeOK, QueuesAgree, OnePerNonce, RecordsBacked, StampsPast, Time

LEMMA NextInductive == IInv /\ [Next]_vars => IInv'
<1> SUFFICES ASSUME IInv, [Next]_vars PROVE IInv'
  OBVIOUS
<1>0. now \in Time /\ now <= now
  BY PoolAssumption DEF IInv, TypeOK, Time
<1>1. CASE AddTransaction
  <2>1. PICK t \in Time :
            \/ RejectTransaction(t)
            \/ \E tx \in Transaction :
                  \E kept \in handle_conflicts(get_conflicts(LivePriority, tx), tx, t) :
                      AcceptTransaction(tx, t, kept)
    BY <1>1 DEF AddTransaction
  <2>2. CASE RejectTransaction(t)
    BY <2>2, ExpireInductive DEF RejectTransaction
  <2>3. CASE ~RejectTransaction(t)
    BY <2>1, <2>3, AcceptInductive
  <2> QED BY <2>2, <2>3
<1>2. CASE RemoveTransaction
  BY <1>2, RemoveInductive DEF RemoveTransaction
<1>3. CASE NotProposed
  BY <1>0, <1>3, ExpireInductive DEF NotProposed
<1>4. CASE clear_transactions
  BY <1>4 DEF clear_transactions, IInv, TypeOK, QueuesAgree, OnePerNonce,
              RecordsBacked, StampsPast
<1>5. CASE Tick
  <2>1. TypeOK'
    BY <1>5, PoolAssumption DEF Tick, IInv, TypeOK, Time
  <2>2. StampsPast'
    BY <1>5 DEF Tick, IInv, TypeOK, StampsPast, Time
  <2> QED
    BY <1>5, <2>1, <2>2 DEF Tick, IInv, QueuesAgree, OnePerNonce, RecordsBacked
<1>6. CASE UNCHANGED vars
  BY <1>6 DEF vars, IInv, TypeOK, QueuesAgree, OnePerNonce, RecordsBacked, StampsPast
<1> QED BY <1>1, <1>2, <1>3, <1>4, <1>5, <1>6 DEF Next, ProposeBlock

\* The inductive invariant: types, agreement of map and queue, one transaction
\* per nonce, and a transaction at least as young behind every record.
THEOREM MempoolInvariant == Spec => []IInv
BY InitInductive, NextInductive, PTL DEF Spec

\* The map and the queue hold the same transactions after every message, so
\* validate_queues never has anything to report.
THEOREM QueuesAlwaysAgree == Spec => []QueuesAgree
<1>1. IInv => QueuesAgree
  BY DEF IInv
<1> QED BY <1>1, MempoolInvariant, PTL

\* At most one transaction per sender and nonce is ever pooled.
THEOREM NonceUnique == Spec => []OnePerNonce
<1>1. IInv => OnePerNonce
  BY DEF IInv
<1> QED BY <1>1, MempoolInvariant, PTL

-----------------------------------------------------------------------------
(* Sizes. *)

\* A step keeps the pool finite, below max_size and every sender below
\* rate_limit, given the inductive invariant.
SizeInv == IsFiniteSet(transactions) /\ WithinMaxSize /\ WithinRateLimit

\* One more element is at most one more.
LEMMA AddOne ==
    ASSUME NEW S, NEW x, IsFiniteSet(S)
    PROVE  /\ IsFiniteSet(S \union {x})
           /\ Cardinality(S) \in Nat
           /\ Cardinality(S \union {x}) <= Cardinality(S) + 1
<1>1. Cardinality(S) \in Nat
  BY FS_CardinalityType
<1>2. /\ IsFiniteSet(S \union {x})
      /\ Cardinality(S \union {x}) = IF x \in S THEN Cardinality(S) ELSE Cardinality(S) + 1
  BY FS_AddElement, Zenon
<1> QED BY <1>1, <1>2

\* Shrinking the pool while time passes keeps the size bounds.
LEMMA SmallerPool ==
    ASSUME IInv, SizeInv, transactions' \subseteq transactions,
           transactions_priority' \subseteq transactions_priority,
           now' \in Time, now <= now'
    PROVE  SizeInv'
<1>1. IsFiniteSet(transactions') /\ WithinMaxSize'
  <2>1. IsFiniteSet(transactions') /\ IsFiniteSet(transactions_priority)
    BY FS_Subset DEF SizeInv, IInv, QueuesAgree
  <2>2. /\ Cardinality(transactions_priority') <= Cardinality(transactions_priority)
        /\ IsFiniteSet(transactions_priority')
    BY <2>1, FS_Subset
  <2>3. /\ Cardinality(transactions_priority) \in Nat
        /\ Cardinality(transactions_priority') \in Nat
    BY <2>1, <2>2, FS_CardinalityType
  <2> QED BY <2>1, <2>2, <2>3, PoolAssumption DEF SizeInv, WithinMaxSize
<1>2. ASSUME NEW s \in Senders
      PROVE  Cardinality(SenderEntries(transactions', s, now')) <= RateLimit
  <2> DEFINE old == SenderEntries(transactions, s, now)
             new == SenderEntries(transactions', s, now')
  <2>1. \A e \in transactions : e.ts \in Int
    BY DEF IInv, TypeOK, Entry, Time
  <2>2. now \in Int /\ now' \in Int /\ TimeFrame \in Int
    BY PoolAssumption DEF IInv, TypeOK, Time
  <2>3. new \subseteq old /\ old \subseteq transactions
    BY <2>1, <2>2 DEF SenderEntries
  <2>4. IsFiniteSet(old) /\ IsFiniteSet(new) /\ Cardinality(new) <= Cardinality(old)
    BY <2>3, FS_Subset DEF SizeInv
  <2>5. Cardinality(old) \in Nat /\ Cardinality(new) \in Nat
    BY <2>4, FS_CardinalityType
  <2>6. Cardinality(old) <= RateLimit
    BY DEF SizeInv, WithinRateLimit
  <2> QED BY <2>4, <2>5, <2>6, PoolAssumption
<1> QED BY <1>1, <1>2 DEF SizeInv, WithinRateLimit

\* Accepting adds one entry to a pool, and to a sender's time frame, that had
\* room for it.
LEMMA AcceptWithinLimits ==
    ASSUME IInv, SizeInv, NEW tx \in Transaction, NEW t \in Time,
           NEW kept \in handle_conflicts(get_conflicts(LivePriority, tx), tx, t),
           AcceptTransaction(tx, t, kept)
    PROVE  SizeInv'
<1> DEFINE C == get_conflicts(LivePriority, tx)
<1>1. LivePriority \subseteq transactions_priority /\ LiveTransactions \subseteq transactions
  BY DEF LivePriority, LiveTransactions
<1>2. IsFiniteSet(LivePriority) /\ IsFiniteSet(LiveTransactions)
  BY <1>1, FS_Subset DEF SizeInv, IInv, QueuesAgree
<1>3. /\ transactions' \subseteq LiveTransactions \union {kept}
      /\ transactions_priority' \subseteq LivePriority \union {kept}
      /\ now' = t /\ now <= t /\ Admissible(tx, t)
  BY DEF AcceptTransaction, WithoutConflicts
<1>4. IsFiniteSet(transactions')
  BY <1>2, <1>3, AddOne, FS_Subset
<1>5. WithinMaxSize'
  <2>1. /\ IsFiniteSet(LivePriority \union {kept})
        /\ Cardinality(LivePriority \union {kept}) <= Cardinality(LivePriority) + 1
        /\ Cardinality(LivePriority) \in Nat
    BY <1>2, AddOne, Zenon
  <2>2. /\ IsFiniteSet(transactions_priority')
        /\ Cardinality(transactions_priority') <= Cardinality(LivePriority \union {kept})
    BY <1>3, <2>1, FS_Subset
  <2>3. /\ Cardinality(transactions_priority') \in Nat
        /\ Cardinality(LivePriority \union {kept}) \in Nat
    BY <2>1, <2>2, FS_CardinalityType
  <2> QED BY <1>3, <2>1, <2>2, <2>3, PoolAssumption DEF WithinMaxSize, Admissible
<1>6. kept.tx.sender = tx.sender
  BY DEF handle_conflicts, get_conflicts, has_conflict
<1>7. ASSUME NEW s \in Senders
      PROVE  Cardinality(SenderEntries(transactions', s, t)) <= RateLimit
  <2> DEFINE new == SenderEntries(transactions', s, t)
             live == SenderEntries(LiveTransactions, s, t)
             old == SenderEntries(transactions, s, now)
  <2>1. live \subseteq LiveTransactions /\ new \subseteq live \union {kept}
    BY <1>3 DEF SenderEntries
  <2>2. IsFiniteSet(live) /\ Cardinality(live) \in Nat
    BY <1>2, <2>1, FS_Subset, FS_CardinalityType
  <2>3. /\ IsFiniteSet(live \union {kept})
        /\ Cardinality(live \union {kept}) <= Cardinality(live) + 1
    BY <2>2, AddOne, Zenon
  <2>4. CASE s = tx.sender
    <3>1. IsFiniteSet(new) /\ Cardinality(new) <= Cardinality(live \union {kept})
      BY <2>1, <2>3, FS_Subset
    <3>2. Cardinality(new) \in Nat /\ Cardinality(live \union {kept}) \in Nat
      BY <2>3, <3>1, FS_CardinalityType
    <3>3. Cardinality(live) < RateLimit
      BY <1>3, <2>4 DEF Admissible
    <3> QED BY <2>2, <2>3, <3>1, <3>2, <3>3, PoolAssumption
  <2>5. CASE s # tx.sender
    <3>1. \A e \in transactions : e.ts \in Int
      BY DEF IInv, TypeOK, Entry, Time
    <3>2. now \in Int /\ t \in Int /\ TimeFrame \in Int
      BY PoolAssumption DEF IInv, TypeOK, Time
    <3>3. new \subseteq old /\ old \subseteq transactions
      BY <1>1, <1>3, <1>6, <2>5, <3>1, <3>2 DEF SenderEntries
    <3>4. IsFiniteSet(old) /\ IsFiniteSet(new) /\ Cardinality(new) <= Cardinality(old)
      BY <3>3, FS_Subset DEF SizeInv
    <3>5. Cardinality(old) \in Nat /\ Cardinality(new) \in Nat
      BY <3>4, FS_CardinalityType
    <3>6. Cardinality(old) <= RateLimit
      BY DEF SizeInv, WithinRateLimit
    <3> QED BY <3>4, <3>5, <3>6, PoolAssumption
  <2> QED BY <2>4, <2>5
<1> QED BY <1>3, <1>4, <1>5, <1>7 DEF SizeInv, WithinRateLimit

LEMMA SizeInductive == IInv /\ SizeInv /\ [Next]_vars => SizeInv'
<1> SUFFICES ASSUME IInv, SizeInv, [Next]_vars PROVE SizeInv'
  OBVIOUS
<1>0. now \in Time /\ now <= now /\ now \in Int
  BY PoolAssumption DEF IInv, TypeOK, Time
<1>1. ASSUME remove_expired_transactions
      PROVE  /\ transactions' \subseteq transactions
             /\ transactions_priority' \subseteq transactions_priority
  BY <1>1 DEF remove_expired_transactions, LiveTransactions, LivePriority
<1>2. CASE AddTransaction
  <2>1. PICK t \in Time :
            \/ RejectTransaction(t)
            \/ \E tx \in Transaction :
                  \E kept \in handle_conflicts(get_conflicts(LivePriority, tx), tx, t) :
                      AcceptTransaction(tx, t, kept)
    BY <1>2 DEF AddTransaction
  <2>2. CASE RejectTransaction(t)
    BY <1>1, <2>2, SmallerPool DEF RejectTransaction
  <2>3. CASE ~RejectTransaction(t)
    BY <2>1, <2>3, AcceptWithinLimits
  <2> QED BY <2>2, <2>3
<1>3. CASE RemoveTransaction
  <2>1. PICK tx \in Transaction : remove_transaction(tx)
    BY <1>3 DEF RemoveTransaction
  <2> QED BY <1>0, <2>1, SmallerPool DEF remove_transaction
<1>4. CASE NotProposed
  BY <1>0, <1>1, <1>4, SmallerPool DEF NotProposed
<1>5. CASE clear_transactions
  BY <1>0, <1>5, SmallerPool DEF clear_transactions
<1>6. CASE Tick
  <2>1. now' \in Time /\ now <= now'
    BY <1>0, <1>6, PoolAssumption DEF Tick, Time
  <2> QED BY <1>6, <2>1, SmallerPool DEF Tick
<1>7. CASE UNCHANGED vars
  BY <1>0, <1>7, SmallerPool DEF vars
<1> QED BY <1>2, <1>3, <1>4, <1>5, <1>6, <1>7 DEF Next, ProposeBlock

LEMMA SizeInvariant == Spec => []SizeInv
<1>1. Init => SizeInv
  <2> SUFFICES ASSUME Init PROVE SizeInv
    OBVIOUS
  <2>1. IsFiniteSet({}) /\ Cardinality({}) = 0
    BY FS_EmptySet
  <2>2. \A s \in Senders : SenderEntries(transactions, s, now) = {}
    BY DEF Init, SenderEntries
  <2> QED
    BY <2>1, <2>2, PoolAssumption DEF Init, SizeInv, WithinMaxSize, WithinRateLimit
<1> QED BY <1>1, MempoolInvariant, SizeInductive, PTL DEF Spec

\* The pool never holds more than max_size transactions, and no sender ever has
\* more than rate_limit transactions of the last time frame in it (add_transaction).
THEOREM LimitsRespected == Spec => []WithinLimits
<1>1. SizeInv => WithinLimits
  BY DEF SizeInv, WithinLimits
<1> QED BY <1>1, SizeInvariant, PTL

\* The index add_transaction falls back to is never past the end of the queue:
\* each sender record is backed by a transaction of that sender, so the queue
\* maps onto the senders.
THEOREM InsertionAlwaysInRange == Spec => []InsertionInRange
<1>1. ASSUME IInv, SizeInv PROVE InsertionInRange
  <2> DEFINE Q == transactions_priority
             S == {e.tx.sender : e \in Q}
  <2>1. IsFiniteSet(Q)
    BY <1>1 DEF SizeInv, IInv, QueuesAgree
  <2>2. IsFiniteSet(S) /\ Cardinality(S) <= Cardinality(Q)
    <3> DEFINE f == [e \in Q |-> e.tx.sender]
    <3>1. f \in Surjection(Q, S)
      BY DEF Surjection
    <3> QED BY <2>1, <3>1, FS_Surjection
  <2>3. SendersOf(records) \subseteq S
    BY <1>1 DEF SendersOf, IInv, RecordsBacked, QueuesAgree
  <2>4. /\ IsFiniteSet(SendersOf(records))
        /\ Cardinality(SendersOf(records)) <= Cardinality(S)
    BY <2>2, <2>3, FS_Subset
  <2>5. /\ Cardinality(Q) \in Nat /\ Cardinality(S) \in Nat
        /\ Cardinality(SendersOf(records)) \in Nat
    BY <2>1, <2>2, <2>4, FS_CardinalityType
  <2> QED BY <2>2, <2>4, <2>5 DEF InsertionInRange
<1> QED BY <1>1, MempoolInvariant, SizeInvariant, PTL

-----------------------------------------------------------------------------
(* Replacement by fee. *)

\* Fees and timestamps are numbers.
LEMMA EntryNumbers ==
    /\ \A tx \in Transaction : tx.fee_limit \in Nat
    /\ \A e \in Entry : e.tx.fee_limit \in Nat /\ e.ts \in Nat
<1>1. \A tx \in Transaction : tx.fee_limit \in Nat
  BY PoolAssumption DEF Transaction
<1>2. \A e \in Entry : e.tx \in Transaction /\ e.ts \in Nat
  BY DEF Entry, Time
<1> QED BY <1>1, <1>2

\* A step that only shrinks the queue replaces nothing.
LEMMA ShrinkReplacesNothing ==
    ASSUME IInv, transactions_priority' \subseteq transactions_priority,
           NEW e \in transactions_priority, NEW f \in transactions_priority',
           has_conflict(e.tx, f.tx)
    PROVE  f.tx.fee_limit >= e.tx.fee_limit /\ f.ts >= e.ts
<1>1. f = e
  BY DEF IInv, OnePerNonce
<1>2. e.tx.fee_limit \in Nat /\ e.ts \in Nat
  BY EntryNumbers DEF IInv, TypeOK
<1> QED BY <1>1, <1>2

\* The transaction accepted for a nonce pays at least as much as the live one
\* it replaces.
LEMMA AcceptPaysMore ==
    ASSUME IInv, NEW tx \in Transaction, NEW t \in Time,
           NEW kept \in handle_conflicts(get_conflicts(LivePriority, tx), tx, t),
           AcceptTransaction(tx, t, kept),
           NEW e \in transactions_priority, NEW f \in transactions_priority',
           has_conflict(e.tx, f.tx), Live(e.ts)
    PROVE  f.tx.fee_limit >= e.tx.fee_limit /\ f.ts >= e.ts
<1> DEFINE C == get_conflicts(LivePriority, tx)
<1>1. e \in LivePriority /\ e \in transactions
  BY LivePriorityAgrees DEF IInv, QueuesAgree, LiveTransactions
<1>2. \A c, d \in LivePriority : has_conflict(c.tx, d.tx) => c = d
  BY DEF IInv, OnePerNonce, LivePriority
<1>3. /\ e.tx.fee_limit \in Nat /\ e.ts \in Nat /\ e.ts <= now
      /\ tx.fee_limit \in Nat /\ t \in Nat /\ now \in Nat
  <2>1. e.ts <= now
    BY <1>1 DEF IInv, StampsPast
  <2>2. t \in Nat /\ now \in Nat
    BY DEF IInv, TypeOK, Time
  <2> QED BY <2>1, <2>2, EntryNumbers DEF IInv, TypeOK
<1>4. f \in LivePriority \/ f = kept
  BY DEF AcceptTransaction
<1>5. CASE f \in LivePriority
  <2>1. f = e
    BY <1>1, <1>2, <1>5
  <2> QED BY <1>3, <2>1
<1>6. CASE f = kept /\ f \notin LivePriority
  <2>1. kept = [tx |-> tx, ts |-> t] /\ \A c \in C : ~(tx.fee_limit < c.tx.fee_limit)
    BY <1>6 DEF handle_conflicts, get_conflicts
  <2>2. e \in C
    BY <1>1, <1>6, <2>1 DEF get_conflicts, has_conflict
  <2>3. now <= t
    BY DEF AcceptTransaction
  <2> QED BY <1>3, <1>6, <2>1, <2>2, <2>3
<1> QED BY <1>4, <1>5, <1>6

\* Replacement by fee is monotone for as long as the replaced transaction has
\* not expired.
THEOREM ReplacementAlwaysPaysMore == Spec => ReplacementPaysMore
<1> DEFINE A == \A e \in transactions_priority, f \in transactions_priority' :
                    has_conflict(e.tx, f.tx) /\ Live(e.ts)
                        => f.tx.fee_limit >= e.tx.fee_limit /\ f.ts >= e.ts
<1>1. ASSUME IInv, [Next]_vars PROVE [A]_vars
  <2>1. ASSUME remove_expired_transactions
        PROVE  transactions_priority' \subseteq transactions_priority
    BY <2>1 DEF remove_expired_transactions, LivePriority
  <2>2. CASE \E t \in Time : RejectTransaction(t)
    BY <1>1, <2>1, <2>2, ShrinkReplacesNothing DEF RejectTransaction
  <2>3. CASE \E t \in Time, tx \in Transaction :
                \E kept \in handle_conflicts(get_conflicts(LivePriority, tx), tx, t) :
                    AcceptTransaction(tx, t, kept)
    BY <1>1, <2>3, AcceptPaysMore
  <2>4. CASE RemoveTransaction
    <3>1. transactions_priority' \subseteq transactions_priority
      BY <2>4 DEF RemoveTransaction, remove_transaction
    <3> QED BY <1>1, <3>1, ShrinkReplacesNothing
  <2>5. CASE NotProposed
    BY <1>1, <2>1, <2>5, ShrinkReplacesNothing DEF NotProposed
  <2>6. CASE clear_transactions
    BY <2>6 DEF clear_transactions
  <2>7. CASE Tick
    BY <1>1, <2>7, ShrinkReplacesNothing DEF Tick
  <2> QED
    BY <1>1, <2>2, <2>3, <2>4, <2>5, <2>6, <2>7 DEF Next, AddTransaction, ProposeBlock
<1> QED BY <1>1, MempoolInvariant, PTL DEF Spec, ReplacementPaysMore

-----------------------------------------------------------------------------
(* Snapshot, for every list of tables, every list of sources, and any       *)
(* number of dumps and outages.  The properties speak of an application     *)
(* that has ended, or of every moment; SnapshotInv adds what holds while    *)
(* one is under way: nothing is touched before the signature was verified,  *)
(* the tables that are not in the rest of the list are empty while the      *)
(* list is cleared, and the dump that is loaded is the verified one.        *)

Listed == Range(AllTables)
Item == File \cup Listed

\* get_all_table_names lists tables, archive_snapshot_sources sources.
SnapshotConstants ==
    /\ AllTables \in Seq(Item) /\ Len(AllTables) > 0
    /\ Sources \in Seq(Range(Sources)) /\ Len(Sources) > 0
    /\ MaxDumps \in Nat

Dumps == Missing .. MaxDumps
ApplyPc == {"idle", "stopped", "download", "verify", "clear", "restore"}
Results == {"none", "download", "signature", "ok"}

FilesOK ==
    /\ bucket \in [Range(Sources) -> [File -> Dumps]]
    /\ archive \in [pc : {"idle", "sign", "chain_state", "upload"}, made : Dumps,
                    files : [File -> Dumps], rest : Seq(File)]
    /\ archive.pc = "upload" => Len(archive.rest) > 0
    /\ files \in [File -> Partial .. MaxDumps]

TablesOK == tables \in [Tables -> Empty .. MaxDumps]

ApplyOK ==
    /\ apply \in [pc : ApplyPc, sources : Seq(Range(Sources)), rest : Seq(Item),
                  result : Results, before : [Tables -> Empty .. MaxDumps]]
    /\ apply.pc # "idle" => apply.result = "none"
    /\ apply.pc = "download" =>
          Len(apply.sources) > 0 /\ Range(apply.rest) \subseteq File /\ Len(apply.rest) > 0
    /\ apply.pc = "clear" => Range(apply.rest) \subseteq Listed /\ Len(apply.rest) > 0

\* Nothing is touched before the signature was verified.
Untouched == apply.pc \in {"download", "verify"} => tables = apply.before

\* What is not in the rest of the list was cleared.
Cleared ==
    /\ apply.pc = "clear" => \A t \in Listed \ Range(apply.rest) : tables[t] = Empty
    /\ apply.pc = "restore" => \A t \in Listed : tables[t] = Empty

VerifiedDump == apply.pc \in {"clear", "restore"} => files.dump \in 1 .. MaxDumps

SnapshotInv ==
    /\ FilesOK /\ TablesOK /\ ApplyOK
    /\ Untouched /\ Cleared /\ VerifiedDump
    /\ RefusedChangesNothing /\ RestoredFromOneDump /\ NoMixture

-----------------------------------------------------------------------------
LEMMA TailRange ==
    ASSUME NEW S, NEW s \in Seq(S), Len(s) > 0
    PROVE  /\ Head(s) \in S /\ Tail(s) \in Seq(S)
           /\ Range(s) = {Head(s)} \cup Range(Tail(s))
           /\ Len(s) = 1 => Range(s) = {Head(s)}
           /\ Len(s) # 1 => Len(Tail(s)) > 0
<1>0. s # << >> /\ Len(s) \in Nat
  BY EmptySeq, LenProperties
<1>1. Head(s) \in S /\ Tail(s) \in Seq(S) /\ Len(s) \in Nat /\ Len(Tail(s)) = Len(s) - 1
  BY <1>0, HeadTailProperties
<1>2. DOMAIN s = 1 .. Len(s) /\ DOMAIN Tail(s) = 1 .. Len(s) - 1
  BY <1>1, LenProperties
<1>3. \A i \in 1 .. Len(s) - 1 : Tail(s)[i] = s[i + 1]
  BY <1>0, <1>1, HeadTailProperties
<1>4. ASSUME NEW i \in 1 .. Len(s) PROVE s[i] \in {Head(s)} \cup Range(Tail(s))
  <2>1. CASE i = 1
    BY <2>1
  <2>2. CASE i # 1
    <3>1. i - 1 \in 1 .. Len(s) - 1 /\ s[i] = Tail(s)[i - 1]
      BY <1>1, <1>3, <2>2
    <3> QED BY <3>1, <1>2 DEF Range
  <2> QED BY <2>1, <2>2
<1>5. ASSUME NEW i \in 1 .. Len(s) - 1 PROVE Tail(s)[i] \in Range(s)
  BY <1>1, <1>2, <1>3 DEF Range
<1>6. Head(s) \in Range(s)
  BY <1>1, <1>2 DEF Range
<1>7. Range(s) = {Head(s)} \cup Range(Tail(s))
  BY <1>2, <1>4, <1>5, <1>6 DEF Range
<1>8. Len(s) = 1 => Range(s) = {Head(s)}
  BY <1>2 DEF Range
<1>9. Len(s) # 1 => Len(Tail(s)) > 0
  BY <1>1
<1> QED BY <1>1, <1>7, <1>8, <1>9

UploadOrder == <<"dump", "signature", "chain_state">>

LEMMA UploadOrderIsSeq == UploadOrder \in Seq(File) /\ Len(UploadOrder) > 0
<1>1. "dump" \in File /\ "signature" \in File /\ "chain_state" \in File
  BY DEF File
<1> QED BY <1>1 DEF UploadOrder

LEMMA SnapshotFiles ==
    snapshot_files \in Seq(Item) /\ Range(snapshot_files) \subseteq File /\ Len(snapshot_files) > 0
<1>1. "signature" \in File /\ "dump" \in File /\ File \subseteq Item
  BY DEF File, Item
<1>2. snapshot_files \in Seq(Item) /\ Len(snapshot_files) = 2
  BY <1>1 DEF snapshot_files
<1>3. Range(snapshot_files) \subseteq File
  BY <1>1 DEF snapshot_files, Range
<1> QED BY <1>2, <1>3

LEMMA SnapshotInitHolds == ASSUME SnapshotConstants, SnapshotInit PROVE SnapshotInv
<1>1. FilesOK
  BY DEF SnapshotConstants, SnapshotInit, FilesOK, NoFiles, Missing, Partial, Dumps, File
<1>2. TablesOK
  BY DEF SnapshotConstants, SnapshotInit, TablesOK, Own, Empty
<1>3. ApplyOK /\ Untouched /\ Cleared /\ VerifiedDump
  <2>1. << >> \in Seq(Item) /\ << >> \in Seq(Range(Sources))
    BY EmptySeq
  <2> QED BY <1>2, <2>1 DEF SnapshotInit, ApplyOK, Untouched, Cleared, VerifiedDump, ApplyPc, Results, TablesOK
<1>4. RefusedChangesNothing /\ RestoredFromOneDump
  BY DEF SnapshotInit, RefusedChangesNothing, RestoredFromOneDump
<1>5. \A t \in Listed : tables[t] \in {Own, Empty}
  BY DEF SnapshotInit, Listed, Tables
<1>6. NoMixture
  BY <1>5 DEF NoMixture, Listed, Own, Empty
<1> QED BY <1>1, <1>2, <1>3, <1>4, <1>6 DEF SnapshotInv

-----------------------------------------------------------------------------
\* The steps of the archive node and of the mirrors touch only the files.
LEMMA ArchiveSteps ==
    ASSUME SnapshotConstants, SnapshotInv,
           \/ pg_dump \/ create_and_sign_db_dump_hash \/ create_chain_state_file
           \/ upload_files_to_s3 \/ setup_and_upload_files_to_s3 \/ Mirror
    PROVE  SnapshotInv'
<1>1. UNCHANGED <<files, tables, apply>>
  BY DEF pg_dump, create_and_sign_db_dump_hash, create_chain_state_file, upload_files_to_s3,
         setup_and_upload_files_to_s3, Mirror
<1>2. FilesOK'
  <2>0. FilesOK /\ MaxDumps \in Nat
    BY DEF SnapshotInv, SnapshotConstants
  <2>1. CASE pg_dump
    <3>1. /\ archive' = [pc |-> "sign", made |-> archive.made + 1, rest |-> archive.rest,
                         files |-> [archive.files EXCEPT !["dump"] = archive.made + 1]]
          /\ UNCHANGED <<bucket, files>>
      BY <2>0, <2>1 DEF pg_dump, FilesOK
    <3>2. archive.made + 1 \in Dumps
      BY <2>0, <2>1 DEF pg_dump, FilesOK, Dumps, Missing
    <3>3. archive'.files \in [File -> Dumps] /\ archive'.pc # "upload"
      BY <2>0, <3>1, <3>2 DEF FilesOK, File
    <3> QED BY <2>0, <3>1, <3>2, <3>3 DEF FilesOK
  <2>2. CASE create_and_sign_db_dump_hash
    <3>1. /\ archive' = [pc |-> "chain_state", made |-> archive.made, rest |-> archive.rest,
                         files |-> [archive.files EXCEPT !["signature"] = archive.files["dump"]]]
          /\ UNCHANGED <<bucket, files>>
      BY <2>0, <2>2 DEF create_and_sign_db_dump_hash, FilesOK
    <3>2. archive'.files \in [File -> Dumps] /\ archive'.pc # "upload"
      BY <2>0, <3>1 DEF FilesOK, File
    <3> QED BY <2>0, <3>1, <3>2 DEF FilesOK
  <2>3. CASE create_chain_state_file
    <3>1. /\ archive' = [pc |-> "upload", made |-> archive.made, rest |-> UploadOrder,
                         files |-> [archive.files EXCEPT !["chain_state"] = archive.files["dump"]]]
          /\ UNCHANGED <<bucket, files>>
      BY <2>0, <2>3 DEF create_chain_state_file, FilesOK, UploadOrder
    <3>2. archive'.files \in [File -> Dumps]
      BY <2>0, <3>1 DEF FilesOK, File
    <3> QED BY <2>0, <3>1, <3>2, UploadOrderIsSeq DEF FilesOK
  <2>4. CASE upload_files_to_s3
    <3>1. /\ archive.rest \in Seq(File) /\ Len(archive.rest) > 0
          /\ Head(archive.rest) \in File /\ Tail(archive.rest) \in Seq(File)
          /\ Len(archive.rest) # 1 => Len(Tail(archive.rest)) > 0
      BY <2>0, <2>4, TailRange DEF upload_files_to_s3, FilesOK
    <3>2. Head(Sources) \in Range(Sources)
      BY TailRange DEF SnapshotConstants
    <3> QED BY <2>0, <2>4, <3>1, <3>2 DEF upload_files_to_s3, FilesOK
  <2>5. CASE setup_and_upload_files_to_s3
    <3>1. /\ archive' \in {[archive EXCEPT !.rest = UploadOrder],
                           [archive EXCEPT !.pc = "idle", !.rest = << >>]}
          /\ UNCHANGED <<bucket, files>>
      BY <2>5 DEF setup_and_upload_files_to_s3, UploadOrder
    <3>2. CASE archive' = [archive EXCEPT !.rest = UploadOrder]
      BY <2>0, <3>1, <3>2, UploadOrderIsSeq DEF FilesOK
    <3>3. CASE archive' = [archive EXCEPT !.pc = "idle", !.rest = << >>]
      <4>1. << >> \in Seq(File)
        BY EmptySeq
      <4> QED BY <2>0, <3>1, <3>3, <4>1 DEF FilesOK
    <3> QED BY <3>1, <3>2, <3>3
  <2>6. CASE Mirror
    <3>1. Head(Sources) \in Range(Sources)
      BY TailRange DEF SnapshotConstants
    <3>2. /\ UNCHANGED <<archive, files>>
          /\ \E s \in Range(Sources), f \in File :
                bucket' = [bucket EXCEPT ![s][f] = bucket[Head(Sources)][f]]
      BY <2>6 DEF Mirror
    <3>3. bucket \in [Range(Sources) -> [File -> Dumps]]
      BY DEF SnapshotInv, FilesOK
    <3>4. bucket' \in [Range(Sources) -> [File -> Dumps]]
      BY <3>1, <3>2, <3>3
    <3> QED BY <2>0, <3>2, <3>4 DEF FilesOK
  <2> QED BY <2>1, <2>2, <2>3, <2>4, <2>5, <2>6
<1> QED
  BY <1>1, <1>2 DEF SnapshotInv, TablesOK, ApplyOK, Untouched, Cleared, VerifiedDump,
     RefusedChangesNothing, RestoredFromOneDump, NoMixture

\* Up to the check of the signature the tables stay as they were.
LEMMA DownloadSteps ==
    ASSUME SnapshotConstants, SnapshotInv,
           ApplyDump \/ download_file \/ download_fails \/ CheckSignature \/ Stop
    PROVE  SnapshotInv'
<1>1. UNCHANGED <<bucket, archive, tables>>
  BY DEF ApplyDump, download_file, download_fails, CheckSignature, Stop
<1>2. FilesOK'
  <2>0. FilesOK /\ ApplyOK /\ MaxDumps \in Nat
    BY DEF SnapshotInv, SnapshotConstants
  <2>1. CASE UNCHANGED files
    BY <1>1, <2>0, <2>1 DEF FilesOK
  <2>2. CASE download_file
    <3>1. Head(apply.sources) \in Range(Sources) /\ Head(apply.rest) \in File
      BY <2>0, <2>2, TailRange DEF download_file, ApplyOK
    <3>2. bucket[Head(apply.sources)][Head(apply.rest)] \in Partial .. MaxDumps
      BY <2>0, <3>1 DEF FilesOK, Dumps, Missing, Partial
    <3> QED BY <1>1, <2>0, <2>2, <3>1, <3>2 DEF download_file, FilesOK
  <2>3. CASE download_fails
    <3>1. Head(apply.rest) \in File
      BY <2>0, <2>3, TailRange DEF download_fails, ApplyOK
    <3>2. Partial \in Partial .. MaxDumps
      BY <2>0 DEF Partial
    <3> QED BY <1>1, <2>0, <2>3, <3>1, <3>2 DEF download_fails, FilesOK
  <2> QED BY <2>1, <2>2, <2>3 DEF ApplyDump, CheckSignature, Stop
<1>3. ApplyOK'
  <2>0. ApplyOK
    BY DEF SnapshotInv
  <2>1. CASE ApplyDump
    <3>1. snapshot_files \in Seq(Item) /\ Range(snapshot_files) \subseteq File /\ Len(snapshot_files) > 0
      BY SnapshotFiles
    <3>2. tables \in [Tables -> Empty .. MaxDumps]
      BY DEF SnapshotInv, TablesOK
    <3> QED BY <2>1, <3>1, <3>2 DEF ApplyDump, ApplyOK, ApplyPc, Results, SnapshotConstants
  <2>2. CASE download_file
    <3>1. /\ apply.pc = "download"
          /\ Tail(apply.rest) \in Seq(Item) /\ Range(Tail(apply.rest)) \subseteq File
          /\ Len(apply.rest) # 1 => Len(Tail(apply.rest)) > 0
      BY <2>0, <2>2, TailRange DEF download_file, ApplyOK
    <3>2. << >> \in Seq(Item)
      BY EmptySeq
    <3>3. CASE Len(apply.rest) = 1
      BY <2>0, <2>2, <3>1, <3>2, <3>3 DEF download_file, NextFile, ApplyOK, ApplyPc
    <3>4. CASE Len(apply.rest) # 1
      BY <2>0, <2>2, <3>1, <3>4 DEF download_file, NextFile, ApplyOK
    <3> QED BY <3>3, <3>4
  <2>3. CASE download_fails
    <3>1. /\ apply.pc = "download"
          /\ Tail(apply.sources) \in Seq(Range(Sources))
          /\ Len(apply.sources) # 1 => Len(Tail(apply.sources)) > 0
      BY <2>0, <2>3, TailRange DEF download_fails, ApplyOK
    <3>2. snapshot_files \in Seq(Item) /\ Range(snapshot_files) \subseteq File /\ Len(snapshot_files) > 0
      BY SnapshotFiles
    <3>3. CASE Len(apply.sources) = 1
      BY <2>0, <2>3, <3>1, <3>3 DEF download_fails, NextSource, Finish, ApplyOK, ApplyPc, Results
    <3>4. CASE Len(apply.sources) # 1
      BY <2>0, <2>3, <3>1, <3>2, <3>4 DEF download_fails, NextSource, ApplyOK
    <3> QED BY <3>3, <3>4
  <2>4. CASE CheckSignature
    BY <2>0, <2>4 DEF CheckSignature, Finish, ApplyOK, ApplyPc, Results, SnapshotConstants, Listed
  <2>5. CASE Stop
    BY <2>0, <2>5 DEF Stop, ApplyOK, ApplyPc, Results
  <2> QED BY <2>1, <2>2, <2>3, <2>4, <2>5
<1>4. Untouched' /\ Cleared' /\ VerifiedDump'
  <2>0. ApplyOK /\ Untouched /\ Cleared /\ VerifiedDump
    BY DEF SnapshotInv
  <2>1. CASE ApplyDump
    BY <1>1, <2>1 DEF ApplyDump, Untouched, Cleared, VerifiedDump
  <2>2. CASE download_file \/ download_fails
    <3>1. apply.pc = "download" /\ apply'.pc \in {"download", "verify", "idle"}
      BY <2>0, <2>2 DEF ApplyOK, download_file, download_fails, NextFile, NextSource, Finish
    <3>2. apply'.before = apply.before
      BY <2>0, <2>2 DEF ApplyOK, download_file, download_fails, NextFile, NextSource, Finish
    <3> QED BY <1>1, <2>0, <3>1, <3>2 DEF Untouched, Cleared, VerifiedDump
  <2>3. CASE CheckSignature
    <3>1. CASE ~ verify_signature
      BY <2>0, <2>3, <3>1 DEF ApplyOK, CheckSignature, Finish, Untouched, Cleared, VerifiedDump
    <3>2. CASE verify_signature
      <4>1. apply'.pc = "clear" /\ apply'.rest = AllTables /\ UNCHANGED files
        BY <2>0, <2>3, <3>2 DEF ApplyOK, CheckSignature
      <4>2. files.dump \in 1 .. MaxDumps
        BY <3>2 DEF verify_signature, SnapshotInv, FilesOK, File, Partial, SnapshotConstants
      <4> QED BY <4>1, <4>2 DEF Untouched, Cleared, VerifiedDump, Listed
    <3> QED BY <3>1, <3>2
  <2>4. CASE Stop
    BY <2>0, <2>4 DEF ApplyOK, Stop, Untouched, Cleared, VerifiedDump
  <2> QED BY <2>1, <2>2, <2>3, <2>4
<1>7. RefusedChangesNothing' /\ RestoredFromOneDump'
  <2>1. CASE ApplyDump \/ Stop
    BY <1>1, <2>1 DEF SnapshotInv, ApplyOK, ApplyDump, Stop, RefusedChangesNothing, RestoredFromOneDump
  <2>2. CASE download_file \/ download_fails \/ CheckSignature
    BY <1>1, <2>2 DEF SnapshotInv, ApplyOK, Untouched, download_file, download_fails, CheckSignature,
       NextFile, NextSource, Finish, RefusedChangesNothing, RestoredFromOneDump
  <2> QED BY <2>1, <2>2
<1>8. TablesOK' /\ NoMixture'
  BY <1>1 DEF SnapshotInv, TablesOK, NoMixture
<1> QED BY <1>2, <1>3, <1>4, <1>7, <1>8 DEF SnapshotInv

\* One table is cleared, or all listed ones are loaded from the verified dump.
LEMMA RestoreSteps ==
    ASSUME SnapshotConstants, SnapshotInv, delete_table \/ restore_db \/ restore_db_warns
    PROVE  SnapshotInv'
<1>0. FilesOK /\ FilesOK' /\ MaxDumps \in Nat /\ TablesOK /\ ApplyOK
  BY DEF SnapshotInv, SnapshotConstants, FilesOK, delete_table, restore_db, restore_db_warns
<1>1. CASE delete_table
  <2> DEFINE h == Head(apply.rest)
  <2>1. /\ apply.pc = "clear" /\ apply.rest \in Seq(Item) /\ Len(apply.rest) > 0
        /\ h \in Listed /\ Tail(apply.rest) \in Seq(Item)
        /\ Range(Tail(apply.rest)) \subseteq Listed
        /\ Range(apply.rest) = {h} \cup Range(Tail(apply.rest))
        /\ Len(apply.rest) = 1 => Range(apply.rest) = {h}
        /\ Len(apply.rest) # 1 => Len(Tail(apply.rest)) > 0
    BY <1>0, <1>1, TailRange DEF delete_table, ApplyOK
  <2>2. Listed \subseteq Tables /\ tables' = [tables EXCEPT ![h] = Empty]
    BY <1>1 DEF Listed, Tables, delete_table
  <2> HIDE DEF h
  <2>3. TablesOK'
    BY <1>0, <2>1, <2>2 DEF TablesOK, Empty
  <2>4. \A t \in Listed : tables'[t] \in {tables[t], Empty} /\ tables'[h] = Empty
    BY <1>0, <2>1, <2>2 DEF TablesOK
  <2>5. ApplyOK' /\ Untouched' /\ VerifiedDump'
    BY <1>0, <1>1, <2>1 DEF SnapshotInv, delete_table, ApplyOK, ApplyPc, Results, Untouched, VerifiedDump
  <2>6. Cleared'
    BY <1>0, <1>1, <2>1, <2>4 DEF SnapshotInv, Cleared, delete_table, ApplyOK, h
  <2>7. RefusedChangesNothing' /\ RestoredFromOneDump'
    BY <1>0, <1>1, <2>1 DEF ApplyOK, delete_table, RefusedChangesNothing, RestoredFromOneDump
  <2>8. NoMixture'
    BY <1>0, <2>4 DEF SnapshotInv, NoMixture, Listed, Empty, Own
  <2> QED BY <1>0, <2>3, <2>5, <2>6, <2>7, <2>8 DEF SnapshotInv
<1>2. CASE restore_db \/ restore_db_warns
  <2>1. PICK set : tables' = Loaded(set)
    BY <1>2 DEF restore_db, restore_db_warns
  <2>2. /\ apply.pc = "restore" /\ apply' = [apply EXCEPT !.pc = "idle", !.result = "ok"]
        /\ files.dump \in 1 .. MaxDumps /\ \A t \in Listed : tables[t] = Empty
    BY <1>2 DEF SnapshotInv, restore_db, restore_db_warns, Finish, Cleared, VerifiedDump
  <2>3. TablesOK'
    BY <1>0, <2>1, <2>2 DEF Loaded, TablesOK, Empty
  <2>4. \A t \in Listed : tables'[t] \in {Empty, files.dump}
    BY <2>1, <2>2 DEF Loaded, Listed, Tables
  <2>5. ApplyOK' /\ Untouched' /\ Cleared' /\ VerifiedDump' /\ RefusedChangesNothing'
    BY <1>0, <2>2 DEF ApplyOK, ApplyPc, Results, Untouched, Cleared, VerifiedDump,
       RefusedChangesNothing
  <2>6. RestoredFromOneDump'
    BY <2>2, <2>4 DEF RestoredFromOneDump, Listed
  <2>7. NoMixture'
    BY <2>2, <2>4 DEF NoMixture, Listed, Empty, Own
  <2> QED BY <1>0, <2>3, <2>5, <2>6, <2>7 DEF SnapshotInv
<1> QED BY <1>1, <1>2

LEMMA SnapshotNextHolds == ASSUME SnapshotConstants, SnapshotInv, [SnapshotNext]_snapshotVars PROVE SnapshotInv'
<1>1. CASE UNCHANGED snapshotVars
  BY <1>1 DEF snapshotVars, SnapshotInv, FilesOK, TablesOK, ApplyOK, Untouched, Cleared, VerifiedDump,
     RefusedChangesNothing, RestoredFromOneDump, NoMixture
<1> QED BY <1>1, ArchiveSteps, DownloadSteps, RestoreSteps DEF SnapshotNext

\* The assumption on the constants is what the lemmas use.
LEMMA SnapshotConstantsHold == SnapshotConstants
<1>1. AllTables \in Seq(Listed) /\ Len(AllTables) \in Nat /\ Len(AllTables) # 0
  BY SnapshotAssumption, EmptySeq, LenProperties DEF Listed
<1>2. Sources \in Seq(Range(Sources)) /\ Len(Sources) \in Nat /\ Len(Sources) # 0
  BY SnapshotAssumption, EmptySeq, LenProperties
<1>3. AllTables \in Seq(Item)
  <2>1. AllTables \in [1 .. Len(AllTables) -> Item]
    BY <1>1, LenProperties DEF Item
  <2> QED BY <1>1, <2>1, SeqDef
<1> QED BY <1>1, <1>2, <1>3, SnapshotAssumption DEF SnapshotConstants

\* apply_db_dump (node/src/sync.rs) leaves the tables alone when it is refused,
\* whatever the sources served and wherever an earlier attempt was stopped; when
\* it reports success, every listed table is empty or from one dump, whose
\* signature was verified; and rows of a dump and own rows are never together in
\* the listed tables.
THEOREM SnapshotsAreSafe == SnapshotSpec => []SnapshotSafe
<1>1. SnapshotInit => SnapshotInv
  BY SnapshotConstantsHold, SnapshotInitHolds
<1>2. SnapshotInv /\ [SnapshotNext]_snapshotVars => SnapshotInv'
  BY SnapshotConstantsHold, SnapshotNextHolds
<1>3. SnapshotInv => SnapshotSafe
  BY DEF SnapshotInv, SnapshotSafe
<1> QED BY <1>1, <1>2, <1>3, PTL DEF SnapshotSpec
=============================================================================
