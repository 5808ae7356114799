----------------------------- MODULE SyncProofs -----------------------------
(***************************************************************************)
(* HeadCovered and SyncInOrder for every chain, batch size and number of   *)
(* calls of sync_node, with crashes and failed requests: the tasks that    *)
(* execute, the running node, and the theorems.                            *)
(***************************************************************************)
EXTENDS SyncCalls

LEMMA SameFlags == \A meta : FlagsKept(meta, meta)
BY DEF FlagsKept

LEMMA ReceiveHolds ==
    ASSUME IInv, NEW i \in DOMAIN syncs, ReceiveBatch(i)
    PROVE  IInv'
<1>1. syncs \in Seq(SyncCall) /\ syncs[i] \in SyncCall /\ Follows(syncs[i], db.header)
      /\ db \in Database /\ db' = db /\ HeadCovered'
  BY DEF IInv, TypeOK, Follow, SyncsFollow, ReceiveBatch, HeadCovered
<1>2. CASE /\ syncs[i].channel # << >>
           /\ syncs' = [syncs EXCEPT ![i].store = [pc |-> "meta", batch |-> Head(syncs[i].channel)],
                                     ![i].channel = Tail(@)]
  <2> DEFINE t == [channel |-> Tail(syncs[i].channel), open |-> syncs[i].open,
                   store |-> [pc |-> "meta", batch |-> Head(syncs[i].channel)],
                   execute |-> syncs[i].execute, last |-> syncs[i].last]
  <2>1. syncs[i].channel \in Seq(SUBSET Blocks) /\ Len(syncs[i].channel) > 0
    BY <1>1, <1>2, EmptySeq, LenProperties DEF SyncCall
  <2>2. Head(syncs[i].channel) \in SUBSET Blocks /\ Tail(syncs[i].channel) \in Seq(SUBSET Blocks)
    BY <1>2, <2>1, HeadTailProperties
  <2>3. t \in SyncCall
    BY <1>1, <2>2 DEF SyncCall, StorePc
  <2>4. syncs' = [syncs EXCEPT ![i] = t]
    <3> DEFINE taken == [pc |-> "meta", batch |-> Head(syncs[i].channel)]
    <3> HIDE DEF taken
    <3>1. syncs' = [syncs EXCEPT ![i].store = taken, ![i].channel = Tail(@)]
      BY <1>2 DEF taken
    <3>2. DOMAIN syncs' = DOMAIN syncs /\ \A j \in DOMAIN syncs : j # i => syncs'[j] = syncs[j]
      BY <3>1
    <3>3. syncs'[i] = [[syncs[i] EXCEPT !.store = taken] EXCEPT !.channel = Tail(@)]
      BY <3>1
    <3>4. syncs'[i] = t
      BY <1>1, <3>3 DEF SyncCall, taken
    <3> QED BY <1>1, <3>1, <3>2, <3>4
  <2>5. syncs[i].store.pc = "recv"
    BY DEF ReceiveBatch
  <2>6. t.execute = syncs[i].execute /\ t.channel = Tail(syncs[i].channel)
        /\ t.store = [pc |-> "meta", batch |-> Head(syncs[i].channel)]
    OBVIOUS
  <2> HIDE DEF t
  <2>7. Follows(t, db.header) /\ ReachedAll(syncs[i], db.header) \subseteq ReachedAll(t, db.header)
    BY <1>1, <2>1, <2>3, <2>5, <2>6, ReceiveFollows
  <2> QED BY <1>1, <2>3, <2>4, <2>6, <2>7, StoreTaskHolds, SameFlags DEF ReceiveBatch
<1>3. CASE SetStore(i, [pc |-> "done", batch |-> {}])
  <2> DEFINE t == [syncs[i] EXCEPT !.store = [pc |-> "done", batch |-> {}]]
  <2>1. /\ t \in SyncCall /\ t.store = [pc |-> "done", batch |-> {}]
        /\ t.channel = syncs[i].channel /\ t.execute = syncs[i].execute
    BY <1>1 DEF SyncCall, StorePc
  <2>2. syncs' = [syncs EXCEPT ![i] = t]
    BY <1>3 DEF SetStore
  <2>3. syncs[i].store.batch = {} /\ NumbersOf({}) = {}
    BY <1>1 DEF ReceiveBatch, Follows, StoreFollows, NumbersOf
  <2> HIDE DEF t
  <2>4. /\ BatchesFollow(t, db.header)
        /\ ReachedAll(syncs[i], db.header) \subseteq ReachedAll(t, db.header)
    BY <1>1, <2>1, <2>3, StoredKeepsBatches DEF Follows
  <2>5. Follows(t, db.header)
    BY <2>1, <2>4 DEF Follows, StoreFollows
  <2> QED BY <1>1, <2>1, <2>2, <2>4, <2>5, StoreTaskHolds, SameFlags DEF ReceiveBatch
<1> QED BY <1>2, <1>3 DEF ReceiveBatch

\* The statement on block_meta_info sets no flag and clears none.
LEMMA MetaStatement ==
    ASSUME NEW d \in Database, NEW numbers \in SUBSET Int, NEW e,
           e = [d EXCEPT !.meta = [n \in DOMAIN @ \cup numbers |->
                                     IF n \in DOMAIN @ THEN @[n] ELSE FALSE]]
    PROVE  /\ e \in Database /\ e.header = d.header /\ e.head = d.head
           /\ FlagsKept(d.meta, e.meta)
<1> DEFINE m == d.meta
           f == [n \in DOMAIN m \cup numbers |-> IF n \in DOMAIN m THEN m[n] ELSE FALSE]
<1>1. PICK D \in SUBSET Int : m \in [D -> BOOLEAN]
  BY DEF Database, Flags
<1>2. f \in [D \cup numbers -> BOOLEAN] /\ D \cup numbers \in SUBSET Int
  BY <1>1
<1>3. f \in Flags
  BY <1>2 DEF Flags
<1>4. FlagsKept(m, f)
  BY DEF FlagsKept, Flagged
<1>5. e = [d EXCEPT !.meta = f]
  OBVIOUS
<1> HIDE DEF f
<1>6. e \in Database /\ e.header = d.header /\ e.head = d.head /\ e.meta = f
  BY <1>3, <1>5 DEF Database
<1> QED BY <1>4, <1>6

LEMMA NumbersAreInts ==
    ASSUME NEW b \in SUBSET Blocks
    PROVE  NumbersOf(b) \in SUBSET Int
BY DEF NumbersOf, Blocks

LEMMA StoreHolds ==
    ASSUME IInv, NEW i \in DOMAIN syncs, StoreBatch(i)
    PROVE  IInv'
<1> DEFINE s == syncs[i]
           b == s.store.batch
           H == db.header
           t(u) == [s EXCEPT !.store = u]
           Stored == [pc : StorePc, batch : SUBSET Blocks]
<1>1. s \in SyncCall /\ Follows(s, H) /\ db \in Database /\ HeadCovered
      /\ s.store \in Stored /\ b \in SUBSET Blocks /\ NumbersOf(b) \in SUBSET Int
  <2>1. s \in SyncCall /\ Follows(s, H) /\ db \in Database /\ HeadCovered
    BY DEF IInv, TypeOK, Follow, SyncsFollow
  <2>2. s.store \in Stored /\ b \in SUBSET Blocks
    BY <2>1 DEF SyncCall
  <2> QED BY <2>1, <2>2, NumbersAreInts
<1>2. ASSUME NEW u \in Stored
      PROVE  /\ t(u) \in SyncCall /\ t(u).store = u
             /\ t(u).channel = s.channel /\ t(u).execute = s.execute
  BY <1>1 DEF SyncCall
<1>3. ASSUME NEW u \in Stored, SetStore(i, u), db' \in Database, H \subseteq db'.header,
             FlagsKept(db.meta, db'.meta), HeadCovered', StoreFollows(t(u), db'.header),
             NumbersOf(b) \subseteq db'.header \cup NumbersOf(u.batch)
      PROVE  IInv'
  <2>1. /\ t(u) \in SyncCall /\ t(u).store = u /\ t(u).channel = s.channel
        /\ t(u).execute = s.execute
    BY <1>2, <1>3
  <2>2. syncs' = [syncs EXCEPT ![i] = t(u)]
    BY <1>3 DEF SetStore
  <2> HIDE DEF t, s
  <2>3. BatchesFollow(t(u), db'.header) /\ ReachedAll(s, H) \subseteq ReachedAll(t(u), db'.header)
    BY <1>1, <1>3, <2>1, StoredKeepsBatches DEF Follows
  <2>4. Follows(t(u), db'.header)
    BY <1>3, <2>3 DEF Follows
  <2>5. UNCHANGED <<remote, main, live>>
    BY DEF StoreBatch
  <2> QED BY <1>3, <2>1, <2>2, <2>3, <2>4, <2>5, StoreTaskHolds DEF s
<1>4. CASE /\ s.store.pc = "vote_result" /\ UNCHANGED db
           /\ SetStore(i, [pc |-> "failed", batch |-> {}])
  <2> DEFINE u == [pc |-> "failed", batch |-> {}]
  <2>1. u \in Stored /\ t(u).store = u
    BY <1>1, <1>2 DEF StorePc
  <2>2. StoreFollows(t(u), H) /\ NumbersOf(b) \subseteq H
    BY <1>1, <1>4, <2>1 DEF Follows, StoreFollows
  <2>3. HeadCovered'
    BY <1>1, <1>4 DEF HeadCovered
  <2> HIDE DEF t
  <2> QED BY <1>1, <1>3, <1>4, <2>1, <2>2, <2>3, SameFlags
<1>5. CASE /\ s.store.pc \in {"meta", "header", "head", "vote_result", "validator"}
           /\ db' = Statement(s.store.pc, b)
           /\ SetStore(i, IF s.store.pc # "validator"
                          THEN [s.store EXCEPT !.pc = NextStatement(s.store.pc)]
                          ELSE [pc |-> IF LastOf(b) = s.last THEN "done" ELSE "recv",
                                batch |-> {}])
  <2>1. CASE s.store.pc = "meta"
    <3> DEFINE u == [pc |-> "header", batch |-> b]
    <3>1. u \in Stored /\ SetStore(i, u)
      BY <1>1, <1>5, <2>1 DEF StorePc, NextStatement
    <3>2. t(u).store = u
      BY <1>2, <3>1
    <3>3. db' = [db EXCEPT !.meta = [n \in DOMAIN @ \cup NumbersOf(b) |->
                                       IF n \in DOMAIN @ THEN @[n] ELSE FALSE]]
      BY <1>5, <2>1 DEF Statement
    <3>4. db' \in Database /\ db'.header = H /\ db'.head = db.head /\ FlagsKept(db.meta, db'.meta)
      BY <1>1, <3>3, MetaStatement
    <3>5. HeadCovered'
      BY <1>1, <3>4 DEF HeadCovered
    <3>6. StoreFollows(t(u), H)
      BY <1>1, <2>1, <3>2 DEF Follows, StoreFollows
    <3> HIDE DEF t
    <3> QED BY <1>3, <3>1, <3>4, <3>5, <3>6
  <2>2. CASE s.store.pc = "header"
    <3> DEFINE u == [pc |-> "head", batch |-> b]
    <3>1. u \in Stored /\ SetStore(i, u)
      BY <1>1, <1>5, <2>2 DEF StorePc, NextStatement
    <3>2. t(u).store = u
      BY <1>2, <3>1
    <3>3. db' = [db EXCEPT !.header = @ \cup NumbersOf(b)]
      BY <1>5, <2>2 DEF Statement
    <3>4. db' \in Database /\ db'.header = H \cup NumbersOf(b) /\ db'.head = db.head
          /\ db'.meta = db.meta
      BY <1>1, <3>3 DEF Database
    <3>5. HeadCovered'
      BY <1>1, <3>4 DEF HeadCovered
    <3>6. StoreFollows(t(u), db'.header)
      BY <1>1, <2>2, <3>2, <3>4 DEF Follows, StoreFollows
    <3> HIDE DEF t
    <3> QED BY <1>3, <3>1, <3>4, <3>5, <3>6, SameFlags
  <2>3. CASE s.store.pc = "head"
    <3> DEFINE u == [pc |-> "vote_result", batch |-> b]
    <3>1. u \in Stored /\ SetStore(i, u)
      BY <1>1, <1>5, <2>3 DEF StorePc, NextStatement
    <3>2. t(u).store = u
      BY <1>2, <3>1
    <3>3. PICK hi \in Int : Ends(b, hi) /\ 1 .. hi \subseteq H
      BY <1>1, <2>3 DEF Follows, StoreFollows
    <3>4. db' = [db EXCEPT !.head = hi]
      BY <1>1, <1>5, <2>3, <3>3, MaxIsEnd DEF Statement
    <3>5. db' \in Database /\ db'.header = H /\ db'.head = hi /\ db'.meta = db.meta
      BY <1>1, <3>4 DEF Database
    <3>6. HeadCovered'
      BY <3>3, <3>5 DEF HeadCovered
    <3>7. StoreFollows(t(u), H)
      BY <1>1, <2>3, <3>2 DEF Follows, StoreFollows
    <3> HIDE DEF t
    <3> QED BY <1>3, <3>1, <3>5, <3>6, <3>7, SameFlags
  <2>4. CASE s.store.pc = "vote_result"
    <3> DEFINE u == [pc |-> "validator", batch |-> b]
    <3>1. u \in Stored /\ SetStore(i, u)
      BY <1>1, <1>5, <2>4 DEF StorePc, NextStatement
    <3>2. t(u).store = u
      BY <1>2, <3>1
    <3>3. db' = [db EXCEPT !.vote_result = @ \cup NumbersOf(b)]
      BY <1>5, <2>4 DEF Statement
    <3>4. db' \in Database /\ db'.header = H /\ db'.head = db.head /\ db'.meta = db.meta
      BY <1>1, <3>3 DEF Database
    <3>5. HeadCovered'
      BY <1>1, <3>4 DEF HeadCovered
    <3>6. StoreFollows(t(u), H)
      BY <1>1, <2>4, <3>2 DEF Follows, StoreFollows
    <3> HIDE DEF t
    <3> QED BY <1>3, <3>1, <3>4, <3>5, <3>6, SameFlags
  <2>5. CASE s.store.pc = "validator"
    <3> DEFINE u == [pc |-> IF LastOf(b) = s.last THEN "done" ELSE "recv", batch |-> {}]
               epochs == {calculate_current_epoch(x.number) : x \in {x \in b : x.validators}}
    <3>1. u \in Stored /\ SetStore(i, u) /\ u.pc \in {"done", "recv"} /\ u.batch = {}
      BY <1>1, <1>5, <2>5 DEF StorePc
    <3> HIDE DEF u
    <3>2. t(u).store = u
      BY <1>2, <3>1
    <3>3. epochs \in SUBSET Int
      BY <1>1, SyncAssumption DEF calculate_current_epoch, Blocks
    <3>4. db' = [db EXCEPT !.validator = @ \cup epochs]
      BY <1>5, <2>5 DEF Statement
    <3> HIDE DEF epochs
    <3>5. db' \in Database /\ db'.header = H /\ db'.head = db.head /\ db'.meta = db.meta
      BY <1>1, <3>3, <3>4 DEF Database
    <3>6. HeadCovered'
      BY <1>1, <3>5 DEF HeadCovered
    <3>7. StoreFollows(t(u), H) /\ NumbersOf(b) \subseteq H
      BY <1>1, <2>5, <3>1, <3>2 DEF Follows, StoreFollows
    <3> HIDE DEF t
    <3> QED BY <1>3, <3>1, <3>5, <3>6, <3>7, SameFlags
  <2> QED BY <1>5, <2>1, <2>2, <2>3, <2>4, <2>5
<1> QED BY <1>4, <1>5 DEF StoreBatch

\* The execute task of one call, and a running node.

LEMMA CommitKeeps ==
    ASSUME TypeOK, NEW n \in Int, NEW base \in Seq(Int), Commit(n, base)
    PROVE  /\ db' \in Database /\ db'.header = db.header /\ db'.head = db.head
           /\ FlagsKept(db.meta, db'.meta)
<1> DEFINE m == db.meta
           f == [k \in DOMAIN m |-> IF k = n THEN TRUE ELSE m[k]]
           rep == IF n \in DOMAIN m /\ Cardinality(PastCheck(n)) <= 1
                  THEN db.repeatable ELSE db.repeatable \cup {n}
           led == Append(base, n)
<1>0. db \in Database
  BY DEF TypeOK
<1>1. PICK D \in SUBSET Int : m \in [D -> BOOLEAN]
  BY <1>0 DEF Database, Flags
<1>2. f \in [D -> BOOLEAN]
  BY <1>1
<1>3. f \in Flags
  BY <1>2 DEF Flags
<1>4. FlagsKept(m, f)
  BY DEF FlagsKept, Flagged
<1>5. rep \in SUBSET Int
  BY <1>0 DEF Database
<1>6. led \in Seq(Int)
  BY AppendProperties
<1>7. db' = [db EXCEPT !.ledger = led, !.repeatable = rep, !.meta = f]
  BY DEF Commit
<1> HIDE DEF f, rep, led
<1>8. db' = [header |-> db.header, meta |-> f, head |-> db.head, vote_result |-> db.vote_result,
             validator |-> db.validator, ledger |-> led, repeatable |-> rep]
  BY <1>0, <1>7 DEF Database
<1>9. db' \in Database /\ db'.header = db.header /\ db'.head = db.head /\ db'.meta = f
  BY <1>0, <1>3, <1>5, <1>6, <1>8 DEF Database
<1> QED BY <1>4, <1>9

Executor == [pc : ExecutePc, first : Int, number : Int, base : Seq(Int)]

LEMMA ExecuteTaskHolds ==
    ASSUME IInv, NEW i \in DOMAIN syncs, NEW e \in Executor, SetExecute(i, e),
           UNCHANGED <<remote, main, live>>,
           db' \in Database, db'.header = db.header, db'.head = db.head,
           FlagsKept(db.meta, db'.meta),
           e.pc \in {"check", "read", "commit"} /\ e.number > 1 => Flagged(db.meta, e.number - 1)
    PROVE  IInv'
<1> DEFINE t == [syncs[i] EXCEPT !.execute = e]
<1>1. syncs \in Seq(SyncCall) /\ syncs[i] \in SyncCall /\ Follows(syncs[i], db.header)
  BY DEF IInv, TypeOK, Follow, SyncsFollow
<1>2. t \in SyncCall /\ t.channel = syncs[i].channel /\ t.store = syncs[i].store /\ t.execute = e
  BY <1>1 DEF SyncCall, Executor
<1>3. syncs' = [syncs EXCEPT ![i] = t]
  BY DEF SetExecute
<1> HIDE DEF t
<1>4. Follows(t, db.header) /\ ReachedAll(syncs[i], db.header) \subseteq ReachedAll(t, db.header)
  BY <1>1, <1>2 DEF Follows, BatchesFollow, StoreFollows, Reached, ReachedAll
<1>5. DOMAIN syncs' = DOMAIN syncs
  BY <1>1, <1>3
<1>6. ParentsExecuted(syncs', db'.meta)
  <2> SUFFICES ASSUME NEW j \in DOMAIN syncs, syncs'[j].execute.pc \in {"check", "read", "commit"},
                      syncs'[j].execute.number > 1
               PROVE  Flagged(db'.meta, syncs'[j].execute.number - 1)
    BY <1>5 DEF ParentsExecuted
  <2>1. CASE j = i
    <3>1. syncs'[j].execute = e
      BY <2>1, <1>1, <1>2, <1>3
    <3> QED BY <3>1 DEF FlagsKept
  <2>2. CASE j # i
    <3>1. syncs'[j] = syncs[j]
      BY <2>2, <1>1, <1>3
    <3>2. Flagged(db.meta, syncs[j].execute.number - 1)
      BY <3>1 DEF IInv, Parents, ParentsExecuted
    <3> QED BY <3>1, <3>2 DEF FlagsKept
  <2> QED BY <2>1, <2>2
<1>7. HeadCovered'
  BY DEF IInv, Follow, HeadCovered
<1>8. /\ db.header \subseteq db'.header /\ Follows(t, db'.header)
      /\ ReachedAll(syncs[i], db.header) \subseteq ReachedAll(t, db'.header)
  BY <1>4
<1> QED BY <1>2, <1>3, <1>6, <1>7, <1>8, CallHolds

LEMMA ReadType ==
    ASSUME NEW e \in Executor, NEW base \in Seq(Int), NEW f,
           f = [e EXCEPT !.pc = "commit", !.base = base]
    PROVE  f \in Executor /\ f.number = e.number
BY DEF Executor, ExecutePc

LEMMA NextBlockType ==
    ASSUME NEW e \in Executor, NEW last
    PROVE  NextBlock(e, last) \in Executor /\ NextBlock(e, last).pc \in {"done", "load"}
<1>0. e.number + 1 \in Int
  BY DEF Executor
<1>1. SUFFICES ASSUME NEW pc \in {"done", "load"}, NEW base \in Seq(Int), NEW number \in Int, NEW f,
                      f = [e EXCEPT !.number = number, !.base = base, !.pc = pc]
               PROVE  f \in Executor /\ f.pc = pc
  <2>1. << >> \in Seq(Int)
    BY EmptySeq
  <2> QED BY <1>0, <1>1, <2>1 DEF NextBlock
<1>2. pc \in ExecutePc
  BY DEF ExecutePc
<1> QED BY <1>1, <1>2 DEF Executor

LEMMA ExecuteHolds ==
    ASSUME IInv, NEW i \in DOMAIN syncs,
           \/ LoadBlock(i) \/ CheckParent(i) \/ CheckExecuted(i) \/ ReadState(i)
           \/ CommitBlock(i) \/ ExecuteFails(i)
    PROVE  IInv'
<1> DEFINE e == syncs[i].execute
<1>0. syncs[i] \in SyncCall /\ db \in Database /\ TypeOK
  BY DEF IInv, TypeOK
<1>1. e \in Executor /\ db \in Database /\ db.ledger \in Seq(Int) /\ TypeOK
  BY <1>0 DEF SyncCall, Executor, Database
<1>2. e.pc \in {"check", "read", "commit"} /\ e.number > 1 => Flagged(db.meta, e.number - 1)
  BY DEF IInv, Parents, ParentsExecuted
<1>3. ASSUME NEW f \in Executor, SetExecute(i, f), UNCHANGED <<db, remote, main, live>>,
             f.pc \in {"check", "read", "commit"} /\ f.number > 1 => Flagged(db.meta, f.number - 1)
      PROVE  IInv'
  BY <1>1, <1>3, ExecuteTaskHolds, SameFlags
<1> HIDE DEF e
<1>4. CASE LoadBlock(i)
  <2>1. [e EXCEPT !.pc = "parent"] \in Executor /\ [e EXCEPT !.pc = "parent"].pc = "parent"
    BY <1>1 DEF Executor, ExecutePc
  <2> QED BY <1>3, <1>4, <2>1 DEF LoadBlock, e
<1>5. CASE CheckParent(i)
  <2> DEFINE f == [e EXCEPT !.pc = IF e.number > 1 /\ ~ is_block_executed(e.number - 1)
                                   THEN "failed" ELSE "check"]
  <2>1. /\ f \in Executor /\ f.number = e.number
        /\ f.pc = IF e.number > 1 /\ ~ is_block_executed(e.number - 1) THEN "failed" ELSE "check"
    BY <1>1 DEF Executor, ExecutePc
  <2>2. f.pc = "check" /\ f.number > 1 => Flagged(db.meta, f.number - 1)
    BY <2>1 DEF is_block_executed, Flagged
  <2>3. f.pc \in {"failed", "check"}
    BY <2>1
  <2>4. SetExecute(i, f) /\ UNCHANGED <<db, remote, main, live>>
    BY <1>5 DEF CheckParent, e
  <2> HIDE DEF f
  <2> QED BY <1>3, <2>1, <2>2, <2>3, <2>4
<1>6. CASE CheckExecuted(i)
  <2>1. CASE SetExecute(i, NextBlock(e, syncs[i].last))
    BY <1>1, <1>3, <1>6, <2>1, NextBlockType DEF CheckExecuted
  <2>2. CASE SetExecute(i, [e EXCEPT !.pc = "read"])
    <3>1. /\ [e EXCEPT !.pc = "read"] \in Executor /\ e.pc = "check"
          /\ [e EXCEPT !.pc = "read"].number = e.number
      BY <1>1, <1>6 DEF Executor, ExecutePc, CheckExecuted, e
    <3> QED BY <1>2, <1>3, <1>6, <2>2, <3>1 DEF CheckExecuted
  <2> QED BY <1>6, <2>1, <2>2 DEF CheckExecuted, e
<1>7. CASE ReadState(i)
  <2> DEFINE f == [e EXCEPT !.pc = "commit", !.base = db.ledger]
  <2>1. e.pc = "read"
    BY <1>7 DEF ReadState, e
  <2>2. f \in Executor /\ f.number = e.number
    BY <1>1, ReadType
  <2>3. SetExecute(i, f) /\ UNCHANGED <<db, remote, main, live>>
    BY <1>7 DEF ReadState, e
  <2> HIDE DEF f
  <2> QED BY <1>2, <1>3, <2>1, <2>2, <2>3
<1>8. CASE CommitBlock(i)
  <2>1. e.number \in Int /\ e.base \in Seq(Int) /\ Commit(e.number, e.base)
        /\ SetExecute(i, NextBlock(e, syncs[i].last)) /\ UNCHANGED <<remote, main, live>>
    BY <1>1, <1>8 DEF CommitBlock, Executor, e
  <2>2. /\ db' \in Database /\ db'.header = db.header /\ db'.head = db.head
        /\ FlagsKept(db.meta, db'.meta)
    BY <1>1, <2>1, CommitKeeps
  <2> QED BY <1>1, <2>1, <2>2, NextBlockType, ExecuteTaskHolds
<1>9. CASE ExecuteFails(i)
  <2>1. [e EXCEPT !.pc = "failed"] \in Executor /\ [e EXCEPT !.pc = "failed"].pc = "failed"
    BY <1>1 DEF Executor, ExecutePc
  <2> QED BY <1>3, <1>9, <2>1 DEF ExecuteFails, e
<1> QED BY <1>4, <1>5, <1>6, <1>7, <1>8, <1>9

Finalizer == [pc : LivePc, number : Int, base : Seq(Int)]

\* The tables keep what they have, and no call changes.
LEMMA TablesHold ==
    ASSUME IInv, UNCHANGED <<syncs, remote>>, main' \in MainState,
           main'.pc = "download" => main' = main,
           live' \in Finalizer, LiveStored(live', db'.header),
           db' \in Database, db.header \subseteq db'.header, FlagsKept(db.meta, db'.meta),
           HeadCovered'
    PROVE  IInv'
<1>1. SyncsFollow(syncs', db'.header) /\ DownloadFollows(main, syncs', db'.header)
  BY NoCall DEF IInv, Follow
<1>2. DownloadFollows(main', syncs', db'.header)
  BY <1>1 DEF DownloadFollows
<1>3. ParentsExecuted(syncs', db'.meta)
  BY ParentsKept DEF IInv, Parents
<1>4. TypeOK'
  BY DEF IInv, TypeOK, Finalizer
<1> QED BY <1>1, <1>2, <1>3, <1>4 DEF IInv, Follow, Parents

LEMMA LiveHolds ==
    ASSUME IInv, Finalize \/ FinalizeStep
    PROVE  IInv'
<1>0. /\ TypeOK /\ db \in Database /\ live \in Finalizer /\ main \in MainState
      /\ HeadCovered /\ LiveStored(live, db.header) /\ db.head \in Int
      /\ db.ledger \in Seq(Int) /\ live.number \in Int /\ live.base \in Seq(Int)
  BY DEF IInv, TypeOK, Follow, Finalizer, Database
<1>1. NoLive \in Finalizer /\ NoLive.pc = "idle"
  BY EmptySeq DEF NoLive, Finalizer, LivePc
<1>2. CASE Finalize
  <2>1. live' = [pc |-> "vote_result", number |-> db.head + 1, base |-> << >>]
    BY <1>2 DEF Finalize, NoLive
  <2>2. live' \in Finalizer /\ live'.pc = "vote_result"
    BY <1>0, <2>1, EmptySeq DEF Finalizer, LivePc
  <2>3. HeadCovered'
    BY <1>0, <1>2 DEF Finalize, HeadCovered
  <2> QED BY <1>0, <1>2, <2>2, <2>3, TablesHold, SameFlags DEF Finalize, LiveStored
<1>3. CASE FinalizeStep
  <2> DEFINE n == live.number
  <2>0. UNCHANGED <<remote, main, syncs>>
    BY <1>3 DEF FinalizeStep
  <2>1. ASSUME NEW pc \in LivePc, live' = [live EXCEPT !.pc = pc]
        PROVE  live' \in Finalizer /\ live'.pc = pc /\ live'.number = n
    BY <1>0, <2>1 DEF Finalizer
  <2>2. {"vote_result", "header", "head", "meta", "check", "commit"} \subseteq LivePc
    BY DEF LivePc
  <2>3. CASE /\ live.pc = "vote_result" /\ live' = [live EXCEPT !.pc = "header"]
             /\ db' = [db EXCEPT !.vote_result = @ \cup {n}]
    <3>1. db' \in Database /\ db'.header = db.header /\ db'.head = db.head /\ db'.meta = db.meta
      BY <1>0, <2>3 DEF Database
    <3>2. HeadCovered'
      BY <1>0, <3>1 DEF HeadCovered
    <3>3. live' \in Finalizer /\ live'.pc = "header"
      BY <2>1, <2>2, <2>3
    <3> QED BY <1>0, <2>0, <3>1, <3>2, <3>3, TablesHold, SameFlags DEF LiveStored
  <2>4. CASE /\ live.pc = "header" /\ live' = [live EXCEPT !.pc = "head"]
             /\ db' = [db EXCEPT !.header = @ \cup {n}]
    <3>1. db' \in Database /\ db'.header = db.header \cup {n} /\ db'.head = db.head
          /\ db'.meta = db.meta
      BY <1>0, <2>4 DEF Database
    <3>2. HeadCovered'
      BY <1>0, <3>1 DEF HeadCovered
    <3>3. live' \in Finalizer /\ live'.pc = "head" /\ live'.number = n
      BY <2>1, <2>2, <2>4
    <3> QED BY <1>0, <2>0, <3>1, <3>2, <3>3, TablesHold, SameFlags DEF LiveStored
  <2>5. CASE /\ live.pc = "head" /\ live' = [live EXCEPT !.pc = "meta"]
             /\ db' = IF db.head = n - 1 THEN [db EXCEPT !.head = n] ELSE db
    <3>1. db' \in Database /\ db'.header = db.header /\ db'.meta = db.meta
          /\ (db'.head = db.head \/ (db.head = n - 1 /\ db'.head = n))
      BY <1>0, <2>5 DEF Database
    <3>2. n \in db.header
      BY <1>0, <2>5 DEF LiveStored
    <3>3. HeadCovered'
      BY <1>0, <3>1, <3>2 DEF HeadCovered
    <3>4. live' \in Finalizer /\ live'.pc = "meta"
      BY <2>1, <2>2, <2>5
    <3> QED BY <1>0, <2>0, <3>1, <3>3, <3>4, TablesHold, SameFlags DEF LiveStored
  <2>6. CASE /\ live.pc = "meta" /\ live' = [live EXCEPT !.pc = "check"]
             /\ db' = Statement("meta", {[number |-> n, validators |-> FALSE]})
    <3> DEFINE numbers == NumbersOf({[number |-> n, validators |-> FALSE]})
    <3>1. numbers \in SUBSET Int
      BY <1>0 DEF NumbersOf
    <3>2. db' = [db EXCEPT !.meta = [k \in DOMAIN @ \cup numbers |->
                                       IF k \in DOMAIN @ THEN @[k] ELSE FALSE]]
      BY <2>6 DEF Statement
    <3> HIDE DEF numbers
    <3>3. db' \in Database /\ db'.header = db.header /\ db'.head = db.head
          /\ FlagsKept(db.meta, db'.meta)
      BY <1>0, <3>1, <3>2, MetaStatement
    <3>4. HeadCovered'
      BY <1>0, <3>3 DEF HeadCovered
    <3>5. live' \in Finalizer /\ live'.pc = "check"
      BY <2>1, <2>2, <2>6
    <3> QED BY <1>0, <2>0, <3>3, <3>4, <3>5, TablesHold DEF LiveStored
  <2>7. CASE /\ live.pc = "check" /\ UNCHANGED db
             /\ live' = IF is_block_executed(n) THEN NoLive
                        ELSE [live EXCEPT !.pc = "commit", !.base = db.ledger]
    <3>1. live' = NoLive \/ live' = [pc |-> "commit", number |-> n, base |-> db.ledger]
      BY <1>0, <2>7 DEF Finalizer
    <3>2. live' \in Finalizer /\ live'.pc # "head"
      BY <1>0, <1>1, <2>2, <3>1 DEF Finalizer
    <3>3. HeadCovered'
      BY <1>0, <2>7 DEF HeadCovered
    <3> QED BY <1>0, <2>0, <2>7, <3>2, <3>3, TablesHold, SameFlags DEF LiveStored
  <2>8. CASE live.pc = "commit" /\ Commit(n, live.base) /\ live' = NoLive
    <3>1. db' \in Database /\ db'.header = db.header /\ db'.head = db.head
          /\ FlagsKept(db.meta, db'.meta)
      BY <1>0, <2>8, CommitKeeps
    <3>2. HeadCovered'
      BY <1>0, <3>1 DEF HeadCovered
    <3> QED BY <1>0, <1>1, <2>0, <2>8, <3>1, <3>2, TablesHold DEF LiveStored
  <2> QED BY <1>3, <2>3, <2>4, <2>5, <2>6, <2>7, <2>8 DEF FinalizeStep
<1> QED BY <1>2, <1>3

-----------------------------------------------------------------------------
LEMMA JoinHolds ==
    ASSUME IInv, Join
    PROVE  IInv'
<1>1. CASE Down /\ UNCHANGED db
  BY <1>1, DownHolds DEF Join
<1>2. CASE /\ main' = [main EXCEPT !.pc = "live"]
           /\ db' = [db EXCEPT !.validator = @ \cup {calculate_current_epoch(db.head + 1)}]
           /\ UNCHANGED <<syncs, live>>
  <2>1. db \in Database /\ main \in MainState /\ live \in Finalizer
    BY DEF IInv, TypeOK, Finalizer
  <2>2. calculate_current_epoch(db.head + 1) \in Int
    BY <2>1, SyncAssumption DEF Database, calculate_current_epoch
  <2>3. db' \in Database /\ db'.header = db.header /\ db'.head = db.head /\ db'.meta = db.meta
    BY <1>2, <2>1, <2>2 DEF Database
  <2>4. HeadCovered' /\ LiveStored(live', db'.header)
    BY <1>2, <2>3 DEF IInv, Follow, HeadCovered
  <2>5. main' \in MainState /\ main'.pc = "live"
    BY <1>2, <2>1 DEF MainState, MainPc
  <2> QED BY <1>2, <2>1, <2>3, <2>4, <2>5, TablesHold, SameFlags DEF Join
<1> QED BY <1>1, <1>2 DEF Join

LEMMA NextHolds ==
    ASSUME IInv, [Next]_vars
    PROVE  IInv'
<1>0. main \in MainState
  BY DEF IInv, TypeOK
<1>1. CASE sync_node
  BY <1>1, BeginHolds
<1>2. CASE DownloadBatch
  BY <1>2, SendHolds DEF DownloadBatch
<1>3. CASE max_block_height
  BY <1>3, ErrHolds DEF max_block_height
<1>4. CASE DownloadFinished
  <2>1. main' \in MainState /\ main'.pc = "await_store"
    BY <1>0, <1>4 DEF DownloadFinished, MainState, MainPc
  <2> QED BY <1>4, <2>1, MainHolds DEF DownloadFinished
<1>5. CASE AwaitStore
  <2>1. CASE Err
    BY <1>5, <2>1, ErrHolds DEF AwaitStore
  <2>2. CASE main' = [main EXCEPT !.pc = "await_execute"] /\ UNCHANGED <<syncs, live>>
    <3>1. main' \in MainState /\ main'.pc = "await_execute"
      BY <1>0, <2>2 DEF MainState, MainPc
    <3> QED BY <1>5, <2>2, <3>1, MainHolds DEF AwaitStore
  <2> QED BY <1>5, <2>1, <2>2 DEF AwaitStore
<1>6. CASE AwaitExecute
  BY <1>6, ErrHolds, OkHolds DEF AwaitExecute
<1>7. CASE Join
  BY <1>7, JoinHolds
<1>8. ASSUME NEW i \in DOMAIN syncs, Task(i) \/ ExecuteFails(i) PROVE IInv'
  BY <1>8, ReceiveHolds, StoreHolds, ExecuteHolds DEF Task
<1>9. CASE sync_node_refused
  BY <1>9, ErrHolds DEF sync_node_refused
<1>10. CASE get_missing_blocks
  <2>1. CASE Panic
    BY <1>10, <2>1, ErrHolds DEF get_missing_blocks
  <2>2. ASSUME NEW n \in main.next .. batch_upper_limit - 1, Send({n}) PROVE IInv'
    BY <1>10, <2>2, SendHolds DEF get_missing_blocks
  <2> QED BY <1>10, <2>1, <2>2 DEF get_missing_blocks
<1>11. CASE Finalize \/ FinalizeStep
  BY <1>11, LiveHolds
<1>12. CASE Crash
  BY <1>12, DownHolds DEF Crash
<1>13. CASE Restart
  <2>1. main' = [pc |-> "start", round |-> 1, next |-> main.next, last |-> main.last]
    BY <1>0, <1>13 DEF Restart, MainState
  <2>2. main' \in MainState /\ main'.pc = "start"
    BY <1>0, <2>1 DEF MainState, MainPc
  <2> QED BY <1>13, <2>2, MainHolds DEF Restart
<1>14. CASE Grow
  <2>1. remote' \in [height : Int, executed : Int]
    BY <1>14 DEF Grow, IInv, TypeOK
  <2>2. TypeOK'
    BY <1>14, <2>1 DEF Grow, IInv, TypeOK
  <2>3. Follow' /\ Parents'
    BY <1>14 DEF Grow, IInv, Follow, Parents, HeadCovered
  <2> QED BY <2>2, <2>3 DEF IInv
<1>15. CASE UNCHANGED vars
  BY <1>15 DEF vars, IInv, TypeOK, Follow, Parents, HeadCovered
<1> QED BY <1>1, <1>2, <1>3, <1>4, <1>5, <1>6, <1>7, <1>8, <1>9, <1>10, <1>11, <1>12, <1>13,
           <1>14, <1>15 DEF Next, Main

\* The inductive invariant holds in every behaviour of Sync.
THEOREM SyncInvariant == Spec => []IInv
<1>1. Init => IInv
  BY InitHolds
<1>2. IInv /\ [Next]_vars => IInv'
  BY NextHolds
<1> QED BY <1>1, <1>2, PTL DEF Spec

\* Every block up to the head is stored, whatever crashed, failed or overlapped:
\* store_blocks and update_block_head write in this order, and sync_node
\* downloads from the head on.
THEOREM HeadHasNoHoles == Spec => []HeadCovered
<1>1. IInv => HeadCovered
  BY DEF IInv, Follow
<1> QED BY <1>1, SyncInvariant, PTL

\* A sync never commits a block whose parent is not executed (execute_blocks),
\* for any number of overlapping calls and any answer of the search for the
\* first block.
THEOREM SyncExecutesInOrder == Spec => SyncInOrder
<1>1. IInv => ParentFirst
  BY DEF IInv, Parents, ParentsExecuted, ParentFirst, Flagged, is_block_executed
<1>2. IInv => [ParentFirst]_vars
  BY <1>1
<1> QED BY <1>2, SyncInvariant, PTL DEF SyncInOrder
=============================================================================
