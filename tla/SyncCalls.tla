----------------------------- MODULE SyncCalls ------------------------------
(***************************************************************************)
(* The inductive invariant of Sync.  The head has no holes below it        *)
(* because nothing on the way to it has: a batch that waits in the channel *)
(* of a call of sync_node follows what is stored, what is being stored and *)
(* the batches before it, and so does the next batch to download.  Then    *)
(* how this is kept when a call changes, when the process ends or starts,  *)
(* and when sync_node returns.                                             *)
(***************************************************************************)
EXTENDS Sync, SequenceTheorems, WellFoundedInduction, TLAPS

Blocks == [number : Int, validators : BOOLEAN]
StorePc == {"recv", "meta", "header", "head", "vote_result", "validator", "done", "failed"}
ExecutePc == {"load", "parent", "check", "read", "commit", "done", "failed"}
MainPc == {"start", "download", "await_store", "await_execute", "join", "live", "down",
           "dead", "lost"}
MainState == [pc : MainPc, round : Int, next : Int, last : Int]
LivePc == {"idle", "vote_result", "header", "head", "meta", "check", "commit"}

SyncCall ==
    [channel : Seq(SUBSET Blocks), open : BOOLEAN,
     store : [pc : StorePc, batch : SUBSET Blocks],
     execute : [pc : ExecutePc, first : Int, number : Int, base : Seq(Int)],
     last : Int]

Flags == UNION {[D -> BOOLEAN] : D \in SUBSET Int}
Database ==
    [header : SUBSET Int, meta : Flags, head : Int, vote_result : SUBSET Int,
     validator : SUBSET Int, ledger : Seq(Int), repeatable : SUBSET Int]

TypeOK ==
    /\ db \in Database
    /\ remote \in [height : Int, executed : Int]
    /\ main \in MainState
    /\ syncs \in Seq(SyncCall)
    /\ live \in [pc : LivePc, number : Int, base : Seq(Int)]

-----------------------------------------------------------------------------
\* What a call of sync_node has on its way, given the headers H.

Ends(b, hi) == hi \in NumbersOf(b) /\ \A n \in NumbersOf(b) : n <= hi

\* The blocks stored when the first k batches of the channel are.
Reached(s, H, k) ==
    H \cup NumbersOf(s.store.batch) \cup UNION {NumbersOf(s.channel[j]) : j \in 1 .. k}
ReachedAll(s, H) == Reached(s, H, Len(s.channel))

BatchesFollow(s, H) ==
    \A k \in 1 .. Len(s.channel) :
        \E hi \in Int : Ends(s.channel[k], hi) /\ 1 .. hi \subseteq Reached(s, H, k)

StoreFollows(s, H) ==
    LET b == s.store.batch
    IN  /\ s.store.pc \in {"meta", "header"} =>
              \E hi \in Int : Ends(b, hi) /\ 1 .. hi \subseteq H \cup NumbersOf(b)
        /\ s.store.pc \in {"head", "vote_result", "validator"} =>
              NumbersOf(b) \subseteq H /\ \E hi \in Int : Ends(b, hi) /\ 1 .. hi \subseteq H
        /\ s.store.pc \in {"recv", "done", "failed"} => b = {}

Follows(s, H) == BatchesFollow(s, H) /\ StoreFollows(s, H)

SyncsFollow(S, H) == \A i \in DOMAIN S : Follows(S[i], H)

\* The next batch to download follows what is on its way.
DownloadFollows(m, S, H) ==
    m.pc = "download" =>
        Len(S) > 0 /\ 1 .. m.next - 1 \subseteq ReachedAll(S[Len(S)], H)

\* A block past the check of its parent has an executed parent.
Flagged(meta, n) == n \in DOMAIN meta /\ meta[n]
ParentsExecuted(S, meta) ==
    \A i \in DOMAIN S :
        S[i].execute.pc \in {"check", "read", "commit"} /\ S[i].execute.number > 1
        => Flagged(meta, S[i].execute.number - 1)

LiveStored(l, H) == l.pc = "head" => l.number \in H

Follow ==
    /\ SyncsFollow(syncs, db.header)
    /\ DownloadFollows(main, syncs, db.header)
    /\ LiveStored(live, db.header)
    /\ HeadCovered

Parents == ParentsExecuted(syncs, db.meta)

IInv == TypeOK /\ Follow /\ Parents

-----------------------------------------------------------------------------
\* A nonempty set of numbers up to n has a largest one, which Max chooses.
LEMMA MaxOfBounded ==
    ASSUME NEW S \in SUBSET Int, NEW n \in Int, S # {}, \A x \in S : x <= n
    PROVE  Max(S) \in S /\ \A x \in S : Max(S) >= x
<1> DEFINE T == {n - x : x \in S}
<1>0. PICK x0 \in S : TRUE
  OBVIOUS
<1>1. T # {} /\ T \subseteq Nat
  <2>1. n - x0 \in T
    OBVIOUS
  <2>2. \A x \in S : n - x \in Nat
    OBVIOUS
  <2> QED BY <2>1, <2>2
<1>2. PICK y \in T : \A z \in T : ~ (<<z, y>> \in OpToRel(<, Nat))
  BY <1>1, WFMin, NatLessThanWellFounded
<1>3. \A z \in T : y <= z
  <2> TAKE z \in T
  <2>1. z \in Nat /\ y \in Nat
    BY <1>1
  <2>2. ~ (z < y)
    BY <1>2, <2>1 DEF OpToRel
  <2> QED BY <2>1, <2>2
<1>4. PICK m \in S : y = n - m
  BY <1>2
<1>5. \A x \in S : m >= x
  <2> TAKE x \in S
  <2>1. n - x \in T
    OBVIOUS
  <2>2. y <= n - x
    BY <2>1, <1>3
  <2> QED BY <2>2, <1>4
<1>6. \E m1 \in S : \A x \in S : m1 >= x
  BY <1>5
<1> QED BY <1>6 DEF Max

LEMMA MaxIsEnd ==
    ASSUME NEW b \in SUBSET Blocks, NEW hi \in Int, Ends(b, hi)
    PROVE  LastOf(b) = hi
<1>1. NumbersOf(b) \in SUBSET Int /\ NumbersOf(b) # {} /\ \A x \in NumbersOf(b) : x <= hi
  BY DEF Ends, NumbersOf, Blocks
<1>2. Max(NumbersOf(b)) \in NumbersOf(b) /\ \A x \in NumbersOf(b) : Max(NumbersOf(b)) >= x
  BY <1>1, MaxOfBounded
<1>3. Max(NumbersOf(b)) = hi
  BY <1>1, <1>2 DEF Ends
<1> QED BY <1>3 DEF LastOf, NumbersOf

-----------------------------------------------------------------------------
\* How what is on its way changes.

\* More headers, and the batch in hand kept or stored.
LEMMA StoredKeepsBatches ==
    ASSUME NEW s, NEW t, NEW H, NEW K, H \subseteq K, t.channel = s.channel,
           NumbersOf(s.store.batch) \subseteq K \cup NumbersOf(t.store.batch)
    PROVE  /\ \A k : Reached(s, H, k) \subseteq Reached(t, K, k)
           /\ BatchesFollow(s, H) => BatchesFollow(t, K)
           /\ ReachedAll(s, H) \subseteq ReachedAll(t, K)
<1>1. ASSUME NEW k PROVE Reached(s, H, k) \subseteq Reached(t, K, k)
  BY DEF Reached
<1>2. BatchesFollow(s, H) => BatchesFollow(t, K)
  <2> SUFFICES ASSUME BatchesFollow(s, H), NEW k \in 1 .. Len(t.channel)
               PROVE  \E hi \in Int : Ends(t.channel[k], hi) /\ 1 .. hi \subseteq Reached(t, K, k)
    BY DEF BatchesFollow
  <2>1. PICK hi \in Int : Ends(s.channel[k], hi) /\ 1 .. hi \subseteq Reached(s, H, k)
    BY DEF BatchesFollow
  <2> QED BY <2>1, <1>1
<1> QED BY <1>1, <1>2 DEF ReachedAll

LEMMA MoreHeaders ==
    ASSUME NEW s, NEW H, NEW K, H \subseteq K, Follows(s, H)
    PROVE  Follows(s, K)
<1>1. BatchesFollow(s, K)
  BY StoredKeepsBatches DEF Follows
<1>2. StoreFollows(s, K)
  <2> DEFINE b == s.store.batch
  <2>1. ASSUME s.store.pc \in {"meta", "header"}
        PROVE  \E hi \in Int : Ends(b, hi) /\ 1 .. hi \subseteq K \cup NumbersOf(b)
    <3>1. PICK hi \in Int : Ends(b, hi) /\ 1 .. hi \subseteq H \cup NumbersOf(b)
      BY <2>1 DEF Follows, StoreFollows
    <3>2. 1 .. hi \subseteq K \cup NumbersOf(b)
      BY <3>1
    <3> QED BY <3>1, <3>2
  <2>2. ASSUME s.store.pc \in {"head", "vote_result", "validator"}
        PROVE  NumbersOf(b) \subseteq K /\ \E hi \in Int : Ends(b, hi) /\ 1 .. hi \subseteq K
    <3>1. PICK hi \in Int : Ends(b, hi) /\ 1 .. hi \subseteq H
      BY <2>2 DEF Follows, StoreFollows
    <3>2. NumbersOf(b) \subseteq H
      BY <2>2 DEF Follows, StoreFollows
    <3>3. 1 .. hi \subseteq K
      BY <3>1
    <3> QED BY <3>1, <3>2, <3>3
  <2>3. s.store.pc \in {"recv", "done", "failed"} => b = {}
    BY DEF Follows, StoreFollows
  <2> QED BY <2>1, <2>2, <2>3 DEF StoreFollows
<1> QED BY <1>1, <1>2 DEF Follows

\* The first batch of the channel comes in hand.
LEMMA ReceiveFollows ==
    ASSUME NEW s \in SyncCall, NEW t \in SyncCall, NEW H, Follows(s, H), s.store.pc = "recv",
           Len(s.channel) > 0, t.store = [pc |-> "meta", batch |-> Head(s.channel)],
           t.channel = Tail(s.channel)
    PROVE  Follows(t, H) /\ ReachedAll(s, H) \subseteq ReachedAll(t, H)
<1>0. s.channel \in Seq(SUBSET Blocks) /\ s.channel # << >> /\ Len(s.channel) \in Nat
  BY EmptySeq, LenProperties DEF SyncCall
<1>1. /\ Head(s.channel) = s.channel[1] /\ Len(t.channel) = Len(s.channel) - 1
      /\ \A k \in 1 .. Len(s.channel) - 1 : t.channel[k] = s.channel[k + 1]
  BY <1>0, HeadTailProperties
<1>2. s.store.batch = {} /\ NumbersOf({}) = {}
  BY DEF Follows, StoreFollows, NumbersOf
<1>3. ASSUME NEW k \in 0 .. Len(s.channel) - 1
      PROVE  Reached(s, H, k + 1) \subseteq Reached(t, H, k)
  <2> SUFFICES ASSUME NEW j \in 1 .. k + 1
               PROVE  NumbersOf(s.channel[j]) \subseteq Reached(t, H, k)
    BY <1>2 DEF Reached
  <2>1. CASE j = 1
    BY <2>1, <1>1 DEF Reached
  <2>2. CASE j # 1
    <3>1. j - 1 \in 1 .. k /\ t.channel[j - 1] = s.channel[j]
      BY <2>2, <1>0, <1>1
    <3> QED BY <3>1 DEF Reached
  <2> QED BY <2>1, <2>2
<1>4. BatchesFollow(t, H)
  <2> SUFFICES ASSUME NEW k \in 1 .. Len(t.channel)
               PROVE  \E hi \in Int : Ends(t.channel[k], hi) /\ 1 .. hi \subseteq Reached(t, H, k)
    BY DEF BatchesFollow
  <2>1. k \in 0 .. Len(s.channel) - 1 /\ k + 1 \in 1 .. Len(s.channel)
        /\ t.channel[k] = s.channel[k + 1]
    BY <1>0, <1>1
  <2>2. PICK hi \in Int : Ends(s.channel[k + 1], hi) /\ 1 .. hi \subseteq Reached(s, H, k + 1)
    BY <2>1 DEF Follows, BatchesFollow
  <2> QED BY <2>1, <2>2, <1>3
<1>5. StoreFollows(t, H)
  <2>1. PICK hi \in Int : Ends(s.channel[1], hi) /\ 1 .. hi \subseteq Reached(s, H, 1)
    BY <1>0 DEF Follows, BatchesFollow
  <2>2. Reached(s, H, 1) = H \cup NumbersOf(s.channel[1])
    BY <1>2 DEF Reached
  <2>3. t.store.pc = "meta" /\ t.store.batch = s.channel[1]
    BY <1>1
  <2> QED BY <2>1, <2>2, <2>3 DEF StoreFollows
<1>6. ReachedAll(s, H) \subseteq ReachedAll(t, H)
  <2>1. Len(t.channel) \in 0 .. Len(s.channel) - 1 /\ Len(t.channel) + 1 = Len(s.channel)
    BY <1>0, <1>1
  <2> QED BY <2>1, <1>3 DEF ReachedAll
<1> QED BY <1>4, <1>5, <1>6 DEF Follows

\* A batch that follows is put at the end of the channel.
LEMMA SendFollows ==
    ASSUME NEW s \in SyncCall, NEW t \in SyncCall, NEW H, NEW b \in SUBSET Blocks,
           NEW hi \in Int, Follows(s, H), t.store = s.store,
           t.channel = Append(s.channel, b), Ends(b, hi),
           1 .. hi \subseteq ReachedAll(s, H) \cup NumbersOf(b)
    PROVE  Follows(t, H) /\ 1 .. hi \subseteq ReachedAll(t, H)
<1>0. s.channel \in Seq(SUBSET Blocks) /\ Len(s.channel) \in Nat
  BY LenProperties DEF SyncCall
<1>1. /\ Len(t.channel) = Len(s.channel) + 1 /\ t.channel[Len(s.channel) + 1] = b
      /\ \A k \in 1 .. Len(s.channel) : t.channel[k] = s.channel[k]
  BY <1>0, AppendProperties
<1>2. ASSUME NEW k \in 0 .. Len(s.channel) PROVE Reached(t, H, k) = Reached(s, H, k)
  <2>1. \A j \in 1 .. k : t.channel[j] = s.channel[j]
    BY <1>0, <1>1
  <2> QED BY <2>1 DEF Reached
<1>3. ReachedAll(t, H) = ReachedAll(s, H) \cup NumbersOf(b)
  <2>1. 1 .. Len(t.channel) = 1 .. Len(s.channel) \cup {Len(s.channel) + 1}
    BY <1>0, <1>1
  <2>2. Reached(t, H, Len(t.channel)) = Reached(t, H, Len(s.channel)) \cup NumbersOf(b)
    BY <2>1, <1>1 DEF Reached
  <2> QED BY <2>2, <1>0, <1>2 DEF ReachedAll
<1>4. BatchesFollow(t, H)
  <2> SUFFICES ASSUME NEW k \in 1 .. Len(t.channel)
               PROVE  \E h \in Int : Ends(t.channel[k], h) /\ 1 .. h \subseteq Reached(t, H, k)
    BY DEF BatchesFollow
  <2>1. CASE k = Len(s.channel) + 1
    BY <2>1, <1>1, <1>3 DEF ReachedAll
  <2>2. CASE k \in 1 .. Len(s.channel)
    <3>1. PICK h \in Int : Ends(s.channel[k], h) /\ 1 .. h \subseteq Reached(s, H, k)
      BY <2>2 DEF Follows, BatchesFollow
    <3>2. k \in 0 .. Len(s.channel)
      BY <2>2, <1>0
    <3> QED BY <3>1, <3>2, <2>2, <1>1, <1>2
  <2> QED BY <2>1, <2>2, <1>0, <1>1
<1>5. StoreFollows(t, H)
  BY DEF Follows, StoreFollows
<1> QED BY <1>3, <1>4, <1>5 DEF Follows

-----------------------------------------------------------------------------
\* All calls, when one of them changes, or none.

LEMMA OneCall ==
    ASSUME NEW S \in Seq(SyncCall), NEW i \in DOMAIN S, NEW t \in SyncCall, NEW T,
           T = [S EXCEPT ![i] = t], NEW H, NEW K, H \subseteq K, SyncsFollow(S, H),
           Follows(t, K), ReachedAll(S[i], H) \subseteq ReachedAll(t, K)
    PROVE  /\ T \in Seq(SyncCall) /\ DOMAIN T = DOMAIN S /\ Len(T) = Len(S)
           /\ SyncsFollow(T, K)
           /\ \A m : DownloadFollows(m, S, H) => DownloadFollows(m, T, K)
<1>1. DOMAIN S = 1 .. Len(S) /\ Len(S) \in Nat
  BY LenProperties
<1>2. T \in Seq(SyncCall) /\ Len(T) = Len(S)
  BY <1>1, ExceptSeq
<1>3. DOMAIN T = DOMAIN S /\ T[i] = t /\ \A j \in DOMAIN S : j # i => T[j] = S[j]
  OBVIOUS
<1>4. SyncsFollow(T, K)
  BY <1>3, MoreHeaders DEF SyncsFollow
<1>5. ASSUME NEW j \in DOMAIN S PROVE ReachedAll(S[j], H) \subseteq ReachedAll(T[j], K)
  <2>1. CASE j = i
    BY <2>1, <1>3
  <2>2. CASE j # i
    BY <2>2, <1>3, StoredKeepsBatches
  <2> QED BY <2>1, <2>2
<1>6. ASSUME NEW m, DownloadFollows(m, S, H) PROVE DownloadFollows(m, T, K)
  <2>1. Len(S) > 0 => Len(S) \in DOMAIN S
    BY <1>1
  <2> QED BY <2>1, <1>2, <1>5, <1>6 DEF DownloadFollows
<1> QED BY <1>2, <1>3, <1>4, <1>6

LEMMA NoCall ==
    ASSUME NEW S, NEW H, NEW K, H \subseteq K, SyncsFollow(S, H)
    PROVE  /\ SyncsFollow(S, K)
           /\ \A m : DownloadFollows(m, S, H) => DownloadFollows(m, S, K)
<1>1. SyncsFollow(S, K)
  BY MoreHeaders DEF SyncsFollow
<1>2. ReachedAll(S[Len(S)], H) \subseteq ReachedAll(S[Len(S)], K)
  BY StoredKeepsBatches
<1> QED BY <1>1, <1>2 DEF DownloadFollows

LEMMA NoCalls ==
    ASSUME NEW H, NEW meta
    PROVE  /\ << >> \in Seq(SyncCall) /\ SyncsFollow(<< >>, H)
           /\ ParentsExecuted(<< >>, meta)
BY EmptySeq DEF SyncsFollow, ParentsExecuted

FlagsKept(meta, after) == \A n : Flagged(meta, n) => Flagged(after, n)

LEMMA ParentsKept ==
    ASSUME NEW S, NEW T, NEW meta, NEW after, ParentsExecuted(S, meta), FlagsKept(meta, after),
           DOMAIN T = DOMAIN S, \A i \in DOMAIN S : T[i].execute = S[i].execute
    PROVE  ParentsExecuted(T, after)
BY DEF ParentsExecuted, FlagsKept

-----------------------------------------------------------------------------
\* The process and sync_node.

LEMMA InitHolds ==
    ASSUME Init
    PROVE  IInv
<1>1. TypeOK
  <2>1. << >> \in Seq(Int) /\ << >> \in Seq(SyncCall)
    BY EmptySeq
  <2>2. << >> \in Flags
    <3>1. << >> \in [{} -> BOOLEAN] /\ {} \in SUBSET Int
      OBVIOUS
    <3> QED BY <3>1 DEF Flags
  <2>3. db \in Database
    <3>1. PICK h \in {{}, {0}} :
            db = [header |-> h, meta |-> << >>, head |-> IF h = {} THEN NoHead ELSE 0,
                  vote_result |-> {}, validator |-> {}, ledger |-> << >>, repeatable |-> {}]
      BY DEF Init
    <3>2. h \in SUBSET Int /\ (IF h = {} THEN NoHead ELSE 0) \in Int
      BY DEF NoHead
    <3> QED BY <2>1, <2>2, <3>1, <3>2 DEF Database
  <2>4. remote \in [height : Int, executed : Int] /\ main \in MainState
    BY DEF Init, MainState, MainPc
  <2> QED BY <2>1, <2>3, <2>4 DEF Init, TypeOK, NoLive, LivePc
<1>2. Follow
  <2>1. HeadCovered
    BY DEF Init, HeadCovered, NoHead
  <2>2. SyncsFollow(syncs, db.header)
    BY NoCalls DEF Init
  <2> QED BY <2>1, <2>2 DEF Init, Follow, DownloadFollows, LiveStored, NoLive
<1>3. Parents
  BY NoCalls DEF Init, Parents
<1> QED BY <1>1, <1>2, <1>3 DEF IInv

LEMMA DownHolds ==
    ASSUME IInv, Down, UNCHANGED <<db, remote>>
    PROVE  IInv'
<1>1. main'.pc = "down" /\ syncs' = << >> /\ live' = NoLive /\ db' = db /\ remote' = remote
      /\ main' \in MainState
  BY DEF IInv, TypeOK, Down, MainState, MainPc
<1>2. live' \in [pc : LivePc, number : Int, base : Seq(Int)] /\ live'.pc = "idle"
  BY <1>1, EmptySeq DEF NoLive, LivePc
<1>3. TypeOK'
  BY <1>1, <1>2, EmptySeq DEF IInv, TypeOK
<1>4. SyncsFollow(syncs', db'.header) /\ ParentsExecuted(syncs', db'.meta)
  BY <1>1, NoCalls
<1>5. HeadCovered'
  BY <1>1 DEF IInv, Follow, HeadCovered
<1> QED BY <1>1, <1>2, <1>3, <1>4, <1>5 DEF IInv, Follow, Parents, DownloadFollows, LiveStored

LEMMA ReturnHolds ==
    ASSUME IInv, NEW pc \in MainPc \ {"download"}, Return(pc), UNCHANGED <<db, remote>>
    PROVE  IInv'
<1>1. main' \in MainState /\ main'.pc # "download"
      /\ live' = live /\ db' = db /\ remote' = remote
  BY DEF IInv, TypeOK, Return, MainState
<1>2. syncs' \in Seq(SyncCall) /\ SyncsFollow(syncs', db'.header)
      /\ ParentsExecuted(syncs', db'.meta)
  <2>1. CASE syncs = << >>
    BY <2>1, <1>1, NoCalls DEF Return
  <2>2. CASE syncs # << >>
    <3> DEFINE n == Len(syncs)
               t == [syncs[n] EXCEPT !.open = FALSE]
    <3>1. syncs \in Seq(SyncCall) /\ n \in DOMAIN syncs
      BY <2>2, EmptySeq, LenProperties DEF IInv, TypeOK
    <3>2. syncs[n] \in SyncCall
      BY <3>1
    <3>3. t \in SyncCall /\ t.channel = syncs[n].channel /\ t.store = syncs[n].store
          /\ t.execute = syncs[n].execute
      BY <3>2 DEF SyncCall
    <3>4. syncs' = [syncs EXCEPT ![n] = t]
      BY <2>2 DEF Return
    <3>5. /\ Follows(t, db.header)
          /\ ReachedAll(syncs[n], db.header) \subseteq ReachedAll(t, db.header)
      BY <3>1, <3>3 DEF IInv, Follow, SyncsFollow, Follows, BatchesFollow, StoreFollows,
                        Reached, ReachedAll
    <3> HIDE DEF t, n
    <3>6. syncs' \in Seq(SyncCall) /\ DOMAIN syncs' = DOMAIN syncs /\ SyncsFollow(syncs', db.header)
      BY <3>1, <3>3, <3>4, <3>5, OneCall DEF IInv, Follow
    <3>7. \A i \in DOMAIN syncs : syncs'[i].execute = syncs[i].execute
      BY <3>1, <3>3, <3>4
    <3>8. ParentsExecuted(syncs', db.meta)
      BY <3>6, <3>7, ParentsKept DEF IInv, Parents, FlagsKept
    <3> QED BY <3>6, <3>8, <1>1
  <2> QED BY <2>1, <2>2
<1>3. TypeOK'
  BY <1>1, <1>2 DEF IInv, TypeOK
<1>4. HeadCovered' /\ LiveStored(live', db'.header)
  BY <1>1 DEF IInv, Follow, HeadCovered
<1> QED BY <1>1, <1>2, <1>3, <1>4 DEF IInv, Follow, Parents, DownloadFollows

LEMMA ErrHolds ==
    ASSUME IInv, Err \/ Panic, UNCHANGED <<db, remote>>
    PROVE  IInv'
<1>1. "start" \in MainPc \ {"download"} /\ "dead" \in MainPc \ {"download"}
  BY DEF MainPc
<1> QED BY <1>1, DownHolds, ReturnHolds DEF Err, Panic

\* The step only moves the task that calls sync_node, and not to a download.
LEMMA MainHolds ==
    ASSUME IInv, UNCHANGED <<db, remote, syncs, live>>, main'.pc # "download",
           main' \in MainState
    PROVE  IInv'
<1>1. TypeOK'
  BY DEF IInv, TypeOK
<1>2. HeadCovered' /\ LiveStored(live', db'.header) /\ SyncsFollow(syncs', db'.header) /\ Parents'
  BY DEF IInv, Follow, HeadCovered, Parents
<1> QED BY <1>1, <1>2 DEF IInv, Follow, DownloadFollows

LEMMA OkHolds ==
    ASSUME IInv, Ok, UNCHANGED <<db, remote>>
    PROVE  IInv'
<1>1. "start" \in MainPc \ {"download"} /\ "join" \in MainPc \ {"download"}
  BY DEF MainPc
<1>2. CASE Return("start") \/ Return("join")
  BY <1>1, <1>2, ReturnHolds
<1>3. CASE main' = [main EXCEPT !.pc = "start", !.round = 2] /\ UNCHANGED <<syncs, live>>
  <2>0. main \in MainState
    BY DEF IInv, TypeOK
  <2>1. main' = [pc |-> "start", round |-> 2, next |-> main.next, last |-> main.last]
    BY <2>0, <1>3 DEF MainState
  <2>2. main' \in MainState /\ main'.pc # "download"
    BY <2>0, <2>1 DEF MainState, MainPc
  <2> QED BY <2>2, <1>3, MainHolds
<1> QED BY <1>2, <1>3 DEF Ok

LEMMA SearchIsInt ==
    ASSUME TypeOK, NEW from \in Int
    PROVE  find_highest_local_executed_block(from) \in Int
<1> DEFINE found == {n \in 2 .. from : is_block_executed(n)}
<1>0. found \in SUBSET Int /\ \A x \in found : x <= from
  OBVIOUS
<1>1. found # {} => Max(found) \in found
  <2> HIDE DEF found
  <2> QED BY <1>0, MaxOfBounded
<1>2. found # {} => Max(found) \in Int
  BY <1>1
<1> QED BY <1>2 DEF find_highest_local_executed_block, Below, NoHead

LEMMA BeginHolds ==
    ASSUME IInv, sync_node
    PROVE  IInv'
<1> DEFINE highest == IF db.head = NoHead THEN 0 ELSE find_highest_local_executed_block(db.head)
<1>0. db \in Database /\ db.head \in Int /\ db' = db /\ remote' = remote
  BY DEF IInv, TypeOK, Database, sync_node
<1>1. highest \in Int
  BY <1>0, SearchIsInt DEF IInv
<1>2. CASE Ok
  BY <1>0, <1>2, OkHolds
<1>3. CASE Panic
  BY <1>0, <1>3, ErrHolds
<1>4. CASE main' = [main EXCEPT !.pc = "lost"] /\ UNCHANGED <<syncs, live>>
  <2>1. main' \in MainState /\ main'.pc # "download"
    BY <1>4 DEF IInv, TypeOK, MainState, MainPc
  <2> QED BY <2>1, <1>0, <1>4, MainHolds
<1>5. CASE /\ syncs' = Append(syncs, NewSync(highest))
           /\ main' = [main EXCEPT !.pc = "download", !.last = remote.executed,
                           !.next = IF db.head = NoHead THEN 1 ELSE db.head + 1]
           /\ UNCHANGED live
  <2> DEFINE t == NewSync(highest)
             next == IF db.head = NoHead THEN 1 ELSE db.head + 1
  <2>1. next \in Int /\ 1 .. next - 1 \subseteq db.header
    BY <1>0 DEF NoHead, IInv, Follow, HeadCovered
  <2>2. main' \in MainState /\ main'.pc = "download" /\ main'.next = next
    <3>1. main \in MainState /\ remote.executed \in Int
      BY DEF IInv, TypeOK
    <3>2. main' = [pc |-> "download", round |-> main.round, next |-> next,
                   last |-> remote.executed]
      BY <1>5, <3>1 DEF MainState
    <3> QED BY <3>1, <3>2, <2>1 DEF MainState, MainPc
  <2>3. t \in SyncCall /\ t.channel = << >> /\ t.store = [pc |-> "recv", batch |-> {}]
        /\ t.execute.pc = "load"
    <3>1. remote.executed \in Int /\ highest + 1 \in Int
      BY <1>1 DEF IInv, TypeOK
    <3>2. << >> \in Seq(Int) /\ << >> \in Seq(SUBSET Blocks)
      BY EmptySeq
    <3> HIDE DEF highest
    <3> QED BY <3>1, <3>2 DEF NewSync, SyncCall, StorePc, ExecutePc
  <2>4. Follows(t, db.header) /\ db.header \subseteq ReachedAll(t, db.header)
    <3>1. Len(t.channel) = 0
      BY <2>3, EmptySeq
    <3> HIDE DEF t
    <3> QED BY <2>3, <3>1 DEF Follows, BatchesFollow, StoreFollows, ReachedAll, Reached
  <2> HIDE DEF t, next
  <2>5. syncs \in Seq(SyncCall) /\ Len(syncs) \in Nat /\ DOMAIN syncs = 1 .. Len(syncs)
    BY LenProperties DEF IInv, TypeOK
  <2>6. /\ syncs' \in Seq(SyncCall) /\ Len(syncs') = Len(syncs) + 1
        /\ syncs'[Len(syncs) + 1] = t /\ \A i \in 1 .. Len(syncs) : syncs'[i] = syncs[i]
        /\ DOMAIN syncs' = 1 .. Len(syncs) + 1
    BY <1>5, <2>3, <2>5, AppendProperties, LenProperties DEF t
  <2>7. ASSUME NEW i \in DOMAIN syncs'
        PROVE  i = Len(syncs) + 1 \/ (i \in DOMAIN syncs /\ syncs'[i] = syncs[i])
    BY <2>5, <2>6
  <2>8. SyncsFollow(syncs', db.header)
    BY <2>4, <2>6, <2>7 DEF IInv, Follow, SyncsFollow
  <2>9. ParentsExecuted(syncs', db.meta)
    BY <2>3, <2>6, <2>7 DEF IInv, Parents, ParentsExecuted
  <2>10. DownloadFollows(main', syncs', db.header)
    BY <2>1, <2>2, <2>4, <2>5, <2>6 DEF DownloadFollows
  <2>11. HeadCovered' /\ LiveStored(live', db'.header)
    BY <1>0, <1>5 DEF IInv, Follow, HeadCovered
  <2>12. TypeOK'
    BY <1>0, <1>5, <2>2, <2>6 DEF IInv, TypeOK
  <2> QED BY <1>0, <2>8, <2>9, <2>10, <2>11, <2>12 DEF IInv, Follow, Parents
<1> QED BY <1>2, <1>3, <1>4, <1>5 DEF sync_node

-----------------------------------------------------------------------------
\* Batches

LEMMA BatchFollows ==
    ASSUME IInv, Downloading, NEW missing
    PROVE  /\ Batch(missing) \in SUBSET Blocks /\ batch_upper_limit \in Int
           /\ Ends(Batch(missing), batch_upper_limit - 1)
           /\ 1 .. batch_upper_limit - 1
                 \subseteq ReachedAll(Current, db.header) \cup NumbersOf(Batch(missing))
<1>1. main.next \in Int /\ main.last \in Int /\ main.pc = "download" /\ main.next <= main.last
  BY DEF IInv, TypeOK, MainState, Downloading
<1>2. batch_upper_limit \in Int /\ main.next <= batch_upper_limit - 1
  BY <1>1, SyncAssumption DEF batch_upper_limit
<1>3. NumbersOf(Batch(missing)) = main.next .. batch_upper_limit - 1
  <2> DEFINE with(n) == n \in missing \/ n = main.next \/ has_epoch_ended(n)
             B == {[number |-> n, validators |-> with(n)] :
                     n \in main.next .. batch_upper_limit - 1}
  <2> HIDE DEF with
  <2>1. {b.number : b \in B} = main.next .. batch_upper_limit - 1
    <3>1. ASSUME NEW b \in B PROVE b.number \in main.next .. batch_upper_limit - 1
      OBVIOUS
    <3>2. ASSUME NEW n \in main.next .. batch_upper_limit - 1 PROVE \E b \in B : n = b.number
      <4>1. [number |-> n, validators |-> with(n)] \in B
        OBVIOUS
      <4> QED BY <4>1
    <3> HIDE DEF B
    <3> QED BY <3>1, <3>2
  <2>2. Batch(missing) = B
    BY DEF Batch, fetch_block, with
  <2> HIDE DEF B
  <2> QED BY <2>1, <2>2 DEF NumbersOf
<1>4. Batch(missing) \in SUBSET Blocks
  <2> SUFFICES ASSUME NEW n \in main.next .. batch_upper_limit - 1, NEW v \in BOOLEAN
               PROVE  [number |-> n, validators |-> v] \in Blocks
    BY DEF Batch, fetch_block, has_epoch_ended
  <2> QED BY <1>1, <1>2 DEF Blocks
<1>5. Ends(Batch(missing), batch_upper_limit - 1)
  BY <1>1, <1>2, <1>3 DEF Ends
<1>6. 1 .. main.next - 1 \subseteq ReachedAll(Current, db.header)
  BY <1>1 DEF IInv, Follow, DownloadFollows, Current
<1>7. 1 .. batch_upper_limit - 1
         \subseteq (1 .. main.next - 1) \cup (main.next .. batch_upper_limit - 1)
  BY <1>1, <1>2
<1> QED BY <1>2, <1>3, <1>4, <1>5, <1>6, <1>7

LEMMA SendHolds ==
    ASSUME IInv, Downloading, NEW missing, Send(missing), UNCHANGED <<db, remote>>
    PROVE  IInv'
<1>1. CASE Err
  BY <1>1, ErrHolds
<1>2. CASE /\ syncs' = [syncs EXCEPT ![Len(syncs)].channel = Append(@, Batch(missing))]
           /\ main' = [main EXCEPT !.next = batch_upper_limit]
           /\ UNCHANGED live
  <2> DEFINE n == Len(syncs)
             b == Batch(missing)
             t == [syncs[n] EXCEPT !.channel = Append(@, b)]
  <2>1. syncs \in Seq(SyncCall) /\ n \in Nat /\ n \in DOMAIN syncs
    BY LenProperties DEF IInv, TypeOK, Follow, DownloadFollows, Downloading
  <2>2. syncs[n] \in SyncCall /\ Follows(syncs[n], db.header) /\ Current = syncs[n]
    BY <2>1 DEF IInv, Follow, SyncsFollow, Current
  <2>3. /\ b \in SUBSET Blocks /\ batch_upper_limit \in Int /\ Ends(b, batch_upper_limit - 1)
        /\ 1 .. batch_upper_limit - 1 \subseteq ReachedAll(syncs[n], db.header) \cup NumbersOf(b)
    BY <2>2, BatchFollows
  <2> HIDE DEF b
  <2>4. Append(syncs[n].channel, b) \in Seq(SUBSET Blocks)
    BY <2>2, <2>3, AppendProperties DEF SyncCall
  <2>5. t \in SyncCall /\ t.store = syncs[n].store /\ t.execute = syncs[n].execute
        /\ t.channel = Append(syncs[n].channel, b)
    BY <2>2, <2>4 DEF SyncCall
  <2>6. syncs' = [syncs EXCEPT ![n] = t]
    BY <1>2 DEF b
  <2> HIDE DEF t
  <2>7. Follows(t, db.header) /\ 1 .. batch_upper_limit - 1 \subseteq ReachedAll(t, db.header)
    <3>1. batch_upper_limit - 1 \in Int
      BY <2>3
    <3> QED BY <3>1, <2>2, <2>3, <2>5, SendFollows
  <2> HIDE DEF n
  <2>8. /\ syncs' \in Seq(SyncCall) /\ DOMAIN syncs' = DOMAIN syncs /\ Len(syncs') = Len(syncs)
        /\ syncs'[n] = t /\ \A i \in DOMAIN syncs : i # n => syncs'[i] = syncs[i]
    <3>1. DOMAIN syncs = 1 .. Len(syncs)
      BY <2>1, LenProperties
    <3> QED BY <3>1, <2>1, <2>5, <2>6, ExceptSeq
  <2>9. SyncsFollow(syncs', db.header)
    BY <2>7, <2>8 DEF IInv, Follow, SyncsFollow
  <2>10. ParentsExecuted(syncs', db.meta)
    BY <2>5, <2>8, ParentsKept DEF IInv, Parents, FlagsKept
  <2>11. main' \in MainState /\ main'.next = batch_upper_limit
    BY <1>2, <2>3 DEF IInv, TypeOK, MainState
  <2>12. DownloadFollows(main', syncs', db.header)
    BY <2>1, <2>7, <2>8, <2>11 DEF DownloadFollows, n
  <2>13. HeadCovered' /\ LiveStored(live', db'.header)
    BY <1>2 DEF IInv, Follow, HeadCovered
  <2>14. TypeOK'
    BY <1>2, <2>8, <2>11 DEF IInv, TypeOK
  <2> QED BY <2>9, <2>10, <2>12, <2>13, <2>14 DEF IInv, Follow, Parents
<1> QED BY <1>1, <1>2 DEF Send

-----------------------------------------------------------------------------
\* The store task of one call.

\* One call changes; the tables keep what they have.
LEMMA CallHolds ==
    ASSUME IInv, NEW i \in DOMAIN syncs, NEW t \in SyncCall, syncs' = [syncs EXCEPT ![i] = t],
           ParentsExecuted(syncs', db'.meta), UNCHANGED <<remote, main, live>>,
           db' \in Database, db.header \subseteq db'.header, HeadCovered', Follows(t, db'.header),
           ReachedAll(syncs[i], db.header) \subseteq ReachedAll(t, db'.header)
    PROVE  IInv'
<1>1. syncs \in Seq(SyncCall)
  BY DEF IInv, TypeOK
<1>2. /\ syncs' \in Seq(SyncCall) /\ DOMAIN syncs' = DOMAIN syncs
      /\ SyncsFollow(syncs', db'.header) /\ DownloadFollows(main', syncs', db'.header)
  BY <1>1, OneCall DEF IInv, Follow
<1>3. LiveStored(live', db'.header)
  BY DEF IInv, Follow, LiveStored
<1>4. TypeOK'
  BY <1>2 DEF IInv, TypeOK
<1> QED BY <1>2, <1>3, <1>4 DEF IInv, Follow, Parents

\* The same when the executor of the call does not move.
LEMMA StoreTaskHolds ==
    ASSUME IInv, NEW i \in DOMAIN syncs, NEW t \in SyncCall, syncs' = [syncs EXCEPT ![i] = t],
           t.execute = syncs[i].execute, UNCHANGED <<remote, main, live>>,
           db' \in Database, db.header \subseteq db'.header, FlagsKept(db.meta, db'.meta),
           HeadCovered', Follows(t, db'.header),
           ReachedAll(syncs[i], db.header) \subseteq ReachedAll(t, db'.header)
    PROVE  IInv'
<1>1. syncs \in Seq(SyncCall)
  BY DEF IInv, TypeOK
<1>2. DOMAIN syncs' = DOMAIN syncs /\ \A j \in DOMAIN syncs : syncs'[j].execute = syncs[j].execute
  BY <1>1
<1>3. ParentsExecuted(syncs', db'.meta)
  BY <1>2, ParentsKept DEF IInv, Parents
<1> QED BY <1>3, CallHolds

=============================================================================
