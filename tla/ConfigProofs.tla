---------------------------- MODULE ConfigProofs ----------------------------
(***************************************************************************)
(* The properties of RuntimeConfig for every chain of blocks and any       *)
(* number of nodes and faults.  CachesAreCurrent is inductive once the     *)
(* types are known; that a refusal needs a loss also rests on why the last *)
(* attempt was refused and on what an executed system block says about     *)
(* staking.                                                                *)
(***************************************************************************)
EXTENDS RuntimeConfig, WellFoundedInduction, TLAPS

IsCache(k) == k = [c \in Caches |-> k[c]]

ConfigTypes ==
    /\ height \in [Replicas -> Nat]
    /\ cache = [n \in Replicas |-> cache[n]] /\ \A n \in Replicas : IsCache(cache[n])
    /\ errors \in [Replicas -> BOOLEAN]
    /\ attempt \in [Replicas -> {"none", "refused", "failed"}]

\* Block h is a system block that writes a staking contract no cache accepts.
BadStaking(h) == chain[h].system /\ chain[h].staking # Unset /\ ~ IsValid(chain[h].staking)

\* No node executed such a block.
StakingChecked == \A n \in Replicas : \A h \in 1 .. height[n] : ~ BadStaking(h)

\* Without errors a block is refused for an empty cache, or for what it writes.
RefusalCause ==
    \A n \in Replicas :
        attempt[n] = "refused" /\ ~ errors[n] =>
            \/ \E c \in Caches : cache[n][c] = Unset /\ Unreadable(c, height[n])
            \/ BadStaking(height[n] + 1)

ConfigInv == ConfigTypes /\ CachesAreCurrent /\ StakingChecked /\ RefusalCause

\* What CachesAreCurrent says of one cache that holds v.
Current(c, v, h, a) ==
    \/ v = LastValid(c, h)
    \/ a # "none" /\ v = LastValid(c, h + 1)
    \/ v = Unset /\ Unreadable(c, h)

-----------------------------------------------------------------------------
\* What the contracts hold.

LEMMA LatestIsLargest ==
    ASSUME NEW S, NEW h \in Nat, S \subseteq 1 .. h, S # {}
    PROVE  Latest(S) \in S /\ \A m \in S : m <= Latest(S)
<1> DEFINE T == {h - x : x \in S}
<1>0. PICK x0 \in S : TRUE
  OBVIOUS
<1>1. T # {} /\ T \subseteq Nat
  <2>1. h - x0 \in T
    OBVIOUS
  <2>2. \A x \in S : h - x \in Nat
    OBVIOUS
  <2> QED BY <2>1, <2>2
<1>2. PICK y \in T : \A z \in T : ~ (<<z, y>> \in OpToRel(<, Nat))
  BY <1>1, WFMin, NatLessThanWellFounded
<1>3. \A z \in T : y <= z
  <2> TAKE z \in T
  <2>1. z \in Nat /\ y \in Nat
    BY <1>1
  <2>2. ~ (z < y)
    BY <1>2, <2>1 DEF OpToRel
  <2> QED BY <2>1, <2>2
<1>4. PICK n \in S : y = h - n
  BY <1>2
<1>5. \A m \in S : m <= n
  <2> TAKE m \in S
  <2>1. h - m \in T
    OBVIOUS
  <2>2. y <= h - m
    BY <2>1, <1>3
  <2> QED BY <2>2, <1>4
<1>6. \E k \in S : \A m \in S : m <= k
  BY <1>5
<1> QED BY <1>6 DEF Latest

LEMMA LatestIs ==
    ASSUME NEW S, NEW h \in Nat, S \subseteq 1 .. h, NEW k \in S, \A m \in S : m <= k
    PROVE  Latest(S) = k
<1>1. Latest(S) \in S /\ \A m \in S : m <= Latest(S)
  BY LatestIsLargest
<1>0. \A x \in S : x \in Int
  OBVIOUS
<1>2. Latest(S) \in Int /\ k \in Int
  BY <1>0, <1>1
<1>3. Latest(S) <= k /\ k <= Latest(S)
  BY <1>1
<1> QED BY <1>2, <1>3

Valid(c, h) == {n \in Writes(c, h) : IsValid(chain[n][c])}

LEMMA LastValidIs ==
    ASSUME NEW c, NEW h \in Nat
    PROVE  /\ LastValid(c, h) = IF Valid(c, h) = {} THEN Unset ELSE chain[Latest(Valid(c, h))][c]
           /\ LastValid(c, h) = Unset <=> Valid(c, h) = {}
<1>1. LastValid(c, h) = IF Valid(c, h) = {} THEN Unset ELSE chain[Latest(Valid(c, h))][c]
  BY DEF LastValid, Valid
<1>2. ASSUME Valid(c, h) # {} PROVE LastValid(c, h) # Unset
  <2>1. Latest(Valid(c, h)) \in Valid(c, h)
    BY <1>2, LatestIsLargest DEF Valid, Writes
  <2> QED BY <1>1, <1>2, <2>1 DEF Valid, IsValid
<1> QED BY <1>1, <1>2

\* What a contract holds is the last valid value when it is valid.
LEMMA ContentValid ==
    ASSUME NEW c, NEW h \in Nat, IsValid(Content(c, h))
    PROVE  Content(c, h) = LastValid(c, h)
<1> DEFINE W == Writes(c, h)
<1>1. W # {} /\ Content(c, h) = chain[Latest(W)][c]
  BY DEF Content, IsValid
<1>2. Latest(W) \in W /\ \A m \in W : m <= Latest(W)
  BY <1>1, LatestIsLargest DEF Writes
<1>3. Latest(W) \in Valid(c, h) /\ \A m \in Valid(c, h) : m <= Latest(W)
  BY <1>1, <1>2 DEF Valid
<1>4. Latest(Valid(c, h)) = Latest(W)
  BY <1>3, LatestIs DEF Valid, Writes
<1> QED BY <1>1, <1>3, <1>4, LastValidIs

LEMMA ContentUnset ==
    ASSUME NEW c, NEW h \in Nat, Content(c, h) = Unset
    PROVE  LastValid(c, h) = Unset
<1>1. Writes(c, h) = {}
  <2> SUFFICES ASSUME Writes(c, h) # {} PROVE FALSE
    OBVIOUS
  <2>1. Latest(Writes(c, h)) \in Writes(c, h)
    BY LatestIsLargest DEF Writes
  <2> QED BY <2>1 DEF Content, Writes
<1> QED BY <1>1, LastValidIs DEF Valid

\* The config before the last one.
LEMMA PrevIs ==
    ASSUME NEW h \in Nat, IsValid(PrevConfig(h))
    PROVE  /\ Writes("config", h) # {}
           /\ Latest(Writes("config", h)) \in 1 .. h
           /\ PrevConfig(h) = Content("config", Latest(Writes("config", h)) - 1)
<1>1. Writes("config", h) # {}
  BY DEF PrevConfig, IsValid
<1>2. Latest(Writes("config", h)) \in 1 .. h
  BY <1>1, LatestIsLargest DEF Writes
<1> QED BY <1>1, <1>2 DEF PrevConfig, IsValid

LEMMA PrevValid ==
    ASSUME NEW h \in Nat, IsValid(PrevConfig(h)), ~ IsValid(Content("config", h))
    PROVE  PrevConfig(h) = LastValid("config", h)
<1> DEFINE k == Latest(Writes("config", h))
<1>1. k \in Writes("config", h) /\ k \in 1 .. h /\ \A m \in Writes("config", h) : m <= k
  BY PrevIs, LatestIsLargest DEF Writes
<1>2. PrevConfig(h) = Content("config", k - 1) /\ k - 1 \in Nat
  BY <1>1, PrevIs
<1>3. PrevConfig(h) = LastValid("config", k - 1)
  BY <1>2, ContentValid
<1>4. ~ IsValid(chain[k]["config"])
  BY PrevIs DEF Content
<1> HIDE DEF k
<1>5. Valid("config", h) = Valid("config", k - 1)
  <2>1. ASSUME NEW m \in Valid("config", h) PROVE m \in Valid("config", k - 1)
    <3>1. m # k /\ m <= k /\ m \in 1 .. h
      BY <1>1, <1>4, <2>1 DEF Valid, Writes
    <3> QED BY <3>1, <1>1, <2>1 DEF Valid, Writes
  <2>2. ASSUME NEW m \in Valid("config", k - 1) PROVE m \in Valid("config", h)
    BY <1>1, <2>2 DEF Valid, Writes
  <2> QED BY <2>1, <2>2
<1> QED BY <1>2, <1>3, <1>5, LastValidIs

\* Where no valid value was ever written, a restart finds none.
LEMMA NeverValid ==
    ASSUME NEW c, NEW h \in Nat, LastValid(c, h) = Unset
    PROVE  Unreadable(c, h)
<1>1. Valid(c, h) = {}
  BY LastValidIs
<1>2. ~ IsValid(Content(c, h))
  BY ContentValid DEF IsValid
<1>3. ASSUME c = "config", IsValid(PrevConfig(h)) PROVE FALSE
  BY <1>2, <1>3, PrevValid DEF IsValid
<1> QED BY <1>2, <1>3 DEF Unreadable

\* The next block leaves a contract alone, or writes it.
LEMMA Unwritten ==
    ASSUME NEW c, NEW h \in Nat, chain[h + 1][c] = Unset
    PROVE  /\ LastValid(c, h + 1) = LastValid(c, h)
           /\ Unreadable(c, h + 1) <=> Unreadable(c, h)
<1>1. Writes(c, h + 1) = Writes(c, h)
  BY DEF Writes
<1>2. Content(c, h + 1) = Content(c, h)
  BY <1>1 DEF Content
<1>3. c = "config" => PrevConfig(h + 1) = PrevConfig(h)
  BY <1>1 DEF PrevConfig
<1> QED BY <1>1, <1>2, <1>3 DEF LastValid, Unreadable

LEMMA Written ==
    ASSUME NEW c, NEW h \in Nat, chain[h + 1][c] # Unset
    PROVE  Content(c, h + 1) = chain[h + 1][c]
<1>1. /\ h + 1 \in Writes(c, h + 1) /\ \A m \in Writes(c, h + 1) : m <= h + 1
      /\ h + 1 \in Nat /\ Writes(c, h + 1) \subseteq 1 .. h + 1
  BY DEF Writes
<1>2. Latest(Writes(c, h + 1)) = h + 1
  BY <1>1, LatestIs
<1> QED BY <1>1, <1>2 DEF Content

LEMMA InvalidWritten ==
    ASSUME NEW c, NEW h \in Nat, ~ IsValid(chain[h + 1][c])
    PROVE  LastValid(c, h + 1) = LastValid(c, h)
<1>1. Valid(c, h + 1) = Valid(c, h)
  <2>1. ASSUME NEW m \in Valid(c, h + 1) PROVE m \in Valid(c, h)
    <3>1. m # h + 1 /\ m \in 1 .. h + 1
      BY <2>1 DEF Valid, Writes
    <3> QED BY <3>1, <2>1 DEF Valid, Writes
  <2>2. ASSUME NEW m \in Valid(c, h) PROVE m \in Valid(c, h + 1)
    BY <2>2 DEF Valid, Writes
  <2> QED BY <2>1, <2>2
<1> QED BY <1>1, LastValidIs

-----------------------------------------------------------------------------
\* The refreshes.

\* r is what refreshing c makes of the caches k after h blocks, when no read fails.
Refreshed(c, k, h, r) ==
    /\ IsCache(r.cache) /\ \A d \in Caches \ {c} : r.cache[d] = k[d]
    /\ IsValid(Content(c, h)) => r.ok /\ r.cache[c] = Content(c, h)
    /\ ~ IsValid(Content(c, h)) =>
          \/ r.ok /\ r.cache[c] = k[c] /\ k[c] # Unset
          \/ /\ ~ r.ok /\ r.cache[c] = k[c]
             /\ Content(c, h) = Unset \/ c = "staking" \/ k[c] = Unset
             /\ c = "config" /\ Content(c, h) # Unset => ~ IsValid(PrevConfig(h))
          \/ /\ c = "config" /\ r.ok /\ k[c] = Unset
             /\ IsValid(PrevConfig(h)) /\ r.cache[c] = PrevConfig(h)

LEMMA CacheUpdated ==
    ASSUME NEW k, IsCache(k), NEW c \in Caches, NEW v
    PROVE  /\ IsCache([k EXCEPT ![c] = v]) /\ [k EXCEPT ![c] = v][c] = v
           /\ \A d \in Caches \ {c} : [k EXCEPT ![c] = v][d] = k[d]
BY DEF IsCache

LEMMA ConfigRefreshed ==
    ASSUME NEW k, IsCache(k), NEW h
    PROVE  Refreshed("config", k, h, refresh_system_runtime_config(k, h, {}))
<1> DEFINE v == Content("config", h)  r == refresh_system_runtime_config(k, h, {})
<1>1. "config" \in Caches /\ Read("config", h, {}) = v
  BY DEF Caches, Read
<1>2. CASE v = Unset
  <2>1. r = Err(k)
    BY <1>1, <1>2 DEF refresh_system_runtime_config
  <2> QED BY <1>1, <1>2, <2>1 DEF Refreshed, Err, IsValid
<1>3. CASE IsValid(v)
  <2>1. r = Ok([k EXCEPT !["config"] = v])
    BY <1>1, <1>3 DEF refresh_system_runtime_config, IsValid
  <2> QED BY <1>1, <1>3, <2>1, CacheUpdated DEF Refreshed, Ok
<1>4. CASE v # Unset /\ ~ IsValid(v) /\ k["config"] # Unset
  <2>1. r = Ok(k)
    BY <1>1, <1>4 DEF refresh_system_runtime_config
  <2> QED BY <1>1, <1>4, <2>1 DEF Refreshed, Ok
<1>5. CASE v # Unset /\ ~ IsValid(v) /\ k["config"] = Unset /\ IsValid(PrevConfig(h))
  <2>1. r = Ok([k EXCEPT !["config"] = PrevConfig(h)])
    BY <1>1, <1>5 DEF refresh_system_runtime_config
  <2> QED BY <1>1, <1>5, <2>1, CacheUpdated DEF Refreshed, Ok
<1>6. CASE v # Unset /\ ~ IsValid(v) /\ k["config"] = Unset /\ ~ IsValid(PrevConfig(h))
  <2>1. r = Err(k)
    BY <1>1, <1>6 DEF refresh_system_runtime_config
  <2> QED BY <1>1, <1>6, <2>1 DEF Refreshed, Err
<1> QED BY <1>2, <1>3, <1>4, <1>5, <1>6

LEMMA DenyRefreshed ==
    ASSUME NEW k, IsCache(k), NEW h
    PROVE  Refreshed("deny", k, h, refresh_system_runtime_deny_config(k, h, {}))
<1> DEFINE v == Content("deny", h)  r == refresh_system_runtime_deny_config(k, h, {})
<1>1. "deny" \in Caches /\ Read("deny", h, {}) = v
  BY DEF Caches, Read
<1>2. CASE IsValid(v)
  <2>1. r = Ok([k EXCEPT !["deny"] = v])
    BY <1>1, <1>2 DEF refresh_system_runtime_deny_config
  <2> QED BY <1>1, <1>2, <2>1, CacheUpdated DEF Refreshed, Ok
<1>3. CASE ~ IsValid(v) /\ v # Unset /\ k["deny"] # Unset
  <2>1. r = Ok(k)
    BY <1>1, <1>3 DEF refresh_system_runtime_deny_config
  <2> QED BY <1>1, <1>3, <2>1 DEF Refreshed, Ok
<1>4. CASE ~ IsValid(v) /\ (v = Unset \/ k["deny"] = Unset)
  <2>1. r = Err(k)
    BY <1>1, <1>4 DEF refresh_system_runtime_deny_config
  <2> QED BY <1>1, <1>4, <2>1 DEF Refreshed, Err
<1> QED BY <1>2, <1>3, <1>4

LEMMA StakingRefreshed ==
    ASSUME NEW k, IsCache(k), NEW h
    PROVE  Refreshed("staking", k, h, refresh_system_staking_config(k, h, {}))
<1> DEFINE v == Content("staking", h)  r == refresh_system_staking_config(k, h, {})
<1>1. "staking" \in Caches /\ Read("staking", h, {}) = v
  BY DEF Caches, Read
<1>2. CASE IsValid(v)
  <2>1. r = Ok([k EXCEPT !["staking"] = v])
    BY <1>1, <1>2 DEF refresh_system_staking_config
  <2> QED BY <1>1, <1>2, <2>1, CacheUpdated DEF Refreshed, Ok
<1>3. CASE ~ IsValid(v)
  <2>1. r = Err(k)
    BY <1>1, <1>3 DEF refresh_system_staking_config
  <2> QED BY <1>1, <1>3, <2>1 DEF Refreshed, Err
<1> QED BY <1>2, <1>3

\* Whatever reads fail, a refresh returns caches, and the one of staking succeeds
\* only with a valid value.
LEMMA RefreshTypes ==
    ASSUME NEW k, IsCache(k), NEW h, NEW lost
    PROVE  /\ IsCache(refresh_system_runtime_config(k, h, lost).cache)
           /\ IsCache(refresh_system_runtime_deny_config(k, h, lost).cache)
           /\ IsCache(refresh_system_staking_config(k, h, lost).cache)
           /\ refresh_system_staking_config(k, h, lost).ok => IsValid(Content("staking", h))
<1>0. {"config", "deny", "staking"} = Caches
  BY DEF Caches
<1>1. \A v : /\ IsCache([k EXCEPT !["config"] = v]) /\ IsCache([k EXCEPT !["deny"] = v])
             /\ IsCache([k EXCEPT !["staking"] = v])
  BY <1>0, CacheUpdated
<1>2. IsCache(refresh_system_runtime_config(k, h, lost).cache)
  BY <1>1 DEF refresh_system_runtime_config, Ok, Err
<1>3. IsCache(refresh_system_runtime_deny_config(k, h, lost).cache)
  BY <1>1 DEF refresh_system_runtime_deny_config, Ok, Err
<1>4. IsCache(refresh_system_staking_config(k, h, lost).cache)
  BY <1>1 DEF refresh_system_staking_config, Ok, Err
<1>5. refresh_system_staking_config(k, h, lost).ok => IsValid(Content("staking", h))
  BY DEF refresh_system_staking_config, Ok, Err, Read, IsValid
<1> QED BY <1>2, <1>3, <1>4, <1>5

-----------------------------------------------------------------------------
\* One cache after a refresh.

LEMMA UnsetIsUnreadable ==
    ASSUME NEW c, NEW h \in Nat, NEW a, Current(c, Unset, h, a)
    PROVE  Unreadable(c, h)
<1>1. CASE LastValid(c, h) = Unset
  BY <1>1, NeverValid
<1>2. CASE LastValid(c, h + 1) = Unset
  <2>1. Valid(c, h + 1) = {}
    BY <1>2, LastValidIs
  <2>2. Valid(c, h) = {}
    BY <2>1 DEF Valid, Writes
  <2> QED BY <2>2, LastValidIs, NeverValid
<1> QED BY <1>1, <1>2 DEF Current

\* A node that starts refreshes what its executed blocks left.
LEMMA InitializedCurrent ==
    ASSUME NEW c, NEW h \in Nat, NEW a, NEW k, NEW r, Refreshed(c, k, h, r),
           k[c] = Unset \/ Current(c, k[c], h, a)
    PROVE  /\ Current(c, r.cache[c], h, a)
           /\ k[c] = Unset /\ Unreadable(c, h) => r.cache[c] = Unset
<1>1. CASE IsValid(Content(c, h))
  BY <1>1, ContentValid DEF Refreshed, Current, Unreadable
<1>2. CASE ~ IsValid(Content(c, h)) /\ r.ok /\ r.cache[c] = k[c] /\ k[c] # Unset
  BY <1>2
<1>3. CASE /\ ~ IsValid(Content(c, h)) /\ r.cache[c] = k[c]
           /\ c = "config" /\ Content(c, h) # Unset => ~ IsValid(PrevConfig(h))
  <2>1. CASE k[c] # Unset
    BY <1>3, <2>1
  <2>2. CASE k[c] = Unset /\ Content(c, h) = Unset
    BY <1>3, <2>2, ContentUnset DEF Current
  <2>3. CASE k[c] = Unset /\ Content(c, h) # Unset
    BY <1>3, <2>3 DEF Current, Unreadable
  <2> QED BY <2>1, <2>2, <2>3
<1>4. CASE /\ ~ IsValid(Content(c, h)) /\ c = "config" /\ IsValid(PrevConfig(h))
           /\ r.cache[c] = PrevConfig(h)
  BY <1>4, PrevValid DEF Current, Unreadable
<1> QED BY <1>1, <1>2, <1>3, <1>4 DEF Refreshed

\* A block that writes the contract makes its cache the last valid value, unless
\* the block is at fault or the cache was empty.
Outcome(c, k, h, r) ==
    /\ r.ok => r.cache[c] = LastValid(c, h)
    /\ ~ r.ok => /\ r.cache[c] = k[c] /\ ~ IsValid(chain[h][c])
                 /\ c = "staking" \/ k[c] = Unset

LEMMA WrittenCurrent ==
    ASSUME NEW c, NEW h \in Nat, NEW a, NEW k, NEW r,
           Refreshed(c, k, h + 1, r), Current(c, k[c], h, a), chain[h + 1][c] # Unset
    PROVE  Outcome(c, k, h + 1, r)
<1>1. Content(c, h + 1) = chain[h + 1][c] /\ h + 1 \in Nat
  BY Written
<1>2. CASE IsValid(Content(c, h + 1))
  BY <1>1, <1>2, ContentValid DEF Refreshed, Outcome
<1>3. CASE ~ IsValid(Content(c, h + 1))
  <2>1. LastValid(c, h + 1) = LastValid(c, h)
    BY <1>1, <1>3, InvalidWritten
  <2>2. k[c] # Unset => k[c] = LastValid(c, h + 1)
    BY <2>1 DEF Current
  <2>3. c = "config" /\ IsValid(PrevConfig(h + 1)) => PrevConfig(h + 1) = LastValid(c, h + 1)
    BY <1>1, <1>3, PrevValid
  <2> QED BY <1>1, <1>3, <2>2, <2>3 DEF Refreshed, Outcome
<1> QED BY <1>2, <1>3

-----------------------------------------------------------------------------
\* The caches after an attempt at block h + 1.

Attempted(k, h, r) ==
    /\ IsCache(r.cache)
    /\ \A c \in Caches : r.cache[c] = k[c] \/ r.cache[c] = LastValid(c, h + 1)
    /\ r.ok => \A c \in Caches : IF chain[h + 1][c] = Unset THEN r.cache[c] = k[c]
                                 ELSE r.cache[c] = LastValid(c, h + 1)
    /\ ~ r.ok => \/ \E c \in Caches : k[c] = Unset /\ r.cache[c] = Unset
                 \/ chain[h + 1].staking # Unset /\ ~ IsValid(chain[h + 1].staking)

LEMMA AppliedChanges ==
    ASSUME NEW k, IsCache(k), NEW h \in Nat, NEW a,
           \A c \in Caches : Current(c, k[c], h, a)
    PROVE  Attempted(k, h, apply_system_contracts_changes(k, h + 1, {}))
<1> DEFINE wrote(c) == chain[h + 1][c] # Unset
           r1 == IF wrote("config") THEN refresh_system_runtime_config(k, h + 1, {}) ELSE Ok(k)
           r2 == IF r1.ok /\ wrote("deny")
                 THEN refresh_system_runtime_deny_config(r1.cache, h + 1, {}) ELSE r1
           r3 == IF r2.ok /\ wrote("staking")
                 THEN refresh_system_staking_config(r2.cache, h + 1, {}) ELSE r2
<1>0. /\ apply_system_contracts_changes(k, h + 1, {}) = r3
      /\ Caches = {"config", "deny", "staking"}
      /\ "config" \in Caches /\ "deny" \in Caches /\ "staking" \in Caches
  BY DEF apply_system_contracts_changes, Caches
<1>1. /\ IsCache(r1.cache) /\ r1.cache["deny"] = k["deny"] /\ r1.cache["staking"] = k["staking"]
      /\ r1.ok => IF wrote("config") THEN r1.cache["config"] = LastValid("config", h + 1)
                  ELSE r1.cache["config"] = k["config"]
      /\ ~ r1.ok => r1.cache["config"] = k["config"] /\ k["config"] = Unset
  <2>1. CASE wrote("config")
    <3>1. Refreshed("config", k, h + 1, r1)
      BY <2>1, ConfigRefreshed
    <3> HIDE DEF r1
    <3>2. /\ r1.ok => r1.cache["config"] = LastValid("config", h + 1)
          /\ ~ r1.ok => /\ r1.cache["config"] = k["config"]
                        /\ "config" = "staking" \/ k["config"] = Unset
      <4>1. Current("config", k["config"], h, a) /\ chain[h + 1]["config"] # Unset
        BY <1>0, <2>1
      <4>2. Outcome("config", k, h + 1, r1)
        BY <3>1, <4>1, WrittenCurrent
      <4> QED BY <4>2 DEF Outcome
    <3> QED BY <1>0, <2>1, <3>1, <3>2 DEF Refreshed
  <2>2. CASE ~ wrote("config")
    BY <2>2 DEF Ok
  <2> QED BY <2>1, <2>2
<1> HIDE DEF r1
<1>2. /\ IsCache(r2.cache) /\ r2.cache["config"] = r1.cache["config"]
      /\ r2.cache["staking"] = k["staking"]
      /\ r2.ok => r1.ok /\ IF wrote("deny") THEN r2.cache["deny"] = LastValid("deny", h + 1)
                           ELSE r2.cache["deny"] = k["deny"]
      /\ ~ r2.ok => r2.cache["deny"] = k["deny"] /\ (~ r1.ok \/ k["deny"] = Unset)
  <2>1. CASE r1.ok /\ wrote("deny")
    <3>1. Refreshed("deny", r1.cache, h + 1, r2)
      BY <1>1, <2>1, DenyRefreshed
    <3>2. Current("deny", r1.cache["deny"], h, a)
      BY <1>0, <1>1
    <3> HIDE DEF r2
    <3>3. /\ r2.ok => r2.cache["deny"] = LastValid("deny", h + 1)
          /\ ~ r2.ok => /\ r2.cache["deny"] = r1.cache["deny"]
                        /\ "deny" = "staking" \/ r1.cache["deny"] = Unset
      <4>1. chain[h + 1]["deny"] # Unset
        BY <2>1
      <4>2. Outcome("deny", r1.cache, h + 1, r2)
        BY <3>1, <3>2, <4>1, WrittenCurrent
      <4> QED BY <4>2 DEF Outcome
    <3> QED BY <1>0, <1>1, <2>1, <3>1, <3>3 DEF Refreshed
  <2>2. CASE ~ (r1.ok /\ wrote("deny"))
    BY <1>1, <2>2
  <2> QED BY <2>1, <2>2
<1> HIDE DEF r2
<1>3. /\ IsCache(r3.cache) /\ r3.cache["config"] = r2.cache["config"]
      /\ r3.cache["deny"] = r2.cache["deny"]
      /\ r3.ok => r2.ok /\ IF wrote("staking")
                           THEN r3.cache["staking"] = LastValid("staking", h + 1)
                           ELSE r3.cache["staking"] = k["staking"]
      /\ ~ r3.ok => /\ r3.cache["staking"] = k["staking"]
                    /\ ~ r2.ok \/ (wrote("staking") /\ ~ IsValid(chain[h + 1]["staking"]))
  <2>1. CASE r2.ok /\ wrote("staking")
    <3>1. Refreshed("staking", r2.cache, h + 1, r3)
      BY <1>2, <2>1, StakingRefreshed
    <3>2. Current("staking", r2.cache["staking"], h, a)
      BY <1>0, <1>2
    <3> HIDE DEF r3
    <3>3. /\ r3.ok => r3.cache["staking"] = LastValid("staking", h + 1)
          /\ ~ r3.ok => /\ r3.cache["staking"] = r2.cache["staking"]
                        /\ ~ IsValid(chain[h + 1]["staking"])
      <4>1. chain[h + 1]["staking"] # Unset
        BY <2>1
      <4>2. Outcome("staking", r2.cache, h + 1, r3)
        BY <3>1, <3>2, <4>1, WrittenCurrent
      <4> QED BY <4>2 DEF Outcome
    <3> QED BY <1>0, <1>2, <2>1, <3>1, <3>3 DEF Refreshed
  <2>2. CASE ~ (r2.ok /\ wrote("staking"))
    BY <1>2, <2>2
  <2> QED BY <2>1, <2>2
<1> HIDE DEF r3
<1> QED BY <1>0, <1>1, <1>2, <1>3 DEF Attempted

\* Whatever reads fail, the caches stay caches, and a success means that the
\* staking contract the block wrote is valid.
LEMMA AppliedTypes ==
    ASSUME NEW k, IsCache(k), NEW h \in Nat, NEW lost
    PROVE  /\ IsCache(apply_system_contracts_changes(k, h + 1, lost).cache)
           /\ /\ apply_system_contracts_changes(k, h + 1, lost).ok
              /\ chain[h + 1].staking # Unset
              => IsValid(chain[h + 1].staking)
<1> DEFINE wrote(c) == chain[h + 1][c] # Unset
           r1 == IF wrote("config") THEN refresh_system_runtime_config(k, h + 1, lost) ELSE Ok(k)
           r2 == IF r1.ok /\ wrote("deny")
                 THEN refresh_system_runtime_deny_config(r1.cache, h + 1, lost) ELSE r1
           r3 == IF r2.ok /\ wrote("staking")
                 THEN refresh_system_staking_config(r2.cache, h + 1, lost) ELSE r2
<1>0. apply_system_contracts_changes(k, h + 1, lost) = r3
  BY DEF apply_system_contracts_changes
<1>1. IsCache(r1.cache)
  BY RefreshTypes DEF Ok
<1> HIDE DEF r1
<1>2. IsCache(r2.cache)
  BY <1>1, RefreshTypes
<1> HIDE DEF r2
<1>3. /\ IsCache(r3.cache)
      /\ r3.ok /\ wrote("staking") => IsValid(Content("staking", h + 1))
  BY <1>2, RefreshTypes
<1>4. wrote("staking") => Content("staking", h + 1) = chain[h + 1]["staking"]
  BY Written
<1> QED BY <1>0, <1>3, <1>4

\* A node that starts.
LEMMA Started ==
    ASSUME NEW k, IsCache(k), NEW h \in Nat, NEW a,
           \A c \in Caches : k[c] = Unset \/ Current(c, k[c], h, a)
    PROVE  /\ IsCache(try_initialize_runtime_configs(k, h, {}))
           /\ \A c \in Caches :
                 /\ Current(c, try_initialize_runtime_configs(k, h, {})[c], h, a)
                 /\ k[c] = Unset /\ Unreadable(c, h) =>
                       try_initialize_runtime_configs(k, h, {})[c] = Unset
<1> DEFINE r1 == refresh_system_runtime_config(k, h, {})
           r2 == refresh_system_staking_config(r1.cache, h, {})
           r3 == refresh_system_runtime_deny_config(r2.cache, h, {})
<1>0. /\ try_initialize_runtime_configs(k, h, {}) = r3.cache
      /\ Caches = {"config", "deny", "staking"}
      /\ "config" \in Caches /\ "deny" \in Caches /\ "staking" \in Caches
  BY DEF try_initialize_runtime_configs, Caches
<1>1. Refreshed("config", k, h, r1)
  BY ConfigRefreshed
<1> HIDE DEF r1
<1>2. Refreshed("staking", r1.cache, h, r2)
  BY <1>1, StakingRefreshed DEF Refreshed
<1> HIDE DEF r2
<1>3. Refreshed("deny", r2.cache, h, r3)
  BY <1>2, DenyRefreshed DEF Refreshed
<1> HIDE DEF r3
<1>4. /\ r1.cache["staking"] = k["staking"] /\ r2.cache["deny"] = k["deny"]
      /\ r3.cache["config"] = r1.cache["config"] /\ r3.cache["staking"] = r2.cache["staking"]
      /\ IsCache(r3.cache)
  BY <1>0, <1>1, <1>2, <1>3 DEF Refreshed
<1>5. /\ Current("config", r1.cache["config"], h, a)
      /\ k["config"] = Unset /\ Unreadable("config", h) => r1.cache["config"] = Unset
  BY <1>0, <1>1, InitializedCurrent
<1>6. /\ Current("staking", r2.cache["staking"], h, a)
      /\ k["staking"] = Unset /\ Unreadable("staking", h) => r2.cache["staking"] = Unset
  BY <1>0, <1>2, <1>4, InitializedCurrent
<1>7. /\ Current("deny", r3.cache["deny"], h, a)
      /\ k["deny"] = Unset /\ Unreadable("deny", h) => r3.cache["deny"] = Unset
  BY <1>0, <1>3, <1>4, InitializedCurrent
<1> QED BY <1>0, <1>4, <1>5, <1>6, <1>7

LEMMA StartedTypes ==
    ASSUME NEW k, IsCache(k), NEW h, NEW lost
    PROVE  IsCache(try_initialize_runtime_configs(k, h, lost))
<1>1. IsCache(refresh_system_runtime_config(k, h, lost).cache)
  BY RefreshTypes
<1>2. IsCache(refresh_system_staking_config(
                refresh_system_runtime_config(k, h, lost).cache, h, lost).cache)
  BY <1>1, RefreshTypes
<1> QED BY <1>2, RefreshTypes DEF try_initialize_runtime_configs

-----------------------------------------------------------------------------
\* The steps.

LEMMA SameChain ==
    ASSUME chain' = chain
    PROVE  \A c, h : /\ LastValid(c, h)' = LastValid(c, h)
                     /\ Unreadable(c, h)' <=> Unreadable(c, h)
                     /\ BadStaking(h)' <=> BadStaking(h)
<1>1. \A c, h : Writes(c, h)' = Writes(c, h)
  BY DEF Writes
<1>2. \A c, h : Content(c, h)' = Content(c, h)
  BY <1>1 DEF Content
<1>3. \A h : PrevConfig(h)' = PrevConfig(h)
  BY <1>1, <1>2 DEF PrevConfig
<1>4. \A c, h : LastValid(c, h)' = LastValid(c, h)
  BY <1>1 DEF LastValid
<1>5. \A c, h : Unreadable(c, h)' <=> Unreadable(c, h)
  BY <1>2, <1>3 DEF Unreadable
<1>6. \A h : BadStaking(h)' <=> BadStaking(h)
  BY DEF BadStaking
<1> QED BY <1>4, <1>5, <1>6

\* What a step of node n has to leave behind.
NodeKeeps(k, h, e, a) ==
    /\ IsCache(k) /\ h \in Nat /\ e \in BOOLEAN /\ a \in {"none", "refused", "failed"}
    /\ ~ e => \A c \in Caches : Current(c, k[c], h, a)
    /\ \A j \in 1 .. h : ~ BadStaking(j)
    /\ a = "refused" /\ ~ e => \/ \E c \in Caches : k[c] = Unset /\ Unreadable(c, h)
                               \/ BadStaking(h + 1)

LEMMA NodeHas ==
    ASSUME ConfigInv, NEW n \in Replicas
    PROVE  NodeKeeps(cache[n], height[n], errors[n], attempt[n])
<1>1. IsCache(cache[n]) /\ height[n] \in Nat /\ errors[n] \in BOOLEAN
  BY DEF ConfigInv, ConfigTypes
<1>2. attempt[n] \in {"none", "refused", "failed"}
  BY DEF ConfigInv, ConfigTypes
<1> QED BY <1>1, <1>2 DEF ConfigInv, NodeKeeps, CachesAreCurrent, Current, StakingChecked, RefusalCause

LEMMA NodeStep ==
    ASSUME ConfigInv, NEW n \in Replicas, chain' = chain,
           NEW k, cache' = [cache EXCEPT ![n] = k], NEW h, height' = [height EXCEPT ![n] = h],
           NEW e, errors' = [errors EXCEPT ![n] = e], NEW a, attempt' = [attempt EXCEPT ![n] = a],
           NodeKeeps(k, h, e, a)
    PROVE  ConfigInv'
<1>1. \A m \in Replicas :
         NodeKeeps(IF m = n THEN k ELSE cache[m], IF m = n THEN h ELSE height[m],
                   IF m = n THEN e ELSE errors[m], IF m = n THEN a ELSE attempt[m])
  BY NodeHas
<1>2. \A m \in Replicas :
         /\ cache'[m] = IF m = n THEN k ELSE cache[m]
         /\ height'[m] = IF m = n THEN h ELSE height[m]
         /\ errors'[m] = IF m = n THEN e ELSE errors[m]
         /\ attempt'[m] = IF m = n THEN a ELSE attempt[m]
  BY DEF ConfigInv, ConfigTypes
<1>3. \A m \in Replicas : NodeKeeps(cache'[m], height'[m], errors'[m], attempt'[m])
  <2> TAKE m \in Replicas
  <2> QED BY <1>1, <1>2
<1>4. ConfigTypes'
  <2>1. cache' = [m \in Replicas |-> cache'[m]]
    BY DEF ConfigInv, ConfigTypes
  <2>2. h \in Nat /\ e \in BOOLEAN /\ a \in {"none", "refused", "failed"}
    BY DEF NodeKeeps
  <2>3. height' \in [Replicas -> Nat] /\ errors' \in [Replicas -> BOOLEAN]
        /\ attempt' \in [Replicas -> {"none", "refused", "failed"}]
    BY <2>2 DEF ConfigInv, ConfigTypes
  <2>4. \A m \in Replicas : IsCache(cache'[m])
    BY <1>3 DEF NodeKeeps
  <2> QED BY <2>1, <2>3, <2>4 DEF ConfigTypes
<1>5. CachesAreCurrent'
  BY <1>3, SameChain DEF CachesAreCurrent, NodeKeeps, Current
<1>6. StakingChecked'
  BY <1>3, SameChain DEF StakingChecked, NodeKeeps
<1>7. RefusalCause'
  BY <1>3, SameChain DEF RefusalCause, NodeKeeps
<1> QED BY <1>4, <1>5, <1>6, <1>7 DEF ConfigInv

\* The part of an attempt that Execute and CommitFails share.
LEMMA NotExecuted ==
    ASSUME ConfigInv, NEW n \in Replicas, NEW e \in BOOLEAN, ~ e => ~ errors[n],
           NEW a \in {"refused", "failed"}, NEW r, IsCache(r.cache),
           ~ e => Attempted(cache[n], height[n], r),
           a = "refused" => chain[height[n] + 1].system /\ ~ r.ok
    PROVE  NodeKeeps(r.cache, height[n], e, a)
<1> DEFINE k == cache[n]  h == height[n]
<1>1. NodeKeeps(k, h, errors[n], attempt[n])
  BY NodeHas
<1>2. h \in Nat /\ \A j \in 1 .. h : ~ BadStaking(j)
  BY <1>1 DEF NodeKeeps
<1>3. ASSUME ~ e
      PROVE  \A c \in Caches : Current(c, k[c], h, attempt[n])
  BY <1>1, <1>3 DEF NodeKeeps
<1>4. ASSUME ~ e, NEW c \in Caches PROVE Current(c, r.cache[c], h, a)
  BY <1>3, <1>4 DEF Attempted, Current
<1>5. ASSUME ~ e, a = "refused"
      PROVE  \/ \E c \in Caches : r.cache[c] = Unset /\ Unreadable(c, h)
             \/ BadStaking(h + 1)
  <2>1. CASE \E c \in Caches : k[c] = Unset /\ r.cache[c] = Unset
    <3>1. PICK c \in Caches : k[c] = Unset /\ r.cache[c] = Unset
      BY <2>1
    <3>2. Current(c, Unset, h, attempt[n])
      BY <1>3, <1>5, <3>1
    <3>3. Unreadable(c, h)
      BY <1>2, <3>2, UnsetIsUnreadable
    <3> QED BY <3>1, <3>3
  <2>2. CASE chain[h + 1].staking # Unset /\ ~ IsValid(chain[h + 1].staking)
    BY <1>5, <2>2 DEF BadStaking
  <2> QED BY <1>5, <2>1, <2>2 DEF Attempted
<1> QED BY <1>2, <1>4, <1>5 DEF NodeKeeps

LEMMA ExecuteHolds ==
    ASSUME ConfigInv, NEW n \in Replicas, NEW lost, Execute(n, lost)
    PROVE  ConfigInv'
<1> DEFINE k == cache[n]
           h == height[n]
           r == apply_system_contracts_changes(k, h + 1, lost)
           refused == chain[h + 1].system /\ ~ r.ok
           e == errors[n] \/ lost # {} \/ (~ r.ok /\ ~ refused)
           a == IF ~ refused THEN "none" ELSE IF lost = {} THEN "refused" ELSE "failed"
           g == IF refused THEN h ELSE h + 1
<1>1. /\ chain' = chain /\ cache' = [cache EXCEPT ![n] = r.cache]
      /\ height' = [height EXCEPT ![n] = g] /\ errors' = [errors EXCEPT ![n] = e]
      /\ attempt' = [attempt EXCEPT ![n] = a]
  BY DEF Execute, ConfigInv, ConfigTypes
<1>2. NodeKeeps(k, h, errors[n], attempt[n])
  BY NodeHas
<1>3. IsCache(k) /\ h \in Nat /\ errors[n] \in BOOLEAN
  BY <1>2 DEF NodeKeeps
<1>4. IsCache(r.cache) /\ (r.ok /\ chain[h + 1].staking # Unset => IsValid(chain[h + 1].staking))
  BY <1>3, AppliedTypes
<1>5. ~ e => lost = {} /\ ~ errors[n] /\ (r.ok \/ refused)
  OBVIOUS
<1>6. ASSUME ~ e PROVE Attempted(k, h, r)
  <2>1. \A c \in Caches : Current(c, k[c], h, attempt[n])
    BY <1>2, <1>5, <1>6 DEF NodeKeeps
  <2> QED BY <1>3, <1>5, <1>6, <2>1, AppliedChanges
<1>7. NodeKeeps(r.cache, g, e, a)
  <2>1. CASE refused
    <3>1. a \in {"refused", "failed"} /\ g = h /\ e \in BOOLEAN
      BY <2>1
    <3>2. ~ r.ok /\ chain[height[n] + 1].system
      BY <2>1
    <3> HIDE DEF e, a, r, g, refused
    <3> QED BY <1>4, <1>5, <1>6, <3>1, <3>2, NotExecuted
  <2>2. CASE ~ refused
    <3>1. a = "none" /\ g = h + 1 /\ e \in BOOLEAN /\ (~ e => r.ok)
      BY <2>2
    <3>2. ~ BadStaking(h + 1)
      BY <1>4, <2>2 DEF BadStaking
    <3>3. \A j \in 1 .. h + 1 : ~ BadStaking(j)
      <4> TAKE j \in 1 .. h + 1
      <4>1. j \in 1 .. h \/ j = h + 1
        BY <1>3
      <4> QED BY <1>2, <3>2, <4>1 DEF NodeKeeps
    <3>4. ASSUME ~ e, NEW c \in Caches PROVE Current(c, r.cache[c], h + 1, "none")
      <4>1. Current(c, k[c], h, attempt[n])
        BY <1>2, <1>5, <3>4 DEF NodeKeeps
      <4>2. CASE chain[h + 1][c] = Unset
        <5>1. r.cache[c] = k[c]
          BY <1>6, <3>1, <3>4, <4>2 DEF Attempted
        <5> QED BY <1>3, <4>1, <4>2, <5>1, Unwritten DEF Current
      <4>3. CASE chain[h + 1][c] # Unset
        BY <1>6, <3>1, <3>4, <4>3 DEF Attempted, Current
      <4> QED BY <4>2, <4>3
    <3> HIDE DEF e, a, r, g, refused
    <3> QED BY <1>3, <1>4, <3>1, <3>3, <3>4 DEF NodeKeeps
  <2> QED BY <2>1, <2>2
<1> HIDE DEF e, a, r, g
<1> QED BY <1>1, <1>7, NodeStep

LEMMA CommitFailsHolds ==
    ASSUME ConfigInv, NEW n \in Replicas, CommitFails(n)
    PROVE  ConfigInv'
<1> DEFINE r == apply_system_contracts_changes(cache[n], height[n] + 1, {})
           e == errors[n] \/ ~ r.ok
<1>1. /\ chain' = chain /\ cache' = [cache EXCEPT ![n] = r.cache] /\ height' = height
      /\ errors' = [errors EXCEPT ![n] = e] /\ attempt' = [attempt EXCEPT ![n] = "failed"]
  BY DEF CommitFails, ConfigInv, ConfigTypes
<1>2. height' = [height EXCEPT ![n] = height[n]]
  BY <1>1 DEF ConfigInv, ConfigTypes
<1>3. NodeKeeps(cache[n], height[n], errors[n], attempt[n])
  BY NodeHas
<1>4. IsCache(cache[n]) /\ height[n] \in Nat /\ errors[n] \in BOOLEAN
  BY <1>3 DEF NodeKeeps
<1>5. IsCache(r.cache) /\ e \in BOOLEAN /\ (~ e => ~ errors[n])
  BY <1>4, AppliedTypes
<1>6. ASSUME ~ e PROVE Attempted(cache[n], height[n], r)
  <2>1. \A c \in Caches : Current(c, cache[n][c], height[n], attempt[n])
    BY <1>3, <1>6 DEF NodeKeeps
  <2> QED BY <1>4, <1>6, <2>1, AppliedChanges
<1> HIDE DEF e, r
<1>7. NodeKeeps(r.cache, height[n], e, "failed")
  BY <1>5, <1>6, NotExecuted
<1> QED BY <1>1, <1>2, <1>7, NodeStep

LEMMA RestartHolds ==
    ASSUME ConfigInv, NEW n \in Replicas, NEW lost, RestartNode(n, lost)
    PROVE  ConfigInv'
<1> DEFINE k == try_initialize_runtime_configs(NoCache, height[n], lost)
           e == lost # {}
<1>1. /\ chain' = chain /\ cache' = [cache EXCEPT ![n] = k] /\ height' = height
      /\ errors' = [errors EXCEPT ![n] = e] /\ attempt' = [attempt EXCEPT ![n] = "none"]
  BY DEF RestartNode
<1>2. height' = [height EXCEPT ![n] = height[n]]
  BY <1>1 DEF ConfigInv, ConfigTypes
<1>3. height[n] \in Nat /\ \A j \in 1 .. height[n] : ~ BadStaking(j)
  BY NodeHas DEF NodeKeeps
<1>4. IsCache(NoCache) /\ \A c \in Caches : NoCache[c] = Unset
  BY DEF IsCache, NoCache
<1>5. IsCache(k)
  BY <1>4, StartedTypes
<1>6. ASSUME ~ e PROVE \A c \in Caches : Current(c, k[c], height[n], "none")
  BY <1>3, <1>4, <1>6, Started
<1>7. e \in BOOLEAN
  OBVIOUS
<1> HIDE DEF k, e
<1>8. NodeKeeps(k, height[n], e, "none")
  BY <1>3, <1>5, <1>6, <1>7 DEF NodeKeeps
<1> QED BY <1>1, <1>2, <1>8, NodeStep

LEMMA InitializeHolds ==
    ASSUME ConfigInv, NEW n \in Replicas, NEW lost, Initialize(n, lost)
    PROVE  ConfigInv'
<1> DEFINE k == try_initialize_runtime_configs(cache[n], height[n], lost)
           e == errors[n] \/ lost # {}
<1>1. /\ chain' = chain /\ cache' = [cache EXCEPT ![n] = k] /\ height' = height
      /\ errors' = [errors EXCEPT ![n] = e] /\ attempt' = attempt
  BY DEF Initialize, ConfigInv, ConfigTypes
<1>2. /\ height' = [height EXCEPT ![n] = height[n]]
      /\ attempt' = [attempt EXCEPT ![n] = attempt[n]]
  BY <1>1 DEF ConfigInv, ConfigTypes
<1>3. NodeKeeps(cache[n], height[n], errors[n], attempt[n])
  BY NodeHas
<1>4. /\ IsCache(cache[n]) /\ height[n] \in Nat /\ errors[n] \in BOOLEAN
      /\ \A j \in 1 .. height[n] : ~ BadStaking(j)
      /\ attempt[n] \in {"none", "refused", "failed"}
  BY <1>3 DEF NodeKeeps
<1>5. IsCache(k)
  BY <1>4, StartedTypes
<1>6. ASSUME ~ e
      PROVE  \A c \in Caches :
                /\ Current(c, k[c], height[n], attempt[n])
                /\ cache[n][c] = Unset /\ Unreadable(c, height[n]) => k[c] = Unset
  <2>1. lost = {} /\ ~ errors[n]
    BY <1>6
  <2>2. \A c \in Caches : Current(c, cache[n][c], height[n], attempt[n])
    BY <1>3, <2>1 DEF NodeKeeps
  <2> QED BY <1>4, <2>1, <2>2, Started
<1>7. e \in BOOLEAN /\ (~ e => ~ errors[n])
  BY <1>4
<1> HIDE DEF k, e
<1>8. ASSUME attempt[n] = "refused", ~ e
      PROVE  \/ \E c \in Caches : k[c] = Unset /\ Unreadable(c, height[n])
             \/ BadStaking(height[n] + 1)
  BY <1>3, <1>6, <1>7, <1>8 DEF NodeKeeps
<1>9. NodeKeeps(k, height[n], e, attempt[n])
  BY <1>4, <1>5, <1>6, <1>7, <1>8 DEF NodeKeeps
<1> QED BY <1>1, <1>2, <1>9, NodeStep

LEMMA ConfigInitHolds == ASSUME ConfigInit PROVE ConfigInv
<1>1. ConfigTypes
  BY DEF ConfigInit, ConfigTypes, IsCache, NoCache
<1>2. \A c : LastValid(c, 0) = Unset
  BY DEF LastValid, Writes
<1>3. CachesAreCurrent
  BY <1>2 DEF ConfigInit, CachesAreCurrent, NoCache
<1>4. StakingChecked /\ RefusalCause
  BY DEF ConfigInit, StakingChecked, RefusalCause
<1> QED BY <1>1, <1>3, <1>4 DEF ConfigInv

\* The inductive invariant holds in every behaviour of RuntimeConfig.
THEOREM ConfigInvariant == ConfigSpec => []ConfigInv
<1>1. ConfigInv /\ UNCHANGED configVars => ConfigInv'
  <2> SUFFICES ASSUME ConfigInv, UNCHANGED configVars PROVE ConfigInv'
    OBVIOUS
  <2>1. chain' = chain /\ ConfigTypes'
    BY DEF configVars, ConfigInv, ConfigTypes
  <2> QED BY <2>1, SameChain
          DEF configVars, ConfigInv, CachesAreCurrent, StakingChecked, RefusalCause
<1>2. ConfigInv /\ [ConfigNext]_configVars => ConfigInv'
  BY <1>1, ExecuteHolds, CommitFailsHolds, RestartHolds, InitializeHolds DEF ConfigNext
<1> QED BY <1>2, ConfigInitHolds, PTL DEF ConfigSpec

\* As long as no read failed and no error was passed over since a node was started,
\* its caches hold the last valid values of the blocks it executed
\* (runtime_config/src/runtime_config.rs and the modules beside it), through
\* rolled back blocks and restarts.
THEOREM CachesStayCurrent == ConfigSpec => []CachesAreCurrent
<1>1. ConfigInv => CachesAreCurrent
  BY DEF ConfigInv
<1> QED BY <1>1, ConfigInvariant, PTL

\* A node without failed reads refuses a system block that another node executed
\* (execute_system_block_inner) only when a restart emptied its cache of a contract
\* that then held no valid value.
THEOREM RefusalsNeedLoss == ConfigSpec => []RefusalNeedsLoss
<1>1. ConfigInv => RefusalNeedsLoss
  <2> SUFFICES ASSUME ConfigInv, NEW n \in Replicas, NEW m \in Replicas,
                      attempt[n] = "refused", ~ errors[n], height[m] > height[n]
               PROVE  \E c \in Caches : cache[n][c] = Unset /\ Unreadable(c, height[n])
    BY DEF RefusalNeedsLoss
  <2>1. height[n] + 1 \in 1 .. height[m]
    BY DEF ConfigInv, ConfigTypes
  <2>2. ~ BadStaking(height[n] + 1)
    BY <2>1 DEF ConfigInv, StakingChecked
  <2> QED BY <2>2 DEF ConfigInv, RefusalCause
<1> QED BY <1>1, ConfigInvariant, PTL
=============================================================================
