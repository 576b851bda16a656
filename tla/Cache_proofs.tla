----------------------------- MODULE Cache_proofs ------------------------------
(***************************************************************************)
(* Proofs about LocalCache, for every set of keys and every configuration: *)
(* the map and its two lists never disagree, and the lists implement the   *)
(* abstract cache of AgingCache.  And about RemoteCache over it, for any   *)
(* number of calls: how old an answer can be.                              *)
(***************************************************************************)
EXTENDS RemoteCache, SequenceLemmas, FiniteSetTheorems

-----------------------------------------------------------------------------
\* Erasing takes the keys away and leaves the order of the others.
LEMMA ErasedFacts ==
  ASSUME NEW T, NEW q \in Seq(T), NEW ks
  PROVE  /\ Erased(q, ks) \in Seq(T)
         /\ Range(Erased(q, ks)) = Range(q) \ ks
         /\ Pairs(Erased(q, ks)) = {p \in Pairs(q) : p[1] \notin ks /\ p[2] \notin ks}
<1>1. Erased(q, ks) = Filtered(q, ks)
  BY DEF Erased, Filtered
<1> QED BY <1>1, FilteredFacts

\* The first m elements of an injective sequence are m elements.
LEMMA PrefixSize ==
  ASSUME NEW T, NEW q \in Seq(T), IsInjective(q), NEW m \in 0..Len(q)
  PROVE  IsFiniteSet({q[i] : i \in 1..m}) /\ Cardinality({q[i] : i \in 1..m}) = m
<1> DEFINE S == {q[i] : i \in 1..m}
           f == [i \in 1..m |-> q[i]]
<1>1. m \in Nat /\ \A i \in 1..m : i \in DOMAIN q
  OBVIOUS
<1>2. f \in Bijection(1..m, S)
  <2>1. f \in [1..m -> S] /\ \A y \in S : \E i \in 1..m : f[i] = y
    OBVIOUS
  <2>2. \A i, j \in 1..m : f[i] = f[j] => i = j
    BY <1>1 DEF IsInjective
  <2> HIDE DEF f, S
  <2> QED BY <2>1, <2>2 DEF Bijection, Injection, Surjection, IsInjective
<1>3. ExistsBijection(1..m, S)
  <2> HIDE DEF f, S
  <2> QED BY <1>2 DEF ExistsBijection
<1> HIDE DEF S
<1>4. IsFiniteSet(S) /\ Cardinality(S) = m
  BY <1>1, <1>3, FS_NatBijection, FS_CountingElements
<1> QED BY <1>4 DEF S

-----------------------------------------------------------------------------
(***************************************************************************)
(* What every sequence of calls keeps true of a cache at time n: the keys  *)
(* of the map are those of each list, each once, no value is dated later   *)
(* than now, and ttl_list_ is in the order of the load times.              *)
(***************************************************************************)
Good(c, n) ==
  /\ c = [map |-> c.map, lru |-> c.lru, ttl |-> c.ttl]
  /\ DOMAIN c.map \subseteq Key
  /\ \A k \in DOMAIN c.map : c.map[k].val \in Value \cup {Moved} /\ c.map[k].load_time \in 0..n
  /\ c.lru \in Seq(Key) /\ c.ttl \in Seq(Key)
  /\ Range(c.lru) = DOMAIN c.map /\ Range(c.ttl) = DOMAIN c.map
  /\ \A x \in Key : <<x, x>> \notin Pairs(c.lru) /\ <<x, x>> \notin Pairs(c.ttl)
  /\ \A p \in Pairs(c.ttl) : c.map[p[1]].load_time <= c.map[p[2]].load_time

CacheInv == now \in Nat /\ Good(Cache, now)

\* The second cache has only the keys of ks of the first, in the same order.
Restricts(c, d, ks) ==
  /\ DOMAIN d.map = ks
  /\ \A k \in ks : d.map[k] = c.map[k]
  /\ Pairs(d.lru) = Pairs(c.lru) \cap (ks \X ks)

\* The invariant implies the property of the runs.
LEMMA InvImpliesListsAgree == CacheInv => ListsAgree
<1> SUFFICES ASSUME CacheInv PROVE ListsAgree
  OBVIOUS
<1>1. /\ lru_list \in Seq(Key) /\ ttl_list \in Seq(Key)
      /\ Range(lru_list) = DOMAIN data_map /\ Range(ttl_list) = DOMAIN data_map
      /\ \A x \in Key : <<x, x>> \notin Pairs(lru_list) /\ <<x, x>> \notin Pairs(ttl_list)
      /\ \A p \in Pairs(ttl_list) : data_map[p[1]].load_time <= data_map[p[2]].load_time
      /\ \A k \in DOMAIN data_map : data_map[k].load_time \in Nat
      /\ DOMAIN ttl_list \subseteq Nat
  BY DEF CacheInv, Good, Cache
<1>2. IsInjective(lru_list) /\ IsInjective(ttl_list)
  BY <1>1, InjectivePairs
<1>3. ASSUME NEW i \in DOMAIN ttl_list, NEW j \in DOMAIN ttl_list, i <= j
      PROVE  data_map[ttl_list[i]].load_time <= data_map[ttl_list[j]].load_time
  <2>1. ttl_list[i] \in Range(ttl_list) /\ ttl_list[j] \in Range(ttl_list)
    BY DEF Range
  <2>2. CASE i = j
    BY <2>1, <2>2, <1>1
  <2>3. CASE i # j
    <3>1. <<ttl_list[i], ttl_list[j]>> \in Pairs(ttl_list)
      BY <2>1, <2>3, <1>1, <1>3 DEF Pairs
    <3> QED BY <3>1, <1>1
  <2> QED BY <2>2, <2>3
<1> QED BY <1>1, <1>2, <1>3 DEF ListsAgree

\* Without its keys in ks a cache is as good as before.
LEMMA WithoutGood ==
  ASSUME NEW c, NEW n \in Nat, Good(c, n), NEW ks
  PROVE  Good(Without(c, ks), n) /\ Restricts(c, Without(c, ks), DOMAIN c.map \ ks)
<1> DEFINE d == Without(c, ks)
<1>1. /\ d.map = [k \in DOMAIN c.map \ ks |-> c.map[k]]
      /\ d.lru = Erased(c.lru, ks) /\ d.ttl = Erased(c.ttl, ks)
      /\ d = [map |-> d.map, lru |-> d.lru, ttl |-> d.ttl]
  BY DEF Without
<1> HIDE DEF d
<1>2. c.lru \in Seq(Key) /\ c.ttl \in Seq(Key) /\ Range(c.lru) = DOMAIN c.map /\ Range(c.ttl) = DOMAIN c.map
  BY DEF Good
<1>3. /\ d.lru \in Seq(Key) /\ Range(d.lru) = DOMAIN c.map \ ks
      /\ Pairs(d.lru) = {p \in Pairs(c.lru) : p[1] \notin ks /\ p[2] \notin ks}
      /\ d.ttl \in Seq(Key) /\ Range(d.ttl) = DOMAIN c.map \ ks
      /\ Pairs(d.ttl) = {p \in Pairs(c.ttl) : p[1] \notin ks /\ p[2] \notin ks}
  BY <1>1, <1>2, ErasedFacts
<1>4. DOMAIN d.map = DOMAIN c.map \ ks /\ \A k \in DOMAIN c.map \ ks : d.map[k] = c.map[k]
  BY <1>1
<1>5. Pairs(d.lru) = Pairs(c.lru) \cap ((DOMAIN c.map \ ks) \X (DOMAIN c.map \ ks))
  <2> DEFINE D == DOMAIN c.map
  <2>1. Pairs(c.lru) \subseteq D \X D
    BY <1>2 DEF Pairs
  <2>2. \A p \in D \X D : p[1] \notin ks /\ p[2] \notin ks <=> p \in (D \ ks) \X (D \ ks)
    OBVIOUS
  <2> HIDE DEF D
  <2>3. Pairs(d.lru) = Pairs(c.lru) \cap ((D \ ks) \X (D \ ks))
    BY <2>1, <2>2, <1>3
  <2> QED BY <2>3 DEF D
<1>6. Restricts(c, d, DOMAIN c.map \ ks)
  BY <1>4, <1>5 DEF Restricts
<1>7. ASSUME NEW p \in Pairs(d.ttl) PROVE d.map[p[1]].load_time <= d.map[p[2]].load_time
  <2>1. p \in Pairs(c.ttl) /\ p[1] \in DOMAIN d.map /\ p[2] \in DOMAIN d.map
    BY <1>3, <1>4 DEF Pairs
  <2> QED BY <2>1, <1>4 DEF Good
<1>8. Good(d, n)
  BY <1>1, <1>3, <1>4, <1>7 DEF Good
<1> QED BY <1>6, <1>8 DEF d

(***************************************************************************)
(* The walk of ttl_list_ up to the first fresh key removes exactly what    *)
(* has expired, because the list is in the order of the load times.        *)
(***************************************************************************)
Lives(c) == {k \in DOMAIN c.map : ~Expired(c, k)}

LEMMA CleanIs ==
  ASSUME now \in Nat, NEW c, Good(c, now)
  PROVE  Good(CleanExpireddata(c), now) /\ Restricts(c, CleanExpireddata(c), Lives(c))
<1> DEFINE walked == {c.ttl[i] : i \in {n \in DOMAIN c.ttl : \A j \in 1..n : Expired(c, c.ttl[j])}}
<1>1. /\ c.ttl \in Seq(Key) /\ Range(c.ttl) = DOMAIN c.map /\ Ttl \in Nat
      /\ \A k \in DOMAIN c.map : c.map[k].load_time \in Nat
      /\ \A p \in Pairs(c.ttl) : c.map[p[1]].load_time <= c.map[p[2]].load_time
  BY CfgAssumption DEF Good
<1>2. \A n \in DOMAIN c.ttl : n \in Nat /\ n \in 1..n /\ 1..n \subseteq DOMAIN c.ttl
  BY <1>1
<1>3. \A n \in DOMAIN c.ttl : c.ttl[n] \in DOMAIN c.map
  BY <1>1 DEF Range
<1>4. ASSUME NEW k \in walked PROVE k \in DOMAIN c.map /\ Expired(c, k)
  BY <1>2, <1>3
<1>5. ASSUME NEW k \in DOMAIN c.map, Expired(c, k) PROVE k \in walked
  <2>1. PICK n \in DOMAIN c.ttl : c.ttl[n] = k
    BY <1>1 DEF Range
  <2>2. ASSUME NEW j \in 1..n PROVE Expired(c, c.ttl[j])
    <3>1. j \in DOMAIN c.ttl /\ c.ttl[j] \in DOMAIN c.map /\ j \in Nat /\ n \in Nat
      BY <1>2, <1>3, <2>1
    <3>2. CASE j = n
      BY <3>2, <2>1, <1>5
    <3>3. CASE j < n
      <4>1. <<c.ttl[j], k>> \in Pairs(c.ttl)
        BY <3>1, <3>3, <2>1, <1>1 DEF Pairs
      <4>2. c.map[c.ttl[j]].load_time <= c.map[k].load_time
        BY <4>1, <1>1
      <4>3. c.map[c.ttl[j]].load_time \in Nat /\ c.map[k].load_time \in Nat /\ c.map[k].load_time + Ttl < now
        BY <3>1, <1>1, <1>5 DEF Expired
      <4>4. \A a, b \in Nat : a <= b /\ b + Ttl < now => a + Ttl < now
        BY <1>1
      <4> QED BY <4>2, <4>3, <4>4 DEF Expired
    <3> QED BY <3>1, <3>2, <3>3
  <2> QED BY <2>1, <2>2
<1>6. CleanExpireddata(c) = Without(c, walked)
  BY DEF CleanExpireddata
<1> HIDE DEF walked
<1>7. DOMAIN c.map \ walked = Lives(c)
  BY <1>4, <1>5 DEF Lives
<1> QED BY <1>6, <1>7, WithoutGood

\* A good cache is as large as its lists are long.
LEMMA SizeIs ==
  ASSUME NEW c, NEW n \in Nat, Good(c, n)
  PROVE  IsFiniteSet(DOMAIN c.map) /\ Size(c) = Len(c.lru) /\ Size(c) \in Nat
<1> DEFINE q == c.lru
<1>1. q \in Seq(Key) /\ Range(q) = DOMAIN c.map /\ \A x \in Key : <<x, x>> \notin Pairs(q)
  BY DEF Good
<1>2. IsInjective(q)
  BY <1>1, InjectivePairs
<1>3. Len(q) \in Nat /\ Len(q) \in 0..Len(q) /\ {q[i] : i \in 1..Len(q)} = DOMAIN c.map
  BY <1>1 DEF Range
<1> HIDE DEF q
<1>4. IsFiniteSet({q[i] : i \in 1..Len(q)}) /\ Cardinality({q[i] : i \in 1..Len(q)}) = Len(q)
  BY <1>1, <1>2, <1>3, PrefixSize
<1> QED BY <1>3, <1>4 DEF Size, q

LEMMA TargetIs == Target \in Nat /\ Aging!Target = Target
<1>1. (9 * Capacity) \div 10 \in Nat
  BY CfgAssumption
<1> QED BY <1>1, CfgAssumption DEF Target, Aging!Target

\* AgingCache counts with an instance of FiniteSets of its own.
LEMMA SameCardinality == ASSUME NEW S PROVE Aging!Cardinality(S) = Cardinality(S)
  BY Zenon DEF Aging!Cardinality, Cardinality

\* What a clean-up may leave of the live keys of c.
LeftOf(c, kept) == Aging!Left(Pairs(c.lru), DOMAIN c.map, Lives(c), kept)

(***************************************************************************)
(* Clean removes the keys from the front of lru_list_, as many as there    *)
(* are too many: it leaves Target keys, the ones used last.                *)
(***************************************************************************)
LEMMA CleanedIs ==
  ASSUME now \in Nat, NEW c, Good(c, now)
  PROVE  /\ Good(Cleaned(c), now)
         /\ \E kept \in SUBSET Lives(c) : LeftOf(c, kept) /\ Restricts(c, Cleaned(c), kept)
<1> DEFINE d == CleanExpireddata(c)
           F == Lives(c)
<1>1. Good(d, now) /\ Restricts(c, d, F)
  BY CleanIs
<1>2. Cleaned(c) = IF Size(d) <= Target THEN d
                   ELSE Without(d, {d.lru[i] : i \in 1..(Size(d) - Target)})
  BY DEF Cleaned
<1> HIDE DEF d, F
<1>3. DOMAIN d.map = F /\ Size(d) = Cardinality(F)
  BY <1>1 DEF Restricts, Size
<1>4. IsFiniteSet(F) /\ Size(d) = Len(d.lru) /\ Size(d) \in Nat /\ Target \in Nat
  BY <1>1, <1>3, SizeIs, TargetIs
<1>5. CASE Size(d) <= Target
  <2>1. LeftOf(c, F)
    BY <1>3, <1>5, TargetIs, SameCardinality DEF LeftOf, Aging!Left, F
  <2> QED BY <1>1, <1>2, <1>5, <2>1 DEF F
<1>6. CASE ~(Size(d) <= Target)
  <2> DEFINE n == Size(d) - Target
             S == {d.lru[i] : i \in 1..n}
             kept == F \ S
  <2>1. n \in 0..Len(d.lru) /\ n \in Nat
    BY <1>4, <1>6
  <2>2. /\ d.lru \in Seq(Key) /\ Range(d.lru) = F /\ IsInjective(d.lru)
        /\ Pairs(d.lru) \subseteq Pairs(c.lru)
    <3>1. d.lru \in Seq(Key) /\ Range(d.lru) = F /\ \A x \in Key : <<x, x>> \notin Pairs(d.lru)
      BY <1>1, <1>3 DEF Good
    <3>2. IsInjective(d.lru)
      BY <3>1, InjectivePairs
    <3>3. Pairs(d.lru) = Pairs(c.lru) \cap (F \X F)
      BY <1>1 DEF Restricts
    <3> QED BY <3>1, <3>2, <3>3
  <2>3. Cleaned(c) = Without(d, S)
    BY <1>2, <1>6
  <2>4. S \subseteq F
    BY <2>1, <2>2 DEF Range
  <2>5. IsFiniteSet(S) /\ Cardinality(S) = n
    <3> HIDE DEF n
    <3> QED BY <2>1, <2>2, PrefixSize
  <2>6. \A x \in kept, y \in S : <<y, x>> \in Pairs(c.lru)
    <3> SUFFICES ASSUME NEW x \in kept, NEW y \in S PROVE <<y, x>> \in Pairs(d.lru)
      BY <2>2
    <3>1. PICK i \in 1..n : d.lru[i] = y
      OBVIOUS
    <3>2. PICK j \in DOMAIN d.lru : d.lru[j] = x
      BY <2>2 DEF Range
    <3>3. j \in Nat /\ i \in DOMAIN d.lru /\ j \notin 1..n /\ j >= 1
      BY <2>1, <2>2, <3>1, <3>2
    <3>4. i < j
      BY <2>1, <3>3
    <3>5. y \in Range(d.lru) /\ x \in Range(d.lru)
      BY <3>1, <3>2, <3>3 DEF Range
    <3> QED BY <3>1, <3>2, <3>3, <3>4, <3>5 DEF Pairs
  <2>7. Cardinality(kept) = Target
    <3>1. F \cap S = S
      BY <2>4
    <3>2. Cardinality(kept) = Cardinality(F) - Cardinality(F \cap S)
      <4> HIDE DEF S
      <4> QED BY <1>4, FS_Difference
    <3> HIDE DEF S, kept
    <3>3. Cardinality(F \cap S) = n
      BY <3>1, <2>5
    <3>4. Cardinality(kept) = Size(d) - n
      BY <3>2, <3>3, <1>3
    <3> QED BY <3>4, <1>4 DEF n
  <2> HIDE DEF S, n
  <2>8. Good(Without(d, S), now) /\ Restricts(d, Without(d, S), kept)
    BY <1>1, <1>3, WithoutGood
  <2>9. Restricts(c, Without(d, S), kept)
    <3>1. kept \subseteq F /\ kept \X kept \subseteq F \X F
      OBVIOUS
    <3>2. /\ DOMAIN Without(d, S).map = kept
          /\ \A k \in kept : Without(d, S).map[k] = d.map[k] /\ d.map[k] = c.map[k]
          /\ Pairs(Without(d, S).lru) = (Pairs(c.lru) \cap (F \X F)) \cap (kept \X kept)
      BY <1>1, <2>8, <3>1 DEF Restricts
    <3> QED BY <3>1, <3>2 DEF Restricts
  <2>10. LeftOf(c, kept)
    <3>1. F \ kept = S
      BY <2>4
    <3> QED BY <1>3, <1>4, <1>6, <2>6, <2>7, <3>1, TargetIs, SameCardinality DEF LeftOf, Aging!Left, F
  <2> QED BY <2>3, <2>8, <2>9, <2>10 DEF F
<1> QED BY <1>5, <1>6

\* A key that goes to the end of a list is the one used last; none is lost.
LEMMA ToEndIs ==
  ASSUME NEW q \in Seq(Key), NEW k \in Range(q), \A x \in Key : <<x, x>> \notin Pairs(q)
  PROVE  /\ ToEnd(q, k) \in Seq(Key)
         /\ Range(ToEnd(q, k)) = Range(q)
         /\ Pairs(ToEnd(q, k)) = Aging!UsedLast(Pairs(q), Range(q), k)
         /\ \A x \in Key : <<x, x>> \notin Pairs(ToEnd(q, k))
<1> DEFINE e == Erased(q, {k})
           r == ToEnd(q, k)
<1>1. /\ e \in Seq(Key) /\ Range(e) = Range(q) \ {k}
      /\ Pairs(e) = {p \in Pairs(q) : p[1] \notin {k} /\ p[2] \notin {k}}
  BY ErasedFacts
<1>2. r = Append(e, k)
  BY DEF ToEnd
<1>3. k \in Key
  BY DEF Range
<1> HIDE DEF e, r
<1>4. /\ r \in Seq(Key) /\ Range(r) = Range(e) \cup {k}
      /\ Pairs(r) = Pairs(e) \cup (Range(e) \X {k})
  BY <1>1, <1>2, <1>3, AppendPairs
<1>5. Pairs(e) = {p \in Pairs(q) : k \notin {p[1], p[2]}}
  BY <1>1
<1>6. Range(r) = Range(q)
  BY <1>1, <1>4
<1>7. Pairs(r) = Aging!UsedLast(Pairs(q), Range(q), k)
  BY <1>1, <1>4, <1>5 DEF Aging!UsedLast
<1>8. ASSUME NEW x \in Key PROVE <<x, x>> \notin Pairs(r)
  BY <1>1, <1>4, <1>5
<1> QED BY <1>4, <1>6, <1>7, <1>8 DEF r

-----------------------------------------------------------------------------
(***************************************************************************)
(* The calls keep the cache good.                                          *)
(***************************************************************************)
\* What a call makes of the cache is what the next one finds.
LEMMA BecomesGood ==
  ASSUME now \in Nat, NEW c, Good(c, now), Becomes(c), now' = now
  PROVE  CacheInv'
BY DEF CacheInv, Good, Becomes, Cache

LEMMA FoundIs ==
  ASSUME NEW c, NEW n \in Nat, Good(c, n), NEW k \in DOMAIN c.map
  PROVE  /\ Good(Found(c, k), n)
         /\ Found(c, k).map = c.map
         /\ Pairs(Found(c, k).lru) = Aging!UsedLast(Pairs(c.lru), DOMAIN c.map, k)
<1> DEFINE q == ToEnd(c.lru, k)
           d == [map |-> c.map, lru |-> q, ttl |-> c.ttl]
<1>1. /\ k \in Key /\ c.lru \in Seq(Key) /\ \A x \in Key : <<x, x>> \notin Pairs(c.lru)
      /\ Range(c.lru) = DOMAIN c.map
  BY DEF Good
<1>2. /\ q \in Seq(Key) /\ Range(q) = DOMAIN c.map /\ \A x \in Key : <<x, x>> \notin Pairs(q)
      /\ Pairs(q) = Aging!UsedLast(Pairs(c.lru), DOMAIN c.map, k)
  BY <1>1, ToEndIs
<1>3. Found(c, k) = d
  BY DEF Found, Good
<1> HIDE DEF q
<1>4. d.map = c.map /\ d.lru = q /\ d.ttl = c.ttl
  OBVIOUS
<1>5. Good(d, n)
  BY <1>2 DEF Good
<1> HIDE DEF d
<1> QED BY <1>2, <1>3, <1>4, <1>5

\* The given load time is the latest: a key that is loaded goes to the end of ttl_list_.
LEMMA ReloadedIs ==
  ASSUME CacheInv, NEW k \in DOMAIN data_map, NEW v \in Value \cup {Moved}
  PROVE  /\ Good(Reloaded(k, v), now)
         /\ Reloaded(k, v).map = [data_map EXCEPT ![k] = Entry(v)]
         /\ Pairs(Reloaded(k, v).lru) = Aging!UsedLast(Pairs(lru_list), DOMAIN data_map, k)
<1> DEFINE q == ToEnd(lru_list, k)
           t == ToEnd(ttl_list, k)
           m == [data_map EXCEPT ![k] = Entry(v)]
           d == [map |-> m, lru |-> q, ttl |-> t]
<1>1. /\ k \in Key /\ lru_list \in Seq(Key) /\ ttl_list \in Seq(Key) /\ now \in Nat
      /\ \A x \in Key : <<x, x>> \notin Pairs(lru_list) /\ <<x, x>> \notin Pairs(ttl_list)
      /\ Range(lru_list) = DOMAIN data_map /\ Range(ttl_list) = DOMAIN data_map
      /\ DOMAIN data_map \subseteq Key
      /\ \A x \in DOMAIN data_map : data_map[x].val \in Value \cup {Moved} /\ data_map[x].load_time \in 0..now
      /\ \A p \in Pairs(ttl_list) : data_map[p[1]].load_time <= data_map[p[2]].load_time
  BY DEF CacheInv, Good, Cache
<1>2. /\ q \in Seq(Key) /\ Range(q) = DOMAIN data_map /\ \A x \in Key : <<x, x>> \notin Pairs(q)
      /\ Pairs(q) = Aging!UsedLast(Pairs(lru_list), DOMAIN data_map, k)
  BY <1>1, ToEndIs
<1>3. /\ t \in Seq(Key) /\ Range(t) = DOMAIN data_map /\ \A x \in Key : <<x, x>> \notin Pairs(t)
      /\ Pairs(t) = Aging!UsedLast(Pairs(ttl_list), DOMAIN data_map, k)
  BY <1>1, ToEndIs
<1>4. /\ DOMAIN m = DOMAIN data_map
      /\ \A x \in DOMAIN m : m[x] = IF x = k THEN Entry(v) ELSE data_map[x]
      /\ Entry(v).val = v /\ Entry(v).load_time = now
  BY DEF Entry
<1> HIDE DEF q, t, m
<1>5. ASSUME NEW p \in Pairs(t) PROVE m[p[1]].load_time <= m[p[2]].load_time
  <2>1. p[1] \in DOMAIN m /\ p[2] \in DOMAIN m /\ p[1] # k
    BY <1>1, <1>3, <1>4 DEF Pairs, Aging!UsedLast
  <2>2. CASE p[2] = k
    BY <2>1, <2>2, <1>1, <1>4
  <2>3. CASE p[2] # k
    BY <2>1, <2>3, <1>1, <1>3, <1>4 DEF Aging!UsedLast
  <2> QED BY <2>2, <2>3
<1>6. \A x \in DOMAIN m : m[x].val \in Value \cup {Moved} /\ m[x].load_time \in 0..now
  BY <1>1, <1>4
<1>7. d.map = m /\ d.lru = q /\ d.ttl = t
  OBVIOUS
<1>8. Good(d, now)
  BY <1>1, <1>2, <1>3, <1>4, <1>5, <1>6 DEF Good
<1>9. Reloaded(k, v) = d
  BY DEF Reloaded, m, q, t
<1> HIDE DEF d
<1> QED BY <1>2, <1>7, <1>8, <1>9 DEF m

\* What Update makes of the cache for a key it does not have, before it may clean up.
LEMMA AddedIs ==
  ASSUME CacheInv, NEW k \in Key, k \notin DOMAIN data_map, NEW v \in Value,
         NEW d, d = [map |-> [x \in DOMAIN data_map \cup {k} |-> IF x = k THEN Entry(v) ELSE data_map[x]],
                     lru |-> Append(lru_list, k),
                     ttl |-> Append(ttl_list, k)]
  PROVE  /\ Good(d, now)
         /\ Pairs(d.lru) = Aging!UsedLast(Pairs(lru_list), DOMAIN data_map \cup {k}, k)
<1> DEFINE q == Append(lru_list, k)
           t == Append(ttl_list, k)
           m == [x \in DOMAIN data_map \cup {k} |-> IF x = k THEN Entry(v) ELSE data_map[x]]
<1>1. /\ lru_list \in Seq(Key) /\ ttl_list \in Seq(Key) /\ now \in Nat
      /\ \A x \in Key : <<x, x>> \notin Pairs(lru_list) /\ <<x, x>> \notin Pairs(ttl_list)
      /\ Range(lru_list) = DOMAIN data_map /\ Range(ttl_list) = DOMAIN data_map
      /\ DOMAIN data_map \subseteq Key
      /\ \A x \in DOMAIN data_map : data_map[x].val \in Value \cup {Moved} /\ data_map[x].load_time \in 0..now
      /\ \A p \in Pairs(ttl_list) : data_map[p[1]].load_time <= data_map[p[2]].load_time
  BY DEF CacheInv, Good, Cache
<1>2. /\ q \in Seq(Key) /\ Range(q) = DOMAIN data_map \cup {k}
      /\ Pairs(q) = Pairs(lru_list) \cup ((DOMAIN data_map) \X {k})
      /\ t \in Seq(Key) /\ Range(t) = DOMAIN data_map \cup {k}
      /\ Pairs(t) = Pairs(ttl_list) \cup ((DOMAIN data_map) \X {k})
  BY <1>1, AppendPairs
<1>3. \A p \in Pairs(lru_list) \cup Pairs(ttl_list) : /\ p[1] \in DOMAIN data_map /\ p[2] \in DOMAIN data_map
                                                   /\ p = <<p[1], p[2]>>
  BY <1>1 DEF Pairs
<1>4. /\ DOMAIN m = DOMAIN data_map \cup {k}
      /\ \A x \in DOMAIN m : m[x] = IF x = k THEN Entry(v) ELSE data_map[x]
      /\ Entry(v).val = v /\ Entry(v).load_time = now
  BY DEF Entry
<1>d. d.map = m /\ d.lru = q /\ d.ttl = t /\ d = [map |-> m, lru |-> q, ttl |-> t]
  OBVIOUS
<1> HIDE DEF q, t, m
<1>5. ASSUME NEW p \in Pairs(t) PROVE m[p[1]].load_time <= m[p[2]].load_time
  <2>1. CASE p \in Pairs(ttl_list)
    BY <2>1, <1>1, <1>3, <1>4
  <2>2. CASE p \in (DOMAIN data_map) \X {k}
    <3>1. p[1] \in DOMAIN data_map /\ p[2] = k
      BY <2>2
    <3>2. p[1] # k /\ m[p[1]].load_time \in 0..now /\ m[p[2]].load_time = now
      BY <3>1, <1>1, <1>4
    <3> QED BY <3>2, <1>1
  <2> QED BY <2>1, <2>2, <1>2
<1>6. \A x \in DOMAIN m : m[x].val \in Value \cup {Moved} /\ m[x].load_time \in 0..now
  BY <1>1, <1>4
<1>7. ASSUME NEW x \in Key PROVE <<x, x>> \notin Pairs(q) /\ <<x, x>> \notin Pairs(t)
  BY <1>1, <1>2
<1>8. DOMAIN m \subseteq Key
  BY <1>1, <1>4
<1>9. Good(d, now)
  BY <1>d, <1>2, <1>4, <1>5, <1>6, <1>7, <1>8 DEF Good
<1>10. Pairs(q) = Aging!UsedLast(Pairs(lru_list), DOMAIN data_map \cup {k}, k)
  <2>1. (DOMAIN data_map \cup {k}) \ {k} = DOMAIN data_map
    OBVIOUS
  <2>2. {p \in Pairs(lru_list) : k \notin {p[1], p[2]}} = Pairs(lru_list)
    BY <1>3
  <2> QED BY <1>2, <2>1, <2>2 DEF Aging!UsedLast
<1> QED BY <1>d, <1>9, <1>10

Alive == Lives(Cache)
Used(ks, k) == Aging!UsedLast(Pairs(lru_list) \cap (ks \X ks), ks, k)

\* Get drops what has expired and makes the key it finds the one used last.
LEMMA GetIs ==
  ASSUME CacheInv, NEW k \in Key, Get(k)
  PROVE  \E c : /\ Becomes(c) /\ Good(c, now) /\ now' = now
                /\ DOMAIN c.map = Alive /\ \A x \in Alive : c.map[x] = data_map[x]
                /\ IF k \in Alive THEN Pairs(c.lru) = Used(Alive, k) /\ ret' = data_map[k].val
                   ELSE Pairs(c.lru) = Pairs(lru_list) \cap (Alive \X Alive) /\ ret' = Nullopt
<1> DEFINE c == CleanExpireddata(Cache)
<1>0. now \in Nat /\ Cache.map = data_map /\ Cache.lru = lru_list
  BY DEF CacheInv, Cache
<1>1. Good(c, now) /\ Restricts(Cache, c, Alive)
  BY <1>0, CleanIs DEF CacheInv, Alive
<1>2. /\ now' = now
      /\ IF k \in DOMAIN c.map THEN Becomes(Found(c, k)) /\ ret' = c.map[k].val
         ELSE Becomes(c) /\ ret' = Nullopt
  BY DEF Get
<1> HIDE DEF c
<1>3. /\ DOMAIN c.map = Alive /\ \A x \in Alive : c.map[x] = data_map[x]
      /\ Pairs(c.lru) = Pairs(lru_list) \cap (Alive \X Alive)
  BY <1>0, <1>1 DEF Restricts
<1>4. CASE k \in Alive
  <2>1. /\ Good(Found(c, k), now) /\ Found(c, k).map = c.map
        /\ Pairs(Found(c, k).lru) = Aging!UsedLast(Pairs(c.lru), DOMAIN c.map, k)
    BY <1>0, <1>1, <1>3, <1>4, FoundIs
  <2>2. Pairs(Found(c, k).lru) = Used(Alive, k)
    BY <1>3, <2>1 DEF Used
  <2> QED BY <1>2, <1>3, <1>4, <2>1, <2>2
<1>5. CASE k \notin Alive
  BY <1>1, <1>2, <1>3, <1>5
<1> QED BY <1>4, <1>5

\* Del and the calls that clean up leave fewer keys in the same order.
LEMMA ForgetIs ==
  ASSUME CacheInv, (\E k \in Key : Del(k)) \/ CallCleanExpireddata \/ Clear
  PROVE  \E c, ks : /\ Becomes(c) /\ Good(c, now) /\ now' = now /\ ret' = Nullopt
                    /\ Restricts(Cache, c, ks) /\ ks \subseteq DOMAIN data_map
                    /\ ks \in {{}, Alive} \cup {Alive \ {k} : k \in Key}
<1>0. now \in Nat /\ Cache.map = data_map /\ Cache.lru = lru_list /\ Alive \subseteq DOMAIN data_map
  BY DEF CacheInv, Cache, Alive, Lives
<1>1. Good(CleanExpireddata(Cache), now) /\ Restricts(Cache, CleanExpireddata(Cache), Alive)
  BY <1>0, CleanIs DEF CacheInv, Alive
<1>2. ASSUME NEW k \in Key, Del(k)
      PROVE  \E c : /\ Becomes(c) /\ Good(c, now) /\ now' = now /\ ret' = Nullopt
                    /\ Restricts(Cache, c, Alive \ {k})
  <2> DEFINE c == CleanExpireddata(Cache)
             d == Without(c, {k})
  <2>1. Becomes(d) /\ now' = now /\ ret' = Nullopt
    BY <1>2 DEF Del
  <2> HIDE DEF c
  <2>2. DOMAIN c.map = Alive
    BY <1>1 DEF Restricts, c
  <2>3. Good(d, now) /\ Restricts(c, d, Alive \ {k})
    BY <1>0, <1>1, <2>2, WithoutGood DEF c
  <2> HIDE DEF d
  <2>4. Restricts(Cache, d, Alive \ {k})
    <3>1. (Alive \ {k}) \X (Alive \ {k}) \subseteq Alive \X Alive
      OBVIOUS
    <3>2. Restricts(Cache, c, Alive)
      BY <1>1 DEF c
    <3> QED BY <2>3, <3>1, <3>2 DEF Restricts
  <2> QED BY <2>1, <2>3, <2>4
<1>3. CASE \E k \in Key : Del(k)
  <2>1. PICK k \in Key : Del(k)
    BY <1>3
  <2>2. Alive \ {k} \subseteq DOMAIN data_map
    BY <1>0
  <2> QED BY <1>2, <2>1, <2>2
<1>4. CASE CallCleanExpireddata
  BY <1>0, <1>1, <1>4 DEF CallCleanExpireddata
<1>5. CASE Clear
  <2>1. Range(<<>>) = {} /\ Pairs(<<>>) = {} /\ <<>> \in Seq(Key)
    BY DEF Range, Pairs
  <2>2. Empty.map = [k \in {} |-> Nullopt] /\ Empty.lru = <<>> /\ Empty.ttl = <<>>
        /\ Empty = [map |-> Empty.map, lru |-> Empty.lru, ttl |-> Empty.ttl]
    BY DEF Empty
  <2>3. DOMAIN Empty.map = {}
    BY <2>2
  <2>4. Good(Empty, now)
    BY <2>1, <2>2, <2>3 DEF Good
  <2>5. Restricts(Cache, Empty, {})
    BY <2>1, <2>2, <2>3 DEF Restricts
  <2> QED BY <1>5, <2>4, <2>5 DEF Clear
<1> QED BY <1>3, <1>4, <1>5

LEMMA CleanCallIs ==
  ASSUME CacheInv, Clean
  PROVE  \E c, kept : /\ Becomes(c) /\ Good(c, now) /\ now' = now /\ ret' = Nullopt
                      /\ Restricts(Cache, c, kept) /\ LeftOf(Cache, kept)
<1>1. now \in Nat /\ Good(Cache, now)
  BY DEF CacheInv
<1> QED BY <1>1, CleanedIs DEF Clean

\* A key Update did not have: all are kept, or the clean-up leaves some of the
\* live ones, the new one among them.
LEMMA InsertIs ==
  ASSUME CacheInv, NEW k \in Key, k \notin DOMAIN data_map, NEW v \in Value,
         NEW ks, ks = DOMAIN data_map \cup {k},
         NEW order, order = Aging!UsedLast(Pairs(lru_list), ks, k)
  PROVE  /\ Good(Inserted(k, v), now)
         /\ \E kept \in SUBSET ks :
              /\ DOMAIN Inserted(k, v).map = kept
              /\ \A x \in kept : Inserted(k, v).map[x] = IF x = k THEN Entry(v) ELSE data_map[x]
              /\ Pairs(Inserted(k, v).lru) = order \cap (kept \X kept)
              /\ IF Cardinality(ks) < Capacity THEN kept = ks
                 ELSE Aging!Left(order, ks, Alive \cup {k}, kept)
<1> DEFINE d == [map |-> [x \in DOMAIN data_map \cup {k} |-> IF x = k THEN Entry(v) ELSE data_map[x]],
                 lru |-> Append(lru_list, k),
                 ttl |-> Append(ttl_list, k)]
           c == Inserted(k, v)
<1>0. now \in Nat
  BY DEF CacheInv
<1>1. Good(d, now) /\ Pairs(d.lru) = order
  BY AddedIs
<1>2. DOMAIN d.map = ks /\ \A x \in ks : d.map[x] = IF x = k THEN Entry(v) ELSE data_map[x]
  OBVIOUS
<1>3. c = IF Full(d) THEN Cleaned(d) ELSE d
  BY DEF Inserted
<1>f. Full(d) <=> Cardinality(ks) >= Capacity
  BY <1>2 DEF Full, Size
<1> HIDE DEF d, c
<1>4. Cardinality(ks) \in Nat /\ Capacity \in Nat
  BY <1>0, <1>1, <1>2, SizeIs, CfgAssumption DEF Size
<1>5. CASE ~Full(d)
  <2>1. Pairs(d.lru) \subseteq ks \X ks
    BY <1>1, <1>2 DEF Good, Pairs
  <2>2. order \cap (ks \X ks) = order
    BY <1>1, <2>1
  <2>3. Cardinality(ks) < Capacity /\ c = d
    BY <1>3, <1>f, <1>4, <1>5
  <2> QED BY <1>1, <1>2, <2>2, <2>3 DEF c
<1>6. CASE Full(d)
  <2>1. Lives(d) = Alive \cup {k}
    <3>1. ~Expired(d, k)
      BY <1>0, <1>2, CfgAssumption DEF Expired, Entry
    <3>2. \A x \in DOMAIN data_map : Expired(d, x) <=> Expired(Cache, x)
      BY <1>2 DEF Expired, Cache
    <3> QED BY <1>2, <3>1, <3>2 DEF Lives, Alive, Cache
  <2>2. c = Cleaned(d) /\ ~(Cardinality(ks) < Capacity)
    BY <1>3, <1>f, <1>4, <1>6
  <2>3. /\ Good(c, now)
        /\ \E kept \in SUBSET Lives(d) : LeftOf(d, kept) /\ Restricts(d, c, kept)
    BY <1>0, <1>1, <2>2, CleanedIs
  <2>4. PICK kept \in SUBSET Lives(d) : LeftOf(d, kept) /\ Restricts(d, c, kept)
    BY <2>3
  <2>5. kept \subseteq ks
    BY <1>2 DEF Lives
  <2>6. Aging!Left(order, ks, Alive \cup {k}, kept)
    BY <1>1, <1>2, <2>1, <2>4 DEF LeftOf
  <2>7. /\ DOMAIN c.map = kept /\ Pairs(c.lru) = order \cap (kept \X kept)
        /\ \A x \in kept : c.map[x] = IF x = k THEN Entry(v) ELSE data_map[x]
    BY <1>1, <1>2, <2>4, <2>5 DEF Restricts
  <2> QED BY <2>2, <2>3, <2>5, <2>6, <2>7 DEF c
<1> QED BY <1>5, <1>6

-----------------------------------------------------------------------------
(***************************************************************************)
(* The invariant.                                                          *)
(***************************************************************************)
LEMMA InvInit == Init => CacheInv
<1>1. Range(<<>>) = {} /\ Pairs(<<>>) = {} /\ <<>> \in Seq(Key)
  BY DEF Range, Pairs
<1> QED BY <1>1 DEF Init, Empty, CacheInv, Good, Cache

LEMMA InvStep == CacheInv /\ [Next]_vars => CacheInv'
<1> SUFFICES ASSUME CacheInv, [Next]_vars PROVE CacheInv'
  OBVIOUS
<1>0. now \in Nat
  BY DEF CacheInv
<1>1. ASSUME NEW k \in Key, Get(k) PROVE CacheInv'
  BY <1>0, <1>1, GetIs, BecomesGood
<1>2. CASE (\E k \in Key : Del(k)) \/ CallCleanExpireddata \/ Clear
  BY <1>0, <1>2, ForgetIs, BecomesGood
<1>3. CASE Clean
  BY <1>0, <1>3, CleanCallIs, BecomesGood
<1>4. ASSUME NEW k \in Key, NEW v \in Value, NEW rvalue \in BOOLEAN, Update(k, v, rvalue) PROVE CacheInv'
  <2>1. CASE k \in DOMAIN data_map
    <3>1. PICK w \in Value \cup {Moved} : Becomes(Reloaded(k, w)) /\ now' = now
      BY <1>4, <2>1 DEF Update
    <3>2. Good(Reloaded(k, w), now)
      BY <2>1, ReloadedIs
    <3> QED BY <1>0, <3>1, <3>2, BecomesGood
  <2>2. CASE k \notin DOMAIN data_map
    <3>1. Becomes(Inserted(k, v)) /\ now' = now
      BY <1>4, <2>2 DEF Update
    <3>2. Good(Inserted(k, v), now)
      BY <2>2, InsertIs
    <3> QED BY <1>0, <3>1, <3>2, BecomesGood
  <2> QED BY <2>1, <2>2
<1>5. CASE Tick \/ UNCHANGED vars
  <2>1. /\ now' \in Nat /\ now' >= now
        /\ data_map' = data_map /\ lru_list' = lru_list /\ ttl_list' = ttl_list
    BY <1>0, <1>5 DEF Tick, vars
  <2>2. 0..now \subseteq 0..now'
    BY <1>0, <2>1
  <2> QED BY <2>1, <2>2 DEF CacheInv, Good, Cache
<1> QED BY <1>1, <1>2, <1>3, <1>4, <1>5 DEF Next

(***************************************************************************)
(* After any sequence of calls the map and the two lists have the same     *)
(* keys, each once, and ttl_list_ is in the order of the load times: every *)
(* iterator that the walks dereference exists, for every set of keys and   *)
(* every capacity, clean_size and ttl.                                     *)
(***************************************************************************)
THEOREM ListsStayTogether == Spec => []ListsAgree
<1> QED BY InvInit, InvStep, InvImpliesListsAgree, PTL DEF Spec
-----------------------------------------------------------------------------
(***************************************************************************)
(* The refinement.                                                         *)
(***************************************************************************)
\* What AgingCache sees of a map m at time n.
AgeOf(t, n) == IF t + Ttl < n THEN Ttl + 1 ELSE n - t
View(m, n) == [k \in DOMAIN m |-> [val |-> m[k].val, age |-> AgeOf(m[k].load_time, n)]]

\* An age is at most Ttl as long as the value has not expired, starts at 0 and grows by one a tick.
LEMMA Ages ==
  ASSUME NEW t \in Nat, NEW n \in Nat, t <= n
  PROVE  /\ AgeOf(t, n) \in Nat
         /\ AgeOf(t, n) <= Ttl <=> ~(t + Ttl < n)
         /\ AgeOf(n, n) = 0
         /\ AgeOf(t, n + 1) = IF AgeOf(t, n) <= Ttl THEN AgeOf(t, n) + 1 ELSE AgeOf(t, n)
BY CfgAssumption DEF AgeOf

\* An initial state of LocalCache is one of AgingCache.
LEMMA AgingInitMaps == Init => Aging!Init
<1> SUFFICES ASSUME Init PROVE Aging!Init
  OBVIOUS
<1>1. data_map = [k \in {} |-> Nullopt] /\ lru_list = <<>> /\ ret = Nullopt
  BY DEF Init, Empty
<1> QED BY <1>1 DEF Aging!Init, Aging!Kept

\* Get is Get, an Update is a Reload or an Insert, Clean is Shrink, Del and the
\* other clean-ups are Forget, a tick is Grow.
LEMMA AgingStepMaps ==
  ASSUME CacheInv, CacheInv', [Next]_vars
  PROVE  [Aging!Next]_(Aging!vars)
<1> DEFINE e == [k \in DOMAIN data_map |-> [val |-> data_map[k].val, age |-> Age(k)]]
           b == {p \in Key \X Key : \E i, j \in DOMAIN lru_list : i < j /\ p = <<lru_list[i], lru_list[j]>>}
           F == {k \in DOMAIN e : e[k].age <= Ttl}
<1>e. e = View(data_map, now) /\ e' = View(data_map', now')
  BY DEF View, AgeOf, Age
<1>b. b = Pairs(lru_list) /\ b' = Pairs(lru_list')
  <2>1. ASSUME NEW q \in Seq(Key)
        PROVE  {p \in Key \X Key : \E i, j \in DOMAIN q : i < j /\ p = <<q[i], q[j]>>} = Pairs(q)
    <3>1. Range(q) \subseteq Key /\ \A i \in DOMAIN q : q[i] \in Range(q)
      BY DEF Range
    <3> QED BY <3>1 DEF Pairs
  <2>2. lru_list \in Seq(Key) /\ lru_list' \in Seq(Key)
    BY DEF CacheInv, Good, Cache
  <2>3. PICK q \in Seq(Key) : q = lru_list'
    BY <2>2
  <2> QED BY <2>1, <2>2, <2>3
<1> HIDE DEF e, b
<1>v. /\ UNCHANGED <<e, b, ret>> => UNCHANGED Aging!vars
      /\ \A k : /\ e' = [x \in F |-> e[x]]
                /\ IF k \in F THEN b' = Aging!UsedLast(b \cap (F \X F), F, k) /\ ret' = e[k].val
                   ELSE b' = b \cap (F \X F) /\ ret' = Nullopt
                => Aging!Get(k)
      /\ \A k, v : /\ k \in DOMAIN e /\ e' = [e EXCEPT ![k] = [val |-> v, age |-> 0]]
                   /\ b' = Aging!UsedLast(b, DOMAIN e, k) /\ ret' = Nullopt
                   => Aging!Reload(k, v)
      /\ (\E ks \in {{}, F} \cup {F \ {k} : k \in Key} :
            e' = [k \in ks |-> e[k]] /\ b' = b \cap (ks \X ks)) /\ ret' = Nullopt => Aging!Forget
      /\ (\E kept \in SUBSET F : Aging!Left(b, DOMAIN e, F, kept)
            /\ e' = [k \in kept |-> e[k]] /\ b' = b \cap (kept \X kept)) /\ ret' = Nullopt => Aging!Shrink
      /\ e' = [k \in DOMAIN e |-> [e[k] EXCEPT !.age = IF @ <= Ttl THEN @ + 1 ELSE @]] /\ UNCHANGED <<b, ret>>
           => Aging!Grow
  BY Zenon DEF Aging!vars, Aging!Get, Aging!Reload, Aging!Forget, Aging!Shrink, Aging!Grow, Aging!KeepOnly,
               Aging!Fresh, Aging!Kept, e, b
<1>w. ASSUME NEW k, NEW v,
             LET ks == DOMAIN e \cup {k}
                 order == Aging!UsedLast(b, ks, k)
                 new == [x \in ks |-> IF x = k THEN [val |-> v, age |-> 0] ELSE e[x]]
             IN \E kept \in SUBSET ks :
                  /\ IF Aging!Cardinality(ks) < Capacity THEN kept = ks
                     ELSE Aging!Left(order, ks, F \cup {k}, kept)
                  /\ e' = [x \in kept |-> new[x]]
                  /\ b' = order \cap (kept \X kept),
             k \notin DOMAIN e, ret' = Nullopt
      PROVE  Aging!Insert(k, v)
  BY Zenon, <1>w DEF Aging!Insert, Aging!Fresh, Aging!Kept, e, b
<1>0. /\ now \in Nat /\ DOMAIN data_map \subseteq Key
      /\ \A k \in DOMAIN data_map : data_map[k].load_time \in Nat /\ data_map[k].load_time <= now
  BY DEF CacheInv, Good, Cache
<1>d. /\ DOMAIN e = DOMAIN data_map
      /\ \A k \in DOMAIN data_map : e[k] = [val |-> data_map[k].val, age |-> AgeOf(data_map[k].load_time, now)]
  BY <1>e DEF View
<1>f. F = Alive
  <2>1. ASSUME NEW k \in DOMAIN data_map PROVE e[k].age <= Ttl <=> ~Expired(Cache, k)
    <3> DEFINE t == data_map[k].load_time
    <3>1. e[k].age = AgeOf(t, now)
      BY <1>d
    <3>2. Expired(Cache, k) <=> t + Ttl < now
      BY DEF Expired, Cache
    <3>3. t \in Nat /\ t <= now
      BY <1>0
    <3> HIDE DEF t
    <3> QED BY <1>0, <3>1, <3>2, <3>3, Ages
  <2> QED BY <1>d, <2>1 DEF Alive, Lives, Cache
<1>c. Alive \subseteq DOMAIN data_map /\ Cache.map = data_map /\ Cache.lru = lru_list
  BY DEF Alive, Lives, Cache
<1> HIDE DEF F
<1>k. ASSUME NEW ks \in SUBSET DOMAIN data_map, now' = now, DOMAIN data_map' = ks,
             \A x \in ks : data_map'[x] = data_map[x]
      PROVE  e' = [x \in ks |-> e[x]]
  BY <1>d, <1>e, <1>k DEF View
<1>1. ASSUME NEW k \in Key, Get(k) PROVE Aging!Get(k)
  <2>1. PICK c : /\ Becomes(c) /\ now' = now
                 /\ DOMAIN c.map = Alive /\ \A x \in Alive : c.map[x] = data_map[x]
                 /\ IF k \in Alive THEN Pairs(c.lru) = Used(Alive, k) /\ ret' = data_map[k].val
                    ELSE Pairs(c.lru) = Pairs(lru_list) \cap (Alive \X Alive) /\ ret' = Nullopt
    BY <1>1, GetIs
  <2>2. data_map' = c.map /\ b' = Pairs(c.lru)
    BY <1>b, <2>1 DEF Becomes
  <2>3. e' = [x \in Alive |-> e[x]]
    BY <1>c, <1>k, <2>1, <2>2
  <2>4. k \in Alive => data_map[k].val = e[k].val
    BY <1>c, <1>d
  <2> QED BY <1>b, <1>f, <1>v, <2>1, <2>2, <2>3, <2>4 DEF Used
<1>2. CASE (\E k \in Key : Del(k)) \/ CallCleanExpireddata \/ Clear
  <2>1. PICK c, ks : /\ Becomes(c) /\ now' = now /\ ret' = Nullopt
                     /\ Restricts(Cache, c, ks) /\ ks \subseteq DOMAIN data_map
                     /\ ks \in {{}, Alive} \cup {Alive \ {k} : k \in Key}
    BY <1>2, ForgetIs
  <2>2. e' = [x \in ks |-> e[x]] /\ b' = b \cap (ks \X ks)
    BY <1>b, <1>c, <1>k, <2>1 DEF Becomes, Restricts
  <2>3. Aging!Forget
    BY <1>f, <1>v, <2>1, <2>2
  <2> QED BY <2>3 DEF Aging!Next
<1>3. CASE Clean
  <2>1. PICK c, kept : /\ Becomes(c) /\ now' = now /\ ret' = Nullopt
                       /\ Restricts(Cache, c, kept) /\ LeftOf(Cache, kept)
    BY <1>3, CleanCallIs
  <2>2. Aging!Left(b, DOMAIN e, F, kept)
    BY <1>b, <1>c, <1>d, <1>f, <2>1 DEF LeftOf, Alive
  <2>3. kept \subseteq F
    BY <2>2 DEF Aging!Left
  <2>4. e' = [x \in kept |-> e[x]] /\ b' = b \cap (kept \X kept)
    BY <1>b, <1>c, <1>f, <1>k, <2>1, <2>3 DEF Becomes, Restricts
  <2>5. Aging!Shrink
    BY <1>v, <2>1, <2>2, <2>3, <2>4
  <2> QED BY <2>5 DEF Aging!Next
<1>4. ASSUME NEW k \in Key, NEW v \in Value, NEW rvalue \in BOOLEAN, Update(k, v, rvalue)
      PROVE  Aging!Insert(k, v) \/ \E w \in Value \cup {Moved} : Aging!Reload(k, w)
  <2>0. ret' = Nullopt /\ now' = now
    BY <1>4 DEF Update
  <2>1. CASE k \in DOMAIN data_map
    <3>1. PICK w \in Value \cup {Moved} : Becomes(Reloaded(k, w))
      BY <1>4, <2>1 DEF Update
    <3>2. /\ data_map' = [data_map EXCEPT ![k] = Entry(w)]
          /\ b' = Aging!UsedLast(b, DOMAIN e, k)
      BY <1>b, <1>d, <2>1, <3>1, ReloadedIs DEF Becomes
    <3>3. e' = [e EXCEPT ![k] = [val |-> w, age |-> 0]]
      <4>1. DOMAIN e' = DOMAIN e /\ DOMAIN data_map' = DOMAIN data_map
        BY <1>d, <1>e, <3>2 DEF View
      <4>2. ASSUME NEW x \in DOMAIN data_map
            PROVE  e'[x] = IF x = k THEN [val |-> w, age |-> 0] ELSE e[x]
        <5>1. e'[x] = [val |-> data_map'[x].val, age |-> AgeOf(data_map'[x].load_time, now)]
          BY <1>e, <2>0, <4>1 DEF View
        <5>2. data_map'[x] = IF x = k THEN Entry(w) ELSE data_map[x]
          BY <3>2
        <5> QED BY <1>0, <1>d, <5>1, <5>2, Ages DEF Entry
      <4> QED BY <1>d, <1>e, <4>1, <4>2 DEF View
    <3>4. Aging!Reload(k, w)
      BY <1>d, <1>v, <2>0, <2>1, <3>2, <3>3
    <3> QED BY <3>4
  <2>2. CASE k \notin DOMAIN data_map
    <3> DEFINE ks == DOMAIN e \cup {k}
               order == Aging!UsedLast(b, ks, k)
               new == [x \in ks |-> IF x = k THEN [val |-> v, age |-> 0] ELSE e[x]]
    <3>1. data_map' = Inserted(k, v).map /\ b' = Pairs(Inserted(k, v).lru)
      BY <1>4, <1>b, <2>2 DEF Update, Becomes
    <3>2. ks = DOMAIN data_map \cup {k} /\ order = Aging!UsedLast(Pairs(lru_list), ks, k)
      BY <1>b, <1>d
    <3> HIDE DEF ks, order
    <3>3. PICK kept \in SUBSET ks :
              /\ DOMAIN Inserted(k, v).map = kept
              /\ \A x \in kept : Inserted(k, v).map[x] = IF x = k THEN Entry(v) ELSE data_map[x]
              /\ Pairs(Inserted(k, v).lru) = order \cap (kept \X kept)
              /\ IF Cardinality(ks) < Capacity THEN kept = ks
                 ELSE Aging!Left(order, ks, Alive \cup {k}, kept)
      BY <2>2, <3>2, InsertIs
    <3>4. e' = [x \in kept |-> new[x]]
      <4>1. e' = [x \in kept |-> [val |-> data_map'[x].val, age |-> AgeOf(data_map'[x].load_time, now)]]
        BY <1>e, <2>0, <3>1, <3>3 DEF View
      <4>2. ASSUME NEW x \in kept
            PROVE  [val |-> data_map'[x].val, age |-> AgeOf(data_map'[x].load_time, now)] = new[x]
        <5>1. data_map'[x] = IF x = k THEN Entry(v) ELSE data_map[x]
          BY <3>1, <3>3
        <5>2. x # k => x \in DOMAIN data_map
          BY <3>2
        <5>3. new[x] = IF x = k THEN [val |-> v, age |-> 0] ELSE e[x]
          OBVIOUS
        <5> HIDE DEF new
        <5>4. CASE x = k
          BY <1>0, <5>1, <5>3, <5>4, Ages DEF Entry
        <5>5. CASE x # k
          BY <1>d, <5>1, <5>2, <5>3, <5>5
        <5> QED BY <5>4, <5>5
      <4> HIDE DEF new
      <4> QED BY <4>1, <4>2
    <3>5. IF Aging!Cardinality(ks) < Capacity THEN kept = ks
          ELSE Aging!Left(order, ks, F \cup {k}, kept)
      BY <1>f, <3>3, SameCardinality
    <3>6. b' = order \cap (kept \X kept)
      BY <3>1, <3>3
    <3>7. k \notin DOMAIN e
      BY <1>d, <2>2
    <3>8. Aging!Insert(k, v)
      BY <1>w, <2>0, <3>4, <3>5, <3>6, <3>7 DEF ks, order
    <3> QED BY <3>8
  <2> QED BY <2>1, <2>2
<1>5. CASE Tick
  <2>1. /\ now' = now + 1 /\ data_map' = data_map /\ UNCHANGED <<b, ret>>
    BY <1>5, <1>b DEF Tick
  <2>2. e' = [k \in DOMAIN data_map |-> [val |-> data_map[k].val, age |-> AgeOf(data_map[k].load_time, now + 1)]]
    BY <1>e, <2>1 DEF View
  <2>3. ASSUME NEW k \in DOMAIN data_map
        PROVE  [val |-> data_map[k].val, age |-> AgeOf(data_map[k].load_time, now + 1)]
                 = [e[k] EXCEPT !.age = IF @ <= Ttl THEN @ + 1 ELSE @]
    BY <1>0, <1>d, Ages
  <2>4. e' = [k \in DOMAIN e |-> [e[k] EXCEPT !.age = IF @ <= Ttl THEN @ + 1 ELSE @]]
    BY <1>d, <2>2, <2>3
  <2>5. Aging!Grow
    BY <1>v, <2>1, <2>4
  <2> QED BY <2>5 DEF Aging!Next
<1>6. CASE UNCHANGED vars
  <2>1. e' = e /\ b' = b /\ ret' = ret
    BY <1>6, <1>e, <1>b DEF vars, View
  <2> QED BY <1>v, <2>1
<1> QED BY <1>1, <1>2, <1>3, <1>4, <1>5, <1>6 DEF Next, Aging!Next

(***************************************************************************)
(* LocalCache implements AgingCache, for every set of keys and values and  *)
(* every capacity, clean_size and ttl: no call returns an expired value,   *)
(* the cache is brought below its capacity, and what a clean-up gives up   *)
(* was never used after a key it keeps.                                    *)
(***************************************************************************)
THEOREM CacheAges == Spec => ImplementsAgingCache
<1>1. CacheInv /\ CacheInv' /\ [Next]_vars => [Aging!Next]_(Aging!vars)
  BY AgingStepMaps
<1> QED BY <1>1, InvInit, InvStep, AgingInitMaps, PTL DEF Spec, ImplementsAgingCache, Aging!Spec

-----------------------------------------------------------------------------
(***************************************************************************)
(* RemoteCache.  Every version that is on its way to a caller, in the      *)
(* cache or brought by a fetch, was current recently enough.               *)
(***************************************************************************)
\* Of data with version rem now, whose versions v were replaced at rep[v], the
\* version v was current at time t or later.
CurrentAt(rem, rep, v, t) == v \in Value /\ v <= rem /\ (v = rem \/ t <= rep[v])

RemoteTypes ==
  /\ pc \in [Call -> {"idle", "fetch", "reply", "store", "done"}]
  /\ key \in [Call -> Asked]
  /\ since \in [Call -> Nat]
  /\ val \in [Call -> Value \cup {Nullopt}]
  /\ remote \in [Asked -> Value]
  /\ replaced \in [Asked -> [Value -> Nat]]
  /\ DOMAIN data_map \subseteq Asked

\* What the cache has was current at most a fetch before it was loaded.
Stored(m, rem, rep, n) ==
  \A k \in DOMAIN m :
    \E t \in 0..n : m[k].load_time <= t + MaxFetch /\ CurrentAt(rem[k], rep[k], m[k].val, t)

\* What a fetch has brought was current when the call had already missed.
FetchedRecently ==
  \A c \in Call :
    /\ pc[c] \in {"fetch", "reply", "store"} => since[c] <= now /\ now <= since[c] + MaxFetch
    /\ pc[c] \in {"reply", "store"} => CurrentAt(remote[key[c]], replaced[key[c]], val[c], since[c])

RemoteInv == CacheInv /\ RemoteTypes /\ Stored(data_map, remote, replaced, now) /\ FetchedRecently

LEMMA RemoteInitInv == RemoteInit => RemoteInv
<1> SUFFICES ASSUME RemoteInit PROVE RemoteInv
  OBVIOUS
<1>1. CacheInv
  BY InvInit DEF RemoteInit
<1>2. DOMAIN data_map = {}
  BY DEF RemoteInit, Init, Empty
<1>3. RemoteTypes
  BY <1>2, AskedAssumption DEF RemoteInit, RemoteTypes
<1> QED BY <1>1, <1>2, <1>3 DEF RemoteInit, RemoteInv, Stored, FetchedRecently

\* The cache after a call of Get: some of what it had.
LEMMA StoredLess ==
  ASSUME NEW m, NEW d, NEW rem, NEW rep, NEW n, Stored(m, rem, rep, n), DOMAIN d \subseteq DOMAIN m,
         \A k \in DOMAIN d : d[k] = m[k]
  PROVE  Stored(d, rem, rep, n)
BY DEF Stored

\* The cache after an Update: some of what it had, and the new value.
LEMMA UpdateIs ==
  ASSUME CacheInv, NEW k \in Key, NEW v \in Value, Update(k, v, FALSE)
  PROVE  /\ now' = now
         /\ DOMAIN data_map' \subseteq DOMAIN data_map \cup {k}
         /\ \A x \in DOMAIN data_map' : data_map'[x] = IF x = k THEN Entry(v) ELSE data_map[x]
<1>1. CASE k \in DOMAIN data_map
  <2>1. data_map' = Reloaded(k, v).map /\ now' = now
    BY <1>1 DEF Update, Becomes
  <2>2. data_map' = [data_map EXCEPT ![k] = Entry(v)]
    BY <1>1, <2>1, ReloadedIs
  <2> QED BY <2>1, <2>2
<1>2. CASE k \notin DOMAIN data_map
  <2> DEFINE ks == DOMAIN data_map \cup {k}
             order == Aging!UsedLast(Pairs(lru_list), ks, k)
  <2>0. ks = DOMAIN data_map \cup {k} /\ order = Aging!UsedLast(Pairs(lru_list), ks, k)
    OBVIOUS
  <2> HIDE DEF ks, order
  <2>1. data_map' = Inserted(k, v).map /\ now' = now
    BY <1>2 DEF Update, Becomes
  <2>2. PICK kept \in SUBSET ks :
              /\ DOMAIN Inserted(k, v).map = kept
              /\ \A x \in kept : Inserted(k, v).map[x] = IF x = k THEN Entry(v) ELSE data_map[x]
              /\ Pairs(Inserted(k, v).lru) = order \cap (kept \X kept)
              /\ IF Cardinality(ks) < Capacity THEN kept = ks
                 ELSE Aging!Left(order, ks, Alive \cup {k}, kept)
    BY <1>2, <2>0, InsertIs, SMTT(60)
  <2> QED BY <2>0, <2>1, <2>2
<1> QED BY <1>1, <1>2

LEMMA RemoteStep ==
  ASSUME RemoteInv, [RemoteNext]_rvars
  PROVE  RemoteInv'
<1>0. CacheInv /\ RemoteTypes /\ Stored(data_map, remote, replaced, now) /\ FetchedRecently /\ now \in Nat
  BY DEF RemoteInv, CacheInv
<1>n. Nullopt \notin Value /\ Value \subseteq Nat /\ MaxFetch \in Nat /\ Ttl \in Nat /\ Asked \subseteq Key
  BY ValueAssumption, AskedAssumption, MaxFetchAssumption, CfgAssumption
<1>c. CacheInv'
  <2>1. [Next]_vars
    <3>1. ASSUME NEW c \in Call, Lookup(c) PROVE Next
      BY <3>1, <1>0, <1>n DEF Lookup, Next, RemoteTypes
    <3>2. ASSUME NEW c \in Call, Store(c) PROVE Next
      <4>1. Update(key[c], val[c], FALSE) /\ key[c] \in Key /\ val[c] \in Value
        BY <3>2, <1>0, <1>n DEF Store, RemoteTypes, FetchedRecently, CurrentAt
      <4> QED BY <4>1 DEF Next
    <3> QED BY <3>1, <3>2 DEF RemoteNext, RemoteReads, FetchDone, FetchFails, RemoteWrite, Pass, Next, rvars
  <2> QED BY <1>0, <2>1, InvStep
<1>1. ASSUME NEW c \in Call, Lookup(c) PROVE RemoteInv'
  <2>1. /\ Get(key[c]) /\ key[c] \in Key /\ UNCHANGED <<key, source>>
        /\ \/ Return(c, ret') /\ ret' # Nullopt /\ UNCHANGED since
           \/ /\ pc' = [pc EXCEPT ![c] = "fetch"]
              /\ since' = [since EXCEPT ![c] = now]
              /\ UNCHANGED val
    BY <1>0, <1>1, <1>n DEF Lookup, RemoteTypes
  <2>2. PICK d : /\ Becomes(d) /\ now' = now /\ DOMAIN d.map = Alive
                 /\ \A x \in Alive : d.map[x] = data_map[x]
                 /\ IF key[c] \in Alive THEN ret' = data_map[key[c]].val ELSE ret' = Nullopt
    BY <1>0, <2>1, GetIs
  <2>3. data_map' = d.map /\ Alive \subseteq DOMAIN data_map
    BY <2>2 DEF Becomes, Alive, Lives, Cache
  <2>4. Stored(data_map', remote', replaced', now')
    BY <1>0, <2>1, <2>2, <2>3, StoredLess DEF source
  <2>5. ret' \in Value \cup {Nullopt}
    BY <1>0, <2>2, <2>3 DEF Stored, CurrentAt
  <2>6. RemoteTypes'
    <3>1. /\ pc' \in [Call -> {"idle", "fetch", "reply", "store", "done"}]
          /\ since' \in [Call -> Nat]
          /\ val' \in [Call -> Value \cup {Nullopt}]
      BY <1>0, <2>1, <2>5 DEF RemoteTypes, Return
    <3>2. UNCHANGED <<key, remote, replaced>> /\ DOMAIN data_map' \subseteq DOMAIN data_map
      BY <2>1, <2>2, <2>3 DEF source
    <3> QED BY <1>0, <3>1, <3>2 DEF RemoteTypes
  <2>7. FetchedRecently'
    BY <1>0, <1>n, <2>1, <2>2 DEF FetchedRecently, RemoteTypes, Return, source
  <2> QED BY <1>c, <2>4, <2>6, <2>7 DEF RemoteInv
<1>2. ASSUME NEW c \in Call, RemoteReads(c) \/ FetchDone(c) \/ FetchFails(c) PROVE RemoteInv'
  <2>1. UNCHANGED <<now, data_map, key, since, remote, replaced>>
    BY <1>2 DEF RemoteReads, FetchDone, FetchFails, vars, source
  <2>2. RemoteTypes'
    BY <1>0, <1>2, <2>1 DEF RemoteTypes, RemoteReads, FetchDone, FetchFails, Return
  <2>3. FetchedRecently'
    <3>0. pc[c] \in {"fetch", "reply"}
      BY <1>2 DEF RemoteReads, FetchDone, FetchFails
    <3>1. /\ since[c] <= now /\ now <= since[c] + MaxFetch
          /\ pc[c] = "reply" => CurrentAt(remote[key[c]], replaced[key[c]], val[c], since[c])
      BY <1>0, <3>0 DEF FetchedRecently
    <3>2. CurrentAt(remote[key[c]], replaced[key[c]], remote[key[c]], since[c])
      <4>1. remote[key[c]] \in Value /\ remote[key[c]] \in Nat
        BY <1>0, <1>n DEF RemoteTypes
      <4> QED BY <4>1 DEF CurrentAt
    <3>3. \/ pc' = [pc EXCEPT ![c] = "reply"] /\ val' = [val EXCEPT ![c] = remote[key[c]]]
          \/ pc[c] = "reply" /\ pc' = [pc EXCEPT ![c] = "store"] /\ val' = val
          \/ pc' = [pc EXCEPT ![c] = "done"] /\ val' = [val EXCEPT ![c] = Nullopt]
      BY <1>2 DEF RemoteReads, FetchDone, FetchFails, Return
    <3> SUFFICES ASSUME NEW x \in Call
                 PROVE  /\ pc'[x] \in {"fetch", "reply", "store"} => since[x] <= now /\ now <= since[x] + MaxFetch
                        /\ pc'[x] \in {"reply", "store"} =>
                             CurrentAt(remote[key[x]], replaced[key[x]], val'[x], since[x])
      BY <2>1 DEF FetchedRecently
    <3>4. CASE x # c
      <4>1. pc'[x] = pc[x] /\ val'[x] = val[x]
        BY <1>0, <3>3, <3>4 DEF RemoteTypes
      <4> QED BY <1>0, <4>1 DEF FetchedRecently
    <3>5. CASE x = c
      <4>1. \/ pc'[c] = "reply" /\ val'[c] = remote[key[c]]
            \/ pc[c] = "reply" /\ pc'[c] = "store" /\ val'[c] = val[c]
            \/ pc'[c] = "done"
        BY <1>0, <3>3 DEF RemoteTypes
      <4> QED BY <3>1, <3>2, <3>5, <4>1
    <3> QED BY <3>4, <3>5
  <2> QED BY <1>0, <1>c, <2>1, <2>2, <2>3 DEF RemoteInv
<1>3. ASSUME NEW c \in Call, Store(c) PROVE RemoteInv'
  <2>1. /\ pc[c] = "store" /\ Update(key[c], val[c], FALSE) /\ Return(c, val[c])
        /\ UNCHANGED <<key, since, source>>
    BY <1>3 DEF Store
  <2>2. /\ key[c] \in Key /\ key[c] \in Asked /\ since[c] \in 0..now /\ now <= since[c] + MaxFetch
        /\ CurrentAt(remote[key[c]], replaced[key[c]], val[c], since[c])
    BY <1>0, <1>n, <2>1 DEF FetchedRecently, RemoteTypes
  <2>3. val[c] \in Value
    BY <2>2 DEF CurrentAt
  <2>4. /\ now' = now /\ DOMAIN data_map' \subseteq DOMAIN data_map \cup {key[c]}
        /\ \A x \in DOMAIN data_map' : data_map'[x] = IF x = key[c] THEN Entry(val[c]) ELSE data_map[x]
    BY <1>0, <2>1, <2>2, <2>3, UpdateIs
  <2>5. Stored(data_map', remote, replaced, now)
    <3> SUFFICES ASSUME NEW k \in DOMAIN data_map'
                 PROVE  \E t \in 0..now : /\ data_map'[k].load_time <= t + MaxFetch
                                          /\ CurrentAt(remote[k], replaced[k], data_map'[k].val, t)
      BY DEF Stored
    <3>1. CASE k = key[c]
      BY <2>2, <2>4, <3>1 DEF Entry
    <3>2. CASE k # key[c]
      BY <1>0, <2>4, <3>2 DEF Stored
    <3> QED BY <3>1, <3>2
  <2>6. RemoteTypes'
    BY <1>0, <2>1, <2>2, <2>4 DEF RemoteTypes, Return, source
  <2>7. FetchedRecently'
    BY <1>0, <2>1, <2>4 DEF FetchedRecently, RemoteTypes, Return, source
  <2> QED BY <1>c, <2>1, <2>4, <2>5, <2>6, <2>7 DEF RemoteInv, source
<1>4. ASSUME NEW k \in Asked, RemoteWrite(k) PROVE RemoteInv'
  <2>1. /\ UNCHANGED <<now, data_map, pc, key, val, since>>
        /\ remote' = [remote EXCEPT ![k] = @ + 1] /\ remote[k] + 1 \in Value /\ remote[k] \in Value
        /\ replaced' = [replaced EXCEPT ![k][remote[k]] = now]
    BY <1>0, <1>4 DEF RemoteWrite, RemoteTypes, vars, calls
  <2>2. RemoteTypes'
    BY <1>0, <2>1 DEF RemoteTypes
  <2>3. ASSUME NEW x \in Asked, NEW v, NEW t \in 0..now, CurrentAt(remote[x], replaced[x], v, t)
        PROVE  CurrentAt(remote'[x], replaced'[x], v, t)
    <3>1. remote[x] \in Nat /\ v \in Nat /\ v \in Value
      BY <1>0, <1>n, <2>3 DEF RemoteTypes, CurrentAt
    <3>2. CASE x = k
      <4>1. remote'[x] = remote[x] + 1
        BY <1>0, <2>1, <3>2 DEF RemoteTypes
      <4>2. replaced'[x][v] = IF v = remote[x] THEN now ELSE replaced[x][v]
        BY <1>0, <2>1, <3>1, <3>2 DEF RemoteTypes
      <4> QED BY <1>0, <2>3, <3>1, <4>1, <4>2 DEF CurrentAt
    <3>3. CASE x # k
      BY <1>0, <2>1, <2>3, <3>3 DEF RemoteTypes
    <3> QED BY <3>2, <3>3
  <2>4. Stored(data_map', remote', replaced', now')
    <3> SUFFICES ASSUME NEW x \in DOMAIN data_map
                 PROVE  \E t \in 0..now : /\ data_map[x].load_time <= t + MaxFetch
                                          /\ CurrentAt(remote'[x], replaced'[x], data_map[x].val, t)
      BY <2>1 DEF Stored
    <3>1. PICK t \in 0..now : /\ data_map[x].load_time <= t + MaxFetch
                              /\ CurrentAt(remote[x], replaced[x], data_map[x].val, t)
      BY <1>0 DEF Stored
    <3>2. x \in Asked
      BY <1>0 DEF RemoteTypes
    <3> QED BY <2>3, <3>1, <3>2
  <2>5. FetchedRecently'
    <3> SUFFICES ASSUME NEW c \in Call
                 PROVE  /\ pc[c] \in {"fetch", "reply", "store"} => since[c] <= now /\ now <= since[c] + MaxFetch
                        /\ pc[c] \in {"reply", "store"} => CurrentAt(remote'[key[c]], replaced'[key[c]], val[c], since[c])
      BY <2>1 DEF FetchedRecently
    <3>1. key[c] \in Asked /\ since[c] \in Nat
      BY <1>0 DEF RemoteTypes
    <3>2. pc[c] \in {"fetch", "reply", "store"} => since[c] <= now /\ now <= since[c] + MaxFetch
      BY <1>0 DEF FetchedRecently
    <3>3. CASE pc[c] \in {"reply", "store"}
      <4>1. CurrentAt(remote[key[c]], replaced[key[c]], val[c], since[c]) /\ since[c] \in 0..now
        BY <1>0, <3>1, <3>2, <3>3 DEF FetchedRecently
      <4> QED BY <2>3, <3>1, <3>2, <4>1
    <3> QED BY <3>2, <3>3
  <2> QED BY <1>c, <2>2, <2>4, <2>5 DEF RemoteInv
<1>5. CASE Pass \/ UNCHANGED rvars
  <2>1. /\ UNCHANGED <<data_map, calls, source>> /\ now' \in {now, now + 1}
        /\ \A c \in Call : pc[c] \in {"fetch", "reply", "store"} =>
             since[c] <= now' /\ now' <= since[c] + MaxFetch
    BY <1>0, <1>5, <1>n DEF Pass, Tick, rvars, vars, FetchedRecently, RemoteTypes
  <2>2. 0..now \subseteq 0..now'
    BY <1>0, <2>1
  <2>3. Stored(data_map', remote', replaced', now')
    BY <1>0, <2>1, <2>2 DEF Stored, source
  <2>4. RemoteTypes' /\ FetchedRecently'
    BY <1>0, <2>1 DEF RemoteTypes, FetchedRecently, calls, source
  <2> QED BY <1>c, <2>3, <2>4 DEF RemoteInv
<1> QED BY <1>1, <1>2, <1>3, <1>4, <1>5 DEF RemoteNext

(***************************************************************************)
(* An answer is at most a fetch and a time-to-live old, for any number of  *)
(* calls and keys and whatever they interleave: an old answer that is      *)
(* stored over a newer one cannot live longer than that.                   *)
(***************************************************************************)
THEOREM AnswersAreFresh == RemoteSpec => AnswersAreRecent
<1> DEFINE Answers == \A c \in Call : (pc[c] # "done" /\ pc'[c] = "done" /\ val'[c] # Nullopt)
                                        => Recent(key[c], val'[c])
<1>1. RemoteInv /\ [RemoteNext]_rvars => [Answers]_rvars
  <2> SUFFICES ASSUME RemoteInv, RemoteNext, NEW c \in Call,
                      pc[c] # "done", pc'[c] = "done", val'[c] # Nullopt
               PROVE  Recent(key[c], val'[c])
    OBVIOUS
  <2>0. CacheInv /\ RemoteTypes /\ Stored(data_map, remote, replaced, now) /\ FetchedRecently /\ now \in Nat
    BY DEF RemoteInv, CacheInv
  <2>n. Nullopt \notin Value /\ Value \subseteq Nat /\ MaxFetch \in Nat /\ Ttl \in Nat /\ Asked \subseteq Key
    BY ValueAssumption, AskedAssumption, MaxFetchAssumption, CfgAssumption
  <2>t. key[c] \in Asked /\ key[c] \in Key /\ replaced[key[c]] \in [Value -> Nat]
    BY <2>0, <2>n DEF RemoteTypes
  <2>s. ASSUME NEW v \in Value, NEW t \in Nat, now <= t + MaxFetch + Ttl,
               v = remote[key[c]] \/ t <= replaced[key[c]][v]
        PROVE  Recent(key[c], v)
    <3>1. replaced[key[c]][v] \in Nat
      BY <2>t
    <3>2. \A a, n, m, l, r \in Nat : n <= a + m + l /\ a <= r => n <= r + m + l
      OBVIOUS
    <3> QED BY <2>0, <2>n, <2>s, <3>1, <3>2 DEF Recent
  <2>1. Lookup(c) \/ Store(c)
    BY <2>0 DEF RemoteNext, Lookup, RemoteReads, FetchDone, FetchFails, Store, RemoteWrite, Pass, Return,
                RemoteTypes, calls
  <2>2. CASE Lookup(c)
    <3>1. Get(key[c]) /\ val'[c] = ret' /\ ret' # Nullopt
      BY <2>0, <2>2 DEF Lookup, Return, RemoteTypes
    <3>2. key[c] \in Alive /\ ret' = data_map[key[c]].val
      BY <2>0, <2>t, <3>1, GetIs
    <3>3. data_map[key[c]].load_time \in Nat /\ ~(data_map[key[c]].load_time + Ttl < now) /\ key[c] \in DOMAIN data_map
      BY <2>0, <3>2 DEF Alive, Lives, Cache, Expired, CacheInv, Good
    <3>4. PICK t \in 0..now : /\ data_map[key[c]].load_time <= t + MaxFetch
                              /\ CurrentAt(remote[key[c]], replaced[key[c]], data_map[key[c]].val, t)
      BY <2>0, <3>3 DEF Stored
    <3>5. now <= t + MaxFetch + Ttl
      <4>1. \A l, n, m, u, a \in Nat : ~(l + u < n) /\ l <= a + m => n <= a + m + u
        OBVIOUS
      <4> QED BY <2>0, <2>n, <3>3, <3>4, <4>1
    <3>6. /\ val'[c] \in Value
          /\ val'[c] = remote[key[c]] \/ t <= replaced[key[c]][val'[c]]
      BY <3>1, <3>2, <3>4 DEF CurrentAt
    <3>7. t \in Nat
      BY <2>0
    <3> QED BY <2>s, <3>5, <3>6, <3>7
  <2>3. CASE Store(c)
    <3>1. pc[c] = "store" /\ val'[c] = val[c]
      BY <2>0, <2>3 DEF Store, Return, RemoteTypes
    <3>2. /\ since[c] \in Nat /\ now <= since[c] + MaxFetch
          /\ CurrentAt(remote[key[c]], replaced[key[c]], val[c], since[c])
      BY <2>0, <3>1 DEF FetchedRecently, RemoteTypes
    <3>3. /\ val'[c] \in Value
          /\ val'[c] = remote[key[c]] \/ since[c] <= replaced[key[c]][val'[c]]
      BY <3>1, <3>2 DEF CurrentAt
    <3>4. now <= since[c] + MaxFetch + Ttl
      BY <2>0, <2>n, <3>2
    <3> QED BY <2>s, <3>2, <3>3, <3>4
  <2> QED BY <2>1, <2>2, <2>3
<1>2. RemoteInv /\ [RemoteNext]_rvars => RemoteInv'
  BY RemoteStep
<1> QED BY <1>1, <1>2, RemoteInitInv, PTL DEF RemoteSpec, AnswersAreRecent
=============================================================================
