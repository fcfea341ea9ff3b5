-------------------------- MODULE MetadataFetchProofs --------------------------
(***************************************************************************)
(* CacheSound and SkipsAreEarned hold of the fetches for any number of     *)
(* torrents and peers, any capacity and time to live of the failure cache, *)
(* and any bound Lag on the wait for its mutex.                            *)
(***************************************************************************)
EXTENDS MetadataFetch, WellFoundedInduction, FiniteSetTheorems, TLAPS

Keys == {Endpoint(p) : p \in Peers} \cup {Metadata(x[1], x[2]) : x \in Fetches}

(* The cache at time n, with the failures f: it is sound, and its queue is *)
(* in order but for Lag, since a deadline is computed from a clock read at *)
(* most Lag before the insertion.                                          *)
CacheOK(c, f, n) ==
    /\ c.expiry \in Seq(Nat \X Keys)
    /\ IsFiniteSet(DOMAIN c.entries)
    /\ Sound(c)
    /\ \A i \in 1..Len(c.expiry) : c.expiry[i][1] <= n + FailureTtl
    /\ \A i, j \in 1..Len(c.expiry) : i < j => c.expiry[i][1] <= c.expiry[j][1] + Lag
    /\ \A k \in DOMAIN c.entries : k \in DOMAIN f /\ c.entries[k] <= f[k] + FailureTtl

-------------------------------------------------------------------------------
(* The least and the greatest of a set of naturals.                        *)

(* A nonempty set of naturals has a minimum.                               *)
LEMMA MinExists ==
    ASSUME NEW T \in SUBSET Nat, T # {}
    PROVE  Min(T) \in T /\ \A k \in T : Min(T) <= k
<1>. DEFINE R == OpToRel(<, Nat)
<1>1. IsWellFoundedOn(R, Nat)
  BY NatLessThanWellFounded
<1>2. \A a, b \in Nat : <<a, b>> \in R <=> a < b
  BY DEF OpToRel
<1>. HIDE DEF R
<1>3. PICK x \in T : \A y \in T : ~(<<y, x>> \in R)
  BY <1>1, WFMin, Zenon
<1>4. \A y \in T : x <= y
  <2>. TAKE y \in T
  <2>1. x \in Nat /\ y \in Nat
    OBVIOUS
  <2>2. ~(y < x)
    BY <1>2, <1>3, <2>1, Zenon
  <2>. QED
    BY <2>1, <2>2
<1>. QED
  BY <1>4, Zenon DEF Min

(* A nonempty set of naturals up to N has a maximum.                       *)
LEMMA MaxExists ==
    ASSUME NEW N \in Nat, NEW T \in SUBSET (0..N), T # {}
    PROVE  Max(T) \in T /\ \A k \in T : Max(T) >= k
<1>. DEFINE D == {N - t : t \in T}
<1>1. D \subseteq Nat /\ D # {}
  <2>1. \A t \in T : N - t \in Nat
    OBVIOUS
  <2>2. PICK t \in T : TRUE
    BY Zenon
  <2>3. N - t \in D
    OBVIOUS
  <2>. QED
    BY <2>1, <2>3
<1>2. Min(D) \in D /\ \A k \in D : Min(D) <= k
  <2>. HIDE DEF D
  <2>. QED
    BY <1>1, MinExists
<1>3. PICK t \in T : Min(D) = N - t
  BY <1>2, Zenon
<1>4. \A k \in T : t >= k
  <2>. TAKE k \in T
  <2>1. N - k \in D
    OBVIOUS
  <2>2. N - t <= N - k
    BY <1>2, <1>3, <2>1
  <2>. QED
    BY <2>2
<1>. QED
  BY <1>4, Zenon DEF Max

-------------------------------------------------------------------------------
(* The operations of the cache.                                            *)

(* Popping pairs takes along every entry that would be left without one.   *)
LEMMA PopFacts ==
    ASSUME NEW c, NEW f, NEW m, CacheOK(c, f, m), NEW n \in 0..Len(c.expiry)
    PROVE  LET r == Pop(c, n)
           IN  /\ r.expiry \in Seq(Nat \X Keys)
               /\ Len(r.expiry) = Len(c.expiry) - n
               /\ \A i \in 1..Len(r.expiry) :
                    n + i \in 1..Len(c.expiry) /\ r.expiry[i] = c.expiry[n + i]
               /\ DOMAIN r.entries \subseteq DOMAIN c.entries
               /\ \A k \in DOMAIN r.entries : r.entries[k] = c.entries[k]
               /\ \A k \in DOMAIN r.entries :
                    \E i \in 1..Len(r.expiry) : r.expiry[i] = <<r.entries[k], k>>
<1>. DEFINE gone == {c.expiry[i][2] : i \in
                        {j \in 1..n : /\ c.expiry[j][2] \in DOMAIN c.entries
                                      /\ c.entries[c.expiry[j][2]] = c.expiry[j][1]}}
            entries == Restrict(c.entries, DOMAIN c.entries \ gone)
            rest == SubSeq(c.expiry, n + 1, Len(c.expiry))
<1>1. Pop(c, n).entries = entries /\ Pop(c, n).expiry = rest
  BY DEF Pop
<1>2. c.expiry \in Seq(Nat \X Keys) /\ Len(c.expiry) \in Nat /\ n \in Nat /\ n <= Len(c.expiry)
  BY DEF CacheOK
<1>3. \A i \in n + 1..Len(c.expiry) : c.expiry[i] \in Nat \X Keys
  <2>1. \A i \in n + 1..Len(c.expiry) : i \in 1..Len(c.expiry)
    BY <1>2
  <2>. QED
    BY <1>2, <2>1
<1>4. /\ rest \in Seq(Nat \X Keys)
      /\ Len(rest) = Len(c.expiry) - n
      /\ \A i \in 1..Len(rest) : n + i \in 1..Len(c.expiry) /\ rest[i] = c.expiry[n + i]
  <2>1. /\ rest \in Seq(Nat \X Keys)
        /\ Len(rest) = IF n + 1 <= Len(c.expiry) THEN Len(c.expiry) - (n + 1) + 1 ELSE 0
        /\ \A i \in 1..Len(c.expiry) - (n + 1) + 1 : rest[i] = c.expiry[n + 1 + i - 1]
    BY <1>2, <1>3
  <2>. HIDE DEF rest
  <2>2. Len(rest) = Len(c.expiry) - n
    BY <1>2, <2>1
  <2>3. \A i \in 1..Len(rest) : n + i \in 1..Len(c.expiry) /\ rest[i] = c.expiry[n + i]
    <3>. TAKE i \in 1..Len(rest)
    <3>1. i \in 1..Len(c.expiry) - (n + 1) + 1 /\ n + 1 + i - 1 = n + i /\ n + i \in 1..Len(c.expiry)
      BY <1>2, <2>2
    <3>. QED
      BY <2>1, <3>1
  <2>. QED
    BY <2>1, <2>2, <2>3
<1>. HIDE DEF rest
<1>5. DOMAIN entries = DOMAIN c.entries \ gone /\ \A k \in DOMAIN entries : entries[k] = c.entries[k]
  BY DEF Restrict
<1>6. ASSUME NEW k \in DOMAIN entries
      PROVE  \E i \in 1..Len(rest) : rest[i] = <<entries[k], k>>
  <2>1. k \in DOMAIN c.entries /\ k \notin gone /\ entries[k] = c.entries[k]
    BY <1>5
  <2>2. PICK j \in 1..Len(c.expiry) : c.expiry[j] = <<c.entries[k], k>>
    <3>1. DOMAIN c.expiry = 1..Len(c.expiry)
      BY <1>2
    <3>. QED
      BY <2>1, <3>1, Zenon DEF CacheOK, Sound
  <2>3. c.expiry[j][2] = k /\ c.expiry[j][1] = c.entries[k]
    BY <2>2
  <2>4. j \notin 1..n
    BY <2>1, <2>3
  <2>5. j - n \in 1..Len(rest) /\ n + (j - n) = j
    BY <1>2, <1>4, <2>4
  <2>6. rest[j - n] = c.expiry[j]
    BY <1>4, <2>5
  <2>. QED
    BY <2>1, <2>2, <2>5, <2>6, ZenonT(60)
<1>. HIDE DEF entries
<1>. QED
  BY <1>1, <1>4, <1>5, <1>6, Zenon

(* So it leaves the cache as it should be.                                 *)
LEMMA PopOK ==
    ASSUME NEW c, NEW f, NEW m, CacheOK(c, f, m), NEW n \in 0..Len(c.expiry)
    PROVE  CacheOK(Pop(c, n), f, m)
<1>. DEFINE r == Pop(c, n)
<1>1. /\ r.expiry \in Seq(Nat \X Keys)
      /\ Len(r.expiry) = Len(c.expiry) - n
      /\ \A i \in 1..Len(r.expiry) : n + i \in 1..Len(c.expiry) /\ r.expiry[i] = c.expiry[n + i]
      /\ DOMAIN r.entries \subseteq DOMAIN c.entries
      /\ \A k \in DOMAIN r.entries : r.entries[k] = c.entries[k]
      /\ \A k \in DOMAIN r.entries :
            \E i \in 1..Len(r.expiry) : r.expiry[i] = <<r.entries[k], k>>
  BY PopFacts, Zenon
<1>. HIDE DEF r
<1>2. IsFiniteSet(DOMAIN r.entries) /\ Cardinality(DOMAIN r.entries) <= CacheCapacity
  <2>1. IsFiniteSet(DOMAIN c.entries) /\ Cardinality(DOMAIN c.entries) <= CacheCapacity
    BY DEF CacheOK, Sound
  <2>2. /\ IsFiniteSet(DOMAIN r.entries)
        /\ Cardinality(DOMAIN r.entries) <= Cardinality(DOMAIN c.entries)
    BY <1>1, <2>1, FS_Subset
  <2>3. Cardinality(DOMAIN r.entries) \in Nat /\ Cardinality(DOMAIN c.entries) \in Nat
    BY <2>1, <2>2, FS_CardinalityType
  <2>. QED
    BY <2>1, <2>2, <2>3, CacheAssumption
<1>3. DOMAIN r.expiry = 1..Len(r.expiry)
  BY <1>1
<1>4. Sound(r)
  BY <1>1, <1>2, <1>3, Zenon DEF Sound
<1>5. \A i \in 1..Len(r.expiry) : r.expiry[i][1] <= m + FailureTtl
  BY <1>1, Zenon DEF CacheOK
<1>6. \A i, j \in 1..Len(r.expiry) : i < j => r.expiry[i][1] <= r.expiry[j][1] + Lag
  <2>. TAKE i, j \in 1..Len(r.expiry)
  <2>1. i \in Nat /\ j \in Nat /\ n \in Nat
    BY <1>1 DEF CacheOK
  <2>2. i < j => n + i < n + j
    BY <2>1
  <2>. QED
    BY <1>1, <2>2, Zenon DEF CacheOK
<1>7. \A k \in DOMAIN r.entries : k \in DOMAIN f /\ r.entries[k] <= f[k] + FailureTtl
  BY <1>1 DEF CacheOK
<1>8. CacheOK(r, f, m)
  BY <1>1, <1>2, <1>4, <1>5, <1>6, <1>7 DEF CacheOK
<1>. QED
  BY <1>8 DEF r

(* expire: what it leaves is due later than at, but for Lag.               *)
LEMMA ExpireOK ==
    ASSUME NEW c, NEW f, NEW m, CacheOK(c, f, m), NEW at \in Nat
    PROVE  /\ CacheOK(Expire(c, at), f, m)
           /\ DOMAIN Expire(c, at).entries \subseteq DOMAIN c.entries
           /\ \A k \in DOMAIN Expire(c, at).entries :
                c.entries[k] \in Nat /\ at < c.entries[k] + Lag
<1>. DEFINE T == {n \in 0..Len(c.expiry) : \A i \in 1..n : c.expiry[i][1] <= at}
            d == Max(T)
<1>1. c.expiry \in Seq(Nat \X Keys) /\ Len(c.expiry) \in Nat
  BY DEF CacheOK
<1>2. T \in SUBSET (0..Len(c.expiry)) /\ T # {}
  <2>1. 0 \in T
    BY <1>1
  <2>. QED
    BY <2>1
<1>3. d \in T /\ \A k \in T : d >= k
  <2>. HIDE DEF T
  <2>. QED
    BY <1>1, <1>2, MaxExists, Zenon
<1>4. Expire(c, at) = Pop(c, d)
  BY DEF Expire
<1>. HIDE DEF d
<1>5. d \in 0..Len(c.expiry)
  BY <1>3
<1>6. CacheOK(Pop(c, d), f, m)
  BY <1>5, PopOK
<1>7. /\ DOMAIN Pop(c, d).entries \subseteq DOMAIN c.entries
      /\ \A i \in 1..Len(Pop(c, d).expiry) :
            d + i \in 1..Len(c.expiry) /\ Pop(c, d).expiry[i] = c.expiry[d + i]
      /\ \A k \in DOMAIN Pop(c, d).entries : Pop(c, d).entries[k] = c.entries[k]
      /\ \A k \in DOMAIN Pop(c, d).entries :
            \E i \in 1..Len(Pop(c, d).expiry) : Pop(c, d).expiry[i] = <<Pop(c, d).entries[k], k>>
      /\ Len(Pop(c, d).expiry) \in Nat
  <2>1. Len(Pop(c, d).expiry) \in Nat
    BY <1>6 DEF CacheOK
  <2>. QED
    BY <1>5, <2>1, PopFacts, ZenonT(60)
<1>8. ASSUME NEW k \in DOMAIN Pop(c, d).entries
      PROVE  c.entries[k] \in Nat /\ at < c.entries[k] + Lag
  <2>1. PICK i \in 1..Len(Pop(c, d).expiry) : c.expiry[d + i] = <<c.entries[k], k>>
    BY <1>7, Zenon
  <2>2. i \in Nat /\ i >= 1 /\ d \in Nat /\ d + i \in 1..Len(c.expiry) /\ d + 1 \in 1..Len(c.expiry)
    BY <1>1, <1>5, <1>7
  <2>3. \A j \in 1..Len(c.expiry) : c.expiry[j][1] \in Nat
    BY <1>1
  <2>4. c.expiry[d + i][1] = c.entries[k] /\ c.entries[k] \in Nat
    BY <2>1, <2>2, <2>3
  <2>5. ~(c.expiry[d + 1][1] <= at)
    <3>. SUFFICES ASSUME c.expiry[d + 1][1] <= at PROVE FALSE
      OBVIOUS
    <3>1. \A j \in 1..d : c.expiry[j][1] <= at
      BY <1>3
    <3>2. \A j \in 1..d + 1 : j \in 1..d \/ j = d + 1
      BY <2>2
    <3>3. d + 1 \in T
      BY <2>2, <3>1, <3>2
    <3>. QED
      BY <1>3, <2>2, <3>3
  <2>6. c.expiry[d + 1][1] <= c.expiry[d + i][1] + Lag
    <3>1. CASE i = 1
      BY <2>2, <2>3, <3>1, FetchAssumption
    <3>2. CASE i # 1
      <4>1. d + 1 < d + i
        BY <2>2, <3>2
      <4>. QED
        BY <2>2, <4>1 DEF CacheOK
    <3>. QED
      BY <3>1, <3>2
  <2>7. c.expiry[d + 1][1] \in Nat
    BY <2>2, <2>3
  <2>8. c.expiry[d + 1][1] <= c.entries[k] + Lag
    BY <2>4, <2>6
  <2>. QED
    BY <2>4, <2>5, <2>7, <2>8, FetchAssumption
<1>. QED
  BY <1>4, <1>6, <1>7, <1>8

(* The loop of insert ends with room for the key.                          *)
LEMMA MakeRoomOK ==
    ASSUME NEW c, NEW f, NEW m, CacheOK(c, f, m), NEW key, CacheCapacity # 0
    PROVE  CacheOK(MakeRoom(c, key), f, m) /\ Fits(MakeRoom(c, key), key)
<1>. DEFINE T == {n \in 0..Len(c.expiry) : Fits(Pop(c, n), key)} \cup {Len(c.expiry)}
            d == Min(T)
<1>1. Len(c.expiry) \in Nat
  BY DEF CacheOK
<1>2. T \in SUBSET Nat /\ T # {}
  BY <1>1
<1>3. d \in T
  <2>. HIDE DEF T
  <2>. QED
    BY <1>2, MinExists
<1>4. MakeRoom(c, key) = Pop(c, d)
  BY DEF MakeRoom
<1>. HIDE DEF d
<1>5. d \in 0..Len(c.expiry)
  BY <1>1, <1>3
<1>6. CASE d = Len(c.expiry)
  <2>1. Len(Pop(c, d).expiry) = 0
    BY <1>1, <1>5, <1>6, PopFacts
  <2>2. 1..Len(Pop(c, d).expiry) = {}
    BY <2>1
  <2>3. DOMAIN Pop(c, d).entries = {}
    BY <1>5, <2>2, PopFacts, Zenon
  <2>4. Fits(Pop(c, d), key)
    BY <2>3, FS_EmptySet, CacheAssumption DEF Fits
  <2>. QED
    BY <1>4, <1>5, <2>4, PopOK
<1>7. CASE d # Len(c.expiry)
  BY <1>3, <1>4, <1>5, <1>7, PopOK
<1>. QED
  BY <1>6, <1>7

(* insert, of a key that failed at the time at or later, with a clock read *)
(* at most Lag ago.                                                        *)
LEMMA InsertOK ==
    ASSUME NEW c, NEW f, NEW m \in Nat, CacheOK(c, f, m), NEW key \in Keys, NEW at \in Nat,
           at <= m, m <= at + Lag, key \in DOMAIN f, at <= f[key], f[key] \in Nat
    PROVE  CacheOK(Insert(c, key, at), f, m)
<1>1. CASE Off
  BY <1>1 DEF Insert
<1>2. CASE ~Off
  <2>. DEFINE room == MakeRoom(Expire(c, at), key)
              deadline == at + FailureTtl
              r == Insert(c, key, at)
  <2>1. CacheOK(room, f, m) /\ Fits(room, key)
    <3>1. CacheOK(Expire(c, at), f, m) /\ CacheCapacity # 0
      BY <1>2, ExpireOK DEF Off
    <3>. QED
      BY <3>1, MakeRoomOK
  <2>2. /\ r.entries = Put(room.entries, key, deadline)
        /\ r.expiry = Append(room.expiry, <<deadline, key>>)
    BY <1>2 DEF Insert
  <2>. HIDE DEF room, r
  <2>3. /\ DOMAIN r.entries = DOMAIN room.entries \cup {key}
        /\ r.entries[key] = deadline
        /\ \A k \in DOMAIN room.entries : k # key => r.entries[k] = room.entries[k]
    BY <2>2 DEF Put
  <2>4. room.expiry \in Seq(Nat \X Keys) /\ Len(room.expiry) \in Nat
    BY <2>1 DEF CacheOK
  <2>5. deadline \in Nat /\ <<deadline, key>> \in Nat \X Keys
    BY CacheAssumption
  <2>6. /\ r.expiry \in Seq(Nat \X Keys)
        /\ Len(r.expiry) = Len(room.expiry) + 1
        /\ \A i \in 1..Len(room.expiry) : r.expiry[i] = room.expiry[i]
        /\ r.expiry[Len(room.expiry) + 1] = <<deadline, key>>
    BY <2>2, <2>4, <2>5
  <2>7. \A i \in 1..Len(r.expiry) : i \in 1..Len(room.expiry) \/ i = Len(room.expiry) + 1
    BY <2>4, <2>6
  <2>8. \A i \in 1..Len(room.expiry) : i \in 1..Len(r.expiry)
    BY <2>4, <2>6
  <2>. HIDE DEF deadline
  <2>9. IsFiniteSet(DOMAIN r.entries) /\ Cardinality(DOMAIN r.entries) <= CacheCapacity
    <3>1. IsFiniteSet(DOMAIN room.entries) /\ Cardinality(DOMAIN room.entries) <= CacheCapacity
      BY <2>1 DEF CacheOK, Sound
    <3>2. Cardinality(DOMAIN room.entries) \in Nat
      BY <3>1, FS_CardinalityType
    <3>3. /\ IsFiniteSet(DOMAIN r.entries)
          /\ Cardinality(DOMAIN r.entries)
                = IF key \in DOMAIN room.entries THEN Cardinality(DOMAIN room.entries)
                  ELSE Cardinality(DOMAIN room.entries) + 1
      <4>. DEFINE old == DOMAIN room.entries
      <4>1. DOMAIN r.entries = old \cup {key} /\ IsFiniteSet(old)
        BY <2>3, <3>1
      <4>. HIDE DEF old
      <4>2. /\ IsFiniteSet(old \cup {key})
            /\ Cardinality(old \cup {key})
                = IF key \in old THEN Cardinality(old) ELSE Cardinality(old) + 1
        BY <4>1, FS_AddElement, Zenon
      <4>. QED
        BY <4>1, <4>2 DEF old
    <3>4. Cardinality(DOMAIN room.entries) < CacheCapacity \/ key \in DOMAIN room.entries
      BY <2>1 DEF Fits
    <3>. QED
      BY <3>1, <3>2, <3>3, <3>4, CacheAssumption
  <2>10. Sound(r)
    <3>1. DOMAIN r.expiry = 1..Len(r.expiry) /\ DOMAIN room.expiry = 1..Len(room.expiry)
      BY <2>4, <2>6
    <3>2. ASSUME NEW k \in DOMAIN r.entries
          PROVE  \E i \in DOMAIN r.expiry : r.expiry[i] = <<r.entries[k], k>>
      <4>1. CASE k = key
        <5>1. Len(room.expiry) + 1 \in DOMAIN r.expiry
          BY <2>4, <2>6, <3>1
        <5>. QED
          BY <2>3, <2>6, <4>1, <5>1, Zenon
      <4>2. CASE k # key
        <5>1. k \in DOMAIN room.entries /\ r.entries[k] = room.entries[k]
          BY <2>3, <4>2
        <5>2. PICK i \in 1..Len(room.expiry) : room.expiry[i] = <<room.entries[k], k>>
          BY <2>1, <3>1, <5>1 DEF CacheOK, Sound
        <5>. QED
          BY <2>6, <2>8, <3>1, <5>1, <5>2, Zenon
      <4>. QED
        BY <4>1, <4>2
    <3>. QED
      BY <2>9, <3>2 DEF Sound
  <2>11. \A i \in 1..Len(room.expiry) :
            room.expiry[i][1] \in Nat /\ room.expiry[i][1] <= m + FailureTtl
    BY <2>1, <2>4 DEF CacheOK
  <2>12. <<deadline, key>>[1] = deadline /\ deadline <= m + FailureTtl /\ m + FailureTtl <= deadline + Lag
    BY CacheAssumption, FetchAssumption DEF deadline
  <2>13. \A i \in 1..Len(r.expiry) : r.expiry[i][1] <= m + FailureTtl
    BY <2>6, <2>7, <2>11, <2>12, Zenon
  <2>14. \A i, j \in 1..Len(r.expiry) : i < j => r.expiry[i][1] <= r.expiry[j][1] + Lag
    <3>. SUFFICES ASSUME NEW i \in 1..Len(r.expiry), NEW j \in 1..Len(r.expiry), i < j
                  PROVE  r.expiry[i][1] <= r.expiry[j][1] + Lag
      OBVIOUS
    <3>1. i \in 1..Len(room.expiry)
      BY <2>4, <2>6
    <3>2. CASE j \in 1..Len(room.expiry)
      BY <2>1, <2>6, <3>1, <3>2, Zenon DEF CacheOK
    <3>3. CASE j = Len(room.expiry) + 1
      <4>1. r.expiry[j][1] = deadline /\ r.expiry[i] = room.expiry[i]
        BY <2>6, <2>12, <3>1, <3>3, Zenon
      <4>2. room.expiry[i][1] \in Nat /\ room.expiry[i][1] <= m + FailureTtl
        BY <2>11, <3>1
      <4>3. room.expiry[i][1] <= deadline + Lag
        BY <2>5, <2>12, <4>2, CacheAssumption, FetchAssumption, SMTT(60)
      <4>. QED
        BY <4>1, <4>3
    <3>. QED
      BY <2>7, <3>2, <3>3
  <2>15. \A k \in DOMAIN r.entries : k \in DOMAIN f /\ r.entries[k] <= f[k] + FailureTtl
    <3>1. deadline <= f[key] + FailureTtl
      BY CacheAssumption DEF deadline
    <3>. QED
      BY <2>1, <2>3, <3>1 DEF CacheOK
  <2>16. CacheOK(r, f, m)
    BY <2>6, <2>9, <2>10, <2>13, <2>14, <2>15 DEF CacheOK
  <2>. QED
    BY <2>16 DEF r
<1>. QED
  BY <1>1, <1>2

(* remove takes an entry and leaves its pair, which is stale then.         *)
LEMMA RemoveOK ==
    ASSUME NEW c, NEW f, NEW m, CacheOK(c, f, m), NEW key, NEW at \in Nat
    PROVE  CacheOK(Remove(c, key, at), f, m)
<1>1. CASE Off
  BY <1>1 DEF Remove
<1>2. CASE ~Off
  <2>. DEFINE due == Expire(c, at)
              r == Remove(c, key, at)
  <2>1. CacheOK(due, f, m)
    BY ExpireOK
  <2>2. r.entries = Restrict(due.entries, DOMAIN due.entries \ {key}) /\ r.expiry = due.expiry
    BY <1>2, ZenonT(60) DEF Remove, Expire, Pop
  <2>. HIDE DEF due, r
  <2>3. /\ DOMAIN r.entries \subseteq DOMAIN due.entries
        /\ \A k \in DOMAIN r.entries : r.entries[k] = due.entries[k]
    BY <2>2 DEF Restrict
  <2>4. IsFiniteSet(DOMAIN r.entries) /\ Cardinality(DOMAIN r.entries) <= CacheCapacity
    <3>1. IsFiniteSet(DOMAIN due.entries) /\ Cardinality(DOMAIN due.entries) <= CacheCapacity
      BY <2>1 DEF CacheOK, Sound
    <3>2. /\ IsFiniteSet(DOMAIN r.entries)
          /\ Cardinality(DOMAIN r.entries) <= Cardinality(DOMAIN due.entries)
      BY <2>3, <3>1, FS_Subset
    <3>3. Cardinality(DOMAIN r.entries) \in Nat /\ Cardinality(DOMAIN due.entries) \in Nat
      BY <3>1, <3>2, FS_CardinalityType
    <3>. QED
      BY <3>1, <3>2, <3>3, CacheAssumption
  <2>5. Sound(r)
    BY <2>1, <2>2, <2>3, <2>4, Zenon DEF CacheOK, Sound
  <2>6. CacheOK(r, f, m)
    BY <2>1, <2>2, <2>3, <2>4, <2>5, Zenon DEF CacheOK
  <2>. QED
    BY <2>6 DEF r
<1>. QED
  BY <1>1, <1>2

(* Time passes and further failures happen.                                *)
LEMMA CacheLater ==
    ASSUME NEW c, NEW f, NEW m \in Nat, CacheOK(c, f, m),
           NEW g, NEW n \in Nat, m <= n, DOMAIN f \subseteq DOMAIN g,
           \A k \in DOMAIN f : f[k] \in Nat /\ g[k] \in Nat /\ f[k] <= g[k]
    PROVE  CacheOK(c, g, n)
<1>1. c.expiry \in Seq(Nat \X Keys)
  BY DEF CacheOK
<1>2. \A i \in 1..Len(c.expiry) : c.expiry[i][1] \in Nat
  BY <1>1
<1>3. \A i \in 1..Len(c.expiry) : c.expiry[i][1] <= n + FailureTtl
  BY <1>2, CacheAssumption DEF CacheOK
<1>4. ASSUME NEW k \in DOMAIN c.entries
      PROVE  k \in DOMAIN g /\ c.entries[k] <= g[k] + FailureTtl
  <2>1. DOMAIN c.expiry = 1..Len(c.expiry)
    BY <1>1
  <2>2. PICK i \in 1..Len(c.expiry) : c.expiry[i] = <<c.entries[k], k>>
    BY <2>1, Zenon DEF CacheOK, Sound
  <2>3. c.entries[k] \in Nat
    BY <1>2, <2>2
  <2>4. k \in DOMAIN f /\ c.entries[k] <= f[k] + FailureTtl
    BY DEF CacheOK
  <2>. QED
    BY <2>3, <2>4, CacheAssumption
<1>. QED
  BY <1>3, <1>4 DEF CacheOK

-------------------------------------------------------------------------------
(* The fetches.                                                            *)

Fields == {"pc", "at", "deadline", "key", "size", "id", "pieces", "total", "reason"}

(* A fetch r in a call of the cache read the clock at most Lag ago, and    *)
(* the scope it is about to record has failed since.                       *)
FetchOK(r, f, n) ==
    /\ DOMAIN r = Fields
    /\ r.pc \notin Stages \cup {"idle"} => r.at \in Nat /\ r.at <= n /\ n <= r.at + Lag
    /\ r.pc = "record" => r.key \in Keys /\ r.key \in DOMAIN f /\ r.at <= f[r.key]

(* The inductive invariant.                                                *)
Inv ==
    /\ now \in Nat
    /\ DOMAIN fetch = Fetches
    /\ \A x \in Fetches : FetchOK(fetch[x], failures, now)
    /\ \A k \in DOMAIN failures : failures[k] \in Nat /\ failures[k] <= now
    /\ CacheOK(cache, failures, now)
    /\ Off => DOMAIN cache.entries = {}

(* A fetch that is over, or never began.                                   *)
LEMMA IdleOK == DOMAIN Idle = Fields /\ Idle.pc = "idle"
BY DEF Idle, Fields

(* At first nothing is cached.                                             *)
LEMMA InitInv == Init => Inv
<1>. SUFFICES ASSUME Init PROVE Inv
  OBVIOUS
<1>1. now = 0 /\ cache = EmptyCache /\ fetch = [x \in Fetches |-> Idle] /\ DOMAIN failures = {}
  BY DEF Init
<1>2. \A x \in Fetches : FetchOK(fetch[x], failures, now)
  BY <1>1, IdleOK DEF FetchOK
<1>3. DOMAIN cache.entries = {} /\ cache.expiry = <<>> /\ 1..Len(<<>>) = {}
  BY <1>1 DEF EmptyCache
<1>4. CacheOK(cache, failures, now)
  BY <1>1, <1>3, FS_EmptySet, CacheAssumption DEF CacheOK, Sound
<1>. QED
  BY <1>1, <1>2, <1>3, <1>4 DEF Inv

(* A step of one fetch that leaves the clock and the failures alone.       *)
LEMMA OneFetch ==
    ASSUME Inv, NEW x \in Fetches, UNCHANGED <<now, failures>>,
           DOMAIN fetch' = Fetches, \A y \in Fetches \ {x} : fetch'[y] = fetch[y],
           FetchOK(fetch'[x], failures, now),
           CacheOK(cache', failures, now), Off => DOMAIN cache'.entries = {}
    PROVE  Inv'
<1>1. \A y \in Fetches : FetchOK(fetch'[y], failures, now)
  BY DEF Inv
<1>. QED
  BY <1>1 DEF Inv

(* A step of the exchange with the peer.                                   *)
LEMMA StageInv ==
    ASSUME Inv, NEW x \in Fetches, UNCHANGED <<now, failures, cache>>,
           DOMAIN fetch' = Fetches, \A y \in Fetches \ {x} : fetch'[y] = fetch[y],
           DOMAIN fetch'[x] = Fields, fetch'[x].pc \in Stages \cup {"idle"}
    PROVE  Inv'
<1>1. FetchOK(fetch'[x], failures, now)
  BY DEF FetchOK, Stages
<1>. QED
  BY <1>1, OneFetch DEF Inv

(* A failure, which is recorded for the scope that failed.                 *)
LEMMA FailInv ==
    ASSUME Inv, NEW x \in Fetches, NEW reason, Fail(x, reason),
           fetch[x].pc = "TcpConnect" => reason \in {"Connect", "Timeout"}
    PROVE  Inv'
<1>. DEFINE failed == Failed(x, reason)
            record == [Idle EXCEPT !.pc = "record", !.at = now, !.reason = reason,
                                   !.key = FailureKey(x, reason)]
<1>1. /\ fetch' = [fetch EXCEPT ![x] = IF Recorded(x, reason) THEN record ELSE Idle]
      /\ failures' = [k \in DOMAIN failures \cup failed |->
                        IF k \in failed THEN now ELSE failures[k]]
      /\ UNCHANGED <<now, cache>>
  BY DEF Fail
<1>2. Recorded(x, reason) => FailureKey(x, reason) \in failed /\ FailureKey(x, reason) \in Keys
  <2>1. x[2] \in Peers
    BY DEF Fetches
  <2>2. Endpoint(x[2]) \in Keys /\ Metadata(x[1], x[2]) \in Keys
    BY <2>1 DEF Keys
  <2>3. FailureKey(x, reason) \in Keys
    BY <2>2 DEF FailureKey
  <2>4. Recorded(x, reason) => FailureKey(x, reason) \in failed
    BY DEF Recorded, FailureKey, Failed
  <2>. QED
    BY <2>3, <2>4
<1>. HIDE DEF failed
<1>3. /\ DOMAIN failures' = DOMAIN failures \cup failed
      /\ \A k \in failed : failures'[k] = now
      /\ \A k \in DOMAIN failures : failures'[k] \in {now, failures[k]}
      /\ \A k \in DOMAIN failures' : k \in failed \/ failures'[k] = failures[k]
  BY <1>1
<1>4. now \in Nat /\ \A k \in DOMAIN failures : failures[k] \in Nat /\ failures[k] <= now
  BY DEF Inv
<1>5. /\ \A k \in DOMAIN failures' : failures'[k] \in Nat /\ failures'[k] <= now
      /\ \A k \in DOMAIN failures : failures[k] <= failures'[k] /\ k \in DOMAIN failures'
  BY <1>3, <1>4
<1>6. CacheOK(cache', failures', now')
  BY <1>1, <1>4, <1>5, CacheLater DEF Inv
<1>7. ASSUME NEW y \in Fetches
      PROVE  FetchOK(fetch'[y], failures', now')
  <2>1. CASE y # x
    <3>1. fetch'[y] = fetch[y] /\ FetchOK(fetch[y], failures, now)
      BY <1>1, <2>1 DEF Inv
    <3>2. fetch[y].pc = "record" =>
            /\ fetch[y].at \in Nat
            /\ fetch[y].key \in DOMAIN failures' /\ fetch[y].at <= failures'[fetch[y].key]
      BY <1>4, <1>5, <3>1 DEF FetchOK, Stages
    <3>. QED
      BY <1>1, <3>1, <3>2, Zenon DEF FetchOK
  <2>2. CASE y = x /\ Recorded(x, reason)
    <3>1. fetch'[y] = record
      BY <1>1, <2>2 DEF Inv
    <3>2. DOMAIN record = Fields /\ record.pc = "record" /\ record.at = now
          /\ record.key = FailureKey(x, reason)
      BY DEF Idle, Fields
    <3>. HIDE DEF record
    <3>3. record.key \in DOMAIN failures' /\ record.at <= failures'[record.key]
      BY <1>2, <1>3, <1>4, <2>2, <3>2
    <3>. QED
      BY <1>1, <1>2, <1>4, <2>2, <3>1, <3>2, <3>3, FetchAssumption, SMTT(60) DEF FetchOK
  <2>3. CASE y = x /\ ~Recorded(x, reason)
    <3>1. fetch'[y] = Idle
      BY <1>1, <2>3 DEF Inv
    <3>. QED
      BY <3>1, IdleOK DEF FetchOK
  <2>. QED
    BY <2>1, <2>2, <2>3
<1>8. DOMAIN fetch' = Fetches
  BY <1>1 DEF Inv
<1>. QED
  BY <1>1, <1>4, <1>5, <1>6, <1>7, <1>8 DEF Inv

(* A call of the cache by a fetch: its clock is not older than Lag, so     *)
(* that the queue stays in order but for Lag.                              *)
LEMMA CacheCallInv ==
    ASSUME Inv, NEW x \in Fetches, CacheCall(x)
    PROVE  Inv'
<1>. DEFINE at == fetch[x].at
<1>1. /\ UNCHANGED <<now, failures>>
      /\ DOMAIN fetch' = Fetches
      /\ \A y \in Fetches \ {x} : fetch'[y] = fetch[y]
  BY DEF Inv, CacheCall, Skip, PassEndpoint, PassTorrent, Record, ForgetEndpoint, ForgetTorrent
<1>2. FetchOK(fetch[x], failures, now) /\ now \in Nat /\ CacheOK(cache, failures, now)
  BY DEF Inv
<1>3. fetch[x].pc \in {"endpoint", "torrent", "record", "forget_endpoint", "forget_torrent"}
  BY DEF CacheCall, Skip, PassEndpoint, PassTorrent, Record, ForgetEndpoint, ForgetTorrent
<1>4. at \in Nat /\ at <= now /\ now <= at + Lag
  BY <1>2, <1>3 DEF FetchOK, Stages
<1>5. FetchOK(fetch'[x], failures, now)
  <2>1. CASE Skip(x) \/ Record(x) \/ ForgetTorrent(x)
    <3>1. fetch'[x] = Idle
      BY <2>1 DEF Inv, Skip, Record, ForgetTorrent
    <3>. QED
      BY <3>1, IdleOK DEF FetchOK
  <2>2. CASE PassEndpoint(x) \/ ForgetEndpoint(x)
    <3>1. DOMAIN fetch'[x] = Fields /\ fetch'[x].pc \in {"torrent", "forget_torrent"} /\ fetch'[x].at = now
      BY <1>2, <2>2 DEF Inv, PassEndpoint, ForgetEndpoint, FetchOK, Fields
    <3>. QED
      BY <1>2, <3>1, FetchAssumption, SMTT(60) DEF FetchOK
  <2>3. CASE PassTorrent(x)
    <3>1. DOMAIN fetch'[x] = Fields /\ fetch'[x].pc = "TcpConnect"
      BY <1>2, <2>3 DEF Inv, PassTorrent, FetchOK, Fields
    <3>. QED
      BY <3>1 DEF FetchOK, Stages
  <2>. QED
    BY <2>1, <2>2, <2>3 DEF CacheCall
<1>6. CASE Skip(x) \/ PassEndpoint(x) \/ PassTorrent(x)
  <2>1. cache' = Get(cache, at)
    BY <1>6 DEF Skip, PassEndpoint, PassTorrent
  <2>2. CacheOK(cache', failures, now)
    BY <1>2, <1>4, <2>1, ExpireOK DEF Get
  <2>3. Off => DOMAIN cache'.entries = {}
    BY <2>1 DEF Inv, Get
  <2>. QED
    BY <1>1, <1>5, <2>2, <2>3, OneFetch
<1>7. CASE Record(x)
  <2>. DEFINE key == fetch[x].key
  <2>1. cache' = Insert(cache, key, at) /\ fetch[x].pc = "record"
    BY <1>7 DEF Record
  <2>2. key \in Keys /\ key \in DOMAIN failures /\ at <= failures[key] /\ failures[key] \in Nat
    BY <1>2, <2>1 DEF FetchOK, Inv
  <2>. HIDE DEF key, at
  <2>3. CacheOK(cache', failures, now)
    BY <1>2, <1>4, <2>1, <2>2, InsertOK
  <2>4. Off => DOMAIN cache'.entries = {}
    BY <2>1 DEF Inv, Insert
  <2>. QED
    BY <1>1, <1>5, <2>3, <2>4, OneFetch
<1>8. CASE ForgetEndpoint(x) \/ ForgetTorrent(x)
  <2>1. PICK key : cache' = Remove(cache, key, at)
    BY <1>8 DEF ForgetEndpoint, ForgetTorrent
  <2>. HIDE DEF at
  <2>2. CacheOK(cache', failures, now)
    BY <1>2, <1>4, <2>1, RemoveOK
  <2>3. Off => DOMAIN cache'.entries = {}
    BY <2>1 DEF Inv, Remove
  <2>. QED
    BY <1>1, <1>5, <2>2, <2>3, OneFetch
<1>. QED
  BY <1>6, <1>7, <1>8 DEF CacheCall

(* The exchange ends in a failure of a stage, or goes on to another.       *)
LEMMA ExchangeInv ==
    ASSUME Inv, NEW x \in Fetches,
           \/ TimeOut(x) \/ Abort(x) \/ Connect(x) \/ ShakeHands(x) \/ SendHandshake(x)
           \/ RequestPieces(x) \/ FromPeer(x)
    PROVE  Inv'
<1>1. DOMAIN fetch = Fetches /\ DOMAIN fetch[x] = Fields
  BY DEF Inv, FetchOK
<1>2. ASSUME NEW stage \in Stages, Advance(x, stage)
      PROVE  Inv'
  <2>1. /\ UNCHANGED <<now, failures, cache>>
        /\ DOMAIN fetch' = Fetches /\ \A y \in Fetches \ {x} : fetch'[y] = fetch[y]
        /\ DOMAIN fetch'[x] = Fields /\ fetch'[x].pc = stage
    BY <1>1, <1>2 DEF Advance, Fields
  <2>. QED
    BY <2>1, StageInv
<1>3. CASE TimeOut(x)
  BY <1>3, FailInv DEF TimeOut
<1>4. CASE Abort(x)
  <2>1. /\ UNCHANGED <<now, failures, cache>>
        /\ DOMAIN fetch' = Fetches /\ \A y \in Fetches \ {x} : fetch'[y] = fetch[y]
        /\ fetch'[x] = Idle
    BY <1>1, <1>4 DEF Abort
  <2>. QED
    BY <2>1, IdleOK, StageInv
<1>5. CASE Connect(x) \/ ShakeHands(x) \/ SendHandshake(x) \/ RequestPieces(x)
  <2>1. {"BaseHandshake", "ExtensionHandshakeSend", "ExtensionHandshakeReceive", "PieceReceive"}
            \subseteq Stages
    BY DEF Stages
  <2>. QED
    BY <1>2, <1>5, <2>1, FailInv DEF Connect, ShakeHands, SendHandshake, RequestPieces
<1>6. ASSUME NEW reason, Fail(x, reason), Receiving(x)
      PROVE  Inv'
  BY <1>6, FailInv DEF Receiving
<1>7. CASE Lose(x) \/ \E i \in Indexes : ReceiveReject(x, i)
  BY <1>6, <1>7 DEF Lose, ReceiveReject, Requested, Receiving
<1>8. ASSUME NEW size, NEW id, ReceiveHandshake(x, size, id)
      PROVE  Inv'
  <2>1. CASE Fail(x, "SizeLimit")
    BY <1>6, <1>8, <2>1 DEF ReceiveHandshake
  <2>2. CASE ~Fail(x, "SizeLimit")
    <3>. DEFINE known == [fetch[x] EXCEPT !.size = IF size = Absent THEN @ ELSE size,
                                          !.id = IF id = Absent THEN @ ELSE id]
    <3>1. DOMAIN known = Fields /\ known.pc = fetch[x].pc
      BY <1>1 DEF Fields
    <3>2. /\ UNCHANGED <<now, failures, cache>>
          /\ \/ fetch' = [fetch EXCEPT ![x] = known]
             \/ fetch' = [fetch EXCEPT ![x] = [known EXCEPT !.pc = "PieceRequestSend"]]
      BY <1>8, <2>2 DEF ReceiveHandshake
    <3>3. fetch[x].pc \in Stages
      BY <1>8 DEF ReceiveHandshake, Receiving, Stages
    <3>. HIDE DEF known
    <3>4. DOMAIN fetch' = Fetches /\ \A y \in Fetches \ {x} : fetch'[y] = fetch[y]
      BY <1>1, <3>2
    <3>5. DOMAIN fetch'[x] = Fields /\ fetch'[x].pc \in Stages
      BY <1>1, <3>1, <3>2, <3>3 DEF Stages, Fields
    <3>. QED
      BY <3>2, <3>4, <3>5, StageInv
  <2>. QED
    BY <2>1, <2>2
<1>9. ASSUME NEW i, NEW content, ReceivePiece(x, i, content)
      PROVE  Inv'
  <2>1. CASE Fail(x, "Incomplete")
    BY <1>6, <1>9, <2>1, ZenonT(60) DEF ReceivePiece
  <2>2. CASE ~Fail(x, "Incomplete")
    <3>1. fetch[x].pc \in Stages
      BY <1>9, ZenonT(60) DEF ReceivePiece, Receiving, Stages
    <3>. DEFINE pieces == [j \in DOMAIN fetch[x].pieces \cup {i} |->
                            IF j = i THEN content ELSE fetch[x].pieces[j]]
                total == Received(x, i, content)
                enough == fetch[x].size > 0 /\ total >= fetch[x].size
    <3>2. fetch' = [fetch EXCEPT ![x].pieces = pieces, ![x].total = total,
                                 ![x].pc = IF enough THEN "Validation" ELSE @]
      BY <1>9, <2>2, ZenonT(60) DEF ReceivePiece
    <3>3. UNCHANGED <<now, failures, cache>>
      BY <1>9, <2>2, Zenon DEF ReceivePiece
    <3>. HIDE DEF pieces, total, enough
    <3>4. /\ DOMAIN fetch' = Fetches /\ \A y \in Fetches \ {x} : fetch'[y] = fetch[y]
          /\ DOMAIN fetch'[x] = Fields /\ fetch'[x].pc \in {fetch[x].pc, "Validation"}
      BY <1>1, <3>2 DEF Fields
    <3>. QED
      BY <3>1, <3>3, <3>4, StageInv DEF Stages
  <2>. QED
    BY <2>1, <2>2
<1>. QED
  BY <1>3, <1>4, <1>5, <1>7, <1>8, <1>9 DEF FromPeer

(* A fetch starts, or its metadata is validated: the clock is read.        *)
LEMMA ClockReadInv ==
    ASSUME Inv, NEW x \in Fetches, Start(x) \/ Validate(x)
    PROVE  Inv'
<1>1. CASE \E reason : Fail(x, reason) /\ fetch[x].pc = "Validation"
  BY <1>1, FailInv
<1>2. CASE \E p \in {"endpoint", "forget_endpoint"} :
            /\ fetch' = [fetch EXCEPT ![x] = [Idle EXCEPT !.pc = p, !.at = now]]
            /\ UNCHANGED <<now, cache, failures>>
  <2>1. PICK p \in {"endpoint", "forget_endpoint"} :
            fetch' = [fetch EXCEPT ![x] = [Idle EXCEPT !.pc = p, !.at = now]]
    BY <1>2, Zenon
  <2>. DEFINE r == [Idle EXCEPT !.pc = p, !.at = now]
  <2>2. DOMAIN r = Fields /\ r.pc = p /\ r.at = now
    BY DEF Idle, Fields
  <2>. HIDE DEF r
  <2>3. DOMAIN fetch' = Fetches /\ fetch'[x] = r /\ \A y \in Fetches \ {x} : fetch'[y] = fetch[y]
    BY <2>1 DEF Inv, r
  <2>4. FetchOK(fetch'[x], failures, now)
    BY <2>2, <2>3, FetchAssumption DEF Inv, FetchOK
  <2>. QED
    BY <1>2, <2>3, <2>4, OneFetch DEF Inv
<1>. QED
  BY <1>1, <1>2 DEF Start, Validate

(* The clock waits for the fetches in a call of the cache.                 *)
LEMMA TickInv ==
    ASSUME Inv, Tick
    PROVE  Inv'
<1>1. now \in Nat /\ now' = now + 1 /\ UNCHANGED <<cache, fetch, failures>>
  BY DEF Inv, Tick
<1>2. \A x \in Fetches : FetchOK(fetch[x], failures, now')
  <2>. TAKE x \in Fetches
  <2>1. FetchOK(fetch[x], failures, now)
    BY DEF Inv
  <2>2. fetch[x].pc \notin Stages \cup {"idle"} => now - fetch[x].at < Lag
    BY DEF Tick
  <2>. QED
    BY <1>1, <2>1, <2>2, FetchAssumption DEF FetchOK
<1>3. \A k \in DOMAIN failures : failures[k] \in Nat /\ failures[k] <= now'
  BY <1>1 DEF Inv
<1>4. CacheOK(cache, failures, now')
  <2>1. CacheOK(cache, failures, now) /\ now' \in Nat /\ now <= now'
    BY <1>1 DEF Inv
  <2>2. \A k \in DOMAIN failures : failures[k] \in Nat /\ failures[k] <= failures[k]
    BY DEF Inv
  <2>. QED
    BY <1>1, <2>1, <2>2, CacheLater
<1>. QED
  BY <1>1, <1>2, <1>3, <1>4 DEF Inv

(* Every step preserves the invariant.                                     *)
LEMMA NextInv == Inv /\ [Next]_vars => Inv'
<1>. SUFFICES ASSUME Inv, [Next]_vars PROVE Inv'
  OBVIOUS
<1>1. CASE UNCHANGED vars
  BY <1>1 DEF vars, Inv
<1>2. ASSUME NEW x \in Fetches, FetchStep(x)
      PROVE  Inv'
  BY <1>2, CacheCallInv, ExchangeInv, ClockReadInv DEF FetchStep
<1>. QED
  BY <1>1, <1>2, TickInv DEF Next

(* The inductive invariant holds in every reachable state.                 *)
THEOREM Invariance == Spec => []Inv
BY InitInv, NextInv, PTL DEF Spec

(* Whatever fetches read the clock and then wait for the mutex: the cache  *)
(* never outgrows its capacity, and no entry loses the pair that has it    *)
(* expire.                                                                 *)
THEOREM CacheAlwaysSound == Spec => []CacheSound
<1>1. Inv => CacheSound
  BY DEF Inv, CacheOK, CacheSound
<1>. QED
  BY <1>1, Invariance, PTL

(* A fetch is skipped only if its scope failed, less than the time to live *)
(* and Lag before the fetch read the clock: although the queue of the      *)
(* cache is not in order, no entry is kept for longer than that.           *)
THEOREM SkipsAlwaysEarned == Spec => SkipsAreEarned
<1>1. ASSUME Inv, NEW x \in Fetches, Skip(x)
      PROVE  Scope(x) \in DOMAIN failures /\ fetch[x].at < failures[Scope(x)] + FailureTtl + Lag
  <2>. DEFINE at == fetch[x].at
              key == Scope(x)
  <2>1. at \in Nat
    <3>1. fetch[x].pc \in {"endpoint", "torrent"} /\ FetchOK(fetch[x], failures, now)
      BY <1>1 DEF Skip, Inv
    <3>. QED
      BY <3>1 DEF FetchOK, Stages
  <2>2. key \in DOMAIN Get(cache, at).entries
    BY <1>1 DEF Skip, Cached
  <2>. HIDE DEF at, key
  <2>3. ~Off /\ key \in DOMAIN Expire(cache, at).entries
    BY <1>1, <2>2 DEF Inv, Get
  <2>4. CacheOK(cache, failures, now)
    BY <1>1 DEF Inv
  <2>5. key \in DOMAIN cache.entries /\ cache.entries[key] \in Nat /\ at < cache.entries[key] + Lag
    BY <2>1, <2>3, <2>4, ExpireOK
  <2>6. key \in DOMAIN failures /\ cache.entries[key] <= failures[key] + FailureTtl
    BY <2>4, <2>5 DEF CacheOK
  <2>7. failures[key] \in Nat
    BY <1>1, <2>6 DEF Inv
  <2>8. at < failures[key] + FailureTtl + Lag
    BY <2>1, <2>5, <2>6, <2>7, CacheAssumption, FetchAssumption
  <2>. QED
    BY <2>6, <2>8 DEF at, key
<1>2. Inv => [\A x \in Fetches : Skip(x) =>
                /\ Scope(x) \in DOMAIN failures
                /\ fetch[x].at < failures[Scope(x)] + FailureTtl + Lag]_vars
  BY <1>1
<1>. QED
  BY <1>2, Invariance, PTL DEF SkipsAreEarned

===============================================================================
