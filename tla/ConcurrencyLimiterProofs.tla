---------------------- MODULE ConcurrencyLimiterProofs ----------------------
(***************************************************************************)
(* Proofs about ConcurrencyLimiter, for any sets of calls and addresses    *)
(* and any configured limits.  Calls may be infinite: that only finitely   *)
(* many hold a slot at a time is part of the invariant.                    *)
(***************************************************************************)
EXTENDS ConcurrencyLimiter, FiniteSetTheorems, TLAPS

-----------------------------------------------------------------------------
(* Type correctness *)

LEMMA KeyType == ASSUME NEW ip \in IPs \cup {NoIP} PROVE Key(ip) \in Keys
  BY DEF Key, Keys

LEMMA InitType == Init => TypeOK
  <1> SUFFICES ASSUME Init PROVE TypeOK
    OBVIOUS
  <1>1. \A n \in Int : NonNegative(n) \in Nat
    BY DEF NonNegative
  <1>2. maxTotal \in Nat /\ maxPerIP \in Nat
    BY <1>1, LimiterAssumption DEF Init
  <1>3. DOMAIN perIP = {}
    BY DEF Init
  <1> QED
    BY <1>2, <1>3 DEF Init, TypeOK, SlotStates

LEMMA GrantType ==
  ASSUME TypeOK, NEW c \in Calls, NEW k \in Keys, Grant(c, k)
  PROVE  TypeOK'
  <1>1. Lookup(perIP, k) + 1 \in Nat \ {0}
    BY DEF TypeOK, Lookup
  <1>2. /\ DOMAIN perIP' \subseteq Keys
        /\ \A x \in DOMAIN perIP' : perIP'[x] \in Nat \ {0}
    <2>1. CASE maxPerIP > 0
      BY <1>1, <2>1 DEF Grant, Put, TypeOK
    <2>2. CASE ~(maxPerIP > 0)
      BY <2>2 DEF Grant, TypeOK
    <2> QED BY <2>1, <2>2
  <1>3. total' \in Nat /\ maxTotal' \in Nat /\ maxPerIP' \in Nat
    BY DEF Grant, Answer, TypeOK, limits
  <1>4. slot' \in [Calls -> SlotStates] /\ key' \in [Calls -> Keys \cup {NoIP}]
    BY DEF Grant, Answer, TypeOK, SlotStates
  <1> QED BY <1>2, <1>3, <1>4 DEF TypeOK

LEMMA RefuseType ==
  ASSUME TypeOK, NEW c \in Calls, NEW k \in Keys,
         RefuseTotal(c, k) \/ RefusePerIP(c, k)
  PROVE  TypeOK'
  BY DEF RefuseTotal, RefusePerIP, Answer, TypeOK, SlotStates, limits, counters

LEMMA ReleaseType ==
  ASSUME TypeOK, NEW c \in Calls, Release(c)
  PROVE  TypeOK'
  <1>1. CASE UNCHANGED vars
    BY <1>1 DEF TypeOK, vars
  <1>2. CASE /\ slot[c] = "held"
             /\ slot' = [slot EXCEPT ![c] = "released"]
             /\ total' = IF total > 0 THEN total - 1 ELSE 0
             /\ perIP' = PerIPAfterRelease(key[c])
             /\ UNCHANGED <<maxTotal, maxPerIP, key>>
    <2>1. /\ DOMAIN perIP' \subseteq Keys
          /\ \A x \in DOMAIN perIP' : perIP'[x] \in Nat \ {0}
      <3> DEFINE n == Lookup(perIP, key[c])
      <3>1. n \in Nat /\ (n > 0 => key[c] \in DOMAIN perIP)
        BY DEF TypeOK, Lookup
      <3>2. CASE maxPerIP <= 0
        BY <1>2, <3>2 DEF PerIPAfterRelease, TypeOK
      <3>3. CASE ~(maxPerIP <= 0) /\ n - 1 <= 0
        BY <1>2, <3>3 DEF PerIPAfterRelease, Without, TypeOK
      <3>4. CASE ~(maxPerIP <= 0) /\ ~(n - 1 <= 0)
        BY <1>2, <3>1, <3>4 DEF PerIPAfterRelease, Put, TypeOK
      <3> QED BY <3>2, <3>3, <3>4
    <2> QED BY <1>2, <2>1 DEF TypeOK, SlotStates
  <1> QED BY <1>1, <1>2 DEF Release

\* Type correctness of every reachable state, whatever the calls, the
\* addresses and the configured limits (concurrency_limiter.go:32-84).
THEOREM Typing == Spec => []TypeOK
  <1>1. Init => TypeOK
    BY InitType
  <1>2. TypeOK /\ [Next]_vars => TypeOK'
    <2> SUFFICES ASSUME TypeOK, [Next]_vars PROVE TypeOK'
      OBVIOUS
    <2>1. ASSUME NEW c \in Calls, NEW ip \in IPs \cup {NoIP}, TryAcquire(c, ip)
          PROVE  TypeOK'
      BY <2>1, KeyType, GrantType, RefuseType DEF TryAcquire
    <2>2. ASSUME NEW c \in Calls, Release(c)
          PROVE  TypeOK'
      BY <2>2, ReleaseType
    <2>3. CASE UNCHANGED vars
      BY <2>3 DEF TypeOK, vars
    <2> QED BY <2>1, <2>2, <2>3 DEF Next
  <1> QED BY <1>1, <1>2, PTL DEF Spec

-----------------------------------------------------------------------------
(* The counters count the holders *)

\* Accounting is inductive with the types, the finiteness of the set of
\* holders, and that a holder is charged to a real key.
AccInv == /\ TypeOK
          /\ IsFiniteSet(Holders)
          /\ \A c \in Holders : key[c] \in Keys
          /\ Accounting

LEMMA HoldersOfFinite ==
  ASSUME IsFiniteSet(Holders), NEW k
  PROVE  IsFiniteSet(HoldersOf(k)) /\ Cardinality(HoldersOf(k)) \in Nat
  <1>1. HoldersOf(k) \subseteq Holders
    BY DEF HoldersOf
  <1> QED BY <1>1, FS_Subset, FS_CardinalityType

LEMMA GrantHolders ==
  ASSUME TypeOK, NEW c \in Calls, NEW k \in Keys, Grant(c, k)
  PROVE  /\ c \notin Holders
         /\ Holders' = Holders \cup {c}
         /\ HoldersOf(k)' = HoldersOf(k) \cup {c}
         /\ \A j : j # k => HoldersOf(j)' = HoldersOf(j)
         /\ \A d \in Holders : key'[d] = key[d]
         /\ key'[c] = k
  <1>1. /\ slot[c] = "none"
        /\ slot' = [slot EXCEPT ![c] = "held"]
        /\ key' = [key EXCEPT ![c] = k]
    BY DEF Grant, Answer
  <1>2. /\ c \notin Holders
        /\ Holders' = Holders \cup {c}
    BY <1>1 DEF TypeOK, Holders
  <1>3. /\ \A d \in Holders : key'[d] = key[d]
        /\ key'[c] = k
    BY <1>1, <1>2 DEF TypeOK, Holders
  <1> QED BY <1>2, <1>3 DEF HoldersOf

LEMMA ReleaseHolders ==
  ASSUME TypeOK, NEW c \in Calls, slot[c] = "held", NEW k, k = key[c],
         slot' = [slot EXCEPT ![c] = "released"], key' = key
  PROVE  /\ c \in Holders
         /\ Holders' = Holders \ {c}
         /\ HoldersOf(k)' = HoldersOf(k) \ {c}
         /\ c \in HoldersOf(k)
         /\ \A j : j # k => HoldersOf(j)' = HoldersOf(j)
  <1>1. c \in Holders /\ Holders' = Holders \ {c}
    BY DEF TypeOK, Holders
  <1> QED BY <1>1 DEF HoldersOf

LEMMA RefuseHolders ==
  ASSUME TypeOK, NEW c \in Calls, NEW k \in Keys,
         RefuseTotal(c, k) \/ RefusePerIP(c, k)
  PROVE  /\ Holders' = Holders
         /\ \A j : HoldersOf(j)' = HoldersOf(j)
         /\ \A d \in Holders : key'[d] = key[d]
  <1>1. /\ slot[c] = "none"
        /\ \E s \in {"refusedTotal", "refusedPerIP"} : slot' = [slot EXCEPT ![c] = s]
        /\ key' = [key EXCEPT ![c] = k]
    BY DEF RefuseTotal, RefusePerIP, Answer
  <1>2. c \notin Holders /\ Holders' = Holders
    BY <1>1 DEF TypeOK, Holders
  <1>3. \A d \in Holders : key'[d] = key[d]
    BY <1>1, <1>2 DEF TypeOK, Holders
  <1> QED BY <1>2, <1>3 DEF HoldersOf

LEMMA GrantAccounting ==
  ASSUME AccInv, NEW c \in Calls, NEW k \in Keys, Grant(c, k)
  PROVE  AccInv'
  <1>1. TypeOK /\ IsFiniteSet(Holders) /\ Accounting
    BY DEF AccInv
  <1>2. TypeOK'
    BY <1>1, GrantType
  <1>3. /\ c \notin Holders
        /\ Holders' = Holders \cup {c}
        /\ HoldersOf(k)' = HoldersOf(k) \cup {c}
        /\ \A j : j # k => HoldersOf(j)' = HoldersOf(j)
        /\ \A d \in Holders : key'[d] = key[d]
        /\ key'[c] = k
    BY <1>1, GrantHolders
  <1>4. IsFiniteSet(Holders') /\ Cardinality(Holders') = Cardinality(Holders) + 1
    BY <1>1, <1>3, FS_AddElement
  <1>5. \A d \in Holders' : key'[d] \in Keys
    BY <1>3 DEF AccInv
  <1>6. total' = Cardinality(Holders')
    BY <1>1, <1>4 DEF Accounting, Grant
  <1>7. UNCHANGED <<maxTotal, maxPerIP>>
    BY DEF Grant, Answer, limits
  <1>8. ASSUME maxPerIP > 0
        PROVE  /\ DOMAIN perIP' = {key'[d] : d \in Holders'}
               /\ \A j \in DOMAIN perIP' : perIP'[j] = Cardinality(HoldersOf(j)')
    <2>1. perIP' = Put(perIP, k, Lookup(perIP, k) + 1)
      BY <1>8 DEF Grant
    <2>2. DOMAIN perIP = {key[d] : d \in Holders}
      BY <1>1, <1>8 DEF Accounting
    <2>3. DOMAIN perIP' = DOMAIN perIP \cup {k}
      BY <2>1 DEF Put
    <2>4. {key'[d] : d \in Holders'} = {key[d] : d \in Holders} \cup {k}
      BY <1>3
    <2>5. IsFiniteSet(HoldersOf(k)) /\ c \notin HoldersOf(k)
      BY <1>1, <1>3, HoldersOfFinite DEF HoldersOf
    <2>6. Cardinality(HoldersOf(k)') = Cardinality(HoldersOf(k)) + 1
      BY <1>3, <2>5, FS_AddElement
    <2>7. Lookup(perIP, k) = Cardinality(HoldersOf(k))
      <3>1. CASE k \in DOMAIN perIP
        BY <1>1, <1>8, <3>1 DEF Accounting, Lookup
      <3>2. CASE k \notin DOMAIN perIP
        <4>1. HoldersOf(k) = {}
          BY <2>2, <3>2 DEF HoldersOf
        <4> QED BY <3>2, <4>1, FS_EmptySet DEF Lookup
      <3> QED BY <3>1, <3>2
    <2>8. ASSUME NEW j \in DOMAIN perIP' PROVE perIP'[j] = Cardinality(HoldersOf(j)')
      <3>1. CASE j = k
        BY <2>1, <2>3, <2>6, <2>7, <3>1 DEF Put
      <3>2. CASE j # k
        <4>1. j \in DOMAIN perIP /\ perIP'[j] = perIP[j]
          BY <2>1, <2>3, <2>8, <3>2 DEF Put
        <4>2. perIP[j] = Cardinality(HoldersOf(j)) /\ HoldersOf(j)' = HoldersOf(j)
          BY <1>1, <1>3, <1>8, <3>2, <4>1 DEF Accounting
        <4> QED BY <4>1, <4>2
      <3> QED BY <3>1, <3>2
    <2> QED BY <2>2, <2>3, <2>4, <2>8
  <1>9. ASSUME maxPerIP = 0 PROVE DOMAIN perIP' = {}
    BY <1>1, <1>9 DEF Grant, Accounting
  <1>10. Accounting'
    BY <1>6, <1>7, <1>8, <1>9 DEF Accounting
  <1> QED BY <1>2, <1>4, <1>5, <1>10 DEF AccInv

LEMMA ReleaseAccounting ==
  ASSUME AccInv, NEW c \in Calls, slot[c] = "held", NEW k, k = key[c], Release(c)
  PROVE  AccInv'
  <1> DEFINE n == Lookup(perIP, k)
  <1>1. TypeOK /\ IsFiniteSet(Holders) /\ Accounting
    BY DEF AccInv
  <1>2. TypeOK'
    BY <1>1, ReleaseType
  <1>3. /\ slot' = [slot EXCEPT ![c] = "released"]
        /\ total' = IF total > 0 THEN total - 1 ELSE 0
        /\ perIP' = PerIPAfterRelease(k)
        /\ UNCHANGED <<maxTotal, maxPerIP, key>>
    BY DEF Release
  <1>4. /\ c \in Holders
        /\ Holders' = Holders \ {c}
        /\ HoldersOf(k)' = HoldersOf(k) \ {c}
        /\ c \in HoldersOf(k)
        /\ \A j : j # k => HoldersOf(j)' = HoldersOf(j)
    BY <1>1, <1>3, ReleaseHolders
  <1>5. /\ IsFiniteSet(Holders')
        /\ Cardinality(Holders') = Cardinality(Holders) - 1
        /\ Cardinality(Holders') \in Nat
    BY <1>1, <1>4, FS_RemoveElement, FS_CardinalityType
  <1>6. \A d \in Holders' : key'[d] \in Keys
    BY <1>3, <1>4 DEF AccInv
  <1>7. total' = Cardinality(Holders')
    BY <1>1, <1>3, <1>5 DEF Accounting, TypeOK
  <1>8. /\ IsFiniteSet(HoldersOf(k)')
        /\ Cardinality(HoldersOf(k)') = Cardinality(HoldersOf(k)) - 1
        /\ Cardinality(HoldersOf(k)') \in Nat
    BY <1>1, <1>4, HoldersOfFinite, FS_RemoveElement, FS_CardinalityType
  <1>9. ASSUME maxPerIP > 0
        PROVE  /\ DOMAIN perIP' = {key'[d] : d \in Holders'}
               /\ \A j \in DOMAIN perIP' : perIP'[j] = Cardinality(HoldersOf(j)')
    <2>1. /\ DOMAIN perIP = {key[d] : d \in Holders}
          /\ \A j \in DOMAIN perIP : perIP[j] = Cardinality(HoldersOf(j))
      BY <1>1, <1>9 DEF Accounting
    <2>2. k \in DOMAIN perIP /\ n = Cardinality(HoldersOf(k)) /\ n \in Nat
      BY <1>1, <1>4, <2>1, HoldersOfFinite DEF Lookup
    <2>3. \A j \in DOMAIN perIP : j # k => \E d \in Holders' : key[d] = j
      BY <1>4, <2>1
    <2>4. CASE n - 1 <= 0
      <3>1. perIP' = Without(perIP, k)
        BY <1>1, <1>3, <1>9, <2>4 DEF PerIPAfterRelease, TypeOK
      <3>2. HoldersOf(k)' = {}
        BY <1>8, <2>2, <2>4, FS_EmptySet
      <3>3. \A d \in Holders' : key[d] # k
        BY <1>3, <3>2 DEF HoldersOf
      <3>4. DOMAIN perIP' = DOMAIN perIP \ {k}
        BY <3>1 DEF Without
      <3>5. DOMAIN perIP' = {key'[d] : d \in Holders'}
        BY <1>3, <1>4, <2>1, <2>3, <3>3, <3>4
      <3>6. \A j \in DOMAIN perIP' : perIP'[j] = perIP[j] /\ j # k
        BY <3>1, <3>4 DEF Without
      <3> QED BY <1>4, <2>1, <3>4, <3>5, <3>6
    <2>5. CASE ~(n - 1 <= 0)
      <3>1. perIP' = Put(perIP, k, n - 1)
        BY <1>1, <1>3, <1>9, <2>5 DEF PerIPAfterRelease, TypeOK
      <3>2. HoldersOf(k)' # {}
        BY <1>8, <2>2, <2>5, FS_EmptySet
      <3>3. \E d \in Holders' : key[d] = k
        BY <1>3, <3>2 DEF HoldersOf
      <3>4. DOMAIN perIP' = DOMAIN perIP
        BY <2>2, <3>1 DEF Put
      <3>5. DOMAIN perIP' = {key'[d] : d \in Holders'}
        BY <1>3, <1>4, <2>1, <2>3, <3>3, <3>4
      <3>6. \A j \in DOMAIN perIP' : perIP'[j] = IF j = k THEN n - 1 ELSE perIP[j]
        BY <3>1, <3>4 DEF Put
      <3> QED BY <1>4, <1>8, <2>1, <2>2, <3>4, <3>5, <3>6
    <2> QED BY <2>4, <2>5
  <1>10. ASSUME maxPerIP = 0 PROVE DOMAIN perIP' = {}
    BY <1>1, <1>3, <1>10 DEF PerIPAfterRelease, Accounting
  <1>11. Accounting'
    BY <1>3, <1>7, <1>9, <1>10 DEF Accounting
  <1> QED BY <1>2, <1>5, <1>6, <1>11 DEF AccInv

LEMMA RefuseAccounting ==
  ASSUME AccInv, NEW c \in Calls, NEW k \in Keys,
         RefuseTotal(c, k) \/ RefusePerIP(c, k)
  PROVE  AccInv'
  <1>1. TypeOK /\ Accounting
    BY DEF AccInv
  <1>2. TypeOK'
    BY <1>1, RefuseType
  <1>3. /\ Holders' = Holders
        /\ \A j : HoldersOf(j)' = HoldersOf(j)
        /\ \A d \in Holders : key'[d] = key[d]
    BY <1>1, RefuseHolders
  <1>4. UNCHANGED <<maxTotal, maxPerIP, total, perIP>>
    BY DEF RefuseTotal, RefusePerIP, Answer, limits, counters
  <1>5. {key'[d] : d \in Holders'} = {key[d] : d \in Holders}
    BY <1>3
  <1>6. Accounting'
    BY <1>1, <1>3, <1>4, <1>5 DEF Accounting
  <1> QED BY <1>2, <1>3, <1>6 DEF AccInv

LEMMA InitAccounting == Init => AccInv
  <1> SUFFICES ASSUME Init PROVE AccInv
    OBVIOUS
  <1>1. Holders = {}
    BY DEF Init, Holders
  <1>2. IsFiniteSet(Holders) /\ Cardinality(Holders) = 0
    BY <1>1, FS_EmptySet
  <1>3. DOMAIN perIP = {} /\ total = 0
    BY DEF Init
  <1>4. {key[c] : c \in Holders} = {}
    BY <1>1
  <1>5. Accounting
    BY <1>2, <1>3, <1>4 DEF Accounting
  <1> QED BY <1>1, <1>2, <1>5, InitType DEF AccInv

\* A limiter whose process died and was started again, while its calls are
\* remembered as released.
LEMMA RestartAccounting ==
  ASSUME AccInv, UNCHANGED <<maxTotal, maxPerIP, key>>, total' = 0, perIP' = << >>,
         slot' \in [Calls -> SlotStates \ {"held"}]
  PROVE  AccInv'
  <1>1. Holders' = {}
    BY DEF Holders, SlotStates
  <1>2. IsFiniteSet(Holders') /\ Cardinality(Holders') = 0
    BY <1>1, FS_EmptySet
  <1>3. DOMAIN perIP' = {} /\ {key'[c] : c \in Holders'} = {}
    BY <1>1
  <1>4. Accounting'
    BY <1>2, <1>3 DEF Accounting
  <1>5. TypeOK'
    BY <1>3 DEF AccInv, TypeOK
  <1> QED BY <1>1, <1>2, <1>4, <1>5 DEF AccInv

LEMMA UnchangedAccounting ==
  ASSUME AccInv, UNCHANGED vars
  PROVE  AccInv'
  <1>1. Holders' = Holders /\ \A j : HoldersOf(j)' = HoldersOf(j)
    BY DEF vars, Holders, HoldersOf
  <1>2. TypeOK'
    BY DEF vars, TypeOK, AccInv
  <1>3. Accounting'
    BY <1>1 DEF AccInv, Accounting, vars
  <1> QED BY <1>1, <1>2, <1>3 DEF AccInv, vars

LEMMA StepAccounting == AccInv /\ [Next]_vars => AccInv'
  <1> SUFFICES ASSUME AccInv, [Next]_vars PROVE AccInv'
    OBVIOUS
  <1>1. ASSUME NEW c \in Calls, NEW ip \in IPs \cup {NoIP}, TryAcquire(c, ip)
        PROVE  AccInv'
    BY <1>1, KeyType, GrantAccounting, RefuseAccounting DEF TryAcquire
  <1>2. ASSUME NEW c \in Calls, Release(c)
        PROVE  AccInv'
    <2>1. CASE slot[c] = "held"
      BY <1>2, <2>1, ReleaseAccounting
    <2>2. CASE slot[c] # "held"
      BY <1>2, <2>2, UnchangedAccounting DEF Release
    <2> QED BY <2>1, <2>2
  <1>3. CASE UNCHANGED vars
    BY <1>3, UnchangedAccounting
  <1> QED BY <1>1, <1>2, <1>3 DEF Next

\* The counters of the limiter are exact in every reachable state: no order
\* of grants, refusals and (repeated) releases makes total or the per-address
\* map drift from the slots really held (concurrency_limiter.go:54-81).
THEOREM AccountingCorrect == Spec => []Accounting
  <1>1. AccInv => Accounting
    BY DEF AccInv
  <1> QED BY <1>1, InitAccounting, StepAccounting, PTL DEF Spec

-----------------------------------------------------------------------------
(* The limits bound the slots held *)

\* What the per-address map answers is the number of slots really held.
LEMMA LookupCounts ==
  ASSUME AccInv, maxPerIP > 0, NEW k
  PROVE  Lookup(perIP, k) = Cardinality(HoldersOf(k))
  <1>1. CASE k \in DOMAIN perIP
    BY <1>1 DEF AccInv, Accounting, Lookup
  <1>2. CASE k \notin DOMAIN perIP
    <2>1. HoldersOf(k) = {}
      BY <1>2 DEF AccInv, Accounting, HoldersOf
    <2> QED BY <1>2, <2>1, FS_EmptySet DEF Lookup
  <1> QED BY <1>1, <1>2

LEMMA GrantLimits ==
  ASSUME AccInv, Limits, NEW c \in Calls, NEW k \in Keys, Grant(c, k)
  PROVE  Limits'
  <1>1. /\ TypeOK
        /\ IsFiniteSet(Holders)
        /\ total = Cardinality(Holders)
        /\ Cardinality(Holders) \in Nat
    BY FS_CardinalityType DEF AccInv, Accounting
  <1>2. /\ c \notin Holders
        /\ Holders' = Holders \cup {c}
        /\ HoldersOf(k)' = HoldersOf(k) \cup {c}
        /\ \A j : j # k => HoldersOf(j)' = HoldersOf(j)
    BY <1>1, GrantHolders
  <1>3. UNCHANGED <<maxTotal, maxPerIP>>
    BY DEF Grant, Answer, limits
  <1>4. ASSUME maxTotal > 0 PROVE Cardinality(Holders') <= maxTotal
    <2>1. Cardinality(Holders) < maxTotal
      BY <1>1, <1>4 DEF Grant, TotalFull, TypeOK
    <2>2. Cardinality(Holders') = Cardinality(Holders) + 1
      BY <1>1, <1>2, FS_AddElement
    <2> QED BY <1>1, <2>1, <2>2 DEF TypeOK
  <1>5. ASSUME maxPerIP > 0, NEW j \in Keys
        PROVE  Cardinality(HoldersOf(j)') <= maxPerIP
    <2>1. CASE j # k
      BY <1>2, <1>5, <2>1 DEF Limits
    <2>2. CASE j = k
      <3>1. Cardinality(HoldersOf(k)) < maxPerIP
        BY <1>1, <1>5, LookupCounts, HoldersOfFinite DEF Grant, IPFull, TypeOK
      <3>2. Cardinality(HoldersOf(k)') = Cardinality(HoldersOf(k)) + 1
        <4>1. IsFiniteSet(HoldersOf(k)) /\ c \notin HoldersOf(k)
          BY <1>1, <1>2, HoldersOfFinite DEF HoldersOf
        <4> QED BY <1>2, <4>1, FS_AddElement
      <3>3. Cardinality(HoldersOf(k)) \in Nat
        BY <1>1, HoldersOfFinite
      <3> QED BY <1>1, <2>2, <3>1, <3>2, <3>3 DEF TypeOK
    <2> QED BY <2>1, <2>2
  <1> QED BY <1>3, <1>4, <1>5 DEF Limits

\* A step that takes no slot cannot break a limit.
LEMMA FewerHoldersLimits ==
  ASSUME AccInv, Limits, UNCHANGED <<maxTotal, maxPerIP>>,
         Holders' \subseteq Holders,
         \A j : HoldersOf(j)' \subseteq HoldersOf(j)
  PROVE  Limits'
  <1>1. IsFiniteSet(Holders) /\ maxTotal \in Nat /\ maxPerIP \in Nat
    BY DEF AccInv, TypeOK
  <1>2. /\ Cardinality(Holders) \in Nat
        /\ Cardinality(Holders') \in Nat
        /\ Cardinality(Holders') <= Cardinality(Holders)
    BY <1>1, FS_Subset, FS_CardinalityType
  <1>3. ASSUME NEW j
        PROVE  /\ Cardinality(HoldersOf(j)) \in Nat
               /\ Cardinality(HoldersOf(j)') \in Nat
               /\ Cardinality(HoldersOf(j)') <= Cardinality(HoldersOf(j))
    BY <1>1, HoldersOfFinite, FS_Subset, FS_CardinalityType
  <1> QED BY <1>1, <1>2, <1>3 DEF Limits

LEMMA StepLimits == AccInv /\ Limits /\ [Next]_vars => Limits'
  <1> SUFFICES ASSUME AccInv, Limits, [Next]_vars PROVE Limits'
    OBVIOUS
  <1> USE DEF AccInv
  <1>1. ASSUME NEW c \in Calls, NEW k \in Keys, RefuseTotal(c, k) \/ RefusePerIP(c, k)
        PROVE  Limits'
    BY <1>1, RefuseHolders, FewerHoldersLimits DEF RefuseTotal, RefusePerIP, Answer, limits
  <1>2. ASSUME NEW c \in Calls, NEW ip \in IPs \cup {NoIP}, TryAcquire(c, ip)
        PROVE  Limits'
    BY <1>1, <1>2, KeyType, GrantLimits DEF TryAcquire
  <1>3. CASE UNCHANGED vars
    BY <1>3, FewerHoldersLimits DEF vars, Holders, HoldersOf
  <1>4. ASSUME NEW c \in Calls, Release(c)
        PROVE  Limits'
    <2>1. CASE slot[c] = "held"
      <3>1. UNCHANGED <<maxTotal, maxPerIP, key>> /\ slot' = [slot EXCEPT ![c] = "released"]
        BY <1>4, <2>1 DEF Release
      <3>2. Holders' \subseteq Holders /\ \A j : HoldersOf(j)' \subseteq HoldersOf(j)
        BY <3>1 DEF TypeOK, Holders, HoldersOf
      <3> QED BY <3>1, <3>2, FewerHoldersLimits
    <2>2. CASE slot[c] # "held"
      BY <1>3, <1>4, <2>2 DEF Release
    <2> QED BY <2>1, <2>2
  <1> QED BY <1>2, <1>3, <1>4 DEF Next

LEMMA InitLimits == Init => Limits
  <1> SUFFICES ASSUME Init PROVE Limits
    OBVIOUS
  <1>1. Holders = {} /\ \A k : HoldersOf(k) = {}
    BY DEF Init, Holders, HoldersOf
  <1>2. maxTotal \in Nat /\ maxPerIP \in Nat
    BY InitType DEF TypeOK
  <1> QED BY <1>1, <1>2, FS_EmptySet DEF Limits

\* No reachable state exceeds a configured limit, whatever its value; the
\* bound is on the slots really held, not on the counters
\* (concurrency_limiter.go:42-52).
THEOREM LimitsHold == Spec => []Limits
  <1> QED BY InitAccounting, StepAccounting, InitLimits, StepLimits, PTL DEF Spec

-----------------------------------------------------------------------------
(* The counters implement the pool *)

LEMMA PoolInit == Init => Pool!Init
  BY InitType DEF Init, Pool!Init, TypeOK

LEMMA PoolStep == AccInv /\ [Next]_vars => [Pool!Next]_(Pool!vars)
  <1> SUFFICES ASSUME AccInv, [Next]_vars PROVE [Pool!Next]_(Pool!vars)
    OBVIOUS
  <1>1. /\ Pool!Holders = Holders
        /\ \A k : Pool!HoldersOf(k) = HoldersOf(k)
    BY DEF Holders, HoldersOf, Pool!Holders, Pool!HoldersOf
  <1>0. \A S : Pool!Cardinality(S) = Cardinality(S)
    BY DEF Pool!Cardinality, Cardinality
  <1>2. Pool!AtTotalLimit <=> TotalFull
    BY <1>0, <1>1 DEF Pool!AtTotalLimit, TotalFull, AccInv, Accounting
  <1>3. \A k : Pool!AtKeyLimit(k) <=> IPFull(k)
    BY <1>0, <1>1, LookupCounts DEF Pool!AtKeyLimit, IPFull
  <1>4. ASSUME NEW c \in Calls, NEW k \in Keys, Grant(c, k)
        PROVE  Pool!Acquire(c, k)
    BY <1>2, <1>3, <1>4 DEF Grant, Answer, limits, Pool!Acquire
  <1>5. ASSUME NEW c \in Calls, NEW k \in Keys, RefuseTotal(c, k) \/ RefusePerIP(c, k)
        PROVE  Pool!Refuse(c, k)
    BY <1>2, <1>3, <1>5 DEF RefuseTotal, RefusePerIP, Answer, limits, Pool!Refuse
  <1>6. ASSUME NEW c \in Calls, NEW ip \in IPs \cup {NoIP}, TryAcquire(c, ip)
        PROVE  Pool!Next
    BY <1>4, <1>5, <1>6, KeyType DEF TryAcquire, Pool!Next
  <1>7. ASSUME NEW c \in Calls, Release(c)
        PROVE  [Pool!Next]_(Pool!vars)
    BY <1>7 DEF Release, vars, Pool!vars, Pool!GiveBack, Pool!Next
  <1>8. CASE UNCHANGED vars
    BY <1>8 DEF vars, Pool!vars
  <1> QED BY <1>6, <1>7, <1>8 DEF Next

\* The limiter implements the counterless pool, for every set of calls: a
\* call is refused only while the slots really held have reached a limit, a
\* slot given back is usable at once, and a second release changes nothing
\* (concurrency_limiter.go:32-84).
THEOREM LimiterImplementsPool == Spec => PoolSpec
  <1> QED BY InitAccounting, StepAccounting, PoolInit, PoolStep, PTL
          DEF Spec, PoolSpec, Pool!Spec
=============================================================================
