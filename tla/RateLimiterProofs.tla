-------------------------- MODULE RateLimiterProofs --------------------------
(***************************************************************************)
(* Proofs about RateLimiter, for any callers, addresses, rate, burst and   *)
(* waits for the mutex: idle buckets go, a denied client has earned less   *)
(* than a token, and the bound on what is admitted, which needs one        *)
(* relation between burst and rate (EvictSafe): a bucket that may be       *)
(* evicted must be full again.                                             *)
(***************************************************************************)
EXTENDS RateLimiter, TLAPS

Waiting(c) == call[c] # Idle

\* No reading is older than the longest wait for the mutex.
Timing == /\ \A c \in Callers : Waiting(c) => clock - call[c].now <= MaxDelay
          /\ due - CleanupPeriod <= clock /\ clock <= due + MaxDelay
          /\ cutoff # NoCutoff =>
               /\ due - CleanupPeriod <= cutoff + Ttl
               /\ cutoff + Ttl <= due - CleanupPeriod + MaxDelay
               /\ cutoff + Ttl <= clock
               /\ clock <= cutoff + Ttl + MaxDelay

\* Every bucket has seen at most one tick of the cleanup loop go by.
Recent(b) == /\ b.lastRefill >= due - 2 * CleanupPeriod - Ttl
             /\ cutoff = NoCutoff => b.lastRefill >= due - CleanupPeriod - Ttl

\* A bucket holds what was earned since the last admission.
Earned(ip, b) == /\ lastAdmit[ip] >= 0
                 /\ b.tokens >= (b.lastRefill - lastAdmit[ip]) * perMinute
                 /\ b.tokens >= Token => lastAdmit[ip] >= b.lastRefill

RateInv == /\ TypeOK
           /\ Timing
           /\ \A ip \in DOMAIN buckets : Recent(buckets[ip]) /\ Earned(ip, buckets[ip])

LEMMA Numbers == /\ Minute \in Nat \ {0} /\ MaxDelay \in Nat /\ MaxClock \in Nat
                 /\ Ttl = 10 * Minute /\ CleanupPeriod = 5 * Minute /\ Token = Minute
                 /\ 2 * MaxDelay < CleanupPeriod /\ NoCutoff = -Ttl - 1
                 /\ Windows \subseteq Nat
BY RateAssumption DEF RateAssumption, Ttl, CleanupPeriod, Token, NoCutoff

\* Multiplying by the rate.
LEMMA Products == ASSUME NEW r \in Nat
                  PROVE  /\ \A a, b \in Int : a <= b => a * r <= b * r
                         /\ \A a, b \in Int : (a + b) * r = a * r + b * r
                         /\ \A a \in Int : a * r \in Int
<1>1. \A a, b \in Int : (a + b) * r = a * r + b * r
      OBVIOUS
<1>2. ASSUME NEW a \in Int, NEW b \in Int, a <= b PROVE a * r <= b * r
  <2>1. (b - a) * r >= 0
        BY <1>2
  <2>2. (a + (b - a)) * r = a * r + (b - a) * r
        BY <1>1
  <2>3. a + (b - a) = b
        OBVIOUS
  <2>4. a * r \in Int /\ (b - a) * r \in Int /\ b * r \in Int
        OBVIOUS
  <2> QED BY <2>1, <2>2, <2>3, <2>4
<1> QED BY <1>1, <1>2

LEMMA Settings == ASSUME TypeOK
                  PROVE  /\ perMinute \in Nat \ {0} /\ burst \in Nat \ {0}
                         /\ burst * Token \in Nat /\ burst * Token >= Token
                         /\ (burst - 1) * Token = burst * Token - Token
<1>1. perMinute \in Nat \ {0} /\ burst \in Nat \ {0} /\ Token \in Nat \ {0}
      BY Numbers DEF TypeOK
<1>2. /\ (burst - 1) * Token \in Int /\ (burst - 1) * Token >= 0
      /\ ((burst - 1) + 1) * Token = (burst - 1) * Token + 1 * Token
      BY <1>1, Products
<1>3. (burst - 1) + 1 = burst /\ 1 * Token = Token
      BY <1>1
<1> QED BY <1>1, <1>2, <1>3

\* What a refill does to a bucket, whenever its reading was taken.
RefillGood(b, now, r) ==
  /\ r.tokens \in 0 .. burst * Token
  /\ r.lastRefill = IF now > b.lastRefill THEN now ELSE b.lastRefill
  /\ r.tokens <= b.tokens + (r.lastRefill - b.lastRefill) * perMinute
  /\ r.tokens < Token => r.tokens = b.tokens + (r.lastRefill - b.lastRefill) * perMinute
  /\ r.lastRefill = b.lastRefill => r = b
  /\ r = [tokens |-> r.tokens, lastRefill |-> r.lastRefill]

LEMMA RefillFacts ==
  ASSUME TypeOK, NEW b \in [tokens : 0 .. burst * Token, lastRefill : Int], NEW now \in Int,
         NEW r, r = Refilled(b, now)
  PROVE  RefillGood(b, now, r)
<1>0. /\ perMinute \in Nat \ {0} /\ burst * Token \in Nat /\ burst * Token >= Token
      /\ Token \in Nat \ {0}
      BY Settings, Numbers
<1>1. CASE now > b.lastRefill
  <2>1. (now - b.lastRefill) * perMinute \in Int /\ (now - b.lastRefill) * perMinute >= 0
        BY <1>0, <1>1
  <2>2. r = [tokens |-> Least(b.tokens + (now - b.lastRefill) * perMinute, burst * Token),
             lastRefill |-> now]
        BY <1>1 DEF Refilled
  <2>3. r.lastRefill = now
        /\ r.tokens = Least(b.tokens + (now - b.lastRefill) * perMinute, burst * Token)
        BY <2>2
  <2>4. Least(b.tokens + (now - b.lastRefill) * perMinute, burst * Token) \in 0 .. burst * Token
        BY <1>0, <2>1 DEF Least
  <2> QED BY <1>0, <1>1, <2>1, <2>2, <2>3, <2>4 DEF Least, RefillGood
<1>2. CASE ~(now > b.lastRefill)
  <2>1. r = b
        BY <1>2 DEF Refilled
  <2>2. (b.lastRefill - b.lastRefill) * perMinute = 0
        BY <1>0
  <2> QED BY <1>0, <1>2, <2>1, <2>2 DEF RefillGood
<1> QED BY <1>1, <1>2

LEMMA InitInv == Init => RateInv
<1> SUFFICES ASSUME Init PROVE RateInv
    OBVIOUS
<1> USE Numbers
<1>1. DOMAIN buckets = {}
      BY DEF Init
<1>2. perMinute \in Nat \ {0} /\ burst \in Nat \ {0}
  <2> PICK s \in Configs : perMinute = DefaultRate(s[1])
                           /\ burst = DefaultBurst(s[2], DefaultRate(s[1]))
      BY DEF Init
  <2>1. s[1] \in Int /\ s[2] \in Int
        BY RateAssumption DEF RateAssumption
  <2> QED BY <2>1 DEF DefaultRate, DefaultBurst
<1>3. \A c \in Callers : ~Waiting(c)
      BY DEF Init, Waiting
<1>4. TypeOK
      BY <1>1, <1>2 DEF Init, TypeOK, Never
<1>5. Timing
      BY <1>3 DEF Init, Timing
<1> QED BY <1>1, <1>4, <1>5 DEF RateInv

LEMMA CallTypes == ASSUME TypeOK, NEW c \in Callers, Waiting(c)
                   PROVE  call[c].ip \in IPs /\ call[c].now \in 0 .. clock
BY DEF TypeOK, Waiting

\* Time passing, a reading taken, and the cleanup loop's tick move no bucket.
LEMMA TickKeeps == ASSUME RateInv, Tick PROVE RateInv'
<1> USE Numbers
<1>0. TypeOK /\ Timing /\ clock \in Int /\ due \in Int /\ cutoff \in Int
      BY DEF RateInv, TypeOK
<1>1. /\ clock' = clock + 1 /\ clock < MaxClock
      /\ UNCHANGED <<perMinute, burst, buckets, call, due, cutoff, from, admitted, lastAdmit>>
      BY DEF Tick, settings, history
<1>2. TypeOK'
  <2>1. clock' \in 0 .. MaxClock /\ 0 .. clock \subseteq 0 .. clock'
        BY <1>0, <1>1 DEF TypeOK
  <2>2. \A ip \in DOMAIN buckets :
          buckets[ip] \in [tokens : 0 .. burst * Token, lastRefill : 0 .. clock']
        BY <1>0, <2>1 DEF TypeOK
  <2>3. call \in [Callers -> {Idle} \cup [at : {"waiting"}, ip : IPs, now : 0 .. clock']]
        BY <1>0, <2>1 DEF TypeOK
  <2>4. cutoff = NoCutoff \/ cutoff \in -Ttl .. clock'
        BY <1>0, <1>1 DEF TypeOK
  <2>5. lastAdmit \in [IPs -> -1 .. clock']
        BY <1>0, <1>1 DEF TypeOK
  <2> QED BY <1>0, <1>1, <2>1, <2>2, <2>3, <2>4, <2>5 DEF TypeOK
<1>3. Timing'
  <2>1. ASSUME NEW c \in Callers, Waiting(c)' PROVE clock' - call'[c].now <= MaxDelay
    <3>1. Waiting(c) /\ call[c].now \in Int
          BY <1>0, <1>1, <2>1, CallTypes DEF Waiting
    <3>2. clock - call[c].now < MaxDelay
          BY <3>1 DEF Tick, Waiting
    <3> QED BY <1>0, <1>1, <3>1, <3>2
  <2>2. /\ clock - due < MaxDelay
        /\ cutoff # NoCutoff => clock - (cutoff + Ttl) < MaxDelay
        BY DEF Tick
  <2>3. /\ due' - CleanupPeriod <= clock' /\ clock' <= due' + MaxDelay
        BY <1>0, <1>1, <2>2 DEF Timing
  <2>4. cutoff' # NoCutoff => /\ due' - CleanupPeriod <= cutoff' + Ttl
                              /\ cutoff' + Ttl <= due' - CleanupPeriod + MaxDelay
                              /\ cutoff' + Ttl <= clock'
                              /\ clock' <= cutoff' + Ttl + MaxDelay
        BY <1>0, <1>1, <2>2 DEF Timing
  <2> QED BY <2>1, <2>3, <2>4 DEF Timing
<1>4. \A ip \in DOMAIN buckets' : Recent(buckets[ip])' /\ Earned(ip, buckets[ip])'
      BY <1>1 DEF RateInv, Recent, Earned
<1> QED BY <1>2, <1>3, <1>4 DEF RateInv

LEMMA ReadClockKeeps == ASSUME RateInv, NEW c \in Callers, NEW ip \in IPs, ReadClock(c, ip)
                        PROVE  RateInv'
<1> USE Numbers
<1>0. TypeOK /\ Timing /\ clock \in Int /\ clock \in 0 .. clock
      BY DEF RateInv, TypeOK
<1>1. UNCHANGED <<clock, perMinute, burst, buckets, due, cutoff, from, admitted, lastAdmit>>
      BY DEF ReadClock, settings, history
<1> PICK r : r = [at |-> "waiting", ip |-> ip, now |-> clock]
    OBVIOUS
<1>2. r \in [at : {"waiting"}, ip : IPs, now : 0 .. clock] /\ r.now = clock
      BY <1>0
<1>3. call' = [call EXCEPT ![c] = r]
      BY DEF ReadClock
<1>4. call' \in [Callers -> {Idle} \cup [at : {"waiting"}, ip : IPs, now : 0 .. clock]]
      BY <1>0, <1>2, <1>3 DEF TypeOK
<1>5. TypeOK'
      BY <1>0, <1>1, <1>4 DEF TypeOK
<1>6. ASSUME NEW d \in Callers, Waiting(d)' PROVE clock' - call'[d].now <= MaxDelay
  <2>1. CASE d = c
        BY <1>0, <1>1, <1>2, <1>3, <2>1 DEF TypeOK
  <2>2. CASE d # c
    <3>1. call'[d] = call[d]
          BY <1>0, <1>3, <2>2 DEF TypeOK
    <3> QED BY <1>0, <1>1, <1>6, <3>1 DEF Timing, Waiting
  <2> QED BY <2>1, <2>2
<1>7. Timing'
      BY <1>0, <1>1, <1>6 DEF Timing
<1>8. \A x \in DOMAIN buckets' : Recent(buckets[x])' /\ Earned(x, buckets[x])'
      BY <1>1 DEF RateInv, Recent, Earned
<1> QED BY <1>5, <1>7, <1>8 DEF RateInv

LEMMA ReadCutoffKeeps == ASSUME RateInv, ReadCutoff PROVE RateInv'
<1> USE Numbers
<1>0. TypeOK /\ Timing /\ clock \in Int /\ clock >= 0 /\ due \in Int /\ due >= 0
      BY DEF RateInv, TypeOK
<1>1. /\ UNCHANGED <<clock, perMinute, burst, buckets, call, from, admitted, lastAdmit>>
      /\ cutoff = NoCutoff /\ clock >= due /\ cutoff' = clock - Ttl
      /\ due' = due + CleanupPeriod
      BY DEF ReadCutoff, settings, history
<1>2. TypeOK'
  <2>1. cutoff' \in -Ttl .. clock' /\ due' \in Nat
        BY <1>0, <1>1
  <2> QED BY <1>0, <1>1, <2>1 DEF TypeOK
<1>3. Timing'
      BY <1>0, <1>1 DEF Timing, Waiting
<1>4. ASSUME NEW ip \in DOMAIN buckets PROVE Recent(buckets[ip])' /\ Earned(ip, buckets[ip])'
  <2>1. buckets[ip].lastRefill \in Int
        BY <1>0 DEF TypeOK
  <2>2. Recent(buckets[ip]) /\ Earned(ip, buckets[ip])
        BY DEF RateInv
  <2>3. due' - 2 * CleanupPeriod - Ttl = due - CleanupPeriod - Ttl /\ cutoff' # NoCutoff
        BY <1>0, <1>1
  <2>4. Recent(buckets[ip])'
        BY <1>1, <2>2, <2>3 DEF Recent
  <2>5. Earned(ip, buckets[ip])'
        BY <1>1, <2>2 DEF Earned
  <2> QED BY <2>4, <2>5
<1>5. \A ip \in DOMAIN buckets' : Recent(buckets[ip])' /\ Earned(ip, buckets[ip])'
      BY <1>1, <1>4 DEF Recent, Earned
<1> QED BY <1>2, <1>3, <1>5 DEF RateInv

LEMMA EvictFacts == ASSUME RateInv, Evict
                    PROVE  /\ DOMAIN buckets' = {i \in DOMAIN buckets : ~Stale(buckets[i])}
                           /\ \A i \in DOMAIN buckets' : buckets'[i] = buckets[i]
                           /\ UNCHANGED <<clock, perMinute, burst, call, due, from, admitted,
                                          lastAdmit>>
                           /\ cutoff # NoCutoff /\ cutoff' = NoCutoff
BY DEF Evict, settings, history

LEMMA EvictKeeps == ASSUME RateInv, Evict PROVE RateInv'
<1> USE Numbers, EvictFacts
<1>0. TypeOK /\ Timing /\ cutoff \in Int /\ due \in Int
      BY DEF RateInv, TypeOK
<1>1. TypeOK'
      BY <1>0 DEF TypeOK
<1>2. Timing'
      BY <1>0 DEF Timing, Waiting
<1>3. ASSUME NEW ip \in DOMAIN buckets'
      PROVE  Recent(buckets[ip])' /\ Earned(ip, buckets[ip])'
  <2>1. /\ ip \in DOMAIN buckets /\ buckets'[ip] = buckets[ip]
        /\ ~Stale(buckets[ip]) /\ buckets[ip].lastRefill \in Int
        BY <1>0 DEF TypeOK
  <2>2. Recent(buckets[ip]) /\ Earned(ip, buckets[ip])
        BY <2>1 DEF RateInv
  <2>3. buckets[ip].lastRefill >= due - CleanupPeriod - Ttl
        BY <1>0, <2>1 DEF Stale, Timing
  <2> QED BY <2>1, <2>2, <2>3 DEF Recent, Earned
<1> QED BY <1>1, <1>2, <1>3 DEF RateInv

\* What allow leaves in the map, and in the history.
LEMMA LeavesFacts ==
  ASSUME TypeOK, NEW ip \in IPs, NEW now, NEW b, buckets' = SetBucket(ip, b)
  PROVE  /\ DOMAIN buckets' = DOMAIN buckets \cup {ip}
         /\ buckets'[ip] = b
         /\ \A x \in DOMAIN buckets \ {ip} : buckets'[x] = buckets[x]
BY DEF SetBucket

LEMMA AdmitFacts ==
  ASSUME TypeOK, NEW ip \in IPs, NEW now \in 0 .. clock, Admit(ip, now)
  PROVE  /\ admitted' \in [IPs -> Nat] /\ lastAdmit' \in [IPs -> -1 .. clock] /\ from' = from
         /\ admitted'[ip] = IF now >= from THEN admitted[ip] + 1 ELSE admitted[ip]
         /\ lastAdmit'[ip] = IF now > lastAdmit[ip] THEN now ELSE lastAdmit[ip]
         /\ \A x \in IPs \ {ip} : admitted'[x] = admitted[x] /\ lastAdmit'[x] = lastAdmit[x]
<1>1. clock \in Int /\ admitted \in [IPs -> Nat] /\ lastAdmit \in [IPs -> -1 .. clock]
      BY DEF TypeOK
<1>2. /\ admitted' = [admitted EXCEPT ![ip] = IF now >= from THEN admitted[ip] + 1
                                                             ELSE admitted[ip]]
      /\ lastAdmit' = [lastAdmit EXCEPT ![ip] = IF now > lastAdmit[ip] THEN now
                                                                      ELSE lastAdmit[ip]]
      /\ from' = from
      BY DEF Admit
<1>3. /\ (IF now >= from THEN admitted[ip] + 1 ELSE admitted[ip]) \in Nat
      /\ (IF now > lastAdmit[ip] THEN now ELSE lastAdmit[ip]) \in -1 .. clock
      BY <1>1
<1> QED BY <1>1, <1>2, <1>3

\* The bucket of the request: new, drawn on, or only refilled.
LEMMA NewBucketFacts ==
  ASSUME TypeOK, NEW now \in 0 .. clock, NEW b, b = NewBucket(now)
  PROVE  /\ b \in [tokens : 0 .. burst * Token, lastRefill : 0 .. clock]
         /\ b.lastRefill = now /\ b.tokens = burst * Token - Token
<1>1. b = [tokens |-> burst * Token - Token, lastRefill |-> now]
      BY Settings DEF NewBucket
<1>2. burst * Token - Token \in 0 .. burst * Token
      BY Settings, Numbers
<1> QED BY <1>1, <1>2

LEMMA SpendFacts ==
  ASSUME TypeOK, NEW r \in [tokens : 0 .. burst * Token, lastRefill : 0 .. clock],
         r.tokens >= Token, NEW b, b = Spend(r)
  PROVE  /\ b \in [tokens : 0 .. burst * Token, lastRefill : 0 .. clock]
         /\ b.lastRefill = r.lastRefill /\ b.tokens = r.tokens - Token
<1>1. Token \in Nat /\ burst * Token \in Nat
      BY Numbers, Settings
<1>2. b = [r EXCEPT !.tokens = r.tokens - Token] /\ r.tokens - Token \in 0 .. burst * Token
      BY <1>1 DEF Spend
<1> QED BY <1>2

LEMMA RefilledType ==
  ASSUME RateInv, NEW ip \in DOMAIN buckets, NEW now \in 0 .. clock,
         NEW r, r = Refilled(buckets[ip], now)
  PROVE  /\ r \in [tokens : 0 .. burst * Token, lastRefill : 0 .. clock]
         /\ RefillGood(buckets[ip], now, r)
         /\ buckets[ip] \in [tokens : 0 .. burst * Token, lastRefill : 0 .. clock]
<1> PICK b : b = buckets[ip]
    OBVIOUS
<1>1. TypeOK /\ b \in [tokens : 0 .. burst * Token, lastRefill : 0 .. clock] /\ clock \in Nat
      BY DEF RateInv, TypeOK
<1>2. b \in [tokens : 0 .. burst * Token, lastRefill : Int] /\ now \in Int
      BY <1>1
<1>3. RefillGood(b, now, r)
      BY <1>1, <1>2, RefillFacts
<1>4. r.lastRefill \in 0 .. clock
      BY <1>1, <1>3 DEF RefillGood
<1>5. r \in [tokens : 0 .. burst * Token, lastRefill : 0 .. clock]
      BY <1>3, <1>4 DEF RefillGood
<1> QED BY <1>1, <1>3, <1>5

\* What is left of allow once the bucket is known: the rest of the state fits.
LEMMA AllowRest ==
  ASSUME RateInv, NEW c \in Callers, Waiting(c), NEW ip \in IPs, Return(c),
         NEW b \in [tokens : 0 .. burst * Token, lastRefill : 0 .. clock],
         buckets' = SetBucket(ip, b),
         admitted' \in [IPs -> Nat], lastAdmit' \in [IPs -> -1 .. clock], from' = from,
         \A x \in IPs \ {ip} : lastAdmit'[x] = lastAdmit[x],
         b.lastRefill >= call[c].now,
         Earned(ip, b)'
  PROVE  RateInv'
<1> USE Numbers
<1>0. TypeOK /\ Timing /\ clock \in Int /\ due \in Int
      BY DEF RateInv, TypeOK
<1>1. /\ UNCHANGED <<clock, perMinute, burst, due, cutoff, from>>
      /\ call' = [call EXCEPT ![c] = Idle]
      BY DEF Return, settings
<1>2. /\ DOMAIN buckets' = DOMAIN buckets \cup {ip}
      /\ buckets'[ip] = b
      /\ \A x \in DOMAIN buckets \ {ip} : buckets'[x] = buckets[x]
      BY <1>0, LeavesFacts
<1>3. TypeOK'
  <2>1. call' \in [Callers -> {Idle} \cup [at : {"waiting"}, ip : IPs, now : 0 .. clock]]
        BY <1>0, <1>1 DEF TypeOK
  <2>2. /\ DOMAIN buckets' \subseteq IPs
        /\ \A x \in DOMAIN buckets' :
             buckets'[x] \in [tokens : 0 .. burst * Token, lastRefill : 0 .. clock]
        BY <1>0, <1>2 DEF TypeOK
  <2> QED BY <1>0, <1>1, <2>1, <2>2 DEF TypeOK
<1>4. Timing'
  <2>1. \A d \in Callers : Waiting(d)' => Waiting(d) /\ call'[d] = call[d]
        BY <1>0, <1>1 DEF TypeOK, Waiting
  <2> QED BY <1>0, <1>1, <2>1 DEF Timing
<1>5. Recent(b)
  <2>1. call[c].now \in Int /\ clock - call[c].now <= MaxDelay /\ b.lastRefill \in Int
        BY <1>0, CallTypes DEF Timing
  <2> QED BY <1>0, <2>1 DEF Recent, Timing
<1>6. ASSUME NEW x \in DOMAIN buckets' PROVE Recent(buckets[x])' /\ Earned(x, buckets[x])'
  <2>1. CASE x = ip
    <3>1. Recent(buckets[x])'
          BY <1>1, <1>2, <1>5, <2>1 DEF Recent
    <3>2. Earned(x, buckets[x])'
          BY <1>2, <2>1 DEF Earned
    <3> QED BY <3>1, <3>2
  <2>2. CASE x # ip
    <3>1. /\ x \in DOMAIN buckets /\ x \in IPs \ {ip} /\ buckets'[x] = buckets[x]
          /\ lastAdmit'[x] = lastAdmit[x]
          BY <1>0, <1>2, <2>2 DEF TypeOK
    <3>2. Recent(buckets[x]) /\ Earned(x, buckets[x])
          BY <3>1 DEF RateInv
    <3>3. Recent(buckets[x])'
          BY <1>1, <3>1, <3>2 DEF Recent
    <3>4. Earned(x, buckets[x])'
          BY <1>1, <3>1, <3>2 DEF Earned
    <3> QED BY <3>3, <3>4
  <2> QED BY <2>1, <2>2
<1> QED BY <1>3, <1>4, <1>6 DEF RateInv

\* A denied request leaves what was earned since the last admission.
LEMMA RefillEarned ==
  ASSUME RateInv, NEW ip \in DOMAIN buckets, NEW now \in 0 .. clock,
         NEW r, r = Refilled(buckets[ip], now), r.tokens < Token
  PROVE  r.tokens >= (r.lastRefill - lastAdmit[ip]) * perMinute
<1> DEFINE old == buckets[ip].lastRefill
<1>0. /\ perMinute \in Nat \ {0} /\ lastAdmit[ip] \in Int /\ Earned(ip, buckets[ip])
      BY DEF RateInv, TypeOK
<1>1. /\ old \in Int /\ r.lastRefill \in Int /\ buckets[ip].tokens \in Int
      /\ RefillGood(buckets[ip], now, r)
  <2>1. /\ r \in [tokens : 0 .. burst * Token, lastRefill : 0 .. clock]
        /\ RefillGood(buckets[ip], now, r)
        /\ buckets[ip] \in [tokens : 0 .. burst * Token, lastRefill : 0 .. clock]
        BY RefilledType
  <2>2. burst * Token \in Nat /\ clock \in Nat
        BY Settings DEF RateInv, TypeOK
  <2> QED BY <2>1, <2>2
<1>2. r.tokens = buckets[ip].tokens + (r.lastRefill - old) * perMinute
      BY <1>1 DEF RefillGood
<1>3. buckets[ip].tokens >= (old - lastAdmit[ip]) * perMinute
      BY <1>0 DEF Earned
<1> HIDE DEF old
<1>4. /\ (r.lastRefill - old) + (old - lastAdmit[ip]) = r.lastRefill - lastAdmit[ip]
      /\ (r.lastRefill - old) \in Int /\ (old - lastAdmit[ip]) \in Int
      BY <1>0, <1>1
<1>5. (r.lastRefill - lastAdmit[ip]) * perMinute
         = (r.lastRefill - old) * perMinute + (old - lastAdmit[ip]) * perMinute
      BY <1>0, <1>4, Products
<1>6. (r.lastRefill - old) * perMinute \in Int /\ (old - lastAdmit[ip]) * perMinute \in Int
      BY <1>0, <1>4, Products
<1> QED BY <1>1, <1>2, <1>3, <1>5, <1>6

LEMMA AllowKeeps == ASSUME RateInv, NEW c \in Callers, Allow(c) PROVE RateInv'
<1> USE Numbers
<1> PICK ip, now : ip = call[c].ip /\ now = call[c].now
    OBVIOUS
<1>0. /\ TypeOK /\ Waiting(c) /\ ip \in IPs /\ now \in 0 .. clock /\ clock \in Nat
      /\ Return(c) /\ UNCHANGED <<perMinute, burst>>
      /\ perMinute \in Nat \ {0} /\ burst * Token >= Token /\ burst * Token \in Nat
      BY CallTypes, Settings DEF RateInv, TypeOK, Allow, Waiting, Return, settings
<1>p. \A a \in Int : a <= 0 => a * perMinute <= 0
      BY <1>0, Products
<1>1. CASE AllowFirst(c, ip, now)
  <2> PICK b : b = NewBucket(now)
      OBVIOUS
  <2>1. /\ b \in [tokens : 0 .. burst * Token, lastRefill : 0 .. clock]
        /\ b.lastRefill = now /\ b.tokens = burst * Token - Token
        BY <1>0, NewBucketFacts
  <2>2. /\ admitted' \in [IPs -> Nat] /\ lastAdmit' \in [IPs -> -1 .. clock] /\ from' = from
        /\ lastAdmit'[ip] = IF now > lastAdmit[ip] THEN now ELSE lastAdmit[ip]
        /\ \A x \in IPs \ {ip} : lastAdmit'[x] = lastAdmit[x]
        BY <1>0, <1>1, AdmitFacts DEF AllowFirst
  <2>3. lastAdmit'[ip] \in Int /\ lastAdmit'[ip] >= now /\ lastAdmit'[ip] >= 0
        BY <1>0, <2>2 DEF TypeOK
  <2>4. (b.lastRefill - lastAdmit'[ip]) * perMinute <= 0
        BY <1>0, <1>p, <2>1, <2>3
  <2>5. Earned(ip, b)'
        BY <1>0, <2>1, <2>3, <2>4 DEF Earned
  <2>6. buckets' = SetBucket(ip, b)
        BY <1>1 DEF AllowFirst
  <2> QED BY <1>0, <2>1, <2>2, <2>5, <2>6, AllowRest
<1>2. CASE AllowRefilled(c, ip, now)
  <2> PICK r : r = Refilled(buckets[ip], now)
      OBVIOUS
  <2> PICK b : b = Spend(r)
      OBVIOUS
  <2>0. ip \in DOMAIN buckets /\ r.tokens >= Token /\ buckets' = SetBucket(ip, b)
        BY <1>2 DEF AllowRefilled
  <2>1. /\ r \in [tokens : 0 .. burst * Token, lastRefill : 0 .. clock]
        /\ RefillGood(buckets[ip], now, r)
        /\ buckets[ip] \in [tokens : 0 .. burst * Token, lastRefill : 0 .. clock]
        BY <1>0, <2>0, RefilledType
  <2>2. /\ b \in [tokens : 0 .. burst * Token, lastRefill : 0 .. clock]
        /\ b.lastRefill = r.lastRefill /\ b.tokens = r.tokens - Token
        BY <1>0, <2>0, <2>1, SpendFacts
  <2>3. /\ admitted' \in [IPs -> Nat] /\ lastAdmit' \in [IPs -> -1 .. clock] /\ from' = from
        /\ lastAdmit'[ip] = IF now > lastAdmit[ip] THEN now ELSE lastAdmit[ip]
        /\ \A x \in IPs \ {ip} : lastAdmit'[x] = lastAdmit[x]
        BY <1>0, <1>2, AdmitFacts DEF AllowRefilled
  <2>4. lastAdmit'[ip] \in Int /\ lastAdmit'[ip] >= now /\ lastAdmit'[ip] >= 0
        /\ lastAdmit'[ip] >= lastAdmit[ip] /\ lastAdmit[ip] \in Int
        BY <1>0, <2>3 DEF TypeOK
  <2>5. lastAdmit'[ip] >= b.lastRefill
    <3>1. CASE now > buckets[ip].lastRefill
          BY <1>0, <2>1, <2>2, <2>4, <3>1 DEF RefillGood
    <3>2. CASE ~(now > buckets[ip].lastRefill)
      <4>1. r = buckets[ip] /\ r.lastRefill = buckets[ip].lastRefill
            BY <2>1, <3>2 DEF RefillGood
      <4>2. lastAdmit[ip] >= buckets[ip].lastRefill
            BY <2>0, <4>1 DEF RateInv, Earned
      <4> QED BY <2>1, <2>2, <2>4, <4>1, <4>2
    <3> QED BY <3>1, <3>2
  <2>6. (b.lastRefill - lastAdmit'[ip]) * perMinute <= 0
        BY <1>0, <1>p, <2>2, <2>4, <2>5
  <2>7. (b.lastRefill - lastAdmit'[ip]) * perMinute \in Int
        BY <1>0, <2>2, <2>4
  <2>8. Earned(ip, b)'
        BY <1>0, <2>2, <2>4, <2>5, <2>6, <2>7 DEF Earned
  <2>9. b.lastRefill >= now
        BY <1>0, <2>1, <2>2 DEF RefillGood
  <2> QED BY <1>0, <2>0, <2>2, <2>3, <2>8, <2>9, AllowRest
<1>3. CASE Deny(c, ip, now)
  <2> PICK r : r = Refilled(buckets[ip], now)
      OBVIOUS
  <2>0. /\ ip \in DOMAIN buckets /\ r.tokens < Token /\ buckets' = SetBucket(ip, r)
        /\ UNCHANGED <<from, admitted, lastAdmit>>
        BY <1>3 DEF Deny, history
  <2>1. /\ r \in [tokens : 0 .. burst * Token, lastRefill : 0 .. clock]
        /\ RefillGood(buckets[ip], now, r)
        /\ buckets[ip] \in [tokens : 0 .. burst * Token, lastRefill : 0 .. clock]
        BY <1>0, <2>0, RefilledType
  <2>2. Earned(ip, buckets[ip]) /\ lastAdmit[ip] \in Int
        BY <1>0, <2>0 DEF RateInv, TypeOK
  <2>3. r.tokens >= (r.lastRefill - lastAdmit[ip]) * perMinute
        BY <1>0, <2>0, RefillEarned
  <2>4. Earned(ip, r)'
        BY <1>0, <2>0, <2>1, <2>2, <2>3 DEF Earned
  <2>5. r.lastRefill >= now
        BY <1>0, <2>1 DEF RefillGood
  <2>6. /\ admitted' \in [IPs -> Nat] /\ lastAdmit' \in [IPs -> -1 .. clock] /\ from' = from
        /\ \A x \in IPs \ {ip} : lastAdmit'[x] = lastAdmit[x]
        BY <1>0, <2>0 DEF TypeOK
  <2> QED BY <1>0, <2>0, <2>1, <2>4, <2>5, <2>6, AllowRest
<1> QED BY <1>1, <1>2, <1>3 DEF Allow

LEMMA StillKeeps == ASSUME RateInv, UNCHANGED vars PROVE RateInv'
BY DEF RateInv, TypeOK, Timing, Recent, Earned, Waiting, vars

LEMMA NextKeeps == ASSUME RateInv, [Next]_vars PROVE RateInv'
BY TickKeeps, ReadClockKeeps, AllowKeeps, ReadCutoffKeeps, EvictKeeps, StillKeeps DEF Next

\* Every reading of the clock, admission, denial and eviction, in any order
\* (rate_limiter.go:38-77).
THEOREM RateInvariant == Spec => []RateInv
BY InitInv, NextKeeps, PTL DEF Spec

\* No bucket ever holds more than the burst or a negative balance, and every
\* reading of the clock lies in the past (rate_limiter.go:38-61).
THEOREM RateTyped == Spec => []TypeOK
<1>1. RateInv => TypeOK
      BY DEF RateInv
<1> QED BY RateInvariant, <1>1, PTL

\* The map does not grow with the clients seen since the start: an idle bucket
\* outlives the eviction age by one period and the waits for the mutex
\* (cleanupLoop, rate_limiter.go:65-77).
THEOREM IdleBucketsLeave == Spec => []IdleBucketsGo
<1>1. ASSUME RateInv PROVE IdleBucketsGo
  <2> SUFFICES ASSUME NEW ip \in DOMAIN buckets
               PROVE  clock - buckets[ip].lastRefill <= Ttl + CleanupPeriod + 2 * MaxDelay
      BY DEF IdleBucketsGo
  <2>1. /\ clock \in Int /\ due \in Int /\ cutoff \in Int /\ buckets[ip].lastRefill \in Int
        /\ Timing /\ Recent(buckets[ip])
        BY <1>1, Numbers DEF RateInv, TypeOK
  <2>2. CASE cutoff = NoCutoff
        BY <2>1, <2>2, Numbers DEF Timing, Recent
  <2>3. CASE cutoff # NoCutoff
        BY <2>1, <2>3, Numbers DEF Timing, Recent
  <2> QED BY <2>2, <2>3
<1> QED BY RateInvariant, <1>1, PTL

\* What DenialsEarned asks of a step.
DenialEarned == \A c \in Callers :
  (call[c] # Idle /\ Deny(c, call[c].ip, call[c].now))
     => /\ lastAdmit[call[c].ip] # Never
        /\ (call[c].now - lastAdmit[call[c].ip]) * perMinute < Token

LEMMA DenialsLate == ASSUME RateInv PROVE DenialEarned
<1> SUFFICES ASSUME NEW c \in Callers, Waiting(c), Deny(c, call[c].ip, call[c].now)
             PROVE  /\ lastAdmit[call[c].ip] # Never
                    /\ (call[c].now - lastAdmit[call[c].ip]) * perMinute < Token
    BY DEF DenialEarned, Waiting
<1> PICK ip, now : ip = call[c].ip /\ now = call[c].now
    OBVIOUS
<1> PICK r : r = Refilled(buckets[ip], now)
    OBVIOUS
<1>1. /\ now \in 0 .. clock /\ clock \in Nat /\ perMinute \in Nat \ {0}
      /\ ip \in DOMAIN buckets /\ r.tokens < Token /\ lastAdmit[ip] \in Int
      BY CallTypes DEF RateInv, TypeOK, Deny
<1>2. /\ r \in [tokens : 0 .. burst * Token, lastRefill : 0 .. clock]
      /\ RefillGood(buckets[ip], now, r)
      /\ buckets[ip] \in [tokens : 0 .. burst * Token, lastRefill : 0 .. clock]
      BY <1>1, RefilledType
<1>3. r.tokens >= (r.lastRefill - lastAdmit[ip]) * perMinute
      BY <1>1, RefillEarned
<1>4. r.lastRefill \in Int /\ r.tokens \in Int /\ now <= r.lastRefill
  <2>1. burst * Token \in Nat
        BY Settings DEF RateInv
  <2> QED BY <1>1, <1>2, <2>1 DEF RefillGood
<1>5. /\ now - lastAdmit[ip] <= r.lastRefill - lastAdmit[ip]
      /\ now - lastAdmit[ip] \in Int /\ r.lastRefill - lastAdmit[ip] \in Int
      BY <1>1, <1>4
<1>6. /\ (now - lastAdmit[ip]) * perMinute <= (r.lastRefill - lastAdmit[ip]) * perMinute
      /\ (now - lastAdmit[ip]) * perMinute \in Int
      /\ (r.lastRefill - lastAdmit[ip]) * perMinute \in Int
      BY <1>1, <1>5, Products
<1>7. (now - lastAdmit[ip]) * perMinute < Token
      BY <1>1, <1>3, <1>4, <1>6, Numbers
<1>8. lastAdmit[ip] # Never
      BY <1>1 DEF RateInv, Earned, Never
<1> QED BY <1>7, <1>8

\* A denied client keeps earning: its last admission is less than the time of
\* one token away (allow, rate_limiter.go:49-61).
THEOREM DenialsAreEarned == Spec => DenialsEarned
<1>1. ASSUME RateInv, [Next]_vars PROVE [DenialEarned]_vars
      BY <1>1, DenialsLate
<1>2. [DenialEarned]_vars
        <=> [\A c \in Callers :
               (call[c] # Idle /\ Deny(c, call[c].ip, call[c].now))
                  => /\ lastAdmit[call[c].ip] # Never
                     /\ (call[c].now - lastAdmit[call[c].ip]) * perMinute < Token]_vars
      BY DEF DenialEarned
<1> QED BY RateInvariant, <1>1, <1>2, PTL DEF Spec, DenialsEarned

-----------------------------------------------------------------------------
(* The bound on what is admitted *)

\* A bucket that may be evicted is full again, whatever the clock readings.
EvictSafe == burst * Token <= (Ttl - MaxDelay + 1) * perMinute

\* Admissions and what is left in the bucket, against what was earned since
\* the window began; an address without a bucket has earned all it was given.
Paid(ip, b) == /\ b.lastRefill < from => admitted[ip] = 0
               /\ b.lastRefill >= from
                    => admitted[ip] * Token + b.tokens
                         <= burst * Token + (b.lastRefill - from) * perMinute

PaidUp(ip) == \/ admitted[ip] = 0
              \/ admitted[ip] * Token <= (clock - MaxDelay - from) * perMinute

WindowInv == /\ EvictSafe
             /\ \A ip \in IPs : IF ip \in DOMAIN buckets THEN Paid(ip, buckets[ip])
                                                         ELSE PaidUp(ip)

LEMMA WindowTypes ==
  ASSUME RateInv
  PROVE  /\ perMinute \in Nat \ {0} /\ Token \in Nat \ {0}
         /\ burst * Token \in Nat /\ burst * Token >= Token
         /\ from \in Nat /\ clock \in Nat /\ MaxDelay \in Nat
         /\ \A ip \in IPs : admitted[ip] \in Nat /\ admitted[ip] * Token \in Nat
         /\ \A a \in Int : a * perMinute \in Int
         /\ \A a \in Int : a >= 0 => a * perMinute >= 0
<1>1. /\ perMinute \in Nat \ {0} /\ Token \in Nat \ {0} /\ MaxDelay \in Nat
      /\ burst * Token \in Nat /\ burst * Token >= Token
      BY Settings, Numbers DEF RateInv
<1>2. from \in Nat /\ clock \in Nat /\ \A ip \in IPs : admitted[ip] \in Nat
      BY Numbers DEF RateInv, TypeOK
<1>3. \A a \in Nat : a * Token \in Nat
      BY <1>1
<1>4. /\ \A a \in Int : a * perMinute \in Int
      /\ \A a \in Int : a >= 0 => a * perMinute >= 0
      BY <1>1
<1> QED BY <1>1, <1>2, <1>3, <1>4

LEMMA WindowInit == ASSUME Init, EvictSafe PROVE WindowInv
<1>1. DOMAIN buckets = {} /\ \A ip \in IPs : admitted[ip] = 0
      BY DEF Init
<1> QED BY <1>1 DEF WindowInv, PaidUp

\* An evicted bucket was idle for so long that all of the burst is earned.
LEMMA WindowEvict == ASSUME RateInv, WindowInv, Evict PROVE WindowInv'
<1> USE EvictFacts
<1>1. EvictSafe'
      BY DEF WindowInv, EvictSafe
<1>2. ASSUME NEW ip \in IPs, ip \in DOMAIN buckets' PROVE Paid(ip, buckets[ip])'
  <2>1. Paid(ip, buckets[ip])
        BY <1>2 DEF WindowInv
  <2> QED BY <1>2, <2>1 DEF Paid
<1>3. ASSUME NEW ip \in IPs, ip \notin DOMAIN buckets' PROVE PaidUp(ip)'
  <2>1. CASE ip \notin DOMAIN buckets
        BY <2>1 DEF WindowInv, PaidUp
  <2>2. CASE ip \in DOMAIN buckets
    <3> DEFINE b == buckets[ip]
    <3>1. b.lastRefill < cutoff
          BY <1>3, <2>2 DEF Stale
    <3>2. /\ cutoff \in Int /\ clock \in Int /\ cutoff + Ttl <= clock
          /\ b.lastRefill \in Int /\ b.tokens \in Int /\ b.tokens >= 0 /\ Ttl \in Int
      <4>1. b \in [tokens : 0 .. burst * Token, lastRefill : 0 .. clock] /\ clock \in Nat
            BY <2>2 DEF RateInv, TypeOK
      <4>2. cutoff \in Int /\ cutoff + Ttl <= clock /\ Ttl \in Int
            BY Numbers DEF RateInv, TypeOK, Timing
      <4> QED BY <4>1, <4>2, WindowTypes
    <3>3. CASE b.lastRefill < from
          BY <2>2, <3>3 DEF WindowInv, Paid, PaidUp
    <3>4. CASE b.lastRefill >= from
      <4>1. admitted[ip] * Token <= burst * Token + (b.lastRefill - from) * perMinute
        <5>1. admitted[ip] * Token + b.tokens <= burst * Token + (b.lastRefill - from) * perMinute
              BY <2>2, <3>4 DEF WindowInv, Paid
        <5>2. (b.lastRefill - from) * perMinute \in Int
              BY <3>2, WindowTypes
        <5> QED BY <3>2, <5>1, <5>2, WindowTypes
      <4>2. burst * Token <= (Ttl - MaxDelay + 1) * perMinute
            BY DEF WindowInv, EvictSafe
      <4> DEFINE x == Ttl - MaxDelay + 1
                 y == b.lastRefill - from
                 z == clock - MaxDelay - from
      <4>3. x \in Int /\ y \in Int /\ z \in Int /\ x + y \in Int /\ x + y <= z
            BY <3>1, <3>2, WindowTypes
      <4>4. admitted[ip] * Token <= x * perMinute + y * perMinute
        <5>1. x * perMinute \in Int /\ y * perMinute \in Int
              BY <4>3, WindowTypes
        <5> QED BY <4>1, <4>2, <5>1, WindowTypes
      <4> HIDE DEF x, y, z
      <4>5. x * perMinute + y * perMinute = (x + y) * perMinute
            /\ (x + y) * perMinute <= z * perMinute
            BY <4>3, WindowTypes, Products
      <4>6. admitted[ip] * Token <= z * perMinute
        <5>1. (x + y) * perMinute \in Int /\ z * perMinute \in Int
              BY <4>3, WindowTypes
        <5> QED BY <4>4, <4>5, <5>1, WindowTypes
      <4> QED BY <4>6 DEF z, PaidUp
    <3> QED BY <3>2, <3>3, <3>4, WindowTypes
  <2> QED BY <2>1, <2>2
<1> QED BY <1>1, <1>2, <1>3 DEF WindowInv

LEMMA WindowTick == ASSUME RateInv, WindowInv, Tick PROVE WindowInv'
<1>1. /\ clock' = clock + 1
      /\ UNCHANGED <<perMinute, burst, buckets, from, admitted>>
      BY DEF Tick, settings, history
<1>2. EvictSafe'
      BY <1>1 DEF WindowInv, EvictSafe
<1>3. ASSUME NEW ip \in IPs, ip \in DOMAIN buckets PROVE Paid(ip, buckets[ip])'
      BY <1>1, <1>3 DEF WindowInv, Paid
<1>4. ASSUME NEW ip \in IPs, ip \notin DOMAIN buckets PROVE PaidUp(ip)'
  <2>1. PaidUp(ip)
        BY <1>4 DEF WindowInv
  <2> DEFINE z == clock - MaxDelay - from
  <2>2. z \in Int /\ z + 1 \in Int /\ z <= z + 1 /\ clock' - MaxDelay - from = z + 1
    <3>1. clock \in Int /\ MaxDelay \in Int /\ from \in Int
          BY WindowTypes
    <3> QED BY <1>1, <3>1
  <2>3. z * perMinute <= (z + 1) * perMinute
        BY <2>2, WindowTypes, Products
  <2>4. z * perMinute \in Int /\ (z + 1) * perMinute \in Int
        BY <2>2, WindowTypes
  <2>5. admitted[ip] = 0 \/ admitted[ip] * Token <= (z + 1) * perMinute
    <3>1. admitted[ip] = 0 \/ admitted[ip] * Token <= z * perMinute
          BY <2>1 DEF PaidUp
    <3> HIDE DEF z
    <3> QED BY <2>3, <2>4, <3>1, WindowTypes
  <2> HIDE DEF z
  <2> QED BY <1>1, <2>2, <2>5 DEF PaidUp
<1> QED BY <1>1, <1>2, <1>3, <1>4 DEF WindowInv

LEMMA WindowStill ==
  ASSUME RateInv, WindowInv,
         UNCHANGED <<clock, perMinute, burst, buckets, from, admitted>>
  PROVE  WindowInv'
BY DEF WindowInv, EvictSafe, Paid, PaidUp

\* What is left to show of a call of allow: the bucket it leaves is paid for.
LEMMA WindowRest ==
  ASSUME RateInv, WindowInv, NEW ip \in IPs, NEW b, buckets' = SetBucket(ip, b),
         UNCHANGED <<clock, perMinute, burst, from>>,
         \A x \in IPs \ {ip} : admitted'[x] = admitted[x],
         Paid(ip, b)'
  PROVE  WindowInv'
<1>1. /\ DOMAIN buckets' = DOMAIN buckets \cup {ip}
      /\ buckets'[ip] = b
      /\ \A x \in DOMAIN buckets \ {ip} : buckets'[x] = buckets[x]
      BY LeavesFacts DEF RateInv
<1>2. EvictSafe'
      BY DEF WindowInv, EvictSafe
<1>3. ASSUME NEW x \in IPs, x \in DOMAIN buckets' PROVE Paid(x, buckets[x])'
  <2>1. CASE x = ip
        BY <1>1, <2>1 DEF Paid
  <2>2. CASE x # ip
        BY <1>1, <1>3, <2>2 DEF WindowInv, Paid
  <2> QED BY <2>1, <2>2
<1>4. ASSUME NEW x \in IPs, x \notin DOMAIN buckets' PROVE PaidUp(x)'
      BY <1>1, <1>4 DEF WindowInv, PaidUp
<1> QED BY <1>2, <1>3, <1>4 DEF WindowInv

\* A refill earns what it adds.
LEMMA RefillPaid ==
  ASSUME RateInv, WindowInv, NEW ip \in IPs, ip \in DOMAIN buckets, NEW now \in 0 .. clock,
         NEW r, r = Refilled(buckets[ip], now)
  PROVE  /\ r.lastRefill \in Int /\ r.tokens \in Int /\ r.tokens <= burst * Token
         /\ r.lastRefill >= now
         /\ r.lastRefill < from => admitted[ip] = 0
         /\ r.lastRefill >= from
              => admitted[ip] * Token + r.tokens
                   <= burst * Token + (r.lastRefill - from) * perMinute
<1> PICK b : b = buckets[ip]
    OBVIOUS
<1>0. from \in Int /\ clock \in Int /\ now \in Int /\ admitted[ip] * Token \in Int
      /\ burst * Token \in Int
      BY WindowTypes
<1>1. /\ b.lastRefill \in Int /\ b.tokens \in Int
      /\ r.lastRefill \in Int /\ r.tokens \in Int /\ r.tokens <= burst * Token
      /\ RefillGood(b, now, r)
  <2>1. /\ r \in [tokens : 0 .. burst * Token, lastRefill : 0 .. clock]
        /\ RefillGood(buckets[ip], now, r)
        /\ buckets[ip] \in [tokens : 0 .. burst * Token, lastRefill : 0 .. clock]
        BY RefilledType
  <2> QED BY <1>0, <2>1
<1>2. r.lastRefill >= b.lastRefill /\ r.lastRefill >= now
      BY <1>0, <1>1 DEF RefillGood
<1>3. Paid(ip, b)
      BY DEF WindowInv
<1>4. r.lastRefill < from => admitted[ip] = 0
      BY <1>0, <1>1, <1>2, <1>3 DEF Paid
<1>5. ASSUME r.lastRefill >= from
      PROVE  admitted[ip] * Token + r.tokens <= burst * Token + (r.lastRefill - from) * perMinute
  <2>0. (r.lastRefill - from) * perMinute \in Int /\ (r.lastRefill - from) * perMinute >= 0
    <3>1. r.lastRefill - from \in Int /\ r.lastRefill - from >= 0
          BY <1>0, <1>1, <1>5
    <3> QED BY <3>1, WindowTypes
  <2>1. CASE b.lastRefill < from
    <3>1. admitted[ip] = 0
          BY <1>3, <2>1 DEF Paid
    <3>2. admitted[ip] * Token = 0
          BY <3>1, WindowTypes
    <3> QED BY <1>0, <1>1, <2>0, <3>2
  <2>2. CASE b.lastRefill >= from
    <3>1. admitted[ip] * Token + b.tokens <= burst * Token + (b.lastRefill - from) * perMinute
          BY <1>3, <2>2 DEF Paid
    <3>2. r.tokens <= b.tokens + (r.lastRefill - b.lastRefill) * perMinute
          BY <1>1 DEF RefillGood
    <3> DEFINE x == r.lastRefill - b.lastRefill
               y == b.lastRefill - from
    <3>3. x \in Int /\ y \in Int /\ x + y = r.lastRefill - from
          BY <1>0, <1>1
    <3>4. (r.lastRefill - from) * perMinute = x * perMinute + y * perMinute
      <4> HIDE DEF x, y
      <4> QED BY <3>3, WindowTypes, Products
    <3>5. x * perMinute \in Int /\ y * perMinute \in Int
      <4> HIDE DEF x, y
      <4> QED BY <3>3, WindowTypes
    <3> QED BY <1>0, <1>1, <3>1, <3>2, <3>4, <3>5
  <2> QED BY <1>0, <1>1, <2>1, <2>2
<1> QED BY <1>1, <1>2, <1>4, <1>5

LEMMA OneMore == ASSUME RateInv, NEW n \in Nat PROVE (n + 1) * Token = n * Token + Token
BY WindowTypes

LEMMA WindowAllow == ASSUME RateInv, WindowInv, NEW c \in Callers, Allow(c) PROVE WindowInv'
<1> PICK ip, now : ip = call[c].ip /\ now = call[c].now
    OBVIOUS
<1>0. /\ TypeOK /\ Waiting(c) /\ ip \in IPs /\ now \in 0 .. clock /\ clock \in Nat
      /\ UNCHANGED <<clock, perMinute, burst>>
      /\ clock - now <= MaxDelay
      BY CallTypes DEF RateInv, TypeOK, Allow, Waiting, Return, settings, Timing
<1>n. /\ from \in Int /\ clock \in Int /\ now \in Int /\ MaxDelay \in Int
      /\ burst * Token \in Int /\ Token \in Int /\ Token > 0
      /\ admitted[ip] \in Nat /\ admitted[ip] * Token \in Int /\ admitted[ip] * Token >= 0
      /\ (admitted[ip] + 1) * Token = admitted[ip] * Token + Token
      BY <1>0, WindowTypes, OneMore
<1>1. CASE AllowFirst(c, ip, now)
  <2> PICK b : b = NewBucket(now)
      OBVIOUS
  <2>1. b.lastRefill = now /\ b.tokens = burst * Token - Token
        BY <1>0, NewBucketFacts
  <2>2. /\ admitted'[ip] = IF now >= from THEN admitted[ip] + 1 ELSE admitted[ip]
        /\ from' = from /\ \A x \in IPs \ {ip} : admitted'[x] = admitted[x]
        BY <1>0, <1>1, AdmitFacts DEF AllowFirst
  <2>3. buckets' = SetBucket(ip, b) /\ PaidUp(ip)
        BY <1>0, <1>1 DEF AllowFirst, WindowInv
  <2> DEFINE w == clock - MaxDelay - from
             v == now - from
  <2>4. w \in Int /\ v \in Int /\ w <= v /\ (v < 0 => w <= -1)
        BY <1>0, <1>n
  <2>5. w * perMinute <= v * perMinute /\ w * perMinute \in Int /\ v * perMinute \in Int
    <3> HIDE DEF w, v
    <3> QED BY <2>4, WindowTypes, Products
  <2>6. now < from => admitted[ip] = 0
    <3>1. CASE now < from /\ admitted[ip] * Token <= w * perMinute
      <4>1. w <= -1
            BY <1>n, <2>4, <3>1
      <4>2. w * perMinute <= -1 * perMinute /\ -1 * perMinute < 0
        <5> HIDE DEF w
        <5> QED BY <2>4, <4>1, WindowTypes, Products
      <4>3. -1 * perMinute \in Int
            BY WindowTypes
      <4> HIDE DEF w
      <4> QED BY <1>n, <2>5, <3>1, <4>2, <4>3
    <3> QED BY <2>3, <3>1 DEF PaidUp
  <2>7. now >= from => admitted[ip] * Token <= v * perMinute
    <3>1. CASE now >= from /\ admitted[ip] = 0
      <4>1. v >= 0
            BY <1>n, <3>1
      <4>2. v * perMinute >= 0
        <5> HIDE DEF v
        <5> QED BY <2>4, <4>1, WindowTypes
      <4>3. admitted[ip] * Token = 0
            BY <3>1, WindowTypes
      <4> QED BY <4>2, <4>3
    <3>2. CASE admitted[ip] * Token <= w * perMinute
      <4> HIDE DEF w, v
      <4> QED BY <1>n, <2>5, <3>2
    <3> QED BY <2>3, <3>1, <3>2 DEF PaidUp
  <2>8. Paid(ip, b)'
    <3>1. CASE now < from
          BY <1>n, <2>1, <2>2, <2>6, <3>1 DEF Paid
    <3>2. CASE now >= from
      <4>1. (admitted[ip] + 1) * Token + (burst * Token - Token)
              <= burst * Token + v * perMinute
        <5> HIDE DEF v
        <5> QED BY <1>n, <2>5, <2>7, <3>2
      <4> QED BY <1>0, <1>n, <2>1, <2>2, <3>2, <4>1 DEF Paid
    <3> QED BY <1>n, <3>1, <3>2
  <2> QED BY <1>0, <2>2, <2>3, <2>8, WindowRest
<1>2. CASE AllowRefilled(c, ip, now)
  <2> PICK r : r = Refilled(buckets[ip], now)
      OBVIOUS
  <2> PICK b : b = Spend(r)
      OBVIOUS
  <2>0. ip \in DOMAIN buckets /\ r.tokens >= Token /\ buckets' = SetBucket(ip, b)
        BY <1>2 DEF AllowRefilled
  <2>a. /\ r.lastRefill \in Int /\ r.lastRefill >= now
        /\ r.lastRefill < from => admitted[ip] = 0
        BY <1>0, <2>0, RefillPaid
  <2>b. from \in Int /\ now \in Int
        BY <1>n
  <2>1. /\ r.lastRefill \in Int /\ r.tokens \in Int /\ r.lastRefill >= now
        /\ r.lastRefill >= from => admitted[ip] * Token + r.tokens
                                     <= burst * Token + (r.lastRefill - from) * perMinute
        BY <1>0, <2>0, RefillPaid
  <2>2. b.lastRefill = r.lastRefill /\ b.tokens = r.tokens - Token
    <3>1. r \in [tokens : 0 .. burst * Token, lastRefill : 0 .. clock]
          BY <1>0, <2>0, RefilledType
    <3> QED BY <1>0, <2>0, <3>1, SpendFacts
  <2>3. /\ admitted'[ip] = IF now >= from THEN admitted[ip] + 1 ELSE admitted[ip]
        /\ from' = from /\ \A x \in IPs \ {ip} : admitted'[x] = admitted[x]
        BY <1>0, <1>2, AdmitFacts DEF AllowRefilled
  <2>4. (r.lastRefill - from) * perMinute \in Int
        BY <1>n, <2>1, WindowTypes
  <2>5. Paid(ip, b)'
    <3>1. CASE r.lastRefill < from
      <4>1. admitted'[ip] = 0 /\ b.lastRefill < from' /\ ~(b.lastRefill >= from')
        <5>1. now < from /\ admitted[ip] = 0
              BY <2>a, <2>b, <3>1
        <5>2. admitted'[ip] = 0
              BY <2>b, <2>3, <5>1
        <5> QED BY <2>a, <2>b, <2>2, <2>3, <3>1, <5>2
      <4> QED BY <4>1 DEF Paid
    <3>2. CASE r.lastRefill >= from
      <4>1. admitted'[ip] * Token + (r.tokens - Token)
              <= burst * Token + (r.lastRefill - from) * perMinute
            BY <1>n, <2>1, <2>3, <2>4, <3>2
      <4>2. admitted'[ip] * Token + b.tokens
              <= burst' * Token + (b.lastRefill - from') * perMinute'
            BY <1>0, <2>2, <2>3, <4>1
      <4>3. ~(b.lastRefill < from')
            BY <1>n, <2>1, <2>2, <2>3, <3>2
      <4> QED BY <4>2, <4>3 DEF Paid
    <3> QED BY <1>n, <2>1, <3>1, <3>2
  <2> QED BY <1>0, <2>0, <2>3, <2>5, WindowRest
<1>3. CASE Deny(c, ip, now)
  <2> PICK r : r = Refilled(buckets[ip], now)
      OBVIOUS
  <2>0. /\ ip \in DOMAIN buckets /\ buckets' = SetBucket(ip, r)
        /\ UNCHANGED <<from, admitted>>
        BY <1>3 DEF Deny, history
  <2>1. /\ r.lastRefill < from => admitted[ip] = 0
        /\ r.lastRefill >= from => admitted[ip] * Token + r.tokens
                                     <= burst * Token + (r.lastRefill - from) * perMinute
        BY <1>0, <2>0, RefillPaid
  <2>2. Paid(ip, r)'
        BY <1>0, <2>0, <2>1 DEF Paid
  <2> QED BY <1>0, <2>0, <2>2, WindowRest
<1> QED BY <1>1, <1>2, <1>3 DEF Allow

\* With every setting's burst earned again before its bucket can be evicted,
\* an address is admitted at most the burst plus what the rate allows, from
\* any moment on, with late and reordered readings, racing handlers and
\* eviction (allow and cleanupLoop, rate_limiter.go:38-77).
THEOREM AdmissionsBounded ==
  ASSUME \A s \in Configs :
           DefaultBurst(s[2], DefaultRate(s[1])) * Token
             <= (Ttl - MaxDelay + 1) * DefaultRate(s[1])
  PROVE  Spec => []WindowBound
<1>1. Init => RateInv /\ WindowInv
  <2> SUFFICES ASSUME Init PROVE RateInv /\ WindowInv
      OBVIOUS
  <2>1. EvictSafe
        BY DEF Init, EvictSafe
  <2> QED BY <2>1, InitInv, WindowInit
<1>2. ASSUME RateInv, WindowInv, [Next]_vars PROVE RateInv' /\ WindowInv'
  <2>1. ASSUME NEW c \in Callers, NEW ip \in IPs, ReadClock(c, ip) PROVE WindowInv'
        BY <1>2, <2>1, WindowStill DEF ReadClock, settings, history
  <2>2. ASSUME ReadCutoff PROVE WindowInv'
        BY <1>2, <2>2, WindowStill DEF ReadCutoff, settings, history
  <2>3. ASSUME UNCHANGED vars PROVE WindowInv'
        BY <1>2, <2>3, WindowStill DEF vars
  <2> QED BY <1>2, <2>1, <2>2, <2>3, NextKeeps, WindowTick, WindowAllow, WindowEvict DEF Next
<1>3. ASSUME RateInv, WindowInv PROVE WindowBound
  <2> SUFFICES ASSUME NEW ip \in IPs, clock >= from
               PROVE  admitted[ip] * Token <= burst * Token + (clock - from) * perMinute
      BY DEF WindowBound
  <2> DEFINE z == clock - from
  <2>0. /\ clock \in Int /\ from \in Int /\ MaxDelay \in Nat /\ z \in Int /\ z >= 0
        /\ burst * Token \in Nat /\ admitted[ip] * Token \in Int
        /\ admitted[ip] = 0 => admitted[ip] * Token = 0
    <3>1. clock \in Int /\ from \in Int /\ MaxDelay \in Nat
          BY <1>3, WindowTypes
    <3>2. z \in Int /\ z >= 0
          BY <3>1
    <3> QED BY <1>3, <3>1, <3>2, WindowTypes
  <2>1. z * perMinute \in Int /\ z * perMinute >= 0
    <3> HIDE DEF z
    <3> QED BY <1>3, <2>0, WindowTypes
  <2>2. \A a \in Int : a <= z => a * perMinute <= z * perMinute
    <3> HIDE DEF z
    <3> QED BY <1>3, <2>0, WindowTypes, Products
  <2>3. \A a \in Int : a * perMinute \in Int
        BY <1>3, WindowTypes
  <2>4. CASE ip \in DOMAIN buckets
    <3>1. /\ buckets[ip].lastRefill \in Int /\ buckets[ip].lastRefill <= clock
          /\ buckets[ip].tokens \in Int /\ buckets[ip].tokens >= 0
      <4>1. buckets[ip] \in [tokens : 0 .. burst * Token, lastRefill : 0 .. clock]
            BY <1>3, <2>4 DEF RateInv, TypeOK
      <4> QED BY <2>0, <4>1
    <3>2. Paid(ip, buckets[ip])
          BY <1>3, <2>4 DEF WindowInv
    <3>3. (buckets[ip].lastRefill - from) * perMinute <= z * perMinute
          /\ (buckets[ip].lastRefill - from) * perMinute \in Int
          BY <2>0, <2>2, <2>3, <3>1
    <3> QED BY <2>0, <2>1, <3>1, <3>2, <3>3 DEF Paid
  <2>5. CASE ip \notin DOMAIN buckets
    <3>1. PaidUp(ip)
          BY <1>3, <2>5 DEF WindowInv
    <3>2. (clock - MaxDelay - from) * perMinute <= z * perMinute
          /\ (clock - MaxDelay - from) * perMinute \in Int
          BY <2>0, <2>2, <2>3
    <3> QED BY <2>0, <2>1, <3>1, <3>2 DEF PaidUp
  <2> QED BY <2>4, <2>5
<1> QED BY <1>1, <1>2, <1>3, PTL DEF Spec
=============================================================================
