---------------------------- MODULE RateLimiter ----------------------------
(***************************************************************************)
(* rate_limiter.go: one token bucket per client address, refilled by the   *)
(* time that passed, and a background loop that evicts idle buckets.       *)
(*                                                                         *)
(* Both allow and the cleanup loop read the clock BEFORE they take the     *)
(* mutex, so a reading can be old when it is used and readings can be used *)
(* out of order; each is two steps here.  Time is counted in ticks, Minute *)
(* of them to a minute, and tokens in Minute-ths, so that a tick refills   *)
(* exactly perMinute units (the float64 arithmetic of the code is exact    *)
(* here).                                                                  *)
(***************************************************************************)
EXTENDS Integers

CONSTANTS Callers,        \* handler goroutines that may be in allow together
          IPs,            \* client addresses
          Configs,        \* candidate <<rate per minute, burst>> settings
          Minute,         \* ticks in a minute
          MaxDelay,       \* ticks a clock reading may wait for the mutex
          MaxClock,       \* bound on time
          Windows         \* moments from which admissions are counted

Ttl == 10 * Minute
CleanupPeriod == 5 * Minute
Token == Minute

ASSUME RateAssumption == /\ Configs \subseteq Int \X Int
                         /\ Minute \in Nat \ {0}
                         /\ MaxDelay \in Nat
                         /\ 2 * MaxDelay < CleanupPeriod
                         /\ MaxClock \in Nat
                         /\ Windows \subseteq Nat

VARIABLES clock,
          perMinute,      \* settings, fixed by newIPLimiter
          burst,
          buckets,        \* Go map from address to [tokens, lastRefill]
          call,           \* per caller: "idle", or the address and clock reading it holds
          due,            \* when the ticker fires next
          cutoff          \* the cleanup loop's reading, or NoCutoff

\* History variables, read by the properties only.
VARIABLES from,           \* where the observed window of time begins
          admitted,       \* per address: requests admitted with a reading in the window
          lastAdmit       \* per address: greatest reading of an admitted request

settings == <<perMinute, burst>>
history == <<from, admitted, lastAdmit>>
vars == <<clock, perMinute, burst, buckets, call, due, cutoff, from, admitted, lastAdmit>>

Never == -1
NoCutoff == -Ttl - 1
Idle == [at |-> "idle"]
Least(a, b) == IF a < b THEN a ELSE b

-----------------------------------------------------------------------------
DefaultRate(n) == IF n <= 0 THEN 30 ELSE n
DefaultBurst(n, rate) == IF n <= 0 THEN rate ELSE n

Init == /\ clock = 0
        /\ \E s \in Configs : /\ perMinute = DefaultRate(s[1])
                              /\ burst = DefaultBurst(s[2], DefaultRate(s[1]))
        /\ buckets = << >>
        /\ call = [c \in Callers |-> Idle]
        /\ due = CleanupPeriod
        /\ cutoff = NoCutoff
        /\ from \in Windows
        /\ admitted = [ip \in IPs |-> 0]
        /\ lastAdmit = [ip \in IPs |-> Never]

\* Time passes, but no clock reading waits longer than MaxDelay to be used,
\* and the cleanup loop answers its ticker within MaxDelay.
Tick == /\ clock < MaxClock
        /\ \A c \in Callers : call[c] # Idle => clock - call[c].now < MaxDelay
        /\ clock - due < MaxDelay
        /\ cutoff # NoCutoff => clock - (cutoff + Ttl) < MaxDelay
        /\ clock' = clock + 1
        /\ UNCHANGED <<settings, buckets, call, due, cutoff, history>>

ReadClock(c, ip) == /\ call[c] = Idle
                    /\ call' = [call EXCEPT ![c] = [at |-> "waiting", ip |-> ip, now |-> clock]]
                    /\ UNCHANGED <<clock, settings, buckets, due, cutoff, history>>

\* The bucket a first request of an address leaves behind.
NewBucket(now) == [tokens |-> (burst - 1) * Token, lastRefill |-> now]

\* Mutants of Refilled: no cap at the burst; the time of the refill is not
\* kept; only whole tokens are kept although the time is.
Refilled_NoCap(b, now) ==
  IF now > b.lastRefill
    THEN [tokens |-> b.tokens + (now - b.lastRefill) * perMinute, lastRefill |-> now]
    ELSE b

Refilled_TimeLost(b, now) ==
  IF now > b.lastRefill
    THEN [b EXCEPT !.tokens = Least(@ + (now - b.lastRefill) * perMinute, burst * Token)]
    ELSE b

Refilled_WholeTokens(b, now) ==
  IF now > b.lastRefill
    THEN [tokens |-> Least(b.tokens + Token * (((now - b.lastRefill) * perMinute) \div Token),
                           burst * Token),
          lastRefill |-> now]
    ELSE b

Refilled(b, now) ==
  LET elapsed == now - b.lastRefill
  IN  IF elapsed > 0
        THEN [tokens |-> Least(b.tokens + elapsed * perMinute, burst * Token),
              lastRefill |-> now]
        ELSE b

Spend(b) == [b EXCEPT !.tokens = @ - Token]

SetBucket(ip, b) == [x \in DOMAIN buckets \cup {ip} |-> IF x = ip THEN b ELSE buckets[x]]

Admit(ip, now) == /\ admitted' = [admitted EXCEPT ![ip] = IF now >= from THEN @ + 1 ELSE @]
                  /\ lastAdmit' = [lastAdmit EXCEPT ![ip] = IF now > @ THEN now ELSE @]
                  /\ UNCHANGED from

Return(c) == /\ call' = [call EXCEPT ![c] = Idle]
             /\ UNCHANGED <<clock, settings, due, cutoff>>

AllowFirst(c, ip, now) == /\ ip \notin DOMAIN buckets
                          /\ buckets' = SetBucket(ip, NewBucket(now))
                          /\ Admit(ip, now)

AllowRefilled(c, ip, now) == /\ ip \in DOMAIN buckets
                             /\ LET b == Refilled(buckets[ip], now)
                                IN  /\ b.tokens >= Token
                                    /\ buckets' = SetBucket(ip, Spend(b))
                             /\ Admit(ip, now)

Deny(c, ip, now) == /\ ip \in DOMAIN buckets
                    /\ LET b == Refilled(buckets[ip], now)
                       IN  /\ b.tokens < Token
                           /\ buckets' = SetBucket(ip, b)
                    /\ UNCHANGED history

\* The body of allow under the mutex, with the reading taken before it.
Allow(c) == /\ call[c] # Idle
            /\ \/ AllowFirst(c, call[c].ip, call[c].now)
               \/ AllowRefilled(c, call[c].ip, call[c].now)
               \/ Deny(c, call[c].ip, call[c].now)
            /\ Return(c)

ReadCutoff == /\ cutoff = NoCutoff
              /\ clock >= due
              /\ cutoff' = clock - Ttl
              /\ due' = due + CleanupPeriod
              /\ UNCHANGED <<clock, settings, buckets, call, history>>

\* Mutant of Stale: waits for a full bucket, but an idle bucket is not refilled.
Stale_OnceFull(b) == b.lastRefill < cutoff /\ b.tokens = burst * Token

Stale(b) == b.lastRefill < cutoff

Evict == /\ cutoff # NoCutoff
         /\ buckets' = [ip \in {i \in DOMAIN buckets : ~Stale(buckets[i])} |-> buckets[ip]]
         /\ cutoff' = NoCutoff
         /\ UNCHANGED <<clock, settings, call, due, history>>

Next == \/ Tick
        \/ \E c \in Callers : (\E ip \in IPs : ReadClock(c, ip)) \/ Allow(c)
        \/ ReadCutoff
        \/ Evict

Spec == Init /\ [][Next]_vars

-----------------------------------------------------------------------------
(* Properties *)

\* Types, and a bucket never holds more than the burst nor a negative balance.
TypeOK == /\ clock \in 0 .. MaxClock
          /\ perMinute \in Nat \ {0}
          /\ burst \in Nat \ {0}
          /\ DOMAIN buckets \subseteq IPs
          /\ \A ip \in DOMAIN buckets :
               buckets[ip] \in [tokens : 0 .. burst * Token, lastRefill : 0 .. clock]
          /\ call \in [Callers -> {Idle} \cup [at : {"waiting"}, ip : IPs, now : 0 .. clock]]
          /\ due \in Nat
          /\ cutoff = NoCutoff \/ cutoff \in -Ttl .. clock
          /\ from \in Windows
          /\ admitted \in [IPs -> Nat]
          /\ lastAdmit \in [IPs -> -1 .. clock]

\* What the limiter is for (README.md:55 "Max average requests per minute per
\* IP"): from any moment on, an address is admitted at most the burst plus
\* what the rate allows for the time passed.  Late and reordered clock
\* readings, racing handlers and the eviction of idle buckets must not add to
\* it (allow and cleanupLoop, rate_limiter.go:38-77).
WindowBound == \A ip \in IPs :
  clock >= from => admitted[ip] * Token <= burst * Token + (clock - from) * perMinute

\* A denied request is one that followed an admitted one by less than the
\* time of one token: a client that keeps being denied still earns its token,
\* because every refill of a denied call is kept (rate_limiter.go:49-61).
DenialsEarned ==
  [][\A c \in Callers :
       (call[c] # Idle /\ Deny(c, call[c].ip, call[c].now))
          => /\ lastAdmit[call[c].ip] # Never
             /\ (call[c].now - lastAdmit[call[c].ip]) * perMinute < Token]_vars

\* No bucket outlives its address's last use by more than the eviction age,
\* one period of the ticker and the waits for the mutex: the map does not
\* grow with the clients seen since the start (rate_limiter.go:65-77).
IdleBucketsGo == \A ip \in DOMAIN buckets :
  clock - buckets[ip].lastRefill <= Ttl + CleanupPeriod + 2 * MaxDelay
=============================================================================
