------------------------- MODULE ConcurrencyLimiter -------------------------
(***************************************************************************)
(* concurrency_limiter.go: the counters that bound how many compilations   *)
(* run at once, in total and per client address.  Each element of Calls is *)
(* one call of tryAcquire together with the release closure it returns;    *)
(* both bodies run under the limiter's mutex, so each is one step.         *)
(***************************************************************************)
EXTENDS Integers, FiniteSets

CONSTANTS Calls,          \* the calls of tryAcquire
          IPs,            \* client addresses
          NoIP,           \* the empty address
          Unknown,        \* the name the limiter gives the empty address
          MaxTotals,      \* candidates for MAX_CONCURRENT_COMPILATIONS
          MaxPerIPs       \* candidates for MAX_CONCURRENT_COMPILATIONS_PER_IP

ASSUME LimiterAssumption == /\ NoIP \notin IPs
                            /\ MaxTotals \subseteq Int
                            /\ MaxPerIPs \subseteq Int

VARIABLES maxTotal,       \* limits, set once by newConcurrencyLimiter
          maxPerIP,
          total,          \* the counter of all slots
          perIP,          \* Go map from address to its slots; absent means 0
          slot,           \* per call: what tryAcquire answered, and whether it was released
          key             \* per call: the address captured by its release closure

limits == <<maxTotal, maxPerIP>>
counters == <<total, perIP>>
vars == <<maxTotal, maxPerIP, total, perIP, slot, key>>

Keys == IPs \cup {Unknown}
SlotStates == {"none", "held", "released", "refusedTotal", "refusedPerIP"}

-----------------------------------------------------------------------------
(* Go map operations *)

Lookup(m, k) == IF k \in DOMAIN m THEN m[k] ELSE 0

Put(m, k, n) == [x \in DOMAIN m \cup {k} |-> IF x = k THEN n ELSE m[x]]

Without(m, k) == [x \in DOMAIN m \ {k} |-> m[x]]

-----------------------------------------------------------------------------
Key(ip) == IF ip = NoIP THEN Unknown ELSE ip

NonNegative(n) == IF n < 0 THEN 0 ELSE n

Init == /\ maxTotal \in {NonNegative(n) : n \in MaxTotals}
        /\ maxPerIP \in {NonNegative(n) : n \in MaxPerIPs}
        /\ total = 0
        /\ perIP = << >>
        /\ slot = [c \in Calls |-> "none"]
        /\ key = [c \in Calls |-> NoIP]

\* Mutant of TotalFull: off by one.
TotalFull_OffByOne == maxTotal > 0 /\ total > maxTotal

TotalFull == maxTotal > 0 /\ total >= maxTotal

\* Mutant of IPFull: 0 is taken for a limit of no slots at all.
IPFull_ZeroLimits(k) == Lookup(perIP, k) >= maxPerIP

IPFull(k) == maxPerIP > 0 /\ Lookup(perIP, k) >= maxPerIP

Answer(c, k, answer) == /\ slot[c] = "none"
                        /\ slot' = [slot EXCEPT ![c] = answer]
                        /\ key' = [key EXCEPT ![c] = k]
                        /\ UNCHANGED limits

Grant(c, k) == /\ ~TotalFull
               /\ ~IPFull(k)
               /\ Answer(c, k, "held")
               /\ total' = total + 1
               /\ perIP' = IF maxPerIP > 0
                             THEN Put(perIP, k, Lookup(perIP, k) + 1)
                             ELSE perIP

RefuseTotal(c, k) == /\ TotalFull
                     /\ Answer(c, k, "refusedTotal")
                     /\ UNCHANGED counters

RefusePerIP(c, k) == /\ ~TotalFull
                     /\ IPFull(k)
                     /\ Answer(c, k, "refusedPerIP")
                     /\ UNCHANGED counters

TryAcquire(c, ip) == \/ Grant(c, Key(ip))
                     \/ RefuseTotal(c, Key(ip))
                     \/ RefusePerIP(c, Key(ip))

\* Mutant of PerIPAfterRelease: an address with no slot left keeps its entry.
PerIPAfterRelease_KeepsZero(k) ==
  IF maxPerIP <= 0 THEN perIP ELSE Put(perIP, k, Lookup(perIP, k) - 1)

PerIPAfterRelease(k) ==
  LET current == Lookup(perIP, k) - 1
  IN  IF maxPerIP <= 0 THEN perIP
      ELSE IF current <= 0 THEN Without(perIP, k)
      ELSE Put(perIP, k, current)

\* Mutant of Release: no released flag, every call gives a slot back.
Release_EveryCall(c) == /\ slot[c] \in {"held", "released"}
                        /\ slot' = [slot EXCEPT ![c] = "released"]
                        /\ total' = IF total > 0 THEN total - 1 ELSE 0
                        /\ perIP' = PerIPAfterRelease(key[c])
                        /\ UNCHANGED <<maxTotal, maxPerIP, key>>

\* The release closure.  It exists only for a granted call, and from its
\* second use on it returns early.
Release(c) == \/ /\ slot[c] = "held"
                 /\ slot' = [slot EXCEPT ![c] = "released"]
                 /\ total' = IF total > 0 THEN total - 1 ELSE 0
                 /\ perIP' = PerIPAfterRelease(key[c])
                 /\ UNCHANGED <<maxTotal, maxPerIP, key>>
              \/ /\ slot[c] = "released"
                 /\ UNCHANGED vars

Next == \E c \in Calls : \/ \E ip \in IPs \cup {NoIP} : TryAcquire(c, ip)
                         \/ Release(c)

Spec == Init /\ [][Next]_vars

-----------------------------------------------------------------------------
(* Properties *)

Holders == {c \in Calls : slot[c] = "held"}
HoldersOf(k) == {c \in Holders : key[c] = k}

\* Every variable stays in its type; the map never stores a zero.
TypeOK == /\ maxTotal \in Nat
          /\ maxPerIP \in Nat
          /\ total \in Nat
          /\ DOMAIN perIP \subseteq Keys
          /\ \A k \in DOMAIN perIP : perIP[k] \in Nat \ {0}
          /\ slot \in [Calls -> SlotStates]
          /\ key \in [Calls -> Keys \cup {NoIP}]

\* The counters agree with the closures that are still to be released, over
\* any order of grants, refusals and repeated releases: a drift either locks
\* clients out for good or lifts the limit.  In particular the per-address
\* map holds no entry for an address without a running compilation, so it
\* does not grow with the number of clients seen (tryAcquire and release,
\* concurrency_limiter.go:54-81).
Accounting ==
  /\ total = Cardinality(Holders)
  /\ maxPerIP > 0 =>
       /\ DOMAIN perIP = {key[c] : c \in Holders}
       /\ \A k \in DOMAIN perIP : perIP[k] = Cardinality(HoldersOf(k))
  /\ maxPerIP = 0 => DOMAIN perIP = {}

\* The configured limits bound the slots that are really held, in total and
\* for each address, the unnamed one included; 0 or less configured is no
\* limit (concurrency_limiter.go:31 "max values <= 0 mean unlimited").
Limits == /\ maxTotal > 0 => Cardinality(Holders) <= maxTotal
          /\ maxPerIP > 0 => \A k \in Keys : Cardinality(HoldersOf(k)) <= maxPerIP

\* The counters implement the pool that has none: in particular a call is
\* refused only when a limit is reached by slots really held, and the reason
\* given is the right one.
Pool == INSTANCE SlotPool
PoolSpec == Pool!Spec
=============================================================================
