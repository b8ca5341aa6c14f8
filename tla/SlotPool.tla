------------------------------ MODULE SlotPool ------------------------------
(***************************************************************************)
(* What a caller of the concurrency limiter may rely on, stated without    *)
(* any counter: a call either receives a slot, charged to one key, or is   *)
(* turned away, and it is turned away only while the slots really held at  *)
(* that moment have reached a configured limit.  A limit of 0 is no limit. *)
(***************************************************************************)
EXTENDS Integers, FiniteSets

CONSTANTS Calls,        \* every call ever made to the pool
          Keys          \* what slots are charged to

VARIABLES maxTotal,     \* slots that may be held at once; 0: any number
          maxPerIP,     \* slots one key may hold at once; 0: any number
          slot,         \* how far each call has come
          key           \* the key a call was charged to, meaningful from Acquire on

vars == <<maxTotal, maxPerIP, slot, key>>

Refused == {"refusedTotal", "refusedPerIP"}

Holders == {c \in Calls : slot[c] = "held"}
HoldersOf(k) == {c \in Holders : key[c] = k}

AtTotalLimit == maxTotal > 0 /\ Cardinality(Holders) >= maxTotal
AtKeyLimit(k) == maxPerIP > 0 /\ Cardinality(HoldersOf(k)) >= maxPerIP

Init == /\ maxTotal \in Nat
        /\ maxPerIP \in Nat
        /\ slot = [c \in Calls |-> "none"]

\* A slot is granted exactly while neither limit is reached.
Acquire(c, k) == /\ slot[c] = "none"
                 /\ ~AtTotalLimit
                 /\ ~AtKeyLimit(k)
                 /\ slot' = [slot EXCEPT ![c] = "held"]
                 /\ key' = [key EXCEPT ![c] = k]
                 /\ UNCHANGED <<maxTotal, maxPerIP>>

\* The total is examined before the key's own count.
Refuse(c, k) == /\ slot[c] = "none"
                /\ \/ /\ AtTotalLimit
                      /\ slot' = [slot EXCEPT ![c] = "refusedTotal"]
                   \/ /\ ~AtTotalLimit
                      /\ AtKeyLimit(k)
                      /\ slot' = [slot EXCEPT ![c] = "refusedPerIP"]
                /\ key' = [key EXCEPT ![c] = k]
                /\ UNCHANGED <<maxTotal, maxPerIP>>

\* Giving back is final: a slot given back never counts again.
GiveBack(c) == /\ slot[c] = "held"
               /\ slot' = [slot EXCEPT ![c] = "released"]
               /\ UNCHANGED <<maxTotal, maxPerIP, key>>

Next == \E c \in Calls : \/ \E k \in Keys : Acquire(c, k) \/ Refuse(c, k)
                         \/ GiveBack(c)

Spec == Init /\ [][Next]_vars
=============================================================================
