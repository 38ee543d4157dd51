-------------------------- MODULE RateLimiterProofs --------------------------
(***************************************************************************)
(* Proofs about RateLimiter for every number of threads and keys, every    *)
(* quota and every length of run: type correctness, the bound on what a    *)
(* key is admitted, and that only an admission costs a token.              *)
(***************************************************************************)
EXTENDS RateLimiter, TLAPS

\* Products of naturals: what the accounting below needs of Rate * time.
LEMMA Distribute ==
  ASSUME NEW a \in Int, NEW b \in Int, NEW r \in Int
  PROVE  /\ r * (a + b) = r * a + r * b
         /\ r * a = a * r
         /\ r * a \in Int
  BY Z3

\* A product with a natural factor grows with the other factor.
LEMMA Monotone ==
  ASSUME NEW a \in Int, NEW b \in Int, NEW r \in Nat, a <= b
  PROVE  r * a <= r * b
<1>1. b - a \in Nat  OBVIOUS
<1>2. r * (b - a) >= 0  BY <1>1, Z3
<1>3. r * b = r * a + r * (b - a)
  BY Distribute, a + (b - a) = b
<1> QED  BY <1>2, <1>3, Distribute, r * (b - a) \in Int

\* The tokens a check of k would find if no time had passed.
Balance(k) == IF bucket[k] = None THEN Capacity ELSE bucket[k].tokens

\* What TypeOK and the two bounds need to be inductive: a bucket's last_refill is
\* the time its tokens are accounted for, that time has passed, and admissions and
\* balance together never exceed the capacity and the refills up to that time.
Accounted ==
    \A k \in Keys :
        /\ synced[k] <= clock
        /\ bucket[k] # None => bucket[k].last_refill = synced[k]
        /\ admitted[k] + Balance(k) <= Capacity + Rate * (synced[k] + rewound[k])
        /\ admitted[k] + Balance(k) >= Capacity

IInv == TypeOK /\ Accounted


-----------------------------------------------------------------------------

\* Refilled stays within 0..Capacity and never takes tokens away.
LEMMA RefilledRange ==
  ASSUME NEW b \in Bucket, NEW at \in Nat
  PROVE  /\ Max0(at - b.last_refill) \in Nat
         /\ Max0(at - b.last_refill) * Rate \in Nat
         /\ Refilled(b, at) \in 0..Capacity
         /\ Refilled(b, at) >= b.tokens
         /\ Refilled(b, at) <= b.tokens + Rate * Max0(at - b.last_refill)
<1>1. b.tokens \in 0..Capacity /\ b.last_refill \in Nat  BY DEF Bucket
<1>2. Max0(at - b.last_refill) \in Nat  BY <1>1 DEF Max0
<1> DEFINE e == Max0(at - b.last_refill)
<1>3. e * Rate \in Nat /\ e * Rate = Rate * e
  <2>1. e * Rate = Rate * e /\ Rate * e \in Int  BY <1>2, Distribute, QuotaAssumption
  <2>2. Rate * 0 <= Rate * e  BY <1>2, Monotone, QuotaAssumption
  <2>3. Rate * 0 = 0  BY QuotaAssumption
  <2> QED  BY <2>1, <2>2, <2>3
<1> HIDE DEF e
<1>4. Refilled(b, at) = IF b.tokens + e * Rate < Capacity THEN b.tokens + e * Rate ELSE Capacity
  BY DEF Refilled, e
<1>5. /\ Refilled(b, at) \in 0..Capacity
      /\ Refilled(b, at) >= b.tokens
      /\ Refilled(b, at) <= b.tokens + Rate * e
  BY <1>1, <1>3, <1>4, QuotaAssumption
<1> QED  BY <1>2, <1>3, <1>5 DEF e

LEMMA InitIInv == Init => IInv
<1> SUFFICES ASSUME Init PROVE IInv  OBVIOUS
<1>1. TypeOK  BY DEF Init, TypeOK, Idle
<1>2. Accounted
  <2>1. Rate * (0 + 0) = 0  BY QuotaAssumption
  <2> QED  BY <2>1, QuotaAssumption DEF Init, Accounted, Balance
<1> QED  BY <1>1, <1>2 DEF IInv

LEMMA ConsumePreserves ==
  ASSUME IInv, NEW t \in Threads, TryConsume(t)
  PROVE  IInv'
<1> DEFINE k == op[t].key
           n == now[t]
           b == Entry(k, n)
           tokens == Refilled(b, n)
           left == IF tokens >= 1 THEN tokens - 1 ELSE tokens
           back == Max0(synced[k] - n)
<1>1. k \in Keys /\ n \in Nat /\ n <= clock /\ clock \in Nat
  BY DEF IInv, TypeOK, TryConsume, Idle
<1>2. b \in Bucket
  BY <1>1, QuotaAssumption DEF IInv, TypeOK, Entry, Bucket
<1>3. /\ Max0(n - b.last_refill) \in Nat
      /\ tokens \in 0..Capacity
      /\ tokens >= b.tokens
      /\ tokens <= b.tokens + Rate * Max0(n - b.last_refill)
  BY <1>1, <1>2, RefilledRange
<1>4. left \in 0..Capacity /\ left = (IF tokens >= 1 THEN tokens - 1 ELSE tokens)
  BY <1>3, QuotaAssumption
<1>5. synced[k] \in Nat /\ rewound[k] \in Nat /\ admitted[k] \in Nat
  BY <1>1 DEF IInv, TypeOK
<1>6. back \in Nat  BY <1>1, <1>5 DEF Max0
<1>7. /\ bucket' = [bucket EXCEPT ![k] = [tokens |-> left, last_refill |-> n]]
      /\ admitted' = [admitted EXCEPT ![k] = IF tokens >= 1 THEN @ + 1 ELSE @]
      /\ rewound' = [rewound EXCEPT ![k] = @ + back]
      /\ synced' = [synced EXCEPT ![k] = n]
      /\ op' = [op EXCEPT ![t] = Idle]
      /\ now' = [now EXCEPT ![t] = 0]
      /\ clock' = clock
  BY DEF TryConsume, LastRefill
<1>8. b.tokens = Balance(k) /\ b.tokens \in 0..Capacity /\ b.last_refill \in Nat
  BY <1>2, <1>1 DEF Balance, Entry, Bucket
<1>9. bucket[k] # None => b.last_refill = synced[k]
  BY <1>1 DEF IInv, Accounted, Entry
<1>10. bucket[k] = None => b.last_refill = n /\ b.tokens = Capacity
  BY DEF Entry
<1>11. /\ admitted[k] + b.tokens <= Capacity + Rate * (synced[k] + rewound[k])
       /\ admitted[k] + b.tokens >= Capacity
  BY <1>1, <1>8 DEF IInv, Accounted
<1> HIDE DEF k, n, b, tokens, left, back
<1>12. TypeOK'
  <2>1. [tokens |-> left, last_refill |-> n] \in Bucket  BY <1>1, <1>4 DEF Bucket
  <2>2. bucket' \in [Keys -> Bucket \cup {None}]  BY <2>1, <1>7 DEF IInv, TypeOK
  <2>3. admitted' \in [Keys -> Nat] /\ rewound' \in [Keys -> Nat] /\ synced' \in [Keys -> Nat]
    BY <1>1, <1>5, <1>6, <1>7 DEF IInv, TypeOK
  <2>4. /\ clock' \in Nat
        /\ op' \in [Threads -> {Idle} \cup [kind : {"check", "prune"}, key : Keys]]
        /\ now' \in [Threads -> Nat]
        /\ \A u \in Threads : now'[u] <= clock'
    BY <1>1, <1>7 DEF IInv, TypeOK
  <2> QED  BY <2>2, <2>3, <2>4 DEF TypeOK
<1>13. Accounted'
  <2> SUFFICES ASSUME NEW j \in Keys
               PROVE  /\ synced'[j] <= clock'
                      /\ bucket'[j] # None => bucket'[j].last_refill = synced'[j]
                      /\ admitted'[j] + Balance(j)' <= Capacity + Rate * (synced'[j] + rewound'[j])
                      /\ admitted'[j] + Balance(j)' >= Capacity
    BY DEF Accounted
  <2>1. CASE j # k
    <3>1. /\ bucket'[j] = bucket[j] /\ synced'[j] = synced[j]
          /\ rewound'[j] = rewound[j] /\ admitted'[j] = admitted[j]
      BY <2>1, <1>7 DEF IInv, TypeOK
    <3>2. Balance(j)' = Balance(j)  BY <3>1 DEF Balance
    <3> QED  BY <3>1, <3>2, <1>7 DEF IInv, Accounted
  <2>2. CASE j = k
    <3>1. /\ bucket'[k] = [tokens |-> left, last_refill |-> n]
          /\ synced'[k] = n
          /\ rewound'[k] = rewound[k] + back
          /\ admitted'[k] = IF tokens >= 1 THEN admitted[k] + 1 ELSE admitted[k]
      BY <1>1, <1>7 DEF IInv, TypeOK
    <3>2. bucket'[k] # None
      <4>1. [tokens |-> left, last_refill |-> n] \in Bucket  BY <1>1, <1>4 DEF Bucket
      <4> QED  BY <4>1, <3>1, NoneAssumption
    <3>3. Balance(j)' = left  BY <3>1, <3>2, <2>2 DEF Balance
    <3>4. admitted'[k] + left = admitted[k] + tokens
      BY <3>1, <1>3, <1>4, <1>5, QuotaAssumption
    <3>5. admitted[k] + tokens >= Capacity
      BY <1>3, <1>5, <1>8, <1>11, QuotaAssumption
    \* time gained by the refill and time lost by a late thread cancel out
    <3>6. tokens <= b.tokens + Rate * (n + back - synced[k])
      <4>1. CASE bucket[k] # None
        <5>1. Max0(n - b.last_refill) = n + back - synced[k]
          BY <4>1, <1>1, <1>5, <1>9 DEF Max0, back
        <5> QED  BY <5>1, <1>3
      <4>2. CASE bucket[k] = None
        <5>1. n + back - synced[k] \in Nat  BY <1>1, <1>5 DEF back, Max0
        <5>2. Rate * 0 <= Rate * (n + back - synced[k])
          BY <5>1, Monotone, QuotaAssumption
        <5>3. Rate * 0 = 0 /\ Rate * (n + back - synced[k]) \in Int
          BY <5>1, QuotaAssumption, Distribute
        <5> QED  BY <5>2, <5>3, <1>3, <1>8, <1>10, <4>2, QuotaAssumption
      <4> QED  BY <4>1, <4>2
    <3>7. Rate * (n + (rewound[k] + back))
             = Rate * (synced[k] + rewound[k]) + Rate * (n + back - synced[k])
      <4>1. synced[k] + rewound[k] \in Int /\ n + back - synced[k] \in Int
        BY <1>1, <1>5, <1>6
      <4>2. (synced[k] + rewound[k]) + (n + back - synced[k]) = n + (rewound[k] + back)
        BY <1>1, <1>5, <1>6
      <4> QED  BY <4>1, <4>2, Distribute, QuotaAssumption
    <3>8. /\ Rate * (synced[k] + rewound[k]) \in Int
          /\ Rate * (n + back - synced[k]) \in Int
          /\ Rate * (n + (rewound[k] + back)) \in Int
      BY <1>1, <1>5, <1>6, Distribute, QuotaAssumption
    <3>9. admitted[k] + tokens <= Capacity + Rate * (n + (rewound[k] + back))
      BY <3>6, <3>7, <3>8, <1>3, <1>5, <1>8, <1>11, QuotaAssumption
    <3> QED  BY <3>1, <3>3, <3>4, <3>5, <3>9, <1>1, <1>7, <2>2
  <2> QED  BY <2>1, <2>2
<1> QED  BY <1>12, <1>13 DEF IInv

LEMMA PrunePreserves ==
  ASSUME IInv, NEW t \in Threads, Prune(t)
  PROVE  IInv'
<1> DEFINE k == op[t].key
           n == now[t]
           ahead == Max0(n - synced[k])
<1>1. k \in Keys /\ n \in Nat /\ n <= clock /\ clock \in Nat
  BY DEF IInv, TypeOK, Prune, Idle
<1>2. synced[k] \in Nat /\ rewound[k] \in Nat /\ admitted[k] \in Nat /\ synced[k] <= clock
  BY <1>1 DEF IInv, TypeOK, Accounted
<1>3. ahead \in Nat /\ synced[k] + ahead <= clock  BY <1>1, <1>2 DEF Max0
<1>4. /\ op' = [op EXCEPT ![t] = Idle]
      /\ now' = [now EXCEPT ![t] = 0]
      /\ clock' = clock /\ admitted' = admitted /\ rewound' = rewound
  BY DEF Prune
<1>5. \/ UNCHANGED <<bucket, synced>>
      \/ /\ bucket[k] # None /\ Full(bucket[k], n)
         /\ bucket' = [bucket EXCEPT ![k] = None]
         /\ synced' = [synced EXCEPT ![k] = @ + ahead]
  BY DEF Prune
<1>6. bucket[k] # None =>
        /\ bucket[k] \in Bucket
        /\ bucket[k].last_refill = synced[k]
        /\ Balance(k) = bucket[k].tokens
  BY <1>1 DEF IInv, TypeOK, Accounted, Balance
<1>7. admitted[k] + Balance(k) <= Capacity + Rate * (synced[k] + rewound[k])
  BY <1>1 DEF IInv, Accounted
<1>8. bucket[k] # None /\ Full(bucket[k], n) => bucket[k].tokens + Rate * ahead >= Capacity
  BY <1>3, <1>6, Distribute, QuotaAssumption DEF Full, ahead
<1> HIDE DEF k, n, ahead
<1>9. TypeOK'
  <2>1. bucket' \in [Keys -> Bucket \cup {None}] /\ synced' \in [Keys -> Nat]
    BY <1>1, <1>2, <1>3, <1>5 DEF IInv, TypeOK
  <2>2. /\ clock' \in Nat
        /\ op' \in [Threads -> {Idle} \cup [kind : {"check", "prune"}, key : Keys]]
        /\ now' \in [Threads -> Nat]
        /\ admitted' \in [Keys -> Nat] /\ rewound' \in [Keys -> Nat]
        /\ \A u \in Threads : now'[u] <= clock'
    BY <1>1, <1>4 DEF IInv, TypeOK
  <2> QED  BY <2>1, <2>2 DEF TypeOK
<1>10. Accounted'
  <2> SUFFICES ASSUME NEW j \in Keys
               PROVE  /\ synced'[j] <= clock'
                      /\ bucket'[j] # None => bucket'[j].last_refill = synced'[j]
                      /\ admitted'[j] + Balance(j)' <= Capacity + Rate * (synced'[j] + rewound'[j])
                      /\ admitted'[j] + Balance(j)' >= Capacity
    BY DEF Accounted
  <2>1. CASE bucket'[j] = bucket[j] /\ synced'[j] = synced[j]
    <3>1. Balance(j)' = Balance(j)  BY <2>1 DEF Balance
    <3> QED  BY <3>1, <2>1, <1>4 DEF IInv, Accounted
  <2>2. CASE /\ j = k /\ bucket[k] # None /\ Full(bucket[k], n)
             /\ bucket' = [bucket EXCEPT ![k] = None]
             /\ synced' = [synced EXCEPT ![k] = @ + ahead]
    <3>1. bucket'[j] = None /\ synced'[j] = synced[k] + ahead /\ rewound'[j] = rewound[k]
          /\ admitted'[j] = admitted[k]
      BY <2>2, <1>1, <1>4 DEF IInv, TypeOK
    <3>2. Balance(j)' = Capacity  BY <3>1 DEF Balance
    <3>3. Rate * (synced[k] + ahead + rewound[k])
            = Rate * (synced[k] + rewound[k]) + Rate * ahead
      <4>1. (synced[k] + rewound[k]) + ahead = synced[k] + ahead + rewound[k]
        BY <1>2, <1>3
      <4>2. synced[k] + rewound[k] \in Int  BY <1>2
      <4> QED  BY <4>1, <4>2, <1>3, Distribute, QuotaAssumption
    <3>4. Rate * (synced[k] + rewound[k]) \in Int /\ Rate * ahead \in Int
      BY <1>2, <1>3, Distribute, QuotaAssumption
    <3>5. bucket[k].tokens \in Int  BY <2>2, <1>6 DEF Bucket
    <3>6. admitted[k] + Capacity <= Capacity + Rate * (synced[k] + ahead + rewound[k])
      BY <3>3, <3>4, <3>5, <2>2, <1>2, <1>6, <1>7, <1>8, QuotaAssumption
    <3> QED  BY <3>1, <3>2, <3>6, <1>2, <1>3, <1>4, QuotaAssumption
  <2> QED  BY <2>1, <2>2, <1>5 DEF IInv, TypeOK
<1> QED  BY <1>9, <1>10 DEF IInv

LEMMA NextPreserves == IInv /\ [Next]_vars => IInv'
<1> SUFFICES ASSUME IInv, [Next]_vars PROVE IInv'  OBVIOUS
<1>1. CASE Tick
  <2>1. clock' = clock + 1 /\ clock \in Nat
        /\ UNCHANGED <<op, now, bucket, admitted, synced, rewound>>
    BY <1>1 DEF Tick, IInv, TypeOK
  <2>2. TypeOK'  BY <2>1 DEF IInv, TypeOK
  <2>3. \A k \in Keys : Balance(k)' = Balance(k)  BY <2>1 DEF Balance
  <2>4. Accounted'  BY <2>1, <2>3 DEF IInv, TypeOK, Accounted
  <2> QED  BY <2>2, <2>4 DEF IInv
<1>2. ASSUME NEW t \in Threads, ReadClock(t) PROVE IInv'
  <2>1. UNCHANGED <<clock, bucket, admitted, synced, rewound>>  BY <1>2 DEF ReadClock
  <2>2. TypeOK'  BY <1>2, <2>1 DEF ReadClock, IInv, TypeOK
  <2>3. \A k \in Keys : Balance(k)' = Balance(k)  BY <2>1 DEF Balance
  <2>4. Accounted'  BY <2>1, <2>3 DEF IInv, Accounted
  <2> QED  BY <2>2, <2>4 DEF IInv
<1>3. ASSUME NEW t \in Threads, TryConsume(t) PROVE IInv'  BY <1>3, ConsumePreserves
<1>4. ASSUME NEW t \in Threads, Prune(t) PROVE IInv'  BY <1>4, PrunePreserves
<1>5. CASE UNCHANGED vars
  <2>1. \A k \in Keys : Balance(k)' = Balance(k)  BY <1>5 DEF vars, Balance
  <2> QED  BY <1>5, <2>1 DEF vars, IInv, TypeOK, Accounted
<1> QED  BY <1>1, <1>2, <1>3, <1>4, <1>5 DEF Next

\* The accounting holds in every reachable state.
THEOREM AccountsKept == Spec => []IInv
BY InitIInv, NextPreserves, PTL DEF Spec

\* No bucket leaves 0..Capacity and no clock reading lies ahead of the clock.
THEOREM TypeCorrect == Spec => []TypeOK
<1>1. IInv => TypeOK  BY DEF IInv
<1> QED  BY <1>1, AccountsKept, PTL

\* What a key is admitted is bounded by its capacity, the time that passed and the
\* time late threads moved last_refill back (try_consume and prune, lib.rs:103-130).
THEOREM AdmissionCorrect == Spec => []AdmissionIsBounded
<1>1. IInv => AdmissionIsBounded
  <2> SUFFICES ASSUME IInv, NEW k \in Keys
               PROVE  admitted[k] <= Capacity + Rate * (clock + rewound[k])
    BY DEF AdmissionIsBounded
  <2>1. /\ admitted[k] + Balance(k) <= Capacity + Rate * (synced[k] + rewound[k])
        /\ synced[k] <= clock
    BY DEF IInv, Accounted
  <2>2. /\ admitted[k] \in Nat /\ synced[k] \in Nat /\ rewound[k] \in Nat /\ clock \in Nat
        /\ Balance(k) \in Nat
    BY QuotaAssumption DEF IInv, TypeOK, Balance, Bucket
  <2>3. Rate * (synced[k] + rewound[k]) <= Rate * (clock + rewound[k])
    <3>1. synced[k] + rewound[k] \in Int /\ clock + rewound[k] \in Int
          /\ synced[k] + rewound[k] <= clock + rewound[k]
      BY <2>1, <2>2
    <3> QED  BY <3>1, Monotone, QuotaAssumption
  <2>4. Rate * (synced[k] + rewound[k]) \in Int /\ Rate * (clock + rewound[k]) \in Int
    BY <2>2, Distribute, QuotaAssumption
  <2> QED  BY <2>1, <2>2, <2>3, <2>4, QuotaAssumption
<1> QED  BY <1>1, AccountsKept, PTL

\* Only an admission costs a token: the first Capacity checks of a key succeed.
THEOREM RefusalsCorrect == Spec => []RefusalsCostNothing
<1>1. IInv => RefusalsCostNothing
  <2> SUFFICES ASSUME IInv, NEW k \in Keys, bucket[k] # None
               PROVE  bucket[k].tokens + admitted[k] >= Capacity
    BY DEF RefusalsCostNothing
  <2>1. admitted[k] + bucket[k].tokens >= Capacity  BY DEF IInv, Accounted, Balance
  <2>2. admitted[k] \in Nat /\ bucket[k].tokens \in Nat  BY DEF IInv, TypeOK, Bucket
  <2> QED  BY <2>1, <2>2, QuotaAssumption
<1> QED  BY <1>1, AccountsKept, PTL

=============================================================================
