--------------------------- MODULE AccountsProofs ---------------------------
(***************************************************************************)
(* For any requests, keys, limits, windows and skew, the limiter admits    *)
(* and rejects within its window, although requests come to its lock in    *)
(* another order than that of their times.  For any requests and forms:    *)
(* the forms use it so, accounts share no e-mail and no slug, and whoever  *)
(* holds a session has a workspace.                                        *)
(***************************************************************************)
EXTENDS Accounts, FiniteSetTheorems, SequenceTheorems, TLAPS

(* The limiter.                                                            *)
LimiterTyped ==
  /\ clock \in Nat /\ stamp \in [Requests -> Nat]
  /\ key \in [Requests -> Keys \cup {NoKey}] /\ verdict \in [Requests -> Verdicts]
  /\ \A r \in Requests : verdict[r] = "waiting" => key[r] \in Keys
  /\ bucket \in [Keys -> Seq(Requests)]

(* No time is in the future, and no request waits for long.                *)
Clocked == \A r \in Requests :
  stamp[r] <= clock /\ (verdict[r] = "waiting" => clock <= stamp[r] + MaxSkew)

(* Whom the limiter forgot is out of every window that will be asked for.  *)
In(k, r) == \E i \in 1..Len(bucket[k]) : bucket[k][i] = r
Remembered == \A k \in Keys : \A r \in Admitted(k) : In(k, r) \/ stamp[r] <= clock - Window[k]

(* A bucket holds requests that were admitted, each once, and in order but *)
(* for the skew.                                                           *)
Buckets == \A k \in Keys : \A i \in 1..Len(bucket[k]) :
  /\ bucket[k][i] \in Admitted(k)
  /\ \A j \in 1..Len(bucket[k]) : i < j =>
       bucket[k][i] # bucket[k][j] /\ stamp[bucket[k][i]] - MaxSkew <= stamp[bucket[k][j]]

LimiterInv == LimiterTyped /\ Clocked /\ Remembered /\ Buckets

-----------------------------------------------------------------------------
(* A set within a sequence is no larger than it; a set that holds one      *)
(* without repetition is no smaller.                                       *)
LEMMA UpTo == ASSUME NEW n \in Nat PROVE IsFiniteSet(1..n) /\ Cardinality(1..n) = n
  BY FS_Interval

LEMMA WithinSequence ==
  ASSUME NEW S, NEW s \in Seq(S), NEW A, \A a \in A : \E i \in 1..Len(s) : s[i] = a
  PROVE  Cardinality(A) <= Len(s)
<1> DEFINE f == [a \in A |-> CHOOSE i \in 1..Len(s) : s[i] = a]
<1>0. Len(s) \in Nat
  BY LenProperties
<1>1. \A a \in A : f[a] \in 1..Len(s) /\ s[f[a]] = a
  OBVIOUS
<1>2. f \in [A -> 1..Len(s)]
  BY <1>1
<1> HIDE DEF f
<1>3. f \in Injection(A, 1..Len(s))
  BY <1>1, <1>2 DEF Injection, IsInjective
<1>4. IsFiniteSet(1..Len(s)) /\ Cardinality(1..Len(s)) = Len(s)
  BY <1>0, UpTo
<1> QED BY <1>3, <1>4, FS_Injection

LEMMA AroundSequence ==
  ASSUME NEW S, NEW s \in Seq(S), NEW A, IsFiniteSet(A), \A i \in 1..Len(s) : s[i] \in A,
         \A i, j \in 1..Len(s) : i < j => s[i] # s[j]
  PROVE  Len(s) <= Cardinality(A)
<1> DEFINE f == [i \in 1..Len(s) |-> s[i]]
<1>0. Len(s) \in Nat
  BY LenProperties
<1>1. f \in [1..Len(s) -> A] /\ \A i \in 1..Len(s) : f[i] = s[i]
  OBVIOUS
<1> HIDE DEF f
<1>2. \A i, j \in 1..Len(s) : f[i] = f[j] => i = j
  BY <1>0, <1>1
<1>3. f \in Injection(1..Len(s), A)
  BY <1>1, <1>2 DEF Injection, IsInjective
<1>4. IsFiniteSet(1..Len(s)) /\ Cardinality(1..Len(s)) = Len(s)
  BY <1>0, UpTo
<1> QED BY <1>3, <1>4, FS_Injection

LEMMA Pushed ==
  ASSUME NEW S, NEW s \in Seq(S), NEW e \in S
  PROVE  /\ Append(s, e) \in Seq(S) /\ Len(Append(s, e)) = Len(s) + 1
         /\ Append(s, e)[Len(s) + 1] = e
         /\ \A i \in 1..Len(s) : Append(s, e)[i] = s[i]
BY AppendProperties

(* What is left of a bucket.                                               *)
Left(k, n) == SubSeq(bucket[k], n + 1, Len(bucket[k]))

LEMMA LeftOver ==
  ASSUME LimiterTyped, NEW k \in Keys, NEW n \in 0..Len(bucket[k])
  PROVE  /\ bucket[k] \in Seq(Requests) /\ Len(bucket[k]) \in Nat
         /\ Left(k, n) \in Seq(Requests) /\ Len(Left(k, n)) = Len(bucket[k]) - n
         /\ \A i \in 1..Len(Left(k, n)) : Left(k, n)[i] = bucket[k][i + n] /\ i + n \in 1..Len(bucket[k])
<1>1. bucket[k] \in Seq(Requests)
  BY DEF LimiterTyped
<1>2. Len(bucket[k]) \in Nat /\ \A i \in 1..Len(bucket[k]) : bucket[k][i] \in Requests
  BY <1>1, LenProperties, ElementOfSeq
<1> DEFINE b == bucket[k]
           s == SubSeq(b, n + 1, Len(b))
<1>3. n + 1 \in Int /\ Len(b) \in Int /\ \A i \in n + 1 .. Len(b) : b[i] \in Requests
  BY <1>2
<1>4. /\ s \in Seq(Requests) /\ Len(s) = IF n + 1 <= Len(b) THEN Len(b) - (n + 1) + 1 ELSE 0
      /\ \A i \in 1 .. Len(b) - (n + 1) + 1 : s[i] = b[n + 1 + i - 1]
  BY <1>3, SubSeqProperties
<1> HIDE DEF s
<1>5. Len(s) = Len(b) - n
  BY <1>2, <1>4
<1>6. \A i \in 1..Len(s) : s[i] = b[i + n] /\ i + n \in 1..Len(b)
  <2> TAKE i \in 1..Len(s)
  <2>1. n + 1 + i - 1 = i + n /\ i \in 1 .. Len(b) - (n + 1) + 1 /\ i + n \in 1..Len(b)
    BY <1>2, <1>5
  <2> QED BY <1>4, <2>1
<1> QED BY <1>1, <1>2, <1>4, <1>5, <1>6 DEF Left, s

-----------------------------------------------------------------------------
(* What a check of a bucket does, once n entries are popped.               *)
Checks(r, k, n) ==
  /\ verdict[r] = "waiting" /\ k = key[r] /\ k \in Keys /\ n \in 0..Len(bucket[k])
  /\ UNCHANGED <<clock, stamp, key>>
  /\ \A i \in 1..n : stamp[bucket[k][i]] <= stamp[r] - Window[k]
  /\ n < Len(bucket[k]) => stamp[bucket[k][n + 1]] > stamp[r] - Window[k]
Admits(r, k, n) ==
  /\ Len(Left(k, n)) < Limit[k]
  /\ bucket' = [bucket EXCEPT ![k] = Append(Left(k, n), r)]
  /\ verdict' = [verdict EXCEPT ![r] = "admitted"]
Rejects(r, k, n) ==
  /\ Len(Left(k, n)) >= Limit[k]
  /\ bucket' = [bucket EXCEPT ![k] = Left(k, n)]
  /\ verdict' = [verdict EXCEPT ![r] = "rejected"]

LEMMA CheckSteps ==
  ASSUME LimiterAssumption, LimiterInv, NEW r \in Requests, CheckBucket(r)
  PROVE  \E k \in Keys : \E n \in 0..Len(bucket[k]) :
           Checks(r, k, n) /\ (Admits(r, k, n) \/ Rejects(r, k, n))
<1>0. LimiterTyped
  BY DEF LimiterInv
<1>1. verdict[r] = "waiting" /\ key[r] \in Keys /\ UNCHANGED <<clock, stamp, key>>
  BY <1>0 DEF CheckBucket, LimiterTyped
<1>2. PICK k \in Keys : k = key[r]
  BY <1>1
<1>3. PICK n \in 0..Len(bucket[k]) :
        Pops(bucket[k], n, stamp[r] - Window[k]) /\ (Admit(r, k, n) \/ Reject(r, k, n))
  BY <1>2 DEF CheckBucket
<1>4. Len(Left(k, n)) = Len(bucket[k]) - n /\ Len(bucket[k]) \in Nat /\ Limit[k] \in Nat
  BY <1>0, LeftOver DEF LimiterAssumption
<1>5. Checks(r, k, n)
  BY <1>1, <1>2, <1>3 DEF Checks, Pops
<1>6. Admits(r, k, n) \/ Rejects(r, k, n)
  BY <1>3, <1>4 DEF Admit, Reject, Full, Admits, Rejects, Left
<1> QED BY <1>5, <1>6

LEMMA CheckSafe ==
  ASSUME LimiterAssumption, LimiterInv, NEW r \in Requests,
         NEW k \in Keys, NEW n \in 0..Len(bucket[k]),
         Checks(r, k, n), Admits(r, k, n) \/ Rejects(r, k, n)
  PROVE  /\ LimiterInv'
         /\ Admits(r, k, n) => Len(bucket'[k]) <= Limit[k]
<1>s. PICK s : s = Left(k, n)
  OBVIOUS
<1>0. /\ LimiterTyped /\ Clocked /\ Remembered /\ Buckets
      /\ MaxSkew \in Nat /\ Window[k] \in Nat /\ Limit[k] \in Nat
  BY DEF LimiterInv, LimiterAssumption
<1>1. /\ bucket[k] \in Seq(Requests) /\ Len(bucket[k]) \in Nat
      /\ s \in Seq(Requests) /\ Len(s) = Len(bucket[k]) - n /\ Len(s) \in Nat
      /\ \A i \in 1..Len(s) : s[i] = bucket[k][i + n] /\ i + n \in 1..Len(bucket[k])
  <2>1. /\ bucket[k] \in Seq(Requests) /\ Len(bucket[k]) \in Nat
        /\ Left(k, n) \in Seq(Requests) /\ Len(Left(k, n)) = Len(bucket[k]) - n
        /\ \A i \in 1..Len(Left(k, n)) : Left(k, n)[i] = bucket[k][i + n] /\ i + n \in 1..Len(bucket[k])
    BY <1>0, LeftOver
  <2>2. Len(Left(k, n)) \in Nat
    BY <2>1, LenProperties
  <2> QED BY <1>s, <2>1, <2>2
<1>2. /\ verdict[r] = "waiting" /\ k = key[r] /\ UNCHANGED <<clock, stamp, key>>
      /\ \A i \in 1..n : stamp[bucket[k][i]] <= stamp[r] - Window[k]
  BY DEF Checks
<1>3. PICK v \in {"admitted", "rejected"} :
        /\ verdict' = [verdict EXCEPT ![r] = v]
        /\ v = "admitted" <=> Admits(r, k, n)
        /\ bucket' = [bucket EXCEPT ![k] = IF v = "admitted" THEN Append(s, r) ELSE s]
  BY <1>1, <1>s DEF Admits, Rejects
<1>a. r \in Requests /\ s \in Seq(Requests)
  BY <1>1
<1>4. /\ Append(s, r) \in Seq(Requests) /\ Len(Append(s, r)) = Len(s) + 1
      /\ Append(s, r)[Len(s) + 1] = r
      /\ \A i \in 1..Len(s) : Append(s, r)[i] = s[i]
  <2>1. Append(s, r) \in Seq(Requests)
    BY <1>a, Pushed
  <2>2. Len(Append(s, r)) = Len(s) + 1
    BY <1>a, Pushed
  <2>3. Append(s, r)[Len(s) + 1] = r
    BY <1>a, Pushed
  <2>4. \A i \in 1..Len(s) : Append(s, r)[i] = s[i]
    BY <1>a, Pushed
  <2> QED BY <2>1, <2>2, <2>3, <2>4
<1>5. LimiterTyped' /\ Clocked'
  BY <1>0, <1>1, <1>2, <1>3, <1>4 DEF LimiterTyped, Clocked, Verdicts
<1>6. /\ \A l \in Keys : l # k => bucket'[l] = bucket[l]
      /\ bucket'[k] = IF v = "admitted" THEN Append(s, r) ELSE s
      /\ \A l \in Keys : \A a \in Requests : a \in Admitted(l)' <=>
           a \in Admitted(l) \/ (v = "admitted" /\ a = r /\ l = k)
  <2>1. /\ \A l \in Keys : l # k => bucket'[l] = bucket[l]
        /\ bucket'[k] = IF v = "admitted" THEN Append(s, r) ELSE s
    BY <1>0, <1>3 DEF LimiterTyped
  <2>2. \A a \in Requests : verdict'[a] = IF a = r THEN v ELSE verdict[a]
    BY <1>0, <1>3 DEF LimiterTyped
  <2> QED BY <1>2, <2>1, <2>2 DEF Admitted
<1>7. Remembered'
  <2> SUFFICES ASSUME NEW l \in Keys, NEW a \in Admitted(l)'
               PROVE  (\E i \in 1..Len(bucket'[l]) : bucket'[l][i] = a) \/ stamp[a] <= clock - Window[l]
    BY <1>2 DEF Remembered, In
  <2>0. a \in Requests
    BY DEF Admitted
  <2>1. CASE l # k
    BY <1>0, <1>6, <2>0, <2>1 DEF Remembered, In
  <2>2. CASE l = k /\ a \notin Admitted(k)
    <3>1. v = "admitted" /\ a = r /\ bucket'[k] = Append(s, r)
      BY <1>6, <2>0, <2>2
    <3>2. Len(s) + 1 \in 1..Len(Append(s, r)) /\ Append(s, r)[Len(s) + 1] = a
      BY <1>1, <1>4, <3>1
    <3> QED BY <2>2, <3>1, <3>2
  <2>3. CASE l = k /\ a \in Admitted(k)
    <3>1. CASE stamp[a] <= clock - Window[k]
      BY <2>3, <3>1
    <3>2. CASE ~(stamp[a] <= clock - Window[k])
      <4>1. PICK i \in 1..Len(bucket[k]) : bucket[k][i] = a
        BY <1>0, <2>3, <3>2 DEF Remembered, In
      <4>2. CASE i <= n
        <5>1. stamp[a] <= stamp[r] - Window[k] /\ stamp[r] <= clock
          BY <1>0, <1>2, <4>1, <4>2 DEF Clocked
        <5>2. stamp[a] \in Nat /\ stamp[r] \in Nat /\ clock \in Nat
          BY <1>0, <2>0 DEF LimiterTyped
        <5> QED BY <1>0, <2>3, <5>1, <5>2
      <4>3. CASE i > n
        <5>1. i \in Int /\ n \in Int /\ (i - n) + n = i /\ i - n \in 1..Len(s)
          <6>1. Len(s) = Len(bucket[k]) - n /\ Len(bucket[k]) \in Nat
            BY <1>1
          <6> QED BY <4>3, <6>1, SMTT(30)
        <5>2. PICK j \in 1..Len(s) : j + n = i
          BY <5>1
        <5>3. s[j] = a
          BY <1>1, <4>1, <5>2
        <5>4. bucket'[k][j] = a
          BY <1>4, <1>6, <5>3
        <5>5. Len(bucket'[k]) \in {Len(s), Len(s) + 1}
          <6>1. bucket'[k] \in {s, Append(s, r)}
            BY <1>6
          <6> QED BY <1>4, <6>1
        <5>6. j \in 1..Len(bucket'[k])
          <6>1. Len(s) \in Nat
            BY <1>1
          <6>2. PICK m : m = Len(bucket'[k])
            OBVIOUS
          <6>3. m \in {Len(s), Len(s) + 1}
            BY <5>5, <6>2
          <6>4. j \in 1..m
            BY <6>1, <6>3
          <6> QED BY <6>2, <6>4
        <5> QED BY <2>3, <5>4, <5>6
      <4> QED BY <1>1, <4>2, <4>3
    <3> QED BY <3>1, <3>2
  <2> QED BY <2>1, <2>2, <2>3
<1>8. Buckets'
  <2> SUFFICES ASSUME NEW l \in Keys, NEW i \in 1..Len(bucket'[l])
               PROVE  /\ bucket'[l][i] \in Admitted(l)'
                      /\ \A j \in 1..Len(bucket'[l]) : i < j =>
                           /\ bucket'[l][i] # bucket'[l][j]
                           /\ stamp[bucket'[l][i]] - MaxSkew <= stamp[bucket'[l][j]]
    BY <1>2 DEF Buckets
  <2>1. CASE l # k
    <3>1. bucket'[l] = bucket[l] /\ bucket[l][i] \in Admitted(l)
      BY <1>0, <1>6, <2>1 DEF Buckets
    <3>2. bucket[l][i] \in Admitted(l)'
      BY <1>6, <2>1, <3>1 DEF Admitted
    <3> QED BY <1>0, <3>1, <3>2 DEF Buckets
  <2>2. \A a \in 1..Len(s) :
          /\ s[a] \in Admitted(k) /\ s[a] # r /\ stamp[s[a]] - MaxSkew <= stamp[r]
          /\ \A b \in 1..Len(s) : a < b => s[a] # s[b] /\ stamp[s[a]] - MaxSkew <= stamp[s[b]]
    <3> TAKE a \in 1..Len(s)
    <3>1. s[a] \in Admitted(k)
      BY <1>0, <1>1 DEF Buckets
    <3>2. s[a] # r /\ s[a] \in Requests
      BY <1>2, <3>1 DEF Admitted
    <3>3. stamp[s[a]] <= clock /\ clock <= stamp[r] + MaxSkew
      BY <1>0, <1>2, <3>2 DEF Clocked
    <3>4. stamp[s[a]] \in Nat /\ stamp[r] \in Nat /\ clock \in Nat
      BY <1>0, <3>2 DEF LimiterTyped
    <3>5. \A b \in 1..Len(s) : a < b => s[a] # s[b] /\ stamp[s[a]] - MaxSkew <= stamp[s[b]]
      <4> TAKE b \in 1..Len(s)
      <4> HAVE a < b
      <4>1. a + n \in 1..Len(bucket[k]) /\ b + n \in 1..Len(bucket[k]) /\ a + n < b + n
        <5>1. a + n \in 1..Len(bucket[k]) /\ b + n \in 1..Len(bucket[k])
          BY <1>1
        <5>2. a \in Int /\ b \in Int /\ n \in Int
          OBVIOUS
        <5> QED BY <5>1, <5>2
      <4> QED BY <1>0, <1>1, <4>1, ZenonT(60) DEF Buckets
    <3>6. stamp[s[a]] - MaxSkew <= stamp[r]
      BY <1>0, <3>3, <3>4, SMTT(30)
    <3> QED BY <3>1, <3>2, <3>5, <3>6
  <2>3. CASE l = k
    <3>1. Len(bucket'[k]) = IF v = "admitted" THEN Len(s) + 1 ELSE Len(s)
      BY <1>4, <1>6
    <3>2. \A a \in 1..Len(bucket'[k]) : a \in 1..Len(s) \/ (v = "admitted" /\ a = Len(s) + 1)
      BY <1>1, <3>1
    <3>3. \A a \in 1..Len(bucket'[k]) : bucket'[k][a] = IF a \in 1..Len(s) THEN s[a] ELSE r
      BY <1>1, <1>4, <1>6, <3>2
    <3>4. bucket'[k][i] \in Admitted(k)'
      <4>1. CASE i \in 1..Len(s)
        BY <1>6, <2>2, <2>3, <3>3, <4>1 DEF Admitted
      <4>2. CASE i \notin 1..Len(s)
        BY <1>6, <2>3, <3>2, <3>3, <4>2
      <4> QED BY <4>1, <4>2
    <3>5. ASSUME NEW j \in 1..Len(bucket'[k]), i < j
          PROVE  /\ bucket'[k][i] # bucket'[k][j]
                 /\ stamp[bucket'[k][i]] - MaxSkew <= stamp[bucket'[k][j]]
      <4>1. i \in 1..Len(s)
        <5>1. i \in 1..Len(bucket'[k]) /\ i < Len(bucket'[k])
          BY <1>1, <2>3, <3>1, <3>5
        <5> QED BY <1>1, <3>1, <5>1
      <4> QED BY <2>2, <2>3, <3>3, <3>5, <4>1
    <3> QED BY <2>3, <3>4, <3>5
  <2> QED BY <2>1, <2>3
<1>9. Admits(r, k, n) => Len(bucket'[k]) <= Limit[k]
  <2> SUFFICES ASSUME Admits(r, k, n) PROVE Len(bucket'[k]) <= Limit[k]
    OBVIOUS
  <2>1. Len(s) < Limit[k]
    BY <1>s DEF Admits
  <2> QED BY <1>0, <1>1, <1>3, <1>4, <1>6, <2>1
<1> QED BY <1>5, <1>7, <1>8, <1>9 DEF LimiterInv

(* The steps beside the check.                                             *)
LEMMA AsideSafe ==
  ASSUME LimiterAssumption, LimiterInv,
         Tick \/ Forget \/ (\E r \in Requests, k \in Keys : ReadClock(r, k))
  PROVE  /\ LimiterInv'
         /\ \A k \in Keys : \/ Admitted(k)' = {}
                            \/ Admitted(k)' = Admitted(k)
                               /\ \A a \in Admitted(k) : stamp'[a] = stamp[a]
<1>0. /\ LimiterTyped /\ Clocked /\ Remembered /\ Buckets
      /\ MaxSkew \in Nat /\ \A k \in Keys : Window[k] \in Nat
  BY DEF LimiterInv, LimiterAssumption
<1>1. CASE Tick
  <2>1. LimiterTyped' /\ Clocked'
    BY <1>0, <1>1 DEF Tick, LimiterTyped, Clocked
  <2>2. \A k \in Keys : Admitted(k)' = Admitted(k)
    BY <1>1 DEF Tick, Admitted
  <2>3. Remembered'
    <3> SUFFICES ASSUME NEW k \in Keys, NEW a \in Admitted(k)
                 PROVE  In(k, a) \/ stamp[a] <= clock' - Window[k]
      BY <1>1, <2>2 DEF Tick, Remembered, In
    <3>1. stamp[a] \in Nat /\ clock \in Nat /\ clock' = clock + 1
      BY <1>0, <1>1 DEF Tick, LimiterTyped, Admitted
    <3>2. In(k, a) \/ stamp[a] <= clock - Window[k]
      BY <1>0 DEF Remembered
    <3>3. Window[k] \in Nat
      BY LimiterAssumption DEF LimiterAssumption
    <3> QED BY <3>1, <3>2, <3>3, SMTT(30)
  <2>4. Buckets'
    BY <1>0, <1>1, <2>2 DEF Tick, Buckets
  <2> QED BY <1>1, <2>1, <2>2, <2>3, <2>4 DEF LimiterInv, Tick
<1>2. CASE Forget
  <2>1. Len(<<>>) = 0 /\ <<>> \in Seq(Requests)
    BY EmptySeq
  <2>2. LimiterTyped' /\ Clocked'
    BY <1>0, <1>2, <2>1 DEF Forget, LimiterTyped, Clocked, Verdicts
  <2>3. \A k \in Keys : Admitted(k)' = {} /\ bucket'[k] = <<>>
    BY <1>2 DEF Forget, Admitted
  <2>4. Remembered' /\ Buckets'
    BY <2>1, <2>3 DEF Remembered, Buckets
  <2> QED BY <2>2, <2>3, <2>4 DEF LimiterInv
<1>3. ASSUME NEW r \in Requests, NEW l \in Keys, ReadClock(r, l)
      PROVE  LimiterInv' /\ \A k \in Keys : Admitted(k)' = Admitted(k)
                            /\ \A a \in Admitted(k) : stamp'[a] = stamp[a]
  <2>1. /\ verdict[r] = "new" /\ key' = [key EXCEPT ![r] = l] /\ stamp' = [stamp EXCEPT ![r] = clock]
        /\ verdict' = [verdict EXCEPT ![r] = "waiting"] /\ UNCHANGED <<clock, bucket>>
    BY <1>3 DEF ReadClock
  <2>2. LimiterTyped' /\ Clocked'
    BY <1>0, <2>1 DEF LimiterTyped, Clocked, Verdicts
  <2>3. \A k \in Keys : Admitted(k)' = Admitted(k) /\ \A a \in Admitted(k) : stamp'[a] = stamp[a]
    BY <1>0, <2>1 DEF LimiterTyped, Admitted
  <2>4. Remembered' /\ Buckets'
    <3>1. Remembered'
      BY <1>0, <2>1, <2>3 DEF Remembered, In
    <3>2. \A k \in Keys : \A i \in 1..Len(bucket[k]) : stamp'[bucket[k][i]] = stamp[bucket[k][i]]
      BY <1>0, <2>3 DEF Buckets
    <3>3. Buckets'
      BY <1>0, <2>1, <2>3, <3>2 DEF Buckets
    <3> QED BY <3>1, <3>3
  <2> QED BY <2>2, <2>3, <2>4 DEF LimiterInv
<1> QED BY <1>1, <1>2, <1>3

LEMMA Unchanged ==
  ASSUME LimiterInv, UNCHANGED limiterVars PROVE LimiterInv' /\ (SlidingWindow => SlidingWindow')
<1> USE DEF limiterVars
<1>1. \A k : Admitted(k)' = Admitted(k)
  BY DEF Admitted
<1>2. LimiterTyped' /\ Clocked'
  BY DEF LimiterInv, LimiterTyped, Clocked
<1>3. Remembered'
  BY <1>1 DEF LimiterInv, Remembered, In
<1>4. Buckets'
  BY <1>1 DEF LimiterInv, Buckets
<1>5. SlidingWindow => SlidingWindow'
  BY <1>1 DEF SlidingWindow, AdmittedWithin
<1> QED BY <1>2, <1>3, <1>4, <1>5 DEF LimiterInv

LEMMA LimiterInductive == LimiterAssumption /\ LimiterInv /\ [LimiterNext]_limiterVars => LimiterInv'
  BY Unchanged, AsideSafe, CheckSteps, CheckSafe DEF LimiterNext

-----------------------------------------------------------------------------
(* Whoever is admitted is counted with all who matter to its window.       *)
LEMMA WindowOfCheck ==
  ASSUME LimiterAssumption, LimiterInv, SlidingWindow, NEW r \in Requests, CheckBucket(r)
  PROVE  SlidingWindow'
<1>k. PICK k \in Keys : \E n \in 0..Len(bucket[k]) :
        Checks(r, k, n) /\ (Admits(r, k, n) \/ Rejects(r, k, n))
  BY CheckSteps
<1>1. PICK n \in 0..Len(bucket[k]) : Checks(r, k, n) /\ (Admits(r, k, n) \/ Rejects(r, k, n))
  BY <1>k
<1>2. LimiterInv' /\ (Admits(r, k, n) => Len(bucket'[k]) <= Limit[k])
  BY <1>1, CheckSafe
<1> SUFFICES ASSUME NEW l \in Keys, NEW t \in 0..MaxTime
             PROVE  Cardinality(AdmittedWithin(l, t, t + Window[l] - MaxSkew)') <= Limit[l]
  BY DEF SlidingWindow
<1> DEFINE A == AdmittedWithin(l, t, t + Window[l] - MaxSkew)
<1>3. Cardinality(A) <= Limit[l]
  BY DEF SlidingWindow
<1>4. UNCHANGED <<clock, stamp, key>> /\ verdict[r] = "waiting" /\ key[r] = k
  BY <1>1 DEF Checks
<1>5. CASE A' = A
  BY <1>3, <1>5
<1>6. CASE A' # A
  <2>1. \A a \in Requests : a # r => verdict'[a] = verdict[a]
    BY <1>1 DEF LimiterInv, LimiterTyped, Admits, Rejects
  <2>2. r \in A'
    BY <1>4, <1>6, <2>1 DEF AdmittedWithin, Admitted
  <2>3. l = k /\ Admits(r, k, n)
    BY <1>1, <1>4, <2>2 DEF AdmittedWithin, Admitted, Rejects, LimiterInv, LimiterTyped
  <2>4. stamp[r] <= t + Window[k] - MaxSkew /\ clock <= stamp[r] + MaxSkew
    BY <1>4, <2>2, <2>3 DEF AdmittedWithin, LimiterInv, Clocked
  <2>5. clock \in Nat /\ stamp[r] \in Nat /\ Window[k] \in Nat /\ MaxSkew \in Nat /\ t \in Nat
    BY DEF LimiterInv, LimiterTyped, LimiterAssumption
  <2>6. clock - Window[k] <= t
    BY <2>4, <2>5
  <2>7. \A a \in A' : \E i \in 1..Len(bucket'[k]) : bucket'[k][i] = a
    <3> TAKE a \in A'
    <3>1. a \in Admitted(k)' /\ t < stamp[a] /\ stamp[a] \in Nat
      BY <1>4, <2>3 DEF AdmittedWithin, Admitted, LimiterInv, LimiterTyped
    <3>2. ~(stamp[a] <= clock - Window[k])
      BY <2>5, <2>6, <3>1
    <3> QED BY <1>2, <1>4, <3>1, <3>2 DEF LimiterInv, Remembered, In
  <2>8. bucket'[k] \in Seq(Requests)
    BY <1>2 DEF LimiterInv, LimiterTyped
  <2>9. Cardinality(A') <= Len(bucket'[k])
    BY <2>7, <2>8, WithinSequence
  <2>a. IsFiniteSet(A')
    <3>1. A' \in SUBSET Requests
      BY DEF AdmittedWithin, Admitted
    <3> QED BY <3>1, FS_Subset DEF LimiterAssumption
  <2>b. Cardinality(A') \in Nat /\ Len(bucket'[k]) \in Nat /\ Limit[k] \in Nat
    BY <2>a, <2>8, FS_CardinalityType, LenProperties DEF LimiterAssumption
  <2>c. Len(bucket'[k]) <= Limit[k]
    BY <1>2, <2>3
  <2> HIDE DEF A
  <2>d. Cardinality(A') <= Limit[l]
    BY <2>3, <2>9, <2>b, <2>c
  <2> QED BY <2>d DEF A
<1> QED BY <1>5, <1>6

(* Whoever is rejected finds in the bucket as many requests as are allowed *)
(* that are no older than its window and the skew.                         *)
LEMMA Later ==
  ASSUME NEW h \in Nat, NEW x \in Nat, NEW p \in Nat, NEW w \in Nat, NEW d \in Nat,
         h > p - w, h - d <= x
  PROVE  x > p - w - d
OBVIOUS

LEMMA StillLater ==
  ASSUME NEW x \in Nat, NEW p \in Nat, NEW w \in Nat, NEW d \in Nat, x > p - w
  PROVE  x > p - w - d
OBVIOUS

LEMMA CauseOfCheck ==
  ASSUME LimiterAssumption, LimiterInv, NEW r \in Requests, CheckBucket(r), verdict'[r] = "rejected"
  PROVE  Cardinality({a \in Admitted(key[r]) : stamp[a] > stamp[r] - Window[key[r]] - MaxSkew})
           >= Limit[key[r]]
<1>k. PICK k \in Keys : \E n \in 0..Len(bucket[k]) :
        Checks(r, k, n) /\ (Admits(r, k, n) \/ Rejects(r, k, n))
  BY CheckSteps
<1>1. PICK n \in 0..Len(bucket[k]) : Checks(r, k, n) /\ (Admits(r, k, n) \/ Rejects(r, k, n))
  BY <1>k
<1>2. Rejects(r, k, n) /\ key[r] = k
  BY <1>1 DEF Checks, Admits, LimiterInv, LimiterTyped
<1>s. PICK s : s = Left(k, n)
  OBVIOUS
<1>3. /\ Len(bucket[k]) \in Nat /\ s \in Seq(Requests) /\ Len(s) = Len(bucket[k]) - n /\ Len(s) \in Nat
      /\ \A i \in 1..Len(s) : s[i] = bucket[k][i + n] /\ i + n \in 1..Len(bucket[k])
  <2>1. LimiterTyped
    BY DEF LimiterInv
  <2>2. s \in Seq(Requests) /\ Len(s) = Len(bucket[k]) - n /\ Len(bucket[k]) \in Nat
    BY <1>s, <2>1, LeftOver
  <2>3. \A i \in 1..Len(s) : s[i] = bucket[k][i + n] /\ i + n \in 1..Len(bucket[k])
    BY <1>s, <2>1, LeftOver
  <2> QED BY <2>2, <2>3, LenProperties
<1> DEFINE A == {a \in Admitted(k) : stamp[a] > stamp[r] - Window[k] - MaxSkew}
<1>4. \A i \in 1..Len(bucket[k]) : /\ bucket[k][i] \in Admitted(k)
        /\ \A j \in 1..Len(bucket[k]) : i < j =>
             bucket[k][i] # bucket[k][j] /\ stamp[bucket[k][i]] - MaxSkew <= stamp[bucket[k][j]]
  BY DEF LimiterInv, Buckets
<1>5. \A i \in 1..Len(s) : s[i] \in A
  <2> TAKE i \in 1..Len(s)
  <2>1. n < Len(bucket[k]) /\ n + 1 \in 1..Len(bucket[k]) /\ i + n \in 1..Len(bucket[k])
        /\ (i # 1 => n + 1 < i + n) /\ s[i] = bucket[k][i + n] /\ 1 + n = n + 1
    BY <1>3, 0..Len(bucket[k]) \subseteq Int, 1..Len(s) \subseteq Int
  <2>2. stamp[bucket[k][n + 1]] > stamp[r] - Window[k]
    BY <1>1, <2>1 DEF Checks
  <2>3. s[i] \in Admitted(k) /\ (i = 1 \/ stamp[bucket[k][n + 1]] - MaxSkew <= stamp[s[i]])
    BY <1>4, <2>1
  <2>4. s[i] \in Requests /\ bucket[k][n + 1] \in Requests
    BY <1>4, <2>1, <2>3 DEF Admitted
  <2>5. stamp[s[i]] \in Nat /\ stamp[bucket[k][n + 1]] \in Nat /\ stamp[r] \in Nat
        /\ Window[k] \in Nat /\ MaxSkew \in Nat
    BY <2>4 DEF LimiterInv, LimiterTyped, LimiterAssumption
  <2>6. i = 1 => s[i] = bucket[k][n + 1]
    BY <2>1
  <2>7. stamp[s[i]] > stamp[r] - Window[k] - MaxSkew
    <3>1. CASE i = 1
      <4>1. stamp[s[i]] > stamp[r] - Window[k]
        BY <2>2, <2>6, <3>1
      <4> QED BY <2>5, <4>1, StillLater, ZenonT(60)
    <3>2. CASE i # 1
      <4>1. stamp[bucket[k][n + 1]] - MaxSkew <= stamp[s[i]]
        BY <2>3, <3>2
      <4> QED BY <2>2, <2>5, <4>1, Later, ZenonT(60)
    <3> QED BY <3>1, <3>2
  <2> QED BY <2>3, <2>7
<1>6. \A i, j \in 1..Len(s) : i < j => s[i] # s[j]
  <2> TAKE i, j \in 1..Len(s)
  <2> HAVE i < j
  <2>1. i + n < j + n
    BY <1>3, 0..Len(bucket[k]) \subseteq Int, 1..Len(s) \subseteq Int
  <2> QED BY <1>3, <1>4, <2>1
<1>7. IsFiniteSet(A)
  <2>1. A \in SUBSET Requests
    BY DEF Admitted
  <2> QED BY <2>1, FS_Subset DEF LimiterAssumption
<1> HIDE DEF A
<1>8. Len(s) <= Cardinality(A) /\ Cardinality(A) \in Nat
  BY <1>3, <1>5, <1>6, <1>7, AroundSequence, FS_CardinalityType
<1>9. Len(s) >= Limit[k] /\ Limit[k] \in Nat
  BY <1>2, <1>s DEF Rejects, LimiterAssumption
<1> QED BY <1>2, <1>3, <1>8, <1>9 DEF A

-----------------------------------------------------------------------------
LEMMA LimiterStarts == LimiterAssumption /\ LimiterInit => LimiterInv /\ SlidingWindow
<1> SUFFICES ASSUME LimiterAssumption, LimiterInit PROVE LimiterInv /\ SlidingWindow
  OBVIOUS
<1>1. Len(<<>>) = 0 /\ <<>> \in Seq(Requests)
  BY EmptySeq
<1>2. \A k \in Keys : Admitted(k) = {} /\ bucket[k] = <<>>
  BY DEF LimiterInit, Admitted
<1>3. LimiterTyped /\ Clocked
  BY <1>1 DEF LimiterInit, LimiterTyped, Clocked, Verdicts
<1>4. Remembered /\ Buckets
  BY <1>1, <1>2 DEF Remembered, Buckets
<1>5. SlidingWindow
  <2>1. \A k \in Keys, t \in 0..MaxTime : AdmittedWithin(k, t, t + Window[k] - MaxSkew) = {}
    BY <1>2 DEF AdmittedWithin
  <2> QED BY <2>1, FS_EmptySet DEF SlidingWindow, LimiterAssumption
<1> QED BY <1>3, <1>4, <1>5 DEF LimiterInv

LEMMA WindowInductive ==
  LimiterAssumption /\ LimiterInv /\ SlidingWindow /\ [LimiterNext]_limiterVars => SlidingWindow'
<1> SUFFICES ASSUME LimiterAssumption, LimiterInv, SlidingWindow, [LimiterNext]_limiterVars
             PROVE  SlidingWindow'
  OBVIOUS
<1>1. CASE Tick \/ Forget \/ \E r \in Requests, k \in Keys : ReadClock(r, k)
  <2> SUFFICES ASSUME NEW k \in Keys, NEW t \in 0..MaxTime
               PROVE  Cardinality(AdmittedWithin(k, t, t + Window[k] - MaxSkew)') <= Limit[k]
    BY DEF SlidingWindow
  <2>1. CASE Admitted(k)' = {}
    <3>1. AdmittedWithin(k, t, t + Window[k] - MaxSkew)' = {}
      BY <2>1 DEF AdmittedWithin
    <3>2. Cardinality({}) = 0 /\ Limit[k] \in Nat
      BY FS_EmptySet DEF LimiterAssumption
    <3>3. Cardinality(AdmittedWithin(k, t, t + Window[k] - MaxSkew)') = 0
      BY <3>1, <3>2, Zenon
    <3> QED BY <3>2, <3>3
  <2>2. CASE Admitted(k)' = Admitted(k) /\ \A a \in Admitted(k) : stamp'[a] = stamp[a]
    <3>1. AdmittedWithin(k, t, t + Window[k] - MaxSkew)' = AdmittedWithin(k, t, t + Window[k] - MaxSkew)
      BY <2>2 DEF AdmittedWithin
    <3> QED BY <3>1 DEF SlidingWindow
  <2> QED BY <1>1, <2>1, <2>2, AsideSafe
<1> QED BY <1>1, WindowOfCheck, Unchanged DEF LimiterNext

(* At most the limit is admitted in any interval of the window less the    *)
(* skew, whatever order requests come in (rate_limit.py 25-34).            *)
THEOREM AdmitsWithinWindow == LimiterSpec => []SlidingWindow
BY LimiterAssumption, LimiterStarts, LimiterInductive, WindowInductive, PTL DEF LimiterSpec

(* Whoever is rejected finds that many in the window and the skew before   *)
(* it (rate_limit.py 30-33).                                               *)
THEOREM RejectsForCause == LimiterSpec => RejectedForCause
<1>1. LimiterInv /\ [LimiterNext]_limiterVars =>
        [\A r \in Requests :
           verdict[r] = "waiting" /\ verdict'[r] = "rejected" =>
             Cardinality({a \in Admitted(key[r]) : stamp[a] > stamp[r] - Window[key[r]] - MaxSkew})
               >= Limit[key[r]]]_limiterVars
  <2> SUFFICES ASSUME LimiterInv, LimiterNext, NEW r \in Requests,
                      verdict[r] = "waiting", verdict'[r] = "rejected"
               PROVE  Cardinality({a \in Admitted(key[r]) : stamp[a] > stamp[r] - Window[key[r]] - MaxSkew})
                        >= Limit[key[r]]
    OBVIOUS
  <2>1. CheckBucket(r)
    <3>1. ASSUME NEW o \in Requests, CheckBucket(o) PROVE o = r
      BY <3>1 DEF CheckBucket, Admit, Reject, LimiterInv, LimiterTyped
    <3>2. ~Tick /\ ~Forget /\ \A o \in Requests, k \in Keys : ~ReadClock(o, k)
      BY DEF Tick, Forget, ReadClock, LimiterInv, LimiterTyped
    <3> QED BY <3>1, <3>2 DEF LimiterNext
  <2> QED BY <2>1, LimiterAssumption, CauseOfCheck
<1> QED BY LimiterAssumption, LimiterStarts, LimiterInductive, <1>1, PTL
        DEF LimiterSpec, RejectedForCause

-----------------------------------------------------------------------------
(* The forms.                                                              *)
Pcs == {"new", "limit", "authenticate", "email", "slug", "user", "workspace", "member",
        "committed", "answered", "refused", "failed"}
All == {"user", "workspace", "member"}

Typed ==
  /\ pc \in [Requests -> Pcs]
  /\ flushed \in [Requests -> SUBSET All] /\ stored \in [Requests -> SUBSET All]
  /\ DOMAIN form = Requests /\ DOMAIN suffix = Requests
  /\ session \in [Requests -> [user : SUBSET Requests, expires : Int]]
  /\ clock \in Int

(* What an open transaction holds is told by the place of its request.     *)
Rows(label) ==
  CASE label = "workspace" -> {"user"} [] label = "member" -> {"user", "workspace"} [] OTHER -> {}
Transacted == \A r \in Requests : flushed[r] = Rows(pc[r])

(* What is committed was committed as a whole, by a request that sent a    *)
(* form.                                                                   *)
Whole == \A r \in Requests :
  /\ stored[r] \in {{}, All}
  /\ stored[r] # {} => pc[r] \in {"committed", "answered", "failed"}
  /\ pc[r] = "committed" => stored[r] = All
  /\ pc[r] # "new" => form[r] # NoForm

Sessions == \A r \in Requests : \A u \in session[r].user : stored[u] = All

AccountInv == Typed /\ Transacted /\ Whole /\ Sessions /\ AccountsDistinct

-----------------------------------------------------------------------------
(* A step that moves requests without an insert: forms and suffixes change *)
(* only where nothing is inserted.                                         *)
LEMMA MovesSafe ==
  ASSUME AccountInv, Typed',
         UNCHANGED <<stored, session>>,
         \A r \in Requests : flushed'[r] = Rows(pc'[r]) /\ flushed'[r] \subseteq flushed[r],
         \A r \in Requests : pc'[r] # "new" => form'[r] # NoForm,
         \A r \in Requests : \/ form'[r] = form[r] /\ suffix'[r] = suffix[r]
                             \/ pc[r] \in {"new", "slug"},
         \A r \in Requests : \/ pc'[r] = pc[r]
                             \/ stored[r] = {} /\ pc'[r] # "committed"
                             \/ pc'[r] \in {"answered", "failed"}
  PROVE  AccountInv'
<1>1. Transacted'
  BY DEF Transacted
<1>2. Whole' /\ Sessions'
  BY DEF AccountInv, Whole, Sessions, Typed
<1>3. AccountsDistinct'
  <2>1. \A row : \A r \in Inserted(row)' : r \in Inserted(row)
    BY DEF Inserted
  <2>2. \A row : \A r \in Inserted(row) : pc[r] \notin {"new", "slug"}
    BY DEF AccountInv, Inserted, Transacted, Rows, Whole
  <2>3. \A row : \A r \in Inserted(row)' : form'[r] = form[r] /\ suffix'[r] = suffix[r]
    BY <2>1, <2>2 DEF Inserted
  <2> QED BY <2>1, <2>3 DEF AccountInv, AccountsDistinct, Email, Slug, Inserted
<1> QED BY <1>1, <1>2, <1>3 DEF AccountInv

(* The steps before and after the transaction, and those that end it       *)
(* without a commit.                                                       *)
LEMMA PlainSafe ==
  ASSUME AccountsAssumption, LimiterAssumption, AccountInv, NEW r \in Requests,
         Arrive(r) \/ Enforce(r) \/ LookupEmail(r) \/ LookupSlug(r)
  PROVE  AccountInv'
<1> USE DEF At, Goto, limiterVars
<1>0. Typed /\ Transacted /\ Whole
  BY DEF AccountInv
<1>1. CASE Arrive(r)
  <2>1. PICK f \in Forms : form' = [form EXCEPT ![r] = f]
    BY <1>1 DEF Arrive
  <2>2. f # NoForm
    <3>1. f.key \in Keys /\ NoForm.key = NoKey
      BY DEF AccountsAssumption, NoForm
    <3> QED BY <3>1 DEF LimiterAssumption
  <2>3. UNCHANGED clock
    BY <1>1 DEF Arrive, ReadClock
  <2>4. Typed'
    BY <1>0, <1>1, <2>1, <2>3 DEF Arrive, Typed, Pcs
  <2> QED BY <1>0, <1>1, <2>1, <2>2, <2>4, MovesSafe DEF Arrive, Typed, Transacted, Whole, Rows
<1>2. CASE Enforce(r)
  <2>1. PICK label \in {"refused", "authenticate", "email"} : pc' = [pc EXCEPT ![r] = label]
    BY <1>2 DEF Enforce
  <2>2. UNCHANGED clock
    BY <1>2 DEF Enforce, CheckBucket
  <2>3. Typed'
    BY <1>0, <1>2, <2>1, <2>2 DEF Enforce, Typed, Pcs
  <2> QED BY <1>0, <1>2, <2>1, <2>3, MovesSafe DEF Enforce, Typed, Transacted, Whole, Rows
<1>3. CASE LookupEmail(r)
  <2>1. PICK label \in {"slug", "refused"} : pc' = [pc EXCEPT ![r] = label]
    BY <1>3 DEF LookupEmail
  <2>2. Typed'
    BY <1>0, <1>3, <2>1 DEF LookupEmail, Typed, Pcs
  <2> QED BY <1>0, <1>3, <2>1, <2>2, MovesSafe DEF LookupEmail, Typed, Transacted, Whole, Rows
<1>4. CASE LookupSlug(r)
  <2>1. PICK label \in {"slug", "user"} : pc' = [pc EXCEPT ![r] = label]
    BY <1>0, <1>4 DEF LookupSlug, Typed
  <2>2. Typed'
    BY <1>0, <1>4, <2>1 DEF LookupSlug, Typed, Pcs
  <2>3. \A o \in Requests : suffix'[o] = suffix[o] \/ pc[o] = "slug"
    BY <1>0, <1>4 DEF LookupSlug, Typed
  <2> QED BY <1>0, <1>4, <2>1, <2>2, <2>3, MovesSafe DEF LookupSlug, Typed, Transacted, Whole, Rows
<1> QED BY <1>1, <1>2, <1>3, <1>4

LEMMA EndSafe ==
  ASSUME AccountInv, Restart \/ TimePasses PROVE AccountInv'
<1>0. Typed /\ Transacted /\ Whole
  BY DEF AccountInv
<1>1. CASE Restart
  <2>1. Typed'
    BY <1>0, <1>1 DEF Restart, Forget, Typed, Pcs
  <2> QED BY <1>0, <1>1, <2>1, MovesSafe DEF Restart, Typed, Transacted, Whole, Rows, Unanswered
<1>2. CASE TimePasses
  <2>1. Typed'
    BY <1>0, <1>2 DEF TimePasses, Tick, accountVars, Typed
  <2> QED BY <1>0, <1>2, <2>1, MovesSafe DEF TimePasses, accountVars, Transacted, Whole
<1> QED BY <1>1, <1>2

(* An insert is refused if the value was committed, and waits while it is  *)
(* not: whoever gets past it is the only one that has it.                  *)
LEMMA InsertSafe ==
  ASSUME AccountInv, NEW r \in Requests, FlushUser(r) \/ FlushWorkspace(r)
  PROVE  AccountInv'
<1> USE DEF At, Goto, limiterVars
<1>0. Typed /\ Transacted /\ Whole /\ Sessions
  BY DEF AccountInv
<1>1. PICK row \in {"user", "workspace"}, next \in {"workspace", "member"}, same \in SUBSET Requests :
        /\ Insert(r, row, same, next)
        /\ \/ row = "user" /\ next = "workspace" /\ pc[r] = "user"
              /\ same = {o \in Requests : form[o] # NoForm /\ Email(o) = Email(r)}
           \/ row = "workspace" /\ next = "member" /\ pc[r] = "workspace"
              /\ same = {o \in Requests : Slug(o) = Slug(r)}
  BY DEF FlushUser, FlushWorkspace
<1>2. UNCHANGED <<form, suffix, stored, session, clock>>
  BY <1>1 DEF Insert
<1>3. CASE \E o \in same : row \in stored[o]
  <2>1. pc' = [pc EXCEPT ![r] = "failed"] /\ flushed' = [flushed EXCEPT ![r] = {}]
    BY <1>1, <1>3 DEF Insert
  <2>2. Typed'
    BY <1>0, <1>2, <2>1 DEF Typed, Pcs
  <2>3. \A o \in Requests : flushed'[o] = Rows(pc'[o]) /\ flushed'[o] \subseteq flushed[o]
    BY <1>0, <2>1 DEF Typed, Transacted, Rows
  <2>4. \A o \in Requests : pc'[o] = pc[o] \/ pc'[o] = "failed"
    BY <1>0, <2>1 DEF Typed
  <2>5. \A o \in Requests : pc'[o] # "new" => form'[o] # NoForm
    BY <1>0, <1>1, <1>2, <2>1 DEF Typed, Whole
  <2> QED BY <1>2, <2>2, <2>3, <2>4, <2>5, MovesSafe
<1>4. CASE \A o \in same : row \notin stored[o]
  <2>1. pc' = [pc EXCEPT ![r] = next] /\ flushed' = [flushed EXCEPT ![r] = @ \cup {row}]
    BY <1>1, <1>4 DEF Insert
  <2>2. Typed'
    BY <1>0, <1>2, <2>1 DEF Typed, Pcs, All
  <2>3. Transacted'
    BY <1>0, <1>1, <2>1 DEF Typed, Transacted, Rows
  <2>4. Whole' /\ Sessions'
    BY <1>0, <1>1, <1>2, <2>1 DEF Typed, Whole, Sessions
  <2>5. \A o \in same \ {r} : row \notin stored[o] \cup flushed[o]
    BY <1>1, <1>4 DEF Insert
  <2>6. /\ Inserted(row)' = Inserted(row) \cup {r}
        /\ \A other : other # row => Inserted(other)' = Inserted(other)
    BY <1>0, <1>2, <2>1 DEF Inserted, Typed
  <2>7. \A o \in Inserted("user") : form[o] # NoForm
    BY <1>0 DEF Inserted, Transacted, Whole, Rows
  <2>8. \A o \in Requests : Email(o)' = Email(o) /\ Slug(o)' = Slug(o)
    BY <1>2 DEF Email, Slug
  <2>9. AccountsDistinct'
    <3>1. CASE row = "user"
      <4>1. \A o \in Inserted("user") : o # r => Email(o) # Email(r)
        BY <1>1, <2>5, <2>7, <3>1 DEF Inserted
      <4> QED BY <2>6, <2>8, <3>1, <4>1 DEF AccountInv, AccountsDistinct, Inserted
    <3>2. CASE row = "workspace"
      <4>1. \A o \in Inserted("workspace") : o # r => Slug(o) # Slug(r)
        BY <1>1, <2>5, <3>2 DEF Inserted
      <4> QED BY <2>6, <2>8, <3>2, <4>1 DEF AccountInv, AccountsDistinct, Inserted
    <3> QED BY <3>1, <3>2
  <2> QED BY <2>2, <2>3, <2>4, <2>9 DEF AccountInv
<1> QED BY <1>3, <1>4

(* The commit, and the answers.                                            *)
LEMMA CommitSafe ==
  ASSUME AccountInv, NEW r \in Requests, Commit(r) PROVE AccountInv'
<1> USE DEF At, Goto, limiterVars
<1>0. Typed /\ Transacted /\ Whole /\ Sessions
  BY DEF AccountInv
<1>1. /\ pc[r] = "member" /\ pc' = [pc EXCEPT ![r] = "committed"]
      /\ flushed' = [flushed EXCEPT ![r] = {}] /\ UNCHANGED <<form, suffix, session, clock>>
  BY DEF Commit
<1>2. stored' = [stored EXCEPT ![r] = All] /\ flushed[r] = {"user", "workspace"}
  BY <1>0, <1>1 DEF Commit, Transacted, Rows, All
<1>3. Typed' /\ Transacted'
  BY <1>0, <1>1, <1>2 DEF Typed, Transacted, Pcs, Rows
<1>4. Whole' /\ Sessions'
  BY <1>0, <1>1, <1>2 DEF Typed, Whole, Sessions
<1>5. Inserted("user")' = Inserted("user") /\ Inserted("workspace")' = Inserted("workspace")
  BY <1>0, <1>1, <1>2 DEF Inserted, Typed, All
<1>6. AccountsDistinct'
  BY <1>1, <1>5 DEF AccountInv, AccountsDistinct, Email, Slug
<1> QED BY <1>3, <1>4, <1>6 DEF AccountInv

LEMMA AnswerSafe ==
  ASSUME AccountsAssumption, AccountInv, NEW r \in Requests, Authenticate(r) \/ Respond(r)
  PROVE  AccountInv'
<1> USE DEF At, Goto, limiterVars
<1>0. Typed /\ Transacted /\ Whole /\ Sessions
  BY DEF AccountInv
<1>1. /\ pc[r] \in {"authenticate", "committed"} /\ UNCHANGED <<clock, form, suffix, flushed, stored>>
      /\ \/ pc' = [pc EXCEPT ![r] = "answered"]
         \/ pc[r] = "authenticate" /\ pc' = [pc EXCEPT ![r] = "refused"]
  BY DEF Authenticate, Respond
<1>2. UNCHANGED session \/ \E u \in Requests : stored[u] = All /\ Answer(r, u)
  <2>1. CASE Respond(r)
    BY <1>0, <2>1 DEF Respond, Whole
  <2>2. CASE Authenticate(r)
    <3>1. \A u \in Users : u \in Requests /\ stored[u] = All
      BY <1>0 DEF Users, Whole
    <3> QED BY <2>2, <3>1 DEF Authenticate
  <2> QED BY <2>1, <2>2
<1>3. session' \in [Requests -> [user : SUBSET Requests, expires : Int]] /\ Sessions'
  <2>1. CASE UNCHANGED session
    BY <1>0, <1>1, <2>1 DEF Typed, Sessions
  <2>2. ASSUME NEW u \in Requests, stored[u] = All, Answer(r, u)
        PROVE  session' \in [Requests -> [user : SUBSET Requests, expires : Int]] /\ Sessions'
    <3> DEFINE cookie == [user |-> {u}, expires |-> clock + SessionAge]
    <3>1. cookie \in [user : SUBSET Requests, expires : Int] /\ cookie.user = {u}
      BY <1>0 DEF Typed, AccountsAssumption
    <3>2. session' = [session EXCEPT ![r] = cookie]
      BY <2>2 DEF Answer
    <3> HIDE DEF cookie
    <3> QED BY <1>0, <1>1, <2>2, <3>1, <3>2 DEF Typed, Sessions
  <2> QED BY <1>2, <2>1, <2>2
<1>4. Typed' /\ Transacted'
  BY <1>0, <1>1, <1>3 DEF Typed, Transacted, Pcs, Rows
<1>5. Whole'
  BY <1>0, <1>1 DEF Typed, Whole
<1>6. AccountsDistinct'
  BY <1>1 DEF AccountInv, AccountsDistinct, Inserted, Email, Slug
<1> QED BY <1>3, <1>4, <1>5, <1>6 DEF AccountInv

-----------------------------------------------------------------------------
LEMMA AccountsInductive ==
  AccountsAssumption /\ LimiterAssumption /\ AccountInv /\ [Next]_vars => AccountInv'
<1> SUFFICES ASSUME AccountsAssumption, LimiterAssumption, AccountInv, [Next]_vars PROVE AccountInv'
  OBVIOUS
<1>1. CASE UNCHANGED vars
  BY <1>1 DEF vars, limiterVars, accountVars, AccountInv, Typed, Transacted, Whole, Sessions,
              AccountsDistinct, Inserted, Email, Slug
<1>2. CASE Next
  BY <1>2, PlainSafe, EndSafe, InsertSafe, CommitSafe, AnswerSafe DEF Next, Handle
<1> QED BY <1>1, <1>2

LEMMA AccountsInit == Init => AccountInv
  BY DEF Init, LimiterInit, NoSession, AccountInv, Typed, Transacted, Whole, Sessions,
         AccountsDistinct, Inserted, Pcs, Rows, All

(* However registrations overlap, no two accounts share an e-mail or a     *)
(* slug (accounts.py 22-29, 45-66).                                        *)
THEOREM RegistrationsAreDistinct == Spec => []AccountsDistinct
<1>1. AccountInv => AccountsDistinct
  BY DEF AccountInv
<1> QED BY AccountsAssumption, LimiterAssumption, AccountsInit, AccountsInductive, <1>1, PTL DEF Spec

(* Whoever holds a session has a workspace, whatever failed or was         *)
(* restarted half-way (accounts.py 51-74, deps.py 11-46).                  *)
THEOREM SessionsAreComplete == Spec => []SessionHasWorkspace
<1>1. AccountInv => SessionHasWorkspace
  <2> SUFFICES ASSUME AccountInv, NEW r \in Requests, NEW u \in SessionUser(r, clock)
               PROVE  u \in Users /\ CurrentWorkspace(u) # {}
    BY DEF SessionHasWorkspace
  <2>1. u \in Requests /\ stored[u] = All
    BY DEF SessionUser, AccountInv, Sessions, Typed
  <2> QED BY <2>1 DEF Users, CurrentWorkspace, Members, Workspaces, All
<1> QED BY AccountsAssumption, LimiterAssumption, AccountsInit, AccountsInductive, <1>1, PTL DEF Spec

-----------------------------------------------------------------------------
(* The forms use the limiter as it is meant to be used, so what it         *)
(* promises holds of the whole (routes_auth.py, rate_limit.py).            *)
THEOREM FormsUseLimiter == Spec => LimiterSpec
<1>1. Init => LimiterInit
  BY DEF Init
<1>2. AccountsAssumption /\ [Next]_vars => [LimiterNext]_limiterVars
  <2> SUFFICES ASSUME AccountsAssumption, [Next]_vars PROVE [LimiterNext]_limiterVars
    OBVIOUS
  <2>1. CASE UNCHANGED vars
    BY <2>1 DEF vars
  <2>2. CASE TimePasses \/ Restart
    BY <2>2 DEF TimePasses, Restart, LimiterNext
  <2>3. ASSUME NEW r \in Requests, Arrive(r) PROVE LimiterNext
    BY <2>3 DEF Arrive, LimiterNext, AccountsAssumption
  <2>4. ASSUME NEW r \in Requests, Handle(r) PROVE LimiterNext \/ UNCHANGED limiterVars
    <3>1. CASE Enforce(r)
      BY <3>1 DEF Enforce, LimiterNext
    <3>2. CASE FlushUser(r) \/ FlushWorkspace(r)
      BY <3>2 DEF FlushUser, FlushWorkspace, Insert
    <3> QED BY <2>4, <3>1, <3>2 DEF Handle, Authenticate, LookupEmail, LookupSlug, Commit, Respond
  <2> QED BY <2>1, <2>2, <2>3, <2>4 DEF Next
<1> QED BY AccountsAssumption, <1>1, <1>2, PTL DEF Spec, LimiterSpec

(* Registrations and logins are admitted and rejected within the window    *)
(* (rate_limit.py 19-40).                                                  *)
COROLLARY FormsAreLimited == Spec => []SlidingWindow /\ RejectedForCause
BY FormsUseLimiter, AdmitsWithinWindow, RejectsForCause, PTL
=============================================================================
