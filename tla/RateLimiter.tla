---------------------------- MODULE RateLimiter ----------------------------
(***************************************************************************)
(* InMemoryRateLimiter of app/services/rate_limit.py, used by the threads  *)
(* of one web process.  A request reads the clock before it takes the lock *)
(* of the limiter, so requests may pass the lock in another order than     *)
(* that of their times.  Where the code keeps the times of the admitted    *)
(* requests in the bucket of a key, the model keeps the requests.          *)
(***************************************************************************)
EXTENDS Integers, Sequences, FiniteSets

CONSTANTS
  Requests,   \* calls of enforce_rate_limit
  Keys,       \* build_rate_limit_key: rule, address, path and e-mail
  Limit,      \* the limit of the rule of each key
  Window,     \* its window_seconds
  MaxSkew,    \* bound: how long a request may wait between clock and lock
  MaxTime,    \* bound: the last time
  NoKey
ASSUME LimiterAssumption ==
  /\ IsFiniteSet(Requests) /\ NoKey \notin Keys
  /\ Limit \in [Keys -> Nat \ {0}] /\ Window \in [Keys -> Nat \ {0}]
  /\ MaxSkew \in Nat /\ MaxTime \in Nat \ {0}

VARIABLES
  clock,     \* time.time()
  stamp,     \* now of each request
  key,       \* its key
  verdict,   \* new, waiting (for the lock), admitted, rejected or lost
  bucket     \* _events

limiterVars == <<clock, stamp, key, verdict, bucket>>

Admitted(k) == {r \in Requests : verdict[r] = "admitted" /\ key[r] = k}

LimiterInit ==
  /\ clock = 1
  /\ stamp = [r \in Requests |-> 0]
  /\ key = [r \in Requests |-> NoKey]
  /\ verdict = [r \in Requests |-> "new"]
  /\ bucket = [k \in Keys |-> <<>>]

-----------------------------------------------------------------------------
(* No request waits for the lock for more than MaxSkew.                    *)
Tick ==
  /\ clock < MaxTime
  /\ \A r \in Requests : verdict[r] = "waiting" => clock < stamp[r] + MaxSkew
  /\ clock' = clock + 1
  /\ UNCHANGED <<stamp, key, verdict, bucket>>

ReadClock(r, k) ==
  /\ verdict[r] = "new"
  /\ key' = [key EXCEPT ![r] = k]
  /\ stamp' = [stamp EXCEPT ![r] = clock]
  /\ verdict' = [verdict EXCEPT ![r] = "waiting"]
  /\ UNCHANGED <<clock, bucket>>

(* The while loop pops n entries: those at the head that are too old.      *)
PopsNothing(b, n, start) == n = 0
Pops(b, n, start) ==
  /\ \A i \in 1..n : stamp[b[i]] <= start
  /\ n < Len(b) => stamp[b[n + 1]] > start

FullOneMore(k, n) == Len(bucket[k]) - n > Limit[k]
Full(k, n) == Len(bucket[k]) - n >= Limit[k]

(* Both outcomes keep what was popped.                                     *)
Admit(r, k, n) ==
  /\ ~Full(k, n)
  /\ bucket' = [bucket EXCEPT ![k] = Append(SubSeq(bucket[k], n + 1, Len(bucket[k])), r)]
  /\ verdict' = [verdict EXCEPT ![r] = "admitted"]

Reject(r, k, n) ==
  /\ Full(k, n)
  /\ bucket' = [bucket EXCEPT ![k] = SubSeq(bucket[k], n + 1, Len(bucket[k]))]
  /\ verdict' = [verdict EXCEPT ![r] = "rejected"]

CheckBucket(r) ==
  /\ verdict[r] = "waiting"
  /\ LET k == key[r] IN
       \E n \in 0..Len(bucket[k]) :
         /\ Pops(bucket[k], n, stamp[r] - Window[k])
         /\ Admit(r, k, n) \/ Reject(r, k, n)
  /\ UNCHANGED <<clock, stamp, key>>

(* The buckets live in the memory of the process: a restart forgets them,  *)
(* and every request that was in progress.                                 *)
Forget ==
  /\ bucket' = [k \in Keys |-> <<>>]
  /\ verdict' = [r \in Requests |-> IF verdict[r] = "new" THEN "new" ELSE "lost"]
  /\ stamp' = [r \in Requests |-> 0]
  /\ key' = [r \in Requests |-> NoKey]
  /\ UNCHANGED clock

LimiterNext ==
  \/ Tick
  \/ Forget
  \/ \E r \in Requests : (\E k \in Keys : ReadClock(r, k)) \/ CheckBucket(r)

LimiterSpec == LimiterInit /\ [][LimiterNext]_limiterVars

-----------------------------------------------------------------------------
Verdicts == {"new", "waiting", "admitted", "rejected", "lost"}

LimiterTypeOK ==
  /\ clock \in 1..MaxTime
  /\ stamp \in [Requests -> 0..MaxTime]
  /\ key \in [Requests -> Keys \cup {NoKey}]
  /\ \A r \in Requests : verdict[r] \notin {"new", "lost"} => key[r] \in Keys
  /\ verdict \in [Requests -> Verdicts]
  /\ bucket \in [Keys -> Seq(Requests)]

(* A bucket never drops a request that a later one still has to count,     *)
(* whatever order they come in: of the requests of one key with times in   *)
(* any interval of Window - MaxSkew, at most Limit are admitted            *)
(* (rate_limit.py 25-34).                                                  *)
AdmittedWithin(k, from, to) == {r \in Admitted(k) : from < stamp[r] /\ stamp[r] <= to}
SlidingWindow ==
  \A k \in Keys, t \in 0..MaxTime :
    Cardinality(AdmittedWithin(k, t, t + Window[k] - MaxSkew)) <= Limit[k]

(* Entries behind an unexpired head are counted although they may be too   *)
(* old, but by MaxSkew at most: whoever is rejected finds Limit requests   *)
(* admitted within the window and that much before it (rate_limit.py       *)
(* 30-33).                                                                 *)
RejectedForCause ==
  [][\A r \in Requests :
       verdict[r] = "waiting" /\ verdict'[r] = "rejected" =>
         Cardinality({a \in Admitted(key[r]) : stamp[a] > stamp[r] - Window[key[r]] - MaxSkew})
           >= Limit[key[r]]]_limiterVars
=============================================================================
