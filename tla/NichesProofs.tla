---------------------------- MODULE NichesProofs ----------------------------
(***************************************************************************)
(* For any workspaces, names and requests, a niche is written by the       *)
(* workspace that owns it alone, and every keyword that was learned was    *)
(* heard often enough in its scope.                                        *)
(***************************************************************************)
EXTENDS Niches, SequenceTheorems, TLAPS

Sources == {"none", "builtin", "custom"}
Statuses == {"none", "pending", "active", "rejected", "archived"}
Definitions == [owner : Scopes, source : Sources, status : Statuses, writers : SUBSET Workspaces]

(* A slug that nobody has taken was written by nobody.                     *)
RowsOwned ==
  /\ rows \in [Slugs -> Definitions]
  /\ \A s \in Slugs : rows[s].writers \subseteq {rows[s].owner}
  /\ \A s \in Slugs : ~Taken(rows, s) => rows[s].writers = {}

(* Rows are never freed and never change hands.                            *)
Keeps(r) == \A s \in Slugs : Taken(rows, s) => Taken(r, s) /\ r[s].owner = rows[s].owner

(* A request that awaits a suggestion inserts a row, or writes its own.    *)
Awaited(r, w) ==
  /\ w.by \in Workspaces /\ w.new \in BOOLEAN
  /\ ~w.new /\ w.slug \in Slugs => Taken(r, w.slug) /\ r[w.slug].owner = w.by
ThreadsAwait ==
  /\ DOMAIN thread = Threads
  /\ \A t \in Threads : thread[t].pc = "suggest" => Awaited(rows, thread[t])

OwnerInv == RowsOwned /\ ThreadsAwait /\ profiles \subseteq Names

-----------------------------------------------------------------------------
LEMMA NoRowTyped ==
  ASSUME NEW status \in Statuses
  PROVE  LET row == [NoRow EXCEPT !.source = "builtin", !.status = status] IN
           /\ row \in Definitions /\ row.status = status /\ row.writers = {}
           /\ NoRow \in Definitions
BY DEF NoRow, Definitions, Sources, Statuses, Scopes

(* Looking the niches up takes slugs for profiles, and does no more.       *)
LEMMA SyncedOwned ==
  ASSUME RowsOwned
  PROVE  /\ Synced \in [Slugs -> Definitions]
         /\ Keeps(Synced)
         /\ \A s \in Slugs : /\ Synced[s].writers = rows[s].writers
                             /\ Taken(rows, s) => Synced[s].owner = rows[s].owner
                             /\ ~Taken(Synced, s) => ~Taken(rows, s)
                             /\ Synced[s].writers \subseteq {Synced[s].owner}
<1> DEFINE builtin == [NoRow EXCEPT !.source = "builtin", !.status = "active"]
<1>1. builtin \in Definitions /\ builtin.status = "active" /\ builtin.writers = {}
  BY NoRowTyped DEF Statuses
<1> HIDE DEF builtin
<1>2. \A s \in Slugs : LET row == [rows[s] EXCEPT !.source = "builtin"] IN
        /\ row \in Definitions /\ row.status = rows[s].status
        /\ row.writers = rows[s].writers /\ row.owner = rows[s].owner
  BY DEF RowsOwned, Definitions, Sources
<1>3. \A s \in Slugs : Synced[s] \in {rows[s], [rows[s] EXCEPT !.source = "builtin"], builtin}
                       /\ (Synced[s] = builtin => ~Taken(rows, s) \/ builtin \in {rows[s], [rows[s] EXCEPT !.source = "builtin"]})
  BY DEF Synced, builtin
<1>4. Synced \in [Slugs -> Definitions]
  <2>1. \A s \in Slugs : Synced[s] \in Definitions
    BY <1>1, <1>2, <1>3 DEF RowsOwned
  <2> QED BY <2>1 DEF Synced
<1>5. \A s \in Slugs : \/ /\ Synced[s].writers = rows[s].writers /\ Synced[s].owner = rows[s].owner
                          /\ Synced[s].status = rows[s].status
                       \/ ~Taken(rows, s) /\ Synced[s] = builtin
  <2> TAKE s \in Slugs
  <2>1. PICK row : row = [rows[s] EXCEPT !.source = "builtin"]
    OBVIOUS
  <2>2. row.status = rows[s].status /\ row.writers = rows[s].writers /\ row.owner = rows[s].owner
    BY <1>2, <2>1
  <2>3. /\ Synced[s] \in {rows[s], row, builtin}
        /\ Synced[s] = builtin => ~Taken(rows, s) \/ builtin \in {rows[s], row}
    BY <1>3, <2>1
  <2>4. Synced[s] \in {rows[s], row} \/ (~Taken(rows, s) /\ Synced[s] = builtin)
    BY <2>3
  <2> QED BY <2>2, <2>4
<1> QED BY <1>1, <1>4, <1>5 DEF RowsOwned, Keeps, Taken

LEMMA LookupOwned == ASSUME RowsOwned, rows' = Synced PROVE RowsOwned' /\ Keeps(rows')
BY SyncedOwned DEF RowsOwned, Taken

LEMMA DecisionOwned ==
  ASSUME RowsOwned, NEW w \in Workspaces, NEW s \in Slugs, NEW status \in Statuses \ {"none"},
         Decide(w, s, status)
  PROVE  RowsOwned' /\ Keeps(rows')
<1> DEFINE row == [Synced[s] EXCEPT !.status = status, !.writers = @ \cup {w}]
<1>1. Synced \in [Slugs -> Definitions] /\ Synced[s].owner = w
  BY SyncedOwned DEF Decide, Mutable
<1>2. row \in Definitions /\ row.status = status /\ row.owner = w /\ row.writers = Synced[s].writers \cup {w}
  BY <1>1 DEF Definitions
<1>3. rows' = [Synced EXCEPT ![s] = row]
  BY DEF Decide
<1> HIDE DEF row
<1> QED BY <1>1, <1>2, <1>3, SyncedOwned DEF RowsOwned, Keeps, Taken

LEMMA SaveOwned ==
  ASSUME OwnerInv, NEW t \in Threads, Save(t)
  PROVE  RowsOwned' /\ Keeps(rows')
<1>1. CASE UNCHANGED rows
  BY <1>1 DEF OwnerInv, RowsOwned, Keeps, Taken
<1>2. CASE ~UNCHANGED rows
  <2> DEFINE r == thread[t]
             row == [owner |-> IF r.new THEN r.by ELSE rows[r.slug].owner, source |-> "custom",
                     status |-> "pending", writers |-> rows[r.slug].writers \cup {r.by}]
  <2>1. Awaited(rows, r) /\ (r.new => ~Taken(rows, r.slug))
    BY <1>2 DEF Save, OwnerInv, ThreadsAwait
  <2>2. rows' = [rows EXCEPT ![r.slug] = row]
    BY <1>2 DEF Save
  <2>3. r.slug \in Slugs
    BY <1>2, <2>2 DEF OwnerInv, RowsOwned
  <2>4. rows[r.slug] \in Definitions /\ r.by \in Workspaces
    BY <2>1, <2>3 DEF Awaited, OwnerInv, RowsOwned
  <2>5. row \in Definitions /\ row.status = "pending" /\ row.owner = r.by
        /\ row.writers = rows[r.slug].writers \cup {r.by}
    BY <2>1, <2>3, <2>4 DEF Awaited, Definitions, Sources, Statuses, Scopes
  <2>6. rows[r.slug].writers \subseteq {r.by}
    BY <2>1, <2>3 DEF Awaited, OwnerInv, RowsOwned
  <2>7. Taken(rows, r.slug) => row.owner = rows[r.slug].owner
    BY <2>1, <2>3, <2>5 DEF Awaited
  <2> HIDE DEF row, r
  <2> QED BY <2>2, <2>3, <2>5, <2>6, <2>7 DEF OwnerInv, RowsOwned, Keeps, Taken
<1> QED BY <1>1, <1>2

(* A request that is proposed awaits a slug that is free, or its own row.  *)
LEMMA ProposalAwaits ==
  ASSUME OwnerInv, NEW t \in Threads, NEW w \in Workspaces, NEW name \in Names, Propose(t, w, name)
  PROVE  \/ UNCHANGED thread
         \/ \E r : thread' = [thread EXCEPT ![t] = r] /\ Awaited(Synced, r)
<1> DEFINE s == Slug(name, 1)
           request(u, new) == [pc |-> "suggest", by |-> w, slug |-> u, new |-> new]
<1>1. \A u, new : Await(t, w, u, new) => thread' = [thread EXCEPT ![t] = request(u, new)]
  BY DEF Await
<1>2. \A u : Awaited(Synced, request(u, TRUE))
  BY DEF Awaited
<1>3. Mutable(w, s) => Awaited(Synced, request(s, FALSE))
  BY DEF Awaited, Mutable, Sees
<1>4. \/ UNCHANGED thread
      \/ \E u : Await(t, w, u, TRUE)
      \/ Mutable(w, s) /\ Await(t, w, s, FALSE)
  BY DEF Propose
<1> HIDE DEF request, s
<1> QED BY <1>1, <1>2, <1>3, <1>4

(* A step that keeps the rows keeps what the requests await.               *)
LEMMA StillAwaited ==
  ASSUME NEW r, NEW s \in [Slugs -> Definitions], NEW w, Awaited(r, w),
         \A u \in Slugs : Taken(r, u) => Taken(s, u) /\ s[u].owner = r[u].owner
  PROVE  Awaited(s, w)
BY DEF Awaited

LEMMA ThreadsKept ==
  ASSUME OwnerInv, RowsOwned', Keeps(rows'), DOMAIN thread' = Threads,
         \A t \in Threads : \/ thread'[t] = thread[t] \/ thread'[t].pc # "suggest"
                            \/ Awaited(rows', thread'[t])
  PROVE  ThreadsAwait'
BY StillAwaited DEF OwnerInv, ThreadsAwait, RowsOwned, Keeps

-----------------------------------------------------------------------------
LEMMA OwnerInductive == NichesAssumption /\ OwnerInv /\ [Next]_vars => OwnerInv'
<1> SUFFICES ASSUME NichesAssumption, OwnerInv, [Next]_vars PROVE OwnerInv'
  OBVIOUS
<1>0. RowsOwned /\ DOMAIN thread = Threads /\ profiles \subseteq Names
  BY DEF OwnerInv, ThreadsAwait
<1>a. ASSUME UNCHANGED rows PROVE RowsOwned' /\ Keeps(rows')
  BY <1>0, <1>a DEF RowsOwned, Keeps, Taken
<1>b. Idle.pc = "idle"
  BY DEF Idle
<1>1. CASE UNCHANGED vars
  BY <1>0, <1>1, <1>a, ThreadsKept DEF vars, OwnerInv
<1>2. ASSUME NEW t \in Threads, NEW w \in Workspaces, NEW name \in Names, Propose(t, w, name)
      PROVE  OwnerInv'
  <2>1. rows' = Synced /\ UNCHANGED profiles
    BY <1>2 DEF Propose
  <2>2. RowsOwned' /\ Keeps(rows')
    BY <1>0, <2>1, LookupOwned
  <2> QED BY <1>0, <1>2, <2>1, <2>2, ProposalAwaits, ThreadsKept DEF OwnerInv
<1>3. ASSUME NEW t \in Threads, Save(t) PROVE OwnerInv'
  <2>1. RowsOwned' /\ Keeps(rows')
    BY <1>3, SaveOwned
  <2> QED BY <1>0, <1>3, <1>b, <2>1, ThreadsKept DEF Save, OwnerInv
<1>4. ASSUME NEW w \in Workspaces, NEW s \in Slugs, Approve(w, s) \/ Reject(w, s) \/ Archive(w, s)
      PROVE  OwnerInv'
  <2>1. PICK status \in {"active", "rejected", "archived"} : Decide(w, s, status)
    BY <1>4 DEF Approve, Reject, Archive
  <2>2. RowsOwned' /\ Keeps(rows')
    BY <1>0, <2>1, DecisionOwned DEF Statuses
  <2> QED BY <1>0, <2>1, <2>2, ThreadsKept DEF Decide, OwnerInv
<1>5. CASE Sync \/ \E j \in Jobs : Detect(j)
  <2>1. RowsOwned' /\ Keeps(rows') /\ UNCHANGED <<thread, profiles>>
    BY <1>0, <1>5, LookupOwned DEF Sync, Detect
  <2> QED BY <1>0, <2>1, ThreadsKept DEF OwnerInv
<1>6. CASE Deploy
  BY <1>0, <1>6, <1>a, <1>b, ThreadsKept DEF Deploy, OwnerInv, NichesAssumption
<1>7. ASSUME NEW j \in Jobs, Regenerate(j) PROVE OwnerInv'
  BY <1>0, <1>7, <1>a, ThreadsKept DEF Regenerate, OwnerInv
<1>8. ASSUME NEW t \in Threads, NEW scope, NEW niche, Learn(t, scope, niche) PROVE OwnerInv'
  BY <1>0, <1>8, <1>a, ThreadsKept DEF Learn, OwnerInv
<1>9. ASSUME NEW t \in Threads, SaveKeyword(t) PROVE OwnerInv'
  BY <1>0, <1>9, <1>a, <1>b, ThreadsKept DEF SaveKeyword, OwnerInv
<1> QED
  BY <1>1, <1>2, <1>3, <1>4, <1>5, <1>6, <1>7, <1>8, <1>9
  DEF Next, RecalibrateFromPage, Recalibrate, LearnKeywords

(* A niche is written by the workspace that proposed it alone, whichever   *)
(* requests overlap and whatever is deployed (niche_registry.py 303-382).  *)
THEOREM NichesHaveOneWriter == Spec => []OnlyOwnerWrites
<1>1. NichesAssumption /\ Init => OwnerInv
  <2> SUFFICES ASSUME NichesAssumption, Init PROVE OwnerInv
    OBVIOUS
  <2>1. NoRow \in Definitions /\ NoRow.writers = {}
    BY DEF NoRow, Definitions, Sources, Statuses, Scopes
  <2>2. RowsOwned
    BY <2>1 DEF Init, RowsOwned
  <2> QED BY <2>2 DEF Init, Idle, OwnerInv, ThreadsAwait, NichesAssumption
<1>2. OwnerInv => OnlyOwnerWrites
  BY DEF OwnerInv, RowsOwned, OnlyOwnerWrites
<1> QED BY NichesAssumption, <1>1, <1>2, OwnerInductive, PTL DEF Spec
-----------------------------------------------------------------------------
(* What a request has counted is what a keyword says, whatever becomes of  *)
(* the candidates and of the other rows in the meantime.                   *)
Lesson(x) ==
  /\ Cardinality(x.jobs) >= MinJobs /\ x.occurrences >= MinOccurrences
  /\ x.scope # Global => \A j \in x.jobs : OwnerOf[j] = x.scope
Lessons ==
  /\ DOMAIN thread = Threads
  /\ \A t \in Threads : thread[t].pc = "learn" => Lesson(thread[t])
  /\ \E S : keywords \in Seq(S)
  /\ \A k \in DOMAIN keywords : Lesson(keywords[k])

LEMMA LearnKeeps ==
  ASSUME Lessons, NEW t \in Threads, NEW scope, NEW niche, Learn(t, scope, niche) PROVE Lessons'
<1>1. PICK r : r = [pc |-> "learn", scope |-> scope, niche |-> niche, found |-> Rows(scope, niche),
                    occurrences |-> Occurrences(scope), jobs |-> Heard(scope)]
  OBVIOUS
<1>2. thread' = [thread EXCEPT ![t] = r] /\ Earned(scope) /\ UNCHANGED keywords
  BY <1>1 DEF Learn
<1>3. r.scope = scope /\ r.occurrences = Occurrences(scope) /\ r.jobs = Heard(scope)
  BY <1>1
<1>4. scope # Global => \A j \in Heard(scope) : OwnerOf[j] = scope
  BY DEF Heard
<1>5. Lesson(r)
  BY <1>2, <1>3, <1>4 DEF Lesson, Earned
<1> QED BY <1>2, <1>5 DEF Lessons, Lesson

LEMMA SaveKeeps ==
  ASSUME Lessons, NEW t \in Threads, SaveKeyword(t) PROVE Lessons'
<1>1. PICK row : row = [scope |-> thread[t].scope, niche |-> thread[t].niche,
                        occurrences |-> thread[t].occurrences, jobs |-> thread[t].jobs]
  OBVIOUS
<1>2. Lesson(row)
  <2>1. Lesson(thread[t])
    BY DEF Lessons, SaveKeyword
  <2> QED BY <1>1, <2>1 DEF Lesson
<1>3. PICK k0 : \/ keywords' = Append(keywords, row)
                \/ keywords' = [keywords EXCEPT ![k0] = row]
  BY <1>1 DEF SaveKeyword
<1>4. PICK S : keywords \in Seq(S) /\ row \in S
  <2>1. PICK S0 : keywords \in Seq(S0)
    BY DEF Lessons
  <2>2. keywords \in Seq(S0 \cup {row})
    BY <2>1, SeqDef
  <2> QED BY <2>2
<1>5. (\E S1 : keywords' \in Seq(S1)) /\ \A k \in DOMAIN keywords' : Lesson(keywords'[k])
  <2>1. PICK n \in Nat : n = Len(keywords) /\ DOMAIN keywords = 1..n /\ keywords \in [1..n -> S]
    BY <1>4, LenProperties
  <2>2. CASE keywords' = Append(keywords, row)
    <3>1. /\ Append(keywords, row) \in Seq(S) /\ DOMAIN Append(keywords, row) = 1..(n + 1)
          /\ Append(keywords, row)[n + 1] = row
          /\ \A i \in 1..n : Append(keywords, row)[i] = keywords[i]
      <4>1. Append(keywords, row) \in Seq(S) /\ Len(Append(keywords, row)) = n + 1
        BY <1>4, <2>1, AppendProperties
      <4> QED BY <1>4, <2>1, <4>1, AppendProperties, LenProperties
    <3>2. \A i \in 1..(n + 1) : i \in 1..n \/ i = n + 1
      OBVIOUS
    <3> QED BY <1>2, <2>1, <2>2, <3>1, <3>2 DEF Lessons
  <2>3. CASE keywords' = [keywords EXCEPT ![k0] = row]
    <3>1. keywords' \in [1..n -> S]
      BY <1>4, <2>1, <2>3
    <3>2. keywords' \in Seq(S)
      BY <3>1, SeqDef
    <3> QED BY <1>2, <2>1, <2>3, <3>1, <3>2 DEF Lessons
  <2> QED BY <1>3, <2>2, <2>3
<1>6. DOMAIN thread' = Threads /\ \A u \in Threads : thread'[u].pc = "learn" => thread'[u] = thread[u]
  BY DEF SaveKeyword, Lessons, Idle
<1> QED BY <1>5, <1>6 DEF Lessons, Lesson

(* A word that was learned was heard often enough, and in videos of its    *)
(* scope, whichever candidates are made again while it is written          *)
(* (niche_learning.py 45-106).                                             *)
THEOREM KeywordsAreEarned == Spec => []KeywordsEarned
<1>1. Init => Lessons
  <2>1. <<>> \in Seq({}) /\ DOMAIN <<>> = {}
    BY EmptySeq
  <2> QED BY <2>1 DEF Init, Lessons, Idle
<1>2. Lessons /\ [Next]_vars => Lessons'
  <2> SUFFICES ASSUME Lessons, [Next]_vars PROVE Lessons'
    OBVIOUS
  <2>1. ASSUME UNCHANGED keywords, DOMAIN thread' = Threads,
               \A t \in Threads : thread'[t].pc = "learn" => thread'[t] = thread[t]
        PROVE  Lessons'
    BY <2>1 DEF Lessons, Lesson
  <2>2. ASSUME NEW t \in Threads, NEW w \in Workspaces, NEW name \in Names, Propose(t, w, name) PROVE Lessons'
    BY <2>1, <2>2 DEF Propose, Await, Lessons
  <2>3. ASSUME NEW t \in Threads, Save(t) PROVE Lessons'
    BY <2>1, <2>3 DEF Save, Idle, Lessons
  <2>4. ASSUME NEW t \in Threads, SaveKeyword(t) PROVE Lessons'
    BY <2>4, SaveKeeps
  <2>5. ASSUME NEW t \in Threads, RecalibrateFromPage(t) \/ Recalibrate(t) \/ LearnKeywords(t) PROVE Lessons'
    BY <2>5, LearnKeeps DEF RecalibrateFromPage, Recalibrate, LearnKeywords
  <2>6. ASSUME NEW w \in Workspaces, NEW s \in Slugs, Approve(w, s) \/ Reject(w, s) \/ Archive(w, s)
        PROVE  Lessons'
    BY <2>1, <2>6 DEF Approve, Reject, Archive, Decide, Lessons
  <2>7. CASE Sync \/ \E j \in Jobs : Detect(j) \/ Regenerate(j)
    BY <2>1, <2>7 DEF Sync, Detect, Regenerate, Lessons
  <2>8. CASE Deploy
    BY <2>1, <2>8 DEF Deploy, Idle
  <2>9. CASE UNCHANGED vars
    BY <2>1, <2>9 DEF vars, Lessons
  <2> QED BY <2>2, <2>3, <2>4, <2>5, <2>6, <2>7, <2>8, <2>9 DEF Next
<1>3. Lessons => KeywordsEarned
  BY DEF Lessons, Lesson, KeywordsEarned
<1> QED BY <1>1, <1>2, <1>3, PTL DEF Spec
=============================================================================
