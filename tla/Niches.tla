------------------------------ MODULE Niches ------------------------------
(***************************************************************************)
(* The registry of niches (services/niche_registry.py), that workspaces    *)
(* share, the niche that is detected for a job (niche_classifier.py), and  *)
(* the keywords that are learned for a niche (niche_learning.py).          *)
(*                                                                         *)
(* Learning treats every word alone: one word is modelled, by the number   *)
(* of candidates of each job that have a high score and contain it.        *)
(***************************************************************************)
EXTENDS Integers, Sequences, FiniteSets, Functions

CONSTANTS
  Workspaces,
  Global,       \* workspace_id is null
  Threads,      \* of the web process
  Jobs,
  OwnerOf,      \* the workspace of each job
  Names,        \* what names of niches are normalised to, with that of ...
  Fallback,     \* ... the niche "geral"
  OldProfiles,  \* NICHE_PROFILES of the version that runs first, ...
  NewProfiles,  \* ... and of the one that is deployed later
  MinOccurrences, MinJobs,
  MaxSaid,      \* bound: candidates of a job that contain the word
  MaxCopies,    \* bound: niches that are given one name, keywords
  MaxRequests   \* bound: niches that are proposed, and times that words are learned

ASSUME NichesAssumption ==
  /\ Global \notin Workspaces
  /\ OwnerOf \in [Jobs -> Workspaces]
  /\ Fallback \in OldProfiles /\ OldProfiles \subseteq NewProfiles /\ NewProfiles \subseteq Names
  /\ {MinOccurrences, MinJobs, MaxSaid, MaxCopies, MaxRequests} \subseteq Nat

VARIABLES
  rows,      \* niche_definitions, by slug, that is unique
  profiles,  \* the profiles of the version that runs
  thread,    \* the request of each thread
  detected,  \* jobs.detected_niche
  said,      \* candidates of each job that have a high score and the word
  keywords,  \* niche_keywords, in the order of their ids
  requests

vars == <<rows, profiles, thread, detected, said, keywords, requests>>

Slug(name, n) == <<name, n>>
Slugs == Names \X (1..MaxCopies)
Scopes == Workspaces \cup {Global}
NoRow == [owner |-> Global, source |-> "none", status |-> "none", writers |-> {}]
Idle == [pc |-> "idle"]

Init ==
  /\ rows = [s \in Slugs |-> NoRow]
  /\ profiles = OldProfiles
  /\ thread = [t \in Threads |-> Idle]
  /\ detected = [j \in Jobs |-> Slug(Fallback, 1)]
  /\ said = [j \in Jobs |-> 0]
  /\ keywords = <<>>
  /\ requests = 0

Taken(r, s) == r[s].status # "none"
Active(r) == {s \in Slugs : r[s].status = "active"}

(* sync_builtin_niches, that every lookup begins with.  A row that has the *)
(* slug of a profile becomes builtin, and stays that of its workspace.     *)
(* (writers is history: the workspaces whose requests wrote the row)       *)
Synced == [s \in Slugs |->
  CASE s \notin {Slug(p, 1) : p \in profiles} -> rows[s]
    [] Taken(rows, s) -> [rows[s] EXCEPT !.source = "builtin"]
    [] OTHER -> [NoRow EXCEPT !.source = "builtin", !.status = "active"]]

(* get_niche_definition_by_slug, and _get_mutable_niche_by_slug            *)
Sees(w, s) == Taken(Synced, s) /\ Synced[s].owner \in {w, Global}
MutableIfSeen(w, s) == Sees(w, s)
Mutable(w, s) == Sees(w, s) /\ Synced[s].owner = w

-----------------------------------------------------------------------------
(* create_pending_niche: the row is looked up, ...                         *)
Free(name) == {n \in 1..MaxCopies : ~Taken(Synced, Slug(name, n))}
FirstFree(name) == CHOOSE n \in Free(name) : \A k \in Free(name) : n <= k

Await(t, w, s, new) == thread' = [thread EXCEPT ![t] = [pc |-> "suggest", by |-> w, slug |-> s, new |-> new]]

Propose(t, w, name) ==
  LET s == Slug(name, 1) IN
  /\ thread[t] = Idle /\ requests < MaxRequests /\ requests' = requests + 1
  /\ rows' = Synced
  /\ \/ ~Sees(w, s) /\ Await(t, w, s, TRUE)
     \/ Sees(w, s) /\ ~Mutable(w, s) /\ Free(name) # {} /\ Await(t, w, Slug(name, FirstFree(name)), TRUE)
     \/ Mutable(w, s) /\ Synced[s].status \notin {"active", "pending"} /\ Await(t, w, s, FALSE)
     \/ Mutable(w, s) /\ Synced[s].status \in {"active", "pending"} /\ UNCHANGED thread
  /\ UNCHANGED <<profiles, detected, said, keywords>>

(* ... the LLM suggests keywords or fails, and the row is inserted, unless *)
(* the slug is taken meanwhile, or is that of a row of another workspace,  *)
(* or the row that was read is written, whatever it is now.                *)
Save(t) ==
  /\ thread[t].pc = "suggest"
  /\ LET r == thread[t] IN
       \/ UNCHANGED rows
       \/ /\ r.new => ~Taken(rows, r.slug)
          /\ rows' = [rows EXCEPT ![r.slug] =
                [owner |-> IF r.new THEN r.by ELSE @.owner, source |-> "custom", status |-> "pending",
                 writers |-> @.writers \cup {r.by}]]
  /\ thread' = [thread EXCEPT ![t] = Idle]
  /\ UNCHANGED <<profiles, detected, said, keywords, requests>>

(* approve_niche, reject_niche, archive_niche                              *)
Decide(w, s, status) ==
  /\ Mutable(w, s)
  /\ rows' = [Synced EXCEPT ![s].status = status, ![s].writers = @ \cup {w}]
  /\ UNCHANGED <<profiles, thread, detected, said, keywords, requests>>
Approve(w, s) == Decide(w, s, "active")
Reject(w, s) == Decide(w, s, "rejected")
Archive(w, s) == s # Slug(Fallback, 1) /\ Decide(w, s, "archived")

(* The niches are looked up by any request or worker.                      *)
Sync ==
  /\ rows' = Synced
  /\ UNCHANGED <<profiles, thread, detected, said, keywords, requests>>

(* A version with other profiles is deployed, and every process starts.    *)
Deploy ==
  /\ profiles' = NewProfiles
  /\ thread' = [t \in Threads |-> Idle]
  /\ UNCHANGED <<rows, detected, said, keywords, requests>>

-----------------------------------------------------------------------------
(* The step "analyzing" of a job: detect_niche counts the keywords of the  *)
(* active niches of every workspace in the transcript, ...                 *)
Detect(j) ==
  /\ rows' = Synced
  /\ \E s \in Active(Synced) \cup {Slug(Fallback, 1)} : detected' = [detected EXCEPT ![j] = s]
  /\ UNCHANGED <<profiles, thread, said, keywords, requests>>

(* ... and candidates with other texts and scores replace those of the job *)
Regenerate(j) ==
  /\ \E n \in 0..MaxSaid : said' = [said EXCEPT ![j] = n]
  /\ UNCHANGED <<rows, profiles, thread, detected, keywords, requests>>

(* learn_keywords_for_niche: the candidates of a workspace, or of all,     *)
(* whatever their niche, are counted and the row of the word is looked up, *)
(* ...                                                                     *)
HeardByAnyone(scope) == {j \in Jobs : said[j] > 0}
Heard(scope) == {j \in Jobs : scope \in {OwnerOf[j], Global} /\ said[j] > 0}
Occurrences(scope) == FoldFunctionOnSet(LAMBDA x, y : x + y, 0, said, Heard(scope))
Earned(scope) == Occurrences(scope) >= MinOccurrences /\ Cardinality(Heard(scope)) >= MinJobs

Rows(scope, s) == {k \in DOMAIN keywords : keywords[k].scope = scope /\ keywords[k].niche = s}

Learn(t, scope, niche) ==
  /\ thread[t] = Idle /\ requests < MaxRequests /\ requests' = requests + 1
  /\ niche # Slug(Fallback, 1) /\ Earned(scope)
  /\ thread' = [thread EXCEPT ![t] =
        [pc |-> "learn", scope |-> scope, niche |-> niche, found |-> Rows(scope, niche),
         occurrences |-> Occurrences(scope), jobs |-> Heard(scope)]]
  /\ UNCHANGED <<rows, profiles, detected, said, keywords>>

(* ... for the niche of a job, by the page, that names no workspace, or by *)
(* the API, or for any niche; ...                                          *)
RecalibrateFromPage(t) == \E j \in Jobs : Learn(t, Global, detected[j])
Recalibrate(t) == \E j \in Jobs : Learn(t, OwnerOf[j], detected[j])
LearnKeywords(t) == \E w \in Workspaces, s \in Slugs : Learn(t, w, s)

(* ... the row is updated or inserted.  (No row is ever made inactive.)    *)
SaveKeyword(t) ==
  /\ thread[t].pc = "learn"
  /\ LET r == thread[t]
         row == [scope |-> r.scope, niche |-> r.niche, occurrences |-> r.occurrences, jobs |-> r.jobs]
     IN keywords' = IF r.found = {} THEN Append(keywords, row)
                    ELSE [keywords EXCEPT ![CHOOSE k \in r.found : \A n \in r.found : k <= n] = row]
  /\ thread' = [thread EXCEPT ![t] = Idle]
  /\ UNCHANGED <<rows, profiles, detected, said, requests>>

(* get_learned_keywords_for_niche: what an analysis for w scores with      *)
Used(w, s) == {k \in DOMAIN keywords : keywords[k].scope \in {w, Global} /\ keywords[k].niche = s}

Next ==
  \/ \E t \in Threads :
       \/ \E w \in Workspaces, name \in Names : Propose(t, w, name)
       \/ Save(t) \/ SaveKeyword(t)
       \/ RecalibrateFromPage(t) \/ Recalibrate(t) \/ LearnKeywords(t)
  \/ \E w \in Workspaces, s \in Slugs : Approve(w, s) \/ Reject(w, s) \/ Archive(w, s)
  \/ Sync \/ Deploy
  \/ \E j \in Jobs : Detect(j) \/ Regenerate(j)

Spec == Init /\ [][Next]_vars

-----------------------------------------------------------------------------
TypeOK ==
  /\ rows \in [Slugs -> [owner : Scopes, source : {"none", "builtin", "custom"},
                        status : {"none", "pending", "active", "rejected", "archived"},
                        writers : SUBSET Workspaces]]
  /\ \A s \in Slugs : rows[s].owner = Global =>
       rows[s] \in {NoRow, [NoRow EXCEPT !.source = "builtin", !.status = "active"]}
  /\ profiles \in {OldProfiles, NewProfiles} /\ requests \in 0..MaxRequests
  /\ \A t \in Threads : thread[t].pc \in {"idle", "suggest", "learn"}
  /\ detected \in [Jobs -> Slugs] /\ said \in [Jobs -> 0..MaxSaid]
  /\ keywords \in Seq([scope : Scopes, niche : Slugs, occurrences : 1..MaxSaid * Cardinality(Jobs),
                       jobs : SUBSET Jobs])

(* A niche is written by requests of the workspace that proposed it alone, *)
(* and one of NICHE_PROFILES that no workspace proposed first by nobody's: *)
(* while workspaces propose the same name at once, while a suggestion is   *)
(* awaited, and when a deployment makes a name that of a profile           *)
(* (niche_registry.py 303-382).                                            *)
OnlyOwnerWrites == \A s \in Slugs : rows[s].writers \subseteq {rows[s].owner}

(* A word that was learned for a workspace was heard in several videos,    *)
(* all of that workspace (niche_learning.py 45-106).                       *)
KeywordsEarned ==
  \A k \in DOMAIN keywords :
    /\ Cardinality(keywords[k].jobs) >= MinJobs /\ keywords[k].occurrences >= MinOccurrences
    /\ keywords[k].scope # Global => \A j \in keywords[k].jobs : OwnerOf[j] = keywords[k].scope

(* All learning is isolated per workspace.                                 *)
LearnsFromOwn == \A w \in Workspaces, s \in Slugs, k \in 1..Len(keywords) :
  k \in Used(w, s) => \E j \in keywords[k].jobs : OwnerOf[j] = w
=============================================================================
