------------------------------ MODULE Accounts ------------------------------
(***************************************************************************)
(* The forms /register and /login: web/routes_auth.py, services/auth.py,   *)
(* services/accounts.py and api/deps.py, behind the limiter.               *)
(*                                                                         *)
(* A registration looks for its e-mail and for a free slug, and then       *)
(* inserts a user, a workspace and a membership in one transaction; the    *)
(* unique columns of the tables decide between concurrent registrations.   *)
(***************************************************************************)
EXTENDS RateLimiter

CONSTANTS
  Forms,      \* what is sent: the rule and normalized e-mail, the base of the
              \* slug of the workspace, and whether the password is right (long
              \* enough, for a registration) and the e-mail given
  SessionAge  \* settings.session_max_age_seconds

(* A slug is a sequence: the base and its suffix.  A name may end in a     *)
(* number itself, and its base is then the suffixed slug of another name.  *)
Suffixed(base, n) == IF n = 1 THEN base ELSE Append(base, n)

ASSUME AccountsAssumption ==
  /\ \A f \in Forms : f.key \in Keys /\ f.key[1] \in {"register", "login"}
                      /\ f.valid \in BOOLEAN /\ f.name \in Seq(Nat \ {0})
  /\ SessionAge \in Nat

VARIABLES
  form,     \* the form of each request
  pc,       \* where the request is
  suffix,   \* of build_unique_workspace_slug
  flushed,  \* rows of the request in its open transaction
  stored,   \* rows of the request that are committed
  session   \* the cookie it is answered with

accountVars == <<form, pc, suffix, flushed, stored, session>>
vars == <<limiterVars, accountVars>>

NoForm == [key |-> NoKey, valid |-> FALSE, name |-> <<>>]
NoSession == [user |-> {}, expires |-> 0]

Email(r) == form[r].key[2]
IsLogin(r) == form[r].key[1] = "login"
Slug(r) == Suffixed(form[r].name, suffix[r])

(* The tables: a row is known by the registration that inserted it.        *)
Users == {r \in Requests : "user" \in stored[r]}
Workspaces == {r \in Requests : "workspace" \in stored[r]}
Members == {r \in Requests : "member" \in stored[r]}

Init ==
  /\ LimiterInit
  /\ form = [r \in Requests |-> NoForm]
  /\ pc = [r \in Requests |-> "new"]
  /\ suffix = [r \in Requests |-> 1]
  /\ flushed = [r \in Requests |-> {}]
  /\ stored = [r \in Requests |-> {}]
  /\ session = [r \in Requests |-> NoSession]

Goto(r, label) == pc' = [pc EXCEPT ![r] = label]
At(r, label) == pc[r] = label

-----------------------------------------------------------------------------
Arrive(r) ==
  /\ At(r, "new")
  /\ \E f \in Forms : form' = [form EXCEPT ![r] = f] /\ ReadClock(r, f.key)
  /\ Goto(r, "limit")
  /\ UNCHANGED <<suffix, flushed, stored, session>>

(* Status 429 unless admitted.  A login goes on with authenticate_user, a  *)
(* registration with hash_password.                                        *)
Enforce(r) ==
  /\ At(r, "limit")
  /\ CheckBucket(r)
  /\ Goto(r, IF verdict'[r] = "rejected" THEN "refused"
             ELSE IF IsLogin(r) THEN "authenticate" ELSE "email")
  /\ UNCHANGED <<form, suffix, flushed, stored, session>>

(* attach_session_cookie *)
Answer(r, user) ==
  session' = [session EXCEPT ![r] = [user |-> {user}, expires |-> clock + SessionAge]]

Authenticate(r) ==
  /\ At(r, "authenticate")
  /\ LET found == {u \in Users : Email(u) = Email(r)} IN
       IF found # {} /\ form[r].valid
         THEN Goto(r, "answered") /\ \E u \in found : Answer(r, u)
         ELSE Goto(r, "refused") /\ UNCHANGED session
  /\ UNCHANGED <<limiterVars, form, suffix, flushed, stored>>

(* hash_password, the first checks, and the lookup of the e-mail.          *)
LookupEmail(r) ==
  /\ At(r, "email")
  /\ Goto(r, IF form[r].valid /\ \A u \in Users : Email(u) # Email(r)
             THEN "slug" ELSE "refused")
  /\ UNCHANGED <<limiterVars, form, suffix, flushed, stored, session>>

(* One turn of the loop of build_unique_workspace_slug.                    *)
LookupSlug(r) ==
  /\ At(r, "slug")
  /\ IF \E w \in Workspaces : Slug(w) = Slug(r)
       THEN suffix' = [suffix EXCEPT ![r] = @ + 1] /\ UNCHANGED pc
       ELSE Goto(r, "user") /\ UNCHANGED suffix
  /\ UNCHANGED <<limiterVars, form, flushed, stored, session>>

(* An insert of a value that another transaction has inserted waits for    *)
(* the end of that transaction; if the value is committed, it fails: the   *)
(* IntegrityError is no ValueError, so the request ends with a rollback    *)
(* and an error (get_db).                                                  *)
InsertUnconstrained(r, row, same, next) ==
  /\ Goto(r, next) /\ flushed' = [flushed EXCEPT ![r] = @ \cup {row}]
  /\ UNCHANGED <<limiterVars, form, suffix, stored, session>>
Insert(r, row, same, next) ==
  /\ \A o \in same \ {r} : row \notin flushed[o]
  /\ IF \E o \in same : row \in stored[o]
       THEN Goto(r, "failed") /\ flushed' = [flushed EXCEPT ![r] = {}]
       ELSE Goto(r, next) /\ flushed' = [flushed EXCEPT ![r] = @ \cup {row}]
  /\ UNCHANGED <<limiterVars, form, suffix, stored, session>>

FlushUserCommits(r) ==
  /\ At(r, "user") /\ \A u \in Users : Email(u) # Email(r)
  /\ stored' = [stored EXCEPT ![r] = {"user"}]
  /\ Goto(r, "workspace")
  /\ UNCHANGED <<limiterVars, form, suffix, flushed, session>>
FlushUser(r) ==
  At(r, "user") /\ Insert(r, "user", {o \in Requests : form[o] # NoForm /\ Email(o) = Email(r)}, "workspace")

FlushWorkspace(r) ==
  At(r, "workspace") /\ Insert(r, "workspace", {o \in Requests : Slug(o) = Slug(r)}, "member")

(* The membership and the commit.                                          *)
Commit(r) ==
  /\ At(r, "member")
  /\ stored' = [stored EXCEPT ![r] = flushed[r] \cup {"member"}]
  /\ flushed' = [flushed EXCEPT ![r] = {}]
  /\ Goto(r, "committed")
  /\ UNCHANGED <<limiterVars, form, suffix, session>>

Respond(r) ==
  /\ At(r, "committed")
  /\ Answer(r, r)
  /\ Goto(r, "answered")
  /\ UNCHANGED <<limiterVars, form, suffix, flushed, stored>>

(* The web process ends and starts again: open transactions are rolled     *)
(* back, and the limiter forgets.                                          *)
Unanswered(r) == pc[r] \notin {"new", "answered", "refused", "failed"}
Restart ==
  /\ \E r \in Requests : Unanswered(r)
  /\ Forget
  /\ pc' = [r \in Requests |-> IF Unanswered(r) THEN "failed" ELSE pc[r]]
  /\ flushed' = [r \in Requests |-> {}]
  /\ UNCHANGED <<form, suffix, stored, session>>

TimePasses == Tick /\ UNCHANGED accountVars

Handle(r) ==
  \/ Enforce(r) \/ Authenticate(r) \/ LookupEmail(r) \/ LookupSlug(r)
  \/ FlushUser(r) \/ FlushWorkspace(r) \/ Commit(r) \/ Respond(r)

Next ==
  \/ TimePasses
  \/ Restart
  \/ \E r \in Requests : Arrive(r) \/ Handle(r)

Spec == Init /\ [][Next]_vars

-----------------------------------------------------------------------------
(* parse_session_token and get_current_user: whose session it is at time t.*)
SessionUser(r, t) == IF session[r].expires < t THEN {} ELSE session[r].user

(* get_current_workspace: the first workspace the user is a member of.     *)
CurrentWorkspace(u) == {w \in Members \cap Workspaces : w = u}

TypeOK ==
  /\ LimiterTypeOK
  /\ form \in [Requests -> Forms \cup {NoForm}]
  /\ pc \in [Requests -> {"new", "limit", "authenticate", "email", "slug", "user",
                          "workspace", "member", "committed", "answered", "refused", "failed"}]
  /\ suffix \in [Requests -> Nat \ {0}]
  /\ flushed \in [Requests -> SUBSET {"user", "workspace"}]
  /\ \A r \in Requests : flushed[r] # {} => At(r, "workspace") \/ At(r, "member")
  /\ stored \in [Requests -> SUBSET {"user", "workspace", "member"}]
  /\ session \in [Requests -> [user : SUBSET Requests, expires : Nat]]

(* Concurrent registrations never share an e-mail or a slug, not even      *)
(* uncommitted: both are looked up long before they are inserted           *)
(* (accounts.py 22-29 and 45-66).                                          *)
Inserted(row) == {r \in Requests : row \in stored[r] \cup flushed[r]}
AccountsDistinct ==
  /\ \A u, v \in Inserted("user") : u # v => Email(u) # Email(v)
  /\ \A w, v \in Inserted("workspace") : w # v => Slug(w) # Slug(v)

(* Whoever holds a session that has not expired has a workspace to work    *)
(* in: no failure or restart of a registration leaves a user without one   *)
(* who can log in (accounts.py 51-74, deps.py 11-46).                      *)
SessionHasWorkspace ==
  \A r \in Requests : \A u \in SessionUser(r, clock) :
    u \in Users /\ CurrentWorkspace(u) # {}
=============================================================================
