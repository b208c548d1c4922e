------------------------------ MODULE Accounts ------------------------------
(***************************************************************************)
(* The life of an account in the FastAPI backend: the rows of `users` and  *)
(* `vaults`, the handlers of api/routes/users.py and api/routes/auth.py    *)
(* that write them, and the arq job that purges a soft-deleted account.    *)
(*                                                                         *)
(* Every handler runs in its own database session and is split at its      *)
(* awaits: it reads a row, other handlers run, it writes later.  SQLAlchemy *)
(* writes at commit only the columns the handler changed, so a request     *)
(* keeps the identity of the row it read and the change it will make.      *)
(* Rows read from the database are never locked.                           *)
(*                                                                         *)
(* Redis appears as the set of outstanding one-time codes; their values,   *)
(* cooldowns and expiry times are in module Otp.  Passwords are not        *)
(* modelled: a request that presents a wrong one changes nothing.          *)
(***************************************************************************)
EXTENDS Naturals, FiniteSets

CONSTANTS
    UserIds,      \* primary keys uuid4 may generate, each at most once
    Emails,       \* addresses people register with
    Requests,     \* requests the server has in flight at once
    JobIds,       \* arq jobs the queue holds at once
    Grace,        \* the 30 days of _defer_by, in ticks of the clock
    Horizon,      \* bound: no DELETE /users/me is sent after this time
    Faults,       \* which of "request", "worker" and "job" may fail midway
    NoUser, NoEmail

ASSUME GraceAssumption   == Grace \in Nat
ASSUME HorizonAssumption == Horizon \in Nat
ASSUME FaultsAssumption  == Faults \subseteq {"request", "worker", "job"}
ASSUME NoneAssumption    == NoUser \notin UserIds /\ NoEmail \notin Emails

VARIABLES
    users,        \* ids that have a row in `users`
    row,          \* the columns of that row
    purged,       \* ids whose row a purge removed
    vaults,       \* ids u for which `vaults` has a row with user_id = u
    codes,        \* <<namespace, id>> whose Redis key holds a code
    tokens,       \* ids somebody holds an unexpired access token for
    req,          \* the requests in flight
    job,          \* the arq queue
    now,          \* the clock
    deletions     \* history: when DELETE /users/me committed for an id

vars == <<users, row, purged, vaults, codes, tokens, req, job, now, deletions>>

Namespaces == {"otp", "2fa_otp"}

Row == [email : Emails \cup {NoEmail}, deleted : BOOLEAN, verified : BOOLEAN, twofa : BOOLEAN]

\* What an id without a row is given, so that purged rows leave no trace.
BlankRow == [email |-> NoEmail, deleted |-> FALSE, verified |-> FALSE, twofa |-> FALSE]

Pcs == {"idle", "create", "login", "issue", "match", "consume", "verify",
        "twofa", "delete", "enqueue"}

\* flag is the pending change: whether a login reactivates, whether a
\* verification changes the row, the value two_factor_enabled is set to.
Request == [pc : Pcs, uid : UserIds \cup {NoUser}, email : Emails \cup {NoEmail},
            ns : Namespaces, flag : BOOLEAN]

Idle == [pc |-> "idle", uid |-> NoUser, email |-> NoEmail, ns |-> "otp", flag |-> FALSE]

Job == [st : {"none", "queued", "checked"}, uid : UserIds \cup {NoUser}, due : Nat]

NoJob == [st |-> "none", uid |-> NoUser, due |-> 0]

NewRow(e) == [email |-> e, deleted |-> FALSE, verified |-> FALSE, twofa |-> FALSE]

FreshIds == UserIds \ (users \cup purged)

\* get_current_user: the token decodes, the row exists and is not deleted.
Authenticated(u) == u \in tokens /\ u \in users /\ ~row[u].deleted

Begin(r, pc, u, ns, flag) ==
    /\ req[r] = Idle
    /\ req' = [req EXCEPT ![r] = [pc |-> pc, uid |-> u, email |-> NoEmail,
                                  ns |-> ns, flag |-> flag]]

Goto(r, pc) == req' = [req EXCEPT ![r].pc = pc]

\* The response is sent, or an exception ends the request; get_db closes the
\* session, and what was not committed is rolled back.
Finish(r) == req' = [req EXCEPT ![r] = Idle]

-----------------------------------------------------------------------------
(* Mutants: actions of this module as a plausible bug would have them.  They  *)
(* are no part of the specification; each breaks one of its properties.       *)

\* verify_otp_route without `if not user`.
VerifyOtpUnguarded(r, u) ==
    /\ IF u \in users THEN Begin(r, "match", u, "otp", ~row[u].verified)
                      ELSE Begin(r, "match", NoUser, "otp", TRUE)
    /\ UNCHANGED <<users, row, purged, vaults, codes, tokens, job, now, deletions>>

\* users.email without its unique index.
CreateUserCommitTwice(r, u) ==
    /\ req[r].pc = "create"
    /\ u \in FreshIds
    /\ users' = users \cup {u} /\ vaults' = vaults \cup {u}
    /\ row' = [row EXCEPT ![u] = NewRow(req[r].email)]
    /\ Finish(r)
    /\ UNCHANGED <<purged, codes, tokens, job, now, deletions>>

\* login without its verification check.
LoginUnverified(r, u, confirm) ==
    /\ u \in users
    /\ row[u].deleted => confirm
    /\ \/ row[u].twofa /\ Begin(r, "issue", u, "2fa_otp", FALSE)
       \/ ~row[u].twofa /\ Begin(r, "login", u, "otp", row[u].deleted)
    /\ UNCHANGED <<users, row, purged, vaults, codes, tokens, job, now, deletions>>

\* The worker purges without looking at delete_status.
CheckPurgeUnguarded(j) ==
    /\ job[j].st = "queued" /\ job[j].due <= now
    /\ job' = [job EXCEPT ![j].st = "checked"]
    /\ UNCHANGED <<users, row, purged, vaults, codes, tokens, req, now, deletions>>

\* Every login cancels the queued purges of its account.
LoginCommitCancels(r) ==
    /\ req[r].pc = "login"
    /\ row' = IF req[r].flag /\ req[r].uid \in users
              THEN [row EXCEPT ![req[r].uid].deleted = FALSE] ELSE row
    /\ tokens' = tokens \cup {req[r].uid}
    /\ job' = [j \in JobIds |-> IF job[j].uid = req[r].uid THEN NoJob ELSE job[j]]
    /\ Finish(r)
    /\ UNCHANGED <<users, purged, vaults, codes, now, deletions>>

\* The purge is enqueued without _defer_by.
EnqueuePurgeNow(r, j) ==
    /\ req[r].pc = "enqueue"
    /\ job[j] = NoJob
    /\ job' = [job EXCEPT ![j] = [st |-> "queued", uid |-> req[r].uid, due |-> now]]
    /\ Finish(r)
    /\ UNCHANGED <<users, row, purged, vaults, codes, tokens, now, deletions>>

\* delete_me without its enqueue_job.
DeleteMeCommitOnly(r) ==
    /\ req[r].pc = "delete"
    /\ row' = IF req[r].uid \in users
              THEN [row EXCEPT ![req[r].uid].deleted = TRUE] ELSE row
    /\ deletions' = [deletions EXCEPT ![req[r].uid] = @ \cup {now}]
    /\ Finish(r)
    /\ UNCHANGED <<users, purged, vaults, codes, tokens, job, now>>

-----------------------------------------------------------------------------
(* POST /users *)

\* No account uses the address: the handler goes on to insert.  Bound: as many
\* registrations are in flight as there are ids left for them.
CreateUser(r, e) ==
    /\ req[r] = Idle
    /\ Cardinality({q \in Requests : req[q].pc = "create"}) < Cardinality(FreshIds)
    /\ \A u \in users : row[u].email # e
    /\ req' = [req EXCEPT ![r] = [pc |-> "create", uid |-> NoUser, email |-> e,
                                  ns |-> "otp", flag |-> FALSE]]
    /\ UNCHANGED <<users, row, purged, vaults, codes, tokens, job, now, deletions>>

\* flush inserts the user, commit makes it and its vault visible together.
CreateUserCommit(r, u) ==
    /\ req[r].pc = "create"
    /\ u \in FreshIds
    /\ \A v \in users : row[v].email # req[r].email
    /\ users' = users \cup {u}
    /\ row' = [row EXCEPT ![u] = NewRow(req[r].email)]
    /\ vaults' = vaults \cup {u}
    /\ Finish(r)
    /\ UNCHANGED <<purged, codes, tokens, job, now, deletions>>

\* Another registration of the address committed first: the unique index on
\* users.email rejects the insert.
CreateUserConflict(r) ==
    /\ req[r].pc = "create"
    /\ \E v \in users : row[v].email = req[r].email
    /\ Finish(r)
    /\ UNCHANGED <<users, row, purged, vaults, codes, tokens, job, now, deletions>>

-----------------------------------------------------------------------------
(* POST /auth/login, with the right password *)

\* delete_status = False is only set in the session here.  A challenged login
\* raises before the commit, so its reactivation is rolled back.
Login(r, u, confirm) ==
    /\ u \in users
    /\ row[u].deleted => confirm
    /\ \/ ~row[u].verified /\ Begin(r, "issue", u, "otp", FALSE)
       \/ row[u].verified /\ row[u].twofa /\ Begin(r, "issue", u, "2fa_otp", FALSE)
       \/ row[u].verified /\ ~row[u].twofa /\ Begin(r, "login", u, "otp", row[u].deleted)
    /\ UNCHANGED <<users, row, purged, vaults, codes, tokens, job, now, deletions>>

\* issue_otp leaves the code alone while its cooldown lasts; either way the
\* caller raises, or answers, the same thing.
IssueOtp(r) ==
    /\ req[r].pc = "issue"
    /\ codes' \in {codes, codes \cup {<<req[r].ns, req[r].uid>>}}
    /\ Finish(r)
    /\ UNCHANGED <<users, row, purged, vaults, tokens, job, now, deletions>>

\* The commit writes delete_status only if the login reactivates, and fails if
\* the row is gone by then.
LoginCommit(r) ==
    /\ req[r].pc = "login"
    /\ LET u == req[r].uid
           stale == req[r].flag /\ u \notin users
       IN  /\ row' = IF req[r].flag /\ ~stale THEN [row EXCEPT ![u].deleted = FALSE] ELSE row
           /\ tokens' = IF stale THEN tokens ELSE tokens \cup {u}
    /\ Finish(r)
    /\ UNCHANGED <<users, purged, vaults, codes, job, now, deletions>>

-----------------------------------------------------------------------------
(* POST /auth/resend-otp, /auth/verify-otp and /auth/verify-2fa *)

ResendOtp(r, u) ==
    /\ u \in users
    /\ ~row[u].deleted /\ ~row[u].verified
    /\ Begin(r, "issue", u, "otp", FALSE)
    /\ UNCHANGED <<users, row, purged, vaults, codes, tokens, job, now, deletions>>

VerifyOtp(r, u) ==
    /\ u \in users
    /\ ~row[u].deleted
    /\ Begin(r, "match", u, "otp", ~row[u].verified)
    /\ UNCHANGED <<users, row, purged, vaults, codes, tokens, job, now, deletions>>

\* This handler looks at nothing but the address.
Verify2fa(r, u) ==
    /\ u \in users
    /\ Begin(r, "match", u, "2fa_otp", FALSE)
    /\ UNCHANGED <<users, row, purged, vaults, codes, tokens, job, now, deletions>>

\* verify_otp's GET: the stored code, if there is one, is what was submitted,
\* or it is not.
MatchOtp(r) ==
    /\ req[r].pc = "match"
    /\ \/ <<req[r].ns, req[r].uid>> \in codes /\ Goto(r, "consume")
       \/ Finish(r)
    /\ UNCHANGED <<users, row, purged, vaults, codes, tokens, job, now, deletions>>

\* verify_otp's DELETE.  verify_2fa then answers with a token at once.
ConsumeOtp(r) ==
    /\ req[r].pc = "consume"
    /\ codes' = codes \ {<<req[r].ns, req[r].uid>>}
    /\ IF req[r].ns = "2fa_otp"
       THEN tokens' = tokens \cup {req[r].uid} /\ Finish(r)
       ELSE tokens' = tokens /\ Goto(r, "verify")
    /\ UNCHANGED <<users, row, purged, vaults, job, now, deletions>>

VerifyCommit(r) ==
    /\ req[r].pc = "verify"
    /\ row' = IF req[r].flag /\ req[r].uid \in users
              THEN [row EXCEPT ![req[r].uid].verified = TRUE] ELSE row
    /\ Finish(r)
    /\ UNCHANGED <<users, purged, vaults, codes, tokens, job, now, deletions>>

-----------------------------------------------------------------------------
(* PATCH and DELETE of the current user *)

\* update_me as it bears on this module: it changes two_factor_enabled.
UpdateMe(r, u, enabled) ==
    /\ Authenticated(u)
    /\ enabled # row[u].twofa
    /\ Begin(r, "twofa", u, "otp", enabled)
    /\ UNCHANGED <<users, row, purged, vaults, codes, tokens, job, now, deletions>>

UpdateMeCommit(r) ==
    /\ req[r].pc = "twofa"
    /\ row' = IF req[r].uid \in users
              THEN [row EXCEPT ![req[r].uid].twofa = req[r].flag] ELSE row
    /\ Finish(r)
    /\ UNCHANGED <<users, purged, vaults, codes, tokens, job, now, deletions>>

DeleteMe(r, u) ==
    /\ now <= Horizon
    /\ Authenticated(u)
    /\ Begin(r, "delete", u, "otp", FALSE)
    /\ UNCHANGED <<users, row, purged, vaults, codes, tokens, job, now, deletions>>

DeleteMeCommit(r) ==
    /\ req[r].pc = "delete"
    /\ LET u == req[r].uid IN
         IF u \in users
         THEN /\ row' = [row EXCEPT ![u].deleted = TRUE]
              /\ deletions' = [deletions EXCEPT ![u] = @ \cup {now}]
              /\ Goto(r, "enqueue")
         ELSE /\ Finish(r)
              /\ UNCHANGED <<row, deletions>>
    /\ UNCHANGED <<users, purged, vaults, codes, tokens, job, now>>

\* Only after its commit does delete_me put the purge into the queue.
EnqueuePurge(r, j) ==
    /\ req[r].pc = "enqueue"
    /\ job[j] = NoJob
    /\ job' = [job EXCEPT ![j] = [st |-> "queued", uid |-> req[r].uid, due |-> now + Grace]]
    /\ Finish(r)
    /\ UNCHANGED <<users, row, purged, vaults, codes, tokens, now, deletions>>

-----------------------------------------------------------------------------
(* The arq worker: hard_delete_user_job *)

\* The guard: without a soft-deleted row the job returns, and is done.
CheckPurge(j) ==
    /\ job[j].st = "queued"
    /\ job[j].due <= now
    /\ LET u == job[j].uid IN
         job' = [job EXCEPT ![j] = IF u \in users /\ row[u].deleted
                                   THEN [@ EXCEPT !.st = "checked"] ELSE NoJob]
    /\ UNCHANGED <<users, row, purged, vaults, codes, tokens, req, now, deletions>>

\* DELETE of the vault and of the user, one transaction, by primary key.
Purge(j) ==
    /\ job[j].st = "checked"
    /\ LET u == job[j].uid IN
         /\ users' = users \ {u}
         /\ vaults' = vaults \ {u}
         /\ purged' = purged \cup {u}
         /\ row' = [row EXCEPT ![u] = BlankRow]
    /\ job' = [job EXCEPT ![j] = NoJob]
    /\ UNCHANGED <<codes, tokens, req, now, deletions>>

-----------------------------------------------------------------------------
(* The environment *)

\* A worker that dies leaves its job in the queue, and arq runs it again.
WorkerDies(j) ==
    /\ "worker" \in Faults
    /\ job[j].st = "checked"
    /\ job' = [job EXCEPT ![j].st = "queued"]
    /\ UNCHANGED <<users, row, purged, vaults, codes, tokens, req, now, deletions>>

\* The database fails the job, which rolls back.  The exception is no Retry of
\* arq's, so the job is done, and not run again.
JobFails(j) ==
    /\ "job" \in Faults
    /\ job[j].st = "checked"
    /\ job' = [job EXCEPT ![j] = NoJob]
    /\ UNCHANGED <<users, row, purged, vaults, codes, tokens, req, now, deletions>>

\* The server dies, or Redis cannot be reached, between two steps.
RequestDies(r) ==
    /\ "request" \in Faults
    /\ req[r] # Idle
    /\ Finish(r)
    /\ UNCHANGED <<users, row, purged, vaults, codes, tokens, job, now, deletions>>

CodeExpires(c) ==
    /\ codes' = codes \ {c}
    /\ UNCHANGED <<users, row, purged, vaults, tokens, req, job, now, deletions>>

\* The token's exp passes.  Logging out does not come to this: it only deletes
\* the cookie, and the token stays as good as it was.
TokenExpires(u) ==
    /\ tokens' = tokens \ {u}
    /\ UNCHANGED <<users, row, purged, vaults, codes, req, job, now, deletions>>

\* The clock stops at Horizon, or later once no purge is outstanding.
Tick ==
    /\ now < Horizon \/ \E j \in JobIds : job[j].due > now
    /\ now' = now + 1
    /\ UNCHANGED <<users, row, purged, vaults, codes, tokens, req, job, deletions>>

-----------------------------------------------------------------------------

Init ==
    /\ users = {} /\ purged = {} /\ vaults = {}
    /\ row = [u \in UserIds |-> BlankRow]
    /\ codes = {} /\ tokens = {}
    /\ req = [r \in Requests |-> Idle]
    /\ job = [j \in JobIds |-> NoJob]
    /\ now = 0
    /\ deletions = [u \in UserIds |-> {}]

\* A request arrives.
Arrive(r) ==
    \/ \E e \in Emails : CreateUser(r, e)
    \/ \E u \in UserIds :
         \/ \E confirm \in BOOLEAN : Login(r, u, confirm)
         \/ ResendOtp(r, u)
         \/ VerifyOtp(r, u)
         \/ Verify2fa(r, u)
         \/ \E enabled \in BOOLEAN : UpdateMe(r, u, enabled)
         \/ DeleteMe(r, u)

\* A request takes its next step.
Continue(r) ==
    \/ \E u \in UserIds : CreateUserCommit(r, u)
    \/ CreateUserConflict(r)
    \/ IssueOtp(r)
    \/ LoginCommit(r)
    \/ MatchOtp(r)
    \/ ConsumeOtp(r)
    \/ VerifyCommit(r)
    \/ UpdateMeCommit(r)
    \/ DeleteMeCommit(r)
    \/ \E j \in JobIds : EnqueuePurge(r, j)

Worker(j) == CheckPurge(j) \/ Purge(j)

Environment ==
    \/ \E j \in JobIds : WorkerDies(j) \/ JobFails(j)
    \/ \E r \in Requests : RequestDies(r)
    \/ \E c \in codes : CodeExpires(c)
    \/ \E u \in tokens : TokenExpires(u)
    \/ Tick

Next ==
    \/ \E r \in Requests : Arrive(r) \/ Continue(r)
    \/ \E j \in JobIds : Worker(j)
    \/ Environment

Spec == Init /\ [][Next]_vars

\* The event loop runs every request to its end, the worker polls the queue,
\* and time passes.  Nobody is obliged to send a request.
FairSpec ==
    /\ Spec
    /\ \A r \in Requests : WF_vars(Continue(r))
    /\ \A j \in JobIds : WF_vars(Worker(j))
    /\ WF_vars(Tick)

-----------------------------------------------------------------------------
(* Properties *)

\* A request that has read a row remembers which.
ReqTypeOK ==
    /\ req \in [Requests -> Request]
    /\ \A r \in Requests :
         /\ req[r].pc = "create" => req[r].email \in Emails
         /\ req[r].pc \notin {"idle", "create"} => req[r].uid \in UserIds

TypeOK ==
    /\ users \subseteq UserIds /\ purged \subseteq UserIds /\ vaults \subseteq UserIds
    /\ row \in [UserIds -> Row]
    /\ codes \subseteq Namespaces \X UserIds
    /\ tokens \subseteq UserIds
    /\ ReqTypeOK
    /\ job \in [JobIds -> Job]
    /\ now \in Nat
    /\ deletions \in [UserIds -> SUBSET Nat]
    /\ \A j \in JobIds : job[j].st # "none" => job[j].uid \in UserIds

\* However registrations, deletions and purges of an address interleave, two
\* rows of `users` never hold it at once: create_user's own check cannot see a
\* registration that has not committed.
OneAccountPerEmail ==
    \A u, v \in users : row[u].email = row[v].email => u = v

\* Whoever holds a token of an account that exists has proved the address once:
\* no order of logins, verifications and 2FA changes mints a token for an
\* unverified account, although verify_2fa itself never looks at the flag.
SessionsAreVerified ==
    \A u \in tokens \cap users : row[u].verified

\* A soft-deleted account is never forgotten: its purge is in the queue, or the
\* request that deleted it is about to put it there.
PurgeScheduled ==
    \A u \in users : row[u].deleted =>
        \/ \E j \in JobIds : job[j].uid = u
        \/ \E r \in Requests : req[r].pc = "enqueue" /\ req[r].uid = u

PurgeOf(u) == u \in users \ users'

\* No account is purged before the grace period that some deletion of it
\* started has run out.
NoEarlyPurge ==
    [][\A u \in UserIds : PurgeOf(u) =>
          \E t \in deletions[u] : t + Grace <= now]_vars

\* "30-day window elapsed": a purge comes a whole grace period after the latest
\* deletion of the account, also when it was reactivated in between.
WholeGracePeriod ==
    [][\A u \in UserIds : PurgeOf(u) =>
          \A t \in deletions[u] : t + Grace <= now]_vars

\* A soft-deleted account is purged in the end, unless it is reactivated.
DeletionCompletes ==
    \A u \in UserIds :
        (u \in users /\ row[u].deleted) ~> (u \notin users \/ ~row[u].deleted)

-----------------------------------------------------------------------------
(* Why they hold: the inductive invariant of AccountsProofs *)

KnownIds == users \cup purged

\* What outlives an account refers to an id that uuid4 never generates again.
IdsAreKnown ==
    /\ users \cap purged = {}
    /\ tokens \subseteq KnownIds
    /\ \A c \in codes : c[2] \in KnownIds
    /\ \A r \in Requests : req[r].uid \in KnownIds \cup {NoUser}
    /\ \A j \in JobIds : job[j].uid \in KnownIds \cup {NoUser}

\* The way to a token starts with the verification: until then no second-factor
\* code exists, no login is past its checks, and no code is being consumed.
VerifiedFirst ==
    \A u \in users : row[u].verified \/
        /\ u \notin tokens
        /\ <<"2fa_otp", u>> \notin codes
        /\ \A r \in Requests : req[r].uid = u =>
             /\ req[r].pc # "login"
             /\ req[r].ns = "2fa_otp" => req[r].pc = "match"

\* Every purge on its way goes back to a deletion a grace period ago.
GraceStarted ==
    /\ \A r \in Requests : req[r].pc = "enqueue" =>
         \E t \in deletions[req[r].uid] : t <= now
    /\ \A j \in JobIds : job[j].st # "none" =>
         \E t \in deletions[job[j].uid] : t + Grace <= job[j].due
    /\ \A j \in JobIds : job[j].st = "checked" => job[j].due <= now

IInv ==
    /\ TypeOK
    /\ IdsAreKnown
    /\ OneAccountPerEmail
    /\ VerifiedFirst
    /\ GraceStarted

-----------------------------------------------------------------------------
(* Refinement *)

Phase(u) ==
    CASE u \in purged -> "gone"
      [] u \in FreshIds -> "none"
      [] u \in users /\ (\E j \in JobIds : job[j].st = "checked" /\ job[j].uid = u) -> "doomed"
      [] OTHER -> IF row[u].deleted THEN "deleted" ELSE "active"

Holder(e) ==
    IF \E u \in users : row[u].email = e
    THEN CHOOSE u \in users : row[u].email = e ELSE NoUser

Lifecycle == INSTANCE AccountLifecycle
    WITH phase <- [u \in UserIds |-> Phase(u)],
         holder <- [e \in Emails |-> Holder(e)]

\* The handlers and the worker together keep the promises of AccountLifecycle:
\* one account per address, no purge of an account that was not soft-deleted
\* when its purge began, no way back from a purge.
LifecycleSpec == Lifecycle!Spec
=============================================================================
