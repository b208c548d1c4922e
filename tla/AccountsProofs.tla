--------------------------- MODULE AccountsProofs ---------------------------
(***************************************************************************)
(* Theorems about Accounts, for any number of ids, addresses, requests and *)
(* jobs, any grace period, and whichever processes may die.                *)
(***************************************************************************)
EXTENDS Accounts, TLAPS

-----------------------------------------------------------------------------
(* Types *)

LEMMA RecordTypes ==
    /\ Idle \in Request
    /\ NoJob \in Job
    /\ BlankRow \in Row
    /\ \A e \in Emails : NewRow(e) \in Row
  BY DEF Idle, Request, NoJob, Job, BlankRow, NewRow, Row, Pcs, Namespaces

LEMMA RowColumns ==
    ASSUME TypeOK, NEW u \in UserIds
    PROVE  /\ row[u].deleted \in BOOLEAN
           /\ row[u].verified \in BOOLEAN
           /\ row[u].twofa \in BOOLEAN
  BY DEF TypeOK, Row

\* The ways a handler moves on keep the requests well-typed.
LEMMA BeginType ==
    ASSUME ReqTypeOK, NEW r \in Requests, NEW pc \in Pcs \ {"create"},
           NEW u \in UserIds, NEW ns \in Namespaces, NEW flag \in BOOLEAN,
           Begin(r, pc, u, ns, flag)
    PROVE  ReqTypeOK'
  BY DEF Begin, ReqTypeOK, Request

LEMMA GotoType ==
    ASSUME ReqTypeOK, NEW r \in Requests, NEW pc \in Pcs \ {"idle", "create"},
           req[r].pc \notin {"idle", "create"}, Goto(r, pc)
    PROVE  ReqTypeOK'
  <1>1. [req[r] EXCEPT !.pc = pc] \in Request
    BY DEF ReqTypeOK, Request
  <1>2. req' = [req EXCEPT ![r] = [req[r] EXCEPT !.pc = pc]]
    BY DEF Goto, ReqTypeOK
  <1> QED BY <1>1, <1>2 DEF ReqTypeOK, Request

LEMMA FinishType ==
    ASSUME ReqTypeOK, NEW r \in Requests, Finish(r)
    PROVE  ReqTypeOK'
  <1>1. Idle.pc = "idle"
    BY DEF Idle
  <1> QED BY <1>1, RecordTypes DEF Finish, ReqTypeOK

\* An UPDATE of one column keeps the rows well-typed.
LEMMA UpdateType ==
    ASSUME TypeOK, NEW u \in UserIds, NEW v \in BOOLEAN
    PROVE  /\ [row EXCEPT ![u].deleted = v] \in [UserIds -> Row]
           /\ [row EXCEPT ![u].verified = v] \in [UserIds -> Row]
           /\ [row EXCEPT ![u].twofa = v] \in [UserIds -> Row]
  <1>1. /\ [row[u] EXCEPT !.deleted = v] \in Row
        /\ [row[u] EXCEPT !.verified = v] \in Row
        /\ [row[u] EXCEPT !.twofa = v] \in Row
    BY DEF TypeOK, Row
  <1> QED BY <1>1 DEF TypeOK

\* Every variable keeps its type: no handler writes a row, a request or a job
\* that the others could not read.
LEMMA TypeInit == Init => TypeOK
  <1>1. Idle.pc = "idle" /\ NoJob.st = "none"
    BY DEF Idle, NoJob
  <1> QED BY <1>1, RecordTypes DEF Init, TypeOK, ReqTypeOK

LEMMA TypeNext == TypeOK /\ [Next]_vars => TypeOK'
  <1> SUFFICES ASSUME TypeOK, [Next]_vars PROVE TypeOK'
    OBVIOUS
  <1>1. ASSUME NEW r \in Requests, NEW e \in Emails, CreateUser(r, e) PROVE TypeOK'
    BY <1>1 DEF CreateUser, TypeOK, ReqTypeOK, Request, Pcs, Namespaces
  <1>2. ASSUME NEW r \in Requests, NEW u \in UserIds, CreateUserCommit(r, u) PROVE TypeOK'
    BY <1>2, RecordTypes, FinishType DEF CreateUserCommit, TypeOK, ReqTypeOK
  <1>3. ASSUME NEW r \in Requests, CreateUserConflict(r) PROVE TypeOK'
    BY <1>3, FinishType DEF CreateUserConflict, TypeOK
  <1>4. ASSUME NEW r \in Requests, NEW u \in UserIds, NEW c \in BOOLEAN, Login(r, u, c)
        PROVE  TypeOK'
    BY <1>4, BeginType, RowColumns DEF Login, TypeOK, Pcs, Namespaces
  <1>5. ASSUME NEW r \in Requests, IssueOtp(r) PROVE TypeOK'
    <2>1. <<req[r].ns, req[r].uid>> \in Namespaces \X UserIds
      BY <1>5 DEF IssueOtp, TypeOK, ReqTypeOK, Request
    <2> QED BY <1>5, <2>1, FinishType DEF IssueOtp, TypeOK
  <1>6. ASSUME NEW r \in Requests, LoginCommit(r) PROVE TypeOK'
    <2>1. req[r].uid \in UserIds
      BY <1>6 DEF LoginCommit, TypeOK, ReqTypeOK
    <2>2. row' \in {[row EXCEPT ![req[r].uid].deleted = FALSE], row}
      BY <1>6 DEF LoginCommit
    <2>3. [row EXCEPT ![req[r].uid].deleted = FALSE] \in [UserIds -> Row]
      BY <2>1, UpdateType
    <2>4. row' \in [UserIds -> Row]
      BY <2>2, <2>3 DEF TypeOK
    <2> QED BY <1>6, <2>1, <2>4, FinishType DEF LoginCommit, TypeOK
  <1>7. ASSUME NEW r \in Requests, NEW u \in UserIds, ResendOtp(r, u) PROVE TypeOK'
    BY <1>7, BeginType DEF ResendOtp, TypeOK, Pcs, Namespaces
  <1>8. ASSUME NEW r \in Requests, NEW u \in UserIds, VerifyOtp(r, u) PROVE TypeOK'
    BY <1>8, BeginType DEF VerifyOtp, TypeOK, Pcs, Namespaces
  <1>9. ASSUME NEW r \in Requests, NEW u \in UserIds, Verify2fa(r, u) PROVE TypeOK'
    BY <1>9, BeginType DEF Verify2fa, TypeOK, Pcs, Namespaces
  <1>10. ASSUME NEW r \in Requests, MatchOtp(r) PROVE TypeOK'
    BY <1>10, FinishType, GotoType DEF MatchOtp, TypeOK, Pcs
  <1>11. ASSUME NEW r \in Requests, ConsumeOtp(r) PROVE TypeOK'
    <2>1. req[r].uid \in UserIds
      BY <1>11 DEF ConsumeOtp, TypeOK, ReqTypeOK
    <2> QED BY <1>11, <2>1, FinishType, GotoType DEF ConsumeOtp, TypeOK, Pcs
  <1>12. ASSUME NEW r \in Requests, VerifyCommit(r) PROVE TypeOK'
    <2>1. req[r].uid \in UserIds
      BY <1>12 DEF VerifyCommit, TypeOK, ReqTypeOK
    <2>2. row' \in [UserIds -> Row]
      BY <1>12, <2>1, UpdateType DEF VerifyCommit, TypeOK
    <2> QED BY <1>12, <2>2, FinishType DEF VerifyCommit, TypeOK
  <1>13. ASSUME NEW r \in Requests, NEW u \in UserIds, NEW b \in BOOLEAN, UpdateMe(r, u, b)
         PROVE  TypeOK'
    BY <1>13, BeginType DEF UpdateMe, TypeOK, Pcs, Namespaces
  <1>14. ASSUME NEW r \in Requests, UpdateMeCommit(r) PROVE TypeOK'
    <2>1. req[r].uid \in UserIds /\ req[r].flag \in BOOLEAN
      BY <1>14 DEF UpdateMeCommit, TypeOK, ReqTypeOK, Request
    <2>2. row' \in [UserIds -> Row]
      BY <1>14, <2>1, UpdateType DEF UpdateMeCommit, TypeOK
    <2> QED BY <1>14, <2>2, FinishType DEF UpdateMeCommit, TypeOK
  <1>15. ASSUME NEW r \in Requests, NEW u \in UserIds, DeleteMe(r, u) PROVE TypeOK'
    BY <1>15, BeginType DEF DeleteMe, TypeOK, Pcs, Namespaces
  <1>16. ASSUME NEW r \in Requests, DeleteMeCommit(r) PROVE TypeOK'
    <2>1. req[r].uid \in UserIds
      BY <1>16 DEF DeleteMeCommit, TypeOK, ReqTypeOK
    <2>2. row' \in [UserIds -> Row] /\ deletions' \in [UserIds -> SUBSET Nat]
      <3>1. [row EXCEPT ![req[r].uid].deleted = TRUE] \in [UserIds -> Row]
        BY <2>1, UpdateType
      <3>2. [deletions EXCEPT ![req[r].uid] = @ \cup {now}] \in [UserIds -> SUBSET Nat]
        BY <2>1 DEF TypeOK
      <3> QED BY <1>16, <3>1, <3>2 DEF DeleteMeCommit, TypeOK
    <2>3. ReqTypeOK'
      <3>1. Goto(r, "enqueue") \/ Finish(r)
        BY <1>16 DEF DeleteMeCommit
      <3> QED BY <1>16, <3>1, FinishType, GotoType DEF DeleteMeCommit, TypeOK, Pcs
    <2>4. UNCHANGED <<users, purged, vaults, codes, tokens, job, now>>
      BY <1>16 DEF DeleteMeCommit
    <2> QED BY <2>2, <2>3, <2>4 DEF TypeOK
  <1>17. ASSUME NEW r \in Requests, NEW j \in JobIds, EnqueuePurge(r, j) PROVE TypeOK'
    <2>1. req[r].uid \in UserIds /\ now + Grace \in Nat
      BY <1>17, GraceAssumption DEF EnqueuePurge, TypeOK, ReqTypeOK
    <2> QED BY <1>17, <2>1, FinishType DEF EnqueuePurge, TypeOK, Job
  <1>18. ASSUME NEW j \in JobIds, CheckPurge(j) PROVE TypeOK'
    <2>1. [job[j] EXCEPT !.st = "checked"] \in Job
      BY DEF TypeOK, Job
    <2> QED BY <1>18, <2>1, RecordTypes DEF CheckPurge, TypeOK, ReqTypeOK, Job, NoJob
  <1>19. ASSUME NEW j \in JobIds, Purge(j) PROVE TypeOK'
    <2>1. job[j].uid \in UserIds
      BY <1>19 DEF Purge, TypeOK
    <2>2. NoJob.st = "none"
      BY DEF NoJob
    <2> QED BY <1>19, <2>1, <2>2, RecordTypes DEF Purge, TypeOK, ReqTypeOK
  <1>20. ASSUME NEW j \in JobIds, WorkerDies(j) PROVE TypeOK'
    BY <1>20 DEF WorkerDies, TypeOK, ReqTypeOK, Job
  <1>26. ASSUME NEW j \in JobIds, JobFails(j) PROVE TypeOK'
    <2>1. NoJob.st = "none"
      BY DEF NoJob
    <2> QED BY <1>26, <2>1, RecordTypes DEF JobFails, TypeOK, ReqTypeOK
  <1>21. ASSUME NEW r \in Requests, RequestDies(r) PROVE TypeOK'
    BY <1>21, FinishType DEF RequestDies, TypeOK
  <1>22. ASSUME NEW c \in codes, CodeExpires(c) PROVE TypeOK'
    BY <1>22 DEF CodeExpires, TypeOK, ReqTypeOK
  <1>23. ASSUME NEW u \in tokens, TokenExpires(u) PROVE TypeOK'
    BY <1>23 DEF TokenExpires, TypeOK, ReqTypeOK
  <1>24. ASSUME Tick PROVE TypeOK'
    BY <1>24 DEF Tick, TypeOK, ReqTypeOK
  <1>25. CASE UNCHANGED vars
    BY <1>25 DEF vars, TypeOK, ReqTypeOK
  <1> QED
    BY <1>1, <1>2, <1>3, <1>4, <1>5, <1>6, <1>7, <1>8, <1>9, <1>10, <1>11, <1>12,
       <1>13, <1>14, <1>15, <1>16, <1>17, <1>18, <1>19, <1>20, <1>21, <1>22, <1>23,
       <1>24, <1>25, <1>26 DEF Next, Arrive, Continue, Worker, Environment

\* Type correctness, for every value of the constants.
THEOREM TypeCorrect == Spec => []TypeOK
  BY TypeInit, TypeNext, PTL DEF Spec

-----------------------------------------------------------------------------
(* Which steps change what *)

LEMMA TablesFrame ==
    ASSUME [Next]_vars
    PROVE  \/ UNCHANGED <<users, vaults, purged>>
           \/ \E r \in Requests, u \in UserIds : CreateUserCommit(r, u)
           \/ \E j \in JobIds : Purge(j)
  <1> DEFINE Same == UNCHANGED <<users, vaults, purged>>
  <1>1. ASSUME NEW r \in Requests, Arrive(r) PROVE Same
    BY <1>1 DEF Arrive, CreateUser, Login, ResendOtp, VerifyOtp, Verify2fa, UpdateMe, DeleteMe
  <1>2. ASSUME NEW r \in Requests, Continue(r)
        PROVE  Same \/ \E u \in UserIds : CreateUserCommit(r, u)
    BY <1>2 DEF Continue, CreateUserConflict, IssueOtp, LoginCommit, MatchOtp, ConsumeOtp,
                VerifyCommit, UpdateMeCommit, DeleteMeCommit, EnqueuePurge
  <1>3. ASSUME NEW j \in JobIds, Worker(j) PROVE Same \/ Purge(j)
    BY <1>3 DEF Worker, CheckPurge
  <1>4. ASSUME Environment PROVE Same
    BY <1>4 DEF Environment, WorkerDies, JobFails, RequestDies, CodeExpires, TokenExpires, Tick
  <1>5. CASE UNCHANGED vars
    BY <1>5 DEF vars
  <1> QED BY <1>1, <1>2, <1>3, <1>4, <1>5 DEF Next

LEMMA RowFrame ==
    ASSUME [Next]_vars
    PROVE  \/ UNCHANGED row
           \/ \E r \in Requests, u \in UserIds : CreateUserCommit(r, u)
           \/ \E r \in Requests : LoginCommit(r) \/ VerifyCommit(r)
                                    \/ UpdateMeCommit(r) \/ DeleteMeCommit(r)
           \/ \E j \in JobIds : Purge(j)
  <1>1. ASSUME NEW r \in Requests, Arrive(r) PROVE UNCHANGED row
    BY <1>1 DEF Arrive, CreateUser, Login, ResendOtp, VerifyOtp, Verify2fa, UpdateMe, DeleteMe
  <1>2. ASSUME NEW r \in Requests, Continue(r)
        PROVE  \/ UNCHANGED row
               \/ \E u \in UserIds : CreateUserCommit(r, u)
               \/ LoginCommit(r) \/ VerifyCommit(r) \/ UpdateMeCommit(r) \/ DeleteMeCommit(r)
    BY <1>2 DEF Continue, CreateUserConflict, IssueOtp, MatchOtp, ConsumeOtp, EnqueuePurge
  <1>3. ASSUME NEW j \in JobIds, Worker(j) PROVE UNCHANGED row \/ Purge(j)
    BY <1>3 DEF Worker, CheckPurge
  <1>4. ASSUME Environment PROVE UNCHANGED row
    BY <1>4 DEF Environment, WorkerDies, JobFails, RequestDies, CodeExpires, TokenExpires, Tick
  <1> QED BY <1>1, <1>2, <1>3, <1>4 DEF Next, vars

LEMMA JobFrame ==
    ASSUME [Next]_vars
    PROVE  \/ UNCHANGED job
           \/ \E r \in Requests, j \in JobIds : EnqueuePurge(r, j)
           \/ \E j \in JobIds : CheckPurge(j) \/ Purge(j) \/ WorkerDies(j) \/ JobFails(j)
  <1>1. ASSUME NEW r \in Requests, Arrive(r) PROVE UNCHANGED job
    BY <1>1 DEF Arrive, CreateUser, Login, ResendOtp, VerifyOtp, Verify2fa, UpdateMe, DeleteMe
  <1>2. ASSUME NEW r \in Requests, Continue(r)
        PROVE  UNCHANGED job \/ \E j \in JobIds : EnqueuePurge(r, j)
    BY <1>2 DEF Continue, CreateUserCommit, CreateUserConflict, IssueOtp, LoginCommit,
                MatchOtp, ConsumeOtp, VerifyCommit, UpdateMeCommit, DeleteMeCommit
  <1>3. ASSUME Environment PROVE UNCHANGED job \/ \E j \in JobIds : WorkerDies(j) \/ JobFails(j)
    BY <1>3 DEF Environment, RequestDies, CodeExpires, TokenExpires, Tick
  <1>4. CASE UNCHANGED vars
    BY <1>4 DEF vars
  <1> QED BY <1>1, <1>2, <1>3, <1>4 DEF Next, Worker

\* Only an insert gives an id a row, a column address never changes while the
\* row is there, and a verification is never taken back.
LEMMA RowHistory ==
    ASSUME TypeOK, [Next]_vars, NEW u \in users', u \in users
    PROVE  /\ row'[u].email = row[u].email
           /\ row[u].verified => row'[u].verified
  <1> USE DEF TypeOK, ReqTypeOK
  <1>1. ASSUME NEW r \in Requests, NEW v \in UserIds, CreateUserCommit(r, v)
        PROVE  row'[u] = row[u]
    BY <1>1 DEF CreateUserCommit, FreshIds
  <1>2. ASSUME NEW r \in Requests,
               LoginCommit(r) \/ VerifyCommit(r) \/ UpdateMeCommit(r) \/ DeleteMeCommit(r)
        PROVE  /\ row'[u].email = row[u].email
               /\ row[u].verified => row'[u].verified
    <2>1. \/ row' \in {row, [row EXCEPT ![req[r].uid].deleted = FALSE]}
          \/ row' \in {row, [row EXCEPT ![req[r].uid].deleted = TRUE]}
          \/ row' \in {row, [row EXCEPT ![req[r].uid].verified = TRUE]}
          \/ row' \in {row, [row EXCEPT ![req[r].uid].twofa = req[r].flag]}
      BY <1>2 DEF LoginCommit, VerifyCommit, UpdateMeCommit, DeleteMeCommit
    <2> QED BY <2>1 DEF Row
  <1>3. ASSUME NEW j \in JobIds, Purge(j) PROVE row'[u] = row[u]
    BY <1>3 DEF Purge
  <1>4. CASE UNCHANGED row
    BY <1>4
  <1> QED BY <1>1, <1>2, <1>3, <1>4, RowFrame

-----------------------------------------------------------------------------
(* An address and its account *)

LEMMA EmailNext == TypeOK /\ OneAccountPerEmail /\ [Next]_vars => OneAccountPerEmail'
  <1> SUFFICES ASSUME TypeOK, OneAccountPerEmail, [Next]_vars,
                      NEW u \in users', NEW v \in users', row'[u].email = row'[v].email
               PROVE  u = v
    BY DEF OneAccountPerEmail
  <1>1. ASSUME NEW r \in Requests, NEW w \in UserIds, CreateUserCommit(r, w) PROVE u = v
    <2>1. row'[w].email = req[r].email
      BY <1>1 DEF CreateUserCommit, NewRow, TypeOK
    <2>2. \A x \in users : x # w /\ row'[x] = row[x] /\ row[x].email # req[r].email
      BY <1>1 DEF CreateUserCommit, TypeOK, FreshIds
    <2> QED BY <1>1, <2>1, <2>2 DEF CreateUserCommit, OneAccountPerEmail
  <1>2. ASSUME users' \subseteq users PROVE u = v
    BY <1>2, RowHistory DEF OneAccountPerEmail
  <1> QED BY <1>1, <1>2, TablesFrame DEF Purge

-----------------------------------------------------------------------------
(* Ids are never generated twice *)

LEMMA IdsNext == TypeOK /\ IdsAreKnown /\ [Next]_vars => IdsAreKnown'
  <1> SUFFICES ASSUME TypeOK, IdsAreKnown, [Next]_vars PROVE IdsAreKnown'
    OBVIOUS
  <1>1. (users \cap purged = {})' /\ KnownIds \subseteq KnownIds'
    <2>1. ASSUME NEW r \in Requests, NEW u \in UserIds, CreateUserCommit(r, u)
          PROVE  (users \cap purged = {})' /\ KnownIds \subseteq KnownIds'
      BY <2>1 DEF CreateUserCommit, FreshIds, IdsAreKnown, KnownIds
    <2>2. ASSUME NEW j \in JobIds, Purge(j)
          PROVE  (users \cap purged = {})' /\ KnownIds \subseteq KnownIds'
      BY <2>2 DEF Purge, IdsAreKnown, KnownIds
    <2>3. CASE UNCHANGED <<users, vaults, purged>>
      BY <2>3 DEF IdsAreKnown, KnownIds
    <2> QED BY <2>1, <2>2, <2>3, TablesFrame
  <1>2. \A r \in Requests : req'[r].uid \in KnownIds \cup {NoUser}
    <2>1. ASSUME NEW r \in Requests, NEW pc, NEW u \in users, NEW ns, NEW flag,
                 Begin(r, pc, u, ns, flag)
          PROVE  \A q \in Requests : req'[q].uid \in KnownIds \cup {NoUser}
      BY <2>1 DEF Begin, IdsAreKnown, KnownIds, TypeOK, ReqTypeOK
    <2>2. ASSUME NEW r \in Requests, NEW pc \in Pcs, Goto(r, pc)
          PROVE  \A q \in Requests : req'[q].uid \in KnownIds \cup {NoUser}
      BY <2>2 DEF Goto, IdsAreKnown, TypeOK, ReqTypeOK, Request
    <2>3. ASSUME NEW r \in Requests, Finish(r)
          PROVE  \A q \in Requests : req'[q].uid \in KnownIds \cup {NoUser}
      BY <2>3 DEF Finish, Idle, IdsAreKnown, TypeOK, ReqTypeOK
    <2>4. CASE UNCHANGED req
      BY <2>4 DEF IdsAreKnown
    <2>5. ASSUME NEW r \in Requests, Arrive(r)
          PROVE  \A q \in Requests : req'[q].uid \in KnownIds \cup {NoUser}
      <3>1. ASSUME NEW e \in Emails, CreateUser(r, e)
            PROVE  \A q \in Requests : req'[q].uid \in KnownIds \cup {NoUser}
        BY <3>1 DEF CreateUser, IdsAreKnown, TypeOK, ReqTypeOK
      <3> QED
        BY <2>1, <2>5, <3>1 DEF Arrive, Login, ResendOtp, VerifyOtp, Verify2fa, UpdateMe,
                                DeleteMe, Authenticated
    <2>6. ASSUME NEW r \in Requests, Continue(r)
          PROVE  \A q \in Requests : req'[q].uid \in KnownIds \cup {NoUser}
      <3>1. Finish(r) \/ \E pc \in Pcs : Goto(r, pc)
        BY <2>6 DEF Continue, CreateUserCommit, CreateUserConflict, IssueOtp, LoginCommit,
                    MatchOtp, ConsumeOtp, VerifyCommit, UpdateMeCommit, DeleteMeCommit,
                    EnqueuePurge, Pcs
      <3> QED BY <2>2, <2>3, <3>1
    <2>7. ASSUME NEW j \in JobIds, Worker(j) PROVE UNCHANGED req
      BY <2>7 DEF Worker, CheckPurge, Purge
    <2>8. ASSUME Environment PROVE UNCHANGED req \/ \E r \in Requests : Finish(r)
      BY <2>8 DEF Environment, WorkerDies, JobFails, RequestDies, CodeExpires, TokenExpires, Tick
    <2> QED BY <2>3, <2>4, <2>5, <2>6, <2>7, <2>8 DEF Next, vars
  <1>3. tokens' \subseteq KnownIds /\ \A c \in codes' : c[2] \in KnownIds
    <2>1. ASSUME NEW r \in Requests, Continue(r),
                 tokens' # tokens \/ codes' # codes
          PROVE  /\ tokens' \subseteq tokens \cup {req[r].uid}
                 /\ \E ns : codes' \subseteq codes \cup {<<ns, req[r].uid>>}
                 /\ req[r].uid \in KnownIds
      <3>1. req[r].uid \in KnownIds
        BY <2>1, NoneAssumption
           DEF Continue, CreateUserCommit, CreateUserConflict, IssueOtp, LoginCommit,
               MatchOtp, ConsumeOtp, VerifyCommit, UpdateMeCommit, DeleteMeCommit,
               EnqueuePurge, IdsAreKnown, TypeOK, ReqTypeOK
      <3>2. tokens' \subseteq tokens \cup {req[r].uid}
        BY <2>1
           DEF Continue, CreateUserCommit, CreateUserConflict, IssueOtp, LoginCommit,
               MatchOtp, ConsumeOtp, VerifyCommit, UpdateMeCommit, DeleteMeCommit,
               EnqueuePurge
      <3>3. codes' \subseteq codes \cup {<<req[r].ns, req[r].uid>>}
        BY <2>1
           DEF Continue, CreateUserCommit, CreateUserConflict, IssueOtp, LoginCommit,
               MatchOtp, ConsumeOtp, VerifyCommit, UpdateMeCommit, DeleteMeCommit,
               EnqueuePurge
      <3> QED BY <3>1, <3>2, <3>3
    <2>2. ASSUME NEW r \in Requests, Arrive(r) PROVE UNCHANGED <<tokens, codes>>
      BY <2>2 DEF Arrive, CreateUser, Login, ResendOtp, VerifyOtp, Verify2fa, UpdateMe, DeleteMe
    <2>3. ASSUME NEW j \in JobIds, Worker(j) PROVE UNCHANGED <<tokens, codes>>
      BY <2>3 DEF Worker, CheckPurge, Purge
    <2>4. ASSUME Environment PROVE tokens' \subseteq tokens /\ codes' \subseteq codes
      BY <2>4 DEF Environment, WorkerDies, JobFails, RequestDies, CodeExpires, TokenExpires, Tick
    <2> QED BY <2>1, <2>2, <2>3, <2>4 DEF Next, vars, IdsAreKnown
  <1>4. \A j \in JobIds : job'[j].uid \in KnownIds \cup {NoUser}
    <2>1. ASSUME NEW r \in Requests, NEW j \in JobIds, EnqueuePurge(r, j)
          PROVE  \A k \in JobIds : job'[k].uid \in KnownIds \cup {NoUser}
      BY <2>1 DEF EnqueuePurge, IdsAreKnown, TypeOK
    <2>2. ASSUME NEW j \in JobIds, CheckPurge(j) \/ Purge(j) \/ WorkerDies(j) \/ JobFails(j)
          PROVE  \A k \in JobIds : job'[k].uid \in KnownIds \cup {NoUser}
      BY <2>2 DEF CheckPurge, Purge, WorkerDies, JobFails, NoJob, IdsAreKnown, TypeOK, Job
    <2>3. CASE UNCHANGED job
      BY <2>3 DEF IdsAreKnown
    <2> QED BY <2>1, <2>2, <2>3, JobFrame
  <1> QED BY <1>1, <1>2, <1>3, <1>4 DEF IdsAreKnown

-----------------------------------------------------------------------------
(* Sessions come after the verification *)

\* What the verification of u must come before.
Closed(u) ==
    /\ u \notin tokens
    /\ <<"2fa_otp", u>> \notin codes
    /\ \A r \in Requests : req[r].uid = u =>
         /\ req[r].pc # "login"
         /\ req[r].ns = "2fa_otp" => req[r].pc = "match"

\* An id that has no row yet is closed to every session.
LEMMA FreshIsClosed ==
    ASSUME TypeOK, IdsAreKnown, NEW u \in FreshIds
    PROVE  Closed(u)
  BY NoneAssumption DEF IdsAreKnown, KnownIds, FreshIds, Closed

\* A closed account is opened by no step but the one that verifies it.
LEMMA ClosedNext ==
    ASSUME TypeOK, [Next]_vars, NEW u \in UserIds, Closed(u),
           u \in users => ~row[u].verified
    PROVE  Closed(u)'
  <1> USE DEF Closed, TypeOK, ReqTypeOK
  <1>1. ASSUME NEW r \in Requests, Arrive(r) PROVE Closed(u)'
    <2>1. ASSUME NEW e \in Emails, CreateUser(r, e) PROVE Closed(u)'
      BY <2>1, NoneAssumption DEF CreateUser
    <2>2. ASSUME NEW v \in UserIds, NEW c \in BOOLEAN, Login(r, v, c) PROVE Closed(u)'
      BY <2>2 DEF Login, Begin
    <2>3. ASSUME NEW v \in UserIds, ResendOtp(r, v) PROVE Closed(u)'
      BY <2>3 DEF ResendOtp, Begin
    <2>4. ASSUME NEW v \in UserIds, VerifyOtp(r, v) PROVE Closed(u)'
      BY <2>4 DEF VerifyOtp, Begin
    <2>5. ASSUME NEW v \in UserIds, Verify2fa(r, v) PROVE Closed(u)'
      BY <2>5 DEF Verify2fa, Begin
    <2>6. ASSUME NEW v \in UserIds, NEW b \in BOOLEAN, UpdateMe(r, v, b) PROVE Closed(u)'
      BY <2>6 DEF UpdateMe, Begin
    <2>7. ASSUME NEW v \in UserIds, DeleteMe(r, v) PROVE Closed(u)'
      BY <2>7 DEF DeleteMe, Begin
    <2> QED BY <1>1, <2>1, <2>2, <2>3, <2>4, <2>5, <2>6, <2>7 DEF Arrive
  <1>2. ASSUME NEW r \in Requests, Continue(r) PROVE Closed(u)'
    <2>1. ASSUME Finish(r), UNCHANGED tokens,
                 codes' \subseteq codes \cup {<<req[r].ns, req[r].uid>>},
                 req[r].uid = u => req[r].ns = "otp" \/ codes' \subseteq codes
          PROVE  Closed(u)'
      BY <2>1, NoneAssumption DEF Finish, Idle
    <2>2. ASSUME NEW v \in UserIds, CreateUserCommit(r, v) PROVE Closed(u)'
      BY <2>1, <2>2 DEF CreateUserCommit
    <2>3. CASE CreateUserConflict(r)
      BY <2>1, <2>3 DEF CreateUserConflict
    <2>4. CASE IssueOtp(r)
      BY <2>1, <2>4 DEF IssueOtp, Request, Namespaces
    <2>5. CASE LoginCommit(r)
      BY <2>5, NoneAssumption DEF LoginCommit, Finish, Idle
    <2>6. CASE MatchOtp(r)
      <3>1. CASE Finish(r)
        BY <2>1, <2>6, <3>1 DEF MatchOtp
      <3>2. CASE <<req[r].ns, req[r].uid>> \in codes /\ Goto(r, "consume")
        <4>1. req[r].uid = u => req[r].ns = "otp"
          BY <3>2 DEF Request, Namespaces
        <4> QED BY <2>6, <3>2, <4>1 DEF MatchOtp, Goto, Request
      <3> QED BY <2>6, <3>1, <3>2 DEF MatchOtp
    <2>7. CASE ConsumeOtp(r)
      BY <2>7, NoneAssumption DEF ConsumeOtp, Goto, Finish, Idle, Request
    <2>8. CASE VerifyCommit(r)
      BY <2>1, <2>8 DEF VerifyCommit
    <2>9. CASE UpdateMeCommit(r)
      BY <2>1, <2>9 DEF UpdateMeCommit
    <2>10. CASE DeleteMeCommit(r)
      BY <2>10, NoneAssumption DEF DeleteMeCommit, Goto, Finish, Idle, Request
    <2>11. ASSUME NEW j \in JobIds, EnqueuePurge(r, j) PROVE Closed(u)'
      BY <2>1, <2>11 DEF EnqueuePurge
    <2> QED
      BY <1>2, <2>2, <2>3, <2>4, <2>5, <2>6, <2>7, <2>8, <2>9, <2>10, <2>11 DEF Continue
  <1>3. ASSUME NEW j \in JobIds, Worker(j) PROVE Closed(u)'
    BY <1>3 DEF Worker, CheckPurge, Purge
  <1>4. CASE Environment
    <2>1. ASSUME NEW r \in Requests, RequestDies(r) PROVE Closed(u)'
      BY <2>1, NoneAssumption DEF RequestDies, Finish, Idle
    <2> QED BY <1>4, <2>1 DEF Environment, WorkerDies, JobFails, CodeExpires, TokenExpires, Tick
  <1>5. CASE UNCHANGED vars
    BY <1>5 DEF vars
  <1> QED BY <1>1, <1>2, <1>3, <1>4, <1>5 DEF Next

LEMMA VerifiedNext ==
    TypeOK /\ IdsAreKnown /\ VerifiedFirst /\ [Next]_vars => VerifiedFirst'
  <1> SUFFICES ASSUME TypeOK, IdsAreKnown, VerifiedFirst, [Next]_vars,
                      NEW u \in users', ~row'[u].verified
               PROVE  Closed(u)'
    BY DEF VerifiedFirst, Closed
  <1>1. u \in UserIds
    BY TypeNext DEF TypeOK
  <1>2. CASE u \in users
    <2>1. ~row[u].verified
      BY <1>2, RowHistory
    <2>2. Closed(u)
      BY <1>2, <2>1 DEF VerifiedFirst, Closed
    <2> QED BY <1>1, <2>1, <2>2, ClosedNext
  <1>3. CASE u \notin users
    <2>1. PICK r \in Requests, v \in UserIds : CreateUserCommit(r, v)
      BY <1>3, TablesFrame DEF Purge
    <2>2. u \in FreshIds
      BY <1>3, <2>1 DEF CreateUserCommit
    <2> QED BY <1>1, <1>3, <2>2, FreshIsClosed, ClosedNext
  <1> QED BY <1>2, <1>3

-----------------------------------------------------------------------------
(* Purges and the grace period *)

\* The clock never runs back, and what was deleted once stays on record.
LEMMA HistoryNext ==
    ASSUME TypeOK, [Next]_vars
    PROVE  /\ now <= now' /\ now' \in Nat
           /\ \A u \in UserIds : deletions[u] \subseteq deletions'[u]
  <1> USE DEF TypeOK
  <1>1. ASSUME NEW r \in Requests, Arrive(r) PROVE UNCHANGED <<now, deletions>>
    BY <1>1 DEF Arrive, CreateUser, Login, ResendOtp, VerifyOtp, Verify2fa, UpdateMe, DeleteMe
  <1>2. ASSUME NEW r \in Requests, Continue(r)
        PROVE  UNCHANGED now /\ \A u \in UserIds : deletions[u] \subseteq deletions'[u]
    BY <1>2 DEF Continue, CreateUserCommit, CreateUserConflict, IssueOtp, LoginCommit,
                MatchOtp, ConsumeOtp, VerifyCommit, UpdateMeCommit, DeleteMeCommit,
                EnqueuePurge
  <1>3. ASSUME NEW j \in JobIds, Worker(j) PROVE UNCHANGED <<now, deletions>>
    BY <1>3 DEF Worker, CheckPurge, Purge
  <1>4. ASSUME Environment PROVE UNCHANGED deletions /\ now' \in {now, now + 1}
    BY <1>4 DEF Environment, WorkerDies, JobFails, RequestDies, CodeExpires, TokenExpires, Tick
  <1>5. CASE UNCHANGED vars
    BY <1>5 DEF vars
  <1> QED BY <1>1, <1>2, <1>3, <1>4, <1>5 DEF Next

\* Only DELETE /users/me gets to the step that schedules a purge.
LEMMA EnqueueFrame ==
    ASSUME TypeOK, [Next]_vars, NEW r \in Requests, req'[r].pc = "enqueue"
    PROVE  req'[r] = req[r] \/ DeleteMeCommit(r)
  <1> USE DEF TypeOK, ReqTypeOK
  <1>1. ASSUME NEW q \in Requests, Arrive(q) PROVE req'[r] = req[r]
    <2>1. ASSUME NEW pc, NEW u, NEW ns, NEW flag, Begin(q, pc, u, ns, flag), pc # "enqueue"
          PROVE  req'[r] = req[r]
      BY <2>1 DEF Begin
    <2>2. ASSUME NEW e \in Emails, CreateUser(q, e) PROVE req'[r] = req[r]
      BY <2>2 DEF CreateUser
    <2> QED
      BY <1>1, <2>1, <2>2 DEF Arrive, Login, ResendOtp, VerifyOtp, Verify2fa, UpdateMe, DeleteMe
  <1>2. ASSUME NEW q \in Requests, Finish(q) PROVE req'[r] = req[r]
    BY <1>2 DEF Finish, Idle
  <1>3. ASSUME NEW q \in Requests, Continue(q) PROVE req'[r] = req[r] \/ DeleteMeCommit(r)
    <2>1. CASE Finish(q)
      BY <1>2, <2>1
    <2>2. CASE Goto(q, "consume") \/ Goto(q, "verify")
      BY <2>2 DEF Goto, Request
    <2>3. CASE DeleteMeCommit(q)
      BY <1>2, <2>3 DEF DeleteMeCommit, Goto
    <2> QED
      BY <1>3, <2>1, <2>2, <2>3 DEF Continue, CreateUserCommit, CreateUserConflict, IssueOtp,
                LoginCommit, MatchOtp, ConsumeOtp, VerifyCommit, UpdateMeCommit, EnqueuePurge
  <1>4. ASSUME NEW j \in JobIds, Worker(j) PROVE req'[r] = req[r]
    BY <1>4 DEF Worker, CheckPurge, Purge
  <1>5. CASE Environment
    BY <1>2, <1>5 DEF Environment, WorkerDies, JobFails, RequestDies, CodeExpires, TokenExpires, Tick
  <1>6. CASE UNCHANGED vars
    BY <1>6 DEF vars
  <1> QED BY <1>1, <1>3, <1>4, <1>5, <1>6 DEF Next

LEMMA GraceNext == TypeOK /\ GraceStarted /\ [Next]_vars => GraceStarted'
  <1> SUFFICES ASSUME TypeOK, GraceStarted, [Next]_vars PROVE GraceStarted'
    OBVIOUS
  <1> USE GraceAssumption
  <1>1. ASSUME NEW r \in Requests, req'[r].pc = "enqueue"
        PROVE  \E t \in deletions'[req'[r].uid] : t <= now'
    <2>1. CASE req'[r] = req[r]
      <3>1. req[r].uid \in UserIds
        BY <1>1, <2>1 DEF TypeOK, ReqTypeOK
      <3>2. PICK t \in deletions[req[r].uid] : t <= now
        BY <1>1, <2>1 DEF GraceStarted
      <3> QED BY <2>1, <3>1, <3>2, HistoryNext DEF TypeOK
    <2>2. CASE DeleteMeCommit(r)
      <3>1. req[r].uid \in UserIds
        BY <2>2 DEF DeleteMeCommit, TypeOK, ReqTypeOK
      <3>2. req'[r].uid = req[r].uid
        BY <1>1, <2>2 DEF DeleteMeCommit, Goto, Finish, Idle, TypeOK, ReqTypeOK, Request
      <3>3. now \in deletions'[req[r].uid] /\ now' = now
        BY <1>1, <2>2, <3>1 DEF DeleteMeCommit, Finish, Idle, TypeOK, ReqTypeOK
      <3> QED BY <3>2, <3>3 DEF TypeOK
    <2> QED BY <1>1, <2>1, <2>2, EnqueueFrame
  <1>2. ASSUME NEW j \in JobIds, job'[j].st # "none"
        PROVE  /\ \E t \in deletions'[job'[j].uid] : t + Grace <= job'[j].due
               /\ job'[j].st = "checked" => job'[j].due <= now'
    <2>1. CASE job'[j].uid = job[j].uid /\ job'[j].due = job[j].due /\ job[j].st # "none"
               /\ (job'[j].st = "checked" => job[j].due <= now)
      <3>1. job[j].uid \in UserIds /\ job[j].due \in Nat
        BY <2>1 DEF TypeOK, Job
      <3>2. PICK t \in deletions[job[j].uid] : t + Grace <= job[j].due
        BY <2>1 DEF GraceStarted
      <3> QED BY <2>1, <3>1, <3>2, HistoryNext DEF TypeOK
    <2>2. ASSUME NEW r \in Requests, NEW k \in JobIds, EnqueuePurge(r, k), k = j
          PROVE  /\ \E t \in deletions'[job'[j].uid] : t + Grace <= job'[j].due
                 /\ job'[j].st = "checked" => job'[j].due <= now'
      <3>1. req[r].uid \in UserIds
        BY <2>2 DEF EnqueuePurge, TypeOK, ReqTypeOK
      <3>2. PICK t \in deletions[req[r].uid] : t <= now
        BY <2>2 DEF EnqueuePurge, GraceStarted
      <3>3. t \in Nat /\ now \in Nat
        BY <3>1, <3>2 DEF TypeOK
      <3>4. job'[j] = [st |-> "queued", uid |-> req[r].uid, due |-> now + Grace]
        BY <2>2 DEF EnqueuePurge, TypeOK
      <3>5. t \in deletions'[req[r].uid]
        BY <3>1, <3>2, HistoryNext
      <3> QED BY <3>2, <3>3, <3>4, <3>5
    <2>3. ASSUME NEW k \in JobIds, CheckPurge(k) \/ Purge(k) \/ WorkerDies(k) \/ JobFails(k)
          PROVE  /\ job'[j].uid = job[j].uid /\ job'[j].due = job[j].due
                 /\ job[j].st # "none"
                 /\ job'[j].st = "checked" => job[j].due <= now
      BY <1>2, <2>3 DEF CheckPurge, Purge, WorkerDies, JobFails, NoJob, Job, TypeOK, GraceStarted
    <2>4. CASE UNCHANGED job
      BY <1>2, <2>1, <2>4 DEF GraceStarted
    <2>5. ASSUME NEW r \in Requests, NEW k \in JobIds, EnqueuePurge(r, k), k # j
          PROVE  job'[j] = job[j]
      BY <2>5 DEF EnqueuePurge, TypeOK
    <2> QED BY <1>2, <2>1, <2>2, <2>3, <2>4, <2>5, JobFrame DEF GraceStarted
  <1> QED BY <1>1, <1>2 DEF GraceStarted

\* A step that purges an account does so a grace period after a deletion of it.
LEMMA PurgeStep ==
    ASSUME TypeOK, GraceStarted, [Next]_vars, NEW u \in UserIds, PurgeOf(u)
    PROVE  \E t \in deletions[u] : t + Grace <= now
  <1>1. PICK j \in JobIds : Purge(j)
    BY TablesFrame DEF PurgeOf, CreateUserCommit
  <1>2. job[j].uid = u
    BY <1>1 DEF Purge, PurgeOf
  <1>3. job[j].st = "checked" /\ job[j].due \in Nat
    BY <1>1 DEF Purge, TypeOK, Job
  <1>4. PICK t \in deletions[u] : t + Grace <= job[j].due
    BY <1>2, <1>3 DEF GraceStarted
  <1>5. job[j].due <= now
    BY <1>3 DEF GraceStarted
  <1>6. t \in Nat /\ now \in Nat
    BY <1>4 DEF TypeOK
  <1> QED BY <1>3, <1>4, <1>5, <1>6, GraceAssumption

-----------------------------------------------------------------------------
(* Theorems *)

\* The inductive invariant of Accounts.
THEOREM Invariant == Spec => []IInv
  <1>1. Init => IInv
    <2> SUFFICES ASSUME Init PROVE IInv
      OBVIOUS
    <2>1. /\ \A r \in Requests : req[r].pc = "idle" /\ req[r].uid = NoUser
          /\ \A j \in JobIds : job[j].st = "none" /\ job[j].uid = NoUser
      BY DEF Init, Idle, NoJob
    <2> QED
      BY <2>1, TypeInit DEF Init, IInv, IdsAreKnown, KnownIds, OneAccountPerEmail,
                            VerifiedFirst, GraceStarted
  <1>2. IInv /\ [Next]_vars => IInv'
    BY TypeNext, IdsNext, EmailNext, VerifiedNext, GraceNext DEF IInv
  <1> QED BY <1>1, <1>2, PTL DEF Spec

\* Registrations of one address never both succeed, at whatever points of
\* create_user they interleave.
THEOREM EmailsUnique == Spec => []OneAccountPerEmail
  BY Invariant, PTL DEF IInv

\* No interleaving of logins, verifications, 2FA changes, reactivations and
\* purges gives anybody a token of an account that was never verified.
THEOREM SessionsVerified == Spec => []SessionsAreVerified
  <1>1. IInv => SessionsAreVerified
    BY DEF IInv, VerifiedFirst, SessionsAreVerified
  <1> QED BY <1>1, Invariant, PTL

\* No account is purged before a grace period has passed since it was deleted.
THEOREM GraceKept == Spec => NoEarlyPurge
  <1>1. IInv /\ [Next]_vars =>
          [\A u \in UserIds : PurgeOf(u) => \E t \in deletions[u] : t + Grace <= now]_vars
    BY PurgeStep DEF IInv
  <1> QED BY <1>1, Invariant, PTL DEF Spec, NoEarlyPurge

\* Only an account that was deleted on two different days can lose part of a grace
\* period: one that was deleted on one day keeps it whole, as worker.py:41 has it.
THEOREM WholeGraceOnce ==
    Spec => [][\A u \in UserIds : PurgeOf(u) /\ (\A s, t \in deletions[u] : s = t) =>
                 \A t \in deletions[u] : t + Grace <= now]_vars
  <1>1. [\A u \in UserIds : PurgeOf(u) => \E t \in deletions[u] : t + Grace <= now]_vars
          => [\A u \in UserIds : PurgeOf(u) /\ (\A s, t \in deletions[u] : s = t) =>
                 \A t \in deletions[u] : t + Grace <= now]_vars
    BY Zenon
  <1> QED BY <1>1, GraceKept, PTL DEF NoEarlyPurge

-----------------------------------------------------------------------------
(* No deletion is forgotten, as long as no request or job fails *)

LEMMA ScheduledNext ==
    ASSUME Faults \cap {"request", "job"} = {}, TypeOK, IdsAreKnown, PurgeScheduled, [Next]_vars
    PROVE  PurgeScheduled'
  <1> SUFFICES ASSUME NEW u \in users', row'[u].deleted
               PROVE  \/ \E j \in JobIds : job'[j].uid = u
                      \/ \E r \in Requests : req'[r].pc = "enqueue" /\ req'[r].uid = u
    BY DEF PurgeScheduled
  <1> DEFINE Scheduled == \/ \E j \in JobIds : job[j].uid = u
                          \/ \E r \in Requests : req[r].pc = "enqueue" /\ req[r].uid = u
  <1> USE DEF TypeOK, ReqTypeOK
  <1>0. u \in UserIds /\ u # NoUser
    BY TypeNext, NoneAssumption
  <1>1. CASE u \in users /\ row[u].deleted
    <2>1. Scheduled
      BY <1>1 DEF PurgeScheduled
    <2>2. ASSUME NEW j \in JobIds, job[j].uid = u
          PROVE  \E k \in JobIds : job'[k].uid = u
      <3>1. ASSUME NEW r \in Requests, NEW k \in JobIds, EnqueuePurge(r, k)
            PROVE  job'[j].uid = u
        BY <1>0, <2>2, <3>1 DEF EnqueuePurge, NoJob
      <3>2. ASSUME NEW k \in JobIds, CheckPurge(k) \/ WorkerDies(k)
            PROVE  job'[j].uid = u
        BY <1>1, <2>2, <3>2 DEF CheckPurge, WorkerDies, Job
      <3>3. ASSUME NEW k \in JobIds, Purge(k) PROVE job'[j].uid = u
        BY <2>2, <3>3 DEF Purge
      <3>4. ASSUME NEW k \in JobIds, JobFails(k) PROVE FALSE
        BY <3>4 DEF JobFails
      <3> QED BY <2>2, <3>1, <3>2, <3>3, <3>4, JobFrame
    <2>3. ASSUME NEW r \in Requests, req[r].pc = "enqueue", req[r].uid = u
          PROVE  \/ req'[r] = req[r]
                 \/ \E j \in JobIds : job'[j].uid = u
      <3>1. ASSUME NEW q \in Requests, Arrive(q) PROVE req'[r] = req[r]
        <4>1. ASSUME NEW pc, NEW v, NEW ns, NEW flag, Begin(q, pc, v, ns, flag)
              PROVE  req'[r] = req[r]
          BY <2>3, <4>1 DEF Begin, Idle
        <4>2. ASSUME NEW e \in Emails, CreateUser(q, e) PROVE req'[r] = req[r]
          BY <2>3, <4>2 DEF CreateUser, Idle
        <4> QED
          BY <3>1, <4>1, <4>2 DEF Arrive, Login, ResendOtp, VerifyOtp, Verify2fa, UpdateMe,
                                  DeleteMe
      <3>2. ASSUME NEW q \in Requests, NEW j \in JobIds, EnqueuePurge(q, j)
            PROVE  req'[r] = req[r] \/ job'[j].uid = u
        BY <2>3, <3>2 DEF EnqueuePurge, Finish
      <3>3. ASSUME NEW q \in Requests, Continue(q), req[q].pc # "enqueue"
            PROVE  req'[r] = req[r]
        <4>1. Finish(q) \/ \E pc \in Pcs : Goto(q, pc)
          BY <3>3 DEF Continue, CreateUserCommit, CreateUserConflict, IssueOtp, LoginCommit,
                      MatchOtp, ConsumeOtp, VerifyCommit, UpdateMeCommit, DeleteMeCommit,
                      EnqueuePurge, Pcs
        <4> QED BY <2>3, <3>3, <4>1 DEF Finish, Goto
      <3>4. ASSUME NEW q \in Requests, Continue(q), req[q].pc = "enqueue"
            PROVE  \E j \in JobIds : EnqueuePurge(q, j)
        BY <3>4 DEF Continue, CreateUserCommit, CreateUserConflict, IssueOtp, LoginCommit,
                    MatchOtp, ConsumeOtp, VerifyCommit, UpdateMeCommit, DeleteMeCommit
      <3>5. ASSUME NEW j \in JobIds, Worker(j) PROVE req'[r] = req[r]
        BY <3>5 DEF Worker, CheckPurge, Purge
      <3>6. CASE Environment
        BY <3>6 DEF Environment, WorkerDies, JobFails, RequestDies, CodeExpires, TokenExpires, Tick
      <3>7. CASE UNCHANGED vars
        BY <3>7 DEF vars
      <3> QED BY <3>1, <3>2, <3>3, <3>4, <3>5, <3>6, <3>7 DEF Next
    <2> QED BY <2>1, <2>2, <2>3
  <1>2. CASE ~(u \in users /\ row[u].deleted)
    <2>1. PICK r \in Requests : DeleteMeCommit(r) /\ req[r].uid = u
      <3>1. ASSUME NEW r \in Requests, NEW v \in UserIds, CreateUserCommit(r, v) PROVE FALSE
        BY <1>2, <3>1 DEF CreateUserCommit, NewRow
      <3>2. ASSUME NEW j \in JobIds, Purge(j) PROVE FALSE
        BY <1>2, <3>2 DEF Purge
      <3>3. ASSUME NEW r \in Requests,
                   LoginCommit(r) \/ VerifyCommit(r) \/ UpdateMeCommit(r)
            PROVE  FALSE
        <4>1. \/ row' \in {row, [row EXCEPT ![req[r].uid].deleted = FALSE]}
              \/ row' \in {row, [row EXCEPT ![req[r].uid].verified = TRUE]}
              \/ row' \in {row, [row EXCEPT ![req[r].uid].twofa = req[r].flag]}
          BY <3>3 DEF LoginCommit, VerifyCommit, UpdateMeCommit
        <4>2. users' = users
          BY <3>3 DEF LoginCommit, VerifyCommit, UpdateMeCommit
        <4> QED BY <1>2, <4>1, <4>2 DEF Row
      <3>4. ASSUME NEW r \in Requests, DeleteMeCommit(r) PROVE req[r].uid = u
        BY <1>2, <3>4 DEF DeleteMeCommit, Row
      <3> QED BY <1>2, <3>1, <3>2, <3>3, <3>4, RowFrame, TablesFrame
    <2>2. u \in users
      BY <2>1 DEF DeleteMeCommit
    <2> QED BY <2>1, <2>2 DEF DeleteMeCommit, Goto, Request
  <1> QED BY <1>1, <1>2

\* Every soft-deleted account has its purge in the queue, or about to be put
\* there, if no request dies, Redis is always reached and no job fails; otherwise a
\* request that dies between the two leaves one that is forgotten.
THEOREM DeletionScheduled == Faults \cap {"request", "job"} = {} => (Spec => []PurgeScheduled)
  <1> SUFFICES ASSUME Faults \cap {"request", "job"} = {} PROVE Spec => []PurgeScheduled
    OBVIOUS
  <1>1. Init => PurgeScheduled
    BY DEF Init, PurgeScheduled
  <1>2. IInv /\ PurgeScheduled /\ [Next]_vars => PurgeScheduled'
    BY ScheduledNext DEF IInv
  <1> QED BY <1>1, <1>2, Invariant, PTL DEF Spec

-----------------------------------------------------------------------------
(* The refinement of AccountLifecycle *)

PhaseMap == [u \in UserIds |-> Phase(u)]
HolderMap == [e \in Emails |-> Holder(e)]

\* A worker has looked at the account and is about to purge it.
Checked(u) == \E j \in JobIds : job[j].st = "checked" /\ job[j].uid = u

\* What the mapping comes to, without CASE and CHOOSE.
PhaseFits ==
    \A u \in UserIds :
      /\ u \in purged => Phase(u) = "gone"
      /\ u \notin users \cup purged => Phase(u) = "none"
      /\ u \in users /\ Checked(u) => Phase(u) = "doomed"
      /\ u \in users /\ ~Checked(u) => Phase(u) = IF row[u].deleted THEN "deleted" ELSE "active"

HolderFits ==
    \A e \in Emails :
      /\ \A u \in users : row[u].email = e => Holder(e) = u
      /\ (\A u \in users : row[u].email # e) => Holder(e) = NoUser

LEMMA MappingFits == IInv => PhaseFits /\ HolderFits
  <1> SUFFICES ASSUME IInv PROVE PhaseFits /\ HolderFits
    OBVIOUS
  <1>1. PhaseFits
    <2> SUFFICES ASSUME NEW u \in UserIds
                 PROVE  /\ u \in purged => Phase(u) = "gone"
                        /\ u \notin users \cup purged => Phase(u) = "none"
                        /\ u \in users /\ Checked(u) => Phase(u) = "doomed"
                        /\ u \in users /\ ~Checked(u) =>
                             Phase(u) = IF row[u].deleted THEN "deleted" ELSE "active"
      BY DEF PhaseFits
    <2>1. users \cap purged = {} /\ (u \in FreshIds <=> u \notin users \cup purged)
      BY DEF IInv, IdsAreKnown, FreshIds
    <2>2. Phase(u) = CASE u \in purged -> "gone"
                       [] u \in FreshIds -> "none"
                       [] u \in users /\ Checked(u) -> "doomed"
                       [] OTHER -> IF row[u].deleted THEN "deleted" ELSE "active"
      BY DEF Phase, Checked
    <2> QED BY <2>1, <2>2
  <1>2. HolderFits
    <2>1. ASSUME NEW e \in Emails, NEW u \in users, row[u].email = e PROVE Holder(e) = u
      BY <2>1 DEF Holder, IInv, OneAccountPerEmail
    <2>2. ASSUME NEW e \in Emails, \A u \in users : row[u].email # e PROVE Holder(e) = NoUser
      BY <2>2 DEF Holder
    <2> QED BY <2>1, <2>2 DEF HolderFits
  <1> QED BY <1>1, <1>2

LEMMA MappingFitsNext == (IInv => PhaseFits /\ HolderFits) /\ (IInv' => PhaseFits' /\ HolderFits')
  BY MappingFits, PTL

\* A step that keeps the rows and their addresses keeps the holders.
LEMMA HoldersKept ==
    ASSUME IInv, IInv', users' = users, \A u \in users : row'[u].email = row[u].email
    PROVE  HolderMap' = HolderMap
  <1>1. HolderFits /\ HolderFits'
    BY MappingFitsNext
  <1>2. ASSUME NEW e \in Emails PROVE Holder(e)' = Holder(e)
    <2>1. CASE \E u \in users : row[u].email = e
      BY <1>1, <2>1 DEF HolderFits
    <2>2. CASE \A u \in users : row[u].email # e
      BY <1>1, <2>2 DEF HolderFits
    <2> QED BY <2>1, <2>2
  <1> QED BY <1>2 DEF HolderMap

MayTurn(from, to) ==
    \/ from = "active" /\ to = "deleted"
    \/ from = "deleted" /\ to \in {"active", "doomed"}
    \/ from = "doomed" /\ to \in {"active", "deleted"}

\* The abstract step that a change of the phase of one account is.
LEMMA OneTurns ==
    ASSUME IInv, IInv', users' = users, purged' = purged, HolderMap' = HolderMap,
           NEW u \in UserIds,
           \A v \in users : v # u => (Checked(v)' <=> Checked(v)) /\ row'[v].deleted = row[v].deleted,
           Phase(u)' = Phase(u) \/ MayTurn(Phase(u), Phase(u)')
    PROVE  [Lifecycle!Next]_<<PhaseMap, HolderMap>>
  <1>1. PhaseFits /\ PhaseFits'
    BY MappingFitsNext
  <1>2. ASSUME NEW v \in UserIds, v # u PROVE Phase(v)' = Phase(v)
    <2>1. CASE v \in users
      BY <1>1, <1>2, <2>1 DEF PhaseFits
    <2>2. CASE v \notin users
      BY <1>1, <2>2 DEF PhaseFits
    <2> QED BY <2>1, <2>2
  <1>3. PhaseMap' = [PhaseMap EXCEPT ![u] = Phase(u)'] /\ PhaseMap[u] = Phase(u)
    BY <1>2 DEF PhaseMap
  <1>4. CASE Phase(u)' = Phase(u)
    BY <1>3, <1>4 DEF PhaseMap
  <1>5. ASSUME NEW from, NEW to, Phase(u) = from, Phase(u)' = to
        PROVE  Lifecycle!Turn(u, from, to)
    BY <1>3, <1>5 DEF Lifecycle!Turn, PhaseMap, HolderMap
  <1> QED BY <1>4, <1>5 DEF MayTurn, Lifecycle!Next, Lifecycle!SoftDelete,
                            Lifecycle!Reactivate, Lifecycle!Doom, Lifecycle!Spare

LEMMA LifecycleInit == Init => Lifecycle!Init
  <1> SUFFICES ASSUME Init PROVE Lifecycle!Init
    OBVIOUS
  <1>1. \A u \in UserIds : Phase(u) = "none"
    BY DEF Init, Phase, FreshIds
  <1>2. \A e \in Emails : Holder(e) = NoUser
    BY DEF Init, Holder
  <1> QED BY <1>1, <1>2 DEF Lifecycle!Init

\* An account is opened with its insert.
LEMMA CreateOpens ==
    ASSUME IInv, IInv', NEW r \in Requests, NEW u \in UserIds, CreateUserCommit(r, u)
    PROVE  \E e \in Emails : Lifecycle!Open(u, e)
  <1> DEFINE e == req[r].email
  <1>1. PhaseFits /\ PhaseFits' /\ HolderFits /\ HolderFits'
    BY MappingFitsNext
  <1>2. /\ e \in Emails /\ u \notin users \cup purged /\ job' = job /\ purged' = purged
        /\ users' = users \cup {u} /\ row' = [row EXCEPT ![u] = NewRow(e)]
        /\ \A v \in users : row[v].email # e
        /\ row \in [UserIds -> Row] /\ users \subseteq UserIds
    BY DEF CreateUserCommit, FreshIds, IInv, TypeOK, ReqTypeOK
  <1>3. /\ row'[u].email = e /\ ~row'[u].deleted
        /\ \A v \in users : v # u /\ row'[v] = row[v]
    BY <1>2 DEF NewRow
  <1> HIDE DEF e
  <1>4. \A v \in UserIds : Checked(v)' <=> Checked(v)
    BY <1>2 DEF Checked
  <1>5. ~Checked(u)
    BY <1>2, NoneAssumption DEF Checked, IInv, IdsAreKnown, KnownIds
  <1>6. ASSUME NEW v \in UserIds PROVE Phase(v)' = IF v = u THEN "active" ELSE Phase(v)
    <2>1. CASE v = u
      BY <1>1, <1>2, <1>3, <1>4, <1>5, <2>1 DEF PhaseFits
    <2>2. CASE v \in users
      BY <1>1, <1>2, <1>3, <1>4, <2>2 DEF PhaseFits
    <2>3. CASE v \in purged
      BY <1>1, <1>2, <2>3 DEF PhaseFits
    <2>4. CASE v # u /\ v \notin users \cup purged
      BY <1>1, <1>2, <2>4 DEF PhaseFits
    <2> QED BY <2>1, <2>2, <2>3, <2>4
  <1>7. ASSUME NEW f \in Emails PROVE Holder(f)' = IF f = e THEN u ELSE Holder(f)
    <2>1. CASE f = e
      BY <1>1, <1>2, <1>3, <2>1 DEF HolderFits
    <2>2. CASE f # e /\ \E v \in users : row[v].email = f
      BY <1>1, <1>2, <1>3, <2>2 DEF HolderFits
    <2>3. CASE f # e /\ \A v \in users : row[v].email # f
      BY <1>1, <1>2, <1>3, <2>3 DEF HolderFits
    <2> QED BY <2>1, <2>2, <2>3
  <1>8. Phase(u) = "none" /\ Holder(e) = NoUser
    BY <1>1, <1>2 DEF PhaseFits, HolderFits
  <1>9. Lifecycle!Open(u, e)
    BY <1>2, <1>6, <1>7, <1>8 DEF Lifecycle!Open
  <1> QED BY <1>2, <1>9

\* A purge takes an account that a job has looked at.  A second job that looked at
\* it finds it gone.
LEMMA PurgePurges ==
    ASSUME IInv, IInv', NEW j \in JobIds, Purge(j)
    PROVE  \/ Lifecycle!Purge(job[j].uid)
           \/ UNCHANGED <<PhaseMap, HolderMap>>
  <1> DEFINE u == job[j].uid
  <1>1. PhaseFits /\ PhaseFits' /\ HolderFits /\ HolderFits'
    BY MappingFitsNext
  <1>2. /\ u \in UserIds /\ u \in users \cup purged /\ Checked(u)
        /\ users \subseteq UserIds /\ purged \subseteq UserIds /\ row \in [UserIds -> Row]
        /\ job \in [JobIds -> Job] /\ users \cap purged = {}
    <2>1. u \in UserIds /\ Checked(u)
      BY DEF Purge, Checked, IInv, TypeOK
    <2> QED BY <2>1, NoneAssumption DEF IInv, TypeOK, IdsAreKnown, KnownIds
  <1>3. /\ users' = users \ {u} /\ purged' = purged \cup {u}
        /\ row' = [row EXCEPT ![u] = BlankRow] /\ job' = [job EXCEPT ![j] = NoJob]
    BY DEF Purge
  <1>4. \A v \in UserIds : v # u => (Checked(v)' <=> Checked(v))
    BY <1>2, <1>3 DEF Checked, NoJob
  <1> HIDE DEF u
  <1>5. \A v \in users' : row'[v] = row[v] /\ v # u /\ v \in users
    BY <1>2, <1>3
  <1>6. ASSUME NEW v \in UserIds PROVE Phase(v)' = IF v = u THEN "gone" ELSE Phase(v)
    <2>1. CASE v \in purged \cup {u}
      BY <1>1, <1>3, <2>1 DEF PhaseFits
    <2>2. CASE v \in users \ {u}
      BY <1>1, <1>2, <1>3, <1>4, <1>5, <2>2 DEF PhaseFits
    <2>3. CASE v \notin users \cup purged
      BY <1>1, <1>2, <1>3, <2>3 DEF PhaseFits
    <2> QED BY <2>1, <2>2, <2>3
  <1>7. ASSUME NEW e \in Emails
        PROVE  Holder(e)' = IF u \in users /\ Holder(e) = u THEN NoUser ELSE Holder(e)
    <2>1. CASE \E v \in users \ {u} : row[v].email = e
      BY <1>1, <1>3, <1>5, <2>1 DEF HolderFits
    <2>2. CASE u \in users /\ row[u].email = e
      <3>1. \A v \in users' : row'[v].email # e
        BY <1>5, <2>2 DEF IInv, OneAccountPerEmail
      <3> QED BY <1>1, <2>2, <3>1 DEF HolderFits
    <2>3. CASE \A v \in users : row[v].email # e
      <3>1. \A v \in users' : row'[v].email # e
        BY <1>5, <2>3
      <3> QED BY <1>1, <1>2, <2>3, <3>1, NoneAssumption DEF HolderFits
    <2> QED BY <2>1, <2>2, <2>3
  <1>8. CASE u \in users
    <2>1. Phase(u) = "doomed"
      BY <1>1, <1>2, <1>8 DEF PhaseFits
    <2>2. Lifecycle!Purge(u)
      BY <1>2, <1>6, <1>7, <1>8, <2>1 DEF Lifecycle!Purge
    <2> QED BY <2>2 DEF u
  <1>9. CASE u \in purged
    <2>1. Phase(u) = "gone" /\ u \notin users
      BY <1>1, <1>2, <1>9 DEF PhaseFits
    <2>2. \A v \in UserIds : Phase(v)' = Phase(v)
      BY <1>6, <2>1
    <2>3. \A e \in Emails : Holder(e)' = Holder(e)
      BY <1>7, <2>1
    <2> QED BY <2>2, <2>3 DEF PhaseMap, HolderMap
  <1> QED BY <1>2, <1>8, <1>9

\* The commits that change a row that stays: a deletion, a reactivation or
\* neither, and too late for either once a job has looked at the account.
LEMMA CommitTurns ==
    ASSUME IInv, IInv', [Next]_vars, NEW r \in Requests,
           LoginCommit(r) \/ VerifyCommit(r) \/ UpdateMeCommit(r) \/ DeleteMeCommit(r)
    PROVE  [Lifecycle!Next]_<<PhaseMap, HolderMap>>
  <1>0. PICK u \in UserIds : u = req[r].uid
    BY DEF LoginCommit, VerifyCommit, UpdateMeCommit, DeleteMeCommit, IInv, TypeOK, ReqTypeOK
  <1>1. /\ row \in [UserIds -> Row] /\ row' \in [UserIds -> Row]
        /\ users \subseteq UserIds
    BY DEF IInv, TypeOK
  <1>2. users' = users /\ purged' = purged /\ job' = job
    BY DEF LoginCommit, VerifyCommit, UpdateMeCommit, DeleteMeCommit
  <1>3. /\ row' # row => u \in users
        /\ \A v \in users : v # u => row'[v] = row[v]
    <2>1. \/ row' \in {row, [row EXCEPT ![u].deleted = FALSE]}
          \/ row' \in {row, [row EXCEPT ![u].deleted = TRUE]}
          \/ row' \in {row, [row EXCEPT ![u].verified = TRUE]}
          \/ row' \in {row, [row EXCEPT ![u].twofa = req[r].flag]}
      BY <1>0 DEF LoginCommit, VerifyCommit, UpdateMeCommit, DeleteMeCommit
    <2>2. row' # row => u \in users
      BY <1>0 DEF LoginCommit, VerifyCommit, UpdateMeCommit, DeleteMeCommit
    <2> QED BY <1>1, <2>1, <2>2
  <1>4. \A v \in users : row'[v].email = row[v].email
    BY <1>2, RowHistory DEF IInv
  <1>5. HolderMap' = HolderMap
    BY <1>2, <1>4, HoldersKept
  <1>6. \A v \in UserIds : Checked(v)' <=> Checked(v)
    BY <1>2 DEF Checked
  <1>7. PhaseFits /\ PhaseFits'
    BY MappingFitsNext
  <1>8. Phase(u)' = Phase(u) \/ MayTurn(Phase(u), Phase(u)')
    <2>1. CASE u \in users /\ Checked(u)
      BY <1>1, <1>2, <1>6, <1>7, <2>1 DEF PhaseFits
    <2>2. CASE u \in users /\ ~Checked(u)
      <3>1. /\ Phase(u) = IF row[u].deleted THEN "deleted" ELSE "active"
            /\ Phase(u)' = IF row'[u].deleted THEN "deleted" ELSE "active"
        BY <1>1, <1>2, <1>6, <1>7, <2>2 DEF PhaseFits
      <3> QED BY <3>1 DEF MayTurn
    <2>3. CASE u \in purged
      BY <1>1, <1>2, <1>7, <2>3 DEF PhaseFits
    <2>4. CASE u \notin users \cup purged
      BY <1>1, <1>2, <1>7, <2>4 DEF PhaseFits
    <2> QED BY <2>1, <2>2, <2>3, <2>4
  <1>9. \A v \in users : v # u => (Checked(v)' <=> Checked(v)) /\ row'[v].deleted = row[v].deleted
    BY <1>1, <1>3, <1>6
  <1> QED BY <1>1, <1>2, <1>5, <1>8, <1>9, OneTurns

\* A job that looks at an account, or lets go of it, while the rows stay.
LEMMA JobTurns ==
    ASSUME IInv, IInv', UNCHANGED <<users, row, purged>>, NEW u \in UserIds,
           \A v \in UserIds : v # u => (Checked(v)' <=> Checked(v)),
           u \in users /\ Checked(u)' => Checked(u) \/ row[u].deleted
    PROVE  [Lifecycle!Next]_<<PhaseMap, HolderMap>>
  <1>1. PhaseFits /\ PhaseFits'
    BY MappingFitsNext
  <1>2. HolderMap' = HolderMap
    BY HoldersKept
  <1>3. Phase(u)' = Phase(u) \/ MayTurn(Phase(u), Phase(u)')
    <2>1. CASE u \in users
      BY <1>1, <2>1 DEF PhaseFits, MayTurn
    <2>2. CASE u \in purged
      BY <1>1, <2>2 DEF PhaseFits
    <2>3. CASE u \notin users \cup purged
      BY <1>1, <2>3 DEF PhaseFits
    <2> QED BY <2>1, <2>2, <2>3
  <1>4. \A v \in users : v # u => (Checked(v)' <=> Checked(v)) /\ row'[v].deleted = row[v].deleted
    BY DEF IInv, TypeOK
  <1> QED BY <1>2, <1>3, <1>4, OneTurns

LEMMA JobStepTurns ==
    ASSUME IInv, IInv', NEW j \in JobIds,
           CheckPurge(j) \/ WorkerDies(j) \/ JobFails(j) \/ \E r \in Requests : EnqueuePurge(r, j)
    PROVE  [Lifecycle!Next]_<<PhaseMap, HolderMap>>
  <1>1. job \in [JobIds -> Job] /\ (job[j].st # "none" => job[j].uid \in UserIds)
    BY DEF IInv, TypeOK
  <1>2. UNCHANGED <<users, row, purged>>
    BY DEF CheckPurge, WorkerDies, JobFails, EnqueuePurge
  <1>3. ASSUME NEW r \in Requests, EnqueuePurge(r, j)
        PROVE  [Lifecycle!Next]_<<PhaseMap, HolderMap>>
    <2>1. PICK u \in UserIds : u = req[r].uid
      BY <1>3 DEF EnqueuePurge, IInv, TypeOK, ReqTypeOK
    <2>2. \A v \in UserIds : Checked(v)' <=> Checked(v)
      BY <1>1, <1>3 DEF EnqueuePurge, Checked, NoJob
    <2> QED BY <1>2, <2>2, JobTurns
  <1>4. CASE CheckPurge(j)
    <2>1. PICK u \in UserIds : u = job[j].uid
      BY <1>1, <1>4 DEF CheckPurge
    <2>2. \/ job' = [job EXCEPT ![j] = NoJob] /\ job[j].st = "queued"
          \/ /\ job' = [job EXCEPT ![j] = [job[j] EXCEPT !.st = "checked"]]
             /\ u \in users /\ row[u].deleted
      BY <1>1, <1>4, <2>1 DEF CheckPurge
    <2>3. CASE job' = [job EXCEPT ![j] = NoJob] /\ job[j].st = "queued"
      <3>1. \A v \in UserIds : Checked(v)' <=> Checked(v)
        BY <1>1, <2>3 DEF Checked, NoJob
      <3> QED BY <1>2, <3>1, JobTurns
    <2>4. CASE /\ job' = [job EXCEPT ![j] = [job[j] EXCEPT !.st = "checked"]]
               /\ u \in users /\ row[u].deleted
      <3>1. /\ job'[j].uid = u
            /\ \A i \in JobIds : i # j => job'[i] = job[i]
        BY <1>1, <2>1, <2>4 DEF Job
      <3>2. \A v \in UserIds : v # u => (Checked(v)' <=> Checked(v))
        BY <2>1, <3>1 DEF Checked
      <3> QED BY <1>2, <2>4, <3>2, JobTurns
    <2> QED BY <2>2, <2>3, <2>4
  <1>5. CASE WorkerDies(j) \/ JobFails(j)
    <2>1. PICK u \in UserIds : u = job[j].uid
      BY <1>1, <1>5 DEF WorkerDies, JobFails
    <2>2. /\ job[j].st = "checked" /\ job'[j].st # "checked"
          /\ \A i \in JobIds : i # j => job'[i] = job[i]
      BY <1>1, <1>5 DEF WorkerDies, JobFails, NoJob, Job
    <2>3. Checked(u)
      BY <2>1, <2>2 DEF Checked
    <2>4. \A v \in UserIds : v # u => (Checked(v)' <=> Checked(v))
      BY <2>1, <2>2 DEF Checked
    <2> QED BY <1>2, <2>3, <2>4, JobTurns
  <1> QED BY <1>3, <1>4, <1>5

LEMMA LifecycleNext ==
    ASSUME IInv, IInv', [Next]_vars
    PROVE  [Lifecycle!Next]_<<PhaseMap, HolderMap>>
  <1>1. ASSUME NEW r \in Requests, NEW u \in UserIds, CreateUserCommit(r, u)
        PROVE  Lifecycle!Next
    BY <1>1, CreateOpens DEF Lifecycle!Next
  <1>2. ASSUME NEW j \in JobIds, Purge(j)
        PROVE  [Lifecycle!Next]_<<PhaseMap, HolderMap>>
    <2>1. job[j].uid \in UserIds
      BY <1>2 DEF Purge, IInv, TypeOK
    <2> QED BY <1>2, <2>1, PurgePurges DEF Lifecycle!Next
  <1>3. CASE UNCHANGED <<users, row, purged, job>>
    <2>1. \A u \in UserIds : (Checked(u)' <=> Checked(u)) /\ Phase(u)' = Phase(u)
      BY <1>3 DEF Checked, Phase, FreshIds
    <2>2. HolderMap' = HolderMap
      BY <1>3, HoldersKept
    <2> QED BY <2>1, <2>2 DEF PhaseMap
  <1>4. ASSUME ~UNCHANGED <<users, row, purged, job>>,
               ~\E r \in Requests, u \in UserIds : CreateUserCommit(r, u),
               ~\E j \in JobIds : Purge(j)
        PROVE  [Lifecycle!Next]_<<PhaseMap, HolderMap>>
    <2>1. UNCHANGED <<users, purged>>
      BY <1>4, TablesFrame
    <2>2. CASE \E r \in Requests : LoginCommit(r) \/ VerifyCommit(r)
                                      \/ UpdateMeCommit(r) \/ DeleteMeCommit(r)
      BY <2>2, CommitTurns
    <2>3. CASE UNCHANGED row
      <3>1. \/ \E r \in Requests, j \in JobIds : EnqueuePurge(r, j)
            \/ \E j \in JobIds : CheckPurge(j) \/ WorkerDies(j) \/ JobFails(j)
        BY <1>4, <2>1, <2>3, JobFrame
      <3> QED BY <3>1, JobStepTurns
    <2> QED BY <1>4, <2>2, <2>3, RowFrame
  <1> QED BY <1>1, <1>2, <1>3, <1>4

\* The handlers and the worker keep the promises of AccountLifecycle, however they
\* interleave and fail: one account per address, no purge of an account that was
\* not soft-deleted when its purge began, no way back from one.
THEOREM AccountsImplementLifecycle == Spec => LifecycleSpec
  <1>1. IInv /\ IInv' /\ [Next]_vars =>
          [Lifecycle!Next]_<<[u \in UserIds |-> Phase(u)], [e \in Emails |-> Holder(e)]>>
    BY LifecycleNext DEF PhaseMap, HolderMap
  <1> QED BY <1>1, LifecycleInit, Invariant, PTL DEF Spec, LifecycleSpec, Lifecycle!Spec

=============================================================================
