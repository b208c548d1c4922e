-------------------------------- MODULE Otp --------------------------------
(***************************************************************************)
(* One-time codes in Redis: core/otp.py, command by command, and the        *)
(* handlers that call it.                                                   *)
(*                                                                         *)
(* The keys of different users and of the two namespaces "otp" and         *)
(* "2fa_otp" never meet, so the module follows the two keys of one user in  *)
(* one namespace.  Redis runs a command atomically; between two commands of *)
(* a request any command of another may run, and time may pass.            *)
(***************************************************************************)
EXTENDS Naturals, FiniteSets

CONSTANTS
    Codes,        \* the codes generate_otp draws, in whatever order
    Issuers,      \* requests that issue a code: /auth/login and /auth/resend-otp
    Verifiers,    \* requests that submit one: /auth/verify-otp or /auth/verify-2fa
    Ttl,          \* OTP_TTL_SECONDS, in ticks
    Cooldown,     \* OTP_COOLDOWN_SECONDS, in ticks
    MaxTime,      \* bound: the clock stops here
    NoCode

ASSUME TimeAssumption ==
    /\ Ttl \in Nat /\ Cooldown \in Nat /\ MaxTime \in Nat
    /\ 0 < Cooldown /\ Cooldown < Ttl
ASSUME NoCodeAssumption == NoCode \notin Codes
ASSUME IssuersAssumption == IsFiniteSet(Issuers)
ASSUME VerifiersAssumption == IsFiniteSet(Verifiers)

VARIABLES
    code,         \* value of the key otp:{user}, as last written
    codeUntil,    \* when that key expires
    coolUntil,    \* when the key otp_cooldown:{user} expires
    iss,          \* the issuing requests
    ver,          \* the submitting requests
    mailed,       \* codes put into the queue for the user's mailbox
    lost,         \* history: codes of requests that died before mailing them
    now,
    setAt,        \* history: when each code was written to Redis
    accepted,     \* history: how often each code was accepted
    used          \* history: the key was deleted since a code was last written

vars == <<code, codeUntil, coolUntil, iss, ver, mailed, lost, now, setAt, accepted, used>>

\* What GET and EXISTS see: an expired key is no key.
Stored == IF now < codeUntil THEN code ELSE NoCode
CoolingDown == now < coolUntil

Issuing == [pc : {"idle", "ttl", "exists", "set", "cooldown", "enqueue"},
            code : Codes \cup {NoCode}]
Verifying == [pc : {"idle", "get", "delete"}, code : Codes \cup {NoCode}]

Idle == [pc |-> "idle", code |-> NoCode]

IssStep(i, pc) == iss' = [iss EXCEPT ![i].pc = pc]
IssEnd(i) == iss' = [iss EXCEPT ![i] = Idle]
VerEnd(v) == ver' = [ver EXCEPT ![v] = Idle]

\* Bound: every code is drawn once.  Two draws out of a million are taken to differ.
Undrawn == {c \in Codes : setAt[c] = {} /\ \A i \in Issuers : iss[i].code # c}

-----------------------------------------------------------------------------
(* Mutants: what a bug would make of the actions below *)

\* verify_otp does not delete the code it accepts.
DeleteCodeKept(v) ==
    /\ ver[v].pc = "delete"
    /\ accepted' = [accepted EXCEPT ![ver[v].code] = @ + 1]
    /\ VerEnd(v)
    /\ UNCHANGED <<code, codeUntil, coolUntil, iss, mailed, lost, now, setAt, used>>

\* A code that is written without its expiry time: GET finds it however old it is.
GetCodeOld(v) ==
    /\ ver[v].pc = "get"
    /\ IF code = ver[v].code THEN ver' = [ver EXCEPT ![v].pc = "delete"] ELSE VerEnd(v)
    /\ UNCHANGED <<code, codeUntil, coolUntil, iss, mailed, lost, now, setAt, accepted, used>>

\* issue_otp with its two expiry times swapped, as far as the code goes.
SetCodeSwapped(i) ==
    /\ iss[i].pc = "set"
    /\ code' = iss[i].code
    /\ codeUntil' = now + Cooldown
    /\ setAt' = [setAt EXCEPT ![iss[i].code] = {now}]
    /\ used' = FALSE
    /\ IssStep(i, "cooldown")
    /\ UNCHANGED <<coolUntil, ver, mailed, lost, now, accepted>>

\* The handler enqueues a mail without `if otp is not None`.
CheckCooldownMails(i) ==
    /\ iss[i].pc = "exists"
    /\ \/ CoolingDown /\ IssStep(i, "enqueue")
       \/ ~CoolingDown /\ \E c \in Undrawn : iss' = [iss EXCEPT ![i] = [pc |-> "set", code |-> c]]
    /\ UNCHANGED <<code, codeUntil, coolUntil, ver, mailed, lost, now, setAt, accepted, used>>

\* issue_otp without its cooldown check.
CheckCooldownNever(i) ==
    /\ iss[i].pc = "exists"
    /\ \E c \in Undrawn : iss' = [iss EXCEPT ![i] = [pc |-> "set", code |-> c]]
    /\ UNCHANGED <<code, codeUntil, coolUntil, ver, mailed, lost, now, setAt, accepted, used>>

-----------------------------------------------------------------------------
(* Issuing *)

\* POST /auth/login calls issue_otp at once ...
Login(i) ==
    /\ iss[i] = Idle
    /\ IssStep(i, "exists")
    /\ UNCHANGED <<code, codeUntil, coolUntil, ver, mailed, lost, now, setAt, accepted, used>>

\* ... POST /auth/resend-otp asks get_cooldown_remaining first,
Resend(i) ==
    /\ iss[i] = Idle
    /\ IssStep(i, "ttl")
    /\ UNCHANGED <<code, codeUntil, coolUntil, ver, mailed, lost, now, setAt, accepted, used>>

\* and ends with OTP_COOLDOWN while the cooldown lasts.
ReadCooldown(i) ==
    /\ iss[i].pc = "ttl"
    /\ IF CoolingDown THEN IssEnd(i) ELSE IssStep(i, "exists")
    /\ UNCHANGED <<code, codeUntil, coolUntil, ver, mailed, lost, now, setAt, accepted, used>>

\* issue_otp: EXISTS, then a code is drawn, or None is returned.  The handler
\* answers the same either way.
CheckCooldown(i) ==
    /\ iss[i].pc = "exists"
    /\ \/ CoolingDown /\ IssEnd(i)
       \/ ~CoolingDown /\ \E c \in Undrawn : iss' = [iss EXCEPT ![i] = [pc |-> "set", code |-> c]]
    /\ UNCHANGED <<code, codeUntil, coolUntil, ver, mailed, lost, now, setAt, accepted, used>>

SetCode(i) ==
    /\ iss[i].pc = "set"
    /\ code' = iss[i].code
    /\ codeUntil' = now + Ttl
    /\ setAt' = [setAt EXCEPT ![iss[i].code] = {now}]
    /\ used' = FALSE
    /\ IssStep(i, "cooldown")
    /\ UNCHANGED <<coolUntil, ver, mailed, lost, now, accepted>>

SetCooldown(i) ==
    /\ iss[i].pc = "cooldown"
    /\ coolUntil' = now + Cooldown
    /\ IssStep(i, "enqueue")
    /\ UNCHANGED <<code, codeUntil, ver, mailed, lost, now, setAt, accepted, used>>

\* The handler enqueues send_otp_email_job.  Mails arrive in any order.
Enqueue(i) ==
    /\ iss[i].pc = "enqueue"
    /\ mailed' = mailed \cup {iss[i].code}
    /\ IssEnd(i)
    /\ UNCHANGED <<code, codeUntil, coolUntil, ver, lost, now, setAt, accepted, used>>

-----------------------------------------------------------------------------
(* Verifying *)

\* The user submits a code from the mailbox; any other is refused.
Verify(v) ==
    /\ ver[v] = Idle
    /\ \E c \in mailed : ver' = [ver EXCEPT ![v] = [pc |-> "get", code |-> c]]
    /\ UNCHANGED <<code, codeUntil, coolUntil, iss, mailed, lost, now, setAt, accepted, used>>

GetCode(v) ==
    /\ ver[v].pc = "get"
    /\ IF Stored = ver[v].code THEN ver' = [ver EXCEPT ![v].pc = "delete"] ELSE VerEnd(v)
    /\ UNCHANGED <<code, codeUntil, coolUntil, iss, mailed, lost, now, setAt, accepted, used>>

\* DEL removes whatever the key holds by now, and the code is accepted.
DeleteCode(v) ==
    /\ ver[v].pc = "delete"
    /\ code' = NoCode
    /\ used' = TRUE
    /\ accepted' = [accepted EXCEPT ![ver[v].code] = @ + 1]
    /\ VerEnd(v)
    /\ UNCHANGED <<codeUntil, coolUntil, iss, mailed, lost, now, setAt>>

-----------------------------------------------------------------------------
(* The environment *)

IssuerDies(i) ==
    /\ iss[i] # Idle
    /\ lost' = lost \cup {c \in Codes : c = iss[i].code /\ setAt[c] # {}}
    /\ IssEnd(i)
    /\ UNCHANGED <<code, codeUntil, coolUntil, ver, mailed, now, setAt, accepted, used>>

\* Bound on latency: a request gets from writing its code to starting the
\* cooldown in less than Ttl - Cooldown, which is nine minutes.
Tick ==
    /\ now < MaxTime
    /\ \A i \in Issuers : iss[i].pc = "cooldown" =>
         \A t \in setAt[iss[i].code] : now + 1 + Cooldown <= t + Ttl
    /\ now' = now + 1
    /\ UNCHANGED <<code, codeUntil, coolUntil, iss, ver, mailed, lost, setAt, accepted, used>>

-----------------------------------------------------------------------------

Init ==
    /\ code = NoCode /\ codeUntil = 0 /\ coolUntil = 0
    /\ iss = [i \in Issuers |-> Idle]
    /\ ver = [v \in Verifiers |-> Idle]
    /\ mailed = {} /\ lost = {}
    /\ now = 0
    /\ setAt = [c \in Codes |-> {}]
    /\ accepted = [c \in Codes |-> 0]
    /\ used = FALSE

Next ==
    \/ \E i \in Issuers :
         \/ Login(i) \/ Resend(i) \/ ReadCooldown(i) \/ CheckCooldown(i)
         \/ SetCode(i) \/ SetCooldown(i) \/ Enqueue(i) \/ IssuerDies(i)
    \/ \E v \in Verifiers : Verify(v) \/ GetCode(v) \/ DeleteCode(v)
    \/ Tick

Spec == Init /\ [][Next]_vars

-----------------------------------------------------------------------------
(* Properties *)

TypeOK ==
    /\ code \in Codes \cup {NoCode}
    /\ codeUntil \in Nat /\ coolUntil \in Nat /\ now \in Nat
    /\ iss \in [Issuers -> Issuing]
    /\ ver \in [Verifiers -> Verifying]
    /\ \A i \in Issuers : iss[i].pc \in {"set", "cooldown", "enqueue"} <=> iss[i].code \in Codes
    /\ \A v \in Verifiers : ver[v].pc # "idle" <=> ver[v].code \in Codes
    /\ mailed \subseteq Codes /\ lost \subseteq Codes
    /\ setAt \in [Codes -> SUBSET Nat]
    /\ accepted \in [Codes -> Nat]
    /\ used \in BOOLEAN

\* A code is accepted for at most one request ("one-time use").
OneTimeUse == \A c \in Codes : accepted[c] <= 1

\* Whoever is told to wait has a code to type in: the key still holds it unless
\* a code was accepted in the meantime, and it is in the mailbox, or the request
\* that sends it is at it, or died before it could.
CooldownMeansCode ==
    CoolingDown => \/ used
                   \/ /\ Stored # NoCode
                      /\ \/ Stored \in mailed \cup lost
                         \/ \E i \in Issuers : iss[i].code = Stored

\* An accepted code is gone from Redis for good: no request that reads the key
\* from then on can be let in with it, whatever was in flight.
SpentCodesAreGone == \A c \in Codes : accepted[c] > 0 => Stored # c

\* No lock keeps a code from being accepted twice, but it is accepted by no more
\* requests than were submitting it at once, however long the mail lies around and
\* however the submissions take turns with the expiry and with newer codes.
UsesOverlap == \A c \in Codes : accepted[c] <= Cardinality(Verifiers)

\* The cooldown check is no lock, but requests that race past it get no more
\* codes per cooldown than there are requests in flight, and one for each that
\* died between its code and its cooldown.
Written(t) == {c \in Codes : \E s \in setAt[c] : t <= s /\ s < t + Cooldown}
CodesPerCooldown ==
    \A t \in 0..MaxTime : Cardinality(Written(t)) <= Cardinality(Issuers) + Cardinality(lost)

-----------------------------------------------------------------------------
(* Refinement *)

\* What the submissions under way found stored.
Found == [v \in Verifiers |-> IF ver[v].pc = "delete" THEN ver[v].code ELSE NoCode]

Slot == INSTANCE CodeSlot
    WITH slot <- Stored,
         until <- codeUntil,
         clock <- now,
         issued <- {c \in Codes : setAt[c] # {}},
         found <- Found,
         Submissions <- Verifiers

\* The commands implement CodeSlot: whatever interleaves and dies, from the time a
\* code is replaced, accepted or as old as its life no submission finds it any
\* more, and a submission is let in with nothing but what it found.
SlotSpec == Slot!Spec

-----------------------------------------------------------------------------
(* Why they hold: the inductive invariants of OtpProofs *)

\* The cooldown never outlasts the code, and a code that is written is mailed,
\* or lost.
CooldownInv ==
    /\ coolUntil <= codeUntil /\ codeUntil <= now + Ttl
    /\ code = NoCode => used \/ codeUntil = 0
    /\ code # NoCode => code \in mailed \cup lost \/ \E i \in Issuers : iss[i].code = code
    /\ \A i \in Issuers : iss[i].pc = "cooldown" =>
         \E t \in setAt[iss[i].code] : t + Ttl <= codeUntil /\ now + Cooldown <= t + Ttl

\* A code is written once, and is no longer the stored one once it was accepted.
SpentInv ==
    /\ \A i, j \in Issuers : iss[i].code = iss[j].code => i = j \/ iss[i].code = NoCode
    /\ \A i \in Issuers : iss[i].pc = "set" => setAt[iss[i].code] = {}
    /\ \A i \in Issuers : iss[i].pc \in {"cooldown", "enqueue"} => setAt[iss[i].code] # {}
    /\ \A c \in mailed \cup {code} : c # NoCode => setAt[c] # {}
    /\ \A c \in Codes : setAt[c] = {} => accepted[c] = 0
    /\ \A c \in Codes : accepted[c] > 0 => code # c
    /\ \A v \in Verifiers : ver[v].pc # "idle" => setAt[ver[v].code] # {}

\* A code is on its way to a cooldown that outlasts the period it was written in,
\* or lost.
CoveredInv ==
    /\ coolUntil <= now + Cooldown
    /\ \A c \in Codes : \A s \in setAt[c] :
         /\ s <= now
         /\ \/ c \in lost
            \/ s + Cooldown <= coolUntil
            \/ \E i \in Issuers : iss[i].pc = "cooldown" /\ iss[i].code = c

\* Who may still write a code in the period from t on, once a cooldown lasts to its end.
PastCheck(t) == {i \in Issuers : iss[i].pc = "set" /\ now < t + Cooldown}

\* From then on every request that writes a code in it was past its check already.
SpacedInv ==
    \A t \in 0..MaxTime : t + Cooldown <= coolUntil =>
        Cardinality(Written(t)) + Cardinality(PastCheck(t)) <= Cardinality(Issuers) + Cardinality(lost)

\* The requests that still get in with a spent code had found it before.
Finders(c) == {v \in Verifiers : ver[v].pc = "delete" /\ ver[v].code = c}
OverlapInv == \A c \in Codes : accepted[c] + Cardinality(Finders(c)) <= Cardinality(Verifiers)

\* Without concurrent submissions: what a request is about to accept is unspent.
UnspentInv == \A v \in Verifiers : ver[v].pc = "delete" => accepted[ver[v].code] = 0
=============================================================================
