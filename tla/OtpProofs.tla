----------------------------- MODULE OtpProofs -----------------------------
(***************************************************************************)
(* Theorems about Otp, for any number of codes and requests and any        *)
(* cooldown shorter than the life of a code.                               *)
(***************************************************************************)
EXTENDS Otp, FiniteSetTheorems, TLAPS

\* One step of an issuing request, and one of a submitting one.
IssuerNext(i) ==
    \/ Login(i) \/ Resend(i) \/ ReadCooldown(i) \/ CheckCooldown(i)
    \/ SetCode(i) \/ SetCooldown(i) \/ Enqueue(i) \/ IssuerDies(i)

VerifierNext(v) == Verify(v) \/ GetCode(v) \/ DeleteCode(v)

LEMMA NextCases ==
    ASSUME [Next]_vars
    PROVE  \/ \E i \in Issuers : IssuerNext(i)
           \/ \E v \in Verifiers : VerifierNext(v)
           \/ Tick
           \/ UNCHANGED vars
  BY DEF Next, IssuerNext, VerifierNext

-----------------------------------------------------------------------------
(* Types *)

LEMMA TypeNext == TypeOK /\ [Next]_vars => TypeOK'
  <1> SUFFICES ASSUME TypeOK, [Next]_vars PROVE TypeOK'
    OBVIOUS
  <1> USE TimeAssumption, NoCodeAssumption
  <1>1. ASSUME NEW i \in Issuers, IssuerNext(i) PROVE TypeOK'
    <2> USE DEF TypeOK, Issuing, IssStep, IssEnd, Idle
    <2>1. CASE Login(i)
      BY <2>1 DEF Login
    <2>2. CASE Resend(i)
      BY <2>2 DEF Resend
    <2>3. CASE ReadCooldown(i)
      BY <2>3 DEF ReadCooldown
    <2>4. CASE CheckCooldown(i)
      BY <2>4 DEF CheckCooldown, Undrawn
    <2>5. CASE SetCode(i)
      <3>1. iss[i].code \in Codes /\ now + Ttl \in Nat
        BY <2>5 DEF SetCode
      <3>2. setAt' \in [Codes -> SUBSET Nat]
        BY <2>5, <3>1 DEF SetCode
      <3>3. iss'[i] = [pc |-> "cooldown", code |-> iss[i].code]
        BY <2>5 DEF SetCode
      <3>4. iss' = [iss EXCEPT ![i] = iss'[i]]
        BY <2>5 DEF SetCode
      <3>5. UNCHANGED <<coolUntil, ver, mailed, lost, now, accepted>> /\ code' = iss[i].code
               /\ codeUntil' = now + Ttl /\ used' = FALSE
        BY <2>5 DEF SetCode
      <3>6. iss'[i] \in Issuing
        BY <3>1, <3>3
      <3>7. \A j \in Issuers : iss'[j].pc \in {"set", "cooldown", "enqueue"}
                                  <=> iss'[j].code \in Codes
        BY <3>1, <3>3, <3>4
      <3> QED BY <3>1, <3>2, <3>4, <3>5, <3>6, <3>7
    <2>6. CASE SetCooldown(i)
      BY <2>6 DEF SetCooldown
    <2>7. CASE Enqueue(i)
      BY <2>7 DEF Enqueue
    <2>8. CASE IssuerDies(i)
      BY <2>8 DEF IssuerDies
    <2> QED BY <1>1, <2>1, <2>2, <2>3, <2>4, <2>5, <2>6, <2>7, <2>8 DEF IssuerNext
  <1>2. ASSUME NEW v \in Verifiers, VerifierNext(v) PROVE TypeOK'
    <2> USE DEF TypeOK, Verifying, VerEnd, Idle
    <2>1. CASE Verify(v)
      BY <2>1 DEF Verify
    <2>2. CASE GetCode(v)
      BY <2>2 DEF GetCode
    <2>3. CASE DeleteCode(v)
      BY <2>3 DEF DeleteCode
    <2> QED BY <1>2, <2>1, <2>2, <2>3 DEF VerifierNext
  <1>3. CASE Tick
    BY <1>3 DEF Tick, TypeOK
  <1>4. CASE UNCHANGED vars
    BY <1>4 DEF vars, TypeOK
  <1> QED BY <1>1, <1>2, <1>3, <1>4, NextCases

\* Type correctness: among others, no request mails, stores or compares
\* anything but a code that generate_otp drew.
THEOREM TypeCorrect == Spec => []TypeOK
  <1>1. Init => TypeOK
    <2>1. Idle \in Issuing /\ Idle \in Verifying /\ Idle.pc = "idle" /\ Idle.code = NoCode
      BY DEF Idle, Issuing, Verifying
    <2> SUFFICES ASSUME Init PROVE TypeOK
      OBVIOUS
    <2>2. setAt \in [Codes -> SUBSET Nat] /\ accepted \in [Codes -> Nat]
      BY DEF Init
    <2>3. iss \in [Issuers -> Issuing] /\ ver \in [Verifiers -> Verifying]
      BY <2>1 DEF Init
    <2>4. /\ \A i \in Issuers : iss[i].pc = "idle" /\ iss[i].code = NoCode
          /\ \A v \in Verifiers : ver[v].pc = "idle" /\ ver[v].code = NoCode
      BY <2>1 DEF Init
    <2> QED BY <2>2, <2>3, <2>4, NoCodeAssumption DEF Init, TypeOK
  <1> QED BY <1>1, TypeNext, PTL DEF Spec

-----------------------------------------------------------------------------
(* Accepted codes *)

LEMMA SpentNext ==
    ASSUME TypeOK, SpentInv, [Next]_vars
    PROVE  SpentInv'
  <1> USE NoCodeAssumption DEF TypeOK, SpentInv
  <1>1. ASSUME NEW i \in Issuers, IssuerNext(i) PROVE SpentInv'
    <2> USE DEF Issuing, IssStep, IssEnd, Idle
    <2>1. CASE Login(i)
      BY <2>1 DEF Login
    <2>2. CASE Resend(i)
      BY <2>2 DEF Resend
    <2>3. CASE ReadCooldown(i)
      <3>1. \A j \in Issuers : iss'[j].code = iss[j].code \/ iss'[j].code = NoCode
        BY <2>3 DEF ReadCooldown
      <3>2. \A j \in Issuers : iss'[j].pc \in {"set", "cooldown", "enqueue"} => iss'[j] = iss[j]
        BY <2>3 DEF ReadCooldown
      <3>3. UNCHANGED <<setAt, mailed, code, accepted, ver>>
        BY <2>3 DEF ReadCooldown
      <3> QED BY <3>1, <3>2, <3>3
    <2>4. CASE CheckCooldown(i)
      <3>1. CASE IssEnd(i)
        BY <2>4, <3>1 DEF CheckCooldown
      <3>2. ASSUME NEW c \in Undrawn, iss' = [iss EXCEPT ![i] = [pc |-> "set", code |-> c]]
            PROVE  SpentInv'
        <4>1. c \in Codes /\ setAt[c] = {} /\ \A j \in Issuers : iss[j].code # c
          BY DEF Undrawn
        <4>2. iss'[i].code = c /\ iss'[i].pc = "set"
                 /\ \A j \in Issuers \ {i} : iss'[j] = iss[j]
          BY <3>2
        <4>3. UNCHANGED <<setAt, mailed, code, accepted, ver>>
          BY <2>4 DEF CheckCooldown
        <4> QED BY <4>1, <4>2, <4>3
      <3> QED BY <2>4, <3>1, <3>2 DEF CheckCooldown
    <2>5. CASE SetCode(i)
      <3>1. iss[i].code \in Codes /\ setAt[iss[i].code] = {}
        BY <2>5 DEF SetCode
      <3>2. setAt' = [setAt EXCEPT ![iss[i].code] = {now}] /\ code' = iss[i].code
               /\ UNCHANGED <<mailed, accepted, ver>>
        BY <2>5 DEF SetCode
      <3>3. \A j \in Issuers :
               /\ iss'[j].code = iss[j].code
               /\ iss'[j].pc = "set" => iss[j].pc = "set" /\ j # i
               /\ iss'[j].pc \in {"cooldown", "enqueue"} =>
                    iss[j].pc \in {"cooldown", "enqueue"} \/ j = i
        BY <2>5 DEF SetCode
      <3>4. setAt'[iss[i].code] # {} /\ \A c \in Codes : c # iss[i].code => setAt'[c] = setAt[c]
        BY <3>1, <3>2
      <3>5. \A j \in Issuers : iss'[j].pc = "set" => setAt'[iss'[j].code] = {}
        BY <3>1, <3>3, <3>4
      <3>6. \A j \in Issuers : iss'[j].pc \in {"cooldown", "enqueue"} => setAt'[iss'[j].code] # {}
        BY <3>3, <3>4
      <3>7. \A c \in mailed' \cup {code'} : c # NoCode => setAt'[c] # {}
        BY <3>1, <3>2, <3>4
      <3>8. /\ \A c \in Codes : setAt'[c] = {} => accepted'[c] = 0
            /\ \A c \in Codes : accepted'[c] > 0 => code' # c
        BY <3>1, <3>2, <3>4
      <3>9. \A v \in Verifiers : ver[v].pc # "idle" => ver[v].code \in Codes
        OBVIOUS
      <3>10. \A v \in Verifiers : ver'[v].pc # "idle" => setAt'[ver'[v].code] # {}
        BY <3>2, <3>4, <3>9
      <3>11. \A j, k \in Issuers : iss'[j].code = iss'[k].code => j = k \/ iss'[j].code = NoCode
        BY <3>3
      <3> QED BY <3>5, <3>6, <3>7, <3>8, <3>10, <3>11
    <2>6. CASE SetCooldown(i)
      BY <2>6 DEF SetCooldown
    <2>7. CASE Enqueue(i)
      <3>1. setAt[iss[i].code] # {}
        BY <2>7 DEF Enqueue
      <3> QED BY <2>7, <3>1 DEF Enqueue
    <2>8. CASE IssuerDies(i)
      BY <2>8 DEF IssuerDies
    <2> QED BY <1>1, <2>1, <2>2, <2>3, <2>4, <2>5, <2>6, <2>7, <2>8 DEF IssuerNext
  <1>2. ASSUME NEW v \in Verifiers, VerifierNext(v) PROVE SpentInv'
    <2> USE DEF Verifying, VerEnd, Idle
    <2>1. CASE Verify(v)
      BY <2>1 DEF Verify
    <2>2. CASE GetCode(v)
      BY <2>2 DEF GetCode, Stored
    <2>3. CASE DeleteCode(v)
      BY <2>3 DEF DeleteCode
    <2> QED BY <1>2, <2>1, <2>2, <2>3 DEF VerifierNext
  <1>3. CASE Tick
    BY <1>3 DEF Tick
  <1>4. CASE UNCHANGED vars
    BY <1>4 DEF vars
  <1> QED BY <1>1, <1>2, <1>3, <1>4, NextCases

LEMMA SpentInvariant == Spec => []SpentInv
  <1>1. Init => SpentInv
    BY NoCodeAssumption DEF Init, SpentInv, Idle
  <1>2. TypeOK /\ SpentInv /\ [Next]_vars => SpentInv'
    BY SpentNext
  <1> QED BY <1>1, <1>2, TypeCorrect, PTL DEF Spec

\* Once a code was accepted the key never holds it again, however requests
\* interleave: nobody who asks Redis from then on is let in with it.
THEOREM SpentForGood == Spec => []SpentCodesAreGone
  <1>1. TypeOK /\ SpentInv => SpentCodesAreGone
    BY NoCodeAssumption DEF TypeOK, SpentInv, SpentCodesAreGone, Stored
  <1> QED BY <1>1, SpentInvariant, TypeCorrect, PTL

-----------------------------------------------------------------------------
(* Whoever has to wait has a code *)

LEMMA CooldownNext ==
    ASSUME TypeOK, SpentInv, CooldownInv, [Next]_vars
    PROVE  CooldownInv'
  <1> USE TimeAssumption, NoCodeAssumption DEF TypeOK, CooldownInv
  <1>1. ASSUME NEW i \in Issuers, IssuerNext(i) PROVE CooldownInv'
    <2> USE DEF Issuing, IssStep, IssEnd, Idle
    <2>1. CASE Login(i)
      BY <2>1 DEF Login
    <2>2. CASE Resend(i)
      BY <2>2 DEF Resend
    <2>3. CASE ReadCooldown(i)
      BY <2>3 DEF ReadCooldown
    <2>4. CASE CheckCooldown(i)
      BY <2>4 DEF CheckCooldown, Undrawn
    <2>5. CASE SetCode(i)
      <3>1. iss[i].code \in Codes /\ now + Ttl \in Nat
        BY <2>5 DEF SetCode
      <3>2. codeUntil' = now + Ttl /\ now' = now /\ code' = iss[i].code
               /\ coolUntil' = coolUntil /\ mailed' = mailed
        BY <2>5 DEF SetCode
      <3>3. iss'[i].code = code'
        BY <2>5 DEF SetCode
      <3>4. ASSUME NEW j \in Issuers, iss'[j].pc = "cooldown"
            PROVE  \E t \in setAt'[iss'[j].code] :
                      t + Ttl <= codeUntil' /\ now' + Cooldown <= t + Ttl
        <4>1. CASE iss'[j].code = iss[i].code
          <5>1. setAt'[iss[i].code] = {now}
            BY <2>5, <3>1 DEF SetCode
          <5> QED BY <3>2, <4>1, <5>1
        <4>2. CASE iss'[j].code # iss[i].code
          <5>1. iss'[j] = iss[j] /\ setAt'[iss[j].code] = setAt[iss[j].code]
            BY <2>5, <3>4, <4>2 DEF SetCode
          <5>2. PICK t \in setAt[iss[j].code] :
                   t + Ttl <= codeUntil /\ now + Cooldown <= t + Ttl
            BY <3>4, <5>1
          <5>3. t \in Nat
            BY <3>4, <5>1, <5>2
          <5> QED BY <3>1, <3>2, <5>1, <5>2, <5>3
        <4> QED BY <4>1, <4>2
      <3> QED BY <3>1, <3>2, <3>3, <3>4
    <2>6. CASE SetCooldown(i)
      BY <2>6 DEF SetCooldown
    <2>7. CASE Enqueue(i)
      <3>1. UNCHANGED <<code, codeUntil, coolUntil, lost, now, setAt, used>>
               /\ mailed' = mailed \cup {iss[i].code}
        BY <2>7 DEF Enqueue
      <3>2. \A j \in Issuers : iss'[j].pc = "cooldown" => iss'[j] = iss[j]
        BY <2>7 DEF Enqueue
      <3>3. \A j \in Issuers : iss[j].code = code /\ j # i => iss'[j].code = code
        BY <2>7 DEF Enqueue
      <3> QED BY <3>1, <3>2, <3>3
    <2>8. CASE IssuerDies(i)
      <3>1. \A c \in Codes : (\E j \in Issuers : iss[j].code = c) =>
               (\E j \in Issuers : iss'[j].code = c) \/ iss[i].code = c
        BY <2>8 DEF IssuerDies
      <3>2. iss[i].code = code /\ code # NoCode => code \in lost'
        BY <2>8 DEF IssuerDies, SpentInv
      <3>3. \A j \in Issuers : iss'[j].pc = "cooldown" => iss'[j] = iss[j]
        BY <2>8 DEF IssuerDies
      <3>4. UNCHANGED <<code, codeUntil, coolUntil, mailed, now, setAt, used>> /\ lost \subseteq lost'
        BY <2>8 DEF IssuerDies
      <3> QED BY <3>1, <3>2, <3>3, <3>4
    <2> QED BY <1>1, <2>1, <2>2, <2>3, <2>4, <2>5, <2>6, <2>7, <2>8 DEF IssuerNext
  <1>2. ASSUME NEW v \in Verifiers, VerifierNext(v) PROVE CooldownInv'
    BY <1>2 DEF VerifierNext, Verify, GetCode, DeleteCode
  <1>3. CASE Tick
    BY <1>3 DEF Tick
  <1>4. CASE UNCHANGED vars
    BY <1>4 DEF vars
  <1> QED BY <1>1, <1>2, <1>3, <1>4, NextCases

\* A user whose cooldown runs has a code in the mail that works, or had one
\* accepted, unless the request that should have mailed it died: however the
\* requests interleave, the cooldown never outlives the code it stands for.
THEOREM CooldownHasCode == Spec => []CooldownMeansCode
  <1>1. Init => CooldownInv
    BY TimeAssumption DEF Init, CooldownInv, Idle
  <1>2. TypeOK /\ SpentInv /\ CooldownInv /\ [Next]_vars => CooldownInv'
    BY CooldownNext
  <1>3. TypeOK /\ CooldownInv => CooldownMeansCode
    BY TimeAssumption DEF TypeOK, CooldownInv, CooldownMeansCode, CoolingDown, Stored
  <1> QED BY <1>1, <1>2, <1>3, TypeCorrect, SpentInvariant, PTL DEF Spec

-----------------------------------------------------------------------------
(* Without concurrent submissions *)

LEMMA UnspentNext ==
    ASSUME \A v, w \in Verifiers : v = w, TypeOK, SpentInv, UnspentInv, [Next]_vars
    PROVE  UnspentInv'
  <1> USE DEF TypeOK, UnspentInv, Idle
  <1>1. ASSUME NEW v \in Verifiers, VerifierNext(v) PROVE UnspentInv'
    <2> USE DEF Verifying, VerEnd
    <2>1. CASE Verify(v)
      BY <2>1 DEF Verify
    <2>2. CASE GetCode(v)
      BY <2>2, NoCodeAssumption DEF GetCode, Stored, SpentInv
    <2>3. CASE DeleteCode(v)
      BY <2>3 DEF DeleteCode
    <2> QED BY <1>1, <2>1, <2>2, <2>3 DEF VerifierNext
  <1>2. ASSUME UNCHANGED <<ver, accepted>> PROVE UnspentInv'
    BY <1>2
  <1>3. UNCHANGED <<ver, accepted>> \/ \E v \in Verifiers : VerifierNext(v)
    BY NextCases DEF IssuerNext, Login, Resend, ReadCooldown, CheckCooldown, SetCode,
                     SetCooldown, Enqueue, IssuerDies, Tick, vars
  <1> QED BY <1>1, <1>2, <1>3

\* As long as no two requests submit codes at once, a code is accepted at most
\* once, whatever the issuing requests do meanwhile.  Two such requests can both
\* read the code before either deletes it.
THEOREM SequentialOneTimeUse ==
    (\A v, w \in Verifiers : v = w) => (Spec => []OneTimeUse)
  <1> SUFFICES ASSUME \A v, w \in Verifiers : v = w PROVE Spec => []OneTimeUse
    OBVIOUS
  <1> DEFINE Inv == UnspentInv /\ OneTimeUse
  <1>1. Init => Inv
    BY NoCodeAssumption DEF Init, UnspentInv, OneTimeUse, Idle
  <1>2. TypeOK /\ SpentInv /\ Inv /\ [Next]_vars => Inv'
    <2> SUFFICES ASSUME TypeOK, SpentInv, Inv, [Next]_vars PROVE OneTimeUse'
      BY UnspentNext
    <2>1. ASSUME NEW v \in Verifiers, DeleteCode(v) PROVE OneTimeUse'
      BY <2>1 DEF DeleteCode, OneTimeUse, UnspentInv, TypeOK
    <2>2. accepted' = accepted \/ \E v \in Verifiers : DeleteCode(v)
      BY NextCases DEF IssuerNext, VerifierNext, Login, Resend, ReadCooldown, CheckCooldown,
                       SetCode, SetCooldown, Enqueue, IssuerDies, Verify, GetCode, Tick, vars
    <2> QED BY <2>1, <2>2 DEF OneTimeUse
  <1> QED BY <1>1, <1>2, TypeCorrect, SpentInvariant, PTL DEF Spec

-----------------------------------------------------------------------------
(* Concurrent submissions *)

LEMMA FindersBound ==
    ASSUME NEW c
    PROVE  /\ IsFiniteSet(Finders(c)) /\ Cardinality(Finders(c)) \in Nat
           /\ Cardinality(Verifiers) \in Nat
           /\ Cardinality(Finders(c)) <= Cardinality(Verifiers)
  <1>1. Finders(c) \subseteq Verifiers
    BY DEF Finders
  <1> QED BY <1>1, VerifiersAssumption, FS_Subset, FS_CardinalityType

\* Once a code was accepted nobody finds it any more, and each who is let in with it
\* was one of those that had found it.
LEMMA OverlapNext ==
    ASSUME TypeOK, SpentInv, OverlapInv, [Next]_vars, NEW c \in Codes
    PROVE  accepted'[c] + Cardinality(Finders(c)') <= Cardinality(Verifiers)
  <1> DEFINE Room == accepted'[c] + Cardinality(Finders(c)') <= Cardinality(Verifiers)
  <1>0. accepted[c] \in Nat /\ accepted[c] + Cardinality(Finders(c)) <= Cardinality(Verifiers)
    BY DEF TypeOK, OverlapInv
  <1>1. ASSUME NEW v \in Verifiers, DeleteCode(v) PROVE Room
    <2>1. /\ accepted' = [accepted EXCEPT ![ver[v].code] = @ + 1]
          /\ ver' = [ver EXCEPT ![v] = Idle] /\ ver[v].pc = "delete"
      BY <1>1 DEF DeleteCode, VerEnd
    <2>2. CASE ver[v].code = c
      <3>1. Finders(c)' = Finders(c) \ {v} /\ v \in Finders(c)
        BY <2>1, <2>2 DEF Finders, TypeOK, Idle
      <3>2. Cardinality(Finders(c)') = Cardinality(Finders(c)) - 1
        BY <3>1, FindersBound, FS_RemoveElement
      <3>3. accepted'[c] = accepted[c] + 1
        BY <2>1, <2>2 DEF TypeOK
      <3> QED BY <1>0, <3>2, <3>3, FindersBound
    <2>3. CASE ver[v].code # c
      <3>1. Finders(c)' = Finders(c)
        BY <2>1, <2>3 DEF Finders, TypeOK, Idle
      <3>2. accepted'[c] = accepted[c]
        BY <2>1, <2>3 DEF TypeOK
      <3> QED BY <1>0, <3>1, <3>2
    <2> QED BY <2>2, <2>3
  <1>2. ASSUME NEW v \in Verifiers, GetCode(v) PROVE Room
    <2>1. accepted' = accepted
      BY <1>2 DEF GetCode
    <2>2. CASE accepted[c] = 0
      <3>1. Finders(c)' \subseteq Verifiers
        BY DEF Finders
      <3>2. /\ Cardinality(Finders(c)') \in Nat /\ Cardinality(Verifiers) \in Nat
            /\ Cardinality(Finders(c)') <= Cardinality(Verifiers)
        BY <3>1, VerifiersAssumption, FS_Subset, FS_CardinalityType
      <3> QED BY <2>1, <2>2, <3>2
    <2>3. CASE accepted[c] # 0
      <3>1. Stored # c
        BY <1>0, <2>3, NoCodeAssumption DEF SpentInv, Stored
      <3>2. Finders(c)' = Finders(c)
        <4>1. CASE ver[v].code = c
          <5>1. ver' = [ver EXCEPT ![v] = Idle] /\ ver[v].pc # "delete"
            BY <1>2, <3>1, <4>1 DEF GetCode, VerEnd
          <5> QED BY <5>1 DEF Finders, TypeOK, Idle
        <4>2. CASE ver[v].code # c
          <5>1. ver'[v].code # c /\ \A w \in Verifiers \ {v} : ver'[w] = ver[w]
            BY <1>2, <4>2, NoCodeAssumption DEF GetCode, VerEnd, TypeOK, Verifying, Idle
          <5> QED BY <4>2, <5>1 DEF Finders
        <4> QED BY <4>1, <4>2
      <3> QED BY <1>0, <2>1, <3>2
    <2> QED BY <2>2, <2>3
  <1>3. ASSUME NEW v \in Verifiers, Verify(v) PROVE Room
    <2>1. accepted' = accepted
      BY <1>3 DEF Verify
    <2>2. Finders(c)' = Finders(c)
      BY <1>3 DEF Verify, Finders, TypeOK, Idle
    <2> QED BY <1>0, <2>1, <2>2
  <1>4. CASE UNCHANGED <<ver, accepted>>
    BY <1>0, <1>4 DEF Finders
  <1>5. \/ UNCHANGED <<ver, accepted>>
        \/ \E v \in Verifiers : Verify(v) \/ GetCode(v) \/ DeleteCode(v)
    BY NextCases DEF IssuerNext, VerifierNext, Login, Resend, ReadCooldown, CheckCooldown,
                     SetCode, SetCooldown, Enqueue, IssuerDies, Tick, vars
  <1> QED BY <1>1, <1>2, <1>3, <1>4, <1>5

\* Two requests with one code may both succeed (core/otp.py:26 "one-time use"), but
\* never more than submitted it at once, as long as the system runs.
THEOREM UsesBounded == Spec => []UsesOverlap
  <1>1. Init => OverlapInv
    <2> SUFFICES ASSUME Init, NEW c \in Codes
                 PROVE  accepted[c] + Cardinality(Finders(c)) <= Cardinality(Verifiers)
      BY DEF OverlapInv
    <2>1. accepted[c] = 0
      BY DEF Init
    <2> QED BY <2>1, FindersBound
  <1>2. TypeOK /\ SpentInv /\ OverlapInv /\ [Next]_vars => OverlapInv'
    BY OverlapNext DEF OverlapInv
  <1>3. TypeOK /\ OverlapInv => UsesOverlap
    <2> SUFFICES ASSUME TypeOK, OverlapInv, NEW c \in Codes
                 PROVE  accepted[c] <= Cardinality(Verifiers)
      BY DEF UsesOverlap
    <2>1. accepted[c] \in Nat /\ accepted[c] + Cardinality(Finders(c)) <= Cardinality(Verifiers)
      BY DEF TypeOK, OverlapInv
    <2> QED BY <2>1, FindersBound
  <1> QED BY <1>1, <1>2, <1>3, TypeCorrect, SpentInvariant, PTL DEF Spec

-----------------------------------------------------------------------------
(* Codes per cooldown *)

\* The codes written so far.  No more than finitely many were.
WrittenOnce == {c \in Codes : setAt[c] # {}}
FiniteInv == IsFiniteSet(WrittenOnce) /\ lost \subseteq WrittenOnce

LEMMA CardinalityOfPart ==
    ASSUME NEW S, NEW T, IsFiniteSet(T), S \subseteq T
    PROVE  /\ IsFiniteSet(S) /\ Cardinality(S) \in Nat /\ Cardinality(T) \in Nat
           /\ Cardinality(S) <= Cardinality(T)
  BY FS_Subset, FS_CardinalityType

LEMMA FiniteNext ==
    ASSUME TypeOK, SpentInv, FiniteInv, [Next]_vars
    PROVE  FiniteInv'
  <1>1. ASSUME NEW i \in Issuers, SetCode(i) PROVE FiniteInv'
    <2>1. iss[i].code \in Codes
      BY <1>1 DEF TypeOK, SetCode
    <2>2. setAt' = [setAt EXCEPT ![iss[i].code] = {now}] /\ lost' = lost
      BY <1>1 DEF SetCode
    <2>3. WrittenOnce' = WrittenOnce \cup {iss[i].code}
      BY <2>1, <2>2 DEF WrittenOnce, TypeOK
    <2> QED BY <2>2, <2>3, FS_AddElement DEF FiniteInv
  <1>2. ASSUME NEW i \in Issuers, IssuerDies(i) PROVE FiniteInv'
    <2>1. setAt' = setAt /\ lost' \subseteq lost \cup WrittenOnce
      BY <1>2 DEF IssuerDies, WrittenOnce
    <2>2. WrittenOnce' = WrittenOnce
      BY <2>1 DEF WrittenOnce
    <2> QED BY <2>1, <2>2 DEF FiniteInv
  <1>3. CASE UNCHANGED <<setAt, lost>>
    BY <1>3 DEF FiniteInv, WrittenOnce
  <1>4. \/ UNCHANGED <<setAt, lost>>
        \/ \E i \in Issuers : SetCode(i) \/ IssuerDies(i)
    BY NextCases DEF IssuerNext, VerifierNext, Login, Resend, ReadCooldown, CheckCooldown,
                     SetCooldown, Enqueue, Verify, GetCode, DeleteCode, Tick, vars
  <1> QED BY <1>1, <1>2, <1>3, <1>4

LEMMA CoveredNext ==
    ASSUME TypeOK, SpentInv, CoveredInv, [Next]_vars
    PROVE  CoveredInv'
  <1> USE TimeAssumption, NoCodeAssumption DEF TypeOK, CoveredInv
  <1>1. ASSUME NEW i \in Issuers, IssuerNext(i) PROVE CoveredInv'
    <2> USE DEF Issuing, IssStep, IssEnd, Idle
    <2>1. CASE Login(i)
      BY <2>1 DEF Login
    <2>2. CASE Resend(i)
      BY <2>2 DEF Resend
    <2>3. CASE ReadCooldown(i)
      BY <2>3 DEF ReadCooldown
    <2>4. CASE CheckCooldown(i)
      <3>1. UNCHANGED <<coolUntil, now, setAt, lost>>
        BY <2>4 DEF CheckCooldown
      <3>2. \A j \in Issuers : iss[j].pc = "cooldown" => iss'[j] = iss[j]
        BY <2>4 DEF CheckCooldown
      <3> QED BY <3>1, <3>2
    <2>5. CASE SetCode(i)
      <3>1. iss[i].code \in Codes
        BY <2>5 DEF SetCode
      <3>2. UNCHANGED <<coolUntil, now, lost>>
        BY <2>5 DEF SetCode
      <3>3. iss'[i].pc = "cooldown" /\ iss'[i].code = iss[i].code
               /\ \A j \in Issuers : j # i => iss'[j] = iss[j]
        BY <2>5 DEF SetCode
      <3>4. setAt'[iss[i].code] = {now} /\ \A c \in Codes : c # iss[i].code => setAt'[c] = setAt[c]
        BY <2>5, <3>1 DEF SetCode
      <3>5. \A j \in Issuers : iss[j].pc = "cooldown" => j # i
        BY <2>5 DEF SetCode
      <3>6. ASSUME NEW c \in Codes, NEW s \in setAt'[c]
            PROVE  s <= now /\ (\/ c \in lost
                                \/ s + Cooldown <= coolUntil
                                \/ \E j \in Issuers : iss'[j].pc = "cooldown" /\ iss'[j].code = c)
        <4>1. CASE c = iss[i].code
          BY <3>3, <3>4, <4>1
        <4>2. CASE c # iss[i].code
          BY <3>3, <3>4, <3>5, <4>2
        <4> QED BY <4>1, <4>2
      <3> QED BY <3>2, <3>6
    <2>6. CASE SetCooldown(i)
      <3>1. coolUntil' = now + Cooldown /\ UNCHANGED <<now, setAt, lost>>
        BY <2>6 DEF SetCooldown
      <3>2. \A c \in Codes : \A s \in setAt[c] : s + Cooldown <= now + Cooldown
        OBVIOUS
      <3> QED BY <3>1, <3>2
    <2>7. CASE Enqueue(i)
      <3>1. UNCHANGED <<coolUntil, now, setAt, lost>>
        BY <2>7 DEF Enqueue
      <3>2. \A j \in Issuers : iss[j].pc = "cooldown" => iss'[j] = iss[j]
        BY <2>7 DEF Enqueue
      <3> QED BY <3>1, <3>2
    <2>8. CASE IssuerDies(i)
      <3>1. UNCHANGED <<coolUntil, now, setAt>>
               /\ lost' = lost \cup {c \in Codes : c = iss[i].code /\ setAt[c] # {}}
        BY <2>8 DEF IssuerDies
      <3>2. \A j \in Issuers : j # i => iss'[j] = iss[j]
        BY <2>8 DEF IssuerDies
      <3> QED BY <3>1, <3>2
    <2> QED BY <1>1, <2>1, <2>2, <2>3, <2>4, <2>5, <2>6, <2>7, <2>8 DEF IssuerNext
  <1>2. ASSUME NEW v \in Verifiers, VerifierNext(v) PROVE CoveredInv'
    BY <1>2 DEF VerifierNext, Verify, GetCode, DeleteCode
  <1>3. CASE Tick
    BY <1>3 DEF Tick
  <1>4. CASE UNCHANGED vars
    BY <1>4 DEF vars
  <1> QED BY <1>1, <1>2, <1>3, <1>4, NextCases

\* When a cooldown starts, every code written in a period that it outlasts is
\* lost or held by a request that is between its two writes, and such a request
\* is not one of those that still may write.
LEMMA FirstCooldown ==
    ASSUME TypeOK, CoveredInv, FiniteInv, NEW t \in Nat, coolUntil < t + Cooldown
    PROVE  Cardinality(Written(t)) + Cardinality(PastCheck(t))
              <= Cardinality(Issuers) + Cardinality(lost)
  <1> DEFINE C == {i \in Issuers : iss[i].pc = "cooldown"}
             f == [i \in C |-> iss[i].code]
             R == {f[i] : i \in C}
  <1>1. C \subseteq Issuers /\ PastCheck(t) \subseteq Issuers /\ C \cap PastCheck(t) = {}
    BY DEF PastCheck
  <1>2. Written(t) \subseteq lost \cup R
    <2> SUFFICES ASSUME NEW c \in Written(t), c \notin lost PROVE c \in R
      OBVIOUS
    <2>1. PICK s \in setAt[c] : c \in Codes /\ t <= s
      BY DEF Written
    <2>2. s \in Nat /\ ~(s + Cooldown <= coolUntil)
      BY <2>1, TimeAssumption DEF TypeOK
    <2>3. PICK i \in Issuers : iss[i].pc = "cooldown" /\ iss[i].code = c
      BY <2>1, <2>2 DEF CoveredInv
    <2> QED BY <2>3
  <1>3. f \in Surjection(C, R)
    BY DEF Surjection
  <1> HIDE DEF C, f, R
  <1>4. IsFiniteSet(C) /\ IsFiniteSet(PastCheck(t)) /\ IsFiniteSet(lost)
    BY <1>1, IssuersAssumption, CardinalityOfPart DEF FiniteInv
  <1>5. IsFiniteSet(R) /\ Cardinality(R) <= Cardinality(C)
    BY <1>3, <1>4, FS_Surjection
  <1>6. IsFiniteSet(lost \cup R) /\ Cardinality(lost \cup R) <= Cardinality(lost) + Cardinality(R)
    <2>1. /\ IsFiniteSet(lost \cup R)
          /\ Cardinality(lost \cup R) = Cardinality(lost) + Cardinality(R) - Cardinality(lost \cap R)
      BY <1>4, <1>5, FS_Union
    <2>2. IsFiniteSet(lost \cap R)
      BY <1>4, FS_Intersection
    <2> QED BY <1>4, <1>5, <2>1, <2>2, FS_CardinalityType
  <1>7. Cardinality(Written(t)) <= Cardinality(lost) + Cardinality(C)
    <2>1. Cardinality(Written(t)) <= Cardinality(lost \cup R)
             /\ Cardinality(Written(t)) \in Nat /\ Cardinality(lost \cup R) \in Nat
      BY <1>2, <1>6, CardinalityOfPart
    <2> QED BY <1>4, <1>5, <1>6, <2>1, FS_CardinalityType
  <1>8. Cardinality(C) + Cardinality(PastCheck(t)) <= Cardinality(Issuers)
    <2>1. Cardinality(C \cup PastCheck(t)) = Cardinality(C) + Cardinality(PastCheck(t))
             /\ IsFiniteSet(C \cup PastCheck(t))
      <3>1. /\ IsFiniteSet(C \cup PastCheck(t))
            /\ Cardinality(C \cup PastCheck(t)) =
                 Cardinality(C) + Cardinality(PastCheck(t)) - Cardinality(C \cap PastCheck(t))
        BY <1>4, FS_Union
      <3>2. Cardinality(C \cap PastCheck(t)) = 0
        BY <1>1, FS_EmptySet
      <3> QED BY <1>4, <3>1, <3>2, FS_CardinalityType
    <2>2. C \cup PastCheck(t) \subseteq Issuers
      BY <1>1
    <2> QED BY <2>1, <2>2, IssuersAssumption, CardinalityOfPart
  <1>9. IsFiniteSet(Written(t))
    BY <1>2, <1>6, CardinalityOfPart
  <1> QED BY <1>4, <1>7, <1>8, <1>9, IssuersAssumption, FS_CardinalityType

LEMMA SpacedNext ==
    ASSUME TypeOK, SpentInv, CoveredInv, SpacedInv, FiniteInv, FiniteInv', [Next]_vars
    PROVE  SpacedInv'
  <1> SUFFICES ASSUME NEW t \in 0..MaxTime, t + Cooldown <= coolUntil'
               PROVE  Cardinality(Written(t)') + Cardinality(PastCheck(t)')
                         <= Cardinality(Issuers) + Cardinality(lost')
    BY DEF SpacedInv
  <1> USE TimeAssumption
  <1> PICK W : W = Written(t)
    OBVIOUS
  <1> PICK W2 : W2 = Written(t)'
    OBVIOUS
  <1> PICK P : P = PastCheck(t)
    OBVIOUS
  <1> PICK P2 : P2 = PastCheck(t)'
    OBVIOUS
  <1>1. IsFiniteSet(W) /\ IsFiniteSet(P) /\ IsFiniteSet(lost) /\ IsFiniteSet(lost')
    <2>1. W \subseteq WrittenOnce /\ P \subseteq Issuers
      BY DEF Written, WrittenOnce, PastCheck
    <2> QED BY <2>1, IssuersAssumption, CardinalityOfPart DEF FiniteInv
  <1>2. Cardinality(W) \in Nat /\ Cardinality(P) \in Nat
           /\ Cardinality(Issuers) \in Nat /\ Cardinality(lost) \in Nat /\ Cardinality(lost') \in Nat
    BY <1>1, IssuersAssumption, FS_CardinalityType
  <1>3. lost \subseteq lost'
    BY NextCases DEF IssuerNext, VerifierNext, Login, Resend, ReadCooldown, CheckCooldown, SetCode,
                     SetCooldown, Enqueue, IssuerDies, Verify, GetCode, DeleteCode, Tick, vars
  <1>4. Cardinality(lost) <= Cardinality(lost')
    BY <1>1, <1>3, CardinalityOfPart
  <1>5. Cardinality(W) + Cardinality(P) <= Cardinality(Issuers) + Cardinality(lost)
    <2>1. CASE t + Cooldown <= coolUntil
      BY <2>1 DEF SpacedInv
    <2>2. CASE ~(t + Cooldown <= coolUntil)
      BY <2>2, FirstCooldown DEF TypeOK
    <2> QED BY <2>1, <2>2
  <1>6. ASSUME W2 \subseteq W, P2 \subseteq P
        PROVE  Cardinality(W2) + Cardinality(P2) <= Cardinality(Issuers) + Cardinality(lost')
    <2>1. Cardinality(W2) <= Cardinality(W) /\ Cardinality(P2) <= Cardinality(P)
             /\ Cardinality(W2) \in Nat /\ Cardinality(P2) \in Nat
      BY <1>1, <1>6, CardinalityOfPart
    <2> QED BY <1>2, <1>4, <1>5, <2>1
  <1>7. ASSUME NEW c, NEW i \in P, W2 \subseteq W \cup {c}, P2 \subseteq P \ {i}
        PROVE  Cardinality(W2) + Cardinality(P2) <= Cardinality(Issuers) + Cardinality(lost')
    <2>1. /\ IsFiniteSet(W \cup {c}) /\ IsFiniteSet(P \ {i})
          /\ Cardinality(W \cup {c}) <= Cardinality(W) + 1
          /\ Cardinality(P \ {i}) = Cardinality(P) - 1
      <3>1. IsFiniteSet(W \cup {c}) /\ Cardinality(W \cup {c}) <= Cardinality(W) + 1
        <4>1. /\ IsFiniteSet(W \cup {c})
              /\ Cardinality(W \cup {c}) = IF c \in W THEN Cardinality(W) ELSE Cardinality(W) + 1
          BY <1>1, FS_AddElement
        <4> QED BY <1>2, <4>1
      <3>2. IsFiniteSet(P \ {i}) /\ Cardinality(P \ {i}) = Cardinality(P) - 1
        BY <1>1, FS_RemoveElement
      <3> QED BY <3>1, <3>2
    <2>2. Cardinality(W2) <= Cardinality(W \cup {c}) /\ Cardinality(P2) <= Cardinality(P \ {i})
             /\ Cardinality(W2) \in Nat /\ Cardinality(P2) \in Nat
             /\ Cardinality(W \cup {c}) \in Nat /\ Cardinality(P \ {i}) \in Nat
      BY <1>7, <2>1, CardinalityOfPart
    <2> QED BY <1>2, <1>4, <1>5, <2>1, <2>2
  <1>8. ASSUME NEW i \in Issuers, CheckCooldown(i) PROVE W2 \subseteq W /\ P2 \subseteq P
    <2>1. UNCHANGED <<setAt, now, coolUntil>>
      BY <1>8 DEF CheckCooldown
    <2>2. \A j \in Issuers : iss'[j].pc = "set" => iss[j].pc = "set" \/ ~CoolingDown
      BY <1>8 DEF CheckCooldown, IssEnd, Idle, TypeOK
    <2>3. ~CoolingDown => ~(now < t + Cooldown)
      BY <2>1 DEF CoolingDown, TypeOK
    <2> QED BY <2>1, <2>2, <2>3 DEF Written, PastCheck
  <1>9. ASSUME NEW i \in Issuers, SetCode(i)
        PROVE  \/ W2 \subseteq W /\ P2 \subseteq P
               \/ i \in P /\ W2 \subseteq W \cup {iss[i].code} /\ P2 \subseteq P \ {i}
    <2>1. iss[i].code \in Codes
      BY <1>9 DEF SetCode, TypeOK
    <2>2. setAt'[iss[i].code] = {now} /\ \A c \in Codes : c # iss[i].code => setAt'[c] = setAt[c]
      BY <1>9, <2>1 DEF SetCode, TypeOK
    <2>3. now' = now /\ iss[i].pc = "set" /\ iss'[i].pc = "cooldown"
             /\ \A j \in Issuers : j # i => iss'[j] = iss[j]
      BY <1>9 DEF SetCode, IssStep, TypeOK
    <2>4. P2 \subseteq P \ {i}
      BY <2>3 DEF PastCheck
    <2>5. CASE now < t + Cooldown
      <3>1. i \in P
        BY <2>3, <2>5 DEF PastCheck
      <3>2. W2 \subseteq W \cup {iss[i].code}
        BY <2>2 DEF Written
      <3> QED BY <2>4, <3>1, <3>2
    <2>6. CASE ~(now < t + Cooldown)
      <3>1. W2 \subseteq W
        BY <2>2, <2>6 DEF Written
      <3> QED BY <2>4, <3>1
    <2> QED BY <2>5, <2>6
  <1>10. \/ W2 \subseteq W /\ P2 \subseteq P
         \/ \E i \in Issuers : CheckCooldown(i) \/ SetCode(i)
    <2>1. ASSUME NEW i \in Issuers, IssuerNext(i), ~CheckCooldown(i), ~SetCode(i)
          PROVE  setAt' = setAt /\ now' = now
                    /\ \A j \in Issuers : iss'[j].pc = "set" => iss[j].pc = "set"
      <3> USE DEF IssStep, IssEnd, Idle, TypeOK, Issuing
      <3>1. CASE Login(i) \/ Resend(i) \/ ReadCooldown(i)
        <4>1. iss'[i].pc # "set" /\ \A j \in Issuers : j # i => iss'[j] = iss[j]
          BY <3>1 DEF Login, Resend, ReadCooldown
        <4>2. setAt' = setAt /\ now' = now
          BY <3>1 DEF Login, Resend, ReadCooldown
        <4> QED BY <4>1, <4>2
      <3>2. CASE SetCooldown(i)
        BY <3>2 DEF SetCooldown
      <3>3. CASE Enqueue(i)
        BY <3>3 DEF Enqueue
      <3>4. CASE IssuerDies(i)
        BY <3>4 DEF IssuerDies
      <3> QED BY <2>1, <3>1, <3>2, <3>3, <3>4 DEF IssuerNext
    <2>2. \/ setAt' = setAt /\ iss' = iss /\ now' \in Nat /\ now <= now'
          \/ \E i \in Issuers : IssuerNext(i)
      <3>1. now \in Nat
        BY DEF TypeOK
      <3>2. ASSUME NEW v \in Verifiers, VerifierNext(v)
            PROVE  setAt' = setAt /\ iss' = iss /\ now' = now
        BY <3>2 DEF VerifierNext, Verify, GetCode, DeleteCode
      <3>3. Tick => setAt' = setAt /\ iss' = iss /\ now' = now + 1
        BY DEF Tick
      <3>4. UNCHANGED vars => setAt' = setAt /\ iss' = iss /\ now' = now
        BY DEF vars
      <3> QED BY <3>1, <3>2, <3>3, <3>4, NextCases
    <2>3. now \in Nat /\ t \in Nat
      BY DEF TypeOK
    <2>4. ASSUME setAt' = setAt, now' \in Nat, now <= now',
                 \A j \in Issuers : iss'[j].pc = "set" => iss[j].pc = "set"
          PROVE  W2 \subseteq W /\ P2 \subseteq P
      BY <2>3, <2>4 DEF Written, PastCheck
    <2> QED BY <2>1, <2>2, <2>3, <2>4
  <1> QED BY <1>6, <1>7, <1>8, <1>9, <1>10

\* In any period as long as the cooldown a user is sent no more codes than there
\* are requests in flight, and one for each that died: requests can race past the
\* check of the cooldown, but none twice in a period.
THEOREM CodesSpaced == Spec => []CodesPerCooldown
  <1>1. Init => CoveredInv /\ SpacedInv /\ FiniteInv
    <2> SUFFICES ASSUME Init PROVE CoveredInv /\ SpacedInv /\ FiniteInv
      OBVIOUS
    <2>1. CoveredInv
      BY TimeAssumption DEF Init, CoveredInv
    <2>2. SpacedInv
      BY TimeAssumption DEF Init, SpacedInv
    <2>3. WrittenOnce = {}
      BY DEF Init, WrittenOnce
    <2> QED BY <2>1, <2>2, <2>3, FS_EmptySet DEF Init, FiniteInv
  <1>2. TypeOK /\ SpentInv /\ CoveredInv /\ SpacedInv /\ FiniteInv /\ [Next]_vars
           => CoveredInv' /\ SpacedInv' /\ FiniteInv'
    BY CoveredNext, FiniteNext, SpacedNext
  <1>3. TypeOK /\ CoveredInv /\ SpacedInv /\ FiniteInv => CodesPerCooldown
    <2> SUFFICES ASSUME TypeOK, CoveredInv, SpacedInv, FiniteInv, NEW t \in 0..MaxTime
                 PROVE  Cardinality(Written(t)) <= Cardinality(Issuers) + Cardinality(lost)
      BY DEF CodesPerCooldown
    <2>1. Cardinality(Written(t)) + Cardinality(PastCheck(t))
             <= Cardinality(Issuers) + Cardinality(lost)
      <3>1. CASE t + Cooldown <= coolUntil
        BY <3>1 DEF SpacedInv
      <3>2. CASE ~(t + Cooldown <= coolUntil)
        BY <3>2, FirstCooldown, TimeAssumption DEF TypeOK
      <3> QED BY <3>1, <3>2
    <2>2. Written(t) \subseteq WrittenOnce /\ PastCheck(t) \subseteq Issuers
      BY DEF Written, WrittenOnce, PastCheck
    <2>3. Cardinality(Written(t)) \in Nat /\ Cardinality(PastCheck(t)) \in Nat
             /\ Cardinality(Issuers) \in Nat /\ Cardinality(lost) \in Nat
      BY <2>2, IssuersAssumption, CardinalityOfPart DEF FiniteInv
    <2> QED BY <2>1, <2>3
  <1> QED BY <1>1, <1>2, <1>3, TypeCorrect, SpentInvariant, PTL DEF Spec

-----------------------------------------------------------------------------
(* Refinement *)

SlotIssued == {c \in Codes : setAt[c] # {}}

LEMMA FoundChanges ==
    ASSUME NEW v \in Verifiers, \A w \in Verifiers \ {v} : ver'[w] = ver[w],
           NEW c, c = IF ver'[v].pc = "delete" THEN ver'[v].code ELSE NoCode
    PROVE  Found' = [Found EXCEPT ![v] = c]
  BY DEF Found

LEMMA SlotStutters ==
    ASSUME UNCHANGED <<code, codeUntil, now, setAt, ver, accepted>>
    PROVE  UNCHANGED <<Stored, codeUntil, now, SlotIssued, Found, accepted>>
  BY DEF Stored, SlotIssued, Found

LEMMA IssuerSlot ==
    ASSUME TypeOK, SpentInv, NEW i \in Issuers, SetCode(i)
    PROVE  Slot!Issue
  <1> USE TimeAssumption, NoCodeAssumption
  <1>1. iss[i].code \in Codes /\ setAt[iss[i].code] = {}
    BY DEF SetCode, TypeOK, SpentInv
  <1>2. /\ code' = iss[i].code /\ codeUntil' = now + Ttl
        /\ setAt' = [setAt EXCEPT ![iss[i].code] = {now}]
        /\ UNCHANGED <<now, ver, accepted>>
    BY DEF SetCode
  <1>3. SlotIssued' = SlotIssued \cup {iss[i].code}
    BY <1>1, <1>2 DEF SlotIssued, TypeOK
  <1>4. Stored' = iss[i].code
    BY <1>2 DEF Stored, TypeOK
  <1>5. Found' = Found
    BY <1>2 DEF Found
  <1>6. iss[i].code \in Codes \ SlotIssued
    BY <1>1 DEF SlotIssued
  <1> QED BY <1>2, <1>3, <1>4, <1>5, <1>6 DEF Slot!Issue, SlotIssued

\* Only what is stored is found, and the rest of a submission's steps are no steps
\* of CodeSlot.
LEMMA FindSlot ==
    ASSUME TypeOK, NEW v \in Verifiers, Verify(v) \/ GetCode(v)
    PROVE  \/ Slot!Find(v)
           \/ UNCHANGED <<Stored, codeUntil, now, SlotIssued, Found, accepted>>
  <1>1. /\ UNCHANGED <<code, codeUntil, now, setAt, accepted>>
        /\ \A w \in Verifiers \ {v} : ver'[w] = ver[w]
        /\ ver[v].pc # "delete"
    BY DEF Verify, GetCode, VerEnd, TypeOK, Idle
  <1>2. Stored' = Stored /\ SlotIssued' = SlotIssued
    BY <1>1 DEF Stored, SlotIssued
  <1>3. Found[v] = NoCode
    BY <1>1 DEF Found
  <1>4. CASE ver'[v].pc = "delete"
    <2>1. ver'[v].code = Stored /\ Stored # NoCode
      <3>1. ~Verify(v)
        BY <1>4 DEF Verify, TypeOK
      <3>2. GetCode(v)
        BY <3>1
      <3>3. ver[v].code \in Codes
        BY <3>2 DEF GetCode, TypeOK
      <3>4. Stored = ver[v].code
        BY <1>4, <3>2 DEF GetCode, VerEnd, TypeOK, Idle
      <3>5. ver'[v].code = ver[v].code
        BY <3>2, <3>4 DEF GetCode, TypeOK, Verifying
      <3> QED BY <3>3, <3>4, <3>5, NoCodeAssumption
    <2>2. Found' = [Found EXCEPT ![v] = Stored]
      BY <1>1, <1>4, <2>1, FoundChanges
    <2> QED BY <1>1, <1>2, <1>3, <2>1, <2>2 DEF Slot!Find, SlotIssued
  <1>5. CASE ver'[v].pc # "delete"
    <2>1. Found' = [Found EXCEPT ![v] = NoCode]
      BY <1>1, <1>5, FoundChanges
    <2>2. Found' = Found
      BY <1>3, <2>1 DEF Found
    <2> QED BY <1>1, <1>2, <2>2
  <1> QED BY <1>4, <1>5

LEMMA AcceptSlot ==
    ASSUME TypeOK, NEW v \in Verifiers, DeleteCode(v)
    PROVE  Slot!Accept(v)
  <1>1. /\ ver[v].pc = "delete" /\ ver[v].code \in Codes /\ code' = NoCode
        /\ accepted' = [accepted EXCEPT ![ver[v].code] = @ + 1]
        /\ UNCHANGED <<codeUntil, now, setAt>>
    BY DEF DeleteCode, TypeOK
  <1>2. Found[v] = ver[v].code /\ Found[v] # NoCode
    BY <1>1, NoCodeAssumption DEF Found
  <1>3. \A w \in Verifiers \ {v} : ver'[w] = ver[w]
    BY DEF DeleteCode, VerEnd, TypeOK
  <1>4. ver'[v].pc = "idle"
    BY DEF DeleteCode, VerEnd, TypeOK, Idle
  <1>5. Found' = [Found EXCEPT ![v] = NoCode]
    BY <1>3, <1>4, FoundChanges
  <1>6. Stored' = NoCode /\ SlotIssued' = SlotIssued
    BY <1>1 DEF Stored, SlotIssued
  <1> QED BY <1>1, <1>2, <1>5, <1>6 DEF Slot!Accept, SlotIssued

LEMMA PassSlot == TypeOK /\ Tick => Slot!Pass
  <1> SUFFICES ASSUME TypeOK, Tick PROVE Slot!Pass
    OBVIOUS
  <1>1. UNCHANGED <<code, codeUntil, ver, setAt, accepted>> /\ now' = now + 1
    BY DEF Tick
  <1>2. Stored' = IF now' < codeUntil THEN Stored ELSE NoCode
    BY <1>1 DEF Stored, TypeOK
  <1>3. SlotIssued' = SlotIssued /\ Found' = Found
    BY <1>1 DEF SlotIssued, Found
  <1> QED BY <1>1, <1>2, <1>3 DEF Slot!Pass, SlotIssued

LEMMA SlotNext == TypeOK /\ SpentInv /\ [Next]_vars => [Slot!Next]_(Slot!slotVars)
  <1> SUFFICES ASSUME TypeOK, SpentInv, [Next]_vars
               PROVE  Slot!Next \/ UNCHANGED <<Stored, codeUntil, now, SlotIssued, Found, accepted>>
    BY DEF Slot!slotVars, SlotIssued
  <1>1. ASSUME NEW i \in Issuers, SetCode(i) PROVE Slot!Next
    BY <1>1, IssuerSlot DEF Slot!Next
  <1>2. ASSUME NEW v \in Verifiers, VerifierNext(v)
        PROVE  Slot!Next \/ UNCHANGED <<Stored, codeUntil, now, SlotIssued, Found, accepted>>
    BY <1>2, FindSlot, AcceptSlot DEF Slot!Next, VerifierNext
  <1>3. CASE Tick
    BY <1>3, PassSlot DEF Slot!Next
  <1>4. \/ UNCHANGED <<code, codeUntil, now, setAt, ver, accepted>>
        \/ \E i \in Issuers : SetCode(i)
        \/ \E v \in Verifiers : VerifierNext(v)
        \/ Tick
    BY NextCases DEF IssuerNext, Login, Resend, ReadCooldown, CheckCooldown,
                     SetCooldown, Enqueue, IssuerDies, vars
  <1> QED BY <1>1, <1>2, <1>3, <1>4, SlotStutters

\* The two keys and the requests about them implement CodeSlot, however requests
\* interleave and die: no submission finds a code that was replaced, accepted or is
\* as old as OTP_TTL_SECONDS, and each is let in with what it found alone.
THEOREM OtpImplementsSlot == Spec => SlotSpec
  <1>1. Init => Slot!Init
    BY DEF Init, Slot!Init, Stored, Found, Idle
  <1> QED BY <1>1, SlotNext, TypeCorrect, SpentInvariant, PTL DEF Spec, SlotSpec, Slot!Spec
=============================================================================
