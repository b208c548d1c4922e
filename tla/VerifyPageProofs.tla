-------------------------- MODULE VerifyPageProofs --------------------------
(***************************************************************************)
(* Theorems about VerifyPage, for any number of boxes, any lengths of the  *)
(* life of a code and of the cooldown, any division of a second, and any   *)
(* delay of an answer.                                                     *)
(***************************************************************************)
EXTENDS VerifyPage, SequenceTheorems, TLAPS

\* The steps of the keyboard and the mouse, of the server, of an answer, of time.
BoxesNext ==
    \/ (\E d \in Digits : TypeDigit(d)) \/ Backspace \/ (\E s \in Pasted : Paste(s))
    \/ \E i \in 1..OtpLength : MoveFocus(i)

ServerNext == ServeLogin \/ OtherIssues \/ ServeVerify \/ ServeResend

AnswerNext ==
    \/ LoginAnswered \/ VerifyAnswered \/ VerifyLost
    \/ (NewCode /\ UNCHANGED <<open, login, verify, redis, calm>>)
    \/ (CoolingDown /\ UNCHANGED <<open, login, verify, redis, calm>>)
    \/ (NoData /\ UNCHANGED <<open, login, verify, redis, calm>>)
    \/ ResendLost

PageNext == Leave \/ Return \/ PressResend

TimeNext == Tick \/ TickExpiry \/ TickResend

LEMMA NextCases ==
    ASSUME [Next]_vars
    PROVE  BoxesNext \/ ServerNext \/ AnswerNext \/ PageNext \/ TimeNext \/ UNCHANGED vars
  BY DEF Next, BoxesNext, ServerNext, AnswerNext, PageNext, TimeNext, ResendAnswered

-----------------------------------------------------------------------------
(* Whole seconds *)

Whole(n) == \E k \in Nat : n = k * Second

LEMMA Division ==
    ASSUME NEW n \in Nat
    PROVE  /\ (n \div Second) \in Nat /\ (n % Second) \in Nat /\ (n % Second) < Second
           /\ n = (n \div Second) * Second + (n % Second)
  BY TimeAssumption

LEMMA WholeDown ==
    ASSUME NEW n \in Nat, n > 0, Whole(n)
    PROVE  n >= Second /\ Whole(n - Second)
  <1>1. PICK k \in Nat : n = k * Second
    BY DEF Whole
  <1>2. Second \in Nat /\ Second > 0
    BY TimeAssumption
  <1>3. k > 0
    BY <1>1, <1>2
  <1>4. k - 1 \in Nat /\ k * Second = (k - 1) * Second + Second
    BY <1>2, <1>3
  <1>5. (k - 1) * Second >= 0
    BY <1>2, <1>4
  <1> QED BY <1>1, <1>2, <1>4, <1>5 DEF Whole

LEMMA WholeTimes == Whole(0) /\ Whole(Ttl) /\ Whole(Cooldown)
  <1>1. 0 = 0 * Second /\ 0 \in Nat
    BY TimeAssumption
  <1>2. Ttl = (Ttl \div Second) * Second /\ (Ttl \div Second) \in Nat
    BY TimeAssumption, Division
  <1>3. Cooldown = (Cooldown \div Second) * Second /\ (Cooldown \div Second) \in Nat
    BY TimeAssumption, Division
  <1> QED BY <1>1, <1>2, <1>3 DEF Whole

\* Rounding goes to a whole second, and by half a second at most.
LEMMA RoundedFacts ==
    ASSUME NEW n \in Nat
    PROVE  /\ Rounded(n) \in Nat /\ Whole(Rounded(n))
           /\ 2 * (n - Rounded(n)) < Second /\ 2 * (Rounded(n) - n) <= Second
  <1> DEFINE q == n \div Second
             r == n % Second
  <1>1. Second \in Nat /\ Second > 0
    BY TimeAssumption
  <1>2. q \in Nat /\ r \in Nat /\ r < Second /\ n = q * Second + r
    BY Division
  <1>3. Rounded(n) = IF 2 * r < Second THEN n - r ELSE n - r + Second
    BY DEF Rounded
  <1> HIDE DEF q, r
  <1>4. q * Second \in Nat /\ (q + 1) * Second = q * Second + Second
    BY <1>1, <1>2
  <1>5. n - r = q * Second /\ n - r + Second = (q + 1) * Second
    BY <1>1, <1>2, <1>4
  <1>6. Whole(Rounded(n))
    BY <1>2, <1>3, <1>5 DEF Whole
  <1>7. CASE 2 * r < Second
    <2>1. Rounded(n) = n - r /\ n - r \in Nat
      BY <1>3, <1>4, <1>5, <1>7
    <2> QED BY <1>1, <1>2, <1>6, <1>7, <2>1
  <1>8. CASE ~(2 * r < Second)
    <2>1. Rounded(n) = n - r + Second /\ n - r \in Nat
      BY <1>3, <1>4, <1>5, <1>8
    <2> QED BY <1>1, <1>2, <1>6, <1>8, <2>1
  <1> QED BY <1>7, <1>8

LEMMA WholeGap ==
    ASSUME NEW a \in Nat, NEW b \in Nat, Whole(a), Whole(b), a > b
    PROVE  a >= b + Second
  <1>1. PICK i \in Nat : a = i * Second
    BY DEF Whole
  <1>2. PICK j \in Nat : b = j * Second
    BY DEF Whole
  <1>3. Second \in Nat /\ Second > 0
    BY TimeAssumption
  <1>4. i > j
    <2> SUFFICES ASSUME i <= j PROVE FALSE
      BY <1>1, <1>2
    <2>1. j - i \in Nat /\ j * Second = i * Second + (j - i) * Second
      BY <1>3
    <2>2. (j - i) * Second >= 0
      BY <1>3, <2>1
    <2>3. i * Second \in Nat /\ (j - i) * Second \in Nat
      BY <1>3, <2>1
    <2> QED BY <1>1, <1>2, <2>1, <2>2, <2>3
  <1>5. i - j - 1 \in Nat /\ i * Second = j * Second + (i - j - 1) * Second + Second
    BY <1>3, <1>4
  <1>6. (i - j - 1) * Second \in Nat
    BY <1>3, <1>5
  <1> QED BY <1>1, <1>2, <1>3, <1>5, <1>6

\* Rounding stays within a whole number of seconds.
LEMMA RoundedBound ==
    ASSUME NEW n \in Nat, NEW b \in Nat, Whole(b), n <= b
    PROVE  Rounded(n) <= b
  <1> DEFINE R == Rounded(n)
  <1>1. R \in Nat /\ Whole(R) /\ 2 * (R - n) <= Second
    BY RoundedFacts
  <1> HIDE DEF R
  <1>2. R > b => R >= b + Second
    BY <1>1, WholeGap
  <1> QED BY <1>1, <1>2, TimeAssumption DEF R

\* Less than half a second is none.
LEMMA RoundedDown ==
    ASSUME NEW n \in Nat, 2 * n < Second
    PROVE  Rounded(n) = 0
  <1> DEFINE R == Rounded(n)
  <1>1. R \in Nat /\ Whole(R) /\ 2 * (R - n) <= Second
    BY RoundedFacts
  <1> HIDE DEF R
  <1>2. R > 0 => R >= 0 + Second
    BY <1>1, WholeGap, WholeTimes
  <1> QED BY <1>1, <1>2, TimeAssumption DEF R

-----------------------------------------------------------------------------
(* Types *)

\* TypeOK in three parts: the requests, the clocks and the boxes.
Challenges == Request({"challenge"})
Verdicts == Request({"ok", "wrong"})
Resends == Request({"new", "cooling", "generic"})

RequestsType == login \in Challenges /\ verify \in Verdicts /\ resend \in Resends

ClocksType ==
    /\ pending \in 0..Ttl \cup {None}
    /\ open \in BOOLEAN /\ (open => pending # None)
    /\ secondsLeft \in 0..Ttl /\ resendCooldown \in 0..Cooldown
    /\ expiryIn \in 0..Second /\ resendIn \in 0..Second
    /\ codeLeft \in 0..Ttl /\ coolLeft \in 0..Cooldown /\ verified \in BOOLEAN
    /\ lag \in 0..MaxAge /\ counted \in BOOLEAN /\ calm \in BOOLEAN

BoxesType ==
    /\ otp \in Seq(Digits) /\ Len(otp) <= OtpLength
    /\ focus \in 1..OtpLength

LEMMA PastedSeq ==
    \A s : s \in {<<>>} \cup Pasted <=> s \in Seq(Digits) /\ Len(s) <= OtpLength
  <1>1. ASSUME NEW s, s \in {<<>>} \cup Pasted PROVE s \in Seq(Digits) /\ Len(s) <= OtpLength
    <2>1. CASE s = <<>>
      BY <2>1, EmptySeq, LengthAssumption
    <2>2. CASE s \in Pasted
      <3>1. PICK n \in 1..OtpLength : s \in [1..n -> Digits]
        BY <2>2 DEF Pasted
      <3>2. s \in Seq(Digits) /\ Len(s) = n
        BY <3>1, LengthAssumption, SeqDef
      <3> QED BY <3>2, LengthAssumption
    <2> QED BY <1>1, <2>1, <2>2
  <1>2. ASSUME NEW s, s \in Seq(Digits), Len(s) <= OtpLength PROVE s \in {<<>>} \cup Pasted
    <2>1. CASE s = <<>>
      BY <2>1
    <2>2. CASE s # <<>>
      <3>1. s \in [1..Len(s) -> Digits] /\ Len(s) \in 1..OtpLength
        BY <1>2, <2>2, LenProperties, EmptySeq, LengthAssumption
      <3> QED BY <3>1 DEF Pasted
    <2> QED BY <2>1, <2>2
  <1> QED BY <1>1, <1>2

LEMMA TypeParts == RequestsType /\ ClocksType /\ BoxesType /\ otp = typed => TypeOK
  BY PastedSeq DEF TypeOK, RequestsType, Challenges, Verdicts, Resends, ClocksType, BoxesType

LEMMA IdleTypes ==
    /\ Idle \in Challenges /\ Idle \in Verdicts /\ Idle \in Resends
    /\ Sent \in Verdicts /\ Sent \in Resends
  BY TimeAssumption DEF Idle, Sent, Request, Challenges, Verdicts, Resends

\* The fields of the requests.
LEMMA RequestFields ==
    ASSUME RequestsType
    PROVE  /\ login.age \in 0..MaxAge /\ verify.age \in 0..MaxAge /\ resend.age \in 0..MaxAge
           /\ resend.cooldown \in 0..Cooldown
           /\ verify.mine \in BOOLEAN /\ resend.mine \in BOOLEAN
           /\ login.st \in {"idle", "sent", "challenge"}
           /\ verify.st \in {"idle", "sent", "ok", "wrong"}
           /\ resend.st \in {"idle", "sent", "new", "cooling", "generic"}
  BY DEF RequestsType, Challenges, Verdicts, Resends, Request

LEMMA RoundedClocks ==
    ASSUME ClocksType
    PROVE  /\ Rounded(coolLeft) \in 0..Cooldown
           /\ pending # None => Rounded(pending) \in 0..Ttl
           /\ Rounded(Ttl) \in 0..Ttl
  <1>1. ASSUME NEW n \in Nat, NEW b \in Nat, Whole(b), n <= b PROVE Rounded(n) \in 0..b
    BY <1>1, RoundedFacts, RoundedBound
  <1>2. coolLeft \in Nat /\ coolLeft <= Cooldown /\ Cooldown \in Nat /\ Ttl \in Nat
    BY TimeAssumption DEF ClocksType
  <1>3. pending # None => pending \in Nat /\ pending <= Ttl
    BY TimeAssumption DEF ClocksType
  <1> QED BY <1>1, <1>2, <1>3, WholeTimes

LEMMA RequestsTypeNext ==
    RequestsType /\ ClocksType /\ [Next]_vars => RequestsType'
  <1> SUFFICES ASSUME RequestsType, ClocksType, [Next]_vars PROVE RequestsType'
    OBVIOUS
  <1> USE DEF RequestsType
  <1>1. CASE BoxesNext
    <2>1. verify' = verify \/ verify' = Sent
      BY <1>1 DEF BoxesNext, TypeDigit, Backspace, Paste, MoveFocus, Complete
    <2>2. UNCHANGED <<login, resend>>
      BY <1>1 DEF BoxesNext, TypeDigit, Backspace, Paste, MoveFocus
    <2> QED BY <2>1, <2>2, IdleTypes
  <1>2. CASE ServerNext
    <2>1. CASE ServeLogin
      <3>1. login' \in Challenges
        BY <2>1, TimeAssumption DEF ServeLogin, Answer, Challenges, Request
      <3> QED BY <2>1, <3>1 DEF ServeLogin
    <2>2. CASE OtherIssues
      BY <2>2 DEF OtherIssues
    <2>3. CASE ServeVerify
      <3>1. verify' \in Verdicts
        BY <2>3, RequestFields, TimeAssumption DEF ServeVerify, Answer, Verdicts, Request
      <3> QED BY <2>3, <3>1 DEF ServeVerify
    <2>4. CASE ServeResend
      <3>1. \/ resend' = Answer("generic", 0, resend.mine)
            \/ resend' = Answer("cooling", Rounded(coolLeft), resend.mine)
            \/ resend' = Answer("new", 0, resend.mine)
        BY <2>4 DEF ServeResend
      <3>2. Rounded(coolLeft) \in 0..Cooldown
        BY RoundedClocks
      <3>3. resend' \in Resends
        BY <3>1, <3>2, RequestFields, TimeAssumption DEF Answer, Resends, Request
      <3> QED BY <2>4, <3>3 DEF ServeResend
    <2> QED BY <1>2, <2>1, <2>2, <2>3, <2>4 DEF ServerNext
  <1>3. CASE AnswerNext
    <2>1. /\ login' = login \/ login' = Idle
          /\ verify' = verify \/ verify' = Idle
          /\ resend' \in {resend, Idle, Forget(resend)}
      BY <1>3
      DEF AnswerNext, LoginAnswered, VerifyAnswered, VerifyLost, NewCode, CoolingDown, NoData,
          ResendLost, EndResend
    <2>2. Forget(resend) \in Resends
      BY DEF Forget, Resends, Request
    <2> QED BY <2>1, <2>2, IdleTypes
  <1>4. CASE PageNext
    <2>1. CASE Leave
      <3>1. Forget(verify) \in Verdicts /\ Forget(resend) \in Resends
        BY DEF Forget, Verdicts, Resends, Request
      <3> QED BY <2>1, <3>1, IdleTypes DEF Leave
    <2>2. CASE Return
      BY <2>2 DEF Return
    <2>3. CASE PressResend
      BY <2>3, IdleTypes DEF PressResend
    <2> QED BY <1>4, <2>1, <2>2, <2>3 DEF PageNext
  <1>5. CASE TimeNext
    <2>1. CASE Tick
      <3>1. login.age < MaxAge /\ verify.age < MaxAge /\ resend.age < MaxAge
        BY <2>1 DEF Tick
      <3>2. Older(login) \in Challenges
        BY <3>1, TimeAssumption DEF Older, Challenges, Request
      <3>3. Older(verify) \in Verdicts
        BY <3>1, TimeAssumption DEF Older, Verdicts, Request
      <3>4. Older(resend) \in Resends
        BY <3>1, TimeAssumption DEF Older, Resends, Request
      <3> QED BY <2>1, <3>2, <3>3, <3>4 DEF Tick
    <2>2. CASE TickExpiry \/ TickResend
      BY <2>2 DEF TickExpiry, TickResend
    <2> QED BY <1>5, <2>1, <2>2 DEF TimeNext
  <1>6. CASE UNCHANGED vars
    BY <1>6 DEF vars
  <1> QED BY <1>1, <1>2, <1>3, <1>4, <1>5, <1>6, NextCases

LEMMA IssueType ==
    ASSUME ClocksType, IssueOtp PROVE codeLeft' \in 0..Ttl /\ coolLeft' \in 0..Cooldown
  BY TimeAssumption DEF IssueOtp, ClocksType

LEMMA LessType == \A n \in Nat : Less(n) \in 0..n
  BY DEF Less

LEMMA ClocksTypeNext == RequestsType /\ ClocksType /\ [Next]_vars => ClocksType'
  <1> SUFFICES ASSUME RequestsType, ClocksType, [Next]_vars PROVE ClocksType'
    OBVIOUS
  <1>0. /\ None \notin Nat
        /\ Ttl \in Nat /\ Cooldown \in Nat /\ MaxAge \in Nat
        /\ 0 \in 0..Ttl /\ Ttl \in 0..Ttl /\ 0 \in 0..Cooldown /\ Cooldown \in 0..Cooldown
        /\ Second \in Nat /\ Second \in 0..Second
    BY NoneAssumption, TimeAssumption
  <1>1. CASE BoxesNext
    <2>1. UNCHANGED <<open, clocks, redis, calm>>
      BY <1>1 DEF BoxesNext, TypeDigit, Backspace, Paste, MoveFocus
    <2> QED BY <2>1 DEF ClocksType, clocks, redis
  <1>2. CASE ServerNext
    <2>1. UNCHANGED <<open, clocks>>
      BY <1>2 DEF ServerNext, ServeLogin, OtherIssues, ServeVerify, ServeResend
    <2>2. \/ UNCHANGED <<codeLeft, coolLeft>>
          \/ IssueOtp
          \/ codeLeft' = 0 /\ UNCHANGED coolLeft
      BY <1>2 DEF ServerNext, ServeLogin, OtherIssues, ServeVerify, ServeResend
    <2>3. codeLeft' \in 0..Ttl /\ coolLeft' \in 0..Cooldown
      <3>1. CASE IssueOtp
        BY <3>1, IssueType
      <3>2. CASE ~IssueOtp
        BY <1>0, <2>2, <3>2 DEF ClocksType
      <3> QED BY <3>1, <3>2
    <2>4. verified' \in {verified, TRUE} /\ calm' \in {calm, FALSE}
      BY <1>2 DEF ServerNext, ServeLogin, OtherIssues, ServeVerify, ServeResend
    <2> QED BY <2>1, <2>3, <2>4 DEF ClocksType, clocks
  <1>3. CASE AnswerNext
    <2>1. CASE LoginAnswered
      <3>1. /\ open' = TRUE /\ pending' = Ttl /\ secondsLeft' = Rounded(Ttl) /\ lag' = login.age
            /\ resendCooldown' = 0 /\ counted' = FALSE /\ expiryIn' = Second /\ resendIn' = Second
            /\ UNCHANGED <<codeLeft, coolLeft, verified, calm>>
        BY <2>1 DEF LoginAnswered, Mount, Expire, redis
      <3> QED BY <1>0, <3>1, RequestFields, RoundedClocks DEF ClocksType
    <2>2. CASE VerifyAnswered
      <3>1. UNCHANGED <<lag, codeLeft, coolLeft, verified, calm>>
        BY <2>2 DEF VerifyAnswered, redis
      <3>2. \/ /\ pending' = None /\ open' = FALSE /\ secondsLeft' = 0 /\ resendCooldown' = 0
               /\ counted' = FALSE /\ expiryIn' = Second /\ resendIn' = Second
            \/ UNCHANGED <<pending, open, expiryIn, resendIn, secondsLeft, resendCooldown, counted>>
        BY <2>2 DEF VerifyAnswered, Unmount
      <3>3. CASE open' = FALSE /\ pending' = None
        BY <1>0, <3>1, <3>2, <3>3 DEF ClocksType
      <3>4. CASE UNCHANGED <<pending, open, expiryIn, resendIn, secondsLeft, resendCooldown, counted>>
        BY <3>1, <3>4 DEF ClocksType
      <3> QED BY <3>2, <3>3, <3>4
    <2>3. CASE VerifyLost
      <3>1. UNCHANGED <<open, clocks, redis, calm>>
        BY <2>3 DEF VerifyLost
      <3> QED BY <3>1 DEF ClocksType, clocks, redis
    <2>4. CASE NewCode /\ UNCHANGED <<open, login, verify, redis, calm>>
      <3>1. /\ pending' = Ttl /\ secondsLeft' = Rounded(Ttl) /\ lag' = resend.age
            /\ resendCooldown' \in {resendCooldown, Cooldown} /\ counted' \in {counted, TRUE}
            /\ expiryIn' = Second
            /\ UNCHANGED <<open, resendIn, codeLeft, coolLeft, verified, calm>>
        BY <2>4 DEF NewCode, Expire, redis
      <3> QED BY <1>0, <3>1, RequestFields, RoundedClocks DEF ClocksType
    <2>5. CASE CoolingDown /\ UNCHANGED <<open, login, verify, redis, calm>>
      <3>1. /\ resendCooldown' \in {resendCooldown, resend.cooldown}
            /\ counted' = (counted \/ resend.mine)
            /\ UNCHANGED <<pending, secondsLeft, lag, open, expiryIn, resendIn, codeLeft, coolLeft,
                           verified, calm>>
        BY <2>5 DEF CoolingDown, redis
      <3> QED BY <1>0, <3>1, RequestFields DEF ClocksType
    <2>6. CASE NoData /\ UNCHANGED <<open, login, verify, redis, calm>>
      <3>1. UNCHANGED <<open, clocks, redis, calm>>
        BY <2>6 DEF NoData
      <3> QED BY <3>1 DEF ClocksType, clocks, redis
    <2>7. CASE ResendLost
      <3>1. UNCHANGED <<open, clocks, redis>> /\ calm' \in BOOLEAN
        BY <2>7 DEF ResendLost
      <3> QED BY <3>1 DEF ClocksType, clocks, redis
    <2> QED BY <1>3, <2>1, <2>2, <2>3, <2>4, <2>5, <2>6, <2>7 DEF AnswerNext
  <1>4. CASE PageNext
    <2>1. CASE Leave
      <3>1. /\ open' = FALSE /\ secondsLeft' = 0 /\ resendCooldown' = 0
            /\ counted' = FALSE /\ expiryIn' = Second /\ resendIn' = Second
            /\ UNCHANGED <<pending, lag, codeLeft, coolLeft, verified, calm>>
        BY <2>1 DEF Leave, Unmount, redis
      <3> QED BY <1>0, <3>1 DEF ClocksType
    <2>2. CASE Return
      <3>1. /\ open' = TRUE /\ secondsLeft' = Rounded(pending) /\ pending # None
            /\ resendCooldown' = 0 /\ counted' = FALSE /\ expiryIn' = Second /\ resendIn' = Second
            /\ UNCHANGED <<pending, lag, codeLeft, coolLeft, verified, calm>>
        BY <2>2 DEF Return, Mount, redis
      <3> QED BY <1>0, <3>1, RoundedClocks DEF ClocksType
    <2>3. CASE PressResend
      <3>1. UNCHANGED <<open, clocks, redis, calm>>
        BY <2>3 DEF PressResend
      <3> QED BY <3>1 DEF ClocksType, clocks, redis
    <2> QED BY <1>4, <2>1, <2>2, <2>3 DEF PageNext
  <1>5. CASE TimeNext
    <2>1. CASE Tick
      <3>1. codeLeft' = Less(codeLeft) /\ coolLeft' = Less(coolLeft)
            /\ pending' = IF pending = None THEN None ELSE Less(pending)
        BY <2>1 DEF Tick
      <3>2. codeLeft' \in 0..Ttl /\ coolLeft' \in 0..Cooldown
        BY <1>0, <3>1, LessType DEF ClocksType
      <3>3. pending' \in 0..Ttl \cup {None} /\ (open => pending' # None)
        BY <1>0, <3>1, LessType DEF ClocksType
      <3>4. expiryIn' \in 0..Second /\ resendIn' \in 0..Second
        <4>1. expiryIn' \in {expiryIn, Less(expiryIn)} /\ resendIn' \in {resendIn, Less(resendIn)}
          BY <2>1 DEF Tick
        <4> QED BY <1>0, <4>1, LessType DEF ClocksType
      <3>5. UNCHANGED <<open, secondsLeft, resendCooldown, lag, counted, verified, calm>>
        BY <2>1 DEF Tick, redis
      <3> QED BY <3>2, <3>3, <3>4, <3>5 DEF ClocksType
    <2>2. CASE TickExpiry
      <3>1. /\ open /\ expiryIn' = Second /\ secondsLeft' = Rounded(pending)
            /\ UNCHANGED <<pending, open, resendCooldown, resendIn, lag, counted, redis, calm>>
        BY <2>2 DEF TickExpiry
      <3> QED BY <1>0, <3>1, RoundedClocks DEF ClocksType, redis
    <2>3. CASE TickResend
      <3>1. /\ resendIn' = Second
            /\ resendCooldown' = IF resendCooldown < Second THEN 0 ELSE resendCooldown - Second
            /\ UNCHANGED <<pending, open, secondsLeft, expiryIn, lag, counted, redis, calm>>
        BY <2>3 DEF TickResend
      <3>2. resendCooldown' \in 0..Cooldown
        BY <1>0, <3>1 DEF ClocksType
      <3> QED BY <1>0, <3>1, <3>2 DEF ClocksType, redis
    <2> QED BY <1>5, <2>1, <2>2, <2>3 DEF TimeNext
  <1>6. CASE UNCHANGED vars
    BY <1>6 DEF vars, ClocksType, clocks, redis
  <1> QED BY <1>1, <1>2, <1>3, <1>4, <1>5, <1>6, NextCases

-----------------------------------------------------------------------------
(* The clocks *)

\* Only a page that is mounted has a resend of its own, and no login waits behind
\* it; a resend of its own finds the button's timer at rest.
MountedInv ==
    /\ open => login.st = "idle"
    /\ resend.mine => open
    /\ resend.mine => resendCooldown = 0
    /\ resendCooldown = 0 => resendIn = Second
    /\ open /\ counted => resend.st = "idle" \/ resend.mine
    /\ verify.st = "ok" => verified

\* A code outlives the cooldown it began, and an answer that promises a code finds
\* one that is as old as the cooldown at most, and as the answer.
ExpiryInv ==
    /\ ~verified /\ coolLeft > 0 => coolLeft + Ttl - Cooldown <= codeLeft
    /\ login.st = "challenge" /\ ~verified => Ttl <= codeLeft + Cooldown + login.age
    /\ resend.st = "new" /\ ~verified => Ttl <= codeLeft + Cooldown + resend.age
    /\ pending # None /\ ~verified => pending <= codeLeft + Cooldown + lag
    /\ pending # None /\ calm /\ resend.st # "new" /\ login.st # "challenge" => codeLeft <= pending
    /\ open => 2 * (pending - secondsLeft) < Second
    /\ open /\ expiryIn > 0 => 2 * (secondsLeft - pending) <= Second + 2 * (Second - expiryIn)

\* What the button still counts to, what has gone of its interval taken off.
Counts == resendCooldown - (Second - resendIn)

\* The button counts whole seconds, and the server answers with them.
CooldownInv ==
    /\ Whole(resendCooldown)
    /\ Whole(resend.cooldown)
    /\ resend.st = "cooling" /\ resend.mine /\ calm => 2 * (coolLeft - resend.cooldown) < Second
    /\ open /\ calm /\ resend.st # "new" /\ counted => 2 * (coolLeft - Counts) < Second

ClocksInv == RequestsType /\ ClocksType /\ MountedInv /\ ExpiryInv /\ CooldownInv

\* The numbers, as numbers.
LEMMA Numbers ==
    ASSUME RequestsType, ClocksType
    PROVE  /\ Ttl \in Nat /\ Cooldown \in Nat /\ 0 < Cooldown /\ Cooldown < Ttl /\ MaxAge \in Nat
           /\ codeLeft \in Nat /\ codeLeft <= Ttl /\ coolLeft \in Nat /\ coolLeft <= Cooldown
           /\ pending # None => pending \in Nat /\ pending <= Ttl
           /\ open => pending # None
           /\ lag \in Nat /\ secondsLeft \in Nat /\ resendCooldown \in Nat
           /\ login.age \in Nat /\ resend.age \in Nat /\ resend.cooldown \in Nat
           /\ expiryIn \in Nat /\ expiryIn <= Second /\ resendIn \in Nat /\ resendIn <= Second
           /\ Second \in Nat /\ 0 < Second
           /\ verified \in BOOLEAN /\ calm \in BOOLEAN /\ open \in BOOLEAN /\ counted \in BOOLEAN
  BY RequestFields, TimeAssumption DEF ClocksType

LEMMA ClocksInvInit == Init => ClocksInv
  <1>1. Init => RequestsType
    BY IdleTypes DEF Init, RequestsType
  <1>2. Init => ClocksType
    <2>1. 0 \in 0..Ttl /\ 0 \in 0..Cooldown /\ 0 \in 0..MaxAge /\ Second \in 0..Second
      BY TimeAssumption
    <2>2. Init => pending = None /\ ~open
      BY DEF Init
    <2> QED BY <2>1, <2>2 DEF Init, ClocksType
  <1>3. Init => MountedInv
    BY DEF Init, MountedInv, Idle
  <1>4. Init => ExpiryInv /\ CooldownInv
    BY WholeTimes DEF Init, ExpiryInv, CooldownInv, Idle
  <1> QED BY <1>1, <1>2, <1>3, <1>4 DEF ClocksInv

LEMMA MountedInvNext ==
    RequestsType /\ ClocksType /\ MountedInv /\ [Next]_vars => MountedInv'
  <1> SUFFICES ASSUME RequestsType, ClocksType, MountedInv, [Next]_vars PROVE MountedInv'
    OBVIOUS
  <1>0. /\ resendCooldown \in Nat /\ Second \in Nat /\ 0 < Second
        /\ verified \in BOOLEAN /\ open \in BOOLEAN /\ counted \in BOOLEAN /\ resend.mine \in BOOLEAN
    BY Numbers, RequestFields
  <1>1. CASE BoxesNext
    <2>1. UNCHANGED <<open, clocks, redis, login, resend>>
      BY <1>1 DEF BoxesNext, TypeDigit, Backspace, Paste, MoveFocus
    <2>2. verify' = verify \/ verify' = Sent
      BY <1>1 DEF BoxesNext, TypeDigit, Backspace, Paste, MoveFocus, Complete
    <2> QED BY <2>1, <2>2 DEF MountedInv, clocks, redis, Sent
  <1>2. CASE ServerNext
    <2>0. UNCHANGED <<open, clocks>> /\ (verified' = verified \/ verified' = TRUE)
      BY <1>2 DEF ServerNext, ServeLogin, OtherIssues, ServeVerify, ServeResend
    <2>1. UNCHANGED <<open, resendCooldown, resendIn, counted>> /\ (verified => verified')
      BY <2>0 DEF clocks
    <2>2. login' = login \/ ~open
      BY <1>2 DEF ServerNext, ServeLogin, OtherIssues, ServeVerify, ServeResend
    <2>3. resend'.mine = resend.mine /\ (resend.st = "idle" => resend' = resend)
      BY <1>2 DEF ServerNext, ServeLogin, OtherIssues, ServeVerify, ServeResend, Answer
    <2>4. verify' = verify \/ verified' = TRUE \/ verify'.st = "wrong"
      BY <1>2 DEF ServerNext, ServeLogin, OtherIssues, ServeVerify, ServeResend, Answer
    <2> QED BY <2>1, <2>2, <2>3, <2>4 DEF MountedInv
  <1>3. CASE AnswerNext
    <2>1. CASE LoginAnswered
      <3>1. /\ open' = TRUE /\ login'.st = "idle" /\ resendCooldown' = 0
            /\ counted' = FALSE /\ resendIn' = Second /\ UNCHANGED <<verify, resend, verified>>
        BY <2>1 DEF LoginAnswered, Mount, Idle, redis
      <3>2. ~open
        BY <2>1 DEF LoginAnswered
      <3> QED BY <3>1, <3>2 DEF MountedInv
    <2>2. CASE VerifyAnswered
      <3>1. UNCHANGED <<login, verified>> /\ verify'.st = "idle"
        BY <2>2 DEF VerifyAnswered, redis, Idle
      <3>2. CASE verify.st = "ok"
        <4>1. open' = FALSE /\ resendIn' = Second /\ resend'.mine = FALSE
          BY <2>2, <3>2 DEF VerifyAnswered, Unmount, Forget
        <4> QED BY <3>1, <4>1 DEF MountedInv
      <3>3. CASE verify.st # "ok"
        <4>1. UNCHANGED <<open, resendIn, resendCooldown, counted, resend>>
          BY <2>2, <3>3 DEF VerifyAnswered
        <4> QED BY <3>1, <4>1 DEF MountedInv
      <3> QED BY <3>2, <3>3
    <2>3. CASE VerifyLost
      <3>1. UNCHANGED <<open, clocks, redis, login, resend>> /\ verify'.st = "idle"
        BY <2>3 DEF VerifyLost, Idle
      <3> QED BY <3>1 DEF MountedInv, clocks, redis
    <2>4. CASE NewCode /\ UNCHANGED <<open, login, verify, redis, calm>>
      <3>1. /\ resend'.st = "idle" /\ resend'.mine = FALSE
            /\ resendCooldown' = (IF resend.mine THEN Cooldown ELSE resendCooldown)
            /\ UNCHANGED <<resendIn, open, login, verify, verified>>
        BY <2>4 DEF NewCode, EndResend, Expire, Idle, redis
      <3>2. Cooldown > 0
        BY TimeAssumption
      <3> QED BY <3>1, <3>2 DEF MountedInv
    <2>5. CASE CoolingDown /\ UNCHANGED <<open, login, verify, redis, calm>>
      <3>1. /\ resend'.st = "idle" /\ resend'.mine = FALSE
            /\ resendCooldown' = (IF resend.mine THEN resend.cooldown ELSE resendCooldown)
            /\ UNCHANGED <<resendIn, open, login, verify, verified>>
        BY <2>5 DEF CoolingDown, EndResend, Idle, redis
      <3> QED BY <3>1 DEF MountedInv
    <2>6. CASE (NoData /\ UNCHANGED <<open, login, verify, redis, calm>>) \/ ResendLost
      <3>1. /\ resend'.st = "idle" /\ resend'.mine = FALSE
            /\ UNCHANGED <<open, clocks, login, verify, redis>>
        BY <2>6 DEF NoData, ResendLost, EndResend, Idle
      <3> QED BY <3>1 DEF MountedInv, clocks, redis
    <2> QED BY <1>3, <2>1, <2>2, <2>3, <2>4, <2>5, <2>6 DEF AnswerNext
  <1>4. CASE PageNext
    <2>1. CASE Leave
      <3>1. /\ open' = FALSE /\ resendIn' = Second /\ resend'.mine = FALSE /\ UNCHANGED verified
            /\ verify'.st = verify.st
        BY <2>1 DEF Leave, Unmount, Forget, redis
      <3> QED BY <3>1 DEF MountedInv
    <2>2. CASE Return
      <3>1. /\ open' = TRUE /\ login.st = "idle" /\ resendIn' = Second /\ resendCooldown' = 0
            /\ counted' = FALSE /\ UNCHANGED <<login, verify, resend, verified>>
        BY <2>2 DEF Return, Mount, redis
      <3> QED BY <3>1 DEF MountedInv
    <2>3. CASE PressResend
      <3>1. /\ open /\ resendCooldown = 0 /\ resend'.mine
            /\ UNCHANGED <<open, clocks, login, verify, redis>>
        BY <2>3 DEF PressResend, Sent
      <3> QED BY <3>1 DEF MountedInv, clocks, redis
    <2> QED BY <1>4, <2>1, <2>2, <2>3 DEF PageNext
  <1>5. CASE TimeNext
    <2>1. CASE Tick
      <3>1. /\ login'.st = login.st /\ verify'.st = verify.st
            /\ resend'.st = resend.st /\ resend'.mine = resend.mine
        BY <2>1 DEF Tick, Older
      <3>2. /\ resendCooldown = 0 => UNCHANGED resendIn
            /\ UNCHANGED <<open, resendCooldown, counted, verified>>
        BY <2>1 DEF Tick
      <3> QED BY <1>0, <3>1, <3>2 DEF MountedInv
    <2>2. CASE TickExpiry
      <3>1. UNCHANGED <<open, resendCooldown, resendIn, counted, login, verify, resend, redis>>
        BY <2>2 DEF TickExpiry
      <3> QED BY <3>1 DEF MountedInv, redis
    <2>3. CASE TickResend
      <3>1. /\ resendIn = 0 /\ resendIn' = Second
            /\ UNCHANGED <<open, counted, login, verify, resend, redis>>
        BY <2>3 DEF TickResend
      <3> QED BY <1>0, <3>1 DEF MountedInv, redis
    <2> QED BY <1>5, <2>1, <2>2, <2>3 DEF TimeNext
  <1>6. CASE UNCHANGED vars
    BY <1>6 DEF vars, MountedInv
  <1> QED BY <1>1, <1>2, <1>3, <1>4, <1>5, <1>6, NextCases

\* issue_otp keeps the code ahead of the cooldown, and after it the code is as old
\* as the cooldown at most.
LEMMA Issued ==
    ASSUME RequestsType, ClocksType, ExpiryInv, ~verified, IssueOtp
    PROVE  /\ coolLeft' + Ttl - Cooldown <= codeLeft'
           /\ Ttl <= codeLeft' + Cooldown
           /\ codeLeft <= codeLeft' /\ codeLeft' \in Nat /\ coolLeft' \in Nat
  <1>1. CASE coolLeft > 0
    BY <1>1, Numbers DEF IssueOtp, ExpiryInv
  <1>2. CASE ~(coolLeft > 0)
    BY <1>2, Numbers DEF IssueOtp
  <1> QED BY <1>1, <1>2

LEMMA ExpiryInvNext ==
    RequestsType /\ ClocksType /\ MountedInv /\ ExpiryInv /\ [Next]_vars => ExpiryInv'
  <1> SUFFICES ASSUME RequestsType, ClocksType, MountedInv, ExpiryInv, [Next]_vars
               PROVE  ExpiryInv'
    OBVIOUS
  <1>0. /\ Rounded(Ttl) \in Nat
        /\ 2 * (Ttl - Rounded(Ttl)) < Second /\ 2 * (Rounded(Ttl) - Ttl) <= Second
        /\ pending # None => /\ Rounded(pending) \in Nat
                             /\ 2 * (pending - Rounded(pending)) < Second
                             /\ 2 * (Rounded(pending) - pending) <= Second
    BY Numbers, RoundedFacts
  <1>1. CASE BoxesNext
    <2>1. UNCHANGED <<open, clocks, redis, login, resend, calm>>
      BY <1>1 DEF BoxesNext, TypeDigit, Backspace, Paste, MoveFocus
    <2> QED BY <2>1 DEF ExpiryInv, clocks, redis
  <1>2. CASE ServerNext
    <2>0. UNCHANGED <<open, pending, secondsLeft, expiryIn, lag>>
      BY <1>2 DEF ServerNext, ServeLogin, OtherIssues, ServeVerify, ServeResend, clocks
    <2>1. CASE ServeLogin
      <3>1. /\ login'.st = "challenge" /\ login'.age = 0 /\ ~verified /\ IssueOtp
            /\ UNCHANGED <<resend, verified, calm>>
        BY <2>1 DEF ServeLogin, Answer
      <3>2. ~open
        BY <2>1 DEF ServeLogin
      <3>3. /\ coolLeft' + Ttl - Cooldown <= codeLeft' /\ Ttl <= codeLeft' + Cooldown
            /\ codeLeft <= codeLeft' /\ codeLeft' \in Nat /\ coolLeft' \in Nat
        BY <3>1, Issued
      <3> QED BY <2>0, <3>1, <3>2, <3>3, Numbers DEF ExpiryInv
    <2>2. CASE OtherIssues
      <3>1. ~verified /\ IssueOtp /\ calm' = FALSE /\ UNCHANGED <<login, resend, verified>>
        BY <2>2 DEF OtherIssues
      <3>2. /\ coolLeft' + Ttl - Cooldown <= codeLeft' /\ Ttl <= codeLeft' + Cooldown
            /\ codeLeft <= codeLeft' /\ codeLeft' \in Nat /\ coolLeft' \in Nat
        BY <3>1, Issued
      <3> QED BY <2>0, <3>1, <3>2, Numbers DEF ExpiryInv
    <2>3. CASE ServeVerify
      <3>1. /\ \/ verified' = TRUE /\ codeLeft' = 0
               \/ UNCHANGED <<verified, codeLeft>>
            /\ UNCHANGED <<login, resend, coolLeft, calm>>
        BY <2>3 DEF ServeVerify
      <3> QED BY <2>0, <3>1, Numbers DEF ExpiryInv
    <2>4. CASE ServeResend
      <3>1. UNCHANGED <<login, verified, calm>> /\ resend.st = "sent"
        BY <2>4 DEF ServeResend
      <3>2. CASE ~verified /\ IssueOtp /\ resend' = Answer("new", 0, resend.mine)
        <4>1. /\ coolLeft' + Ttl - Cooldown <= codeLeft' /\ Ttl <= codeLeft' + Cooldown
              /\ codeLeft <= codeLeft' /\ codeLeft' \in Nat /\ coolLeft' \in Nat
          BY <3>2, Issued
        <4>2. resend'.st = "new" /\ resend'.age = 0
          BY <3>2 DEF Answer
        <4> QED BY <2>0, <3>1, <3>2, <4>1, <4>2, Numbers DEF ExpiryInv
      <3>3. CASE UNCHANGED <<codeLeft, coolLeft>> /\ resend'.st \in {"generic", "cooling"}
        BY <2>0, <3>1, <3>3 DEF ExpiryInv
      <3> QED BY <2>4, <3>2, <3>3 DEF ServeResend, Answer
    <2> QED BY <1>2, <2>1, <2>2, <2>3, <2>4 DEF ServerNext
  <1>3. CASE AnswerNext
    <2>1. CASE LoginAnswered
      <3>1. /\ login.st = "challenge" /\ login'.st = "idle"
            /\ pending' = Ttl /\ secondsLeft' = Rounded(Ttl) /\ expiryIn' = Second /\ lag' = login.age
            /\ UNCHANGED <<resend, codeLeft, coolLeft, verified, calm>>
        BY <2>1 DEF LoginAnswered, Expire, Idle, redis
      <3> QED BY <3>1, <1>0, Numbers DEF ExpiryInv
    <2>2. CASE VerifyAnswered
      <3>1. /\ UNCHANGED <<lag, login, codeLeft, coolLeft, verified, calm>>
            /\ resend'.st = resend.st /\ resend'.age = resend.age
            /\ \/ pending' = None /\ open' = FALSE
               \/ UNCHANGED <<pending, open, secondsLeft, expiryIn>>
        BY <2>2 DEF VerifyAnswered, Unmount, Forget, redis
      <3> QED BY <3>1 DEF ExpiryInv
    <2>3. CASE VerifyLost
      <3>1. UNCHANGED <<open, clocks, redis, login, resend, calm>>
        BY <2>3 DEF VerifyLost
      <3> QED BY <3>1 DEF ExpiryInv, clocks, redis
    <2>4. CASE NewCode /\ UNCHANGED <<open, login, verify, redis, calm>>
      <3>1. /\ resend.st = "new" /\ resend'.st = "idle"
            /\ pending' = Ttl /\ secondsLeft' = Rounded(Ttl) /\ expiryIn' = Second
            /\ lag' = resend.age
            /\ UNCHANGED <<login, codeLeft, coolLeft, verified, calm>>
        BY <2>4 DEF NewCode, Expire, EndResend, Idle, redis
      <3> QED BY <3>1, <1>0, Numbers DEF ExpiryInv
    <2>5. CASE CoolingDown /\ UNCHANGED <<open, login, verify, redis, calm>>
      <3>1. /\ resend.st = "cooling" /\ resend'.st = "idle"
            /\ UNCHANGED <<open, pending, secondsLeft, expiryIn, lag, login, codeLeft, coolLeft,
                           verified, calm>>
        BY <2>5 DEF CoolingDown, EndResend, Idle, redis
      <3> QED BY <3>1 DEF ExpiryInv
    <2>6. CASE NoData /\ UNCHANGED <<open, login, verify, redis, calm>>
      <3>1. /\ resend.st = "generic" /\ resend'.st = "idle"
            /\ UNCHANGED <<open, pending, secondsLeft, expiryIn, lag, login, codeLeft, coolLeft,
                           verified, calm>>
        BY <2>6 DEF NoData, EndResend, Idle, clocks, redis
      <3> QED BY <3>1 DEF ExpiryInv
    <2>7. CASE ResendLost
      <3>1. /\ resend'.st = "idle" /\ (calm' => calm /\ resend.st # "new")
            /\ UNCHANGED <<open, pending, secondsLeft, expiryIn, lag, login, codeLeft, coolLeft,
                           verified>>
        BY <2>7 DEF ResendLost, EndResend, Idle, clocks, redis
      <3> QED BY <3>1 DEF ExpiryInv
    <2> QED BY <1>3, <2>1, <2>2, <2>3, <2>4, <2>5, <2>6, <2>7 DEF AnswerNext
  <1>4. CASE PageNext
    <2>1. CASE Leave
      <3>1. /\ open' = FALSE /\ resend'.st = resend.st
            /\ resend.st = "new" => resend'.age = resend.age
            /\ UNCHANGED <<pending, lag, login, codeLeft, coolLeft, verified, calm>>
        BY <2>1 DEF Leave, Unmount, Forget, redis
      <3> QED BY <3>1 DEF ExpiryInv
    <2>2. CASE Return
      <3>1. /\ secondsLeft' = Rounded(pending) /\ expiryIn' = Second /\ pending # None
            /\ UNCHANGED <<pending, lag, login, resend, codeLeft, coolLeft, verified, calm>>
        BY <2>2 DEF Return, redis
      <3> QED BY <3>1, <1>0, Numbers DEF ExpiryInv
    <2>3. CASE PressResend
      <3>1. resend'.st = "sent" /\ resend.st = "idle" /\ UNCHANGED <<open, clocks, login, redis, calm>>
        BY <2>3 DEF PressResend, Sent
      <3> QED BY <3>1 DEF ExpiryInv, clocks, redis
    <2> QED BY <1>4, <2>1, <2>2, <2>3 DEF PageNext
  <1>5. CASE TimeNext
    <2>1. CASE Tick
      <3>1. /\ login'.st = login.st /\ resend'.st = resend.st
            /\ login.st = "challenge" => login'.age = login.age + 1
            /\ resend.st = "new" => resend'.age = resend.age + 1
        BY <2>1 DEF Tick, Older
      <3>2. /\ codeLeft' = Less(codeLeft) /\ coolLeft' = Less(coolLeft)
            /\ pending = None => pending' = None
            /\ pending # None => pending' = Less(pending)
            /\ open => expiryIn' = Less(expiryIn)
            /\ UNCHANGED <<open, secondsLeft, lag, verified, calm>>
        BY <2>1 DEF Tick
      <3>3. ~verified /\ coolLeft' > 0 => coolLeft' + Ttl - Cooldown <= codeLeft'
        BY <3>2, Numbers DEF ExpiryInv, Less
      <3>4. /\ login'.st = "challenge" /\ ~verified => Ttl <= codeLeft' + Cooldown + login'.age
            /\ resend'.st = "new" /\ ~verified => Ttl <= codeLeft' + Cooldown + resend'.age
        BY <3>1, <3>2, Numbers DEF ExpiryInv, Less
      <3>5. pending' # None /\ ~verified => pending' <= codeLeft' + Cooldown + lag
        BY <3>2, Numbers DEF ExpiryInv, Less
      <3>6. pending' # None /\ calm /\ resend.st # "new" /\ login.st # "challenge"
              => codeLeft' <= pending'
        BY <3>2, Numbers DEF ExpiryInv, Less
      <3>7. open => 2 * (pending' - secondsLeft) < Second
        BY <3>2, Numbers DEF ExpiryInv, Less
      <3>8. open /\ expiryIn' > 0
              => 2 * (secondsLeft - pending') <= Second + 2 * (Second - expiryIn')
        BY <3>2, Numbers DEF ExpiryInv, Less
      <3> QED BY <3>1, <3>2, <3>3, <3>4, <3>5, <3>6, <3>7, <3>8 DEF ExpiryInv
    <2>2. CASE TickExpiry
      <3>1. /\ open /\ secondsLeft' = Rounded(pending) /\ expiryIn' = Second
            /\ UNCHANGED <<pending, open, lag, login, resend, redis, calm>>
        BY <2>2 DEF TickExpiry
      <3> QED BY <3>1, <1>0, Numbers DEF ExpiryInv, redis
    <2>3. CASE TickResend
      <3>1. UNCHANGED <<pending, open, secondsLeft, expiryIn, lag, login, resend, redis, calm>>
        BY <2>3 DEF TickResend
      <3> QED BY <3>1 DEF ExpiryInv, redis
    <2> QED BY <1>5, <2>1, <2>2, <2>3 DEF TimeNext
  <1>6. CASE UNCHANGED vars
    BY <1>6 DEF vars, ExpiryInv
  <1> QED BY <1>1, <1>2, <1>3, <1>4, <1>5, <1>6, NextCases

LEMMA CooldownInvNext ==
    RequestsType /\ ClocksType /\ MountedInv /\ CooldownInv /\ [Next]_vars => CooldownInv'
  <1> SUFFICES ASSUME RequestsType, ClocksType, MountedInv, CooldownInv, [Next]_vars
               PROVE  CooldownInv'
    OBVIOUS
  <1>1. CASE BoxesNext
    <2>1. UNCHANGED <<open, clocks, redis, resend, calm>>
      BY <1>1 DEF BoxesNext, TypeDigit, Backspace, Paste, MoveFocus
    <2> QED BY <2>1 DEF CooldownInv, Counts, clocks, redis
  <1>2. CASE ServerNext
    <2>0. UNCHANGED <<open, resendIn, resendCooldown, counted>>
      BY <1>2 DEF ServerNext, ServeLogin, OtherIssues, ServeVerify, ServeResend, clocks
    <2>1. CASE ServeLogin
      <3>1. ~open /\ ~verified /\ UNCHANGED resend
        BY <2>1 DEF ServeLogin
      <3> QED BY <2>0, <3>1 DEF CooldownInv, MountedInv
    <2>2. CASE OtherIssues
      <3>1. calm' = FALSE /\ UNCHANGED resend
        BY <2>2 DEF OtherIssues
      <3> QED BY <2>0, <3>1 DEF CooldownInv
    <2>3. CASE ServeVerify
      <3>1. UNCHANGED <<resend, coolLeft, calm>>
        BY <2>3 DEF ServeVerify
      <3> QED BY <2>0, <3>1 DEF CooldownInv, Counts
    <2>4. CASE ServeResend
      <3>1. UNCHANGED calm /\ resend.st = "sent"
        BY <2>4 DEF ServeResend
      <3>2. CASE resend'.st \in {"new", "generic"} /\ resend'.cooldown = 0
        <4>1. resend'.st = "new" \/ UNCHANGED coolLeft
          BY <2>4, <3>2 DEF ServeResend, Answer
        <4> QED BY <2>0, <3>1, <3>2, <4>1, WholeTimes DEF CooldownInv, Counts
      <3>3. CASE UNCHANGED coolLeft /\ resend'.st = "cooling" /\ resend'.cooldown = Rounded(coolLeft)
        <4>1. Whole(Rounded(coolLeft)) /\ 2 * (coolLeft - Rounded(coolLeft)) < Second
          BY Numbers, RoundedFacts
        <4> QED BY <2>0, <3>1, <3>3, <4>1 DEF CooldownInv, Counts
      <3> QED BY <2>4, <3>2, <3>3 DEF ServeResend, Answer
    <2> QED BY <1>2, <2>1, <2>2, <2>3, <2>4 DEF ServerNext
  <1>3. CASE AnswerNext
    <2>1. CASE LoginAnswered
      <3>1. counted' = FALSE /\ resendCooldown' = 0 /\ UNCHANGED <<resend, coolLeft, calm>>
        BY <2>1 DEF LoginAnswered, Mount, redis
      <3> QED BY <3>1, WholeTimes DEF CooldownInv
    <2>2. CASE VerifyAnswered
      <3>1. /\ UNCHANGED <<coolLeft, calm>>
            /\ \/ /\ open' = FALSE /\ resendCooldown' = 0
                  /\ resend'.mine = FALSE /\ resend'.cooldown = resend.cooldown
               \/ UNCHANGED <<open, resendIn, resendCooldown, counted, resend>>
        BY <2>2 DEF VerifyAnswered, Unmount, Forget, redis
      <3> QED BY <3>1, WholeTimes DEF CooldownInv, Counts
    <2>3. CASE VerifyLost
      <3>1. UNCHANGED <<open, clocks, redis, resend, calm>>
        BY <2>3 DEF VerifyLost
      <3> QED BY <3>1 DEF CooldownInv, Counts, clocks, redis
    <2>4. CASE NewCode /\ UNCHANGED <<open, login, verify, redis, calm>>
      <3>1. /\ resend.st = "new" /\ resend'.st = "idle"
            /\ resendCooldown' = (IF resend.mine THEN Cooldown ELSE resendCooldown)
            /\ ~resend.mine => UNCHANGED counted
            /\ resend'.cooldown = 0 /\ UNCHANGED <<open, resendIn, coolLeft, calm>>
        BY <2>4 DEF NewCode, EndResend, Idle, redis
      <3>2. resend.mine => resendIn = Second
        BY DEF MountedInv
      <3>3. Whole(resendCooldown') /\ Whole(resend'.cooldown)
        BY <3>1, WholeTimes DEF CooldownInv
      <3>4. open /\ counted => resend.mine
        BY <3>1 DEF MountedInv
      <3> QED BY <3>1, <3>2, <3>3, <3>4, Numbers DEF CooldownInv, Counts
    <2>5. CASE CoolingDown /\ UNCHANGED <<open, login, verify, redis, calm>>
      <3>1. /\ resend.st = "cooling" /\ resend'.st = "idle"
            /\ resendCooldown' = (IF resend.mine THEN resend.cooldown ELSE resendCooldown)
            /\ ~resend.mine => counted' = counted
            /\ resend'.cooldown = 0 /\ UNCHANGED <<open, resendIn, coolLeft, calm>>
        BY <2>5, Numbers DEF CoolingDown, EndResend, Idle, redis
      <3>2. resend.mine => resendIn = Second
        BY DEF MountedInv
      <3>3. Whole(resendCooldown') /\ Whole(resend'.cooldown)
        BY <3>1, WholeTimes DEF CooldownInv
      <3>4. open /\ counted => resend.mine
        BY <3>1 DEF MountedInv
      <3> QED BY <3>1, <3>2, <3>3, <3>4, Numbers DEF CooldownInv, Counts
    <2>6. CASE NoData /\ UNCHANGED <<open, login, verify, redis, calm>>
      <3>1. /\ resend.st = "generic" /\ resend'.st = "idle"
            /\ resend'.cooldown = 0
            /\ UNCHANGED <<open, resendIn, resendCooldown, counted, coolLeft, calm>>
        BY <2>6 DEF NoData, EndResend, Idle, clocks, redis
      <3> QED BY <3>1, WholeTimes DEF CooldownInv, Counts
    <2>7. CASE ResendLost
      <3>1. /\ resend'.st = "idle" /\ (calm' => calm /\ resend.st # "new")
            /\ resend'.cooldown = 0
            /\ UNCHANGED <<open, resendIn, resendCooldown, counted, coolLeft>>
        BY <2>7 DEF ResendLost, EndResend, Idle, clocks, redis
      <3> QED BY <3>1, WholeTimes DEF CooldownInv, Counts
    <2> QED BY <1>3, <2>1, <2>2, <2>3, <2>4, <2>5, <2>6, <2>7 DEF AnswerNext
  <1>4. CASE PageNext
    <2>1. CASE Leave
      <3>1. /\ open' = FALSE /\ resendCooldown' = 0
            /\ resend'.mine = FALSE /\ resend'.cooldown = resend.cooldown
        BY <2>1 DEF Leave, Unmount, Forget
      <3> QED BY <3>1, WholeTimes DEF CooldownInv
    <2>2. CASE Return
      <3>1. counted' = FALSE /\ resendCooldown' = 0 /\ UNCHANGED <<resend, coolLeft, calm>>
        BY <2>2 DEF Return, Mount, redis
      <3> QED BY <3>1, WholeTimes DEF CooldownInv
    <2>3. CASE PressResend
      <3>1. /\ resend'.st = "sent" /\ resend.st = "idle" /\ resend'.cooldown = 0
            /\ UNCHANGED <<open, clocks, redis, calm>>
        BY <2>3 DEF PressResend, Sent
      <3> QED BY <3>1, WholeTimes DEF CooldownInv, Counts, clocks, redis
    <2> QED BY <1>4, <2>1, <2>2, <2>3 DEF PageNext
  <1>5. CASE TimeNext
    <2>1. CASE Tick
      <3>1. /\ resend'.st = resend.st /\ resend'.mine = resend.mine
            /\ resend'.cooldown = resend.cooldown
        BY <2>1 DEF Tick, Older
      <3>2. /\ coolLeft' = Less(coolLeft)
            /\ open => resendIn' = IF resendCooldown > 0 THEN Less(resendIn) ELSE resendIn
            /\ UNCHANGED <<open, resendCooldown, counted, calm>>
        BY <2>1 DEF Tick
      <3>3. resendCooldown > 0 => resendCooldown >= Second
        BY Numbers, WholeDown DEF CooldownInv
      <3>4. Whole(resendCooldown') /\ Whole(resend'.cooldown)
        BY <3>1, <3>2 DEF CooldownInv
      <3>5. resend'.st = "cooling" /\ resend'.mine /\ calm'
              => 2 * (coolLeft' - resend'.cooldown) < Second
        BY <3>1, <3>2, Numbers DEF CooldownInv, Less
      <3>6. open' /\ calm' /\ resend'.st # "new" /\ counted' => 2 * (coolLeft' - Counts') < Second
        <4> SUFFICES ASSUME open', calm', resend'.st # "new", counted'
                     PROVE  2 * (coolLeft' - Counts') < Second
          OBVIOUS
        <4>1. 2 * (coolLeft - Counts) < Second /\ open /\ coolLeft \in Nat
          BY <3>1, <3>2, Numbers DEF CooldownInv
        <4>2. Counts' = resendCooldown - (Second - resendIn')
          BY <3>2 DEF Counts
        <4>3. resendIn \in Nat /\ resendCooldown \in Nat /\ Second \in Nat /\ 0 < Second
          BY Numbers
        <4>4. CASE resendCooldown > 0 /\ resendIn > 0
          <5>1. resendIn' = resendIn - 1
            BY <3>2, <4>1, <4>3, <4>4 DEF Less
          <5>2. coolLeft' = IF coolLeft = 0 THEN 0 ELSE coolLeft - 1
            BY <3>2 DEF Less
          <5>3. CASE coolLeft = 0
            BY <3>3, <4>2, <4>3, <4>4, <5>1, <5>2, <5>3
          <5>4. CASE coolLeft # 0
            BY <4>1, <4>2, <4>3, <5>1, <5>2, <5>4 DEF Counts
          <5> QED BY <5>3, <5>4
        <4>5. CASE ~(resendCooldown > 0 /\ resendIn > 0)
          <5>1. resendIn' = resendIn
            BY <3>2, <4>1, <4>3, <4>5 DEF Less
          <5>2. coolLeft' \in Nat /\ coolLeft' <= coolLeft
            BY <3>2, <4>1 DEF Less
          <5> QED BY <4>1, <4>2, <4>3, <5>1, <5>2 DEF Counts
        <4> QED BY <4>4, <4>5
      <3> QED BY <3>4, <3>5, <3>6 DEF CooldownInv
    <2>2. CASE TickExpiry
      <3>1. UNCHANGED <<open, resendCooldown, resendIn, counted, resend, redis, calm>>
        BY <2>2 DEF TickExpiry
      <3> QED BY <3>1 DEF CooldownInv, Counts, redis
    <2>3. CASE TickResend
      <3>1. /\ resendIn = 0 /\ resendIn' = Second
            /\ resendCooldown' = IF resendCooldown < Second THEN 0 ELSE resendCooldown - Second
            /\ UNCHANGED <<open, counted, resend, redis, calm>>
        BY <2>3 DEF TickResend
      <3>2. resendCooldown > 0
        BY <3>1, Numbers DEF MountedInv
      <3>3. resendCooldown >= Second /\ Whole(resendCooldown - Second)
        BY <3>2, Numbers, WholeDown DEF CooldownInv
      <3>4. resendCooldown' = resendCooldown - Second
        BY <3>1, <3>3, Numbers
      <3>5. UNCHANGED Counts
        BY <3>1, <3>4, Numbers DEF Counts
      <3> QED BY <3>1, <3>3, <3>4, <3>5 DEF CooldownInv, redis
    <2> QED BY <1>5, <2>1, <2>2, <2>3 DEF TimeNext
  <1>6. CASE UNCHANGED vars
    BY <1>6 DEF vars, CooldownInv, Counts
  <1> QED BY <1>1, <1>2, <1>3, <1>4, <1>5, <1>6, NextCases

LEMMA ClocksInvNext == ClocksInv /\ [Next]_vars => ClocksInv'
  BY RequestsTypeNext, ClocksTypeNext, MountedInvNext, ExpiryInvNext, CooldownInvNext DEF ClocksInv

THEOREM ClocksInvariant == Spec => []ClocksInv
  BY ClocksInvInit, ClocksInvNext, PTL DEF Spec

\* The countdowns of the page against the expiry times in Redis: whatever answers
\* are late or lost, intervals fire late, and pages are left and returned to.
THEOREM CountdownsHonest == Spec => []ClocksHonest
  <1>1. ClocksInv => ClocksHonest
    <2> SUFFICES ASSUME ClocksInv PROVE ClocksHonest
      OBVIOUS
    <2>1. RequestsType /\ ClocksType /\ MountedInv /\ ExpiryInv /\ CooldownInv
      BY DEF ClocksInv
    <2>2. open => pending # None /\ login.st # "challenge"
      BY <2>1, Numbers DEF MountedInv
    <2>3. Counts <= resendCooldown /\ Counts \in Int
      BY <2>1, Numbers DEF Counts
    <2>4. open /\ calm /\ resend.st # "new" /\ counted => 2 * (coolLeft - resendCooldown) < Second
      BY <2>1, <2>3, Numbers DEF CooldownInv
    <2>5. 2 * (coolLeft - resendCooldown) < Second /\ resendCooldown = 0 => Rounded(coolLeft) = 0
      BY <2>1, Numbers, RoundedDown
    <2> QED BY <2>1, <2>2, <2>4, <2>5, Numbers DEF ClocksHonest, ExpiryInv
  <1> QED BY <1>1, ClocksInvariant, PTL

-----------------------------------------------------------------------------
(* The boxes *)

\* A submission of the page before this one is answered to boxes that are empty.
ForgottenInv == verify.st # "idle" /\ ~verify.mine => otp = <<>>

BoxesInv == BoxesType /\ TypedInOrder /\ ForgottenInv

\* setDigit adds a digit at most, and removes one at most.
LEMMA JoinedSeq ==
    ASSUME otp \in Seq(Digits), NEW i \in Nat \ {0}, NEW x \in Seq(Digits), Len(x) <= 1
    PROVE  /\ Joined(i, x) \in Seq(Digits)
           /\ Len(Joined(i, x)) <= Len(otp) + Len(x)
           /\ i <= Len(otp) => Len(Joined(i, x)) = Len(otp) + Len(x) - 1
  <1>1. CASE i > Len(otp)
    BY <1>1, ConcatProperties DEF Joined
  <1>2. CASE i <= Len(otp)
    <2> DEFINE a == SubSeq(otp, 1, i - 1)
               b == SubSeq(otp, i + 1, Len(otp))
    <2>1. Len(otp) \in Nat /\ \A j \in 1..Len(otp) : otp[j] \in Digits
      BY LenProperties, ElementOfSeq
    <2>2. a \in Seq(Digits) /\ Len(a) = i - 1
      <3>1. \A j \in 1..(i - 1) : otp[j] \in Digits
        BY <1>2, <2>1
      <3>2. 1 \in Int /\ i - 1 \in Int
        OBVIOUS
      <3> QED BY <3>1, <3>2, SubSeqProperties
    <2>3. b \in Seq(Digits) /\ Len(b) = Len(otp) - i
      <3>1. \A j \in (i + 1)..Len(otp) : otp[j] \in Digits
        BY <1>2, <2>1
      <3>2. i + 1 \in Int /\ Len(otp) \in Int
        BY <2>1
      <3>3. b \in Seq(Digits)
            /\ Len(b) = IF i + 1 <= Len(otp) THEN Len(otp) - (i + 1) + 1 ELSE 0
        BY <3>1, <3>2, SubSeqProperties
      <3> QED BY <1>2, <2>1, <3>3
    <2>4. a \o x \in Seq(Digits) /\ Len(a \o x) = i - 1 + Len(x)
      BY <2>2, ConcatProperties
    <2>5. (a \o x) \o b \in Seq(Digits) /\ Len((a \o x) \o b) = Len(otp) + Len(x) - 1
      <3>1. (a \o x) \o b \in Seq(Digits) /\ Len((a \o x) \o b) = Len(a \o x) + Len(b)
        BY <2>3, <2>4, ConcatProperties
      <3>2. Len(x) \in Nat
        BY LenProperties
      <3> HIDE DEF a, b
      <3>3. Len((a \o x) \o b) = (i - 1 + Len(x)) + (Len(otp) - i)
        BY <2>3, <2>4, <3>1
      <3>4. (i - 1 + Len(x)) + (Len(otp) - i) = Len(otp) + Len(x) - 1
        BY <2>1, <3>2
      <3> QED BY <3>1, <3>3, <3>4, Zenon
    <2>6. Joined(i, x) = (a \o x) \o b
      <3>1. ~(i > Len(otp))
        BY <1>2, <2>1
      <3> QED BY <3>1, Zenon DEF Joined
    <2>7. Len(x) \in Nat
      BY LenProperties
    <2> HIDE DEF a, b
    <2> QED BY <2>1, <2>5, <2>6, <2>7
  <1>3. Len(otp) \in Nat
    BY LenProperties
  <1> QED BY <1>1, <1>2, <1>3

\* Its digits, box by box.
LEMMA JoinedAt ==
    ASSUME otp \in Seq(Digits), NEW i \in 1..Len(otp), NEW x \in Seq(Digits),
           NEW j \in 1..(Len(otp) + Len(x) - 1)
    PROVE  Joined(i, x)[j] = IF j < i THEN otp[j]
                             ELSE IF j < i + Len(x) THEN x[j - i + 1]
                             ELSE otp[j - Len(x) + 1]
  <1> DEFINE n == Len(otp)
             m == Len(x)
             a == SubSeq(otp, 1, i - 1)
             b == SubSeq(otp, i + 1, n)
             c == a \o x
  <1>1. n \in Nat /\ m \in Nat /\ i \in 1..n /\ j \in 1..(n + m - 1)
    BY LenProperties
  <1>0. \A k \in 1..n : otp[k] \in Digits
    BY ElementOfSeq
  <1>2. a \in Seq(Digits) /\ Len(a) = i - 1 /\ \A k \in 1..(i - 1) : a[k] = otp[k]
    <2>1. \A k \in 1..(i - 1) : otp[k] \in Digits
      BY <1>0, <1>1
    <2>2. 1 \in Int /\ i - 1 \in Int
      OBVIOUS
    <2>3. /\ a \in Seq(Digits) /\ Len(a) = IF 1 <= i - 1 THEN i - 1 - 1 + 1 ELSE 0
          /\ \A k \in 1..(i - 1 - 1 + 1) : a[k] = otp[1 + k - 1]
      BY <2>1, <2>2, SubSeqProperties
    <2> HIDE DEF a
    <2> QED BY <1>1, <2>3
  <1>3. b \in Seq(Digits) /\ Len(b) = n - i /\ \A k \in 1..(n - i) : b[k] = otp[i + k]
    <2>1. \A k \in (i + 1)..n : otp[k] \in Digits
      BY <1>0, <1>1
    <2>2. i + 1 \in Int /\ n \in Int
      BY <1>1
    <2>3. /\ b \in Seq(Digits) /\ Len(b) = IF i + 1 <= n THEN n - (i + 1) + 1 ELSE 0
          /\ \A k \in 1..(n - (i + 1) + 1) : b[k] = otp[i + 1 + k - 1]
      BY <2>1, <2>2, SubSeqProperties
    <2> HIDE DEF b, n
    <2> QED BY <1>1, <2>3
  <1>4. /\ c \in Seq(Digits) /\ Len(c) = i - 1 + m
        /\ \A k \in 1..(i - 1 + m) : c[k] = IF k <= i - 1 THEN a[k] ELSE x[k - (i - 1)]
    <2>1. /\ c \in Seq(Digits) /\ Len(c) = Len(a) + Len(x)
          /\ \A k \in 1..(Len(a) + Len(x)) : c[k] = IF k <= Len(a) THEN a[k] ELSE x[k - Len(a)]
      BY <1>2, ConcatProperties
    <2> HIDE DEF a, c
    <2> QED BY <1>2, <2>1
  <1>5. \A k \in 1..(Len(c) + Len(b)) : (c \o b)[k] = IF k <= Len(c) THEN c[k] ELSE b[k - Len(c)]
    <2> HIDE DEF b, c
    <2> QED BY <1>3, <1>4, ConcatProperties
  <1>6. Joined(i, x) = c \o b
    <2>1. ~(i > Len(otp))
      BY <1>1
    <2> QED BY <2>1, Zenon DEF Joined
  <1> HIDE DEF n, m, a, b, c
  <1>7. j \in 1..(Len(c) + Len(b))
    BY <1>1, <1>3, <1>4
  <1>8. (c \o b)[j] = IF j <= i - 1 + m THEN c[j] ELSE b[j - (i - 1 + m)]
    BY <1>4, <1>5, <1>7
  <1>9. (c \o b)[j] = IF j < i THEN otp[j] ELSE IF j < i + m THEN x[j - i + 1] ELSE otp[j - m + 1]
    <2>1. CASE j < i
      <3>1. j \in 1..(i - 1) /\ j \in 1..(i - 1 + m) /\ j <= i - 1 + m /\ j <= i - 1
        BY <1>1, <2>1
      <3>2. c[j] = a[j] /\ a[j] = otp[j]
        BY <1>2, <1>4, <3>1
      <3> QED BY <1>8, <2>1, <3>1, <3>2
    <2>2. CASE ~(j < i) /\ j < i + m
      <3>1. j \in 1..(i - 1 + m) /\ j <= i - 1 + m /\ ~(j <= i - 1) /\ j - (i - 1) = j - i + 1
        BY <1>1, <2>2
      <3>2. c[j] = x[j - (i - 1)]
        BY <1>4, <3>1
      <3> QED BY <1>8, <2>2, <3>1, <3>2
    <2>3. CASE ~(j < i) /\ ~(j < i + m)
      <3>1. /\ ~(j <= i - 1 + m) /\ j - (i - 1 + m) \in 1..(n - i)
            /\ i + (j - (i - 1 + m)) = j - m + 1
        BY <1>1, <2>3
      <3>2. b[j - (i - 1 + m)] = otp[i + (j - (i - 1 + m))]
        BY <1>3, <3>1
      <3> QED BY <1>8, <2>3, <3>1, <3>2
    <2> QED BY <2>1, <2>2, <2>3
  <1> QED BY <1>6, <1>9 DEF m

\* It is what an editor of one line does: a digit put in, a digit taken out.
LEMMA JoinedLength ==
    ASSUME otp \in Seq(Digits), NEW i \in 1..Len(otp), NEW x \in Seq(Digits), Len(x) <= 1
    PROVE  Len(Joined(i, x)) = Len(otp) + Len(x) - 1
  <1>1. i \in Nat \ {0} /\ i <= Len(otp)
    BY LenProperties
  <1> QED BY <1>1, JoinedSeq

LEMMA JoinedPut ==
    ASSUME otp \in Seq(Digits), NEW i \in Nat \ {0}, NEW d \in Digits
    PROVE  Joined(i, <<d>>) = Put(otp, i, d)
  <1>0. Len(otp) \in Nat
    BY LenProperties
  <1>1. CASE i > Len(otp)
    <2>1. Joined(i, <<d>>) = otp \o <<d>> /\ Put(otp, i, d) = Append(otp, d)
      BY <1>1 DEF Joined, Put
    <2> QED BY <2>1, AppendIsConcat
  <1>2. CASE ~(i > Len(otp))
    <2> DEFINE x == <<d>>
               w == Joined(i, x)
               v == [otp EXCEPT ![i] = d]
    <2>1. i \in 1..Len(otp)
      BY <1>0, <1>2
    <2>2. x \in Seq(Digits) /\ Len(x) = 1 /\ Len(x) <= 1 /\ x[1] = d
      OBVIOUS
    <2>3. w \in Seq(Digits) /\ Len(w) = Len(otp)
      <3>1. w \in Seq(Digits)
        BY <2>2, JoinedSeq
      <3>2. Len(w) = Len(otp) + Len(x) - 1
        BY <2>1, <2>2, JoinedLength
      <3> HIDE DEF w, x
      <3> QED BY <1>0, <2>2, <3>1, <3>2
    <2>4. /\ v \in Seq(Digits) /\ Len(v) = Len(otp)
          /\ \A j \in 1..Len(otp) : v[j] = IF j = i THEN d ELSE otp[j]
      BY <2>1, ExceptSeq
    <2>5. ASSUME NEW j \in 1..Len(otp) PROVE w[j] = v[j]
      <3>1. j \in 1..(Len(otp) + Len(x) - 1)
        BY <1>0, <2>2
      <3>2. w[j] = IF j < i THEN otp[j]
                   ELSE IF j < i + Len(x) THEN x[j - i + 1] ELSE otp[j - Len(x) + 1]
        BY <2>1, <2>2, <3>1, JoinedAt
      <3> HIDE DEF w, x, v
      <3>3. w[j] = IF j < i THEN otp[j] ELSE IF j < i + 1 THEN x[j - i + 1] ELSE otp[j - 1 + 1]
        BY <2>2, <3>2
      <3>4. CASE j = i
        <4>1. ~(j < i) /\ j < i + 1 /\ j - i + 1 = 1
          BY <1>0, <3>4
        <4> QED BY <2>2, <2>4, <3>3, <3>4, <4>1
      <3>5. CASE j # i
        <4>1. j < i \/ (~(j < i) /\ ~(j < i + 1) /\ j - 1 + 1 = j)
          BY <1>0, <3>5
        <4> QED BY <2>4, <3>3, <3>5, <4>1
      <3> QED BY <3>4, <3>5
    <2>6. w = v
      <3> HIDE DEF w, v
      <3> QED BY <2>3, <2>4, <2>5, SeqEqual
    <2>7. Put(otp, i, d) = v
      BY <1>2 DEF Put
    <2> QED BY <2>6, <2>7
  <1> QED BY <1>1, <1>2

LEMMA JoinedWithout ==
    ASSUME otp \in Seq(Digits), NEW i \in Nat \ {0}
    PROVE  Joined(i, <<>>) = Without(otp, i)
  <1>0. Len(otp) \in Nat
    BY LenProperties
  <1>1. CASE i > Len(otp)
    <2>1. Joined(i, <<>>) = otp \o <<>> /\ Without(otp, i) = otp
      BY <1>0, <1>1 DEF Joined, Without
    <2> QED BY <2>1, ConcatEmptySeq
  <1>2. CASE ~(i > Len(otp))
    <2> DEFINE n == Len(otp) - 1
               x == <<>>
               w == Joined(i, x)
               v == [j \in 1..n |-> IF j < i THEN otp[j] ELSE otp[j + 1]]
    <2>1. i \in 1..Len(otp) /\ n \in Nat
      BY <1>0, <1>2
    <2>2. x \in Seq(Digits) /\ Len(x) = 0 /\ Len(x) <= 1
      BY EmptySeq
    <2>3. w \in Seq(Digits) /\ Len(w) = n
      <3>1. w \in Seq(Digits)
        BY <2>2, JoinedSeq
      <3>2. Len(w) = Len(otp) + Len(x) - 1
        BY <2>1, <2>2, JoinedLength
      <3> HIDE DEF w, x
      <3> QED BY <1>0, <2>2, <3>1, <3>2
    <2>4. v \in Seq(Digits) /\ Len(v) = n
      <3>1. \A j \in 1..n : j \in 1..Len(otp) /\ j + 1 \in 1..Len(otp)
        BY <1>0
      <3>2. v \in [1..n -> Digits]
        BY <3>1, ElementOfSeq
      <3> HIDE DEF n, v
      <3> QED BY <2>1, <3>2, SeqDef
    <2>5. ASSUME NEW j \in 1..n PROVE w[j] = v[j]
      <3>1. j \in 1..(Len(otp) + Len(x) - 1)
        BY <1>0, <2>2
      <3>2. w[j] = IF j < i THEN otp[j]
                   ELSE IF j < i + Len(x) THEN x[j - i + 1] ELSE otp[j - Len(x) + 1]
        BY <2>1, <2>2, <3>1, JoinedAt
      <3>3. v[j] = IF j < i THEN otp[j] ELSE otp[j + 1]
        OBVIOUS
      <3> HIDE DEF w, x, v, n
      <3>4. w[j] = IF j < i THEN otp[j] ELSE IF j < i + 0 THEN x[j - i + 1] ELSE otp[j - 0 + 1]
        BY <2>2, <3>2
      <3>5. i + 0 = i /\ j - 0 + 1 = j + 1
        BY <2>1
      <3> QED BY <3>3, <3>4, <3>5
    <2>6. w = v
      <3> HIDE DEF w, v, n
      <3> QED BY <2>3, <2>4, <2>5, SeqEqual
    <2>7. Without(otp, i) = v
      BY <2>1 DEF Without
    <2> QED BY <2>6, <2>7
  <1> QED BY <1>1, <1>2

LEMMA FocusType ==
    ASSUME BoxesType, NEW i, Focus(i) PROVE focus' \in 1..OtpLength
  BY DEF BoxesType, Focus

\* Boxes that are enabled are not all filled.
LEMMA EnabledBoxes ==
    ASSUME BoxesInv, Enabled PROVE Len(otp) \in Nat /\ Len(otp) < OtpLength /\ OtpLength \in Nat
  <1>1. Len(otp) \in Nat /\ Len(otp) <= OtpLength /\ OtpLength \in Nat
    BY LenProperties, LengthAssumption DEF BoxesInv, BoxesType
  <1>2. Len(otp) # OtpLength
    BY DEF BoxesInv, TypedInOrder, Enabled
  <1> QED BY <1>1, <1>2

LEMMA EmptyBoxesInv ==
    ASSUME otp' = <<>>, typed' = <<>>, focus' \in 1..OtpLength PROVE BoxesInv'
  <1>1. <<>> \in Seq(Digits) /\ Len(<<>>) = 0
    BY EmptySeq
  <1>2. 0 <= OtpLength /\ 0 # OtpLength
    BY LengthAssumption
  <1> QED BY <1>1, <1>2 DEF BoxesInv, BoxesType, TypedInOrder, ForgottenInv

LEMMA BoxesInvInit == Init => BoxesInv
  <1>1. <<>> \in Seq(Digits) /\ Len(<<>>) = 0
    BY EmptySeq
  <1>2. 0 <= OtpLength /\ 0 # OtpLength /\ 1 \in 1..OtpLength
    BY LengthAssumption
  <1> QED BY <1>1, <1>2 DEF Init, BoxesInv, BoxesType, TypedInOrder, ForgottenInv

LEMMA BoxesInvNext == BoxesInv /\ [Next]_vars => BoxesInv'
  <1> SUFFICES ASSUME BoxesInv, [Next]_vars PROVE BoxesInv'
    OBVIOUS
  <1>0. 1 \in 1..OtpLength /\ focus \in 1..OtpLength
    BY LengthAssumption DEF BoxesInv, BoxesType
  \* Boxes that stay as they are, and a submission that stays or goes to another state.
  <1>a. ASSUME UNCHANGED boxes, verify'.mine = verify.mine,
               verify'.st # "idle" <=> verify.st # "idle"
        PROVE  BoxesInv'
    BY <1>a DEF boxes, BoxesInv, BoxesType, TypedInOrder, ForgottenInv
  <1>1. CASE BoxesNext
    <2>1. ASSUME NEW d \in Digits, TypeDigit(d) PROVE BoxesInv'
      <3>1. Len(otp) \in Nat /\ Len(otp) < OtpLength /\ OtpLength \in Nat
        BY <2>1, EnabledBoxes DEF TypeDigit
      <3>2. /\ otp' = Joined(focus, <<d>>)
            /\ typed' = Put(typed, focus, d)
            /\ verify' = IF Len(otp') = OtpLength THEN Sent ELSE verify
            /\ verify.st = "idle"
        BY <2>1 DEF TypeDigit, Complete, Enabled
      <3>3. focus' \in 1..OtpLength
        BY <2>1, FocusType DEF TypeDigit, BoxesInv
      <3>4. <<d>> \in Seq(Digits) /\ Len(<<d>>) = 1 /\ Len(<<d>>) <= 1
        OBVIOUS
      <3>5. otp' \in Seq(Digits) /\ Len(otp') <= OtpLength
        <4>1. otp \in Seq(Digits) /\ focus \in Nat \ {0}
          BY <1>0, LengthAssumption DEF BoxesInv, BoxesType
        <4>2. otp' \in Seq(Digits) /\ Len(otp') <= Len(otp) + 1
          <5>1. /\ Joined(focus, <<d>>) \in Seq(Digits)
                /\ Len(Joined(focus, <<d>>)) <= Len(otp) + Len(<<d>>)
            BY <3>4, <4>1, JoinedSeq, Zenon
          <5> QED BY <3>2, <3>4, <5>1, Zenon
        <4>3. Len(otp') \in Nat
          BY <4>2, LenProperties
        <4> QED BY <3>1, <4>2, <4>3
      <3>6. otp' = typed'
        <4>1. typed = otp /\ otp \in Seq(Digits) /\ focus \in Nat \ {0}
          BY <1>0, LengthAssumption DEF BoxesInv, BoxesType, TypedInOrder
        <4>2. Joined(focus, <<d>>) = Put(otp, focus, d)
          BY <4>1, JoinedPut
        <4> QED BY <3>2, <4>1, <4>2
      <3>7. verify'.st # "idle" => verify'.mine
        BY <3>2 DEF Sent
      <3>8. Len(otp') = OtpLength => verify'.st # "idle"
        BY <3>2 DEF Sent
      <3> QED BY <3>3, <3>5, <3>6, <3>7, <3>8 DEF BoxesInv, BoxesType, TypedInOrder, ForgottenInv
    <2>2. CASE Backspace
      <3> DEFINE i == IF focus > Len(otp) THEN focus - 1 ELSE focus
      <3>1. Len(otp) \in Nat /\ Len(otp) < OtpLength /\ OtpLength \in Nat
        BY <2>2, EnabledBoxes DEF Backspace
      <3>2. /\ otp' = IF i = 0 THEN otp ELSE Joined(i, <<>>)
            /\ typed' = Without(typed, IF focus > Len(typed) THEN focus - 1 ELSE focus)
            /\ verify' = verify /\ verify.st = "idle"
            /\ Focus(i)
        BY <2>2 DEF Backspace, Enabled
      <3>3. focus' \in 1..OtpLength
        BY <3>2, FocusType DEF BoxesInv
      <3>4. otp' \in Seq(Digits) /\ Len(otp') <= Len(otp)
        <4>1. otp \in Seq(Digits) /\ i \in Nat
          BY <1>0, <3>1 DEF BoxesInv, BoxesType
        <4>2. CASE i = 0
          BY <3>1, <3>2, <4>1, <4>2
        <4>3. CASE i # 0
          <5>1. <<>> \in Seq(Digits) /\ Len(<<>>) = 0 /\ Len(<<>>) <= 1 /\ i \in Nat \ {0}
            BY <4>1, <4>3, EmptySeq
          <5> HIDE DEF i
          <5>2. Joined(i, <<>>) \in Seq(Digits) /\ Len(Joined(i, <<>>)) <= Len(otp) + Len(<<>>)
            BY <4>1, <5>1, JoinedSeq, Zenon
          <5>3. otp' \in Seq(Digits) /\ Len(otp') <= Len(otp) + 0
            BY <3>2, <4>3, <5>1, <5>2, Zenon
          <5> QED BY <3>1, <5>3
        <4> QED BY <4>2, <4>3
      <3>5. Len(otp') < OtpLength
        <4>1. Len(otp') \in Nat
          BY <3>4, LenProperties
        <4> QED BY <3>1, <3>4, <4>1
      <3>6. otp' = typed'
        <4>1. typed = otp /\ otp \in Seq(Digits) /\ i \in Nat
          BY <1>0, <3>1 DEF BoxesInv, BoxesType, TypedInOrder
        <4>2. typed' = Without(otp, i)
          BY <3>2, <4>1
        <4> HIDE DEF i
        <4>3. CASE i = 0
          <5>1. Without(otp, i) = otp
            BY <3>1, <4>3 DEF Without
          <5> QED BY <3>2, <4>2, <4>3, <5>1
        <4>4. CASE i # 0
          <5>1. i \in Nat \ {0}
            BY <4>1, <4>4
          <5>2. Joined(i, <<>>) = Without(otp, i)
            BY <4>1, <5>1, JoinedWithout
          <5> QED BY <3>2, <4>2, <4>4, <5>2
        <4> QED BY <4>3, <4>4
      <3>7. Len(otp') <= OtpLength /\ Len(otp') # OtpLength
        BY <3>1, <3>4, <3>5, LenProperties
      <3> QED BY <3>2, <3>3, <3>4, <3>6, <3>7
          DEF BoxesInv, BoxesType, TypedInOrder, ForgottenInv
    <2>3. ASSUME NEW s \in Pasted, Paste(s) PROVE BoxesInv'
      <3>1. s \in Seq(Digits) /\ Len(s) <= OtpLength
        BY PastedSeq
      <3>2. focus' \in 1..OtpLength
        BY <2>3, FocusType DEF Paste, BoxesInv
      <3>3. /\ otp' = s /\ typed' = s /\ verify.st = "idle"
            /\ verify' = IF Len(s) = OtpLength THEN Sent ELSE verify
        BY <2>3 DEF Paste, Complete, Enabled
      <3> QED BY <3>1, <3>2, <3>3 DEF BoxesInv, BoxesType, TypedInOrder, ForgottenInv, Sent
    <2>4. ASSUME NEW i \in 1..OtpLength, MoveFocus(i) PROVE BoxesInv'
      BY <2>4 DEF MoveFocus, BoxesInv, BoxesType, TypedInOrder, ForgottenInv
    <2> QED BY <1>1, <2>1, <2>2, <2>3, <2>4 DEF BoxesNext
  <1>2. CASE ServerNext
    <2>1. UNCHANGED boxes
      BY <1>2 DEF ServerNext, ServeLogin, OtherIssues, ServeVerify, ServeResend
    <2>2. verify'.mine = verify.mine /\ (verify'.st # "idle" <=> verify.st # "idle")
      BY <1>2 DEF ServerNext, ServeLogin, OtherIssues, ServeVerify, ServeResend, Answer
    <2> QED BY <1>a, <2>1, <2>2
  <1>3. CASE AnswerNext
    \* The submission comes to its end.
    <2>a. ASSUME verify'.st = "idle", verify.st # "idle",
                 IF verify.mine THEN EmptyBoxes ELSE UNCHANGED boxes
          PROVE  BoxesInv'
      <3>1. CASE verify.mine
        BY <1>0, <2>a, <3>1, EmptyBoxesInv DEF EmptyBoxes
      <3>2. CASE ~verify.mine
        <4>1. otp = <<>> /\ typed = <<>>
          BY <2>a, <3>2 DEF BoxesInv, ForgottenInv, TypedInOrder
        <4>2. otp' = <<>> /\ typed' = <<>> /\ focus' = focus
          BY <2>a, <3>2, <4>1 DEF boxes
        <4> QED BY <1>0, <4>2, EmptyBoxesInv
      <3> QED BY <3>1, <3>2
    <2>1. CASE LoginAnswered
      BY <1>0, <2>1, EmptyBoxesInv DEF LoginAnswered, Mount
    <2>2. CASE VerifyAnswered
      <3>1. CASE verify.st = "ok"
        BY <1>0, <2>2, <3>1, EmptyBoxesInv DEF VerifyAnswered, Unmount
      <3>2. CASE verify.st # "ok"
        BY <2>2, <2>a, <3>2 DEF VerifyAnswered, Idle
      <3> QED BY <3>1, <3>2
    <2>3. CASE VerifyLost
      BY <2>3, <2>a DEF VerifyLost, Idle
    <2>4. CASE NewCode /\ UNCHANGED <<open, login, verify, redis, calm>>
      <3>1. CASE resend.mine
        BY <1>0, <2>4, <3>1, EmptyBoxesInv DEF NewCode, EmptyBoxes
      <3>2. CASE ~resend.mine
        BY <1>a, <2>4, <3>2 DEF NewCode
      <3> QED BY <3>1, <3>2
    <2>5. CASE CoolingDown /\ UNCHANGED <<open, login, verify, redis, calm>>
      BY <1>a, <2>5 DEF CoolingDown
    <2>6. CASE NoData /\ UNCHANGED <<open, login, verify, redis, calm>>
      BY <1>a, <2>6 DEF NoData
    <2>7. CASE ResendLost
      BY <1>a, <2>7 DEF ResendLost
    <2> QED BY <1>3, <2>1, <2>2, <2>3, <2>4, <2>5, <2>6, <2>7 DEF AnswerNext
  <1>4. CASE PageNext
    <2>1. CASE Leave
      BY <1>0, <2>1, EmptyBoxesInv DEF Leave, Unmount
    <2>2. CASE Return
      BY <1>0, <2>2, EmptyBoxesInv DEF Return, Mount
    <2>3. CASE PressResend
      BY <1>a, <2>3 DEF PressResend
    <2> QED BY <1>4, <2>1, <2>2, <2>3 DEF PageNext
  <1>5. CASE TimeNext
    <2>1. UNCHANGED boxes
      BY <1>5 DEF TimeNext, Tick, TickExpiry, TickResend
    <2>2. verify'.mine = verify.mine /\ verify'.st = verify.st
      BY <1>5 DEF TimeNext, Tick, TickExpiry, TickResend, Older
    <2> QED BY <1>a, <2>1, <2>2
  <1>6. CASE UNCHANGED vars
    BY <1>6, <1>a DEF vars, boxes
  <1> QED BY <1>1, <1>2, <1>3, <1>4, <1>5, <1>6, NextCases

THEOREM BoxesInvariant == Spec => []BoxesInv
  BY BoxesInvInit, BoxesInvNext, PTL DEF Spec

\* OtpBoxes: typing, typing over, Backspace and paste leave the digits an editor of
\* one line would, and a complete code is being submitted, whatever is answered or
\* left in between.
THEOREM DigitsInOrder == Spec => []TypedInOrder
  <1>1. BoxesInv => TypedInOrder
    BY DEF BoxesInv
  <1> QED BY <1>1, BoxesInvariant, PTL

\* Type correctness of the page and its requests.
THEOREM VerifyPageTypeCorrect == Spec => []TypeOK
  <1>1. ClocksInv /\ BoxesInv => TypeOK
    BY TypeParts DEF ClocksInv, BoxesInv, TypedInOrder
  <1> QED BY <1>1, ClocksInvariant, BoxesInvariant, PTL
=============================================================================
