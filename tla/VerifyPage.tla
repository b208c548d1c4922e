----------------------------- MODULE VerifyPage -----------------------------
(***************************************************************************)
(* The page that asks for the code mailed to a new account: its six boxes,  *)
(* its two countdowns, and the requests behind them.                        *)
(*                                                                         *)
(* Times are kept as what is left of them, in ticks, some of which make a    *)
(* second: the page and TTL of Redis show whole seconds, the nearest ones.  *)
(* The page counts down to an expiry it computes from the answer, Redis     *)
(* from the moment it stored the code, and the resend button by an interval *)
(* of its own, which a tab in the background runs late.  Of Redis only the  *)
(* two expiry times matter here; Otp has the commands of issue_otp one by   *)
(* one.                                                                     *)
(***************************************************************************)
EXTENDS Integers, Sequences

CONSTANTS
    Digits,
    OtpLength,     \* OTP_LENGTH
    Second,        \* the ticks of a second
    Ttl,           \* OTP_TTL_SECONDS, in ticks
    Cooldown,      \* OTP_COOLDOWN_SECONDS, in ticks
    MaxAge,        \* bound: the ticks an answer is on its way
    None

ASSUME TimeAssumption ==
    /\ Second \in Nat \ {0}
    /\ Ttl \in Nat /\ Cooldown \in 1..(Ttl - 1) /\ MaxAge \in Nat
    /\ (Ttl % Second) = 0 /\ (Cooldown % Second) = 0
ASSUME LengthAssumption == OtpLength \in Nat \ {0}
ASSUME NoneAssumption == None \notin Nat /\ None \notin Seq(Digits)

VARIABLES
    pending,       \* pendingVerification: what is left to its expiresAt, or None
    open,          \* the page is mounted
    otp, focus,    \* what the boxes hold, from the first on, and the one in focus
    secondsLeft, resendCooldown,     \* whole seconds, in ticks
    expiryIn, resendIn,    \* when the page's two intervals are due
    login, verify, resend,   \* requests: where they are, and their answer
    codeLeft, coolLeft,      \* the keys otp: and otp_cooldown: in Redis
    verified,      \* users.verification_status
    typed,         \* history: what typing, erasing and pasting should have come to
    lag,           \* history: how long the answer behind pending was on its way
    counted,       \* history: this page knows of a resend and its cooldown
    calm           \* history: no code was issued that this page was not told of

boxes == <<otp, focus, typed>>
clocks == <<pending, secondsLeft, resendCooldown, expiryIn, resendIn, lag, counted>>
redis == <<codeLeft, coolLeft, verified>>
vars == <<pending, open, otp, focus, secondsLeft, resendCooldown, expiryIn, resendIn, login,
          verify, resend, codeLeft, coolLeft, verified, typed, lag, counted, calm>>

\* mine: asked for by the page as it is now mounted.
Request(answers) == [st : {"idle", "sent"} \cup answers, age : 0..MaxAge,
                     cooldown : 0..Cooldown, mine : BOOLEAN]
Idle == [st |-> "idle", age |-> 0, cooldown |-> 0, mine |-> FALSE]
Sent == [st |-> "sent", age |-> 0, cooldown |-> 0, mine |-> TRUE]
Answer(a, cooldown, mine) == [st |-> a, age |-> 0, cooldown |-> cooldown, mine |-> mine]

Less(n) == IF n = 0 THEN 0 ELSE n - 1

\* Math.round on the page and TTL in Redis: the nearest second, and a half goes up.
Rounded(n) ==
    LET r == n % Second IN IF 2 * r < Second THEN n - r ELSE n - r + Second

\* The boxes are disabled while a code is checked, and once the time is over.
Enabled == open /\ verify.st = "idle" /\ secondsLeft > 0

\* submitOtp, for as many digits as there are boxes.
Complete(s) == verify' = IF Len(s) = OtpLength THEN Sent ELSE verify

-----------------------------------------------------------------------------
(* Mutants: what a bug would make of the definitions below *)

\* setDigit that leaves the blanks of the boxes before in.
JoinedWithBlanks(i, x) ==
    IF i > Len(otp) THEN [j \in 1..i |-> IF j <= Len(otp) THEN otp[j]
                                          ELSE IF j = i /\ x # <<>> THEN x[1] ELSE None]
    ELSE SubSeq(otp, 1, i - 1) \o x \o SubSeq(otp, i + 1, Len(otp))

\* handleResend that resets resendLoading at the end of its try block.
EndResendLate == resend' = IF resend.st = "new" THEN Idle ELSE resend

\* handleResend that leaves the timer at rest when the server is cooling down.
CoolingDownForgotten ==
    /\ resend.st = "cooling"
    /\ counted' = (counted \/ resend.mine)
    /\ resend' = Idle
    /\ UNCHANGED <<pending, secondsLeft, resendCooldown, expiryIn, resendIn, lag, boxes>>

\* get_cooldown_remaining that hands on what TTL says of no key, -2.
CooldownUnguarded ==
    /\ resend.st = "sent"
    /\ resend' = Answer("cooling", IF coolLeft = 0 THEN -2 ELSE Rounded(coolLeft), resend.mine)
    /\ UNCHANGED <<open, boxes, clocks, login, verify, redis, calm>>

-----------------------------------------------------------------------------
(* OtpBoxes *)

\* digits with x, a digit or nothing, put into box i: blanks are left out.
Joined(i, x) ==
    IF i > Len(otp) THEN otp \o x
    ELSE SubSeq(otp, 1, i - 1) \o x \o SubSeq(otp, i + 1, Len(otp))

Focus(i) == focus' = IF i \in 1..OtpLength THEN i ELSE focus

\* The history, as an editor of one line would have it: a digit goes where the
\* focus is, or to the end; Backspace takes the digit under the focus or, from an
\* empty box, the one before it.
Put(s, i, d) == IF i > Len(s) THEN Append(s, d) ELSE [s EXCEPT ![i] = d]

Without(s, i) ==
    IF i \in 1..Len(s) THEN [j \in 1..(Len(s) - 1) |-> IF j < i THEN s[j] ELSE s[j + 1]]
    ELSE s

\* handleChange and setDigit.  Over a box that is filled a digit is typed when
\* its content is selected.
TypeDigit(d) ==
    /\ Enabled
    /\ otp' = Joined(focus, <<d>>)
    /\ typed' = Put(typed, focus, d)
    /\ Complete(otp')
    /\ Focus(focus + 1)
    /\ UNCHANGED <<open, clocks, login, resend, redis, calm>>

\* handleKeyDown: an empty box hands Backspace on to the one before it.
Backspace ==
    /\ Enabled
    /\ LET i == IF focus > Len(otp) THEN focus - 1 ELSE focus IN
         /\ otp' = IF i = 0 THEN otp ELSE Joined(i, <<>>)
         /\ Focus(i)
    /\ typed' = Without(typed, IF focus > Len(typed) THEN focus - 1 ELSE focus)
    /\ UNCHANGED <<open, clocks, login, verify, resend, redis, calm>>

\* The arrows, Tab, and clicks.
MoveFocus(i) ==
    /\ Enabled
    /\ focus' = i
    /\ UNCHANGED <<open, otp, typed, clocks, login, verify, resend, redis, calm>>

\* handlePaste
Paste(s) ==
    /\ Enabled
    /\ otp' = s
    /\ typed' = s
    /\ Complete(s)
    /\ Focus(IF Len(s) = OtpLength THEN OtpLength ELSE Len(s) + 1)
    /\ UNCHANGED <<open, clocks, login, resend, redis, calm>>

EmptyBoxes == otp' = <<>> /\ typed' = <<>> /\ UNCHANGED focus

-----------------------------------------------------------------------------
(* The server *)

\* issue_otp, in a handler that mails the code.
IssueOtp ==
    IF coolLeft > 0 THEN UNCHANGED <<codeLeft, coolLeft>>
    ELSE codeLeft' = Ttl /\ coolLeft' = Cooldown

ServeLogin ==
    /\ ~open /\ login.st = "idle" /\ ~verified
    /\ IssueOtp
    /\ login' = Answer("challenge", 0, TRUE)
    /\ UNCHANGED <<open, boxes, clocks, verify, resend, verified, calm>>

\* A login elsewhere.
OtherIssues ==
    /\ ~verified /\ coolLeft = 0
    /\ IssueOtp
    /\ calm' = FALSE
    /\ UNCHANGED <<open, boxes, clocks, login, verify, resend, verified>>

\* A code can be right as long as Redis has it.
ServeVerify ==
    /\ verify.st = "sent"
    /\ \/ /\ codeLeft > 0
          /\ verified' = TRUE /\ codeLeft' = 0
          /\ verify' = Answer("ok", 0, verify.mine)
       \/ /\ verify' = Answer("wrong", 0, verify.mine)
          /\ UNCHANGED <<verified, codeLeft>>
    /\ UNCHANGED <<open, boxes, clocks, login, resend, coolLeft, calm>>

\* In its last moments the cooldown reads as over, and then issue_otp returns None
\* and the answer is that of a new code.
ServeResend ==
    /\ resend.st = "sent"
    /\ \/ /\ verified
          /\ resend' = Answer("generic", 0, resend.mine)
          /\ UNCHANGED <<codeLeft, coolLeft>>
       \/ /\ ~verified /\ Rounded(coolLeft) > 0
          /\ resend' = Answer("cooling", Rounded(coolLeft), resend.mine)
          /\ UNCHANGED <<codeLeft, coolLeft>>
       \/ /\ ~verified /\ Rounded(coolLeft) = 0
          /\ resend' = Answer("new", 0, resend.mine)
          /\ IssueOtp
    /\ UNCHANGED <<open, boxes, clocks, login, verify, verified, calm>>

-----------------------------------------------------------------------------
(* The page *)

\* setPendingVerification with a fresh expiry: the effect of the page ticks once
\* and sets its interval again.
Expire(age) ==
    /\ pending' = Ttl
    /\ secondsLeft' = Rounded(Ttl) /\ expiryIn' = Second
    /\ lag' = age

Unmount ==
    /\ open' = FALSE
    /\ otp' = <<>> /\ typed' = <<>> /\ focus' = 1
    /\ secondsLeft' = 0 /\ resendCooldown' = 0 /\ counted' = FALSE
    /\ expiryIn' = Second /\ resendIn' = Second

Mount ==
    /\ open' = TRUE
    /\ otp' = <<>> /\ typed' = <<>> /\ focus' = 1
    /\ resendCooldown' = 0 /\ counted' = FALSE
    /\ resendIn' = Second

\* What the page before this one has asked for is answered to nobody.
Forget(q) == [st |-> q.st, age |-> q.age, cooldown |-> q.cooldown, mine |-> FALSE]

\* attemptLogin: USER_NOT_VERIFIED
LoginAnswered ==
    /\ login.st = "challenge" /\ ~open
    /\ login' = Idle
    /\ Mount
    /\ Expire(login.age)
    /\ UNCHANGED <<verify, resend, redis, calm>>

\* The user leaves the page, and comes back if no login or submission waits.
Leave ==
    /\ open
    /\ Unmount
    /\ verify' = Forget(verify) /\ resend' = Forget(resend)
    /\ UNCHANGED <<pending, lag, login, redis, calm>>

Return ==
    /\ ~open /\ pending # None /\ login.st = "idle" /\ verify.st = "idle"
    /\ Mount
    /\ secondsLeft' = Rounded(pending) /\ expiryIn' = Second
    /\ UNCHANGED <<pending, lag, login, verify, resend, redis, calm>>

\* submitOtp: the answer of the server.
VerifyAnswered ==
    /\ verify.st \in {"ok", "wrong"}
    /\ verify' = Idle
    /\ IF verify.st = "ok"
       THEN pending' = None /\ Unmount /\ resend' = Forget(resend)
       ELSE /\ UNCHANGED <<pending, open, expiryIn, resendIn, secondsLeft, resendCooldown,
                            counted, resend>>
            /\ IF verify.mine THEN EmptyBoxes ELSE UNCHANGED boxes
    /\ UNCHANGED <<lag, login, redis, calm>>

\* It does not arrive, and perhaps the request did not.
VerifyLost ==
    /\ verify.st # "idle"
    /\ verify' = Idle
    /\ IF verify.mine THEN EmptyBoxes ELSE UNCHANGED boxes
    /\ UNCHANGED <<open, clocks, login, resend, redis, calm>>

\* handleResend.  Bound: a request of the page as it was before is waited for.
PressResend ==
    /\ open /\ resendCooldown = 0 /\ resend.st = "idle"
    /\ resend' = Sent
    /\ UNCHANGED <<open, boxes, clocks, login, verify, redis, calm>>

EndResend == resend' = Idle

NewCode ==
    /\ resend.st = "new"
    /\ Expire(resend.age)
    /\ IF resend.mine
       THEN resendCooldown' = Cooldown /\ counted' = TRUE /\ EmptyBoxes
       ELSE UNCHANGED <<resendCooldown, counted, boxes>>
    /\ EndResend
    /\ UNCHANGED resendIn

\* OTP_COOLDOWN
CoolingDown ==
    /\ resend.st = "cooling"
    /\ resendCooldown' = IF resend.mine THEN resend.cooldown ELSE resendCooldown
    /\ counted' = (counted \/ resend.mine)
    /\ EndResend
    /\ UNCHANGED <<pending, secondsLeft, expiryIn, resendIn, lag, boxes>>

\* The answer has no data: the page shows a TypeError, as it shows other errors.
NoData ==
    /\ resend.st = "generic"
    /\ EndResend
    /\ UNCHANGED <<clocks, boxes>>

ResendAnswered ==
    /\ NewCode \/ CoolingDown \/ NoData
    /\ UNCHANGED <<open, login, verify, redis, calm>>

ResendLost ==
    /\ resend.st # "idle"
    /\ EndResend
    /\ calm' = (calm /\ resend.st # "new")
    /\ UNCHANGED <<open, boxes, clocks, login, verify, redis>>

-----------------------------------------------------------------------------
(* Time *)

Older(q) == IF q.st \in {"idle", "sent"} THEN q
            ELSE [st |-> q.st, age |-> q.age + 1, cooldown |-> q.cooldown, mine |-> q.mine]

Tick ==
    /\ \A q \in {login, verify, resend} : q.age < MaxAge
    /\ codeLeft' = Less(codeLeft) /\ coolLeft' = Less(coolLeft)
    /\ pending' = IF pending = None THEN None ELSE Less(pending)
    /\ login' = Older(login) /\ verify' = Older(verify) /\ resend' = Older(resend)
    /\ expiryIn' = IF open THEN Less(expiryIn) ELSE expiryIn
    /\ resendIn' = IF open /\ resendCooldown > 0 THEN Less(resendIn) ELSE resendIn
    /\ UNCHANGED <<open, boxes, secondsLeft, resendCooldown, lag, counted, verified, calm>>

\* An interval that is due fires at once or late, and the next one is a second
\* after it.  That of the expiry looks at the clock.
TickExpiry ==
    /\ open /\ expiryIn = 0
    /\ expiryIn' = Second
    /\ secondsLeft' = Rounded(pending)
    /\ UNCHANGED <<pending, open, resendCooldown, resendIn, lag, counted, boxes, login, verify,
                   resend, redis, calm>>

\* That of the button counts its own calls.
TickResend ==
    /\ open /\ resendIn = 0
    /\ resendIn' = Second
    /\ resendCooldown' = IF resendCooldown < Second THEN 0 ELSE resendCooldown - Second
    /\ UNCHANGED <<pending, open, secondsLeft, expiryIn, lag, counted, boxes, login, verify,
                   resend, redis, calm>>

-----------------------------------------------------------------------------

Init ==
    /\ pending = None /\ open = FALSE
    /\ otp = <<>> /\ focus = 1 /\ typed = <<>>
    /\ secondsLeft = 0 /\ resendCooldown = 0 /\ lag = 0 /\ counted = FALSE
    /\ expiryIn = Second /\ resendIn = Second
    /\ login = Idle /\ verify = Idle /\ resend = Idle
    /\ codeLeft = 0 /\ coolLeft = 0 /\ verified = FALSE /\ calm = TRUE

Pasted == UNION {[1..n -> Digits] : n \in 1..OtpLength}

Next ==
    \/ (\E d \in Digits : TypeDigit(d)) \/ Backspace \/ (\E s \in Pasted : Paste(s))
    \/ \E i \in 1..OtpLength : MoveFocus(i)
    \/ ServeLogin \/ OtherIssues \/ ServeVerify \/ ServeResend
    \/ LoginAnswered \/ Leave \/ Return \/ VerifyAnswered \/ VerifyLost
    \/ PressResend \/ ResendAnswered \/ ResendLost
    \/ Tick \/ TickExpiry \/ TickResend

\* The clock runs, intervals fire in the end, and a fetch is answered or fails.
Fairness ==
    /\ WF_vars(Tick) /\ WF_vars(TickResend)
    /\ WF_vars(LoginAnswered)
    /\ WF_vars(ServeVerify) /\ WF_vars(VerifyAnswered)
    /\ WF_vars(ServeResend) /\ WF_vars(ResendAnswered)

Spec == Init /\ [][Next]_vars /\ Fairness

-----------------------------------------------------------------------------
(* Properties *)

TypeOK ==
    /\ pending \in 0..Ttl \cup {None}
    /\ open \in BOOLEAN /\ (open => pending # None)
    /\ otp \in {<<>>} \cup Pasted /\ focus \in 1..OtpLength
    /\ secondsLeft \in 0..Ttl /\ resendCooldown \in 0..Cooldown
    /\ expiryIn \in 0..Second /\ resendIn \in 0..Second
    /\ login \in Request({"challenge"}) /\ verify \in Request({"ok", "wrong"})
    /\ resend \in Request({"new", "cooling", "generic"})
    /\ codeLeft \in 0..Ttl /\ coolLeft \in 0..Cooldown /\ verified \in BOOLEAN
    /\ typed \in {<<>>} \cup Pasted
    /\ lag \in 0..MaxAge /\ counted \in BOOLEAN /\ calm \in BOOLEAN

\* Digits typed, typed over, erased and pasted leave the code an editor of one line
\* would, in whichever box each was entered: no blank box comes between two of them,
\* and none overtakes another.  A complete code is on its way: the Verify button is
\* never needed, nor ever enabled.
TypedInOrder ==
    /\ otp = typed
    /\ Len(otp) = OtpLength => verify.st # "idle"

\* The countdown outlives the code by no more than the cooldown, within which a
\* login or a resend is answered as if it had issued a new code, and the time the
\* answer took.  It ends less than half a second before a code the page was told
\* of, which is what rounding takes, and while its interval is in time it shows
\* no more than half a second and the time since it fired too much.
\* The button counts to less than half a second before the cooldown ends, and when
\* it is enabled the server does not answer that it is cooling down.
ClocksHonest ==
    /\ open /\ ~verified => pending <= codeLeft + Cooldown + lag
    /\ open => 2 * (pending - secondsLeft) < Second
    /\ open /\ expiryIn > 0 => 2 * (secondsLeft - pending) <= Second + 2 * (Second - expiryIn)
    /\ open /\ calm /\ resend.st # "new" => codeLeft <= pending
    /\ open /\ calm /\ resend.st # "new" /\ counted =>
         /\ 2 * (coolLeft - resendCooldown) < Second
         /\ resendCooldown = 0 => Rounded(coolLeft) = 0

\* Whatever the server answers, and if it does not answer, the button comes back.
ResendReturns ==
    open /\ resend.st # "idle" ~> ~open \/ (resend.st = "idle" /\ resendCooldown = 0)
=============================================================================
