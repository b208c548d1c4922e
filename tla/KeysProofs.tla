----------------------------- MODULE KeysProofs -----------------------------
(***************************************************************************)
(* Theorems about Keys, for any number of passwords, hints, requests,      *)
(* logins and bodies.                                                      *)
(***************************************************************************)
EXTENDS Keys, TLAPS

\* The steps that leave every request and every login alone, those of one
\* request, and those of one login.
FormNext ==
    \/ \E f \in {"password", "confirm"}, w \in Word : Type(f, w)
    \/ SubmitSignup \/ CreateUser \/ SignupFails

RequestNext(r) == (\E b \in Bodies : LoadUser(r, b)) \/ Handle(r) \/ RequestDies(r)

LoginNext(c) == (\E p \in Passwords : CheckLogin(c, p) \/ Unlock(c, p)) \/ OpenVault(c)

LEMMA NextCases ==
    ASSUME [Next]_vars
    PROVE  \/ FormNext
           \/ \E r \in Requests : RequestNext(r)
           \/ \E c \in Logins : LoginNext(c)
           \/ UNCHANGED vars
  BY DEF Next, FormNext, RequestNext, LoginNext

-----------------------------------------------------------------------------
(* Types *)

\* The record of a request that ended keeps its body and its row.
LEMMA EndedType ==
    ASSUME NEW r \in Requests, req \in [Requests -> Request],
           req[r].st \in {"loaded", "locked"}, Ended(r)
    PROVE  req' \in [Requests -> Request]
  <1>1. req[r].body \in Bodies /\ req[r].seen \in Row
    BY DEF Request, NewRequest
  <1>2. [st |-> "done", body |-> req[r].body, seen |-> req[r].seen] \in Request
    BY <1>1 DEF Request
  <1> QED BY <1>2 DEF Ended

\* The fields of a body that some request carries.
LEMMA BodyFields ==
    ASSUME NEW r \in Requests, req \in [Requests -> Request],
           req[r].st \in {"loaded", "locked"}
    PROVE  /\ req[r].body \in Bodies /\ req[r].seen \in Row
           /\ req[r].body.current \in Word \cup {None}
           /\ req[r].body.new \in Word \cup {None}
           /\ req[r].body.key \in {"wrapped", Empty, None}
           /\ req[r].body.iv \in {"wrapped", Empty, None}
           /\ req[r].body.two \in BOOLEAN \cup {None}
           /\ req[r].body.hint \in Hints \cup {None}
  <1>1. req[r].body \in Bodies /\ req[r].seen \in Row
    BY DEF Request, NewRequest
  <1>2. req[r].body \in Body
    BY <1>1, NoneAssumption
  <1> QED BY <1>1, <1>2 DEF Body

LEMMA SettingsType ==
    ASSUME NEW r \in Requests, TypeOK, req[r].st \in {"loaded", "locked"},
           CommitSettings(r)
    PROVE  two' \in BOOLEAN /\ hint' \in Hints \cup {None}
  BY BodyFields DEF CommitSettings, Changes2fa, NewHint, TypeOK

LEMMA TypeInit == Init => TypeOK
  <1>1. NewRequest \in Request
    BY DEF Request
  <1>2. NoLogin \in Login
    BY DEF Login, NoLogin
  <1>3. Init => form \in [password : Word, confirm : Word, sent : Passwords \cup {None}]
    BY DEF Init, NewForm, Word
  <1>4. Init => req \in [Requests -> Request] /\ login \in [Logins -> Login]
    BY <1>1, <1>2 DEF Init
  <1> QED BY <1>3, <1>4 DEF Init, TypeOK

\* What is known of a request under way: it passed the validator, and one that
\* holds the lock has a new password.  Without it the type is not inductive: the
\* vault key would be wrapped with no password.
RequestInv ==
    \A r \in Requests :
        /\ req[r].st \in {"loaded", "locked"} => Accepted(req[r].body) /\ hash # None
        /\ req[r].st = "locked" => req[r].body.new # None

LEMMA TypeNext == TypeOK /\ RequestInv /\ [Next]_vars => TypeOK'
  <1> SUFFICES ASSUME TypeOK, RequestInv, [Next]_vars PROVE TypeOK'
    OBVIOUS
  <1>1. CASE FormNext
    <2>1. ASSUME NEW f \in {"password", "confirm"}, NEW w \in Word, Type(f, w)
          PROVE  TypeOK'
      BY <2>1 DEF Type, TypeOK, account
    <2>2. CASE SubmitSignup
      BY <2>2 DEF SubmitSignup, CanSubmit, TypeOK, account
    <2>3. CASE CreateUser
      BY <2>3 DEF CreateUser, TypeOK, NewForm, Word, Wrap
    <2>4. CASE SignupFails
      BY <2>4 DEF SignupFails, TypeOK, account
    <2> QED BY <1>1, <2>1, <2>2, <2>3, <2>4 DEF FormNext
  <1>2. ASSUME NEW r \in Requests, RequestNext(r) PROVE TypeOK'
    <2>1. ASSUME NEW b \in Bodies, LoadUser(r, b) PROVE TypeOK'
      <3>1. [st |-> "loaded", body |-> b,
             seen |-> [hash |-> hash, two |-> two, hint |-> hint]] \in Request
        BY <2>1 DEF LoadUser, TypeOK, Request, Row
      <3> QED BY <2>1, <3>1 DEF LoadUser, TypeOK, account
    <2>2. CASE Refuse(r)
      BY <2>2, EndedType DEF Refuse, TypeOK, account
    <2>3. CASE LockRow(r)
      <3>1. [st |-> "locked", body |-> req[r].body, seen |-> req[r].seen] \in Request
        BY <2>3, BodyFields DEF LockRow, TypeOK, Request
      <3> QED BY <2>3, <3>1 DEF LockRow, TypeOK, account
    <2>4. CASE FailAssertion(r)
      BY <2>4, EndedType DEF FailAssertion, TypeOK, account
    <2>5. CASE CommitPassword(r)
      <3>1. req' \in [Requests -> Request] /\ two' \in BOOLEAN /\ hint' \in Hints \cup {None}
        BY <2>5, EndedType, SettingsType DEF CommitPassword, CommitSettings, TypeOK
      <3>2. req[r].body.new \in Word
        BY <2>5, BodyFields DEF CommitPassword, TypeOK, RequestInv
      <3>3. hash' \in Word \cup {None}
        BY <2>5, <3>2 DEF CommitPassword
      <3>4. /\ key' \in (Word \X (Requests \cup {Signup})) \cup {Empty, None}
            /\ iv' \in Requests \cup {Signup, Empty, None}
        BY <2>5, <3>2, BodyFields DEF CommitPassword, TypeOK, Wrap
      <3>5. login' \in [Logins -> Login]
        BY <2>5 DEF CommitPassword, TypeOK, Login
      <3> QED BY <2>5, <3>1, <3>3, <3>4, <3>5 DEF CommitPassword, TypeOK
    <2>6. CASE CommitOthers(r)
      <3>1. req' \in [Requests -> Request] /\ two' \in BOOLEAN /\ hint' \in Hints \cup {None}
        BY <2>6, EndedType, SettingsType DEF CommitOthers, CommitSettings, TypeOK
      <3> QED BY <2>6, <3>1 DEF CommitOthers, TypeOK
    <2>7. CASE RequestDies(r)
      BY <2>7, EndedType DEF RequestDies, TypeOK, account
    <2> QED BY <1>2, <2>1, <2>2, <2>3, <2>4, <2>5, <2>6, <2>7 DEF RequestNext, Handle
  <1>3. ASSUME NEW c \in Logins, LoginNext(c) PROVE TypeOK'
    <2>1. ASSUME NEW p \in Passwords, CheckLogin(c, p) \/ Unlock(c, p) PROVE TypeOK'
      <3>1. PICK b \in BOOLEAN :
              login' = [login EXCEPT ![c] =
                         [st |-> "typed", password |-> p, checked |-> b, stale |-> FALSE]]
        BY <2>1 DEF CheckLogin, Unlock
      <3>2. login' \in [Logins -> Login]
        BY <3>1 DEF TypeOK, Login, Word
      <3> QED BY <2>1, <3>2 DEF CheckLogin, Unlock, TypeOK, account
    <2>2. CASE OpenVault(c)
      <3>1. PICK st \in {"open", "shut"} :
              login' = [login EXCEPT ![c] = [st |-> st, password |-> login[c].password,
                          checked |-> login[c].checked, stale |-> login[c].stale]]
        BY <2>2 DEF OpenVault, TypeOK
      <3>2. login' \in [Logins -> Login]
        BY <3>1 DEF TypeOK, Login
      <3> QED BY <2>2, <3>2 DEF OpenVault, TypeOK, account
    <2> QED BY <1>3, <2>1, <2>2 DEF LoginNext
  <1>4. CASE UNCHANGED vars
    BY <1>4 DEF vars, TypeOK
  <1> QED BY <1>1, <1>2, <1>3, <1>4, NextCases

LEMMA RequestInvNext == TypeOK /\ RequestInv /\ [Next]_vars => RequestInv'
  <1> SUFFICES ASSUME TypeOK, RequestInv, [Next]_vars, NEW q \in Requests
               PROVE  /\ req'[q].st \in {"loaded", "locked"} => Accepted(req'[q].body) /\ hash' # None
                      /\ req'[q].st = "locked" => req'[q].body.new # None
    BY DEF RequestInv, Accepted, Truthy
  <1> USE DEF RequestInv, TypeOK
  <1>1. CASE FormNext
    <2>1. UNCHANGED req /\ (hash # None => hash' # None)
      BY <1>1, NoneAssumption
      DEF FormNext, Type, SubmitSignup, CreateUser, SignupFails, account, Word
    <2> QED BY <2>1
  <1>2. ASSUME NEW r \in Requests, RequestNext(r)
        PROVE  /\ req'[q].st \in {"loaded", "locked"} => Accepted(req'[q].body) /\ hash' # None
               /\ req'[q].st = "locked" => req'[q].body.new # None
    <2>1. CASE \E b \in Bodies : LoadUser(r, b)
      <3>1. PICK b \in Bodies : LoadUser(r, b)
        BY <2>1
      <3> QED BY <3>1 DEF LoadUser, account
    <2>2. CASE LockRow(r)
      BY <2>2 DEF LockRow, account
    <2>3. CASE Refuse(r) \/ FailAssertion(r) \/ RequestDies(r)
      BY <2>3 DEF Refuse, FailAssertion, RequestDies, Ended, account
    <2>4. CASE CommitOthers(r)
      BY <2>4 DEF CommitOthers, CommitSettings, Ended
    <2>5. CASE CommitPassword(r)
      <3>1. hash' # None
        BY <2>5 DEF CommitPassword
      <3>2. Ended(r)
        BY <2>5 DEF CommitPassword, CommitSettings
      <3> QED BY <3>1, <3>2 DEF Ended
    <2> QED BY <1>2, <2>1, <2>2, <2>3, <2>4, <2>5 DEF RequestNext, Handle
  <1>3. ASSUME NEW c \in Logins, LoginNext(c) PROVE UNCHANGED <<req, hash>>
    BY <1>3 DEF LoginNext, CheckLogin, Unlock, OpenVault, account
  <1>4. CASE UNCHANGED vars
    BY <1>4 DEF vars
  <1> QED BY <1>1, <1>2, <1>3, <1>4, NextCases

-----------------------------------------------------------------------------
(* The password and the vault key *)

\* Once there is an account no signup is under way, and a login that is checked
\* and not overtaken by a change holds the present password.
LoginInv ==
    /\ hash # None => form.sent = None
    /\ \A c \in Logins : login[c].st = "typed" /\ login[c].checked /\ ~login[c].stale
                        => login[c].password = hash /\ hash \in Passwords

KeysInv == TypeOK /\ RequestInv /\ LoginInv /\ PasswordUnlocksVault /\ LoginOpensVault

LEMMA KeysInvInit == Init => KeysInv
  BY TypeInit
  DEF Init, KeysInv, RequestInv, LoginInv, PasswordUnlocksVault, LoginOpensVault,
      NewForm, NewRequest, NoLogin, Truthy

\* A new password that is not empty comes with a key and an IV of its own.
LEMMA AcceptedPair ==
    ASSUME NEW r \in Requests, TypeOK, RequestInv, CommitPassword(r), Truthy(hash')
    PROVE  key' = Wrap(hash', r) /\ iv' = r
  <1>1. /\ req[r].st = "locked" /\ hash' = req[r].body.new
        /\ key' = IF req[r].body.key = "wrapped" THEN Wrap(req[r].body.new, r) ELSE req[r].body.key
        /\ iv' = IF req[r].body.iv = "wrapped" THEN r ELSE req[r].body.iv
    BY DEF CommitPassword
  <1>2. Truthy(req[r].body.key) /\ Truthy(req[r].body.iv)
    BY <1>1 DEF RequestInv, Accepted
  <1>3. req[r].body.key = "wrapped" /\ req[r].body.iv = "wrapped"
    BY <1>1, <1>2, BodyFields DEF TypeOK, Truthy
  <1> QED BY <1>1, <1>3

LEMMA KeysInvNext == KeysInv /\ [Next]_vars => KeysInv'
  <1> SUFFICES ASSUME KeysInv, [Next]_vars
               PROVE  LoginInv' /\ PasswordUnlocksVault' /\ LoginOpensVault'
    BY TypeNext, RequestInvNext DEF KeysInv
  <1> USE DEF KeysInv
  <1>1. CASE FormNext
    <2>1. CASE CreateUser
      <3>1. /\ hash' \in Passwords /\ key' = Wrap(hash', Signup) /\ iv' = Signup
            /\ form'.sent = None /\ login' = login
        BY <2>1, NoneAssumption DEF CreateUser, TypeOK, NewForm
      <3>2. \A c \in Logins : ~(login[c].st = "typed" /\ login[c].checked /\ ~login[c].stale)
        BY <2>1, NoneAssumption DEF CreateUser, LoginInv, Word
      <3> QED BY <3>1, <3>2 DEF LoginInv, PasswordUnlocksVault, LoginOpensVault, Unwraps
    <2>2. CASE SubmitSignup \/ SignupFails \/ \E f \in {"password", "confirm"}, w \in Word : Type(f, w)
      <3>1. UNCHANGED <<hash, key, iv, login>>
        BY <2>2 DEF SubmitSignup, SignupFails, Type, account
      <3>2. hash # None => form'.sent = None
        BY <2>2 DEF SubmitSignup, SignupFails, Type, LoginInv, TypeOK
      <3> QED BY <3>1, <3>2
          DEF LoginInv, PasswordUnlocksVault, LoginOpensVault, Unwraps, Truthy
    <2> QED BY <1>1, <2>1, <2>2 DEF FormNext
  <1>2. ASSUME NEW r \in Requests, RequestNext(r)
        PROVE  LoginInv' /\ PasswordUnlocksVault' /\ LoginOpensVault'
    <2>1. CASE CommitPassword(r)
      <3>1. PasswordUnlocksVault'
        BY <2>1, AcceptedPair DEF PasswordUnlocksVault, Unwraps, Truthy
      <3>2. /\ form' = form /\ hash # None
            /\ \A c \in Logins : login'[c].stale
        BY <2>1 DEF CommitPassword, RequestInv
      <3>3. LoginInv' /\ LoginOpensVault'
        BY <3>2 DEF LoginInv, LoginOpensVault
      <3> QED BY <3>1, <3>3
    <2>2. CASE ~CommitPassword(r)
      <3>1. UNCHANGED <<form, hash, key, iv, login>>
        BY <1>2, <2>2
        DEF RequestNext, Handle, LoadUser, Refuse, LockRow, FailAssertion, CommitOthers,
            RequestDies, account
      <3> QED BY <3>1 DEF LoginInv, PasswordUnlocksVault, LoginOpensVault, Unwraps, Truthy
    <2> QED BY <2>1, <2>2
  <1>3. ASSUME NEW c \in Logins, LoginNext(c)
        PROVE  LoginInv' /\ PasswordUnlocksVault' /\ LoginOpensVault'
    <2>1. UNCHANGED <<form, hash, key, iv>>
      BY <1>3 DEF LoginNext, CheckLogin, Unlock, OpenVault, account
    <2>2. PasswordUnlocksVault'
      BY <2>1 DEF PasswordUnlocksVault, Unwraps, Truthy
    <2>3. ASSUME NEW p \in Passwords, CheckLogin(c, p) \/ Unlock(c, p)
          PROVE  LoginInv' /\ LoginOpensVault'
      <3>1. PICK b \in BOOLEAN :
              /\ login' = [login EXCEPT ![c] =
                             [st |-> "typed", password |-> p, checked |-> b, stale |-> FALSE]]
              /\ b => p = hash
        BY <2>3 DEF CheckLogin, Unlock, Verifies
      <3> QED BY <2>1, <3>1 DEF LoginInv, LoginOpensVault, TypeOK
    <2>4. CASE OpenVault(c)
      <3>1. PICK st \in {"open", "shut"} :
              /\ login' = [login EXCEPT ![c] = [st |-> st, password |-> login[c].password,
                             checked |-> login[c].checked, stale |-> login[c].stale]]
              /\ st = "shut" => ~Unwraps(key, iv, login[c].password)
        BY <2>4 DEF OpenVault, TypeOK
      <3>2. st = "shut" /\ login[c].checked => login[c].stale
        <4>1. SUFFICES ASSUME login[c].checked, ~login[c].stale
                       PROVE  Unwraps(key, iv, login[c].password)
          BY <3>1
        <4>2. login[c].password = hash /\ hash \in Passwords
          BY <2>4, <4>1 DEF OpenVault, LoginInv
        <4>3. Truthy(hash)
          BY <4>2, NoneAssumption DEF Truthy, Word
        <4> QED BY <4>2, <4>3 DEF PasswordUnlocksVault
      <3>3. \A d \in Logins : login'[d] = IF d = c THEN
              [st |-> st, password |-> login[c].password,
               checked |-> login[c].checked, stale |-> login[c].stale] ELSE login[d]
        BY <3>1 DEF TypeOK
      <3>4. LoginInv'
        BY <2>1, <3>3 DEF LoginInv
      <3>5. LoginOpensVault'
        BY <3>2, <3>3 DEF LoginOpensVault
      <3> QED BY <2>2, <3>4, <3>5
    <2> QED BY <1>3, <2>2, <2>3, <2>4 DEF LoginNext
  <1>4. CASE UNCHANGED vars
    BY <1>4 DEF vars, LoginInv, PasswordUnlocksVault, LoginOpensVault, Unwraps, Truthy
  <1> QED BY <1>1, <1>2, <1>3, <1>4, NextCases

\* The invariant holds in every reachable state.
THEOREM KeysInvariant == Spec => []KeysInv
  BY KeysInvInit, KeysInvNext, PTL DEF Spec

\* Type correctness: no request ever stores a vault key wrapped with no password.
THEOREM KeysTypeCorrect == Spec => []TypeOK
  <1>1. KeysInv => TypeOK
    BY DEF KeysInv
  <1> QED BY <1>1, KeysInvariant, PTL

\* update_me and create_user: the stored vault key opens with the password the
\* server accepts.
THEOREM PasswordOpens == Spec => []PasswordUnlocksVault
  <1>1. KeysInv => PasswordUnlocksVault
    BY DEF KeysInv
  <1> QED BY <1>1, KeysInvariant, PTL

\* LoginForm: a checked login that no password change overtook opens the vault.
THEOREM CheckedLoginOpens == Spec => []LoginOpensVault
  <1>1. KeysInv => LoginOpensVault
    BY DEF KeysInv
  <1> QED BY <1>1, KeysInvariant, PTL

-----------------------------------------------------------------------------
(* Keys implements AccountSettings *)

\* A password that is stored and not empty is the one the vault key opens with.
LEMMA OpensIsHash == TypeOK /\ PasswordUnlocksVault => Opens = hash
  <1> SUFFICES ASSUME TypeOK, PasswordUnlocksVault, hash \notin {None, Empty}
               PROVE  Opens = hash
    BY DEF Opens
  <1>1. hash \in Passwords /\ key = <<hash, iv>>
    BY DEF TypeOK, PasswordUnlocksVault, Truthy, Unwraps, Wrap, Word
  <1>2. \A p \in Passwords : Unwraps(key, iv, p) <=> p = hash
    BY <1>1 DEF Unwraps, Wrap
  <1> QED BY <1>1, <1>2 DEF Opens

OpensHash == Opens = hash

LEMMA OpensHashBoth == (KeysInv => OpensHash) /\ (KeysInv' => OpensHash')
  <1>1. KeysInv => OpensHash
    BY OpensIsHash DEF KeysInv, OpensHash
  <1> QED BY <1>1, PTL

LEMMA SettingsInit == Init => Settings!Init
  BY DEF Init, Settings!Init, Opens, Asked, NewRequest

\* Asked changes with the record of a request, and with nothing else.
AskedAt(r) ==
    IF req[r].st \in {"loaded", "locked"}
    THEN [new |-> req[r].body.new, two |-> req[r].body.two, hint |-> req[r].body.hint,
          hadTwo |-> req[r].seen.two, hadHint |-> req[r].seen.hint]
    ELSE None

LEMMA AskedChanges ==
    ASSUME NEW r \in Requests, \A q \in Requests \ {r} : req'[q] = req[q]
    PROVE  Asked' = [Asked EXCEPT ![r] = AskedAt(r)']
  <1>1. /\ Asked = [q \in Requests |-> AskedAt(q)]
        /\ Asked' = [q \in Requests |-> AskedAt(q)']
    BY DEF Asked, AskedAt
  <1>2. \A q \in Requests \ {r} : AskedAt(q)' = AskedAt(q)
    BY DEF AskedAt
  <1> HIDE DEF AskedAt
  <1> QED BY <1>1, <1>2

LEMMA Closed ==
    ASSUME NEW r \in Requests, TypeOK, Ended(r) PROVE Settings!Close(r)
  <1>1. \A q \in Requests \ {r} : req'[q] = req[q]
    BY DEF Ended, TypeOK
  <1>2. AskedAt(r)' = None
    BY DEF Ended, TypeOK, AskedAt
  <1>3. Asked' = [Asked EXCEPT ![r] = AskedAt(r)']
    BY <1>1, AskedChanges
  <1> QED BY <1>2, <1>3 DEF Settings!Close

LEMMA AskedOf ==
    ASSUME NEW r \in Requests, TypeOK
    PROVE  /\ Asked[r] = AskedAt(r)
           /\ req[r].st \in {"loaded", "locked"} => Asked[r] # None
  <1>1. Asked[r] = AskedAt(r)
    BY DEF Asked, AskedAt
  <1>2. ASSUME req[r].st \in {"loaded", "locked"}
        PROVE  AskedAt(r) # None
    <2> DEFINE a == [new |-> req[r].body.new, two |-> req[r].body.two,
                     hint |-> req[r].body.hint,
                     hadTwo |-> req[r].seen.two, hadHint |-> req[r].seen.hint]
    <2>1. AskedAt(r) = a
      BY <1>2 DEF AskedAt
    <2>2. /\ req[r].body \in Body
          /\ req[r].seen \in Row
      BY <1>2, NoneAssumption DEF TypeOK, Request, NewRequest
    <2>3. a \in [new : Word \cup {None}, two : BOOLEAN \cup {None},
                 hint : Hints \cup {None},
                 hadTwo : BOOLEAN, hadHint : Hints \cup {None}]
      BY <2>2 DEF Body, Row
    <2>4. a # None
      BY <2>3, NoneAssumption
    <2> QED BY <2>1, <2>4
  <1> QED BY <1>1, <1>2

LEMMA SettingsStep ==
    KeysInv /\ KeysInv' /\ [Next]_vars
      => [Settings!Next]_<<hash, Opens, two, hint, Asked>>
  <1> SUFFICES ASSUME KeysInv, KeysInv', [Next]_vars
               PROVE  [Settings!Next]_<<hash, Opens, two, hint, Asked>>
    OBVIOUS
  <1>0. Opens = hash /\ Opens' = hash'
    BY OpensHashBoth DEF OpensHash
  <1>1. CASE FormNext
    <2>1. CASE CreateUser
      <3>1. /\ hash = None /\ hash' \in Word
            /\ UNCHANGED <<two, hint, Asked>>
        BY <2>1 DEF CreateUser, KeysInv, TypeOK, LoginInv, Word, Asked
      <3>2. Settings!Open(hash')
        BY <1>0, <3>1 DEF Settings!Open
      <3> QED BY <3>1, <3>2 DEF Settings!Next
    <2>2. CASE ~CreateUser
      BY <1>0, <1>1, <2>2 DEF FormNext, Type, SubmitSignup, SignupFails, account, Asked
    <2> QED BY <2>1, <2>2
  <1>2. ASSUME NEW r \in Requests, RequestNext(r)
        PROVE  [Settings!Next]_<<hash, Opens, two, hint, Asked>>
    <2>1. ASSUME NEW b \in Bodies, LoadUser(r, b)
          PROVE  Settings!Ask(r)
      <3>1. /\ req[r] = NewRequest /\ hash # None /\ UNCHANGED <<hash, two, hint>>
            /\ req' = [req EXCEPT ![r] = [st |-> "loaded", body |-> b,
                         seen |-> [hash |-> hash, two |-> two, hint |-> hint]]]
        BY <2>1 DEF LoadUser, account
      <3>2. /\ b.new \in Word \cup {None} /\ b.two \in BOOLEAN \cup {None}
            /\ b.hint \in Hints \cup {None}
        BY NoneAssumption DEF Body
      <3>3. AskedAt(r)' = [new |-> b.new, two |-> b.two, hint |-> b.hint,
                           hadTwo |-> two, hadHint |-> hint]
        BY <3>1 DEF KeysInv, TypeOK, AskedAt
      <3>4. Asked' = [Asked EXCEPT ![r] = AskedAt(r)']
        BY <3>1, AskedChanges DEF KeysInv, TypeOK
      <3>5. Asked[r] = None
        <4>1. Asked[r] = AskedAt(r)
          BY AskedOf DEF KeysInv
        <4>2. req[r].st = "new"
          BY <3>1 DEF NewRequest
        <4>3. AskedAt(r) = None
          BY <4>2 DEF AskedAt
        <4> QED BY <4>1, <4>3
      <3> QED BY <1>0, <3>1, <3>2, <3>3, <3>4, <3>5 DEF Settings!Ask
    <2>2. CASE LockRow(r)
      <3>1. /\ req[r].st = "loaded" /\ UNCHANGED <<hash, two, hint>>
            /\ req' = [req EXCEPT ![r] =
                         [st |-> "locked", body |-> req[r].body, seen |-> req[r].seen]]
        BY <2>2 DEF LockRow, account, KeysInv, TypeOK
      <3>2. AskedAt(r)' = AskedAt(r)
        BY <3>1 DEF KeysInv, TypeOK, AskedAt
      <3>3. Asked' = [Asked EXCEPT ![r] = AskedAt(r)']
        BY <3>1, AskedChanges DEF KeysInv, TypeOK
      <3>4. Asked' = Asked
        <4>1. Asked[r] = AskedAt(r)
          BY AskedOf DEF KeysInv
        <4> QED BY <3>2, <3>3, <4>1 DEF Asked
      <3> QED BY <1>0, <3>1, <3>4
    <2>3. CASE Refuse(r) \/ FailAssertion(r) \/ RequestDies(r)
      <3>1. req[r].st \in {"loaded", "locked"} /\ Ended(r) /\ UNCHANGED <<hash, two, hint>>
        BY <2>3 DEF Refuse, FailAssertion, RequestDies, account
      <3>2. Settings!Close(r) /\ Asked[r] # None
        BY <3>1, Closed, AskedOf DEF KeysInv
      <3>3. Settings!Drop(r)
        BY <1>0, <3>1, <3>2 DEF Settings!Drop
      <3> QED BY <3>3 DEF Settings!Next
    <2>4. CASE CommitPassword(r) \/ CommitOthers(r)
      <3>1. req[r].st \in {"loaded", "locked"} /\ CommitSettings(r) /\ Ended(r)
        BY <2>4 DEF CommitPassword, CommitOthers, CommitSettings
      <3>2. Settings!Close(r) /\ Asked[r] # None /\ Asked[r] = AskedAt(r)
        BY <3>1, Closed, AskedOf DEF KeysInv
      <3>3. hash' = IF req[r].body.new = None THEN hash ELSE req[r].body.new
        BY <2>4 DEF CommitPassword, CommitOthers, KeysInv, RequestInv
      <3>4. /\ two' = IF req[r].body.two \in {None, req[r].seen.two} THEN two ELSE req[r].body.two
            /\ hint' = IF req[r].body.hint \in {None, req[r].seen.hint} THEN hint
                       ELSE req[r].body.hint
        BY <3>1 DEF CommitSettings, Changes2fa, NewHint
      <3>5. /\ Asked[r].new = req[r].body.new
            /\ Asked[r].two = req[r].body.two /\ Asked[r].hint = req[r].body.hint
            /\ Asked[r].hadTwo = req[r].seen.two /\ Asked[r].hadHint = req[r].seen.hint
        BY <3>1, <3>2 DEF AskedAt
      <3>6. Settings!Take(r)
        BY <1>0, <3>2, <3>3, <3>4, <3>5 DEF Settings!Take
      <3> QED BY <3>6 DEF Settings!Next
    <2> QED BY <1>2, <2>1, <2>2, <2>3, <2>4 DEF RequestNext, Handle, Settings!Next
  <1>3. ASSUME NEW c \in Logins, LoginNext(c) PROVE UNCHANGED <<hash, two, hint, Asked>>
    BY <1>3 DEF LoginNext, CheckLogin, Unlock, OpenVault, account, Asked
  <1>4. CASE UNCHANGED vars
    BY <1>0, <1>4 DEF vars, Asked
  <1> QED BY <1>0, <1>1, <1>2, <1>3, <1>4, NextCases

\* update_me: each of the overlapping requests takes effect in one step, as its body
\* asks and on no column it does not name, or not at all.
THEOREM KeysImplementSettings == Spec => SettingsSpec
  BY SettingsInit, SettingsStep, KeysInvariant, PTL
  DEF Spec, SettingsSpec, Settings!Spec, Settings!vars
=============================================================================
