-------------------------------- MODULE Keys --------------------------------
(***************************************************************************)
(* One account's password and the vault key wrapped with it: SignupForm and *)
(* create_user, PATCH of the current user, login, and the unlocking of the  *)
(* vault in the browser.                                                    *)
(*                                                                         *)
(* The e-mail address of an account never changes, and deriveMasterKey      *)
(* takes it normalised as its salt: a master key is its password.           *)
(* A run of wrapVaultKey yields a ciphertext and the only IV it opens with. *)
(* Both are columns of vaults, while the hash is a column of users.         *)
(*                                                                         *)
(* update_me assigns the hash and then queries the vault: the query first   *)
(* flushes the UPDATE, so the request holds the lock of the row in users    *)
(* from there to its commit.  Anything else is written at the commit.       *)
(***************************************************************************)
EXTENDS FiniteSets

CONSTANTS
    Passwords,   \* those SignupForm accepts: twelve characters or more
    Hints,
    Requests,    \* bound: PATCH requests
    Logins,      \* bound: logins and unlocks under way
    Bodies,      \* what clients of the API send
    Empty,       \* the empty string
    None,        \* a field that is absent, a row that is not there, an unlocked row
    Signup       \* the run of wrapVaultKey at signup

Word == Passwords \cup {Empty}

\* new_master_password, and so on; "wrapped" stands for the result of
\* wrapVaultKey with the master key of the new password.
Body == [current : Word \cup {None}, new : Word \cup {None},
         key : {"wrapped", Empty, None}, iv : {"wrapped", Empty, None},
         two : BOOLEAN \cup {None}, hint : Hints \cup {None}]

ASSUME NoneAssumption ==
    /\ None \notin Word \cup Hints \cup {"wrapped", Signup} \cup Requests
    /\ None \notin BOOLEAN \cup (Word \X (Requests \cup {Signup}))
    /\ None \notin [new : Word \cup {None}, two : BOOLEAN \cup {None},
                     hint : Hints \cup {None},
                     hadTwo : BOOLEAN, hadHint : Hints \cup {None}]
    /\ Empty \notin Passwords \cup {"wrapped", Signup} \cup Requests
    /\ Empty \notin Word \X (Requests \cup {Signup})
    /\ Signup \notin Requests
    /\ Bodies \subseteq Body

VARIABLES
    form,      \* SignupForm: what is typed, and what the submission under way captured
    hash,      \* users.hashed_master_password, as the password it verifies; None: no row
    key, iv,   \* vaults.encrypted_vault_key and vault_key_iv
    two, hint, \* users.two_factor_enabled and master_password_hint
    lock,      \* the request that holds the row in users
    req,       \* update_me: its body and the row get_current_user loaded
    login      \* LoginForm and UnlockVaultModal, up to their unwrapVaultKey

account == <<hash, key, iv, two, hint>>
vars == <<form, hash, key, iv, two, hint, lock, req, login>>

NewForm == [password |-> Empty, confirm |-> Empty, sent |-> None]

Row == [hash : Word, two : BOOLEAN, hint : Hints \cup {None}]
NewRequest == [st |-> "new", body |-> None, seen |-> None]
Request == [st : {"loaded", "locked", "done"}, body : Bodies, seen : Row] \cup {NewRequest}
Ended(r) == req' = [req EXCEPT ![r] = [st |-> "done", body |-> @.body, seen |-> @.seen]]

\* Whether the password was checked by the server, and whether it changed since.
Login == [st : {"idle", "typed", "open", "shut"}, password : Word \cup {None},
          checked : BOOLEAN, stale : BOOLEAN]
NoLogin == [st |-> "idle", password |-> None, checked |-> FALSE, stale |-> FALSE]

\* deriveMasterKey, generateVaultKey and wrapVaultKey: the ciphertext of a run.
Wrap(p, run) == <<p, run>>

\* unwrapVaultKey: the tag of AES-GCM tells whether key and IV are the right ones.
Unwraps(k, v, p) == k = Wrap(p, v)

\* hash_password and verify_password
Verifies(p, h) == p = h

Truthy(x) == x \notin {None, Empty}

-----------------------------------------------------------------------------
(* Mutants: what a bug would make of the definitions below *)

AcceptedAlways(b) == TRUE

\* update_me with the row written back as it was loaded, but for what is asked.
CommitWhole(r) ==
    LET b == req[r].body IN
    /\ req[r].st \in {"loaded", "locked"}
    /\ (b.new = None) <=> (req[r].st = "loaded")
    /\ lock \in {None, r}
    /\ hash' = IF b.new = None THEN req[r].seen.hash ELSE b.new
    /\ key' = IF b.new = None THEN key ELSE IF b.key = "wrapped" THEN Wrap(b.new, r) ELSE b.key
    /\ iv' = IF b.new = None THEN iv ELSE IF b.iv = "wrapped" THEN r ELSE b.iv
    /\ two' = IF b.two = None THEN req[r].seen.two ELSE b.two
    /\ hint' = IF b.hint = None THEN req[r].seen.hint ELSE b.hint
    /\ lock' = None
    /\ Ended(r)
    /\ UNCHANGED <<form, login>>

\* update_me with a failed assertion that keeps the session open.
FailKeepsLock(r) ==
    /\ req[r].st = "locked"
    /\ None \in {req[r].body.key, req[r].body.iv}
    /\ Ended(r)
    /\ UNCHANGED <<form, account, lock, login>>

\* submitHandler that reads the password again for the body of the POST.
SignupRereads ==
    /\ form.sent # None
    /\ hash' = form.password
    /\ key' = Wrap(form.sent, Signup) /\ iv' = Signup
    /\ form' = NewForm
    /\ UNCHANGED <<two, hint, lock, req, login>>

\* canSubmit that only compares the two inputs.
OnlyConfirmed == form.confirm = form.password

-----------------------------------------------------------------------------
(* SignupForm and create_user *)

\* The form is left once the account is there; a second signup is refused.
Type(f, w) ==
    /\ hash = None
    /\ form' = [form EXCEPT ![f] = w]
    /\ UNCHANGED <<account, lock, req, login>>

\* The validators of both inputs, and canSubmit.
CanSubmit == form.password \in Passwords /\ form.confirm = form.password

\* submitHandler takes its values before its first await; the button is disabled
\* while it runs.
SubmitSignup ==
    /\ hash = None /\ form.sent = None
    /\ CanSubmit
    /\ form' = [form EXCEPT !.sent = form.password]
    /\ UNCHANGED <<account, lock, req, login>>

\* One transaction; that it may race with another registration is left to Accounts.
CreateUser ==
    /\ form.sent # None
    /\ hash' = form.sent
    /\ key' = Wrap(form.sent, Signup) /\ iv' = Signup
    /\ form' = NewForm
    /\ UNCHANGED <<two, hint, lock, req, login>>

\* The request is refused, or lost on its way.
SignupFails ==
    /\ form.sent # None
    /\ form' = [form EXCEPT !.sent = None]
    /\ UNCHANGED <<account, lock, req, login>>

-----------------------------------------------------------------------------
(* update_me *)

\* validate_pairing
Accepted(b) == Truthy(b.new) <=> (Truthy(b.key) /\ Truthy(b.iv))

LoadUser(r, b) ==
    /\ req[r] = NewRequest /\ hash # None
    /\ Accepted(b)
    /\ req' = [req EXCEPT ![r] = [st |-> "loaded", body |-> b,
                                  seen |-> [hash |-> hash, two |-> two, hint |-> hint]]]
    /\ UNCHANGED <<form, account, lock, login>>

Changes2fa(r) == req[r].body.two \notin {None, req[r].seen.two}

\* Changing the password or 2FA takes the current password, of the loaded row.
Allowed(r) ==
    req[r].body.new # None \/ Changes2fa(r) => Verifies(req[r].body.current, req[r].seen.hash)

Refuse(r) ==
    /\ req[r].st = "loaded" /\ ~Allowed(r)
    /\ Ended(r)
    /\ UNCHANGED <<form, account, lock, login>>

\* The query of the vault flushes the new hash, and waits for the row's lock.
LockRow(r) ==
    /\ req[r].st = "loaded" /\ Allowed(r)
    /\ req[r].body.new # None
    /\ lock = None
    /\ lock' = r
    /\ req' = [req EXCEPT ![r] = [st |-> "locked", body |-> @.body, seen |-> @.seen]]
    /\ UNCHANGED <<form, account, login>>

\* An assertion fails on a field that is absent: everything is rolled back.
FailAssertion(r) ==
    /\ req[r].st = "locked"
    /\ None \in {req[r].body.key, req[r].body.iv}
    /\ lock' = None
    /\ Ended(r)
    /\ UNCHANGED <<form, account, login>>

\* The other columns of the UPDATE: assigning the loaded value is no change.
NewHint(r) == req[r].body.hint \notin {None, req[r].seen.hint}

CommitSettings(r) ==
    LET b == req[r].body IN
    /\ two' = IF Changes2fa(r) THEN b.two ELSE two
    /\ hint' = IF NewHint(r) THEN b.hint ELSE hint
    /\ Ended(r)

CommitPassword(r) ==
    LET b == req[r].body IN
    /\ req[r].st = "locked"
    /\ None \notin {b.key, b.iv}
    /\ hash' = b.new
    /\ key' = IF b.key = "wrapped" THEN Wrap(b.new, r) ELSE b.key
    /\ iv' = IF b.iv = "wrapped" THEN r ELSE b.iv
    /\ CommitSettings(r)
    /\ lock' = None
    /\ login' = [c \in Logins |-> [st |-> login[c].st, password |-> login[c].password,
                                   checked |-> login[c].checked, stale |-> TRUE]]
    /\ UNCHANGED form

\* Without a new password; an UPDATE waits for the row's lock too.
CommitOthers(r) ==
    /\ req[r].st = "loaded" /\ Allowed(r)
    /\ req[r].body.new = None
    /\ Changes2fa(r) \/ NewHint(r) => lock = None
    /\ CommitSettings(r)
    /\ UNCHANGED <<form, hash, key, iv, lock, login>>

\* The client goes away, or the server does.
RequestDies(r) ==
    /\ req[r].st \in {"loaded", "locked"}
    /\ lock' = IF lock = r THEN None ELSE lock
    /\ Ended(r)
    /\ UNCHANGED <<form, account, login>>

-----------------------------------------------------------------------------
(* LoginForm and UnlockVaultModal *)

\* login checks the password, and the tab goes on to GET /vaults/current.
CheckLogin(c, p) ==
    /\ login[c].st # "typed" /\ hash # None
    /\ Verifies(p, hash)
    /\ login' = [login EXCEPT ![c] =
         [st |-> "typed", password |-> p, checked |-> TRUE, stale |-> FALSE]]
    /\ UNCHANGED <<form, account, lock, req>>

\* handleUnlock: in a tab that is logged in, the password only derives the key.
Unlock(c, p) ==
    /\ login[c].st # "typed" /\ hash # None
    /\ login' = [login EXCEPT ![c] =
         [st |-> "typed", password |-> p, checked |-> FALSE, stale |-> FALSE]]
    /\ UNCHANGED <<form, account, lock, req>>

\* GET /vaults/current is answered, and unwrapVaultKey succeeds or throws.
OpenVault(c) ==
    /\ login[c].st = "typed"
    /\ login' = [login EXCEPT ![c] =
         [st |-> IF Unwraps(key, iv, @.password) THEN "open" ELSE "shut",
          password |-> @.password, checked |-> @.checked, stale |-> @.stale]]
    /\ UNCHANGED <<form, account, lock, req>>

-----------------------------------------------------------------------------

Init ==
    /\ form = NewForm
    /\ hash = None /\ key = None /\ iv = None /\ two = FALSE /\ hint = None
    /\ lock = None
    /\ req = [r \in Requests |-> NewRequest]
    /\ login = [c \in Logins |-> NoLogin]

Handle(r) ==
    Refuse(r) \/ LockRow(r) \/ FailAssertion(r) \/ CommitPassword(r) \/ CommitOthers(r)

Next ==
    \/ \E f \in {"password", "confirm"}, w \in Word : Type(f, w)
    \/ SubmitSignup \/ CreateUser \/ SignupFails
    \/ \E r \in Requests : (\E b \in Bodies : LoadUser(r, b)) \/ Handle(r) \/ RequestDies(r)
    \/ \E c \in Logins :
         (\E p \in Passwords : CheckLogin(c, p) \/ Unlock(c, p)) \/ OpenVault(c)

\* A handler that is not waiting for a lock goes on.
Fairness == \A r \in Requests : WF_vars(Handle(r))

Spec == Init /\ [][Next]_vars /\ Fairness

-----------------------------------------------------------------------------
(* Properties *)

TypeOK ==
    /\ form \in [password : Word, confirm : Word, sent : Passwords \cup {None}]
    /\ hash \in Word \cup {None}
    /\ key \in (Word \X (Requests \cup {Signup})) \cup {Empty, None}
    /\ iv \in Requests \cup {Signup, Empty, None}
    /\ two \in BOOLEAN
    /\ hint \in Hints \cup {None}
    /\ lock \in Requests \cup {None}
    /\ req \in [Requests -> Request]
    /\ login \in [Logins -> Login]

\* The stored vault key opens with the password the server accepts, whatever
\* requests overlap or die, unless that is the empty one: validate_pairing and
\* update_me let an empty password through with an empty key.
PasswordUnlocksVault == Truthy(hash) => Unwraps(key, iv, hash)

\* A login whose password was right opens the vault, unless the password was
\* changed before the tab got to GET /vaults/current.
LoginOpensVault ==
    \A c \in Logins : login[c].st = "shut" /\ login[c].checked => login[c].stale

\* Every PATCH comes to its end, and none waits for a lock forever.
RequestsEnd == \A r \in Requests : req[r].st = "loaded" ~> req[r].st = "done"

\* The password the stored key opens with; of an empty one nothing is said.
Opens ==
    IF hash \in {None, Empty} THEN hash
    ELSE IF \E p \in Passwords : Unwraps(key, iv, p)
         THEN CHOOSE p \in Passwords : Unwraps(key, iv, p)
    ELSE None

\* The requests under way: what they ask for, and the row they loaded.
Asked ==
    [r \in Requests |->
       IF req[r].st \in {"loaded", "locked"}
       THEN [new |-> req[r].body.new, two |-> req[r].body.two, hint |-> req[r].body.hint,
             hadTwo |-> req[r].seen.two, hadHint |-> req[r].seen.hint]
       ELSE None]

\* The stored columns as one account.
Settings == INSTANCE AccountSettings
    WITH Passwords <- Word, password <- hash, opens <- Opens, asked <- Asked

\* update_me: each of the overlapping requests takes effect in one step or not at
\* all: password and key together, the 2FA setting and the hint as its body asks,
\* and no column it does not name, so that none undoes what another one set.
\* Only what the row already was when the request loaded it is not written, though
\* another request has changed it since: there the last one to commit does not win.
SettingsSpec == Settings!Spec
=============================================================================
