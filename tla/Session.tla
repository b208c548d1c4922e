------------------------------ MODULE Session ------------------------------
(***************************************************************************)
(* The tabs of one browser: LoginForm, UserProvider, VaultSessionProvider,  *)
(* UnlockVaultModal and the proxy.                                          *)
(*                                                                         *)
(* All tabs share the cookie; each keeps, in memory, a user and a vault     *)
(* key.  Both providers sit in the root layout, so what they keep outlives  *)
(* navigation and logout, and dies with a reload.  A fetch carries the      *)
(* cookie of the moment it is sent.  Handlers run to their next await.      *)
(*                                                                         *)
(* An account stands for its e-mail address, its token, its vault and its   *)
(* vault key.  Passwords are the right ones: with a wrong one login and     *)
(* unlock change nothing.                                                   *)
(*                                                                         *)
(* A tab has one login, logout, unlock and save under way at a time, as its *)
(* forms see to while they are shown; a form that is left with its request  *)
(* outstanding and opened again is left out.                                *)
(***************************************************************************)
EXTENDS FiniteSets

CONSTANTS
    Accounts,
    Tabs,
    Slots,        \* bound: GETs of /users/me a tab has outstanding at once
    NoAccount,    \* no cookie, no user, no key
    NoFetch       \* a slot that is free

ASSUME NoneAssumption == NoAccount \notin Accounts /\ NoFetch \notin Accounts \cup {NoAccount}

VARIABLES
    cookie,       \* access_token, which tabs share
    page,         \* the page of a tab: "login", or "vault" with the shell around it
    user,         \* user of UserProvider
    key,          \* vaultKey of VaultSessionProvider
    login,        \* attemptLogin, at the answer it waits for
    whoami,       \* fetchUser: the accounts its outstanding requests were sent as
    logout,       \* logout of UserProvider
    unlock,       \* handleUnlock
    add,          \* the key with which AddItemModal encrypts what it is about to send
    items,        \* what the server stores: whose vault, and encrypted with whose key
    calm          \* history: no login overlapped, and none failed halfway

shell == <<page, user, key>>
flights == <<login, whoami, logout, unlock, add>>
vars == <<cookie, page, user, key, login, whoami, logout, unlock, add, items, calm>>

Maybe == Accounts \cup {NoAccount}

\* email is what was typed, as the account of the cookie the request was sent with.
Login == [st : {"idle", "sent", "answered", "vault"}, email : Maybe, as : Maybe]
NoLogin == [st |-> "idle", email |-> NoAccount, as |-> NoAccount]

Unlocking == [st : {"idle", "vault"}, email : Maybe, as : Maybe]
NoUnlock == [st |-> "idle", email |-> NoAccount, as |-> NoAccount]

NoWhoami == [m \in Slots |-> NoFetch]

Busy(t) ==
    \/ login[t] # NoLogin \/ whoami[t] # NoWhoami
    \/ logout[t] # "idle" \/ unlock[t] # NoUnlock \/ add[t] # NoAccount

\* What the user starts is calm if no tab is about to change the account, and a
\* login if no tab is doing anything.
Alone == calm' = (calm /\ \A t \in Tabs : login[t] = NoLogin /\ logout[t] = "idle")
QuiteAlone == calm' = (calm /\ \A t \in Tabs : ~Busy(t))

\* The page that proxy() lets the browser see instead of p.
Proxy(p) ==
    IF cookie = NoAccount /\ p = "vault" THEN "login"
    ELSE IF cookie # NoAccount /\ p = "login" THEN "vault"
    ELSE p

\* unwrapVaultKey, with the wrapped key of one account and the master key of
\* another: the AES-GCM tag tells.
Unwraps(f) == f.as # NoAccount /\ f.as = f.email

\* fetchUser
FetchUser(t, w) ==
    \E m \in Slots : /\ w[m] = NoFetch
                     /\ whoami' = [whoami EXCEPT ![t] = [w EXCEPT ![m] = cookie]]

-----------------------------------------------------------------------------
(* Mutants: what a bug would make of the actions below *)

\* attemptLogin without fetchUser().
ContinueLoginQuietly(t) ==
    /\ login[t].st = "answered"
    /\ login' = [login EXCEPT ![t] = [st |-> "vault", email |-> login[t].email, as |-> cookie]]
    /\ UNCHANGED <<cookie, shell, whoami, logout, unlock, add, items, calm>>

\* attemptLogin that sets the key only where there is none.
FinishLoginKeepsKey(t) ==
    /\ login[t].st = "vault"
    /\ Unwraps(login[t])
    /\ key' = [key EXCEPT ![t] = IF @ = NoAccount THEN login[t].email ELSE @]
    /\ page' = [page EXCEPT ![t] = Proxy("vault")]
    /\ login' = [login EXCEPT ![t] = NoLogin]
    /\ UNCHANGED <<cookie, user, whoami, logout, unlock, add, items, calm>>

\* A login form that is still held by the page it was on.
SubmitLoginUntyped(t, a) ==
    /\ page[t] = "login"
    /\ login[t] = NoLogin
    /\ login' = [login EXCEPT ![t].st = "sent"]
    /\ QuiteAlone
    /\ UNCHANGED <<cookie, shell, whoami, logout, unlock, add, items>>

-----------------------------------------------------------------------------
(* attemptLogin *)

SubmitLogin(t, a) ==
    /\ page[t] = "login"
    /\ login[t] = NoLogin
    /\ login' = [login EXCEPT ![t] = [st |-> "sent", email |-> a, as |-> NoAccount]]
    /\ QuiteAlone
    /\ UNCHANGED <<cookie, shell, whoami, logout, unlock, add, items>>

\* POST /auth/login: the browser takes the cookie from the answer.
LoginAnswered(t) ==
    /\ login[t].st = "sent"
    /\ cookie' = login[t].email
    /\ login' = [login EXCEPT ![t] = [st |-> "answered", email |-> login[t].email, as |-> NoAccount]]
    /\ UNCHANGED <<shell, whoami, logout, unlock, add, items, calm>>

\* Any other answer, or none: a toast, a dialog, or the page for the code.
LoginRefused(t) ==
    /\ login[t].st = "sent"
    /\ login' = [login EXCEPT ![t] = NoLogin]
    /\ UNCHANGED <<cookie, shell, whoami, logout, unlock, add, items, calm>>

\* GET /vaults/current fails, or the key does not open: a toast, and the cookie
\* stays.
LoginFails(t) ==
    /\ login[t].st = "vault"
    /\ login' = [login EXCEPT ![t] = NoLogin]
    /\ calm' = FALSE
    /\ UNCHANGED <<cookie, shell, whoami, logout, unlock, add, items>>

\* fetchUser(), and GET /vaults/current.
ContinueLogin(t) ==
    /\ login[t].st = "answered"
    /\ FetchUser(t, whoami[t])
    /\ login' = [login EXCEPT ![t] = [st |-> "vault", email |-> login[t].email, as |-> cookie]]
    /\ UNCHANGED <<cookie, shell, logout, unlock, add, items, calm>>

\* The master key of the password that was typed opens the vault key, and
\* setVaultKey and router.push follow.
FinishLogin(t) ==
    /\ login[t].st = "vault"
    /\ Unwraps(login[t])
    /\ key' = [key EXCEPT ![t] = login[t].email]
    /\ page' = [page EXCEPT ![t] = Proxy("vault")]
    /\ login' = [login EXCEPT ![t] = NoLogin]
    /\ UNCHANGED <<cookie, user, whoami, logout, unlock, add, items, calm>>

-----------------------------------------------------------------------------
(* UserProvider *)

\* The answer of GET /users/me: the user the request was sent as, or none.
UserArrives(t, m) ==
    /\ whoami[t][m] # NoFetch
    /\ user' = [user EXCEPT ![t] = whoami[t][m]]
    /\ whoami' = [whoami EXCEPT ![t] = [whoami[t] EXCEPT ![m] = NoFetch]]
    /\ UNCHANGED <<cookie, page, key, login, logout, unlock, add, items, calm>>

UserFails(t, m) ==
    /\ whoami[t][m] # NoFetch
    /\ user' = [user EXCEPT ![t] = NoAccount]
    /\ whoami' = [whoami EXCEPT ![t] = [whoami[t] EXCEPT ![m] = NoFetch]]
    /\ calm' = FALSE
    /\ UNCHANGED <<cookie, page, key, login, logout, unlock, add, items>>

StartLogout(t) ==
    /\ page[t] = "vault"
    /\ logout[t] = "idle"
    /\ logout' = [logout EXCEPT ![t] = "sent"]
    /\ Alone
    /\ UNCHANGED <<cookie, shell, login, whoami, unlock, add, items>>

\* POST /auth/logout deletes the cookie, whosever it is by now.
LogoutAnswered(t) ==
    /\ logout[t] = "sent"
    /\ cookie' = NoAccount
    /\ logout' = [logout EXCEPT ![t] = "answered"]
    /\ UNCHANGED <<shell, login, whoami, unlock, add, items, calm>>

LogoutFails(t) ==
    /\ logout[t] = "sent"
    /\ logout' = [logout EXCEPT ![t] = "idle"]
    /\ UNCHANGED <<cookie, shell, login, whoami, unlock, add, items, calm>>

\* setUser(null) and router.refresh().  The vault key stays.
FinishLogout(t) ==
    /\ logout[t] = "answered"
    /\ user' = [user EXCEPT ![t] = NoAccount]
    /\ page' = [page EXCEPT ![t] = Proxy(page[t])]
    /\ logout' = [logout EXCEPT ![t] = "idle"]
    /\ UNCHANGED <<cookie, key, login, whoami, unlock, add, items, calm>>

-----------------------------------------------------------------------------
(* The vault page *)

\* handleUnlock, up to GET /vaults/current.
StartUnlock(t) ==
    /\ page[t] = "vault" /\ key[t] = NoAccount
    /\ user[t] # NoAccount
    /\ unlock[t] = NoUnlock
    /\ unlock' = [unlock EXCEPT ![t] = [st |-> "vault", email |-> user[t], as |-> cookie]]
    /\ Alone
    /\ UNCHANGED <<cookie, shell, login, whoami, logout, add, items>>

FinishUnlock(t) ==
    /\ unlock[t].st = "vault"
    /\ Unwraps(unlock[t])
    /\ key' = [key EXCEPT ![t] = unlock[t].email]
    /\ unlock' = [unlock EXCEPT ![t] = NoUnlock]
    /\ UNCHANGED <<cookie, page, user, login, whoami, logout, add, items, calm>>

UnlockFails(t) ==
    /\ unlock[t].st = "vault"
    /\ unlock' = [unlock EXCEPT ![t] = NoUnlock]
    /\ UNCHANGED <<cookie, shell, login, whoami, logout, add, items, calm>>

\* clearVaultKey
Lock(t) ==
    /\ page[t] = "vault" /\ key[t] # NoAccount
    /\ key' = [key EXCEPT ![t] = NoAccount]
    /\ UNCHANGED <<cookie, page, user, flights, items, calm>>

\* submitHandler of AddItemModal: it encrypts, which takes a while,
StartAdd(t) ==
    /\ page[t] = "vault" /\ key[t] # NoAccount
    /\ add[t] = NoAccount
    /\ add' = [add EXCEPT ![t] = key[t]]
    /\ Alone
    /\ UNCHANGED <<cookie, shell, login, whoami, logout, unlock, items>>

\* and sends.  The vault is the cookie's.
FinishAdd(t) ==
    /\ add[t] # NoAccount
    /\ items' = IF cookie = NoAccount THEN items ELSE items \cup {[vault |-> cookie, key |-> add[t]]}
    /\ add' = [add EXCEPT ![t] = NoAccount]
    /\ UNCHANGED <<cookie, shell, login, whoami, logout, unlock, calm>>

-----------------------------------------------------------------------------
(* The browser *)

\* A link, or a push of the router.
Visit(t, p) ==
    /\ page' = [page EXCEPT ![t] = Proxy(p)]
    /\ UNCHANGED <<cookie, user, key, flights, items, calm>>

\* Back, and pages the router has cached, do not ask the proxy.
Back(t, p) ==
    /\ page' = [page EXCEPT ![t] = p]
    /\ UNCHANGED <<cookie, user, key, flights, items, calm>>

\* A new document: UserProvider mounts and fetches the user.  What was under way
\* is abandoned, with the cookie its answer might have set.
Reload(t) ==
    /\ page' = [page EXCEPT ![t] = Proxy(page[t])]
    /\ user' = [user EXCEPT ![t] = NoAccount]
    /\ key' = [key EXCEPT ![t] = NoAccount]
    /\ login' = [login EXCEPT ![t] = NoLogin]
    /\ FetchUser(t, NoWhoami)
    /\ logout' = [logout EXCEPT ![t] = "idle"]
    /\ unlock' = [unlock EXCEPT ![t] = NoUnlock]
    /\ add' = [add EXCEPT ![t] = NoAccount]
    /\ Alone
    /\ UNCHANGED <<cookie, items>>

\* The token and its cookie expire together.
CookieExpires ==
    /\ cookie' = NoAccount
    /\ UNCHANGED <<shell, flights, items, calm>>

-----------------------------------------------------------------------------

\* Tabs that were just opened, after an earlier login or without one.
Init ==
    /\ cookie \in Maybe
    /\ page = [t \in Tabs |-> IF cookie = NoAccount THEN "login" ELSE "vault"]
    /\ user = [t \in Tabs |-> NoAccount]
    /\ key = [t \in Tabs |-> NoAccount]
    /\ login = [t \in Tabs |-> NoLogin]
    /\ \E m \in Slots : whoami = [t \in Tabs |-> [NoWhoami EXCEPT ![m] = cookie]]
    /\ logout = [t \in Tabs |-> "idle"]
    /\ unlock = [t \in Tabs |-> NoUnlock]
    /\ add = [t \in Tabs |-> NoAccount]
    /\ items = {}
    /\ calm = TRUE

User(t) ==
    \/ \E a \in Accounts : SubmitLogin(t, a)
    \/ StartLogout(t) \/ StartUnlock(t) \/ StartAdd(t) \/ Lock(t)
    \/ \E p \in {"login", "vault"} : Visit(t, p) \/ Back(t, p)
    \/ Reload(t)

Continue(t) ==
    \/ LoginAnswered(t) \/ LoginRefused(t) \/ LoginFails(t) \/ ContinueLogin(t) \/ FinishLogin(t)
    \/ \E m \in Slots : UserArrives(t, m) \/ UserFails(t, m)
    \/ LogoutAnswered(t) \/ LogoutFails(t) \/ FinishLogout(t)
    \/ FinishUnlock(t) \/ UnlockFails(t)
    \/ FinishAdd(t)

Next ==
    \/ \E t \in Tabs : User(t) \/ Continue(t)
    \/ CookieExpires

Spec == Init /\ [][Next]_vars

-----------------------------------------------------------------------------
(* Properties *)

TypeOK ==
    /\ cookie \in Maybe
    /\ page \in [Tabs -> {"login", "vault"}]
    /\ user \in [Tabs -> Maybe] /\ key \in [Tabs -> Maybe] /\ add \in [Tabs -> Maybe]
    /\ login \in [Tabs -> Login]
    /\ \A t \in Tabs : login[t].st # "idle" <=> login[t].email \in Accounts
    /\ whoami \in [Tabs -> [Slots -> Maybe \cup {NoFetch}]]
    /\ logout \in [Tabs -> {"idle", "sent", "answered"}]
    /\ unlock \in [Tabs -> Unlocking]
    /\ items \subseteq [vault : Accounts, key : Accounts]
    /\ calm \in BOOLEAN

\* "Random AES-256 vault key -- generated once per user, actually encrypts every
\* vault item": what is stored in a vault opens with the key of that vault.
ItemsUnderOwnKey == \A i \in items : i.vault = i.key

\* In the only tab of the browser this is so as long as no login overlaps
\* anything and each one that got its cookie gets its key: nothing but the next
\* login's setVaultKey removes the key of the account that was logged out.
CalmItemsOpen == calm => ItemsUnderOwnKey

\* Then the only tab, when nothing is under way in it, shows the user whose cookie
\* it sends, and holds that user's key or none, through logouts, locks, expired
\* cookies, other accounts' logins, stale pages and answers out of order.
CalmTabAgrees ==
    (calm /\ cookie # NoAccount) =>
        \A t \in Tabs : ~Busy(t) => user[t] = cookie /\ key[t] \in {cookie, NoAccount}

-----------------------------------------------------------------------------
(* What makes it so *)

\* A login has its tab to itself, and until it asks for the user no answer about
\* an earlier one is outstanding.
LoginsAlone(t) ==
    /\ login[t] # NoLogin => logout[t] = "idle" /\ unlock[t] = NoUnlock /\ add[t] = NoAccount
    /\ login[t].st \in {"sent", "answered"} => whoami[t] = NoWhoami
    /\ login[t].st \in {"answered", "vault"} => cookie \in {login[t].email, NoAccount}

\* While there is a cookie, what was read with one was read with this one; a login
\* that has its cookie is yet to ask for the user, and then to set the key.
OneCookie(t) ==
    /\ add[t] \in {cookie, NoAccount}
    /\ unlock[t].as \in {cookie, NoAccount}
    /\ logout[t] # "answered"
    /\ login[t].st \in {"idle", "sent"} => key[t] \in {cookie, NoAccount}
    /\ login[t].st # "answered" =>
          /\ \A m \in Slots : whoami[t][m] \in {cookie, NoFetch}
          /\ whoami[t] = NoWhoami => user[t] = cookie

\* The inductive invariant of the only tab.
IInv ==
    /\ TypeOK
    /\ calm => /\ ItemsUnderOwnKey
               /\ \A t \in Tabs : LoginsAlone(t) /\ (cookie # NoAccount => OneCookie(t))
=============================================================================
