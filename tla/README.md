# Verification of pass-hive

TLA+ modules of pass-hive's backend, browser session and pages, TLC
configurations that model-check them on small instances, and theorems about them that TLAPS proves
for every size. pass-hive is a password manager: a FastAPI backend
(`src/backend/app`) over PostgreSQL and Redis, an arq worker, and a Next.js
client (`src/frontend/src`) that encrypts everything before it sends it.

To check a run: `tlc -config <cfg> <MC module>`; to check the proofs:
`tlapm <module>`. `PROJECT.json` names the runs, the source lines of every
definition, the hazards, the findings and, for every property, a plausible bug
(a definition under "Mutants" of the module) that breaks it.

Contents: [the system](#the-system) · [hard behaviours](#what-is-hard-here) ·
[modules](#the-modules) · [runs and bounds](#the-runs) · [fairness](#fairness) ·
[proofs](#the-proofs) · [findings](#where-code-and-words-part) ·
[what is left out](#what-is-not-modelled) · [plan](#plan)

## The system

| Component | State | Operations | What makes it correct |
|---|---|---|---|
| **Accounts** `api/routes/users.py`, `models/user.py`, `core/deps.py` | rows of `users`, one row of `vaults` each | `create_user`, `get_me`, `update_me`, `delete_me`; `get_current_user` in front of the last three | one account per address; deletion is undone by a login or completed by the purge |
| **Authentication** `api/routes/auth.py`, `core/security.py` | nothing of its own: tokens live in cookies and cannot be revoked | `login` (which also reactivates), `verify_otp_route`, `resend_otp_route`, `verify_2fa`, `request_hint`, `logout` | no token before the address is verified; a login means what it says |
| **One-time codes** `core/otp.py` | two Redis keys per user and namespace: the code and the cooldown, each with an expiry time | `issue_otp`, `verify_otp`, `get_cooldown_remaining` | a code that was used, replaced or outlived is not found again; who is told to wait has a code; mails are rationed |
| **Purge** `worker.py` | jobs in Redis, deferred for 30 days | `hard_delete_user_job` | not early, not after a reactivation, and in the end |
| **Mail jobs** `worker.py`, `core/email.py` | jobs in Redis | `send_otp_email_job`, and `send_hint_email_job`, which nothing registers | the mail is sent |
| **Job queue** `core/queue.py` | a lazily created pool | `get_arq_pool`, `close_arq_pool` | one pool, closed at the end |
| **Vault items** `api/routes/vault.py`, `models/vault.py`, `schemas/vault.py` | rows of `vault_items` | list, create, update, delete, and the PATCH validator | rows keep their vault; ciphertexts keep their IV; concurrent PATCHes do not undo each other |
| **Password and vault key** `update_me`, `schemas/user.py`, `components/auth/*`, `lib/crypto.ts` | the columns `hashed_master_password`, `encrypted_vault_key`, `vault_key_iv` | signup, `validate_pairing` and PATCH of the current user, login, unlock | the password that logs in opens the vault key; a PATCH is whole |
| **Application shell** `main.py`, `core/config.py`, `core/exceptions.py`, `api/routes/health.py` | settings | wiring, mapping of exceptions to answers | – |
| **Vault page** `hooks/use-vault-item.tsx`, `components/vault/*` | the decrypted list, a spinner, an error, the open dialog, outstanding requests | `reload`, `toggleFavorite`, unlock, lock, add, edit, delete | the list is what the server holds; nothing decrypted after a lock |
| **Browser session** `context/user-context.tsx`, `context/vault-session.tsx`, `components/auth/*`, `proxy.ts` | per tab the user and the vault key; the cookie, shared by all tabs | login, signup, logout, the guard of the routes | items are encrypted with the key of the account they go to |
| **Verification page** `app/(auth)/verify-otp/page.tsx` | six boxes, two countdowns, `pendingVerification` of its provider | type, paste, submit, resend, leave, return | the countdowns agree with Redis; the code is what was typed; the resend button comes back |
| **Cryptography** `lib/crypto.ts` | – | derive, generate, wrap, unwrap, encrypt, decrypt | the password unwraps the vault key |
| **Forms** `hooks/use-form.tsx`, `custom-elements/input.tsx`, `lib/validators.ts`, `add-vault-item.tsx`, `password-field-generator.tsx` | values and validity, twice: in the form and in each input | typing, picking a type, opening, saving; the effects that copy between the two | the form saves what the inputs show |
| **Generators** `lib/generator.ts`, `app/(protected)/tools/generator`, `components/generator/*` | options and result of the mounted generator | passwords, passphrases, usernames; copying | length and required classes; no value and no order is favoured |
| **Notifications** `context/snackbar-context.tsx` | a queue of toasts, the one on the screen | show, close, exited | each toast is shown, in order |

They interact as follows. A browser holds a JWT in a cookie; the page, the
proxy and the backend each look at it. Every backend request opens a database
session (`get_db`) and shares the process with all others on one event loop, so
any other request runs at each of its awaits. No handler asks for a lock; the only
one held over an await is that of the row whose new password hash `update_me` has
flushed. Requests
share state through PostgreSQL (`users`, `vaults`, `vault_items`) and Redis
(codes, cooldowns, jobs). Handlers call `issue_otp` and then put a mail into the
queue; `delete_me` commits and then puts a deferred purge into the queue; the
worker, another process, takes jobs from it. On the page the React components
share one hook's state; its functions are closures over the vault key of their
render.

### What is hard here

* **Awaits without locks.** Every handler reads, awaits, writes. What keeps two
  registrations apart is the unique index and not the check before it; what keeps
  two PATCHes apart is that SQLAlchemy writes only changed columns.
* **Commits beside other commits.** `delete_me` commits to PostgreSQL and then
  writes to Redis; `login` writes to Redis, raises, and so rolls PostgreSQL back.
* **Jobs a month later.** Deletion, reactivation and second deletion may all
  happen while the first job waits. Workers die, jobs are run again, jobs fail.
* **Expiry.** Code and cooldown expire on their own, between any two commands.
* **Late answers.** On the pages answers come after the vault was locked, after a
  reload, after the dialog they belong to was closed, or not at all.
* **Clocks apart.** The verification page counts down to a time it computes when an
  answer arrives; Redis counts from when it stored the code; both round to seconds.
* **Values kept twice.** What a dialog shows and what it saves are different states,
  which effects copy into each other after every render.

`PROJECT.json` lists these one by one under `hazards`, at the line where each
bites, with the properties that watch it.

## The modules

    AccountLifecycle  <-- refined by --  Accounts   <-- AccountsProofs   MCAccounts
    AccountSettings   <-- refined by --  Keys       <-- KeysProofs       MCKeys
    CodeSlot          <-- refined by --  Otp        <-- OtpProofs        MCOtp
    ItemStore         <-- refined by --  VaultItems <-- VaultItemsProofs MCVaultItems
                                         VaultList  <-- VaultListProofs  MCVaultList
                                         Session    <-- BrowserProofs    MCSession
                                         VerifyPage <-- VerifyPageProofs MCVerifyPage
                                         Form       <-- FormProofs       MCForm
                            Toasts  <--  Generator  <-- BrowserProofs    MCGenerator

Modules ending in `Proofs` extend the component's module and TLAPS; `MC` modules
extend it and TLC with the definitions a configuration needs. The components
meet at small interfaces: `Accounts` sees of `Otp` only the set of keys that
hold a code (issuing adds a key, or does not; expiry removes it; consuming
deletes it); `VaultItems` sees of `Accounts` that a purge removes a vault with
its items; `VaultList` sees of `VaultItems` a server that serves a request, or
refuses it, atomically; `Session` has `VaultList`'s unlock, lock and save again,
but of several accounts and tabs, and keeps of an item whose vault it went to and
whose key it was encrypted with; `Keys` has of the account what `Accounts` leaves
out, its password, and of `Session` the one step that can fail, `unwrapVaultKey`;
`VerifyPage` takes `issue_otp` as one step and keeps of `Otp`'s keys when they
expire; `Form` is what happens inside a dialog that is one value in `VaultList`;
`Generator` EXTENDS `Toasts` and calls its `ShowToast`.

### Accounts

`users`, `row`, `vaults` are the tables; `req[r]` is a request between two of its
awaits, with the id of the row it loaded and the change it is going to commit;
`job[j]` is an entry of the queue; `tokens` are the ids for which an unexpired
token is around; `codes` the Redis keys that hold a code. `deletions` is a
history variable.

| Action | Code |
|---|---|
| `CreateUser`, `CreateUserCommit`, `CreateUserConflict` | `create_user`: the SELECT, the flush and commit of user and vault, the unique index |
| `Login`, `IssueOtp`, `LoginCommit` | `login`: its checks in order, a challenge (which ends in an exception and loses the reactivation), or the commit |
| `ResendOtp`, `VerifyOtp`, `Verify2fa` | the first half of the three routes: the row and the checks each makes, or does not make |
| `MatchOtp`, `ConsumeOtp`, `VerifyCommit` | `verify_otp`'s GET and DEL, and what the route does after |
| `UpdateMe`, `UpdateMeCommit` | the 2FA switch of `update_me` |
| `DeleteMe`, `DeleteMeCommit`, `EnqueuePurge` | `delete_me`: its dependency, its commit, its `enqueue_job` |
| `CheckPurge`, `Purge` | `hard_delete_user_job`: the guard; the DELETEs in one transaction |
| `RequestDies`, `WorkerDies`, `JobFails` | a request cut off or an unreachable Redis; arq runs the job of a dead worker again; arq does not repeat a job that raised |

A commit writes the columns the handler changed to whatever row has that id
then; if the purge has removed the row, the UPDATE matches nothing and the
request fails. Where a handler changes nothing, no UPDATE is sent.

`AccountLifecycle` is the abstract specification: an address has at most one
holder, an account is opened, deleted and reactivated any number of times,
*doomed* when the worker has looked at it, and gone for good once purged. The
doomed phase is there because the code needs it: from the guard on, a
reactivation may come too late.

### Otp and CodeSlot

One user and one namespace, command by command. `code`, `codeUntil` and
`coolUntil` are the two keys with their expiry; `iss` and `ver` the requests,
each at the Redis command it does next; `mailed` the codes that reached the
queue. Histories: when each code was written, how often it was accepted, which
codes were lost with the request that should have mailed them. A submitted code
is one from the mailbox; another one fails the comparison and changes nothing.

`CodeSlot` is what the keys promise without the requests that issue codes: one code is
stored at a time, no longer than its life; none is stored, and so found, again once it
was replaced, accepted or outlived; a submission is let in once (`Accept`), and only with
the code it found stored (`Find`). It does not promise one-time use, since `verify_otp`
does not: GET may be long ago when DEL comes, so submissions that found the code before
one of them was let in are all let in, and the last may take a newer code with it.
`UsesOverlap` bounds what that comes to: a code is accepted at most as often as there are
submissions at once, however many follow one another.

### VaultItems and ItemStore

`rows` is the table; a request is at its commit, with the row as its session
loaded it. A PATCH body names some columns (`exclude_unset`); `Accepted` is the
validator; `Changed` are the columns SQLAlchemy writes. A blob stands for one run
of `encryptField`: ciphertext and IV decrypt only together, so a row is readable
when the two columns hold the same blob. `ItemStore` promises that an item stays
in its vault, always decrypts, and never comes back once deleted.

### VaultList

`items`, `isLoading`, `error` and `unlocked` are the state of `useVaultItems` and
the vault key; `dialog` stands for `selectedItem`, `editingItem`, `deleteTarget`
and `modalOpen`, of which one is set; `fetch[s]` is an outstanding request, with
what its continuation closed over. `Serve` is the server, `Refuse` and
`LoseAnswer` the network, `OtherClient` the same account on another device.
`mounted` says whether the dialog that sent a request is still the same one on
the screen: early returns of the page unmount the dialogs, and so reset
`isSubmitting`. `calm` is a history variable: no two things went on at once so
far, and no answer was lost.

### Session

A browser: `cookie` is shared by all tabs; per tab there are `page`, the `user` of
`UserProvider` and the `key` of `VaultSessionProvider`, which survive navigation
and logout and die with a reload. `login`, `unlock`, `logout`, `whoami` and `add`
are the handlers between two of their awaits; each remembers what it closed over,
and a request the account of the cookie it was sent with. `items` is what the
server stores. A login under way is `sent`, `answered` (it has its cookie) and then
at `vault` (it waits for `GET /vaults/current`); `unwrapVaultKey` fails when the
vault is another account's than the e-mail address the master key was made from.

| Action | Code |
|---|---|
| `SubmitLogin`, `LoginAnswered`, `LoginRefused`, `ContinueLogin`, `FinishLogin`, `LoginFails` | `attemptLogin` of `login-form.tsx` |
| `FetchUser`, `UserArrives`, `UserFails` | `fetchUser`, which nothing serialises |
| `StartLogout`, `LogoutAnswered`, `FinishLogout`, `LogoutFails` | `logout`, which leaves the key where it is |
| `StartUnlock`, `FinishUnlock`, `UnlockFails`, `Lock` | `handleUnlock`, `clearVaultKey` |
| `StartAdd`, `FinishAdd` | `submitHandler` of `add-vault-item.tsx`: encryption takes a while, then the POST |
| `Visit`, `Back`, `Reload`, `CookieExpires` | navigation with and without `proxy.ts`, a new document, `max_age` |

`calm` is a history variable: no login overlapped anything, nothing was started
while an account was changing, no login failed between its cookie and its key, and
no answer about the user was lost.

### Keys and AccountSettings

One account: `hash` is its column in `users`, `key` and `iv` those of its vault; a
wrapped key is the pair of the password and the run that wrapped it, and its IV that
run, so that it opens with that password and that IV only. `form` is the signup form
with what its submission captured; `lock` the request that holds the row's lock;
`req[r]` a PATCH with its body and the row it loaded; `login[c]` a login or an unlock
between its two requests.

| Action | Code |
|---|---|
| `Type`, `SubmitSignup`, `CreateUser`, `SignupFails` | `SignupForm`: the derived keys and the password that is sent come from one rendering |
| `LoadUser` | the validator, `get_current_user` and its row |
| `Refuse`, `FailAssertion` | `update_me`'s checks of the current password, and the assertion that the key is there |
| `LockRow`, `CommitPassword` | the query of the vault flushes the new hash, and so takes the lock up to the commit |
| `CommitOthers` | the 2FA switch and the hint, written at the commit, which waits for the lock |
| `RequestDies` | a rollback at any await |
| `CheckLogin`, `Unlock`, `OpenVault` | `attemptLogin`, `handleUnlock` |

`AccountSettings` promises one password that both logs in and opens. It remembers what
each request asks for, and what the account had then (`asked`); a request takes effect in
one step (`Take`) or not at all (`Drop`). In that step each field it asks for gets the
value it asks for, and the others stay as they are by then. The one exception is in the
code: a 2FA flag or a hint that the row already had when the request loaded it is not
written, though another request has changed it since. `Accepted` is
`validate_pairing` as it is written: it tests truthiness, so an empty new password
goes with an empty or absent half of the key. The properties except the empty
password; `hazards` names the line.

### VerifyPage

The boxes (`otp`, `focus`), the countdowns (`pending`, which outlives the page,
`secondsLeft`, `resendCooldown`), what is left until its two intervals are due
(`expiryIn`, `resendIn`), the three requests, and in Redis what is left of code and
cooldown. Times are in ticks, `Second` of which make a second. An interval that is due
fires at once or as late as the browser likes, and is due again a second later.
`Rounded` is `Math.round` on the page and TTL in Redis, the nearest second, so
`ServeResend` answers with a cooldown that may be up to half a second off, and in its
last half second with a new code although none was issued. `Leave` and `Return` unmount the
page while requests are on their way; an answer then reaches nobody, or the provider,
whose `pendingVerification` a late "new" revives. Histories: `typed` (the line of digits
that an editor of one line would have after the same keys and pastes), `lag` (the age of the answer behind the countdown), `counted`,
`calm` (no code was issued that the page was not told of).

### Form

`inputs`, `type` and `formValid` are the reducer of the form; `box[f]` is the reducer
of the `Input` of a field, with the `initialValue` it last saw and what it last
reported; `select` that of the type; password fields have no state of their own.
With `Patient`, which the run and the theorems assume, each event waits for the effects
of the one before: in which order React takes an event that comes between two runs of
effects is not modelled. `Effects` runs what a commit has due: the reports in the order of the dialog, then the
new `initialValue`s, and what they dispatch is rendered together. `seed` is the effect
on `open` and `item`, which may come before or after the content is mounted. `mode`
tells the two instances on the page apart. `intent` is a history variable: what the
user was shown and has entered since. `Close` and an answered save unmount the content
whatever it shows by then, and at once: Material UI keeps it until the transition of the
dialog has ended, and what is done to it meanwhile is not modelled.

### Generator and Toasts

A generator is the set of what it can return, character by pool, word by word, over
every word of `getRandomValues` that `secureRandomInt` accepts and every pick of
`secureShuffle`. `Generator` has the page: `tab`, `options`, `result`, the effect that
generates (`due`), and copies on their way to the clipboard. `Toasts` has the provider:
`queue`, `current`, `open`, with the processing of the queue during the render, the
timer that stops while the pointer is on the toast, and the transition's end.

## The runs

| Run | Question | Bounds |
|---|---|---|
| `accounts_registration` | Do the handlers and the worker, failing anywhere, keep an address to one account and tokens to verified ones, and implement `AccountLifecycle`? | 2 ids, 1 address, 2 requests, 1 job, all faults |
| `accounts_deletion` | Is every deletion scheduled, none early, each completed? | 1 id, 2 requests, 1 job, clock to 2, no faults, fairness |
| `accounts_grace` ✗ | Is a purge a whole grace period after the last deletion? | 1 id, 1 request at a time, 2 jobs |
| `otp_concurrent` | Do cooldown, code and mailbox fit together; how many codes per cooldown, and how many uses of one; do the commands implement `CodeSlot`? | 3 codes, 2 issuing and 2 submitting requests, clock to 4 |
| `items_routes` | Do concurrent routes keep rows readable, owned and un-lost, and implement `ItemStore`? | 2 items, 2 vaults, 2 requests, 2 blobs, bodies of the web client, halves, a null, a wrong pair |
| `list_page` | Is a quiet page what the server holds; do rollbacks resurrect anything; does the spinner stop? | 1 item, 2 titles, 2 outstanding requests |
| `session_tab` | Does the only tab agree with its cookie, and encrypt under the key of the vault it saves to? | 2 accounts, 1 tab, 2 outstanding fetches of the user |
| `session_tabs` ✗ | And with two tabs? | 2 accounts, 2 tabs, 1 outstanding fetch each |
| `keys_settings` | Does the right password open the vault, whatever PATCHes overlap and die; does each end; do they implement `AccountSettings`? | 2 passwords, 1 hint, 2 PATCHes with complete, partial and empty bodies, 1 login |
| `verify_page` | Do the countdowns keep to Redis, to within the rounding, the boxes to the keyboard, and does the resend button come back? | 3 boxes, 2 digits, 3 ticks a second, a code lives 6 ticks, cooldown 3, an answer takes at most 1 |
| `form_modal` | Is what is saved what is shown and what was entered? | login and note, 3 texts, items of 2 texts, 1 pool |
| `generator_page` | Does the result fit the options; is any value or order favoured; is each press of Copy told, in order? | words of 16 values, lengths 1 and 2, minimums to 2, 3 pools, 3 toasts |

✗: TLC is expected to find a counterexample; see
[findings](#where-code-and-words-part).

Why the bounds are enough to meet the interesting cases:

* *Accounts.* Two requests are what a race needs; each of them can be any
  handler, one after the other, so that runs of many requests still occur. Two
  ids on one address are two registrations that race, and also a registration
  after a purge. One job suffices wherever deletions of one account follow one
  another; `accounts_grace` needs two, because the second deletion must be
  scheduled while the first job waits. A grace period of one tick separates
  "scheduled" from "due". `Horizon` stops the clock, and new deletions, at a time
  after which outstanding purges still come due. Registrations in flight are
  limited to the ids left, which an unbounded supply of UUIDs would not do.
* *Otp.* A cooldown of 1 and a life of 3 keep their order and leave room for a
  second code while the first lives; the clock to 4 lets the first expire. Three
  codes are the two of a race and a later one. One bound is about the code:
  a request gets from writing its code to starting the cooldown in less than the
  nine minutes that lie between the two expiry times.
* *VaultItems.* Two vaults tell an owner from another; two items tell the item
  of a request from another one; two blobs tell the right IV from a wrong one.
* *VaultList.* One item is enough: the page treats items independently except
  for the case of an empty list, which one item reaches. Two outstanding
  requests give every pair of overlapping continuations.

* *Session.* Two accounts are one to go and one to come; a third would meet the
  same leftovers. Two outstanding fetches of the user are the one of the mount and
  the one of a login, which can be answered in either order. A tab has one login,
  unlock, logout and save under way at a time: a form that is left and opened again
  while its request is outstanding is not modelled.
* *Keys.* Two passwords are the old and the new one; two PATCHes are what an
  interleaving needs, and either may change the password, the rest, or both. A body
  may have any half of the wrapped key, empty or absent.
* *VerifyPage.* Three boxes have a first, a middle and a last; two digits tell an
  order from another. Three ticks a second have a time that is rounded down, one that is
  rounded up and one that is whole. A life of two seconds above a cooldown of one leaves
  a second in which a second code replaces a first one that still lives. An answer that
  takes a tick separates what the page counts from what Redis counts. The proofs have
  any number of ticks in a second, so also those with a half.
* *Form.* The two types have a shared field name, `title`, fields of their own, a
  required and an optional field and a password; a third type would be switched to
  and from in the same way. The texts are the empty one, one that only `REQUIRE`
  rejects, and one that it accepts.
* *Generator.* Sixteen values of a word give every remainder below sixteen a partial
  last block; lengths of 1 and 2 and minimums to 2 have the minimums below, at and
  above the length. Three toasts are one on the screen and two that wait, so that their
  order shows.

Symmetry is used where no liveness is checked. `CHECK_DEADLOCK FALSE` stands
where the instance runs out of ids, codes or time; the vault page is checked for
deadlock, and so are the session, the verification page, the form and the generators.

## Fairness

`accounts_deletion` (`DeletionCompletes`): every request in flight goes on
(asyncio runs every ready task), the worker polls the queue, and the clock ticks.
All are weak fairness of one request's, one job's or the clock's step; no request
has to arrive. `DeletionCompletes` is about accounts nobody reactivates and
assumes no fault, since a fault can lose the job.

`list_page` (`SpinnerStops`): each outstanding request is answered or fails
(browsers time out), and the continuation of each answered one runs. The user
does nothing unless they like. With only finitely many requests outstanding no
stronger fairness is needed.

`keys_settings` (`RequestsEnd`): a handler whose next step is enabled takes it, which
is weak fairness of each request; waiting for the row's lock is a step that is not
enabled, so the property says that the lock always comes free.

`verify_page` (`ResendReturns`): the clock ticks, the button's interval fires in the
end, and the requests the page waits for are served and answered, or fail. Nothing
makes the user, the other device or the expiry's interval act.

`generator_page` (`EveryPressIsTold`): the clipboard answers, the transition of a toast
that closes ends, and the timer runs out if from some time on nothing holds it
(`WF(AutoHide)`). It starts anew each time the pointer leaves, and a pointer that stays,
or comes and goes for ever faster than it runs, keeps the toast: the property speaks of
users who in the end leave the toasts alone (`<>[]~held`), and fairness makes nobody do
so.

Everything else is safety and assumes nothing.

## The proofs

All constants are arbitrary: any number of ids, requests, jobs, codes, items.

**AccountsProofs.** `TypeCorrect`; `Invariant == Spec => []IInv`; from it
`EmailsUnique`, `SessionsVerified`, `GraceKept`; `WholeGraceOnce`, that
what `accounts_grace` shows takes a second deletion on another day; and
`DeletionScheduled`, under the hypothesis that no request dies and no job fails.
Assumptions: `Grace` and `Horizon` are naturals, `NoUser` and `NoEmail` are no
ids and addresses. The properties are not inductive as they stand:

* `SessionsAreVerified` needs `VerifiedFirst`: until an account is verified, not
  only has nobody a token, there is no second-factor code of it, no login past
  its checks, and no request consuming a code of the other namespace. This is
  the whole reason why `verify_2fa` need not look at the flag.
* It also needs `IdsAreKnown`: tokens, codes, requests and jobs outlive accounts, so
  a new account must not get an old id.
* `NoEarlyPurge` needs `GraceStarted`: each queued job is due a grace period after
  a deletion on record, each checked job is due, and the request about to enqueue
  has its deletion on record.

The proof that steps preserve these goes through frame lemmas (`TablesFrame`,
`RowFrame`, `JobFrame`: which steps change which table) and `RowHistory` (an
address never changes, a verification is never taken back).

**OtpProofs.** `TypeCorrect`, `SpentForGood`, `CooldownHasCode`, `UsesBounded`, and
`SequentialOneTimeUse`: if there is at most one submitting request, codes are
accepted once; concurrency is what breaks it. Assumptions: `0 < Cooldown < Ttl`, and
that the issuing and the submitting requests are finitely many (they are counted).
`SpentInv` says that a code is written by one request and once, and is not stored
after it was accepted. `CooldownInv` says that the cooldown ends no later than
the code, and that a request between writing its code and starting the cooldown
still has time. `OverlapInv` says that the uses of a code, and the submissions that
found it and are still to be let in with it (`Finders`), are no more than the
submissions there are at once: an accepted code is never found again.
`OtpImplementsSlot` (`Spec => SlotSpec`) rests on the first two: a SET writes a code that
was never stored, a GET that passes the comparison is the abstract `Find`, and the DEL of
a late submission, which may remove a code it never compared, is `Accept` with the code
it found.

`CodesSpaced` bounds how many codes are written in a period of one cooldown: by the
number of requests, and one for each that died. It counts sets over time and is far
from inductive. `CoveredInv` says that a code is lost, or its request is about to start
the cooldown, or a cooldown lasts until a period later: so the codes of a period that
no cooldown outlasts yet belong to different requests. `SpacedInv` takes over once one
does: from then on nobody passes the check, so the codes written and the requests that
are past it (`PastCheck`) together grow no more. `FirstCooldown` is the step from the
one to the other.

**VaultItemsProofs.** `TypeCorrect`, `Isolation` and `UpdatesKept` without
hypothesis; `PairsKept` and `Refinement` (`Spec => StoreSpec`, a step of the
tables is a step of `ItemStore` or a stutter) under `BodiesPaired`: clients send
both halves of a pair, from one encryption, or neither. TLC checks without that
hypothesis that the validator refuses the halves that are not empty. The inductive invariant is `TypeOK` (a request holds an item of its own
vault, a row's vault exists) with `PairInv` (what a session loaded decrypts, and
its body went through the validator). `Changed` is where the care is: a column
left out of the UPDATE because it equals the *loaded* value may differ from the
*current* one, and still both halves are written or none, because both are equal
in every loaded row.

**BrowserProofs, Session.** `TypeCorrect` for any number of tabs; `ItemsOpen` and `TabAgrees`
for a browser with one tab, `\E t : Tabs = {t}`, which `session_tabs` shows to be
needed. `IInv` says what keeps the tab consistent between the awaits: a login has
the tab to itself (`LoginsAlone`), and everything read with a cookie while there is
one was read with this one (`OneCookie`), where a login that has its cookie is
exempt from the user until it has asked for it, and from the key until it sets it.

**AccountsImplementLifecycle** (in `AccountsProofs`): every step of `Accounts` maps to
a step of `AccountLifecycle` or a stutter. `PhaseFits` and `HolderFits` say what the
mapping comes to without its CASE and CHOOSE: a phase follows from the tables and
from whether a job has passed its guard, and a holder is any account with the address,
of which `OneAccountPerEmail` leaves one. `OneTurns` turns the change of one account's
phase into the abstract step; the steps of jobs are those where a second checked job of
the same account must not count.

**KeysProofs.** `KeysTypeCorrect`, `PasswordOpens`, `CheckedLoginOpens` and
`KeysImplementSettings`, without hypothesis. The last maps what a request asks for to its
body and the row it loaded (`Asked`), so that a step in which two requests took effect, or
one wrote back a column it was not asked to change, would be no step of
`AccountSettings`. `RequestInv` strengthens them: a request
under way has a body that passed the validator, and the one that holds the lock has a
new password, so that what it commits is a pair; `LoginInv` says that a login whose
password was checked and that is not stale holds the password that is stored.

**VerifyPageProofs.** `VerifyPageTypeCorrect`, `CountdownsHonest`, `DigitsInOrder`, for
every length of the code, every life and cooldown of whole seconds with
`0 < Cooldown < Ttl`, every division of the second, and every delay. `RoundedFacts` says
that `Rounded` gives a whole second at most half a second away; hence what is within a
number of whole seconds stays so when rounded (`RoundedBound`), and less than half a
second rounds to nothing (`RoundedDown`), on which the button rests. `ClocksInv` adds that only a mounted page has intervals and a resend of its own
(`MountedInv`), that a code outlives the cooldown it began by what is left of the
difference, and the bounds on answers that are on their way (`ExpiryInv`,
`CooldownInv`): how far they are off is their age, which becomes `lag`. `BoxesInv` adds
that a submission of a page that was left finds the boxes empty (`ForgottenInv`). That
`setDigit`, which writes into positions and leaves blanks out, does what an editor of one
line does is `JoinedPut` for a digit and `JoinedWithout` for Backspace.

**VaultListProofs.** `VaultListTypeCorrect`, `TitlesKept` and `QuietPageAgrees`, for any
number of items and requests. `QuietInv` strengthens the last: while the page is calm
at most one request is out, and for each kind it says how far the page and the server
are apart. A toggle has the list one toggle ahead of the server until it is served, and
the dialog one toggle behind the list until it is answered (`ToggleWaits`); a reload has
the page behind the server, with the answer on its way (`ReloadWaits`); a save that was
not served has them equal (`Settled`).

**FormProofs.** `FormInvariant`, `FormTypeCorrect` and `SavedAsShown`, for any types,
texts and items, under `Patient`. The invariant says where each value is while the
effects carry it: `FieldInv`, an `Input` holds what was entered and what it reports the
form will have, or it has reported something else and what was entered is about to be
handed to it; `SelectInv`, where the select and the form part, nothing was entered yet;
`PickInv`, a type just picked leaves every `Input` quiet, so that no report of a field
of the old type reaches the form of the new one; `SeedInv`, a dialog was mounted over
what the form was left with. An open generator implies a form at rest (`GenInv`). One
step of the effects preserves it in three lemmas: after the effect that fills the form
(`EffectsSeed`), at one type (`EffectsSame`), and from one type to another
(`EffectsPick`).

**BrowserProofs, Generator and Toasts.** For any pools, words, separators, lengths and
word size: `GeneratorTypeCorrect`, `ResultsFit`, `GeneratorUnbiased`, `DrawsEnd` and
`ToastsKeepOrder`.

* `GeneratorUnbiased`. Of `secureRandomInt`, `WordsForAre` says which words give a
  value, one for each block below the limit, so that adding `r` is a bijection between
  the words for 0 and those for `r`. Of `secureShuffle`, `Stages` is `arr` before each
  turn of the loop: what a stage holds follows from the draws made so far
  (`StagesByDraws`), and a position the loop has passed stays (`StagesSettle`). Hence
  the last element of each stage gives the draw away, two runs of draws with one
  outcome are the same (`PicksUnique`), and a run to any order can be built from the
  end (`PicksExist`).
* `ResultsFit`. The shuffle applies an order that depends on the draws alone
  (`StagesInOrder`), and an order keeps how often something occurs
  (`OrderKeepsCount`), so the minimums survive it. Words and separators alternate in
  what `Join` makes (`JoinFits`). The invariant `GeneratorInv` adds to the types that
  the length of a password is bounded and that each press is either under way or has
  asked for its toast (`copying + asked = presses`).
* `ToastsKeepOrder`. `shown` and `queue` together are the numbers up to `asked`, in
  order, and nothing waits while no toast is current: the safe half of
  `EveryPressIsTold`.

Assumptions: `"numbers"` and `"special"` are pools, no word is a separator, the empty
string is one, passphrases have a word at least, `Lengths` goes to twice
`MaxMinimum` at most. What a loop computes for every length needs induction, whose library
theorems the provers cannot apply, since they take an operator as a parameter.
`InductionOverSet` states it for a set of numbers and proves it from the theorem that
an injection of a finite set into itself is onto; `InductionDownwards` is the form the
loop needs, and `StagesDefined` shows with it that the recursive function exists.

The proofs of the session and of the generators share a module because both are of the
browser alone; they share no lemma.

Only model-checked: the liveness properties (`DeletionCompletes`, `SpinnerStops`,
`RequestsEnd`, `ResendReturns`, `EveryPressIsTold`), since liveness under
fairness and ENABLED are out of TLAPS' reach. Every invariant, action property and
refinement that a passing run checks has a theorem. No module declares a RECURSIVE
operator.

## Where code and words part

| Run | What the code does | What is said |
|---|---|---|
| `accounts_grace` | the job of a first deletion purges an account that a login reactivated and that was deleted again since, before the second grace period is over; one request at a time suffices | `worker.py:41` "30-day window elapsed"; README "so no job-ID tracking/cancellation is needed" |
| `session_tabs` | a tab saves an item under its own account's key into the vault of the account that another tab logged in | README "generated once per user, actually encrypts every vault item" |

Others that the models contain and no run shows, each the consequence of a guard or a
step named in `hazards`:

* With 2FA the reactivation of a login that the user confirmed is rolled back by the
  challenge's exception, and the token of `verify_2fa` opens nothing
  (`login-form.tsx:90` "identical whether this was a normal login or a confirmed
  reactivation"). The web client has no branch for `TWO_FACTOR_REQUIRED`: such a login
  ends in a toast.
* Two requests with one code both succeed (`core/otp.py:26` "one-time use"): both GET
  before either DELs. `CodeSlot` allows just this, `UsesOverlap` bounds it by the
  submissions there are at once, and `SequentialOneTimeUse` is the theorem for one at a
  time. The later DEL may remove a code that was mailed meanwhile.
* `tests/test_auth.py:28-39` and `71-83` register an account and log in with 200 and an
  `access_token` at once, and the README (line 248) counts them among "10 tests passing".
  `login` challenges an account that is not verified (`auth.py:64-68`), which is what
  `SessionsAreVerified` states and `Accounts` models. The tests look older than the
  verification: the body they register with has no wrapped vault key either, without
  which `create_user` refuses it.
* A 2FA flag or a hint that the row already had when `update_me` loaded it is not written,
  though another request has changed it meanwhile and this one is answered with success:
  the exception in `AccountSettings`.
* An empty ciphertext alone passes the PATCH validator of an item
  (`schemas/vault.py:42` "must be provided together"), and an empty new password that
  of `update_me` (`users.py:94` says what the validator guarantees): both test
  truthiness. Hence `BodiesPaired`, and the exception in `PasswordUnlocksVault`.
* A reload in flight fills the list after the vault was locked (`use-vault-item.tsx:16`
  "clear anything decrypted").
* A reactivation that commits between the guard of the purge and its deletes succeeds,
  and the account is purged: `AccountLifecycle`'s doomed phase.
* A request that dies, or a Redis that is away, between `delete_me`'s commit and its
  `enqueue_job` leaves an account that is never purged: the hypothesis of
  `DeletionScheduled`.
* After a logout the old key stays, so that a login whose `GET /vaults/current` fails
  leaves a tab that encrypts the new account's items under it: what `calm` excludes.
* In the last half second of the cooldown a resend is told that a code was sent when
  none was; the countdown then runs on to a code that is already ending, by at most the
  cooldown. The page rounds as well, so its boxes may close up to half a second before
  the code ends (`ClocksHonest`).
* A dialog that was closed and opened again while its save was outstanding is closed by
  that save's answer (`add-vault-item.tsx:218`).
* The note that minimums exceed the length counts those of pools that are switched off
  (`password-generator.tsx:189`); `generatePassword` does not.
* `SENSITIVE_FIELDS` names `private_key` where the data has `privateKey`, and the
  subtitle of a card reads `last4`, which nothing stores.

Differences in the README's API table that need no run: `verify-otp` answers
without a token (README: "logs in immediately"); `resend-otp` answers
`OTP_COOLDOWN` for unverified accounts only, so its answer is not generic; the
vault is under `/vaults` and `PATCH` of the current user at `/users/users/me`; the
hint job is enqueued and no worker registers it.

## What is not modelled

* Passwords, hashes and ciphertexts as data. A wrong password changes nothing;
  encryption is perfect; two drawn codes differ; UUIDs are never drawn twice.
* `request_hint`, which only enqueues a job, and the backend's `logout` (which only
  deletes the cookie: the token stays good, and `tokens` keeps it). The web client
  has no form for a password change: `Keys` has the route under any client.
* PostgreSQL's isolation below READ COMMITTED commits: a commit is one step.
  Redis and arq beyond the commands the code uses; a job that is not picked up
  within a day of its due time is dropped by arq, which `JobFails` covers only
  after its guard.
* Filters, search, copying, revealing and layout of the vault page; items that fail to
  decrypt; GET routes, which only read.
* Of the validators all but `REQUIRE`, which is the only one the dialogs of items use;
  the forms of login and signup use the same `Input`s without initial values, where
  the effect that hands values back is never due. Of the dialogs `serverError`,
  `touched` and the favourite's star.
* In `Form`, an event between two runs of effects (`Patient`). If React took a second
  keystroke before the form had rendered the first, the two effects of `input.tsx:101-121`
  could hand each other their values for ever; whether its scheduling lets that happen the
  model cannot decide, and no property claims that it does not. The transition of a
  dialog that closes, during which Material UI keeps its content.
* Entropy and strength estimates (logarithms), letter case, the toasts' keys. Minimums
  typed as fractions, which `Number()` lets through (`password-generator.tsx:171`): the
  model has naturals, and a fraction counts as the next one.
* `core/queue.py`: two first requests may each create a pool, and the one that is
  overwritten is never closed. Jobs go through either; what is lost is a connection,
  which is a resource no other part of the code looks at.
* Migrations, mail templates, styling, configuration: no behaviour to check.

## Plan

Done: `Accounts`, `AccountLifecycle`, `AccountsProofs`; `Otp`, `CodeSlot`, `OtpProofs`;
`VaultItems`, `ItemStore`, `VaultItemsProofs`; `VaultList`, `VaultListProofs`;
`Session`, `BrowserProofs`; `Keys`, `AccountSettings`, `KeysProofs`; `VerifyPage`,
`VerifyPageProofs`; `Form`, `FormProofs`; `Toasts`, `Generator`.

Left, in this order:

1. How far the two expiry times of `VerifyPage`, whose `issue_otp` is one step, may be
   from those of `Otp` with a single issuing request, where time passes between them.
2. `Session` with more than one form per tab under way, and with `Keys`' failing
   `unwrapVaultKey` after a change of the password in another tab.
3. The pool of jobs, if connections come to be counted.
