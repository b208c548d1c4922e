----------------------------- MODULE VaultList -----------------------------
(***************************************************************************)
(* The vault page: useVaultItems, VaultItemList and its dialogs, against    *)
(* the rows of one account on the server.                                   *)
(*                                                                         *)
(* JavaScript runs one handler at a time, to its next await.  Between a     *)
(* fetch and the handler's continuation the server serves it, or not, other *)
(* fetches overtake it, and the user goes on clicking.  A continuation uses *)
(* the variables its handler closed over, not what they are by then.        *)
(*                                                                         *)
(* An item is a title, which stands for everything that is encrypted, and a *)
(* favourite flag.                                                          *)
(***************************************************************************)
EXTENDS Naturals, FiniteSets

CONSTANTS
    Ids,        \* primary keys of vault_items
    Titles,
    Fetches,    \* bound: requests the page has outstanding at once
    NoItem      \* not (yet, or any longer) an item

Item == [title : Titles, fav : BOOLEAN]
ASSUME NoItemAssumption == NoItem \notin Item \cup Ids

VARIABLES
    server,     \* what the server holds of each id
    drawn,      \* ids the server has given out
    unlocked,   \* vaultKey is not null
    items,      \* the decrypted list
    isLoading,
    error,      \* error is not null
    dialog,     \* selectedItem, editingItem, deleteTarget and modalOpen
    fetch,      \* the outstanding requests
    calm        \* history: whether the page has had one thing to do at a time

vars == <<server, drawn, unlocked, items, isLoading, error, dialog, fetch, calm>>

Maybe == Item \cup {NoItem}
Listing == [Ids -> Maybe]
NoItems == [i \in Ids |-> NoItem]

\* item is the copy of the item that the detail dialog was opened with.
Dialog == [kind : {"none", "detail", "edit", "add", "delete"}, id : Ids \cup {NoItem}, item : Maybe]
NoDialog == [kind |-> "none", id |-> NoItem, item |-> NoItem]

\* st: on its way, answered, or failed.  body is what is sent, listing what a
\* GET is answered.  mounted: the dialog that sent it is still the one on the
\* screen.  detail: the toggle came from the detail dialog.
Fetch == [kind : {"none", "reload", "toggle", "edit", "add", "delete"},
          st : {"sent", "ok", "failed"}, id : Ids \cup {NoItem}, body : Maybe,
          listing : Listing, mounted : BOOLEAN, detail : BOOLEAN]
NoFetch == [kind |-> "none", st |-> "sent", id |-> NoItem, body |-> NoItem,
            listing |-> NoItems, mounted |-> FALSE, detail |-> FALSE]

Send(kind, i, body, detail) ==
    [kind |-> kind, st |-> "sent", id |-> i, body |-> body, listing |-> NoItems,
     mounted |-> kind \in {"edit", "add", "delete"}, detail |-> detail]

Outstanding == {s \in Fetches : fetch[s] # NoFetch}

\* What the page renders: the list, or the empty vault with its Add button.
PageShown == unlocked /\ ~isLoading /\ ~error
DialogShown ==
    /\ PageShown
    /\ dialog.kind # "none"
    /\ items = NoItems => dialog.kind = "add"

\* isSubmitting and isDeleting, which live in the dialog's own state.
Busy(kind) == \E s \in Fetches : fetch[s].kind = kind /\ fetch[s].mounted

Unmounted(f) == [s \in Fetches |-> [f[s] EXCEPT !.mounted = FALSE]]

\* The user acts: calm, if nothing else was under way.
Act == calm' = (calm /\ Outstanding = {})

-----------------------------------------------------------------------------
(* Mutants: what a bug would make of the definitions below *)

\* toggleFavorite without its catch.
RollbackForgotten(s) == items

\* toggleFavorite that puts back the item it was called with.
RollbackWhole(s) == [items EXCEPT ![fetch[s].id] = [fetch[s].body EXCEPT !.fav = ~@]]

\* The detail dialog opens another one without telling it the item.
OpenFromDetailBlank(kind) ==
    /\ DialogShown /\ dialog.kind = "detail"
    /\ dialog' = [NoDialog EXCEPT !.kind = kind]
    /\ UNCHANGED <<server, drawn, unlocked, items, isLoading, error, fetch, calm>>

\* reload whose setIsLoading(false) is not in a finally.
ReloadFailsLoading(s) ==
    /\ fetch[s].kind = "reload" /\ fetch[s].st = "failed"
    /\ error' = TRUE
    /\ fetch' = Unmounted([fetch EXCEPT ![s] = NoFetch])
    /\ calm' = FALSE
    /\ UNCHANGED <<server, drawn, unlocked, items, isLoading, dialog>>

-----------------------------------------------------------------------------
(* reload *)

\* The part of reload before its await, started by slot s, with whatever else
\* happened in the same turn.
StartReload(s, f, d) ==
    /\ isLoading' = TRUE
    /\ error' = FALSE
    /\ fetch' = Unmounted([f EXCEPT ![s] = Send("reload", NoItem, NoItem, FALSE)])
    /\ calm' = (Outstanding \subseteq {s} /\ d.kind # "detail")

\* All items decrypt: the key is the account's.  The list is replaced whatever
\* became of vaultKey, or of another reload, in the meantime.
ReloadArrives(s) ==
    /\ fetch[s].kind = "reload" /\ fetch[s].st = "ok"
    /\ items' = fetch[s].listing
    /\ isLoading' = FALSE
    /\ fetch' = [fetch EXCEPT ![s] = NoFetch]
    /\ UNCHANGED <<server, drawn, unlocked, error, dialog, calm>>

ReloadFails(s) ==
    /\ fetch[s].kind = "reload" /\ fetch[s].st = "failed"
    /\ error' = TRUE
    /\ isLoading' = FALSE
    /\ fetch' = Unmounted([fetch EXCEPT ![s] = NoFetch])
    /\ calm' = FALSE
    /\ UNCHANGED <<server, drawn, unlocked, items, dialog>>

-----------------------------------------------------------------------------
(* Unlocking and locking *)

\* setVaultKey, and the effect that runs the reload of the new key.
Unlock(s) ==
    /\ ~unlocked
    /\ fetch[s] = NoFetch
    /\ unlocked' = TRUE
    /\ StartReload(s, fetch, dialog)
    /\ UNCHANGED <<server, drawn, items, dialog>>

\* Lock Vault, in the shell: a dialog in front of it takes the clicks.  The
\* effect runs the reload without a key.
Lock ==
    /\ unlocked /\ ~DialogShown
    /\ unlocked' = FALSE
    /\ items' = NoItems
    /\ isLoading' = FALSE
    /\ fetch' = Unmounted(fetch)
    /\ UNCHANGED <<server, drawn, error, dialog, calm>>

-----------------------------------------------------------------------------
(* toggleFavorite *)

Favour(l, i, f) == IF l[i] = NoItem THEN l ELSE [l EXCEPT ![i].fav = f]

\* The optimistic update, and the PATCH.
StartToggle(s, item, i, detail) ==
    /\ fetch[s] = NoFetch
    /\ items' = Favour(items, i, ~item.fav)
    /\ fetch' = [fetch EXCEPT ![s] = Send("toggle", i, [item EXCEPT !.fav = ~@], detail)]
    /\ Act
    /\ UNCHANGED <<server, drawn, unlocked, isLoading, error, dialog>>

Toggle(s, i) ==
    /\ PageShown /\ ~DialogShown
    /\ items[i] # NoItem
    /\ StartToggle(s, items[i], i, FALSE)

\* From the detail dialog it is the dialog's copy that is toggled ...
ToggleDetail(s) ==
    /\ DialogShown /\ dialog.kind = "detail"
    /\ StartToggle(s, dialog.item, dialog.id, TRUE)

\* ... and handleToggleFavorite flips it once the answer is there.
ToggleArrives(s) ==
    /\ fetch[s].kind = "toggle" /\ fetch[s].st = "ok"
    /\ dialog' = IF fetch[s].detail /\ dialog.kind = "detail" /\ dialog.id = fetch[s].id
                 THEN [dialog EXCEPT !.item.fav = ~@] ELSE dialog
    /\ fetch' = [fetch EXCEPT ![s] = NoFetch]
    /\ UNCHANGED <<server, drawn, unlocked, items, isLoading, error, calm>>

Rollback(s) == Favour(items, fetch[s].id, ~fetch[s].body.fav)

ToggleFails(s) ==
    /\ fetch[s].kind = "toggle" /\ fetch[s].st = "failed"
    /\ items' = Rollback(s)
    /\ fetch' = [fetch EXCEPT ![s] = NoFetch]
    /\ UNCHANGED <<server, drawn, unlocked, isLoading, error, dialog, calm>>

-----------------------------------------------------------------------------
(* Dialogs *)

OpenDetail(i) ==
    /\ PageShown /\ ~DialogShown
    /\ items[i] # NoItem
    /\ dialog' = [kind |-> "detail", id |-> i, item |-> items[i]]
    /\ Act
    /\ UNCHANGED <<server, drawn, unlocked, items, isLoading, error, fetch>>

\* onEdit and onDeleteRequest of the detail dialog.
OpenFromDetail(kind) ==
    /\ DialogShown /\ dialog.kind = "detail"
    /\ dialog' = [kind |-> kind, id |-> dialog.id, item |-> NoItem]
    /\ UNCHANGED <<server, drawn, unlocked, items, isLoading, error, fetch, calm>>

\* A dialog that an empty list hides is taken to be closed by this one.
OpenAdd ==
    /\ PageShown /\ ~DialogShown
    /\ dialog' = [NoDialog EXCEPT !.kind = "add"]
    /\ UNCHANGED <<server, drawn, unlocked, items, isLoading, error, fetch, calm>>

\* The form can be closed while it submits, the delete dialog cannot.
CloseDialog ==
    /\ DialogShown
    /\ dialog.kind = "delete" => ~Busy("delete")
    /\ dialog' = NoDialog
    /\ UNCHANGED <<server, drawn, unlocked, items, isLoading, error, fetch, calm>>

\* submitHandler and handleDelete, up to their fetch.
Submit(s) ==
    /\ DialogShown /\ dialog.kind \in {"edit", "add", "delete"}
    /\ ~Busy(dialog.kind)
    /\ fetch[s] = NoFetch
    /\ \E body \in IF dialog.kind = "delete" THEN {NoItem}
                   ELSE {b \in Item : dialog.kind = "add" => ~b.fav} :
         fetch' = [fetch EXCEPT ![s] = Send(dialog.kind, dialog.id, body, FALSE)]
    /\ Act
    /\ UNCHANGED <<server, drawn, unlocked, items, isLoading, error, dialog>>

\* onCreated or onDeleted, which is the reload of the key there was when the
\* form was submitted, and onClose, which closes whatever such dialog is open.
SaveArrives(s) ==
    /\ fetch[s].kind \in {"edit", "add", "delete"} /\ fetch[s].st = "ok"
    /\ dialog' = IF dialog.kind = fetch[s].kind THEN NoDialog ELSE dialog
    /\ StartReload(s, fetch, dialog)
    /\ UNCHANGED <<server, drawn, unlocked, items>>

\* The dialog shows the error and stays.
SaveFails(s) ==
    /\ fetch[s].kind \in {"edit", "add", "delete"} /\ fetch[s].st = "failed"
    /\ fetch' = [fetch EXCEPT ![s] = NoFetch]
    /\ UNCHANGED <<server, drawn, unlocked, items, isLoading, error, dialog, calm>>

-----------------------------------------------------------------------------
(* The server, as module VaultItems describes it, and the network *)

Answer(s, st) == fetch' = [fetch EXCEPT ![s].st = st]

Serve(s) ==
    LET f == fetch[s] IN
    /\ f # NoFetch /\ f.st = "sent"
    /\ \/ /\ f.kind = "reload"
          /\ fetch' = [fetch EXCEPT ![s] = [@ EXCEPT !.st = "ok", !.listing = server]]
          /\ UNCHANGED <<server, drawn>>
       \/ /\ f.kind = "add"
          /\ \E i \in Ids \ drawn :
               /\ server' = [server EXCEPT ![i] = f.body]
               /\ drawn' = drawn \cup {i}
          /\ Answer(s, "ok")
       \/ /\ f.kind \in {"toggle", "edit", "delete"} /\ server[f.id] # NoItem
          /\ server' = IF f.kind = "toggle" THEN Favour(server, f.id, f.body.fav)
                                            ELSE [server EXCEPT ![f.id] = f.body]
          /\ Answer(s, "ok")
          /\ UNCHANGED drawn
    /\ UNCHANGED <<unlocked, items, isLoading, error, dialog, calm>>

\* 401, 404 or 5xx, or the request never gets there.
Refuse(s) ==
    /\ fetch[s] # NoFetch /\ fetch[s].st = "sent"
    /\ Answer(s, "failed")
    /\ UNCHANGED <<server, drawn, unlocked, items, isLoading, error, dialog, calm>>

\* The request was served, and its answer is lost.
LoseAnswer(s) ==
    /\ fetch[s].st = "ok"
    /\ Answer(s, "failed")
    /\ calm' = FALSE
    /\ UNCHANGED <<server, drawn, unlocked, items, isLoading, error, dialog>>

\* The account is open on another device.
OtherClient ==
    /\ \E i \in drawn, new \in Maybe :
         /\ server[i] # NoItem
         /\ server' = [server EXCEPT ![i] = new]
    /\ calm' = FALSE
    /\ UNCHANGED <<drawn, unlocked, items, isLoading, error, dialog, fetch>>

-----------------------------------------------------------------------------

\* The page is mounted without a key, or, after a login, with one.
Init ==
    /\ \E held \in SUBSET Ids :
         /\ drawn = held
         /\ server \in {l \in Listing : \A i \in Ids : l[i] # NoItem <=> i \in held}
    /\ items = NoItems
    /\ error = FALSE
    /\ dialog = NoDialog
    /\ calm = TRUE
    /\ \/ /\ unlocked = FALSE /\ isLoading = FALSE
          /\ fetch = [s \in Fetches |-> NoFetch]
       \/ /\ unlocked = TRUE /\ isLoading = TRUE
          /\ \E s \in Fetches :
               fetch = [q \in Fetches |-> IF q = s THEN Send("reload", NoItem, NoItem, FALSE)
                                                   ELSE NoFetch]

User ==
    \/ \E s \in Fetches :
         \/ Unlock(s) \/ ToggleDetail(s) \/ Submit(s)
         \/ \E i \in Ids : Toggle(s, i)
    \/ Lock \/ OpenAdd \/ CloseDialog
    \/ \E i \in Ids : OpenDetail(i)
    \/ \E kind \in {"edit", "delete"} : OpenFromDetail(kind)

Continue(s) ==
    \/ ReloadArrives(s) \/ ReloadFails(s)
    \/ ToggleArrives(s) \/ ToggleFails(s)
    \/ SaveArrives(s) \/ SaveFails(s)

Network(s) == Serve(s) \/ Refuse(s)

Next ==
    \/ User
    \/ \E s \in Fetches : Continue(s) \/ Network(s) \/ LoseAnswer(s)
    \/ OtherClient

Spec == Init /\ [][Next]_vars

\* The network answers or gives up, and the browser runs the continuation.  The
\* user need not do anything.
FairSpec ==
    /\ Spec
    /\ \A s \in Fetches : WF_vars(Continue(s)) /\ WF_vars(Network(s))

-----------------------------------------------------------------------------
(* Properties *)

TypeOK ==
    /\ server \in Listing /\ items \in Listing
    /\ drawn \subseteq Ids
    /\ \A i \in Ids \ drawn : server[i] = NoItem
    /\ unlocked \in BOOLEAN /\ isLoading \in BOOLEAN /\ error \in BOOLEAN /\ calm \in BOOLEAN
    /\ dialog \in Dialog
    /\ dialog.kind \in {"detail", "edit", "delete"} <=> dialog.id \in Ids
    /\ dialog.kind = "detail" <=> dialog.item \in Item
    /\ fetch \in [Fetches -> Fetch]
    /\ \A s \in Fetches :
         /\ fetch[s].kind \in {"toggle", "edit", "delete"} <=> fetch[s].id \in Ids
         /\ fetch[s].kind \in {"toggle", "edit", "add"} => fetch[s].body \in Item

\* As long as one thing is going on at a time, and no answer is lost, the list
\* is what the server holds once everything has been answered: optimistic
\* updates, their rollback, and the reload after a save add up.  A reload that
\* runs alone gets the list back to that after any amount of overlap, and an
\* open detail dialog agrees with the list.
QuietPageIsServer ==
    (calm /\ Outstanding = {} /\ unlocked) =>
        /\ items = server
        /\ PageShown
        /\ dialog.kind = "detail" => dialog.item = items[dialog.id]

\* What is shown of an item changes only by a reload, or by locking; a toggle
\* and its late rollback touch nothing but the flag, and bring back no item
\* that a reload has removed meanwhile.
OnlyReloadsRetitle ==
    [][\A i \in Ids :
         \/ items'[i] = items[i]
         \/ items[i] # NoItem /\ items'[i] # NoItem /\ items'[i].title = items[i].title
         \/ ~unlocked'
         \/ \E s \in Fetches : fetch[s].kind = "reload" /\ fetch'[s] = NoFetch]_vars

\* The spinner does not stay: however reloads overlap, fail and outlive a lock,
\* one of them ends the loading that it started.
SpinnerStops == isLoading ~> ~isLoading
=============================================================================
