-------------------------- MODULE VaultListProofs ---------------------------
(***************************************************************************)
(* Theorems about VaultList, for any number of items, titles and           *)
(* outstanding requests.                                                   *)
(***************************************************************************)
EXTENDS VaultList, TLAPS

\* The steps of one slot, and the user's steps that send nothing.
SlotNext(s) ==
    \/ Unlock(s) \/ ToggleDetail(s) \/ Submit(s) \/ (\E i \in Ids : Toggle(s, i))
    \/ ReloadArrives(s) \/ ReloadFails(s) \/ ToggleArrives(s) \/ ToggleFails(s)
    \/ SaveArrives(s) \/ SaveFails(s) \/ Serve(s) \/ Refuse(s) \/ LoseAnswer(s)

DialogNext ==
    \/ (\E i \in Ids : OpenDetail(i)) \/ (\E kind \in {"edit", "delete"} : OpenFromDetail(kind))
    \/ OpenAdd \/ CloseDialog

LEMMA NextCases ==
    ASSUME [Next]_vars
    PROVE  \/ \E s \in Fetches : SlotNext(s)
           \/ DialogNext \/ Lock \/ OtherClient \/ UNCHANGED vars
  BY DEF Next, User, Continue, Network, SlotNext, DialogNext

-----------------------------------------------------------------------------
(* The operators *)

LEMMA MaybeFields ==
    ASSUME NEW l \in Listing, NEW i \in Ids
    PROVE  /\ l[i] \in Maybe
           /\ l[i] # NoItem => /\ l[i].title \in Titles /\ l[i].fav \in BOOLEAN
                               /\ l[i] = [title |-> l[i].title, fav |-> l[i].fav]
  BY DEF Listing, Maybe, Item

\* setItems of toggleFavorite: the flag of one item, and of none that is not there.
LEMMA FavourSpec ==
    ASSUME NEW l \in Listing, NEW i \in Ids, NEW f \in BOOLEAN
    PROVE  /\ Favour(l, i, f) \in Listing
           /\ \A j \in Ids : Favour(l, i, f)[j] =
                IF j = i /\ l[i] # NoItem THEN [title |-> l[i].title, fav |-> f] ELSE l[j]
  <1>1. CASE l[i] = NoItem
    BY <1>1 DEF Favour
  <1>2. CASE l[i] # NoItem
    <2>1. l[i].title \in Titles /\ l[i] = [title |-> l[i].title, fav |-> l[i].fav]
      BY <1>2, MaybeFields
    <2>2. [l[i] EXCEPT !.fav = f] = [title |-> l[i].title, fav |-> f]
      BY <2>1
    <2>3. [title |-> l[i].title, fav |-> f] \in Maybe
      BY <2>1 DEF Maybe, Item
    <2>4. Favour(l, i, f) = [l EXCEPT ![i] = [title |-> l[i].title, fav |-> f]]
      BY <1>2, <2>2 DEF Favour, Listing
    <2> QED BY <1>2, <2>3, <2>4 DEF Listing
  <1> QED BY <1>1, <1>2

-----------------------------------------------------------------------------
(* Types *)

\* What is known of one slot; one of no kind is free.
FetchOK(f) ==
    /\ f \in Fetch
    /\ f.kind \in {"toggle", "edit", "delete"} <=> f.id \in Ids
    /\ f.kind \in {"toggle", "edit", "add"} => f.body \in Item
    /\ f.kind = "none" => f = NoFetch

FetchesOK(f) == f \in [Fetches -> Fetch] /\ \A s \in Fetches : FetchOK(f[s])

DialogOK(d) ==
    /\ d \in Dialog
    /\ d.kind \in {"detail", "edit", "delete"} <=> d.id \in Ids
    /\ d.kind = "detail" <=> d.item \in Item

DataOK ==
    /\ server \in Listing /\ items \in Listing
    /\ drawn \subseteq Ids
    /\ \A i \in Ids \ drawn : server[i] = NoItem
    /\ unlocked \in BOOLEAN /\ isLoading \in BOOLEAN /\ error \in BOOLEAN /\ calm \in BOOLEAN

TypeInv == DataOK /\ DialogOK(dialog) /\ FetchesOK(fetch)

LEMMA TypeInvTypes == TypeInv => TypeOK
  BY DEF TypeInv, DataOK, DialogOK, FetchesOK, FetchOK, TypeOK

LEMMA NoItemsType == NoItems \in Listing
  BY DEF NoItems, Listing, Maybe

LEMMA NoFetchOK == FetchOK(NoFetch) /\ NoFetch.kind = "none" /\ NoFetch.mounted = FALSE
  BY NoItemsType, NoItemAssumption DEF FetchOK, NoFetch, Fetch, Maybe

LEMMA NoDialogOK == DialogOK(NoDialog) /\ NoDialog.kind = "none"
  BY NoItemAssumption DEF DialogOK, NoDialog, Dialog, Maybe

LEMMA SendOK ==
    ASSUME NEW kind \in {"reload", "toggle", "edit", "add", "delete"},
           NEW i \in Ids \cup {NoItem}, NEW body \in Maybe, NEW detail \in BOOLEAN,
           kind \in {"toggle", "edit", "delete"} <=> i \in Ids,
           kind \in {"toggle", "edit", "add"} => body \in Item
    PROVE  FetchOK(Send(kind, i, body, detail))
  BY NoItemsType DEF FetchOK, Send, Fetch

\* What is sent for an item, and for none.
LEMMA SendReload == FetchOK(Send("reload", NoItem, NoItem, FALSE))
  BY SendOK, NoItemAssumption DEF Maybe

LEMMA UpdateOK ==
    ASSUME NEW f, FetchesOK(f), NEW s \in Fetches, NEW g, FetchOK(g)
    PROVE  LET h == [f EXCEPT ![s] = g] IN
           FetchesOK(h) /\ \A q \in Fetches : h[q] = IF q = s THEN g ELSE f[q]
  BY DEF FetchesOK, FetchOK

\* What an update of a field, or of two, makes of a request.
LEMMA FetchUpdates ==
    ASSUME NEW f \in Fetch, NEW x
    PROVE  /\ [f EXCEPT !.mounted = x] =
                [kind |-> f.kind, st |-> f.st, id |-> f.id, body |-> f.body,
                 listing |-> f.listing, mounted |-> x, detail |-> f.detail]
           /\ [f EXCEPT !.st = x] =
                [kind |-> f.kind, st |-> x, id |-> f.id, body |-> f.body,
                 listing |-> f.listing, mounted |-> f.mounted, detail |-> f.detail]
  <1> DEFINE K == {"none", "reload", "toggle", "edit", "add", "delete"}
             S == {"sent", "ok", "failed"}
             I == Ids \cup {NoItem}
  <1>1. f \in [kind : K, st : S, id : I, body : Maybe, listing : Listing,
               mounted : BOOLEAN, detail : BOOLEAN]
    BY DEF Fetch
  <1> HIDE DEF K, S, I
  <1> QED BY <1>1

LEMMA FetchListed ==
    ASSUME NEW f \in Fetch, NEW x, NEW y
    PROVE  [f EXCEPT !.st = x, !.listing = y] =
             [kind |-> f.kind, st |-> x, id |-> f.id, body |-> f.body,
              listing |-> y, mounted |-> f.mounted, detail |-> f.detail]
  <1>1. [[kind |-> f.kind, st |-> x, id |-> f.id, body |-> f.body, listing |-> f.listing,
          mounted |-> f.mounted, detail |-> f.detail] EXCEPT !.listing = y] =
           [kind |-> f.kind, st |-> x, id |-> f.id, body |-> f.body,
            listing |-> y, mounted |-> f.mounted, detail |-> f.detail]
    OBVIOUS
  <1>2. [f EXCEPT !.st = x] =
           [kind |-> f.kind, st |-> x, id |-> f.id, body |-> f.body,
            listing |-> f.listing, mounted |-> f.mounted, detail |-> f.detail]
    BY FetchUpdates
  <1> QED BY <1>1, <1>2, Zenon

\* A page whose dialogs are gone keeps its requests.
LEMMA UnmountedSpec ==
    ASSUME NEW f, FetchesOK(f)
    PROVE  /\ FetchesOK(Unmounted(f))
           /\ \A q \in Fetches :
                /\ Unmounted(f)[q].kind = f[q].kind /\ Unmounted(f)[q].st = f[q].st
                /\ Unmounted(f)[q].id = f[q].id /\ Unmounted(f)[q].body = f[q].body
                /\ Unmounted(f)[q].listing = f[q].listing
                /\ Unmounted(f)[q].detail = f[q].detail
                /\ f[q] = NoFetch => Unmounted(f)[q] = NoFetch
  <1>1. ASSUME NEW q \in Fetches
        PROVE  LET g == [f[q] EXCEPT !.mounted = FALSE] IN
               /\ FetchOK(g)
               /\ g.kind = f[q].kind /\ g.st = f[q].st /\ g.id = f[q].id /\ g.body = f[q].body
               /\ g.listing = f[q].listing /\ g.detail = f[q].detail
               /\ f[q] = NoFetch => g = NoFetch
    <2> DEFINE g == [f[q] EXCEPT !.mounted = FALSE]
    <2>1. f[q] \in Fetch /\ FetchOK(f[q])
      BY DEF FetchesOK
    <2>2. g = [kind |-> f[q].kind, st |-> f[q].st, id |-> f[q].id, body |-> f[q].body,
               listing |-> f[q].listing, mounted |-> FALSE, detail |-> f[q].detail]
      BY <2>1, FetchUpdates, Zenon
    <2>3. f[q] = NoFetch => g = NoFetch
      BY <2>2 DEF NoFetch
    <2>4. /\ g.kind = f[q].kind /\ g.st = f[q].st /\ g.id = f[q].id /\ g.body = f[q].body
          /\ g.listing = f[q].listing /\ g.detail = f[q].detail
      BY <2>2
    <2>5. g \in Fetch
      BY <2>1, <2>2 DEF Fetch
    <2> HIDE DEF g
    <2>6. FetchOK(g)
      BY <2>1, <2>3, <2>4, <2>5 DEF FetchOK
    <2> QED BY <2>3, <2>4, <2>6 DEF g
  <1> QED BY <1>1 DEF Unmounted, FetchesOK, FetchOK

\* The server answers, or the network gives up: nothing else of a request changes.
LEMMA AnswerOK ==
    ASSUME FetchesOK(fetch), NEW s \in Fetches, NEW st \in {"sent", "ok", "failed"},
           fetch[s] # NoFetch, Answer(s, st)
    PROVE  /\ FetchesOK(fetch')
           /\ \A q \in Fetches : q # s => fetch'[q] = fetch[q]
           /\ fetch'[s].st = st /\ fetch'[s].kind = fetch[s].kind /\ fetch'[s].id = fetch[s].id
           /\ fetch'[s].body = fetch[s].body /\ fetch'[s].detail = fetch[s].detail
           /\ fetch'[s].listing = fetch[s].listing
  <1> DEFINE g == [kind |-> fetch[s].kind, st |-> st, id |-> fetch[s].id,
                   body |-> fetch[s].body, listing |-> fetch[s].listing,
                   mounted |-> fetch[s].mounted, detail |-> fetch[s].detail]
  <1>1. fetch[s] \in Fetch /\ FetchOK(fetch[s]) /\ fetch \in [Fetches -> Fetch]
    BY DEF FetchesOK
  <1>2. fetch' = [fetch EXCEPT ![s] = g]
    <2>1. [fetch[s] EXCEPT !.st = st] = g
      BY <1>1, FetchUpdates, Zenon
    <2>2. fetch' = [fetch EXCEPT ![s] = [fetch[s] EXCEPT !.st = st]]
      BY DEF Answer
    <2> QED BY <2>1, <2>2, Zenon
  <1>3. FetchOK(g) /\ g \in Fetch
    BY <1>1 DEF FetchOK, Fetch
  <1>4. /\ g.st = st /\ g.kind = fetch[s].kind /\ g.id = fetch[s].id /\ g.body = fetch[s].body
        /\ g.detail = fetch[s].detail /\ g.listing = fetch[s].listing
    OBVIOUS
  <1> HIDE DEF g
  <1>5. /\ FetchesOK(fetch')
        /\ \A q \in Fetches : fetch'[q] = IF q = s THEN g ELSE fetch[q]
    BY <1>1, <1>2, <1>3 DEF FetchesOK
  <1> QED BY <1>4, <1>5

\* A reload is answered with what the server holds.
LEMMA AnswerReloadOK ==
    ASSUME FetchesOK(fetch), server \in Listing, NEW s \in Fetches, fetch[s].kind = "reload",
           fetch' = [fetch EXCEPT ![s] = [@ EXCEPT !.st = "ok", !.listing = server]]
    PROVE  /\ FetchesOK(fetch')
           /\ \A q \in Fetches : q # s => fetch'[q] = fetch[q]
           /\ fetch'[s].st = "ok" /\ fetch'[s].kind = "reload" /\ fetch'[s].listing = server
  <1> DEFINE g == [kind |-> fetch[s].kind, st |-> "ok", id |-> fetch[s].id,
                   body |-> fetch[s].body, listing |-> server,
                   mounted |-> fetch[s].mounted, detail |-> fetch[s].detail]
  <1>1. fetch[s] \in Fetch /\ FetchOK(fetch[s]) /\ fetch \in [Fetches -> Fetch]
    BY DEF FetchesOK
  <1>2. fetch' = [fetch EXCEPT ![s] = g]
    <2>1. [fetch[s] EXCEPT !.st = "ok", !.listing = server] = g
      BY <1>1, FetchListed
    <2> QED BY <2>1
  <1>3. FetchOK(g) /\ g \in Fetch
    BY <1>1 DEF FetchOK, Fetch
  <1>4. g.st = "ok" /\ g.kind = "reload" /\ g.listing = server
    OBVIOUS
  <1> HIDE DEF g
  <1>5. /\ FetchesOK(fetch')
        /\ \A q \in Fetches : fetch'[q] = IF q = s THEN g ELSE fetch[q]
    BY <1>1, <1>2, <1>3 DEF FetchesOK
  <1> QED BY <1>4, <1>5

\* reload up to its await: one slot holds it, the others keep theirs.
LEMMA StartReloadOK ==
    ASSUME FetchesOK(fetch), NEW s \in Fetches, NEW d, StartReload(s, fetch, d)
    PROVE  /\ FetchesOK(fetch')
           /\ fetch'[s].kind = "reload" /\ fetch'[s].st = "sent"
           /\ \A q \in Fetches : q # s => (fetch[q] = NoFetch => fetch'[q] = NoFetch)
           /\ isLoading' = TRUE /\ error' = FALSE
           /\ calm' = (Outstanding \subseteq {s} /\ d.kind # "detail")
  <1> DEFINE g == Send("reload", NoItem, NoItem, FALSE)
             h == [fetch EXCEPT ![s] = g]
  <1>1. fetch' = Unmounted(h)
    BY DEF StartReload
  <1>2. g.kind = "reload" /\ g.st = "sent" /\ FetchOK(g)
    BY SendReload DEF Send
  <1> HIDE DEF g
  <1>3. FetchesOK(h) /\ \A q \in Fetches : h[q] = IF q = s THEN g ELSE fetch[q]
    BY <1>2, UpdateOK
  <1> HIDE DEF h
  <1>4. /\ FetchesOK(fetch')
        /\ \A q \in Fetches : /\ fetch'[q].kind = h[q].kind /\ fetch'[q].st = h[q].st
                              /\ h[q] = NoFetch => fetch'[q] = NoFetch
    BY <1>1, <1>3, UnmountedSpec
  <1>5. isLoading' = TRUE /\ error' = FALSE /\ calm' = (Outstanding \subseteq {s} /\ d.kind # "detail")
    BY DEF StartReload
  <1> QED BY <1>2, <1>3, <1>4, <1>5

\* handleToggleFavorite on the copy that the detail dialog holds.
LEMMA FlipOK ==
    ASSUME NEW d, DialogOK(d), d.kind = "detail"
    PROVE  LET e == [d EXCEPT !.item.fav = ~@] IN
           /\ DialogOK(e)
           /\ e = [kind |-> "detail", id |-> d.id,
                   item |-> [title |-> d.item.title, fav |-> ~d.item.fav]]
  <1> DEFINE K == {"none", "detail", "edit", "add", "delete"}
             I == Ids \cup {NoItem}
             n == [title |-> d.item.title, fav |-> ~d.item.fav]
             e == [kind |-> "detail", id |-> d.id, item |-> n]
  <1>1. d \in [kind : K, id : I, item : Maybe] /\ d.item \in Item /\ d.id \in Ids
    BY DEF DialogOK, Dialog
  <1>2. [d.item EXCEPT !.fav = ~@] = n /\ n \in Item
    BY <1>1 DEF Item
  <1>3. [d EXCEPT !.item.fav = ~@] = [d EXCEPT !.item = [d.item EXCEPT !.fav = ~@]]
    OBVIOUS
  <1> HIDE DEF K, I, n
  <1>4. [d EXCEPT !.item = n] = e
    BY <1>1
  <1>5. [d EXCEPT !.item.fav = ~@] = e
    BY <1>2, <1>3, <1>4, Zenon
  <1>6. DialogOK(e)
    BY <1>1, <1>2 DEF DialogOK, Dialog, Maybe
  <1> QED BY <1>5, <1>6 DEF n

LEMMA TypeInvInit == Init => TypeInv
  <1> SUFFICES ASSUME Init PROVE TypeInv
    OBVIOUS
  <1>1. /\ drawn \subseteq Ids /\ server \in Listing
        /\ \A i \in Ids \ drawn : server[i] = NoItem
    BY DEF Init
  <1>2. FetchesOK(fetch)
    <2>1. CASE fetch = [s \in Fetches |-> NoFetch]
      BY <2>1, NoFetchOK DEF FetchesOK, FetchOK
    <2>2. ASSUME NEW s \in Fetches,
                 fetch = [q \in Fetches |-> IF q = s THEN Send("reload", NoItem, NoItem, FALSE)
                                                     ELSE NoFetch]
          PROVE  FetchesOK(fetch)
      BY <2>2, NoFetchOK, SendReload DEF FetchesOK, FetchOK
    <2> QED BY <2>1, <2>2 DEF Init
  <1>3. DialogOK(dialog)
    BY NoDialogOK DEF Init
  <1>4. /\ items \in Listing
        /\ unlocked \in BOOLEAN /\ isLoading \in BOOLEAN /\ error \in BOOLEAN /\ calm \in BOOLEAN
    BY NoItemsType DEF Init
  <1> QED BY <1>1, <1>2, <1>3, <1>4 DEF TypeInv, DataOK

-----------------------------------------------------------------------------
(* Each handler keeps the types *)

LEMMA ReloadArrivesOK ==
    ASSUME TypeInv, NEW s \in Fetches, ReloadArrives(s)
    PROVE  TypeInv'
  <1>1. FetchesOK(fetch')
    BY NoFetchOK, UpdateOK DEF ReloadArrives, TypeInv
  <1>2. items' \in Listing
    BY DEF ReloadArrives, TypeInv, FetchesOK, FetchOK, Fetch
  <1>3. isLoading' = FALSE /\ UNCHANGED <<server, drawn, unlocked, error, dialog, calm>>
    BY DEF ReloadArrives
  <1> QED BY <1>1, <1>2, <1>3 DEF TypeInv, DataOK

LEMMA ReloadFailsOK ==
    ASSUME TypeInv, NEW s \in Fetches, ReloadFails(s)
    PROVE  TypeInv'
  <1>1. FetchesOK(fetch')
    <2> DEFINE h == [fetch EXCEPT ![s] = NoFetch]
    <2>1. FetchesOK(h)
      BY NoFetchOK, UpdateOK DEF TypeInv
    <2>2. fetch' = Unmounted(h)
      BY DEF ReloadFails
    <2> HIDE DEF h
    <2> QED BY <2>1, <2>2, UnmountedSpec
  <1>2. /\ error' = TRUE /\ isLoading' = FALSE /\ calm' = FALSE
        /\ UNCHANGED <<server, drawn, unlocked, items, dialog>>
    BY DEF ReloadFails
  <1> QED BY <1>1, <1>2 DEF TypeInv, DataOK

LEMMA UnlockOK ==
    ASSUME TypeInv, NEW s \in Fetches, Unlock(s)
    PROVE  TypeInv'
  <1>1. StartReload(s, fetch, dialog) /\ FetchesOK(fetch)
    BY DEF Unlock, TypeInv
  <1>2. FetchesOK(fetch') /\ isLoading' = TRUE /\ error' = FALSE /\ calm' \in BOOLEAN
    BY <1>1, StartReloadOK
  <1>3. unlocked' = TRUE /\ UNCHANGED <<server, drawn, items, dialog>>
    BY DEF Unlock
  <1> QED BY <1>2, <1>3 DEF TypeInv, DataOK

LEMMA SaveArrivesOK ==
    ASSUME TypeInv, NEW s \in Fetches, SaveArrives(s)
    PROVE  TypeInv'
  <1>1. StartReload(s, fetch, dialog) /\ FetchesOK(fetch)
    BY DEF SaveArrives, TypeInv
  <1>2. FetchesOK(fetch') /\ isLoading' = TRUE /\ error' = FALSE /\ calm' \in BOOLEAN
    BY <1>1, StartReloadOK
  <1>3. dialog' \in {dialog, NoDialog} /\ UNCHANGED <<server, drawn, unlocked, items>>
    BY DEF SaveArrives
  <1>4. DialogOK(dialog')
    BY <1>3, NoDialogOK DEF TypeInv
  <1> QED BY <1>2, <1>3, <1>4 DEF TypeInv, DataOK

LEMMA SaveFailsOK ==
    ASSUME TypeInv, NEW s \in Fetches, SaveFails(s)
    PROVE  TypeInv'
  <1>1. FetchesOK(fetch')
    BY NoFetchOK, UpdateOK DEF SaveFails, TypeInv
  <1>2. UNCHANGED <<server, drawn, unlocked, items, isLoading, error, dialog, calm>>
    BY DEF SaveFails
  <1> QED BY <1>1, <1>2 DEF TypeInv, DataOK

LEMMA LockOK ==
    ASSUME TypeInv, Lock
    PROVE  TypeInv'
  <1>1. FetchesOK(fetch')
    BY UnmountedSpec DEF Lock, TypeInv
  <1>2. /\ unlocked' = FALSE /\ items' = NoItems /\ isLoading' = FALSE
        /\ UNCHANGED <<server, drawn, error, dialog, calm>>
    BY DEF Lock
  <1> QED BY <1>1, <1>2, NoItemsType DEF TypeInv, DataOK

\* The optimistic update, and what is sent with it.
LEMMA StartToggleOK ==
    ASSUME TypeInv, NEW s \in Fetches, NEW item \in Item, NEW i \in Ids,
           NEW detail \in BOOLEAN, StartToggle(s, item, i, detail)
    PROVE  /\ TypeInv'
           /\ fetch[s] = NoFetch /\ items' = Favour(items, i, ~item.fav)
           /\ calm' = (calm /\ Outstanding = {})
           /\ \A q \in Fetches : q # s => fetch'[q] = fetch[q]
           /\ fetch'[s].kind = "toggle" /\ fetch'[s].st = "sent" /\ fetch'[s].id = i
           /\ fetch'[s].body.fav = ~item.fav /\ fetch'[s].detail = detail
           /\ UNCHANGED <<server, drawn, unlocked, isLoading, error, dialog>>
  <1> DEFINE b == [title |-> item.title, fav |-> ~item.fav]
             g == Send("toggle", i, b, detail)
  <1>1. [item EXCEPT !.fav = ~@] = b /\ b \in Item /\ b.fav = ~item.fav /\ item.fav \in BOOLEAN
    BY DEF Item
  <1>2. FetchOK(g)
    BY <1>1, SendOK DEF Maybe
  <1>3. g.kind = "toggle" /\ g.st = "sent" /\ g.id = i /\ g.body = b /\ g.detail = detail
    BY DEF Send
  <1> HIDE DEF b
  <1>4. /\ fetch' = [fetch EXCEPT ![s] = g]
        /\ fetch[s] = NoFetch /\ items' = Favour(items, i, ~item.fav)
        /\ calm' = (calm /\ Outstanding = {})
        /\ UNCHANGED <<server, drawn, unlocked, isLoading, error, dialog>>
    BY <1>1 DEF StartToggle, Act
  <1> HIDE DEF g
  <1>5. FetchesOK(fetch') /\ \A q \in Fetches : fetch'[q] = IF q = s THEN g ELSE fetch[q]
    BY <1>2, <1>4 DEF TypeInv, FetchesOK, FetchOK
  <1>6. items' \in Listing
    BY <1>1, <1>4, FavourSpec DEF TypeInv, DataOK
  <1>7. TypeInv'
    BY <1>4, <1>5, <1>6 DEF TypeInv, DataOK
  <1> QED BY <1>1, <1>3, <1>4, <1>5, <1>7

LEMMA ToggleOK ==
    ASSUME TypeInv, NEW s \in Fetches, NEW i \in Ids, Toggle(s, i)
    PROVE  items[i] \in Item /\ StartToggle(s, items[i], i, FALSE)
  BY MaybeFields DEF Toggle, TypeInv, DataOK, Maybe

LEMMA ToggleDetailOK ==
    ASSUME TypeInv, NEW s \in Fetches, ToggleDetail(s)
    PROVE  dialog.item \in Item /\ dialog.id \in Ids /\ StartToggle(s, dialog.item, dialog.id, TRUE)
  BY DEF ToggleDetail, TypeInv, DialogOK

LEMMA ToggleArrivesOK ==
    ASSUME TypeInv, NEW s \in Fetches, ToggleArrives(s)
    PROVE  TypeInv'
  <1>1. FetchesOK(fetch')
    BY NoFetchOK, UpdateOK DEF ToggleArrives, TypeInv
  <1>2. DialogOK(dialog')
    BY FlipOK DEF ToggleArrives, TypeInv
  <1>3. UNCHANGED <<server, drawn, unlocked, items, isLoading, error, calm>>
    BY DEF ToggleArrives
  <1> QED BY <1>1, <1>2, <1>3 DEF TypeInv, DataOK

LEMMA ToggleFailsOK ==
    ASSUME TypeInv, NEW s \in Fetches, ToggleFails(s)
    PROVE  /\ TypeInv'
           /\ fetch[s].id \in Ids /\ fetch[s].body.fav \in BOOLEAN
           /\ items' = Favour(items, fetch[s].id, ~fetch[s].body.fav)
  <1>1. FetchesOK(fetch')
    BY NoFetchOK, UpdateOK DEF ToggleFails, TypeInv
  <1>2. fetch[s].id \in Ids /\ fetch[s].body.fav \in BOOLEAN
    BY DEF ToggleFails, TypeInv, FetchesOK, FetchOK, Item
  <1>3. items' = Favour(items, fetch[s].id, ~fetch[s].body.fav)
    BY DEF ToggleFails, Rollback
  <1>4. items' \in Listing
    BY <1>2, <1>3, FavourSpec DEF TypeInv, DataOK
  <1>5. UNCHANGED <<server, drawn, unlocked, isLoading, error, dialog, calm>>
    BY DEF ToggleFails
  <1>6. TypeInv'
    BY <1>1, <1>4, <1>5 DEF TypeInv, DataOK
  <1> QED BY <1>2, <1>3, <1>6

LEMMA SubmitOK ==
    ASSUME TypeInv, NEW s \in Fetches, Submit(s)
    PROVE  /\ TypeInv'
           /\ fetch[s] = NoFetch /\ dialog.kind # "detail"
           /\ calm' = (calm /\ Outstanding = {})
           /\ \A q \in Fetches : q # s => fetch'[q] = fetch[q]
           /\ fetch'[s].kind \in {"edit", "add", "delete"} /\ fetch'[s].st = "sent"
           /\ UNCHANGED <<server, drawn, unlocked, items, isLoading, error, dialog>>
  <1>1. PICK body \in IF dialog.kind = "delete" THEN {NoItem} ELSE Item :
          fetch' = [fetch EXCEPT ![s] = Send(dialog.kind, dialog.id, body, FALSE)]
    BY DEF Submit
  <1> DEFINE g == Send(dialog.kind, dialog.id, body, FALSE)
  <1>2. /\ dialog.kind \in {"edit", "add", "delete"} /\ dialog.id \in Ids \cup {NoItem}
        /\ dialog.kind \in {"edit", "delete"} <=> dialog.id \in Ids
    BY DEF Submit, TypeInv, DialogOK, Dialog
  <1>3. body \in Maybe /\ (dialog.kind # "delete" => body \in Item)
    BY DEF Maybe
  <1>4. FetchOK(g)
    BY <1>2, <1>3, SendOK
  <1>5. g.kind = dialog.kind /\ g.st = "sent"
    BY DEF Send
  <1>a. fetch' = [fetch EXCEPT ![s] = g]
    BY <1>1
  <1> HIDE DEF g
  <1>6. FetchesOK(fetch') /\ \A q \in Fetches : fetch'[q] = IF q = s THEN g ELSE fetch[q]
    BY <1>a, <1>4 DEF TypeInv, FetchesOK, FetchOK
  <1>7. /\ fetch[s] = NoFetch /\ calm' = (calm /\ Outstanding = {})
        /\ UNCHANGED <<server, drawn, unlocked, items, isLoading, error, dialog>>
    BY DEF Submit, Act
  <1>8. TypeInv'
    BY <1>6, <1>7 DEF TypeInv, DataOK
  <1> QED BY <1>2, <1>5, <1>6, <1>7, <1>8

\* Of the server: an answer, and what the write made of the rows.
LEMMA ServeOK ==
    ASSUME TypeInv, NEW s \in Fetches, Serve(s)
    PROVE  /\ TypeInv'
           /\ fetch[s] # NoFetch /\ fetch[s].st = "sent"
           /\ \A q \in Fetches : q # s => fetch'[q] = fetch[q]
           /\ fetch'[s].kind = fetch[s].kind /\ fetch'[s].st = "ok"
           /\ fetch[s].kind = "reload" => fetch'[s].listing = server /\ server' = server
           /\ fetch[s].kind = "toggle" =>
                /\ fetch'[s].id = fetch[s].id /\ fetch'[s].body = fetch[s].body
                /\ fetch'[s].detail = fetch[s].detail
                /\ server' = Favour(server, fetch[s].id, fetch[s].body.fav)
           /\ UNCHANGED <<unlocked, items, isLoading, error, dialog, calm>>
  <1>1. /\ fetch[s] # NoFetch /\ fetch[s].st = "sent" /\ FetchesOK(fetch) /\ FetchOK(fetch[s])
        /\ UNCHANGED <<unlocked, items, isLoading, error, dialog, calm>>
    BY DEF Serve, TypeInv, FetchesOK
  <1>2. CASE fetch[s].kind = "reload"
    <2>1. /\ fetch' = [fetch EXCEPT ![s] = [@ EXCEPT !.st = "ok", !.listing = server]]
          /\ UNCHANGED <<server, drawn>>
      BY <1>2 DEF Serve
    <2>2. /\ FetchesOK(fetch')
          /\ \A q \in Fetches : q # s => fetch'[q] = fetch[q]
          /\ fetch'[s].st = "ok" /\ fetch'[s].kind = "reload" /\ fetch'[s].listing = server
      BY <1>1, <1>2, <2>1, AnswerReloadOK DEF TypeInv, DataOK
    <2>3. TypeInv'
      BY <1>1, <2>1, <2>2 DEF TypeInv, DataOK
    <2> QED BY <1>1, <1>2, <2>1, <2>2, <2>3
  <1>3. CASE fetch[s].kind = "add"
    <2>1. PICK i \in Ids \ drawn :
             /\ server' = [server EXCEPT ![i] = fetch[s].body] /\ drawn' = drawn \cup {i}
             /\ Answer(s, "ok")
      BY <1>3 DEF Serve
    <2>2. FetchesOK(fetch') /\ (\A q \in Fetches : q # s => fetch'[q] = fetch[q])
          /\ fetch'[s].st = "ok" /\ fetch'[s].kind = fetch[s].kind
      BY <1>1, <2>1, AnswerOK
    <2>3. fetch[s].body \in Maybe
      BY <1>1 DEF FetchOK, Fetch
    <2>4. TypeInv'
      BY <1>1, <2>1, <2>2, <2>3 DEF TypeInv, DataOK, Listing
    <2> QED BY <1>1, <1>3, <2>2, <2>4
  <1>4. CASE fetch[s].kind \in {"toggle", "edit", "delete"}
    <2>1. /\ server' = IF fetch[s].kind = "toggle"
                       THEN Favour(server, fetch[s].id, fetch[s].body.fav)
                       ELSE [server EXCEPT ![fetch[s].id] = fetch[s].body]
          /\ server[fetch[s].id] # NoItem
          /\ Answer(s, "ok") /\ drawn' = drawn
      BY <1>4 DEF Serve
    <2>2. /\ FetchesOK(fetch')
          /\ \A q \in Fetches : q # s => fetch'[q] = fetch[q]
          /\ fetch'[s].st = "ok" /\ fetch'[s].kind = fetch[s].kind /\ fetch'[s].id = fetch[s].id
          /\ fetch'[s].body = fetch[s].body /\ fetch'[s].detail = fetch[s].detail
      BY <1>1, <2>1, AnswerOK
    <2>3. fetch[s].id \in Ids /\ fetch[s].body \in Maybe
      BY <1>1, <1>4 DEF FetchOK, Fetch
    <2>4. fetch[s].kind = "toggle" => fetch[s].body.fav \in BOOLEAN
      BY <1>1 DEF FetchOK, Item
    <2>5. fetch[s].id \in drawn
      BY <2>1, <2>3 DEF TypeInv, DataOK
    <2>6. server' \in Listing /\ \A i \in Ids \ drawn : server'[i] = NoItem
      <3>1. CASE fetch[s].kind = "toggle"
        <4> DEFINE i == fetch[s].id
                   f == fetch[s].body.fav
        <4>1. server \in Listing /\ i \in Ids /\ f \in BOOLEAN /\ i \in drawn
          BY <3>1, <2>3, <2>4, <2>5 DEF TypeInv, DataOK
        <4>2. server' = Favour(server, i, f)
          BY <3>1, <2>1
        <4> HIDE DEF i, f
        <4>3. /\ server' \in Listing
              /\ \A j \in Ids : j # i => server'[j] = server[j]
          BY <4>1, <4>2, FavourSpec
        <4> QED BY <4>1, <4>3 DEF TypeInv, DataOK
      <3>2. CASE fetch[s].kind # "toggle"
        BY <3>2, <2>1, <2>3, <2>5 DEF TypeInv, DataOK, Listing
      <3> QED BY <3>1, <3>2
    <2>7. TypeInv'
      BY <1>1, <2>1, <2>2, <2>6 DEF TypeInv, DataOK
    <2> QED BY <1>1, <1>4, <2>1, <2>2, <2>7
  <1> QED BY <1>2, <1>3, <1>4 DEF Serve

LEMMA RefuseOK ==
    ASSUME TypeInv, NEW s \in Fetches, Refuse(s)
    PROVE  /\ TypeInv'
           /\ fetch[s] # NoFetch /\ fetch[s].st = "sent"
           /\ \A q \in Fetches : q # s => fetch'[q] = fetch[q]
           /\ fetch'[s].st = "failed" /\ fetch'[s].kind = fetch[s].kind
           /\ fetch'[s].id = fetch[s].id /\ fetch'[s].body = fetch[s].body
           /\ fetch'[s].detail = fetch[s].detail
           /\ UNCHANGED <<server, drawn, unlocked, items, isLoading, error, dialog, calm>>
  <1>1. /\ fetch[s] # NoFetch /\ fetch[s].st = "sent" /\ Answer(s, "failed")
        /\ UNCHANGED <<server, drawn, unlocked, items, isLoading, error, dialog, calm>>
    BY DEF Refuse
  <1>2. /\ FetchesOK(fetch')
        /\ \A q \in Fetches : q # s => fetch'[q] = fetch[q]
        /\ fetch'[s].st = "failed" /\ fetch'[s].kind = fetch[s].kind
        /\ fetch'[s].id = fetch[s].id /\ fetch'[s].body = fetch[s].body
        /\ fetch'[s].detail = fetch[s].detail
    BY <1>1, AnswerOK DEF TypeInv
  <1>3. TypeInv'
    BY <1>1, <1>2 DEF TypeInv, DataOK
  <1> QED BY <1>1, <1>2, <1>3

LEMMA LoseAnswerOK ==
    ASSUME TypeInv, NEW s \in Fetches, LoseAnswer(s)
    PROVE  TypeInv'
  <1>1. /\ fetch[s].st = "ok" /\ Answer(s, "failed") /\ calm' = FALSE
        /\ UNCHANGED <<server, drawn, unlocked, items, isLoading, error, dialog>>
    BY DEF LoseAnswer
  <1>2. FetchesOK(fetch')
    BY <1>1, AnswerOK DEF TypeInv, NoFetch
  <1> QED BY <1>1, <1>2 DEF TypeInv, DataOK

LEMMA OtherClientOK ==
    ASSUME TypeInv, OtherClient
    PROVE  TypeInv'
  <1>1. PICK i \in drawn, new \in Maybe : server' = [server EXCEPT ![i] = new]
    BY DEF OtherClient
  <1>2. calm' = FALSE /\ UNCHANGED <<drawn, unlocked, items, isLoading, error, dialog, fetch>>
    BY DEF OtherClient
  <1> QED BY <1>1, <1>2 DEF TypeInv, DataOK, Listing

\* What the user opens and closes: one dialog instead of another.
LEMMA DialogNextOK ==
    ASSUME TypeInv, DialogNext
    PROVE  /\ TypeInv'
           /\ UNCHANGED <<server, drawn, unlocked, items, isLoading, error, fetch>>
           /\ \/ calm' = calm /\ dialog'.kind # "detail"
              \/ calm' = (calm /\ Outstanding = {}) /\ dialog'.item = items[dialog'.id]
  <1>1. ASSUME NEW i \in Ids, OpenDetail(i)
        PROVE  /\ DialogOK(dialog') /\ calm' \in BOOLEAN
               /\ UNCHANGED <<server, drawn, unlocked, items, isLoading, error, fetch>>
               /\ calm' = (calm /\ Outstanding = {}) /\ dialog'.item = items[dialog'.id]
    <2>1. items[i] \in Item
      BY <1>1, MaybeFields DEF OpenDetail, TypeInv, DataOK, Maybe
    <2> QED BY <1>1, <2>1 DEF OpenDetail, Act, DialogOK, Dialog, Maybe
  <1>2. ASSUME NEW kind \in {"edit", "delete"}, OpenFromDetail(kind)
        PROVE  /\ DialogOK(dialog') /\ dialog'.kind # "detail"
               /\ UNCHANGED <<server, drawn, unlocked, items, isLoading, error, fetch, calm>>
    <2>1. dialog.id \in Ids
      BY <1>2 DEF OpenFromDetail, TypeInv, DialogOK
    <2> QED BY <1>2, <2>1, NoItemAssumption DEF OpenFromDetail, DialogOK, Dialog, Maybe
  <1>3. ASSUME OpenAdd
        PROVE  /\ DialogOK(dialog') /\ dialog'.kind # "detail"
               /\ UNCHANGED <<server, drawn, unlocked, items, isLoading, error, fetch, calm>>
    <2>1. dialog' = [kind |-> "add", id |-> NoItem, item |-> NoItem]
      BY <1>3 DEF OpenAdd, NoDialog
    <2>2. DialogOK(dialog') /\ dialog'.kind # "detail"
      BY <2>1, NoItemAssumption DEF DialogOK, Dialog, Maybe
    <2> QED BY <1>3, <2>2 DEF OpenAdd
  <1>4. ASSUME CloseDialog
        PROVE  /\ DialogOK(dialog') /\ dialog'.kind # "detail"
               /\ UNCHANGED <<server, drawn, unlocked, items, isLoading, error, fetch, calm>>
    BY <1>4, NoDialogOK DEF CloseDialog
  <1> QED BY <1>1, <1>2, <1>3, <1>4 DEF DialogNext, TypeInv, DataOK

LEMMA TypeInvNext == TypeInv /\ [Next]_vars => TypeInv'
  <1> SUFFICES ASSUME TypeInv, [Next]_vars PROVE TypeInv'
    OBVIOUS
  <1>1. ASSUME NEW s \in Fetches, SlotNext(s) PROVE TypeInv'
    <2>1. ASSUME NEW i \in Ids, Toggle(s, i) PROVE TypeInv'
      BY <2>1, ToggleOK, StartToggleOK
    <2>2. CASE ToggleDetail(s)
      BY <2>2, ToggleDetailOK, StartToggleOK
    <2> QED BY <1>1, <2>1, <2>2, UnlockOK, SubmitOK, ReloadArrivesOK, ReloadFailsOK,
               ToggleArrivesOK, ToggleFailsOK, SaveArrivesOK, SaveFailsOK, ServeOK,
               RefuseOK, LoseAnswerOK DEF SlotNext
  <1>2. CASE UNCHANGED vars
    BY <1>2 DEF vars, TypeInv, DataOK
  <1> QED BY <1>1, <1>2, NextCases, DialogNextOK, LockOK, OtherClientOK

THEOREM VaultListInvariant == Spec => []TypeInv
  BY TypeInvInit, TypeInvNext, PTL DEF Spec

\* Type correctness of the page: what is shown, what is being edited, and what
\* each outstanding request carries (use-vault-item.tsx, vault-item-list.tsx).
THEOREM VaultListTypeCorrect == Spec => []TypeOK
  BY VaultListInvariant, TypeInvTypes, PTL

-----------------------------------------------------------------------------
(* What is shown of an item *)

SameTitles ==
    \A i \in Ids :
      \/ items'[i] = items[i]
      \/ items[i] # NoItem /\ items'[i] # NoItem /\ items'[i].title = items[i].title

LEMMA FavourTitles ==
    ASSUME TypeInv, NEW i \in Ids, NEW f \in BOOLEAN, items' = Favour(items, i, f)
    PROVE  SameTitles
  <1>1. \A j \in Ids : items'[j] = IF j = i /\ items[i] # NoItem
                                   THEN [title |-> items[i].title, fav |-> f] ELSE items[j]
    BY FavourSpec DEF TypeInv, DataOK
  <1>2. [title |-> items[i].title, fav |-> f] # NoItem \/ items[i] = NoItem
    <2>1. items[i] # NoItem => [title |-> items[i].title, fav |-> f] \in Item
      BY MaybeFields DEF TypeInv, DataOK, Item
    <2> QED BY <2>1, NoItemAssumption
  <1> QED BY <1>1, <1>2 DEF SameTitles

LEMMA RetitlingStep ==
    ASSUME TypeInv, [Next]_vars
    PROVE  \/ SameTitles \/ ~unlocked'
           \/ \E s \in Fetches : fetch[s].kind = "reload" /\ fetch'[s] = NoFetch
  <1>1. ASSUME NEW s \in Fetches, SlotNext(s)
        PROVE  SameTitles \/ (fetch[s].kind = "reload" /\ fetch'[s] = NoFetch)
    <2>1. ASSUME NEW i \in Ids, Toggle(s, i) PROVE SameTitles
      <3>1. items[i] \in Item /\ items' = Favour(items, i, ~items[i].fav)
        BY <2>1, ToggleOK DEF StartToggle
      <3> QED BY <3>1, FavourTitles DEF Item
    <2>2. CASE ToggleDetail(s)
      <3>1. dialog.item \in Item /\ dialog.id \in Ids
            /\ items' = Favour(items, dialog.id, ~dialog.item.fav)
        BY <2>2, ToggleDetailOK DEF StartToggle
      <3> QED BY <3>1, FavourTitles DEF Item
    <2>3. CASE ToggleFails(s)
      BY <2>3, ToggleFailsOK, FavourTitles
    <2>4. CASE ReloadArrives(s)
      BY <2>4 DEF ReloadArrives, TypeInv, FetchesOK
    <2>5. CASE \/ Unlock(s) \/ Submit(s) \/ ReloadFails(s) \/ ToggleArrives(s)
               \/ SaveArrives(s) \/ SaveFails(s) \/ Serve(s) \/ Refuse(s) \/ LoseAnswer(s)
      <3>1. items' = items
        BY <2>5 DEF Unlock, Submit, ReloadFails, ToggleArrives, SaveArrives, SaveFails,
                    Serve, Refuse, LoseAnswer
      <3> QED BY <3>1 DEF SameTitles
    <2> QED BY <1>1, <2>1, <2>2, <2>3, <2>4, <2>5 DEF SlotNext
  <1>2. ASSUME DialogNext \/ OtherClient \/ UNCHANGED vars PROVE SameTitles
    <2>1. items' = items
      BY <1>2, DialogNextOK DEF OtherClient, vars
    <2> QED BY <2>1 DEF SameTitles
  <1>3. CASE Lock
    BY <1>3 DEF Lock
  <1> QED BY <1>1, <1>2, <1>3, NextCases

\* A toggle, its late rollback and every dialog leave what an item says alone,
\* and revive no item (toggleFavorite and reload, use-vault-item.tsx:14-79).
THEOREM TitlesKept == Spec => OnlyReloadsRetitle
  <1>1. TypeInv /\ [Next]_vars =>
          [\A i \in Ids :
             \/ items'[i] = items[i]
             \/ items[i] # NoItem /\ items'[i] # NoItem /\ items'[i].title = items[i].title
             \/ ~unlocked'
             \/ \E s \in Fetches : fetch[s].kind = "reload" /\ fetch'[s] = NoFetch]_vars
    BY RetitlingStep DEF SameTitles
  <1> QED BY <1>1, VaultListInvariant, PTL DEF Spec, OnlyReloadsRetitle

-----------------------------------------------------------------------------
(* One thing at a time *)

Settled ==
    /\ items = server /\ PageShown
    /\ dialog.kind = "detail" => dialog.item = items[dialog.id]

\* What holds while one request is out and nothing else goes on.
ReloadWaits(f) ==
    /\ isLoading /\ ~error /\ dialog.kind # "detail"
    /\ f.st = "ok" => f.listing = server

\* The list is one toggle ahead of the server, until the server has caught up;
\* the copy in the detail dialog is one toggle behind the list.
ToggleWaits(f) ==
    /\ PageShown
    /\ items[f.id] # NoItem /\ items[f.id].fav = f.body.fav
    /\ f.st = "ok" => items = server
    /\ f.st # "ok" => /\ server[f.id] # NoItem /\ server[f.id].fav = ~f.body.fav
                      /\ items = Favour(server, f.id, f.body.fav)
    /\ dialog.kind = "detail" =>
         /\ f.detail /\ dialog.id = f.id
         /\ dialog.item = [title |-> items[f.id].title, fav |-> ~f.body.fav]

Waits(f) ==
    /\ f.kind = "reload" => ReloadWaits(f)
    /\ f.kind = "toggle" => ToggleWaits(f)
    /\ f.kind \in {"edit", "add", "delete"} /\ f.st # "ok" => Settled

QuietInv ==
    calm =>
      /\ \A s, q \in Fetches : fetch[s] # NoFetch /\ fetch[q] # NoFetch => s = q
      /\ unlocked => /\ Outstanding = {} => Settled
                     /\ \A s \in Fetches : Waits(fetch[s])

LEMMA QuietInvShows == QuietInv => QuietPageIsServer
  BY DEF QuietInv, Settled, QuietPageIsServer

\* The request that is out is the only one.
LEMMA AloneFree ==
    ASSUME QuietInv, calm, NEW s \in Fetches, fetch[s] # NoFetch
    PROVE  /\ \A q \in Fetches : q # s => fetch[q] = NoFetch
           /\ unlocked => Waits(fetch[s])
  BY DEF QuietInv

LEMMA IdleSettled ==
    ASSUME QuietInv, calm, Outstanding = {}
    PROVE  /\ \A q \in Fetches : fetch[q] = NoFetch
           /\ unlocked => Settled
  BY DEF QuietInv, Outstanding

\* After a step: one request out, or none.
LEMMA OneOut ==
    ASSUME NEW s \in Fetches, fetch'[s] # NoFetch,
           calm' => \A q \in Fetches : q # s => fetch'[q] = NoFetch,
           calm' /\ unlocked' => Waits(fetch[s])'
    PROVE  QuietInv'
  <1>1. Outstanding' # {}
    BY DEF Outstanding
  <1>2. ASSUME NEW q \in Fetches, calm', unlocked' PROVE Waits(fetch[q])'
    <2>1. CASE q = s
      BY <1>2, <2>1
    <2>2. CASE q # s
      BY <1>2, <2>2, NoFetchOK DEF Waits
    <2> QED BY <2>1, <2>2
  <1> QED BY <1>1, <1>2 DEF QuietInv

LEMMA NoneOut ==
    ASSUME calm' => \A q \in Fetches : fetch'[q] = NoFetch, calm' /\ unlocked' => Settled'
    PROVE  QuietInv'
  <1>1. ASSUME NEW q \in Fetches, calm' PROVE Waits(fetch[q])'
    BY <1>1, NoFetchOK DEF Waits
  <1> QED BY <1>1 DEF QuietInv

LEMMA QuietInvInit == Init => QuietInv
  <1> SUFFICES ASSUME Init PROVE QuietInv
    OBVIOUS
  <1>1. CASE ~unlocked /\ fetch = [s \in Fetches |-> NoFetch]
    BY <1>1 DEF QuietInv
  <1>2. CASE unlocked /\ isLoading /\ \E s \in Fetches :
               fetch = [q \in Fetches |-> IF q = s THEN Send("reload", NoItem, NoItem, FALSE)
                                                   ELSE NoFetch]
    <2>1. PICK s \in Fetches :
             fetch = [q \in Fetches |-> IF q = s THEN Send("reload", NoItem, NoItem, FALSE)
                                                 ELSE NoFetch]
      BY <1>2
    <2>2. /\ \A q \in Fetches : q # s => fetch[q] = NoFetch
          /\ fetch[s].kind = "reload" /\ fetch[s].st = "sent" /\ fetch[s] # NoFetch
      BY <2>1, NoFetchOK DEF Send
    <2>3. dialog.kind # "detail" /\ ~error
      BY NoDialogOK DEF Init
    <2>4. \A q \in Fetches : Waits(fetch[q])
      BY <1>2, <2>2, <2>3, NoFetchOK DEF Waits, ReloadWaits
    <2> QED BY <2>2, <2>4 DEF QuietInv, Outstanding
  <1> QED BY <1>1, <1>2 DEF Init

\* A request that a turn starts by itself: the reload of Unlock and SaveArrives.
LEMMA ReloadQuiet ==
    ASSUME TypeInv, NEW s \in Fetches, StartReload(s, fetch, dialog),
           dialog' = dialog \/ dialog'.kind # "detail"
    PROVE  QuietInv'
  <1>1. /\ fetch'[s].kind = "reload" /\ fetch'[s].st = "sent"
        /\ \A q \in Fetches : q # s => (fetch[q] = NoFetch => fetch'[q] = NoFetch)
        /\ isLoading' = TRUE /\ error' = FALSE
        /\ calm' = (Outstanding \subseteq {s} /\ dialog.kind # "detail")
    BY StartReloadOK DEF TypeInv
  <1>2. fetch'[s] # NoFetch
    BY <1>1, NoFetchOK
  <1>3. calm' => \A q \in Fetches : q # s => fetch'[q] = NoFetch
    BY <1>1 DEF Outstanding
  <1>4. calm' => dialog'.kind # "detail"
    BY <1>1
  <1>5. calm' => Waits(fetch[s])'
    BY <1>1, <1>4 DEF Waits, ReloadWaits
  <1> QED BY <1>2, <1>3, <1>5, OneOut

\* A toggle of what a quiet page shows is one step ahead of the server.
LEMMA ToggleQuiet ==
    ASSUME TypeInv, QuietInv, NEW s \in Fetches, NEW item \in Item, NEW i \in Ids,
           NEW detail \in BOOLEAN, StartToggle(s, item, i, detail),
           items[i] # NoItem /\ PageShown,
           Settled => item = items[i],
           dialog.kind = "detail" => detail /\ dialog.id = i
    PROVE  QuietInv'
  <1>1. /\ fetch[s] = NoFetch /\ items' = Favour(items, i, ~item.fav)
        /\ calm' = (calm /\ Outstanding = {})
        /\ \A q \in Fetches : q # s => fetch'[q] = fetch[q]
        /\ fetch'[s].kind = "toggle" /\ fetch'[s].st = "sent" /\ fetch'[s].id = i
        /\ fetch'[s].body.fav = ~item.fav /\ fetch'[s].detail = detail
        /\ UNCHANGED <<server, drawn, unlocked, isLoading, error, dialog>>
    BY StartToggleOK
  <1>2. fetch'[s] # NoFetch
    BY <1>1, NoFetchOK
  <1>3. calm' => \A q \in Fetches : q # s => fetch'[q] = NoFetch
    BY <1>1, IdleSettled
  <1>4. ASSUME calm', unlocked' PROVE Waits(fetch[s])'
    <2>1. Settled /\ item = items[i] /\ server = items
      BY <1>1, <1>4, IdleSettled DEF Settled
    <2>2. items[i].fav \in BOOLEAN /\ items[i] = [title |-> items[i].title, fav |-> items[i].fav]
      BY MaybeFields DEF TypeInv, DataOK
    <2>3. items'[i] = [title |-> items[i].title, fav |-> ~item.fav]
      BY <1>1, <2>1, <2>2, FavourSpec DEF TypeInv, DataOK
    <2>4. items'[i] # NoItem /\ items'[i].fav = ~item.fav /\ items'[i].title = items[i].title
      <3>1. [title |-> items[i].title, fav |-> ~item.fav] \in Item
        BY <2>1, <2>2, MaybeFields DEF TypeInv, DataOK, Item
      <3> QED BY <2>3, <3>1, NoItemAssumption
    <2>5. server'[i] # NoItem /\ server'[i].fav = ~(~item.fav)
      BY <1>1, <2>1, <2>2
    <2>6. items' = Favour(server', i, ~item.fav)
      BY <1>1, <2>1
    <2>7. PageShown'
      BY <1>1 DEF PageShown
    <2>8. dialog'.kind = "detail" =>
             /\ detail /\ dialog'.id = i
             /\ dialog'.item = [title |-> items'[i].title, fav |-> ~(~item.fav)]
      BY <1>1, <2>1, <2>2, <2>4 DEF Settled
    <2>9. ToggleWaits(fetch[s])'
      BY <1>1, <2>4, <2>5, <2>6, <2>7, <2>8 DEF ToggleWaits
    <2> QED BY <1>1, <2>9 DEF Waits
  <1> QED BY <1>2, <1>3, <1>4, OneOut

LEMMA ToggleArrivesQuiet ==
    ASSUME TypeInv, QuietInv, NEW s \in Fetches, ToggleArrives(s)
    PROVE  QuietInv'
  <1>1. /\ fetch[s].kind = "toggle" /\ fetch[s].st = "ok" /\ fetch' = [fetch EXCEPT ![s] = NoFetch]
        /\ UNCHANGED <<server, drawn, unlocked, items, isLoading, error, calm>>
    BY DEF ToggleArrives
  <1>2. fetch[s] # NoFetch
    BY <1>1, NoFetchOK
  <1>3. calm' => \A q \in Fetches : fetch'[q] = NoFetch
    BY <1>1, <1>2, AloneFree DEF TypeInv, FetchesOK
  <1>4. ASSUME calm', unlocked' PROVE Settled'
    <2>1. ToggleWaits(fetch[s])
      BY <1>1, <1>2, <1>4, AloneFree DEF Waits
    <2>2. items' = server' /\ PageShown'
      BY <1>1, <2>1 DEF ToggleWaits, PageShown
    <2>3. fetch[s].id \in Ids
      BY <1>1 DEF TypeInv, FetchesOK, FetchOK
    <2>4. items[fetch[s].id] = [title |-> items[fetch[s].id].title, fav |-> fetch[s].body.fav]
          /\ fetch[s].body.fav \in BOOLEAN
      BY <2>1, <2>3, MaybeFields DEF ToggleWaits, TypeInv, DataOK
    <2>5. CASE dialog.kind = "detail"
      <3>1. /\ dialog.id = fetch[s].id
            /\ dialog.item = [title |-> items[fetch[s].id].title, fav |-> ~fetch[s].body.fav]
            /\ dialog' = [dialog EXCEPT !.item.fav = ~@]
        BY <2>1, <2>5 DEF ToggleWaits, ToggleArrives
      <3>2. dialog' = [kind |-> "detail", id |-> dialog.id,
                       item |-> [title |-> dialog.item.title, fav |-> ~dialog.item.fav]]
        BY <2>5, <3>1, FlipOK DEF TypeInv
      <3>3. dialog'.id = fetch[s].id /\ dialog'.item = items[fetch[s].id]
        <4> DEFINE f == fetch[s].body.fav
                   x == items[fetch[s].id].title
        <4>1. dialog.item.fav = ~f /\ dialog.item.title = x
          BY <3>1
        <4>2. (~dialog.item.fav) = f
          BY <2>4, <4>1
        <4>3. dialog'.item = [title |-> x, fav |-> f]
          BY <3>2, <4>1, <4>2
        <4> QED BY <2>4, <3>1, <3>2, <4>3
      <3> QED BY <1>1, <2>2, <3>3 DEF Settled
    <2>6. CASE dialog.kind # "detail"
      BY <2>2, <2>6 DEF Settled, ToggleArrives
    <2> QED BY <2>5, <2>6
  <1> QED BY <1>3, <1>4, NoneOut

\* The rollback of a toggle that the server has not served.
LEMMA ToggleFailsQuiet ==
    ASSUME TypeInv, QuietInv, NEW s \in Fetches, ToggleFails(s)
    PROVE  QuietInv'
  <1>1. /\ fetch[s].kind = "toggle" /\ fetch[s].st = "failed" /\ fetch' = [fetch EXCEPT ![s] = NoFetch]
        /\ UNCHANGED <<server, drawn, unlocked, isLoading, error, dialog, calm>>
    BY DEF ToggleFails
  <1>2. fetch[s] # NoFetch
    BY <1>1, NoFetchOK
  <1>3. calm' => \A q \in Fetches : fetch'[q] = NoFetch
    BY <1>1, <1>2, AloneFree DEF TypeInv, FetchesOK
  <1>4. ASSUME calm', unlocked' PROVE Settled'
    <2> DEFINE i == fetch[s].id
               f == fetch[s].body.fav
    <2>1. /\ PageShown /\ server[i] # NoItem /\ server[i].fav = ~f /\ items = Favour(server, i, f)
          /\ dialog.kind = "detail" =>
               dialog.id = i /\ dialog.item = [title |-> items[i].title, fav |-> ~f]
      BY <1>1, <1>2, <1>4, AloneFree DEF Waits, ToggleWaits
    <2>2. i \in Ids /\ f \in BOOLEAN /\ items' = Favour(items, i, ~f)
      BY ToggleFailsOK
    <2> HIDE DEF i, f
    <2>3. server[i] = [title |-> server[i].title, fav |-> ~f]
      BY <2>1, <2>2, MaybeFields DEF TypeInv, DataOK
    <2>4. /\ items \in Listing /\ server \in Listing
          /\ \A j \in Ids : items[j] = IF j = i THEN [title |-> server[i].title, fav |-> f] ELSE server[j]
      BY <2>1, <2>2, FavourSpec DEF TypeInv, DataOK
    <2>5. items[i] # NoItem
      <3>1. [title |-> server[i].title, fav |-> f] \in Item
        BY <2>1, <2>2, MaybeFields DEF TypeInv, DataOK, Item
      <3> QED BY <2>2, <2>4, <3>1, NoItemAssumption
    <2>6. /\ items' \in Listing
          /\ \A j \in Ids : items'[j] = IF j = i THEN [title |-> items[i].title, fav |-> ~f] ELSE items[j]
      BY <2>2, <2>4, <2>5, FavourSpec
    <2>7. items[i].title = server[i].title
      BY <2>2, <2>4
    <2>8. \A j \in Ids : items'[j] = server[j]
      BY <2>2, <2>3, <2>4, <2>6, <2>7
    <2>9. items' = server
      BY <2>4, <2>6, <2>8 DEF Listing
    <2>10. dialog.kind = "detail" => dialog.item = items'[dialog.id]
      BY <2>1, <2>2, <2>6
    <2> QED BY <1>1, <2>1, <2>9, <2>10 DEF Settled, PageShown
  <1> QED BY <1>3, <1>4, NoneOut

LEMMA ReloadArrivesQuiet ==
    ASSUME TypeInv, QuietInv, NEW s \in Fetches, ReloadArrives(s)
    PROVE  QuietInv'
  <1>1. /\ fetch[s].kind = "reload" /\ fetch[s].st = "ok" /\ items' = fetch[s].listing
        /\ isLoading' = FALSE /\ fetch' = [fetch EXCEPT ![s] = NoFetch]
        /\ UNCHANGED <<server, drawn, unlocked, error, dialog, calm>>
    BY DEF ReloadArrives
  <1>2. fetch[s] # NoFetch
    BY <1>1, NoFetchOK
  <1>3. calm' => \A q \in Fetches : fetch'[q] = NoFetch
    BY <1>1, <1>2, AloneFree DEF TypeInv, FetchesOK
  <1>4. ASSUME calm', unlocked' PROVE Settled'
    <2>1. ReloadWaits(fetch[s])
      BY <1>1, <1>2, <1>4, AloneFree DEF Waits
    <2> QED BY <1>1, <1>4, <2>1 DEF ReloadWaits, Settled, PageShown
  <1> QED BY <1>3, <1>4, NoneOut

LEMMA SaveFailsQuiet ==
    ASSUME TypeInv, QuietInv, NEW s \in Fetches, SaveFails(s)
    PROVE  QuietInv'
  <1>1. /\ fetch[s].kind \in {"edit", "add", "delete"} /\ fetch[s].st = "failed"
        /\ fetch' = [fetch EXCEPT ![s] = NoFetch]
        /\ UNCHANGED <<server, drawn, unlocked, items, isLoading, error, dialog, calm>>
    BY DEF SaveFails
  <1>2. fetch[s] # NoFetch
    BY <1>1, NoFetchOK
  <1>3. calm' => \A q \in Fetches : fetch'[q] = NoFetch
    BY <1>1, <1>2, AloneFree DEF TypeInv, FetchesOK
  <1>4. ASSUME calm', unlocked' PROVE Settled'
    <2>1. Settled
      BY <1>1, <1>2, <1>4, AloneFree DEF Waits
    <2> QED BY <1>1, <2>1 DEF Settled, PageShown
  <1> QED BY <1>3, <1>4, NoneOut

LEMMA SubmitQuiet ==
    ASSUME TypeInv, QuietInv, NEW s \in Fetches, Submit(s)
    PROVE  QuietInv'
  <1>1. /\ fetch[s] = NoFetch /\ calm' = (calm /\ Outstanding = {})
        /\ \A q \in Fetches : q # s => fetch'[q] = fetch[q]
        /\ fetch'[s].kind \in {"edit", "add", "delete"}
        /\ UNCHANGED <<server, drawn, unlocked, items, isLoading, error, dialog>>
    BY SubmitOK
  <1>2. fetch'[s] # NoFetch
    BY <1>1, NoFetchOK
  <1>3. calm' => \A q \in Fetches : q # s => fetch'[q] = NoFetch
    BY <1>1, IdleSettled
  <1>4. calm' /\ unlocked' => Settled'
    BY <1>1, IdleSettled DEF Settled, PageShown
  <1>5. calm' /\ unlocked' => Waits(fetch[s])'
    BY <1>1, <1>4 DEF Waits
  <1> QED BY <1>2, <1>3, <1>5, OneOut

\* The server serves or refuses the one request there is.
LEMMA ServeQuiet ==
    ASSUME TypeInv, QuietInv, NEW s \in Fetches, Serve(s)
    PROVE  QuietInv'
  <1>1. /\ fetch[s] # NoFetch /\ fetch[s].st = "sent"
        /\ \A q \in Fetches : q # s => fetch'[q] = fetch[q]
        /\ fetch'[s].kind = fetch[s].kind /\ fetch'[s].st = "ok"
        /\ fetch[s].kind = "reload" => fetch'[s].listing = server /\ server' = server
        /\ fetch[s].kind = "toggle" =>
             /\ fetch'[s].id = fetch[s].id /\ fetch'[s].body = fetch[s].body
             /\ fetch'[s].detail = fetch[s].detail
             /\ server' = Favour(server, fetch[s].id, fetch[s].body.fav)
        /\ UNCHANGED <<unlocked, items, isLoading, error, dialog, calm>>
    BY ServeOK
  <1>2. fetch'[s] # NoFetch
    <2>1. fetch[s].kind # "none"
      BY <1>1 DEF TypeInv, FetchesOK, FetchOK
    <2> QED BY <1>1, <2>1, NoFetchOK
  <1>3. calm' => \A q \in Fetches : q # s => fetch'[q] = NoFetch
    BY <1>1, AloneFree
  <1>4. ASSUME calm', unlocked' PROVE Waits(fetch[s])'
    <2>1. Waits(fetch[s])
      BY <1>1, <1>4, AloneFree
    <2>2. CASE fetch[s].kind = "reload"
      BY <1>1, <2>1, <2>2 DEF Waits, ReloadWaits
    <2>3. CASE fetch[s].kind = "toggle"
      <3>1. ToggleWaits(fetch[s])'
        BY <1>1, <2>1, <2>3 DEF Waits, ToggleWaits, PageShown
      <3> QED BY <1>1, <2>3, <3>1 DEF Waits
    <2>4. CASE fetch[s].kind \notin {"reload", "toggle"}
      BY <1>1, <2>4 DEF Waits
    <2> QED BY <2>2, <2>3, <2>4
  <1> QED BY <1>2, <1>3, <1>4, OneOut

LEMMA RefuseQuiet ==
    ASSUME TypeInv, QuietInv, NEW s \in Fetches, Refuse(s)
    PROVE  QuietInv'
  <1>1. /\ fetch[s] # NoFetch /\ fetch[s].st = "sent"
        /\ \A q \in Fetches : q # s => fetch'[q] = fetch[q]
        /\ fetch'[s].st = "failed" /\ fetch'[s].kind = fetch[s].kind
        /\ fetch'[s].id = fetch[s].id /\ fetch'[s].body = fetch[s].body
        /\ fetch'[s].detail = fetch[s].detail
        /\ UNCHANGED <<server, drawn, unlocked, items, isLoading, error, dialog, calm>>
    BY RefuseOK
  <1>2. fetch'[s] # NoFetch
    <2>1. fetch[s].kind # "none"
      BY <1>1 DEF TypeInv, FetchesOK, FetchOK
    <2> QED BY <1>1, <2>1, NoFetchOK
  <1>3. calm' => \A q \in Fetches : q # s => fetch'[q] = NoFetch
    BY <1>1, AloneFree
  <1>4. ASSUME calm', unlocked' PROVE Waits(fetch[s])'
    <2>1. Waits(fetch[s])
      BY <1>1, <1>4, AloneFree
    <2>2. CASE fetch[s].kind = "reload"
      BY <1>1, <2>1, <2>2 DEF Waits, ReloadWaits
    <2>3. CASE fetch[s].kind = "toggle"
      <3>1. ToggleWaits(fetch[s])'
        BY <1>1, <2>1, <2>3 DEF Waits, ToggleWaits, PageShown
      <3> QED BY <1>1, <2>3, <3>1 DEF Waits
    <2>4. CASE fetch[s].kind \notin {"reload", "toggle"}
      <3>1. fetch[s].kind \in {"edit", "add", "delete"} => Settled'
        BY <1>1, <2>1 DEF Waits, Settled, PageShown
      <3> QED BY <1>1, <2>4, <3>1 DEF Waits
    <2> QED BY <2>2, <2>3, <2>4
  <1> QED BY <1>2, <1>3, <1>4, OneOut

\* A dialog that opens or closes while a request is out: it shows what the list
\* shows, or ends the calm.
LEMMA DialogQuiet ==
    ASSUME TypeInv, QuietInv, DialogNext
    PROVE  QuietInv'
  <1>1. /\ UNCHANGED <<server, drawn, unlocked, items, isLoading, error, fetch>>
        /\ \/ calm' = calm /\ dialog'.kind # "detail"
           \/ calm' = (calm /\ Outstanding = {}) /\ dialog'.item = items[dialog'.id]
    BY DialogNextOK
  <1>2. CASE Outstanding = {}
    <2>1. calm' => \A q \in Fetches : fetch'[q] = NoFetch
      BY <1>1, <1>2, IdleSettled
    <2>2. calm' /\ unlocked' => Settled'
      BY <1>1, <1>2, IdleSettled DEF Settled, PageShown
    <2> QED BY <2>1, <2>2, NoneOut
  <1>3. ASSUME NEW s \in Fetches, fetch[s] # NoFetch
        PROVE  QuietInv'
    <2>1. CASE calm'
      <3>1. calm /\ dialog'.kind # "detail" /\ Outstanding # {}
        BY <1>1, <1>3, <2>1 DEF Outstanding
      <3>2. \A q \in Fetches : q # s => fetch'[q] = NoFetch
        BY <1>1, <1>3, <3>1, AloneFree
      <3>3. ASSUME unlocked' PROVE Waits(fetch[s])'
        <4>1. Waits(fetch[s])
          BY <1>1, <1>3, <3>1, <3>3, AloneFree
        <4>2. ReloadWaits(fetch[s]) => ReloadWaits(fetch[s])'
          BY <1>1, <3>1 DEF ReloadWaits
        <4>3. ToggleWaits(fetch[s]) => ToggleWaits(fetch[s])'
          BY <1>1, <3>1 DEF ToggleWaits, PageShown
        <4>4. Settled => Settled'
          BY <1>1, <3>1 DEF Settled, PageShown
        <4> QED BY <1>1, <4>1, <4>2, <4>3, <4>4 DEF Waits
      <3> QED BY <1>1, <1>3, <3>2, <3>3, OneOut
    <2>2. CASE ~calm'
      BY <2>2 DEF QuietInv
    <2> QED BY <2>1, <2>2
  <1> QED BY <1>2, <1>3 DEF Outstanding

LEMMA LockQuiet ==
    ASSUME TypeInv, QuietInv, Lock
    PROVE  QuietInv'
  <1>1. unlocked' = FALSE /\ calm' = calm /\ fetch' = Unmounted(fetch)
    BY DEF Lock
  <1>2. \A q \in Fetches : fetch[q] = NoFetch => fetch'[q] = NoFetch
    BY <1>1, UnmountedSpec DEF TypeInv
  <1> QED BY <1>1, <1>2 DEF QuietInv

LEMMA QuietInvNext == TypeInv /\ QuietInv /\ [Next]_vars => QuietInv'
  <1> SUFFICES ASSUME TypeInv, QuietInv, [Next]_vars PROVE QuietInv'
    OBVIOUS
  <1>1. ASSUME NEW s \in Fetches, SlotNext(s) PROVE QuietInv'
    <2>1. ASSUME NEW i \in Ids, Toggle(s, i) PROVE QuietInv'
      <3>1. items[i] \in Item /\ StartToggle(s, items[i], i, FALSE)
        BY <2>1, ToggleOK
      <3>2. items[i] # NoItem /\ PageShown /\ ~DialogShown /\ items # NoItems
        BY <2>1 DEF Toggle, NoItems
      <3>3. dialog.kind = "none"
        BY <3>2 DEF DialogShown
      <3> QED BY <3>1, <3>2, <3>3, ToggleQuiet
    <2>2. CASE ToggleDetail(s)
      <3>1. dialog.item \in Item /\ dialog.id \in Ids /\ StartToggle(s, dialog.item, dialog.id, TRUE)
        BY <2>2, ToggleDetailOK
      <3>2. PageShown /\ dialog.kind = "detail"
        BY <2>2 DEF ToggleDetail, DialogShown
      <3>3. CASE items[dialog.id] # NoItem
        BY <3>1, <3>2, <3>3, ToggleQuiet DEF Settled
      <3>4. CASE items[dialog.id] = NoItem
        <4>1. ~Settled
          BY <3>1, <3>2, <3>4, NoItemAssumption DEF Settled
        <4>2. ~calm'
          <5>1. unlocked /\ calm' = (calm /\ Outstanding = {})
            BY <3>1, <3>2, StartToggleOK DEF PageShown
          <5> QED BY <4>1, <5>1, IdleSettled
        <4> QED BY <4>2 DEF QuietInv
      <3> QED BY <3>3, <3>4
    <2>3. CASE Unlock(s)
      BY <2>3, ReloadQuiet DEF Unlock
    <2>4. CASE SaveArrives(s)
      <3>1. StartReload(s, fetch, dialog) /\ dialog' \in {dialog, NoDialog}
        BY <2>4 DEF SaveArrives
      <3> QED BY <3>1, NoDialogOK, ReloadQuiet
    <2>5. CASE ReloadFails(s) \/ LoseAnswer(s)
      BY <2>5 DEF ReloadFails, LoseAnswer, QuietInv
    <2> QED BY <1>1, <2>1, <2>2, <2>3, <2>4, <2>5, SubmitQuiet, ReloadArrivesQuiet,
               ToggleArrivesQuiet, ToggleFailsQuiet, SaveFailsQuiet, ServeQuiet, RefuseQuiet
               DEF SlotNext
  <1>2. CASE OtherClient
    BY <1>2 DEF OtherClient, QuietInv
  <1>3. CASE UNCHANGED vars
    BY <1>3 DEF vars, QuietInv, Outstanding, Waits, ReloadWaits, ToggleWaits, Settled, PageShown
  <1> QED BY <1>1, <1>2, <1>3, NextCases, DialogQuiet, LockQuiet

\* Optimistic update, rollback and reload add up: with one thing going on at a
\* time the page ends where the server is (use-vault-item.tsx, vault-item-list.tsx).
THEOREM QuietPageAgrees == Spec => []QuietPageIsServer
  BY QuietInvInit, QuietInvNext, QuietInvShows, VaultListInvariant, PTL DEF Spec
=============================================================================
