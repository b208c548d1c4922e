----------------------------- MODULE VaultItems -----------------------------
(***************************************************************************)
(* The routes under /vaults/items: concurrent requests on the rows of       *)
(* vault_items.                                                             *)
(*                                                                          *)
(* A request holds a session of its own.  It loads the row it is about,     *)
(* changes the loaded object and commits, and SQLAlchemy writes the columns *)
(* whose value differs from the loaded one: between the two, other requests *)
(* commit.  GET only reads, and is ListItems.                               *)
(*                                                                          *)
(* Ciphertexts are opaque.  A member of Blobs stands for one run of         *)
(* encryptField: as encrypted_title it is the ciphertext, as title_iv the   *)
(* IV, and the two decrypt only together.                                   *)
(***************************************************************************)
EXTENDS Naturals, FiniteSets

CONSTANTS
    Items,      \* primary keys; uuid4 never draws one twice
    Vaults,
    Requests,
    Blobs,
    Bodies,     \* the PATCH bodies that clients send
    Empty,      \* the string ""
    Null,       \* an explicit null
    NoRow, NoVault,
    Gone        \* what ItemStore calls an item that is deleted

\* The columns a PATCH may name, and the IV that goes with a ciphertext.
Columns == {"encrypted_title", "title_iv", "encrypted_data", "data_iv", "favorite"}
IvOf == [c \in {"encrypted_title", "encrypted_data"} |->
            IF c = "encrypted_title" THEN "title_iv" ELSE "data_iv"]

Values == Blobs \cup {Empty} \cup BOOLEAN
Cols == [Columns -> Values]
Row == [vault : Vaults, col : Cols, deleted : BOOLEAN]

\* A body names some of the columns: model_dump(exclude_unset=True).
Body == UNION {[C -> Values \cup {Null}] : C \in SUBSET Columns}

ASSUME BodiesAssumption == Bodies \subseteq Body
ASSUME DistinctAssumption ==
    /\ NoRow \notin Row /\ NoRow # Gone
    /\ {NoRow, Gone} \cap [vault : Vaults, col : Cols] = {}
    /\ Null \notin Values
    /\ NoVault \notin Vaults

VARIABLES
    rows,     \* the table vault_items
    vaults,   \* primary keys in the table vaults
    drawn,    \* item ids drawn so far
    req       \* the requests under way, at the commit they are about to do

vars == <<rows, vaults, drawn, req>>

Encrypted(b, f) == [c \in Columns |-> IF c = "favorite" THEN f ELSE b]
NoCols == [c \in Columns |-> Empty]

\* seen is the row as the session loaded it.
Request == [op : {"idle", "create", "update", "delete"}, vault : Vaults \cup {NoVault},
            item : Items \cup {NoRow}, body : Body, seen : Cols]
Idle == [op |-> "idle", vault |-> NoVault, item |-> NoRow, body |-> NoCols, seen |-> NoCols]

Live(i) == rows[i] # NoRow /\ ~rows[i].deleted

\* GET /vaults/items
ListItems(v) == {i \in Items : Live(i) /\ rows[i].vault = v}

End(r) == req' = [req EXCEPT ![r] = Idle]

\* What any([x, y]) and all([x, y]) see of two optional strings.
Truthy(body, c) == c \in DOMAIN body /\ body[c] \notin {Empty, Null}

-----------------------------------------------------------------------------
(* Mutants: what a bug would make of the definitions below *)

\* check_ciphertext_iv_pairs forgotten.
AcceptedAlways(body) == TRUE

\* _get_owned_item without the vault_id in its query.
OwnedItemAny(v, i) == v \in vaults /\ Live(i)

\* The loaded object is written back as a whole, delete_status included.
WriteWhole(r) ==
    rows' = [rows EXCEPT ![req[r].item] =
        [vault   |-> @.vault,
         col     |-> [c \in Columns |-> IF c \in DOMAIN req[r].body THEN req[r].body[c]
                                                                    ELSE req[r].seen[c]],
         deleted |-> FALSE]]

\* hard_delete_user_job that leaves the items where they are.
PurgeVaultOnly(v) ==
    /\ v \in vaults
    /\ vaults' = vaults \ {v}
    /\ UNCHANGED <<rows, drawn, req>>

-----------------------------------------------------------------------------
(* Handlers *)

\* VaultItemUpdate.check_ciphertext_iv_pairs
Accepted(body) ==
    \A c \in DOMAIN IvOf : Truthy(body, c) <=> Truthy(body, IvOf[c])

\* get_current_vault and _get_owned_item
OwnedItem(v, i) == v \in vaults /\ Live(i) /\ rows[i].vault = v

\* POST: the web client encrypts title and data and sends favorite: false.
CreateItem(r, v) ==
    /\ req[r] = Idle
    /\ v \in vaults
    /\ \E b \in Blobs : req' = [req EXCEPT ![r] =
         [op |-> "create", vault |-> v, item |-> NoRow, body |-> NoCols,
          seen |-> Encrypted(b, FALSE)]]
    /\ UNCHANGED <<rows, vaults, drawn>>

\* The INSERT fails on its foreign key when the vault was purged meanwhile.
CreateItemCommit(r) ==
    /\ req[r].op = "create"
    /\ IF req[r].vault \in vaults
       THEN \E i \in Items \ drawn :
              /\ rows' = [rows EXCEPT ![i] =
                   [vault |-> req[r].vault, col |-> req[r].seen, deleted |-> FALSE]]
              /\ drawn' = drawn \cup {i}
       ELSE UNCHANGED <<rows, drawn>>
    /\ End(r)
    /\ UNCHANGED vaults

UpdateItem(r, v, i) ==
    /\ req[r] = Idle
    /\ OwnedItem(v, i)
    /\ \E body \in Bodies :
         /\ Accepted(body)
         /\ req' = [req EXCEPT ![r] =
              [op |-> "update", vault |-> v, item |-> i, body |-> body, seen |-> rows[i].col]]
    /\ UNCHANGED <<rows, vaults, drawn>>

\* The columns of the UPDATE: setattr to the loaded value is no change.
Changed(r) == {c \in DOMAIN req[r].body : req[r].body[c] # req[r].seen[c]}

\* The UPDATE goes by primary key, whatever became of delete_status.
Write(r) ==
    rows' = [rows EXCEPT ![req[r].item] =
        [vault   |-> @.vault,
         col     |-> [c \in Columns |-> IF c \in Changed(r) THEN req[r].body[c] ELSE @.col[c]],
         deleted |-> @.deleted]]

\* A null violates NOT NULL, a row that is gone is a StaleDataError: both roll back.
UpdateItemCommit(r) ==
    /\ req[r].op = "update"
    /\ \/ /\ rows[req[r].item] # NoRow
          /\ \A c \in Changed(r) : req[r].body[c] # Null
          /\ Write(r)
       \/ /\ \/ rows[req[r].item] = NoRow
             \/ \E c \in Changed(r) : req[r].body[c] = Null
          /\ UNCHANGED rows
    /\ End(r)
    /\ UNCHANGED <<vaults, drawn>>

DeleteItem(r, v, i) ==
    /\ req[r] = Idle
    /\ OwnedItem(v, i)
    /\ req' = [req EXCEPT ![r] =
         [op |-> "delete", vault |-> v, item |-> i, body |-> NoCols, seen |-> rows[i].col]]
    /\ UNCHANGED <<rows, vaults, drawn>>

DeleteItemCommit(r) ==
    /\ req[r].op = "delete"
    /\ IF rows[req[r].item] # NoRow
       THEN rows' = [rows EXCEPT ![req[r].item] =
                       [vault |-> @.vault, col |-> @.col, deleted |-> TRUE]]
       ELSE UNCHANGED rows
    /\ End(r)
    /\ UNCHANGED <<vaults, drawn>>

\* The client goes away, or the server does: the session is rolled back.
RequestDies(r) ==
    /\ req[r] # Idle
    /\ End(r)
    /\ UNCHANGED <<rows, vaults, drawn>>

\* hard_delete_user_job.  An item inserted between its two DELETEs makes the
\* second fail, and then the job changes nothing.
Purge(v) ==
    /\ v \in vaults
    /\ rows' = [i \in Items |-> IF rows[i] # NoRow /\ rows[i].vault = v THEN NoRow ELSE rows[i]]
    /\ vaults' = vaults \ {v}
    /\ UNCHANGED <<drawn, req>>

-----------------------------------------------------------------------------

Init ==
    /\ rows = [i \in Items |-> NoRow]
    /\ vaults = Vaults
    /\ drawn = {}
    /\ req = [r \in Requests |-> Idle]

Next ==
    \/ \E r \in Requests :
         \/ \E v \in Vaults :
              \/ CreateItem(r, v)
              \/ \E i \in Items : UpdateItem(r, v, i) \/ DeleteItem(r, v, i)
         \/ CreateItemCommit(r) \/ UpdateItemCommit(r) \/ DeleteItemCommit(r)
         \/ RequestDies(r)
    \/ \E v \in Vaults : Purge(v)

Spec == Init /\ [][Next]_vars

-----------------------------------------------------------------------------
(* Properties *)

TypeOK ==
    /\ rows \in [Items -> Row \cup {NoRow}]
    /\ vaults \subseteq Vaults
    /\ drawn \subseteq Items
    /\ \A i \in Items : rows[i] # NoRow => i \in drawn /\ rows[i].vault \in vaults
    /\ req \in [Requests -> Request]
    /\ \A r \in Requests :
         /\ req[r].op = "create" => req[r].vault \in Vaults
         /\ req[r].op \in {"update", "delete"} =>
              /\ req[r].item \in drawn
              /\ rows[req[r].item] # NoRow => rows[req[r].item].vault = req[r].vault

Paired(col) == \A c \in DOMAIN IvOf : col[c] = col[IvOf[c]]

\* What the web client keeps to: a body has both halves of a pair or neither.
BodiesPaired ==
    \A body \in Bodies : \A c \in DOMAIN IvOf :
        Accepted(body) => \/ c \notin DOMAIN body /\ IvOf[c] \notin DOMAIN body
                          \/ /\ c \in DOMAIN body /\ IvOf[c] \in DOMAIN body
                             /\ body[c] = body[IvOf[c]]

\* Every stored ciphertext has the IV it was encrypted with, however PATCHes of
\* single columns interleave: the item can be decrypted.
PairsStayTogether == \A i \in Items : rows[i] # NoRow => Paired(rows[i].col)

\* Why: the sessions hold rows that decrypt, and bodies that went through the
\* validator (the inductive invariant of VaultItemsProofs, with TypeOK).
PairInv ==
    /\ PairsStayTogether
    /\ \A r \in Requests :
         /\ Paired(req[r].seen)
         /\ req[r].op = "update" => req[r].body \in Bodies /\ Accepted(req[r].body)

\* A column of an item changes only when a PATCH that names it commits, to the
\* value that PATCH sent: an edit and a change of `favorite` at the same time
\* both survive.
NoLostUpdate ==
    [][\A i \in Items, c \in Columns :
         rows[i] # NoRow /\ rows'[i] # NoRow /\ rows'[i].col[c] # rows[i].col[c] =>
           \E r \in Requests : /\ req[r].op = "update" /\ req[r].item = i /\ req'[r] = Idle
                               /\ c \in DOMAIN req[r].body
                               /\ rows'[i].col[c] = req[r].body[c]]_vars

\* Only a request of the item's own vault, or the purge of that vault, touches it.
OwnersOnly ==
    [][\A i \in Items : rows[i] # NoRow /\ rows'[i] # rows[i] =>
         \/ rows[i].vault \notin vaults'
         \/ \E r \in Requests : req[r].vault = rows[i].vault /\ req[r] # req'[r]]_vars

-----------------------------------------------------------------------------
(* Refinement *)

\* What is on the shelf: the row of a live item, without its flag.
Shelf(i) ==
    IF Live(i) THEN [vault |-> rows[i].vault, col |-> rows[i].col]
    ELSE IF i \in drawn THEN Gone ELSE NoRow

Store == INSTANCE ItemStore
    WITH Contents <- {col \in Cols : Paired(col)},
         NoItem <- NoRow,
         shelf <- [i \in Items |-> Shelf(i)]

\* The routes implement ItemStore: whatever interleaves, items decrypt, keep
\* their vault, and never come back once deleted.
StoreSpec == Store!Spec
=============================================================================
