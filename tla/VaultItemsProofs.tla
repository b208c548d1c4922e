-------------------------- MODULE VaultItemsProofs --------------------------
(***************************************************************************)
(* Theorems about VaultItems, for any number of items, vaults, requests and *)
(* ciphertexts.                                                             *)
(***************************************************************************)
EXTENDS VaultItems, TLAPS

Handler(r) ==
    \/ \E v \in Vaults : \/ CreateItem(r, v)
                         \/ \E i \in Items : UpdateItem(r, v, i) \/ DeleteItem(r, v, i)
    \/ CreateItemCommit(r) \/ UpdateItemCommit(r) \/ DeleteItemCommit(r)
    \/ RequestDies(r)

\* Next, by who takes the step.
LEMMA NextCases ==
    [Next]_vars <=> \/ \E r \in Requests : Handler(r)
                    \/ \E v \in Vaults : Purge(v)
                    \/ UNCHANGED vars
  BY DEF Next, Handler

LEMMA Constants == NoCols \in Cols /\ Cols \subseteq Body /\ Idle \in Request
  <1>1. NoCols \in Cols
    BY DEF NoCols, Cols, Values
  <1>2. Cols \subseteq Body
    <2>1. Cols \subseteq [Columns -> Values \cup {Null}]
      BY DEF Cols
    <2>2. Columns \in SUBSET Columns
      OBVIOUS
    <2> QED BY <2>1, <2>2 DEF Body
  <1> QED BY <1>1, <1>2 DEF Idle, Request

LEMMA EncryptedType ==
    ASSUME NEW b \in Blobs, NEW f \in BOOLEAN
    PROVE  Encrypted(b, f) \in Cols /\ Paired(Encrypted(b, f))
  <1>1. Encrypted(b, f) \in Cols
    BY DEF Encrypted, Cols, Values
  <1>2. Paired(Encrypted(b, f))
    BY DEF Encrypted, Paired, IvOf, Columns
  <1> QED BY <1>1, <1>2

-----------------------------------------------------------------------------
(* Typing *)

\* What an UPDATE writes is a row, in the place of a row.
LEMMA WrittenRow ==
    ASSUME TypeOK, NEW r \in Requests, UpdateItemCommit(r), ~UNCHANGED rows
    PROVE  LET i == req[r].item
           IN  /\ i \in Items /\ rows[i] \in Row /\ rows[i] # NoRow /\ Write(r)
               /\ rows'[i] \in Row /\ rows' = [rows EXCEPT ![i] = rows'[i]]
               /\ rows'[i].vault = rows[i].vault /\ rows'[i].deleted = rows[i].deleted
  <1> DEFINE i == req[r].item
             col == [c \in Columns |-> IF c \in Changed(r) THEN req[r].body[c]
                                                          ELSE rows[i].col[c]]
  <1>1. rows[i] # NoRow /\ Write(r) /\ \A c \in Changed(r) : req[r].body[c] # Null
    BY DEF UpdateItemCommit
  <1>2. i \in Items /\ rows[i] \in Row /\ req[r].body \in Body /\ rows \in [Items -> Row \cup {NoRow}]
    BY <1>1 DEF UpdateItemCommit, Request, TypeOK
  <1>3. col \in Cols
    <2>1. PICK C \in SUBSET Columns : req[r].body \in [C -> Values \cup {Null}]
      BY <1>2 DEF Body
    <2>2. \A c \in Changed(r) : req[r].body[c] \in Values
      BY <1>1, <2>1 DEF Changed
    <2>3. \A c \in Columns : rows[i].col[c] \in Values
      BY <1>2 DEF Row, Cols
    <2> QED BY <2>2, <2>3 DEF Cols
  <1>4. rows' = [rows EXCEPT ![i] =
                   [vault |-> rows[i].vault, col |-> col, deleted |-> rows[i].deleted]]
    BY <1>1, <1>2 DEF Write
  <1>5. [vault |-> rows[i].vault, col |-> col, deleted |-> rows[i].deleted] \in Row
    BY <1>2, <1>3 DEF Row
  <1> HIDE DEF col
  <1> QED BY <1>1, <1>2, <1>4, <1>5

LEMMA TypeNext == TypeOK /\ [Next]_vars => TypeOK'
  <1> SUFFICES ASSUME TypeOK, [Next]_vars PROVE TypeOK'
    OBVIOUS
  <1> USE DEF TypeOK
  <1>1. ASSUME NEW r \in Requests, Handler(r) PROVE TypeOK'
    <2>1. ASSUME NEW v \in Vaults, CreateItem(r, v) PROVE TypeOK'
      <3>1. PICK b \in Blobs : req' = [req EXCEPT ![r] =
               [op |-> "create", vault |-> v, item |-> NoRow, body |-> NoCols,
                seen |-> Encrypted(b, FALSE)]]
        BY <2>1 DEF CreateItem
      <3>2. Encrypted(b, FALSE) \in Cols
        BY EncryptedType
      <3>3. req' \in [Requests -> Request]
        BY <3>1, <3>2, Constants DEF Request
      <3> QED BY <2>1, <3>1, <3>3 DEF CreateItem
    <2>2. ASSUME NEW v \in Vaults, NEW i \in Items, UpdateItem(r, v, i) PROVE TypeOK'
      <3>1. PICK body \in Bodies : req' = [req EXCEPT ![r] =
               [op |-> "update", vault |-> v, item |-> i, body |-> body, seen |-> rows[i].col]]
        BY <2>2 DEF UpdateItem
      <3>2. rows[i] \in Row /\ rows[i].vault = v /\ i \in drawn
        BY <2>2 DEF UpdateItem, OwnedItem, Live
      <3>3. rows[i].col \in Cols /\ body \in Body
        BY <3>2, BodiesAssumption DEF Row
      <3>4. req' \in [Requests -> Request]
        BY <3>1, <3>3 DEF Request
      <3> QED BY <2>2, <3>1, <3>2, <3>4 DEF UpdateItem
    <2>3. ASSUME NEW v \in Vaults, NEW i \in Items, DeleteItem(r, v, i) PROVE TypeOK'
      <3>1. rows[i] \in Row /\ rows[i].vault = v /\ i \in drawn
        BY <2>3 DEF DeleteItem, OwnedItem, Live
      <3>2. rows[i].col \in Cols
        BY <3>1 DEF Row
      <3>3. req' \in [Requests -> Request]
        BY <2>3, <3>2, Constants DEF DeleteItem, Request
      <3> QED BY <2>3, <3>1, <3>3 DEF DeleteItem
    <2>4. CASE CreateItemCommit(r)
      <3>1. req' \in [Requests -> Request]
        BY <2>4, Constants DEF CreateItemCommit, End
      <3>2. \A s \in Requests : req'[s].op # "idle" => req'[s] = req[s]
        BY <2>4 DEF CreateItemCommit, End, Idle
      <3>3. CASE req[r].vault \in vaults
        <4>1. PICK i \in Items \ drawn :
                 /\ rows' = [rows EXCEPT ![i] =
                      [vault |-> req[r].vault, col |-> req[r].seen, deleted |-> FALSE]]
                 /\ drawn' = drawn \cup {i} /\ vaults' = vaults
          BY <2>4, <3>3 DEF CreateItemCommit
        <4>2. [vault |-> req[r].vault, col |-> req[r].seen, deleted |-> FALSE] \in Row
          BY <2>4, <3>3 DEF Request, Row
        <4>3. rows' \in [Items -> Row \cup {NoRow}]
          BY <4>1, <4>2
        <4>4. \A j \in Items : rows'[j] # NoRow => j \in drawn' /\ rows'[j].vault \in vaults'
          BY <3>3, <4>1
        <4>5. \A s \in Requests : req'[s].op \in {"update", "delete"} =>
                 /\ req'[s].item \in drawn'
                 /\ rows'[req'[s].item] # NoRow => rows'[req'[s].item].vault = req'[s].vault
          BY <3>2, <4>1
        <4>6. \A s \in Requests : req'[s].op = "create" => req'[s].vault \in Vaults
          BY <3>2
        <4> QED BY <3>1, <4>1, <4>3, <4>4, <4>5, <4>6
      <3>4. CASE req[r].vault \notin vaults
        BY <2>4, <3>1, <3>2, <3>4 DEF CreateItemCommit
      <3> QED BY <3>3, <3>4
    <2>5. CASE UpdateItemCommit(r)
      <3>1. req' \in [Requests -> Request]
        BY <2>5, Constants DEF UpdateItemCommit, End
      <3>2. \A s \in Requests : req'[s].op # "idle" => req'[s] = req[s]
        BY <2>5 DEF UpdateItemCommit, End, Idle
      <3>3. UNCHANGED <<vaults, drawn>>
        BY <2>5 DEF UpdateItemCommit
      <3>4. CASE UNCHANGED rows
        BY <3>1, <3>2, <3>3, <3>4
      <3>5. CASE ~UNCHANGED rows
        <4>1. PICK i \in Items :
                 /\ rows[i] # NoRow /\ rows'[i] \in Row /\ rows' = [rows EXCEPT ![i] = rows'[i]]
                 /\ rows'[i].vault = rows[i].vault
          BY <2>5, <3>5, WrittenRow
        <4>2. rows' \in [Items -> Row \cup {NoRow}]
          BY <4>1
        <4>3. \A j \in Items : (rows'[j] # NoRow => rows[j] # NoRow /\ rows'[j].vault = rows[j].vault)
          BY <4>1
        <4> QED BY <3>1, <3>2, <3>3, <4>2, <4>3
      <3> QED BY <2>5, <3>4, <3>5 DEF UpdateItemCommit
    <2>6. CASE DeleteItemCommit(r)
      <3>1. req' \in [Requests -> Request]
        BY <2>6, Constants DEF DeleteItemCommit, End
      <3>2. \A s \in Requests : req'[s].op # "idle" => req'[s] = req[s]
        BY <2>6 DEF DeleteItemCommit, End, Idle
      <3>3. UNCHANGED <<vaults, drawn>>
        BY <2>6 DEF DeleteItemCommit
      <3>4. rows' \in [Items -> Row \cup {NoRow}]
        <4>1. CASE rows[req[r].item] # NoRow
          <5>1. rows[req[r].item] \in Row
            BY <2>6, <4>1 DEF DeleteItemCommit
          <5>2. [vault |-> rows[req[r].item].vault, col |-> rows[req[r].item].col, deleted |-> TRUE]
                  \in Row
            BY <5>1 DEF Row
          <5> QED BY <2>6, <4>1, <5>2 DEF DeleteItemCommit
        <4>2. CASE rows[req[r].item] = NoRow
          BY <2>6, <4>2 DEF DeleteItemCommit
        <4> QED BY <4>1, <4>2
      <3>5. \A j \in Items : (rows'[j] # NoRow => rows[j] # NoRow /\ rows'[j].vault = rows[j].vault)
        BY <2>6 DEF DeleteItemCommit
      <3>6. \A s \in Requests : req'[s].op \in {"update", "delete"} =>
               /\ req'[s].item \in drawn'
               /\ rows'[req'[s].item] # NoRow => rows'[req'[s].item].vault = req'[s].vault
        <4> SUFFICES ASSUME NEW s \in Requests, req'[s].op \in {"update", "delete"}
                     PROVE  /\ req'[s].item \in drawn'
                            /\ rows'[req'[s].item] # NoRow =>
                                 rows'[req'[s].item].vault = req'[s].vault
          OBVIOUS
        <4>1. req'[s] = req[s]
          BY <3>2
        <4>2. req[s].item \in drawn /\ req[s].item \in Items
          BY <4>1
        <4> QED BY <3>3, <3>5, <4>1, <4>2
      <3>7. \A s \in Requests : req'[s].op = "create" => req'[s].vault \in Vaults
        BY <3>2
      <3> QED BY <3>1, <3>3, <3>4, <3>5, <3>6, <3>7
    <2>7. CASE RequestDies(r)
      <3>1. req' \in [Requests -> Request]
        BY <2>7, Constants DEF RequestDies, End
      <3>2. \A s \in Requests : req'[s].op # "idle" => req'[s] = req[s]
        BY <2>7 DEF RequestDies, End, Idle
      <3> QED BY <2>7, <3>1, <3>2 DEF RequestDies
    <2> QED BY <1>1, <2>1, <2>2, <2>3, <2>4, <2>5, <2>6, <2>7 DEF Handler
  <1>2. ASSUME NEW v \in Vaults, Purge(v) PROVE TypeOK'
    <2>1. \A i \in Items : rows'[i] # NoRow => rows'[i] = rows[i] /\ rows[i].vault # v
      BY <1>2 DEF Purge
    <2>2. rows' \in [Items -> Row \cup {NoRow}]
      BY <1>2 DEF Purge
    <2>3. vaults' = vaults \ {v} /\ UNCHANGED <<drawn, req>>
      BY <1>2 DEF Purge
    <2> QED BY <2>1, <2>2, <2>3
  <1>3. CASE UNCHANGED vars
    BY <1>3 DEF vars
  <1> QED BY <1>1, <1>2, <1>3, NextCases

\* Every variable keeps its type, and every row its place: an item lies in a
\* vault that exists, and a request only ever holds an item of its own vault.
THEOREM TypeCorrect == Spec => []TypeOK
  <1>1. Init => TypeOK
    BY Constants DEF Init, TypeOK, Idle
  <1> QED BY <1>1, TypeNext, PTL DEF Spec

-----------------------------------------------------------------------------
(* Ciphertexts and their IVs *)

LEMMA PairNext ==
    ASSUME BodiesPaired, TypeOK, PairInv, [Next]_vars
    PROVE  PairInv'
  <1> USE DEF PairInv, PairsStayTogether
  <1>0. Paired(NoCols)
    BY DEF Paired, NoCols, IvOf, Columns
  <1>1. ASSUME NEW r \in Requests, Handler(r) PROVE PairInv'
    <2>0. req \in [Requests -> Request] /\ rows \in [Items -> Row \cup {NoRow}]
      BY DEF TypeOK
    <2>1. ASSUME NEW v \in Vaults, CreateItem(r, v) PROVE PairInv'
      <3>1. PICK b \in Blobs : req' = [req EXCEPT ![r] =
               [op |-> "create", vault |-> v, item |-> NoRow, body |-> NoCols,
                seen |-> Encrypted(b, FALSE)]]
        BY <2>1 DEF CreateItem
      <3>2. Paired(Encrypted(b, FALSE))
        BY EncryptedType
      <3> QED BY <2>0, <2>1, <3>1, <3>2 DEF CreateItem
    <2>2. ASSUME NEW v \in Vaults, NEW i \in Items, UpdateItem(r, v, i) PROVE PairInv'
      <3>1. PICK body \in Bodies :
               /\ Accepted(body)
               /\ req' = [req EXCEPT ![r] =
                    [op |-> "update", vault |-> v, item |-> i, body |-> body, seen |-> rows[i].col]]
        BY <2>2 DEF UpdateItem
      <3>2. Paired(rows[i].col)
        BY <2>2 DEF UpdateItem, OwnedItem, Live
      <3> QED BY <2>0, <2>2, <3>1, <3>2 DEF UpdateItem
    <2>3. ASSUME NEW v \in Vaults, NEW i \in Items, DeleteItem(r, v, i) PROVE PairInv'
      <3>1. Paired(rows[i].col)
        BY <2>3 DEF DeleteItem, OwnedItem, Live
      <3> QED BY <2>0, <2>3, <3>1 DEF DeleteItem
    <2>4. CASE CreateItemCommit(r)
      <3>1. \A s \in Requests :
               /\ Paired(req'[s].seen)
               /\ req'[s].op = "update" => req'[s] = req[s]
        BY <1>0, <2>0, <2>4 DEF CreateItemCommit, End, Idle
      <3>2. Paired(req[r].seen)
        OBVIOUS
      <3>3. CASE UNCHANGED rows
        <4>1. PairsStayTogether'
          BY <3>3
        <4> QED BY <3>1, <4>1
      <3>4. ASSUME NEW i \in Items,
                   rows' = [rows EXCEPT ![i] =
                     [vault |-> req[r].vault, col |-> req[r].seen, deleted |-> FALSE]]
            PROVE  PairInv'
        BY <2>0, <3>1, <3>2, <3>4
      <3> QED BY <2>4, <3>3, <3>4 DEF CreateItemCommit
    <2>5. CASE UpdateItemCommit(r)
      <3>1. \A s \in Requests :
               /\ Paired(req'[s].seen)
               /\ req'[s].op = "update" => req'[s] = req[s]
        BY <1>0, <2>0, <2>5 DEF UpdateItemCommit, End, Idle
      <3>2. CASE UNCHANGED rows
        <4>1. PairsStayTogether'
          BY <3>2
        <4> QED BY <3>1, <4>1
      <3>3. CASE rows[req[r].item] # NoRow /\ Write(r)
        <4> DEFINE i == req[r].item
                   col == [c \in Columns |-> IF c \in Changed(r) THEN req[r].body[c]
                                                                ELSE rows[i].col[c]]
        <4>0. \A c \in DOMAIN IvOf :
                 \/ c \notin DOMAIN req[r].body /\ IvOf[c] \notin DOMAIN req[r].body
                 \/ /\ c \in DOMAIN req[r].body /\ IvOf[c] \in DOMAIN req[r].body
                    /\ req[r].body[c] = req[r].body[IvOf[c]]
          <5>1. req[r].body \in Bodies /\ Accepted(req[r].body)
            BY <2>5 DEF UpdateItemCommit
          <5> QED BY <5>1 DEF BodiesPaired
        <4>1. \A c \in DOMAIN IvOf : c \in Changed(r) <=> IvOf[c] \in Changed(r)
          <5>1. \A c \in DOMAIN IvOf : req[r].seen[c] = req[r].seen[IvOf[c]]
            BY DEF Paired
          <5> QED BY <4>0, <5>1 DEF Changed
        <4>2. \A c \in DOMAIN IvOf : c \in Changed(r) => req[r].body[c] = req[r].body[IvOf[c]]
          BY <4>0 DEF Changed
        <4>3. i \in Items
          BY <2>0, <2>5 DEF UpdateItemCommit, Request, TypeOK
        <4>4. Paired(rows[i].col)
          BY <3>3, <4>3
        <4>5. \A c \in DOMAIN IvOf : c \in Columns /\ IvOf[c] \in Columns
          BY DEF IvOf, Columns
        <4>6. Paired(col)
          BY <4>1, <4>2, <4>4, <4>5 DEF Paired
        <4>7. rows' = [rows EXCEPT ![i] = [vault |-> rows[i].vault, col |-> col, deleted |-> rows[i].deleted]]
          BY <2>0, <3>3, <4>3 DEF Write
        <4> HIDE DEF i, col
        <4> QED BY <2>0, <3>1, <4>3, <4>6, <4>7
      <3> QED BY <2>5, <3>2, <3>3 DEF UpdateItemCommit
    <2>6. CASE DeleteItemCommit(r)
      <3>1. \A s \in Requests :
               /\ Paired(req'[s].seen)
               /\ req'[s].op = "update" => req'[s] = req[s]
        BY <1>0, <2>0, <2>6 DEF DeleteItemCommit, End, Idle
      <3>2. \A i \in Items : rows'[i] # NoRow => Paired(rows'[i].col)
        BY <2>0, <2>6 DEF DeleteItemCommit
      <3> QED BY <3>1, <3>2
    <2>7. CASE RequestDies(r)
      BY <1>0, <2>0, <2>7 DEF RequestDies, End, Idle
    <2> QED BY <1>1, <2>1, <2>2, <2>3, <2>4, <2>5, <2>6, <2>7 DEF Handler
  <1>2. ASSUME NEW v \in Vaults, Purge(v) PROVE PairInv'
    BY <1>2 DEF Purge
  <1>3. CASE UNCHANGED vars
    BY <1>3 DEF vars
  <1> QED BY <1>1, <1>2, <1>3, NextCases

LEMMA PairInvariant == BodiesPaired => (Spec => []PairInv)
  <1> SUFFICES ASSUME BodiesPaired PROVE Spec => []PairInv
    OBVIOUS
  <1>1. Init => PairInv
    BY DEF Init, PairInv, PairsStayTogether, Idle, Paired, NoCols, IvOf, Columns
  <1>2. TypeOK /\ PairInv /\ [Next]_vars => PairInv'
    BY PairNext
  <1> QED BY <1>1, <1>2, TypeCorrect, PTL DEF Spec

\* If clients send both halves of a pair or neither, as the web client does,
\* every stored ciphertext keeps the IV it was encrypted with, although the
\* UPDATEs of concurrent requests carry different columns.
THEOREM PairsKept == BodiesPaired => (Spec => []PairsStayTogether)
  <1> SUFFICES ASSUME BodiesPaired PROVE Spec => []PairsStayTogether
    OBVIOUS
  <1>1. PairInv => PairsStayTogether
    BY DEF PairInv
  <1> QED BY <1>1, PairInvariant, PTL

-----------------------------------------------------------------------------
(* Who changes what *)

\* The rows after a commit or a purge, as far as the properties below tell.
LEMMA RowsNext ==
    ASSUME TypeOK, [Next]_vars, NEW i \in Items, rows[i] # NoRow, rows'[i] # rows[i]
    PROVE  \/ rows'[i] = NoRow /\ rows[i].vault \notin vaults'
           \/ \E r \in Requests :
                /\ req[r].item = i /\ req[r].vault = rows[i].vault /\ req'[r] = Idle
                /\ \/ req[r].op = "delete" /\ rows'[i].col = rows[i].col
                   \/ /\ req[r].op = "update"
                      /\ rows'[i].col = [c \in Columns |-> IF c \in Changed(r) THEN req[r].body[c]
                                                           ELSE rows[i].col[c]]
  <1>0. req \in [Requests -> Request] /\ rows \in [Items -> Row \cup {NoRow}]
    BY DEF TypeOK
  <1>1. ASSUME NEW r \in Requests, UpdateItemCommit(r)
        PROVE  /\ req[r].item = i /\ req[r].vault = rows[i].vault /\ req'[r] = Idle
               /\ req[r].op = "update"
               /\ rows'[i].col = [c \in Columns |-> IF c \in Changed(r) THEN req[r].body[c]
                                                    ELSE rows[i].col[c]]
    <2>1. Write(r) /\ req[r].op = "update" /\ req'[r] = Idle
      BY <1>0, <1>1 DEF UpdateItemCommit, End
    <2>2. req[r].item = i
      BY <1>0, <2>1 DEF Write
    <2>3. req[r].vault = rows[i].vault
      BY <2>1, <2>2 DEF TypeOK
    <2> QED BY <1>0, <2>1, <2>2, <2>3 DEF Write
  <1>2. ASSUME NEW r \in Requests, DeleteItemCommit(r)
        PROVE  /\ req[r].item = i /\ req[r].vault = rows[i].vault /\ req'[r] = Idle
               /\ req[r].op = "delete" /\ rows'[i].col = rows[i].col
    <2>1. req[r].op = "delete" /\ req'[r] = Idle
      BY <1>0, <1>2 DEF DeleteItemCommit, End
    <2>2. req[r].item = i
      BY <1>0, <1>2 DEF DeleteItemCommit
    <2>3. req[r].vault = rows[i].vault
      BY <2>1, <2>2 DEF TypeOK
    <2> QED BY <1>0, <1>2, <2>1, <2>2, <2>3 DEF DeleteItemCommit
  <1>3. ASSUME NEW v \in Vaults, Purge(v)
        PROVE  rows'[i] = NoRow /\ rows[i].vault \notin vaults'
    BY <1>3 DEF Purge
  <1>4. \/ \E r \in Requests : UpdateItemCommit(r) \/ DeleteItemCommit(r)
        \/ \E v \in Vaults : Purge(v)
    <2>1. ASSUME NEW r \in Requests, CreateItemCommit(r) PROVE rows'[i] = rows[i]
      BY <2>1 DEF CreateItemCommit, TypeOK
    <2>2. ASSUME NEW r \in Requests, Handler(r)
          PROVE  UpdateItemCommit(r) \/ DeleteItemCommit(r)
      BY <2>1, <2>2 DEF Handler, CreateItem, UpdateItem, DeleteItem, RequestDies
    <2> QED BY <2>2, NextCases DEF vars
  <1> QED BY <1>1, <1>2, <1>3, <1>4

\* Requests of other vaults never touch an item.
THEOREM Isolation == Spec => OwnersOnly
  <1> DEFINE A == \A i \in Items : rows[i] # NoRow /\ rows'[i] # rows[i] =>
                    \/ rows[i].vault \notin vaults'
                    \/ \E r \in Requests : req[r].vault = rows[i].vault /\ req[r] # req'[r]
  <1>1. TypeOK /\ [Next]_vars => A
    <2> SUFFICES ASSUME TypeOK, [Next]_vars, NEW i \in Items,
                        rows[i] # NoRow, rows'[i] # rows[i], rows[i].vault \in vaults'
                 PROVE  \E r \in Requests : req[r].vault = rows[i].vault /\ req[r] # req'[r]
      OBVIOUS
    <2>1. PICK r \in Requests :
             /\ req[r].vault = rows[i].vault /\ req'[r] = Idle
             /\ req[r].op \in {"update", "delete"}
      BY RowsNext
    <2> QED BY <2>1 DEF Idle
  <1>2. TypeOK /\ [Next]_vars => [A]_vars
    BY <1>1
  <1> HIDE DEF A
  <1>3. Spec => [][A]_vars
    BY <1>2, TypeCorrect, PTL DEF Spec
  <1> QED BY <1>3 DEF A, OwnersOnly

\* A column changes only by a PATCH that names it: of two requests that write
\* different columns of one item, neither undoes the other.
THEOREM UpdatesKept == Spec => NoLostUpdate
  <1> DEFINE A == \A i \in Items, c \in Columns :
                    rows[i] # NoRow /\ rows'[i] # NoRow /\ rows'[i].col[c] # rows[i].col[c] =>
                      \E r \in Requests :
                         /\ req[r].op = "update" /\ req[r].item = i /\ req'[r] = Idle
                         /\ c \in DOMAIN req[r].body
                         /\ rows'[i].col[c] = req[r].body[c]
  <1>1. TypeOK /\ [Next]_vars => A
    <2> SUFFICES ASSUME TypeOK, [Next]_vars, NEW i \in Items, NEW c \in Columns,
                        rows[i] # NoRow, rows'[i] # NoRow, rows'[i].col[c] # rows[i].col[c]
                 PROVE  \E r \in Requests :
                           /\ req[r].op = "update" /\ req[r].item = i /\ req'[r] = Idle
                           /\ c \in DOMAIN req[r].body
                           /\ rows'[i].col[c] = req[r].body[c]
      OBVIOUS
    <2>1. PICK r \in Requests :
             /\ req[r].item = i /\ req'[r] = Idle /\ req[r].op = "update"
             /\ rows'[i].col = [d \in Columns |-> IF d \in Changed(r) THEN req[r].body[d]
                                                  ELSE rows[i].col[d]]
      BY RowsNext
    <2>2. c \in Changed(r)
      BY <2>1
    <2> QED BY <2>1, <2>2 DEF Changed
  <1>2. TypeOK /\ [Next]_vars => [A]_vars
    BY <1>1
  <1> HIDE DEF A
  <1>3. Spec => [][A]_vars
    BY <1>2, TypeCorrect, PTL DEF Spec
  <1> QED BY <1>3 DEF A, NoLostUpdate

-----------------------------------------------------------------------------
(* The routes implement ItemStore *)

\* The marks on the shelf are no items.
LEMMA NotOnShelf == Gone \notin Store!Item /\ NoRow \notin Store!Item
  <1>1. Store!Item \subseteq [vault : Vaults, col : Cols]
    BY DEF Store!Item
  <1> QED BY <1>1, DistinctAssumption

\* A row that decrypts lies on the shelf.
LEMMA RowOnShelf ==
    ASSUME NEW row \in Row, Paired(row.col)
    PROVE  [vault |-> row.vault, col |-> row.col] \in Store!Item
  BY DEF Row, Store!Item

LEMMA ShelfLive ==
    ASSUME TypeOK, PairInv, NEW i \in Items, Live(i)
    PROVE  /\ Shelf(i) = [vault |-> rows[i].vault, col |-> rows[i].col]
           /\ Shelf(i) \in Store!Item
  <1>1. rows[i] \in Row /\ Paired(rows[i].col)
    BY DEF TypeOK, Live, PairInv, PairsStayTogether
  <1> QED BY <1>1, RowOnShelf DEF Shelf

LEMMA ShelfLiveNext ==
    ASSUME TypeOK', PairInv', NEW i \in Items, Live(i)'
    PROVE  /\ Shelf(i)' = [vault |-> rows'[i].vault, col |-> rows'[i].col]
           /\ Shelf(i)' \in Store!Item
  <1>1. rows'[i] \in Row /\ Paired(rows'[i].col)
    BY DEF TypeOK, Live, PairInv, PairsStayTogether
  <1> QED BY <1>1, RowOnShelf DEF Shelf

\* A step that leaves all but one item where it is, seen from the shelf.
LEMMA OneItem ==
    ASSUME NEW i \in Items, \A j \in Items : j # i => Shelf(j)' = Shelf(j)
    PROVE  /\ Store!At(i)
           /\ Shelf(i)' = Shelf(i) => [j \in Items |-> Shelf(j)]' = [j \in Items |-> Shelf(j)]
  BY DEF Store!At

LEMMA StoreNext ==
    ASSUME TypeOK, PairInv, TypeOK', PairInv', [Next]_vars
    PROVE  [Store!Next]_([i \in Items |-> Shelf(i)])
  <1> DEFINE shelf == [i \in Items |-> Shelf(i)]
  <1>0. req \in [Requests -> Request] /\ rows \in [Items -> Row \cup {NoRow}]
    BY DEF TypeOK
  <1>1. CASE UNCHANGED <<rows, drawn>>
    <2>1. \A i \in Items : Shelf(i)' = Shelf(i)
      BY <1>1 DEF Shelf, Live
    <2> QED BY <2>1
  <1>2. ASSUME NEW i \in Items, Store!Add(i) \/ Store!Edit(i) \/ Store!Remove(i)
        PROVE  Store!Next
    BY <1>2 DEF Store!Next
  <1>3. ASSUME NEW r \in Requests, CreateItemCommit(r), ~UNCHANGED <<rows, drawn>>
        PROVE  Store!Next
    <2>1. PICK i \in Items \ drawn :
             /\ rows' = [rows EXCEPT ![i] =
                  [vault |-> req[r].vault, col |-> req[r].seen, deleted |-> FALSE]]
             /\ drawn' = drawn \cup {i}
      BY <1>3 DEF CreateItemCommit
    <2>2. \A j \in Items : j # i => Shelf(j)' = Shelf(j)
      BY <1>0, <2>1 DEF Shelf, Live
    <2>3. Shelf(i) = NoRow
      BY <2>1 DEF TypeOK, Shelf, Live
    <2>4. rows'[i] = [vault |-> req[r].vault, col |-> req[r].seen, deleted |-> FALSE]
      BY <1>0, <2>1
    <2>5. req[r].vault \in Vaults /\ req[r].seen \in Cols
      BY <1>0, <1>3 DEF CreateItemCommit, Request, TypeOK
    <2>6. Live(i)'
      <3>1. rows'[i] \in Row
        BY <2>4, <2>5 DEF Row
      <3>2. rows'[i] # NoRow
        BY <3>1, DistinctAssumption
      <3>3. ~rows'[i].deleted
        BY <2>4
      <3> QED BY <3>2, <3>3 DEF Live
    <2>7. Shelf(i)' \in Store!Item
      BY <2>6, ShelfLiveNext
    <2>8. Store!Add(i)
      BY <2>2, <2>3, <2>7, OneItem DEF Store!Add
    <2> QED BY <1>2, <2>8
  <1>4. ASSUME NEW r \in Requests, UpdateItemCommit(r), ~UNCHANGED <<rows, drawn>>
        PROVE  Store!Next \/ UNCHANGED shelf
    <2>0. ~UNCHANGED rows /\ drawn' = drawn
      BY <1>4 DEF UpdateItemCommit
    <2>1. PICK i \in Items :
             /\ rows[i] # NoRow /\ rows'[i] \in Row /\ rows' = [rows EXCEPT ![i] = rows'[i]]
             /\ rows'[i].vault = rows[i].vault /\ rows'[i].deleted = rows[i].deleted
      BY <1>4, <2>0, WrittenRow
    <2>2. \A j \in Items : j # i => rows'[j] = rows[j]
      BY <1>0, <2>1
    <2>4. \A j \in Items : j # i => Shelf(j)' = Shelf(j)
      BY <2>0, <2>2 DEF Shelf, Live
    <2>5. CASE Live(i) /\ Live(i)'
      <3>1. Shelf(i) \in Store!Item /\ Shelf(i)' \in Store!Item /\ Shelf(i)'.vault = Shelf(i).vault
        BY <2>1, <2>5, ShelfLive, ShelfLiveNext
      <3>2. Store!Edit(i)
        BY <2>1, <2>4, <3>1, OneItem DEF Store!Edit
      <3> QED BY <1>2, <2>1, <3>2
    <2>6. CASE ~Live(i) /\ ~Live(i)'
      <3>1. Shelf(i)' = Shelf(i)
        BY <2>0, <2>6 DEF Shelf
      <3> QED BY <2>1, <2>4, <3>1, OneItem
    <2>7. Live(i)' <=> Live(i)
      BY <2>1, DistinctAssumption DEF Live
    <2> QED BY <2>5, <2>6, <2>7
  <1>5. ASSUME NEW r \in Requests, DeleteItemCommit(r), ~UNCHANGED <<rows, drawn>>
        PROVE  Store!Next \/ UNCHANGED shelf
    <2>0. PICK i \in Items : i = req[r].item
      BY <1>0, <1>5 DEF DeleteItemCommit, TypeOK
    <2>1. i \in drawn /\ drawn' = drawn
             /\ rows' = [rows EXCEPT ![i] =
                  [vault |-> rows[i].vault, col |-> rows[i].col, deleted |-> TRUE]]
      BY <1>0, <1>5, <2>0 DEF DeleteItemCommit, TypeOK
    <2>2. \A j \in Items : j # i => Shelf(j)' = Shelf(j)
      BY <1>0, <2>1 DEF Shelf, Live
    <2>3. Shelf(i)' = Gone
      BY <1>0, <2>1 DEF Shelf, Live
    <2>4. CASE Live(i)
      <3>1. Shelf(i) \in Store!Item
        BY <2>1, <2>4, ShelfLive
      <3>2. Store!Remove(i)
        BY <2>1, <2>2, <2>3, <3>1, OneItem DEF Store!Remove
      <3> QED BY <1>2, <2>1, <3>2
    <2>5. CASE ~Live(i)
      <3>1. Shelf(i)' = Shelf(i)
        BY <2>1, <2>3, <2>5 DEF Shelf
      <3> QED BY <2>1, <2>2, <3>1, OneItem
    <2> QED BY <2>4, <2>5
  <1>6. ASSUME NEW v \in Vaults, Purge(v) PROVE Store!Next
    <2>1. \A i \in Items :
             Shelf(i)' = IF Shelf(i) \in Store!Item /\ Shelf(i).vault = v THEN Gone ELSE Shelf(i)
      <3> SUFFICES ASSUME NEW i \in Items
                   PROVE  Shelf(i)' = IF Shelf(i) \in Store!Item /\ Shelf(i).vault = v
                                      THEN Gone ELSE Shelf(i)
        OBVIOUS
      <3>1. rows'[i] = IF rows[i] # NoRow /\ rows[i].vault = v THEN NoRow ELSE rows[i]
        BY <1>6 DEF Purge
      <3>2. drawn' = drawn /\ (rows[i] # NoRow => i \in drawn)
        BY <1>6 DEF Purge, TypeOK
      <3>3. CASE Live(i)
        <4>1. Shelf(i) = [vault |-> rows[i].vault, col |-> rows[i].col] /\ Shelf(i) \in Store!Item
          BY <3>3, ShelfLive
        <4>2. CASE rows[i].vault = v
          BY <3>1, <3>2, <3>3, <4>1, <4>2 DEF Live, Shelf
        <4>3. CASE rows[i].vault # v
          BY <3>1, <3>2, <3>3, <4>1, <4>3 DEF Live, Shelf
        <4> QED BY <4>2, <4>3
      <3>4. CASE ~Live(i)
        <4>1. Shelf(i)' = Shelf(i)
          BY <3>1, <3>2, <3>4 DEF Live, Shelf
        <4>2. Shelf(i) \in {Gone, NoRow}
          BY <3>4 DEF Shelf
        <4> QED BY <4>1, <4>2, NotOnShelf
      <3> QED BY <3>3, <3>4
    <2>2. Store!Clear(v)
      BY <2>1 DEF Store!Clear
    <2> QED BY <2>2 DEF Store!Next
  <1>7. \/ UNCHANGED <<rows, drawn>>
        \/ \E r \in Requests : CreateItemCommit(r) \/ UpdateItemCommit(r) \/ DeleteItemCommit(r)
        \/ \E v \in Vaults : Purge(v)
    BY NextCases DEF Handler, CreateItem, UpdateItem, DeleteItem, RequestDies, vars
  <1> QED BY <1>1, <1>3, <1>4, <1>5, <1>6, <1>7

\* However requests and purges interleave, what clients see of the items is a
\* behavior of ItemStore.
THEOREM Refinement == BodiesPaired => (Spec => StoreSpec)
  <1> SUFFICES ASSUME BodiesPaired PROVE Spec => StoreSpec
    OBVIOUS
  <1>1. Init => Store!Init
    BY DEF Init, Store!Init, Shelf, Live
  <1>2. TypeOK /\ PairInv /\ TypeOK' /\ PairInv' /\ [Next]_vars
           => [Store!Next]_([i \in Items |-> Shelf(i)])
    BY StoreNext
  <1> QED BY <1>1, <1>2, TypeCorrect, PairInvariant, PTL DEF Spec, StoreSpec, Store!Spec
=============================================================================
