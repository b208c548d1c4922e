------------------------------ MODULE ItemStore ------------------------------
(***************************************************************************)
(* What the backend promises about vault items, with none of the requests   *)
(* that bring it about: an item belongs to one vault for good, its content  *)
(* always decrypts, and once it is gone it stays gone.                      *)
(***************************************************************************)
CONSTANTS Items, Vaults, Contents, NoItem, Gone

VARIABLE shelf    \* of each id: NoItem, the item, or Gone

Item == [vault : Vaults, col : Contents]

\* Only item i changes.
At(i) == shelf' = [shelf EXCEPT ![i] = shelf'[i]]

Add(i) ==
    /\ shelf[i] = NoItem
    /\ shelf'[i] \in Item
    /\ At(i)

Edit(i) ==
    /\ shelf[i] \in Item
    /\ shelf'[i] \in Item
    /\ shelf'[i].vault = shelf[i].vault
    /\ At(i)

Remove(i) ==
    /\ shelf[i] \in Item
    /\ shelf'[i] = Gone
    /\ At(i)

\* The vault goes, and all its items with it.
Clear(v) ==
    shelf' = [i \in Items |->
                IF shelf[i] \in Item /\ shelf[i].vault = v THEN Gone ELSE shelf[i]]

Init == shelf = [i \in Items |-> NoItem]

Next ==
    \/ \E i \in Items : Add(i) \/ Edit(i) \/ Remove(i)
    \/ \E v \in Vaults : Clear(v)

Spec == Init /\ [][Next]_shelf
=============================================================================
