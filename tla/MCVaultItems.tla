---------------------------- MODULE MCVaultItems ----------------------------
(* Instances of VaultItems for TLC. *)
EXTENDS VaultItems, TLC

\* What the web client sends: toggleFavorite, and the edit form.
WebBodies ==
    {[c \in {"favorite"} |-> f] : f \in BOOLEAN}
        \cup {Encrypted(b, f) : b \in Blobs, f \in BOOLEAN}

\* One half of a pair without the other.
Halves == {[c \in {k} |-> b] : k \in {"encrypted_title", "data_iv"}, b \in Blobs}

\* And what a client of the API may send besides.
NonEmptyBodies ==
    WebBodies \cup Halves \cup {[c \in {"favorite"} |-> Null]}
        \cup {[c \in {"encrypted_title", "title_iv"} |-> b] : b \in Blobs}

Symmetry == Permutations(Items) \cup Permutations(Vaults)
                \cup Permutations(Requests) \cup Permutations(Blobs)
=============================================================================
