-------------------------- MODULE AccountLifecycle --------------------------
(***************************************************************************)
(* What the backend promises about an account, with none of the requests,  *)
(* sessions and jobs that bring it about.                                  *)
(*                                                                         *)
(* An address belongs to at most one account.  An account is opened, may   *)
(* be soft-deleted and reactivated any number of times, and is gone for    *)
(* good after a purge.  A purge is decided upon (`doomed`) only while the   *)
(* account is soft-deleted; from there on a reactivation may come too late. *)
(***************************************************************************)
CONSTANTS UserIds, Emails, NoUser

VARIABLES
    phase,    \* of each id: "none", "active", "deleted", "doomed" or "gone"
    holder    \* of each address: the account it belongs to

Open(u, e) ==
    /\ phase[u] = "none" /\ holder[e] = NoUser
    /\ phase' = [phase EXCEPT ![u] = "active"]
    /\ holder' = [holder EXCEPT ![e] = u]

\* An account changes its phase and keeps its address.
Turn(u, from, to) ==
    /\ phase[u] = from
    /\ phase' = [phase EXCEPT ![u] = to]
    /\ UNCHANGED holder

SoftDelete(u) == Turn(u, "active", "deleted")
Reactivate(u) == Turn(u, "deleted", "active")
Doom(u)       == Turn(u, "deleted", "doomed")

\* The purge is abandoned before it took place.
Spare(u) == Turn(u, "doomed", "deleted") \/ Turn(u, "doomed", "active")

Purge(u) ==
    /\ phase[u] = "doomed"
    /\ phase' = [phase EXCEPT ![u] = "gone"]
    /\ holder' = [e \in Emails |-> IF holder[e] = u THEN NoUser ELSE holder[e]]

Init ==
    /\ phase = [u \in UserIds |-> "none"]
    /\ holder = [e \in Emails |-> NoUser]

Next ==
    \E u \in UserIds :
        \/ \E e \in Emails : Open(u, e)
        \/ SoftDelete(u) \/ Reactivate(u) \/ Doom(u) \/ Spare(u) \/ Purge(u)

Spec == Init /\ [][Next]_<<phase, holder>>
=============================================================================
