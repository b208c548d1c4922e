-------------------------- MODULE AccountSettings --------------------------
(***************************************************************************)
(* What PATCH of the current user promises: the account has one password,   *)
(* which also opens its vault, and a request takes effect in one step and   *)
(* once, or not at all.  In that step a field it names gets the value it    *)
(* asks for, and a field it does not name stays.                            *)
(*                                                                         *)
(* The one exception: what the account already had when the request came    *)
(* counts as not asked for, though another request has changed it since.    *)
(***************************************************************************)
CONSTANTS Requests, Passwords, Hints, None

VARIABLES
    password,   \* what the server accepts, None before the account exists
    opens,      \* the password whose master key opens the stored vault key
    two,        \* two_factor_enabled
    hint,       \* master_password_hint
    asked       \* the requests that came, and what the account was then; or None

vars == <<password, opens, two, hint, asked>>

Open(p) ==
    /\ password = None
    /\ password' = p /\ opens' = p
    /\ UNCHANGED <<two, hint, asked>>

Ask(r) ==
    /\ password # None /\ asked[r] = None
    /\ \E p \in Passwords \cup {None}, t \in BOOLEAN \cup {None}, h \in Hints \cup {None} :
         asked' = [asked EXCEPT ![r] =
           [new |-> p, two |-> t, hint |-> h, hadTwo |-> two, hadHint |-> hint]]
    /\ UNCHANGED <<password, opens, two, hint>>

Close(r) == asked' = [asked EXCEPT ![r] = None]

Take(r) ==
    LET a == asked[r] IN
    /\ a # None
    /\ password' = IF a.new = None THEN password ELSE a.new
    /\ opens' = IF a.new = None THEN opens ELSE a.new
    /\ two' = IF a.two \in {None, a.hadTwo} THEN two ELSE a.two
    /\ hint' = IF a.hint \in {None, a.hadHint} THEN hint ELSE a.hint
    /\ Close(r)

Drop(r) ==
    /\ asked[r] # None
    /\ Close(r)
    /\ UNCHANGED <<password, opens, two, hint>>

Init ==
    /\ password = None /\ opens = None /\ two = FALSE /\ hint = None
    /\ asked = [r \in Requests |-> None]

Next ==
    \/ \E p \in Passwords : Open(p)
    \/ \E r \in Requests : Ask(r) \/ Take(r) \/ Drop(r)

Spec == Init /\ [][Next]_vars
=============================================================================
