------------------------------ MODULE CodeSlot ------------------------------
(***************************************************************************)
(* What the keys of one-time codes promise, with none of the requests that  *)
(* issue codes: one is stored at a time, for no longer than its life, and    *)
(* one that was replaced, accepted or outlived is never stored again.  A     *)
(* submission is let in once, with the code it found stored.                 *)
(*                                                                         *)
(* What is not promised: submissions that found the code before one of them  *)
(* was let in are all let in with it, and the last may come when it was      *)
(* replaced or has expired, and take a newer code with it.                   *)
(***************************************************************************)
EXTENDS Naturals

CONSTANTS Codes, Submissions, Ttl, NoCode

VARIABLES
    slot,         \* the code that is stored, or NoCode
    until,        \* when the last one that was issued expires
    clock,
    issued,       \* the codes that were stored at some time
    found,        \* what each submission under way found stored
    accepted      \* how often somebody was let in with each code

slotVars == <<slot, until, clock, issued, found, accepted>>

Issue ==
    \E c \in Codes \ issued :
        /\ slot' = c /\ until' = clock + Ttl
        /\ issued' = issued \cup {c}
        /\ UNCHANGED <<clock, found, accepted>>

Find(s) ==
    /\ slot # NoCode /\ found[s] = NoCode
    /\ found' = [found EXCEPT ![s] = slot]
    /\ UNCHANGED <<slot, until, clock, issued, accepted>>

Accept(s) ==
    /\ found[s] # NoCode
    /\ slot' = NoCode
    /\ found' = [found EXCEPT ![s] = NoCode]
    /\ accepted' = [accepted EXCEPT ![found[s]] = @ + 1]
    /\ UNCHANGED <<until, clock, issued>>

Pass ==
    /\ clock' = clock + 1
    /\ slot' = IF clock' < until THEN slot ELSE NoCode
    /\ UNCHANGED <<until, issued, found, accepted>>

Init ==
    /\ slot = NoCode /\ until = 0 /\ clock = 0 /\ issued = {}
    /\ found = [s \in Submissions |-> NoCode]
    /\ accepted = [c \in Codes |-> 0]

Next == Issue \/ (\E s \in Submissions : Find(s) \/ Accept(s)) \/ Pass

Spec == Init /\ [][Next]_slotVars
=============================================================================
