------------------------------- MODULE Toasts -------------------------------
(***************************************************************************)
(* The toasts of SnackbarProvider: one at a time, the others queued.  A     *)
(* toast is its number in the order showToast was called.  The queue is     *)
(* processed while rendering, so a step ends with the render that follows.  *)
(***************************************************************************)
EXTENDS Naturals, Sequences

CONSTANTS
    MaxToasts,     \* bound: the calls of showToast
    None

ASSUME ToastsAssumption == MaxToasts \in Nat /\ None \notin Nat

VARIABLES
    queue, current, open,      \* the state of SnackbarProvider
    held,          \* the pointer is on the toast, or the window has no focus
    asked,         \* history: how often showToast was called
    shown          \* history: the toasts that were shown

toasts == <<queue, current, open, held, asked, shown>>

-----------------------------------------------------------------------------
(* Mutants: what a bug would make of the definitions below *)

\* A queue that gives out the toast that came last.
ProcessLatest(q, c) ==
    IF q # <<>> /\ c = None
    THEN /\ current' = q[Len(q)] /\ queue' = SubSeq(q, 1, Len(q) - 1) /\ open' = TRUE
         /\ shown' = Append(shown, q[Len(q)])
    ELSE current' = c /\ queue' = q /\ UNCHANGED <<open, shown>>

-----------------------------------------------------------------------------
\* The render with a queue and a current toast.
Process(q, c) ==
    IF q # <<>> /\ c = None
    THEN current' = Head(q) /\ queue' = Tail(q) /\ open' = TRUE /\ shown' = Append(shown, Head(q))
    ELSE current' = c /\ queue' = q /\ UNCHANGED <<open, shown>>

ShowToast ==
    /\ asked < MaxToasts
    /\ asked' = asked + 1
    /\ Process(Append(queue, asked + 1), current)
    /\ UNCHANGED held

\* handleClose by its button or Escape, which no pointer stops; a click elsewhere
\* leaves the toast as it is.
Dismiss ==
    /\ open
    /\ open' = FALSE
    /\ UNCHANGED <<queue, current, held, asked, shown>>

\* handleClose by the timer, which Snackbar stops and starts again.
AutoHide == ~held /\ Dismiss

Hold == open /\ ~held /\ held' = TRUE /\ UNCHANGED <<queue, current, open, asked, shown>>
Release == held /\ held' = FALSE /\ UNCHANGED <<queue, current, open, asked, shown>>

\* handleExited, at the end of the transition.
Exited ==
    /\ current # None /\ ~open
    /\ Process(queue, None)
    /\ UNCHANGED <<held, asked>>

ToastsInit ==
    queue = <<>> /\ current = None /\ open = FALSE /\ held = FALSE /\ asked = 0 /\ shown = <<>>

ToastsNext == Dismiss \/ AutoHide \/ Hold \/ Release \/ Exited

\* The timer and the transition of Snackbar run.  The timer starts anew each time
\* the toast was held.
ToastsFairness == WF_toasts(AutoHide) /\ WF_toasts(Exited)

ToastsTypeOK ==
    /\ queue \in Seq(1..MaxToasts) /\ shown \in Seq(1..MaxToasts)
    /\ current \in 1..MaxToasts \cup {None}
    /\ open \in BOOLEAN /\ held \in BOOLEAN
    /\ asked \in 0..MaxToasts

\* The toasts come in the order they were asked for, each of them once: the ones
\* that were shown, of which the current is the last, then those in the queue; and
\* none waits while the place is free.
ToastsInOrder ==
    /\ Len(shown) + Len(queue) = asked
    /\ \A i \in 1..Len(shown) : shown[i] = i
    /\ \A i \in 1..Len(queue) : queue[i] = Len(shown) + i
    /\ IF current = None THEN queue = <<>> /\ ~open ELSE shown # <<>> /\ current = Len(shown)
=============================================================================
