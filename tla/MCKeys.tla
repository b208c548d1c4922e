------------------------------- MODULE MCKeys -------------------------------
(* Instance of Keys for TLC. *)
EXTENDS Keys, TLC

Nothing == [current |-> None, new |-> None, key |-> None, iv |-> None,
            two |-> None, hint |-> None]

\* A change of the password, with all of the wrapped key or some of it.
PasswordBodies ==
    {[Nothing EXCEPT !.current = p, !.new = n, !.key = k, !.iv = v] :
       p \in Word, n \in Word,
       k \in {"wrapped", Empty, None}, v \in {"wrapped", Empty, None}}

OtherBodies ==
    {[Nothing EXCEPT !.current = p, !.two = t, !.hint = h] :
       p \in Passwords \cup {None}, t \in BOOLEAN \cup {None}, h \in Hints \cup {None}}

MixedBodies ==
    {[Nothing EXCEPT !.current = p, !.new = n, !.key = "wrapped", !.iv = "wrapped",
                     !.two = TRUE, !.hint = h] : p \in Passwords, n \in Passwords, h \in Hints}

SomeBodies == PasswordBodies \cup OtherBodies \cup MixedBodies
=============================================================================
