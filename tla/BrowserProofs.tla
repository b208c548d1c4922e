--------------------------- MODULE BrowserProofs ---------------------------
(***************************************************************************)
(* Theorems about what runs in the browser alone.                          *)
(*                                                                         *)
(* Session: types for any number of tabs, and for a browser with one tab,  *)
(* any number of accounts and of outstanding requests, that a calm tab     *)
(* agrees with its cookie and encrypts with its vault's key.               *)
(*                                                                         *)
(* Generator and Toasts: for any words, pools and lengths, that draws and  *)
(* shuffles favour nothing, that a result fits its options, and that       *)
(* toasts keep their order.  The loop of the shuffle is reasoned about by  *)
(* induction over a set of numbers, which InductionOverSet justifies.      *)
(***************************************************************************)
EXTENDS Session, Generator, FiniteSetTheorems, SequenceTheorems, TLAPS

LEMMA NextCases ==
    ASSUME [Next]_vars
    PROVE  \/ \E t \in Tabs : User(t) \/ Continue(t)
           \/ CookieExpires
           \/ UNCHANGED vars
  BY DEF Next

-----------------------------------------------------------------------------
(* Session: types *)

LEMMA TypeInit == Init => TypeOK
  <1> SUFFICES ASSUME Init PROVE TypeOK
    OBVIOUS
  <1> USE NoneAssumption DEF Init, Maybe
  <1>1. whoami \in [Tabs -> [Slots -> Maybe \cup {NoFetch}]]
    <2>1. PICK m \in Slots : whoami = [t \in Tabs |-> [NoWhoami EXCEPT ![m] = cookie]]
      OBVIOUS
    <2> QED BY <2>1 DEF NoWhoami
  <1> QED BY <1>1 DEF TypeOK, Login, NoLogin, Unlocking, NoUnlock

LEMMA TypeNext == TypeOK /\ [Next]_vars => TypeOK'
  <1> SUFFICES ASSUME TypeOK, [Next]_vars PROVE TypeOK'
    OBVIOUS
  <1> USE NoneAssumption
  <1>1. ASSUME NEW t \in Tabs, User(t) \/ Continue(t) PROVE TypeOK'
    <2> USE DEF TypeOK, Maybe, Login, NoLogin, Unlocking, NoUnlock, Proxy, shell, flights
    <2>1. CASE \E a \in Accounts : SubmitLogin(t, a)
      BY <2>1 DEF SubmitLogin, QuiteAlone
    <2>2. CASE StartLogout(t)
      BY <2>2 DEF StartLogout, Alone
    <2>3. CASE StartUnlock(t)
      BY <2>3 DEF StartUnlock, Alone
    <2>4. CASE StartAdd(t)
      BY <2>4 DEF StartAdd, Alone
    <2>5. CASE Lock(t)
      BY <2>5 DEF Lock
    <2>6. CASE \E p \in {"login", "vault"} : Visit(t, p)
      BY <2>6 DEF Visit
    <2>7. CASE \E p \in {"login", "vault"} : Back(t, p)
      BY <2>7 DEF Back
    <2>8. CASE Reload(t)
      BY <2>8 DEF Reload, Alone, FetchUser, NoWhoami
    <2>9. CASE LoginAnswered(t)
      BY <2>9 DEF LoginAnswered
    <2>10. CASE LoginRefused(t)
      BY <2>10 DEF LoginRefused
    <2>11. CASE LoginFails(t)
      BY <2>11 DEF LoginFails
    <2>12. CASE ContinueLogin(t)
      BY <2>12 DEF ContinueLogin, FetchUser
    <2>13. CASE FinishLogin(t)
      BY <2>13 DEF FinishLogin
    <2>14. CASE \E m \in Slots : UserArrives(t, m)
      BY <2>14 DEF UserArrives
    <2>15. CASE \E m \in Slots : UserFails(t, m)
      <3>1. PICK m \in Slots : UserFails(t, m)
        BY <2>15
      <3>2. whoami' \in [Tabs -> [Slots -> Maybe \cup {NoFetch}]]
        BY <3>1 DEF UserFails
      <3> QED BY <3>1, <3>2 DEF UserFails
    <2>16. CASE LogoutAnswered(t)
      BY <2>16 DEF LogoutAnswered
    <2>17. CASE LogoutFails(t)
      BY <2>17 DEF LogoutFails
    <2>18. CASE FinishLogout(t)
      BY <2>18 DEF FinishLogout
    <2>19. CASE FinishUnlock(t)
      BY <2>19 DEF FinishUnlock
    <2>20. CASE UnlockFails(t)
      BY <2>20 DEF UnlockFails
    <2>21. CASE FinishAdd(t)
      BY <2>21 DEF FinishAdd
    <2> QED BY <1>1, <2>1, <2>2, <2>3, <2>4, <2>5, <2>6, <2>7, <2>8, <2>9, <2>10, <2>11, <2>12, <2>13, <2>14, <2>15, <2>16, <2>17, <2>18, <2>19, <2>20, <2>21 DEF User, Continue
  <1>2. CASE CookieExpires
    BY <1>2 DEF CookieExpires, TypeOK, Maybe, shell, flights
  <1>3. CASE UNCHANGED vars
    BY <1>3 DEF TypeOK, vars, shell, flights
  <1> QED BY <1>1, <1>2, <1>3, NextCases

\* Every variable keeps its type, and a login under way has the address it was
\* submitted with, however tabs interleave.
THEOREM TypeCorrect == Spec => []TypeOK
  BY TypeInit, TypeNext, PTL DEF Spec

-----------------------------------------------------------------------------
(* The only tab *)

\* What IInv says of it once it is calm.
CalmOnly(t) == ItemsUnderOwnKey /\ LoginsAlone(t) /\ (cookie # NoAccount => OneCookie(t))

LEMMA OnlyInit ==
    ASSUME NEW t, Tabs = {t}, Init
    PROVE  calm => CalmOnly(t)
  <1> USE NoneAssumption DEF Init, Maybe
  <1>1. PICK m \in Slots : whoami = [s \in Tabs |-> [NoWhoami EXCEPT ![m] = cookie]]
    OBVIOUS
  <1>2. whoami[t][m] = cookie /\ \A n \in Slots : whoami[t][n] \in {cookie, NoFetch}
    BY <1>1 DEF NoWhoami
  <1>3. cookie # NoFetch /\ NoWhoami[m] = NoFetch
    BY DEF NoWhoami
  <1>4. whoami[t] # NoWhoami
    BY <1>2, <1>3
  <1>5. OneCookie(t)
    BY <1>2, <1>4 DEF OneCookie, NoLogin, NoUnlock
  <1>6. LoginsAlone(t)
    BY DEF LoginsAlone, NoLogin
  <1> QED BY <1>5, <1>6 DEF CalmOnly, ItemsUnderOwnKey

LEMMA OnlyNext ==
    ASSUME NEW t, Tabs = {t}, TypeOK, calm => CalmOnly(t), [Next]_vars, calm'
    PROVE  CalmOnly(t)'
  <1> USE NoneAssumption
  <1>1. CASE User(t) \/ Continue(t)
    <2> USE DEF CalmOnly, LoginsAlone, OneCookie, ItemsUnderOwnKey, TypeOK, Maybe, Login, NoLogin, Unlocking, NoUnlock, shell, flights
    <2>1. CASE \E a \in Accounts : SubmitLogin(t, a)
      <3>1. PICK a \in Accounts : SubmitLogin(t, a)
        BY <2>1
      <3>2. calm /\ ~Busy(t)
        BY <3>1 DEF SubmitLogin, QuiteAlone
      <3>3. login[t] = NoLogin /\ login'[t] = [st |-> "sent", email |-> a, as |-> NoAccount]
        BY <3>1 DEF SubmitLogin
      <3>4. UNCHANGED <<cookie, shell, whoami, logout, unlock, add, items>>
        BY <3>1 DEF SubmitLogin
      <3> QED BY <3>2, <3>3, <3>4 DEF Busy
    <2>2. CASE StartLogout(t)
      BY <2>2 DEF StartLogout, Alone
    <2>3. CASE StartUnlock(t)
      BY <2>3 DEF StartUnlock, Alone
    <2>4. CASE StartAdd(t)
      <3>1. calm /\ login[t] = NoLogin /\ add'[t] = key[t]
        BY <2>4 DEF StartAdd, Alone
      <3>2. UNCHANGED <<cookie, shell, login, whoami, logout, unlock, items>>
        BY <2>4 DEF StartAdd
      <3> QED BY <3>1, <3>2
    <2>5. CASE Lock(t)
      BY <2>5 DEF Lock
    <2>6. CASE \E p \in {"login", "vault"} : Visit(t, p)
      BY <2>6 DEF Visit
    <2>7. CASE \E p \in {"login", "vault"} : Back(t, p)
      BY <2>7 DEF Back
    <2>8. CASE Reload(t)
      BY <2>8 DEF Reload, Alone, FetchUser, NoWhoami
    <2>9. CASE LoginAnswered(t)
      BY <2>9 DEF LoginAnswered
    <2>10. CASE LoginRefused(t)
      BY <2>10 DEF LoginRefused
    <2>11. CASE LoginFails(t)
      BY <2>11 DEF LoginFails
    <2>12. CASE ContinueLogin(t)
      BY <2>12 DEF ContinueLogin, FetchUser, NoWhoami
    <2>13. CASE FinishLogin(t)
      BY <2>13 DEF FinishLogin, Unwraps
    <2>14. CASE \E m \in Slots : UserArrives(t, m)
      BY <2>14 DEF UserArrives, NoWhoami
    <2>15. CASE \E m \in Slots : UserFails(t, m)
      BY <2>15 DEF UserFails
    <2>16. CASE LogoutAnswered(t)
      BY <2>16 DEF LogoutAnswered
    <2>17. CASE LogoutFails(t)
      BY <2>17 DEF LogoutFails
    <2>18. CASE FinishLogout(t)
      BY <2>18 DEF FinishLogout
    <2>19. CASE FinishUnlock(t)
      BY <2>19 DEF FinishUnlock, Unwraps
    <2>20. CASE UnlockFails(t)
      BY <2>20 DEF UnlockFails
    <2>21. CASE FinishAdd(t)
      BY <2>21 DEF FinishAdd
    <2> QED BY <1>1, <2>1, <2>2, <2>3, <2>4, <2>5, <2>6, <2>7, <2>8, <2>9, <2>10, <2>11, <2>12, <2>13, <2>14, <2>15, <2>16, <2>17, <2>18, <2>19, <2>20, <2>21 DEF User, Continue
  <1>2. CASE CookieExpires
    BY <1>2 DEF CookieExpires, CalmOnly, LoginsAlone, OneCookie, ItemsUnderOwnKey, shell, flights
  <1>3. CASE UNCHANGED vars
    BY <1>3 DEF CalmOnly, LoginsAlone, OneCookie, ItemsUnderOwnKey, vars, shell, flights
  <1> QED BY <1>1, <1>2, <1>3, NextCases

\* The inductive invariant: a browser with one tab, any number of accounts and of
\* requests outstanding.
THEOREM Invariant == (\E t : Tabs = {t}) => (Spec => []IInv)
  <1> SUFFICES ASSUME NEW t, Tabs = {t} PROVE Spec => []IInv
    OBVIOUS
  <1>1. IInv <=> TypeOK /\ (calm => CalmOnly(t))
    BY DEF IInv, CalmOnly
  <1>2. Init => IInv
    BY <1>1, TypeInit, OnlyInit
  <1>3. IInv /\ [Next]_vars => IInv'
    <2> SUFFICES ASSUME IInv, [Next]_vars PROVE IInv'
      OBVIOUS
    <2>1. TypeOK /\ (calm => CalmOnly(t))
      BY DEF IInv, CalmOnly
    <2>2. TypeOK'
      BY <2>1, TypeNext
    <2>3. calm' => CalmOnly(t)'
      BY <2>1, OnlyNext
    <2> QED BY <2>2, <2>3 DEF IInv, CalmOnly
  <1> QED BY <1>2, <1>3, PTL DEF Spec

\* What the only tab stores in a vault opens with the key of that vault, as long
\* as no login overlaps anything or fails between its cookie and its key.
THEOREM ItemsOpen == (\E t : Tabs = {t}) => (Spec => []CalmItemsOpen)
  <1> SUFFICES ASSUME \E t : Tabs = {t} PROVE Spec => []CalmItemsOpen
    OBVIOUS
  <1>1. IInv => CalmItemsOpen
    BY DEF IInv, CalmItemsOpen
  <1> QED BY <1>1, Invariant, PTL

\* At rest the only tab shows the account whose cookie it sends, and holds the key
\* of no other, under the same condition.
THEOREM TabAgrees == (\E t : Tabs = {t}) => (Spec => []CalmTabAgrees)
  <1> SUFFICES ASSUME \E t : Tabs = {t} PROVE Spec => []CalmTabAgrees
    OBVIOUS
  <1>1. IInv => CalmTabAgrees
    BY DEF IInv, CalmTabAgrees, LoginsAlone, OneCookie, Busy, NoLogin
  <1> QED BY <1>1, Invariant, PTL

-----------------------------------------------------------------------------
(* Induction, for what a loop computes *)

\* Induction over the numbers, as a fact about sets: were m the number left out,
\* x |-> x + 1 would be an injection of a finite set into itself that misses 0.
LEMMA InductionOverSet ==
    ASSUME NEW S, 0 \in S, \A n \in Nat : n \in S => n + 1 \in S
    PROVE  Nat \subseteq S
  <1> SUFFICES ASSUME NEW m \in Nat, m \notin S PROVE FALSE
    OBVIOUS
  <1> DEFINE A == (0..m) \cap S
             f == [x \in A |-> x + 1]
  <1>1. IsFiniteSet(A)
    <2> HIDE DEF A
    <2>1. A \in SUBSET (0..m)
      BY DEF A
    <2>2. IsFiniteSet(0..m)
      BY FS_Interval
    <2> QED BY <2>1, <2>2, FS_Subset
  <1>2. f \in Injection(A, A)
    <2>1. \A x \in A : x + 1 \in A
      OBVIOUS
    <2> QED BY <2>1 DEF Injection, IsInjective
  <1>3. f \in Surjection(A, A)
    <2> HIDE DEF f, A
    <2> QED BY <1>1, <1>2, FS_Injection
  <1>4. \E x \in A : f[x] = 0
    <2>1. 0 \in A
      OBVIOUS
    <2> HIDE DEF f, A
    <2> QED BY <1>3, <2>1 DEF Surjection
  <1> QED BY <1>4

\* The same downwards from n to 1.
LEMMA InductionDownwards ==
    ASSUME NEW S, NEW n \in Nat \ {0}, n \in S, \A i \in 2..n : i \in S => i - 1 \in S
    PROVE  1..n \subseteq S
  <1> DEFINE K == {k \in Nat : k < n => n - k \in S}
  <1>1. 0 \in K
    OBVIOUS
  <1>2. ASSUME NEW k \in Nat, k \in K PROVE k + 1 \in K
    <2> SUFFICES ASSUME k + 1 < n PROVE n - (k + 1) \in S
      OBVIOUS
    <2>1. n - k \in 2..n /\ n - k \in S
      BY <1>2
    <2>2. (n - k) - 1 \in S
      BY <2>1
    <2> QED BY <2>2
  <1>3. Nat \subseteq K
    <2> HIDE DEF K
    <2> QED BY <1>1, <1>2, InductionOverSet
  <1>4. ASSUME NEW i \in 1..n PROVE i \in S
    <2>1. n - i \in K
      BY <1>3
    <2> QED BY <2>1
  <1> QED BY <1>4

-----------------------------------------------------------------------------
(* The shuffle *)

\* Sequences by their length.
Lists(n, T) == [1..n -> T]

\* The recursive definition of arr defines it.
LEMMA StagesDefined ==
    ASSUME NEW T, NEW n \in Nat \ {0}, NEW s \in Lists(n, T), NEW pick
    PROVE  Stages(s, pick) =
             [i \in 1..n |-> IF i = n THEN s ELSE Swapped(Stages(s, pick)[i + 1], i + 1, pick[i + 1])]
  <1>1. Len(s) = n
    BY DEF Lists
  <1> DEFINE Meets(g, i) == g[i] = (IF i = n THEN s ELSE Swapped(g[i + 1], i + 1, pick[i + 1]))
             S == {i \in 1..n : \E g : g = [j \in 1..n |-> g[j]] /\ \A j \in i..n : Meets(g, j)}
  <1>2. n \in S
    <2> DEFINE g == [j \in 1..n |-> s]
    <2>1. g = [j \in 1..n |-> g[j]] /\ \A j \in n..n : Meets(g, j)
      OBVIOUS
    <2> QED BY <2>1
  <1>3. ASSUME NEW i \in 2..n, i \in S PROVE i - 1 \in S
    <2>1. PICK g : g = [j \in 1..n |-> g[j]] /\ \A j \in i..n : Meets(g, j)
      BY <1>3
    <2> DEFINE h == [j \in 1..n |-> IF j = i - 1 THEN Swapped(g[i], i, pick[i]) ELSE g[j]]
    <2>2. h = [j \in 1..n |-> h[j]]
      OBVIOUS
    <2>3. h[i - 1] = Swapped(g[i], i, pick[i]) /\ \A j \in i..n : h[j] = g[j]
      OBVIOUS
    <2> HIDE DEF h
    <2>4. Meets(h, i - 1)
      BY <2>3
    <2>5. ASSUME NEW j \in i..n PROVE Meets(h, j)
      <3>1. Meets(g, j) /\ h[j] = g[j]
        BY <2>1, <2>3
      <3>2. j # n => h[j + 1] = g[j + 1]
        BY <2>3
      <3> QED BY <3>1, <3>2
    <2>6. \A j \in (i - 1)..n : Meets(h, j)
      BY <2>4, <2>5
    <2> HIDE DEF Meets
    <2> QED BY <2>2, <2>6
  <1>4. 1 \in S
    <2> HIDE DEF S
    <2> QED BY <1>2, <1>3, InductionDownwards
  <1>5. PICK g : g = [j \in 1..n |-> g[j]] /\ \A j \in 1..n : Meets(g, j)
    BY <1>4
  <1>6. g = [j \in 1..n |-> IF j = n THEN s ELSE Swapped(g[j + 1], j + 1, pick[j + 1])]
    BY <1>5
  <1>7. \E arr : arr = [i \in 1..Len(s) |->
                         IF i = Len(s) THEN s ELSE Swapped(arr[i + 1], i + 1, pick[i + 1])]
    BY <1>1, <1>6
  <1>8. Stages(s, pick) = [i \in 1..Len(s) |->
                 IF i = Len(s) THEN s ELSE Swapped(Stages(s, pick)[i + 1], i + 1, pick[i + 1])]
    BY <1>7 DEF Stages
  <1> QED BY <1>1, <1>8

LEMMA SwappedType ==
    ASSUME NEW T, NEW n \in Nat, NEW s \in Lists(n, T), NEW i \in 1..n, NEW j \in 1..n
    PROVE  Swapped(s, i, j) \in Lists(n, T)
  BY DEF Swapped, Lists

LEMMA SwappedAt ==
    ASSUME NEW T, NEW n \in Nat, NEW s \in Lists(n, T), NEW i \in 1..n, NEW j \in 1..n, NEW k \in 1..n
    PROVE  Swapped(s, i, j)[k] = s[IF k = i THEN j ELSE IF k = j THEN i ELSE k]
  BY DEF Swapped, Lists

\* The first stage, and one turn of the loop.
LEMMA StagesStart ==
    ASSUME NEW T, NEW n \in Nat \ {0}, NEW s \in Lists(n, T), NEW pick
    PROVE  Stages(s, pick)[n] = s
  <1>1. Stages(s, pick) =
          [i \in 1..n |-> IF i = n THEN s ELSE Swapped(Stages(s, pick)[i + 1], i + 1, pick[i + 1])]
    BY StagesDefined
  <1> QED BY <1>1

LEMMA StagesTurn ==
    ASSUME NEW T, NEW n \in Nat \ {0}, NEW s \in Lists(n, T), NEW pick, NEW i \in 2..n
    PROVE  Stages(s, pick)[i - 1] = Swapped(Stages(s, pick)[i], i, pick[i])
  <1>1. Stages(s, pick) =
          [j \in 1..n |-> IF j = n THEN s ELSE Swapped(Stages(s, pick)[j + 1], j + 1, pick[j + 1])]
    BY StagesDefined
  <1> PICK j \in 1..n : j = i - 1
    OBVIOUS
  <1>2. j # n /\ j + 1 = i
    OBVIOUS
  <1>3. Stages(s, pick)[j] = Swapped(Stages(s, pick)[j + 1], j + 1, pick[j + 1])
    BY <1>1, <1>2
  <1> QED BY <1>2, <1>3

LEMMA PicksInRange ==
    ASSUME NEW n \in Nat, NEW pick \in Picks(n), NEW i \in 2..n
    PROVE  pick[i] \in 1..n /\ pick[i] <= i
  BY DEF Picks

LEMMA StagesType ==
    ASSUME NEW T, NEW n \in Nat \ {0}, NEW s \in Lists(n, T), NEW pick \in Picks(n)
    PROVE  \A i \in 1..n : Stages(s, pick)[i] \in Lists(n, T)
  <1> DEFINE S == {i \in 1..n : Stages(s, pick)[i] \in Lists(n, T)}
  <1>1. n \in S
    BY StagesStart
  <1>2. ASSUME NEW i \in 2..n, i \in S PROVE i - 1 \in S
    <2>1. Stages(s, pick)[i] \in Lists(n, T) /\ pick[i] \in 1..n /\ i \in 1..n
      BY <1>2, PicksInRange
    <2>2. Swapped(Stages(s, pick)[i], i, pick[i]) \in Lists(n, T)
      BY <2>1, SwappedType
    <2>3. Stages(s, pick)[i - 1] = Swapped(Stages(s, pick)[i], i, pick[i])
      BY StagesTurn
    <2> QED BY <2>2, <2>3
  <1>3. 1..n \subseteq S
    <2> HIDE DEF S
    <2> QED BY <1>1, <1>2, InductionDownwards
  <1> QED BY <1>3

\* What a stage holds depends on the draws before it only.
LEMMA StagesByDraws ==
    ASSUME NEW T, NEW n \in Nat \ {0}, NEW s \in Lists(n, T), NEW p, NEW q, NEW m \in 1..n,
           \A k \in (m + 1)..n : p[k] = q[k]
    PROVE  Stages(s, p)[m] = Stages(s, q)[m]
  <1> DEFINE S == {i \in 1..n : i >= m => Stages(s, p)[i] = Stages(s, q)[i]}
  <1>1. n \in S
    BY StagesStart
  <1>2. ASSUME NEW i \in 2..n, i \in S PROVE i - 1 \in S
    <2> SUFFICES ASSUME i - 1 >= m PROVE Stages(s, p)[i - 1] = Stages(s, q)[i - 1]
      OBVIOUS
    <2>1. Stages(s, p)[i] = Stages(s, q)[i] /\ p[i] = q[i]
      BY <1>2
    <2>2. /\ Stages(s, p)[i - 1] = Swapped(Stages(s, p)[i], i, p[i])
          /\ Stages(s, q)[i - 1] = Swapped(Stages(s, q)[i], i, q[i])
      BY StagesTurn
    <2> QED BY <2>1, <2>2
  <1>3. 1..n \subseteq S
    <2> HIDE DEF S
    <2> QED BY <1>1, <1>2, InductionDownwards
  <1> QED BY <1>3

\* Once the loop has passed a position it leaves it alone.
LEMMA StagesSettle ==
    ASSUME NEW T, NEW n \in Nat \ {0}, NEW s \in Lists(n, T), NEW pick \in Picks(n),
           NEW m \in 1..n, NEW k \in (m + 1)..n
    PROVE  Stages(s, pick)[1][k] = Stages(s, pick)[m][k]
  <1> DEFINE S == {i \in 1..m : Stages(s, pick)[i][k] = Stages(s, pick)[m][k]}
  <1>1. m \in S
    OBVIOUS
  <1>2. ASSUME NEW i \in 2..m, i \in S PROVE i - 1 \in S
    <2>1. Stages(s, pick)[i] \in Lists(n, T) /\ i \in 2..n
      BY StagesType
    <2>2. pick[i] \in 1..n /\ pick[i] <= i
      BY <2>1, PicksInRange
    <2>3. Stages(s, pick)[i - 1] = Swapped(Stages(s, pick)[i], i, pick[i])
      BY <2>1, StagesTurn
    <2>4. i \in 1..n /\ k \in (1..n) \ {i, pick[i]}
      BY <2>1, <2>2
    <2> DEFINE a == Stages(s, pick)[i]
    <2>5. a \in Lists(n, T)
      BY <2>1
    <2> HIDE DEF a
    <2>6. Swapped(a, i, pick[i])[k] = a[IF k = i THEN pick[i] ELSE IF k = pick[i] THEN i ELSE k]
      BY <2>5, <2>2, <2>4, SwappedAt
    <2>7. Swapped(a, i, pick[i])[k] = a[k]
      BY <2>4, <2>6
    <2>8. a[k] = Stages(s, pick)[m][k]
      BY <1>2 DEF a
    <2>9. Stages(s, pick)[i - 1] = Swapped(a, i, pick[i])
      BY <2>3 DEF a
    <2>10. i - 1 \in 1..m
      OBVIOUS
    <2> QED BY <2>7, <2>8, <2>9, <2>10
  <1>3. 1..m \subseteq S
    <2> HIDE DEF S
    <2> QED BY <1>1, <1>2, InductionDownwards
  <1> QED BY <1>3

-----------------------------------------------------------------------------
(* The shuffle makes every order, and each by one run of draws *)

\* A list in the order o.
InOrder(s, o) == [k \in DOMAIN o |-> s[o[k]]]

LEMMA OrderIsList ==
    ASSUME NEW n \in Nat, NEW o \in Orders(n)
    PROVE  o \in Lists(n, 1..n)
  BY DEF Orders, Lists

LEMMA IdentityIsOrder ==
    ASSUME NEW n \in Nat
    PROVE  Identity(n) \in Orders(n)
  BY DEF Orders, Identity

LEMMA OrderSwapped ==
    ASSUME NEW n \in Nat, NEW o \in Orders(n), NEW i \in 1..n, NEW j \in 1..n
    PROVE  Swapped(o, i, j) \in Orders(n)
  BY DEF Orders, Swapped

LEMMA InOrderSwapped ==
    ASSUME NEW T, NEW n \in Nat, NEW s \in Lists(n, T), NEW o \in Orders(n), NEW i \in 1..n, NEW j \in 1..n
    PROVE  Swapped(InOrder(s, o), i, j) = InOrder(s, Swapped(o, i, j))
  BY DEF Orders, Swapped, InOrder, Lists

LEMMA InOrderOfIdentity ==
    ASSUME NEW T, NEW n \in Nat, NEW s \in Lists(n, T)
    PROVE  InOrder(s, Identity(n)) = s
  BY DEF Identity, InOrder, Lists

LEMMA OrderOnto ==
    ASSUME NEW n \in Nat, NEW o \in Orders(n), NEW v \in 1..n
    PROVE  \E k \in 1..n : o[k] = v
  <1>1. o \in Injection(1..n, 1..n)
    BY DEF Orders, Injection, IsInjective
  <1>2. IsFiniteSet(1..n)
    BY FS_Interval
  <1>3. o \in Surjection(1..n, 1..n)
    BY <1>1, <1>2, FS_Injection
  <1> QED BY <1>3 DEF Surjection

LEMMA OrderOnce ==
    ASSUME NEW n \in Nat, NEW o \in Orders(n), NEW i \in 1..n, NEW j \in 1..n, o[i] = o[j]
    PROVE  i = j
  BY DEF Orders

LEMMA StagesAreOrders ==
    ASSUME NEW n \in Nat \ {0}, NEW pick \in Picks(n)
    PROVE  \A i \in 1..n : Stages(Identity(n), pick)[i] \in Orders(n)
  <1> DEFINE d == Identity(n)
             S == {i \in 1..n : Stages(d, pick)[i] \in Orders(n)}
  <1>1. d \in Orders(n) /\ d \in Lists(n, 1..n)
    BY IdentityIsOrder, OrderIsList
  <1> HIDE DEF d
  <1>2. n \in S
    BY <1>1, StagesStart
  <1>3. ASSUME NEW i \in 2..n, i \in S PROVE i - 1 \in S
    <2>1. Stages(d, pick)[i] \in Orders(n) /\ pick[i] \in 1..n /\ i \in 1..n
      BY <1>3, PicksInRange
    <2>2. Swapped(Stages(d, pick)[i], i, pick[i]) \in Orders(n)
      BY <2>1, OrderSwapped
    <2>3. Stages(d, pick)[i - 1] = Swapped(Stages(d, pick)[i], i, pick[i])
      BY <1>1, StagesTurn
    <2> QED BY <2>2, <2>3
  <1>4. 1..n \subseteq S
    <2> HIDE DEF S
    <2> QED BY <1>2, <1>3, InductionDownwards
  <1> QED BY <1>4 DEF d

\* The draws decide the order, whatever is shuffled.
LEMMA StagesInOrder ==
    ASSUME NEW T, NEW n \in Nat \ {0}, NEW s \in Lists(n, T), NEW pick \in Picks(n)
    PROVE  \A i \in 1..n : Stages(s, pick)[i] = InOrder(s, Stages(Identity(n), pick)[i])
  <1> DEFINE d == Identity(n)
             S == {i \in 1..n : Stages(s, pick)[i] = InOrder(s, Stages(d, pick)[i])}
  <1>1. d \in Lists(n, 1..n) /\ InOrder(s, d) = s
    BY IdentityIsOrder, OrderIsList, InOrderOfIdentity
  <1>2. \A i \in 1..n : Stages(d, pick)[i] \in Orders(n)
    BY StagesAreOrders
  <1> HIDE DEF d
  <1>3. n \in S
    <2>1. Stages(s, pick)[n] = s
      BY StagesStart
    <2>2. Stages(d, pick)[n] = d
      BY <1>1, StagesStart
    <2> QED BY <1>1, <2>1, <2>2
  <1>4. ASSUME NEW i \in 2..n, i \in S PROVE i - 1 \in S
    <2>1. Stages(d, pick)[i] \in Orders(n) /\ pick[i] \in 1..n /\ i \in 1..n
      BY <1>2, PicksInRange
    <2>2. Swapped(InOrder(s, Stages(d, pick)[i]), i, pick[i])
            = InOrder(s, Swapped(Stages(d, pick)[i], i, pick[i]))
      BY <2>1, InOrderSwapped
    <2>3. Stages(d, pick)[i - 1] = Swapped(Stages(d, pick)[i], i, pick[i])
      BY <1>1, StagesTurn
    <2>4. Stages(s, pick)[i - 1] = Swapped(Stages(s, pick)[i], i, pick[i])
      BY StagesTurn
    <2> QED BY <1>4, <2>2, <2>3, <2>4
  <1>5. 1..n \subseteq S
    <2> HIDE DEF S
    <2> QED BY <1>3, <1>4, InductionDownwards
  <1> QED BY <1>5 DEF d

LEMMA ShuffleIsStage ==
    ASSUME NEW T, NEW n \in Nat \ {0}, NEW s \in Lists(n, T), NEW pick
    PROVE  SecureShuffle(s, pick) = Stages(s, pick)[1]
  <1>1. s # <<>>
    BY DEF Lists
  <1> QED BY <1>1 DEF SecureShuffle

\* secureShuffle only changes the order.
LEMMA ShufflePermutes ==
    ASSUME NEW T, NEW n \in Nat, NEW s \in Lists(n, T), NEW pick \in Picks(n)
    PROVE  \E o \in Orders(n) : SecureShuffle(s, pick) = InOrder(s, o)
  <1>1. CASE n = 0
    <2>1. s = <<>>
      BY <1>1 DEF Lists
    <2>2. Identity(n) \in Orders(n) /\ InOrder(s, Identity(n)) = s
      BY IdentityIsOrder, InOrderOfIdentity
    <2>3. SecureShuffle(s, pick) = s
      BY <2>1 DEF SecureShuffle
    <2> QED BY <2>2, <2>3
  <1>2. CASE n # 0
    <2>1. n \in Nat \ {0} /\ 1 \in 1..n
      BY <1>2
    <2>2. SecureShuffle(s, pick) = Stages(s, pick)[1]
      BY <2>1, ShuffleIsStage
    <2>3. Stages(Identity(n), pick)[1] \in Orders(n)
      BY <2>1, StagesAreOrders
    <2>4. Stages(s, pick)[1] = InOrder(s, Stages(Identity(n), pick)[1])
      BY <2>1, StagesInOrder
    <2> QED BY <2>2, <2>3, <2>4
  <1> QED BY <1>1, <1>2

\* Two runs of draws that end in the same order are the same run.
LEMMA PicksUnique ==
    ASSUME NEW n \in Nat \ {0}, NEW p \in Picks(n), NEW q \in Picks(n),
           Stages(Identity(n), p)[1] = Stages(Identity(n), q)[1]
    PROVE  p = q
  <1> DEFINE d == Identity(n)
             S == {i \in 1..n : \A k \in (i + 1)..n : p[k] = q[k]}
  <1>1. d \in Lists(n, 1..n) /\ Stages(d, p)[1] = Stages(d, q)[1]
    BY IdentityIsOrder, OrderIsList
  <1>2. \A i \in 1..n : Stages(d, p)[i] \in Orders(n)
    BY StagesAreOrders
  <1> HIDE DEF d
  <1>3. n \in S
    OBVIOUS
  <1>4. ASSUME NEW i \in 2..n, i \in S PROVE i - 1 \in S
    <2> DEFINE a == Stages(d, p)[i]
    <2>1. i \in 1..n /\ i - 1 \in 1..n /\ i \in ((i - 1) + 1)..n
      OBVIOUS
    <2>2. a \in Orders(n) /\ a \in Lists(n, 1..n)
      BY <1>2, <2>1, OrderIsList
    <2>3. \A k \in (i + 1)..n : p[k] = q[k]
      BY <1>4
    <2>4. Stages(d, q)[i] = a
      <3>1. Stages(d, p)[i] = Stages(d, q)[i]
        BY <1>1, <2>1, <2>3, StagesByDraws
      <3> QED BY <3>1
    <2>5. p[i] \in 1..n /\ q[i] \in 1..n
      BY PicksInRange
    <2>6. Stages(d, p)[i - 1] = Swapped(a, i, p[i])
      BY <1>1, StagesTurn
    <2>7. Stages(d, q)[i - 1] = Swapped(a, i, q[i])
      BY <1>1, <2>4, StagesTurn
    <2>8. Stages(d, p)[1][i] = Stages(d, p)[i - 1][i]
      BY <1>1, <2>1, StagesSettle
    <2>9. Stages(d, q)[1][i] = Stages(d, q)[i - 1][i]
      BY <1>1, <2>1, StagesSettle
    <2> HIDE DEF a
    <2>10. Swapped(a, i, p[i])[i] = a[p[i]]
      <3>1. Swapped(a, i, p[i])[i] = a[IF i = i THEN p[i] ELSE IF i = p[i] THEN i ELSE i]
        BY <2>1, <2>2, <2>5, SwappedAt
      <3> QED BY <3>1
    <2>11. Swapped(a, i, q[i])[i] = a[q[i]]
      <3>1. Swapped(a, i, q[i])[i] = a[IF i = i THEN q[i] ELSE IF i = q[i] THEN i ELSE i]
        BY <2>1, <2>2, <2>5, SwappedAt
      <3> QED BY <3>1
    <2>12. a[p[i]] = a[q[i]]
      BY <1>1, <2>6, <2>7, <2>8, <2>9, <2>10, <2>11
    <2>13. p[i] = q[i]
      BY <2>2, <2>5, <2>12, OrderOnce
    <2> QED BY <2>1, <2>3, <2>13
  <1>5. 1..n \subseteq S
    <2> HIDE DEF S
    <2> QED BY <1>3, <1>4, InductionDownwards
  <1>6. \A k \in 2..n : p[k] = q[k]
    <2>1. 1 \in S
      BY <1>5
    <2> QED BY <2>1
  <1> QED BY <1>6 DEF Picks

LEMMA PicksExist ==
    ASSUME NEW n \in Nat \ {0}, NEW s \in Orders(n)
    PROVE  \E p \in Picks(n) : Stages(Identity(n), p)[1] = s
  <1> DEFINE d == Identity(n)
             Agrees(p, i) == \A k \in (i + 1)..n : Stages(d, p)[i][k] = s[k]
             S == {i \in 1..n : \E p \in Picks(n) : Agrees(p, i)}
  <1>1. d \in Lists(n, 1..n)
    BY IdentityIsOrder, OrderIsList
  <1>2. \A p \in Picks(n) : \A i \in 1..n : Stages(d, p)[i] \in Orders(n)
    BY StagesAreOrders
  <1> HIDE DEF d
  <1>3. n \in S
    <2>1. [k \in 2..n |-> 1] \in Picks(n)
      BY DEF Picks
    <2>2. Agrees([k \in 2..n |-> 1], n)
      OBVIOUS
    <2> HIDE DEF Agrees
    <2> QED BY <2>1, <2>2
  <1>4. ASSUME NEW i \in 2..n, i \in S PROVE i - 1 \in S
    <2>1. PICK p \in Picks(n) : Agrees(p, i)
      BY <1>4
    <2> DEFINE a == Stages(d, p)[i]
    <2>2. i \in 1..n /\ i - 1 \in 1..n
      OBVIOUS
    <2>3. a \in Orders(n) /\ a \in Lists(n, 1..n)
      BY <1>2, <2>2, OrderIsList
    <2>4. \A k \in (i + 1)..n : a[k] = s[k]
      BY <2>1
    <2> HIDE DEF a, Agrees
    <2>5. s[i] \in 1..n
      BY <2>2 DEF Orders
    <2>6. PICK j \in 1..n : a[j] = s[i]
      BY <2>3, <2>5, OrderOnto
    <2>7. j <= i
      <3>1. SUFFICES ASSUME j > i PROVE FALSE
        OBVIOUS
      <3>2. s[j] = s[i]
        BY <2>4, <2>6, <3>1
      <3>3. j = i
        BY <2>2, <3>2, OrderOnce
      <3> QED BY <3>1, <3>3
    <2> DEFINE q == [p EXCEPT ![i] = j]
    <2>8. q \in Picks(n)
      BY <2>7 DEF Picks
    <2>9. q[i] = j /\ \A k \in (i + 1)..n : p[k] = q[k]
      BY DEF Picks
    <2> HIDE DEF q
    <2>10. Stages(d, p)[i] = Stages(d, q)[i]
      BY <1>1, <2>2, <2>9, StagesByDraws
    <2>11. Stages(d, q)[i - 1] = Swapped(Stages(d, q)[i], i, q[i])
      BY <1>1, StagesTurn
    <2>12. Stages(d, q)[i - 1] = Swapped(a, i, j)
      BY <2>9, <2>10, <2>11 DEF a
    <2>13. ASSUME NEW k \in i..n PROVE Stages(d, q)[i - 1][k] = s[k]
      <3>1. k \in 1..n
        OBVIOUS
      <3>2. Swapped(a, i, j)[k] = a[IF k = i THEN j ELSE IF k = j THEN i ELSE k]
        BY <2>2, <2>3, <3>1, SwappedAt
      <3>3. CASE k = i
        BY <2>6, <2>12, <3>2, <3>3
      <3>4. CASE k # i
        <4>1. k # j /\ k \in (i + 1)..n
          BY <2>7, <3>4
        <4> QED BY <2>4, <2>12, <3>2, <3>4, <4>1
      <3> QED BY <3>3, <3>4
    <2>14. Agrees(q, i - 1)
      BY <2>13 DEF Agrees
    <2> QED BY <2>2, <2>8, <2>14
  <1>5. 1 \in S
    <2> HIDE DEF S
    <2>1. 1..n \subseteq S
      BY <1>3, <1>4, InductionDownwards
    <2> QED BY <2>1
  <1>6. PICK p \in Picks(n) : Agrees(p, 1)
    BY <1>5
  <1> DEFINE a == Stages(d, p)[1]
  <1>7. a \in Orders(n)
    BY <1>2
  <1>8. \A k \in 2..n : a[k] = s[k]
    BY <1>6
  <1> HIDE DEF a
  <1>9. a[1] = s[1]
    <2>1. a[1] \in 1..n
      BY <1>7 DEF Orders
    <2>2. PICK l \in 1..n : s[l] = a[1]
      BY <2>1, OrderOnto
    <2>3. CASE l = 1
      BY <2>2, <2>3
    <2>4. CASE l # 1
      <3>1. a[l] = a[1]
        BY <1>8, <2>2, <2>4
      <3>2. l = 1
        BY <1>7, <3>1, OrderOnce
      <3> QED BY <2>4, <3>2
    <2> QED BY <2>3, <2>4
  <1>10. a = s
    BY <1>7, <1>8, <1>9 DEF Orders
  <1> QED BY <1>10 DEF a, d

LEMMA EveryShuffleEven == EvenShuffles = 1..(2 * MaxMinimum)
  <1>1. ASSUME NEW n \in 1..(2 * MaxMinimum), NEW s \in Orders(n)
        PROVE  Cardinality({p \in Picks(n) : SecureShuffle(Identity(n), p) = s}) = 1
    <2> DEFINE P == {p \in Picks(n) : SecureShuffle(Identity(n), p) = s}
    <2>1. n \in Nat \ {0}
      BY LengthsAssumption
    <2>2. \A p : SecureShuffle(Identity(n), p) = Stages(Identity(n), p)[1]
      <3>1. Identity(n) \in Lists(n, 1..n)
        BY <2>1, IdentityIsOrder, OrderIsList
      <3> QED BY <2>1, <3>1, ShuffleIsStage
    <2>3. PICK p \in Picks(n) : Stages(Identity(n), p)[1] = s
      BY <2>1, PicksExist
    <2>4. ASSUME NEW q \in P PROVE q = p
      <3>1. q \in Picks(n) /\ Stages(Identity(n), p)[1] = Stages(Identity(n), q)[1]
        BY <2>2, <2>3
      <3> QED BY <2>1, <3>1, PicksUnique
    <2>5. P = {p}
      BY <2>2, <2>3, <2>4
    <2> HIDE DEF P
    <2>6. Cardinality({p}) = 1
      BY FS_Singleton
    <2> QED BY <2>5, <2>6 DEF P
  <1> QED BY <1>1 DEF EvenShuffles

-----------------------------------------------------------------------------
(* secureRandomInt *)

LEMMA Division ==
    ASSUME NEW a \in Nat, NEW b \in Nat \ {0}
    PROVE  a \div b \in Nat /\ a % b \in 0..(b - 1) /\ a = b * (a \div b) + (a % b)
  <1>1. a \div b \in Nat /\ a % b \in 0..(b - 1)
    OBVIOUS
  <1>2. a = b * (a \div b) + (a % b)
    OBVIOUS
  <1> QED BY <1>1, <1>2

LEMMA Remainder ==
    ASSUME NEW b \in Nat \ {0}, NEW q \in Nat, NEW r \in 0..(b - 1)
    PROVE  (b * q + r) % b = r
  OBVIOUS

LEMMA Multiples ==
    ASSUME NEW b \in Nat \ {0}, NEW p \in Nat, NEW q \in Nat, b * p < b * q
    PROVE  b * p + b <= b * q
  <1>1. p < q
    OBVIOUS
  <1>2. b * (p + 1) <= b * q
    BY <1>1
  <1> QED BY <1>2

\* The limit is a multiple of max, the last one a word reaches.
LEMMA LimitIsMultiple ==
    ASSUME NEW max \in 1..(WordSize - 1)
    PROVE  \E k \in Nat \ {0} : Limit(max) = max * k /\ max * k <= WordSize - 1
  <1> DEFINE k == (WordSize - 1) \div max
  <1>1. WordSize - 1 \in Nat /\ max \in Nat \ {0}
    BY WordSizeAssumption
  <1>2. k \in Nat /\ (WordSize - 1) % max \in 0..(max - 1) /\ WordSize - 1 = max * k + ((WordSize - 1) % max)
    BY <1>1, Division
  <1> HIDE DEF k
  <1>3. k # 0
    BY <1>1, <1>2
  <1>4. max * k <= WordSize - 1
    BY <1>1, <1>2
  <1>5. Limit(max) = max * k
    BY <1>1, <1>2 DEF Limit, k
  <1> QED BY <1>2, <1>3, <1>4, <1>5

\* At least every second word ends the loop of secureRandomInt, for any max.
THEOREM DrawsEnd == \A max \in 1..(WordSize - 1) : 2 * Cardinality(Accepted(max)) >= WordSize
  <1> SUFFICES ASSUME NEW max \in 1..(WordSize - 1) PROVE 2 * Cardinality(Accepted(max)) >= WordSize
    OBVIOUS
  <1>1. WordSize \in Nat /\ WordSize - 1 \in Nat /\ max \in Nat \ {0}
    BY WordSizeAssumption
  <1> DEFINE k == (WordSize - 1) \div max
             r == (WordSize - 1) % max
  <1>2. k \in Nat /\ r \in 0..(max - 1) /\ WordSize - 1 = max * k + r
    BY <1>1, Division
  <1>3. Limit(max) = max * k
    BY <1>1, <1>2 DEF Limit
  <1> HIDE DEF k, r
  <1>4. k # 0
    BY <1>1, <1>2
  <1>5. max * k \in Nat /\ max <= max * k
    BY <1>1, <1>2, <1>4
  <1>6. Accepted(max) = 0..(max * k - 1)
    <2>1. max * k <= WordSize - 1
      BY <1>1, <1>2, <1>5
    <2> QED BY <1>1, <1>3, <1>5, <2>1 DEF Accepted
  <1>7. Cardinality(0..(max * k - 1)) = max * k
    <2>1. Cardinality(0..(max * k - 1)) = IF 0 > max * k - 1 THEN 0 ELSE (max * k - 1) - 0 + 1
      BY <1>5, FS_Interval
    <2> QED BY <1>1, <1>5, <2>1
  <1>8. 2 * (max * k) >= WordSize
    <2> DEFINE l == max * k
    <2>1. l \in Nat /\ max <= l /\ WordSize - 1 = l + r
      BY <1>2, <1>5
    <2> HIDE DEF l
    <2>2. 2 * l >= WordSize
      BY <1>1, <1>2, <2>1
    <2> QED BY <2>2 DEF l
  <1> QED BY <1>6, <1>7, <1>8

LEMMA WordsForAre ==
    ASSUME NEW max \in 1..(WordSize - 1), NEW r \in 0..(max - 1), NEW k \in Nat \ {0},
           Limit(max) = max * k, max * k <= WordSize - 1
    PROVE  WordsFor(max, r) = {max * q + r : q \in 0..(k - 1)}
  <1>1. WordSize \in Nat /\ max \in Nat \ {0}
    BY WordSizeAssumption
  <1>2. ASSUME NEW w \in WordsFor(max, r) PROVE \E q \in 0..(k - 1) : w = max * q + r
    <2>1. w \in Nat /\ w < max * k /\ w % max = r
      BY <1>1 DEF WordsFor, Accepted
    <2>2. PICK q \in Nat : w = max * q + r
      BY <1>1, <2>1, Division
    <2>3. q < k
      <3>1. max * q < max * k
        BY <1>1, <2>1, <2>2
      <3> QED BY <1>1, <3>1
    <2> QED BY <2>2, <2>3
  <1>3. ASSUME NEW q \in 0..(k - 1) PROVE max * q + r \in WordsFor(max, r)
    <2>1. max * q + max <= max * k
      <3>1. max * (q + 1) <= max * k
        BY <1>1
      <3> QED BY <1>1, <3>1
    <2>2. max * q \in Nat
      BY <1>1
    <2>3. max * q + r \in 0..(WordSize - 1) /\ max * q + r < max * k
      BY <1>1, <2>1, <2>2
    <2>4. (max * q + r) % max = r
      BY <1>1, Remainder
    <2> QED BY <2>3, <2>4 DEF WordsFor, Accepted
  <1> QED BY <1>2, <1>3

LEMMA EveryDrawEven == EvenDraws = 1..(WordSize - 1)
  <1>1. ASSUME NEW max \in 1..(WordSize - 1), NEW r \in 0..(max - 1)
        PROVE  WordsFor(max, r) # {} /\ Cardinality(WordsFor(max, r)) = Cardinality(WordsFor(max, 0))
    <2>1. WordSize \in Nat /\ max \in Nat \ {0} /\ 0 \in 0..(max - 1)
      BY WordSizeAssumption
    <2>2. PICK k \in Nat \ {0} : Limit(max) = max * k /\ max * k <= WordSize - 1
      BY LimitIsMultiple
    <2>3. WordsFor(max, r) = {max * q + r : q \in 0..(k - 1)}
      BY <2>2, WordsForAre
    <2>4. WordsFor(max, 0) = {max * q + 0 : q \in 0..(k - 1)}
      BY <2>1, <2>2, WordsForAre
    <2> DEFINE A == WordsFor(max, 0)
               B == WordsFor(max, r)
               f == [w \in A |-> w + r]
    <2>5. \A q \in 0..(k - 1) : max * q \in Nat
      BY <2>1
    <2>6. A = {max * q : q \in 0..(k - 1)} /\ A \subseteq Nat
      <3>1. \A q \in 0..(k - 1) : max * q + 0 = max * q
        BY <2>5
      <3>2. A = {max * q : q \in 0..(k - 1)}
        <4> HIDE DEF A
        <4>1. A = {max * q + 0 : q \in 0..(k - 1)}
          BY <2>4 DEF A
        <4> QED BY <3>1, <4>1
      <3> HIDE DEF A
      <3> QED BY <2>5, <3>2
    <2>7. B = {max * q + r : q \in 0..(k - 1)}
      BY <2>3
    <2>8. 0 \in 0..(k - 1)
      OBVIOUS
    <2> HIDE DEF A, B
    <2>9. B # {}
      BY <2>7, <2>8
    <2>10. f \in [A -> B]
      BY <2>6, <2>7
    <2>11. \A v, w \in A : f[v] = f[w] => v = w
      BY <2>6
    <2>12. \A b \in B : \E a \in A : f[a] = b
      BY <2>6, <2>7
    <2>13. IsFiniteSet(A)
      <3>1. A \subseteq 0..(WordSize - 1)
        BY DEF A, WordsFor, Accepted
      <3>2. IsFiniteSet(0..(WordSize - 1))
        BY <2>1, FS_Interval
      <3> QED BY <3>1, <3>2, FS_Subset
    <2> HIDE DEF f
    <2>14. ExistsBijection(A, B)
      BY <2>10, <2>11, <2>12 DEF ExistsBijection, Bijection, Injection, Surjection, IsInjective
    <2>15. Cardinality(B) = Cardinality(A)
      BY <2>13, <2>14, FS_Bijection
    <2> QED BY <2>9, <2>15 DEF A, B
  <1> QED BY <1>1 DEF EvenDraws

-----------------------------------------------------------------------------
(* Lists put together, reordered and counted *)

LEMMA ListIsSequence ==
    ASSUME NEW T, NEW n \in Nat, NEW s \in Lists(n, T)
    PROVE  s \in Seq(T) /\ Len(s) = n /\ DOMAIN s = 1..n
  <1>1. s \in Seq(T)
    BY SeqDef DEF Lists
  <1> QED BY <1>1 DEF Lists

LEMMA ListsGrow ==
    ASSUME NEW T, NEW U, T \subseteq U, NEW n \in Nat, NEW s \in Lists(n, T)
    PROVE  s \in Lists(n, U)
  BY DEF Lists

LEMMA ListItem ==
    ASSUME NEW T, NEW n \in Nat, NEW s \in Lists(n, T), NEW i \in 1..n
    PROVE  s[i] \in T
  BY DEF Lists

LEMMA ConcatIsList ==
    ASSUME NEW T, NEW n \in Nat, NEW m \in Nat, NEW s \in Lists(n, T), NEW t \in Lists(m, T)
    PROVE  s \o t \in Lists(n + m, T)
  <1>1. s \in Seq(T) /\ t \in Seq(T) /\ Len(s) = n /\ Len(t) = m
    BY ListIsSequence
  <1>2. s \o t \in Seq(T) /\ Len(s \o t) = n + m
    BY <1>1, ConcatProperties
  <1>3. s \o t \in [1..Len(s \o t) -> T]
    BY <1>2, LenProperties
  <1> QED BY <1>2, <1>3 DEF Lists

LEMMA ConcatItem ==
    ASSUME NEW T, NEW n \in Nat, NEW m \in Nat, NEW s \in Lists(n, T), NEW t \in Lists(m, T), NEW i \in 1..(n + m)
    PROVE  (s \o t)[i] = IF i <= n THEN s[i] ELSE t[i - n]
  <1>1. s \in Seq(T) /\ t \in Seq(T) /\ Len(s) = n /\ Len(t) = m
    BY ListIsSequence
  <1>2. \A j \in 1..(Len(s) + Len(t)) : (s \o t)[j] = IF j <= Len(s) THEN s[j] ELSE t[j - Len(s)]
    BY <1>1, ConcatProperties
  <1> QED BY <1>1, <1>2

LEMMA RepeatIsList ==
    ASSUME NEW x, NEW n \in Nat, NEW T, n = 0 \/ x \in T
    PROVE  Repeat(x, n) \in Lists(n, T)
  BY DEF Repeat, Lists

LEMMA RepeatItem ==
    ASSUME NEW x, NEW n \in Nat, NEW i \in 1..n
    PROVE  Repeat(x, n)[i] = x
  BY DEF Repeat

LEMMA InOrderIsList ==
    ASSUME NEW T, NEW n \in Nat, NEW s \in Lists(n, T), NEW o \in Orders(n)
    PROVE  InOrder(s, o) \in Lists(n, T)
  BY DEF InOrder, Lists, Orders

LEMMA InOrderItem ==
    ASSUME NEW T, NEW n \in Nat, NEW s \in Lists(n, T), NEW o \in Orders(n), NEW i \in 1..n
    PROVE  InOrder(s, o)[i] = s[o[i]] /\ o[i] \in 1..n
  BY DEF InOrder, Lists, Orders

\* The places an order takes A to are as many as A, so C that holds them all is
\* no smaller.
LEMMA OrderKeepsCount ==
    ASSUME NEW n \in Nat, NEW o \in Orders(n), NEW A \in SUBSET (1..n), NEW C \in SUBSET (1..n),
           \A k \in 1..n : o[k] \in A => k \in C
    PROVE  IsFiniteSet(C) /\ IsFiniteSet(A) /\ Cardinality(A) <= Cardinality(C)
  <1>1. IsFiniteSet(1..n)
    BY FS_Interval
  <1>2. IsFiniteSet(C) /\ IsFiniteSet(A)
    BY <1>1, FS_Subset
  <1> DEFINE g == [a \in A |-> CHOOSE k \in 1..n : o[k] = a]
  <1>3. \A a \in A : g[a] \in 1..n /\ o[g[a]] = a
    BY OrderOnto
  <1>4. g \in [A -> C]
    <2>1. \A a \in A : g[a] \in C
      BY <1>3
    <2> QED BY <2>1
  <1>5. \A a, b \in A : g[a] = g[b] => a = b
    <2> HIDE DEF g
    <2> QED BY <1>3
  <1> HIDE DEF g
  <1>6. g \in Injection(A, C)
    BY <1>4, <1>5 DEF Injection, IsInjective
  <1>7. Cardinality(A) <= Cardinality(C)
    BY <1>2, <1>6, FS_Injection
  <1> QED BY <1>2, <1>7

\* A set whose members are numbered one by one.
LEMMA Numbered ==
    ASSUME NEW n \in Nat, NEW C, NEW g \in [1..n -> C],
           \A i, j \in 1..n : g[i] = g[j] => i = j,
           \A c \in C : \E i \in 1..n : g[i] = c
    PROVE  Cardinality(C) = n
  <1>1. ExistsBijection(1..n, C)
    BY DEF ExistsBijection, Bijection, Injection, Surjection, IsInjective
  <1> QED BY <1>1, FS_CountingElements

-----------------------------------------------------------------------------
(* What the generators return *)

Digits(o) == IF "numbers" \in o.pools THEN o.minNumbers ELSE 0
Signs(o) == IF "special" \in o.pools THEN o.minSpecial ELSE 0

LEMMA PasswordOptionTypes ==
    ASSUME NEW o \in PasswordOptions
    PROVE  /\ o.length \in 0..(2 * MaxMinimum) /\ o.pools \subseteq Pools
           /\ Digits(o) \in 0..MaxMinimum /\ Signs(o) \in 0..MaxMinimum
  <1>1. o.length \in Lengths /\ o.pools \subseteq Pools
    BY DEF PasswordOptions
  <1>2. o.minNumbers \in 0..MaxMinimum
    BY DEF PasswordOptions
  <1>3. o.minSpecial \in 0..MaxMinimum
    BY DEF PasswordOptions
  <1>4. 0 \in 0..MaxMinimum
    BY LengthsAssumption
  <1>5. o.length \in 0..(2 * MaxMinimum)
    BY <1>1, LengthsAssumption
  <1> QED BY <1>1, <1>4, <1>2, <1>3, <1>5 DEF Digits, Signs

LEMMA RepeatNone ==
    ASSUME NEW x
    PROVE  Repeat(x, 0) = <<>>
  BY DEF Repeat

LEMMA RequiredIsList ==
    ASSUME NEW o \in PasswordOptions
    PROVE  /\ Required(o) = Repeat("numbers", Digits(o)) \o Repeat("special", Signs(o))
           /\ Required(o) \in Lists(Digits(o) + Signs(o), o.pools)
           /\ Len(Required(o)) = Digits(o) + Signs(o)
  <1>1. Digits(o) \in Nat /\ Signs(o) \in Nat
    BY PasswordOptionTypes, LengthsAssumption
  <1>2. (IF "numbers" \in o.pools THEN Repeat("numbers", o.minNumbers) ELSE <<>>)
          = Repeat("numbers", Digits(o))
    BY RepeatNone DEF Digits
  <1>3. (IF "special" \in o.pools THEN Repeat("special", o.minSpecial) ELSE <<>>)
          = Repeat("special", Signs(o))
    BY RepeatNone DEF Signs
  <1>4. Required(o) = Repeat("numbers", Digits(o)) \o Repeat("special", Signs(o))
    BY <1>2, <1>3 DEF Required
  <1>5. Digits(o) = 0 \/ "numbers" \in o.pools
    BY DEF Digits
  <1>6. Signs(o) = 0 \/ "special" \in o.pools
    BY DEF Signs
  <1>7. Repeat("numbers", Digits(o)) \in Lists(Digits(o), o.pools)
    BY <1>1, <1>5, RepeatIsList
  <1>8. Repeat("special", Signs(o)) \in Lists(Signs(o), o.pools)
    BY <1>1, <1>6, RepeatIsList
  <1>9. Repeat("numbers", Digits(o)) \o Repeat("special", Signs(o)) \in Lists(Digits(o) + Signs(o), o.pools)
    BY <1>1, <1>7, <1>8, ConcatIsList
  <1>10. Required(o) \in Lists(Digits(o) + Signs(o), o.pools)
    BY <1>4, <1>9
  <1>11. Len(Required(o)) = Digits(o) + Signs(o)
    BY <1>1, <1>10, ListIsSequence
  <1> QED BY <1>4, <1>10, <1>11

RequiredPools == {"numbers", "special"}

LEMMA RequiredItem ==
    ASSUME NEW o \in PasswordOptions, NEW i \in 1..(Digits(o) + Signs(o))
    PROVE  Required(o)[i] = IF i <= Digits(o) THEN "numbers" ELSE "special"
  <1>1. Digits(o) \in Nat /\ Signs(o) \in Nat
    BY PasswordOptionTypes, LengthsAssumption
  <1>2. Repeat("numbers", Digits(o)) \in Lists(Digits(o), RequiredPools)
    BY <1>1, RepeatIsList DEF RequiredPools
  <1>3. Repeat("special", Signs(o)) \in Lists(Signs(o), RequiredPools)
    BY <1>1, RepeatIsList DEF RequiredPools
  <1>4. Required(o)[i] = IF i <= Digits(o) THEN Repeat("numbers", Digits(o))[i]
                                           ELSE Repeat("special", Signs(o))[i - Digits(o)]
    <2> DEFINE u == Repeat("numbers", Digits(o))
               v == Repeat("special", Signs(o))
    <2>1. Required(o) = u \o v
      BY RequiredIsList
    <2>2. u \in Lists(Digits(o), RequiredPools) /\ v \in Lists(Signs(o), RequiredPools)
      BY <1>2, <1>3
    <2> DEFINE a == Digits(o)
               b == Signs(o)
    <2>3. PICK T : T = RequiredPools
      OBVIOUS
    <2>4. a \in Nat /\ b \in Nat /\ i \in 1..(a + b) /\ u \in Lists(a, T) /\ v \in Lists(b, T)
      BY <1>1, <2>3, <2>2
    <2> HIDE DEF a, b, u, v
    <2>5. u \in Seq(T) /\ v \in Seq(T) /\ Len(u) = a /\ Len(v) = b
      BY <2>4, ListIsSequence
    <2>6. (u \o v)[i] = IF i <= a THEN u[i] ELSE v[i - a]
      <3>1. \A j \in 1..(Len(u) + Len(v)) : (u \o v)[j] = IF j <= Len(u) THEN u[j] ELSE v[j - Len(u)]
        BY <2>5, ConcatProperties
      <3> QED BY <2>4, <2>5, <3>1
    <2> QED BY <2>1, <2>6 DEF a, b, u, v
  <1>5. CASE i <= Digits(o)
    <2>1. Repeat("numbers", Digits(o))[i] = "numbers"
      BY <1>1, <1>5, RepeatItem
    <2> QED BY <1>4, <1>5, <2>1
  <1>6. CASE i > Digits(o)
    <2>1. i - Digits(o) \in 1..Signs(o)
      BY <1>1, <1>6
    <2>2. Repeat("special", Signs(o))[i - Digits(o)] = "special"
      BY <1>1, <2>1, RepeatItem
    <2> QED BY <1>1, <1>4, <1>6, <2>2
  <1> QED BY <1>1, <1>5, <1>6

\* A password has its length, its pools and its minimums.
FitsPassword(o, r) ==
    LET n == Greater(o.length, Digits(o) + Signs(o)) IN
    /\ r \in Lists(n, o.pools)
    /\ \A x \in {"numbers", "special"} :
         Cardinality({i \in 1..n : r[i] = x}) >= IF x = "numbers" THEN Digits(o) ELSE Signs(o)

LEMMA PasswordFits ==
    ASSUME NEW o \in PasswordOptions, o.pools # {}, NEW r \in GeneratePassword[o]
    PROVE  FitsPassword(o, r)
  <1> DEFINE a == Digits(o)
             b == Signs(o)
             n == Greater(o.length, a + b)
  <1>1. a \in Nat /\ b \in Nat /\ n \in Nat /\ a + b <= n
    BY PasswordOptionTypes, LengthsAssumption DEF Greater
  <1>2. Len(Required(o)) = a + b /\ Required(o) \in Lists(a + b, o.pools)
    BY RequiredIsList
  <1>3. GeneratePassword[o] =
          {SecureShuffle(Required(o) \o rest, pick) :
             rest \in [1..(n - (a + b)) -> o.pools], pick \in Picks(n)}
    BY <1>2 DEF GeneratePassword
  <1> HIDE DEF a, b, n
  <1>4. PICK rest \in Lists(n - (a + b), o.pools), pick \in Picks(n) :
          r = SecureShuffle(Required(o) \o rest, pick)
    BY <1>3 DEF Lists
  <1> DEFINE s == Required(o) \o rest
  <1>5. n - (a + b) \in Nat /\ a + b \in Nat /\ (a + b) + (n - (a + b)) = n
    BY <1>1
  <1>6. s \in Lists(n, o.pools)
    <2>1. s \in Lists((a + b) + (n - (a + b)), o.pools)
      BY <1>2, <1>5, ConcatIsList
    <2> QED BY <1>5, <2>1
  <1>7. ASSUME NEW i \in 1..(a + b) PROVE s[i] = IF i <= a THEN "numbers" ELSE "special"
    <2>1. i \in 1..((a + b) + (n - (a + b))) /\ i <= a + b
      BY <1>1, <1>5
    <2>2. s[i] = IF i <= a + b THEN Required(o)[i] ELSE rest[i - (a + b)]
      BY <1>2, <1>5, <2>1, ConcatItem
    <2>3. Required(o)[i] = IF i <= a THEN "numbers" ELSE "special"
      BY RequiredItem DEF a, b
    <2> QED BY <2>1, <2>2, <2>3
  <1> HIDE DEF s
  <1>8. PICK p \in Orders(n) : r = InOrder(s, p)
    <2>1. \E p \in Orders(n) : SecureShuffle(s, pick) = InOrder(s, p)
      BY <1>1, <1>6, ShufflePermutes
    <2> QED BY <1>4, <2>1 DEF s
  <1>9. r \in Lists(n, o.pools)
    BY <1>1, <1>6, <1>8, InOrderIsList
  <1>10. \A i \in 1..n : r[i] = s[p[i]]
    BY <1>1, <1>6, <1>8, InOrderItem
  <1>11. Cardinality({i \in 1..n : r[i] = "numbers"}) >= a
    <2> DEFINE A == 1..a
               C == {i \in 1..n : r[i] = "numbers"}
    <2>1. A \in SUBSET (1..n) /\ C \in SUBSET (1..n)
      BY <1>1
    <2>2. \A k \in 1..n : p[k] \in A => k \in C
      BY <1>1, <1>7, <1>10
    <2>3. Cardinality(A) = a
      <3>1. Cardinality(1..a) = IF 1 > a THEN 0 ELSE a - 1 + 1
        BY <1>1, FS_Interval
      <3> QED BY <1>1, <3>1
    <2> HIDE DEF A, C
    <2>4. IsFiniteSet(C) /\ IsFiniteSet(A) /\ Cardinality(A) <= Cardinality(C)
      BY <1>1, <2>1, <2>2, OrderKeepsCount
    <2>5. Cardinality(C) \in Nat
      BY <2>4, FS_CardinalityType
    <2> QED BY <1>1, <2>3, <2>4, <2>5 DEF C
  <1>12. Cardinality({i \in 1..n : r[i] = "special"}) >= b
    <2> DEFINE A == (a + 1)..(a + b)
               C == {i \in 1..n : r[i] = "special"}
    <2>1. A \in SUBSET (1..n) /\ C \in SUBSET (1..n)
      BY <1>1
    <2>2. \A k \in 1..n : p[k] \in A => k \in C
      BY <1>1, <1>7, <1>10
    <2>3. Cardinality(A) = b
      <3>1. Cardinality((a + 1)..(a + b)) = IF a + 1 > a + b THEN 0 ELSE (a + b) - (a + 1) + 1
        BY <1>1, FS_Interval
      <3> QED BY <1>1, <3>1
    <2> HIDE DEF A, C
    <2>4. IsFiniteSet(C) /\ IsFiniteSet(A) /\ Cardinality(A) <= Cardinality(C)
      BY <1>1, <2>1, <2>2, OrderKeepsCount
    <2>5. Cardinality(C) \in Nat
      BY <2>4, FS_CardinalityType
    <2> QED BY <1>1, <2>3, <2>4, <2>5 DEF C
  <1> QED BY <1>9, <1>11, <1>12 DEF FitsPassword, a, b, n

Tokens == Words \cup Adjectives \cup Nouns \cup {"number"}

LEMMA TokenSeparatesNothing ==
    ASSUME NEW x \in Tokens
    PROVE  x \notin Separators
  BY TokensAssumption DEF Tokens

LEMMA OddOrEven ==
    ASSUME NEW m \in Nat \ {0}, NEW i \in 1..(2 * m - 1)
    PROVE  (\E k \in 1..m : i = 2 * k - 1) \/ (\E k \in 1..(m - 1) : i = 2 * k)
  <1>1. CASE i % 2 = 1
    <2>1. (i + 1) \div 2 \in 1..m /\ i = 2 * ((i + 1) \div 2) - 1
      BY <1>1
    <2> QED BY <2>1
  <1>2. CASE i % 2 # 1
    <2>1. i \div 2 \in 1..(m - 1) /\ i = 2 * (i \div 2)
      BY <1>2
    <2> QED BY <2>1
  <1> QED BY <1>1, <1>2

\* A name for the strings that join, which the arithmetic below is better off without.
Separates(separator) == separator # ""

LEMMA JoinDomain ==
    ASSUME NEW T, NEW m \in Nat, NEW parts \in Lists(m, T), NEW separator
    PROVE  DOMAIN Join(parts, separator) = 1..(IF separator = "" THEN m ELSE 2 * m - 1)
  <1>1. Len(parts) = m /\ DOMAIN parts = 1..m
    BY ListIsSequence
  <1> QED BY <1>1 DEF Join

LEMMA JoinPart ==
    ASSUME NEW T, NEW m \in Nat, NEW parts \in Lists(m, T), NEW separator, Separates(separator), NEW k \in 1..m
    PROVE  Join(parts, separator)[2 * k - 1] = parts[k]
  <1>1. Len(parts) = m
    BY ListIsSequence
  <1>2. 2 * k - 1 \in 1..(2 * m - 1)
    OBVIOUS
  <1>3. (2 * k - 1) % 2 = 1
    OBVIOUS
  <1>4. ((2 * k - 1) + 1) \div 2 = k
    OBVIOUS
  <1>5. Join(parts, separator) =
          [i \in 1..(2 * m - 1) |-> IF i % 2 = 1 THEN parts[(i + 1) \div 2] ELSE separator]
    BY <1>1 DEF Join, Separates
  <1> QED BY <1>2, <1>5, <1>3, <1>4

LEMMA JoinSeparator ==
    ASSUME NEW T, NEW m \in Nat, NEW parts \in Lists(m, T), NEW separator, Separates(separator), NEW k \in 1..(m - 1)
    PROVE  Join(parts, separator)[2 * k] = separator
  <1>1. Len(parts) = m
    BY ListIsSequence
  <1>2. 2 * k \in 1..(2 * m - 1)
    OBVIOUS
  <1>3. (2 * k) % 2 # 1
    OBVIOUS
  <1>4. Join(parts, separator) =
          [i \in 1..(2 * m - 1) |-> IF i % 2 = 1 THEN parts[(i + 1) \div 2] ELSE separator]
    BY <1>1 DEF Join, Separates
  <1> QED BY <1>2, <1>4, <1>3

\* Every second token of what is joined is a separator.
Joined(r, m, separator) ==
    /\ Cardinality({i \in DOMAIN r : r[i] \notin Separators}) = m
    /\ Cardinality({i \in DOMAIN r : r[i] = separator}) = m - 1

LEMMA JoinFits ==
    ASSUME NEW m \in Nat \ {0}, NEW parts \in Lists(m, Tokens), NEW separator \in Separators, Separates(separator)
    PROVE  Joined(Join(parts, separator), m, separator)
  <1> DEFINE r == Join(parts, separator)
             A == {i \in DOMAIN r : r[i] \notin Separators}
             B == {i \in DOMAIN r : r[i] = separator}
  <1>1. DOMAIN r = 1..(2 * m - 1)
    BY JoinDomain DEF Separates
  <1>2. \A k \in 1..m : r[2 * k - 1] = parts[k]
    BY JoinPart
  <1>3. \A k \in 1..(m - 1) : r[2 * k] = separator
    BY JoinSeparator
  <1> HIDE DEF r
  <1>4. \A k \in 1..m : r[2 * k - 1] \notin Separators
    <2>1. \A k \in 1..m : parts[k] \in Tokens
      BY ListItem
    <2>2. \A k \in 1..m : parts[k] \notin Separators
      BY <2>1, TokenSeparatesNothing
    <2> QED BY <1>2, <2>2
  <1>5. Cardinality(A) = m
    <2> DEFINE g == [k \in 1..m |-> 2 * k - 1]
    <2>1. \A k \in 1..m : 2 * k - 1 \in 1..(2 * m - 1)
      OBVIOUS
    <2>2. \A k \in 1..m : 2 * k - 1 \in A
      BY <1>1, <1>4, <2>1
    <2>3. \A i, j \in 1..m : g[i] = g[j] => i = j
      <3>1. \A i, j \in 1..m : 2 * i - 1 = 2 * j - 1 => i = j
        OBVIOUS
      <3> HIDE DEF A
      <3> QED BY <3>1
    <2>4. g \in [1..m -> A]
      <3> HIDE DEF A
      <3> QED BY <2>2
    <2>5. ASSUME NEW a \in A PROVE \E i \in 1..m : g[i] = a
      <3>1. a \in 1..(2 * m - 1) /\ r[a] \notin Separators
        BY <1>1
      <3>2. ~\E k \in 1..(m - 1) : a = 2 * k
        BY <1>3, <3>1
      <3> QED BY <3>1, <3>2, OddOrEven
    <2> HIDE DEF g, A
    <2> QED BY <2>4, <2>3, <2>5, Numbered
  <1>6. Cardinality(B) = m - 1
    <2> DEFINE g == [k \in 1..(m - 1) |-> 2 * k]
    <2>1. \A k \in 1..(m - 1) : 2 * k \in 1..(2 * m - 1)
      OBVIOUS
    <2>2. \A k \in 1..(m - 1) : 2 * k \in B
      BY <1>1, <1>3, <2>1
    <2>3. \A i, j \in 1..(m - 1) : g[i] = g[j] => i = j
      <3>1. \A i, j \in 1..(m - 1) : 2 * i = 2 * j => i = j
        OBVIOUS
      <3> HIDE DEF B
      <3> QED BY <3>1
    <2>4. g \in [1..(m - 1) -> B]
      <3> HIDE DEF B
      <3> QED BY <2>2
    <2>5. ASSUME NEW b \in B PROVE \E i \in 1..(m - 1) : g[i] = b
      <3>1. b \in 1..(2 * m - 1) /\ r[b] \in Separators
        BY <1>1
      <3>2. ~\E k \in 1..m : b = 2 * k - 1
        BY <1>4, <3>1
      <3> QED BY <3>1, <3>2, OddOrEven
    <2>6. m - 1 \in Nat
      OBVIOUS
    <2> HIDE DEF g, B
    <2> QED BY <2>4, <2>3, <2>5, <2>6, Numbered
  <1> QED BY <1>5, <1>6 DEF r, Joined

LEMMA PassphraseFits ==
    ASSUME NEW o \in PassphraseOptions, NEW r \in GeneratePassphrase[o]
    PROVE  Joined(r, o.wordCount + (IF o.includeNumber THEN 1 ELSE 0), o.separator)
  <1> DEFINE w == o.wordCount
             b == IF o.includeNumber THEN 1 ELSE 0
  <1>1. w \in Nat \ {0}
    <2>1. w \in WordCounts
      BY DEF PassphraseOptions
    <2> QED BY <2>1, LengthsAssumption
  <1>2. o.separator \in Separators /\ Separates(o.separator)
    BY DEF PassphraseOptions, Separates
  <1>3. b \in Nat
    OBVIOUS
  <1>4. PICK words \in [1..w -> Words] : r = Join(words \o Repeat("number", b), o.separator)
    BY DEF GeneratePassphrase
  <1> HIDE DEF w, b
  <1> DEFINE parts == words \o Repeat("number", b)
  <1>5. parts \in Lists(w + b, Tokens)
    <2>1. words \in Lists(w, Tokens)
      BY DEF Lists, Tokens
    <2>2. Repeat("number", b) \in Lists(b, Tokens)
      <3>1. "number" \in Tokens
        BY DEF Tokens
      <3> QED BY <1>3, <3>1, RepeatIsList
    <2> QED BY <1>1, <1>3, <2>1, <2>2, ConcatIsList
  <1> HIDE DEF parts
  <1>6. w + b \in Nat \ {0}
    BY <1>1, <1>3
  <1>7. r = Join(parts, o.separator)
    BY <1>4 DEF parts
  <1>8. Joined(Join(parts, o.separator), w + b, o.separator)
    BY <1>2, <1>5, <1>6, JoinFits
  <1> QED BY <1>7, <1>8 DEF w, b

PartsOf(r) == Cardinality({i \in DOMAIN r : r[i] \notin Separators})

LEMMA JoinIsList ==
    ASSUME NEW m \in Nat \ {0}, NEW parts \in Lists(m, Tokens), NEW separator \in Separators, Separates(separator)
    PROVE  Join(parts, separator) \in Lists(2 * m - 1, Tokens \cup Separators)
  <1> DEFINE r == Join(parts, separator)
  <1>1. DOMAIN r = 1..(2 * m - 1)
    BY JoinDomain DEF Separates
  <1>2. r = [i \in DOMAIN r |-> r[i]]
    BY DEF Join, Separates
  <1>3. ASSUME NEW i \in 1..(2 * m - 1) PROVE r[i] \in Tokens \cup Separators
    <2>1. CASE \E k \in 1..m : i = 2 * k - 1
      <3>1. PICK k \in 1..m : i = 2 * k - 1
        BY <2>1
      <3>2. r[2 * k - 1] = parts[k]
        BY JoinPart
      <3>3. parts[k] \in Tokens
        BY ListItem
      <3> QED BY <3>1, <3>2, <3>3
    <2>2. CASE \E k \in 1..(m - 1) : i = 2 * k
      <3>1. PICK k \in 1..(m - 1) : i = 2 * k
        BY <2>2
      <3>2. r[2 * k] = separator
        BY JoinSeparator
      <3> QED BY <3>1, <3>2
    <2> QED BY <2>1, <2>2, OddOrEven
  <1> HIDE DEF r
  <1>4. r \in [1..(2 * m - 1) -> Tokens \cup Separators]
    BY <1>1, <1>2, <1>3
  <1> QED BY <1>4 DEF Lists, r

LEMMA PartsOfTokens ==
    ASSUME NEW m \in Nat, NEW parts \in Lists(m, Tokens)
    PROVE  PartsOf(parts) = m
  <1>1. {i \in DOMAIN parts : parts[i] \notin Separators} = 1..m
    <2>1. \A i \in 1..m : parts[i] \in Tokens
      BY ListItem
    <2>2. \A i \in 1..m : parts[i] \notin Separators
      BY <2>1, TokenSeparatesNothing
    <2>3. DOMAIN parts = 1..m
      BY ListIsSequence
    <2> QED BY <2>2, <2>3
  <1>2. Cardinality(1..m) = IF 1 > m THEN 0 ELSE m - 1 + 1
    BY FS_Interval
  <1>3. PartsOf(parts) = Cardinality(1..m)
    BY <1>1 DEF PartsOf
  <1> QED BY <1>2, <1>3

\* A token more is a part more.
LEMMA PartsOfOneMore ==
    ASSUME NEW l \in Nat, NEW J \in Lists(l, Tokens \cup Separators), NEW x \in Tokens
    PROVE  PartsOf(J \o Repeat(x, 1)) = PartsOf(J) + 1
  <1> DEFINE U == Tokens \cup Separators
             r == J \o Repeat(x, 1)
             A == {i \in 1..l : J[i] \notin Separators}
  <1>1. Repeat(x, 1) \in Lists(1, U)
    BY RepeatIsList
  <1>2. DOMAIN J = 1..l
    BY ListIsSequence
  <1>3. J \in Lists(l, U)
    OBVIOUS
  <1>4. Repeat(x, 1)[1] = x
    BY RepeatItem
  <1>5. x \notin Separators
    BY TokenSeparatesNothing
  <1> DEFINE R == Repeat(x, 1)
  <1> HIDE DEF U, R
  <1>6. J \in Seq(U) /\ R \in Seq(U) /\ Len(J) = l /\ Len(R) = 1
    BY <1>1, <1>3, ListIsSequence DEF R
  <1>7. J \o R \in Seq(U) /\ Len(J \o R) = Len(J) + Len(R)
    BY <1>6, ConcatProperties
  <1>8. Len(J \o R) = l + 1 /\ J \o R \in Seq(U)
    BY <1>6, <1>7
  <1>9. DOMAIN (J \o R) = 1..(l + 1)
    BY <1>8, LenProperties
  <1>10. DOMAIN r = 1..(l + 1)
    BY <1>9 DEF R
  <1>11. \A i \in 1..(Len(J) + Len(R)) : (J \o R)[i] = IF i <= Len(J) THEN J[i] ELSE R[i - Len(J)]
    BY <1>6, ConcatProperties
  <1>12. \A i \in 1..(l + 1) : r[i] = IF i <= l THEN J[i] ELSE R[i - l]
    BY <1>6, <1>11 DEF R
  <1> HIDE DEF r
  <1>13. \A i \in 1..l : r[i] = J[i]
    BY <1>12
  <1>14. r[l + 1] = x
    <2>1. r[l + 1] = R[1]
      BY <1>12
    <2> QED BY <1>4, <2>1 DEF R
  <1>15. {i \in DOMAIN r : r[i] \notin Separators} = A \cup {l + 1}
    BY <1>10, <1>5, <1>13, <1>14
  <1>16. IsFiniteSet(A) /\ l + 1 \notin A
    <2>1. IsFiniteSet(1..l)
      BY FS_Interval
    <2> QED BY <2>1, FS_Subset
  <1>17. PartsOf(J) = Cardinality(A)
    BY <1>2 DEF PartsOf
  <1> HIDE DEF A
  <1>18. Cardinality(A \cup {l + 1}) = IF l + 1 \in A THEN Cardinality(A) ELSE Cardinality(A) + 1
    BY <1>16, FS_AddElement
  <1> QED BY <1>15, <1>16, <1>17, <1>18 DEF PartsOf, r

LEMMA UsernameFits ==
    ASSUME NEW o \in UsernameOptions, NEW r \in GenerateUsername[o]
    PROVE  PartsOf(r) = (IF o.style = "single-word" THEN 1 ELSE 2) + (IF o.includeNumber THEN 1 ELSE 0)
  <1> DEFINE m == IF o.style = "single-word" THEN 1 ELSE 2
             b == IF o.includeNumber THEN 1 ELSE 0
  <1>1. o.style \in {"adjective-noun", "noun-noun", "single-word"} /\ o.separator \in Separators
    BY DEF UsernameOptions
  <1>2. m \in Nat \ {0} /\ b \in {0, 1}
    OBVIOUS
  <1>3. \E p \in Lists(m, Tokens) : r = Join(p, o.separator) \o Repeat("number", b)
    <2>1. CASE o.style = "adjective-noun"
      <3>1. PICK p \in {<<a, n>> : a \in Adjectives, n \in Nouns} : r = Join(p, o.separator) \o Repeat("number", b)
        BY <2>1 DEF GenerateUsername
      <3>2. p \in Lists(2, Tokens)
        BY DEF Lists, Tokens
      <3> QED BY <2>1, <3>1, <3>2
    <2>2. CASE o.style = "noun-noun"
      <3>1. PICK p \in Nouns \X Nouns : r = Join(p, o.separator) \o Repeat("number", b)
        BY <2>2 DEF GenerateUsername
      <3>2. p \in Lists(2, Tokens)
        BY DEF Lists, Tokens
      <3> QED BY <2>2, <3>1, <3>2
    <2>3. CASE o.style = "single-word"
      <3>1. PICK p \in {<<n>> : n \in Nouns} : r = Join(p, o.separator) \o Repeat("number", b)
        BY <2>3 DEF GenerateUsername
      <3>2. p \in Lists(1, Tokens)
        BY DEF Lists, Tokens
      <3> QED BY <2>3, <3>1, <3>2
    <2> QED BY <1>1, <2>1, <2>2, <2>3
  <1> HIDE DEF m, b
  <1>4. PICK p \in Lists(m, Tokens) : r = Join(p, o.separator) \o Repeat("number", b)
    BY <1>3
  <1> DEFINE J == Join(p, o.separator)
  <1>5. PartsOf(J) = m /\ \E l \in Nat : J \in Lists(l, Tokens \cup Separators)
    <2>1. CASE Separates(o.separator)
      <3>1. Joined(J, m, o.separator)
        BY <1>1, <1>2, <2>1, JoinFits
      <3>2. J \in Lists(2 * m - 1, Tokens \cup Separators)
        BY <1>1, <1>2, <2>1, JoinIsList
      <3>3. 2 * m - 1 \in Nat
        BY <1>2
      <3> HIDE DEF J
      <3> QED BY <3>1, <3>2, <3>3 DEF Joined, PartsOf
    <2>2. CASE ~Separates(o.separator)
      <3>1. J = p
        BY <2>2 DEF Join, Separates
      <3>2. PartsOf(p) = m
        BY <1>2, PartsOfTokens
      <3>3. p \in Lists(m, Tokens \cup Separators)
        BY DEF Lists
      <3> HIDE DEF J
      <3> QED BY <1>2, <3>1, <3>2, <3>3
    <2> QED BY <2>1, <2>2
  <1>6. PICK l \in Nat : J \in Lists(l, Tokens \cup Separators)
    BY <1>5
  <1> HIDE DEF J
  <1>7. PartsOf(r) = m + b
    <2>1. CASE b = 0
      <3>1. Repeat("number", b) = <<>>
        BY <2>1, RepeatNone
      <3>2. J \o <<>> = J
        <4>1. J \in Seq(Tokens \cup Separators)
          BY <1>6, ListIsSequence
        <4> QED BY <4>1, ConcatEmptySeq
      <3>3. r = J
        BY <1>4, <3>1, <3>2 DEF J
      <3> QED BY <1>2, <1>5, <2>1, <3>3
    <2>2. CASE b = 1
      <3>1. "number" \in Tokens
        BY DEF Tokens
      <3>2. PartsOf(J \o Repeat("number", 1)) = PartsOf(J) + 1
        BY <1>6, <3>1, PartsOfOneMore
      <3> QED BY <1>4, <1>5, <2>2, <3>2 DEF J
    <2> QED BY <1>2, <2>1, <2>2
  <1> QED BY <1>7 DEF m, b

-----------------------------------------------------------------------------
(* The toasts *)

LEMMA ToastsTypeInit == ToastsInit => ToastsTypeOK
  <1> SUFFICES ASSUME ToastsInit PROVE ToastsTypeOK
    OBVIOUS
  <1>1. queue \in Seq(1..MaxToasts) /\ shown \in Seq(1..MaxToasts)
    BY EmptySeq DEF ToastsInit
  <1>2. asked \in 0..MaxToasts
    BY ToastsAssumption DEF ToastsInit
  <1>3. current \in 1..MaxToasts \cup {None} /\ open \in BOOLEAN /\ held \in BOOLEAN
    BY DEF ToastsInit
  <1> QED BY <1>1, <1>2, <1>3 DEF ToastsTypeOK

\* The render keeps to the types, whichever queue and toast it is given.
LEMMA ProcessType ==
    ASSUME ToastsTypeOK, NEW q \in Seq(1..MaxToasts), NEW c \in 1..MaxToasts \cup {None}, Process(q, c)
    PROVE  /\ queue' \in Seq(1..MaxToasts) /\ shown' \in Seq(1..MaxToasts)
           /\ current' \in 1..MaxToasts \cup {None} /\ open' \in BOOLEAN
  <1> DEFINE T == 1..MaxToasts
  <1>1. shown \in Seq(T) /\ open \in BOOLEAN
    BY DEF ToastsTypeOK
  <1>2. CASE q # <<>> /\ c = None
    <2>1. Head(q) \in T /\ Tail(q) \in Seq(T)
      BY <1>2, HeadTailProperties
    <2>2. Append(shown, Head(q)) \in Seq(T)
      BY <1>1, <2>1, AppendProperties
    <2>3. current' = Head(q) /\ queue' = Tail(q) /\ open' = TRUE /\ shown' = Append(shown, Head(q))
      BY <1>2 DEF Process
    <2> QED BY <2>1, <2>2, <2>3
  <1>3. CASE ~(q # <<>> /\ c = None)
    BY <1>1, <1>3 DEF Process
  <1> QED BY <1>2, <1>3

LEMMA ToastsTypeNext ==
    ASSUME ToastsTypeOK, ShowToast \/ ToastsNext \/ UNCHANGED toasts
    PROVE  ToastsTypeOK'
  <1> DEFINE T == 1..MaxToasts
  <1>1. CASE ShowToast
    <2>1. asked + 1 \in T /\ asked' = asked + 1 /\ asked' \in 0..MaxToasts /\ held' = held
      BY <1>1, ToastsAssumption DEF ShowToast, ToastsTypeOK
    <2>2. Append(queue, asked + 1) \in Seq(T)
      BY <2>1, AppendProperties DEF ToastsTypeOK
    <2>3. Process(Append(queue, asked + 1), current) /\ current \in T \cup {None}
      BY <1>1 DEF ShowToast, ToastsTypeOK
    <2>4. /\ queue' \in Seq(T) /\ shown' \in Seq(T)
          /\ current' \in T \cup {None} /\ open' \in BOOLEAN
      BY <2>2, <2>3, ProcessType
    <2> QED BY <2>1, <2>4 DEF ToastsTypeOK
  <1>2. CASE Exited
    <2>1. queue \in Seq(T) /\ None \in T \cup {None} /\ Process(queue, None)
      BY <1>2 DEF Exited, ToastsTypeOK
    <2>2. /\ queue' \in Seq(T) /\ shown' \in Seq(T)
          /\ current' \in T \cup {None} /\ open' \in BOOLEAN
      BY <2>1, ProcessType
    <2> QED BY <1>2, <2>2 DEF Exited, ToastsTypeOK
  <1>3. CASE Dismiss \/ AutoHide
    BY <1>3 DEF Dismiss, AutoHide, ToastsTypeOK
  <1>4. CASE Hold \/ Release
    BY <1>4 DEF Hold, Release, ToastsTypeOK
  <1>5. CASE UNCHANGED toasts
    BY <1>5 DEF toasts, ToastsTypeOK
  <1> QED BY <1>1, <1>2, <1>3, <1>4, <1>5 DEF ToastsNext

\* showToast puts a toast at the end, or on the page.
LEMMA InOrderShow ==
    ASSUME ToastsTypeOK, ToastsInOrder, ShowToast
    PROVE  ToastsInOrder'
  <1> DEFINE T == 1..MaxToasts
             q == Append(queue, asked + 1)
  <1>1. asked + 1 \in T /\ asked' = asked + 1 /\ asked \in Nat /\ Process(q, current)
    BY ToastsAssumption DEF ShowToast, ToastsTypeOK
  <1>2. queue \in Seq(T) /\ shown \in Seq(T)
    BY DEF ToastsTypeOK
  <1>3. Len(queue) \in Nat /\ Len(shown) \in Nat
    BY <1>2, LenProperties
  <1>4. /\ q \in Seq(T) /\ q # <<>> /\ Len(q) = Len(queue) + 1
        /\ \A i \in 1..Len(queue) : q[i] = queue[i]
        /\ q[Len(queue) + 1] = asked + 1
    BY <1>1, <1>2, AppendProperties
  <1> HIDE DEF q
  <1>5. CASE current = None
    <2>1. queue = <<>> /\ Len(shown) = asked /\ \A i \in 1..Len(shown) : shown[i] = i
      <3>1. queue = <<>> /\ Len(shown) + Len(queue) = asked
        BY <1>5 DEF ToastsInOrder
      <3>2. Len(queue) = 0
        BY <3>1, EmptySeq
      <3> QED BY <1>3, <3>1, <3>2 DEF ToastsInOrder
    <2>2. q = <<asked + 1>>
      BY <2>1 DEF q
    <2>3. Head(q) = asked + 1 /\ Tail(q) = <<>>
      BY <2>2
    <2>4. current' = asked + 1 /\ queue' = <<>> /\ open' = TRUE /\ shown' = Append(shown, asked + 1)
      BY <1>1, <1>4, <1>5, <2>3 DEF Process
    <2>5. /\ Len(shown') = asked + 1 /\ shown' # <<>>
          /\ \A i \in 1..asked : shown'[i] = shown[i]
          /\ shown'[asked + 1] = asked + 1
      BY <1>1, <1>2, <2>1, <2>4, AppendProperties
    <2>6. \A i \in 1..Len(shown') : shown'[i] = i
      BY <1>1, <2>1, <2>5
    <2>7. current' # None
      BY <1>1, <2>4, ToastsAssumption
    <2>8. Len(queue') = 0
      BY <2>4, EmptySeq
    <2>9. Len(shown') + Len(queue') = asked'
      BY <1>1, <2>5, <2>8
    <2>10. \A i \in 1..Len(queue') : queue'[i] = Len(shown') + i
      BY <2>8
    <2>11. current' = Len(shown')
      BY <2>4, <2>5
    <2> QED BY <2>5, <2>6, <2>7, <2>9, <2>10, <2>11 DEF ToastsInOrder
  <1>6. CASE current # None
    <2>1. current' = current /\ queue' = q /\ open' = open /\ shown' = shown
      BY <1>1, <1>6 DEF Process
    <2>2. Len(shown) + Len(queue) = asked
      BY DEF ToastsInOrder
    <2>3. \A i \in 1..Len(q) : q[i] = Len(shown) + i
      <3>1. \A i \in 1..Len(queue) : q[i] = Len(shown) + i
        BY <1>4 DEF ToastsInOrder
      <3>2. q[Len(queue) + 1] = Len(shown) + (Len(queue) + 1)
        BY <1>3, <1>4, <2>2
      <3>3. ASSUME NEW i \in 1..Len(q) PROVE q[i] = Len(shown) + i
        <4>1. i \in 1..Len(queue) \/ i = Len(queue) + 1
          BY <1>3, <1>4
        <4> QED BY <3>1, <3>2, <4>1
      <3> QED BY <3>3
    <2>4. Len(shown) + Len(q) = asked + 1
      BY <1>3, <1>4, <2>2
    <2> QED BY <1>1, <1>6, <2>1, <2>3, <2>4 DEF ToastsInOrder
  <1> QED BY <1>5, <1>6

\* handleExited brings on the first of those that wait.
LEMMA InOrderExited ==
    ASSUME ToastsTypeOK, ToastsInOrder, Exited
    PROVE  ToastsInOrder'
  <1> DEFINE T == 1..MaxToasts
  <1>1. asked' = asked /\ current # None /\ ~open /\ Process(queue, None)
    BY DEF Exited
  <1>2. queue \in Seq(T) /\ shown \in Seq(T)
    BY DEF ToastsTypeOK
  <1>3. Len(queue) \in Nat /\ Len(shown) \in Nat
    BY <1>2, LenProperties
  <1>4. CASE queue = <<>>
    <2>1. current' = None /\ queue' = queue /\ open' = open /\ shown' = shown
      BY <1>1, <1>4 DEF Process
    <2> QED BY <1>1, <1>4, <2>1 DEF ToastsInOrder
  <1>5. CASE queue # <<>>
    <2>1. /\ current' = Head(queue) /\ queue' = Tail(queue) /\ open' = TRUE
          /\ shown' = Append(shown, Head(queue))
      BY <1>1, <1>5 DEF Process
    <2>2. /\ Head(queue) \in T /\ Tail(queue) \in Seq(T) /\ Len(Tail(queue)) = Len(queue) - 1
          /\ \A i \in 1..Len(Tail(queue)) : Tail(queue)[i] = queue[i + 1]
      BY <1>2, <1>5, HeadTailProperties
    <2>3. Len(queue) # 0
      BY <1>2, <1>5, EmptySeq
    <2>4. Head(queue) = Len(shown) + 1
      <3>1. Head(queue) = queue[1]
        BY <1>5
      <3> QED BY <1>3, <2>3, <3>1 DEF ToastsInOrder
    <2>5. /\ Len(shown') = Len(shown) + 1 /\ shown' # <<>>
          /\ \A i \in 1..Len(shown) : shown'[i] = shown[i]
          /\ shown'[Len(shown) + 1] = Head(queue)
      BY <1>2, <2>1, <2>2, AppendProperties
    <2>6. \A i \in 1..Len(shown') : shown'[i] = i
      <3>1. \A i \in 1..Len(shown) : shown'[i] = i
        BY <2>5 DEF ToastsInOrder
      <3> QED BY <1>3, <2>4, <2>5, <3>1
    <2>7. Len(queue') = Len(queue) - 1
      BY <2>1, <2>2
    <2>8. \A i \in 1..Len(queue') : queue'[i] = Len(shown') + i
      <3>1. ASSUME NEW i \in 1..(Len(queue) - 1) PROVE queue'[i] = (Len(shown) + 1) + i
        <4>1. queue'[i] = queue[i + 1]
          BY <2>1, <2>2
        <4>2. i + 1 \in 1..Len(queue)
          BY <1>3
        <4>3. queue[i + 1] = Len(shown) + (i + 1)
          BY <4>2 DEF ToastsInOrder
        <4> QED BY <1>3, <4>1, <4>3
      <3> QED BY <2>5, <2>7, <3>1
    <2>9. Len(shown') + Len(queue') = asked'
      BY <1>1, <1>3, <2>5, <2>7 DEF ToastsInOrder
    <2>10. current' = Len(shown') /\ current' # None
      BY <1>3, <2>1, <2>4, <2>5, ToastsAssumption
    <2> QED BY <2>5, <2>6, <2>8, <2>9, <2>10 DEF ToastsInOrder
  <1> QED BY <1>4, <1>5

LEMMA InOrderNext ==
    ASSUME ToastsTypeOK, ToastsInOrder, ShowToast \/ ToastsNext \/ UNCHANGED toasts
    PROVE  ToastsInOrder'
  <1>1. CASE ShowToast
    BY <1>1, InOrderShow
  <1>2. CASE Exited
    BY <1>2, InOrderExited
  <1>3. CASE Dismiss \/ AutoHide
    BY <1>3 DEF Dismiss, AutoHide, ToastsInOrder
  <1>4. CASE Hold \/ Release \/ UNCHANGED toasts
    <2>1. asked' = asked /\ current' = current /\ open' = open
      BY <1>4 DEF Hold, Release, toasts
    <2>2. queue' = queue /\ shown' = shown
      BY <1>4 DEF Hold, Release, toasts
    <2> QED BY <2>1, <2>2 DEF ToastsInOrder
  <1> QED BY <1>1, <1>2, <1>3, <1>4 DEF ToastsNext

-----------------------------------------------------------------------------
(* The invariants of the generator page *)

Generators == {"password", "passphrase", "username"}

\* Every press is under way or asked for its toast, and the result of the password
\* generator is no longer than the slider and the minimums allow.
GeneratorInv ==
    /\ tab \in Generators
    /\ GeneratorTypeOK
    /\ copying + asked = presses
    /\ tab = "password" => \E n \in 0..(2 * MaxMinimum) : result \in Lists(n, Pools)
    /\ ResultFits

LEMMA DefaultsAreOptions ==
    ASSUME NEW t \in Generators
    PROVE  Defaults(t) \subseteq Options(t)
  <1>1. CASE t = "password"
    BY <1>1 DEF Defaults, Options
  <1>2. CASE t = "passphrase"
    BY <1>2 DEF Defaults, Options
  <1>3. CASE t = "username"
    <2>1. [style |-> "adjective-noun", separator |-> "", includeNumber |-> TRUE] \in UsernameOptions
      BY SeparatorsAssumption DEF UsernameOptions
    <2> QED BY <1>3, <2>1 DEF Defaults, Options
  <1> QED BY <1>1, <1>2, <1>3 DEF Generators

\* A password is no longer than the page allows.
LEMMA PasswordLength ==
    ASSUME NEW o \in PasswordOptions, NEW r \in GeneratePassword[o]
    PROVE  \E n \in 0..(2 * MaxMinimum) : r \in Lists(n, Pools)
  <1>1. CASE o.pools = {}
    <2>1. r = <<>>
      BY <1>1 DEF GeneratePassword
    <2>2. r \in Lists(0, Pools) /\ 0 \in 0..(2 * MaxMinimum)
      BY <2>1, LengthsAssumption DEF Lists
    <2> QED BY <2>2
  <1>2. CASE o.pools # {}
    <2> DEFINE n == Greater(o.length, Digits(o) + Signs(o))
    <2>1. r \in Lists(n, o.pools)
      BY <1>2, PasswordFits DEF FitsPassword
    <2>2. n \in 0..(2 * MaxMinimum) /\ o.pools \subseteq Pools
      <3>1. /\ o.length \in 0..(2 * MaxMinimum) /\ o.pools \subseteq Pools
            /\ Digits(o) \in 0..MaxMinimum /\ Signs(o) \in 0..MaxMinimum
        BY PasswordOptionTypes
      <3> QED BY <3>1, LengthsAssumption DEF Greater
    <2> HIDE DEF n
    <2>3. r \in Lists(n, Pools)
      BY <2>1, <2>2 DEF Lists
    <2> QED BY <2>2, <2>3
  <1> QED BY <1>1, <1>2

\* What the effect or the button brings fits the options it was made for.
LEMMA RegenerateFits == GeneratorInv /\ Regenerate => ResultFits'
  <1> SUFFICES ASSUME GeneratorInv, Regenerate PROVE ResultFits'
    OBVIOUS
  <1>1. result' \in Generate(tab, options) /\ tab' = tab /\ options' = options /\ tab \in Generators
    BY DEF Regenerate, GeneratorInv
  <1>2. options \in Options(tab)
    BY DEF GeneratorInv, GeneratorTypeOK
  <1>3. CASE tab = "password"
    <2>1. options \in PasswordOptions /\ result' \in GeneratePassword[options]
      BY <1>1, <1>2, <1>3 DEF Options, Generate
    <2>2. CASE options.pools = {}
      <3>1. result' = <<>>
        BY <2>1, <2>2 DEF GeneratePassword
      <3> QED BY <1>1, <1>3, <2>2, <3>1 DEF ResultFits
    <2>3. CASE options.pools # {}
      <3> DEFINE n == Greater(options.length, Digits(options) + Signs(options))
      <3>1. FitsPassword(options, result')
        BY <2>1, <2>3, PasswordFits
      <3>2. result' \in Lists(n, options.pools)
        BY <3>1 DEF FitsPassword
      <3>3. n \in Nat
        BY <2>1, PasswordOptionTypes, LengthsAssumption DEF Greater
      <3>4. Cardinality({i \in 1..n : result'[i] = "numbers"}) >= Digits(options)
        BY <3>1 DEF FitsPassword
      <3>5. Cardinality({i \in 1..n : result'[i] = "special"}) >= Signs(options)
        BY <3>1 DEF FitsPassword
      <3> HIDE DEF n
      <3>6. Len(result') = n /\ DOMAIN result' = 1..n
        BY <3>2, <3>3, ListIsSequence
      <3>7. {result'[i] : i \in DOMAIN result'} \subseteq options.pools
        BY <3>2, <3>3, <3>6, ListItem
      <3>8. Count("numbers")' >= Digits(options) /\ Count("special")' >= Signs(options)
        BY <3>4, <3>5, <3>6 DEF Count
      <3> QED BY <1>1, <1>3, <2>3, <3>6, <3>7, <3>8 DEF ResultFits, Digits, Signs, n
    <2> QED BY <2>2, <2>3
  <1>4. CASE tab = "passphrase"
    <2>1. options \in PassphraseOptions /\ result' \in GeneratePassphrase[options]
      BY <1>1, <1>2, <1>4 DEF Options, Generate
    <2> DEFINE m == options.wordCount + (IF options.includeNumber THEN 1 ELSE 0)
    <2>2. Joined(result', m, options.separator)
      BY <2>1, PassphraseFits
    <2> HIDE DEF m
    <2>3. Parts' = m
      BY <2>2 DEF Parts, Joined
    <2>4. Count(options.separator)' = m - 1
      <3>1. Cardinality({i \in DOMAIN result' : result'[i] = options.separator}) = m - 1
        BY <2>2 DEF Joined
      <3> QED BY <1>1, <3>1 DEF Count
    <2> QED BY <1>1, <1>4, <2>3, <2>4 DEF ResultFits, m
  <1>5. CASE tab = "username"
    <2>1. options \in UsernameOptions /\ result' \in GenerateUsername[options]
      BY <1>1, <1>2, <1>5 DEF Options, Generate
    <2> DEFINE m == (IF options.style = "single-word" THEN 1 ELSE 2) + (IF options.includeNumber THEN 1 ELSE 0)
    <2>2. PartsOf(result') = m
      BY <2>1, UsernameFits
    <2> HIDE DEF m
    <2>3. Parts' = m
      BY <2>2 DEF Parts, PartsOf
    <2> QED BY <1>1, <1>5, <2>3 DEF ResultFits, m
  <1> QED BY <1>1, <1>3, <1>4, <1>5 DEF Generators

LEMMA GeneratorInvInit == GeneratorInit => GeneratorInv
  <1> SUFFICES ASSUME GeneratorInit PROVE GeneratorInv
    OBVIOUS
  <1>1. tab = "password" /\ tab \in Generators /\ due = TRUE /\ result = <<>>
    BY DEF GeneratorInit, Generators
  <1>2. options \in Options(tab)
    <2>1. options \in Defaults(tab)
      BY DEF GeneratorInit
    <2> QED BY <1>1, <2>1, DefaultsAreOptions
  <1>3. ToastsTypeOK /\ asked = 0 /\ copying = 0 /\ presses = 0
    BY ToastsTypeInit DEF GeneratorInit, ToastsInit
  <1>4. GeneratorTypeOK
    BY <1>1, <1>2, <1>3, ToastsAssumption DEF GeneratorTypeOK
  <1>5. result \in Lists(0, Pools) /\ 0 \in 0..(2 * MaxMinimum)
    BY <1>1, LengthsAssumption DEF Lists
  <1>6. ResultFits
    BY <1>1 DEF ResultFits
  <1> QED BY <1>1, <1>3, <1>4, <1>5, <1>6 DEF GeneratorInv

\* What a control makes of the options are options of the same generator.
LEMMA UpdateNext ==
    ASSUME GeneratorInv, UpdatePassword \/ UpdatePassphrase \/ UpdateUsername
    PROVE  /\ options' \in Options(tab) /\ due' = TRUE
           /\ UNCHANGED <<tab, result, copying, presses>> /\ UNCHANGED toasts
  <1>1. CASE UpdatePassword
    <2>1. tab = "password" /\ options \in PasswordOptions
      BY <1>1 DEF UpdatePassword, GeneratorInv, GeneratorTypeOK, Options
    <2>2. options' \in PasswordOptions
      <3>1. CASE \E n \in Lengths : Update([options EXCEPT !.length = n])
        BY <2>1, <3>1 DEF Update, PasswordOptions
      <3>2. CASE \E p \in Pools : Update([options EXCEPT !.pools =
                     IF p \in options.pools THEN options.pools \ {p} ELSE options.pools \cup {p}])
        BY <2>1, <3>2 DEF Update, PasswordOptions
      <3>3. CASE \E n \in 0..MaxMinimum : Update([options EXCEPT !.minNumbers = n])
        BY <2>1, <3>3 DEF Update, PasswordOptions
      <3>4. CASE \E n \in 0..MaxMinimum : Update([options EXCEPT !.minSpecial = n])
        BY <2>1, <3>4 DEF Update, PasswordOptions
      <3> QED BY <1>1, <3>1, <3>2, <3>3, <3>4 DEF UpdatePassword
    <2> QED BY <1>1, <2>1, <2>2 DEF UpdatePassword, Update, Options
  <1>2. CASE UpdatePassphrase
    BY <1>2 DEF UpdatePassphrase, Update, Options
  <1>3. CASE UpdateUsername
    BY <1>3 DEF UpdateUsername, Update, Options
  <1> QED BY <1>1, <1>2, <1>3

LEMMA GeneratorInvNext == GeneratorInv /\ [GeneratorNext]_generatorVars => GeneratorInv'
  <1> SUFFICES ASSUME GeneratorInv, [GeneratorNext]_generatorVars PROVE GeneratorInv'
    OBVIOUS
  <1>1. /\ tab \in Generators /\ options \in Options(tab) /\ due \in BOOLEAN /\ ToastsTypeOK
        /\ copying \in 0..MaxToasts /\ presses \in 0..MaxToasts /\ asked \in 0..MaxToasts
        /\ copying + asked = presses /\ MaxToasts \in Nat
    BY ToastsAssumption DEF GeneratorInv, GeneratorTypeOK, ToastsTypeOK
  <1> DEFINE Bounded(r) == \E n \in 0..(2 * MaxMinimum) : r \in Lists(n, Pools)
  <1>2. tab = "password" => Bounded(result)
    BY DEF GeneratorInv
  <1>3. ASSUME NEW t \in Generators, SelectTab(t) PROVE GeneratorInv'
    <2>1. /\ tab' = t /\ options' \in Defaults(t) /\ result' = <<>> /\ due' = TRUE
          /\ UNCHANGED <<copying, presses>> /\ UNCHANGED toasts
      BY <1>3 DEF SelectTab, Mounted
    <2>2. options' \in Options(tab')
      BY <2>1, DefaultsAreOptions
    <2>3. ToastsTypeOK' /\ asked' = asked
      BY <1>1, <2>1, ToastsTypeNext DEF toasts
    <2>4. Bounded(result')
      <3>1. result' \in Lists(0, Pools) /\ 0 \in 0..(2 * MaxMinimum)
        BY <2>1, LengthsAssumption DEF Lists
      <3> QED BY <3>1
    <2>5. ResultFits'
      BY <2>1 DEF ResultFits
    <2> HIDE DEF Bounded
    <2>6. GeneratorTypeOK'
      BY <1>1, <2>1, <2>2, <2>3 DEF GeneratorTypeOK
    <2> QED BY <1>1, <2>1, <2>3, <2>4, <2>5, <2>6 DEF GeneratorInv, Bounded
  <1>4. CASE Regenerate
    <2>1. /\ tab' = tab /\ options' = options /\ due' = FALSE /\ result' \in Generate(tab, options)
          /\ UNCHANGED <<copying, presses>> /\ UNCHANGED toasts
      BY <1>4 DEF Regenerate
    <2>2. ToastsTypeOK' /\ asked' = asked
      BY <1>1, <2>1, ToastsTypeNext DEF toasts
    <2>3. tab = "password" => Bounded(result')
      <3>1. tab = "password" => options \in PasswordOptions /\ result' \in GeneratePassword[options]
        BY <1>1, <2>1 DEF Options, Generate
      <3> QED BY <3>1, PasswordLength
    <2>4. ResultFits'
      BY <1>4, RegenerateFits
    <2> HIDE DEF Bounded
    <2>5. GeneratorTypeOK'
      BY <1>1, <2>1, <2>2 DEF GeneratorTypeOK
    <2> QED BY <1>1, <2>1, <2>2, <2>3, <2>4, <2>5 DEF GeneratorInv, Bounded
  <1>5. CASE UpdatePassword \/ UpdatePassphrase \/ UpdateUsername
    <2>1. /\ options' \in Options(tab) /\ due' = TRUE
          /\ UNCHANGED <<tab, result, copying, presses>> /\ UNCHANGED toasts
      BY <1>5, UpdateNext
    <2>2. ToastsTypeOK' /\ asked' = asked
      BY <1>1, <2>1, ToastsTypeNext DEF toasts
    <2>3. ResultFits'
      BY <2>1 DEF ResultFits
    <2> HIDE DEF Bounded
    <2>4. GeneratorTypeOK'
      BY <1>1, <2>1, <2>2 DEF GeneratorTypeOK
    <2> QED BY <1>1, <1>2, <2>1, <2>2, <2>3, <2>4 DEF GeneratorInv, Bounded
  <1>6. ASSUME UNCHANGED <<tab, options, result, due>>,
               ShowToast \/ ToastsNext \/ UNCHANGED toasts,
               copying' \in 0..MaxToasts, presses' \in 0..MaxToasts,
               copying' + asked' = presses'
        PROVE  GeneratorInv'
    <2>1. ToastsTypeOK'
      BY <1>1, <1>6, ToastsTypeNext
    <2>2. ResultFits'
      BY <1>6 DEF GeneratorInv, ResultFits, Count, Parts
    <2> HIDE DEF Bounded
    <2>3. GeneratorTypeOK'
      BY <1>1, <1>6, <2>1 DEF GeneratorTypeOK
    <2> QED BY <1>1, <1>2, <1>6, <2>2, <2>3 DEF GeneratorInv, Bounded
  <1>7. CASE Copy
    <2>1. /\ presses < MaxToasts /\ presses' = presses + 1 /\ copying' = copying + 1
          /\ UNCHANGED <<tab, options, result, due>> /\ UNCHANGED toasts /\ asked' = asked
      BY <1>7 DEF Copy, toasts
    <2>2. presses' \in 0..MaxToasts /\ copying' \in 0..MaxToasts /\ copying' + asked' = presses'
      BY <1>1, <2>1
    <2> QED BY <1>6, <2>1, <2>2
  <1>8. CASE Copied
    <2>1. /\ copying > 0 /\ copying' = copying - 1 /\ ShowToast /\ asked' = asked + 1
          /\ UNCHANGED <<tab, options, result, due>> /\ presses' = presses
      BY <1>8 DEF Copied, ShowToast
    <2>2. presses' \in 0..MaxToasts /\ copying' \in 0..MaxToasts /\ copying' + asked' = presses'
      BY <1>1, <2>1
    <2> QED BY <1>6, <2>1, <2>2
  <1>9. CASE ToastsNext /\ UNCHANGED pageVars
    <2>1. UNCHANGED <<tab, options, result, due>> /\ copying' = copying /\ presses' = presses
      BY <1>9 DEF pageVars
    <2>2. asked' = asked
      BY <1>9 DEF ToastsNext, Dismiss, AutoHide, Hold, Release, Exited
    <2> QED BY <1>1, <1>6, <1>9, <2>1, <2>2
  <1>10. CASE UNCHANGED generatorVars
    <2>1. /\ UNCHANGED <<tab, options, result, due>> /\ copying' = copying /\ presses' = presses
          /\ UNCHANGED toasts /\ asked' = asked
      BY <1>10 DEF generatorVars, pageVars, toasts
    <2> QED BY <1>1, <1>6, <2>1
  <1> QED BY <1>3, <1>4, <1>5, <1>7, <1>8, <1>9, <1>10 DEF GeneratorNext, Generators

\* Whatever is on the page has a length whose orders the shuffle makes evenly.
LEMMA InvUnbiased == GeneratorInv => Unbiased
  <1> SUFFICES ASSUME GeneratorInv PROVE Unbiased
    OBVIOUS
  <1>1. ASSUME tab = "password", result # <<>> PROVE Len(result) \in EvenShuffles
    <2>1. PICK n \in 0..(2 * MaxMinimum) : result \in Lists(n, Pools)
      BY <1>1 DEF GeneratorInv
    <2>2. n \in Nat
      BY LengthsAssumption
    <2>3. Len(result) = n
      BY <2>1, <2>2, ListIsSequence
    <2>4. n # 0
      BY <1>1, <2>1 DEF Lists
    <2>5. n \in 1..(2 * MaxMinimum)
      BY <2>2, <2>4, LengthsAssumption
    <2> QED BY <2>3, <2>5, EveryShuffleEven
  <1> QED BY <1>1, EveryDrawEven DEF Unbiased

\* The inductive invariant of the page holds throughout.
LEMMA GeneratorInvariant == GeneratorSpec => []GeneratorInv
  BY GeneratorInvInit, GeneratorInvNext, PTL DEF GeneratorSpec

\* Whatever was switched, typed or pressed, the options on the page are those of
\* the generator that is mounted, and the copies and toasts keep to their bounds.
THEOREM GeneratorTypeCorrect == GeneratorSpec => []GeneratorTypeOK
  <1>1. GeneratorInv => GeneratorTypeOK
    BY DEF GeneratorInv
  <1> QED BY <1>1, GeneratorInvariant, PTL

\* For any pools, lengths, words and separators: once the effect has run, the result
\* on the page is one its options ask for, the minimums of a password included,
\* which the shuffle moves but never loses.
THEOREM ResultsFit == GeneratorSpec => []ResultFits
  <1>1. GeneratorInv => ResultFits
    BY DEF GeneratorInv
  <1> QED BY <1>1, GeneratorInvariant, PTL

\* For any word size secureRandomInt gives every value from equally many words, and
\* secureShuffle gives every order of a password of any length by one run of draws
\* and no more.
THEOREM GeneratorUnbiased == GeneratorSpec => []Unbiased
  BY InvUnbiased, GeneratorInvariant, PTL

\* However toasts are asked for, held, closed and timed out, they are shown in the
\* order of the calls, none twice, none lost and none left waiting for a free place.
THEOREM ToastsKeepOrder == GeneratorSpec => []ToastsInOrder
  <1>1. GeneratorInit => ToastsInOrder
    <2> SUFFICES ASSUME GeneratorInit PROVE ToastsInOrder
      OBVIOUS
    <2>1. queue = <<>> /\ shown = <<>> /\ asked = 0 /\ current = None /\ open = FALSE
      BY DEF GeneratorInit, ToastsInit
    <2>2. Len(queue) = 0 /\ Len(shown) = 0
      BY <2>1, EmptySeq
    <2> QED BY <2>1, <2>2 DEF ToastsInOrder
  <1>2. GeneratorInv /\ ToastsInOrder /\ [GeneratorNext]_generatorVars => ToastsInOrder'
    <2> SUFFICES ASSUME GeneratorInv, ToastsInOrder, [GeneratorNext]_generatorVars PROVE ToastsInOrder'
      OBVIOUS
    <2>1. ToastsTypeOK
      BY DEF GeneratorInv, GeneratorTypeOK
    <2>2. ShowToast \/ ToastsNext \/ UNCHANGED toasts
      BY DEF GeneratorNext, generatorVars, SelectTab, Regenerate, UpdatePassword, UpdatePassphrase,
             UpdateUsername, Update, Copy, Copied
    <2> QED BY <2>1, <2>2, InOrderNext
  <1> QED BY <1>1, <1>2, GeneratorInvariant, PTL DEF GeneratorSpec
=============================================================================
