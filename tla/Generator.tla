----------------------------- MODULE Generator ------------------------------
(***************************************************************************)
(* The generators of passwords, passphrases and usernames, and the page     *)
(* that keeps a result for the options on it and copies it to the clipboard.*)
(*                                                                         *)
(* A character is the pool it comes from, a word is a token.  A generator is *)
(* the set of what it can return, over every word that getRandomValues can  *)
(* give and secureRandomInt accepts.                                        *)
(***************************************************************************)
EXTENDS Toasts, FiniteSets

CONSTANTS
    WordSize,      \* the values of a word of getRandomValues, 2^32
    Pools,         \* the pools of characters: "numbers", "special", ...
    Lengths,       \* the lengths of the slider
    MaxMinimum,    \* bound: what is entered as a minimum
    Words, Adjectives, Nouns,  \* PASSPHRASE_WORDS, USERNAME_ADJECTIVES, USERNAME_NOUNS
    WordCounts,    \* the numbers of words of the slider
    Separators     \* of both generators; "" is none

ASSUME PoolsAssumption == {"numbers", "special"} \subseteq Pools
ASSUME LengthsAssumption ==
    MaxMinimum \in Nat /\ Lengths \subseteq 0..(2 * MaxMinimum) /\ WordCounts \subseteq Nat \ {0}
ASSUME SeparatorsAssumption == "" \in Separators
ASSUME TokensAssumption == (Words \cup Adjectives \cup Nouns \cup {"number"}) \cap Separators = {}
ASSUME WordSizeAssumption == WordSize \in Nat \ {0}

VARIABLES
    tab,           \* the generator that is mounted
    options, result,
    due,           \* the effect on options is due
    copying,       \* copies under way
    presses        \* history: how often Copy was pressed

pageVars == <<tab, options, result, due, copying, presses>>
generatorVars == <<pageVars, toasts>>

Greater(a, b) == IF a > b THEN a ELSE b
Repeat(x, n) == [i \in 1..n |-> x]

-----------------------------------------------------------------------------
(* Mutants: what a bug would make of the definitions below *)

\* Every word is accepted.
LimitOfAllWords(max) == WordSize

\* An assignment where the two elements should be exchanged.
SwappedHalf(s, i, j) == [s EXCEPT ![i] = s[j]]

\* A tab that keeps the options of the one before.
SelectTabBare(t) == t # tab /\ tab' = t /\ due' = TRUE /\ UNCHANGED <<options, result, copying, presses, toasts>>

-----------------------------------------------------------------------------
(* secureRandomInt and secureShuffle *)

Limit(max) == ((WordSize - 1) \div max) * max

\* The words that end the loop, and those of them that give r.
Accepted(max) == {w \in 0..(WordSize - 1) : w < Limit(max)}
WordsFor(max, r) == {w \in Accepted(max) : w % max = r}

Swapped(s, i, j) == [s EXCEPT ![i] = s[j], ![j] = s[i]]

\* The draws of one shuffle, j + 1 for every i + 1, and what they make of s: arr as
\* it is when the loop has come down to i.
Picks(n) == {pick \in [2..n -> 1..n] : \A i \in 2..n : pick[i] <= i}
Stages(s, pick) ==
    LET arr[i \in 1..Len(s)] ==
            IF i = Len(s) THEN s ELSE Swapped(arr[i + 1], i + 1, pick[i + 1])
    IN arr
SecureShuffle(s, pick) == IF s = <<>> THEN s ELSE Stages(s, pick)[1]

-----------------------------------------------------------------------------
(* The generators *)

PasswordOptions == [length : Lengths, pools : SUBSET Pools,
                    minNumbers : 0..MaxMinimum, minSpecial : 0..MaxMinimum]
PassphraseOptions == [wordCount : WordCounts, separator : Separators \ {""}, includeNumber : BOOLEAN]
UsernameOptions == [style : {"adjective-noun", "noun-noun", "single-word"},
                    separator : Separators, includeNumber : BOOLEAN]
Options(t) == CASE t = "password" -> PasswordOptions
                [] t = "passphrase" -> PassphraseOptions
                [] t = "username" -> UsernameOptions

Required(o) ==
    (IF "numbers" \in o.pools THEN Repeat("numbers", o.minNumbers) ELSE <<>>)
        \o (IF "special" \in o.pools THEN Repeat("special", o.minSpecial) ELSE <<>>)

GeneratePassword ==
    [o \in PasswordOptions |->
        IF o.pools = {} THEN {<<>>}
        ELSE LET n == Greater(o.length, Len(Required(o))) IN
             {SecureShuffle(Required(o) \o rest, pick) :
                rest \in [1..(n - Len(Required(o))) -> o.pools], pick \in Picks(n)}]

Join(parts, separator) ==
    IF separator = "" THEN parts
    ELSE [i \in 1..(2 * Len(parts) - 1) |-> IF i % 2 = 1 THEN parts[(i + 1) \div 2] ELSE separator]

GeneratePassphrase ==
    [o \in PassphraseOptions |->
        {Join(words \o Repeat("number", IF o.includeNumber THEN 1 ELSE 0), o.separator) :
            words \in [1..o.wordCount -> Words]}]

GenerateUsername ==
    [o \in UsernameOptions |->
        LET parts == CASE o.style = "adjective-noun" -> {<<a, n>> : a \in Adjectives, n \in Nouns}
                       [] o.style = "noun-noun" -> Nouns \X Nouns
                       [] o.style = "single-word" -> {<<n>> : n \in Nouns}
        IN {Join(p, o.separator) \o Repeat("number", IF o.includeNumber THEN 1 ELSE 0) : p \in parts}]

Generate(t, o) == CASE t = "password" -> GeneratePassword[o]
                    [] t = "passphrase" -> GeneratePassphrase[o]
                    [] t = "username" -> GenerateUsername[o]

-----------------------------------------------------------------------------
(* The page *)

\* The options a generator is mounted with; Lengths and WordCounts stand for
\* those of the sliders, so that any of them may be the first.
Defaults(t) ==
    CASE t = "password" -> {o \in PasswordOptions : o.pools = Pools /\ o.minNumbers = 1 /\ o.minSpecial = 1}
      [] t = "passphrase" -> {o \in PassphraseOptions : o.separator = "-" /\ o.includeNumber}
      [] t = "username" -> {[style |-> "adjective-noun", separator |-> "", includeNumber |-> TRUE]}

Mounted(t) ==
    /\ tab' = t
    /\ options' \in Defaults(t)
    /\ result' = <<>>
    /\ due' = TRUE

\* A TabPanel renders what is in it only while it is selected.
SelectTab(t) == t # tab /\ Mounted(t) /\ UNCHANGED <<copying, presses, toasts>>

\* The button, and the effect on options.
Regenerate ==
    /\ result' \in Generate(tab, options)
    /\ due' = FALSE
    /\ UNCHANGED <<tab, options, copying, presses, toasts>>

Update(o) ==
    /\ options' = o
    /\ due' = TRUE
    /\ UNCHANGED <<tab, result, copying, presses, toasts>>

\* The controls of the password: a minimum is disabled while its pool is off.
UpdatePassword ==
    /\ tab = "password"
    /\ \/ \E n \in Lengths : Update([options EXCEPT !.length = n])
       \/ \E p \in Pools : Update([options EXCEPT !.pools =
              IF p \in options.pools THEN options.pools \ {p} ELSE options.pools \cup {p}])
       \/ \E n \in 0..MaxMinimum : /\ "numbers" \in options.pools
                                   /\ Update([options EXCEPT !.minNumbers = n])
       \/ \E n \in 0..MaxMinimum : /\ "special" \in options.pools
                                   /\ Update([options EXCEPT !.minSpecial = n])

\* A toggle that is pressed again has no new value, and update is not called.
UpdatePassphrase ==
    /\ tab = "passphrase"
    /\ \E o \in PassphraseOptions : o # options /\ Update(o)

\* The separator is disabled for a single word.
UpdateUsername ==
    /\ tab = "username"
    /\ \E o \in UsernameOptions :
         /\ o # options
         /\ options.style = "single-word" => o.separator = options.separator
         /\ Update(o)

\* handleCopy up to its await.
Copy ==
    /\ result # <<>>
    /\ presses < MaxToasts
    /\ presses' = presses + 1
    /\ copying' = copying + 1
    /\ UNCHANGED <<tab, options, result, due, toasts>>

\* The write worked or failed, and a toast says which.
Copied ==
    /\ copying > 0
    /\ copying' = copying - 1
    /\ ShowToast
    /\ UNCHANGED <<tab, options, result, due, presses>>

-----------------------------------------------------------------------------
GeneratorInit ==
    /\ tab = "password"
    /\ options \in Defaults("password")
    /\ result = <<>> /\ due = TRUE
    /\ copying = 0 /\ presses = 0
    /\ ToastsInit

GeneratorNext ==
    \/ \E t \in {"password", "passphrase", "username"} : SelectTab(t)
    \/ Regenerate
    \/ UpdatePassword
    \/ UpdatePassphrase
    \/ UpdateUsername
    \/ Copy
    \/ Copied
    \/ ToastsNext /\ UNCHANGED pageVars

\* The clipboard answers.
GeneratorSpec == GeneratorInit /\ [][GeneratorNext]_generatorVars /\ WF_generatorVars(Copied) /\ ToastsFairness

-----------------------------------------------------------------------------
\* The options are those of the generator that is mounted, and the toasts keep
\* to their types.
GeneratorTypeOK ==
    /\ options \in Options(tab)
    /\ due \in BOOLEAN
    /\ copying \in 0..MaxToasts /\ presses \in 0..MaxToasts
    /\ ToastsTypeOK

Count(x) == Cardinality({i \in DOMAIN result : result[i] = x})
Parts == Cardinality({i \in DOMAIN result : result[i] \notin Separators})

\* Whatever was switched, typed or mounted before, the result on the page is one
\* the options ask for: a password from the selected pools alone, as long as the
\* length or the minimums ask, with both minimums in it after the shuffle; a
\* passphrase of so many words; a username of the parts of its style.
ResultFits ==
    ~due =>
        CASE tab = "password" /\ options.pools = {} -> result = <<>>
          [] tab = "password" /\ options.pools # {} ->
                LET digits == IF "numbers" \in options.pools THEN options.minNumbers ELSE 0
                    signs == IF "special" \in options.pools THEN options.minSpecial ELSE 0 IN
                /\ {result[i] : i \in DOMAIN result} \subseteq options.pools
                /\ Len(result) = Greater(options.length, digits + signs)
                /\ Count("numbers") >= digits /\ Count("special") >= signs
          [] tab = "passphrase" ->
                /\ Parts = options.wordCount + (IF options.includeNumber THEN 1 ELSE 0)
                /\ Count(options.separator) = Parts - 1
          [] tab = "username" ->
                Parts = (IF options.style = "single-word" THEN 1 ELSE 2)
                                + (IF options.includeNumber THEN 1 ELSE 0)

\* The max whose every value a draw gives from equally many words, and one at
\* least; the lengths whose every order one run of draws, and one only, makes.
EvenDraws ==
    {max \in 1..(WordSize - 1) : \A r \in 0..(max - 1) :
        /\ WordsFor(max, r) # {}
        /\ Cardinality(WordsFor(max, r)) = Cardinality(WordsFor(max, 0))}
Identity(n) == [i \in 1..n |-> i]
Orders(n) == {s \in [1..n -> 1..n] : \A i, j \in 1..n : s[i] = s[j] => i = j}
EvenShuffles ==
    {n \in 1..(2 * MaxMinimum) :
        \A s \in Orders(n) : Cardinality({p \in Picks(n) : SecureShuffle(Identity(n), p) = s}) = 1}

\* secureRandomInt favours no value below any max, and secureShuffle no order of
\* the characters of the password on the page.
Unbiased ==
    /\ EvenDraws = 1..(WordSize - 1)
    /\ tab = "password" /\ result # <<>> => Len(result) \in EvenShuffles

\* Every press of Copy is answered by a toast of its own, in the order of the
\* answers, whatever is pressed meanwhile and whichever tab is open by then, if the
\* user does not come back to hold toasts for ever.
EveryPressIsTold ==
    <>[]~held => \A n \in 1..MaxToasts : presses >= n ~> Len(shown) >= n /\ shown[n] = n
=============================================================================
