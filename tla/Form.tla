-------------------------------- MODULE Form --------------------------------
(***************************************************************************)
(* The dialog that adds an item to the vault and, as a second instance, the *)
(* one that edits an item.  What the user enters is kept twice: every Input *)
(* has a reducer of its own, and the form has a copy it validates and       *)
(* saves.  Effects carry a change from an Input to the form and from the    *)
(* form to its Inputs, and picking a type or opening the dialog resets the  *)
(* one under the other.                                                     *)
(*                                                                         *)
(* Effects are run one commit at a time: all of those a commit has due see  *)
(* what it rendered, and what they dispatch is rendered together.  In which  *)
(* order React takes an event that comes in between is not modelled.  A      *)
(* dialog that closes is unmounted at once, while Material UI keeps it until *)
(* its transition has ended: what is done to it meanwhile is not modelled.   *)
(***************************************************************************)
CONSTANTS
    Types,         \* the types of TYPE_OPTIONS this instance has
    Texts,         \* what a field can hold: "", " " for blanks, and texts
    Stored,        \* bound: the texts of the items that are edited
    Generated,     \* the text that stands for a generated password
    Pools,         \* the checkboxes of the generator
    Patient,       \* assumed: the effects of one event run before the next event
    None

TYPE_FIELDS ==
    [login    |-> {"username", "password", "url", "notes"},
     card     |-> {"cardholderName", "number", "expiry", "cvv", "notes"},
     note     |-> {"content"},
     identity |-> {"fullName", "email", "phone", "address"},
     ssh_key  |-> {"host", "privateKey", "publicKey", "notes"}]

Required == {"title", "username", "password", "cardholderName", "number", "expiry",
             "cvv", "content", "fullName", "privateKey"}
Password == {"password", "cvv", "privateKey"}   \* a PasswordFieldWithGenerator

ASSUME TypesAssumption == "login" \in Types /\ Types \subseteq DOMAIN TYPE_FIELDS
ASSUME TextsAssumption == {"", Generated} \cup Stored \subseteq Texts /\ Generated \notin {"", " "}

VARIABLES
    mode,          \* which instance this is: "add" or "edit"
    open,
    item,          \* the item that is edited: its type and content
    type, inputs, formValid,   \* the state of the form
    select,        \* the Input of the type
    box,           \* the Inputs of the title and of the fields that are no password
    seed,          \* the effect that fills the form of a dialog just opened is due
    gen,           \* the generator of the password field
    saving,        \* isSubmitting
    intent         \* history: what the user was shown and has entered since

form == <<type, inputs, formValid>>
vars == <<mode, open, item, form, select, box, seed, gen, saving, intent>>

Fields(t) == {"title"} \cup TYPE_FIELDS[t]
Boxes(t) == Fields(t) \ Password

\* !!value, and the validators of an Input, which trim.
Filled(f, v) == f \in Required => v # ""
Validate(f, v) == f \in Required => v \notin {"", " "}
Accepts(f, v) == IF f \in Password THEN Filled(f, v) ELSE Validate(f, v)

Empty(t) == [f \in Fields(t) |-> ""]
Item == UNION {[type : {t}, content : [Fields(t) -> Texts]] : t \in Types}
Items == {it \in UNION {[type : {t}, content : [Fields(t) -> Stored]] : t \in Types} :
            \A f \in Fields(it.type) : Accepts(f, it.content[f])}

InputState == [value : Texts, isValid : BOOLEAN]
Box == [value : Texts, isValid : BOOLEAN, prev : Texts, told : InputState \cup {None}]
NoGenerator == [open |-> FALSE, pools |-> Pools, preview |-> "", due |-> FALSE]

\* What the form has for an Input, and what the Input last rendered.
Value(f) == IF f \in DOMAIN inputs THEN inputs[f].value ELSE ""
Said(f) == [value |-> box[f].value, isValid |-> box[f].isValid]

-----------------------------------------------------------------------------
(* Mutants: what a bug would make of the definitions below *)

\* An Input that takes the value of initialValue and keeps its validity.
AdoptedUnchecked(f) ==
    IF box[f].prev # Value(f)
    THEN [value |-> Value(f), isValid |-> box[f].isValid, prev |-> Value(f), told |-> Said(f)]
    ELSE [box[f] EXCEPT !.told = Said(f)]

\* A dialog that keeps its content mounted when it closes.
UnmountedLate == open' = FALSE /\ item' = None /\ UNCHANGED <<select, box, seed, gen, intent>>

-----------------------------------------------------------------------------
(* buildInitialInputs, Input and the effects *)

BuildInitialInputs(t, content) ==
    [f \in Fields(t) |-> [value |-> content[f], isValid |-> Filled(f, content[f])]]

Mount(f, ins) ==
    [value |-> ins[f].value, isValid |-> ins[f].isValid, prev |-> ins[f].value, told |-> None]

Reports(f) == box[f].told # Said(f)
Adopts(f) == box[f].prev # Value(f)

\* An Input after the effects of a commit: its value is reported, and a new
\* initialValue is dispatched to its reducer.
Adopted(f) ==
    IF Adopts(f)
    THEN [value |-> Value(f), isValid |-> Validate(f, Value(f)), prev |-> Value(f), told |-> Said(f)]
    ELSE [box[f] EXCEPT !.told = Said(f)]

Settled ==
    /\ ~seed /\ ~gen.due
    /\ select.told = select.value /\ select.prev = type
    /\ \A f \in DOMAIN box : ~Reports(f) /\ ~Adopts(f)

\* handleTypeChange: the select reports a type, which is locked for an item.
TypeChanges == mode = "add" /\ select.told # select.value

\* The reports of the select and then of the fields, in the order of the dialog.
Handled ==
    LET reported == {f \in DOMAIN box : Reports(f)}
        base == IF TypeChanges THEN BuildInitialInputs(select.value, Empty(select.value)) ELSE inputs
        handled == [f \in reported \cup DOMAIN base |-> IF f \in reported THEN Said(f) ELSE base[f]] IN
    /\ type' = IF TypeChanges THEN select.value ELSE type
    /\ inputs' = handled
    /\ formValid' = IF reported # {} THEN \A f \in DOMAIN handled : handled[f].isValid
                    ELSE formValid /\ ~TypeChanges

\* The effect on open and item, given the item.
Seed(it) ==
    LET t == IF it = None THEN "login" ELSE it.type IN
    /\ type' = t
    /\ inputs' = BuildInitialInputs(t, IF it = None THEN Empty(t) ELSE it.content)
    /\ formValid' = (it # None)

\* The effect of the generator on its popover and options.
Preview == IF ~gen.due THEN gen
           ELSE [gen EXCEPT !.due = FALSE, !.preview = IF gen.pools = {} THEN "" ELSE Generated]

\* The fields are keyed by the type, so that those of a new type are mounted.
Effects ==
    /\ open /\ ~Settled
    /\ IF seed THEN Seed(item) ELSE Handled
    /\ seed' = FALSE
    /\ box' = [f \in Boxes(type') |-> IF f = "title" \/ type' = type THEN Adopted(f) ELSE Mount(f, inputs')]
    /\ select' = [value |-> IF select.prev # type THEN type ELSE select.value,
                  prev |-> type, told |-> select.value]
    /\ gen' = IF type' = type THEN Preview ELSE NoGenerator
    /\ UNCHANGED <<mode, open, item, saving, intent>>

-----------------------------------------------------------------------------
(* The user *)

Ready == open /\ (Patient => Settled) /\ ~gen.open

\* The content of the dialog is mounted after the effect that fills the form has
\* run, or along with it, over what the form was left with.
Open(it) ==
    /\ ~open
    /\ mode = IF it = None THEN "add" ELSE "edit"
    /\ open' = TRUE
    /\ item' = it
    /\ intent' = IF it = None THEN [type |-> "login", content |-> Empty("login")] ELSE it
    /\ \/ Seed(it) /\ seed' = FALSE
       \/ seed' = TRUE /\ UNCHANGED form
    /\ box' = [f \in Boxes(type') |-> Mount(f, inputs')]
    /\ select' = [value |-> type', prev |-> type', told |-> None]
    /\ UNCHANGED <<mode, gen, saving>>

\* changeHandler of an Input.
TypeIn(f, v) ==
    /\ Ready
    /\ f \in DOMAIN box /\ v # box[f].value
    /\ box' = [box EXCEPT ![f].value = v, ![f].isValid = Validate(f, v)]
    /\ intent' = [intent EXCEPT !.content[f] = v]
    /\ UNCHANGED <<mode, open, item, form, select, seed, gen, saving>>

\* A new item starts over, its title too; the type of an item stays what it is.
PickType(t) ==
    /\ Ready
    /\ t # select.value
    /\ select' = [select EXCEPT !.value = t]
    /\ intent' = IF mode = "edit" THEN intent ELSE [type |-> t, content |-> Empty(t)]
    /\ UNCHANGED <<mode, open, item, form, box, seed, gen, saving>>

\* onChange of a password field, which has no state of its own: INPUT_CHANGE.
ChangePassword(f, v, isValid) ==
    /\ inputs' = [inputs EXCEPT ![f] = [value |-> v, isValid |-> isValid]]
    /\ formValid' = \A g \in DOMAIN inputs' : inputs'[g].isValid
    /\ intent' = [intent EXCEPT !.content[f] = v]
    /\ UNCHANGED <<mode, open, item, type, select, box, seed, saving>>

TypePassword(f, v) ==
    /\ Ready
    /\ f \in Fields(type) \cap Password
    /\ ChangePassword(f, v, Filled(f, v))
    /\ UNCHANGED gen

OpenGenerator ==
    /\ Ready
    /\ "password" \in Fields(type)
    /\ gen' = [gen EXCEPT !.open = TRUE, !.due = TRUE]
    /\ UNCHANGED <<mode, open, item, form, select, box, seed, saving, intent>>

CloseGenerator ==
    /\ gen.open /\ ~gen.due
    /\ gen' = [gen EXCEPT !.open = FALSE]
    /\ UNCHANGED <<mode, open, item, form, select, box, seed, saving, intent>>

ToggleOption(p) ==
    /\ gen.open /\ ~gen.due
    /\ gen' = [gen EXCEPT !.due = TRUE,
                          !.pools = IF p \in gen.pools THEN gen.pools \ {p} ELSE gen.pools \cup {p}]
    /\ UNCHANGED <<mode, open, item, form, select, box, seed, saving, intent>>

\* handleUse: nothing without a preview, and a password that is valid with one.
UsePreview ==
    /\ gen.open /\ ~gen.due
    /\ gen.preview # ""
    /\ ChangePassword("password", gen.preview, TRUE)
    /\ gen' = [gen EXCEPT !.open = FALSE]

\* submitHandler up to its request, which carries what inputs has for the fields
\* of the type.
Submit ==
    /\ Ready
    /\ formValid /\ ~saving
    /\ saving' = TRUE
    /\ UNCHANGED <<mode, open, item, form, select, box, seed, gen, intent>>

Unmounted ==
    /\ open' = FALSE
    /\ item' = None
    /\ box' = <<>>
    /\ select' = None
    /\ seed' = FALSE
    /\ gen' = NoGenerator
    /\ intent' = None

\* The cross and the backdrop, which a request under way does not disable.
Close ==
    /\ Ready
    /\ Unmounted
    /\ UNCHANGED <<mode, form, saving>>

\* An answer that is an error leaves the dialog as it is.  After a success the
\* dialog closes, whichever item it shows by now, and the list, which loads
\* again, unmounts it: what it opens with next is a new form.
SaveAnswered(ok) ==
    /\ saving
    /\ saving' = FALSE
    /\ IF ok THEN Unmounted /\ Seed(None)
       ELSE UNCHANGED <<open, item, box, select, seed, gen, intent, form>>
    /\ UNCHANGED mode

-----------------------------------------------------------------------------
Init ==
    /\ mode \in {"add", "edit"}
    /\ open = FALSE /\ item = None /\ seed = FALSE /\ saving = FALSE
    /\ type = "login"
    /\ inputs = BuildInitialInputs("login", Empty("login"))
    /\ formValid = FALSE
    /\ box = <<>> /\ select = None /\ gen = NoGenerator /\ intent = None

Next ==
    \/ Effects
    \/ \E it \in Items \cup {None} : Open(it)
    \/ \E f \in DOMAIN box, v \in Texts : TypeIn(f, v)
    \/ \E t \in Types : PickType(t)
    \/ \E f \in Password, v \in Texts : TypePassword(f, v)
    \/ OpenGenerator
    \/ CloseGenerator
    \/ \E p \in Pools : ToggleOption(p)
    \/ UsePreview
    \/ Submit
    \/ Close
    \/ \E ok \in BOOLEAN : SaveAnswered(ok)

Spec == Init /\ [][Next]_vars

-----------------------------------------------------------------------------
\* What is mounted fits the type the form is at.
TypeOK ==
    /\ mode \in {"add", "edit"}
    /\ {open, formValid, seed, saving, gen.open, gen.due} \subseteq BOOLEAN
    /\ type \in Types
    /\ inputs \in [Fields(type) -> InputState]
    /\ gen.pools \subseteq Pools /\ gen.preview \in {"", Generated}
    /\ IF open THEN /\ box \in [Boxes(type) -> Box]
                    /\ {select.value, select.prev} \subseteq Types
                    /\ select.told \in Types \cup {None}
                    /\ intent \in Item
                    /\ item \in IF mode = "add" THEN {None} ELSE Items
       ELSE box = <<>> /\ select = None /\ intent = None /\ item = None /\ ~seed

\* Between events the two copies of the form agree with each other and with what
\* the user entered, so that Save, which is enabled just when every field that
\* is required is filled, saves what is on the screen: after a dialog opened over
\* what another item left behind, and after a type was picked, tried or changed
\* back.  An item that is edited keeps its type whatever its select shows.
ShownIsSaved ==
    open /\ Settled =>
        /\ type = intent.type
        /\ \A f \in Fields(type) : inputs[f].value = intent.content[f]
        /\ \A f \in Boxes(type) : box[f].value = intent.content[f]
        /\ formValid <=> \A f \in Fields(type) : Accepts(f, intent.content[f])
        /\ IF mode = "add" THEN select.value = type ELSE type = item.type
=============================================================================
